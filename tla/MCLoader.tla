------------------------------ MODULE MCLoader ------------------------------
(* Loader on small instances: two threads that start applications, one that  *)
(* executes CLI commands, an application of either kind.                     *)
EXTENDS Loader

MCStarters == {"menu", "rpc"}
MCCli      == {"cli"}
MCApps     == {"safe", "plain"}
MCSafeApps == {"safe"}
=============================================================================
