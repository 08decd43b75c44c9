---------------------------- MODULE MCFuriRecord ----------------------------
(* FuriRecord on a small instance: two services, and three uses of their      *)
(* records, so that an open meets another open of the same name, a close and  *)
(* a destroy.                                                                 *)
EXTENDS FuriRecord

MCNames   == {"gui", "loader"}
MCClients == {"boot", "app", "cli"}
=============================================================================
