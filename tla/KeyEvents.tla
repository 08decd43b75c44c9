------------------------------ MODULE KeyEvents ------------------------------
(***************************************************************************)
(* What the input service promises those who listen to its events, and the *)
(* GUI's routing rests on (applications/services/input/input.h): Press and *)
(* Release of a key take turns, and Short, Long and Repeat ("Tap") come at *)
(* any time.  Module InputSrv implements it, module GuiInput assumes it.   *)
(***************************************************************************)
EXTENDS Naturals, Sequences

CONSTANT Keys

VARIABLES
  down,        \* the keys whose next event of the two is Release
  events       \* the events, in the order of their publication

kvars == <<down, events>>

\* The first of a key that is held at boot is a Release.
KInit == down \in SUBSET Keys /\ events = <<>>

KEmit(type, k) == events' = Append(events, <<type, k>>)

KPress(k)   == k \notin down /\ down' = down \cup {k} /\ KEmit("Press", k)
KRelease(k) == k \in down /\ down' = down \ {k} /\ KEmit("Release", k)
KTap(k)     == UNCHANGED down /\ KEmit("Tap", k)

KNext == \E k \in Keys : KPress(k) \/ KRelease(k) \/ KTap(k)
KSpec == KInit /\ [][KNext]_kvars
=============================================================================
