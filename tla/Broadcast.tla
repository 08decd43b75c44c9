----------------------------- MODULE Broadcast -----------------------------
(***************************************************************************)
(* What a furi pubsub promises its subscribers (furi/core/pubsub.h): the   *)
(* messages are in one order for everybody, and a subscriber sees all of   *)
(* those published while it is subscribed, without a gap, none twice and   *)
(* none after it has unsubscribed.  Messages are numbered as published.    *)
(***************************************************************************)
EXTENDS Naturals

CONSTANT Subscribers

VARIABLES
  sent,        \* the number of messages published so far
  on,          \* the subscribers
  seen         \* the last message each subscriber saw, or was too late for

bvars == <<sent, on, seen>>

UpToDate(s) == seen[s] = sent

BInit ==
  /\ sent = 0
  /\ on = {}
  /\ seen = [s \in Subscribers |-> 0]

\* A message is published when everybody has seen the one before.
BPublish ==
  /\ \A s \in on : UpToDate(s)
  /\ sent' = sent + 1
  /\ UNCHANGED <<on, seen>>

BDeliver(s) ==
  /\ s \in on
  /\ seen[s] + 1 = sent
  /\ seen' = [seen EXCEPT ![s] = sent]
  /\ UNCHANGED <<sent, on>>

BJoin(s) ==
  /\ s \notin on
  /\ on' = on \cup {s}
  /\ seen' = [seen EXCEPT ![s] = sent]
  /\ UNCHANGED sent

BLeave(s) ==
  /\ s \in on
  /\ UpToDate(s)
  /\ on' = on \ {s}
  /\ UNCHANGED <<sent, seen>>

BNext == BPublish \/ \E s \in Subscribers : BDeliver(s) \/ BJoin(s) \/ BLeave(s)

BSpec == BInit /\ [][BNext]_bvars
=============================================================================
