------------------------------ MODULE Registry ------------------------------
(***************************************************************************)
(* What the record registry promises its clients (furi/core/record.h): an  *)
(* open may come at any time and returns what was created, not before it   *)
(* was; and a record is not destroyed while somebody is inside.  Nothing   *)
(* of the dictionary, its counters and event flags is left.                *)
(***************************************************************************)
EXTENDS Naturals

CONSTANTS Names, Clients

NoData == 0

VARIABLES
  value,       \* what each name gives its clients, if it is created
  place,       \* each client is "outside", "waiting" or "inside"
  name,        \* the name each client opens
  result       \* what its open returned

rvars == <<value, place, name, result>>

RInit ==
  /\ value = [n \in Names |-> NoData]
  /\ place = [c \in Clients |-> "outside"]
  /\ name \in [Clients -> Names]
  /\ result = [c \in Clients |-> NoData]

Inside(n) == {c \in Clients : place[c] # "outside" /\ name[c] = n}

RCreate(n) ==
  /\ value[n] = NoData
  /\ value'[n] # NoData
  /\ value' = [value EXCEPT ![n] = value'[n]]
  /\ UNCHANGED <<place, name, result>>

RDestroy(n) ==
  /\ Inside(n) = {}
  /\ value' = [value EXCEPT ![n] = NoData]
  /\ UNCHANGED <<place, name, result>>

ROpen(c, n) ==
  /\ place[c] = "outside"
  /\ place' = [place EXCEPT ![c] = "waiting"]
  /\ name' = [name EXCEPT ![c] = n]
  /\ UNCHANGED <<value, result>>

RReturn(c) ==
  /\ place[c] = "waiting"
  /\ value[name[c]] # NoData
  /\ place' = [place EXCEPT ![c] = "inside"]
  /\ result' = [result EXCEPT ![c] = value[name[c]]]
  /\ UNCHANGED <<value, name>>

RClose(c) ==
  /\ place[c] = "inside"
  /\ place' = [place EXCEPT ![c] = "outside"]
  /\ UNCHANGED <<value, name, result>>

RNext ==
  \/ \E n \in Names : RCreate(n) \/ RDestroy(n)
  \/ \E c \in Clients, n \in Names : ROpen(c, n)
  \/ \E c \in Clients : RReturn(c) \/ RClose(c)

RSpec == RInit /\ [][RNext]_rvars
=============================================================================
