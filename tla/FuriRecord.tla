------------------------------ MODULE FuriRecord ------------------------------
(***************************************************************************)
(* The record registry (furi/core/record.c): a dictionary from names to    *)
(* records, through which every service publishes its API object and every *)
(* application finds it.                                                   *)
(*                                                                         *)
(* A record's critical section never blocks, so each function's locked     *)
(* part is one step.  furi_record_open has two more steps, which run       *)
(* WITHOUT the mutex and through the pointer found under it: the wait for  *)
(* the READY flag and the read of the data pointer.                        *)
(*                                                                         *)
(* A client is one use of a record: an open and the close that goes with   *)
(* it.  A thread that opens twice is two clients, so nesting is covered.   *)
(***************************************************************************)
EXTENDS Naturals, FiniteSets

CONSTANTS
  Names,      \* the record names
  Clients,    \* the uses of records
  MaxGen      \* bound: how often each name may be erased

ASSUME ConstAssumption ==
  /\ IsFiniteSet(Clients)
  /\ MaxGen \in Nat

VARIABLES
  exists,     \* the keys of the dictionary
  gen,        \* gen[n]: how often n was erased; names the node n has now
  ready,      \* the names whose event flag has FURI_RECORD_FLAG_READY
  data,       \* data[n]: the data pointer, NULL or the one created in gen[n]
  holders,    \* holders[n]: holders_count
  pc,         \* where each client is in its open or close
  want,       \* the name each client opens
  node,       \* the node it points to (record_data)
  got         \* the data pointer furi_record_open returned

registry == <<exists, gen, ready, data, holders>>
clients  == <<pc, want, node, got>>
vars     == <<registry, clients>>

NULL == 0
DataOf(n) == gen[n] + 1

\* The clients counted in n's holders_count.
Users(n) == {c \in Clients : pc[c] # "idle" /\ want[c] = n}

TypeOK ==
  /\ exists \subseteq Names
  /\ gen \in [Names -> Nat]
  /\ ready \subseteq Names
  /\ data \in [Names -> Nat]
  /\ holders \in [Names -> Nat]
  /\ pc \in [Clients -> {"idle", "waiting", "woken", "holding"}]
  /\ want \in [Clients -> Names]
  /\ node \in [Clients -> Nat]
  /\ got \in [Clients -> Nat]

Init ==
  /\ exists = {}
  /\ gen = [n \in Names |-> 0]
  /\ ready = {}
  /\ data = [n \in Names |-> NULL]
  /\ holders = [n \in Names |-> 0]
  /\ pc = [c \in Clients |-> "idle"]
  /\ want \in [Clients -> Names]
  /\ node = [c \in Clients |-> 0]
  /\ got = [c \in Clients |-> NULL]

-----------------------------------------------------------------------------
\* furi_record_data_get_or_create: what the node of n holds once it is there.
\* (Mutants, here and below, are named after the definition they replace.)
HoldersOf_Fresh(n) == 0
HoldersOf(n) == IF n \in exists THEN holders[n] ELSE 0
DataIn(n)    == IF n \in exists THEN data[n] ELSE NULL
ReadyWith_Fresh(n) == ready \ {n}
ReadyWith(n) == IF n \in exists THEN ready ELSE ready \ {n}

\* furi_record_create.  The assertion data == NULL is the caller's obligation:
\* a record is created once until it is destroyed.
Create(n) ==
  /\ DataIn(n) = NULL
  /\ exists' = exists \cup {n}
  /\ data' = [data EXCEPT ![n] = DataOf(n)]
  /\ ready' = ready \cup {n}
  /\ holders' = [holders EXCEPT ![n] = HoldersOf(n)]
  /\ UNCHANGED <<gen, clients>>

\* furi_record_erase: the event flag is freed with the dictionary entry.
Erase(n) ==
  /\ exists' = exists \ {n}
  /\ gen' = [gen EXCEPT ![n] = @ + 1]
  /\ UNCHANGED <<ready, data, holders, clients>>

\* furi_record_destroy: asserts that n is there, refuses when it has holders.
\* It does not look at who calls it, although record.h says that it does.
MayErase_NoCheck(n) == TRUE
MayErase(n) == holders[n] = 0
Destroy(n) ==
  /\ n \in exists
  /\ IF MayErase(n) THEN gen[n] < MaxGen /\ Erase(n) ELSE UNCHANGED vars

\* furi_record_open, under the mutex: the holder is counted before it waits.
Counted(n) == HoldersOf(n) + 1
Open(c, n) ==
  /\ pc[c] = "idle"
  /\ pc' = [pc EXCEPT ![c] = "waiting"]
  /\ want' = [want EXCEPT ![c] = n]
  /\ node' = [node EXCEPT ![c] = gen[n]]
  /\ exists' = exists \cup {n}
  /\ data' = [data EXCEPT ![n] = DataIn(n)]
  /\ ready' = ReadyWith(n)
  /\ holders' = [holders EXCEPT ![n] = Counted(n)]
  /\ UNCHANGED <<gen, got>>

\* furi_record_open, after the unlock: furi_event_flag_wait returns ...
IsReady_Always(n) == TRUE
IsReady(n) == n \in ready
Wake(c) ==
  /\ pc[c] = "waiting"
  /\ IsReady(want[c])
  /\ pc' = [pc EXCEPT ![c] = "woken"]
  /\ UNCHANGED <<registry, want, node, got>>

\* ... and the data pointer is read, still without the mutex.
Return(c) ==
  /\ pc[c] = "woken"
  /\ pc' = [pc EXCEPT ![c] = "holding"]
  /\ got' = [got EXCEPT ![c] = data[want[c]]]
  /\ UNCHANGED <<registry, want, node>>

\* furi_record_close, by a client that holds the record.
Close(c) ==
  /\ pc[c] = "holding"
  /\ want[c] \in exists
  /\ pc' = [pc EXCEPT ![c] = "idle"]
  /\ holders' = [holders EXCEPT ![want[c]] = @ - 1]
  /\ UNCHANGED <<exists, gen, ready, data, want, node, got>>

Next ==
  \/ \E n \in Names : Create(n) \/ Destroy(n)
  \/ \E c \in Clients, n \in Names : Open(c, n)
  \/ \E c \in Clients : Wake(c) \/ Return(c) \/ Close(c)

Spec == Init /\ [][Next]_vars

\* Every record is created by some service in the end, and a thread that can
\* run does.  Nobody has to open, close or destroy.
Fairness ==
  /\ \A n \in Names : WF_vars(Create(n))
  /\ \A c \in Clients : WF_vars(Wake(c)) /\ WF_vars(Return(c))

FairSpec == Spec /\ Fairness

-----------------------------------------------------------------------------
\* furi_record_destroy cannot pull a record from under anyone: whoever is
\* inside furi_record_open, or holds what it returned, still points to the
\* node that is in the dictionary.  Waiting on the event flag of an erased
\* node, or reading its data, would be a use after free.
NoUseAfterErase ==
  \A c \in Clients :
    pc[c] # "idle" => want[c] \in exists /\ node[c] = gen[want[c]]

\* What furi_record_open returned is never NULL and is still what the record
\* publishes, although it was read without the mutex.
HoldersSeeLiveData ==
  \A c \in Clients :
    pc[c] = "holding" => got[c] = DataOf(want[c]) /\ got[c] = data[want[c]]

\* furi_record_close's decrement cannot wrap and an abandoned open cannot keep
\* a record alive: holders_count counts exactly the clients inside.
HoldersExact ==
  \A n \in exists : holders[n] = Cardinality(Users(n))

\* An early furi_record_open leaves an entry without data in the dictionary;
\* it is there only as long as someone waits for it.
PlaceholderIsAwaited ==
  \A n \in exists : n \notin ready => \E c \in Clients : pc[c] = "waiting" /\ want[c] = n

\* What the registry promises: the clients cannot tell the dictionary with its
\* counts, flags and unlocked waits from records that are there or not.
Given(n) == IF n \in exists THEN data[n] ELSE NULL
PlaceOf(c) == CASE pc[c] = "idle" -> "outside"
                [] pc[c] \in {"waiting", "woken"} -> "waiting"
                [] pc[c] = "holding" -> "inside"
Reg == INSTANCE Registry WITH
         value  <- [n \in Names |-> Given(n)],
         place  <- [c \in Clients |-> PlaceOf(c)],
         name   <- want,
         result <- got
ImplementsRegistry == Reg!RSpec

\* furi_record_open returns, however early it was called.
OpenReturns ==
  \A c \in Clients : pc[c] = "waiting" ~> pc[c] = "holding"

=============================================================================
