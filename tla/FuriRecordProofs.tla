-------------------------- MODULE FuriRecordProofs --------------------------
(***************************************************************************)
(* Proofs about the record registry, for every set of names, every finite  *)
(* set of clients and every bound.                                         *)
(***************************************************************************)
EXTENDS FuriRecord, FiniteSetTheorems, TLAPS

\* What the entry of a name and the clients inside it agree on.
DataInv ==
  /\ \A n \in exists : data[n] = IF n \in ready THEN DataOf(n) ELSE NULL
  /\ \A c \in Clients : pc[c] \in {"woken", "holding"} => want[c] \in ready
  /\ \A c \in Clients : pc[c] = "holding" => got[c] = data[want[c]]

\* The inductive invariant.
IInv ==
  /\ TypeOK
  /\ NoUseAfterErase
  /\ HoldersExact
  /\ DataInv
  /\ PlaceholderIsAwaited

-----------------------------------------------------------------------------
\* furi_record_open adds its client to the users of n, and to no other's.
LEMMA UsersOpen ==
  ASSUME TypeOK, NEW c \in Clients, NEW n \in Names, pc[c] = "idle",
         pc' = [pc EXCEPT ![c] = "waiting"], want' = [want EXCEPT ![c] = n]
  PROVE  /\ Cardinality(Users(n)') = Cardinality(Users(n)) + 1
         /\ \A m \in Names \ {n} : Users(m)' = Users(m)
<1>1. Users(n)' = Users(n) \cup {c}
  BY DEF Users, TypeOK
<1>2. c \notin Users(n)
  BY DEF Users
<1>3. IsFiniteSet(Users(n))
  BY ConstAssumption, FS_Subset DEF Users
<1>4. Cardinality(Users(n)') = Cardinality(Users(n)) + 1
  BY <1>1, <1>2, <1>3, FS_AddElement
<1>5. \A m \in Names \ {n} : Users(m)' = Users(m)
  BY DEF Users, TypeOK
<1> QED BY <1>4, <1>5

\* furi_record_close takes its client from the users of the name it holds.
LEMMA UsersClose ==
  ASSUME TypeOK, NEW c \in Clients, pc[c] = "holding",
         pc' = [pc EXCEPT ![c] = "idle"], want' = want
  PROVE  /\ Cardinality(Users(want[c])') = Cardinality(Users(want[c])) - 1
         /\ Cardinality(Users(want[c])) \in Nat \ {0}
         /\ \A m \in Names \ {want[c]} : Users(m)' = Users(m)
<1>1. Users(want[c])' = Users(want[c]) \ {c}
  BY DEF Users, TypeOK
<1>2. c \in Users(want[c])
  BY DEF Users
<1>3. IsFiniteSet(Users(want[c]))
  BY ConstAssumption, FS_Subset DEF Users
<1>4. Cardinality(Users(want[c])') = Cardinality(Users(want[c])) - 1
  BY <1>1, <1>2, <1>3, FS_RemoveElement
<1>5. Cardinality(Users(want[c])) \in Nat \ {0}
  BY <1>2, <1>3, FS_CardinalityType, FS_EmptySet
<1>6. \A m \in Names \ {want[c]} : Users(m)' = Users(m)
  BY DEF Users, TypeOK
<1> QED BY <1>4, <1>5, <1>6

-----------------------------------------------------------------------------
LEMMA InitIInv == Init => IInv
<1> SUFFICES ASSUME Init PROVE IInv
  OBVIOUS
<1>1. TypeOK
  BY DEF Init, TypeOK, NULL
<1>2. NoUseAfterErase /\ HoldersExact /\ DataInv /\ PlaceholderIsAwaited
  BY DEF Init, NoUseAfterErase, HoldersExact, DataInv, PlaceholderIsAwaited
<1> QED BY <1>1, <1>2 DEF IInv

LEMMA CreateIInv ==
  ASSUME IInv, NEW n \in Names, Create(n)
  PROVE  IInv'
<1> USE DEF IInv, NULL
<1>1. TypeOK'
  BY DEF TypeOK, Create, DataOf, HoldersOf, clients
<1>2. Users(n) = {} \/ n \in exists
  BY DEF NoUseAfterErase, Users
<1>3. \A m : Users(m)' = Users(m)
  BY DEF Create, clients, Users
<1>4. NoUseAfterErase'
  BY DEF Create, clients, NoUseAfterErase
<1>5. HoldersExact'
  BY <1>2, <1>3, FS_EmptySet DEF Create, HoldersOf, HoldersExact, TypeOK
<1>6. DataInv'
  <2>1. n \notin exists \/ n \notin ready
    BY DEF Create, DataIn, DataInv, DataOf, TypeOK
  <2>2. \A c \in Clients : want[c] = n => pc[c] \notin {"woken", "holding"}
    BY <2>1 DEF DataInv, NoUseAfterErase
  <2> QED BY <2>2 DEF Create, clients, DataInv, DataOf, TypeOK
<1>7. PlaceholderIsAwaited'
  BY DEF Create, clients, PlaceholderIsAwaited
<1> QED BY <1>1, <1>4, <1>5, <1>6, <1>7

\* A holders_count of 0 says that nobody is inside.
LEMMA EraseUnused ==
  ASSUME IInv, NEW n \in Names, n \in exists, MayErase(n)
  PROVE  \A c \in Clients : pc[c] # "idle" => want[c] # n
<1>1. IsFiniteSet(Users(n)) /\ Cardinality(Users(n)) = 0
  BY ConstAssumption, FS_Subset DEF IInv, Users, HoldersExact, MayErase
<1> QED BY <1>1, FS_EmptySet DEF Users

LEMMA EraseIInv ==
  ASSUME IInv, NEW n \in Names, n \in exists, MayErase(n), Erase(n)
  PROVE  IInv'
<1> USE DEF IInv
<1>1. TypeOK'
  BY DEF TypeOK, Erase, clients
<1>2. \A c \in Clients : pc[c] # "idle" => want[c] # n
  BY EraseUnused
<1>3. NoUseAfterErase'
  BY <1>2 DEF Erase, clients, NoUseAfterErase, TypeOK
<1>4. HoldersExact'
  BY DEF Erase, clients, HoldersExact, Users
<1>5. DataInv'
  BY DEF Erase, clients, DataInv, DataOf, TypeOK
<1>6. PlaceholderIsAwaited'
  BY DEF Erase, clients, PlaceholderIsAwaited
<1> QED BY <1>1, <1>3, <1>4, <1>5, <1>6

LEMMA OpenIInv ==
  ASSUME IInv, NEW c \in Clients, NEW n \in Names, Open(c, n)
  PROVE  IInv'
<1> USE DEF IInv, NULL
<1>1. TypeOK'
  BY DEF TypeOK, Open, Counted, HoldersOf, DataIn, ReadyWith
<1>2. /\ Cardinality(Users(n)') = Cardinality(Users(n)) + 1
      /\ \A m \in Names \ {n} : Users(m)' = Users(m)
  BY UsersOpen DEF Open, Counted
<1>3. Cardinality(Users(n)) = HoldersOf(n)
  BY FS_EmptySet DEF HoldersOf, Users, NoUseAfterErase, HoldersExact
<1>4. NoUseAfterErase'
  BY DEF Open, Counted, NoUseAfterErase, TypeOK
<1>5. HoldersExact'
  BY <1>2, <1>3 DEF Open, Counted, HoldersExact, TypeOK
<1>6. DataInv'
  BY DEF Open, Counted, DataInv, DataIn, ReadyWith, DataOf, NoUseAfterErase, TypeOK
<1>7. PlaceholderIsAwaited'
  BY DEF Open, Counted, PlaceholderIsAwaited, ReadyWith, TypeOK
<1> QED BY <1>1, <1>4, <1>5, <1>6, <1>7

LEMMA WakeIInv == ASSUME IInv, NEW c \in Clients, Wake(c) PROVE IInv'
<1> USE DEF IInv
<1>1. TypeOK'
  BY DEF TypeOK, Wake, IsReady, registry
<1>2. \A m : Users(m)' = Users(m)
  BY DEF Wake, IsReady, Users, TypeOK
<1>3. NoUseAfterErase' /\ HoldersExact'
  BY <1>2 DEF Wake, IsReady, registry, NoUseAfterErase, HoldersExact, TypeOK
<1>4. DataInv'
  BY DEF Wake, IsReady, registry, DataInv, DataOf, TypeOK
<1>5. PlaceholderIsAwaited'
  BY DEF Wake, IsReady, registry, PlaceholderIsAwaited, TypeOK
<1> QED BY <1>1, <1>3, <1>4, <1>5

LEMMA ReturnIInv == ASSUME IInv, NEW c \in Clients, Return(c) PROVE IInv'
<1> USE DEF IInv
<1>1. TypeOK'
  BY DEF TypeOK, Return, registry
<1>2. \A m : Users(m)' = Users(m)
  BY DEF Return, Users, TypeOK
<1>3. NoUseAfterErase' /\ HoldersExact'
  BY <1>2 DEF Return, registry, NoUseAfterErase, HoldersExact, TypeOK
<1>4. DataInv'
  BY DEF Return, registry, DataInv, DataOf, TypeOK
<1>5. PlaceholderIsAwaited'
  BY DEF Return, registry, PlaceholderIsAwaited, TypeOK
<1> QED BY <1>1, <1>3, <1>4, <1>5

LEMMA CloseIInv == ASSUME IInv, NEW c \in Clients, Close(c) PROVE IInv'
<1> USE DEF IInv
<1>1. /\ Cardinality(Users(want[c])') = Cardinality(Users(want[c])) - 1
      /\ Cardinality(Users(want[c])) \in Nat \ {0}
      /\ \A m \in Names \ {want[c]} : Users(m)' = Users(m)
  BY UsersClose DEF Close
<1>2. holders[want[c]] = Cardinality(Users(want[c]))
  BY DEF Close, HoldersExact
<1>3. TypeOK'
  BY <1>1, <1>2 DEF TypeOK, Close
<1>4. NoUseAfterErase'
  BY DEF Close, NoUseAfterErase, TypeOK
<1>5. HoldersExact'
  BY <1>1, <1>2 DEF Close, HoldersExact, TypeOK
<1>6. DataInv'
  BY DEF Close, DataInv, DataOf, TypeOK
<1>7. PlaceholderIsAwaited'
  BY DEF Close, PlaceholderIsAwaited, TypeOK
<1> QED BY <1>3, <1>4, <1>5, <1>6, <1>7

LEMMA StutterIInv == ASSUME IInv, UNCHANGED vars PROVE IInv'
BY DEF IInv, vars, registry, clients, TypeOK, NoUseAfterErase,
       HoldersExact, Users, DataInv, DataOf, PlaceholderIsAwaited

LEMMA NextIInv == IInv /\ [Next]_vars => IInv'
<1> SUFFICES ASSUME IInv, [Next]_vars PROVE IInv'
  OBVIOUS
<1>1. ASSUME NEW n \in Names, Create(n) PROVE IInv'
  BY <1>1, CreateIInv
<1>2. ASSUME NEW n \in Names, Destroy(n) PROVE IInv'
  BY <1>2, EraseIInv, StutterIInv DEF Destroy
<1>3. ASSUME NEW c \in Clients, NEW n \in Names, Open(c, n) PROVE IInv'
  BY <1>3, OpenIInv
<1>4. ASSUME NEW c \in Clients, Wake(c) \/ Return(c) \/ Close(c) PROVE IInv'
  BY <1>4, WakeIInv, ReturnIInv, CloseIInv
<1>5. CASE UNCHANGED vars
  BY <1>5, StutterIInv
<1> QED BY <1>1, <1>2, <1>3, <1>4, <1>5 DEF Next

\* The invariant holds in every reachable state of the registry.
THEOREM RecordInvariant == Spec => []IInv
BY InitIInv, NextIInv, PTL DEF Spec

\* Types: in particular holders_count never wraps below zero.
THEOREM RecordTypeOK == Spec => []TypeOK
<1>1. IInv => TypeOK
  BY DEF IInv
<1> QED BY <1>1, RecordInvariant, PTL

\* furi_record_destroy never erases a node a client still points to.
THEOREM RecordNoUseAfterErase == Spec => []NoUseAfterErase
<1>1. IInv => NoUseAfterErase
  BY DEF IInv
<1> QED BY <1>1, RecordInvariant, PTL

\* holders_count is exactly the number of clients inside.
THEOREM RecordHoldersExact == Spec => []HoldersExact
<1>1. IInv => HoldersExact
  BY DEF IInv
<1> QED BY <1>1, RecordInvariant, PTL

\* What furi_record_open returned stays what the record publishes.
THEOREM RecordHoldersSeeLiveData == Spec => []HoldersSeeLiveData
<1>1. IInv => HoldersSeeLiveData
  BY DEF IInv, DataInv, NoUseAfterErase, HoldersSeeLiveData
<1> QED BY <1>1, RecordInvariant, PTL

\* An entry without data is always awaited by a client.
THEOREM RecordPlaceholderIsAwaited == Spec => []PlaceholderIsAwaited
<1>1. IInv => PlaceholderIsAwaited
  BY DEF IInv
<1> QED BY <1>1, RecordInvariant, PTL
-----------------------------------------------------------------------------
\* The dictionary implements the registry: what a step does to the values,
\* the clients' places and their results is a step of Registry or none.
LEMMA InitRegistry == Init => Reg!RInit
<1> SUFFICES ASSUME Init PROVE Reg!RInit
  OBVIOUS
<1>1. [n \in Names |-> Given(n)] = [n \in Names |-> Reg!NoData]
  BY DEF Init, Given, NULL, Reg!NoData
<1>2. [c \in Clients |-> PlaceOf(c)] = [c \in Clients |-> "outside"]
  BY DEF Init, PlaceOf
<1> QED BY <1>1, <1>2 DEF Init, NULL, Reg!NoData, Reg!RInit

LEMMA CreateRegistry ==
  ASSUME IInv, NEW n \in Names, Create(n)
  PROVE  Reg!RCreate(n)
<1>1. Given(n) = NULL /\ Given(n)' = DataOf(n) /\ DataOf(n) # NULL
  BY DEF IInv, TypeOK, Create, Given, DataIn, DataOf, NULL
<1>2. \A m \in Names \ {n} : Given(m)' = Given(m)
  BY DEF IInv, TypeOK, Create, Given
<1>3. UNCHANGED <<[c \in Clients |-> PlaceOf(c)], want, got>>
  BY DEF Create, clients, PlaceOf
<1> QED BY <1>1, <1>2, <1>3 DEF Reg!RCreate, Reg!NoData, NULL

LEMMA EraseRegistry ==
  ASSUME IInv, NEW n \in Names, n \in exists, MayErase(n), Erase(n)
  PROVE  Reg!RDestroy(n)
<1>1. Reg!Inside(n) = {}
  BY EraseUnused DEF IInv, TypeOK, PlaceOf, Reg!Inside
<1>2. Given(n)' = NULL /\ \A m \in Names \ {n} : Given(m)' = Given(m)
  BY DEF Erase, Given
<1>3. UNCHANGED <<[c \in Clients |-> PlaceOf(c)], want, got>>
  BY DEF Erase, clients, PlaceOf
<1> QED BY <1>1, <1>2, <1>3 DEF Reg!RDestroy, Reg!NoData, NULL

LEMMA OpenRegistry ==
  ASSUME IInv, NEW c \in Clients, NEW n \in Names, Open(c, n)
  PROVE  Reg!ROpen(c, n)
<1>1. UNCHANGED [m \in Names |-> Given(m)]
  BY DEF IInv, TypeOK, Open, Counted, Given, DataIn, NULL
<1>2. PlaceOf(c) = "outside" /\ PlaceOf(c)' = "waiting"
  BY DEF IInv, TypeOK, Open, Counted, PlaceOf
<1>3. \A d \in Clients \ {c} : PlaceOf(d)' = PlaceOf(d)
  BY DEF IInv, TypeOK, Open, Counted, PlaceOf
<1> QED BY <1>1, <1>2, <1>3 DEF Open, Counted, Reg!ROpen

\* Wake and Return look like one step from outside: the second.
LEMMA WakeRegistry ==
  ASSUME IInv, NEW c \in Clients, Wake(c)
  PROVE  UNCHANGED Reg!rvars
<1>1. UNCHANGED [m \in Names |-> Given(m)]
  BY DEF Wake, IsReady, registry, Given
<1>2. UNCHANGED [d \in Clients |-> PlaceOf(d)]
  BY DEF IInv, TypeOK, Wake, IsReady, PlaceOf
<1> QED BY <1>1, <1>2 DEF Wake, IsReady, Reg!rvars

LEMMA ReturnRegistry ==
  ASSUME IInv, NEW c \in Clients, Return(c)
  PROVE  Reg!RReturn(c)
<1>1. UNCHANGED [m \in Names |-> Given(m)]
  BY DEF Return, registry, Given
<1>2. PlaceOf(c) = "waiting" /\ PlaceOf(c)' = "inside"
  BY DEF IInv, TypeOK, Return, PlaceOf
<1>3. \A d \in Clients \ {c} : PlaceOf(d)' = PlaceOf(d)
  BY DEF IInv, TypeOK, Return, PlaceOf
<1>4. want[c] \in Names /\ Given(want[c]) = data[want[c]] /\ data[want[c]] # NULL
  BY DEF IInv, TypeOK, Return, Given, NoUseAfterErase, DataInv, DataOf, NULL
<1> QED BY <1>1, <1>2, <1>3, <1>4 DEF Return, registry, Reg!RReturn, Reg!NoData, NULL

LEMMA CloseRegistry ==
  ASSUME IInv, NEW c \in Clients, Close(c)
  PROVE  Reg!RClose(c)
<1>1. UNCHANGED [m \in Names |-> Given(m)]
  BY DEF Close, Given
<1>2. PlaceOf(c) = "inside" /\ PlaceOf(c)' = "outside"
  BY DEF IInv, TypeOK, Close, PlaceOf
<1>3. \A d \in Clients \ {c} : PlaceOf(d)' = PlaceOf(d)
  BY DEF IInv, TypeOK, Close, PlaceOf
<1> QED BY <1>1, <1>2, <1>3 DEF Close, Reg!RClose

LEMMA StutterRegistry == ASSUME UNCHANGED vars PROVE UNCHANGED Reg!rvars
BY DEF vars, registry, clients, Given, PlaceOf, Reg!rvars

LEMMA NextRegistry == IInv /\ [Next]_vars => [Reg!RNext]_(Reg!rvars)
<1> SUFFICES ASSUME IInv, [Next]_vars PROVE [Reg!RNext]_(Reg!rvars)
  OBVIOUS
<1>1. ASSUME NEW n \in Names, Create(n) PROVE Reg!RNext
  BY <1>1, CreateRegistry DEF Reg!RNext
<1>2. ASSUME NEW n \in Names, Destroy(n) PROVE [Reg!RNext]_(Reg!rvars)
  BY <1>2, EraseRegistry, StutterRegistry DEF Destroy, Reg!RNext
<1>3. ASSUME NEW c \in Clients, NEW n \in Names, Open(c, n) PROVE Reg!RNext
  BY <1>3, OpenRegistry DEF Reg!RNext
<1>4. ASSUME NEW c \in Clients, Wake(c) PROVE UNCHANGED Reg!rvars
  BY <1>4, WakeRegistry
<1>5. ASSUME NEW c \in Clients, Return(c) \/ Close(c) PROVE Reg!RNext
  BY <1>5, ReturnRegistry, CloseRegistry DEF Reg!RNext
<1>6. CASE UNCHANGED vars
  BY <1>6, StutterRegistry
<1> QED BY <1>1, <1>2, <1>3, <1>4, <1>5, <1>6 DEF Next

\* furi/core/record.h's promise is kept by the dictionary, its holders_count,
\* its event flags and the two unlocked steps of furi_record_open.
THEOREM RecordImplementsRegistry == Spec => ImplementsRegistry
BY InitRegistry, NextRegistry, RecordInvariant, PTL
   DEF Spec, ImplementsRegistry, Reg!RSpec
=============================================================================
