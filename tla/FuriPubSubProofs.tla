-------------------------- MODULE FuriPubSubProofs --------------------------
(***************************************************************************)
(* Proofs about FuriPubSub: the list of subscriptions is exact, nobody is  *)
(* called back after its unsubscribe, and the pubsub implements Broadcast, *)
(* for any number of publishers, subscribers and messages.                 *)
(*                                                                         *)
(* The invariant says what the mutex protects: when it is free everybody   *)
(* has seen every message, and while p publishes exactly the subscribers   *)
(* before its iterator have seen the message.                              *)
(***************************************************************************)
EXTENDS FuriPubSub, SequenceTheorems, TLAPS

USE DEF publisher, subscriber

SeenInv ==
  /\ mutex = NULL => \A i \in 1..Len(items) : seen[items[i]] = sent
  /\ \A p \in Publishers : mutex = p =>
       /\ cur[p] = sent
       /\ it[p] \in 1..Len(items) + 1
       /\ \A i \in 1..Len(items) :
            IF i < it[p] THEN seen[items[i]] = sent ELSE seen[items[i]] + 1 = sent

ListInv ==
  /\ \A i \in 1..Len(items) : spc[items[i]] # "off"
  /\ \A s \in Subscribers : spc[s] # "off" => \E i \in 1..Len(items) : items[i] = s
  /\ \A i, j \in 1..Len(items) : items[i] = items[j] => i = j

IInv == TypeOK /\ SeenInv /\ ListInv

-----------------------------------------------------------------------------
LEMMA InitIInv == Init => IInv
  BY PubSubAssumption DEF Init, IInv, TypeOK, SeenInv, ListInv

\* What subscribing does to the list.
LEMMA PushFront ==
  ASSUME NEW s \in Subscribers, items \in Seq(Subscribers)
  PROVE  LET l == <<s>> \o items IN
         /\ l \in Seq(Subscribers)
         /\ Len(l) = Len(items) + 1
         /\ l[1] = s
         /\ \A i \in 2..Len(items) + 1 : l[i] = items[i - 1]
  OBVIOUS

\* What unsubscribing does to the list.
LEMMA WithoutIs ==
  ASSUME items \in Seq(Subscribers), NEW i \in 1..Len(items)
  PROVE  /\ Without(i) \in Seq(Subscribers)
         /\ Len(Without(i)) = Len(items) - 1
         /\ \A j \in 1..Len(items) - 1 :
              Without(i)[j] = IF j < i THEN items[j] ELSE items[j + 1]
<1> DEFINE n == Len(items) - 1
<1>1. n \in Nat /\ Len(items) = n + 1
  OBVIOUS
<1>2. \A j \in 1..n : items[j] \in Subscribers /\ items[j + 1] \in Subscribers
  BY <1>1
<1>3. Without(i) \in [1..n -> Subscribers]
  BY <1>2 DEF Without
<1>4. Without(i) \in Seq(Subscribers) /\ Len(Without(i)) = n
  <2>1. Without(i) \in Seq(Subscribers)
    BY <1>1, <1>3, SeqDef
  <2>2. DOMAIN Without(i) = 1..n
    BY DEF Without
  <2>3. Len(Without(i)) \in Nat /\ DOMAIN Without(i) = 1..Len(Without(i))
    BY <2>1, LenProperties
  <2> HIDE DEF n
  <2>4. \A m \in Nat : 1..m = 1..n => m = n
    BY <1>1
  <2> QED
    BY <2>1, <2>2, <2>3, <2>4
<1> QED
  BY <1>1, <1>4 DEF Without

LEMMA SubscribeIInv == ASSUME IInv, NEW s \in Subscribers, Subscribe(s) PROVE IInv'
<1> USE DEF IInv
<1>0. Len(items) \in Nat
  BY LenProperties DEF TypeOK
<1>1. /\ items' \in Seq(Subscribers) /\ Len(items') = Len(items) + 1
      /\ items'[1] = s /\ \A i \in 2..Len(items) + 1 : items'[i] = items[i - 1]
  BY PushFront DEF TypeOK, Subscribe
<1>2. \A i \in 1..Len(items) : items[i] \in Subscribers /\ items[i] # s
  BY DEF TypeOK, ListInv, Subscribe
<1>3. TypeOK'
  BY <1>1, PubSubAssumption DEF TypeOK, Subscribe
<1>4. SeenInv'
  <2>1. \A i \in 1..Len(items') : seen'[items'[i]] = sent
    <3> SUFFICES ASSUME NEW i \in 1..Len(items') PROVE seen'[items'[i]] = sent
      OBVIOUS
    <3>1. CASE i = 1
      BY <1>1, <3>1 DEF TypeOK, Subscribe
    <3>2. CASE i # 1
      <4>1. i - 1 \in 1..Len(items) /\ items'[i] = items[i - 1]
        BY <1>0, <1>1, <3>2
      <4> QED
        BY <4>1, <1>2 DEF TypeOK, Subscribe, SeenInv
    <3> QED
      BY <3>1, <3>2
  <2> QED
    BY <2>1, PubSubAssumption DEF SeenInv, Subscribe
<1>5. ListInv'
  <2>1. \A i \in 1..Len(items') : i = 1 \/ (i - 1 \in 1..Len(items) /\ items'[i] = items[i - 1])
    BY <1>0, <1>1
  <2>2. \A i \in 1..Len(items') : spc'[items'[i]] # "off"
    BY <1>1, <1>2, <2>1 DEF TypeOK, ListInv, Subscribe
  <2>3. \A x \in Subscribers : spc'[x] # "off" => \E i \in 1..Len(items') : items'[i] = x
    <3> SUFFICES ASSUME NEW x \in Subscribers, spc'[x] # "off"
                 PROVE \E i \in 1..Len(items') : items'[i] = x
      OBVIOUS
    <3>1. CASE x = s
      <4>1. 1 \in 1..Len(items')
        BY <1>1 DEF TypeOK
      <4> QED
        BY <4>1, <3>1, <1>1
    <3>2. CASE x # s
      <4>1. spc[x] # "off"
        BY <3>2 DEF TypeOK, Subscribe
      <4>2. PICK i \in 1..Len(items) : items[i] = x
        BY <4>1 DEF ListInv
      <4>3. i + 1 \in 1..Len(items') /\ items'[i + 1] = x
        <5>1. i + 1 \in 2..Len(items) + 1
          BY <1>0, <4>2
        <5> QED
          BY <1>0, <1>1, <4>2, <5>1
      <4> QED
        BY <4>3
    <3> QED
      BY <3>1, <3>2
  <2>4. \A i, j \in 1..Len(items') : items'[i] = items'[j] => i = j
    <3> SUFFICES ASSUME NEW i \in 1..Len(items'), NEW j \in 1..Len(items'), items'[i] = items'[j]
                 PROVE i = j
      OBVIOUS
    <3>1. CASE i = 1
      BY <3>1, <2>1, <1>1, <1>2
    <3>2. CASE j = 1
      BY <3>2, <2>1, <1>1, <1>2
    <3>3. CASE i # 1 /\ j # 1
      <4>1. i - 1 = j - 1
        BY <3>3, <2>1 DEF ListInv
      <4> QED
        BY <4>1
    <3> QED
      BY <3>1, <3>2, <3>3
  <2> QED
    BY <2>2, <2>3, <2>4 DEF ListInv
<1> QED
  BY <1>3, <1>4, <1>5

LEMMA UnsubscribeIInv == ASSUME IInv, NEW s \in Subscribers, Unsubscribe(s) PROVE IInv'
<1> USE DEF IInv
<1>0. Len(items) \in Nat
  BY LenProperties DEF TypeOK
<1>1. PICK k \in 1..Len(items) : items[k] = s /\ items' = Without(k)
  BY DEF Unsubscribe, TypeOK
<1>2. /\ items' \in Seq(Subscribers) /\ Len(items') = Len(items) - 1
      /\ \A j \in 1..Len(items) - 1 : items'[j] = IF j < k THEN items[j] ELSE items[j + 1]
  BY <1>1, WithoutIs DEF TypeOK
<1> DEFINE old(j) == IF j < k THEN j ELSE j + 1
<1>3. \A j \in 1..Len(items') : old(j) \in 1..Len(items) /\ items'[j] = items[old(j)] /\ old(j) # k
  BY <1>0, <1>2
<1>4. \A j \in 1..Len(items') : items'[j] \in Subscribers /\ items'[j] # s
  <2> SUFFICES ASSUME NEW j \in 1..Len(items') PROVE items'[j] \in Subscribers /\ items'[j] # s
    OBVIOUS
  <2>1. old(j) \in 1..Len(items) /\ items'[j] = items[old(j)] /\ old(j) # k
    BY <1>3
  <2>2. items[old(j)] \in Subscribers
    BY <2>1, ElementOfSeq DEF TypeOK
  <2> QED
    BY <1>1, <2>1, <2>2 DEF ListInv
<1>5. TypeOK'
  BY <1>2 DEF TypeOK, Unsubscribe
<1>6. SeenInv'
  BY <1>3, PubSubAssumption DEF SeenInv, Unsubscribe
<1>7. ListInv'
  <2>1. \A j \in 1..Len(items') : spc'[items'[j]] # "off"
    <3> SUFFICES ASSUME NEW j \in 1..Len(items') PROVE spc'[items'[j]] # "off"
      OBVIOUS
    <3>1. old(j) \in 1..Len(items) /\ items'[j] = items[old(j)]
      BY <1>3
    <3>2. spc[items'[j]] # "off"
      BY <3>1 DEF ListInv
    <3> QED
      BY <3>2, <1>4 DEF TypeOK, Unsubscribe
  <2>2. \A x \in Subscribers : spc'[x] # "off" => \E j \in 1..Len(items') : items'[j] = x
    <3> SUFFICES ASSUME NEW x \in Subscribers, spc'[x] # "off"
                 PROVE \E j \in 1..Len(items') : items'[j] = x
      OBVIOUS
    <3>1. x # s /\ spc[x] # "off"
      BY DEF TypeOK, Unsubscribe
    <3>2. PICK i \in 1..Len(items) : items[i] = x
      BY <3>1 DEF ListInv
    <3>3. CASE i < k
      <4>1. i \in 1..Len(items') /\ items'[i] = x
        BY <1>0, <3>2, <3>3, <1>2
      <4> QED
        BY <4>1
    <3>4. CASE i > k
      <4>1. i - 1 \in 1..Len(items') /\ items'[i - 1] = x
        BY <1>0, <3>2, <3>4, <1>2
      <4> QED
        BY <4>1
    <3>5. i # k
      BY <3>1, <3>2, <1>1
    <3> QED
      BY <3>3, <3>4, <3>5
  <2>3. \A i, j \in 1..Len(items') : items'[i] = items'[j] => i = j
    <3> SUFFICES ASSUME NEW i \in 1..Len(items'), NEW j \in 1..Len(items'), items'[i] = items'[j]
                 PROVE i = j
      OBVIOUS
    <3>1. old(i) = old(j)
      BY <1>3 DEF ListInv
    <3> QED
      BY <3>1
  <2> QED
    BY <2>1, <2>2, <2>3 DEF ListInv
<1> QED
  BY <1>5, <1>6, <1>7

LEMMA TakeIInv == ASSUME IInv, NEW s \in Subscribers, Take(s) PROVE IInv'
<1>1. pending[s] - 1 \in 0..QueueSize
  BY PubSubAssumption DEF IInv, TypeOK, Take
<1>2. TypeOK'
  BY <1>1 DEF IInv, TypeOK, Take
<1>3. SeenInv' /\ ListInv'
  BY DEF IInv, SeenInv, ListInv, Take
<1> QED
  BY <1>2, <1>3 DEF IInv

LEMMA QuitIInv == ASSUME IInv, NEW s \in Subscribers, Quit(s) PROVE IInv'
<1>1. TypeOK' /\ SeenInv'
  BY DEF IInv, TypeOK, SeenInv, Quit
<1>2. \A x \in Subscribers : spc'[x] # "off" <=> spc[x] # "off"
  BY DEF IInv, TypeOK, Quit
<1>3. \A i \in 1..Len(items) : items[i] \in Subscribers
  BY DEF IInv, TypeOK
<1>4. ListInv'
  BY <1>2, <1>3 DEF IInv, ListInv, Quit
<1> QED
  BY <1>1, <1>4 DEF IInv

LEMMA PublishIInv == ASSUME IInv, NEW p \in Publishers, Publish(p) PROVE IInv'
<1>1. TypeOK'
  BY DEF IInv, TypeOK, Publish
<1>2. SeenInv'
  <2>1. mutex' # NULL
    BY PubSubAssumption DEF Publish
  <2>2. \A q \in Publishers : mutex' = q => q = p
    BY DEF Publish
  <2>3. cur'[p] = sent' /\ it'[p] = 1 /\ sent' = sent + 1 /\ items' = items /\ seen' = seen
    BY DEF IInv, TypeOK, Publish
  <2>4. \A i \in 1..Len(items) : seen[items[i]] = sent /\ ~(i < 1)
    BY DEF IInv, TypeOK, SeenInv, Publish
  <2>5. 1 \in 1..Len(items) + 1
    BY DEF IInv, TypeOK
  <2> QED
    BY <2>1, <2>2, <2>3, <2>4, <2>5 DEF SeenInv
<1>3. ListInv'
  BY DEF IInv, ListInv, Publish
<1> QED
  BY <1>1, <1>2, <1>3 DEF IInv

LEMMA CallbackIInv == ASSUME IInv, NEW p \in Publishers, Callback(p) PROVE IInv'
<1> DEFINE s == items[it[p]]
<1>1. it[p] \in 1..Len(items) /\ s \in Subscribers /\ cur[p] = sent /\ mutex = p
  BY DEF IInv, TypeOK, SeenInv, Callback, HasRoom
<1>2. TypeOK'
  <2>1. pending' \in [Subscribers -> 0..QueueSize]
    <3>1. s \in Queued => pending[s] + 1 \in 0..QueueSize
      BY <1>1, PubSubAssumption DEF IInv, TypeOK, Callback, HasRoom
    <3> QED
      BY <1>1, <3>1 DEF IInv, TypeOK, Callback
  <2>2. seen' \in [Subscribers -> Nat] /\ it' \in [Publishers -> Nat \ {0}]
    BY <1>1 DEF IInv, TypeOK, Callback, HasRoom
  <2> QED
    BY <2>1, <2>2 DEF IInv, TypeOK, Callback, HasRoom
<1>3. SeenInv'
  <2>1. mutex' # NULL /\ \A q \in Publishers : mutex' = q => q = p
    BY <1>1, PubSubAssumption DEF Callback, HasRoom
  <2>2. it'[p] = it[p] + 1 /\ cur'[p] = sent' /\ sent' = sent /\ items' = items
    BY <1>1 DEF IInv, TypeOK, Callback, HasRoom
  <2>3. it'[p] \in 1..Len(items') + 1
    BY <1>1, <2>2 DEF IInv, TypeOK
  <2>4. \A i \in 1..Len(items) :
          IF i < it[p] + 1 THEN seen'[items[i]] = sent ELSE seen'[items[i]] + 1 = sent
    <3> SUFFICES ASSUME NEW i \in 1..Len(items)
                 PROVE IF i < it[p] + 1 THEN seen'[items[i]] = sent ELSE seen'[items[i]] + 1 = sent
      OBVIOUS
    <3>0. seen' = [seen EXCEPT ![s] = cur[p]] /\ items[i] \in Subscribers
      BY DEF IInv, TypeOK, Callback, HasRoom
    <3>1. CASE i = it[p]
      BY <1>1, <3>0, <3>1 DEF IInv, TypeOK
    <3>2. CASE i # it[p]
      <4>1. items[i] # s
        BY <1>1, <3>2 DEF IInv, ListInv
      <4>2. seen'[items[i]] = seen[items[i]]
        BY <4>1, <3>0 DEF IInv, TypeOK
      <4>3. IF i < it[p] THEN seen[items[i]] = sent ELSE seen[items[i]] + 1 = sent
        BY <1>1 DEF IInv, SeenInv
      <4> QED
        BY <4>2, <4>3, <1>1, <3>2
    <3> QED
      BY <3>1, <3>2
  <2> QED
    BY <2>1, <2>2, <2>3, <2>4 DEF SeenInv
<1>4. ListInv'
  BY DEF IInv, ListInv, Callback, HasRoom
<1> QED
  BY <1>2, <1>3, <1>4 DEF IInv

LEMMA FinishIInv == ASSUME IInv, NEW p \in Publishers, Finish(p) PROVE IInv'
<1>1. TypeOK' /\ ListInv'
  BY DEF IInv, TypeOK, ListInv, Finish
<1>2. \A i \in 1..Len(items) : i < it[p]
  BY DEF IInv, TypeOK, Finish
<1>3. SeenInv'
  BY <1>2, PubSubAssumption DEF IInv, SeenInv, Finish
<1> QED
  BY <1>1, <1>3 DEF IInv

LEMMA StutterIInv == ASSUME IInv, UNCHANGED vars PROVE IInv'
  BY DEF vars, publisher, subscriber, IInv, TypeOK, SeenInv, ListInv

LEMMA NextIInv == IInv /\ [Next]_vars => IInv'
<1> SUFFICES ASSUME IInv, [Next]_vars PROVE IInv'
  OBVIOUS
<1>1. ASSUME NEW s \in Subscribers, SubscriberStep(s) PROVE IInv'
  BY <1>1, SubscribeIInv, TakeIInv, QuitIInv, UnsubscribeIInv DEF SubscriberStep
<1>2. ASSUME NEW p \in Publishers, PublisherStep(p) PROVE IInv'
  BY <1>2, PublishIInv, CallbackIInv, FinishIInv DEF PublisherStep
<1>3. CASE UNCHANGED vars
  BY <1>3, StutterIInv
<1> QED
  BY <1>1, <1>2, <1>3 DEF Next

\* The invariant of the pubsub (see the head of the module).
THEOREM PubSubInvariant == Spec => []IInv
  BY InitIInv, NextIInv, PTL DEF Spec

\* Types.
THEOREM PubSubTypeOK == Spec => []TypeOK
  BY PubSubInvariant, PTL DEF IInv

LEMMA ListInvIs == IInv => ListIsSubscribers
<1> SUFFICES ASSUME IInv PROVE ListIsSubscribers
  OBVIOUS
<1>1. DOMAIN items = 1..Len(items) /\ \A i \in 1..Len(items) : items[i] \in Subscribers
  BY DEF IInv, TypeOK
<1> QED
  BY <1>1 DEF IInv, ListInv, ListIsSubscribers, SubscribersIn

\* The list has exactly the subscribers, each once.
THEOREM PubSubListIsSubscribers == Spec => []ListIsSubscribers
  BY PubSubInvariant, ListInvIs, PTL

LEMMA NoCallbackIs == IInv => NoCallbackAfterUnsubscribe
  BY DEF IInv, TypeOK, ListInv, NoCallbackAfterUnsubscribe

\* Nobody is called back after its unsubscribe has returned.
THEOREM PubSubNoCallbackAfterUnsubscribe == Spec => []NoCallbackAfterUnsubscribe
  BY PubSubInvariant, NoCallbackIs, PTL

LEMMA PublisherGoesOnIs == IInv => PublisherGoesOn
<1> SUFFICES ASSUME IInv, NEW p \in Publishers, mutex = p, it[p] <= Len(items),
                    ~HasRoom(items[it[p]])
             PROVE  (spc[items[it[p]]] = "on" /\ pending[items[it[p]]] > 0) \/ DeadEnd
  BY DEF PublisherGoesOn
<1> DEFINE s == items[it[p]]
<1>1. it[p] \in 1..Len(items) /\ s \in Subscribers
  BY DEF IInv, TypeOK
<1>2. s \in Queued /\ pending[s] = QueueSize /\ QueueSize > 0
  BY <1>1, PubSubAssumption DEF IInv, TypeOK, HasRoom
<1>3. spc[s] \in {"on", "leave"}
  BY <1>1 DEF IInv, TypeOK, ListInv
<1>4. CASE spc[s] = "leave"
  BY <1>1, <1>2, <1>4 DEF DeadEnd
<1> QED
  BY <1>2, <1>3, <1>4

\* The publisher never waits, with the mutex, for a thread that has left the
\* list, and for one that does not take any more only in a dead end.
THEOREM PubSubPublisherGoesOn == Spec => []PublisherGoesOn
  BY PubSubInvariant, PublisherGoesOnIs, PTL

-----------------------------------------------------------------------------
LEMMA InitBC == Init => BC!BInit
  BY DEF Init, BC!BInit

LEMMA StepBC == ASSUME IInv, [Next]_vars PROVE [BC!BNext]_(BC!bvars)
<1> DEFINE on == {s \in Subscribers : spc[s] # "off"}
<1> USE DEF IInv, BC!bvars
<1>1. ASSUME NEW s \in Subscribers, Subscribe(s) PROVE BC!BNext
  <2>1. on' = on \cup {s} /\ s \notin on
    BY <1>1 DEF TypeOK, Subscribe
  <2>2. BC!BJoin(s)
    BY <1>1, <2>1 DEF Subscribe, BC!BJoin
  <2> QED
    BY <2>2 DEF BC!BNext
<1>2. ASSUME NEW s \in Subscribers, Take(s) PROVE UNCHANGED BC!bvars
  BY <1>2 DEF Take
<1>3. ASSUME NEW s \in Subscribers, Quit(s) PROVE UNCHANGED BC!bvars
  <2>1. on' = on
    BY <1>3 DEF TypeOK, Quit
  <2> QED
    BY <1>3, <2>1 DEF Quit
<1>4. ASSUME NEW s \in Subscribers, Unsubscribe(s) PROVE BC!BNext
  <2>1. on' = on \ {s} /\ s \in on
    BY <1>4 DEF TypeOK, Unsubscribe
  <2>2. seen[s] = sent
    <3>1. PICK i \in 1..Len(items) : items[i] = s
      BY <1>4 DEF ListInv, Unsubscribe
    <3> QED
      BY <1>4, <3>1 DEF SeenInv, Unsubscribe
  <2>3. BC!BLeave(s)
    BY <1>4, <2>1, <2>2 DEF Unsubscribe, BC!BLeave, BC!UpToDate
  <2> QED
    BY <2>3 DEF BC!BNext
<1>5. ASSUME NEW p \in Publishers, Publish(p) PROVE BC!BNext
  <2>1. \A s \in on : seen[s] = sent
    BY <1>5 DEF ListInv, SeenInv, Publish
  <2>2. BC!BPublish
    BY <1>5, <2>1 DEF Publish, subscriber, BC!BPublish, BC!UpToDate
  <2> QED
    BY <2>2 DEF BC!BNext
<1>6. ASSUME NEW p \in Publishers, Callback(p) PROVE BC!BNext
  <2> DEFINE s == items[it[p]]
  <2>1. it[p] \in 1..Len(items) /\ s \in Subscribers /\ cur[p] = sent /\ seen[s] + 1 = sent
    BY <1>6 DEF TypeOK, SeenInv, Callback, HasRoom
  <2>2. s \in on
    BY <2>1 DEF ListInv
  <2>3. BC!BDeliver(s)
    BY <1>6, <2>1, <2>2 DEF Callback, HasRoom, BC!BDeliver
  <2> QED
    BY <2>1, <2>3 DEF BC!BNext
<1>7. ASSUME NEW p \in Publishers, Finish(p) PROVE UNCHANGED BC!bvars
  BY <1>7 DEF Finish, subscriber
<1>8. CASE UNCHANGED vars
  BY <1>8 DEF vars, subscriber
<1> QED
  BY <1>1, <1>2, <1>3, <1>4, <1>5, <1>6, <1>7, <1>8
     DEF Next, SubscriberStep, PublisherStep

\* The pubsub implements the broadcast: every step of it is a step of Broadcast
\* or changes nothing there.
THEOREM PubSubImplementsBroadcast == Spec => ImplementsBroadcast
  BY PubSubInvariant, InitBC, StepBC, PTL DEF Spec, ImplementsBroadcast, BC!BSpec
=============================================================================
