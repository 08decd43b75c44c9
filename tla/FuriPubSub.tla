----------------------------- MODULE FuriPubSub -----------------------------
(***************************************************************************)
(* The publish and subscribe of furi (furi/core/pubsub.c).  The publisher  *)
(* holds the mutex while it calls the subscribers' callbacks one by one.   *)
(*                                                                         *)
(* A callback either returns at once or puts the message into a queue that *)
(* the subscriber's thread empties, and waits while the queue is full:     *)
(* gui_input_events_callback (services/gui/gui.c) and                      *)
(* input_cli_dump_events_callback (services/input/input_cli.c) do.         *)
(* A subscriber that leaves stops emptying its queue first, as             *)
(* input_cli_dump does.                                                    *)
(*                                                                         *)
(* subscribe and unsubscribe do not wait while they hold the mutex, so     *)
(* each is one step.                                                       *)
(***************************************************************************)
EXTENDS Naturals, Sequences

CONSTANTS
  Publishers,  \* the threads that publish
  Subscribers, \* the subscriptions
  Queued,      \* those whose callback puts into a queue
  Leavers,     \* those that unsubscribe
  QueueSize,   \* the length of the queues
  MaxSent,     \* bound: how many messages are published
  NULL         \* the owner of a free mutex

ASSUME PubSubAssumption ==
  /\ Queued \subseteq Subscribers
  /\ Leavers \subseteq Subscribers
  /\ NULL \notin Publishers
  /\ QueueSize \in Nat \ {0}
  /\ MaxSent \in Nat

VARIABLES
  mutex,       \* FuriPubSub.mutex: NULL or the publisher that holds it
  items,       \* FuriPubSub.items, the newest first
  cur,         \* the message each publisher is publishing
  it,          \* each publisher's iterator over items
  spc,         \* where each subscriber is
  pending,     \* the length of each subscriber's queue
  sent,        \* how many messages were published
  seen         \* the last message each subscriber's callback was called with

publisher  == <<cur, it>>
subscriber == <<spc, pending>>
vars == <<mutex, items, publisher, subscriber, sent, seen>>

SubscribersIn(s) == {s[i] : i \in DOMAIN s}

TypeOK ==
  /\ mutex \in Publishers \cup {NULL}
  /\ items \in Seq(Subscribers)
  /\ cur \in [Publishers -> Nat]
  /\ it \in [Publishers -> Nat \ {0}]
  /\ spc \in [Subscribers -> {"off", "on", "leave"}]
  /\ pending \in [Subscribers -> 0..QueueSize]
  /\ sent \in Nat
  /\ seen \in [Subscribers -> Nat]

Init ==
  /\ mutex = NULL
  /\ items = <<>>
  /\ cur = [p \in Publishers |-> 0]
  /\ it = [p \in Publishers |-> 1]
  /\ spc = [s \in Subscribers |-> "off"]
  /\ pending = [s \in Subscribers |-> 0]
  /\ sent = 0
  /\ seen = [s \in Subscribers |-> 0]

-----------------------------------------------------------------------------
\* The list without its i-th item.  (Mutants, here and below, are named after
\* the definition they replace; this one removes the next item.)
Without_Next(i) == [j \in 1..Len(items) - 1 |-> IF j <= i THEN items[j] ELSE items[j + 1]]
Without(i) == [j \in 1..Len(items) - 1 |-> IF j < i THEN items[j] ELSE items[j + 1]]

\* furi_pubsub_subscribe; seen says which messages came too early.
Subscribe(s) ==
  /\ mutex = NULL
  /\ spc[s] = "off"
  /\ spc' = [spc EXCEPT ![s] = "on"]
  /\ pending' = [pending EXCEPT ![s] = 0]
  /\ items' = <<s>> \o items
  /\ seen' = [seen EXCEPT ![s] = sent]
  /\ UNCHANGED <<mutex, publisher, sent>>

\* The subscriber's thread takes a message from its queue ...
Take(s) ==
  /\ spc[s] = "on"
  /\ pending[s] > 0
  /\ pending' = [pending EXCEPT ![s] = @ - 1]
  /\ UNCHANGED <<mutex, items, publisher, spc, sent, seen>>

\* ... until it wants to leave.
Quit(s) ==
  /\ s \in Leavers
  /\ spc[s] = "on"
  /\ spc' = [spc EXCEPT ![s] = "leave"]
  /\ UNCHANGED <<mutex, items, publisher, pending, sent, seen>>

\* furi_pubsub_unsubscribe; the queue is freed afterwards.  (Mutant: it does
\* not take the mutex.)
Unsubscribe_NoMutex(s) ==
  /\ spc[s] = "leave"
  /\ spc' = [spc EXCEPT ![s] = "off"]
  /\ \E i \in DOMAIN items : items[i] = s /\ items' = Without(i)
  /\ UNCHANGED <<mutex, publisher, pending, sent, seen>>
Unsubscribe(s) ==
  /\ mutex = NULL
  /\ spc[s] = "leave"
  /\ spc' = [spc EXCEPT ![s] = "off"]
  /\ \E i \in DOMAIN items : items[i] = s /\ items' = Without(i)
  /\ UNCHANGED <<mutex, publisher, pending, sent, seen>>

\* furi_pubsub_publish takes the mutex, ...
Publish(p) ==
  /\ mutex = NULL
  /\ sent < MaxSent
  /\ mutex' = p
  /\ sent' = sent + 1
  /\ cur' = [cur EXCEPT ![p] = sent + 1]
  /\ it' = [it EXCEPT ![p] = 1]
  /\ UNCHANGED <<items, subscriber, seen>>

\* ... calls the callbacks, which wait while their queue is full ...
HasRoom(s) == s \in Queued => pending[s] < QueueSize
Callback(p) ==
  /\ mutex = p
  /\ it[p] <= Len(items)
  /\ LET s == items[it[p]] IN
       /\ HasRoom(s)
       /\ pending' = IF s \in Queued THEN [pending EXCEPT ![s] = @ + 1] ELSE pending
       /\ seen' = [seen EXCEPT ![s] = cur[p]]
  /\ it' = [it EXCEPT ![p] = @ + 1]
  /\ UNCHANGED <<mutex, items, cur, spc, sent>>

\* ... and releases the mutex.  (Mutant: it keeps the mutex.)
Finish_Keeps(p) ==
  /\ mutex = p
  /\ it[p] > Len(items)
  /\ UNCHANGED vars
Finish(p) ==
  /\ mutex = p
  /\ it[p] > Len(items)
  /\ mutex' = NULL
  /\ UNCHANGED <<items, publisher, subscriber, sent, seen>>

SubscriberStep(s) == Subscribe(s) \/ Take(s) \/ Quit(s) \/ Unsubscribe(s)
PublisherStep(p)  == Publish(p) \/ Callback(p) \/ Finish(p)

Next ==
  \/ \E s \in Subscribers : SubscriberStep(s)
  \/ \E p \in Publishers : PublisherStep(p)

Spec == Init /\ [][Next]_vars

\* The threads run; a thread that waits for the mutex gets it if it is free
\* again and again (the kernel keeps the waiting threads in a list).
Fairness ==
  /\ \A s \in Subscribers : WF_vars(Take(s)) /\ SF_vars(Unsubscribe(s))
  /\ \A p \in Publishers : WF_vars(Callback(p) \/ Finish(p))

FairSpec == Spec /\ Fairness

-----------------------------------------------------------------------------
\* Nobody's callback is called after its unsubscribe has returned: whoever the
\* iterator of a publisher has still to come to, is subscribed.
NoCallbackAfterUnsubscribe ==
  \A p \in Publishers : mutex = p =>
    \A i \in it[p]..Len(items) : spc[items[i]] # "off"

\* The list has every subscriber once.
ListIsSubscribers ==
  /\ SubscribersIn(items) = {s \in Subscribers : spc[s] # "off"}
  /\ \A i, j \in DOMAIN items : items[i] = items[j] => i = j

\* The pubsub is a broadcast: one order for everybody, no gap, nothing twice.
BC == INSTANCE Broadcast WITH on <- {s \in Subscribers : spc[s] # "off"}
ImplementsBroadcast == BC!BSpec

\* The publisher's callback waits for room in a queue that nobody empties any
\* more: its subscriber wants to unsubscribe, and waits for the publisher's
\* mutex ("input dump" after CTRL+C, input_cli.c).
DeadEnd ==
  \E p \in Publishers, s \in Queued :
    /\ mutex = p /\ it[p] <= Len(items) /\ items[it[p]] = s
    /\ spc[s] = "leave" /\ pending[s] = QueueSize

\* The core of UnsubscribeReturns: a publisher that holds the mutex can go on, or
\* waits for a queue that its subscriber still empties, except in a dead end.
PublisherGoesOn ==
  \A p \in Publishers : mutex = p /\ it[p] <= Len(items) =>
    LET s == items[it[p]] IN
    HasRoom(s) \/ (spc[s] = "on" /\ pending[s] > 0) \/ DeadEnd

\* Whoever wants to unsubscribe is unsubscribed in the end, except in a dead
\* end.
UnsubscribeReturns ==
  \A s \in Subscribers : spc[s] = "leave" ~> spc[s] = "off" \/ DeadEnd
=============================================================================
