------------------------- MODULE ViewDispatcherProofs -------------------------
(***************************************************************************)
(* Theorems about ViewDispatcher: the safety of its input routing, for any *)
(* keys and views, any length of the queue, and any bounds.                *)
(***************************************************************************)
EXTENDS ViewDispatcher, SequenceTheorems, TLAPS

(* Who has the GUI's mutex, and what it does with it.                      *)
MutexInv ==
  /\ gevent # NULL <=> guiMutex = "gui"
  /\ apc = "removing" <=> guiMutex = "app"
  /\ apc = "put" => putting # NULL
  /\ \A k \in InputKeys : gevent = <<"Press", k>> => k \in seen

(* Key k is up when everything before position i of queue q was handled.   *)
Up(q, on, k, i) ==
  \/ \E j \in 1..i-1 : q[j] = <<"Release", k>> /\ \A m \in j+1..i-1 : q[m] # <<"Press", k>>
  \/ k \notin on /\ \A m \in 1..i-1 : q[m] # <<"Press", k>>

(* A key that the view port does not see pressed will be up when all that  *)
(* is under way was handled.  As long as it saw none pressed twice, a      *)
(* Press finds its key up: one in the queue, and one that the GUI's thread *)
(* is putting.                                                             *)
TurnsInv ==
  /\ ~repeated => \A i \in DOMAIN queue, k \in InputKeys :
        queue[i] = <<"Press", k>> => Up(queue, ongoing, k, i)
  /\ \A k \in InputKeys : k \notin seen \/ (~repeated /\ gevent = <<"Press", k>>) =>
        gevent = <<"Release", k>> \/ Up(queue, ongoing, k, Len(queue) + 1)

IInv == TypeOK /\ MutexInv /\ NoInputAfterRemove /\ TurnsInv /\ OneViewAtATime

(***************************************************************************)
(* The queue                                                               *)
(***************************************************************************)
LEMMA UpAppend ==
  ASSUME NEW q \in Seq(Messages), NEW e \in Messages, NEW on, NEW k, NEW i \in 1..Len(q) + 1,
         Up(q, on, k, i)
  PROVE  Up(Append(q, e), on, k, i)
<1>1. \A m \in 1..i-1 : Append(q, e)[m] = q[m]
  OBVIOUS
<1>2. \A j \in 1..i-1 : \A m \in j+1..i-1 : m \in 1..i-1
  OBVIOUS
<1> QED
  BY <1>1, <1>2 DEF Up

LEMMA UpNext ==
  ASSUME NEW q, NEW on, NEW k, NEW i \in Nat \ {0}, Up(q, on, k, i), q[i] # <<"Press", k>>
  PROVE  Up(q, on, k, i + 1)
<1>1. (i + 1) - 1 = i
  OBVIOUS
<1>2. CASE k \notin on /\ \A m \in 1..i-1 : q[m] # <<"Press", k>>
  BY <1>1, <1>2 DEF Up
<1>3. CASE \E j \in 1..i-1 : /\ q[j] = <<"Release", k>>
                             /\ \A m \in j+1..i-1 : q[m] # <<"Press", k>>
  <2>1. PICK j \in 1..i-1 : /\ q[j] = <<"Release", k>>
                            /\ \A m \in j+1..i-1 : q[m] # <<"Press", k>>
    BY <1>3
  <2>2. \A m \in j+1..i : m = i \/ m \in j+1..i-1
    OBVIOUS
  <2>3. \A m \in j+1..i : q[m] # <<"Press", k>>
    BY <2>1, <2>2
  <2>4. j \in 1..i
    OBVIOUS
  <2> QED
    BY <1>1, <2>1, <2>3, <2>4 DEF Up
<1> QED
  BY <1>2, <1>3 DEF Up

(* The head is handled: on2 is what on becomes.                            *)
LEMMA UpTail ==
  ASSUME NEW q \in Seq(Messages), q # <<>>, NEW on, NEW on2, NEW k, NEW i \in 1..Len(q),
         Up(q, on, k, i + 1),
         Head(q) = <<"Release", k>> => k \notin on2,
         Head(q) # <<"Press", k>> /\ k \notin on => k \notin on2
  PROVE  Up(Tail(q), on2, k, i)
<1>1. /\ Len(q) \in Nat /\ Head(q) = q[1] /\ i \in Nat /\ (i + 1) - 1 = i
      /\ \A m \in 1..i-1 : Tail(q)[m] = q[m + 1] /\ m + 1 \in 1..i /\ m \in Int
  OBVIOUS
<1>2. CASE k \notin on /\ \A m \in 1..i : q[m] # <<"Press", k>>
  <2>1. 1 \in 1..i
    OBVIOUS
  <2> QED
    BY <1>1, <1>2, <2>1 DEF Up
<1>3. CASE \E j \in 1..i : q[j] = <<"Release", k>> /\ \A m \in j+1..i : q[m] # <<"Press", k>>
  <2>1. PICK j \in 1..i : q[j] = <<"Release", k>> /\ \A m \in j+1..i : q[m] # <<"Press", k>>
    BY <1>3
  <2>2. CASE j = 1
    <3>1. \A m \in 1..i-1 : m + 1 \in j+1..i
      BY <2>2
    <3> QED
      BY <1>1, <2>1, <2>2, <3>1 DEF Up
  <2>3. CASE j # 1
    <3>1. j - 1 \in 1..i-1 /\ (j - 1) + 1 = j
      BY <2>3
    <3>2. \A m \in (j-1)+1..i-1 : m \in 1..i-1 /\ m + 1 \in j+1..i
      BY <2>3
    <3>3. Tail(q)[j - 1] = <<"Release", k>>
      BY <1>1, <2>1, <3>1
    <3>4. \A m \in (j-1)+1..i-1 : Tail(q)[m] # <<"Press", k>>
      BY <1>1, <2>1, <3>2
    <3> QED
      BY <3>1, <3>3, <3>4 DEF Up
  <2> QED
    BY <2>2, <2>3
<1> QED
  BY <1>1, <1>2, <1>3 DEF Up

(* A message that is no Press goes to the end of the queue.                *)
LEMMA PutKeepsTurns ==
  ASSUME IInv, NEW m \in Messages, \A k \in InputKeys : m # <<"Press", k>>,
         queue' = Append(queue, m), UNCHANGED <<ongoing, seen, repeated, gevent>>
  PROVE  TurnsInv'
<1>1. queue \in Seq(Messages)
  BY DEF IInv, TypeOK
<1>2. /\ DOMAIN queue = 1..Len(queue) /\ DOMAIN queue' = 1..Len(queue) + 1
      /\ Len(queue) \in Nat /\ Len(queue') = Len(queue) + 1
      /\ queue'[Len(queue) + 1] = m /\ \A i \in 1..Len(queue) : queue'[i] = queue[i]
  BY <1>1
<1>3. \A i \in 1..Len(queue) + 1, k \in InputKeys : Up(queue, ongoing, k, i) => Up(queue', ongoing, k, i)
  BY <1>1, UpAppend
<1>4. ASSUME ~repeated, NEW i \in DOMAIN queue', NEW k \in InputKeys, queue'[i] = <<"Press", k>>
      PROVE  Up(queue', ongoing, k, i)
  <2>1. i # Len(queue) + 1 /\ i \in 1..Len(queue) + 1
    BY <1>2, <1>4
  <2>2. i \in DOMAIN queue /\ queue'[i] = queue[i]
    BY <1>2, <2>1
  <2> QED
    BY <1>3, <1>4, <2>1, <2>2 DEF IInv, TurnsInv
<1>5. ASSUME NEW k \in InputKeys, Up(queue, ongoing, k, Len(queue) + 1)
      PROVE  Up(queue', ongoing, k, Len(queue') + 1)
  <2>1. Up(queue', ongoing, k, Len(queue) + 1) /\ Len(queue) + 1 \in Nat \ {0}
    BY <1>2, <1>3, <1>5
  <2> QED
    BY <1>2, <2>1, UpNext
<1> QED
  BY <1>4, <1>5 DEF IInv, TurnsInv

(* The head is handled, or drained.                                        *)
LEMMA TailKeepsTurns ==
  ASSUME IInv, queue # <<>>, queue' = Tail(queue), UNCHANGED <<seen, repeated, gevent>>,
         \A k \in InputKeys : /\ Head(queue) = <<"Release", k>> => k \notin ongoing'
                              /\ Head(queue) # <<"Press", k>> /\ k \notin ongoing => k \notin ongoing'
  PROVE  TurnsInv'
<1>1. queue \in Seq(Messages)
  BY DEF IInv, TypeOK
<1>2. /\ Len(queue) \in Nat \ {0} /\ Len(queue') = Len(queue) - 1
      /\ DOMAIN queue = 1..Len(queue) /\ DOMAIN queue' = 1..Len(queue) - 1
      /\ \A i \in 1..Len(queue) - 1 : queue'[i] = queue[i + 1]
  BY <1>1
<1>3. \A i \in 1..Len(queue), k \in InputKeys : Up(queue, ongoing, k, i + 1) => Up(queue', ongoing', k, i)
  <2> SUFFICES ASSUME NEW i \in 1..Len(queue), NEW k \in InputKeys, Up(queue, ongoing, k, i + 1)
               PROVE  Up(queue', ongoing', k, i)
    OBVIOUS
  <2>1. /\ Head(queue) = <<"Release", k>> => k \notin ongoing'
        /\ Head(queue) # <<"Press", k>> /\ k \notin ongoing => k \notin ongoing'
    OBVIOUS
  <2> QED
    BY <1>1, <2>1, UpTail
<1>4. \A i \in DOMAIN queue' : i \in 1..Len(queue) /\ i + 1 \in DOMAIN queue /\ queue'[i] = queue[i + 1]
  BY <1>2
<1>5. Len(queue) \in 1..Len(queue) /\ Len(queue') + 1 = Len(queue)
  BY <1>2
<1> QED
  BY <1>3, <1>4, <1>5 DEF IInv, TurnsInv

(* A vertical view port tells the keys apart as well as another one does.  *)
LEMMA NameIs ==
  \A o : \A k \in InputKeys :
    /\ NameOf(k, o) \in InputKeys
    /\ \A j \in InputKeys : NameOf(j, o) = NameOf(k, o) => j = k
    /\ k \notin Arrows => NameOf(k, o) = k
  BY DEF NameOf, InputKeys, Rotated, Arrows

(* The names of the keys that are down after an event.                     *)
LEMMA NamesAfter ==
  ASSUME NEW keys \in SUBSET InputKeys, NEW k \in InputKeys, NEW o
  PROVE  /\ NamesOf(keys \cup {k}, o) = NamesOf(keys, o) \cup {NameOf(k, o)}
         /\ NamesOf(keys \ {k}, o) = NamesOf(keys, o) \ {NameOf(k, o)}
<1>1. \A j \in keys : NameOf(j, o) = NameOf(k, o) => j = k
  BY NameIs
<1> QED
  BY <1>1 DEF NamesOf

LEMMA SameTurns ==
  ASSUME IInv, UNCHANGED <<queue, ongoing, seen, repeated, gevent>>
  PROVE  TurnsInv'
  BY DEF IInv, TurnsInv

LEMMA PutTyped ==
  ASSUME IInv, DispatcherAssumption, HasRoom, NEW m \in Messages, queue' = Append(queue, m)
  PROVE  queue' \in Seq(Messages) /\ Len(queue') <= QueueSize
  BY DEF IInv, TypeOK, HasRoom, DispatcherAssumption

LEMMA CountTyped ==
  ASSUME IInv, DispatcherAssumption
  PROVE  /\ bounds[1] < MaxEvents /\ Count(1) => bounds' \in (0..MaxEvents) \X (0..MaxCustom) \X (0..MaxOps)
         /\ bounds[2] < MaxCustom /\ Count(2) => bounds' \in (0..MaxEvents) \X (0..MaxCustom) \X (0..MaxOps)
         /\ bounds[3] < MaxOps /\ Count(3) => bounds' \in (0..MaxEvents) \X (0..MaxCustom) \X (0..MaxOps)
<1>1. PICK a \in 0..MaxEvents, b \in 0..MaxCustom, c \in 0..MaxOps : bounds = <<a, b, c>>
  BY DEF IInv, TypeOK
<1>2. bounds[1] = a /\ bounds[2] = b /\ bounds[3] = c
  BY <1>1
<1>3. /\ [<<a, b, c>> EXCEPT ![1] = @ + 1] = <<a + 1, b, c>>
      /\ [<<a, b, c>> EXCEPT ![2] = @ + 1] = <<a, b + 1, c>>
      /\ [<<a, b, c>> EXCEPT ![3] = @ + 1] = <<a, b, c + 1>>
  OBVIOUS
<1>4. /\ a < MaxEvents => a + 1 \in 0..MaxEvents
      /\ b < MaxCustom => b + 1 \in 0..MaxCustom
      /\ c < MaxOps => c + 1 \in 0..MaxOps
  BY DEF DispatcherAssumption
<1> QED
  BY <1>1, <1>2, <1>3, <1>4 DEF Count

(***************************************************************************)
(* The GUI's thread and other producers                                    *)
(***************************************************************************)
LEMMA GuiTakesStep ==
  ASSUME IInv, DispatcherAssumption, NEW type \in Types, NEW k \in Keys, GuiTakes(type, k)
  PROVE  IInv'
<1> DEFINE n == NameOf(k, vertical)
<1>1. /\ guiMutex = "nobody" /\ guiMutex' = "gui" /\ gevent' = <<type, n>>
      /\ UNCHANGED <<queue, enabled, vertical, views, current, ongoing, ongoingView, open, apc,
                     putting>>
      /\ down' = HeldAfter(down, type, k) /\ seen' = HeldAfter(seen, type, n)
      /\ repeated' = (repeated \/ (type = "Press" /\ n \in seen))
  BY DEF GuiTakes, views_, input
<1>2. n \in InputKeys
  BY NameIs DEF DispatcherAssumption
<1> HIDE DEF n
<1>3. /\ type = "Press" => seen' = seen \cup {n} /\ down' = down \cup {k}
      /\ type = "Release" => seen' = seen \ {n} /\ down' = down \ {k}
      /\ type = "Tap" => seen' = seen /\ down' = down
  BY <1>1 DEF HeldAfter
<1>4. <<type, n>> \in Inputs /\ <<type, n>> # NULL /\ gevent = NULL
  <2>1. <<type, n>> \in Inputs
    BY <1>2 DEF Inputs
  <2> QED
    BY <1>1, <2>1 DEF IInv, MutexInv, DispatcherAssumption, Messages
<1>5. TypeOK'
  <2>1. bounds' \in (0..MaxEvents) \X (0..MaxCustom) \X (0..MaxOps)
    BY CountTyped DEF GuiTakes, IInv, TypeOK
  <2>2. down' \subseteq Keys /\ seen' \subseteq InputKeys
    BY <1>2, <1>3 DEF IInv, TypeOK, Types
  <2>3. repeated' \in BOOLEAN
    BY <1>1
  <2> QED
    BY <1>1, <1>4, <2>1, <2>2, <2>3 DEF IInv, TypeOK
<1>6. MutexInv' /\ NoInputAfterRemove' /\ OneViewAtATime'
  <2>1. \A x \in InputKeys : gevent' = <<"Press", x>> => x \in seen'
    BY <1>1, <1>3
  <2> QED
    BY <1>1, <1>4, <2>1 DEF IInv, MutexInv, NoInputAfterRemove, OneViewAtATime, Running
<1>7. TurnsInv'
  <2>1. ~repeated' => \A i \in DOMAIN queue', x \in InputKeys :
          queue'[i] = <<"Press", x>> => Up(queue', ongoing', x, i)
    BY <1>1 DEF IInv, TurnsInv
  <2>2. ASSUME NEW x \in InputKeys, x \notin seen' \/ (~repeated' /\ <<type, n>> = <<"Press", x>>),
               <<type, n>> # <<"Release", x>>
        PROVE  Up(queue, ongoing, x, Len(queue) + 1)
    <3>1. x \notin seen
      BY <1>1, <1>3, <2>2 DEF Types
    <3>2. gevent # <<"Release", x>>
      <4>1. <<"Release", x>> \in Inputs
        BY DEF Inputs, Types
      <4> QED
        BY <1>4, <4>1 DEF DispatcherAssumption, Messages
    <3> QED
      BY <3>1, <3>2 DEF IInv, TurnsInv
  <2> QED
    BY <1>1, <2>1, <2>2 DEF TurnsInv
<1> QED
  BY <1>5, <1>6, <1>7 DEF IInv

LEMMA InputCallbackStep == ASSUME IInv, DispatcherAssumption, InputCallback PROVE IInv'
<1>1. /\ guiMutex = "gui" /\ guiMutex' = "nobody" /\ HasRoom /\ gevent' = NULL
      /\ queue' = Append(queue, gevent)
      /\ UNCHANGED <<down, seen, repeated, enabled, vertical, views, current, ongoing,
                     ongoingView, open, apc, putting, bounds>>
  BY DEF InputCallback, views_, input
<1>2. gevent \in Inputs /\ gevent \in Messages
  BY <1>1 DEF IInv, MutexInv, TypeOK, Messages
<1>3. queue' \in Seq(Messages) /\ Len(queue') <= QueueSize /\ queue \in Seq(Messages)
  BY <1>1, <1>2, PutTyped DEF IInv, TypeOK
<1>4. TypeOK'
  BY <1>1, <1>3 DEF IInv, TypeOK
<1>5. MutexInv' /\ NoInputAfterRemove' /\ OneViewAtATime'
  <2>1. \A x \in InputKeys : gevent' # <<"Press", x>>
    <3>1. \A x \in InputKeys : <<"Press", x>> \in Inputs
      BY DEF Inputs, Types
    <3> QED
      BY <1>1, <3>1 DEF DispatcherAssumption, Messages
  <2> QED
    BY <1>1, <2>1 DEF IInv, MutexInv, NoInputAfterRemove, OneViewAtATime, Running
<1>6. TurnsInv'
  <2> DEFINE n == Len(queue) + 1
  <2>1. /\ DOMAIN queue = 1..Len(queue) /\ DOMAIN queue' = 1..n
        /\ Len(queue) \in Nat /\ n \in Nat \ {0} /\ Len(queue') = n /\ Len(queue') + 1 = n + 1
        /\ queue'[n] = gevent /\ \A i \in 1..Len(queue) : queue'[i] = queue[i]
        /\ \A i \in 1..n : i \in 1..Len(queue) \/ i = n
        /\ n \in 1..n /\ \A i \in 1..Len(queue) : i \in 1..n
    BY <1>1, <1>3
  <2>2. \A i \in 1..n, x \in InputKeys : Up(queue, ongoing, x, i) => Up(queue', ongoing, x, i)
    BY <1>1, <1>2, <1>3, UpAppend
  <2> HIDE DEF n
  <2>3. \A x \in InputKeys : x \notin seen \/ (~repeated /\ gevent = <<"Press", x>>) =>
          gevent = <<"Release", x>> \/ Up(queue, ongoing, x, n)
    BY DEF IInv, TurnsInv, n
  <2>4. ASSUME ~repeated, NEW i \in DOMAIN queue', NEW x \in InputKeys, queue'[i] = <<"Press", x>>
        PROVE  Up(queue', ongoing, x, i)
    <3>1. CASE i \in 1..Len(queue)
      BY <2>1, <2>2, <2>4, <3>1 DEF IInv, TurnsInv
    <3>2. CASE i = n
      <4>1. gevent = <<"Press", x>> /\ gevent # <<"Release", x>>
        <5>1. gevent = <<"Press", x>>
          BY <2>1, <2>4, <3>2
        <5>2. <<"Press", x>> # <<"Release", x>>
          OBVIOUS
        <5> QED
          BY <5>1, <5>2
      <4> QED
        BY <2>1, <2>2, <2>3, <2>4, <3>2, <4>1
    <3> QED
      BY <2>1, <3>1, <3>2
  <2>5. ASSUME NEW x \in InputKeys, x \notin seen PROVE Up(queue', ongoing, x, n + 1)
    <3>1. CASE gevent = <<"Release", x>>
      <4>1. n \in 1..(n + 1) - 1 /\ \A m \in n+1..(n + 1) - 1 : FALSE
        BY <2>1
      <4> QED
        BY <2>1, <3>1, <4>1 DEF Up
    <3>2. CASE gevent # <<"Release", x>>
      <4>1. Up(queue, ongoing, x, n)
        BY <2>3, <2>5, <3>2
      <4>2. Up(queue', ongoing, x, n)
        BY <2>1, <2>2, <4>1
      <4>3. gevent # <<"Press", x>>
        BY <2>5 DEF IInv, MutexInv
      <4> QED
        BY <2>1, <4>2, <4>3, UpNext
    <3> QED
      BY <3>1, <3>2
  <2>6. \A x \in InputKeys : NULL # <<"Press", x>>
    <3>1. \A x \in InputKeys : <<"Press", x>> \in Messages
      BY DEF Messages, Inputs, Types
    <3> QED
      BY <3>1 DEF DispatcherAssumption
  <2> QED
    BY <1>1, <2>1, <2>4, <2>5, <2>6 DEF TurnsInv
<1> QED
  BY <1>4, <1>5, <1>6 DEF IInv
LEMMA SendCustomStep == ASSUME IInv, DispatcherAssumption, SendCustomEvent PROVE IInv'
<1>1. /\ HasRoom /\ queue' = Append(queue, Custom) /\ bounds[2] < MaxCustom /\ Count(2)
      /\ UNCHANGED <<down, seen, repeated, gevent, guiMutex, enabled, vertical, views, current,
                     ongoing, ongoingView, open, apc, putting>>
  BY DEF SendCustomEvent, gui, views_, input
<1>2. Custom \in Messages /\ \A k \in InputKeys : Custom # <<"Press", k>>
  BY DEF Messages, Custom
<1>3. queue' \in Seq(Messages) /\ Len(queue') <= QueueSize /\ TurnsInv'
  BY <1>1, <1>2, PutTyped, PutKeepsTurns
<1>4. TypeOK'
  BY <1>1, <1>3, CountTyped DEF IInv, TypeOK
<1>5. MutexInv' /\ NoInputAfterRemove' /\ OneViewAtATime'
  BY <1>1 DEF IInv, MutexInv, NoInputAfterRemove, OneViewAtATime, Running
<1> QED
  BY <1>3, <1>4, <1>5 DEF IInv

(***************************************************************************)
(* The application's thread: it runs the dispatcher                        *)
(***************************************************************************)
(* What becomes of an input message.                                       *)
LEMMA HandleIs ==
  ASSUME IInv, DispatcherAssumption, NEW type \in Types, NEW k \in InputKeys,
         HandleInput(type, k)
  PROVE  /\ ongoing' = OngoingAfter(type, k)
         /\ ongoingView' \in {ongoingView, current}
         /\ type # "Press" \/ ~(ongoing \subseteq {k}) => ongoingView' = ongoingView
         /\ \/ UNCHANGED open /\ (type = "Release" => ongoingView' = NULL)
            \/ /\ ongoingView' \in Views
               /\ type # "Release" => ongoingView' = current
               /\ open' = [open EXCEPT ![ongoingView'] =
                             IF type = "Press" THEN @ \cup {k}
                             ELSE IF type = "Release" THEN @ \ {k} ELSE @]
<1> DEFINE v == Chosen(type, k)
<1>1. v \in {ongoingView, current} /\ (type # "Press" \/ ~(ongoing \subseteq {k}) => v = ongoingView)
  BY DEF Chosen
<1>2. v # NULL => v \in Views
  BY <1>1 DEF IInv, TypeOK
<1>3. /\ ongoing' = OngoingAfter(type, k)
      /\ IF type = "Tap" /\ k \notin ongoing
           THEN UNCHANGED <<ongoingView, open>>
           ELSE /\ ongoingView' = v
                /\ IF Receives(v, type)
                     THEN open' = [open EXCEPT ![v] = HeldAfter(@, type, k)]
                     ELSE UNCHANGED open
  BY DEF HandleInput
<1> HIDE DEF v
<1>4. CASE type = "Press"
  BY <1>1, <1>2, <1>3, <1>4 DEF Receives, HeldAfter
<1>5. CASE type = "Release"
  BY <1>1, <1>2, <1>3, <1>5 DEF Receives, HeldAfter
<1>6. CASE type = "Tap"
  BY <1>1, <1>2, <1>3, <1>6 DEF Receives, HeldAfter
<1> QED
  BY <1>4, <1>5, <1>6 DEF Types

LEMMA RunStep == ASSUME IInv, DispatcherAssumption, Run PROVE IInv'
<1> DEFINE m == Head(queue)
<1>1. /\ apc = "run" /\ queue # <<>> /\ queue' = Tail(queue)
      /\ UNCHANGED <<down, seen, repeated, gevent, guiMutex, enabled, vertical, views, current,
                     putting, bounds>>
      /\ queue \in Seq(Messages) /\ m \in Messages
  BY DEF Run, gui, views_, IInv, TypeOK
<1>2. queue' \in Seq(Messages) /\ Len(queue') <= QueueSize
  BY <1>1 DEF IInv, TypeOK, DispatcherAssumption
<1>3. CASE m \notin Inputs
  <2>1. apc' \in {"act", "drain"} /\ UNCHANGED <<ongoing, ongoingView, open>>
    BY <1>1, <1>3 DEF Run, input, Messages
  <2>2. TurnsInv'
    <3>1. \A x \in InputKeys : m # <<"Press", x>> /\ m # <<"Release", x>>
      BY <1>3 DEF Inputs, Types
    <3> QED
      BY <1>1, <2>1, <3>1, TailKeepsTurns
  <2>3. TypeOK'
    BY <1>1, <1>2, <2>1 DEF IInv, TypeOK, AppPc
  <2>4. MutexInv' /\ NoInputAfterRemove' /\ OneViewAtATime'
    BY <1>1, <2>1 DEF IInv, MutexInv, NoInputAfterRemove, OneViewAtATime, Running
  <2> QED
    BY <2>2, <2>3, <2>4 DEF IInv
<1>4. CASE m \in Inputs
  <2> DEFINE type == m[1]
             k == m[2]
  <2>1. type \in Types /\ k \in InputKeys /\ m = <<type, k>>
    BY <1>4 DEF Inputs
  <2>2. apc' = "act" /\ HandleInput(type, k)
    <3>1. m # Stop /\ m # Custom
      BY <2>1 DEF Stop, Custom
    <3> QED
      BY <3>1 DEF Run
  <2>3. /\ ongoing' = OngoingAfter(type, k)
        /\ ongoingView' \in {ongoingView, current}
        /\ type # "Press" \/ ~(ongoing \subseteq {k}) => ongoingView' = ongoingView
        /\ \/ UNCHANGED open /\ (type = "Release" => ongoingView' = NULL)
           \/ /\ ongoingView' \in Views
              /\ open' = [open EXCEPT ![ongoingView'] =
                            IF type = "Press" THEN @ \cup {k}
                            ELSE IF type = "Release" THEN @ \ {k} ELSE @]
    BY <2>1, <2>2, HandleIs
  <2> HIDE DEF type, k
  <2>4. /\ type = "Press" => ongoing' = ongoing \cup {k}
        /\ type = "Release" => ongoing' = ongoing \ {k}
        /\ type = "Tap" => ongoing' = ongoing
    BY <2>3 DEF OngoingAfter, HeldAfter
  <2>5. TurnsInv'
    <3>1. \A x \in InputKeys : /\ m = <<"Release", x>> => x \notin ongoing'
                               /\ m # <<"Press", x>> /\ x \notin ongoing => x \notin ongoing'
      BY <2>1, <2>4 DEF Types
    <3> QED
      BY <1>1, <3>1, TailKeepsTurns
  <2>6. TypeOK'
    <3>1. ongoing' \subseteq InputKeys
      BY <2>1, <2>4 DEF IInv, TypeOK, Types
    <3>2. open' \in [Views -> SUBSET InputKeys]
      BY <2>1, <2>3 DEF IInv, TypeOK
    <3> QED
      BY <1>1, <1>2, <2>2, <2>3, <3>1, <3>2 DEF IInv, TypeOK, AppPc
  <2>7. MutexInv' /\ NoInputAfterRemove'
    BY <1>1, <2>2, <2>3 DEF IInv, MutexInv, NoInputAfterRemove
  <2>8. OneViewAtATime'
    <3> SUFFICES ASSUME ~repeated, NEW u \in Views, open'[u] # {}
                 PROVE  u = ongoingView' /\ open'[u] \subseteq ongoing'
      BY <1>1 DEF OneViewAtATime
    <3>1. \A x \in Views : open[x] # {} => x = ongoingView /\ open[x] \subseteq ongoing
      BY <1>1 DEF IInv, OneViewAtATime, Running
    <3>2. type = "Press" => k \notin ongoing
      <4>1. 1 \in DOMAIN queue /\ queue[1] = <<type, k>>
        BY <1>1, <2>1
      <4>2. type = "Press" => Up(queue, ongoing, k, 1)
        BY <2>1, <4>1 DEF IInv, TurnsInv
      <4> QED
        BY <4>2 DEF Up
    <3>3. NULL \notin Views /\ open \in [Views -> SUBSET InputKeys]
      BY DEF DispatcherAssumption, IInv, TypeOK
    <3>4. CASE type = "Press"
      <4>1. CASE ongoing \subseteq {k}
        <5>1. \A x \in Views : open[x] = {}
          BY <3>1, <3>2, <3>4, <4>1
        <5>2. u = ongoingView' /\ open'[u] = {k}
          BY <2>3, <3>3, <3>4, <5>1
        <5> QED
          BY <2>4, <3>4, <5>2
      <4>2. CASE ~(ongoing \subseteq {k})
        <5>1. ongoingView' = ongoingView
          BY <2>3, <4>2
        <5>2. u = ongoingView /\ open'[u] \subseteq open[u] \cup {k}
          BY <2>3, <3>1, <3>3, <3>4, <5>1
        <5> QED
          BY <2>4, <3>1, <3>4, <5>1, <5>2
      <4> QED
        BY <4>1, <4>2
    <3>5. CASE type = "Release"
      <4>1. ongoingView' = ongoingView
        BY <2>3, <3>5
      <4>2. CASE ongoingView' = NULL
        BY <2>3, <3>1, <3>3, <4>1, <4>2
      <4>3. CASE ongoingView' # NULL
        <5>1. open' = [open EXCEPT ![ongoingView] = @ \ {k}] /\ ongoingView \in Views
          BY <2>3, <3>5, <4>1, <4>3
        <5>2. u = ongoingView
          BY <3>1, <3>3, <5>1
        <5>3. open'[u] = open[u] \ {k}
          BY <3>3, <5>1, <5>2
        <5> QED
          BY <2>4, <3>1, <3>5, <4>1, <5>2, <5>3
      <4> QED
        BY <4>2, <4>3
    <3>6. CASE type = "Tap"
      <4>1. open' = open /\ ongoingView' = ongoingView /\ ongoing' = ongoing
        BY <2>3, <2>4, <3>3, <3>6
      <4> QED
        BY <3>1, <4>1
    <3> QED
      BY <2>1, <3>4, <3>5, <3>6 DEF Types
  <2> QED
    BY <2>5, <2>6, <2>7, <2>8 DEF IInv
<1> QED
  BY <1>3, <1>4

(* Steps that leave the queue and the views alone.                         *)
LEMMA TurnStep == ASSUME IInv, Tick \/ Handled PROVE IInv'
<1>1. /\ apc \in {"run", "act"} /\ apc' \in {"run", "act"}
      /\ UNCHANGED <<down, seen, repeated, gevent, queue, guiMutex, enabled, vertical, views,
                     current, ongoing, ongoingView,
                     open, putting, bounds>>
  BY DEF Tick, Handled, gui, views_, input
<1> QED
  BY <1>1, SameTurns DEF IInv, TypeOK, AppPc, MutexInv, NoInputAfterRemove, OneViewAtATime, Running

LEMMA ActPutStep ==
  ASSUME IInv, DispatcherAssumption, NEW m \in {Custom, Stop}, ActPut(m)
  PROVE  IInv'
<1>1. /\ apc = "act" /\ apc' = "put" /\ putting' = m
      /\ UNCHANGED <<down, seen, repeated, gevent, queue, guiMutex, enabled, vertical, views,
                     current, ongoing, ongoingView, open>>
  BY DEF ActPut, gui, views_, input
<1>2. bounds' \in (0..MaxEvents) \X (0..MaxCustom) \X (0..MaxOps)
  BY CountTyped DEF ActPut, IInv, TypeOK
<1>3. m # NULL
  BY DEF DispatcherAssumption, Messages
<1> QED
  BY <1>1, <1>2, <1>3, SameTurns
     DEF IInv, TypeOK, AppPc, MutexInv, NoInputAfterRemove, OneViewAtATime, Running

LEMMA PutDoneStep == ASSUME IInv, DispatcherAssumption, PutDone PROVE IInv'
<1>1. /\ apc = "put" /\ apc' = "act" /\ HasRoom /\ putting' = NULL
      /\ queue' = Append(queue, putting)
      /\ UNCHANGED <<down, seen, repeated, gevent, guiMutex, enabled, vertical, views, current,
                     ongoing, ongoingView, open, bounds>>
  BY DEF PutDone, gui, views_, input
<1>2. putting \in {Custom, Stop}
  BY <1>1 DEF IInv, MutexInv, TypeOK
<1>3. putting \in Messages /\ \A k \in InputKeys : putting # <<"Press", k>>
  BY <1>2 DEF Messages, Custom, Stop
<1>4. queue' \in Seq(Messages) /\ Len(queue') <= QueueSize /\ TurnsInv'
  BY <1>1, <1>3, PutTyped, PutKeepsTurns
<1>5. TypeOK'
  BY <1>1, <1>4 DEF IInv, TypeOK, AppPc
<1>6. MutexInv' /\ NoInputAfterRemove' /\ OneViewAtATime'
  BY <1>1 DEF IInv, MutexInv, NoInputAfterRemove, OneViewAtATime, Running
<1> QED
  BY <1>4, <1>5, <1>6 DEF IInv

(* Another view becomes the current one, or none does, or one is added.    *)
LEMMA SwitchStep ==
  ASSUME IInv, DispatcherAssumption, 
         SwitchToNone \/ \E v \in Views : AddView(v) \/ \E o \in BOOLEAN : SwitchTo(v, o)
  PROVE  IInv'
<1>1. /\ apc = "act" /\ apc' \in {"act", "put"} /\ (apc' = "put" => putting' = Stop)
      /\ putting' \in {putting, Stop} /\ enabled' \in BOOLEAN /\ vertical' \in BOOLEAN
      /\ UNCHANGED <<down, seen, repeated, gevent, queue, guiMutex, ongoing, ongoingView, open, bounds>>
  BY DEF SwitchTo, SwitchToNone, AddView, gui, views_, input, IInv, TypeOK
<1>2. views' \subseteq Views /\ current' \in Views \cup {NULL} /\ NoInputAfterRemove'
  BY <1>1 DEF SwitchTo, SwitchToNone, AddView, IInv, TypeOK, NoInputAfterRemove
<1>3. Stop # NULL
  BY DEF DispatcherAssumption, Messages
<1> QED
  BY <1>1, <1>2, <1>3, SameTurns DEF IInv, TypeOK, AppPc, MutexInv, OneViewAtATime, Running

(***************************************************************************)
(* Views are removed                                                       *)
(***************************************************************************)
LEMMA ForgetIs ==
  ASSUME IInv, NEW v \in Views, ForgetView(v)
  PROVE  /\ UNCHANGED ongoing /\ views' = views \ {v} /\ views' \subseteq Views
         /\ ongoingView' \in Views \cup {NULL} /\ ongoingView' \in views' \cup {NULL}
         /\ open' \in [Views -> SUBSET InputKeys] /\ open'[v] = {}
         /\ \A u \in Views \ {v} : open'[u] = open[u]
         /\ ongoingView # v => ongoingView' = ongoingView
  BY DEF ForgetView, IInv, TypeOK, NoInputAfterRemove

LEMMA RemoveStep ==
  ASSUME IInv, DispatcherAssumption, NEW v \in Views, RemoveView(v)
  PROVE  IInv'
<1>1. /\ apc = "act" /\ v \in views \ {current} /\ ForgetView(v)
      /\ UNCHANGED <<down, seen, repeated, gevent, queue, guiMutex, enabled, vertical, current,
                     apc, putting>>
  BY DEF RemoveView, gui
<1>2. /\ UNCHANGED ongoing /\ views' = views \ {v} /\ views' \subseteq Views
      /\ ongoingView' \in Views \cup {NULL} /\ ongoingView' \in views' \cup {NULL}
      /\ open' \in [Views -> SUBSET InputKeys] /\ open'[v] = {}
      /\ \A u \in Views \ {v} : open'[u] = open[u]
      /\ ongoingView # v => ongoingView' = ongoingView
  BY <1>1, ForgetIs
<1>3. bounds' \in (0..MaxEvents) \X (0..MaxCustom) \X (0..MaxOps)
  BY CountTyped DEF RemoveView
<1>4. TypeOK' /\ MutexInv' /\ NoInputAfterRemove'
  BY <1>1, <1>2, <1>3 DEF IInv, TypeOK, MutexInv, NoInputAfterRemove
<1>5. OneViewAtATime'
  BY <1>1, <1>2 DEF IInv, OneViewAtATime, Running
<1> QED
  BY <1>1, <1>2, <1>4, <1>5, SameTurns DEF IInv

LEMMA RemoveLastStep ==
  ASSUME IInv, DispatcherAssumption, NEW v \in Views, RemoveLast(v)
  PROVE  IInv'
<1>1. /\ apc = "removing" /\ apc' = "returned" /\ HasRoom /\ queue' = Append(queue, Stop)
      /\ current' = NULL /\ enabled' = FALSE /\ ForgetView(v) /\ guiMutex' = "nobody"
      /\ UNCHANGED <<down, seen, repeated, gevent, vertical, putting, bounds>>
  BY DEF RemoveLast, Unlocked, gui
<1>2. /\ UNCHANGED ongoing /\ views' = views \ {v} /\ views' \subseteq Views
      /\ ongoingView' \in Views \cup {NULL} /\ ongoingView' \in views' \cup {NULL}
      /\ open' \in [Views -> SUBSET InputKeys]
  BY <1>1, ForgetIs
<1>3. Stop \in Messages /\ \A k \in InputKeys : Stop # <<"Press", k>>
  BY DEF Messages, Stop
<1>4. queue' \in Seq(Messages) /\ Len(queue') <= QueueSize /\ TurnsInv'
  BY <1>1, <1>2, <1>3, PutTyped, PutKeepsTurns
<1>5. TypeOK'
  BY <1>1, <1>2, <1>4 DEF IInv, TypeOK, AppPc
<1>6. MutexInv' /\ NoInputAfterRemove' /\ OneViewAtATime'
  BY <1>1, <1>2 DEF IInv, MutexInv, NoInputAfterRemove, OneViewAtATime, Running
<1> QED
  BY <1>4, <1>5, <1>6 DEF IInv

LEMMA RemoveViewsStep == ASSUME IInv, RemoveViews PROVE IInv'
<1>1. /\ apc = "returned" /\ guiMutex = "nobody"
      /\ UNCHANGED <<down, seen, repeated, gevent, queue, enabled, vertical, current, putting, bounds>>
  BY DEF RemoveViews, gui
<1>2. CASE current # NULL /\ guiMutex' = "app" /\ apc' = "removing" /\ UNCHANGED <<views, input>>
  BY <1>1, <1>2, SameTurns
     DEF IInv, TypeOK, AppPc, MutexInv, NoInputAfterRemove, OneViewAtATime, Running, input
<1>3. CASE (\E v \in views \ {current} : ForgetView(v)) /\ UNCHANGED <<apc, guiMutex>>
  <2>1. PICK v \in views \ {current} : ForgetView(v)
    BY <1>3
  <2>2. v \in Views
    BY DEF IInv, TypeOK
  <2>3. /\ UNCHANGED ongoing /\ views' = views \ {v} /\ views' \subseteq Views
        /\ ongoingView' \in Views \cup {NULL} /\ ongoingView' \in views' \cup {NULL}
        /\ open' \in [Views -> SUBSET InputKeys]
    BY <2>1, <2>2, ForgetIs
  <2> QED
    BY <1>1, <1>3, <2>3, SameTurns
       DEF IInv, TypeOK, MutexInv, NoInputAfterRemove, OneViewAtATime, Running
<1> QED
  BY <1>2, <1>3 DEF RemoveViews

(***************************************************************************)
(* It has stopped                                                          *)
(***************************************************************************)
LEMMA DrainStep == ASSUME IInv, DispatcherAssumption, Drain PROVE IInv'
<1>1. /\ apc = "drain" /\ apc' \in {"drain", "returned"}
      /\ UNCHANGED <<down, seen, repeated, gevent, guiMutex, enabled, vertical, views, current,
                     ongoingView, open, putting, bounds>>
  BY DEF Drain, gui, views_
<1>2. MutexInv' /\ NoInputAfterRemove' /\ OneViewAtATime'
  BY <1>1 DEF IInv, MutexInv, NoInputAfterRemove, OneViewAtATime, Running
<1>3. CASE UNCHANGED <<queue, ongoing>>
  BY <1>1, <1>2, <1>3, SameTurns DEF IInv, TypeOK, AppPc
<1>4. CASE queue # <<>> /\ queue' = Tail(queue) /\ ongoing' = StillOngoing(Head(queue))
  <2> DEFINE m == Head(queue)
  <2>1. queue \in Seq(Messages) /\ m \in Messages
    BY <1>4 DEF IInv, TypeOK
  <2>2. queue' \in Seq(Messages) /\ Len(queue') <= QueueSize
    BY <1>4, <2>1 DEF IInv, TypeOK, DispatcherAssumption
  <2>3. /\ ongoing' \subseteq InputKeys
        /\ \A x \in InputKeys : /\ m = <<"Release", x>> => x \notin ongoing'
                                /\ m # <<"Press", x>> /\ x \notin ongoing => x \notin ongoing'
    <3>1. CASE m \notin Inputs
      <4>1. \A x \in InputKeys : m # <<"Press", x>> /\ m # <<"Release", x>>
        <5>1. \A x \in InputKeys : <<"Press", x>> \in Inputs /\ <<"Release", x>> \in Inputs
          BY DEF Inputs, Types
        <5> QED
          BY <3>1, <5>1
      <4>2. ongoing' = ongoing
        BY <1>4, <3>1 DEF StillOngoing
      <4> QED
        BY <4>1, <4>2 DEF IInv, TypeOK
    <3>2. CASE m \in Inputs
      <4>1. m[1] \in Types /\ m[2] \in InputKeys /\ m = <<m[1], m[2]>>
        BY <3>2 DEF Inputs
      <4>2. ongoing' = OngoingAfter(m[1], m[2])
        BY <1>4, <3>2 DEF StillOngoing
      <4> QED
        BY <4>1, <4>2 DEF OngoingAfter, HeldAfter, Types, IInv, TypeOK
    <3> QED
      BY <3>1, <3>2
  <2>4. TurnsInv'
    BY <1>1, <1>4, <2>3, TailKeepsTurns
  <2>5. TypeOK'
    BY <1>1, <2>2, <2>3 DEF IInv, TypeOK, AppPc
  <2> QED
    BY <1>2, <2>4, <2>5 DEF IInv
<1> QED
  BY <1>3, <1>4 DEF Drain

LEMMA FreeStep == ASSUME IInv, FreeDispatcher PROVE IInv'
<1>1. /\ apc = "returned" /\ apc' = "freed"
      /\ UNCHANGED <<down, seen, repeated, gevent, queue, guiMutex, enabled, vertical, views,
                     current, ongoing, ongoingView,
                     open, putting, bounds>>
  BY DEF FreeDispatcher, gui, views_, input
<1> QED
  BY <1>1, SameTurns DEF IInv, TypeOK, AppPc, MutexInv, NoInputAfterRemove, OneViewAtATime, Running

(***************************************************************************)
(* The theorems                                                            *)
(***************************************************************************)
LEMMA InitHolds == ASSUME Init, DispatcherAssumption PROVE IInv
<1>1. TypeOK
  <2>1. bounds \in (0..MaxEvents) \X (0..MaxCustom) \X (0..MaxOps)
    BY DEF Init, DispatcherAssumption
  <2>2. queue \in Seq(Messages) /\ Len(queue) <= QueueSize
    BY DEF Init, DispatcherAssumption
  <2> QED
    BY <2>1, <2>2 DEF Init, TypeOK, AppPc
<1>2. MutexInv /\ NoInputAfterRemove /\ OneViewAtATime
  <2>1. \A k \in InputKeys : <<"Press", k>> \in Messages
    BY DEF Messages, Inputs, Types
  <2> QED
    BY <2>1 DEF Init, MutexInv, NoInputAfterRemove, OneViewAtATime, DispatcherAssumption
<1>3. TurnsInv
  <2>1. DOMAIN queue = {} /\ Len(queue) = 0
    BY DEF Init
  <2>2. \A k : Up(queue, ongoing, k, 0 + 1)
    BY DEF Up, Init
  <2> QED
    BY <2>1, <2>2 DEF TurnsInv
<1> QED
  BY <1>1, <1>2, <1>3 DEF IInv

LEMMA NextKeeps == ASSUME IInv, DispatcherAssumption, [Next]_vars PROVE IInv'
<1>1. CASE UNCHANGED vars
  BY <1>1 DEF vars, gui, views_, input, IInv, TypeOK, MutexInv, NoInputAfterRemove, TurnsInv,
     OneViewAtATime, Running
<1>2. CASE \E type \in Types, k \in Keys : GuiTakes(type, k)
  BY <1>2, GuiTakesStep
<1>3. CASE InputCallback \/ SendCustomEvent
  BY <1>3, InputCallbackStep, SendCustomStep
<1>4. CASE AppStep
  BY <1>4, RunStep, TurnStep, PutDoneStep, SwitchStep, DrainStep, RemoveViewsStep, FreeStep,
     ActPutStep, RemoveStep, RemoveLastStep DEF AppStep
<1> QED
  BY <1>1, <1>2, <1>3, <1>4 DEF Next

\* The inductive invariant of the dispatcher: who has the GUI's mutex, that
\* the keys the view port does not see pressed will be up, and what the run checks.
THEOREM DispatcherInvariant == Spec => []IInv
<1>1. Init => IInv
  BY InitHolds, DispatcherAssumption
<1>2. IInv /\ [Next]_vars => IInv'
  BY NextKeeps, DispatcherAssumption
<1> QED
  BY <1>1, <1>2, PTL DEF Spec

\* Types: among them, the queue never has more messages than it has room for.
THEOREM DispatcherTypeOK == Spec => []TypeOK
<1>1. IInv => TypeOK
  BY DEF IInv
<1> QED
  BY <1>1, DispatcherInvariant, PTL

\* No input goes to a view that was removed.
THEOREM DispatcherNoInputAfterRemove == Spec => []NoInputAfterRemove
<1>1. IInv => NoInputAfterRemove
  BY DEF IInv
<1> QED
  BY <1>1, DispatcherInvariant, PTL

\* While it runs, input is never split between views, as long as the view port saw no
\* key pressed twice.
THEOREM DispatcherOneViewAtATime == Spec => []OneViewAtATime
<1>1. IInv => OneViewAtATime
  BY DEF IInv
<1> QED
  BY <1>1, DispatcherInvariant, PTL

\* A view that gets a Press does not hold the key already, unless the view port does:
\* switching, removing and adding views between a Press and its Release never makes a
\* second Press of it.
THEOREM DispatcherPressInTurn == Spec => []PressInTurn
<1>1. IInv => PressInTurn
  <2> DEFINE k == Head(queue)[2]
             v == Chosen("Press", k)
  <2> SUFFICES ASSUME IInv, apc = "run", queue # <<>>, Head(queue)[1] = "Press", ~repeated,
                      Receives(v, "Press")
               PROVE  k \notin open[v]
    BY DEF PressInTurn
  <2>1. Head(queue) \in Messages /\ Head(queue) = queue[1] /\ 1 \in DOMAIN queue
    BY DEF IInv, TypeOK
  <2>2. Head(queue) \in Inputs
    BY <2>1 DEF Messages, Custom, Stop
  <2>3. k \in InputKeys /\ queue[1] = <<"Press", k>>
    BY <2>1, <2>2 DEF Inputs
  <2>4. k \notin ongoing
    BY <2>1, <2>3 DEF IInv, TurnsInv, Up
  <2>5. v \in Views
    BY DEF IInv, TypeOK, Receives, Chosen
  <2>6. open[v] \subseteq ongoing
    BY <2>5 DEF IInv, OneViewAtATime, Running
  <2> QED
    BY <2>4, <2>6
<1> QED
  BY <1>1, DispatcherInvariant, PTL

\* Only the current view sees a key go down.
THEOREM DispatcherPressOnlyCurrent == Spec => PressOnlyCurrent
<1> DEFINE P == \A v \in Views : ~(open'[v] \subseteq open[v]) => v = current /\ v = ongoingView'
<1>1. ASSUME IInv, [Next]_vars PROVE [P]_vars
  <2>1. CASE UNCHANGED open
    BY <2>1
  <2>2. CASE Run
    <3> DEFINE m == Head(queue)
               type == m[1]
               k == m[2]
    <3>1. CASE m \in Inputs
      <4>1. type \in Types /\ k \in InputKeys /\ HandleInput(type, k)
        BY <2>2, <3>1 DEF Run, Inputs, Stop, Custom
      <4>2. \/ UNCHANGED open
            \/ /\ ongoingView' \in Views
               /\ type # "Release" => ongoingView' = current
               /\ open' = [open EXCEPT ![ongoingView'] =
                             IF type = "Press" THEN @ \cup {k}
                             ELSE IF type = "Release" THEN @ \ {k} ELSE @]
        BY <1>1, <4>1, DispatcherAssumption, HandleIs
      <4> HIDE DEF type, k
      <4>3. open \in [Views -> SUBSET InputKeys]
        BY <1>1 DEF IInv, TypeOK
      <4> SUFFICES ASSUME NEW v \in Views, ~(open'[v] \subseteq open[v])
                   PROVE  v = current /\ v = ongoingView'
        OBVIOUS
      <4>4. v = ongoingView' /\ type # "Release"
        BY <4>2, <4>3
      <4> QED
        BY <4>2, <4>4
    <3>2. CASE m \notin Inputs
      <4>1. m \in Messages
        BY <1>1, <2>2 DEF Run, IInv, TypeOK
      <4> QED
        BY <2>2, <3>2, <4>1 DEF Run, Messages, input
    <3> QED
      BY <3>1, <3>2
  <2>3. ASSUME NEW v \in Views, ForgetView(v) PROVE P
    BY <1>1, <2>3, ForgetIs
  <2>4. CASE RemoveViews
    BY <1>1, <2>3, <2>4 DEF RemoveViews, input, IInv, TypeOK
  <2> QED
    BY <1>1, <2>1, <2>2, <2>3, <2>4 DEF Next, AppStep, GuiTakes, InputCallback, SendCustomEvent, Tick,
       Handled, PutDone, SwitchToNone, SwitchTo, AddView, RemoveView, RemoveLast, Drain,
       FreeDispatcher, ActPut, vars, input
<1>2. []IInv /\ [][Next]_vars => [][P]_vars
  BY <1>1, PTL
<1> QED
  BY <1>2, DispatcherInvariant, PTL DEF Spec, PressOnlyCurrent

\* The callback knows the keys that are down by their names until a switch turns the
\* view port while an arrow is held; before that, only a second Press of a key that is
\* down shows it a key pressed twice.
THEOREM DispatcherOnlyTurningConfuses == Spec => OnlyTurningConfuses
<1> DEFINE Turned == down \cap Arrows # {} /\ ~(vertical <=> vertical')
           Second == \E k \in down : GuiTakes("Press", k)
           Keeps == /\ NamesHold /\ ~NamesHold' => Turned
                    /\ NamesHold /\ ~repeated /\ repeated' => Second
<1>1. ASSUME IInv, [Next]_vars PROVE [Keeps]_vars
  <2> SUFFICES ASSUME NamesHold
               PROVE  (~NamesHold' => Turned) /\ (~repeated /\ repeated' => Second)
    OBVIOUS
  <2>1. down \subseteq InputKeys
    BY <1>1, DispatcherAssumption DEF IInv, TypeOK, DispatcherAssumption
  <2>2. CASE UNCHANGED <<down, seen, repeated, vertical>>
    BY <2>2 DEF NamesHold, NamesOf
  <2>3. CASE \E type \in Types, k \in Keys : GuiTakes(type, k)
    <3>1. PICK type \in Types, k \in Keys : GuiTakes(type, k)
      BY <2>3
    <3> DEFINE n == NameOf(k, vertical)
    <3>2. /\ down' = HeldAfter(down, type, k) /\ seen' = HeldAfter(seen, type, n)
          /\ repeated' = (repeated \/ (type = "Press" /\ n \in seen))
          /\ vertical' = vertical
      BY <3>1 DEF GuiTakes, views_
    <3>3. k \in InputKeys /\ seen = NamesOf(down, vertical)
      BY DispatcherAssumption DEF DispatcherAssumption, NamesHold
    <3>4. NamesHold'
      <4>1. /\ NamesOf(down \cup {k}, vertical) = seen \cup {n}
            /\ NamesOf(down \ {k}, vertical) = seen \ {n}
          <5>1. down \in SUBSET InputKeys /\ k \in InputKeys
            BY <2>1, <3>3
          <5>2. /\ NamesOf(down \cup {k}, vertical) = NamesOf(down, vertical) \cup {n}
                /\ NamesOf(down \ {k}, vertical) = NamesOf(down, vertical) \ {n}
            BY <5>1, NamesAfter, Zenon
          <5> QED
            BY <3>3, <5>2
      <4>2. seen' = NamesOf(down', vertical)
        BY <3>2, <3>3, <4>1 DEF Types, HeldAfter
      <4> QED
        BY <3>2, <4>2 DEF NamesHold
    <3>5. ASSUME ~repeated, repeated' PROVE Second
      <4>1. type = "Press" /\ n \in seen
        BY <3>2, <3>5
      <4>2. PICK j \in down : n = NameOf(j, vertical)
        BY <3>3, <4>1 DEF NamesOf
      <4>3. j = k
        BY <2>1, <3>3, <4>2, NameIs
      <4> QED
        BY <3>1, <4>1, <4>3
    <3> QED
      BY <3>4, <3>5
  <2>4. CASE \E v \in Views, o \in BOOLEAN : SwitchTo(v, o)
    <3>1. UNCHANGED <<down, seen, repeated>>
      BY <2>4 DEF SwitchTo, gui
    <3>2. CASE down \cap Arrows = {}
      <4>1. \A k \in down : NameOf(k, vertical) = k /\ NameOf(k, vertical') = k
        BY <2>1, <3>2, NameIs
      <4>2. NamesOf(down, vertical) = NamesOf(down, vertical')
        BY <4>1 DEF NamesOf
      <4> QED
        BY <3>1, <4>2 DEF NamesHold
    <3>3. CASE vertical <=> vertical'
      <4>1. vertical = vertical'
        BY <1>1, <2>4, <3>3 DEF SwitchTo, IInv, TypeOK
      <4> QED
        BY <3>1, <4>1 DEF NamesHold
    <3> QED
      BY <3>1, <3>2, <3>3
  <2> QED
    BY <1>1, <2>2, <2>3, <2>4 DEF Next, AppStep, InputCallback, SendCustomEvent, Run, Tick, Handled,
       ActPut, PutDone, SwitchToNone, AddView, RemoveView, RemoveLast, RemoveViews, Drain,
       FreeDispatcher, vars, gui, views_
<1>2. []IInv /\ [][Next]_vars => [][Keeps]_vars
  BY <1>1, PTL
<1> QED
  BY <1>2, DispatcherInvariant, PTL DEF Spec, OnlyTurningConfuses

\* The core of StopReturns: a dispatcher that was stopped waits only for keys that the
\* view port sees pressed, or whose Release is on its way.
THEOREM DispatcherReleaseIsAwaited == Spec => []ReleaseIsAwaited
<1>1. IInv => ReleaseIsAwaited
  <2> SUFFICES ASSUME IInv, NEW k \in ongoing, k \notin seen, gevent # <<"Release", k>>
               PROVE  \E i \in DOMAIN queue : queue[i] = <<"Release", k>>
    BY DEF ReleaseIsAwaited
  <2>1. k \in InputKeys /\ queue \in Seq(Messages) /\ DOMAIN queue = 1..Len(queue) /\ Len(queue) \in Nat
    BY DEF IInv, TypeOK
  <2>2. Up(queue, ongoing, k, Len(queue) + 1)
    BY <2>1 DEF IInv, TurnsInv
  <2>3. (Len(queue) + 1) - 1 = Len(queue)
    BY <2>1
  <2> QED
    BY <2>1, <2>2, <2>3 DEF Up
<1> QED
  BY <1>1, DispatcherInvariant, PTL
===============================================================================
