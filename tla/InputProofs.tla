------------------------------ MODULE InputProofs ------------------------------
(***************************************************************************)
(* Theorems about InputSrv and GuiInput: the shape of the events that the  *)
(* input service publishes, for any number of keys, edges and expiries,    *)
(* and the safety of their routing, for any keys and view ports, any       *)
(* length of the queue and any number of operations and injected events.   *)
(***************************************************************************)
EXTENDS GuiInput, InputSrv, SequenceTheorems, WellFoundedInduction, TLAPS

(***************************************************************************)
(* The input service                                                       *)
(***************************************************************************)
(* An event with this key, number and type is in s.                        *)
Seen(s, k, n, type) ==
  \E i \in DOMAIN s : s[i] = [key |-> k, type |-> type, sequence |-> n]

(* Key k counts as pressed: its release is not yet counted.                *)
Held(k) == state[k] \/ (pc \in {"stopping", "short"} /\ key = k)

(* The last of the commands c for k's timer is to start it.                *)
Starting(c, k) ==
  \E i \in DOMAIN c :
    /\ c[i] = <<"start", k>>
    /\ \A j \in DOMAIN c : j > i => c[j][2] # k

(* f has an event of this key and type.                                    *)
Fires(f, k, type) == f # <<>> /\ f[1].key = k /\ f[1].type = type

PlaceInv ==
  /\ Handling => key \in Pins
  /\ pc \in {"stopping", "short"} => ~state[key]
  /\ pc = "wait" => key = 1

(* A timer is active, or will be, only while its key is pressed or its      *)
(* release waits for it; the timer task publishes for such a key.          *)
TimerInv ==
  /\ \/ firing = <<>>
     \/ \E e \in InputEvents :
          /\ firing = <<e>> /\ e.type \in {"Long", "Repeat"}
          /\ timer[e.key] /\ e.sequence = seqn[e.key]
  /\ \A k \in Pins : timer[k] => state[k] \/ (pc = "stopping" /\ key = k)
  /\ \A k \in Pins : Starting(commands, k) => state[k]

(* No event has a number from the future; a Press that is about to be       *)
(* published has the last one.                                             *)
NumberInv ==
  /\ \A i \in DOMAIN log : log[i].sequence <= seqn[log[i].key]
  /\ pc = "event" /\ state[key] =>
       /\ seqn[key] = counter
       /\ \A i \in DOMAIN log : log[i].type \in {"Press", "Release"} => log[i].sequence < counter

(* What was published of the press that is going on, and the timer's count. *)
CountInv(k) ==
  /\ Held(k) =>
       /\ ~Seen(log, k, seqn[k], "Short") /\ ~Seen(log, k, seqn[k], "Release")
       /\ presses[k] = LongCounts <=> Seen(log, k, seqn[k], "Long") \/ Fires(firing, k, "Long")
       /\ Fires(firing, k, "Repeat") => Seen(log, k, seqn[k], "Long")
  /\ ~Held(k) => presses[k] = 0
  /\ pc = "event" /\ key = k /\ ~state[k] =>
       /\ Seen(log, k, seqn[k], "Short") <=> ~Seen(log, k, seqn[k], "Long")
       /\ ~Seen(log, k, seqn[k], "Release")

(* The last Press or Release of a key is what Down says.                   *)
LastIs(s, k, type, other) ==
  \A i \in DOMAIN s :
    s[i].key = k /\ s[i].type = type =>
      \E m \in DOMAIN s : m > i /\ s[m].key = k /\ s[m].type = other
TurnInv ==
  \A k \in Pins :
    /\ ~Down(k) => LastIs(log, k, "Press", "Release")
    /\ Down(k) => LastIs(log, k, "Release", "Press")

(* What the thread has looked at since it began to scan is reported and     *)
(* settled, or will be looked at again.                                    *)
ScanInv ==
  /\ \A k \in Pins : (k < key \/ (k = key /\ Handling)) /\ ~isr /\ ~changing
       => state[k] = pin[k] /\ ~Bouncing(k)
  /\ Handling => ~Bouncing(key)
  /\ NoLevelMissed

SrvInv ==
  /\ SrvTypeOK /\ PlaceInv /\ TimerInv /\ NumberInv /\ (\A k \in Pins : CountInv(k))
  /\ TurnInv /\ ScanInv /\ PressShape

(* Publishing an event, and what it does to the log.                       *)
LEMMA EmitIs ==
  ASSUME log \in Seq(InputEvents), NEW e \in InputEvents, Emit(e)
  PROVE  /\ log' \in Seq(InputEvents)
         /\ DOMAIN log = 1..Len(log) /\ DOMAIN log' = 1..Len(log) + 1 /\ Len(log) \in Nat
         /\ \A i \in 1..Len(log) : log'[i] = log[i] /\ log[i] \in InputEvents
         /\ log'[Len(log) + 1] = e
  BY DEF Emit

LEMMA SeenEmit ==
  ASSUME log \in Seq(InputEvents), NEW e \in InputEvents, Emit(e), NEW k, NEW n, NEW type
  PROVE  Seen(log', k, n, type) <=> Seen(log, k, n, type) \/ e = [key |-> k, type |-> type, sequence |-> n]
<1>1. ASSUME Seen(log', k, n, type) PROVE Seen(log, k, n, type) \/ e = [key |-> k, type |-> type, sequence |-> n]
  BY <1>1, EmitIs DEF Seen
<1>2. ASSUME Seen(log, k, n, type) PROVE Seen(log', k, n, type)
  BY <1>2, EmitIs DEF Seen
<1>3. ASSUME e = [key |-> k, type |-> type, sequence |-> n] PROVE Seen(log', k, n, type)
  BY <1>3, EmitIs DEF Seen
<1> QED
  BY <1>1, <1>2, <1>3

(* The number of an event that was published, by its fields.               *)
LEMMA SeenIs ==
  ASSUME log \in Seq(InputEvents), NEW i \in DOMAIN log
  PROVE  Seen(log, log[i].key, log[i].sequence, log[i].type)
<1>1. log[i] \in InputEvents
  BY ElementOfSeq
<1>2. log[i] = [key |-> log[i].key, type |-> log[i].type, sequence |-> log[i].sequence]
  BY <1>1 DEF InputEvents
<1> QED
  BY <1>2 DEF Seen

(* An event of this type comes in s before the i-th, of the same press.     *)
Earlier(s, i, type) ==
  \E j \in 1..i - 1 : s[j] = [key |-> s[i].key, type |-> type, sequence |-> s[i].sequence]

LEMMA EarlierEmit ==
  ASSUME log \in Seq(InputEvents), NEW e \in InputEvents, Emit(e), NEW type
  PROVE  /\ Earlier(log', Len(log) + 1, type) <=> Seen(log, e.key, e.sequence, type)
         /\ \A i \in DOMAIN log : Earlier(log', i, type) <=> Earlier(log, i, type)
<1>1. ASSUME NEW i \in DOMAIN log PROVE Earlier(log', i, type) <=> Earlier(log, i, type)
  <2>1. i \in 1..Len(log) /\ \A j \in 1..i : log'[j] = log[j]
    BY EmitIs
  <2>2. \A j \in 1..i - 1 : log'[j] = log[j]
    BY <2>1, EmitIs
  <2>3. log'[i] = log[i]
    BY <2>1, EmitIs
  <2> QED
    BY <2>2, <2>3 DEF Earlier
<1>2. Earlier(log', Len(log) + 1, type) <=> Seen(log, e.key, e.sequence, type)
  <2>1. 1..(Len(log) + 1) - 1 = DOMAIN log /\ log'[Len(log) + 1] = e
    BY EmitIs
  <2>2. \A j \in DOMAIN log : log'[j] = log[j]
    BY EmitIs
  <2> QED
    BY <2>1, <2>2 DEF Earlier, Seen
<1> QED
  BY <1>1, <1>2

(* When a published event keeps the shape of presses.                      *)
LEMMA ShapeEmit ==
  ASSUME log \in Seq(InputEvents), NEW e \in InputEvents, Emit(e), PressShape,
         e.type = "Release" => (Seen(log, e.key, e.sequence, "Short") <=> ~Seen(log, e.key, e.sequence, "Long")),
         ~Seen(log, e.key, e.sequence, "Release"),
         e.type = "Press" => \A i \in DOMAIN log : log[i].type \in {"Press", "Release"} => log[i].sequence < e.sequence,
         e.type = "Press" => LastIs(log, e.key, "Press", "Release"),
         e.type = "Release" => LastIs(log, e.key, "Release", "Press"),
         e.type = "Repeat" => Seen(log, e.key, e.sequence, "Long")
  PROVE  PressShape'
<1> DEFINE n == Len(log)
<1>1. /\ n \in Nat /\ DOMAIN log = 1..n /\ DOMAIN log' = 1..n + 1
      /\ \A i \in 1..n : log'[i] = log[i] /\ log[i] \in InputEvents
      /\ log'[n + 1] = e
  BY EmitIs
<1>2. \A i \in DOMAIN log' : i \in DOMAIN log \/ i = n + 1
  BY <1>1
<1>3. ShortXorLong'
  <2>1. \A i \in DOMAIN log : log[i].type = "Release" => (Earlier(log, i, "Short") <=> ~Earlier(log, i, "Long"))
    BY DEF PressShape, ShortXorLong, Before, Earlier
  <2>2. \A i \in DOMAIN log' : log'[i].type = "Release" => (Earlier(log', i, "Short") <=> ~Earlier(log', i, "Long"))
    <3> SUFFICES ASSUME NEW i \in DOMAIN log', log'[i].type = "Release"
                 PROVE  Earlier(log', i, "Short") <=> ~Earlier(log', i, "Long")
      OBVIOUS
    <3>1. CASE i \in DOMAIN log
      BY <3>1, <2>1, <1>1, EarlierEmit
    <3>2. CASE i = n + 1
      BY <3>2, <1>1, EarlierEmit
    <3> QED
      BY <3>1, <3>2, <1>2
  <2> QED
    BY <2>2 DEF ShortXorLong, Before, Earlier
<1>4. ReleaseIsLast'
  <2> SUFFICES ASSUME NEW i \in DOMAIN log', NEW j \in DOMAIN log',
                      i < j, log'[i].type = "Release", log'[i].key = log'[j].key
               PROVE  log'[i].sequence # log'[j].sequence
    BY DEF ReleaseIsLast
  <2>1. CASE j \in DOMAIN log
    BY <2>1, <1>1 DEF PressShape, ReleaseIsLast
  <2>2. CASE j = n + 1
    <3>1. i \in DOMAIN log
      BY <2>2, <1>1
    <3> QED
      BY <2>2, <3>1, <1>1, SeenIs
  <2> QED
    BY <2>1, <2>2, <1>2
<1>5. PressesAreNumbered'
  <2> SUFFICES ASSUME NEW i \in DOMAIN log', NEW j \in DOMAIN log',
                      i < j, log'[i].type \in {"Press", "Release"}, log'[j].type = "Press"
               PROVE  log'[i].sequence < log'[j].sequence
    BY DEF PressesAreNumbered
  <2>1. CASE j \in DOMAIN log
    BY <2>1, <1>1 DEF PressShape, PressesAreNumbered
  <2>2. CASE j = n + 1
    BY <2>2, <1>1
  <2> QED
    BY <2>1, <2>2, <1>2
<1>6. TakeTurns'
  <2> SUFFICES ASSUME NEW i \in DOMAIN log', NEW j \in DOMAIN log',
                      i < j, log'[i].key = log'[j].key, log'[i].type = log'[j].type,
                      log'[i].type \in {"Press", "Release"}
               PROVE  \E m \in i + 1..j - 1 :
                        log'[m].key = log'[j].key /\ log'[m].type \in {"Press", "Release"} \ {log'[j].type}
    BY DEF TakeTurns
  <2>1. CASE j \in DOMAIN log
    <3>1. PICK m \in i + 1..j - 1 :
             log[m].key = log[j].key /\ log[m].type \in {"Press", "Release"} \ {log[j].type}
      BY <2>1, <1>1 DEF PressShape, TakeTurns
    <3>2. m \in 1..n
      BY <3>1, <2>1, <1>1
    <3> QED
      BY <3>1, <3>2, <2>1, <1>1
  <2>2. CASE j = n + 1
    <3>1. i \in DOMAIN log /\ log[i].key = e.key /\ log[i].type = e.type /\ e.type \in {"Press", "Release"}
      BY <2>2, <1>1
    <3>2. PICK m \in DOMAIN log : m > i /\ log[m].key = e.key /\ log[m].type \in {"Press", "Release"} \ {e.type}
      BY <3>1 DEF LastIs
    <3>3. m \in i + 1..j - 1
      BY <3>1, <3>2, <2>2, <1>1
    <3> QED
      BY <3>2, <3>3, <2>2, <1>1
  <2> QED
    BY <2>1, <2>2, <1>2
<1>7. RepeatAfterLong'
  <2>1. \A i \in DOMAIN log : log[i].type = "Repeat" => Earlier(log, i, "Long")
    BY DEF PressShape, RepeatAfterLong, Before, Earlier
  <2>2. \A i \in DOMAIN log' : log'[i].type = "Repeat" => Earlier(log', i, "Long")
    <3> SUFFICES ASSUME NEW i \in DOMAIN log', log'[i].type = "Repeat"
                 PROVE  Earlier(log', i, "Long")
      OBVIOUS
    <3>1. CASE i \in DOMAIN log
      BY <3>1, <2>1, <1>1, EarlierEmit
    <3>2. CASE i = n + 1
      BY <3>2, <1>1, EarlierEmit
    <3> QED
      BY <3>1, <3>2, <1>2
  <2> QED
    BY <2>2 DEF RepeatAfterLong, Before, Earlier
<1> QED
  BY <1>3, <1>4, <1>5, <1>6, <1>7 DEF PressShape

(* What an event does to the last Press or Release of a key.               *)
LEMMA LastEmit ==
  ASSUME log \in Seq(InputEvents), NEW e \in InputEvents, Emit(e), NEW k, NEW type, NEW other, type # other
  PROVE  /\ LastIs(log, k, type, other) /\ (e.key # k \/ e.type # type) => LastIs(log', k, type, other)
         /\ e.key = k /\ e.type = other => LastIs(log', k, type, other)
<1> DEFINE n == Len(log)
<1>1. /\ n \in Nat /\ DOMAIN log = 1..n /\ DOMAIN log' = 1..n + 1
      /\ \A i \in 1..n : log'[i] = log[i]
      /\ log'[n + 1] = e
  BY EmitIs
<1>2. ASSUME LastIs(log, k, type, other), e.key # k \/ e.type # type PROVE LastIs(log', k, type, other)
  <2> SUFFICES ASSUME NEW i \in DOMAIN log', log'[i].key = k, log'[i].type = type
               PROVE  \E m \in DOMAIN log' : m > i /\ log'[m].key = k /\ log'[m].type = other
    BY DEF LastIs
  <2>1. i \in DOMAIN log /\ log[i].key = k /\ log[i].type = type
    BY <1>1, <1>2
  <2>2. PICK m \in DOMAIN log : m > i /\ log[m].key = k /\ log[m].type = other
    BY <2>1, <1>2 DEF LastIs
  <2> QED
    BY <2>2, <1>1
<1>3. ASSUME e.key = k, e.type = other PROVE LastIs(log', k, type, other)
  <2> SUFFICES ASSUME NEW i \in DOMAIN log', log'[i].key = k, log'[i].type = type
               PROVE  n + 1 \in DOMAIN log' /\ n + 1 > i
    BY <1>1, <1>3 DEF LastIs
  <2> QED
    BY <1>1, <1>3
<1> QED
  BY <1>2, <1>3

LEMMA StartingAppend ==
  ASSUME commands \in Seq({"start", "stop"} \X Pins), NEW cmd \in {"start", "stop"}, NEW p \in Pins,
         Command(cmd, p), NEW k \in Pins
  PROVE  /\ k # p => (Starting(commands', k) <=> Starting(commands, k))
         /\ Starting(commands', p) => cmd = "start"
<1> DEFINE n == Len(commands)
<1>1. /\ n \in Nat /\ DOMAIN commands = 1..n /\ DOMAIN commands' = 1..n + 1
      /\ \A i \in 1..n : commands'[i] = commands[i]
      /\ commands'[n + 1] = <<cmd, p>>
  BY DEF Command
<1>2. ASSUME k # p, Starting(commands', k) PROVE Starting(commands, k)
  BY <1>1, <1>2 DEF Starting
<1>3. ASSUME k # p, Starting(commands, k) PROVE Starting(commands', k)
  <2>1. PICK i \in 1..n : commands[i] = <<"start", k>> /\ \A j \in 1..n : j > i => commands[j][2] # k
    BY <1>1, <1>3 DEF Starting
  <2>2. commands'[n + 1][2] # k
    BY <1>1, <1>3
  <2>3. \A j \in 1..n + 1 : j > i => commands'[j][2] # k
    <3> SUFFICES ASSUME NEW j \in 1..n + 1, j > i PROVE commands'[j][2] # k
      OBVIOUS
    <3>1. j = n + 1 \/ (j \in 1..n /\ commands'[j] = commands[j])
      BY <1>1
    <3> QED
      BY <3>1, <2>1, <2>2
  <2>4. i \in 1..n + 1 /\ commands'[i] = <<"start", k>>
    BY <2>1, <1>1
  <2> QED
    BY <2>3, <2>4, <1>1 DEF Starting
<1>4. ASSUME Starting(commands', p) PROVE cmd = "start"
  <2>1. PICK i \in DOMAIN commands' :
           commands'[i] = <<"start", p>> /\ \A j \in DOMAIN commands' : j > i => commands'[j][2] # p
    BY <1>4 DEF Starting
  <2>2. i = n + 1
    BY <2>1, <1>1
  <2> QED
    BY <2>1, <2>2, <1>1
<1> QED
  BY <1>2, <1>3, <1>4

(***************************************************************************)
(* The input service's steps                                               *)
(***************************************************************************)
LEMMA EdgeStep == ASSUME InputAssumption, SrvInv, NEW p \in Pins, Edge(p) PROVE SrvInv'
<1>1. /\ UNCHANGED <<pc, key, changing, state, debounce, counter, seqn, presses, timer, commands, firing, fires, log>>
      /\ isr' = TRUE /\ pin' \in [Pins -> BOOLEAN] /\ edges' \in 0..MaxEdges
  BY DEF Edge, pinState, timers, SrvInv, SrvTypeOK, InputAssumption
<1>2. SrvTypeOK'
  BY <1>1 DEF SrvInv, SrvTypeOK
<1>3. PlaceInv' /\ TimerInv' /\ NumberInv' /\ TurnInv' /\ \A k \in Pins : CountInv(k)'
  BY <1>1 DEF SrvInv, PlaceInv, TimerInv, NumberInv, TurnInv, CountInv, Handling, Held, Down
<1>4. ScanInv'
  BY <1>1 DEF SrvInv, ScanInv, NoLevelMissed, Bouncing, Handling
<1>5. PressShape'
  BY <1>1 DEF SrvInv, PressShape, ShortXorLong, ReleaseIsLast, PressesAreNumbered, TakeTurns, RepeatAfterLong, Before
<1> QED
  BY <1>2, <1>3, <1>4, <1>5 DEF SrvInv

(* The log does not change: neither does its shape.                        *)
LEMMA ShapeKept == ASSUME PressShape, UNCHANGED log PROVE PressShape'
  BY DEF PressShape, ShortXorLong, ReleaseIsLast, PressesAreNumbered, TakeTurns, RepeatAfterLong, Before

LEMMA LookStep == ASSUME InputAssumption, SrvInv, NEW p \in Pins, Scan(p), Debounce(p) \/ Unchanged(p) PROVE SrvInv'
<1> USE DEF SrvInv
<1>1. /\ UNCHANGED <<pin, isr, state, counter, seqn, presses, timer, commands, firing, fires, log, edges>>
      /\ pc = "scan" /\ pc' = "scan" /\ key = p /\ key' = p + 1
  BY DEF Scan, Debounce, Unchanged, NextKey
<1>2. p \in Nat /\ key' \in 1..NKeys + 1
  BY <1>1 DEF Pins, InputAssumption
<1>3. /\ debounce' \in [Pins -> 0..DebounceTicks]
      /\ changing' \in BOOLEAN
      /\ \A k \in Pins \ {p} : debounce'[k] = debounce[k]
      /\ \/ changing' = TRUE
         \/ changing' = changing /\ debounce' = debounce /\ ~Bouncing(p) /\ state[p] = pin[p]
  <2>1. CASE Debounce(p)
    <3>1. /\ changing' = TRUE /\ 0 < debounce[p] /\ debounce[p] < DebounceTicks
          /\ debounce' = [debounce EXCEPT ![p] = IF pin[p] THEN @ + 1 ELSE @ - 1]
      BY <2>1 DEF Debounce, Bouncing
    <3>2. debounce \in [Pins -> 0..DebounceTicks] /\ debounce[p] \in Nat /\ DebounceTicks \in Nat
      BY DEF SrvTypeOK, InputAssumption
    <3>3. debounce[p] + 1 \in 0..DebounceTicks /\ debounce[p] - 1 \in 0..DebounceTicks
      BY <3>1, <3>2
    <3> QED
      BY <3>1, <3>2, <3>3
  <2>2. CASE Unchanged(p)
    BY <2>2 DEF Unchanged, SrvTypeOK
  <2> QED
    BY <2>1, <2>2
<1>4. SrvTypeOK'
  BY <1>1, <1>2, <1>3 DEF SrvTypeOK
<1>5. PlaceInv' /\ TimerInv' /\ NumberInv' /\ TurnInv' /\ \A k \in Pins : CountInv(k)'
  BY <1>1 DEF PlaceInv, TimerInv, NumberInv, TurnInv, CountInv, Handling, Held, Down
<1>6. ScanInv'
  <2>1. ASSUME NEW k \in Pins, k < key', ~isr', ~changing' PROVE state'[k] = pin'[k] /\ ~Bouncing(k)'
    <3>1. ~changing /\ debounce' = debounce /\ ~Bouncing(p) /\ state[p] = pin[p]
      BY <2>1, <1>3
    <3>2. k = p \/ k < key
      BY <2>1, <1>1, <1>2 DEF Pins
    <3>3. state[k] = pin[k] /\ ~Bouncing(k)
      BY <3>1, <3>2, <2>1, <1>1 DEF ScanInv
    <3> QED
      BY <3>1, <3>3, <1>1 DEF Bouncing
  <2> QED
    BY <2>1, <1>1 DEF ScanInv, NoLevelMissed, Handling
<1> QED
  BY <1>1, <1>4, <1>5, <1>6, ShapeKept

LEMMA PressedStep == ASSUME InputAssumption, SrvInv, NEW p \in Pins, Scan(p), Pressed(p) PROVE SrvInv'
<1> USE DEF SrvInv
<1>1. /\ UNCHANGED <<pin, isr, key, changing, debounce, presses, timer, firing, fires, log, edges>>
      /\ pc = "scan" /\ pc' = "event" /\ key = p
      /\ ~Bouncing(p) /\ ~state[p] /\ pin[p]
      /\ state' = [state EXCEPT ![p] = TRUE]
      /\ counter' = counter + 1
      /\ seqn' = [seqn EXCEPT ![p] = counter + 1]
      /\ Command("start", p)
  BY DEF Scan, Pressed
<1>2. /\ counter \in Nat /\ seqn \in [Pins -> 0..counter] /\ state \in [Pins -> BOOLEAN]
      /\ log \in Seq(InputEvents) /\ commands \in Seq({"start", "stop"} \X Pins)
  BY DEF SrvTypeOK
<1>3. /\ state' \in [Pins -> BOOLEAN] /\ state'[p] = TRUE /\ \A k \in Pins \ {p} : state'[k] = state[k]
      /\ seqn' \in [Pins -> 0..counter'] /\ seqn'[p] = counter + 1 /\ \A k \in Pins \ {p} : seqn'[k] = seqn[k]
  BY <1>1, <1>2
<1>4. commands' \in Seq({"start", "stop"} \X Pins)
  BY <1>1, <1>2 DEF Command
<1>5. SrvTypeOK'
  <2>1. counter' \in Nat
    BY <1>1, <1>2
  <2>2. /\ pin' \in [Pins -> BOOLEAN] /\ isr' \in BOOLEAN /\ key' \in 1..NKeys + 1 /\ changing' \in BOOLEAN
        /\ debounce' \in [Pins -> 0..DebounceTicks] /\ presses' \in [Pins -> 0..LongCounts]
        /\ timer' \in [Pins -> BOOLEAN] /\ firing' \in Seq(InputEvents) /\ log' \in Seq(InputEvents)
        /\ edges' \in 0..MaxEdges /\ fires' \in 0..MaxFires
    BY <1>1 DEF SrvTypeOK
  <2>3. pc' \in {"scan", "stopping", "short", "event", "wait"}
    BY <1>1
  <2> QED
    BY <2>1, <2>2, <2>3, <1>3, <1>4 DEF SrvTypeOK
<1>6. PlaceInv'
  BY <1>1 DEF PlaceInv, Handling
<1>7. ~timer[p] /\ presses[p] = 0
  BY <1>1 DEF TimerInv, CountInv, Held
<1>8. TimerInv'
  <2>1. \A k \in Pins : Starting(commands', k) => state'[k]
    BY <1>1, <1>2, <1>3, StartingAppend DEF TimerInv
  <2> QED
    BY <2>1, <1>1, <1>3, <1>7 DEF TimerInv
<1>9. \A i \in DOMAIN log : log[i] \in InputEvents /\ log[i].key \in Pins /\ log[i].sequence \in Nat
                            /\ log[i].sequence <= counter
  <2> SUFFICES ASSUME NEW i \in DOMAIN log
               PROVE  log[i] \in InputEvents /\ log[i].key \in Pins /\ log[i].sequence \in Nat /\ log[i].sequence <= counter
    OBVIOUS
  <2>1. log[i] \in InputEvents
    BY <1>2, ElementOfSeq
  <2>2. log[i].key \in Pins /\ log[i].sequence \in Nat /\ log[i].sequence <= seqn[log[i].key]
    BY <2>1 DEF InputEvents, NumberInv
  <2> QED
    BY <2>1, <2>2, <1>2
<1>10. NumberInv'
  BY <1>1, <1>2, <1>3, <1>9 DEF NumberInv
<1>11. ASSUME NEW k \in Pins PROVE CountInv(k)'
  <2>1. CASE k = p
    <3>1. \A type : ~Seen(log, p, counter + 1, type)
      BY <1>2, <1>9 DEF Seen
    <3>2. ~Fires(firing, p, "Long") /\ ~Fires(firing, p, "Repeat")
      BY <1>7 DEF TimerInv, Fires
    <3> QED
      BY <2>1, <3>1, <3>2, <1>1, <1>3, <1>7 DEF CountInv, LongCounts
  <2>2. CASE k # p
    BY <2>2, <1>1, <1>3 DEF CountInv, Held
  <2> QED
    BY <2>1, <2>2
<1>12. TurnInv'
  BY <1>1, <1>3 DEF TurnInv, Down, Handling
<1>13. ScanInv'
  BY <1>1, <1>2, <1>3 DEF ScanInv, NoLevelMissed, Handling, Bouncing, Pins
<1> QED
  BY <1>1, <1>5, <1>6, <1>8, <1>10, <1>11, <1>12, <1>13, ShapeKept

LEMMA ReleasedStep == ASSUME InputAssumption, SrvInv, NEW p \in Pins, Scan(p), Released(p) PROVE SrvInv'
<1> USE DEF SrvInv
<1>1. /\ UNCHANGED <<pin, isr, key, changing, debounce, counter, seqn, presses, timer, firing, fires, log, edges>>
      /\ pc = "scan" /\ pc' = "stopping" /\ key = p
      /\ ~Bouncing(p) /\ state[p] /\ ~pin[p]
      /\ state' = [state EXCEPT ![p] = FALSE]
      /\ Command("stop", p)
  BY DEF Scan, Released
<1>2. /\ state \in [Pins -> BOOLEAN] /\ commands \in Seq({"start", "stop"} \X Pins)
  BY DEF SrvTypeOK
<1>3. /\ state' \in [Pins -> BOOLEAN] /\ ~state'[p] /\ \A k \in Pins \ {p} : state'[k] = state[k]
  BY <1>1, <1>2
<1>4. commands' \in Seq({"start", "stop"} \X Pins)
  BY <1>1, <1>2 DEF Command
<1>5. SrvTypeOK'
  BY <1>1, <1>3, <1>4 DEF SrvTypeOK
<1>6. PlaceInv'
  BY <1>1, <1>3 DEF PlaceInv, Handling
<1>7. TimerInv'
  <2>1. \A k \in Pins : Starting(commands', k) => state'[k]
    BY <1>1, <1>2, <1>3, StartingAppend DEF TimerInv
  <2> QED
    BY <2>1, <1>1, <1>3 DEF TimerInv
<1>8. NumberInv'
  BY <1>1 DEF NumberInv
<1>9. ASSUME NEW k \in Pins PROVE CountInv(k)'
  <2>1. Held(k)' <=> Held(k)
    BY <1>1, <1>3 DEF Held
  <2> QED
    BY <2>1, <1>1 DEF CountInv
<1>10. TurnInv'
  <2>1. \A k \in Pins : Down(k)' <=> Down(k)
    BY <1>1, <1>3 DEF Down, Handling
  <2> QED
    BY <2>1, <1>1 DEF TurnInv
<1>11. ScanInv'
  <2>1. state'[p] = pin'[p]
    <3>1. pin[p] = FALSE /\ state'[p] = FALSE
      BY <1>1, <1>2 DEF SrvTypeOK
    <3> QED
      BY <3>1, <1>1
  <2>2. \A k \in Pins : k < key => k # p
    BY <1>1 DEF Pins
  <2>3. \A k \in Pins : Bouncing(k)' <=> Bouncing(k)
    BY <1>1 DEF Bouncing
  <2> QED
    BY <2>1, <2>2, <2>3, <1>1, <1>3 DEF ScanInv, NoLevelMissed, Handling
<1> QED
  BY <1>1, <1>5, <1>6, <1>7, <1>8, <1>9, <1>10, <1>11, ShapeKept

LEMMA StoppedStep == ASSUME InputAssumption, SrvInv, NEW p \in Pins, Stopped(p) PROVE SrvInv'
<1> USE DEF SrvInv
<1>1. /\ UNCHANGED <<pin, isr, key, changing, state, debounce, counter, seqn, presses, timer, commands, firing, fires, log, edges>>
      /\ pc = "stopping" /\ pc' = "short" /\ key = p /\ ~timer[p]
  BY DEF Stopped, pinState, timers
<1>2. SrvTypeOK'
  BY <1>1 DEF SrvTypeOK
<1>3. PlaceInv' /\ TimerInv' /\ NumberInv'
  BY <1>1 DEF PlaceInv, TimerInv, NumberInv, Handling
<1>4. TurnInv' /\ \A k \in Pins : CountInv(k)'
  BY <1>1 DEF TurnInv, CountInv, Handling, Held, Down
<1>5. ScanInv'
  BY <1>1 DEF ScanInv, NoLevelMissed, Handling, Bouncing
<1> QED
  BY <1>1, <1>2, <1>3, <1>4, <1>5, ShapeKept

(* An event of the press that is going on, or of the release that is being  *)
(* handled, has not been published as a Release.                           *)
LEMMA EventIs ==
  ASSUME InputAssumption, SrvTypeOK, NEW p \in Pins, NEW type \in InputTypes
  PROVE  /\ Event(p, type) \in InputEvents
         /\ Event(p, type).key = p /\ Event(p, type).type = type /\ Event(p, type).sequence = seqn[p]
         /\ seqn[p] \in Nat
<1>1. seqn[p] \in Nat
  BY DEF SrvTypeOK
<1> QED
  BY <1>1 DEF Event, InputEvents

LEMMA ShortStep == ASSUME InputAssumption, SrvInv, NEW p \in Pins, Short(p) PROVE SrvInv'
<1> USE DEF SrvInv
<1> DEFINE e == Event(p, "Short")
<1>1. /\ UNCHANGED <<pin, isr, key, changing, state, debounce, counter, seqn, timer, commands, firing, fires, edges>>
      /\ pc = "short" /\ pc' = "event" /\ key = p
      /\ presses' = [presses EXCEPT ![p] = 0]
      /\ \/ presses[p] < LongCounts /\ Emit(e)
         \/ ~(presses[p] < LongCounts) /\ UNCHANGED log
  BY DEF Short, pinState, timers
<1>2. /\ presses \in [Pins -> 0..LongCounts] /\ log \in Seq(InputEvents) /\ presses[p] \in 0..LongCounts
      /\ LongCounts = 2
  BY DEF SrvTypeOK, LongCounts
<1>3. presses' \in [Pins -> 0..LongCounts] /\ presses'[p] = 0 /\ \A k \in Pins \ {p} : presses'[k] = presses[k]
  BY <1>1, <1>2
<1>4. /\ e \in InputEvents /\ e.key = p /\ e.type = "Short" /\ e.sequence = seqn[p] /\ seqn[p] \in Nat
      /\ e = [key |-> p, type |-> "Short", sequence |-> seqn[p]]
  BY EventIs DEF Event, InputTypes
<1> HIDE DEF e
<1>5. /\ ~state[p] /\ ~timer[p]
      /\ ~Seen(log, p, seqn[p], "Short") /\ ~Seen(log, p, seqn[p], "Release")
      /\ presses[p] = LongCounts <=> Seen(log, p, seqn[p], "Long")
  <2>1. ~state[p] /\ ~timer[p]
    BY <1>1 DEF PlaceInv, TimerInv
  <2>2. ~Fires(firing, p, "Long")
    BY <2>1 DEF TimerInv, Fires
  <2>3. Held(p)
    BY <1>1 DEF Held
  <2> QED
    BY <2>1, <2>2, <2>3 DEF CountInv
<1>6. log' \in Seq(InputEvents)
  BY <1>1, <1>2, <1>4, EmitIs
<1>7. SrvTypeOK'
  BY <1>1, <1>3, <1>6 DEF SrvTypeOK
<1>8. PlaceInv' /\ TimerInv'
  BY <1>1 DEF PlaceInv, TimerInv, Handling
<1>9. NumberInv'
  <2>1. ~(pc' = "event" /\ state'[key'])
    BY <1>1, <1>5
  <2>2. \A i \in DOMAIN log' : log'[i].sequence <= seqn[log'[i].key]
    <3>1. CASE UNCHANGED log
      BY <3>1 DEF NumberInv
    <3>2. CASE Emit(e)
      <4> SUFFICES ASSUME NEW i \in DOMAIN log' PROVE log'[i].sequence <= seqn[log'[i].key]
        OBVIOUS
      <4>1. CASE i \in DOMAIN log
        BY <4>1, <3>2, <1>2, <1>4, EmitIs DEF NumberInv
      <4>2. CASE i = Len(log) + 1
        BY <4>2, <3>2, <1>2, <1>4, EmitIs
      <4> QED
        BY <4>1, <4>2, <3>2, <1>2, <1>4, EmitIs
    <3> QED
      BY <3>1, <3>2, <1>1
  <2> QED
    BY <2>1, <2>2, <1>1 DEF NumberInv
<1>10. \A k, n, type : Seen(log', k, n, type) <=>
          Seen(log, k, n, type) \/ (presses[p] < LongCounts /\ k = p /\ n = seqn[p] /\ type = "Short")
  <2>1. CASE presses[p] < LongCounts /\ Emit(e)
    <3> SUFFICES ASSUME NEW k, NEW n, NEW type
                 PROVE  Seen(log', k, n, type) <=> Seen(log, k, n, type) \/ (k = p /\ n = seqn[p] /\ type = "Short")
      BY <2>1
    <3>1. Seen(log', k, n, type) <=> Seen(log, k, n, type) \/ e = [key |-> k, type |-> type, sequence |-> n]
      BY <2>1, <1>2, <1>4, SeenEmit
    <3> QED
      BY <3>1, <1>4
  <2>2. CASE ~(presses[p] < LongCounts) /\ UNCHANGED log
    BY <2>2
  <2> QED
    BY <2>1, <2>2, <1>1
<1>11. ASSUME NEW k \in Pins PROVE CountInv(k)'
  <2>1. CASE k = p
    <3>1. ~Held(p)'
      BY <1>1, <1>5 DEF Held
    <3>2. Seen(log', p, seqn[p], "Short") <=> ~Seen(log', p, seqn[p], "Long")
      BY <1>2, <1>5, <1>10
    <3>3. ~Seen(log', p, seqn[p], "Release")
      BY <1>5, <1>10
    <3> QED
      BY <2>1, <3>1, <3>2, <3>3, <1>1, <1>3 DEF CountInv
  <2>2. CASE k # p
    <3>1. \A n, type : Seen(log', k, n, type) <=> Seen(log, k, n, type)
      BY <2>2, <1>10
    <3> QED
      BY <2>2, <3>1, <1>1, <1>3 DEF CountInv, Held
  <2> QED
    BY <2>1, <2>2
<1>12. TurnInv'
  <2> SUFFICES ASSUME NEW k \in Pins
               PROVE  /\ ~Down(k)' => LastIs(log', k, "Press", "Release")
                      /\ Down(k)' => LastIs(log', k, "Release", "Press")
    BY DEF TurnInv
  <2>1. Down(k)' <=> Down(k)
    BY <1>1 DEF Down, Handling
  <2>2. /\ LastIs(log, k, "Press", "Release") => LastIs(log', k, "Press", "Release")
        /\ LastIs(log, k, "Release", "Press") => LastIs(log', k, "Release", "Press")
    BY <1>1, <1>2, <1>4, LastEmit
  <2> QED
    BY <2>1, <2>2 DEF TurnInv
<1>13. ScanInv'
  BY <1>1 DEF ScanInv, NoLevelMissed, Handling, Bouncing
<1>14. PressShape'
  <2>1. CASE Emit(e)
    BY <2>1, <1>2, <1>4, <1>5, ShapeEmit
  <2> QED
    BY <2>1, <1>1, ShapeKept
<1> QED
  BY <1>7, <1>8, <1>9, <1>11, <1>12, <1>13, <1>14

LEMMA PressOrReleaseStep == ASSUME InputAssumption, SrvInv, NEW p \in Pins, PressOrRelease(p) PROVE SrvInv'
<1> USE DEF SrvInv
<1> DEFINE type == IF state[p] THEN "Press" ELSE "Release"
           e == Event(p, type)
<1>1. /\ UNCHANGED <<pin, isr, changing, state, debounce, counter, seqn, presses, timer, commands, firing, fires, edges>>
      /\ pc = "event" /\ pc' = "scan" /\ key = p /\ key' = p + 1
      /\ Emit(e)
  BY DEF PressOrRelease, NextKey, pinState, timers
<1>2. /\ log \in Seq(InputEvents) /\ p \in Nat /\ key' \in 1..NKeys + 1
  BY <1>1 DEF SrvTypeOK, Pins, InputAssumption
<1>3. /\ e \in InputEvents /\ e.key = p /\ e.type = type /\ e.sequence = seqn[p] /\ seqn[p] \in Nat
      /\ type \in {"Press", "Release"}
      /\ state[p] <=> type = "Press"
  BY EventIs DEF Event, InputTypes
<1>4. e = [key |-> p, type |-> type, sequence |-> seqn[p]]
  BY DEF Event
<1> HIDE DEF e, type
<1>5. log' \in Seq(InputEvents)
  BY <1>1, <1>2, <1>3, EmitIs
<1>6. SrvTypeOK'
  BY <1>1, <1>2, <1>5 DEF SrvTypeOK
<1>7. PlaceInv' /\ TimerInv'
  BY <1>1 DEF PlaceInv, TimerInv, Handling
<1>8. NumberInv'
  <2> SUFFICES ASSUME NEW i \in DOMAIN log' PROVE log'[i].sequence <= seqn[log'[i].key]
    BY <1>1 DEF NumberInv
  <2>1. CASE i \in DOMAIN log
    BY <2>1, <1>1, <1>2, <1>3, EmitIs DEF NumberInv
  <2>2. CASE i = Len(log) + 1
    BY <2>2, <1>1, <1>2, <1>3, EmitIs
  <2> QED
    BY <2>1, <2>2, <1>1, <1>2, <1>3, EmitIs
<1>9. \A k, n, t : Seen(log', k, n, t) <=> Seen(log, k, n, t) \/ (k = p /\ n = seqn[p] /\ t = type)
  <2> SUFFICES ASSUME NEW k, NEW n, NEW t
               PROVE  Seen(log', k, n, t) <=> Seen(log, k, n, t) \/ (k = p /\ n = seqn[p] /\ t = type)
    OBVIOUS
  <2>1. Seen(log', k, n, t) <=> Seen(log, k, n, t) \/ e = [key |-> k, type |-> t, sequence |-> n]
    BY <1>1, <1>2, <1>3, SeenEmit
  <2> QED
    BY <2>1, <1>4
<1>10. ASSUME NEW k \in Pins PROVE CountInv(k)'
  <2>1. CASE k = p
    <3>1. Held(p)' <=> state[p]
      BY <1>1 DEF Held
    <3>2. CASE state[p]
      <4>1. CountInv(p) /\ Held(p) /\ type = "Press"
        BY <3>2, <1>3 DEF Held
      <4> QED
        BY <2>1, <3>1, <3>2, <4>1, <1>1, <1>9 DEF CountInv
    <3>3. CASE ~state[p]
      <4>1. CountInv(p) /\ ~Held(p)
        BY <3>3, <1>1 DEF Held
      <4> QED
        BY <2>1, <3>1, <3>3, <4>1, <1>1 DEF CountInv
    <3> QED
      BY <3>2, <3>3
  <2>2. CASE k # p
    <3>1. \A n, t : Seen(log', k, n, t) <=> Seen(log, k, n, t)
      BY <2>2, <1>9
    <3> QED
      BY <2>2, <3>1, <1>1 DEF CountInv, Held
  <2> QED
    BY <2>1, <2>2
<1>11. TurnInv'
  <2> SUFFICES ASSUME NEW k \in Pins
               PROVE  /\ ~Down(k)' => LastIs(log', k, "Press", "Release")
                      /\ Down(k)' => LastIs(log', k, "Release", "Press")
    BY DEF TurnInv
  <2>1. CASE k = p
    <3>1. Down(p)' <=> state[p]
      BY <1>1 DEF Down, Handling
    <3> QED
      BY <2>1, <3>1, <1>1, <1>2, <1>3, LastEmit
  <2>2. CASE k # p
    <3>1. Down(k)' <=> Down(k)
      BY <2>2, <1>1 DEF Down, Handling
    <3> QED
      BY <2>2, <3>1, <1>1, <1>2, <1>3, LastEmit DEF TurnInv
  <2> QED
    BY <2>1, <2>2
<1>12. ScanInv'
  <2>1. \A k \in Pins : k < key' => k < key \/ (k = key /\ Handling)
    BY <1>1, <1>2 DEF Pins, Handling
  <2> QED
    BY <2>1, <1>1 DEF ScanInv, NoLevelMissed, Handling, Bouncing
<1>13. PressShape'
  <2>1. CountInv(p) /\ TurnInv /\ Handling /\ key = p
    BY <1>1 DEF Handling
  <2>2. CASE state[p]
    <3>1. ~Seen(log, p, seqn[p], "Release") /\ type = "Press"
      BY <2>1, <2>2, <1>3 DEF CountInv, Held
    <3>2. \A i \in DOMAIN log : log[i].type \in {"Press", "Release"} => log[i].sequence < seqn[p]
      BY <2>2, <1>1 DEF NumberInv
    <3>3. LastIs(log, p, "Press", "Release")
      BY <2>1, <2>2 DEF TurnInv, Down
    <3> QED
      BY <3>1, <3>2, <3>3, <1>1, <1>2, <1>3, ShapeEmit
  <2>3. CASE ~state[p]
    <3>1. /\ ~Seen(log, p, seqn[p], "Release") /\ type = "Release"
          /\ Seen(log, p, seqn[p], "Short") <=> ~Seen(log, p, seqn[p], "Long")
      BY <2>1, <2>3, <1>1, <1>3 DEF CountInv
    <3>2. LastIs(log, p, "Release", "Press")
      BY <2>1, <2>3 DEF TurnInv, Down
    <3> QED
      BY <3>1, <3>2, <1>1, <1>2, <1>3, ShapeEmit
  <2> QED
    BY <2>2, <2>3
<1> QED
  BY <1>6, <1>7, <1>8, <1>10, <1>11, <1>12, <1>13

LEMMA ScanEndStep == ASSUME InputAssumption, SrvInv, EndOfScan \/ Interrupted PROVE SrvInv'
<1> USE DEF SrvInv
<1>1. /\ UNCHANGED <<pin, state, debounce, counter, seqn, presses, timer, commands, firing, fires, log, edges>>
      /\ key' = 1 /\ pc' \in {"scan", "wait"} /\ pc \in {"scan", "wait"}
      /\ isr' \in BOOLEAN /\ changing' \in BOOLEAN
      /\ pc' = "wait" => pc = "scan" /\ key = NKeys + 1 /\ ~changing /\ isr' = isr
  <2>1. CASE EndOfScan
    BY <2>1 DEF EndOfScan, pinState, timers, SrvTypeOK
  <2>2. CASE Interrupted
    BY <2>2 DEF Interrupted, pinState, timers, SrvTypeOK, PlaceInv
  <2> QED
    BY <2>1, <2>2
<1>2. SrvTypeOK'
  <2>1. key' \in 1..NKeys + 1
    BY <1>1 DEF InputAssumption
  <2>2. pc' \in {"scan", "stopping", "short", "event", "wait"}
    BY <1>1
  <2> QED
    BY <2>1, <2>2, <1>1 DEF SrvTypeOK
<1>3. PlaceInv' /\ TimerInv' /\ NumberInv'
  BY <1>1 DEF PlaceInv, TimerInv, NumberInv, Handling
<1>4. TurnInv' /\ \A k \in Pins : CountInv(k)'
  BY <1>1 DEF TurnInv, CountInv, Handling, Held, Down
<1>5. ScanInv'
  <2>1. \A k \in Pins : Bouncing(k)' <=> Bouncing(k)
    BY <1>1 DEF Bouncing
  <2>2. \A k \in Pins : ~(k < key') /\ k \in Nat
    BY <1>1 DEF Pins
  <2>3. ~Handling'
    BY <1>1 DEF Handling
  <2>4. ASSUME pc' = "wait", ~isr', NEW k \in Pins PROVE state[k] = pin[k] /\ ~Bouncing(k)
    <3>1. k < key /\ ~isr /\ ~changing
      BY <2>4, <1>1 DEF Pins, InputAssumption
    <3> QED
      BY <3>1 DEF ScanInv
  <2> QED
    BY <2>1, <2>2, <2>3, <2>4, <1>1 DEF ScanInv, NoLevelMissed
<1> QED
  BY <1>1, <1>2, <1>3, <1>4, <1>5, ShapeKept

LEMMA RunCommandsStep == ASSUME InputAssumption, SrvInv, RunCommands PROVE SrvInv'
<1> USE DEF SrvInv
<1>1. /\ UNCHANGED <<pin, isr, pc, key, changing, state, debounce, counter, seqn, presses, firing, fires, log, edges>>
      /\ firing = <<>> /\ commands' = <<>>
      /\ timer' = [k \in Pins |->
            IF \E i \in DOMAIN commands : commands[i][2] = k THEN Starting(commands, k) ELSE timer[k]]
  BY DEF RunCommands, pinState, Starting
<1>2. /\ timer' \in [Pins -> BOOLEAN]
      /\ \A k \in Pins : timer'[k] => Starting(commands, k) \/ timer[k]
  BY <1>1 DEF SrvTypeOK, Starting
<1>3. commands' \in Seq({"start", "stop"} \X Pins) /\ \A k : ~Starting(commands', k)
  BY <1>1, EmptySeq DEF Starting
<1>4. SrvTypeOK'
  BY <1>1, <1>2, <1>3 DEF SrvTypeOK
<1>5. PlaceInv' /\ TimerInv' /\ NumberInv'
  BY <1>1, <1>2, <1>3 DEF PlaceInv, TimerInv, NumberInv, Handling
<1>6. TurnInv' /\ \A k \in Pins : CountInv(k)'
  BY <1>1 DEF TurnInv, CountInv, Handling, Held, Down
<1>7. ScanInv'
  BY <1>1 DEF ScanInv, NoLevelMissed, Handling, Bouncing
<1> QED
  BY <1>1, <1>4, <1>5, <1>6, <1>7, ShapeKept

LEMMA FireStep == ASSUME InputAssumption, SrvInv, NEW p \in Pins, Fire(p) PROVE SrvInv'
<1> USE DEF SrvInv
<1>1. /\ UNCHANGED <<pin, isr, pc, key, changing, state, debounce, counter, seqn, timer, commands, log, edges>>
      /\ firing = <<>> /\ timer[p] /\ fires < MaxFires /\ fires' = fires + 1
      /\ presses' = [presses EXCEPT ![p] = Counted(p)]
  BY DEF Fire, pinState
<1>2. /\ presses \in [Pins -> 0..LongCounts] /\ presses[p] \in {0, 1, 2} /\ LongCounts = 2
      /\ fires' \in 0..MaxFires
  BY <1>1 DEF SrvTypeOK, LongCounts, InputAssumption
<1>3. /\ presses[p] = 0 => firing' = <<>>
      /\ presses[p] = 1 => firing' = <<Event(p, "Long")>>
      /\ presses[p] = 2 => firing' = <<Event(p, "Repeat")>>
  BY <1>2 DEF Fire
<1>4. /\ \A type \in {"Long", "Repeat"} :
            /\ Event(p, type) \in InputEvents
            /\ Event(p, type).key = p /\ Event(p, type).type = type /\ Event(p, type).sequence = seqn[p]
  BY EventIs DEF InputTypes
<1>5. \/ presses[p] = 0 /\ firing' = <<>>
      \/ \E e \in InputEvents :
           /\ firing' = <<e>> /\ e.key = p /\ e.sequence = seqn[p]
           /\ \/ presses[p] = 1 /\ e.type = "Long"
              \/ presses[p] = 2 /\ e.type = "Repeat"
  BY <1>2, <1>3, <1>4
<1>6. firing' \in Seq(InputEvents)
  <2>1. CASE firing' = <<>>
    BY <2>1, EmptySeq
  <2>2. ASSUME NEW e \in InputEvents, firing' = <<e>> PROVE firing' \in Seq(InputEvents)
    BY <2>2
  <2> QED
    BY <2>1, <2>2, <1>5
<1>7. /\ presses' \in [Pins -> 0..LongCounts]
      /\ \A k \in Pins \ {p} : presses'[k] = presses[k]
      /\ presses'[p] = LongCounts <=> presses[p] \in {1, 2}
  BY <1>1, <1>2 DEF Counted
<1>8. SrvTypeOK'
  BY <1>1, <1>2, <1>6, <1>7 DEF SrvTypeOK
<1>9. PlaceInv' /\ TimerInv' /\ NumberInv'
  <2>1. \/ firing' = <<>>
        \/ \E e \in InputEvents :
             /\ firing' = <<e>> /\ e.type \in {"Long", "Repeat"}
             /\ timer'[e.key] /\ e.sequence = seqn'[e.key]
    BY <1>5, <1>1
  <2> QED
    BY <2>1, <1>1 DEF PlaceInv, TimerInv, NumberInv, Handling
<1>10. Held(p) /\ (\A k \in Pins : Held(k)' <=> Held(k))
  BY <1>1 DEF TimerInv, Held
<1>11. \A k \in Pins : ~Fires(firing, k, "Long") /\ ~Fires(firing, k, "Repeat")
  BY <1>1 DEF Fires
<1>12. ASSUME NEW k \in Pins PROVE CountInv(k)'
  <2>1. CASE k = p
    <3>1. presses[p] = LongCounts <=> Seen(log, p, seqn[p], "Long")
      BY <1>10, <1>11 DEF CountInv
    <3>2. /\ Fires(firing', p, "Long") <=> presses[p] = 1
          /\ Fires(firing', p, "Repeat") <=> presses[p] = 2
      <4>1. CASE presses[p] = 0 /\ firing' = <<>>
        BY <4>1 DEF Fires
      <4>2. ASSUME NEW e \in InputEvents, firing' = <<e>>, e.key = p,
                   \/ presses[p] = 1 /\ e.type = "Long"
                   \/ presses[p] = 2 /\ e.type = "Repeat"
            PROVE  /\ Fires(firing', p, "Long") <=> presses[p] = 1
                   /\ Fires(firing', p, "Repeat") <=> presses[p] = 2
        <5>1. firing' # <<>> /\ firing'[1] = e
          BY <4>2
        <5> QED
          BY <4>2, <5>1 DEF Fires
      <4> QED
        BY <4>1, <4>2, <1>5
    <3>3. presses'[p] = LongCounts <=> Seen(log, p, seqn[p], "Long") \/ Fires(firing', p, "Long")
      BY <3>1, <3>2, <1>2, <1>7
    <3> QED
      BY <2>1, <3>1, <3>2, <3>3, <1>1, <1>2, <1>10 DEF CountInv
  <2>2. CASE k # p
    <3>1. ~Fires(firing', k, "Long") /\ ~Fires(firing', k, "Repeat")
      BY <2>2, <1>5 DEF Fires
    <3> QED
      BY <2>2, <3>1, <1>1, <1>7, <1>10, <1>11 DEF CountInv
  <2> QED
    BY <2>1, <2>2
<1>13. TurnInv'
  BY <1>1 DEF TurnInv, Handling, Down
<1>14. ScanInv'
  BY <1>1 DEF ScanInv, NoLevelMissed, Handling, Bouncing
<1> QED
  BY <1>1, <1>8, <1>9, <1>12, <1>13, <1>14, ShapeKept

LEMMA PublishFiringStep == ASSUME InputAssumption, SrvInv, PublishFiring PROVE SrvInv'
<1> USE DEF SrvInv
<1>1. /\ UNCHANGED <<pin, isr, pc, key, changing, state, debounce, counter, seqn, presses, timer, commands, fires, edges>>
      /\ firing # <<>> /\ firing' = <<>> /\ Emit(firing[1])
  BY DEF PublishFiring, pinState
<1>2. PICK e \in InputEvents :
         firing = <<e>> /\ e.type \in {"Long", "Repeat"} /\ timer[e.key] /\ e.sequence = seqn[e.key]
  BY <1>1 DEF TimerInv
<1>3. firing[1] = e /\ Emit(e)
  BY <1>1, <1>2
<1>4. /\ log \in Seq(InputEvents) /\ e.key \in Pins /\ e.sequence \in Nat
      /\ e = [key |-> e.key, type |-> e.type, sequence |-> seqn[e.key]]
  BY <1>2 DEF SrvTypeOK, InputEvents
<1>5. Held(e.key) /\ CountInv(e.key)
  BY <1>2, <1>4 DEF TimerInv, Held
<1>6. log' \in Seq(InputEvents) /\ firing' \in Seq(InputEvents)
  BY <1>1, <1>3, <1>4, EmitIs, EmptySeq
<1>7. SrvTypeOK'
  BY <1>1, <1>6 DEF SrvTypeOK
<1>8. PlaceInv' /\ TimerInv'
  BY <1>1 DEF PlaceInv, TimerInv, Handling
<1>9. NumberInv'
  <2>1. ASSUME NEW i \in DOMAIN log'
        PROVE  /\ log'[i].sequence <= seqn[log'[i].key]
               /\ (i \in DOMAIN log /\ log'[i] = log[i]) \/ log'[i].type \notin {"Press", "Release"}
    <3>1. CASE i \in DOMAIN log
      BY <3>1, <1>3, <1>4, EmitIs DEF NumberInv
    <3>2. CASE i = Len(log) + 1
      <4>1. log'[i] = e /\ seqn[e.key] \in Nat
        BY <3>2, <1>3, <1>4, EmitIs DEF SrvTypeOK
      <4> QED
        BY <4>1, <1>2
    <3> QED
      BY <3>1, <3>2, <1>3, <1>4, EmitIs
  <2> QED
    BY <2>1, <1>1 DEF NumberInv
<1>10. \A k, n, t : Seen(log', k, n, t) <=> Seen(log, k, n, t) \/ (k = e.key /\ n = seqn[e.key] /\ t = e.type)
  <2> SUFFICES ASSUME NEW k, NEW n, NEW t
               PROVE  Seen(log', k, n, t) <=> Seen(log, k, n, t) \/ (k = e.key /\ n = seqn[e.key] /\ t = e.type)
    OBVIOUS
  <2>1. Seen(log', k, n, t) <=> Seen(log, k, n, t) \/ e = [key |-> k, type |-> t, sequence |-> n]
    BY <1>3, <1>4, SeenEmit
  <2> QED
    BY <2>1, <1>4
<1>11. ASSUME NEW k \in Pins PROVE CountInv(k)'
  <2>1. ~Fires(firing', k, "Long") /\ ~Fires(firing', k, "Repeat")
    BY <1>1 DEF Fires
  <2>2. Held(k)' <=> Held(k)
    BY <1>1 DEF Held
  <2>3. CASE k = e.key
    <3>2. pc = "event" /\ key = k => state[k]
      BY <2>3, <1>5 DEF Held
    <3> QED
      BY <2>1, <2>2, <2>3, <3>2, <1>1, <1>2, <1>5, <1>10 DEF CountInv, Fires
  <2>4. CASE k # e.key
    <3>1. \A n, t : Seen(log', k, n, t) <=> Seen(log, k, n, t)
      BY <2>4, <1>10
    <3>2. ~Fires(firing, k, "Long") /\ ~Fires(firing, k, "Repeat")
      BY <2>4, <1>2 DEF Fires
    <3> QED
      BY <2>1, <2>2, <3>1, <3>2, <1>1 DEF CountInv
  <2> QED
    BY <2>3, <2>4
<1>12. TurnInv'
  <2> SUFFICES ASSUME NEW k \in Pins
               PROVE  /\ ~Down(k)' => LastIs(log', k, "Press", "Release")
                      /\ Down(k)' => LastIs(log', k, "Release", "Press")
    BY DEF TurnInv
  <2>1. Down(k)' <=> Down(k)
    BY <1>1 DEF Down, Handling
  <2> QED
    BY <2>1, <1>2, <1>3, <1>4, LastEmit DEF TurnInv
<1>13. ScanInv'
  BY <1>1 DEF ScanInv, NoLevelMissed, Handling, Bouncing
<1>14. PressShape'
  <2>1. ~Seen(log, e.key, e.sequence, "Release") /\ (e.type = "Repeat" => Seen(log, e.key, e.sequence, "Long"))
    BY <1>2, <1>5 DEF CountInv, Fires
  <2> QED
    BY <2>1, <1>2, <1>3, <1>4, ShapeEmit
<1> QED
  BY <1>7, <1>8, <1>9, <1>11, <1>12, <1>13, <1>14

LEMMA SrvInitInv == ASSUME InputAssumption, SrvInit PROVE SrvInv
<1>1. DOMAIN log = {} /\ DOMAIN commands = {}
  BY DEF SrvInit
<1>2. SrvTypeOK
  <2>1. DebounceTicks \div 2 \in 0..DebounceTicks /\ 1 \in 1..NKeys + 1
    BY DEF InputAssumption
  <2>2. log \in Seq(InputEvents) /\ firing \in Seq(InputEvents) /\ commands \in Seq({"start", "stop"} \X Pins)
    BY EmptySeq DEF SrvInit
  <2>3. /\ pin \in [Pins -> BOOLEAN] /\ state \in [Pins -> BOOLEAN] /\ timer \in [Pins -> BOOLEAN]
        /\ isr \in BOOLEAN /\ changing \in BOOLEAN
    BY DEF SrvInit
  <2>4. /\ debounce \in [Pins -> 0..DebounceTicks] /\ counter \in Nat /\ seqn \in [Pins -> 0..counter]
        /\ presses \in [Pins -> 0..LongCounts]
    BY <2>1 DEF SrvInit, LongCounts
  <2>5. edges \in 0..MaxEdges /\ fires \in 0..MaxFires /\ key \in 1..NKeys + 1 /\ pc = "scan"
    BY <2>1 DEF SrvInit, InputAssumption
  <2> QED
    BY <2>2, <2>3, <2>4, <2>5 DEF SrvTypeOK
<1>3. PlaceInv /\ TimerInv /\ NumberInv
  BY <1>1 DEF SrvInit, PlaceInv, TimerInv, NumberInv, Handling, Starting
<1>4. \A k \in Pins : CountInv(k)
  BY <1>1 DEF SrvInit, CountInv, Seen, Fires, LongCounts
<1>5. TurnInv
  BY <1>1 DEF TurnInv, LastIs
<1>6. ScanInv
  BY DEF SrvInit, ScanInv, NoLevelMissed, Handling, Pins
<1>7. PressShape
  BY <1>1 DEF PressShape, ShortXorLong, ReleaseIsLast, PressesAreNumbered, TakeTurns, RepeatAfterLong
<1> QED
  BY <1>2, <1>3, <1>4, <1>5, <1>6, <1>7 DEF SrvInv

LEMMA SrvStutter == ASSUME SrvInv, UNCHANGED srvVars PROVE SrvInv'
<1>1. UNCHANGED <<pin, isr, pc, key, changing, state, debounce, counter, seqn, presses, timer, commands, firing, fires, log, edges>>
  BY DEF srvVars, pinState, timers
<1> USE DEF SrvInv
<1>2. SrvTypeOK'
  BY <1>1 DEF SrvTypeOK
<1>3. PlaceInv' /\ TimerInv' /\ NumberInv' /\ TurnInv' /\ \A k \in Pins : CountInv(k)'
  BY <1>1 DEF PlaceInv, TimerInv, NumberInv, TurnInv, CountInv, Handling, Held, Down
<1>4. ScanInv'
  BY <1>1 DEF ScanInv, NoLevelMissed, Handling, Bouncing
<1> QED
  BY <1>1, <1>2, <1>3, <1>4, ShapeKept

(* The invariant of the input service: which timers may be active, what was *)
(* published of every key's last press, and what a scan has settled.        *)
THEOREM SrvInvariant == SrvSpec => []SrvInv
<1>1. SrvInit => SrvInv
  BY SrvInitInv, InputAssumption
<1>2. ASSUME SrvInv, [SrvNext]_srvVars PROVE SrvInv'
  <2>1. CASE ThreadStep
    <3>1. ASSUME NEW p \in Pins, Scan(p) PROVE SrvInv'
      <4>1. Debounce(p) \/ Pressed(p) \/ Released(p) \/ Unchanged(p)
        BY <3>1 DEF Scan
      <4> QED
        BY <1>2, <3>1, <4>1, InputAssumption, LookStep, PressedStep, ReleasedStep
    <3>2. ASSUME NEW p \in Pins, Stopped(p) \/ Short(p) \/ PressOrRelease(p) PROVE SrvInv'
      BY <1>2, <3>2, InputAssumption, StoppedStep, ShortStep, PressOrReleaseStep
    <3>3. CASE EndOfScan \/ Interrupted
      BY <1>2, <3>3, InputAssumption, ScanEndStep
    <3> QED
      BY <2>1, <3>1, <3>2, <3>3 DEF ThreadStep
  <2>2. CASE TimerStep
    BY <1>2, <2>2, InputAssumption, RunCommandsStep, FireStep, PublishFiringStep DEF TimerStep
  <2>3. CASE \E p \in Pins : Edge(p)
    BY <1>2, <2>3, InputAssumption, EdgeStep
  <2>4. CASE UNCHANGED srvVars
    BY <1>2, <2>4, SrvStutter
  <2> QED
    BY <1>2, <2>1, <2>2, <2>3, <2>4 DEF SrvNext
<1> QED
  BY <1>1, <1>2, PTL DEF SrvSpec

(* Types: sequence numbers never run ahead of the counter, press counts     *)
(* never leave their three values.                                         *)
THEOREM SrvTypes == SrvSpec => []SrvTypeOK
<1>1. SrvInv => SrvTypeOK
  BY DEF SrvInv
<1> QED
  BY <1>1, SrvInvariant, PTL

(* input_srv and input_press_timer_callback: every press has exactly one of *)
(* Short and Long, ends with its Release, has a number of its own; Press and*)
(* Release of a key take turns, whenever the timer expires.                 *)
THEOREM SrvPressShape == SrvSpec => []PressShape
<1>1. SrvInv => PressShape
  BY DEF SrvInv
<1> QED
  BY <1>1, SrvInvariant, PTL

(* input_srv waits for the interrupt only when every key is settled and     *)
(* reported, or the interrupt has come.                                    *)
THEOREM SrvNoLevelMissed == SrvSpec => []NoLevelMissed
<1>1. SrvInv => NoLevelMissed
  BY DEF SrvInv, ScanInv
<1> QED
  BY <1>1, SrvInvariant, PTL

(***************************************************************************)
(* The input service implements KeyEvents                                  *)
(***************************************************************************)
Shown(s) == [i \in DOMAIN s |-> <<Kind(s[i].type), s[i].key>>]

LEMMA ShownAppend ==
  ASSUME NEW s \in Seq(InputEvents), NEW e \in InputEvents
  PROVE  Shown(Append(s, e)) = Append(Shown(s), <<Kind(e.type), e.key>>)
<1> DEFINE x == <<Kind(e.type), e.key>>
<1>1. /\ Len(s) \in Nat /\ DOMAIN s = 1..Len(s) /\ DOMAIN Append(s, e) = 1..Len(s) + 1
      /\ \A i \in 1..Len(s) : Append(s, e)[i] = s[i]
      /\ Append(s, e)[Len(s) + 1] = e
  OBVIOUS
<1>2. Shown(s) \in Seq({Shown(s)[i] : i \in 1..Len(s)}) /\ Len(Shown(s)) = Len(s)
  BY <1>1, SeqDef DEF Shown
<1>3. /\ DOMAIN Append(Shown(s), x) = 1..Len(s) + 1
      /\ \A i \in 1..Len(s) : Append(Shown(s), x)[i] = Shown(s)[i]
      /\ Append(Shown(s), x)[Len(s) + 1] = x
      /\ Append(Shown(s), x) = [i \in 1..Len(s) + 1 |-> Append(Shown(s), x)[i]]
  <2>1. Append(Shown(s), x) \in Seq({Shown(s)[i] : i \in 1..Len(s)} \cup {x})
    BY <1>2
  <2> QED
    BY <1>1, <1>2, <2>1
<1>4. \A i \in 1..Len(s) + 1 : <<Kind(Append(s, e)[i].type), Append(s, e)[i].key>> = Append(Shown(s), x)[i]
  <2> SUFFICES ASSUME NEW i \in 1..Len(s) + 1
               PROVE  <<Kind(Append(s, e)[i].type), Append(s, e)[i].key>> = Append(Shown(s), x)[i]
    OBVIOUS
  <2>1. CASE i \in 1..Len(s)
    BY <1>1, <1>3, <2>1 DEF Shown
  <2>2. CASE i = Len(s) + 1
    BY <1>1, <1>3, <2>2
  <2>3. i \in 1..Len(s) \/ i = Len(s) + 1
    BY <1>1
  <2> QED
    BY <2>1, <2>2, <2>3
<1> HIDE DEF x
<1>5. Shown(Append(s, e)) = [i \in 1..Len(s) + 1 |-> Append(Shown(s), x)[i]]
  BY <1>1, <1>4 DEF Shown
<1> QED
  BY <1>3, <1>5 DEF x

LEMMA EmitShows ==
  ASSUME SrvTypeOK, NEW e \in InputEvents, Emit(e)
  PROVE  KE!KEmit(Kind(e.type), e.key)
<1>1. log \in Seq(InputEvents) /\ log' = Append(log, e)
  BY DEF SrvTypeOK, Emit
<1>2. Shown(log') = Append(Shown(log), <<Kind(e.type), e.key>>)
  BY <1>1, ShownAppend
<1> QED
  BY <1>2 DEF Shown, KE!KEmit

(* A step that publishes nothing, and turns no key's level and place apart. *)
LEMMA ShowsNothing ==
  ASSUME UNCHANGED log, \A k \in Pins : Down(k)' <=> Down(k)
  PROVE  UNCHANGED KE!kvars
BY DEF KE!kvars

LEMMA TapShows ==
  ASSUME SrvTypeOK, NEW e \in InputEvents, e.type \notin {"Press", "Release"}, Emit(e),
         \A k \in Pins : Down(k)' <=> Down(k)
  PROVE  KE!KNext
<1>1. KE!KEmit("Tap", e.key)
  BY EmitShows DEF Kind
<1>2. e.key \in Pins
  BY DEF InputEvents
<1>3. KE!KTap(e.key)
  BY <1>1 DEF KE!KTap
<1> QED
  BY <1>2, <1>3 DEF KE!KNext

LEMMA TurnShows == ASSUME SrvInv, NEW p \in Pins, PressOrRelease(p) PROVE KE!KNext
<1> DEFINE type == IF state[p] THEN "Press" ELSE "Release"
           e == Event(p, type)
<1>1. /\ pc = "event" /\ key = p /\ pc' = "scan" /\ state' = state /\ Emit(e)
  BY DEF PressOrRelease, NextKey, pinState
<1>2. e \in InputEvents /\ e.key = p /\ e.type = type
  BY EventIs, InputAssumption DEF InputTypes, SrvInv
<1>3. KE!KEmit(type, p)
  BY <1>1, <1>2, EmitShows DEF Kind, SrvInv
<1>4. /\ \A k \in Pins \ {p} : Down(k)' <=> Down(k)
      /\ Down(p) <=> ~state[p]
      /\ Down(p)' <=> state[p]
  BY <1>1 DEF Down, Handling
<1> HIDE DEF e
<1>5. CASE state[p]
  <2>1. KE!KPress(p)
    BY <1>3, <1>4, <1>5 DEF KE!KPress
  <2> QED
    BY <2>1 DEF KE!KNext
<1>6. CASE ~state[p]
  <2>1. KE!KRelease(p)
    BY <1>3, <1>4, <1>6 DEF KE!KRelease
  <2> QED
    BY <2>1 DEF KE!KNext
<1> QED
  BY <1>5, <1>6

LEMMA ThreadShows == ASSUME SrvInv, ThreadStep PROVE [KE!KNext]_(KE!kvars)
<1>1. ASSUME NEW p \in Pins, Scan(p) PROVE UNCHANGED KE!kvars
  <2>1. UNCHANGED log /\ pc = "scan" /\ key = p
    BY <1>1 DEF Scan
  <2>2. CASE Debounce(p) \/ Unchanged(p)
    <3>1. \A k \in Pins : Down(k)' <=> Down(k)
      BY <2>1, <2>2 DEF Debounce, Unchanged, NextKey, Down, Handling
    <3> QED
      BY <2>1, <3>1, ShowsNothing
  <2>3. CASE Pressed(p) \/ Released(p)
    <3>1. state \in [Pins -> BOOLEAN]
      BY DEF SrvInv, SrvTypeOK
    <3>2. \A k \in Pins : Down(k)' <=> Down(k)
      BY <2>1, <2>3, <3>1 DEF Pressed, Released, Down, Handling
    <3> QED
      BY <2>1, <3>2, ShowsNothing
  <2> QED
    BY <1>1, <2>2, <2>3 DEF Scan
<1>2. ASSUME NEW p \in Pins, Stopped(p) PROVE UNCHANGED KE!kvars
  <2>1. UNCHANGED log /\ \A k \in Pins : Down(k)' <=> Down(k)
    BY <1>2 DEF Stopped, timers, pinState, Down, Handling
  <2> QED
    BY <2>1, ShowsNothing
<1>3. ASSUME NEW p \in Pins, Short(p) PROVE [KE!KNext]_(KE!kvars)
  <2>1. \A k \in Pins : Down(k)' <=> Down(k)
    BY <1>3 DEF Short, pinState, Down, Handling
  <2>2. Event(p, "Short") \in InputEvents /\ Event(p, "Short").type = "Short"
    BY EventIs, InputAssumption DEF InputTypes, SrvInv
  <2>3. CASE UNCHANGED log
    BY <2>1, <2>3, ShowsNothing
  <2>4. CASE Emit(Event(p, "Short"))
    <3>1. KE!KNext
      BY <2>1, <2>2, <2>4, TapShows DEF SrvInv
    <3> QED
      BY <3>1
  <2> QED
    BY <1>3, <2>3, <2>4 DEF Short
<1>4. CASE EndOfScan \/ Interrupted
  <2>1. UNCHANGED log /\ \A k \in Pins : Down(k)' <=> Down(k)
    BY <1>4 DEF EndOfScan, Interrupted, timers, pinState, Down, Handling
  <2> QED
    BY <2>1, ShowsNothing
<1> QED
  BY <1>1, <1>2, <1>3, <1>4, TurnShows DEF ThreadStep

LEMMA OtherShows ==
  ASSUME SrvInv, TimerStep \/ (\E p \in Pins : Edge(p)) \/ UNCHANGED srvVars
  PROVE  [KE!KNext]_(KE!kvars)
<1>1. \A k \in Pins : Down(k)' <=> Down(k)
  BY DEF TimerStep, RunCommands, PublishFiring, Fire, Edge, srvVars, pinState, timers, Down, Handling
<1>2. CASE PublishFiring
  <2>1. firing[1] \in InputEvents /\ firing[1].type \notin {"Press", "Release"}
    BY <1>2 DEF PublishFiring, SrvInv, TimerInv
  <2>2. KE!KNext
    BY <1>1, <1>2, <2>1, TapShows DEF PublishFiring, SrvInv
  <2> QED
    BY <2>2
<1>3. CASE UNCHANGED log
  BY <1>1, <1>3, ShowsNothing
<1> QED
  BY <1>2, <1>3 DEF TimerStep, RunCommands, Fire, Edge, srvVars

(* What input.c publishes is what the GUI assumes of its source: Press and  *)
(* Release of a key take turns, and Short, Long and Repeat come in between. *)
THEOREM SrvImplementsKeyEvents == SrvSpec => ImplementsKeyEvents
<1>1. SrvInit => KE!KInit
  <2> SUFFICES ASSUME SrvInit PROVE KE!KInit
    OBVIOUS
  <2>1. log = <<>> /\ DOMAIN log = {}
    BY DEF SrvInit
  <2>2. Shown(log) = <<>>
    BY <2>1 DEF Shown
  <2> QED
    BY <2>2 DEF KE!KInit, Shown
<1>2. SrvInv /\ [SrvNext]_srvVars => [KE!KNext]_(KE!kvars)
  BY ThreadShows, OtherShows DEF SrvNext
<1> QED
  BY <1>1, <1>2, SrvInvariant, PTL DEF SrvSpec, ImplementsKeyEvents, KE!KSpec

(***************************************************************************)
(* The GUI                                                                 *)
(***************************************************************************)
Has(s, v) == \E i \in DOMAIN s : s[i] = v

(* Every view port is in the list of its own layer.                        *)
LayersOK == \A l \in Layers : \A v \in ViewPorts : Has(layers[l], v) => LayerOf(v) = l

(* Key k is up when everything before position i of queue q was handled.   *)
Up(q, on, k, i) ==
  \/ \E j \in 1..i-1 : q[j] = <<"Release", k>> /\ \A m \in j+1..i-1 : q[m] # <<"Press", k>>
  \/ k \notin on /\ \A m \in 1..i-1 : q[m] # <<"Press", k>>

(* Without injected events, a Press finds its key up.                      *)
TurnsInv ==
  injects = 0 =>
    /\ \A i \in DOMAIN queue, k \in Keys : queue[i] = <<"Press", k>> => Up(queue, ongoing, k, i)
    /\ \A k \in Keys \ down : Up(queue, ongoing, k, Len(queue) + 1)

IInv == TypeOK /\ LayersOK /\ NoInputAfterRemove /\ QueueIsServed /\ TurnsInv /\ OneViewPortAtATime

(***************************************************************************)
(* Layers                                                                  *)
(***************************************************************************)
LEMMA LayerIs == \A v \in ViewPorts : LayerOf(v) \in Layers
  BY DEF ViewPorts, LayerOf, Layers

LEMMA LayerTyped == ASSUME TypeOK, NEW l \in Layers PROVE layers[l] \in Seq(ViewPorts)
  BY DEF TypeOK

LEMMA AddedIs ==
  ASSUME TypeOK, LayersOK, NEW v \in ViewPorts
  PROVE  v \in Added <=> Has(layers[LayerOf(v)], v)
  BY LayerIs DEF Added, Has, LayersOK

LEMMA WithoutIs ==
  ASSUME TypeOK, LayersOK, NEW v \in ViewPorts, v \in Added
  PROVE  /\ Without(v) \in Seq(ViewPorts)
         /\ \A u \in ViewPorts : Has(Without(v), u) => Has(layers[LayerOf(v)], u)
         /\ \A u \in ViewPorts \ {v} : Has(layers[LayerOf(v)], u) => Has(Without(v), u)
<1> DEFINE l == layers[LayerOf(v)]
           i == CHOOSE n \in DOMAIN l : l[n] = v
           w == [j \in 1..Len(l) - 1 |-> IF j < i THEN l[j] ELSE l[j + 1]]
<1>1. l \in Seq(ViewPorts) /\ Len(l) \in Nat /\ DOMAIN l = 1..Len(l)
  BY LayerIs, LayerTyped
<1>2. \E n \in DOMAIN l : l[n] = v
  BY AddedIs DEF Has
<1>3. i \in DOMAIN l /\ l[i] = v
  BY <1>2
<1>4. Without(v) = w
  BY DEF Without
<1> HIDE DEF i
<1>5. \A j \in 1..Len(l) : l[j] \in ViewPorts
  BY <1>1, ElementOfSeq
<1> HIDE DEF l
<1>6. Len(l) - 1 \in Nat /\ i \in 1..Len(l)
  BY <1>1, <1>3
<1>7. \A j \in 1..Len(l) - 1 : w[j] = IF j < i THEN l[j] ELSE l[j + 1]
  OBVIOUS
<1>8. \A j \in 1..Len(l) - 1 : w[j] \in ViewPorts
  BY <1>1, <1>5, <1>6, <1>7
<1>9. w \in Seq(ViewPorts) /\ DOMAIN w = 1..Len(l) - 1
  <2>1. w \in [1..Len(l) - 1 -> ViewPorts]
    BY <1>8
  <2> QED
    BY <1>6, <2>1, SeqDef
<1>10. ASSUME NEW u \in ViewPorts, Has(w, u) PROVE Has(l, u)
  BY <1>1, <1>6, <1>7, <1>9, <1>10 DEF Has
<1>11. ASSUME NEW u \in ViewPorts \ {v}, Has(l, u) PROVE Has(w, u)
  <2>1. PICK m \in 1..Len(l) : l[m] = u
    BY <1>1, <1>11 DEF Has
  <2>2. CASE m < i
    BY <1>1, <1>6, <1>7, <1>9, <2>1, <2>2 DEF Has
  <2>3. CASE m > i
    <3>1. m - 1 \in 1..Len(l) - 1 /\ ~(m - 1 < i) /\ (m - 1) + 1 = m
      BY <1>1, <1>6, <2>3
    <3> QED
      BY <1>7, <1>9, <2>1, <3>1 DEF Has
  <2> QED
    BY <1>1, <1>3, <1>6, <2>1, <2>2, <2>3
<1> QED
  BY <1>4, <1>9, <1>10, <1>11 DEF l

(* A nonempty set of positions has a last one.                             *)
LEMMA Greatest ==
  ASSUME NEW n \in Nat, NEW T \in SUBSET (1..n), T # {}
  PROVE  \E i \in T : \A j \in T : j <= i
<1> DEFINE D == {n - i : i \in T}
<1>0. \A i \in T : i \in Int /\ n - i \in Nat
  OBVIOUS
<1>1. D \subseteq Nat /\ D # {}
  BY <1>0
<1>2. PICK d \in D : \A e \in D : ~(<<e, d>> \in OpToRel(<, Nat))
  BY <1>1, NatLessThanWellFounded, WFMin
<1>3. \A e \in D : ~(e < d)
  BY <1>1, <1>2 DEF OpToRel
<1>4. PICK i \in T : d = n - i
  OBVIOUS
<1>5. \A j \in T : ~(n - j < n - i)
  BY <1>3, <1>4
<1>6. \A j \in T : j <= i
  BY <1>0, <1>5
<1> QED
  BY <1>6

LEMMA FoundIs ==
  ASSUME TypeOK, LayersOK, NEW l \in Layers, FindEnabled(l) # NULL
  PROVE  /\ FindEnabled(l) \in ViewPorts /\ FindEnabled(l) \in Added
         /\ LayerOf(FindEnabled(l)) = l
<1>1. layers[l] \in Seq(ViewPorts) /\ DOMAIN layers[l] = 1..Len(layers[l])
  BY LayerTyped
<1>2. Enabled(l) \in SUBSET (1..Len(layers[l])) /\ Enabled(l) # {} /\ Len(layers[l]) \in Nat
  BY <1>1 DEF Enabled, FindEnabled
<1>3. \E i \in Enabled(l) : \A j \in Enabled(l) : j <= i
  BY <1>2, Greatest
<1>4. PICK i \in Enabled(l) : FindEnabled(l) = layers[l][i]
  BY <1>2, <1>3 DEF FindEnabled
<1>5. layers[l][i] \in ViewPorts
  BY <1>1, <1>2, ElementOfSeq
<1>6. Has(layers[l], layers[l][i])
  BY <1>1, <1>2 DEF Has
<1>7. LayerOf(layers[l][i]) = l
  BY <1>5, <1>6 DEF LayersOK
<1> QED
  BY <1>4, <1>5, <1>6, <1>7, AddedIs

LEMMA FrontIs ==
  ASSUME TypeOK, LayersOK, Front # NULL
  PROVE  Front \in ViewPorts /\ Front \in Added /\ (lockdown => LayerOf(Front) = "Desktop")
<1> DEFINE f == FindEnabled("Fullscreen")
           w == FindEnabled("Window")
           d == FindEnabled("Desktop")
<1>1. /\ f # NULL => f \in ViewPorts /\ f \in Added
      /\ w # NULL => w \in ViewPorts /\ w \in Added
      /\ d # NULL => d \in ViewPorts /\ d \in Added /\ LayerOf(d) = "Desktop"
  BY FoundIs DEF Layers
<1>2. Front \in {f, w, d} /\ (lockdown => Front = d)
  BY DEF Front
<1> QED
  BY <1>1, <1>2

(***************************************************************************)
(* The queue                                                               *)
(***************************************************************************)
LEMMA UpAppend ==
  ASSUME NEW q \in Seq(Events), NEW e \in Events, NEW on, NEW k, NEW i \in 1..Len(q) + 1,
         Up(q, on, k, i)
  PROVE  Up(Append(q, e), on, k, i)
<1>1. \A m \in 1..i-1 : Append(q, e)[m] = q[m]
  OBVIOUS
<1>2. \A j \in 1..i-1 : \A m \in j+1..i-1 : m \in 1..i-1
  OBVIOUS
<1> QED
  BY <1>1, <1>2 DEF Up

LEMMA UpNext ==
  ASSUME NEW q, NEW on, NEW k, NEW i \in Nat \ {0}, Up(q, on, k, i), q[i] # <<"Press", k>>
  PROVE  Up(q, on, k, i + 1)
<1>1. (i + 1) - 1 = i
  OBVIOUS
<1>2. CASE k \notin on /\ \A m \in 1..i-1 : q[m] # <<"Press", k>>
  BY <1>1, <1>2 DEF Up
<1>3. CASE \E j \in 1..i-1 : /\ q[j] = <<"Release", k>>
                             /\ \A m \in j+1..i-1 : q[m] # <<"Press", k>>
  <2>1. PICK j \in 1..i-1 : /\ q[j] = <<"Release", k>>
                            /\ \A m \in j+1..i-1 : q[m] # <<"Press", k>>
    BY <1>3
  <2>2. \A m \in j+1..i : m = i \/ m \in j+1..i-1
    OBVIOUS
  <2>3. \A m \in j+1..i : q[m] # <<"Press", k>>
    BY <2>1, <2>2
  <2>4. j \in 1..i
    OBVIOUS
  <2> QED
    BY <1>1, <2>1, <2>3, <2>4 DEF Up
<1> QED
  BY <1>2, <1>3 DEF Up

(* The head is handled: on2 is what on becomes.                            *)
LEMMA UpTail ==
  ASSUME NEW q \in Seq(Events), q # <<>>, NEW on, NEW on2, NEW k, NEW i \in 1..Len(q),
         Up(q, on, k, i + 1),
         Head(q) = <<"Release", k>> => k \notin on2,
         Head(q) # <<"Press", k>> /\ k \notin on => k \notin on2
  PROVE  Up(Tail(q), on2, k, i)
<1>1. /\ Len(q) \in Nat /\ Head(q) = q[1] /\ i \in Nat /\ (i + 1) - 1 = i
      /\ \A m \in 1..i-1 : Tail(q)[m] = q[m + 1] /\ m + 1 \in 1..i /\ m \in Int
  OBVIOUS
<1>2. CASE k \notin on /\ \A m \in 1..i : q[m] # <<"Press", k>>
  <2>1. 1 \in 1..i
    OBVIOUS
  <2> QED
    BY <1>1, <1>2, <2>1 DEF Up
<1>3. CASE \E j \in 1..i : q[j] = <<"Release", k>> /\ \A m \in j+1..i : q[m] # <<"Press", k>>
  <2>1. PICK j \in 1..i : q[j] = <<"Release", k>> /\ \A m \in j+1..i : q[m] # <<"Press", k>>
    BY <1>3
  <2>2. CASE j = 1
    <3>1. \A m \in 1..i-1 : m + 1 \in j+1..i
      BY <2>2
    <3> QED
      BY <1>1, <2>1, <2>2, <3>1 DEF Up
  <2>3. CASE j # 1
    <3>1. j - 1 \in 1..i-1 /\ (j - 1) + 1 = j
      BY <2>3
    <3>2. \A m \in (j-1)+1..i-1 : m \in 1..i-1 /\ m + 1 \in j+1..i
      BY <2>3
    <3>3. Tail(q)[j - 1] = <<"Release", k>>
      BY <1>1, <2>1, <3>1
    <3>4. \A m \in (j-1)+1..i-1 : Tail(q)[m] # <<"Press", k>>
      BY <1>1, <2>1, <3>2
    <3> QED
      BY <3>1, <3>3, <3>4 DEF Up
  <2> QED
    BY <2>2, <2>3
<1> QED
  BY <1>1, <1>2, <1>3 DEF Up

LEMMA PublishStep ==
  ASSUME IInv, GuiAssumption, NEW type \in Types, NEW k \in Keys, Publish(type, k)
  PROVE  IInv'
<1> DEFINE e == <<type, k>>
<1>1. /\ queue \in Seq(Events) /\ e \in Events /\ Len(queue) < QueueSize
      /\ queue' = Append(queue, e) /\ signal' = TRUE
      /\ UNCHANGED <<flag, gpc, layers, enabled, vertical, lockdown, ops, ongoing, ongoingPort, held, open, injects>>
  BY DEF IInv, TypeOK, Publish, Put, HasRoom, Events, ports, given
<1>2. /\ type = "Press" => k \notin down /\ down' = down \cup {k}
      /\ type = "Release" => down' = down \ {k}
      /\ type = "Tap" => down' = down
  BY DEF Publish, Types, Source!KPress, Source!KRelease, Source!KTap
<1>3. TypeOK'
  <2>1. queue' \in Seq(Events) /\ Len(queue') <= QueueSize
    BY <1>1 DEF GuiAssumption
  <2>2. down' \subseteq Keys
    BY <1>2 DEF IInv, TypeOK, Types
  <2> QED
    BY <1>1, <2>1, <2>2 DEF IInv, TypeOK
<1>4. LayersOK' /\ NoInputAfterRemove' /\ QueueIsServed' /\ OneViewPortAtATime'
  BY <1>1 DEF IInv, LayersOK, NoInputAfterRemove, Added, QueueIsServed, OneViewPortAtATime
<1>5. TurnsInv'
  <2> SUFFICES ASSUME injects = 0
               PROVE  /\ \A i \in DOMAIN queue', kk \in Keys :
                           queue'[i] = <<"Press", kk>> => Up(queue', ongoing, kk, i)
                      /\ \A kk \in Keys \ down' : Up(queue', ongoing, kk, Len(queue') + 1)
    BY <1>1 DEF TurnsInv
  <2>1. /\ \A i \in DOMAIN queue, kk \in Keys : queue[i] = <<"Press", kk>> => Up(queue, ongoing, kk, i)
        /\ \A kk \in Keys \ down : Up(queue, ongoing, kk, Len(queue) + 1)
    BY DEF IInv, TurnsInv
  <2>2. /\ DOMAIN queue = 1..Len(queue) /\ DOMAIN queue' = 1..Len(queue) + 1
        /\ Len(queue) \in Nat /\ Len(queue') = Len(queue) + 1
        /\ queue'[Len(queue) + 1] = e /\ \A i \in 1..Len(queue) : queue'[i] = queue[i]
    BY <1>1
  <2> HIDE DEF e
  <2>3. \A kk \in Keys \ down : Up(queue', ongoing, kk, Len(queue) + 1)
    <3>1. Len(queue) + 1 \in 1..Len(queue) + 1
      BY <2>2
    <3> QED
      BY <1>1, <2>1, <3>1, UpAppend
  <2>4. ASSUME NEW i \in DOMAIN queue', NEW kk \in Keys, queue'[i] = <<"Press", kk>>
        PROVE  Up(queue', ongoing, kk, i)
    <3>1. CASE i \in 1..Len(queue)
      <4>1. Up(queue, ongoing, kk, i) /\ i \in 1..Len(queue) + 1
        BY <2>1, <2>2, <2>4, <3>1
      <4> QED
        BY <1>1, <4>1, UpAppend
    <3>2. CASE i = Len(queue) + 1
      <4>1. kk \notin down
        BY <1>2, <2>2, <2>4, <3>2 DEF e
      <4> QED
        BY <2>3, <3>2, <4>1
    <3> QED
      BY <2>2, <3>1, <3>2
  <2>5. ASSUME NEW kk \in Keys \ down' PROVE Up(queue', ongoing, kk, Len(queue') + 1)
    <3>1. CASE type = "Release" /\ kk = k
      <4>1. queue'[Len(queue) + 1] = <<"Release", kk>>
        BY <2>2, <3>1 DEF e
      <4>2. /\ Len(queue) + 1 \in 1..((Len(queue') + 1) - 1)
            /\ \A m \in (Len(queue) + 1) + 1..((Len(queue') + 1) - 1) : FALSE
        BY <2>2
      <4> QED
        BY <4>1, <4>2 DEF Up
    <3>2. CASE ~(type = "Release" /\ kk = k)
      <4>1. kk \notin down /\ e # <<"Press", kk>>
        BY <1>2, <2>5, <3>2 DEF Types, e
      <4>2. Len(queue) + 1 \in Nat \ {0}
        BY <2>2
      <4>3. Up(queue', ongoing, kk, Len(queue) + 1) /\ queue'[Len(queue) + 1] # <<"Press", kk>>
        BY <2>2, <2>3, <4>1
      <4> QED
        BY <2>2, <4>2, <4>3, UpNext
    <3> QED
      BY <3>1, <3>2
  <2> QED
    BY <2>4, <2>5
<1> QED
  BY <1>3, <1>4, <1>5 DEF IInv

LEMMA InjectStep ==
  ASSUME IInv, GuiAssumption, NEW type \in Types, NEW k \in Keys, Inject(type, k)
  PROVE  IInv'
<1>1. /\ queue \in Seq(Events) /\ Len(queue) < QueueSize /\ <<type, k>> \in Events
      /\ queue' = Append(queue, <<type, k>>) /\ signal' = TRUE
      /\ injects' = injects + 1 /\ injects < MaxInjects /\ injects \in Nat
      /\ UNCHANGED <<down, flag, gpc, layers, enabled, vertical, lockdown, ops, ongoing, ongoingPort, held, open>>
  BY DEF IInv, TypeOK, Inject, Put, HasRoom, Events, ports, given
<1>2. TypeOK'
  <2>1. queue' \in Seq(Events) /\ Len(queue') <= QueueSize
    BY <1>1 DEF GuiAssumption
  <2>2. injects' \in 0..MaxInjects
    BY <1>1 DEF GuiAssumption
  <2> QED
    BY <1>1, <2>1, <2>2 DEF IInv, TypeOK
<1>3. LayersOK' /\ NoInputAfterRemove' /\ QueueIsServed'
  BY <1>1 DEF IInv, LayersOK, NoInputAfterRemove, Added, QueueIsServed
<1>4. TurnsInv' /\ OneViewPortAtATime'
  <2>1. injects' # 0
    BY <1>1
  <2> QED
    BY <2>1 DEF TurnsInv, OneViewPortAtATime
<1> QED
  BY <1>2, <1>3, <1>4 DEF IInv

(* The flag, and the thread that waits for it.                             *)
LEMMA WakeStep ==
  ASSUME IInv, Signal \/ Woken \/ Drained
  PROVE  IInv'
<1>1. /\ UNCHANGED <<down, injects, queue, layers, enabled, vertical, lockdown, ops, ongoing, ongoingPort, held, open>>
      /\ signal' \in BOOLEAN /\ flag' \in BOOLEAN /\ gpc' \in {"wait", "drain"}
  BY DEF Signal, Woken, Drained, source, ports, given, IInv, TypeOK
<1>2. TypeOK'
  BY <1>1 DEF IInv, TypeOK
<1>3. LayersOK' /\ NoInputAfterRemove' /\ TurnsInv' /\ OneViewPortAtATime'
  BY <1>1 DEF IInv, LayersOK, NoInputAfterRemove, Added, TurnsInv, OneViewPortAtATime
<1>4. QueueIsServed'
  BY DEF Signal, Woken, Drained, source, IInv, TypeOK, QueueIsServed
<1> QED
  BY <1>2, <1>3, <1>4 DEF IInv

(***************************************************************************)
(* gui_input                                                               *)
(***************************************************************************)
(* What becomes of the event at the head.                                  *)
LEMMA InputIs ==
  ASSUME IInv, GuiAssumption, Input,
         NEW type, NEW k, type = Head(queue)[1], k = Head(queue)[2]
  PROVE  /\ queue \in Seq(Events) /\ queue # <<>> /\ queue' = Tail(queue) /\ gpc = "drain"
         /\ type \in Types /\ k \in Keys /\ Head(queue) = <<type, k>>
         /\ UNCHANGED <<source, flag, gpc, ports>>
         /\ ongoing' = OngoingAfter(type, k)
         /\ ongoingPort' \in {ongoingPort, Front}
         /\ type # "Press" \/ ~(ongoing \subseteq {k}) => ongoingPort' = ongoingPort
         /\ \/ UNCHANGED given /\ (type = "Release" => ongoingPort' = NULL)
            \/ /\ ongoingPort' \in ViewPorts
               /\ type = "Press" => ongoingPort' = Front
               /\ Give(ongoingPort', type, k)
<1> DEFINE v == Chosen(type, k)
<1>1. /\ queue \in Seq(Events) /\ queue # <<>> /\ queue' = Tail(queue) /\ gpc = "drain"
      /\ UNCHANGED <<source, flag, gpc, ports>>
      /\ ongoing' = OngoingAfter(type, k)
      /\ IF type = "Tap" /\ k \notin ongoing
           THEN UNCHANGED <<ongoingPort, given>>
           ELSE /\ ongoingPort' = v
                /\ IF Receives(v, type) THEN Give(v, type, k) ELSE UNCHANGED given
  BY DEF IInv, TypeOK, Input
<1>2. Head(queue) \in Events
  BY <1>1
<1>3. type \in Types /\ k \in Keys /\ Head(queue) = <<type, k>>
  BY <1>2 DEF Events
<1>4. v \in {ongoingPort, Front} /\ (type # "Press" \/ ~(ongoing \subseteq {k}) => v = ongoingPort)
  BY DEF Chosen
<1>5. v # NULL => v \in ViewPorts
  BY <1>4, FrontIs DEF IInv, TypeOK
<1> HIDE DEF v
<1>6. \/ UNCHANGED given /\ (type = "Release" => ongoingPort' = NULL)
      \/ /\ ongoingPort' \in ViewPorts
         /\ type = "Press" => ongoingPort' = Front
         /\ Give(ongoingPort', type, k)
  BY <1>1, <1>5 DEF Receives, given
<1> QED
  BY <1>1, <1>3, <1>4, <1>6

(* What the callback of view port v is given, and what it makes of it.     *)
LEMMA GivenIs ==
  ASSUME NEW v, NEW type \in Types, NEW k, Give(v, type, k)
  PROVE  /\ held' = [held EXCEPT ![v] = IF type = "Press" THEN @ \cup {k}
                                        ELSE IF type = "Release" THEN @ \ {k} ELSE @]
         /\ LET n == NameOf(k, v \in vertical) IN
              open' = [open EXCEPT ![v] = IF type = "Press" THEN @ \cup {n}
                                          ELSE IF type = "Release" THEN @ \ {n} ELSE @]
<1>1. CASE type = "Press"
  BY <1>1 DEF Give, HeldAfter
<1>2. CASE type = "Release"
  BY <1>2 DEF Give, HeldAfter
<1>3. CASE type = "Tap"
  BY <1>3 DEF Give, HeldAfter
<1> QED
  BY <1>1, <1>2, <1>3 DEF Types

(* A vertical view port tells the keys apart as well as another one does.  *)
LEMMA NameIs ==
  \A o : \A k \in InputKeys :
    /\ NameOf(k, o) \in InputKeys
    /\ \A j \in InputKeys : NameOf(j, o) = NameOf(k, o) => j = k
    /\ k \notin Arrows => NameOf(k, o) = k
  BY DEF NameOf, InputKeys, Rotated, Arrows

(* The names of the keys that are held after an event.                     *)
LEMMA NamesAfter ==
  ASSUME NEW keys \in SUBSET InputKeys, NEW k \in InputKeys, NEW o
  PROVE  /\ NamesOf(keys \cup {k}, o) = NamesOf(keys, o) \cup {NameOf(k, o)}
         /\ NamesOf(keys \ {k}, o) = NamesOf(keys, o) \ {NameOf(k, o)}
<1>1. \A j \in keys : NameOf(j, o) = NameOf(k, o) => j = k
  BY NameIs
<1> QED
  BY <1>1 DEF NamesOf

LEMMA GivenTyped ==
  ASSUME IInv, GuiAssumption, NEW v \in ViewPorts, NEW type \in Types, NEW k \in Keys,
         Give(v, type, k)
  PROVE  held' \in [ViewPorts -> SUBSET Keys] /\ open' \in [ViewPorts -> SUBSET InputKeys]
<1> DEFINE n == NameOf(k, v \in vertical)
<1>1. k \in InputKeys /\ n \in InputKeys
  BY NameIs DEF GuiAssumption
<1>2. /\ held' = [held EXCEPT ![v] = IF type = "Press" THEN @ \cup {k}
                                     ELSE IF type = "Release" THEN @ \ {k} ELSE @]
      /\ open' = [open EXCEPT ![v] = IF type = "Press" THEN @ \cup {n}
                                     ELSE IF type = "Release" THEN @ \ {n} ELSE @]
  BY GivenIs
<1> QED
  BY <1>1, <1>2 DEF IInv, TypeOK

LEMMA InputStep == ASSUME IInv, GuiAssumption, Input PROVE IInv'
<1> DEFINE type == Head(queue)[1]
           k == Head(queue)[2]
<1>1. /\ queue \in Seq(Events) /\ queue # <<>> /\ queue' = Tail(queue) /\ gpc = "drain"
      /\ type \in Types /\ k \in Keys /\ Head(queue) = <<type, k>>
      /\ UNCHANGED <<down, signal, injects, flag, gpc, layers, enabled, vertical, lockdown, ops>>
      /\ ongoing' = HeldAfter(ongoing, type, k)
      /\ ongoingPort' \in {ongoingPort, Front}
      /\ type # "Press" \/ ~(ongoing \subseteq {k}) => ongoingPort' = ongoingPort
      /\ \/ UNCHANGED <<held, open>> /\ (type = "Release" => ongoingPort' = NULL)
         \/ ongoingPort' \in ViewPorts /\ Give(ongoingPort', type, k)
  BY InputIs DEF source, ports, given, OngoingAfter
<1> HIDE DEF type, k
<1>2. /\ type = "Press" => ongoing' = ongoing \cup {k}
      /\ type = "Release" => ongoing' = ongoing \ {k}
      /\ type = "Tap" => ongoing' = ongoing
  BY <1>1 DEF HeldAfter
<1>3. \/ UNCHANGED held /\ (type = "Release" => ongoingPort' = NULL)
      \/ /\ ongoingPort' \in ViewPorts
         /\ held' = [held EXCEPT ![ongoingPort'] =
                       IF type = "Press" THEN @ \cup {k}
                       ELSE IF type = "Release" THEN @ \ {k} ELSE @]
  BY <1>1, GivenIs
<1>4. TypeOK'
  <2>1. queue' \in Seq(Events) /\ Len(queue') <= QueueSize
    BY <1>1 DEF IInv, TypeOK, GuiAssumption
  <2>2. ongoing' \subseteq Keys
    BY <1>1, <1>2 DEF IInv, TypeOK, Types
  <2>3. ongoingPort' \in ViewPorts \cup {NULL}
    BY <1>1, FrontIs DEF IInv, TypeOK
  <2>4. held' \in [ViewPorts -> SUBSET Keys] /\ open' \in [ViewPorts -> SUBSET InputKeys]
    BY <1>1, GivenTyped DEF IInv, TypeOK
  <2> QED
    BY <1>1, <2>1, <2>2, <2>3, <2>4 DEF IInv, TypeOK
<1>5. LayersOK' /\ QueueIsServed'
  BY <1>1 DEF IInv, LayersOK, QueueIsServed
<1>6. NoInputAfterRemove'
  <2>1. Added' = Added
    BY <1>1 DEF Added
  <2> QED
    BY <1>1, <2>1, FrontIs DEF IInv, NoInputAfterRemove
<1>7. TurnsInv'
  <2> SUFFICES ASSUME injects = 0
               PROVE  /\ \A i \in DOMAIN queue', kk \in Keys :
                           queue'[i] = <<"Press", kk>> => Up(queue', ongoing', kk, i)
                      /\ \A kk \in Keys \ down : Up(queue', ongoing', kk, Len(queue') + 1)
    BY <1>1 DEF TurnsInv
  <2>1. /\ \A i \in DOMAIN queue, kk \in Keys : queue[i] = <<"Press", kk>> => Up(queue, ongoing, kk, i)
        /\ \A kk \in Keys \ down : Up(queue, ongoing, kk, Len(queue) + 1)
    BY DEF IInv, TurnsInv
  <2>2. /\ Len(queue) \in Nat \ {0} /\ Len(queue') = Len(queue) - 1
        /\ DOMAIN queue = 1..Len(queue) /\ DOMAIN queue' = 1..Len(queue) - 1
        /\ \A i \in 1..Len(queue) - 1 : queue'[i] = queue[i + 1]
    BY <1>1
  <2>3. \A kk \in Keys : /\ Head(queue) = <<"Release", kk>> => kk \notin ongoing'
                         /\ Head(queue) # <<"Press", kk>> /\ kk \notin ongoing => kk \notin ongoing'
    BY <1>1, <1>2 DEF Types
  <2>4. \A i \in 1..Len(queue), kk \in Keys :
           Up(queue, ongoing, kk, i + 1) => Up(queue', ongoing', kk, i)
    BY <1>1, <2>3, UpTail
  <2>5. \A i \in DOMAIN queue' : i \in 1..Len(queue) /\ i + 1 \in DOMAIN queue /\ queue'[i] = queue[i + 1]
    BY <2>2
  <2>6. Len(queue) \in 1..Len(queue) /\ Len(queue') + 1 = Len(queue)
    BY <2>2
  <2> QED
    BY <2>1, <2>4, <2>5, <2>6
<1>8. OneViewPortAtATime'
  <2> SUFFICES ASSUME injects = 0, NEW u \in ViewPorts, held'[u] # {}
               PROVE  u = ongoingPort' /\ held'[u] \subseteq ongoing'
    BY <1>1 DEF OneViewPortAtATime
  <2>1. \A x \in ViewPorts : held[x] # {} => x = ongoingPort /\ held[x] \subseteq ongoing
    BY DEF IInv, OneViewPortAtATime
  <2>2. type = "Press" => k \notin ongoing
    <3>1. 1 \in DOMAIN queue /\ queue[1] = <<type, k>>
      BY <1>1
    <3>2. type = "Press" => Up(queue, ongoing, k, 1)
      BY <1>1, <3>1 DEF IInv, TurnsInv
    <3> QED
      BY <3>2 DEF Up
  <2>3. NULL \notin ViewPorts /\ held \in [ViewPorts -> SUBSET Keys]
    BY DEF GuiAssumption, IInv, TypeOK
  <2>4. CASE type = "Press"
    <3>1. CASE ongoing \subseteq {k}
      <4>1. \A x \in ViewPorts : held[x] = {}
        BY <2>1, <2>2, <2>4, <3>1
      <4>2. u = ongoingPort' /\ held'[u] = {k}
        BY <1>3, <2>3, <2>4, <4>1
      <4> QED
        BY <1>2, <2>4, <4>2
    <3>2. CASE ~(ongoing \subseteq {k})
      <4>1. ongoingPort' = ongoingPort
        BY <1>1, <3>2
      <4>2. u = ongoingPort /\ held'[u] \subseteq held[u] \cup {k}
        BY <1>3, <2>1, <2>3, <2>4, <4>1
      <4> QED
        BY <1>2, <2>1, <2>4, <4>1, <4>2
    <3> QED
      BY <3>1, <3>2
  <2>5. CASE type = "Release"
    <3>1. ongoingPort' = ongoingPort
      BY <1>1, <2>5
    <3>2. CASE ongoingPort' = NULL
      BY <1>3, <2>1, <2>3, <3>1, <3>2
    <3>3. CASE ongoingPort' # NULL
      <4>1. held' = [held EXCEPT ![ongoingPort] = @ \ {k}] /\ ongoingPort \in ViewPorts
        BY <1>3, <2>5, <3>1, <3>3
      <4>2. u = ongoingPort
        BY <2>1, <2>3, <4>1
      <4>3. held'[u] = held[u] \ {k}
        BY <2>3, <4>1, <4>2
      <4> QED
        BY <1>2, <2>1, <2>5, <3>1, <4>2, <4>3
    <3> QED
      BY <3>2, <3>3
  <2>6. CASE type = "Tap"
    <3>1. held' = held /\ ongoingPort' = ongoingPort /\ ongoing' = ongoing
      BY <1>1, <1>2, <1>3, <2>3, <2>6
    <3> QED
      BY <2>1, <3>1
  <2> QED
    BY <1>1, <2>4, <2>5, <2>6 DEF Types
<1> QED
  BY <1>4, <1>5, <1>6, <1>7, <1>8 DEF IInv

(***************************************************************************)
(* Operations on view ports                                                *)
(***************************************************************************)
LEMMA OperationKeeps ==
  ASSUME IInv, GuiAssumption, Operation
  PROVE  /\ UNCHANGED <<down, signal, injects, queue, flag, gpc, ongoing>>
         /\ ops' \in 0..MaxOps /\ TurnsInv' /\ QueueIsServed'
<1>1. UNCHANGED <<down, signal, injects, queue, flag, gpc, ongoing>>
  BY DEF Operation, source
<1>2. ops' \in 0..MaxOps
  BY DEF Operation, IInv, TypeOK, GuiAssumption
<1> QED
  BY <1>1, <1>2 DEF IInv, TurnsInv, QueueIsServed

(* The layer of v gets a new list l.                                       *)
LEMMA LayerChanges ==
  ASSUME IInv, NEW v \in ViewPorts, NEW l \in Seq(ViewPorts),
         layers' = [layers EXCEPT ![LayerOf(v)] = l],
         \A u \in ViewPorts : Has(l, u) => u = v \/ Has(layers[LayerOf(v)], u)
  PROVE  /\ layers' \in [Layers -> Seq(ViewPorts)] /\ LayersOK'
         /\ \A u \in ViewPorts \ {v} :
              u \in Added /\ (Has(layers[LayerOf(v)], u) => Has(l, u)) => u \in Added'
         /\ Has(l, v) => v \in Added'
<1>1. LayerOf(v) \in Layers /\ layers \in [Layers -> Seq(ViewPorts)]
  BY LayerIs DEF IInv, TypeOK
<1>2. layers'[LayerOf(v)] = l /\ \A x \in Layers \ {LayerOf(v)} : layers'[x] = layers[x]
  BY <1>1
<1>3. layers' \in [Layers -> Seq(ViewPorts)]
  BY <1>1
<1>4. LayersOK'
  BY <1>1, <1>2 DEF IInv, LayersOK
<1>5. \A u \in ViewPorts : Has(layers'[LayerOf(u)], u) => u \in Added'
  BY LayerIs DEF Added, Has
<1>6. \A u \in ViewPorts : u \in Added => Has(layers[LayerOf(u)], u)
  BY AddedIs DEF IInv
<1> QED
  BY <1>2, <1>3, <1>4, <1>5, <1>6, LayerIs

LEMMA AddStep == ASSUME IInv, GuiAssumption, NEW v \in ViewPorts, AddViewPort(v) PROVE IInv'
<1> DEFINE old == layers[LayerOf(v)]
           l == Append(old, v)
<1>1. /\ Operation /\ UNCHANGED <<enabled, vertical, lockdown, ongoingPort, held, open>>
      /\ layers' = [layers EXCEPT ![LayerOf(v)] = l]
  BY DEF AddViewPort, given
<1>2. old \in Seq(ViewPorts)
  BY LayerIs, LayerTyped DEF IInv
<1> HIDE DEF old
<1>3. /\ l \in Seq(ViewPorts) /\ DOMAIN l = 1..Len(old) + 1
      /\ \A i \in DOMAIN l : (i \in DOMAIN old /\ l[i] = old[i]) \/ (i = Len(old) + 1 /\ l[i] = v)
      /\ \A i \in DOMAIN old : i \in DOMAIN l /\ l[i] = old[i]
  BY <1>2
<1> HIDE DEF l
<1>4. \A u \in ViewPorts : (Has(l, u) => u = v \/ Has(old, u)) /\ (Has(old, u) => Has(l, u))
  BY <1>3 DEF Has
<1>5. /\ layers' \in [Layers -> Seq(ViewPorts)] /\ LayersOK'
      /\ \A u \in ViewPorts \ {v} : u \in Added => u \in Added'
  BY <1>1, <1>3, <1>4, LayerChanges DEF old
<1>6. v \notin Added
  BY DEF AddViewPort
<1>7. /\ UNCHANGED <<down, signal, injects, queue, flag, gpc, ongoing>>
      /\ ops' \in 0..MaxOps /\ TurnsInv' /\ QueueIsServed'
  BY <1>1, OperationKeeps
<1>8. TypeOK' /\ OneViewPortAtATime'
  BY <1>1, <1>5, <1>7 DEF IInv, TypeOK, OneViewPortAtATime
<1>9. NoInputAfterRemove'
  BY <1>1, <1>5, <1>6 DEF IInv, NoInputAfterRemove, TypeOK
<1> QED
  BY <1>5, <1>7, <1>8, <1>9 DEF IInv

LEMMA RemoveStep == ASSUME IInv, GuiAssumption, NEW v \in ViewPorts, RemoveViewPort(v) PROVE IInv'
<1>1. /\ Operation /\ v \in Added /\ UNCHANGED <<enabled, vertical, lockdown>>
      /\ layers' = [layers EXCEPT ![LayerOf(v)] = Without(v)]
      /\ ongoingPort' = IF ongoingPort = v THEN NULL ELSE ongoingPort
      /\ held' = [held EXCEPT ![v] = {}] /\ open' = [open EXCEPT ![v] = {}]
  BY DEF RemoveViewPort, Forgotten
<1>2. /\ Without(v) \in Seq(ViewPorts)
      /\ \A u \in ViewPorts : Has(Without(v), u) => Has(layers[LayerOf(v)], u)
      /\ \A u \in ViewPorts \ {v} : Has(layers[LayerOf(v)], u) => Has(Without(v), u)
  BY <1>1, WithoutIs DEF IInv
<1>3. /\ layers' \in [Layers -> Seq(ViewPorts)] /\ LayersOK'
      /\ \A u \in ViewPorts \ {v} : u \in Added => u \in Added'
  BY <1>1, <1>2, LayerChanges
<1>4. /\ UNCHANGED <<down, signal, injects, queue, flag, gpc, ongoing>>
      /\ ops' \in 0..MaxOps /\ TurnsInv' /\ QueueIsServed'
  BY <1>1, OperationKeeps
<1>5. TypeOK'
  BY <1>1, <1>3, <1>4 DEF IInv, TypeOK
<1>6. NoInputAfterRemove'
  BY <1>1, <1>3 DEF IInv, NoInputAfterRemove, TypeOK
<1>7. OneViewPortAtATime'
  <2> SUFFICES ASSUME injects = 0, NEW u \in ViewPorts, held'[u] # {}
               PROVE  u = ongoingPort' /\ held'[u] \subseteq ongoing'
    BY <1>4 DEF OneViewPortAtATime
  <2>1. u # v /\ held'[u] = held[u]
    BY <1>1 DEF IInv, TypeOK
  <2> QED
    BY <1>1, <1>4, <2>1 DEF IInv, OneViewPortAtATime
<1> QED
  BY <1>3, <1>4, <1>5, <1>6, <1>7 DEF IInv

LEMMA SendStep ==
  ASSUME IInv, GuiAssumption, NEW v \in ViewPorts, SendToFront(v) \/ SendToBack(v)
  PROVE  IInv'
<1> DEFINE w == Without(v)
<1>1. Operation /\ v \in Added /\ UNCHANGED <<enabled, vertical, lockdown, ongoingPort, held, open>>
  BY DEF SendToFront, SendToBack, given
<1>2. PICK l \in {Append(w, v), <<v>> \o w} : layers' = [layers EXCEPT ![LayerOf(v)] = l]
  BY DEF SendToFront, SendToBack
<1>3. /\ w \in Seq(ViewPorts)
      /\ \A u \in ViewPorts : Has(w, u) => Has(layers[LayerOf(v)], u)
      /\ \A u \in ViewPorts \ {v} : Has(layers[LayerOf(v)], u) => Has(w, u)
  BY <1>1, WithoutIs DEF IInv
<1> HIDE DEF w
<1>4. l \in Seq(ViewPorts) /\ Has(l, v) /\ \A u \in ViewPorts \ {v} : Has(l, u) <=> Has(w, u)
  <2>1. Len(w) \in Nat /\ DOMAIN w = 1..Len(w)
    BY <1>3
  <2>2. CASE l = Append(w, v)
    <3>1. /\ l \in Seq(ViewPorts) /\ DOMAIN l = 1..Len(w) + 1 /\ l[Len(w) + 1] = v
          /\ \A i \in 1..Len(w) : l[i] = w[i]
      BY <1>3, <2>2
    <3>2. Len(w) + 1 \in DOMAIN l /\ \A i \in DOMAIN l : i \in DOMAIN w \/ i = Len(w) + 1
      BY <2>1, <3>1
    <3>3. \A i \in DOMAIN w : i \in DOMAIN l
      BY <2>1, <3>1
    <3> QED
      BY <2>1, <3>1, <3>2, <3>3 DEF Has
  <2>3. CASE l = <<v>> \o w
    <3>1. <<v>> \in Seq(ViewPorts) /\ Len(<<v>>) = 1
      OBVIOUS
    <3>2. l \in Seq(ViewPorts) /\ Len(l) = Len(w) + 1
      BY <1>3, <2>1, <2>3, <3>1
    <3>3. l[1] = v /\ DOMAIN l = 1..Len(w) + 1
      BY <1>3, <2>1, <2>3, <3>1, <3>2
    <3>4. \A i \in 1..Len(w) : l[i + 1] = w[i] /\ i + 1 \in DOMAIN l
      BY <1>3, <2>1, <2>3, <3>1, <3>3
    <3>5. \A i \in DOMAIN l : i = 1 \/ (i - 1 \in 1..Len(w) /\ (i - 1) + 1 = i)
      BY <2>1, <3>3
    <3>6. Has(l, v)
      BY <2>1, <3>3 DEF Has
    <3>7. ASSUME NEW u \in ViewPorts \ {v}, Has(w, u) PROVE Has(l, u)
      BY <2>1, <3>4, <3>7 DEF Has
    <3>8. ASSUME NEW u \in ViewPorts \ {v}, Has(l, u) PROVE Has(w, u)
      BY <2>1, <3>3, <3>4, <3>5, <3>8 DEF Has
    <3> QED
      BY <3>2, <3>6, <3>7, <3>8
  <2> QED
    BY <2>2, <2>3
<1>5. \A u \in ViewPorts : Has(l, u) => u = v \/ Has(layers[LayerOf(v)], u)
  BY <1>3, <1>4
<1>6. /\ layers' \in [Layers -> Seq(ViewPorts)] /\ LayersOK'
      /\ \A u \in ViewPorts : u \in Added => u \in Added'
  BY <1>2, <1>3, <1>4, <1>5, LayerChanges
<1>7. /\ UNCHANGED <<down, signal, injects, queue, flag, gpc, ongoing>>
      /\ ops' \in 0..MaxOps /\ TurnsInv' /\ QueueIsServed'
  BY <1>1, OperationKeeps
<1>8. TypeOK' /\ OneViewPortAtATime'
  BY <1>1, <1>6, <1>7 DEF IInv, TypeOK, OneViewPortAtATime
<1>9. NoInputAfterRemove'
  BY <1>1, <1>6 DEF IInv, NoInputAfterRemove, TypeOK
<1> QED
  BY <1>6, <1>7, <1>8, <1>9 DEF IInv

(* is_enabled, the orientation and the lockdown.                           *)
LEMMA SetStep ==
  ASSUME IInv, GuiAssumption,
         SetLockdown \/ \E v \in ViewPorts : EnabledSet(v) \/ OrientationSet(v)
  PROVE  IInv'
<1>1. /\ Operation /\ UNCHANGED <<layers, ongoingPort, held, open>>
      /\ enabled' \subseteq ViewPorts /\ lockdown' \in BOOLEAN /\ vertical' \subseteq FullPorts
  BY DEF SetLockdown, EnabledSet, OrientationSet, given, IInv, TypeOK
<1>2. /\ UNCHANGED <<down, signal, injects, queue, flag, gpc, ongoing>>
      /\ ops' \in 0..MaxOps /\ TurnsInv' /\ QueueIsServed'
  BY <1>1, OperationKeeps
<1>3. TypeOK'
  BY <1>1, <1>2 DEF IInv, TypeOK
<1>4. LayersOK' /\ NoInputAfterRemove' /\ OneViewPortAtATime'
  BY <1>1, <1>2 DEF IInv, LayersOK, NoInputAfterRemove, Added, OneViewPortAtATime
<1> QED
  BY <1>2, <1>3, <1>4 DEF IInv

(***************************************************************************)
(* The theorems                                                            *)
(***************************************************************************)
LEMMA InitHolds == ASSUME Init, GuiAssumption PROVE IInv
<1>1. TypeOK
  <2>1. queue \in Seq(Events) /\ Len(queue) <= QueueSize
    BY DEF Init, GuiAssumption
  <2>2. layers \in [Layers -> Seq(ViewPorts)]
    BY DEF Init
  <2>3. ops \in 0..MaxOps /\ injects \in 0..MaxInjects
    BY DEF Init, GuiAssumption
  <2> QED
    BY <2>1, <2>2, <2>3 DEF Init, TypeOK
<1>2. LayersOK
  BY DEF Init, LayersOK, Has
<1>3. NoInputAfterRemove /\ QueueIsServed /\ OneViewPortAtATime
  BY DEF Init, NoInputAfterRemove, QueueIsServed, OneViewPortAtATime
<1>4. TurnsInv
  <2>1. DOMAIN queue = {} /\ Len(queue) = 0
    BY DEF Init
  <2>2. \A k : Up(queue, ongoing, k, 0 + 1)
    BY DEF Up, Init
  <2> QED
    BY <2>1, <2>2 DEF TurnsInv
<1> QED
  BY <1>1, <1>2, <1>3, <1>4 DEF IInv

LEMMA NextKeeps == ASSUME IInv, GuiAssumption, [Next]_vars PROVE IInv'
<1>1. CASE UNCHANGED vars
  BY <1>1 DEF vars, source, ports, given, IInv, TypeOK, LayersOK, NoInputAfterRemove, Added,
     QueueIsServed, TurnsInv, OneViewPortAtATime
<1>2. CASE \E type \in Types, k \in Keys : Publish(type, k) \/ Inject(type, k)
  BY <1>2, PublishStep, InjectStep
<1>3. CASE GuiStep
  BY <1>3, WakeStep, InputStep DEF GuiStep
<1>4. CASE PortStep
  BY <1>4, AddStep, RemoveStep, SendStep, SetStep DEF PortStep
<1> QED
  BY <1>1, <1>2, <1>3, <1>4 DEF Next

\* The inductive invariant of the routing: Press and Release of a key take turns
\* in the queue, the layers have their own view ports, and what the run checks.
THEOREM GuiInvariant == Spec => []IInv
<1>1. Init => IInv
  BY InitHolds, GuiAssumption
<1>2. IInv /\ [Next]_vars => IInv'
  BY NextKeeps, GuiAssumption
<1> QED
  BY <1>1, <1>2, PTL DEF Spec

\* Types: among them, the queue never has more events than it has room for.
THEOREM GuiTypeOK == Spec => []TypeOK
<1>1. IInv => TypeOK
  BY DEF IInv
<1> QED
  BY <1>1, GuiInvariant, PTL

\* The view port that gets the ongoing input is one of the GUI's.
THEOREM GuiNoInputAfterRemove == Spec => []NoInputAfterRemove
<1>1. IInv => NoInputAfterRemove
  BY DEF IInv
<1> QED
  BY <1>1, GuiInvariant, PTL

\* Without injected events, input is never split between view ports: the keys that
\* a view port holds, as they were published, are the ongoing ones.
THEOREM GuiOneViewPortAtATime == Spec => []OneViewPortAtATime
<1>1. IInv => OneViewPortAtATime
  BY DEF IInv
<1> QED
  BY <1>1, GuiInvariant, PTL

\* Whoever gets a Press does not hold that key already, whatever came in front or was
\* removed meanwhile, nor another by the same name, unless it was turned meanwhile.
THEOREM GuiPressInTurn == Spec => []PressInTurn
<1>1. IInv => PressInTurn
  <2> DEFINE type == Head(queue)[1]
             k == Head(queue)[2]
             v == Chosen(type, k)
  <2> SUFFICES ASSUME IInv, injects = 0, gpc = "drain", queue # <<>>, type = "Press", Receives(v, type)
               PROVE  k \notin held[v] /\ (NamesHold(v) => NameOf(k, v \in vertical) \notin open[v])
    BY DEF PressInTurn
  <2>1. /\ queue \in Seq(Events) /\ Head(queue) \in Events /\ Head(queue) = queue[1]
        /\ 1 \in DOMAIN queue
    BY DEF IInv, TypeOK
  <2>2. queue[1] = <<"Press", k>> /\ k \in Keys
    BY <2>1 DEF Events
  <2>3. Up(queue, ongoing, k, 1)
    BY <2>1, <2>2 DEF IInv, TurnsInv
  <2>4. k \notin ongoing
    BY <2>3 DEF Up
  <2>5. v \in ViewPorts
    <3>1. v \in {ongoingPort, Front} /\ v # NULL
      BY DEF Chosen, Receives
    <3> QED
      BY <3>1, FrontIs DEF IInv, TypeOK
  <2> HIDE DEF v, k
  <2>6. k \notin held[v] /\ held[v] \subseteq Keys
    BY <2>4, <2>5 DEF IInv, OneViewPortAtATime, TypeOK
  <2>7. ASSUME NamesHold(v) PROVE NameOf(k, v \in vertical) \notin open[v]
    <3>1. k \in InputKeys /\ held[v] \subseteq InputKeys
      BY <2>2, <2>6, GuiAssumption DEF GuiAssumption
    <3>2. \A j \in held[v] : NameOf(j, v \in vertical) # NameOf(k, v \in vertical)
      BY <2>6, <3>1, NameIs
    <3> QED
      BY <2>7, <3>2 DEF NamesHold, NamesOf
  <2> QED
    BY <2>6, <2>7
<1> QED
  BY <1>1, GuiInvariant, PTL

\* The core of PressIsReleased: a key that a view port holds is down, or its
\* Release waits in the queue, and that view port is the one to get it.
THEOREM GuiReleaseIsAwaited == Spec => []ReleaseIsAwaited
<1>1. IInv => ReleaseIsAwaited
  <2> SUFFICES ASSUME IInv, injects = 0, NEW v \in ViewPorts, NEW k \in held[v]
               PROVE  v = ongoingPort /\ (k \in down \/ \E i \in DOMAIN queue : queue[i] = <<"Release", k>>)
    BY DEF ReleaseIsAwaited
  <2>1. v = ongoingPort /\ k \in ongoing
    BY DEF IInv, OneViewPortAtATime
  <2>2. k \in Keys /\ queue \in Seq(Events) /\ DOMAIN queue = 1..Len(queue) /\ Len(queue) \in Nat
    BY DEF IInv, TypeOK
  <2>3. k \in down \/ Up(queue, ongoing, k, Len(queue) + 1)
    BY <2>2 DEF IInv, TurnsInv
  <2>4. (Len(queue) + 1) - 1 = Len(queue)
    BY <2>2
  <2> QED
    BY <2>1, <2>2, <2>3, <2>4 DEF Up
<1> QED
  BY <1>1, GuiInvariant, PTL

\* The callback of a view port knows the keys it holds by their names until the view
\* port is turned while it holds an arrow; no event, no removal and no other
\* operation confuses them, injected events included.
THEOREM GuiOnlyTurningConfuses == Spec => OnlyTurningConfuses
<1> DEFINE Turned(v) == held[v] \cap Arrows # {} /\ ~(v \in vertical <=> v \in vertical')
           Keeps == \A v \in ViewPorts : NamesHold(v) /\ ~NamesHold(v)' => Turned(v)
<1>1. ASSUME IInv, [Next]_vars PROVE [Keeps]_vars
  <2> SUFFICES ASSUME NEW v \in ViewPorts, NamesHold(v), ~Turned(v)
               PROVE  NamesHold(v)'
    OBVIOUS
  <2> DEFINE o == v \in vertical
  <2>1. /\ held \in [ViewPorts -> SUBSET Keys] /\ open \in [ViewPorts -> SUBSET InputKeys]
        /\ held[v] \subseteq InputKeys
    BY <1>1, GuiAssumption DEF IInv, TypeOK, GuiAssumption
  <2>2. CASE UNCHANGED <<held, open, vertical>>
    BY <2>2 DEF NamesHold, NamesOf
  <2>3. CASE Input
    <3> DEFINE type == Head(queue)[1]
               k == Head(queue)[2]
    <3>1. /\ type \in Types /\ k \in Keys /\ UNCHANGED ports
          /\ UNCHANGED given \/ (ongoingPort' \in ViewPorts /\ Give(ongoingPort', type, k))
      BY <1>1, <2>3, GuiAssumption, InputIs
    <3> HIDE DEF type, k
    <3>2. CASE UNCHANGED given
      BY <2>2, <3>1, <3>2 DEF ports, given
    <3>3. CASE ongoingPort' \in ViewPorts /\ Give(ongoingPort', type, k)
      <4> DEFINE u == ongoingPort'
                 n == NameOf(k, u \in vertical)
      <4>1. /\ held' = [held EXCEPT ![u] = IF type = "Press" THEN @ \cup {k}
                                           ELSE IF type = "Release" THEN @ \ {k} ELSE @]
            /\ open' = [open EXCEPT ![u] = IF type = "Press" THEN @ \cup {n}
                                           ELSE IF type = "Release" THEN @ \ {n} ELSE @]
        BY <3>1, <3>3, GivenIs
      <4>2. vertical' = vertical
        BY <3>1 DEF ports
      <4>3. CASE u # v
        <5>1. held'[v] = held[v] /\ open'[v] = open[v]
          BY <2>1, <4>1, <4>3
        <5> QED
          BY <4>2, <5>1 DEF NamesHold, NamesOf
      <4>4. CASE u = v
        <5>1. /\ held'[v] = IF type = "Press" THEN held[v] \cup {k}
                            ELSE IF type = "Release" THEN held[v] \ {k} ELSE held[v]
              /\ open'[v] = IF type = "Press" THEN open[v] \cup {NameOf(k, o)}
                            ELSE IF type = "Release" THEN open[v] \ {NameOf(k, o)} ELSE open[v]
          BY <2>1, <4>1, <4>4
        <5>2. k \in InputKeys /\ open[v] = NamesOf(held[v], o)
          BY <3>1, GuiAssumption DEF GuiAssumption, NamesHold
        <5> HIDE DEF o
        <5>3. /\ NamesOf(held[v] \cup {k}, o) = NamesOf(held[v], o) \cup {NameOf(k, o)}
              /\ NamesOf(held[v] \ {k}, o) = NamesOf(held[v], o) \ {NameOf(k, o)}
          <6>1. held[v] \in SUBSET InputKeys /\ k \in InputKeys
            BY <2>1, <5>2
          <6> QED
            BY <6>1, NamesAfter, Zenon
        <5>4. open'[v] = NamesOf(held'[v], o)
          BY <5>1, <5>2, <5>3
        <5> QED
          BY <4>2, <5>4 DEF NamesHold, o
      <4> QED
        BY <4>3, <4>4
    <3> QED
      BY <3>1, <3>2, <3>3
  <2>4. CASE \E u \in ViewPorts : RemoveViewPort(u)
    <3>1. PICK u \in ViewPorts : /\ held' = [held EXCEPT ![u] = {}] /\ open' = [open EXCEPT ![u] = {}]
                                /\ vertical' = vertical
      BY <2>4 DEF RemoveViewPort, Forgotten
    <3>2. \/ held'[v] = {} /\ open'[v] = {}
          \/ held'[v] = held[v] /\ open'[v] = open[v]
      BY <2>1, <3>1
    <3> QED
      BY <3>1, <3>2 DEF NamesHold, NamesOf
  <2>5. CASE \E u \in ViewPorts : OrientationSet(u)
    <3>1. UNCHANGED <<held, open>>
      BY <2>5 DEF OrientationSet, given
    <3>2. CASE held[v] \cap Arrows = {}
      <4>1. \A k \in held[v] : NameOf(k, v \in vertical) = k /\ NameOf(k, v \in vertical') = k
        BY <2>1, <3>2, NameIs
      <4>2. NamesOf(held[v], v \in vertical) = NamesOf(held[v], v \in vertical')
        BY <4>1 DEF NamesOf
      <4> QED
        BY <3>1, <4>2 DEF NamesHold
    <3>3. CASE v \in vertical <=> v \in vertical'
      <4>1. (v \in vertical) = (v \in vertical')
        BY <3>3
      <4> QED
        BY <3>1, <4>1 DEF NamesHold
    <3> QED
      BY <3>2, <3>3
  <2> QED
    BY <1>1, <2>2, <2>3, <2>4, <2>5 DEF Next, GuiStep, PortStep, Publish, Inject, Put, Signal, Woken,
       Drained, SetLockdown, AddViewPort, SendToFront, SendToBack, EnabledSet, vars, ports, given
<1>2. []IInv /\ [][Next]_vars => [][Keeps]_vars
  BY <1>1, PTL
<1> QED
  BY <1>2, GuiInvariant, PTL DEF Spec, OnlyTurningConfuses

\* No event sleeps in the queue.
THEOREM GuiQueueIsServed == Spec => []QueueIsServed
<1>1. IInv => QueueIsServed
  BY DEF IInv
<1> QED
  BY <1>1, GuiInvariant, PTL

\* While the screen is locked down, no application sees a key go down, also not
\* by an injected event.
THEOREM GuiLockdownShields == Spec => LockdownShields
<1> DEFINE Shields == lockdown => \A v \in FullPorts \cup WindowPorts : open'[v] \subseteq open[v]
<1>1. ASSUME IInv, [Next]_vars PROVE [Shields]_vars
  <2>1. CASE UNCHANGED open
    BY <2>1
  <2>2. CASE Input
    <3> SUFFICES ASSUME lockdown, NEW v \in FullPorts \cup WindowPorts
                 PROVE  open'[v] \subseteq open[v]
      OBVIOUS
    <3>1. v \in ViewPorts /\ LayerOf(v) # "Desktop"
      BY GuiAssumption DEF GuiAssumption, ViewPorts, LayerOf
    <3> DEFINE type == Head(queue)[1]
               k == Head(queue)[2]
    <3> DEFINE n == NameOf(k, ongoingPort' \in vertical)
    <3>2. \/ UNCHANGED open
          \/ /\ ongoingPort' \in ViewPorts
             /\ type = "Press" => ongoingPort' = Front
             /\ open' = [open EXCEPT ![ongoingPort'] =
                           IF type = "Press" THEN @ \cup {n}
                           ELSE IF type = "Release" THEN @ \ {n} ELSE @]
      <4>1. /\ type \in Types
            /\ \/ UNCHANGED given
               \/ /\ ongoingPort' \in ViewPorts
                  /\ type = "Press" => ongoingPort' = Front
                  /\ Give(ongoingPort', type, k)
        BY <1>1, <2>2, GuiAssumption, InputIs
      <4> HIDE DEF type, k
      <4> QED
        BY <4>1, GivenIs DEF given
    <3>3. Front \in ViewPorts => LayerOf(Front) = "Desktop"
      <4>1. NULL \notin ViewPorts
        BY GuiAssumption DEF GuiAssumption
      <4> QED
        BY <1>1, <4>1, FrontIs DEF IInv
    <3> HIDE DEF type, k, n
    <3>4. open \in [ViewPorts -> SUBSET InputKeys]
      BY <1>1 DEF IInv, TypeOK
    <3>5. CASE v = ongoingPort'
      BY <3>1, <3>2, <3>3, <3>4, <3>5
    <3>6. CASE v # ongoingPort'
      BY <3>1, <3>2, <3>4, <3>6
    <3> QED
      BY <3>5, <3>6
  <2>3. CASE \E u \in ViewPorts : RemoveViewPort(u)
    BY <1>1, <2>3 DEF RemoveViewPort, Forgotten, IInv, TypeOK, ViewPorts
  <2> QED
    BY <1>1, <2>1, <2>2, <2>3 DEF Next, GuiStep, PortStep, Publish, Inject, Put, Signal, Woken,
       Drained, SetLockdown, AddViewPort, SendToFront, SendToBack, EnabledSet, OrientationSet,
       given, vars
<1>2. []IInv /\ [][Next]_vars => [][Shields]_vars
  BY <1>1, PTL
<1> QED
  BY <1>2, GuiInvariant, PTL DEF Spec, LockdownShields
===============================================================================
