------------------------------ MODULE InputSrv ------------------------------
(***************************************************************************)
(* The input service (applications/services/input/input.c): a thread that  *)
(* scans the keys and publishes Press, Release and Short, and the callback *)
(* of each key's press timer, in the timer task, that publishes Long and   *)
(* Repeat.                                                                 *)
(*                                                                         *)
(* A timer may expire at any moment while it is active: any thread may be  *)
(* delayed for as long as a timer runs.  Starting and stopping a timer     *)
(* only queues a command for the timer task, which works off all queued    *)
(* commands before it looks at the timers again.  A publication is one     *)
(* step: the pubsub is a broadcast (module FuriPubSub).                    *)
(***************************************************************************)
EXTENDS Naturals, Sequences

CONSTANTS
  NKeys,         \* the number of keys: input_pins_count
  DebounceTicks, \* INPUT_DEBOUNCE_TICKS
  MaxEdges,      \* bound: how often the pins change
  MaxFires       \* bound: how often the timers expire

ASSUME InputAssumption ==
  /\ NKeys \in Nat \ {0}
  /\ DebounceTicks \in Nat \ {0, 1}
  /\ MaxEdges \in Nat
  /\ MaxFires \in Nat

Pins       == 1..NKeys  \* input_pins
LongCounts == 2  \* INPUT_LONG_PRESS_COUNTS

VARIABLES
  pin,           \* the level of each key's pin, TRUE when pressed
  isr,           \* INPUT_THREAD_FLAG_ISR
  pc, key,       \* where the thread is, and its loop variable
  changing,      \* is_changing
  state,         \* InputPinState.state
  debounce,      \* InputPinState.debounce
  counter,       \* Input.counter
  seqn,          \* InputPinState.counter: the sequence number of the last press
  presses,       \* InputPinState.press_counter
  timer,         \* is each key's press timer active?
  commands,      \* the commands the timer task has still to work off
  firing,        \* the event the timer task is about to publish, if any
  log,           \* the events, as published
  edges, fires   \* how often the pins changed and the timers expired

pinState == <<state, debounce, counter, seqn>>
timers   == <<timer, commands, firing, fires>>
srvVars == <<pin, isr, pc, key, changing, pinState, presses, timers, log, edges>>

Event(k, type) == [key |-> k, type |-> type, sequence |-> seqn[k]]

InputTypes  == {"Press", "Release", "Short", "Long", "Repeat"}
InputEvents == [key : Pins, type : InputTypes, sequence : Nat]

SrvTypeOK ==
  /\ pin \in [Pins -> BOOLEAN]
  /\ isr \in BOOLEAN
  /\ pc \in {"scan", "stopping", "short", "event", "wait"}
  /\ key \in 1..NKeys + 1
  /\ changing \in BOOLEAN
  /\ state \in [Pins -> BOOLEAN]
  /\ debounce \in [Pins -> 0..DebounceTicks]
  /\ counter \in Nat
  /\ seqn \in [Pins -> 0..counter]
  /\ presses \in [Pins -> 0..LongCounts]
  /\ timer \in [Pins -> BOOLEAN]
  /\ commands \in Seq({"start", "stop"} \X Pins)
  /\ firing \in Seq(InputEvents)
  /\ log \in Seq(InputEvents)
  /\ edges \in 0..MaxEdges
  /\ fires \in 0..MaxFires

\* input_srv, up to its loop.
SrvInit ==
  /\ pin \in [Pins -> BOOLEAN]
  /\ isr = FALSE
  /\ pc = "scan" /\ key = 1
  /\ changing = FALSE
  /\ state = pin
  /\ debounce = [k \in Pins |-> DebounceTicks \div 2]
  /\ counter = 0
  /\ seqn = [k \in Pins |-> 0]
  /\ presses = [k \in Pins |-> 0]
  /\ timer = [k \in Pins |-> FALSE]
  /\ commands = <<>>
  /\ firing = <<>>
  /\ log = <<>>
  /\ edges = 0 /\ fires = 0

-----------------------------------------------------------------------------
\* A key is pressed, released or bounces; the interrupt sets the thread's flag.
Edge(k) ==
  /\ edges < MaxEdges
  /\ edges' = edges + 1
  /\ pin' = [pin EXCEPT ![k] = ~@]
  /\ isr' = TRUE
  /\ UNCHANGED <<pc, key, changing, pinState, presses, timers, log>>

Bouncing(k) == 0 < debounce[k] /\ debounce[k] < DebounceTicks

Command(cmd, k) == commands' = Append(commands, <<cmd, k>>)
Emit(event)  == log' = Append(log, event)
NextKey == key' = key + 1 /\ pc' = "scan"

Debounce(k) ==
  /\ Bouncing(k)
  /\ changing' = TRUE
  /\ debounce' = [debounce EXCEPT ![k] = IF pin[k] THEN @ + 1 ELSE @ - 1]
  /\ NextKey
  /\ UNCHANGED <<state, counter, seqn, commands>>

Pressed(k) ==
  /\ ~Bouncing(k) /\ ~state[k] /\ pin[k]
  /\ state' = [state EXCEPT ![k] = TRUE]
  /\ counter' = counter + 1
  /\ seqn' = [seqn EXCEPT ![k] = counter + 1]
  /\ Command("start", k)
  /\ pc' = "event"
  /\ UNCHANGED <<key, changing, debounce>>

Released(k) ==
  /\ ~Bouncing(k) /\ state[k] /\ ~pin[k]
  /\ state' = [state EXCEPT ![k] = FALSE]
  /\ Command("stop", k)
  /\ pc' = "stopping"
  /\ UNCHANGED <<key, changing, debounce, counter, seqn>>

Unchanged(k) ==
  /\ ~Bouncing(k) /\ state[k] = pin[k]
  /\ NextKey
  /\ UNCHANGED <<changing, debounce, state, counter, seqn, commands>>

Scan(k) ==
  /\ pc = "scan" /\ key = k
  /\ Debounce(k) \/ Pressed(k) \/ Released(k) \/ Unchanged(k)
  /\ UNCHANGED <<pin, isr, presses, timer, firing, fires, log, edges>>

\* input_timer_stop waits until the timer is not active any more.  (Mutants,
\* here and below, are named after the definition they replace; this one does
\* not wait.)
Stopped_AtOnce(k) ==
  /\ pc = "stopping" /\ key = k
  /\ pc' = "short"
  /\ UNCHANGED <<pin, isr, key, changing, pinState, presses, timers, log, edges>>
Stopped(k) ==
  /\ pc = "stopping" /\ key = k
  /\ ~timer[k]
  /\ pc' = "short"
  /\ UNCHANGED <<pin, isr, key, changing, pinState, presses, timers, log, edges>>

Short(k) ==
  /\ pc = "short" /\ key = k
  /\ IF presses[k] < LongCounts THEN Emit(Event(k, "Short")) ELSE UNCHANGED log
  /\ presses' = [presses EXCEPT ![k] = 0]
  /\ pc' = "event"
  /\ UNCHANGED <<pin, isr, key, changing, pinState, timers, edges>>

PressOrRelease(k) ==
  /\ pc = "event" /\ key = k
  /\ Emit(Event(k, IF state[k] THEN "Press" ELSE "Release"))
  /\ NextKey
  /\ UNCHANGED <<pin, isr, changing, pinState, presses, timers, edges>>

\* The end of the loop: wait a tick, or wait for the interrupt.  (Mutant: the
\* thread forgets an interrupt that came while it scanned.)
EndOfScan_ClearsFlag ==
  /\ pc = "scan" /\ key = NKeys + 1
  /\ IF changing THEN pc' = "scan" ELSE pc' = "wait"
  /\ key' = 1
  /\ isr' = FALSE
  /\ changing' = FALSE
  /\ UNCHANGED <<pin, pinState, presses, timers, log, edges>>
EndOfScan ==
  /\ pc = "scan" /\ key = NKeys + 1
  /\ pc' = IF changing THEN "scan" ELSE "wait"
  /\ key' = 1
  /\ changing' = FALSE
  /\ UNCHANGED <<pin, isr, pinState, presses, timers, log, edges>>

\* furi_thread_flags_wait clears the flag.
Interrupted ==
  /\ pc = "wait"
  /\ isr
  /\ isr' = FALSE
  /\ pc' = "scan"
  /\ UNCHANGED <<pin, key, changing, pinState, presses, timers, log, edges>>

-----------------------------------------------------------------------------
\* The timer task: xTimerChangePeriod activates a timer, xTimerStop stops it.
RunCommands ==
  /\ firing = <<>>
  /\ commands # <<>>
  /\ commands' = <<>>
  /\ timer' = [k \in Pins |->
       IF \E i \in DOMAIN commands : commands[i][2] = k
       THEN \E i \in DOMAIN commands :
              /\ commands[i] = <<"start", k>>
              /\ \A j \in DOMAIN commands : j > i => commands[j][2] # k
       ELSE timer[k]]
  /\ UNCHANGED <<pin, isr, pc, key, changing, pinState, presses, firing, fires, log, edges>>

\* input_press_timer_callback.
Counted(k) == IF presses[k] = LongCounts THEN LongCounts ELSE presses[k] + 1
Fire(k) ==
  /\ firing = <<>>
  /\ timer[k]
  /\ fires < MaxFires
  /\ fires' = fires + 1
  /\ presses' = [presses EXCEPT ![k] = Counted(k)]
  /\ LET n == presses[k] + 1 IN
       firing' = CASE n < LongCounts -> <<>>
                   [] n = LongCounts -> <<Event(k, "Long")>>
                   [] n > LongCounts -> <<Event(k, "Repeat")>>
  /\ UNCHANGED <<pin, isr, pc, key, changing, pinState, timer, commands, log, edges>>

PublishFiring ==
  /\ firing # <<>>
  /\ Emit(firing[1])
  /\ firing' = <<>>
  /\ UNCHANGED <<pin, isr, pc, key, changing, pinState, presses, timer, commands, fires, edges>>

-----------------------------------------------------------------------------
ThreadStep ==
  \/ \E k \in Pins : Scan(k) \/ Stopped(k) \/ Short(k) \/ PressOrRelease(k)
  \/ EndOfScan \/ Interrupted

TimerStep == RunCommands \/ PublishFiring \/ \E k \in Pins : Fire(k)

SrvNext == ThreadStep \/ TimerStep \/ \E k \in Pins : Edge(k)

SrvSpec == SrvInit /\ [][SrvNext]_srvVars

\* The thread and the timer task run; nobody has to press a key.
FairSrvSpec == SrvSpec /\ WF_srvVars(ThreadStep) /\ WF_srvVars(RunCommands \/ PublishFiring)

-----------------------------------------------------------------------------
Before(i, k, n, type) ==
  \E j \in 1..i - 1 : log[j] = [key |-> k, type |-> type, sequence |-> n]

\* When a key is released, its press was either short or long: exactly one of
\* the two has been published, whatever the timer did meanwhile.
ShortXorLong ==
  \A i \in DOMAIN log : log[i].type = "Release" =>
    LET k == log[i].key  n == log[i].sequence IN
    Before(i, k, n, "Short") # Before(i, k, n, "Long")

\* The Release ends a press: nothing comes after it with its key and number.
ReleaseIsLast ==
  \A i, j \in DOMAIN log :
    i < j /\ log[i].type = "Release" /\ log[i].key = log[j].key
      => log[i].sequence # log[j].sequence

\* A press has a number of its own, greater than those of all presses before.
\* (Its Long may come before its Press: the timer is started first.)
PressesAreNumbered ==
  \A i, j \in DOMAIN log :
    i < j /\ log[i].type \in {"Press", "Release"} /\ log[j].type = "Press"
      => log[i].sequence < log[j].sequence

\* Press and Release of a key take turns.  (The first of a key that is held at
\* boot is a Release.)
TakeTurns ==
  \A i, j \in DOMAIN log :
    /\ i < j /\ log[i].key = log[j].key /\ log[i].type = log[j].type
    /\ log[i].type \in {"Press", "Release"}
    => \E m \in i + 1..j - 1 :
         log[m].key = log[j].key /\ log[m].type \in {"Press", "Release"} \ {log[j].type}

\* A Repeat comes after the Long of the same press.
RepeatAfterLong ==
  \A i \in DOMAIN log : log[i].type = "Repeat" =>
    Before(i, log[i].key, log[i].sequence, "Long")

\* The events of every press have the right shape.
PressShape ==
  ShortXorLong /\ ReleaseIsLast /\ PressesAreNumbered /\ TakeTurns /\ RepeatAfterLong

\* The thread is handling a change of a key.
Handling == pc \in {"stopping", "short", "event"}

\* The next of Press and Release that k publishes is Release.
Down(k) == ~(state[k] <=> (Handling /\ key = k))

\* What is published is what the GUI expects of its source.
Kind(type) == IF type \in {"Press", "Release"} THEN type ELSE "Tap"
KE == INSTANCE KeyEvents WITH
        Keys   <- Pins,
        down   <- {k \in Pins : Down(k)},
        events <- [i \in DOMAIN log |-> <<Kind(log[i].type), log[i].key>>]
ImplementsKeyEvents == KE!KSpec

\* Once the keys come to rest, the service has reported the level they have.
LevelReported == <>[](\A k \in Pins : state[k] = pin[k])

\* Its core: while the service waits for the interrupt, every key's level is
\* reported and settled, or the interrupt's flag is set.
NoLevelMissed ==
  pc = "wait" /\ ~isr => \A k \in Pins : state[k] = pin[k] /\ ~Bouncing(k)
=============================================================================
