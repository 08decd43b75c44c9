---------------------------- MODULE ViewDispatcher ----------------------------
(***************************************************************************)
(* A view dispatcher (applications/services/gui/view_dispatcher.c) between *)
(* the GUI's thread, which puts the input of its view port in the queue    *)
(* while it holds the GUI's mutex, and the application's thread, which     *)
(* runs the dispatcher, and stops and frees it.                            *)
(*                                                                         *)
(* The view port may get any event at any time: the input service's come   *)
(* in turn (PressInTurn of module GuiInput), injected ones need not, and a *)
(* Release, or Short, Long and Repeat ("Tap"), may come for a key whose    *)
(* Press went elsewhere.  The dispatcher knows a key by the name that it   *)
(* had for the view port when the event was delivered, and to switch to a  *)
(* view may turn the view port.  What a view or the application's          *)
(* callbacks do with a message is one of what this code offers: nothing,   *)
(* send a custom event, switch the view, stop, remove or add a view.       *)
(***************************************************************************)
EXTENDS Naturals, Sequences, ViewPort

CONSTANTS
  Keys,        \* the keys that are pressed
  Views,
  QueueSize,   \* the length of ViewDispatcher.queue, 16
  MaxEvents,   \* bound: how many events come, Releases of keys that are down not counted
  MaxCustom,   \* bound: how many custom events are sent
  MaxOps,      \* bound: how many views are removed and added while it runs
  NULL         \* no view, no message

Types    == {"Press", "Release", "Tap"}
Inputs   == Types \X InputKeys
Custom   == <<"Custom">>
Stop     == <<"Stop">>
Messages == Inputs \cup {Custom, Stop}

ASSUME DispatcherAssumption ==
  /\ Keys \subseteq InputKeys
  /\ NULL \notin Views \cup Messages
  /\ QueueSize \in Nat \ {0}
  /\ MaxEvents \in Nat /\ MaxCustom \in Nat /\ MaxOps \in Nat

VARIABLES
  down,        \* the keys whose Press the view port got, and not the Release
  seen,        \* the same by the names that its callback saw
  vertical,    \* the view port has the vertical orientation
  queue,       \* ViewDispatcher.queue
  guiMutex,    \* who holds the GUI's mutex
  gevent,      \* the event the GUI's thread is putting
  enabled,     \* the view port is enabled
  views,       \* ViewDispatcher.views
  current,     \* ViewDispatcher.current_view
  ongoing,     \* ViewDispatcher.ongoing_input
  ongoingView, \* ViewDispatcher.ongoing_input_view
  open,        \* history: the keys each view saw pressed, not released
  apc,         \* where the application's thread is
  putting,     \* the message it is putting in its own queue
  repeated,    \* history: the callback saw a Press of a key that it had seen pressed
  bounds       \* how many events, custom events, operations

gui   == <<down, seen, repeated, gevent>>
views_ == <<enabled, vertical, views, current>>
input == <<ongoing, ongoingView, open>>
vars  == <<gui, queue, guiMutex, views_, input, apc, putting, bounds>>

AppPc == {"run", "act", "put", "drain", "returned", "removing", "stopping", "removed", "freed"}

TypeOK ==
  /\ down \subseteq Keys /\ seen \subseteq InputKeys
  /\ vertical \in BOOLEAN /\ repeated \in BOOLEAN
  /\ queue \in Seq(Messages) /\ Len(queue) <= QueueSize
  /\ guiMutex \in {"nobody", "gui", "app"}
  /\ gevent \in Inputs \cup {NULL}
  /\ enabled \in BOOLEAN
  /\ views \subseteq Views
  /\ current \in Views \cup {NULL}
  /\ ongoing \subseteq InputKeys
  /\ ongoingView \in Views \cup {NULL}
  /\ open \in [Views -> SUBSET InputKeys]
  /\ apc \in AppPc
  /\ putting \in {Custom, Stop, NULL}
  /\ bounds \in (0..MaxEvents) \X (0..MaxCustom) \X (0..MaxOps)

\* The views are added and one is switched to.
Init ==
  /\ down = {} /\ seen = {} /\ vertical \in BOOLEAN /\ repeated = FALSE
  /\ queue = <<>> /\ guiMutex = "nobody" /\ gevent = NULL
  /\ enabled = TRUE /\ views = Views /\ current \in Views
  /\ ongoing = {} /\ ongoingView = NULL /\ open = [v \in Views |-> {}]
  /\ apc = "run" /\ putting = NULL
  /\ bounds = <<0, 0, 0>>

Count(i) == bounds' = [bounds EXCEPT ![i] = @ + 1]

-----------------------------------------------------------------------------
\* The GUI's thread: it takes the mutex with an event for this view port, which
\* gets a Release in any case, anything else only while it is enabled, and turns the
\* key (view_port_input), ...
GuiTakes(type, k) ==
  LET name == NameOf(k, vertical) IN
  /\ apc # "freed"
  /\ guiMutex = "nobody"
  /\ enabled \/ type = "Release"
  /\ guiMutex' = "gui"
  /\ gevent' = <<type, name>>
  /\ down' = HeldAfter(down, type, k)
  /\ seen' = HeldAfter(seen, type, name)
  /\ repeated' = (repeated \/ (type = "Press" /\ name \in seen))
  /\ IF type = "Release" /\ k \in down THEN UNCHANGED bounds ELSE bounds[1] < MaxEvents /\ Count(1)
  /\ UNCHANGED <<queue, views_, input, apc, putting>>

\* ... and puts it, waiting for room: view_dispatcher_input_callback. 
\* (Mutants, below, are named after the definition they replace.)
HasRoom == Len(queue) < QueueSize
InputCallback ==
  /\ guiMutex = "gui"
  /\ HasRoom
  /\ queue' = Append(queue, gevent)
  /\ gevent' = NULL
  /\ guiMutex' = "nobody"
  /\ UNCHANGED <<down, seen, repeated, views_, input, apc, putting, bounds>>

\* view_dispatcher_send_custom_event by another thread.
SendCustomEvent ==
  /\ apc # "freed"
  /\ HasRoom
  /\ bounds[2] < MaxCustom
  /\ queue' = Append(queue, Custom)
  /\ Count(2)
  /\ UNCHANGED <<gui, guiMutex, views_, input, apc, putting>>

-----------------------------------------------------------------------------
\* ongoing_input after an event.
OngoingAfter(type, k) == HeldAfter(ongoing, type, k)

\* The first key that goes down chooses the view.  (Mutant: every Press does.)
Chosen_Always(type, k) == IF type = "Press" THEN current ELSE ongoingView
Chosen(type, k) ==
  IF type = "Press" /\ ongoing \subseteq {k} THEN current ELSE ongoingView

\* The chosen view gets the event if it is still the current one, and a Release
\* in any case.  (Mutant: it gets everything.)
Receives_All(v, type) == v # NULL
Receives(v, type) == v # NULL /\ (v = current \/ type = "Release")

\* view_dispatcher_handle_input.
HandleInput(type, k) ==
  LET v == Chosen(type, k) IN
  /\ ongoing' = OngoingAfter(type, k)
  /\ IF type = "Tap" /\ k \notin ongoing
       THEN UNCHANGED <<ongoingView, open>>
       ELSE /\ ongoingView' = v
            /\ IF Receives(v, type)
                 THEN open' = [open EXCEPT ![v] = HeldAfter(@, type, k)]
                 ELSE UNCHANGED open

\* view_dispatcher_run: it takes a message; then its handlers act.
Run ==
  /\ apc = "run"
  /\ queue # <<>>
  /\ queue' = Tail(queue)
  /\ LET m == Head(queue) IN
       CASE m = Stop -> apc' = "drain" /\ UNCHANGED input
         [] m = Custom -> apc' = "act" /\ UNCHANGED input
         [] OTHER -> apc' = "act" /\ HandleInput(m[1], m[2])
  /\ UNCHANGED <<gui, guiMutex, views_, putting, bounds>>

\* A tick is handled when no message comes.
Tick ==
  /\ apc = "run"
  /\ queue = <<>>
  /\ apc' = "act"
  /\ UNCHANGED <<gui, queue, guiMutex, views_, input, putting, bounds>>

\* What the handlers do: some of these, in any order, until they return:
Handled ==
  /\ apc = "act"
  /\ apc' = "run"
  /\ UNCHANGED <<gui, queue, guiMutex, views_, input, putting, bounds>>

\* view_dispatcher_send_custom_event and view_dispatcher_stop, which put in
\* the queue that only this thread empties, ...
ActPut(m) ==
  /\ apc = "act"
  /\ m = Custom => bounds[2] < MaxCustom
  /\ IF m = Custom THEN Count(2) ELSE UNCHANGED bounds
  /\ putting' = m
  /\ apc' = "put"
  /\ UNCHANGED <<gui, queue, guiMutex, views_, input>>

PutDone ==
  /\ apc = "put"
  /\ HasRoom
  /\ queue' = Append(queue, putting)
  /\ putting' = NULL
  /\ apc' = "act"
  /\ UNCHANGED <<gui, guiMutex, views_, input, bounds>>

\* ... view_dispatcher_switch_to_view, to a view with the orientation o that it has
\* by then (view_set_orientation), ...
SwitchTo(v, o) ==
  /\ apc = "act"
  /\ v \in views
  /\ current' = v
  /\ vertical' = o
  /\ enabled' = TRUE
  /\ UNCHANGED <<apc, gui, queue, guiMutex, views, input, putting, bounds>>

\* ... to VIEW_NONE, which stops the dispatcher too, ...
SwitchToNone ==
  /\ apc = "act"
  /\ current' = NULL
  /\ enabled' = FALSE
  /\ putting' = Stop
  /\ apc' = "put"
  /\ UNCHANGED <<gui, queue, guiMutex, vertical, views, input, bounds>>

\* ... view_dispatcher_add_view ...
AddView(v) ==
  /\ apc = "act"
  /\ v \notin views
  /\ guiMutex = "nobody"
  /\ views' = views \cup {v}
  /\ UNCHANGED <<apc, gui, queue, guiMutex, enabled, vertical, current, input, putting, bounds>>

\* ... and view_dispatcher_remove_view, of a view that is not the current one.
\* (Mutant: input still goes to it.)
ForgetView_StaysOngoing(v) ==
  /\ views' = views \ {v}
  /\ open' = [open EXCEPT ![v] = {}]
  /\ UNCHANGED <<ongoing, ongoingView>>
ForgetView(v) ==
  /\ views' = views \ {v}
  /\ ongoingView' = IF ongoingView = v THEN NULL ELSE ongoingView
  /\ open' = [open EXCEPT ![v] = {}]
  /\ UNCHANGED ongoing

RemoveView(v) ==
  /\ apc = "act"
  /\ v \in views \ {current}
  /\ bounds[3] < MaxOps /\ Count(3)
  /\ guiMutex = "nobody"
  /\ ForgetView(v)
  /\ UNCHANGED <<apc, gui, queue, guiMutex, enabled, vertical, current, putting>>

-----------------------------------------------------------------------------
\* Stopped: input is taken until every key is released, and given to no view.
\* (Mutant: the releases are not counted.)
StillOngoing_All(m) == ongoing
StillOngoing(m) == IF m \in Inputs THEN OngoingAfter(m[1], m[2]) ELSE ongoing
Drain ==
  /\ apc = "drain"
  /\ IF ongoing = {}
       THEN apc' = "returned" /\ UNCHANGED <<queue, ongoing>>
       ELSE /\ queue # <<>>
            /\ queue' = Tail(queue)
            /\ UNCHANGED apc
            /\ ongoing' = StillOngoing(Head(queue))
  /\ UNCHANGED <<gui, guiMutex, views_, ongoingView, open, putting, bounds>>

\* The application's end: view_dispatcher_remove_view of each view, the current
\* one by way of view_dispatcher_set_current_view(NULL) and
\* view_dispatcher_stop, all of it under the GUI's mutex, ...
\* (Mutant: the mutex is kept.)
Unlocked_Not == guiMutex
Unlocked == "nobody"
RemoveLast(v) ==
  /\ apc = "removing"
  /\ v = current
  /\ HasRoom
  /\ queue' = Append(queue, Stop)
  /\ current' = NULL /\ enabled' = FALSE
  /\ ForgetView(v)
  /\ guiMutex' = Unlocked
  /\ apc' = "returned"
  /\ UNCHANGED <<gui, vertical, putting, bounds>>

RemoveViews ==
  /\ apc = "returned"
  /\ guiMutex = "nobody"
  /\ \/ /\ current # NULL
        /\ guiMutex' = "app"
        /\ apc' = "removing"
        /\ UNCHANGED <<views, input>>
     \/ /\ \E v \in views \ {current} : ForgetView(v)
        /\ UNCHANGED <<apc, guiMutex>>
  /\ UNCHANGED <<gui, queue, enabled, vertical, current, putting, bounds>>

\* ... and view_dispatcher_free, which takes the view port from the GUI.
FreeDispatcher ==
  /\ apc = "returned"
  /\ views = {}
  /\ guiMutex = "nobody"
  /\ apc' = "freed"
  /\ UNCHANGED <<gui, queue, guiMutex, views_, input, putting, bounds>>

-----------------------------------------------------------------------------
AppStep ==
  \/ Run \/ Tick \/ Handled \/ PutDone \/ SwitchToNone \/ Drain \/ RemoveViews \/ FreeDispatcher
  \/ \E m \in {Custom, Stop} : ActPut(m)
  \/ \E v \in Views, o \in BOOLEAN : SwitchTo(v, o)
  \/ \E v \in Views : AddView(v) \/ RemoveView(v) \/ RemoveLast(v)

Next ==
  \/ \E type \in Types, k \in Keys : GuiTakes(type, k)
  \/ InputCallback
  \/ SendCustomEvent
  \/ AppStep

Spec == Init /\ [][Next]_vars

\* The threads run, the user lets go of every key, and the view port gets the
\* Release of every Press (PressIsReleased of GuiInput).
FairSpec ==
  /\ Spec
  /\ WF_vars(InputCallback)
  /\ WF_vars(Run \/ Handled \/ PutDone \/ Drain) /\ SF_vars(RemoveViews \/ FreeDispatcher)
  /\ WF_vars(\E v \in Views : RemoveLast(v))
  /\ \A k \in Keys : SF_vars(k \in down /\ GuiTakes("Release", k))

-----------------------------------------------------------------------------
Running == apc \in {"run", "act", "put"}

\* The view that gets input, and the one that will, is one of the dispatcher's:
\* no input goes to a view that was removed, and freed.
NoInputAfterRemove == {current, ongoingView} \subseteq views \cup {NULL}

\* While it runs, input is never split between views, although they are switched,
\* removed and added while keys are down, and the screen is turned, as long as the
\* view port saw no key pressed twice.
OneViewAtATime ==
  Running /\ ~repeated => \A v \in Views : open[v] # {} => v = ongoingView /\ open[v] \subseteq ongoing

\* The callback knows the keys that are down by their present names.
NamesHold == seen = NamesOf(down, vertical)

\* A view port sees a key pressed twice only if the GUI gives it a second Press, or
\* after it was turned, by a switch to another view, while an arrow was held.
OnlyTurningConfuses ==
  [][/\ NamesHold /\ ~NamesHold' => down \cap Arrows # {} /\ ~(vertical <=> vertical')
     /\ NamesHold /\ ~repeated /\ repeated' => \E k \in down : GuiTakes("Press", k)]_vars

\* After the switch to another view a view sees no key pressed: only the current
\* view sees a key go down.
PressOnlyCurrent ==
  [][\A v \in Views : ~(open'[v] \subseteq open[v]) => v = current /\ v = ongoingView']_vars

\* Nor does a view see a key pressed twice, whatever happened to the first press,
\* unless the view port does: as the view port relies on the GUI, so may a view on
\* the dispatcher.
PressInTurn ==
  apc = "run" /\ queue # <<>> /\ Head(queue)[1] = "Press" /\ ~repeated =>
    LET k == Head(queue)[2]  v == Chosen("Press", k) IN
    Receives(v, "Press") => k \notin open[v]

\* Every key is up, yet the view port saw one go down and never released: it was
\* turned meanwhile, and saw the Release of another key.
Stale == down = {} /\ seen # {}

\* A dispatcher that was stopped returns once the keys are up, if their names hold.
StopReturns == apc = "drain" ~> apc # "drain" \/ Stale

\* Its core: a key that a stopped dispatcher waits for is one that the view port
\* still sees pressed, or its Release is on its way through the GUI's thread or the
\* queue.
ReleaseIsAwaited ==
  apc = "drain" => \A k \in ongoing :
    k \in seen \/ gevent = <<"Release", k>> \/ \E i \in DOMAIN queue : queue[i] = <<"Release", k>>

\* Its application then frees it, unless the queue, which nobody empties any
\* more, fills up: then the GUI's thread waits for room with the GUI's mutex,
\* or the application does, and both stay where they are.
FreedUnlessFull == apc = "returned" ~> (apc = "freed" \/ Len(queue) = QueueSize)
=============================================================================
