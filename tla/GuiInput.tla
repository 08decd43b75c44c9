------------------------------ MODULE GuiInput ------------------------------
(***************************************************************************)
(* How the GUI service routes input (applications/services/gui/gui.c): the *)
(* pubsub's callback queues the events and sets the thread's flag, the     *)
(* thread empties the queue and gives each event to a view port, while     *)
(* applications add, remove, order, enable and disable their view ports    *)
(* and the desktop locks the screen.                                       *)
(*                                                                         *)
(* The input service publishes Press and Release of a key in turn, Short,  *)
(* Long and Repeat ("Tap") at any time (module KeyEvents).  Other          *)
(* publishers, "input send" of the CLI and the RPC's gui_send_input, may   *)
(* publish anything: Inject.                                               *)
(***************************************************************************)
EXTENDS Naturals, Sequences, ViewPort

CONSTANTS
  Keys,       \* the keys that are pressed
  FullPorts, WindowPorts, DesktopPorts, \* the view ports, by their layer
  QueueSize,   \* the length of Gui.input_queue
  MaxOps,      \* bound: how many operations on view ports
  MaxInjects,  \* bound: how many events are injected
  NULL         \* no view port

ViewPorts == FullPorts \cup WindowPorts \cup DesktopPorts
Layers    == {"Fullscreen", "Window", "Desktop"}

LayerOf(v) == CASE v \in FullPorts -> "Fullscreen"
                [] v \in WindowPorts -> "Window"
                [] v \in DesktopPorts -> "Desktop"

ASSUME GuiAssumption ==
  /\ Keys \subseteq InputKeys
  /\ FullPorts \cap WindowPorts = {}
  /\ (FullPorts \cup WindowPorts) \cap DesktopPorts = {}
  /\ NULL \notin ViewPorts
  /\ QueueSize \in Nat \ {0}
  /\ MaxOps \in Nat
  /\ MaxInjects \in Nat

Types  == {"Press", "Release", "Tap"}
Events == Types \X Keys

VARIABLES
  down,        \* the keys whose next published event of the two is Release
  queue,       \* Gui.input_queue
  signal,      \* the publisher has queued an event and not yet set the flag
  flag,        \* GUI_THREAD_FLAG_INPUT
  gpc,         \* the GUI thread: "wait" for the flag, or "drain" the queue
  layers,      \* Gui.layers
  enabled,     \* the view ports with is_enabled
  vertical,    \* the view ports with the vertical orientation
  lockdown,    \* Gui.lockdown
  ongoing,     \* Gui.ongoing_input
  ongoingPort, \* Gui.ongoing_input_view_port
  held,        \* history: the keys whose Press each view port got, not the Release
  open,        \* history: the same by the names that its callback saw
  ops,         \* how many operations on view ports
  injects      \* how many events were injected

source == <<down, signal, injects>>
ports  == <<layers, enabled, vertical, lockdown, ops>>
given  == <<held, open>>
vars == <<source, queue, flag, gpc, ports, ongoing, ongoingPort, given>>

TypeOK ==
  /\ down \subseteq Keys
  /\ queue \in Seq(Events) /\ Len(queue) <= QueueSize
  /\ signal \in BOOLEAN
  /\ flag \in BOOLEAN
  /\ gpc \in {"wait", "drain"}
  /\ layers \in [Layers -> Seq(ViewPorts)]
  /\ enabled \subseteq ViewPorts
  /\ vertical \subseteq FullPorts
  /\ lockdown \in BOOLEAN
  /\ ongoing \subseteq Keys
  /\ ongoingPort \in ViewPorts \cup {NULL}
  /\ held \in [ViewPorts -> SUBSET Keys]
  /\ open \in [ViewPorts -> SUBSET InputKeys]
  /\ ops \in 0..MaxOps
  /\ injects \in 0..MaxInjects

\* A key that is held at boot is published released, not having been pressed.
Init ==
  /\ down \in SUBSET Keys
  /\ queue = <<>>
  /\ signal = FALSE
  /\ flag = FALSE
  /\ gpc = "wait"
  /\ layers = [l \in Layers |-> <<>>]
  /\ enabled = ViewPorts
  /\ vertical = {}
  /\ lockdown = FALSE
  /\ ongoing = {}
  /\ ongoingPort = NULL
  /\ held = [v \in ViewPorts |-> {}]
  /\ open = held
  /\ ops = 0
  /\ injects = 0

-----------------------------------------------------------------------------
\* What the input service publishes is added to the queue.
Source == INSTANCE KeyEvents WITH events <- queue

\* gui_input_events_callback: puts, waiting while the queue is full, ...
\* (Mutants, below, are named after the definition they replace.)
HasRoom == Len(queue) < QueueSize
Put(event) ==
  /\ ~signal
  /\ HasRoom
  /\ queue' = Append(queue, event)
  /\ signal' = TRUE
  /\ UNCHANGED <<flag, gpc, ports, ongoing, ongoingPort, given>>

Publish(type, k) ==
  /\ Put(<<type, k>>)
  /\ CASE type = "Press"   -> Source!KPress(k)
       [] type = "Release" -> Source!KRelease(k)
       [] type = "Tap"     -> Source!KTap(k)
  /\ UNCHANGED injects

Inject(type, k) ==
  /\ Put(<<type, k>>)
  /\ injects < MaxInjects
  /\ injects' = injects + 1
  /\ UNCHANGED down

\* ... and sets the flag.
Signal ==
  /\ signal
  /\ signal' = FALSE
  /\ flag' = TRUE
  /\ UNCHANGED <<down, injects, queue, gpc, ports, ongoing, ongoingPort, given>>

\* gui_srv.
Woken ==
  /\ gpc = "wait"
  /\ flag
  /\ flag' = FALSE
  /\ gpc' = "drain"
  /\ UNCHANGED <<source, queue, ports, ongoing, ongoingPort, given>>

\* (Mutant: off by one, it leaves an event in the queue.)
Drained_LeavesOne ==
  /\ gpc = "drain"
  /\ Len(queue) <= 1
  /\ gpc' = "wait"
  /\ UNCHANGED <<source, queue, flag, ports, ongoing, ongoingPort, given>>
Drained ==
  /\ gpc = "drain"
  /\ queue = <<>>
  /\ gpc' = "wait"
  /\ UNCHANGED <<source, queue, flag, ports, ongoing, ongoingPort, given>>

-----------------------------------------------------------------------------
\* gui_view_port_find_enabled: the last enabled one of the layer.
Enabled(l) == {i \in DOMAIN layers[l] : layers[l][i] \in enabled}

FindEnabled(l) ==
  IF Enabled(l) = {} THEN NULL
  ELSE layers[l][CHOOSE i \in Enabled(l) : \A j \in Enabled(l) : j <= i]

\* The view port in front, where gui_input looks for it.  (Mutant: it forgets
\* the lockdown.)
Front_NoLockdown ==
  LET f == FindEnabled("Fullscreen")  w == FindEnabled("Window") IN
  CASE f # NULL -> f
    [] f = NULL /\ w # NULL -> w
    [] OTHER -> FindEnabled("Desktop")
Front ==
  LET f == FindEnabled("Fullscreen")  w == FindEnabled("Window") IN
  CASE lockdown -> FindEnabled("Desktop")
    [] ~lockdown /\ f # NULL -> f
    [] ~lockdown /\ f = NULL /\ w # NULL -> w
    [] OTHER -> FindEnabled("Desktop")

\* gui->ongoing_input after the event: the keys as they are published.
OngoingAfter(type, k) == HeldAfter(ongoing, type, k)

\* The first key that goes down chooses the view port.  (Mutant: every Press
\* does.)
Chosen_Always(type, k) == IF type = "Press" THEN Front ELSE ongoingPort
Chosen(type, k) ==
  IF type = "Press" /\ ongoing \subseteq {k} THEN Front ELSE ongoingPort

\* view_port_input: the callback gets the key by its name at that moment.
Give(v, type, k) ==
  /\ held' = [held EXCEPT ![v] = HeldAfter(@, type, k)]
  /\ open' = [open EXCEPT ![v] = HeldAfter(@, type, NameOf(k, v \in vertical))]

\* Who gets the event: the view port in front if it is the chosen one; a
\* Release goes to the chosen one in any case.  (Mutant: it does not.)
Receives_FrontOnly(v, type) == v # NULL /\ v = Front
Receives(v, type) == v # NULL /\ (v = Front \/ type = "Release")

\* gui_input, for the event taken from the queue.
Input ==
  /\ gpc = "drain"
  /\ queue # <<>>
  /\ queue' = Tail(queue)
  /\ LET type == Head(queue)[1]  k == Head(queue)[2]  v == Chosen(type, k) IN
       /\ ongoing' = OngoingAfter(type, k)
       /\ IF type = "Tap" /\ k \notin ongoing
            THEN UNCHANGED <<ongoingPort, given>>
            ELSE /\ ongoingPort' = v
                 /\ IF Receives(v, type) THEN Give(v, type, k) ELSE UNCHANGED given
  /\ UNCHANGED <<source, flag, gpc, ports>>

-----------------------------------------------------------------------------
Added == {v \in ViewPorts : \E l \in Layers : \E i \in DOMAIN layers[l] : layers[l][i] = v}

\* The layer of v without it.
Without(v) ==
  LET l == layers[LayerOf(v)]
      i == CHOOSE n \in DOMAIN l : l[n] = v
  IN [j \in 1..Len(l) - 1 |-> IF j < i THEN l[j] ELSE l[j + 1]]

Operation == ops < MaxOps /\ ops' = ops + 1 /\ UNCHANGED <<source, queue, flag, gpc, ongoing>>

\* gui_add_view_port (its assertions: not yet added, and only a full screen view
\* port is vertical).
AddViewPort(v) ==
  /\ Operation
  /\ v \notin Added
  /\ layers' = [layers EXCEPT ![LayerOf(v)] = Append(@, v)]
  /\ UNCHANGED <<enabled, lockdown, vertical, ongoingPort, given>>

\* A view port that was removed gets nothing more, and forgets what it got.
Forgotten(v) == held' = [held EXCEPT ![v] = {}] /\ open' = [open EXCEPT ![v] = {}]

\* gui_remove_view_port; the view port may be freed afterwards.  (Mutant: it
\* stays the one that gets the ongoing input.)
RemoveViewPort_StaysOngoing(v) ==
  /\ Operation
  /\ v \in Added
  /\ layers' = [layers EXCEPT ![LayerOf(v)] = Without(v)]
  /\ Forgotten(v)
  /\ UNCHANGED <<enabled, lockdown, vertical, ongoingPort>>
RemoveViewPort(v) ==
  /\ Operation
  /\ v \in Added
  /\ layers' = [layers EXCEPT ![LayerOf(v)] = Without(v)]
  /\ ongoingPort' = IF ongoingPort = v THEN NULL ELSE ongoingPort
  /\ Forgotten(v)
  /\ UNCHANGED <<enabled, lockdown, vertical>>

\* gui_view_port_send_to_front and gui_view_port_send_to_back.
SendToFront(v) ==
  /\ Operation
  /\ v \in Added
  /\ layers' = [layers EXCEPT ![LayerOf(v)] = Append(Without(v), v)]
  /\ UNCHANGED <<enabled, lockdown, vertical, ongoingPort, given>>

SendToBack(v) ==
  /\ Operation
  /\ v \in Added
  /\ layers' = [layers EXCEPT ![LayerOf(v)] = <<v>> \o Without(v)]
  /\ UNCHANGED <<enabled, lockdown, vertical, ongoingPort, given>>

\* view_port_enabled_set, without any lock.
EnabledSet(v) ==
  /\ Operation
  /\ enabled' = IF v \in enabled THEN enabled \ {v} ELSE enabled \cup {v}
  /\ UNCHANGED <<layers, lockdown, vertical, ongoingPort, given>>

\* view_port_set_orientation, without any lock, whatever is held meanwhile.
OrientationSet(v) ==
  /\ Operation
  /\ v \in FullPorts
  /\ vertical' = IF v \in vertical THEN vertical \ {v} ELSE vertical \cup {v}
  /\ UNCHANGED <<layers, enabled, lockdown, ongoingPort, given>>

\* gui_set_lockdown.
SetLockdown ==
  /\ Operation
  /\ lockdown' = ~lockdown
  /\ UNCHANGED <<layers, enabled, vertical, ongoingPort, given>>

-----------------------------------------------------------------------------
GuiStep == Signal \/ Woken \/ Drained \/ Input

PortStep ==
  \/ SetLockdown
  \/ \E v \in ViewPorts :
       AddViewPort(v) \/ RemoveViewPort(v) \/ SendToFront(v) \/ SendToBack(v)
       \/ EnabledSet(v) \/ OrientationSet(v)

Next ==
  \/ \E type \in Types, k \in Keys : Publish(type, k) \/ Inject(type, k)
  \/ GuiStep
  \/ PortStep

Spec == Init /\ [][Next]_vars

\* The publisher and the GUI thread run; the user lets go of every key.
FairSpec ==
  /\ Spec
  /\ WF_vars(Signal) /\ WF_vars(Woken \/ Drained \/ Input)
  /\ \A k \in Keys : SF_vars(Publish("Release", k))

-----------------------------------------------------------------------------
\* The chosen view port is one of the GUI's: view_port_input never finds a view
\* port without its GUI, nor one that was removed and freed.
NoInputAfterRemove == ongoingPort # NULL => ongoingPort \in Added

\* Input is never split: all keys whose Press and not yet Release went to some view
\* port went to the same one, the chosen one, and the GUI still counts them as
\* ongoing.  (An injected Press can split it: the key may be down already.)
OneViewPortAtATime ==
  injects = 0 => \A v \in ViewPorts : held[v] # {} => v = ongoingPort /\ held[v] \subseteq ongoing

\* The callback knows the keys that its view port holds by their present names.
\* Turned with an arrow held it does not: the Release has another name than the
\* Press.
NamesHold(v) == open[v] = NamesOf(held[v], v \in vertical)

\* The view port that got the Press of a key gets its Release, whatever comes in
\* front meanwhile, unless it is removed, or an event is injected; and then its
\* callback no longer sees a key of that name pressed, unless it was turned meanwhile.
PressIsReleased ==
  \A v \in ViewPorts, k \in Keys :
    k \in held[v] ~> \/ injects > 0
                     \/ /\ k \notin held[v]
                        /\ NamesHold(v) => NameOf(k, v \in vertical) \notin open[v]

\* Its core: the key is down still, or its Release waits in the queue, and will
\* go to this view port.
ReleaseIsAwaited ==
  injects = 0 => \A v \in ViewPorts : \A k \in held[v] :
    v = ongoingPort /\ (k \in down \/ \E i \in DOMAIN queue : queue[i] = <<"Release", k>>)

\* Nothing but the turning of a view port that holds an arrow, from one orientation
\* to the other, makes its callback take one key for another.
OnlyTurningConfuses ==
  [][\A v \in ViewPorts : NamesHold(v) /\ ~NamesHold(v)' =>
       held[v] \cap Arrows # {} /\ ~(v \in vertical <=> v \in vertical')]_vars

\* While the screen is locked down, no application's view port sees a key go
\* down.
LockdownShields ==
  [][lockdown => \A v \in FullPorts \cup WindowPorts : open'[v] \subseteq open[v]]_vars

\* What a view port's callback may rely on (module ViewDispatcher): whoever gets a
\* Press does not hold the key already, nor, unless it was turned while it held an
\* arrow, another key by the same name.  (A Release may come without its Press.)
PressInTurn ==
  injects = 0 /\ gpc = "drain" /\ queue # <<>> =>
    LET type == Head(queue)[1]  k == Head(queue)[2]  v == Chosen(type, k) IN
    type = "Press" /\ Receives(v, type) =>
      k \notin held[v] /\ (NamesHold(v) => NameOf(k, v \in vertical) \notin open[v])

\* No event is left in the queue while the thread sleeps: it is awake, or it will
\* be woken.
QueueIsServed == queue # <<>> => gpc = "drain" \/ flag \/ signal
=============================================================================
