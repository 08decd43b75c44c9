---------------------------- MODULE DesktopLoader ----------------------------
(***************************************************************************)
(* The desktop service listening to the loader (applications/services/     *)
(* desktop/desktop.c, with the freeze and continue of                      *)
(* animations/animation_manager.c): the loader's events, and the auto lock *)
(* timer's, become custom events in the desktop's queue, and the desktop   *)
(* handles them later, in its own thread.                                  *)
(*                                                                         *)
(* A full queue blocks whoever puts: the loader inside its publication, or *)
(* the timer task (furi_message_queue_put waits for ever).                 *)
(*                                                                         *)
(* A CLI command holds the loader's lock as an application does, but       *)
(* publishes nothing: the desktop sees it only where it looks at the lock. *)
(***************************************************************************)
EXTENDS Loader

CONSTANTS
  QueueSize,   \* the length of the view dispatcher's queue
  MaxSubs      \* bound: the input subscriptions the user's unlocking leaves

ASSUME DesktopAssumption == QueueSize \in Nat \ {0} /\ MaxSubs \in Nat

VARIABLES
  dpc,         \* where the desktop's thread is: check, subscribe, arm, run
  subscribed,  \* it is subscribed to the loader's events
  queue,       \* the custom events in its view dispatcher's queue
  anim,        \* AnimationManager.state
  armed,       \* Desktop.input_events_subscription # NULL
  subs,        \* how many input subscriptions of the desktop exist
  timer,       \* Desktop.auto_lock_timer runs
  locked,      \* the desktop shows the locked scene
  missed,      \* history: a CLI command was running when the device should
               \* have been locked, or the timer armed, the last time
  halted       \* an assertion of the animation manager failed

desktop == <<dpc, subscribed, anim, armed, subs, timer, locked>>
dvars   == <<vars, queue, desktop, missed, halted>>

DesktopInit ==
  /\ Init
  /\ queue = <<>>
  /\ anim \in {"Idle", "Blocked"}
  /\ armed = FALSE
  /\ subs = 0
  /\ timer = FALSE
  /\ locked = FALSE
  /\ missed = FALSE
  /\ halted = FALSE

DesktopFlags ==
  /\ subscribed \in BOOLEAN /\ armed \in BOOLEAN /\ timer \in BOOLEAN
  /\ locked \in BOOLEAN /\ missed \in BOOLEAN /\ halted \in BOOLEAN

\* An input subscription that the desktop remembers exists.
DesktopTypeOK ==
  /\ DesktopFlags
  /\ dpc \in {"check", "subscribe", "arm", "run"}
  /\ queue \in Seq({"Started", "Stopped", "AutoLock"}) /\ Len(queue) <= QueueSize
  /\ anim \in {"Idle", "Blocked", "FreezedIdle", "FreezedBlocked"}
  /\ subs \in Nat /\ (armed => subs > 0)

\* The desktop starts while the loader is at work ...
Boot == DesktopInit /\ dpc = "check" /\ subscribed = FALSE

\* ... or has started before anybody starts an application.
Booted == DesktopInit /\ dpc = "arm" /\ subscribed = TRUE

-----------------------------------------------------------------------------
\* The loader's own steps; desktop_loader_callback queues what it publishes.
LoaderStep ==
  /\ ~halted
  /\ Next
  /\ queue' = IF subscribed /\ published' # published
              THEN Append(queue, published'[Len(published')][1]) ELSE queue
  /\ Len(queue') <= QueueSize
  /\ UNCHANGED <<desktop, missed, halted>>

\* A failed furi_assert halts the system where it is.
Halt == halted' = TRUE /\ UNCHANGED <<vars, queue, desktop, missed>>
Loaded == anim \in {"Idle", "Blocked"}

\* animation_manager_unload_and_stall_animation and ..._load_and_continue_...:
\* when it was idle it may come back blocked, or with a new idle animation.
Freeze   == anim' = IF anim = "Idle" THEN "FreezedIdle" ELSE "FreezedBlocked"
Continue == anim' \in IF anim = "FreezedIdle" THEN {"Idle", "Blocked"} ELSE {"Blocked"}

\* desktop_auto_lock_arm overwrites input_events_subscription.  (Mutant: it
\* does not start the timer.)
Arm_NoTimer == armed' = TRUE /\ subs' = subs + 1 /\ missed' = FALSE /\ UNCHANGED timer
Arm == armed' = TRUE /\ subs' = subs + 1 /\ timer' = TRUE /\ missed' = FALSE

\* It is a command that holds the lock that the desktop finds taken.
CommandRuns == \E s \in Cli : pc[s] = "job"

\* desktop_auto_lock_inhibit.
Inhibit ==
  /\ timer' = FALSE
  /\ subs' = IF armed THEN subs - 1 ELSE subs
  /\ armed' = FALSE

\* desktop_alloc: an application that runs already has no Started event to come.
BootCheck ==
  /\ ~halted
  /\ dpc = "check"
  /\ dpc' = "subscribe"
  /\ IF lockCount > 0 THEN Freeze ELSE UNCHANGED anim
  /\ UNCHANGED <<vars, queue, subscribed, armed, subs, timer, locked, missed, halted>>

BootSubscribe ==
  /\ ~halted
  /\ dpc = "subscribe"
  /\ dpc' = "arm"
  /\ subscribed' = TRUE
  /\ UNCHANGED <<vars, queue, anim, armed, subs, timer, locked, missed, halted>>

\* desktop_srv: without a PIN lock, the timer is armed unless an application
\* runs (the settings' auto_lock_delay_ms is not zero).
BootArm ==
  /\ ~halted
  /\ dpc = "arm"
  /\ dpc' = "run"
  /\ \/ /\ IF lockCount = 0 THEN Arm ELSE missed' = CommandRuns /\ UNCHANGED <<armed, subs, timer>>
        /\ UNCHANGED locked
     \/ Inhibit /\ locked' = TRUE /\ UNCHANGED missed
  /\ UNCHANGED <<vars, queue, subscribed, anim, halted>>

\* desktop_custom_event_callback.
BeforeAppStarted ==
  /\ Head(queue) = "Started"
  /\ IF Loaded THEN /\ queue' = Tail(queue)
                    /\ Freeze /\ Inhibit
                    /\ UNCHANGED <<vars, dpc, subscribed, locked, missed, halted>>
               ELSE Halt

AfterAppFinished ==
  /\ Head(queue) = "Stopped"
  /\ IF ~Loaded THEN /\ queue' = Tail(queue)
                     /\ Continue /\ Arm
                     /\ UNCHANGED <<vars, dpc, subscribed, locked, halted>>
                ELSE Halt

AutoLock ==
  /\ Head(queue) = "AutoLock"
  /\ queue' = Tail(queue)
  /\ IF lockCount = 0 THEN Inhibit /\ locked' = TRUE /\ UNCHANGED missed
                      ELSE missed' = (missed \/ CommandRuns) /\ UNCHANGED <<armed, subs, timer, locked>>
  /\ UNCHANGED <<vars, dpc, subscribed, anim, halted>>

Handle ==
  /\ ~halted
  /\ dpc = "run"
  /\ queue # <<>>
  /\ BeforeAppStarted \/ AfterAppFinished \/ AutoLock

\* desktop_auto_lock_timer_callback: the timer is a one-shot.
TimerExpires ==
  /\ ~halted
  /\ timer
  /\ Len(queue) < QueueSize
  /\ timer' = FALSE
  /\ queue' = Append(queue, "AutoLock")
  /\ UNCHANGED <<vars, dpc, subscribed, anim, armed, subs, locked, missed, halted>>

\* desktop_input_event_callback: a key restarts the timer.
KeyPressed ==
  /\ ~halted
  /\ subs > 0
  /\ timer' = TRUE
  /\ UNCHANGED <<vars, queue, dpc, subscribed, anim, armed, subs, locked, missed, halted>>

\* desktop_unlock, when the user enters the unlock sequence.
UserUnlocks ==
  /\ ~halted
  /\ locked
  /\ subs < MaxSubs
  /\ locked' = FALSE
  /\ Arm
  /\ UNCHANGED <<vars, queue, dpc, subscribed, anim, halted>>

DesktopNext ==
  \/ LoaderStep
  \/ BootCheck \/ BootSubscribe \/ BootArm \/ Handle
  \/ TimerExpires \/ KeyPressed \/ UserUnlocks

\* The loader's threads and tasks run, applications and commands return, the
\* desktop runs, and time passes.
\* A task that waits to put its event is served: the kernel queues the writers
\* of a full queue, and the desktop empties it again and again.
DesktopFairness ==
  /\ \A s \in Threads : WF_dvars(ThreadStep(s) /\ LoaderStep)
  /\ \A t \in Tasks : SF_dvars(TaskStep(t) /\ LoaderStep)
  /\ WF_dvars(BootCheck \/ BootSubscribe \/ BootArm \/ Handle)
  /\ WF_dvars(TimerExpires)

DesktopSpec     == (Boot \/ Booted) /\ [][DesktopNext]_dvars
FairDesktopSpec == DesktopSpec /\ DesktopFairness

BootedSpec == Booted /\ [][DesktopNext]_dvars

-----------------------------------------------------------------------------
\* The device always locks itself again, unless an assertion halts it: an auto
\* lock event that comes while an application runs is dropped, but the end of
\* the application arms the timer anew, whenever the desktop was started.  The
\* end of a command does not: an event dropped for a command (missed) leaves the
\* device unlocked until a key or an application starts the timer again.
DeviceLocksAgain == []<>(locked \/ halted \/ missed)

\* Its core: whatever the threads have done, a device that is neither locked nor
\* halted has a reason to lock itself on its way: the timer, an event in the
\* queue, or an application whose end will be published.
Handed(q, event) == \E i \in DOMAIN q : q[i] = event
EndIsComing ==
  \/ \E t \in Tasks : tpc[t] \notin {"none", "deleted"}
  \/ \E s \in Threads : pc[s] \in {"assign", "setup", "start"}
LockIsPending ==
  dpc = "run" /\ ~halted /\ ~missed /\ ~locked =>
    timer \/ Handed(queue, "AutoLock") \/ Handed(queue, "Stopped") \/ EndIsComing

\* The application that was started ends, and the loader can start another: the
\* desktop, whose queue the application's thread waits for, does not stop it.
LoaderFreed == lockCount > 0 ~> lockCount = 0 \/ halted

\* The animation manager freezes an animation that is shown and continues one
\* that is frozen: furi_assert(animation_manager->current_animation).
AnimationsAlternate == ~halted
==============================================================================
