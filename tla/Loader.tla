------------------------------- MODULE Loader -------------------------------
(***************************************************************************)
(* The application loader (applications/services/loader/loader.c) with the *)
(* one FuriThread it runs applications on (furi/core/thread.c).            *)
(*                                                                         *)
(* Starters call loader_start, or pick an application in the loader's menu *)
(* (loader_menu_callback does the same).  CLI threads execute commands: a  *)
(* command that is not parallel safe runs under the loader's lock          *)
(* (cli_execute_command); "loader open" is parallel safe and starts an     *)
(* application itself (loader_cli_open).  Next is the system without       *)
(* "loader open", CliNext the system with it.                              *)
(*                                                                         *)
(* The thread object is reused, the FreeRTOS task is not: task t is the    *)
(* t-th one, and a task's last steps can overlap the start of the next.    *)
(***************************************************************************)
EXTENDS Naturals, Sequences

CONSTANTS
  Starters,    \* the threads that call loader_start
  Cli,         \* the threads that execute CLI commands
  Apps,        \* the applications
  SafeApps,    \* those flagged FlipperApplicationFlagInsomniaSafe
  MaxTasks,    \* bound: how many applications are started
  NULL         \* no application, no arguments

ASSUME LoaderAssumption ==
  /\ SafeApps \subseteq Apps
  /\ Starters \cap Cli = {}
  /\ NULL \notin Starters \cup Cli \cup Apps
  /\ MaxTasks \in Nat

Threads == Starters \cup Cli
Tasks   == 1..MaxTasks

VARIABLES
  lockCount,   \* Loader.lock_count
  application, \* Loader.application
  args,        \* Loader.application_arguments: NULL or who allocated them
  thState,     \* FuriThread.state of the application thread
  ctx,         \* FuriThread.context
  pc,          \* where each starter and CLI thread is
  req,         \* the application it was asked for
  nTasks,      \* how many tasks were created
  tpc,         \* where each task is in furi_thread_body
  targ,        \* the context each task called its application with
  insomnia,    \* furi_hal_power.insomnia, the loader's share of it
  published,   \* the events of the loader's pubsub, in publication order
  failed       \* a furi_assert failed: the system has halted

loader == <<lockCount, application, args>>
thread == <<thState, ctx>>
caller == <<pc, req>>
task   == <<nTasks, tpc, targ>>
vars   == <<loader, thread, caller, task, insomnia, published, failed>>

PcThread == {"idle", "assign", "setup", "start", "count", "job"}
PcTask   == {"none", "body", "announce", "awake", "app", "stop", "freeargs",
             "sleep", "unlock", "goodbye", "deleted"}

TypeOK ==
  /\ lockCount \in 0..1
  /\ application \in Apps \cup {NULL}
  /\ args \in Threads \cup {NULL}
  /\ thState \in {"Stopped", "Starting", "Running"}
  /\ ctx \in Threads \cup {NULL}
  /\ pc \in [Threads -> PcThread]
  /\ req \in [Threads -> Apps \cup {NULL}]
  /\ nTasks \in 0..MaxTasks
  /\ tpc \in [Tasks -> PcTask]
  /\ targ \in [Tasks -> Threads \cup {NULL}]
  /\ insomnia \in Nat
  /\ published \in Seq({"Started", "Stopped"} \X Tasks)
  /\ failed \in BOOLEAN

Init ==
  /\ lockCount = 0
  /\ application = NULL
  /\ args = NULL
  /\ thState = "Stopped"
  /\ ctx = NULL
  /\ pc = [s \in Threads |-> "idle"]
  /\ req = [s \in Threads |-> NULL]
  /\ nTasks = 0
  /\ tpc = [t \in Tasks |-> "none"]
  /\ targ = [t \in Tasks |-> NULL]
  /\ insomnia = 0
  /\ published = <<>>
  /\ failed = FALSE

\* A failed furi_assert halts the system where it is.
FuriAssert(cond) ==
  /\ ~failed
  /\ failed' = ~cond
  /\ cond \/ UNCHANGED <<loader, thread, caller, task, insomnia, published>>

-----------------------------------------------------------------------------
\* loader_lock and loader_unlock, each a critical section.
\* (Mutants, here and below, are named after the definition they replace.)
Free == lockCount = 0
Unlocked_Never == lockCount
Unlocked == IF lockCount > 0 THEN lockCount - 1 ELSE lockCount

\* loader_start and loader_menu_callback: refuse when locked.
LoaderStart(s, a) ==
  /\ ~failed
  /\ pc[s] = "idle"
  /\ nTasks < MaxTasks
  /\ IF Free
       THEN /\ lockCount' = lockCount + 1
            /\ pc' = [pc EXCEPT ![s] = "assign"]
            /\ req' = [req EXCEPT ![s] = a]
            /\ UNCHANGED <<application, args, thread, task, insomnia, published, failed>>
       ELSE UNCHANGED vars

\* loader_start_application: the loader's fields ...
Assign(s) ==
  /\ pc[s] = "assign"
  /\ FuriAssert(args = NULL)
  /\ ~failed' => /\ application' = req[s]
                 /\ args' \in {NULL, s}
                 /\ pc' = [pc EXCEPT ![s] = "setup"]
                 /\ UNCHANGED <<lockCount, thread, req, task, insomnia, published>>

\* ... the thread's name, stack size, context and callback ...
Setup(s) ==
  /\ pc[s] = "setup"
  /\ FuriAssert(thState = "Stopped")
  /\ ~failed' => /\ ctx' = args
                 /\ pc' = [pc EXCEPT ![s] = "start"]
                 /\ UNCHANGED <<loader, thState, req, task, insomnia, published>>

\* ... and furi_thread_start.
Start(s) ==
  /\ pc[s] = "start"
  /\ nTasks < MaxTasks
  /\ FuriAssert(thState = "Stopped")
  /\ ~failed' => /\ thState' = "Starting"
                 /\ nTasks' = nTasks + 1
                 /\ tpc' = [tpc EXCEPT ![nTasks + 1] = "body"]
                 /\ pc' = [pc EXCEPT ![s] = IF s \in Cli THEN "count" ELSE "idle"]
                 /\ UNCHANGED <<loader, ctx, req, targ, insomnia, published>>

\* cli_execute_command, for a command that is not parallel safe.
RunCommand(s) ==
  /\ ~failed
  /\ pc[s] = "idle"
  /\ IF Free THEN /\ lockCount' = lockCount + 1
                  /\ pc' = [pc EXCEPT ![s] = "job"]
             ELSE UNCHANGED <<lockCount, pc>>
  /\ UNCHANGED <<application, args, thread, req, task, insomnia, published, failed>>

CommandDone(s) ==
  /\ ~failed
  /\ pc[s] = "job"
  /\ pc' = [pc EXCEPT ![s] = "idle"]
  /\ lockCount' = Unlocked
  /\ UNCHANGED <<application, args, thread, req, task, insomnia, published, failed>>

\* loader_cli_open: looks at the lock but does not take it ...
CliOpen(s, a) ==
  /\ ~failed
  /\ pc[s] = "idle"
  /\ nTasks < MaxTasks
  /\ lockCount = 0
  /\ pc' = [pc EXCEPT ![s] = "assign"]
  /\ req' = [req EXCEPT ![s] = a]
  /\ UNCHANGED <<loader, thread, task, insomnia, published, failed>>

\* ... and counts itself once the application has been started.
CliCount(s) ==
  /\ ~failed
  /\ pc[s] = "count"
  /\ pc' = [pc EXCEPT ![s] = "idle"]
  /\ lockCount' = (lockCount + 1) % 256
  /\ UNCHANGED <<application, args, thread, req, task, insomnia, published, failed>>

-----------------------------------------------------------------------------
At(t, here, there) ==
  /\ ~failed
  /\ tpc[t] = here
  /\ tpc' = [tpc EXCEPT ![t] = there]
  /\ UNCHANGED nTasks

Publish(type, t) == published' = Append(published, <<type, t>>)

\* "!flags & InsomniaSafe" is flags == 0: the flag InsomniaSafe is bit 0 and the
\* only one there is.
KeepsAwake == application \notin SafeApps

\* furi_thread_body sets the state first and then calls the state callback.
Body(t) ==
  /\ tpc[t] = "body"
  /\ FuriAssert(thState = "Starting")
  /\ ~failed' => /\ At(t, "body", "announce")
                 /\ thState' = "Running"
                 /\ UNCHANGED <<loader, ctx, caller, targ, insomnia, published>>

\* loader_thread_state_callback(Running).
Announce(t) ==
  /\ At(t, "announce", "awake")
  /\ Publish("Started", t)
  /\ UNCHANGED <<loader, thread, caller, targ, insomnia, failed>>

\* Mutant: the arguments are freed when the application is called.
EnterInsomnia_FreesArgs(t) ==
  /\ At(t, "awake", "app")
  /\ args' = NULL /\ targ' = [targ EXCEPT ![t] = ctx]
  /\ UNCHANGED <<lockCount, application, thread, caller, insomnia, published, failed>>

EnterInsomnia(t) ==
  /\ At(t, "awake", "app")
  /\ insomnia' = IF KeepsAwake THEN insomnia + 1 ELSE insomnia
  /\ targ' = [targ EXCEPT ![t] = ctx]
  /\ UNCHANGED <<loader, thread, caller, published, failed>>

\* The application returns; the heap trace waits 33 ms; stdout is flushed.
AppReturns(t) ==
  /\ At(t, "app", "stop")
  /\ UNCHANGED <<loader, thread, caller, targ, insomnia, published, failed>>

Stop(t) ==
  /\ tpc[t] = "stop"
  /\ FuriAssert(thState = "Running")
  /\ ~failed' => /\ At(t, "stop", "freeargs")
                 /\ thState' = "Stopped"
                 /\ UNCHANGED <<loader, ctx, caller, targ, insomnia, published>>

\* Mutant: the arguments are not freed.
FreeArgs_Leak(t) ==
  /\ At(t, "freeargs", "sleep")
  /\ UNCHANGED <<loader, thread, caller, targ, insomnia, published, failed>>

\* loader_thread_state_callback(Stopped).
FreeArgs(t) ==
  /\ At(t, "freeargs", "sleep")
  /\ args' = NULL
  /\ UNCHANGED <<lockCount, application, thread, caller, targ, insomnia, published, failed>>

\* Mutant: the insomnia level is not restored.
ExitInsomnia_Never(t) ==
  /\ At(t, "sleep", "unlock")
  /\ UNCHANGED <<loader, thread, caller, targ, insomnia, published, failed>>

\* Mutant: unlock before the insomnia level is restored.
ExitInsomnia_UnlockFirst(t) ==
  /\ At(t, "sleep", "unlock")
  /\ lockCount' = Unlocked
  /\ UNCHANGED <<application, args, thread, caller, targ, insomnia, published, failed>>

ExitInsomnia(t) ==
  /\ tpc[t] = "sleep"
  /\ FuriAssert(KeepsAwake => insomnia > 0)
  /\ ~failed' => /\ At(t, "sleep", "unlock")
                 /\ insomnia' = IF KeepsAwake THEN insomnia - 1 ELSE insomnia
                 /\ UNCHANGED <<loader, thread, caller, targ, published>>

Unlock(t) ==
  /\ At(t, "unlock", "goodbye")
  /\ lockCount' = Unlocked
  /\ UNCHANGED <<application, args, thread, caller, targ, insomnia, published, failed>>

Goodbye(t) ==
  /\ At(t, "goodbye", "deleted")
  /\ Publish("Stopped", t)
  /\ UNCHANGED <<loader, thread, caller, targ, insomnia, failed>>

-----------------------------------------------------------------------------
ThreadStep(s) == Assign(s) \/ Setup(s) \/ Start(s) \/ CommandDone(s)

TaskStep(t) ==
  \/ Body(t) \/ Announce(t) \/ EnterInsomnia(t) \/ AppReturns(t) \/ Stop(t)
  \/ FreeArgs(t) \/ ExitInsomnia(t) \/ Unlock(t) \/ Goodbye(t)

Next ==
  \/ \E s \in Starters, a \in Apps : LoaderStart(s, a)
  \/ \E s \in Cli : RunCommand(s)
  \/ \E s \in Threads : ThreadStep(s)
  \/ \E t \in Tasks : TaskStep(t)

CliNext ==
  \/ Next
  \/ \E s \in Cli : (\E a \in Apps : CliOpen(s, a)) \/ CliCount(s)

Spec    == Init /\ [][Next]_vars
CliSpec == Init /\ [][CliNext]_vars

-----------------------------------------------------------------------------
\* The threads and tasks that own the lock: from loader_lock to loader_unlock,
\* the ownership passes from the starter to the task it creates.
Owners ==
  {<<"thread", s>> : s \in {x \in Threads : pc[x] \in {"assign", "setup", "start", "job"}}}
    \cup {<<"task", t>> : t \in {x \in Tasks : tpc[x] \notin {"none", "goodbye", "deleted"}}}

\* None of the assertions of thread.c, loader.c and furi_hal_power.c fails.
NoAssertFails == ~failed

\* One application, or one command that needs the device for itself, at a time.
OneOwner == \A o1, o2 \in Owners : o1 = o2

\* The lock is held exactly as long as somebody owns it: nobody unlocks for
\* another, and no lock is left behind.
LockExact == lockCount = IF Owners = {} THEN 0 ELSE 1

\* The arguments of a running application are not freed, nor replaced by the
\* arguments of the next one, before it has returned.
ArgsOutliveApp ==
  \A t \in Tasks : tpc[t] \in {"app", "stop", "freeargs"} => targ[t] = args

\* The insomnia level is restored after every application.
InsomniaRestored ==
  (\A t \in Tasks : tpc[t] \notin {"app", "stop", "freeargs", "sleep"}) => insomnia = 0
=============================================================================
