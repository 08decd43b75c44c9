---------------------------- MODULE LoaderProofs ----------------------------
(***************************************************************************)
(* Proofs about the loader, for any number of starters, CLI threads,       *)
(* applications and starts: the lock's ownership passes from the thread    *)
(* that starts an application to the task that runs it, and nothing else   *)
(* touches the application thread in the meantime.  The desktop, with its  *)
(* queue and its looks at the lock, adds no step to the loader.            *)
(***************************************************************************)
EXTENDS DesktopLoader, TLAPS

Section == {"assign", "setup", "start", "job"}
Alive   == {"body", "announce", "awake", "app", "stop", "freeargs", "sleep", "unlock"}
Awake   == {"app", "stop", "freeargs", "sleep"}

\* At most one owner of the lock, and lock_count says whether there is one.
Exclusion ==
  /\ \A s, u \in Threads : pc[s] \in Section /\ pc[u] \in Section => s = u
  /\ \A t, u \in Tasks : tpc[t] \in Alive /\ tpc[u] \in Alive => t = u
  /\ \A s \in Threads, t \in Tasks : ~(pc[s] \in Section /\ tpc[t] \in Alive)
  /\ \A s \in Threads : pc[s] \in Section => lockCount = 1
  /\ \A t \in Tasks : tpc[t] \in Alive => lockCount = 1
  /\ \/ lockCount = 0
     \/ \E s \in Threads : pc[s] \in Section
     \/ \E t \in Tasks : tpc[t] \in Alive

\* What the owner knows of the application thread's state.
ThreadInv ==
  /\ \A t \in Tasks :
       /\ tpc[t] = "body" => thState = "Starting"
       /\ tpc[t] \in {"announce", "awake", "app", "stop"} => thState = "Running"
       /\ tpc[t] \in {"freeargs", "sleep", "unlock"} => thState = "Stopped"
  /\ (\A t \in Tasks : tpc[t] \notin Alive) => thState = "Stopped"

\* What the owner knows of the arguments.
ArgsInv ==
  /\ lockCount = 0 => args = NULL
  /\ \A s \in Threads :
       /\ pc[s] \in {"assign", "job"} => args = NULL
       /\ pc[s] = "start" => ctx = args
  /\ \A t \in Tasks :
       /\ tpc[t] \in {"body", "announce", "awake"} => ctx = args
       /\ tpc[t] \in {"app", "stop", "freeargs"} => targ[t] = args
       /\ tpc[t] \in {"sleep", "unlock"} => args = NULL

AwakeInv ==
  /\ \A t \in Tasks : tpc[t] \in Awake => insomnia = IF KeepsAwake THEN 1 ELSE 0
  /\ (\A t \in Tasks : tpc[t] \notin Awake) => insomnia = 0

\* "loader open" is not used, and tasks are numbered in the order of creation.
TaskInv ==
  /\ \A s \in Threads : pc[s] # "count"
  /\ \A s \in Cli : pc[s] \in {"idle", "job"}
  /\ \A s \in Starters : pc[s] # "job"
  /\ \A s \in Threads : pc[s] \in {"assign", "setup", "start"} => nTasks < MaxTasks /\ req[s] \in Apps
  /\ \A t \in Tasks : t > nTasks => tpc[t] = "none"

IInv ==
  /\ TypeOK
  /\ failed = FALSE
  /\ Exclusion
  /\ ThreadInv
  /\ ArgsInv
  /\ AwakeInv
  /\ TaskInv

USE DEF Threads, Tasks

-----------------------------------------------------------------------------
LEMMA InitIInv == Init => IInv
<1> SUFFICES ASSUME Init PROVE IInv
  OBVIOUS
<1>1. TypeOK /\ failed = FALSE
  <2>1. nTasks \in 0..MaxTasks /\ lockCount \in 0..1 /\ insomnia \in Nat
    BY LoaderAssumption DEF Init
  <2>2. published \in Seq({"Started", "Stopped"} \X Tasks)
    BY DEF Init
  <2> QED BY <2>1, <2>2 DEF Init, TypeOK, PcThread, PcTask
<1>2. Exclusion /\ ThreadInv /\ ArgsInv
  BY DEF Init, Exclusion, ThreadInv, ArgsInv, Section, Alive
<1>3. AwakeInv /\ TaskInv
  BY DEF Init, AwakeInv, TaskInv, Awake
<1> QED BY <1>1, <1>2, <1>3 DEF IInv

LEMMA StutterIInv == ASSUME IInv, UNCHANGED vars PROVE IInv'
BY DEF IInv, vars, loader, thread, caller, task, TypeOK, Exclusion, ThreadInv,
       ArgsInv, AwakeInv, KeepsAwake, TaskInv

LEMMA LoaderStartIInv ==
  ASSUME IInv, NEW s \in Starters, NEW a \in Apps, LoaderStart(s, a)
  PROVE  IInv'
<1>1. CASE ~Free
  BY <1>1, StutterIInv DEF LoaderStart
<1>2. CASE Free
  <2>0. /\ lockCount = 0 /\ lockCount' = 1 /\ pc[s] = "idle" /\ nTasks < MaxTasks
        /\ pc' = [pc EXCEPT ![s] = "assign"] /\ req' = [req EXCEPT ![s] = a]
        /\ UNCHANGED <<application, args, thread, task, insomnia, published, failed>>
    BY <1>2 DEF LoaderStart, Free, IInv, TypeOK
  <2> USE <2>0 DEF IInv, thread, task
  <2>1. (TypeOK /\ failed = FALSE)'
    BY DEF TypeOK, PcThread
  <2>2. Exclusion'
    BY DEF Exclusion, Section, TypeOK
  <2>3. ThreadInv' /\ ArgsInv'
    BY DEF ThreadInv, ArgsInv, Exclusion, Section, TypeOK
  <2>4. AwakeInv' /\ TaskInv'
    BY LoaderAssumption DEF AwakeInv, KeepsAwake, TaskInv, TypeOK
  <2> QED BY <2>1, <2>2, <2>3, <2>4
<1> QED BY <1>1, <1>2

LEMMA RunCommandIInv == ASSUME IInv, NEW s \in Cli, RunCommand(s) PROVE IInv'
<1>1. CASE ~Free
  BY <1>1, StutterIInv DEF RunCommand, vars, loader, caller
<1>2. CASE Free
  <2> USE <1>2 DEF IInv, RunCommand, Free, thread, task
  <2>1. (TypeOK /\ failed = FALSE)'
    BY DEF TypeOK, PcThread
  <2>2. Exclusion'
    BY DEF Exclusion, Section, TypeOK
  <2>3. ThreadInv' /\ ArgsInv'
    BY DEF ThreadInv, ArgsInv, Exclusion, Section, TypeOK
  <2>4. AwakeInv' /\ TaskInv'
    BY LoaderAssumption DEF AwakeInv, KeepsAwake, TaskInv, TypeOK
  <2> QED BY <2>1, <2>2, <2>3, <2>4
<1> QED BY <1>1, <1>2

LEMMA CommandDoneIInv == ASSUME IInv, NEW s \in Threads, CommandDone(s) PROVE IInv'
<1> USE DEF IInv, CommandDone, Unlocked, thread, task
<1>1. (TypeOK /\ failed = FALSE)'
  BY DEF TypeOK, PcThread
<1>2. Exclusion'
  BY DEF Exclusion, Section, TypeOK
<1>3. ThreadInv' /\ ArgsInv'
  BY DEF ThreadInv, ArgsInv, Exclusion, Section, TypeOK
<1>4. AwakeInv' /\ TaskInv'
  BY DEF AwakeInv, KeepsAwake, TaskInv, TypeOK
<1> QED BY <1>1, <1>2, <1>3, <1>4

\* The first assertion, application_arguments == NULL, holds.
LEMMA AssignIInv == ASSUME IInv, NEW s \in Threads, Assign(s) PROVE IInv'
<1> USE DEF IInv
<1>1. args = NULL
  BY DEF Assign, ArgsInv
<1>2. /\ failed' = FALSE
      /\ application' = req[s] /\ args' \in {NULL, s}
      /\ pc' = [pc EXCEPT ![s] = "setup"]
      /\ UNCHANGED <<lockCount, thread, req, task, insomnia, published>>
  BY <1>1 DEF Assign, FuriAssert
<1> USE <1>2 DEF Assign, thread, task
<1>3. TypeOK'
  BY DEF TypeOK, PcThread, TaskInv
<1>4. Exclusion'
  BY DEF Exclusion, Section, TypeOK
<1>5. ThreadInv' /\ ArgsInv'
  BY DEF ThreadInv, ArgsInv, Exclusion, Section, Alive, TypeOK
<1>6. AwakeInv' /\ TaskInv'
  BY DEF AwakeInv, Awake, TaskInv, Exclusion, Section, Alive, TypeOK
<1> QED BY <1>3, <1>4, <1>5, <1>6

\* The thread is stopped when it is set up ...
LEMMA SetupIInv == ASSUME IInv, NEW s \in Threads, Setup(s) PROVE IInv'
<1> USE DEF IInv
<1>1. thState = "Stopped"
  BY DEF Setup, ThreadInv, Exclusion, Section
<1>2. /\ failed' = FALSE
      /\ ctx' = args /\ pc' = [pc EXCEPT ![s] = "start"]
      /\ UNCHANGED <<loader, thState, req, task, insomnia, published>>
  BY <1>1 DEF Setup, FuriAssert
<1> USE <1>2 DEF Setup, loader, task
<1>3. TypeOK'
  BY DEF TypeOK, PcThread
<1>4. Exclusion'
  BY DEF Exclusion, Section, TypeOK
<1>5. ThreadInv' /\ ArgsInv'
  BY DEF ThreadInv, ArgsInv, Exclusion, Section, Alive, TypeOK
<1>6. AwakeInv' /\ TaskInv'
  BY DEF AwakeInv, KeepsAwake, TaskInv, TypeOK
<1> QED BY <1>3, <1>4, <1>5, <1>6

\* ... and when it is started; the ownership passes to the new task.
LEMMA StartIInv == ASSUME IInv, NEW s \in Threads, Start(s) PROVE IInv'
<1> USE DEF IInv
<1>1. thState = "Stopped"
  BY DEF Start, ThreadInv, Exclusion, Section
<1>2. s \notin Cli
  BY DEF Start, TaskInv
<1>3. /\ failed' = FALSE /\ thState' = "Starting"
      /\ nTasks' = nTasks + 1
      /\ tpc' = [tpc EXCEPT ![nTasks + 1] = "body"]
      /\ pc' = [pc EXCEPT ![s] = "idle"]
      /\ UNCHANGED <<loader, ctx, req, targ, insomnia, published>>
  BY <1>1, <1>2 DEF Start, FuriAssert
<1>4. nTasks + 1 \in Tasks /\ tpc[nTasks + 1] = "none"
  BY LoaderAssumption DEF Start, TypeOK, TaskInv
<1> USE <1>3, <1>4 DEF Start, loader
<1>5. TypeOK'
  <2>1. nTasks' \in 0..MaxTasks
    BY LoaderAssumption DEF TypeOK
  <2>2. tpc' \in [Tasks -> PcTask]
    BY DEF TypeOK, PcTask
  <2>3. pc' \in [Threads -> PcThread]
    BY DEF TypeOK, PcThread
  <2> QED BY <2>1, <2>2, <2>3 DEF TypeOK
<1>6. Exclusion'
  BY DEF Exclusion, Section, Alive, TypeOK
<1>7. ThreadInv' /\ ArgsInv'
  BY DEF ThreadInv, ArgsInv, Exclusion, Section, Alive, TypeOK
<1>8. AwakeInv'
  BY DEF AwakeInv, KeepsAwake, Awake, TypeOK
<1>9. TaskInv'
  <2>1. \A u \in Threads : pc'[u] \notin {"assign", "setup", "start"}
    BY DEF Exclusion, Section, TypeOK
  <2> QED BY <2>1, LoaderAssumption DEF TaskInv, TypeOK
<1> QED BY <1>5, <1>6, <1>7, <1>8, <1>9

-----------------------------------------------------------------------------
LEMMA BodyIInv == ASSUME IInv, NEW t \in Tasks, Body(t) PROVE IInv'
<1> USE DEF IInv
<1>1. failed' = FALSE /\ At(t, "body", "announce") /\ thState' = "Running"
      /\ UNCHANGED <<loader, ctx, caller, targ, insomnia, published>>
  BY DEF Body, FuriAssert, ThreadInv
<1> USE <1>1 DEF At, loader, caller
<1>2. TypeOK'
  BY DEF TypeOK, PcTask
<1>3. Exclusion'
  BY DEF Exclusion, Alive, TypeOK
<1>4. ThreadInv' /\ ArgsInv'
  BY DEF ThreadInv, ArgsInv, Exclusion, Alive, TypeOK
<1>5. AwakeInv' /\ TaskInv'
  BY DEF AwakeInv, KeepsAwake, Awake, TaskInv, TypeOK
<1> QED BY <1>2, <1>3, <1>4, <1>5

LEMMA AnnounceIInv == ASSUME IInv, NEW t \in Tasks, Announce(t) PROVE IInv'
<1> USE DEF IInv, Announce, At, Publish, loader, caller, thread
<1>1. (TypeOK /\ failed = FALSE)'
  BY DEF TypeOK, PcTask
<1>2. Exclusion'
  BY DEF Exclusion, Alive, TypeOK
<1>3. ThreadInv' /\ ArgsInv'
  BY DEF ThreadInv, ArgsInv, Exclusion, Alive, TypeOK
<1>4. AwakeInv' /\ TaskInv'
  BY DEF AwakeInv, KeepsAwake, Awake, TaskInv, TypeOK
<1> QED BY <1>1, <1>2, <1>3, <1>4

LEMMA EnterInsomniaIInv == ASSUME IInv, NEW t \in Tasks, EnterInsomnia(t) PROVE IInv'
<1> USE DEF IInv, EnterInsomnia, At, loader, caller, thread
<1>1. (TypeOK /\ failed = FALSE)'
  BY DEF TypeOK, PcTask
<1>2. Exclusion'
  BY DEF Exclusion, Alive, TypeOK
<1>3. ThreadInv' /\ ArgsInv'
  BY DEF ThreadInv, ArgsInv, Exclusion, Alive, TypeOK
<1>4. AwakeInv'
  <2>1. \A u \in Tasks : tpc[u] \notin Awake
    BY DEF Exclusion, Alive, Awake
  <2> QED BY <2>1 DEF AwakeInv, KeepsAwake, Awake, TypeOK
<1>5. TaskInv'
  BY DEF TaskInv, TypeOK
<1> QED BY <1>1, <1>2, <1>3, <1>4, <1>5

LEMMA AppReturnsIInv == ASSUME IInv, NEW t \in Tasks, AppReturns(t) PROVE IInv'
<1> USE DEF IInv, AppReturns, At, loader, caller, thread
<1>1. (TypeOK /\ failed = FALSE)'
  BY DEF TypeOK, PcTask
<1>2. Exclusion'
  BY DEF Exclusion, Alive, TypeOK
<1>3. ThreadInv' /\ ArgsInv'
  BY DEF ThreadInv, ArgsInv, Exclusion, Alive, TypeOK
<1>4. AwakeInv' /\ TaskInv'
  BY DEF AwakeInv, KeepsAwake, Awake, TaskInv, TypeOK
<1> QED BY <1>1, <1>2, <1>3, <1>4

LEMMA StopIInv == ASSUME IInv, NEW t \in Tasks, Stop(t) PROVE IInv'
<1> USE DEF IInv
<1>1. failed' = FALSE /\ At(t, "stop", "freeargs") /\ thState' = "Stopped"
      /\ UNCHANGED <<loader, ctx, caller, targ, insomnia, published>>
  BY DEF Stop, FuriAssert, ThreadInv
<1> USE <1>1 DEF At, loader, caller
<1>2. TypeOK'
  BY DEF TypeOK, PcTask
<1>3. Exclusion'
  BY DEF Exclusion, Alive, TypeOK
<1>4. ThreadInv' /\ ArgsInv'
  BY DEF ThreadInv, ArgsInv, Exclusion, Alive, TypeOK
<1>5. AwakeInv' /\ TaskInv'
  BY DEF AwakeInv, KeepsAwake, Awake, TaskInv, TypeOK
<1> QED BY <1>2, <1>3, <1>4, <1>5

LEMMA FreeArgsIInv == ASSUME IInv, NEW t \in Tasks, FreeArgs(t) PROVE IInv'
<1> USE DEF IInv, FreeArgs, At, caller, thread
<1>1. (TypeOK /\ failed = FALSE)'
  BY DEF TypeOK, PcTask
<1>2. Exclusion'
  BY DEF Exclusion, Alive, TypeOK
<1>3. ThreadInv'
  BY DEF ThreadInv, Exclusion, Alive, TypeOK
<1>4. ArgsInv'
  BY DEF ArgsInv, Exclusion, Alive, Section, TypeOK
<1>5. AwakeInv' /\ TaskInv'
  BY DEF AwakeInv, KeepsAwake, Awake, TaskInv, TypeOK
<1> QED BY <1>1, <1>2, <1>3, <1>4, <1>5

LEMMA ExitInsomniaIInv == ASSUME IInv, NEW t \in Tasks, ExitInsomnia(t) PROVE IInv'
<1> USE DEF IInv
<1>1. insomnia = IF KeepsAwake THEN 1 ELSE 0
  BY DEF ExitInsomnia, AwakeInv, Awake
<1>2. failed' = FALSE /\ At(t, "sleep", "unlock") /\ insomnia' = 0
      /\ UNCHANGED <<loader, thread, caller, targ, published>>
  <2>1. KeepsAwake => insomnia > 0
    BY <1>1 DEF KeepsAwake
  <2>2. failed' = FALSE
    BY <2>1, Zenon DEF ExitInsomnia, FuriAssert
  <2>3. /\ At(t, "sleep", "unlock")
        /\ insomnia' = IF KeepsAwake THEN insomnia - 1 ELSE insomnia
        /\ UNCHANGED <<loader, thread, caller, targ, published>>
    BY <2>2, Zenon DEF ExitInsomnia
  <2>4. CASE KeepsAwake
    BY <1>1, <2>2, <2>3, <2>4 DEF KeepsAwake
  <2>5. CASE ~KeepsAwake
    BY <1>1, <2>2, <2>3, <2>5 DEF KeepsAwake
  <2> QED BY <2>4, <2>5
<1> USE <1>2 DEF At, loader, caller, thread
<1>3. TypeOK'
  BY DEF TypeOK, PcTask
<1>4. Exclusion'
  BY DEF Exclusion, Alive, TypeOK
<1>5. ThreadInv' /\ ArgsInv'
  BY DEF ThreadInv, ArgsInv, Exclusion, Alive, TypeOK
<1>6. AwakeInv' /\ TaskInv'
  BY DEF AwakeInv, Awake, TaskInv, Exclusion, Alive, TypeOK
<1> QED BY <1>3, <1>4, <1>5, <1>6

LEMMA UnlockIInv == ASSUME IInv, NEW t \in Tasks, Unlock(t) PROVE IInv'
<1> USE DEF IInv, Unlock, At, Unlocked, caller, thread
<1>1. (TypeOK /\ failed = FALSE)'
  BY DEF TypeOK, PcTask
<1>2. Exclusion'
  BY DEF Exclusion, Alive, TypeOK
<1>3. ThreadInv' /\ ArgsInv'
  BY DEF ThreadInv, ArgsInv, Exclusion, Alive, TypeOK
<1>4. AwakeInv' /\ TaskInv'
  BY DEF AwakeInv, KeepsAwake, Awake, TaskInv, TypeOK
<1> QED BY <1>1, <1>2, <1>3, <1>4

LEMMA GoodbyeIInv == ASSUME IInv, NEW t \in Tasks, Goodbye(t) PROVE IInv'
<1> USE DEF IInv, Goodbye, At, Publish, loader, caller, thread
<1>1. (TypeOK /\ failed = FALSE)'
  BY DEF TypeOK, PcTask
<1>2. Exclusion'
  BY DEF Exclusion, Alive, TypeOK
<1>3. ThreadInv' /\ ArgsInv'
  BY DEF ThreadInv, ArgsInv, Exclusion, Alive, TypeOK
<1>4. AwakeInv' /\ TaskInv'
  BY DEF AwakeInv, KeepsAwake, Awake, TaskInv, TypeOK
<1> QED BY <1>1, <1>2, <1>3, <1>4

LEMMA NextIInv == IInv /\ [Next]_vars => IInv'
<1> SUFFICES ASSUME IInv, [Next]_vars PROVE IInv'
  OBVIOUS
<1>1. ASSUME NEW s \in Starters, NEW a \in Apps, LoaderStart(s, a) PROVE IInv'
  BY <1>1, LoaderStartIInv
<1>2. ASSUME NEW s \in Cli, RunCommand(s) PROVE IInv'
  BY <1>2, RunCommandIInv
<1>3. ASSUME NEW s \in Threads, ThreadStep(s) PROVE IInv'
  BY <1>3, AssignIInv, SetupIInv, StartIInv, CommandDoneIInv DEF ThreadStep
<1>4. ASSUME NEW t \in Tasks, TaskStep(t) PROVE IInv'
  BY <1>4, BodyIInv, AnnounceIInv, EnterInsomniaIInv, AppReturnsIInv, StopIInv,
     FreeArgsIInv, ExitInsomniaIInv, UnlockIInv, GoodbyeIInv DEF TaskStep
<1>5. CASE UNCHANGED vars
  BY <1>5, StutterIInv
<1> QED BY <1>1, <1>2, <1>3, <1>4, <1>5 DEF Next

\* The invariant holds in every state the loader reaches without "loader open".
THEOREM LoaderInvariant == Spec => []IInv
BY InitIInv, NextIInv, PTL DEF Spec

THEOREM LoaderTypeOK == Spec => []TypeOK
<1>1. IInv => TypeOK
  BY DEF IInv
<1> QED BY <1>1, LoaderInvariant, PTL

\* No assertion of the start and stop path can fail.
THEOREM LoaderNoAssertFails == Spec => []NoAssertFails
<1>1. IInv => NoAssertFails
  BY DEF IInv, NoAssertFails
<1> QED BY <1>1, LoaderInvariant, PTL

\* The owners are the threads in their section and the tasks alive in theirs.
LEMMA OwnersAre ==
  ASSUME IInv
  PROVE  /\ \A o \in Owners : \/ \E s \in Threads : pc[s] \in Section /\ o = <<"thread", s>>
                            \/ \E t \in Tasks : tpc[t] \in Alive /\ o = <<"task", t>>
         /\ \A s \in Threads : pc[s] \in Section => <<"thread", s>> \in Owners
         /\ \A t \in Tasks : tpc[t] \in Alive => <<"task", t>> \in Owners
<1>1. \A t \in Tasks : tpc[t] \in Alive <=> tpc[t] \notin {"none", "goodbye", "deleted"}
  BY DEF IInv, TypeOK, PcTask, Alive
<1> QED BY <1>1 DEF Owners, Section

\* At most one thread or task is between loader_lock and loader_unlock.
THEOREM LoaderOneOwner == Spec => []OneOwner
<1>1. IInv => OneOwner
  <2> SUFFICES ASSUME IInv, NEW o1 \in Owners, NEW o2 \in Owners PROVE o1 = o2
    BY DEF OneOwner
  <2>1. \A o \in Owners : \/ \E s \in Threads : pc[s] \in Section /\ o = <<"thread", s>>
                          \/ \E t \in Tasks : tpc[t] \in Alive /\ o = <<"task", t>>
    BY OwnersAre
  <2> QED BY <2>1 DEF IInv, Exclusion
<1> QED BY <1>1, LoaderInvariant, PTL

\* lock_count is 1 while there is an owner and 0 otherwise.
THEOREM LoaderLockExact == Spec => []LockExact
<1>1. IInv => LockExact
  <2> SUFFICES ASSUME IInv PROVE LockExact
    OBVIOUS
  <2>1. Owners = {} <=> /\ \A s \in Threads : pc[s] \notin Section
                        /\ \A t \in Tasks : tpc[t] \notin Alive
    BY OwnersAre
  <2> QED BY <2>1 DEF IInv, Exclusion, LockExact
<1> QED BY <1>1, LoaderInvariant, PTL

\* An application's arguments live until it has returned.
THEOREM LoaderArgsOutliveApp == Spec => []ArgsOutliveApp
<1>1. IInv => ArgsOutliveApp
  BY DEF IInv, ArgsInv, ArgsOutliveApp
<1> QED BY <1>1, LoaderInvariant, PTL

\* The insomnia level is restored after every application.
THEOREM LoaderInsomniaRestored == Spec => []InsomniaRestored
<1>1. IInv => InsomniaRestored
  BY DEF IInv, AwakeInv, InsomniaRestored, Awake
<1> QED BY <1>1, LoaderInvariant, PTL

-----------------------------------------------------------------------------
LEMMA DesktopStep == [DesktopNext]_dvars => [Next]_vars
<1> SUFFICES ASSUME [DesktopNext]_dvars PROVE Next \/ UNCHANGED vars
  OBVIOUS
<1>1. CASE LoaderStep
  BY <1>1 DEF LoaderStep
<1>2. CASE BootCheck \/ BootSubscribe \/ BootArm
  BY <1>2 DEF BootCheck, BootSubscribe, BootArm
<1>3. CASE Handle
  BY <1>3 DEF Handle, BeforeAppStarted, AfterAppFinished, AutoLock, Halt
<1>4. CASE TimerExpires \/ KeyPressed \/ UserUnlocks
  BY <1>4 DEF TimerExpires, KeyPressed, UserUnlocks
<1>5. CASE UNCHANGED dvars
  BY <1>5 DEF dvars
<1> QED BY <1>1, <1>2, <1>3, <1>4, <1>5 DEF DesktopNext

\* The loader with the desktop listening behaves as the loader does alone: an
\* event that waits for the desktop's full queue, or an assertion of the
\* desktop that halts the device, only leaves steps out.
THEOREM DesktopImplementsLoader == DesktopSpec => Spec
<1>1. Boot \/ Booted => Init
  BY DEF Boot, Booted, DesktopInit
<1> QED BY <1>1, DesktopStep, PTL DEF DesktopSpec, Spec

\* ... and so keeps everything that is proved of the loader alone.
THEOREM DesktopKeepsLoader ==
  DesktopSpec => [](NoAssertFails /\ OneOwner /\ ArgsOutliveApp /\ InsomniaRestored)
BY DesktopImplementsLoader, LoaderNoAssertFails, LoaderOneOwner, LoaderArgsOutliveApp,
   LoaderInsomniaRestored, PTL

-----------------------------------------------------------------------------
(* The desktop: the device's lock is always on its way.                    *)

\* The tasks whose Started event is published and whose Stopped event is not.
Announced == {"awake", "app", "stop", "freeargs", "sleep", "unlock", "goodbye"}
Running(places) == \E t \in Tasks : places[t] \in Announced

\* A Started event in the queue has its Stopped event behind it, or to come.
EndFollows(q, places) ==
  \A i \in DOMAIN q : q[i] = "Started" =>
    (\E j \in i + 1..Len(q) : q[j] = "Stopped") \/ Running(places)

\* What has not begun to happen before the desktop subscribes, and runs.
BootInv ==
  /\ dpc \in {"arm", "run"} <=> subscribed
  /\ dpc # "run" => ~timer /\ ~locked /\ subs = 0
  /\ ~subscribed => queue = <<>>

DInv ==
  /\ IInv /\ DesktopTypeOK
  /\ BootInv
  /\ EndFollows(queue, tpc)
  /\ LockIsPending

\* Putting an event, and taking the first.
LEMMA Put ==
  ASSUME DesktopTypeOK, NEW e, queue' = Append(queue, e)
  PROVE  /\ Len(queue') = Len(queue) + 1 /\ queue'[Len(queue')] = e
         /\ DOMAIN queue = 1..Len(queue) /\ DOMAIN queue' = 1..Len(queue')
         /\ Len(queue) \in Nat /\ \A i \in 1..Len(queue) : queue'[i] = queue[i]
BY DEF DesktopTypeOK

LEMMA Taken ==
  ASSUME DesktopTypeOK, queue # <<>>, queue' = Tail(queue)
  PROVE  /\ Len(queue) \in Nat \ {0} /\ Len(queue') = Len(queue) - 1
         /\ DOMAIN queue = 1..Len(queue) /\ DOMAIN queue' = 1..Len(queue')
         /\ \A i \in 1..Len(queue') : queue'[i] = queue[i + 1]
         /\ Head(queue) = queue[1]
BY DEF DesktopTypeOK

LEMMA HandedPut ==
  ASSUME DesktopTypeOK, NEW e, queue' = Append(queue, e)
  PROVE  Handed(queue', e) /\ \A f : Handed(queue, f) => Handed(queue', f)
BY Put DEF Handed

LEMMA HandedTaken ==
  ASSUME DesktopTypeOK, queue # <<>>, queue' = Tail(queue)
  PROVE  \A f : Handed(queue, f) => f = Head(queue) \/ Handed(queue', f)
<1> SUFFICES ASSUME NEW f, NEW i \in DOMAIN queue, queue[i] = f, f # Head(queue)
             PROVE  Handed(queue', f)
  BY DEF Handed
<1>1. i # 1 /\ i \in 1..Len(queue)
  BY Taken
<1>2. i - 1 \in 1..Len(queue') /\ queue'[i - 1] = queue[i]
  <2>1. i - 1 \in 1..Len(queue')
    BY <1>1, Taken
  <2>2. queue'[i - 1] = queue[(i - 1) + 1] /\ (i - 1) + 1 = i
    BY <1>1, <2>1, Taken
  <2> QED BY <2>1, <2>2
<1> QED BY <1>2, Taken DEF Handed

LEMMA FollowsPut ==
  ASSUME DesktopTypeOK, NEW e, queue' = Append(queue, e), EndFollows(queue, tpc),
         e = "Stopped" \/ (e = "Started" /\ Running(tpc')) \/ e = "AutoLock",
         Running(tpc) => Running(tpc') \/ e = "Stopped"
  PROVE  EndFollows(queue', tpc')
<1> SUFFICES ASSUME NEW i \in DOMAIN queue', queue'[i] = "Started", ~Running(tpc')
             PROVE  \E j \in i + 1..Len(queue') : queue'[j] = "Stopped"
  BY DEF EndFollows
<1>1. i \in 1..Len(queue) /\ queue[i] = "Started"
  BY Put
<1>2. CASE e = "Stopped"
  <2>1. Len(queue') \in i + 1..Len(queue')
    BY <1>1, Put
  <2> QED BY <1>2, <2>1, Put
<1>3. CASE e # "Stopped"
  <2>1. PICK j \in i + 1..Len(queue) : queue[j] = "Stopped"
    BY <1>1, <1>3, Put DEF EndFollows
  <2>2. j \in 1..Len(queue) /\ j \in i + 1..Len(queue')
    BY <1>1, <2>1, Put
  <2> QED BY <2>1, <2>2, Put
<1> QED BY <1>2, <1>3

LEMMA FollowsTaken ==
  ASSUME DesktopTypeOK, queue # <<>>, queue' = Tail(queue), EndFollows(queue, tpc)
  PROVE  /\ EndFollows(queue', tpc)
         /\ Head(queue) = "Started" => Handed(queue', "Stopped") \/ Running(tpc)
<1>1. ASSUME NEW i \in 1..Len(queue), queue[i] = "Started", ~Running(tpc)
      PROVE  \E j \in i..Len(queue') : queue'[j] = "Stopped"
  <2>1. PICK j \in i + 1..Len(queue) : queue[j] = "Stopped"
    BY <1>1, Taken DEF EndFollows
  <2>2. j - 1 \in i..Len(queue') /\ j - 1 \in 1..Len(queue') /\ (j - 1) + 1 = j
    BY <2>1, Taken
  <2> QED BY <2>1, <2>2, Taken
<1>2. EndFollows(queue', tpc)
  <2> SUFFICES ASSUME NEW i \in DOMAIN queue', queue'[i] = "Started", ~Running(tpc)
               PROVE  \E j \in i + 1..Len(queue') : queue'[j] = "Stopped"
    BY DEF EndFollows
  <2>1. i + 1 \in 1..Len(queue) /\ queue[i + 1] = "Started"
    BY Taken
  <2> QED BY <1>1, <2>1
<1>3. ASSUME Head(queue) = "Started", ~Running(tpc) PROVE Handed(queue', "Stopped")
  <2>1. 1 \in 1..Len(queue) /\ queue[1] = "Started"
    BY <1>3, Taken
  <2>2. PICK j \in 1..Len(queue') : queue'[j] = "Stopped"
    BY <1>1, <1>3, <2>1
  <2> QED BY <2>2, Taken DEF Handed
<1> QED BY <1>2, <1>3

\* What a step of the loader publishes, and what it leaves to come.
LEMMA LoaderPublishes ==
  ASSUME IInv, Next
  PROVE  \/ /\ \E t \in Tasks : published' = Append(published, <<"Started", t>>)
            /\ Running(tpc') /\ EndIsComing'
         \/ \E t \in Tasks : published' = Append(published, <<"Stopped", t>>)
         \/ /\ published' = published
            /\ Running(tpc) => Running(tpc')
            /\ EndIsComing => EndIsComing'
<1> USE DEF IInv
<1>1. ASSUME NEW s \in Starters, NEW a \in Apps, LoaderStart(s, a)
      PROVE  published' = published /\ (Running(tpc) => Running(tpc')) /\ (EndIsComing => EndIsComing')
  BY <1>1 DEF LoaderStart, vars, caller, task, EndIsComing, Running, TypeOK
<1>2. ASSUME NEW s \in Cli, RunCommand(s)
      PROVE  published' = published /\ (Running(tpc) => Running(tpc')) /\ (EndIsComing => EndIsComing')
  BY <1>2 DEF RunCommand, task, EndIsComing, Running, TypeOK
<1>3. ASSUME NEW s \in Threads, ThreadStep(s)
      PROVE  published' = published /\ (Running(tpc) => Running(tpc')) /\ (EndIsComing => EndIsComing')
  <2>1. CASE Assign(s)
    BY <2>1 DEF Assign, FuriAssert, caller, task, EndIsComing, Running, TypeOK
  <2>2. CASE Setup(s)
    BY <2>2 DEF Setup, FuriAssert, caller, task, EndIsComing, Running, TypeOK
  <2>3. CASE Start(s)
    <3>1. CASE failed'
      BY <2>3, <3>1 DEF Start, FuriAssert, caller, task, EndIsComing, Running
    <3>2. CASE ~failed'
      <4>1. /\ nTasks + 1 \in Tasks /\ tpc[nTasks + 1] = "none" /\ published' = published
            /\ tpc' = [tpc EXCEPT ![nTasks + 1] = "body"]
        BY <2>3, <3>2, LoaderAssumption DEF Start, TaskInv, TypeOK
      <4> QED BY <4>1 DEF EndIsComing, Running, Announced, TypeOK
    <3> QED BY <3>1, <3>2
  <2>4. CASE CommandDone(s)
    BY <2>4 DEF CommandDone, task, EndIsComing, Running, TypeOK
  <2> QED BY <1>3, <2>1, <2>2, <2>3, <2>4 DEF ThreadStep
<1>4. ASSUME NEW t \in Tasks, Announce(t)
      PROVE  published' = Append(published, <<"Started", t>>) /\ Running(tpc') /\ EndIsComing'
  BY <1>4 DEF Announce, At, Publish, Running, Announced, EndIsComing, TypeOK
<1>5. ASSUME NEW t \in Tasks, Goodbye(t) PROVE published' = Append(published, <<"Stopped", t>>)
  BY <1>5 DEF Goodbye, Publish
<1>6. ASSUME NEW t \in Tasks,
             Body(t) \/ EnterInsomnia(t) \/ AppReturns(t) \/ Stop(t) \/ FreeArgs(t) \/ ExitInsomnia(t) \/ Unlock(t)
      PROVE  published' = published /\ (Running(tpc) => Running(tpc')) /\ (EndIsComing => EndIsComing')
  <2>1. CASE Body(t)
    BY <2>1 DEF Body, FuriAssert, At, caller, task, EndIsComing, Running, Announced, TypeOK
  <2>2. CASE EnterInsomnia(t) \/ AppReturns(t) \/ FreeArgs(t) \/ Unlock(t)
    BY <2>2 DEF EnterInsomnia, AppReturns, FreeArgs, Unlock, At, caller, EndIsComing, Running, Announced, TypeOK
  <2>3. CASE Stop(t) \/ ExitInsomnia(t)
    BY <2>3 DEF Stop, ExitInsomnia, FuriAssert, At, caller, task, EndIsComing, Running, Announced, TypeOK
  <2> QED BY <1>6, <2>1, <2>2, <2>3
<1> QED BY <1>1, <1>2, <1>3, <1>4, <1>5, <1>6 DEF Next, TaskStep

\* A lock that is taken is a command's, or an application's whose end will come.
LEMMA TakenBy == ASSUME IInv, lockCount # 0 PROVE CommandRuns \/ EndIsComing
<1>1. CASE \E s \in Threads : pc[s] \in Section
  BY <1>1 DEF IInv, TaskInv, Section, CommandRuns, EndIsComing
<1>2. CASE \E t \in Tasks : tpc[t] \in Alive
  BY <1>2 DEF Alive, EndIsComing
<1> QED BY <1>1, <1>2 DEF IInv, Exclusion

LEMMA FlagsStep == ASSUME DesktopFlags, [DesktopNext]_dvars PROVE DesktopFlags'
<1>1. CASE LoaderStep
  BY Zenon, <1>1 DEF LoaderStep, desktop, DesktopFlags
<1>2. CASE BootCheck \/ BootSubscribe
  BY Zenon, <1>2 DEF BootCheck, BootSubscribe, DesktopFlags
<1>3. CASE BootArm
  <2>1. CommandRuns \in BOOLEAN
    BY DEF CommandRuns
  <2>2. CASE Inhibit
    BY Zenon, <1>3, <2>1, <2>2 DEF BootArm, Arm, Inhibit, DesktopFlags
  <2> QED BY Zenon, <1>3, <2>1, <2>2 DEF BootArm, Arm, DesktopFlags
<1>4. CASE Handle
  <2>1. CASE BeforeAppStarted
    BY Zenon, <2>1 DEF BeforeAppStarted, Halt, Inhibit, desktop, DesktopFlags
  <2>2. CASE AfterAppFinished
    BY Zenon, <2>2 DEF AfterAppFinished, Halt, Arm, desktop, DesktopFlags
  <2>3. CASE AutoLock
    BY Zenon, <2>3 DEF AutoLock, Inhibit, CommandRuns, DesktopFlags
  <2> QED BY <1>4, <2>1, <2>2, <2>3 DEF Handle
<1>5. CASE TimerExpires \/ KeyPressed
  BY Zenon, <1>5 DEF TimerExpires, KeyPressed, DesktopFlags
<1>6. CASE UserUnlocks
  BY Zenon, <1>6 DEF UserUnlocks, Arm, DesktopFlags
<1>7. CASE UNCHANGED dvars
  BY Zenon, <1>7 DEF dvars, desktop, DesktopFlags
<1> QED BY <1>1, <1>2, <1>3, <1>4, <1>5, <1>6, <1>7 DEF DesktopNext

LEMMA InitDInv == Boot \/ Booted => DInv
<1> SUFFICES ASSUME Boot \/ Booted PROVE DInv
  OBVIOUS
<1>1. IInv
  BY InitIInv DEF Boot, Booted, DesktopInit
<1>2. queue = <<>> /\ Len(queue) = 0 /\ DOMAIN queue = {}
  BY DEF Boot, Booted, DesktopInit
<1>0. DesktopFlags
  BY Zenon DEF Boot, Booted, DesktopInit, DesktopFlags
<1>3. DesktopTypeOK
  BY <1>0, <1>2, DesktopAssumption DEF Boot, Booted, DesktopInit, DesktopTypeOK
<1> QED BY <1>1, <1>2, <1>3 DEF Boot, Booted, DesktopInit, DInv, BootInv, EndFollows, LockIsPending

LEMMA LoaderStepDInv == ASSUME DInv, LoaderStep PROVE DInv'
<1> USE DEF DInv
<1>f. DesktopFlags'
  BY FlagsStep DEF DesktopNext, DesktopTypeOK
<1>1. IInv' /\ Next /\ UNCHANGED <<desktop, missed, halted>> /\ Len(queue') <= QueueSize
  BY NextIInv DEF LoaderStep
<1>2. published \in Seq({"Started", "Stopped"} \X Tasks)
  BY DEF IInv, TypeOK
<1>3. ASSUME NEW e \in {"Started", "Stopped"}, NEW t \in Tasks, published' = Append(published, <<e, t>>)
      PROVE  published' # published /\ published'[Len(published')][1] = e
  BY <1>2, <1>3
<1>4. CASE \E t \in Tasks, e \in {"Started", "Stopped"} : published' = Append(published, <<e, t>>)
  <2>1. PICK t \in Tasks, e \in {"Started", "Stopped"} : published' = Append(published, <<e, t>>)
    BY <1>4
  <2>2. queue' = IF subscribed THEN Append(queue, e) ELSE queue
    BY <1>3, <2>1 DEF LoaderStep
  <2>3. e = "Started" => Running(tpc') /\ EndIsComing'
    <3>1. ASSUME e = "Started", NEW u \in Tasks, published' = Append(published, <<"Stopped", u>>)
          PROVE  FALSE
      BY <1>3, <2>1, <3>1
    <3>2. published' # published
      BY <1>3, <2>1
    <3> QED BY Zenon, <1>1, <3>1, <3>2, LoaderPublishes
  <2>4. CASE subscribed
    <3>1. DesktopTypeOK' /\ BootInv'
      BY <1>f, <1>1, <2>2, <2>4 DEF DesktopTypeOK, BootInv, desktop
    <3>2. EndFollows(queue', tpc')
      BY <2>2, <2>3, <2>4, FollowsPut
    <3>3. LockIsPending'
      BY <1>1, <2>2, <2>3, <2>4, HandedPut DEF LockIsPending, desktop
    <3> QED BY <1>1, <3>1, <3>2, <3>3 DEF desktop
  <2>5. CASE ~subscribed
    <3>1. queue' = <<>> /\ EndFollows(queue', tpc')
      BY <2>2, <2>5 DEF EndFollows, BootInv
    <3>2. DesktopTypeOK' /\ BootInv'
      BY <1>f, <1>1, <2>5, <3>1 DEF desktop, DesktopTypeOK, BootInv
    <3>3. LockIsPending'
      BY <1>1, <2>5 DEF desktop, BootInv, LockIsPending
    <3> QED BY <1>1, <3>1, <3>2, <3>3
  <2> QED BY <2>4, <2>5
<1>5. CASE /\ published' = published
           /\ Running(tpc) => Running(tpc')
           /\ EndIsComing => EndIsComing'
  <2>1. queue' = queue
    BY <1>5 DEF LoaderStep
  <2>2. DesktopTypeOK' /\ BootInv'
    BY <1>f, <1>1, <2>1 DEF desktop, DesktopTypeOK, BootInv
  <2>3. EndFollows(queue', tpc')
    BY <1>5, <2>1 DEF EndFollows
  <2>4. LockIsPending'
    BY <1>1, <1>5, <2>1 DEF desktop, LockIsPending
  <2> QED BY <1>1, <2>2, <2>3, <2>4
<1> QED BY <1>1, <1>4, <1>5, LoaderPublishes

LEMMA BootDInv == ASSUME DInv, BootCheck \/ BootSubscribe \/ BootArm PROVE DInv'
<1> USE DEF DInv
<1>f. DesktopFlags'
  BY FlagsStep DEF DesktopNext, DesktopTypeOK
<1>1. UNCHANGED vars /\ UNCHANGED <<queue, halted>>
  BY DEF BootCheck, BootSubscribe, BootArm
<1>2. IInv' /\ EndFollows(queue', tpc') /\ (EndIsComing <=> EndIsComing') /\ (CommandRuns <=> CommandRuns')
  BY <1>1, StutterIInv DEF vars, caller, task, EndIsComing, CommandRuns
<1>3. CASE BootCheck \/ BootSubscribe
  <2>1. DesktopTypeOK'
    BY <1>f, <1>1, <1>3 DEF BootCheck, BootSubscribe, Freeze, DesktopTypeOK
  <2>2. BootInv' /\ LockIsPending'
    BY <1>1, <1>3 DEF BootCheck, BootSubscribe, BootInv, LockIsPending
  <2> QED BY <1>2, <2>1, <2>2
<1>4. CASE BootArm
  <2>1. DesktopTypeOK' /\ BootInv'
    BY <1>f, <1>1, <1>4 DEF BootArm, Arm, Inhibit, DesktopTypeOK, BootInv
  <2>2. LockIsPending'
    BY <1>1, <1>2, <1>4, TakenBy DEF BootArm, Arm, LockIsPending
  <2> QED BY <1>2, <2>1, <2>2
<1> QED BY <1>3, <1>4

LEMMA HandleDInv == ASSUME DInv, Handle PROVE DInv'
<1> USE DEF DInv
<1>f. DesktopFlags'
  BY FlagsStep DEF DesktopNext, DesktopTypeOK
<1>0. /\ UNCHANGED vars /\ UNCHANGED <<dpc, subscribed>> /\ dpc = "run"
      /\ queue # <<>> /\ ~halted
  BY DEF Handle, BeforeAppStarted, AfterAppFinished, AutoLock, Halt, desktop
<1>1. IInv' /\ (EndIsComing <=> EndIsComing') /\ (Running(tpc) <=> Running(tpc'))
  BY <1>0, StutterIInv DEF vars, caller, task, EndIsComing, Running
<1>2. CASE Halt
  <2>1. DesktopTypeOK' /\ BootInv'
    BY <1>f, <1>2 DEF Halt, desktop, DesktopTypeOK, BootInv
  <2>2. EndFollows(queue', tpc') /\ LockIsPending'
    BY <1>2 DEF Halt, vars, task, EndFollows, LockIsPending
  <2> QED BY <1>1, <2>1, <2>2
<1>3. CASE ~Halt
  <2>1. queue' = Tail(queue) /\ halted' = halted
    BY <1>3 DEF Handle, BeforeAppStarted, AfterAppFinished, AutoLock
  <2>2. /\ EndFollows(queue', tpc')
        /\ Head(queue) = "Started" => Handed(queue', "Stopped") \/ EndIsComing
    BY <1>0, <1>1, <2>1, FollowsTaken DEF EndFollows, Running, Announced, EndIsComing
  <2>3. queue' \in Seq({"Started", "Stopped", "AutoLock"}) /\ Len(queue') <= QueueSize
    BY <1>0, <2>1, Taken, DesktopAssumption DEF DesktopTypeOK, BootInv
  <2>4. CASE BeforeAppStarted
    <3>1. DesktopTypeOK' /\ BootInv'
      BY <1>f, <1>0, <1>3, <2>1, <2>3, <2>4 DEF BeforeAppStarted, Freeze, Inhibit, DesktopTypeOK, BootInv
    <3>2. LockIsPending'
      BY <1>1, <2>2, <2>4 DEF BeforeAppStarted, LockIsPending
    <3> QED BY <1>0, <1>1, <2>2, <3>1, <3>2
  <2>5. CASE AfterAppFinished
    <3>1. DesktopTypeOK' /\ BootInv'
      BY <1>f, <1>0, <1>3, <2>1, <2>3, <2>5 DEF AfterAppFinished, Continue, Arm, DesktopTypeOK, BootInv
    <3>2. LockIsPending'
      BY <1>3, <2>5 DEF AfterAppFinished, Arm, LockIsPending
    <3> QED BY <1>0, <1>1, <2>2, <3>1, <3>2
  <2>6. CASE AutoLock
    <3>1. DesktopTypeOK' /\ BootInv'
      BY <1>f, <1>0, <1>3, <2>1, <2>3, <2>6 DEF AutoLock, Inhibit, CommandRuns, DesktopTypeOK, BootInv
    <3>2. LockIsPending'
      BY <1>1, <2>6, TakenBy DEF AutoLock, LockIsPending
    <3> QED BY <1>0, <1>1, <2>2, <3>1, <3>2
  <2> QED BY <2>4, <2>5, <2>6 DEF Handle
<1> QED BY <1>2, <1>3

LEMMA UserDInv == ASSUME DInv, TimerExpires \/ KeyPressed \/ UserUnlocks PROVE DInv'
<1> USE DEF DInv
<1>f. DesktopFlags'
  BY FlagsStep DEF DesktopNext, DesktopTypeOK
<1>1. UNCHANGED vars /\ UNCHANGED <<dpc, subscribed, anim, halted>>
  BY DEF TimerExpires, KeyPressed, UserUnlocks
<1>2. IInv' /\ (EndIsComing <=> EndIsComing') /\ (Running(tpc) <=> Running(tpc')) /\ tpc' = tpc
  BY <1>1, StutterIInv DEF vars, caller, task, EndIsComing, Running
<1>3. CASE TimerExpires
  <2>1. queue' = Append(queue, "AutoLock") /\ Len(queue) < QueueSize
    BY <1>3 DEF TimerExpires
  <2>2. EndFollows(queue', tpc')
    BY <1>2, <2>1, FollowsPut
  <2>3. DesktopTypeOK' /\ BootInv'
    BY <1>f, <1>1, <1>3, <2>1, Put, DesktopAssumption DEF TimerExpires, DesktopTypeOK, BootInv
  <2>4. LockIsPending'
    BY <2>1, HandedPut DEF LockIsPending
  <2> QED BY <1>1, <1>2, <2>2, <2>3, <2>4
<1>4. CASE KeyPressed \/ UserUnlocks
  <2>1. DesktopTypeOK' /\ BootInv'
    BY <1>f, <1>1, <1>4 DEF KeyPressed, UserUnlocks, Arm, DesktopTypeOK, BootInv
  <2>2. LockIsPending' /\ queue' = queue
    BY <1>4 DEF KeyPressed, UserUnlocks, Arm, LockIsPending
  <2> QED BY <1>1, <1>2, <2>1, <2>2
<1> QED BY <1>3, <1>4

\* What the desktop and the loader know of each other, in every state.
THEOREM DesktopInvariant == DesktopSpec => []DInv
<1>1. DInv /\ [DesktopNext]_dvars => DInv'
  <2> SUFFICES ASSUME DInv, [DesktopNext]_dvars PROVE DInv'
    OBVIOUS
  <2>1. CASE UNCHANGED dvars
    <3>1. IInv'
      BY <2>1, StutterIInv DEF DInv, dvars
    <3>0. DesktopFlags'
      BY FlagsStep DEF DInv, DesktopTypeOK
    <3>2. DesktopTypeOK' /\ BootInv'
      BY <2>1, <3>0 DEF DInv, dvars, desktop, DesktopTypeOK, BootInv
    <3>3. EndFollows(queue, tpc)' /\ LockIsPending'
      BY <2>1 DEF DInv, dvars, vars, caller, task, desktop, EndFollows, Running, LockIsPending, EndIsComing
    <3> QED BY <3>1, <3>2, <3>3 DEF DInv
  <2> QED BY <2>1, LoaderStepDInv, BootDInv, HandleDInv, UserDInv DEF DesktopNext
<1> QED BY <1>1, InitDInv, PTL DEF DesktopSpec

\* Types, and the input subscription that the desktop remembers exists.
THEOREM DesktopTypes == DesktopSpec => []DesktopTypeOK
<1>1. DInv => DesktopTypeOK
  BY DEF DInv
<1> QED BY <1>1, DesktopInvariant, PTL

\* The core of DeviceLocksAgain: a device that is neither locked nor halted, and
\* whose last auto lock no command made it miss, is on its way to lock itself.
THEOREM DesktopLockIsPending == DesktopSpec => []LockIsPending
<1>1. DInv => LockIsPending
  BY DEF DInv
<1> QED BY <1>1, DesktopInvariant, PTL
=============================================================================
