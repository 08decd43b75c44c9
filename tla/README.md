# Korai: a verification project for the firmware's core services

TLA+ modules for the parts of the Korai firmware (a Flipper Zero firmware, C on
FreeRTOS) in which threads, the timer task and callbacks meet; TLC runs that
check them on small instances; and TLAPS proofs for every value of the
constants. `PROJECT.json` has the exact correspondence of every definition to
the lines it models, and the list of hazards. Paths below are relative to
`src/`; `services/` stands for `applications/services/`.

To repeat a run: `tlc -config FuriRecord.cfg MCFuriRecord.tla` (section 3 pairs
modules and configurations); to check proofs: `tlapm FuriRecordProofs.tla`.

## 1. The system

The firmware boots, starts one thread per service, and runs applications in one
thread that the loader owns. Threads talk through *records* (named objects),
*pubsubs* (callbacks run in the publisher's thread), *message queues* (FreeRTOS,
a full one blocks the writer), *thread flags* and mutexes. A failed `furi_check`
always halts the device; so does a failed `furi_assert` in a debug build
(`DEBUG=1`, the build's default).

| Component | State | Operations | What is hard | What makes it correct |
|---|---|---|---|---|
| Record registry, `furi/core/record.c` | dictionary name -> data, READY flag, `holders_count` | create, destroy, open, close, exists | an open waits outside the mutex, before the record exists | a holder's data stays alive; nobody waits for ever for a record that is created |
| Pubsub, `furi/core/pubsub.c` | list of subscriptions, mutex | subscribe, unsubscribe, publish | callbacks run with the mutex held and may block | one order for all, no gap, no callback after unsubscribe |
| Loader, `services/loader/loader.c`, with `furi/core/thread.c` and `cli_execute_command` | `lock_count`, `application`, `application_arguments`, one `FuriThread` | lock, unlock, `loader_start`, menu, `loader open`, the thread's state callback | the lock is taken in one thread and released in another; a task's last steps overlap the next start | one owner at a time, arguments outlive the application, the lock comes back |
| Desktop, `services/desktop/desktop.c` | queue of custom events, animation state, auto lock timer and its input subscription, scenes | loader events, auto lock, freeze and continue, boot | loader events arrive late, the lock is looked at when an event is handled | the device locks itself again |
| Input, `services/input/input.c` | debounce counters, states, one timer per key, interrupt flag | scan, interrupt, press timer, publish | the timer's callback runs while the release is handled | every press has one shape: Press, a Short or else a Long and its Repeats, Release; no level is missed |
| GUI, `services/gui/gui.c`, `view_port.c` | layers of view ports, lockdown, `ongoing_input` and its view port, input queue | add, remove, order, enable, turn; input routing | view ports come, go and are turned while keys are down; the arrows are turned as an event is delivered | a press and its release go to the same, living view port, by the same name unless it was turned |
| View dispatcher, `services/gui/view_dispatcher.c` | views, current view, `ongoing_input` and its view, queue | run, stop, switch (which may turn the view port), add, remove, free | the GUI's thread writes its queue with the GUI's mutex held | as for the GUI, and a stopped dispatcher ends |
| RPC session, `services/rpc/rpc.c` | stream buffer, flags, callbacks and their mutex, decode error | open, feed, close; worker | closing races the worker's callbacks | no callback and no use after the end; closing ends |
| RPC over the CLI, `services/rpc/rpc_cli.c` | context on the stack, semaphore | `start_rpc_session` | the stack frame must outlive the last callback | same |
| RPC over Bluetooth, `services/bt/bt_service/bt.c`, `ble_glue/serial_service.c` | `rpc_event`, flow control | connect, data, confirm, disconnect | replies wait for confirmations only the closing thread takes | a disconnect ends the session |
| Memory manager, `furi/core/memmgr_heap.c` | free list with sizes, bytes free, a dictionary per traced thread | malloc, free, trace and leak report | splits and merges in every order; blocks freed by another thread | blocks never overlap, a request is refused only for want of a gap, the counter is exact, leaks are reported |
| Storage, `services/storage/` | request queue, list of open files per storage, a file's `file_id` and type, card status | open, close, free, calls on files, remove, unmount, format, the card's tick | two names for one file, opens that wait for a close, a card pulled out with files open, node addresses that come back | one list node per open file, one holder per file, no call reaches another's file, no missed wake-up |
| Scene manager, `services/gui/scene_manager.c` | stack of scenes | next, previous, search and switch | handlers switch scenes themselves | *not modelled* |
| Bt service proper | queue of 8, one answer flag for all callers | profile, disconnect, forget, state | shared flag, its thread closes sessions | *not modelled* |
| CLI over the virtual COM port, notification, dolphin, power, dialogs, service boot | see `PROJECT.json` | | | *not modelled* |

How they interact: services publish and open each other's *records* at boot; the
input service publishes to a *pubsub* that the GUI and the desktop subscribe to;
the GUI hands an event to a view port's callback, which for an application is a
view dispatcher's queue; the loader publishes the start and end of an
application and the desktop listens; the CLI executes commands under the
loader's lock, and one of them is the RPC.

## 2. Modules

```
FuriRecord ----- FuriRecordProofs     (implements Registry)          MCFuriRecord
FuriPubSub ----- FuriPubSubProofs     (implements Broadcast)
MemmgrHeap ----- MemmgrHeapProofs     (implements Allocator)
Storage -------- StorageProofs        (implements FileTable)         MCStorage
Loader                                                               MCLoader
  `-- DesktopLoader -- LoaderProofs   (EXTENDS Loader: the loader's steps feed the desktop's queue)
InputSrv --.                          (implements KeyEvents)
            >--------- InputProofs
GuiInput --'                          (its input is KeyEvents; EXTENDS ViewPort)
ViewDispatcher ------- ViewDispatcherProofs   (its input is any event; EXTENDS ViewPort)
RpcSession                            (no specification of its own)
  |-- RpcCli --.                      (EXTENDS RpcSession: the CLI's transport)
  |             >----- RpcProofs
  `-- BtRpc ---'                      (EXTENDS RpcSession: the Bluetooth transport)
```

`Registry`, `Broadcast`, `Allocator`, `FileTable` and `KeyEvents` are abstract: what
the clients of a component may rely on, without its locks, lists, queues and flags.
`ViewPort` has the keys and their turning, which both of its users need.
`KeyEvents` is both a promise and an assumption, so what is proved of the GUI rests on
what is proved of the input service.

A definition right before `Name`, called `Name_Something` (in MemmgrHeap and
Storage: `X_Name`), is a *mutant*: `Name` with a plausible bug. `PROJECT.json` pairs
every property with a mutant that violates it.

**FuriRecord.** A name is a member of `Names`; its dictionary node is the pair
of its name and `gen`, which counts erasures, so that a pointer to a node that
was freed can be told from one to the node that replaced it. `data[n]` is the
published pointer, `ready` the names whose event flag is set, `holders[n]` the
`holders_count`. A client's `furi_record_open` is three steps, as the code
unlocks in between: `Open` (get or create the entry, count the holder, under the
mutex), `Wake` (the wait for READY, without it) and `Return` (the read of
`record_data->data`, also without it). `Create`, `Destroy` and `Close` are one
critical section each. Creating a record that has data, or destroying one that
was not created, is a failed `furi_assert` of the caller and not enumerated.
Registry has only what a client sees: a value per name, and who is outside, waits
or is inside. `Wake` is a stutter of it, and so is a destroy that is refused.

**FuriPubSub** and **Broadcast.** `items` is the list (new subscriptions in
front), `mutex` its holder, `it[p]` where publisher `p`'s iterator is, `cur[p]`
the message it publishes. Every callback is a step. Subscribers in `Queued` have
a callback that puts into a queue of `QueueSize` and waits while it is full;
`Take` empties it. Subscribers in `Leavers` unsubscribe; one with a queue stops
taking before it does (`input dump`). Broadcast is what the API promises; the
refinement mapping is the identity on `sent` and `seen`, and `on` is the set of
subscribers that the subscribing thread believes in, not the list.

**MemmgrHeap** and **Allocator.** The unit is the alignment of 8 bytes, which is
also a header. `freeList` is the linked list as a sequence of addresses,
`xBlockSize` the size in every header, free or taken; the allocated bit is not
being in the list. `prvInsertBlockIntoFreeList` returns the new list and sizes,
and `pvPortMalloc` uses it for a split's rest as the code does. Every operation
is one step, as the code suspends the scheduler. `dict` is what the accounting
remembers per traced thread; `mine` and `strayed` are history: what is really its,
and whether another thread freed a block of its. The mapping to Allocator is the
set of taken blocks with their sizes. The memory that the dictionaries themselves
take, which the code allocates with the tracing off, is left out.

**Storage.** Each client has one `File` at a time. `files` has the nodes of both
lists by address (an address can come back, as malloc's do), each with its `File`,
storage, real path and whether the file system still knows the handle (`valid`).
A client's call is put in `message_queue` and answered by one `...Processed`
action, which is the whole of `storage_process_message`. A refused open waits for
`flag`, which every close sets for the subscribed. `detect` is the card's switch,
which `Flip` changes at any time; `storage_tick` sees it only when the queue is
empty, as the service's wait for a message times out. FileTable is what the clients
see: the files on the media and, per client, the file it holds and whether it can
still be used; the mapping reads a client's own `type`, `path` and `file_id`.

**Loader.** `lockCount`, `application`, `args`, `thState`, `ctx` are the fields.
Starters (the menu, the RPC) and CLI threads have a program counter; each task
of the application thread, numbered by `nTasks`, has one too, since the FreeRTOS
task is new for every start and the task's last steps (after the lock is
released) overlap the next start. `failed` is a failed assertion, after which
nothing happens. `Next` is the system without `loader open`; `CliNext` has it.

**DesktopLoader** runs `Loader!Next` and puts what it publishes in the desktop's
queue once the desktop is subscribed; a full queue holds the loader back. `Boot` is
a desktop that starts while the loader is at work (`desktop_alloc` looks at the
lock, then subscribes, two steps), `Booted` one that has started before. `halted` is
a failed assertion of the animation manager (`failed` stays the loader's own), after
which nothing happens. A CLI command holds the loader's lock and publishes nothing;
`missed` is history and says that the last time the desktop would have locked or
armed its timer, it found the lock taken by a command.

**InputSrv.** `pin` changes by `Edge` (with the interrupt), the thread scans key
by key, the FreeRTOS timer commands go through a queue that the timer task works
off, and `Fire` is the press timer's callback, whose publication is a step of
its own (`firing`). `log` is what was published. A key may be held at boot: its first
event is then a Release. KeyEvents keeps of it that Press and Release of a key take
turns; Short, Long and Repeat are "Tap" there, and come at any time.

**GuiInput.** The pubsub callback's put and its setting of the flag are two
steps, the flag is cleared by the wait. `Chosen`, `Front` and `Receives` are the
routing of `gui_input`; all operations on view ports are actions. An event is
published and counted in `ongoing` by its key, and `Give` hands it to the callback by
the name that the key has at that moment: `view_port_input` turns the arrows of a
vertical view port (`NameOf`), and `OrientationSet` may come at any time. So there are
two histories: `held[v]`, the keys whose Press went to a view port and whose Release
did not yet, and `open[v]`, the same by the names that its callback saw. `NamesHold`
says that they agree. `Inject` is `input send` and the RPC's
input, which are not bound to Press and Release in turn. `Publish` is a step of
KeyEvents into the queue.

**ViewDispatcher.** The GUI's thread takes the GUI's mutex with an event
(`GuiTakes`), turns its key and puts it (`InputCallback`), waiting while the queue is
full. Any event may come at any time: injected ones need not take turns, a Release or
a Tap may come for a key whose Press went to another view port, and the names change
with the screen. `down` are the keys, `seen` their names as the callback saw them,
`repeated` says that it saw a Press of a name that it had seen pressed; from there on
only names matter. The application's thread runs, and what a handler does is one of
what the code offers it (`act`); `SwitchTo(v, o)` gives the view port the orientation
of the view. After `run` it drains, removes its views and frees the dispatcher.

**RpcSession** has the worker's program counter `wpc` through reading, decoding,
executing, replying and ending, and the functions of `rpc.h`, each the steps
between which another thread can come. A chunk of the stream is a message or a
`"part"` of one. **RpcCli** and **BtRpc** are the two transports: what they do
with these functions, and what their callbacks do. A phone may send more than the
serial service said it is ready for: `serial_service.c:50` only warns, and the bytes
that find no room are lost (`FeedTimeout`).

## 3. Runs

| Run | Module, config | Shows |
|---|---|---|
| `record` | MCFuriRecord, FuriRecord.cfg | 2 names, 3 clients, each name erased once and created again. `NoUseAfterErase`, `ImplementsRegistry`: the unlocked wait and read are safe, because the holder is counted first. `HoldersExact`: the count cannot wrap. `OpenReturns`: an open before the create, or between a destroy and the next create, returns |
| `pubsub` | FuriPubSub | 2 publishers, 3 subscribers (2 leave, 2 queue, 1 does both), 3 messages. It implements Broadcast; nobody is called after unsubscribing; unsubscribing returns, but for the dead end of `input dump` |
| `heap` | MemmgrHeap | 2 threads, a heap of 8 units, requests of 1, 2 and 4 units with their header. It implements Allocator; the counter of free bytes is exact after every split, merge and unsplit remainder; a traced thread's leaks are reported, and nothing else unless another thread freed a block of its |
| `storage` | MCStorage, Storage.cfg | 3 clients (one also unmounts and formats, one removes), one file under `/ext` and `/any` and a path of no storage, 2 node addresses, 3 calls beside closes and frees, 1 flip of the card. List nodes and open files correspond one to one; a call reaches its own file although addresses come back; it implements FileTable, with one holder per file whatever its prefix; an open file is not removed; an open that waits returns |
| `desktop_auto_lock` | DesktopLoader, DesktopAutoLock.cfg | 1 starter, 1 CLI thread, 2 applications (one insomnia safe), 2 starts, a desktop's queue of 3, every boot order. The lock's ownership passes from thread to task, arguments are not freed under the application, the insomnia level comes back, the loader is free again; the device locks itself again |
| `desktop_order` | DesktopLoader, DesktopOrder.cfg (`BootedSpec`) | *violation*, see 6 |
| `loader_cli_assert` | MCLoader, LoaderCliAssert.cfg (`CliSpec`) | *violation*, see 6 |
| `input` | InputSrv | 2 keys, 4 edges, 4 timer expiries, debounce of 2. `PressShape`: exactly one of Short and Long per press, before its Release; nothing after the Release; numbers grow; Repeat after Long; Press and Release take turns. `LevelReported`: the levels reported are in the end those of the pins |
| `gui_input` | GuiInput | 2 arrows, of which one is the other's name when turned, a full screen view port and two of the desktop's, queue of 1, 3 operations, turning among them, 1 injected event. Input is never split or given to a removed view port, lockdown shields, a Press is followed by its Release to the same view port, whose callback sees it by the same name unless it was turned, the queue is never asleep with an event in it |
| `view_dispatcher` | ViewDispatcher | an arrow and another key (a switch may turn the screen, and the arrow's name with it), 2 views, queue of 2, 2 events beside the Releases of keys that are down, 1 custom event, 1 removal. No input to a removed view, nor to two views unless the view port saw a name pressed twice; a stopped dispatcher returns once the keys are up, unless the screen was turned with the arrow held; it is freed, unless its queue is full |
| `rpc_cli` | RpcCli | buffer of 2 chunks, 3 chunks of any kind, a screen stream, another session. No callback after close, no use of the stack frame or the session after its end; closing ends; no lost wake-up |
| `bt_rpc` | BtRpc | the same buffer; confirmations may never come. No send after close, no reply dropped while open, a disconnect ends the session |

The type invariants are theorems (section 5) and not repeated in the runs. So are the
invariants at the core of the liveness properties, and `ImplementsKeyEvents`: each was
checked by TLC on its run's instance before it was proved.

### Bounds, and why they are enough

* Bounds are guards named `Max...`: starts, edges, expiries, messages,
  operations, injections, events, chunks, erasures (`MaxGen`). They bound the
  length of a history, never what a step may do.
* Three record clients and three pubsub subscribers are the fewest for which one
  waits, one holds and one comes or goes. The theorems of section 5 have no bound.
* Two starts let a task's last steps overlap the next start, by the starter or
  against a command, which is what the counterexample of `desktop_order` needs. A
  second starter would only repeat the first one's steps: whoever finds the lock
  taken does nothing, and the theorems hold for any number of both.
* A heap of 8 units has room for three blocks with their headers and a hole between
  them: a free finds no neighbour, one or both free, and a rest is split off or not.
* Two clients that contend for a file and a third that removes it, formats the card
  or reuses the node's address are the fewest for the storage's hazards; one name
  under two prefixes is what tells the lists apart. One flip takes the card out or
  puts it in; the mount itself can find it gone again.
* Queues of 1 to 3 elements are full in the runs; the code's are 8 to 16 long. No
  property depends on the length, except that it is reached. The storage's queue is
  longer (8) than there are clients that wait for their answers, and is not bounded.
* `LongCounts = 2` is the code's constant `INPUT_LONG_PRESS_COUNTS`; four expiries
  reach a Long and two Repeats. The debounce of 2 stands for
  `INPUT_DEBOUNCE_TICKS`: the counter starts in the middle and leaves it up or down.
* `log`, `held`, `open`, `repeated`, `seen`, `sent`, `published`, `missed`, `mine` and `strayed` are history
  variables: no guard of a step reads them, but for the bounds.
* `CHECK_DEADLOCK FALSE` is said where the bounded system may stop (all keys up,
  the session gone, the dispatcher freed, no message left, the device halted), or, in `pubsub` and
  `view_dispatcher`, where the code itself has the dead end that the property
  names.

### Fairness, and why the code justifies it

* Weak fairness of a thread's steps: FreeRTOS schedules by priority with time
  slices, every service blocks when it has nothing to do, so every ready thread
  runs in the end.
* Strong fairness of a step that takes a mutex or waits for a place in a queue: a
  FreeRTOS mutex or queue wakes the waiter that is first in its event list, so one
  that is free again and again comes to everybody. It is assumed only of
  `Unsubscribe`, of the loader's tasks putting to the desktop, of the RPC's and
  the Bluetooth's mutexes, and of `RemoveViews` and `FreeDispatcher`.
* Timeouts expire (`FeedStep`, `TimerExpires`), records that are awaited are
  created by the service that owns them (`OpenReturns` of the record), applications
  and commands return (`LoaderFreed`, `DeviceLocksAgain`), a client closes or frees
  the file it has open (`OpenReturns` of the storage), keys are let go of
  (`PressIsReleased`, `StopReturns`), another session's request ends
  (`OtherReleases`).
* Not assumed: that a phone confirms, that a host sends or leaves, that the user
  does anything, that a subscriber that is leaving empties its queue.

## 4. What the properties exclude

`DeadEnd` in `UnsubscribeReturns` and the full queue in `FreedUnlessFull` are
states the code can reach and not leave: the exception is stated as narrowly as
the state, and everything else returns. `injects = 0` in two properties of the
GUI: an injected Press for a key that is already down does split the input, by
construction of `gui_input`. `NamesHold` in `PressIsReleased` and `PressInTurn`,
`~repeated` in `OneViewAtATime` and `PressInTurn` of the dispatcher, and `Stale` in
`StopReturns`: a view port that is turned with an arrow held (section 6).
`OnlyTurningConfuses`, proved of both modules, says that nothing else makes these
exceptions: while the names hold, all keys up means none seen pressed, and a name is
pressed twice only by a second Press of a key that is down, which the GUI does not
hand out unless one is injected (`PressInTurn`, proved of GuiInput). `halted` in `DeviceLocksAgain` and `LoaderFreed`: the
halt that `desktop_order` shows. `missed` in `DeviceLocksAgain`: a CLI command was
running when the device should have locked, or armed its timer (section 6).
`strayed` in `LeaksReported`: a block freed by another thread stays in the
dictionary of its first owner (`memmgr_heap.c:213`).

The storage's model leaves out a card that is swapped between two ticks, which the
code cannot see either; opens by a `File` that still has the id of an earlier file
and a path of no storage, which no caller in the repository makes (the CLI and the
RPC take a new `File` each time); and the service's own notifications, which
`storage_ext.c:628` avoids on the first launch because the notification service
waits for the storage then.

## 5. Proofs

All with TLAPS, for any finite or infinite constants that satisfy the named
assumptions of the modules (`ConstAssumption`, `PubSubAssumption`,
`HeapAssumption`, `StorageAssumption`, `LoaderAssumption`, `DesktopAssumption`,
`InputAssumption`, `GuiAssumption`, `DispatcherAssumption`, `RpcAssumption`). Every proof has the same
shape: an inductive invariant, a lemma per action, and the properties from it. Every
safety property and every refinement that a passing run checks is a theorem.

* **FuriRecordProofs** proves `TypeOK`, `NoUseAfterErase`, `HoldersExact`,
  `HoldersSeeLiveData` and `PlaceholderIsAwaited` of `Spec`. None but `TypeOK` is
  inductive alone: that a client's node is alive (`NoUseAfterErase`) needs that
  the destroy's test of `holders_count` sees it, thus `HoldersExact`, a statement
  about cardinalities (lemmas `UsersOpen` and `UsersClose`, from
  `FiniteSetTheorems`; `Clients` is assumed finite); that the data read is the
  data published needs `DataInv`. The refinement `Spec => Reg!RSpec` rests on both:
  a destroy that goes through finds nobody inside (`EraseUnused`), and what the
  unlocked read returns is the value that the name has at that moment.
* **FuriPubSubProofs** proves `TypeOK`, `ListIsSubscribers`,
  `NoCallbackAfterUnsubscribe`, `PublisherGoesOn` and the refinement `Spec => BC!BSpec`. `SeenInv`:
  with the mutex free everybody has seen everything, and while `p` publishes
  exactly the items before its iterator have seen the message. From it each step
  is a step of Broadcast or a stutter.
* **MemmgrHeapProofs** proves `TypeOK`, `FreeBytesExact`, `LeaksReported` and the
  refinement `Spec => Alloc!ASpec`. `HeapInv` says that the sizes cut the heap into
  blocks without overlap or hole (`PartitionOK`), and that the list is sorted and has
  no two neighbours (`ListOK`). The work is in the lemma of
  `prvInsertBlockIntoFreeList`, by cases of the two merges, and in the refusal: the
  units of a gap between taken blocks are all in one free block, since two would be
  neighbours.
* **LoaderProofs** proves all of the loader's safety properties of `Spec` (without
  `loader open`, with which they are false). `IInv` says who owns the lock
  (`Exclusion`: at most one thread in its section or task alive, and `lockCount`
  says whether there is one), and what the owner knows of the thread object
  (`ThreadInv`), of the arguments (`ArgsInv`) and of the insomnia level
  (`AwakeInv`). `failed = FALSE` is part of it: each assertion follows from what
  the owner knows. `DesktopImplementsLoader` shows that every step of the loader with
  its desktop is a step of the loader or leaves it alone, so all of it holds with the
  desktop too (`DesktopKeepsLoader`), whatever the length of its queue. `DInv` adds
  the desktop's own variables: a `Started` in its queue has its `Stopped` behind it or
  still to come (`EndFollows`), from which the device always has a reason to lock
  itself (`LockIsPending`), unless it has halted or a command was `missed`.
* **StorageProofs** proves `TypeOK`, `ListExact`, `ReachesOwnFile`, `OneHolder`,
  `NoLostWakeup` and `OpenFileExists`. The invariant ties the queue to the clients
  (`QueueInv`: one request per client, of a kind that its place and its file's type
  allow), and every node to its `File` and back (`FilesInv`). With them each step is a
  step of FileTable or a stutter: the node that a close finds is the client's own
  (`FoundIsOwn`), and the path of a node names its storage, so that the test by path
  is a test by file.
* **InputProofs** is about both ends of the input's pubsub. `SrvInv` proves
  `SrvTypeOK`, `PressShape` and `NoLevelMissed` of InputSrv: when the thread goes on
  after stopping a timer, no command, no expiry and no callback of it is left
  (`TimerInv`), so the count that it reads says what was published of the press
  (`CountInv`). `TurnInv` gives the refinement `SrvSpec => KE!KSpec`. Of GuiInput it
  proves `TypeOK`, `NoInputAfterRemove`, `OneViewPortAtATime`, `QueueIsServed`,
  `LockdownShields`, `PressInTurn`, `ReleaseIsAwaited` and `OnlyTurningConfuses`.
  `TurnsInv` is what the routing rests on: a Press finds its key up once everything
  before it in the queue has been handled. It is about the keys as they are published;
  of their names the proofs use that the turning is one to one (`NameIs`) and leaves
  all but the arrows alone.
* **ViewDispatcherProofs** proves `TypeOK`, `NoInputAfterRemove`, `OneViewAtATime`,
  `PressInTurn`, `ReleaseIsAwaited`, `PressOnlyCurrent` and `OnlyTurningConfuses`. Its
  `TurnsInv` is over names, and holds whatever events come: a name that the view port
  does not see pressed will be up once the queue and the event the GUI's thread is
  putting were handled, and as long as none was pressed twice every Press finds its
  name up. `MutexInv` is for the GUI's mutex.
* **RpcProofs** has an invariant of the session that every transport keeps
  (`SessionInv`: the worker calls back inside the mutex, has seen the stream empty when
  it goes to sleep, and ends because it was told to) and one for each transport. For
  the CLI, `TypeOK`, `NoCallbackAfterClose` and `NoUseAfterEnd`: `CallbackInv` says
  which callbacks can be set where the CLI's thread is, `EndInv` that the command
  returns only after the session's last callback. For Bluetooth, `BtTypeOK`,
  `NoSendAfterClose`, `RepliesAreSent` and `BtLiveSession`: `GapInv` says which
  callbacks can be set where the GAP thread is and that it holds its mutex only while
  it feeds, `DisconnectInv` whose the flag `Disconnected` is.

Only model-checked: liveness, which is outside the prover's reach, as is `ENABLED`.
What can be proved of it is its core: an invariant saying that what somebody waits for
is there or on its way, so that only the scheduler's fairness is left to TLC.

| Liveness, checked by TLC | Its core, proved |
|---|---|
| `OpenReturns` (record) | `PlaceholderIsAwaited`, `HoldersExact`: nothing left behind keeps a record from being created |
| `UnsubscribeReturns` | `PublisherGoesOn`: who holds the mutex can go on, or waits for a queue that is still emptied, but for the dead end |
| `LoaderFreed` | `LockExact`: a lock that is held has an owner |
| `DeviceLocksAgain` | `LockIsPending` |
| `LevelReported` | `NoLevelMissed`: the thread does not sleep over a pin that it has not reported |
| `OpenReturns` (storage) | `NoLostWakeup`: a refused open has its event set, or a close to come |
| `PressIsReleased` | `QueueIsServed`, and `ReleaseIsAwaited` of GuiInput: the key is down, or its Release is queued for that view port; `OnlyTurningConfuses` for its name |
| `StopReturns` | `ReleaseIsAwaited` of ViewDispatcher: a key that is waited for is one the view port sees pressed, or its Release is on its way; with `OnlyTurningConfuses`, the first means down unless `Stale` |
| `CloseReturns`, `NoLostWakeup` (RPC over the CLI) | `JoinIsAwaited`, `NeverAsleepOverBytes` |
| `DisconnectEnds` | `CloseIsFree`: the closing waits for nobody, and the worker knows of it |

`FreedUnlessFull` has no core but the fairness of the threads: its exception is the only
thing that the application waits for. `AnimationsAlternate`, and `NoAssertFails` with
`loader open`, are false (section 6).

## 6. Disagreements of the code with its documents

Each of these has a run whose counterexample is the history.

* `loader_cli_assert`: `loader open` tests `loader_is_locked` (`loader.c:103`) but
  does not lock; another starter locks and starts first; `furi_assert(thread->state
  == FuriThreadStateStopped)` (`thread.c:129`) fails.
* `desktop_order`: the loader unlocks (`loader.c:263`) before it publishes
  `ApplicationStopped`; the next application's `ApplicationStarted` overtakes it;
  the desktop freezes a frozen animation and
  `furi_assert(animation_manager->current_animation)` (`animation_manager.c:435`)
  fails.

Met while modelling, and described here without a run of their own:

* `rpc.h:54` guarantees no callback once the session is closed; `rpc.c:180` calls
  `buffer_is_empty_callback` without the mutex, after closing. (`BtRpc` states it as
  `BtNoCallbackAfterClose`, which it violates; the CLI sets no such callback.)
* `desktop.c:64` drops an auto lock that finds a CLI command running, and
  `desktop.c:339` does not arm the timer when one runs at boot; the end of a command
  starts no timer, so the device stays unlocked until a key is pressed (after a
  boot, not even then: nothing is subscribed) or an application ends. `desktop.c:244` freezes the animation for such a command, and
  nothing continues it.
* `record.h:40` says that destroy returns false when the thread is not the owner;
  `record.c:106` looks at the holders only and keeps no owner.
* `loader.c:129` increments the lock count "to keep balance"; an application that
  ends before the increment leaves the loader locked for ever.
* `desktop.c:244` looks at the lock and `desktop.c:250` subscribes later: an
  application that starts in between is frozen twice or never.
* `input_cli.c:39` unsubscribes while the publisher may wait for its full queue
  with the pubsub's mutex: `DeadEnd`.
* `input.h:22` says Short is emitted after Release; the code emits it before
  (`input.c:117`), and `PressShape` states the code's order.
  `input.h:20` says Press and Release come after debounce; the counter leaves its
  two ends only at boot, and afterwards every level that is read is reported.
* `rpc_cli.c:76` asserts that a feed takes all bytes, though it may time out.
* `bt.c:223` sets the callbacks before their context: a buffer-is-empty callback
  in between gets the null context.
* `rpc.c:180` may tell the phone that the buffer is empty when bytes have come
  since the test.
* `rpc.c:143` calls feeding after close safe; the worker frees the session when
  it ends.
* `view_port.c:125` turns the arrows of an event as it is delivered, and
  `view_dispatcher.c:334` turns the view port when views are switched, also with an
  arrow held, as from a menu to `infrared_scene_universal_tv.c:93`. The Press of Up is then
  followed by the Release of Right: the dispatcher's `ongoing_input` keeps Up with all
  keys up, so a stopped dispatcher does not return at `view_dispatcher.c:97` ("Wait till
  all input events delivered") although all are delivered, and a Left pressed later
  comes as a second Press of Up, to the view that is current then. `NamesHold`,
  `Stale` and `repeated` name this case in the properties.
* `view_dispatcher.h:80` speaks of the navigation on Short; the code navigates on
  Long too (`view_dispatcher.c:266`).

## 7. Not modelled, and why

Drawing, the canvas, formats and radio protocols hold no behaviour that
interleavings change. FreeRTOS, FatFs, LittleFS and nanopb are third-party and
enter by what the code relies on: a mutex excludes and queues its waiters, a queue
blocks when full, a timer's callback runs in the timer task, the decoder takes
bytes until a message is complete. Hardware abstraction is registers. Applications
are the environment of the models: starters, view ports, handlers, clients.

Not modelled although it could be: the scene manager (its switches run the
application's handlers, so that it is only as interesting as they are), the Bt
service's own queue with the answer flag all its callers share, and the sessions
that its thread closes; the CLI over the virtual COM port; notification, dolphin,
power, dialogs; the services' boot order. Their notes in `PROJECT.json` say what
is hard in them, and the hazards name the lines.

Of the modelled components, what is left out is in the notes of `PROJECT.json`:
among it the loader's menu, thread flags and `join`, the desktop's scenes and PIN
entry, the RPC's handlers, pairing, the contents of files, the heap's walk.

## 8. Order of the modules, and what would come next

The modules were written in the order of what the rest of the firmware stands on:
records and pubsubs, the heap, the loader with its desktop, input, GUI and view
dispatcher, RPC with its two transports, storage. Next would be:

1. `BtSrv`: the queue, the shared answer flag, and closing by the Bt thread,
   composed with `BtRpc`.
2. `SceneManager`: the stack under handlers that switch scenes themselves, and
   `ViewDispatcher` composed with it.
3. `ServiceBoot`: the services' order of creating and opening records, composed
   with `FuriRecord` (does every open return?).
4. `CliVcp`, `Notification`, `Dolphin`, `Power`; thread flags and `join` in `Loader`.
5. Abstract specifications of the loader (one user of the device at a time) and of an
   RPC session (bytes in, replies out, an end), to be implemented as the others are.
