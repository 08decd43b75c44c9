------------------------------- MODULE RpcProofs -------------------------------
(***************************************************************************)
(* Theorems about an RPC session with its two transports, the CLI and      *)
(* Bluetooth, for any buffer, any kinds of messages and any number of      *)
(* chunks.  What holds of a session however it is used is proved once.     *)
(***************************************************************************)
EXTENDS RpcCli, BtRpc, SequenceTheorems, TLAPS

(***************************************************************************)
(* The session                                                             *)
(***************************************************************************)
(* Everything that a transport's step does to a session.                   *)
SessionStep ==
  \/ Worker
  \/ Open \/ Disconnect
  \/ \E c \in Callbacks \cup {"context"} : Set(c) \/ Unset(c)
  \/ \E c \in Chunks : Feed(c)
  \/ FeedStep
  \/ Frame \/ FrameSent \/ OtherTakes \/ OtherReleases
  \/ Return("notify", "count") \/ Return("send", "sent")
  \/ Return("close", "closed") \/ Return("bye", "freed")
  \/ UNCHANGED session

Holding == {"send", "sent", "close", "closed", "bye", "freed"}

(* What is fed is a chunk.                                                 *)
FedInv == fpc = "put" => chunk \in Chunks

(* The worker holds callbacks_mutex exactly inside the functions that call *)
(* back under it, and whoever is inside such a callback found it set.      *)
MutexInv ==
  /\ mutex = "worker" <=> wpc \in Holding
  /\ wpc = "send" \/ mutex = "gui" => "send" \in cb
  /\ wpc = "close" => "close" \in cb

(* On its way to the wait with an empty hand the worker has seen the stream*)
(* empty: what is there now has been put since.                            *)
WakeInv ==
  /\ wpc = "wait" => msg = NULL
  /\ /\ wpc \in {"check", "load", "notify", "count", "wait"}
     /\ msg = NULL
     /\ stream # <<>>
     /\ ~decodeError
     => "NewData" \in flags \/ fpc = "flag"

(* It ends because it was told to.                                         *)
EndedInv == wpc \in {"free", "bye", "freed", "gone"} => terminate

SessionInv == SessionTypeOK /\ FedInv /\ MutexInv /\ WakeInv /\ EndedInv

LEMMA SessionInitInv == ASSUME RpcAssumption, SessionInit PROVE SessionInv
<1>1. /\ stream \in Seq(Chunks) /\ Len(stream) = 0 /\ 0 <= BufferSize
      /\ fed \in 0..MaxChunks
  BY EmptySeq DEF SessionInit, RpcAssumption
<1>2. /\ flags = {} /\ wpc = "new" /\ msg = NULL /\ partial = FALSE
      /\ decodeError = FALSE /\ terminate = FALSE /\ cb = {}
      /\ mutex = "nobody" /\ busy = "nobody" /\ streaming = FALSE
      /\ fpc = "out" /\ chunk = NULL
  BY DEF SessionInit
<1>3. SessionTypeOK
  BY <1>1, <1>2 DEF SessionTypeOK, WorkerPc
<1> QED
  BY <1>2, <1>3 DEF SessionInv, FedInv, MutexInv, WakeInv, EndedInv, Holding

(* The head of the stream is a chunk, and so is every other one.           *)
LEMMA TakeTyped ==
  ASSUME SessionTypeOK, stream # <<>>, RpcAssumption
  PROVE  /\ Head(stream) \in Kinds \cup {"part"} /\ Head(stream) # NULL
         /\ Tail(stream) \in Seq(Chunks) /\ Len(Tail(stream)) <= BufferSize
<1>1. stream \in Seq(Chunks) /\ Len(stream) \in Nat /\ Len(stream) <= BufferSize /\ BufferSize \in Nat
  BY DEF SessionTypeOK, RpcAssumption
<1>2. Head(stream) \in Chunks /\ Tail(stream) \in Seq(Chunks) /\ Len(Tail(stream)) = Len(stream) - 1
  BY <1>1
<1> QED
  BY <1>1, <1>2 DEF Chunks, RpcAssumption

LEMMA ReadingStep == ASSUME RpcAssumption, SessionInv, Receive \/ Check \/ Load \/ Count \/ Wait PROVE SessionInv'
<1> USE DEF SessionInv, FedInv, MutexInv, WakeInv, EndedInv, Holding, SessionTypeOK,
            reader, state, feeder, session, WorkerPc
<1>1. CASE Receive
  <2>1. SessionTypeOK'
    BY <1>1, TakeTyped DEF Receive
  <2>2. WakeInv'
    BY <1>1, TakeTyped DEF Receive
  <2> QED
    BY <1>1, <2>1, <2>2 DEF Receive
<1>2. CASE Check
  BY <1>2 DEF Check
<1>3. CASE Load
  BY <1>3 DEF Load
<1>4. CASE Count
  BY <1>4 DEF Count
<1>5. CASE Wait
  <2>1. msg' \in Kinds \cup {"part", NULL}
    BY <1>5 DEF Wait, RpcAssumption, Kinds
  <2>2. flags' \subseteq flags \cap {"Disconnect"}
    BY <1>5 DEF Wait, PutOff
  <2>3. wpc' \in {"decoded", "read"} /\ wpc = "wait" /\ terminate' \in BOOLEAN /\ (terminate => terminate')
    BY <1>5 DEF Wait
  <2> QED
    BY <1>5, <2>1, <2>2, <2>3 DEF Wait
<1> QED
  BY <1>1, <1>2, <1>3, <1>4, <1>5

LEMMA ExecutingStep == ASSUME RpcAssumption, SessionInv,
         Execute \/ Unknown \/ Undecoded \/ Reply \/ Sent \/ Closing \/ Closed PROVE SessionInv'
<1> USE DEF SessionInv, FedInv, MutexInv, WakeInv, EndedInv, Holding, SessionTypeOK,
            reader, state, feeder, session, WorkerPc
<1>1. CASE Execute
  BY <1>1 DEF Execute
<1>2. CASE Unknown
  BY <1>2 DEF Unknown
<1>3. CASE Undecoded
  <2>1. stream' \in Seq(Chunks) /\ Len(stream') <= BufferSize
    BY <1>3, EmptySeq DEF Undecoded, RpcAssumption
  <2>2. wpc = "decoded" /\ wpc' \in {"after", "reply"} /\ decodeError' \in BOOLEAN
    BY <1>3 DEF Undecoded
  <2> QED
    BY <1>3, <2>1, <2>2 DEF Undecoded
<1>4. CASE Reply
  BY <1>4 DEF Reply
<1>5. CASE Sent
  BY <1>5 DEF Sent
<1>6. CASE Closing
  BY <1>6 DEF Closing
<1>7. CASE Closed
  BY <1>7 DEF Closed
<1> QED
  BY <1>1, <1>2, <1>3, <1>4, <1>5, <1>6, <1>7

LEMMA EndingStep == ASSUME RpcAssumption, SessionInv, After \/ Free \/ Freed PROVE SessionInv'
<1> USE DEF SessionInv, FedInv, MutexInv, WakeInv, EndedInv, Holding, SessionTypeOK,
            reader, state, feeder, session, WorkerPc
<1>1. CASE After
  <2>1. wpc = "after" /\ busy' \in {"nobody", "worker", "other"}
    BY <1>1 DEF After
  <2>2. wpc' \in {"free", "read"} /\ (wpc' = "free" => terminate)
    BY <1>1 DEF After
  <2>3. /\ msg' = NULL /\ partial' = FALSE
        /\ UNCHANGED <<stream, flags, state, cb, mutex, feeder>>
    BY <1>1 DEF After
  <2> QED
    BY <2>1, <2>2, <2>3
<1>2. CASE Free
  BY <1>2 DEF Free
<1>3. CASE Freed
  BY <1>3 DEF Freed
<1> QED
  BY <1>1, <1>2, <1>3

LEMMA CallingStep == ASSUME RpcAssumption, SessionInv,
         Return("notify", "count") \/ Return("send", "sent") \/ Return("close", "closed") \/ Return("bye", "freed")
         \/ Frame \/ FrameSent \/ OtherTakes \/ OtherReleases PROVE SessionInv'
<1> USE DEF SessionInv, FedInv, MutexInv, WakeInv, EndedInv, Holding, SessionTypeOK,
            reader, state, feeder, session, WorkerPc
<1>1. CASE Return("notify", "count")
  BY <1>1 DEF Return
<1>2. CASE Return("send", "sent")
  BY <1>2 DEF Return
<1>3. CASE Return("close", "closed")
  BY <1>3 DEF Return
<1>4. CASE Return("bye", "freed")
  BY <1>4 DEF Return
<1>5. CASE Frame
  BY <1>5 DEF Frame
<1>6. CASE FrameSent
  BY <1>6 DEF FrameSent
<1>7. CASE OtherTakes
  BY <1>7 DEF OtherTakes
<1>8. CASE OtherReleases
  BY <1>8 DEF OtherReleases
<1> QED
  BY <1>1, <1>2, <1>3, <1>4, <1>5, <1>6, <1>7, <1>8

LEMMA FeedingStep == ASSUME RpcAssumption, SessionInv, FeedStep \/ \E c \in Chunks : Feed(c) PROVE SessionInv'
<1> USE DEF SessionInv, FedInv, MutexInv, WakeInv, EndedInv, Holding, SessionTypeOK,
            reader, state, feeder, session, WorkerPc
<1>1. CASE FeedPut
  <2>1. stream' \in Seq(Chunks) /\ Len(stream') <= BufferSize
    BY <1>1 DEF FeedPut, HasRoom, RpcAssumption
  <2> QED
    BY <1>1, <2>1 DEF FeedPut
<1>2. CASE FeedTimeout
  BY <1>2 DEF FeedTimeout
<1>3. CASE FeedFlag
  BY <1>3 DEF FeedFlag
<1>4. ASSUME NEW c \in Chunks, Feed(c) PROVE SessionInv'
  BY <1>4 DEF Feed, RpcAssumption
<1> QED
  BY <1>1, <1>2, <1>3, <1>4 DEF FeedStep

LEMMA OwningStep == ASSUME RpcAssumption, SessionInv,
         Open \/ Disconnect \/ (\E c \in Callbacks \cup {"context"} : Set(c) \/ Unset(c)) \/ UNCHANGED session
         PROVE SessionInv'
<1> USE DEF SessionInv, FedInv, MutexInv, WakeInv, EndedInv, Holding, SessionTypeOK,
            reader, state, feeder, session, WorkerPc
<1>1. CASE Open
  BY <1>1 DEF Open
<1>2. CASE Disconnect
  BY <1>2 DEF Disconnect
<1>3. ASSUME NEW c \in Callbacks \cup {"context"}, Set(c) PROVE SessionInv'
  BY <1>3 DEF Set
<1>4. ASSUME NEW c \in Callbacks \cup {"context"}, Unset(c) PROVE SessionInv'
  BY <1>4 DEF Unset
<1>5. CASE UNCHANGED session
  BY <1>5
<1> QED
  BY <1>1, <1>2, <1>3, <1>4, <1>5

LEMMA SessionKeepsInv == ASSUME RpcAssumption, SessionInv, SessionStep PROVE SessionInv'
  BY ReadingStep, ExecutingStep, EndingStep, CallingStep, FeedingStep, OwningStep DEF SessionStep, Worker

(* Once told to end, the worker does not forget it: a Disconnect that is put*)
(* off while the stream has bytes is still there afterwards.               *)
LEMMA SessionKeepsTold == ASSUME Told, SessionStep PROVE Told'
<1> USE DEF Told, reader, state, session
<1>1. CASE Receive \/ Check \/ Load \/ Count
  BY <1>1 DEF Receive, Check, Load, Count
<1>2. CASE Wait
  BY <1>2 DEF Wait, PutOff
<1>3. CASE Execute \/ Unknown \/ Undecoded \/ Reply \/ Sent \/ Closing \/ Closed
  BY <1>3 DEF Execute, Unknown, Undecoded, Reply, Sent, Closing, Closed
<1>4. CASE After \/ Free \/ Freed
  BY <1>4 DEF After, Free, Freed
<1>5. CASE Frame \/ FrameSent \/ OtherTakes \/ OtherReleases \/ FeedStep
  BY <1>5 DEF Frame, FrameSent, OtherTakes, OtherReleases, FeedStep, FeedPut, FeedTimeout, FeedFlag
<1>6. CASE \/ Return("notify", "count") \/ Return("send", "sent")
           \/ Return("close", "closed") \/ Return("bye", "freed")
  BY <1>6 DEF Return
<1>7. CASE Open \/ Disconnect \/ UNCHANGED session
  BY <1>7 DEF Open, Disconnect
<1>8. CASE (\E c \in Callbacks \cup {"context"} : Set(c) \/ Unset(c)) \/ \E c \in Chunks : Feed(c)
  BY <1>8 DEF Set, Unset, Feed
<1> QED
  BY <1>1, <1>2, <1>3, <1>4, <1>5, <1>6, <1>7, <1>8 DEF SessionStep, Worker

(* What the worker's own steps change, for a transport that looks on: the  *)
(* callbacks and the feeder not at all, and where the worker gets to.      *)
LEMMA WorkerFrame ==
  ASSUME SessionInv, Worker
  PROVE  /\ UNCHANGED <<cb, feeder>>
         /\ Told' => Told
         /\ wpc # "new" /\ wpc' # "new"
         /\ wpc' = "notify" => "empty" \in cb
         /\ wpc' = "send" => "send" \in cb
         /\ wpc \notin {"send", "notify", "close", "bye"}
         /\ wpc' \in {"freed", "gone"} => wpc = "freed" \/ (wpc = "free" /\ "terminated" \notin cb)
         /\ wpc = "freed" => wpc' = "gone"
         /\ wpc # "gone"
         /\ wpc' = "close" => "close" \in cb
         /\ mutex' = "gui" <=> mutex = "gui"
<1> USE DEF Told, reader, state, session, feeder, SessionInv, SessionTypeOK, MutexInv, Holding
<1>1. CASE Receive \/ Check \/ Load \/ Count
  BY <1>1 DEF Receive, Check, Load, Count
<1>2. CASE Wait
  BY <1>2 DEF Wait, PutOff
<1>3. CASE Execute \/ Unknown \/ Undecoded
  BY <1>3 DEF Execute, Unknown, Undecoded
<1>4. CASE Reply \/ Sent \/ Closing \/ Closed
  BY <1>4 DEF Reply, Sent, Closing, Closed
<1>5. CASE After \/ Free \/ Freed
  BY <1>5 DEF After, Free, Freed
<1> QED
  BY <1>1, <1>2, <1>3, <1>4, <1>5 DEF Worker

(***************************************************************************)
(* The CLI                                                                 *)
(***************************************************************************)
CliTyped ==
  /\ cpc \in CliPc
  /\ connected \in BOOLEAN /\ closeRequest \in BOOLEAN
  /\ semaphore \in 0..1

(* The callbacks that are set, by where the CLI's thread is; only the loop *)
(* feeds.                                                                  *)
CallbackInv ==
  /\ "send" \in cb => cpc \in {"close", "terminated", "loop", "unsend"}
  /\ "close" \in cb => cpc \in {"terminated", "loop", "unsend", "unclose"}
  /\ "empty" \notin cb /\ wpc # "notify"
  /\ cpc \in {"loop", "unsend", "unclose", "unempty", "disconnect", "join", "returned"}
       => "terminated" \in cb
  /\ fpc # "out" => cpc = "loop"

(* The session is told to end when it is closed, and the command returns   *)
(* only after the session's last callback, which releases the semaphore.   *)
EndInv ==
  /\ Told <=> cpc \in {"join", "returned"}
  /\ wpc \in {"freed", "gone"} <=> semaphore = 1 \/ cpc = "returned"

IInv == SessionInv /\ CliTyped /\ CallbackInv /\ EndInv

LEMMA CliSessionStep == ASSUME [Next]_vars PROVE SessionStep
<1>1. CASE WorkerNext
  BY <1>1 DEF WorkerNext, SendBytes, CloseCallback, TerminatedCallback, SessionStep
<1>2. CASE Start
  BY <1>2 DEF Start, SessionStep, Callbacks
<1>3. CASE CloseSession
  BY <1>3 DEF CloseSession, SessionStep, Callbacks
<1>4. CASE Break \/ Join \/ HostLeaves \/ UNCHANGED vars
  BY <1>4 DEF Break, Join, HostLeaves, vars, SessionStep
<1>5. CASE \E c \in Chunks : FeedBytes(c)
  BY <1>5 DEF FeedBytes, SessionStep
<1>6. CASE FeedStep \/ Frame \/ FrameSent \/ OtherTakes \/ OtherReleases
  BY <1>6 DEF SessionStep
<1> QED
  BY <1>1, <1>2, <1>3, <1>4, <1>5, <1>6 DEF Next

LEMMA CliInitInv == ASSUME RpcAssumption, Init PROVE IInv
<1>1. SessionInv
  BY SessionInitInv DEF Init
<1>2. /\ flags = {} /\ terminate = FALSE /\ cb = {} /\ wpc = "new" /\ fpc = "out"
      /\ cpc = "open" /\ connected = TRUE /\ closeRequest = FALSE /\ semaphore = 0
  BY DEF Init, SessionInit
<1>3. EndInv
  BY <1>2 DEF EndInv, Told
<1>4. CallbackInv
  BY <1>2 DEF CallbackInv
<1>5. CliTyped
  <2>1. cpc \in CliPc /\ semaphore \in 0..1
    BY <1>2 DEF CliPc
  <2>2. connected \in BOOLEAN /\ closeRequest \in BOOLEAN
    BY <1>2
  <2> QED
    BY <2>1, <2>2 DEF CliTyped
<1> QED
  BY <1>1, <1>3, <1>4, <1>5 DEF IInv

LEMMA CliWorkerStep == ASSUME IInv, Worker, UNCHANGED cli PROVE CliTyped' /\ CallbackInv' /\ EndInv'
<1> USE DEF IInv, CliTyped, CallbackInv, EndInv, cli, feeder
<1>1. Worker /\ SessionInv /\ SessionStep
  BY DEF SessionStep
<1>2. Told' <=> Told
  BY <1>1, WorkerFrame, SessionKeepsTold
<1>3. wpc = "free" => Told
  BY <1>1 DEF SessionInv, EndedInv, Told
<1> QED
  BY <1>1, <1>2, <1>3, WorkerFrame

LEMMA CliCallbackStep == ASSUME IInv, SendBytes \/ CloseCallback \/ TerminatedCallback
                         PROVE CliTyped' /\ CallbackInv' /\ EndInv'
<1> USE DEF IInv, CliTyped, CallbackInv, EndInv, Told, cli, feeder, reader, state, Return
<1>1. CASE SendBytes
  BY <1>1 DEF SendBytes
<1>2. CASE CloseCallback
  BY <1>2 DEF CloseCallback
<1>3. CASE TerminatedCallback
  BY <1>3 DEF TerminatedCallback
<1> QED
  BY <1>1, <1>2, <1>3

LEMMA CliOtherStep == ASSUME IInv, UNCHANGED cli, FeedStep \/ Frame \/ FrameSent \/ OtherTakes \/ OtherReleases
                      PROVE CliTyped' /\ CallbackInv' /\ EndInv'
<1> USE DEF IInv, CliTyped, CallbackInv, EndInv, Told, cli, feeder, reader, state
<1>1. CASE FeedStep
  BY <1>1 DEF FeedStep, FeedPut, FeedTimeout, FeedFlag
<1>2. CASE Frame \/ FrameSent \/ OtherTakes \/ OtherReleases
  BY <1>2 DEF Frame, FrameSent, OtherTakes, OtherReleases
<1> QED
  BY <1>1, <1>2

LEMMA CliStartStep == ASSUME IInv, Start PROVE CliTyped' /\ CallbackInv' /\ EndInv'
<1> USE DEF IInv, CliTyped, CliPc, CallbackInv, EndInv, Told, feeder, reader, state, Goto
<1>1. CASE Goto("open", "context") /\ Open
  BY <1>1 DEF Open
<1>2. CASE Goto("context", "send") /\ Set("context")
  BY <1>2 DEF Set
<1>3. CASE Goto("send", "close") /\ Set("send")
  BY <1>3 DEF Set
<1>4. CASE Goto("close", "terminated") /\ Set("close")
  BY <1>4 DEF Set
<1>5. CASE Goto("terminated", "loop") /\ Set("terminated")
  BY <1>5 DEF Set
<1> QED
  BY <1>1, <1>2, <1>3, <1>4, <1>5 DEF Start

LEMMA CliCloseStep == ASSUME IInv, Break \/ CloseSession \/ Join PROVE CliTyped' /\ CallbackInv' /\ EndInv'
<1> USE DEF IInv, CliTyped, CliPc, CallbackInv, EndInv, Told, session, feeder, reader, state, Goto
<1>1. CASE Break
  BY <1>1 DEF Break
<1>2. CASE Goto("unsend", "unclose") /\ Unset("send")
  BY <1>2 DEF Unset
<1>3. CASE Goto("unclose", "unempty") /\ Unset("close")
  BY <1>3 DEF Unset
<1>4. CASE Goto("unempty", "disconnect") /\ Unset("empty")
  BY <1>4 DEF Unset
<1>5. CASE Goto("disconnect", "join") /\ Disconnect
  BY <1>5 DEF Disconnect
<1>6. CASE Join
  BY <1>6 DEF Join
<1> QED
  BY <1>1, <1>2, <1>3, <1>4, <1>5, <1>6 DEF CloseSession

LEMMA CliHostStep == ASSUME IInv, HostLeaves \/ (\E c \in Chunks : FeedBytes(c)) \/ UNCHANGED vars
                     PROVE CliTyped' /\ CallbackInv' /\ EndInv'
<1> USE DEF IInv, CliTyped, CallbackInv, EndInv, Told, cli, session, feeder, reader, state
<1>1. CASE HostLeaves
  BY <1>1 DEF HostLeaves
<1>2. ASSUME NEW c \in Chunks, FeedBytes(c) PROVE CliTyped' /\ CallbackInv' /\ EndInv'
  BY <1>2 DEF FeedBytes, Feed
<1>3. CASE UNCHANGED vars
  BY <1>3 DEF vars
<1> QED
  BY <1>1, <1>2, <1>3

(* The invariant of a session over the CLI: who holds callbacks_mutex,      *)
(* which callbacks are set, what the worker was told, what has ended.       *)
THEOREM RpcCliInvariant == Spec => []IInv
<1>1. Init => IInv
  BY CliInitInv, RpcAssumption
<1>2. ASSUME IInv, [Next]_vars PROVE IInv'
  <2>1. SessionInv'
    BY <1>2, CliSessionStep, SessionKeepsInv, RpcAssumption DEF IInv
  <2>2. CASE WorkerNext
    BY <1>2, <2>1, <2>2, CliWorkerStep, CliCallbackStep DEF WorkerNext, IInv
  <2>3. CASE (FeedStep \/ Frame \/ FrameSent \/ OtherTakes \/ OtherReleases) /\ UNCHANGED cli
    BY <1>2, <2>1, <2>3, CliOtherStep DEF IInv
  <2>4. CASE Start \/ Break \/ CloseSession \/ Join
    BY <1>2, <2>1, <2>4, CliStartStep, CliCloseStep DEF IInv
  <2>5. CASE HostLeaves \/ (\E c \in Chunks : FeedBytes(c)) \/ UNCHANGED vars
    BY <1>2, <2>1, <2>5, CliHostStep DEF IInv
  <2> QED
    BY <1>2, <2>2, <2>3, <2>4, <2>5 DEF Next
<1> QED
  BY <1>1, <1>2, PTL DEF Spec

(* Types, and the bound of the stream: rpc.c's buffer never overflows, the  *)
(* semaphore of rpc_cli.c is binary.                                        *)
THEOREM RpcCliTypeOK == Spec => []TypeOK
<1>1. IInv => TypeOK
  BY DEF IInv, SessionInv, CliTyped, TypeOK
<1> QED
  BY <1>1, RpcCliInvariant, PTL

(* rpc_session_close: once it has returned, no send or close callback runs  *)
(* or is called any more.                                                   *)
THEOREM RpcCliNoCallbackAfterClose == Spec => []NoCallbackAfterClose
<1>1. IInv => NoCallbackAfterClose
  BY DEF IInv, SessionInv, MutexInv, CallbackInv, NoCallbackAfterClose
<1> QED
  BY <1>1, RpcCliInvariant, PTL

(* rpc_cli_command_start_session: neither its stack nor the session is used *)
(* after its end.                                                           *)
THEOREM RpcCliNoUseAfterEnd == Spec => []NoUseAfterEnd
<1>1. IInv => ContextAlive
  <2> SUFFICES ASSUME IInv, cpc = "returned"
               PROVE  wpc \notin {"notify", "send", "close", "bye"} /\ mutex # "gui"
    BY DEF ContextAlive
  <2>1. wpc \in {"freed", "gone"} /\ "send" \notin cb
    BY DEF IInv, EndInv, CallbackInv
  <2> QED
    BY <2>1 DEF IInv, SessionInv, MutexInv
<1>2. IInv => LiveSession
  BY DEF IInv, SessionInv, EndedInv, EndInv, Told, CallbackInv, LiveSession
<1> QED
  BY <1>1, <1>2, RpcCliInvariant, PTL DEF NoUseAfterEnd

(* While the command waits, the worker knows that it has to end, however    *)
(* long it puts the flag off, and the semaphore was released exactly if the *)
(* session's last callback has run: the command neither misses it nor takes *)
(* it twice.                                                                *)
THEOREM RpcCliJoinIsAwaited == Spec => []JoinIsAwaited
<1>1. IInv => JoinIsAwaited
  BY DEF IInv, EndInv, JoinIsAwaited
<1> QED
  BY <1>1, RpcCliInvariant, PTL

(* rpc_pb_stream_read does not wait for a flag while the stream has bytes   *)
(* that no flag announces.                                                  *)
THEOREM RpcCliNeverAsleepOverBytes == Spec => []NeverAsleepOverBytes
<1>1. IInv => NeverAsleepOverBytes
  BY DEF IInv, SessionInv, WakeInv, NeverAsleepOverBytes
<1> QED
  BY <1>1, RpcCliInvariant, PTL

(***************************************************************************)
(* Bluetooth                                                               *)
(***************************************************************************)
BtTyped ==
  /\ gpc \in {"clear", "open", "send", "empty", "context", "callback", "connected",
              "feeding", "gone"} \cup ClosePc
  /\ linked \in BOOLEAN /\ callback \in BOOLEAN /\ inFlight \in BOOLEAN
  /\ ready \in 0..BufferSize
  /\ buffMutex \in {"nobody", "gap"}
  /\ rpcEvent \subseteq {"Sent", "Disconnected"}
  /\ spc \in {"start", "clear", "tx", "wait"}

(* The callbacks that are set, by where the GAP thread is; it feeds inside  *)
(* the serial service's mutex; only an open session is linked.             *)
GapInv ==
  /\ "send" \in cb => gpc \in {"empty", "context", "callback", "connected", "feeding", "event", "unsend"}
  /\ "close" \notin cb /\ "terminated" \notin cb
  /\ gpc \in {"clear", "open"} <=> wpc = "new"
  /\ gpc \in {"clear", "open", "gone"} <=> ~linked
  /\ fpc # "out" => gpc = "feeding"
  /\ buffMutex = "gap" <=> gpc = "feeding"

(* bt_rpc_send_bytes_callback is under way only inside the send callback.  *)
SenderInv == spc # "start" => Sending

(* The flag Disconnected is the one of the session before, until the first *)
(* step, or of this one, once it is being closed; and the worker is told    *)
(* exactly by the closing.                                                 *)
DisconnectInv ==
  /\ "Disconnected" \in rpcEvent => gpc \in {"clear", "gone"} \cup (ClosePc \ {"event"})
  /\ gpc \in {"gone"} \cup (ClosePc \ {"event"}) => "Disconnected" \in rpcEvent
  /\ Told <=> IsClosed

BtInv == BtTyped /\ GapInv /\ SenderInv /\ DisconnectInv

BtIInv == SessionInv /\ BtInv

(* bt_on_gap_event_callback closes in this order.                          *)
LEMMA CloseSteps ==
  /\ At("event") => GapGoto("event", "unsend")
  /\ At("unsend") => GapGoto("unsend", "unclose")
  /\ At("unclose") => GapGoto("unclose", "unempty")
  /\ At("unempty") => GapGoto("unempty", "disconnect")
  /\ At("disconnect") => GapGoto("disconnect", "uncallback")
  /\ At("uncallback") => GapGoto("uncallback", "unlink")
  /\ At("unlink") => GapGoto("unlink", "gone")
<1> DEFINE o == CloseOrder
<1>1. /\ o[1] = "event" /\ o[2] = "unsend" /\ o[3] = "unclose" /\ o[4] = "unempty"
      /\ o[5] = "disconnect" /\ o[6] = "uncallback" /\ o[7] = "unlink" /\ o[8] = "gone"
  BY DEF CloseOrder
<1> HIDE DEF o
<1>2. ASSUME NEW p, At(p)
      PROVE  \/ p = "event" /\ GapGoto("event", "unsend")
             \/ p = "unsend" /\ GapGoto("unsend", "unclose")
             \/ p = "unclose" /\ GapGoto("unclose", "unempty")
             \/ p = "unempty" /\ GapGoto("unempty", "disconnect")
             \/ p = "disconnect" /\ GapGoto("disconnect", "uncallback")
             \/ p = "uncallback" /\ GapGoto("uncallback", "unlink")
             \/ p = "unlink" /\ GapGoto("unlink", "gone")
  <2>1. PICK i \in 1..7 : o[i] = p /\ GapGoto(p, o[i + 1])
    BY <1>2 DEF At, o
  <2>2. i = 1 \/ i = 2 \/ i = 3 \/ i = 4 \/ i = 5 \/ i = 6 \/ i = 7
    OBVIOUS
  <2> QED
    BY <1>1, <2>1, <2>2
<1> QED
  BY <1>2

LEMMA BtSessionStep == ASSUME [BtNext]_btVars PROVE SessionStep
<1>1. CASE BtWorkerNext \/ Notify
  BY <1>1 DEF BtWorkerNext, Notify, SessionStep
<1>2. CASE Connected
  BY <1>2 DEF Connected, ClearDisconnected, SessionStep, Callbacks
<1>3. CASE Close
  BY <1>3 DEF Close, SessionStep, Callbacks
<1>4. CASE Fed \/ Confirmed \/ BeginClose \/ SendClear \/ SendTx \/ UNCHANGED btVars
  BY <1>4 DEF Fed, Confirmed, BeginClose, SendClear, SendTx, btVars, SessionStep
<1>5. CASE \E c \in Chunks : Received(c)
  BY <1>5 DEF Received, SessionStep
<1>6. CASE FeedStep \/ Frame \/ OtherTakes \/ OtherReleases
  BY <1>6 DEF SessionStep
<1>7. CASE SendStart \/ SendWait
  BY <1>7 DEF SendStart, SendWait, SendReturns, SessionStep
<1> QED
  BY <1>1, <1>2, <1>3, <1>4, <1>5, <1>6, <1>7 DEF BtNext

LEMMA BtInitInv == ASSUME RpcAssumption, BtInit PROVE BtIInv
<1>1. SessionInv
  BY SessionInitInv DEF BtInit
<1>2. /\ flags = {} /\ terminate = FALSE /\ cb = {} /\ wpc = "new" /\ fpc = "out"
      /\ gpc = "clear" /\ linked = FALSE /\ callback = FALSE /\ inFlight = FALSE
      /\ ready = 0 /\ buffMutex = "nobody" /\ spc = "start"
      /\ rpcEvent \in {{}, {"Disconnected"}}
  BY DEF BtInit, SessionInit
<1>3. BtTyped
  <2>1. linked \in BOOLEAN /\ callback \in BOOLEAN /\ inFlight \in BOOLEAN
    BY <1>2
  <2>2. 0 \in 0..BufferSize
    BY RpcAssumption DEF RpcAssumption
  <2> QED
    BY <1>2, <2>1, <2>2 DEF BtTyped
<1>4. GapInv
  BY <1>2 DEF GapInv
<1>5. DisconnectInv
  BY <1>2 DEF DisconnectInv, Told, IsClosed, ClosePc
<1> QED
  BY <1>1, <1>2, <1>3, <1>4, <1>5 DEF BtIInv, BtInv, SenderInv

LEMMA BtWorkerStep == ASSUME BtIInv, BtWorkerNext PROVE BtInv'
<1> USE DEF BtIInv, BtInv, BtTyped, GapInv, SenderInv, DisconnectInv, Sending, IsClosed, Rest, serial, sender, feeder
<1>1. Worker /\ SessionInv /\ SessionStep /\ UNCHANGED Rest
  BY DEF BtWorkerNext, SessionStep
<1>2. Told' <=> Told
  BY <1>1, WorkerFrame, SessionKeepsTold
<1> QED
  BY <1>1, <1>2, WorkerFrame

LEMMA BtConnectedStep == ASSUME RpcAssumption, BtIInv, Connected PROVE BtInv'
<1> USE DEF BtIInv, BtInv, BtTyped, GapInv, SenderInv, DisconnectInv, Sending, IsClosed, ClosePc, GapGoto,
            serial, sender, feeder, reader, state, session, Told
<1>1. CASE ClearDisconnected
  BY <1>1 DEF ClearDisconnected
<1>2. CASE GapGoto("open", "send") /\ Open /\ linked' = TRUE /\ UNCHANGED <<serial, sender>>
  BY <1>2 DEF Open
<1>3. CASE GapGoto("send", "empty") /\ Set("send") /\ UNCHANGED <<linked, serial, sender>>
  BY <1>3 DEF Set
<1>4. CASE GapGoto("empty", "context") /\ Set("empty") /\ UNCHANGED <<linked, serial, sender>>
  BY <1>4 DEF Set
<1>5. CASE GapGoto("context", "callback") /\ Set("context") /\ UNCHANGED <<linked, serial, sender>>
  BY <1>5 DEF Set
<1>6. CASE /\ GapGoto("callback", "connected")
           /\ callback' = TRUE /\ ready' = BufferSize
           /\ UNCHANGED <<session, linked, buffMutex, sender>>
  BY <1>6 DEF RpcAssumption
<1> QED
  BY <1>1, <1>2, <1>3, <1>4, <1>5, <1>6 DEF Connected

LEMMA BtSerialStep == ASSUME RpcAssumption, BtIInv, (\E c \in Chunks : Received(c)) \/ Fed \/ Confirmed \/ Notify PROVE BtInv'
<1> USE DEF BtIInv, BtInv, BtTyped, GapInv, SenderInv, DisconnectInv, Sending, IsClosed, ClosePc, GapGoto,
            serial, sender, feeder, reader, state, session, Told
<1>1. ASSUME NEW c \in Chunks, Received(c) PROVE BtInv'
  BY <1>1 DEF Received, Feed, RpcAssumption
<1>2. CASE Fed
  BY <1>2 DEF Fed
<1>3. CASE Confirmed
  BY <1>3 DEF Confirmed
<1>4. CASE Notify
  BY <1>4 DEF Notify, Return, RpcAssumption
<1> QED
  BY <1>1, <1>2, <1>3, <1>4

LEMMA BtCloseStep == ASSUME RpcAssumption, BtIInv, BeginClose \/ Close PROVE BtInv'
<1> USE DEF BtIInv, BtInv, BtTyped, GapInv, SenderInv, DisconnectInv, Sending, IsClosed, ClosePc, GapGoto,
            serial, sender, feeder, reader, state, session, Told
<1>1. CASE BeginClose
  BY <1>1 DEF BeginClose, CloseOrder
<1>2. CASE At("event") /\ rpcEvent' = rpcEvent \cup {"Disconnected"}
           /\ UNCHANGED <<session, linked, serial, spc, inFlight>>
  BY <1>2, CloseSteps
<1>3. CASE At("unsend") /\ Unset("send") /\ UNCHANGED <<linked, serial, sender>>
  BY <1>3, CloseSteps DEF Unset, SessionInv, MutexInv, Holding
<1>4. CASE At("unclose") /\ Unset("close") /\ UNCHANGED <<linked, serial, sender>>
  BY <1>4, CloseSteps DEF Unset
<1>5. CASE At("unempty") /\ Unset("empty") /\ UNCHANGED <<linked, serial, sender>>
  BY <1>5, CloseSteps DEF Unset
<1>6. CASE At("disconnect") /\ Disconnect /\ UNCHANGED <<linked, serial, sender>>
  BY <1>6, CloseSteps DEF Disconnect
<1>7. CASE At("uncallback") /\ callback' = FALSE /\ ready' = 0
           /\ UNCHANGED <<session, linked, buffMutex, sender>>
  <2>1. gpc = "uncallback" /\ gpc' = "unlink"
    BY <1>7, CloseSteps
  <2>2. callback' \in BOOLEAN
    BY <1>7
  <2>3. ready' \in 0..BufferSize
    BY <1>7 DEF RpcAssumption
  <2> QED
    BY <1>7, <2>1, <2>2, <2>3
<1>8. CASE At("unlink") /\ linked' = FALSE /\ UNCHANGED <<session, serial, sender>>
  BY <1>8, CloseSteps
<1> QED
  BY <1>1, <1>2, <1>3, <1>4, <1>5, <1>6, <1>7, <1>8 DEF Close

LEMMA BtSendStep == ASSUME BtIInv, SendStart \/ SendClear \/ SendTx \/ SendWait PROVE BtInv'
<1> USE DEF BtIInv, BtInv, BtTyped, GapInv, SenderInv, DisconnectInv, Sending, IsClosed, ClosePc,
            serial, sender, feeder, reader, state, session, Told
<1>1. ASSUME SendReturns
      PROVE  /\ UNCHANGED <<reader, state, cb, feeder>> /\ spc' = "start"
             /\ wpc' = "new" <=> wpc = "new"
  BY <1>1 DEF SendReturns, FrameSent, Return
<1>2. CASE SendStart
  BY <1>1, <1>2 DEF SendStart
<1>3. CASE SendClear
  BY <1>3 DEF SendClear
<1>4. CASE SendTx
  BY <1>4 DEF SendTx
<1>5. CASE SendWait
  BY <1>1, <1>5 DEF SendWait
<1> QED
  BY <1>2, <1>3, <1>4, <1>5

LEMMA BtOtherStep == ASSUME BtIInv, ((FeedStep \/ Frame \/ OtherTakes \/ OtherReleases) /\ UNCHANGED Rest) \/ UNCHANGED btVars
                     PROVE BtInv'
<1> USE DEF BtIInv, BtInv, BtTyped, GapInv, SenderInv, DisconnectInv, Sending, IsClosed, ClosePc, Rest,
            serial, sender, feeder, reader, state, session, Told
<1>1. CASE FeedStep /\ UNCHANGED Rest
  BY <1>1 DEF FeedStep, FeedPut, FeedTimeout, FeedFlag
<1>2. CASE (Frame \/ OtherTakes \/ OtherReleases) /\ UNCHANGED Rest
  BY <1>2 DEF Frame, OtherTakes, OtherReleases
<1>3. CASE UNCHANGED btVars
  BY <1>3 DEF btVars
<1> QED
  BY <1>1, <1>2, <1>3

(* The invariant of a session over Bluetooth: what the GAP thread has done  *)
(* so far, what the sender can see of it, and when the worker was told.     *)
THEOREM BtRpcInvariant == BtSpec => []BtIInv
<1>1. BtInit => BtIInv
  BY BtInitInv, RpcAssumption
<1>2. ASSUME BtIInv, [BtNext]_btVars PROVE BtIInv'
  <2>1. SessionInv'
    BY <1>2, BtSessionStep, SessionKeepsInv, RpcAssumption DEF BtIInv
  <2>2. CASE BtWorkerNext \/ Connected \/ BeginClose \/ Close
    BY <1>2, <2>1, <2>2, BtWorkerStep, BtConnectedStep, BtCloseStep, RpcAssumption DEF BtIInv
  <2>3. CASE (\E c \in Chunks : Received(c)) \/ Fed \/ Confirmed \/ Notify
    BY <1>2, <2>1, <2>3, BtSerialStep, RpcAssumption DEF BtIInv
  <2>4. CASE SendStart \/ SendClear \/ SendTx \/ SendWait
    BY <1>2, <2>1, <2>4, BtSendStep DEF BtIInv
  <2>5. CASE ((FeedStep \/ Frame \/ OtherTakes \/ OtherReleases) /\ UNCHANGED Rest) \/ UNCHANGED btVars
    BY <1>2, <2>1, <2>5, BtOtherStep DEF BtIInv
  <2> QED
    BY <1>2, <2>2, <2>3, <2>4, <2>5 DEF BtNext
<1> QED
  BY <1>1, <1>2, PTL DEF BtSpec

(* Types: the serial service never believes in more room than there is a    *)
(* buffer for.                                                              *)
THEOREM BtRpcTypeOK == BtSpec => []BtTypeOK
<1>1. BtIInv => BtTypeOK
  BY DEF BtIInv, BtInv, SessionInv, BtTyped, BtTypeOK
<1> QED
  BY <1>1, BtRpcInvariant, PTL

(* bt.c: once rpc_session_close has returned, bt_rpc_send_bytes_callback    *)
(* runs neither in the worker nor in the GuiRpcWorker.                      *)
THEOREM BtRpcNoSendAfterClose == BtSpec => []NoSendAfterClose
<1>1. BtIInv => NoSendAfterClose
  BY DEF BtIInv, BtInv, SessionInv, MutexInv, GapInv, NoSendAfterClose, IsClosed, Sending
<1> QED
  BY <1>1, BtRpcInvariant, PTL

(* bt.c: a reply finds the flag Disconnected only when the session is being *)
(* closed, although the flag outlives a session.                            *)
THEOREM BtRpcRepliesAreSent == BtSpec => []RepliesAreSent
<1>1. BtIInv => RepliesAreSent
  BY DEF BtIInv, BtInv, SessionInv, MutexInv, GapInv, DisconnectInv, RepliesAreSent, Sending, ClosePc
<1> QED
  BY <1>1, BtRpcInvariant, PTL

(* bt.c: the closing's waits end: a reply that waits for a confirmation has *)
(* the flag that ends its wait, the serial service's mutex is free, and the *)
(* worker was told.                                                         *)
THEOREM BtRpcCloseIsFree == BtSpec => []CloseIsFree
<1>1. BtIInv => CloseIsFree
  BY DEF BtIInv, BtInv, BtTyped, GapInv, DisconnectInv, CloseIsFree, IsClosed, ClosePc
<1> QED
  BY <1>1, BtRpcInvariant, PTL

(* bt.c: the GAP thread feeds and closes a session that is alive.           *)
THEOREM BtRpcLiveSession == BtSpec => []BtLiveSession
<1>1. BtIInv => BtLiveSession
  BY DEF BtIInv, BtInv, SessionInv, EndedInv, GapInv, DisconnectInv, Told, BtLiveSession, IsClosed
<1> QED
  BY <1>1, BtRpcInvariant, PTL

(* rpc_pb_stream_read does not wait for a flag while the stream has bytes   *)
(* that no flag announces, with the serial service's notification as well.  *)
THEOREM BtRpcNeverAsleepOverBytes == BtSpec => []NeverAsleepOverBytes
<1>1. BtIInv => NeverAsleepOverBytes
  BY DEF BtIInv, SessionInv, WakeInv, NeverAsleepOverBytes
<1> QED
  BY <1>1, BtRpcInvariant, PTL

=============================================================================
