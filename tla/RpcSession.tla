------------------------------ MODULE RpcSession ------------------------------
(***************************************************************************)
(* An RPC session (applications/services/rpc/rpc.c): its worker thread     *)
(* decodes messages from a stream buffer, executes them and answers        *)
(* through callbacks; a transport opens the session, sets the callbacks,   *)
(* feeds bytes and closes it; a GuiRpcWorker may send screen frames.       *)
(*                                                                         *)
(* This module has the worker and the functions of rpc.h; what a transport *)
(* does with them, and what the callbacks do, is in RpcCli and BtRpc.      *)
(*                                                                         *)
(* The stream's bytes are chunks: a message that is complete, of some      *)
(* kind, or "part" of one.  What the handlers do is left out, but for the  *)
(* replies, the end of the session and the start of a screen stream.       *)
(***************************************************************************)
EXTENDS Naturals, Sequences

CONSTANTS
  BufferSize,  \* RPC_BUFFER_SIZE, in chunks
  MaxChunks,   \* bound: how many chunks are fed
  Messages,    \* the kinds of messages that arrive
  NULL         \* no chunk

Kinds     == {"request", "stream", "stop", "unknown", "bad"}
Chunks    == Messages \cup {"part"}
Callbacks == {"send", "empty", "close", "terminated"}

ASSUME RpcAssumption ==
  /\ BufferSize \in Nat \ {0}
  /\ MaxChunks \in Nat
  /\ Messages \subseteq Kinds
  /\ NULL \notin Kinds \cup {"part"}

VARIABLES
  stream,      \* RpcSession.stream
  flags,       \* the thread flags of the worker
  wpc,         \* where the worker is
  msg,         \* the chunk it got, the message it decoded
  partial,     \* it has part of a message
  decodeError, \* RpcSession.decode_error
  terminate,   \* RpcSession.terminate
  cb,          \* the callbacks that are set, "context" if the context is
  mutex,       \* who holds callbacks_mutex
  busy,        \* who holds Rpc.busy_mutex: this worker, another session's
  streaming,   \* the GuiRpcWorker runs
  fpc,         \* rpc_session_feed: not called, putting, setting the flag
  chunk,       \* what is being fed
  fed          \* how many chunks were fed

reader  == <<stream, flags, msg, partial>>
state   == <<decodeError, terminate, streaming>>
feeder  == <<fpc, chunk, fed>>
session == <<reader, wpc, state, cb, mutex, busy, feeder>>

WorkerPc == {"new", "read", "check", "load", "notify", "count", "wait", "decoded",
             "reply", "send", "sent", "closing", "close", "closed", "after",
             "free", "bye", "freed", "gone"}

SessionTypeOK ==
  /\ stream \in Seq(Chunks) /\ Len(stream) <= BufferSize
  /\ flags \subseteq {"NewData", "Disconnect"}
  /\ wpc \in WorkerPc
  /\ msg \in Kinds \cup {"part", NULL}
  /\ partial \in BOOLEAN /\ decodeError \in BOOLEAN /\ terminate \in BOOLEAN
  /\ cb \subseteq Callbacks \cup {"context"}
  /\ mutex \in {"nobody", "worker", "gui"}
  /\ busy \in {"nobody", "worker", "other"}
  /\ streaming \in BOOLEAN
  /\ fpc \in {"out", "put", "flag"}
  /\ chunk \in Chunks \cup {NULL}
  /\ fed \in 0..MaxChunks

SessionInit ==
  /\ stream = <<>> /\ flags = {} /\ msg = NULL /\ partial = FALSE
  /\ wpc = "new"
  /\ decodeError = FALSE /\ terminate = FALSE /\ streaming = FALSE
  /\ cb = {} /\ mutex = "nobody" /\ busy = "nobody"
  /\ fpc = "out" /\ chunk = NULL /\ fed = 0

-----------------------------------------------------------------------------
\* The functions of rpc.h, as the steps of a transport's thread.

\* rpc_session_open: the worker starts.
Open ==
  /\ wpc = "new"
  /\ wpc' = "read"
  /\ UNCHANGED <<reader, state, cb, mutex, busy, feeder>>

\* rpc_session_set_..., under callbacks_mutex.  (Mutants, here and below, are
\* named after the definition they replace; these take no lock.)
Set(c) ==
  /\ mutex = "nobody"
  /\ cb' = cb \cup {c}
  /\ UNCHANGED <<reader, wpc, state, mutex, busy, feeder>>

Unset_Unlocked(c) ==
  /\ cb' = cb \ {c}
  /\ UNCHANGED <<reader, wpc, state, mutex, busy, feeder>>
Unset(c) ==
  /\ mutex = "nobody"
  /\ cb' = cb \ {c}
  /\ UNCHANGED <<reader, wpc, state, mutex, busy, feeder>>

\* The last step of rpc_session_close.
Disconnect ==
  /\ flags' = flags \cup {"Disconnect"}
  /\ UNCHANGED <<stream, msg, partial, wpc, state, cb, mutex, busy, feeder>>

\* rpc_session_feed: called, ...
Feed(c) ==
  /\ fpc = "out"
  /\ fed < MaxChunks
  /\ fpc' = "put"
  /\ chunk' = c
  /\ fed' = fed + 1
  /\ UNCHANGED <<reader, wpc, state, cb, mutex, busy>>

\* ... puts the bytes when there is room, ...
HasRoom == Len(stream) < BufferSize
FeedPut ==
  /\ fpc = "put"
  /\ HasRoom
  /\ stream' = Append(stream, chunk)
  /\ fpc' = "flag"
  /\ chunk' = NULL
  /\ UNCHANGED <<flags, msg, partial, wpc, state, cb, mutex, busy, fed>>

\* ... gives up after its timeout (the bytes are lost), ...
FeedTimeout ==
  /\ fpc = "put"
  /\ ~HasRoom
  /\ fpc' = "flag"
  /\ chunk' = NULL
  /\ UNCHANGED <<reader, wpc, state, cb, mutex, busy, fed>>

\* ... and wakes the worker.  (Mutant: it does not.)
FeedFlag_None ==
  /\ fpc = "flag"
  /\ fpc' = "out"
  /\ UNCHANGED <<reader, wpc, state, cb, mutex, busy, chunk, fed>>
FeedFlag ==
  /\ fpc = "flag"
  /\ flags' = flags \cup {"NewData"}
  /\ fpc' = "out"
  /\ UNCHANGED <<stream, msg, partial, wpc, state, cb, mutex, busy, chunk, fed>>

-----------------------------------------------------------------------------
\* rpc_pb_stream_read: takes what is there, ...
Receive ==
  /\ wpc = "read"
  /\ wpc' = "check"
  /\ IF stream = <<>>
       THEN msg' = NULL /\ UNCHANGED stream
       ELSE msg' = Head(stream) /\ stream' = Tail(stream)
  /\ UNCHANGED <<flags, partial, state, cb, mutex, busy, feeder>>

\* ... calls buffer_is_empty_callback, without the mutex, if nothing is left, ...
Check ==
  /\ wpc = "check"
  /\ wpc' = IF stream = <<>> THEN "load" ELSE "count"
  /\ UNCHANGED <<reader, state, cb, mutex, busy, feeder>>

Load ==
  /\ wpc = "load"
  /\ wpc' = IF "empty" \in cb THEN "notify" ELSE "count"
  /\ UNCHANGED <<reader, state, cb, mutex, busy, feeder>>

\* ... and goes on with what it got, unless decoding has failed before.
Count ==
  /\ wpc = "count"
  /\ LET m == IF decodeError THEN NULL ELSE msg IN
       /\ wpc' = CASE m = NULL -> "wait" [] m = "part" -> "read" [] OTHER -> "decoded"
       /\ msg' = m
       /\ partial' = (m = "part" \/ (m = NULL /\ partial))
  /\ UNCHANGED <<stream, flags, state, cb, mutex, busy, feeder>>

\* It waits for a flag.  Disconnect is put off until the stream is empty; then
\* the read fails, at what the decoder takes for the end of the stream: a
\* message cut off between two of its fields is decoded all the same.
\* (Mutant: Disconnect is forgotten while the stream has bytes.)
PutOff_Forgotten == {}
PutOff == flags \cap {"Disconnect"}
Wait ==
  /\ wpc = "wait"
  /\ flags # {}
  /\ IF "Disconnect" \in flags /\ stream = <<>>
       THEN /\ flags' = {}
            /\ terminate' = TRUE
            /\ wpc' = "decoded"
            /\ msg' \in IF partial THEN Messages \cup {"bad"} ELSE {"bad"}
       ELSE /\ flags' = PutOff
            /\ wpc' = "read"
            /\ UNCHANGED <<msg, terminate>>
  /\ UNCHANGED <<stream, partial, decodeError, streaming, cb, mutex, busy, feeder>>

-----------------------------------------------------------------------------
\* rpc_session_worker, with a decoded message: its handler runs under
\* busy_mutex and replies; StartScreenStream starts the GuiRpcWorker.
Execute ==
  /\ wpc = "decoded"
  /\ msg \in {"request", "stream", "stop"}
  /\ busy = "nobody"
  /\ busy' = "worker"
  /\ wpc' = "reply"
  /\ streaming' = (streaming \/ msg = "stream")
  /\ UNCHANGED <<reader, decodeError, terminate, cb, mutex, feeder>>

\* A message that has no handler is answered with an error.
Unknown ==
  /\ wpc = "decoded"
  /\ msg = "unknown"
  /\ wpc' = IF terminate THEN "after" ELSE "reply"
  /\ UNCHANGED <<reader, state, cb, mutex, busy, feeder>>

\* Decoding failed: the stream is reset (FreeRTOS refuses while a thread is
\* blocked on it) and no message is decoded any more.
Undecoded ==
  /\ wpc = "decoded"
  /\ msg = "bad"
  /\ stream' = IF fpc = "put" /\ ~HasRoom THEN stream ELSE <<>>
  /\ IF terminate
       THEN wpc' = "after" /\ UNCHANGED decodeError
       ELSE wpc' = "reply" /\ decodeError' = TRUE
  /\ UNCHANGED <<flags, msg, partial, terminate, streaming, cb, mutex, busy, feeder>>

\* rpc_send: under callbacks_mutex ...
Reply ==
  /\ wpc = "reply"
  /\ mutex = "nobody"
  /\ mutex' = "worker"
  /\ wpc' = IF "send" \in cb THEN "send" ELSE "sent"
  /\ UNCHANGED <<reader, state, cb, busy, feeder>>

Sent ==
  /\ wpc = "sent"
  /\ mutex' = "nobody"
  /\ wpc' = IF msg \in {"stop", "bad"} THEN "closing" ELSE "after"
  /\ UNCHANGED <<reader, state, cb, busy, feeder>>

\* ... as is closed_callback, after StopSession and after a decode error.
Closing ==
  /\ wpc = "closing"
  /\ mutex = "nobody"
  /\ mutex' = "worker"
  /\ wpc' = IF "close" \in cb THEN "close" ELSE "closed"
  /\ UNCHANGED <<reader, state, cb, busy, feeder>>

Closed ==
  /\ wpc = "closed"
  /\ mutex' = "nobody"
  /\ wpc' = "after"
  /\ UNCHANGED <<reader, state, cb, busy, feeder>>

After ==
  /\ wpc = "after"
  /\ busy' = IF busy = "worker" THEN "nobody" ELSE busy
  /\ msg' = NULL
  /\ partial' = FALSE
  /\ wpc' = IF terminate THEN "free" ELSE "read"
  /\ UNCHANGED <<stream, flags, state, cb, mutex, feeder>>

\* rpc_session_free_callback: the GuiRpcWorker is joined, the transport told,
\* under callbacks_mutex, and the session freed.
Free ==
  /\ wpc = "free"
  /\ mutex = "nobody"
  /\ mutex' = "worker"
  /\ streaming' = FALSE
  /\ wpc' = IF "terminated" \in cb THEN "bye" ELSE "freed"
  /\ UNCHANGED <<reader, decodeError, terminate, cb, busy, feeder>>

Freed ==
  /\ wpc = "freed"
  /\ mutex' = "nobody"
  /\ wpc' = "gone"
  /\ UNCHANGED <<reader, state, cb, busy, feeder>>

\* The GuiRpcWorker sends a frame.
Frame ==
  /\ streaming
  /\ mutex = "nobody"
  /\ "send" \in cb
  /\ mutex' = "gui"
  /\ UNCHANGED <<reader, wpc, state, cb, busy, feeder>>

\* Another session's worker executes a message.
OtherTakes ==
  /\ busy = "nobody"
  /\ busy' = "other"
  /\ UNCHANGED <<reader, wpc, state, cb, mutex, feeder>>
OtherReleases ==
  /\ busy = "other"
  /\ busy' = "nobody"
  /\ UNCHANGED <<reader, wpc, state, cb, mutex, feeder>>

\* A callback of the worker returns; the GuiRpcWorker's send callback does.
Return(from, to) ==
  /\ wpc = from
  /\ wpc' = to
  /\ UNCHANGED <<reader, state, cb, mutex, busy, feeder>>
FrameSent ==
  /\ mutex = "gui"
  /\ mutex' = "nobody"
  /\ UNCHANGED <<reader, wpc, state, cb, busy, feeder>>

Worker ==
  Receive \/ Check \/ Load \/ Count \/ Wait \/ Execute \/ Unknown \/ Undecoded
  \/ Reply \/ Sent \/ Closing \/ Closed \/ After \/ Free \/ Freed

FeedStep == FeedPut \/ FeedTimeout \/ FeedFlag

-----------------------------------------------------------------------------
\* The worker is not left waiting over bytes: what was put while it was on its
\* way to the wait has set its flag, or is about to.  (After a decode error it
\* takes no notice of bytes.)
NeverAsleepOverBytes ==
  wpc = "wait" /\ stream # <<>> /\ ~decodeError => "NewData" \in flags \/ fpc = "flag"

\* The worker was told to end: it has the flag, or has acted on it.
Told == "Disconnect" \in flags \/ terminate

================================================================================
