-------------------------------- MODULE RpcCli --------------------------------
(***************************************************************************)
(* An RPC session over the CLI (applications/services/rpc/rpc_cli.c): the  *)
(* CLI's thread executes "start_rpc_session", which opens a session, feeds *)
(* it what the host sends and closes it when the host asks for it or       *)
(* disconnects.  The callbacks' context is on the stack of that call.      *)
(***************************************************************************)
EXTENDS RpcSession

VARIABLES
  cpc,          \* where the CLI's thread is
  connected,    \* cli_is_connected
  closeRequest, \* CliRpc.session_close_request
  semaphore     \* CliRpc.terminate_semaphore

cli  == <<cpc, connected, closeRequest, semaphore>>
vars == <<session, cli>>

CliPc == {"open", "context", "send", "close", "terminated", "loop",
          "unsend", "unclose", "unempty", "disconnect", "join", "returned"}

TypeOK ==
  /\ SessionTypeOK
  /\ cpc \in CliPc
  /\ connected \in BOOLEAN /\ closeRequest \in BOOLEAN
  /\ semaphore \in 0..1

Init ==
  /\ SessionInit
  /\ cpc = "open" /\ connected = TRUE /\ closeRequest = FALSE /\ semaphore = 0

Goto(from, to) ==
  /\ cpc = from
  /\ cpc' = to
  /\ UNCHANGED <<connected, closeRequest, semaphore>>

\* rpc_cli_command_start_session.
Start ==
  \/ Goto("open", "context") /\ Open
  \/ Goto("context", "send") /\ Set("context")
  \/ Goto("send", "close") /\ Set("send")
  \/ Goto("close", "terminated") /\ Set("close")
  \/ Goto("terminated", "loop") /\ Set("terminated")

\* (A feed that times out fails an assertion here, which halts a debug build;
\* the model goes on, as a release build does.)
FeedBytes(c) ==
  /\ cpc = "loop"
  /\ connected
  /\ ~closeRequest
  /\ Feed(c)
  /\ UNCHANGED cli

Break ==
  /\ fpc = "out"
  /\ ~connected \/ closeRequest
  /\ Goto("loop", "unsend")
  /\ UNCHANGED session

\* rpc_session_close.  (Mutant: the worker is told before the callbacks are
\* cleared.)
CloseSession_FlagFirst ==
  \/ Goto("unsend", "unclose") /\ Disconnect
  \/ Goto("unclose", "unempty") /\ Unset("send")
  \/ Goto("unempty", "disconnect") /\ Unset("close")
  \/ Goto("disconnect", "join") /\ Unset("empty")
CloseSession ==
  \/ Goto("unsend", "unclose") /\ Unset("send")
  \/ Goto("unclose", "unempty") /\ Unset("close")
  \/ Goto("unempty", "disconnect") /\ Unset("empty")
  \/ Goto("disconnect", "join") /\ Disconnect

\* The command returns when the session has ended.
Join ==
  /\ cpc = "join"
  /\ semaphore = 1
  /\ semaphore' = 0
  /\ cpc' = "returned"
  /\ UNCHANGED <<connected, closeRequest, session>>

\* The callbacks.
SendBytes == Return("send", "sent") /\ UNCHANGED cli

CloseCallback ==
  /\ Return("close", "closed")
  /\ closeRequest' = TRUE
  /\ UNCHANGED <<cpc, connected, semaphore>>

TerminatedCallback ==
  /\ Return("bye", "freed")
  /\ semaphore' = 1
  /\ UNCHANGED <<cpc, connected, closeRequest>>

\* The host leaves.
HostLeaves ==
  /\ connected
  /\ connected' = FALSE
  /\ UNCHANGED <<session, cpc, closeRequest, semaphore>>

-----------------------------------------------------------------------------
WorkerNext == (Worker /\ UNCHANGED cli) \/ SendBytes \/ CloseCallback \/ TerminatedCallback

Next ==
  \/ WorkerNext
  \/ Start \/ Break \/ CloseSession \/ Join
  \/ FeedStep /\ UNCHANGED cli
  \/ (Frame \/ FrameSent \/ OtherTakes \/ OtherReleases) /\ UNCHANGED cli
  \/ HostLeaves
  \/ \E c \in Chunks : FeedBytes(c)

Spec == Init /\ [][Next]_vars

\* The threads run, a blocked feed times out, cli_write returns, no handler
\* keeps busy_mutex, and the mutexes are fair (a FreeRTOS mutex goes to the
\* longest waiter of the highest priority).
FairSpec ==
  /\ Spec
  /\ WF_vars(WorkerNext)
  /\ SF_vars((Reply \/ Closing \/ Execute \/ Free) /\ UNCHANGED cli)
  /\ WF_vars(FrameSent /\ UNCHANGED cli)
  /\ WF_vars(Break) /\ WF_vars(Join) /\ WF_vars(FeedStep /\ UNCHANGED cli)
  /\ SF_vars(Start \/ CloseSession)
  /\ WF_vars(OtherReleases /\ UNCHANGED cli)

-----------------------------------------------------------------------------
\* Between the return of rpc_session_close and the end of the session no send
\* or close callback runs, nor is one called ("guaranteed that no callbacks
\* will be called as soon as session is closed").
NoCallbackAfterClose ==
  cpc \in {"join", "returned"} => wpc \notin {"send", "close"} /\ mutex # "gui"

\* No callback runs once the command has returned: their context was on its
\* stack.
ContextAlive ==
  cpc = "returned" => wpc \notin {"notify", "send", "close", "bye"} /\ mutex # "gui"

\* The CLI's thread uses no session that is freed.
LiveSession ==
  cpc \notin {"open", "join", "returned"} \/ fpc # "out" => wpc # "gone"

\* Nothing is used after its end: neither the stack of the command nor the
\* session.
NoUseAfterEnd == ContextAlive /\ LiveSession

\* A session that is being closed ends, and the command returns.
CloseReturns == cpc = "unsend" ~> (cpc = "returned" /\ wpc = "gone")

\* Its core: while the command waits for the session to end, the worker knows
\* that it has to, and the semaphore's release is yet to come or has come.
JoinIsAwaited ==
  cpc = "join" => Told /\ (semaphore = 1 <=> wpc \in {"freed", "gone"})

\* The worker does not sleep over bytes, unless it had a decode error.
NoLostWakeup == (wpc = "wait" /\ stream # <<>>) ~> (wpc # "wait" \/ decodeError)
=============================================================================
