--------------------------------- MODULE BtRpc ---------------------------------
(***************************************************************************)
(* An RPC session over Bluetooth: applications/services/bt/bt_service/bt.c *)
(* and the serial service (firmware/targets/f7/ble_glue/serial_service.c). *)
(*                                                                         *)
(* The GAP thread runs bt_on_gap_event_callback and the serial service's   *)
(* event handler: it opens the session when a phone connects, feeds what   *)
(* the phone sends, takes its confirmations and closes the session when it *)
(* disconnects.  The phone may send more than the serial service said it   *)
(* is ready to receive: the session is fed all the same, and what does not *)
(* fit is dropped (FeedTimeout).                                           *)
(***************************************************************************)
EXTENDS RpcSession

VARIABLES
  gpc,       \* where the GAP thread is
  linked,    \* Bt.rpc_session is not NULL
  callback,  \* SerialSvc.callback is set
  ready,     \* SerialSvc.bytes_ready_to_receive, in chunks
  buffMutex, \* who holds SerialSvc.buff_size_mtx
  rpcEvent,  \* Bt.rpc_event
  spc,       \* where bt_rpc_send_bytes_callback is
  inFlight   \* a packet was sent and not confirmed

serial == <<callback, ready, buffMutex>>
sender == <<rpcEvent, spc, inFlight>>
btVars == <<session, gpc, linked, serial, sender>>

ClosePc == {"event", "unsend", "unclose", "unempty", "disconnect", "uncallback", "unlink"}

BtTypeOK ==
  /\ SessionTypeOK
  /\ gpc \in {"clear", "open", "send", "empty", "context", "callback", "connected",
              "feeding", "gone"} \cup ClosePc
  /\ linked \in BOOLEAN /\ callback \in BOOLEAN /\ inFlight \in BOOLEAN
  /\ ready \in 0..BufferSize
  /\ buffMutex \in {"nobody", "gap"}
  /\ rpcEvent \subseteq {"Sent", "Disconnected"}
  /\ spc \in {"start", "clear", "tx", "wait"}

\* The flag may be left from the session before.
BtInit ==
  /\ SessionInit
  /\ gpc = "clear" /\ linked = FALSE
  /\ callback = FALSE /\ ready = 0 /\ buffMutex = "nobody"
  /\ rpcEvent \in {{}, {"Disconnected"}}
  /\ spc = "start" /\ inFlight = FALSE

-----------------------------------------------------------------------------
\* GapEventTypeConnected.
GapGoto(from, to) == gpc = from /\ gpc' = to

\* (Mutant: the flag is not cleared.)
ClearDisconnected_Not ==
  /\ GapGoto("clear", "open")
  /\ UNCHANGED <<session, linked, serial, sender>>
ClearDisconnected ==
  /\ GapGoto("clear", "open")
  /\ rpcEvent' = rpcEvent \ {"Disconnected"}
  /\ UNCHANGED <<session, linked, serial, spc, inFlight>>

Connected ==
  \/ ClearDisconnected
  \/ GapGoto("open", "send") /\ Open /\ linked' = TRUE /\ UNCHANGED <<serial, sender>>
  \/ GapGoto("send", "empty") /\ Set("send") /\ UNCHANGED <<linked, serial, sender>>
  \/ GapGoto("empty", "context") /\ Set("empty") /\ UNCHANGED <<linked, serial, sender>>
  \/ GapGoto("context", "callback") /\ Set("context") /\ UNCHANGED <<linked, serial, sender>>
  \/ /\ GapGoto("callback", "connected")
     /\ callback' = TRUE /\ ready' = BufferSize
     /\ UNCHANGED <<session, linked, buffMutex, sender>>

\* serial_svc_event_handler, data received: it feeds the session ...
Received(c) ==
  /\ GapGoto("connected", "feeding")
  /\ callback
  /\ buffMutex = "nobody"
  /\ buffMutex' = "gap"
  /\ ready' = IF ready = 0 THEN 0 ELSE ready - 1
  /\ Feed(c)
  /\ UNCHANGED <<linked, callback, sender>>

Fed ==
  /\ GapGoto("feeding", "connected")
  /\ fpc = "out"
  /\ buffMutex' = "nobody"
  /\ UNCHANGED <<session, linked, callback, ready, sender>>

\* ... or the phone confirmed a packet.
Confirmed ==
  /\ gpc = "connected"
  /\ callback
  /\ inFlight
  /\ inFlight' = FALSE
  /\ rpcEvent' = rpcEvent \cup {"Sent"}
  /\ UNCHANGED <<session, gpc, linked, serial, spc>>

\* GapEventTypeDisconnected.  (Mutant: the session is closed before the flag is
\* set.)
CloseOrder_FlagLast == <<"unsend", "unclose", "unempty", "disconnect", "event", "uncallback", "unlink", "gone">>
CloseOrder == <<"event", "unsend", "unclose", "unempty", "disconnect", "uncallback", "unlink", "gone">>

At(p) == \E i \in 1..7 : CloseOrder[i] = p /\ GapGoto(p, CloseOrder[i + 1])

BeginClose ==
  /\ GapGoto("connected", IF linked THEN CloseOrder[1] ELSE "gone")
  /\ UNCHANGED <<session, linked, serial, sender>>

Close ==
  \/ At("event") /\ rpcEvent' = rpcEvent \cup {"Disconnected"}
     /\ UNCHANGED <<session, linked, serial, spc, inFlight>>
  \/ At("unsend") /\ Unset("send") /\ UNCHANGED <<linked, serial, sender>>
  \/ At("unclose") /\ Unset("close") /\ UNCHANGED <<linked, serial, sender>>
  \/ At("unempty") /\ Unset("empty") /\ UNCHANGED <<linked, serial, sender>>
  \/ At("disconnect") /\ Disconnect /\ UNCHANGED <<linked, serial, sender>>
  \/ At("uncallback") /\ callback' = FALSE /\ ready' = 0
     /\ UNCHANGED <<session, linked, buffMutex, sender>>
  \/ At("unlink") /\ linked' = FALSE /\ UNCHANGED <<session, serial, sender>>

-----------------------------------------------------------------------------
\* bt_rpc_send_bytes_callback, in the session's worker or the GuiRpcWorker,
\* with one packet to send.
Sending == wpc = "send" \/ mutex = "gui"

SendReturns ==
  /\ IF mutex = "gui" THEN FrameSent ELSE Return("send", "sent")
  /\ spc' = "start"

SendStart ==
  /\ Sending
  /\ spc = "start"
  /\ IF "Disconnected" \in rpcEvent
       THEN SendReturns
       ELSE spc' = "clear" /\ UNCHANGED session
  /\ UNCHANGED <<gpc, linked, serial, rpcEvent, inFlight>>

SendClear ==
  /\ spc = "clear"
  /\ rpcEvent' = rpcEvent \ {"Sent"}
  /\ spc' = "tx"
  /\ UNCHANGED <<session, gpc, linked, serial, inFlight>>

SendTx ==
  /\ spc = "tx"
  /\ inFlight' = TRUE
  /\ spc' = "wait"
  /\ UNCHANGED <<session, gpc, linked, serial, rpcEvent>>

SendWait ==
  /\ spc = "wait"
  /\ rpcEvent # {}
  /\ SendReturns
  /\ rpcEvent' = IF "Disconnected" \in rpcEvent THEN rpcEvent ELSE {}
  /\ UNCHANGED <<gpc, linked, serial, inFlight>>

\* serial_svc_notify_buffer_is_empty: tells the phone.
Notify ==
  /\ Return("notify", "count")
  /\ buffMutex = "nobody"
  /\ ready' = IF ready = 0 /\ callback THEN BufferSize ELSE ready
  /\ UNCHANGED <<gpc, linked, callback, buffMutex, sender>>

-----------------------------------------------------------------------------
Rest == <<gpc, linked, serial, sender>>

BtWorkerNext == Worker /\ UNCHANGED Rest

BtNext ==
  \/ BtWorkerNext
  \/ Connected
  \/ \E c \in Chunks : Received(c)
  \/ FeedStep /\ UNCHANGED Rest
  \/ Fed \/ Confirmed
  \/ BeginClose \/ Close
  \/ SendStart \/ SendClear \/ SendTx \/ SendWait
  \/ Notify
  \/ (Frame \/ OtherTakes \/ OtherReleases) /\ UNCHANGED Rest

BtSpec == BtInit /\ [][BtNext]_btVars

\* The threads run, a blocked feed times out, the mutexes are fair; the phone
\* may confirm nothing.
FairBtSpec ==
  /\ BtSpec
  /\ WF_btVars(BtWorkerNext)
  /\ SF_btVars((Reply \/ Closing \/ Execute \/ Free) /\ UNCHANGED Rest)
  /\ SF_btVars(Connected) /\ WF_btVars(FeedStep /\ UNCHANGED Rest) /\ WF_btVars(Fed)
  /\ SF_btVars(Close)
  /\ WF_btVars(SendStart \/ SendClear \/ SendTx \/ SendWait) /\ SF_btVars(Notify)
  /\ WF_btVars(OtherReleases /\ UNCHANGED Rest)

-----------------------------------------------------------------------------
\* rpc_session_close was called and has returned.
IsClosed == gpc \in {"uncallback", "unlink", "gone"}

\* No send callback runs once the session is closed.
NoSendAfterClose == IsClosed => ~Sending

\* While the session is open no reply is dropped as "already disconnected".
RepliesAreSent ==
  "Disconnected" \in rpcEvent /\ Sending => gpc \in ClosePc \cup {"gone"}

\* A disconnect ends the session, though a reply may wait for a confirmation
\* that never comes; rpc_session_close, which waits for that reply, returns.
DisconnectEnds == gpc \in ClosePc ~> gpc = "gone" /\ wpc = "gone"

\* Its core: once the flag is set it stays set, and nobody keeps the serial
\* service's mutex, so that neither a reply nor a notification holds up the
\* closing; and the worker is not told in vain.
CloseIsFree ==
  /\ gpc \in (ClosePc \ {"event"}) \cup {"gone"} => "Disconnected" \in rpcEvent
  /\ gpc \in ClosePc \cup {"gone"} => buffMutex = "nobody"
  /\ IsClosed => Told

\* The GAP thread uses no session that is freed.
BtLiveSession ==
  (linked /\ ~IsClosed) \/ fpc # "out" => wpc # "gone"

\* "It is guaranteed that no callbacks will be called as soon as session is
\* closed."
BtNoCallbackAfterClose == IsClosed => ~Sending /\ wpc # "notify"
================================================================================
