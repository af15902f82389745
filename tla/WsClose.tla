------------------------------- MODULE WsClose -------------------------------
(***************************************************************************)
(* The end of one established websocket connection of the server under      *)
(* libuv: __lws_close_free_wsi() of core/libwebsockets.c, the close parts   *)
(* of roles/ws/ops-ws.c, the POLLOUT dispatch of core/service.c and         *)
(* lws_issue_raw().  A frame is its opcode; its payload matters only for    *)
(* the buffer that pongs and close reasons share.  lws_service_fd_tsi()     *)
(* handles POLLOUT before POLLIN: each is a step, so the two bits of one    *)
(* call are two steps in a row.  A read delivers one frame.                 *)
(***************************************************************************)
EXTENDS Integers

CONSTANT Builds   \* values of "debug": asserts, and the repeated close

ASSUME BuildsAssumption == Builds \subseteq BOOLEAN /\ Builds # {}

VARIABLES
  wsi,
  debug,        \* built without NDEBUG, hence with _DEBUG
  aborted,      \* an assert() of the library failed
  peer,         \* talking, silent, fin (it hung up), reset
  peerClosed,   \* the peer has sent a CLOSE frame
  conforming    \* the peer keeps to RFC 6455

vars == <<wsi, debug, aborted, peer, peerClosed, conforming>>
envVars == <<debug, conforming>>
peerVars == <<peer, peerClosed>>

(***************************************************************************)
(* The wsi after lws_process_ws_upgrade(), nothing sent or received yet.    *)
(* handle is its uv handle (open, closing, closed), buffered the frame of   *)
(* which a part is still unsent, payload what ping_payload_buf holds (none, *)
(* ping, the reason of our close, the peer's).  From drops on it is history:*)
(* what the user was told and what was put on the wire.                     *)
(***************************************************************************)
NewWsi ==
  [state |-> "ESTABLISHED", preClose |-> FALSE, unusable |-> FALSE, bound |-> TRUE,
   told |-> FALSE, pollout |-> FALSE, timeout |-> "none", buffered |-> "none",
   payload |-> "none", closeLen |-> FALSE, pingPending |-> FALSE, payloadIsClose |-> FALSE,
   peerHasSentClose |-> FALSE, checkPing |-> FALSE, handle |-> "open",
   drops |-> 0, closeds |-> 0, destroys |-> 0, afterDrop |-> {}, afterClosed |-> {},
   closes |-> 0, echoed |-> FALSE, afterEcho |-> {}, reasonSent |-> "none",
   pingedOver |-> FALSE, pongTook |-> FALSE, userTook |-> FALSE, discarded |-> FALSE]

Init ==
  /\ wsi = NewWsi
  /\ debug \in Builds /\ conforming \in BOOLEAN
  /\ aborted = FALSE /\ peer = "talking" /\ peerClosed = FALSE

-----------------------------------------------------------------------------
(* What the library does to the wsi, as functions of it.                     *)

Capped(n) == IF n = 2 THEN 2 ELSE n + 1

\* a call of wsi->protocol->callback for the user's own data
UserCallback(w, cb) ==
  [w EXCEPT !.afterDrop = IF w.drops > 0 THEN @ \cup {cb} ELSE @,
            !.afterClosed = IF w.closeds > 0 THEN @ \cup {cb} ELSE @]

\* lws_callback_on_writable()
OnWritable(w) == IF w.unusable THEN w ELSE [w EXCEPT !.pollout = TRUE]

\* mutant: a pong that is still to be sent keeps its payload
CloseReasonKeeps(w) ==
  [w EXCEPT !.payload = IF w.pingPending THEN @ ELSE "reason", !.closeLen = TRUE]

\* lws_close_reason(): the reason goes where the payload of a pong is kept
CloseReason(w) == [w EXCEPT !.payload = "reason", !.closeLen = TRUE]

\* one DROP_PROTOCOL for each bind
Unbind(w) ==
  IF ~w.told /\ w.bound THEN [w EXCEPT !.bound = FALSE, !.drops = Capped(@)] ELSE w

\* elops_wsi_logical_close_uv(), lws_libuv_closehandle(): uv_close() once
LogicalClose(w) == IF w.handle = "open" THEN [w EXCEPT !.handle = "closing"] ELSE w

\* just_kill_connection: to the uv_close().  destroying is the reason CONTEXT_DESTROY.
JustKill(w, destroying) ==
  LET u == Unbind(w)
      shut == [u EXCEPT !.timeout = "none",
                        !.discarded = @ \/ /\ w.buffered # "none"
                                           /\ ~(w.unusable \/ destroying)
                                           /\ w.state # "AWAITING_CLOSE_ACK"]
      dead == [shut EXCEPT !.state = "DEAD_SOCKET", !.pollout = FALSE,
                           !.pingPending = FALSE, !.unusable = TRUE, !.told = TRUE,
                           !.closeds = IF u.told THEN @ ELSE Capped(@)]
  IN IF u.handle # "open" THEN [shut EXCEPT !.unusable = TRUE] ELSE LogicalClose(dead)

\* mutant: nothing limits the wait for the socket to take the close
CloseViaRoleUntimed(w) == OnWritable([w EXCEPT !.state = "WAITING_TO_SEND_CLOSE"])

\* rops_close_via_role_protocol_ws(): only with a reason to tell the peer
CloseViaRole(w) ==
  OnWritable([w EXCEPT !.state = "WAITING_TO_SEND_CLOSE", !.timeout = "CLOSE_SEND"])

\* the states that "tried the polite way"
TriedPolitely(state) ==
  state \in {"WAITING_TO_SEND_CLOSE", "AWAITING_CLOSE_ACK", "RETURNED_CLOSE"}

\* mutant: buffered output does not delay the close
FlushNever(w) == FALSE

\* a close of a connection with output still buffered waits for it
FlushFirst(w) == w.buffered # "none"

\* __lws_close_free_wsi()
CloseFreeWsi(v, destroying) ==
  LET w == [v EXCEPT !.preClose = TRUE]
  IN CASE w.state = "DEAD_SOCKET" -> w
       [] w.state # "DEAD_SOCKET" /\ (w.unusable \/ destroying \/ TriedPolitely(w.state)) ->
            JustKill(w, destroying)
       [] ~(w.unusable \/ destroying) /\ w.state = "FLUSHING_BEFORE_CLOSE" ->
            IF FlushFirst(w) THEN OnWritable(w) ELSE JustKill(w, FALSE)
       [] ~(w.unusable \/ destroying) /\ w.state = "ESTABLISHED" ->
            IF FlushFirst(w)
            THEN [w EXCEPT !.state = "FLUSHING_BEFORE_CLOSE", !.timeout = "FLUSH"]
            ELSE IF w.closeLen THEN CloseViaRole(Unbind(w))
                 ELSE JustKill(Unbind(w), FALSE)

\* close_and_handled: of lws_service_fd_tsi(), which repeats the close when debugging
CloseAndHandled(w) ==
  IF debug THEN CloseFreeWsi(CloseFreeWsi(w, FALSE), FALSE) ELSE CloseFreeWsi(w, FALSE)

\* rops_handle_POLLIN_ws(): POLLOUT handling failed
PolloutDied(w) ==
  CloseAndHandled(IF w.state = "RETURNED_CLOSE"
                  THEN [w EXCEPT !.state = "FLUSHING_BEFORE_CLOSE"] ELSE w)

Outcomes == {"all", "partial", "error"}

\* lws_write() of a whole frame, nothing being buffered
Written(w, f, outcome) ==
  LET put == [w EXCEPT
        !.closes = IF f = "close" THEN Capped(@) ELSE @,
        !.echoed = @ \/ (f = "close" /\ w.payloadIsClose),
        !.reasonSent = IF f = "close" /\ w.closes = 0 THEN w.payload ELSE @,
        !.afterEcho = IF w.echoed THEN @ \cup {f} ELSE @]
  IN CASE outcome = "all" -> put
       [] outcome = "partial" -> OnWritable([put EXCEPT !.buffered = f])
       [] outcome = "error" -> [w EXCEPT !.unusable = TRUE]

-----------------------------------------------------------------------------
(* lws_handle_POLLOUT_event(): one action for each priority.                  *)

Running == ~aborted /\ wsi.state # "DEAD_SOCKET"
Pollout == Running /\ wsi.pollout

\* 1: what a partial send left over
SendBuffered(outcome) ==
  /\ Pollout /\ wsi.buffered # "none"
  /\ LET sent == [wsi EXCEPT !.buffered = "none"]
     IN wsi' = CASE outcome = "all" /\ wsi.state = "FLUSHING_BEFORE_CLOSE" -> PolloutDied(sent)
                 [] outcome = "all" /\ wsi.state # "FLUSHING_BEFORE_CLOSE" -> OnWritable(sent)
                 [] outcome = "partial" -> OnWritable(wsi)
                 [] outcome = "error" -> PolloutDied([wsi EXCEPT !.unusable = TRUE])
  /\ UNCHANGED <<aborted, envVars, peerVars>>

\* lws_issue_raw() closes when the flush is complete, so that a connection that is
\* flushing always has output buffered here
Clear == Pollout /\ wsi.buffered = "none"

\* 3a: the close asked for by the close api
SendClose(outcome) ==
  /\ Clear /\ wsi.state = "WAITING_TO_SEND_CLOSE"
  /\ LET w == Written(wsi, "close", outcome)
     IN wsi' = IF outcome = "error" THEN PolloutDied(w)
               ELSE [w EXCEPT !.state = "AWAITING_CLOSE_ACK", !.timeout = "CLOSE_ACK"]
  /\ UNCHANGED <<aborted, envVars, peerVars>>

ControlDue == wsi.pingPending \/ (wsi.state = "RETURNED_CLOSE" /\ wsi.payloadIsClose)
Control == Clear /\ wsi.state \notin {"FLUSHING_BEFORE_CLOSE", "WAITING_TO_SEND_CLOSE"}

\* mutant: POLLOUT stays active after the echo as after a pong
SendEchoStay(outcome) ==
  /\ Control /\ ControlDue /\ wsi.payloadIsClose
  /\ wsi' = [Written(wsi, "close", outcome) EXCEPT !.pingPending = FALSE]
  /\ UNCHANGED <<aborted, envVars, peerVars>>

\* 3b: the echo of the peer's close, after which the connection is done
SendEcho(outcome) ==
  /\ Control /\ ControlDue /\ wsi.payloadIsClose
  /\ LET w == Written(wsi, "close", outcome)
     IN wsi' = PolloutDied(IF outcome = "error" THEN w ELSE [w EXCEPT !.pingPending = FALSE])
  /\ UNCHANGED <<aborted, envVars, peerVars>>

\* 3b: a pong, forgotten when the close has begun
SendPong(outcome) ==
  /\ Control /\ ControlDue /\ ~wsi.payloadIsClose
  /\ LET w == Written(wsi, "pong", outcome)
     IN wsi' = CASE wsi.preClose -> [wsi EXCEPT !.pingPending = FALSE]
                 [] ~wsi.preClose /\ outcome = "error" -> PolloutDied(w)
                 [] ~wsi.preClose /\ outcome # "error" -> [w EXCEPT !.pingPending = FALSE]
  /\ UNCHANGED <<aborted, envVars, peerVars>>

\* the check ping, and the wait for its pong in place of any other timeout
SendPing(outcome) ==
  /\ Control /\ ~ControlDue /\ wsi.checkPing /\ ~wsi.unusable
  /\ LET w == [Written(wsi, "ping", outcome) EXCEPT !.checkPing = FALSE]
     IN wsi' = IF outcome = "error" THEN PolloutDied(w)
               ELSE [w EXCEPT !.timeout = "GET_PONG"]
  /\ UNCHANGED <<aborted, envVars, peerVars>>

\* what a user callback may ask for: nothing, a close, a close with a reason
Returns == {"ok", "close", "close with reason"}
AfterCallback(w, ret) ==
  IF ret = "close with reason" THEN CloseReason(w) ELSE w

\* What a callback that has sent something may do to the timeout, whatever that was
\* for: lws-mirror ends it, and begins its own if the session is the slowest again.
Timers == {"keep", "none", "USER"}
Retimed(w, timer) ==
  IF timer = "keep" THEN w
  ELSE [w EXCEPT !.timeout = timer,
                 !.userTook = timer = "none" /\ w.state = "AWAITING_CLOSE_ACK"]

\* one-shot POLLOUT, then SERVER_WRITEABLE: the user writes one frame, if anything
Writeable(writes, outcome, ret, timer) ==
  /\ Control /\ ~ControlDue /\ ~(wsi.checkPing /\ ~wsi.unusable)
  /\ LET called == UserCallback([wsi EXCEPT !.pollout = FALSE], "WRITEABLE")
         w == IF writes THEN Retimed(Written(called, "data", outcome), timer) ELSE called
     IN wsi' = IF writes /\ outcome = "error" THEN PolloutDied(w)
               ELSE IF ret = "ok" THEN w ELSE PolloutDied(AfterCallback(w, ret))
  /\ UNCHANGED <<aborted, envVars, peerVars>>

\* lws_callback_on_writable() by the user, from any callback before CLOSED
UserAsks ==
  /\ Running /\ wsi' = OnWritable(wsi)
  /\ UNCHANGED <<aborted, envVars, peerVars>>

\* lws-mirror, in the callbacks of any session: this one has become the slowest
UserTimer ==
  /\ Running /\ wsi' = Retimed(wsi, "USER")
  /\ UNCHANGED <<aborted, envVars, peerVars>>

-----------------------------------------------------------------------------
(* rops_handle_POLLIN_ws(), lws_read_h1() and lws_ws_rx_sm().                 *)

PeerSends(f) ==
  /\ peer = "talking"
  /\ conforming => ~peerClosed /\ f # "bad"

Readable(f) == /\ Running /\ PeerSends(f)
               /\ wsi.state # "FLUSHING_BEFORE_CLOSE"

\* lws_read_h1() bail:
Bail(w) == CloseFreeWsi(w, FALSE)

\* the frame becomes the payload of the next pong or close, our own reason or not
Stash(w, p) ==
  OnWritable([w EXCEPT !.payload = p, !.pingPending = TRUE,
                       !.pingedOver = @ \/ w.state = "WAITING_TO_SEND_CLOSE"])

RxClose(ret) ==
  /\ Readable("close")
  /\ LET w == [wsi EXCEPT !.peerHasSentClose = TRUE]
         told == UserCallback(w, "PEER_INITIATED_CLOSE")
     IN wsi' = CASE wsi.peerHasSentClose -> wsi
                 [] ~wsi.peerHasSentClose /\ wsi.state = "AWAITING_CLOSE_ACK" -> Bail(w)
                 [] ~wsi.peerHasSentClose /\ wsi.state # "AWAITING_CLOSE_ACK"
                    /\ wsi.buffered # "none" -> Bail([w EXCEPT !.unusable = TRUE])
                 [] ~wsi.peerHasSentClose /\ wsi.state # "AWAITING_CLOSE_ACK"
                    /\ wsi.buffered = "none" ->
                      IF ret # "ok" THEN Bail(AfterCallback(told, ret))
                      ELSE Stash([told EXCEPT !.state = "RETURNED_CLOSE",
                                              !.payloadIsClose = TRUE], "peer")
  /\ peerClosed' = TRUE
  /\ UNCHANGED <<aborted, envVars, peer>>

RxPing ==
  /\ Readable("ping")
  /\ wsi' = IF wsi.pingPending THEN wsi ELSE Stash(wsi, "ping")
  /\ UNCHANGED <<aborted, envVars, peerVars>>

\* mutant: data is passed up whatever the connection is doing
DeliveredAlways(w) == TRUE

\* the user gets no payload once a close has begun
Delivered(w) == ~w.preClose

RxPong(ret) ==
  /\ Readable("pong")
  /\ LET took == wsi.timeout = "GET_PONG"
         w == IF took THEN [wsi EXCEPT !.timeout = "none",
                                       !.pongTook = wsi.state = "AWAITING_CLOSE_ACK"]
              ELSE wsi
         told == UserCallback(w, "RECEIVE_PONG")
     IN wsi' = IF ~Delivered(w) \/ w.state = "RETURNED_CLOSE" THEN w
               ELSE IF ret = "ok" THEN told ELSE Bail(AfterCallback(told, ret))
  /\ UNCHANGED <<aborted, envVars, peerVars>>

\* lws_ws_frame_rest_is_payload() looks only at wsistate_pre_close
RxData(ret) ==
  /\ Readable("data")
  /\ LET told == UserCallback(wsi, "RECEIVE")
     IN wsi' = IF ~Delivered(wsi) THEN wsi
               ELSE IF ret = "ok" THEN told ELSE Bail(AfterCallback(told, ret))
  /\ UNCHANGED <<aborted, envVars, peerVars>>

\* a frame that breaks the protocol: PROTOCOL_ERR is the reason
RxBad ==
  /\ Readable("bad")
  /\ wsi' = Bail(CloseReason(wsi))
  /\ UNCHANGED <<aborted, envVars, peerVars>>

\* lws_read_h1() has no case for LRS_FLUSHING_BEFORE_CLOSE: assert(0), or bail
RxFlushing(f) ==
  /\ Running /\ PeerSends(f) /\ wsi.state = "FLUSHING_BEFORE_CLOSE"
  /\ aborted' = debug
  /\ wsi' = IF debug THEN wsi ELSE Bail(wsi)
  /\ peerClosed' = (peerClosed \/ f = "close")
  /\ UNCHANGED <<envVars, peer>>

\* a zero-length read
RxZero ==
  /\ Running /\ peer = "fin"
  /\ wsi' = CloseAndHandled(wsi)
  /\ UNCHANGED <<aborted, envVars, peerVars>>

\* POLLHUP without POLLIN
Hangup ==
  /\ Running /\ peer = "reset"
  /\ wsi' = CloseAndHandled([wsi EXCEPT !.unusable = TRUE])
  /\ UNCHANGED <<aborted, envVars, peerVars>>

PeerStops ==
  /\ peer = "talking" /\ peer' \in {"silent", "fin", "reset"}
  /\ UNCHANGED <<wsi, aborted, envVars, peerClosed>>

-----------------------------------------------------------------------------
(* The once-a-second timer, libuv and the end of the context.                 *)

\* __lws_service_timeout_check()
TimedOut ==
  /\ Running /\ wsi.timeout # "none"
  /\ wsi' = CloseFreeWsi([wsi EXCEPT !.unusable = TRUE], FALSE)
  /\ UNCHANGED <<aborted, envVars, peerVars>>

\* mutant: connections that are closing are not checked
PingCheckOpen ==
  /\ Running /\ ~wsi.unusable /\ ~wsi.checkPing /\ wsi.state = "ESTABLISHED"
  /\ wsi' = OnWritable([wsi EXCEPT !.checkPing = TRUE, !.timeout = "SEND_PING"])
  /\ UNCHANGED <<aborted, envVars, peerVars>>

\* rops_periodic_checks_ws(): nothing sent or received for ws-pingpong-secs
PingCheck ==
  /\ Running /\ ~wsi.unusable /\ ~wsi.checkPing
  /\ wsi' = OnWritable([wsi EXCEPT !.checkPing = TRUE, !.timeout = "SEND_PING"])
  /\ UNCHANGED <<aborted, envVars, peerVars>>

\* lws_libuv_closewsi(), __lws_close_free_wsi_final(): WSI_DESTROY, then free()
UvClosed ==
  /\ ~aborted /\ wsi.handle = "closing"
  /\ wsi' = [wsi EXCEPT !.handle = "closed", !.destroys = Capped(@), !.buffered = "none"]
  /\ UNCHANGED <<aborted, envVars, peerVars>>

\* lws_libuv_stop() and the removal of the vhost
ContextDestroy ==
  /\ Running
  /\ wsi' = CloseFreeWsi(wsi, TRUE)
  /\ UNCHANGED <<aborted, envVars, peerVars>>

Next ==
  \/ \E o \in Outcomes :
       \/ SendBuffered(o) \/ SendClose(o) \/ SendEcho(o) \/ SendPong(o) \/ SendPing(o)
       \/ \E ret \in Returns, writes \in BOOLEAN, timer \in Timers : Writeable(writes, o, ret, timer)
  \/ UserAsks \/ UserTimer
  \/ \E ret \in Returns : RxClose(ret) \/ RxPong(ret) \/ RxData(ret)
  \/ RxPing \/ RxBad \/ RxZero \/ Hangup \/ PeerStops
  \/ \E f \in {"close", "ping", "pong", "data", "bad"} : RxFlushing(f)
  \/ TimedOut \/ PingCheck \/ UvClosed \/ ContextDestroy

Spec == Init /\ [][Next]_vars

\* a peer that has our close frame answers it, or is gone
PeerAnswers ==
  /\ conforming /\ ~peerClosed /\ wsi.closes > 0 /\ wsi.buffered # "close"
  /\ RxClose("ok") \/ PeerStops

\* ws-pingpong-secs pass when neither side has anything to send
IdleCheck == (peerClosed \/ peer # "talking") /\ PingCheck

FairSpec ==
  /\ Spec
  /\ WF_vars(TimedOut) /\ WF_vars(UvClosed)
  /\ WF_vars(PeerAnswers) /\ WF_vars(IdleCheck)

-----------------------------------------------------------------------------
\* However many times and for whatever reasons the connection is closed, the
\* user is told once of each thing and in order: DROP_PROTOCOL, CLOSED, and
\* WSI_DESTROY when the wsi is freed; nothing is delivered after DROP_PROTOCOL
\* but WRITEABLE and PEER_INITIATED_CLOSE, and nothing at all after CLOSED.
ToldOnceInOrder ==
  /\ wsi.drops <= 1 /\ wsi.closeds <= wsi.drops /\ wsi.destroys <= wsi.closeds
  /\ wsi.handle # "open" => wsi.closeds = 1
  /\ wsi.handle = "closed" => wsi.destroys = 1
  /\ wsi.afterDrop \subseteq {"WRITEABLE", "PEER_INITIATED_CLOSE"}
  /\ wsi.afterClosed = {}

\* One close frame at most is written, ours or the echo of the peer's, and the
\* echo is the last frame of the connection.
OneCloseFrame == wsi.closes <= 1 /\ wsi.afterEcho = {}

\* A close frame of ours carries the reason it was asked for with, unless a ping
\* came in while it waited: they share ping_payload_buf.
ReasonReachesPeer ==
  wsi.closes = 1 /\ ~wsi.echoed /\ ~wsi.pingedOver => wsi.reasonSent = "reason"

\* What the user wrote before the close is sent before the socket is shut, unless
\* the socket failed, its time was up, the peer closed or the context went away.
FlushedBeforeClose == ~wsi.discarded

\* A connection that waits in a closing state has a timeout running.  There are
\* three exceptions: the peer closed first; it answered a check ping sent after our
\* close frame; or the user's WRITEABLE, which is still called after that frame,
\* ended the timeout, as lws-mirror's does for the three seconds of its own.
ClosingIsTimed ==
  wsi.state \in {"WAITING_TO_SEND_CLOSE", "AWAITING_CLOSE_ACK", "FLUSHING_BEFORE_CLOSE"}
  /\ wsi.timeout = "none"
    => \/ wsi.peerHasSentClose /\ wsi.state = "FLUSHING_BEFORE_CLOSE"
       \/ (wsi.pongTook \/ wsi.userTook) /\ wsi.state = "AWAITING_CLOSE_ACK"

\* a callback touches the timeout of the connection
Retimes ==
  \/ UserTimer
  \/ \E o \in Outcomes, ret \in Returns, timer \in {"none", "USER"} : Writeable(TRUE, o, ret, timer)

\* With a peer that keeps to the protocol or is gone, a close that has begun ends
\* with the wsi freed (or the process, at the assert of lws_read_h1()).  The user's
\* callbacks may touch its timeout now and then, in any state, but not for ever: a
\* socket whose peer is gone takes only so much.
CloseEnds ==
  <>[][~Retimes]_vars =>
    (conforming /\ (wsi.preClose \/ wsi.state = "RETURNED_CLOSE")
       ~> wsi.handle = "closed" \/ aborted)

=============================================================================
