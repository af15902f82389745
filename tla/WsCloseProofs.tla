---------------------------- MODULE WsCloseProofs ----------------------------
(* Theorems about WsClose: what the end of a connection guarantees in both    *)
(* builds, for every interleaving of writes, frames, timeouts and closes.    *)
EXTENDS WsClose, TLAPS

States == {"ESTABLISHED", "FLUSHING_BEFORE_CLOSE", "WAITING_TO_SEND_CLOSE",
           "AWAITING_CLOSE_ACK", "RETURNED_CLOSE", "DEAD_SOCKET"}

(* A wsi has the fields of a new one.                                        *)
Fields(w) == DOMAIN w = DOMAIN NewWsi
IsWsi(w) == Fields(w) /\ w.state \in States

(* What the user was told agrees with how far the close has come.            *)
Telling(w) ==
  /\ w.drops = (IF w.bound THEN 0 ELSE 1)
  /\ w.closeds = (IF w.told THEN 1 ELSE 0)
  /\ w.destroys = (IF w.handle = "closed" THEN 1 ELSE 0)
  /\ w.told <=> w.state = "DEAD_SOCKET"
  /\ w.told <=> w.handle # "open"
  /\ w.told => ~w.bound
  /\ ~w.bound => w.preClose
  /\ w.afterDrop \subseteq {"WRITEABLE", "PEER_INITIATED_CLOSE"}
  /\ w.afterClosed = {}

(* Which states a close frame was written in, ours or the echo.              *)
Framing(w) ==
  /\ w.closes \in {0, 1} /\ w.afterEcho = {}
  /\ w.closes = 1 =>
       w.state \in {"AWAITING_CLOSE_ACK", "FLUSHING_BEFORE_CLOSE", "DEAD_SOCKET"}
  /\ w.echoed => w.state \in {"FLUSHING_BEFORE_CLOSE", "DEAD_SOCKET"}
  /\ w.payloadIsClose =>
       w.state \in {"RETURNED_CLOSE", "FLUSHING_BEFORE_CLOSE", "DEAD_SOCKET"}
  /\ w.state = "RETURNED_CLOSE" => w.payloadIsClose /\ w.peerHasSentClose

(* The buffer holds our reason while our close waits to be sent.             *)
Reasoning(w) ==
  /\ w.closes = 1 /\ ~w.echoed /\ ~w.pingedOver => w.reasonSent = "reason"
  /\ w.state = "WAITING_TO_SEND_CLOSE" /\ ~w.pingedOver => w.payload = "reason"
  /\ w.state = "ESTABLISHED" /\ w.closeLen => w.payload = "reason"

(* Nothing is buffered behind the states that shut the socket without a look.*)
Flushing(w) ==
  /\ ~w.discarded
  /\ w.state = "WAITING_TO_SEND_CLOSE" => w.buffered = "none"

(* What limits the wait in each closing state.                               *)
Timing(w) ==
  /\ w.state = "WAITING_TO_SEND_CLOSE" => w.timeout \in {"CLOSE_SEND", "SEND_PING", "USER"}
  /\ w.state = "AWAITING_CLOSE_ACK" => w.timeout # "none" \/ w.pongTook \/ w.userTook
  /\ w.state = "FLUSHING_BEFORE_CLOSE" => w.timeout # "none" \/ w.peerHasSentClose

(* Between two steps of the service thread an established connection is not  *)
(* being closed and has no reason to, and an echo that is due is unwritten.  *)
Resting(w) ==
  /\ w.state = "ESTABLISHED" => ~w.preClose /\ ~w.closeLen
  /\ w.state = "RETURNED_CLOSE" => w.buffered = "none"

Sound(w) == IsWsi(w) /\ Telling(w) /\ Framing(w) /\ Reasoning(w) /\ Flushing(w) /\ Timing(w)

CloseInv == Sound(wsi) /\ Resting(wsi)

(* lws_callback_on_writable() touches nothing but POLLOUT.                   *)
LEMMA OnWritableSound ==
  ASSUME NEW w, Sound(w)
  PROVE  /\ Sound(OnWritable(w))
         /\ Resting(w) => Resting(OnWritable(w))
         /\ OnWritable(w).state = w.state
<1>1. IsWsi(OnWritable(w))
  BY DEF Sound, OnWritable, IsWsi, NewWsi, Fields
<1>2. Telling(OnWritable(w)) /\ Flushing(OnWritable(w)) /\ Timing(OnWritable(w))
  BY DEF Sound, OnWritable, IsWsi, NewWsi, Fields, Telling, Flushing, Timing
<1>3. Framing(OnWritable(w)) /\ Reasoning(OnWritable(w))
  BY DEF Sound, OnWritable, IsWsi, NewWsi, Fields, Framing, Reasoning
<1>4. OnWritable(w).state = w.state /\ (Resting(w) => Resting(OnWritable(w)))
  BY DEF Sound, OnWritable, IsWsi, NewWsi, Fields, Resting
<1> QED BY <1>1, <1>2, <1>3, <1>4 DEF Sound

(* The history of a connection does not change where w and v agree on it.     *)
SameHistory(v, w) ==
  /\ v.closes = w.closes /\ v.echoed = w.echoed /\ v.afterEcho = w.afterEcho
  /\ v.reasonSent = w.reasonSent /\ v.pingedOver = w.pingedOver
  /\ v.destroys = w.destroys /\ v.afterDrop = w.afterDrop /\ v.afterClosed = w.afterClosed
  /\ v.payloadIsClose = w.payloadIsClose

(* One DROP_PROTOCOL, however often the protocol is unbound.                 *)
LEMMA UnbindFacts ==
  ASSUME NEW w, IsWsi(w), Telling(w), ~w.told
  PROVE  LET u == Unbind(w) IN
         /\ Fields(u)
         /\ ~u.bound /\ u.drops = 1
         /\ SameHistory(u, w)
         /\ u.state = w.state /\ u.told = w.told /\ u.handle = w.handle
         /\ u.closeds = w.closeds /\ u.preClose = w.preClose
         /\ u.discarded = w.discarded /\ u.buffered = w.buffered
         /\ u.payload = w.payload /\ u.timeout = w.timeout
  BY DEF Unbind, Capped, IsWsi, NewWsi, Fields, SameHistory, Telling

(* just_kill_connection tells the user what it was not told yet and leaves   *)
(* the socket dead.                                                          *)
LEMMA JustKillSound ==
  ASSUME NEW w, Sound(w), w.preClose, w.state # "DEAD_SOCKET", NEW destroying \in BOOLEAN,
         \/ w.unusable \/ destroying \/ w.buffered = "none"
         \/ w.state = "AWAITING_CLOSE_ACK"
  PROVE  Sound(JustKill(w, destroying)) /\ JustKill(w, destroying).state = "DEAD_SOCKET"
<1> DEFINE u == Unbind(w)
           shut == [u EXCEPT !.timeout = "none",
                             !.discarded = @ \/ /\ w.buffered # "none"
                                                /\ ~(w.unusable \/ destroying)
                                                /\ w.state # "AWAITING_CLOSE_ACK"]
           dead == [shut EXCEPT !.state = "DEAD_SOCKET", !.pollout = FALSE,
                                !.pingPending = FALSE, !.unusable = TRUE, !.told = TRUE,
                                !.closeds = IF u.told THEN @ ELSE Capped(@)]
           k == JustKill(w, destroying)
<1>1. /\ w.handle = "open" /\ ~w.told /\ w.closeds = 0 /\ ~w.discarded
      /\ IsWsi(w) /\ Telling(w)
  BY DEF Sound, Telling, Flushing
<1>2. /\ Fields(u)
      /\ ~u.bound /\ u.drops = 1
      /\ SameHistory(u, w)
      /\ ~u.told /\ u.handle = "open" /\ u.closeds = 0 /\ u.preClose /\ ~u.discarded
  BY <1>1, UnbindFacts
<1>3. k = LogicalClose(dead)
  BY <1>2 DEF JustKill
<1> HIDE DEF u, k
<1>4. /\ Fields(shut)
      /\ ~shut.bound /\ shut.drops = 1
      /\ SameHistory(shut, w)
      /\ shut.handle = "open" /\ shut.closeds = 0 /\ shut.preClose /\ ~shut.discarded
  BY <1>2 DEF NewWsi, Fields, SameHistory
<1> HIDE DEF shut
<1>5. /\ Fields(dead)
      /\ ~dead.bound /\ dead.drops = 1
      /\ SameHistory(dead, w)
      /\ dead.handle = "open" /\ dead.closeds = 1 /\ dead.preClose /\ ~dead.discarded
      /\ dead.told /\ dead.state = "DEAD_SOCKET"
  BY <1>2, <1>4 DEF NewWsi, Fields, SameHistory, Capped
<1> HIDE DEF dead
<1>6. /\ Fields(k)
      /\ ~k.bound /\ k.drops = 1
      /\ SameHistory(k, w)
      /\ k.handle = "closing" /\ k.closeds = 1 /\ k.preClose /\ ~k.discarded
      /\ k.told /\ k.state = "DEAD_SOCKET"
  BY <1>3, <1>5 DEF NewWsi, Fields, SameHistory, LogicalClose
<1>7. Sound(k)
  BY <1>1, <1>6 DEF Sound, IsWsi, States, Telling, Framing, Reasoning, Flushing, Timing, SameHistory
<1> QED BY <1>6, <1>7 DEF k

(* The states a call of __lws_close_free_wsi() can leave the wsi in.         *)
Closing == {"DEAD_SOCKET", "FLUSHING_BEFORE_CLOSE", "WAITING_TO_SEND_CLOSE"}

(* The close may be asked for: an echo that is partly sent is flushed first. *)
MayClose(w) == w.state = "RETURNED_CLOSE" => w.buffered = "none" \/ w.unusable

(* A reason to tell the peer: the close waits for the socket, with a timeout.*)
LEMMA CloseViaRoleSound ==
  ASSUME NEW w, Sound(w), w.preClose, w.state = "ESTABLISHED", w.buffered = "none",
         w.closeLen
  PROVE  /\ Sound(CloseViaRole(Unbind(w)))
         /\ CloseViaRole(Unbind(w)).state = "WAITING_TO_SEND_CLOSE"
<1> DEFINE u == Unbind(w)
           r == [u EXCEPT !.state = "WAITING_TO_SEND_CLOSE", !.timeout = "CLOSE_SEND"]
<1>1. IsWsi(w) /\ Telling(w) /\ ~w.told
  BY DEF Sound, Telling
<1>2. /\ Fields(u)
      /\ ~u.bound /\ u.drops = 1
      /\ SameHistory(u, w)
      /\ u.told = w.told /\ u.handle = w.handle /\ u.closeds = w.closeds
      /\ u.preClose /\ u.discarded = w.discarded /\ u.buffered = "none"
      /\ u.payload = w.payload
  BY <1>1, UnbindFacts
<1> HIDE DEF u
<1>3. /\ Fields(r)
      /\ ~r.bound /\ r.drops = 1 /\ SameHistory(r, w)
      /\ r.told = w.told /\ r.handle = w.handle /\ r.closeds = w.closeds
      /\ r.preClose /\ r.discarded = w.discarded /\ r.buffered = "none"
      /\ r.payload = w.payload
      /\ r.state = "WAITING_TO_SEND_CLOSE" /\ r.timeout = "CLOSE_SEND"
  BY <1>2 DEF NewWsi, Fields, SameHistory
<1> HIDE DEF r
<1>4. Sound(r)
  BY <1>1, <1>3 DEF Sound, IsWsi, States, Telling, Framing, Reasoning, Flushing, Timing,
                    SameHistory
<1> QED BY <1>3, <1>4, OnWritableSound DEF CloseViaRole, r, u

(* Unbinding the protocol first changes nothing for what kills the wsi.      *)
LEMMA UnbindSound ==
  ASSUME NEW w, Sound(w), w.preClose, ~w.told
  PROVE  /\ Sound(Unbind(w)) /\ Unbind(w).preClose
         /\ Unbind(w).state = w.state /\ Unbind(w).buffered = w.buffered
<1> DEFINE u == Unbind(w)
<1>1. /\ Fields(u)
      /\ ~u.bound /\ u.drops = 1
      /\ SameHistory(u, w)
      /\ u.state = w.state /\ u.told = w.told /\ u.handle = w.handle
      /\ u.closeds = w.closeds /\ u.preClose = w.preClose
      /\ u.discarded = w.discarded /\ u.buffered = w.buffered
      /\ u.payload = w.payload /\ u.timeout = w.timeout
  BY UnbindFacts DEF Sound
<1>2. u.closeLen = w.closeLen /\ u.peerHasSentClose = w.peerHasSentClose
      /\ u.pongTook = w.pongTook /\ u.userTook = w.userTook
  BY DEF Sound, IsWsi, NewWsi, Fields, Unbind
<1> HIDE DEF u
<1>3. Sound(u)
  BY <1>1, <1>2 DEF Sound, IsWsi, Telling, Framing, Reasoning, Flushing, Timing, SameHistory
<1> QED BY <1>1, <1>3 DEF u

(* __lws_close_free_wsi(), from whatever state it is called in.              *)
LEMMA CloseFreeWsiSound ==
  ASSUME NEW v, Sound(v), NEW destroying \in BOOLEAN, MayClose(v) \/ destroying
  PROVE  /\ Sound(CloseFreeWsi(v, destroying))
         /\ CloseFreeWsi(v, destroying).state \in Closing
<1> DEFINE w == [v EXCEPT !.preClose = TRUE]
           c == CloseFreeWsi(v, destroying)
<1>1. Sound(w) /\ w.preClose
  BY DEF Sound, IsWsi, NewWsi, Fields, Telling, Framing, Reasoning, Flushing, Timing
<1>2. /\ w.state = v.state /\ w.buffered = v.buffered /\ w.unusable = v.unusable
      /\ w.state \in States
  BY DEF Sound, IsWsi, NewWsi, Fields
<1>3. c = CASE w.state = "DEAD_SOCKET" -> w
       [] w.state # "DEAD_SOCKET" /\ (w.unusable \/ destroying \/ TriedPolitely(w.state)) ->
            JustKill(w, destroying)
       [] ~(w.unusable \/ destroying) /\ w.state = "FLUSHING_BEFORE_CLOSE" ->
            IF FlushFirst(w) THEN OnWritable(w) ELSE JustKill(w, FALSE)
       [] ~(w.unusable \/ destroying) /\ w.state = "ESTABLISHED" ->
            IF FlushFirst(w)
            THEN [w EXCEPT !.state = "FLUSHING_BEFORE_CLOSE", !.timeout = "FLUSH"]
            ELSE IF w.closeLen THEN CloseViaRole(Unbind(w))
                 ELSE JustKill(Unbind(w), FALSE)
  BY DEF CloseFreeWsi
<1> HIDE DEF w, c
<1>4. CASE w.state = "DEAD_SOCKET"
  <2>1. c = w BY <1>3, <1>4
  <2> QED BY <2>1, <1>1, <1>4 DEF c, Closing
<1>5. CASE w.state # "DEAD_SOCKET" /\ (w.unusable \/ destroying \/ TriedPolitely(w.state))
  <2>1. c = JustKill(w, destroying)
    BY <1>3, <1>5 DEF TriedPolitely
  <2>2. \/ w.unusable \/ destroying \/ w.buffered = "none"
        \/ w.state = "AWAITING_CLOSE_ACK"
    BY <1>1, <1>2, <1>5 DEF TriedPolitely, MayClose, Sound, Flushing
  <2> QED BY <2>1, <2>2, <1>1, <1>5, JustKillSound DEF c, Closing
<1>6. CASE ~(w.unusable \/ destroying) /\ w.state = "FLUSHING_BEFORE_CLOSE"
  <2>1. c = IF FlushFirst(w) THEN OnWritable(w) ELSE JustKill(w, FALSE)
    BY <1>3, <1>6 DEF TriedPolitely
  <2>2. CASE FlushFirst(w)
    BY <2>1, <2>2, <1>1, <1>6, OnWritableSound DEF c, Closing
  <2>3. CASE ~FlushFirst(w)
    BY <2>1, <2>3, <1>1, <1>6, JustKillSound DEF c, Closing, FlushFirst
  <2> QED BY <2>2, <2>3
<1>7. CASE ~(w.unusable \/ destroying) /\ w.state = "ESTABLISHED"
  <2>1. c = IF FlushFirst(w)
            THEN [w EXCEPT !.state = "FLUSHING_BEFORE_CLOSE", !.timeout = "FLUSH"]
            ELSE IF w.closeLen THEN CloseViaRole(Unbind(w))
                 ELSE JustKill(Unbind(w), FALSE)
    BY <1>3, <1>7 DEF TriedPolitely
  <2>2. CASE FlushFirst(w)
    <3> DEFINE f == [w EXCEPT !.state = "FLUSHING_BEFORE_CLOSE", !.timeout = "FLUSH"]
    <3>1. Sound(f) /\ f.state = "FLUSHING_BEFORE_CLOSE"
      BY <1>1, <1>7 DEF Sound, IsWsi, NewWsi, Fields, States, Telling, Framing, Reasoning, Flushing,
                        Timing
    <3> QED BY <2>1, <2>2, <3>1 DEF c, Closing
  <2>3. CASE ~FlushFirst(w) /\ w.closeLen
    BY <2>1, <2>3, <1>1, <1>7, CloseViaRoleSound DEF c, Closing, FlushFirst
  <2>4. CASE ~FlushFirst(w) /\ ~w.closeLen
    <3>1. ~w.told
      BY <1>1, <1>7 DEF Sound, Telling
    <3>2. /\ Sound(Unbind(w)) /\ Unbind(w).preClose
          /\ Unbind(w).state = w.state /\ Unbind(w).buffered = "none"
      BY <3>1, <2>4, <1>1, UnbindSound DEF FlushFirst
    <3> QED BY <2>1, <2>4, <3>2, <1>7, JustKillSound DEF c, Closing
  <2> QED BY <2>2, <2>3, <2>4
<1> QED BY <1>2, <1>4, <1>5, <1>6, <1>7 DEF States, TriedPolitely

(* A wsi that was just closed is at rest.                                    *)
LEMMA ClosingRests ==
  ASSUME NEW w, w.state \in Closing
  PROVE  Resting(w) /\ MayClose(w)
  BY DEF Closing, Resting, MayClose

(* The repeated close of a debug build changes nothing that matters.         *)
LEMMA CloseAndHandledSound ==
  ASSUME NEW w, Sound(w), MayClose(w)
  PROVE  Sound(CloseAndHandled(w)) /\ Resting(CloseAndHandled(w))
<1>1. Sound(CloseFreeWsi(w, FALSE)) /\ CloseFreeWsi(w, FALSE).state \in Closing
  BY CloseFreeWsiSound
<1>2. LET c == CloseFreeWsi(CloseFreeWsi(w, FALSE), FALSE)
      IN Sound(c) /\ c.state \in Closing
  BY <1>1, ClosingRests, CloseFreeWsiSound
<1> QED BY <1>1, <1>2, ClosingRests DEF CloseAndHandled

(* lws_read_h1() bail: leaves the wsi at rest.                               *)
LEMMA BailSound ==
  ASSUME NEW w, Sound(w), MayClose(w)
  PROVE  Sound(Bail(w)) /\ Resting(Bail(w))
  BY CloseFreeWsiSound, ClosingRests DEF Bail

(* What rops_handle_POLLIN_ws() makes of a wsi whose POLLOUT handling failed.*)
Turned(w) ==
  IF w.state = "RETURNED_CLOSE" THEN [w EXCEPT !.state = "FLUSHING_BEFORE_CLOSE"] ELSE w

(* An echo that is due may be dropped or left half sent.                     *)
LEMMA TurnedSound ==
  ASSUME NEW w, Sound(w)
  PROVE  Sound(Turned(w))
<1>1. CASE w.state # "RETURNED_CLOSE"
  BY <1>1 DEF Turned
<1>2. CASE w.state = "RETURNED_CLOSE"
  <2> DEFINE t == [w EXCEPT !.state = "FLUSHING_BEFORE_CLOSE"]
  <2>1. Sound(t)
    BY <1>2 DEF Sound, IsWsi, NewWsi, Fields, States, Telling, Framing, Reasoning, Flushing, Timing
  <2> QED BY <1>2, <2>1 DEF Turned
<1> QED BY <1>1, <1>2

(* POLLOUT handling that fails closes the connection and leaves it at rest.  *)
LEMMA PolloutDiedSound ==
  ASSUME NEW w, Fields(w), Sound(Turned(w))
  PROVE  Sound(PolloutDied(w)) /\ Resting(PolloutDied(w))
<1>1. MayClose(Turned(w))
  BY DEF Turned, MayClose, NewWsi, Fields
<1> QED BY <1>1, CloseAndHandledSound DEF PolloutDied, Turned

(* Marking the socket unusable breaks nothing.                               *)
LEMMA UnusableSound ==
  ASSUME NEW w, Sound(w)
  PROVE  LET d == [w EXCEPT !.unusable = TRUE] IN
         Sound(d) /\ d.unusable /\ (Resting(w) => Resting(d)) /\ d.state = w.state
<1> DEFINE d == [w EXCEPT !.unusable = TRUE]
<1>1. Sound(d)
  BY DEF Sound, IsWsi, NewWsi, Fields, Telling, Framing, Reasoning, Flushing, Timing
<1>2. d.unusable /\ (Resting(w) => Resting(d)) /\ d.state = w.state
  BY DEF Sound, IsWsi, NewWsi, Fields, Resting
<1> QED BY <1>1, <1>2

(* A callback to the user leaves everything but its own history alone; what  *)
(* may come after DROP_PROTOCOL is WRITEABLE and PEER_INITIATED_CLOSE.       *)
LEMMA UserCallbackSound ==
  ASSUME NEW w, Sound(w), ~w.told, NEW cb,
         w.bound \/ cb \in {"WRITEABLE", "PEER_INITIATED_CLOSE"}
  PROVE  LET u == UserCallback(w, cb) IN
         /\ Sound(u) /\ (Resting(w) => Resting(u))
         /\ u.state = w.state /\ u.preClose = w.preClose /\ u.echoed = w.echoed
         /\ u.buffered = w.buffered /\ u.closes = w.closes /\ u.bound = w.bound
         /\ u.peerHasSentClose = w.peerHasSentClose
<1> DEFINE u == UserCallback(w, cb)
<1>1. w.closeds = 0
  BY DEF Sound, Telling
<1>2. Telling(u) /\ IsWsi(u)
  BY <1>1 DEF Sound, IsWsi, NewWsi, Fields, Telling, UserCallback
<1>3. Framing(u) /\ Reasoning(u) /\ Flushing(u) /\ Timing(u)
  BY DEF Sound, IsWsi, NewWsi, Fields, Framing, Reasoning, Flushing, Timing, UserCallback
<1>4. /\ (Resting(w) => Resting(u))
      /\ u.state = w.state /\ u.preClose = w.preClose /\ u.echoed = w.echoed
      /\ u.buffered = w.buffered /\ u.closes = w.closes /\ u.bound = w.bound
      /\ u.peerHasSentClose = w.peerHasSentClose
  BY DEF Sound, IsWsi, NewWsi, Fields, Resting, UserCallback
<1> QED BY <1>2, <1>3, <1>4 DEF Sound

(* lws_close_reason() from a callback.                                       *)
LEMMA CloseReasonSound ==
  ASSUME NEW w, Sound(w)
  PROVE  /\ Sound(CloseReason(w)) /\ CloseReason(w).state = w.state
         /\ CloseReason(w).buffered = w.buffered /\ CloseReason(w).unusable = w.unusable
<1> DEFINE r == CloseReason(w)
<1>1. IsWsi(r) /\ Telling(r) /\ Framing(r)
  BY DEF Sound, IsWsi, NewWsi, Fields, Telling, Framing, CloseReason
<1>2. Reasoning(r) /\ Flushing(r) /\ Timing(r)
  BY DEF Sound, IsWsi, NewWsi, Fields, Reasoning, Flushing, Timing, CloseReason
<1>3. r.state = w.state /\ r.buffered = w.buffered /\ r.unusable = w.unusable
  BY DEF Sound, IsWsi, NewWsi, Fields, CloseReason
<1> QED BY <1>1, <1>2, <1>3 DEF Sound

(* What a callback asks for before it closes the connection.                 *)
LEMMA AfterCallbackSound ==
  ASSUME NEW w, Sound(w), NEW ret
  PROVE  /\ Sound(AfterCallback(w, ret))
         /\ MayClose(w) => MayClose(AfterCallback(w, ret))
  BY CloseReasonSound DEF AfterCallback, MayClose

(* All that lws_write() leaves alone.                                        *)
SameControl(v, w) ==
  /\ v.state = w.state /\ v.preClose = w.preClose /\ v.bound = w.bound /\ v.told = w.told
  /\ v.timeout = w.timeout /\ v.payload = w.payload /\ v.closeLen = w.closeLen
  /\ v.payloadIsClose = w.payloadIsClose /\ v.peerHasSentClose = w.peerHasSentClose
  /\ v.handle = w.handle /\ v.drops = w.drops /\ v.closeds = w.closeds
  /\ v.destroys = w.destroys /\ v.afterDrop = w.afterDrop /\ v.afterClosed = w.afterClosed
  /\ v.pingedOver = w.pingedOver /\ v.pongTook = w.pongTook /\ v.userTook = w.userTook
  /\ v.discarded = w.discarded

(* A frame other than a close that the socket took, or part of it: the       *)
(* record of close frames stays as it is.                                    *)
LEMMA WrittenOther ==
  ASSUME NEW w, IsWsi(w), ~w.echoed, NEW f, f # "close", NEW o \in {"all", "partial"},
         NEW p, p = Written(w, f, o)
  PROVE  /\ Fields(p) /\ SameControl(p, w)
         /\ p.closes = w.closes /\ p.reasonSent = w.reasonSent
         /\ ~p.echoed /\ p.afterEcho = w.afterEcho
<1> DEFINE put == [w EXCEPT
             !.closes = IF f = "close" THEN Capped(@) ELSE @,
             !.echoed = @ \/ (f = "close" /\ w.payloadIsClose),
             !.reasonSent = IF f = "close" /\ w.closes = 0 THEN w.payload ELSE @,
             !.afterEcho = IF w.echoed THEN @ \cup {f} ELSE @]
           held == [put EXCEPT !.buffered = f]
<1>1. p = IF o = "all" THEN put ELSE OnWritable(held)
  BY DEF Written
<1>2. Fields(put) /\ SameControl(put, w)
  BY DEF IsWsi, NewWsi, Fields, SameControl
<1>3. /\ put.closes = w.closes /\ put.reasonSent = w.reasonSent
      /\ ~put.echoed /\ put.afterEcho = w.afterEcho
  BY DEF IsWsi, NewWsi, Fields
<1> HIDE DEF put
<1>4. LET h == OnWritable(held) IN
      /\ Fields(h) /\ SameControl(h, put)
      /\ h.closes = put.closes /\ h.reasonSent = put.reasonSent
      /\ h.echoed = put.echoed /\ h.afterEcho = put.afterEcho
  BY <1>2 DEF NewWsi, Fields, SameControl, OnWritable
<1> QED BY <1>1, <1>2, <1>3, <1>4 DEF SameControl

(* The first close frame takes the payload there is, ours or the peer's.     *)
LEMMA WrittenClose ==
  ASSUME NEW w, IsWsi(w), ~w.echoed, w.closes = 0, NEW o \in {"all", "partial"},
         NEW p, p = Written(w, "close", o)
  PROVE  /\ Fields(p) /\ SameControl(p, w)
         /\ p.closes = 1 /\ p.reasonSent = w.payload
         /\ (p.echoed <=> w.payloadIsClose) /\ p.afterEcho = w.afterEcho
<1> DEFINE put == [w EXCEPT
             !.closes = IF "close" = "close" THEN Capped(@) ELSE @,
             !.echoed = @ \/ ("close" = "close" /\ w.payloadIsClose),
             !.reasonSent = IF "close" = "close" /\ w.closes = 0 THEN w.payload ELSE @,
             !.afterEcho = IF w.echoed THEN @ \cup {"close"} ELSE @]
           held == [put EXCEPT !.buffered = "close"]
<1>1. p = IF o = "all" THEN put ELSE OnWritable(held)
  BY DEF Written
<1>2. Fields(put) /\ SameControl(put, w)
  BY DEF IsWsi, NewWsi, Fields, SameControl
<1>3. put.closes = Capped(w.closes) /\ put.reasonSent = w.payload
  BY DEF IsWsi, NewWsi, Fields
<1>4. (put.echoed <=> w.payloadIsClose) /\ put.afterEcho = w.afterEcho
  BY DEF IsWsi, NewWsi, Fields
<1> HIDE DEF put
<1>5. put.closes = 1
  BY <1>3 DEF Capped
<1>6. LET h == OnWritable(held) IN
      /\ Fields(h) /\ SameControl(h, put)
      /\ h.closes = put.closes /\ h.reasonSent = put.reasonSent
      /\ h.echoed = put.echoed /\ h.afterEcho = put.afterEcho
  BY <1>2 DEF NewWsi, Fields, SameControl, OnWritable
<1> QED BY <1>1, <1>2, <1>3, <1>4, <1>5, <1>6 DEF SameControl

(* A frame that is not a close, written where frames are written.            *)
LEMMA WrittenSound ==
  ASSUME NEW w, Sound(w), Resting(w), w.state \in {"ESTABLISHED", "AWAITING_CLOSE_ACK"},
         NEW f, f # "close", NEW o \in Outcomes
  PROVE  LET p == Written(w, f, o) IN
         Sound(p) /\ Resting(p) /\ p.state = w.state
<1> DEFINE p == Written(w, f, o)
<1>1. CASE o = "error"
  <2>1. p = [w EXCEPT !.unusable = TRUE]
    BY <1>1 DEF Written
  <2> QED BY <2>1, UnusableSound
<1>2. CASE o # "error"
  <2>1. IsWsi(w) /\ ~w.echoed /\ o \in {"all", "partial"}
    BY <1>2 DEF Sound, Framing, Outcomes
  <2>2. /\ Fields(p) /\ SameControl(p, w)
        /\ p.closes = w.closes /\ p.reasonSent = w.reasonSent
        /\ ~p.echoed /\ p.afterEcho = w.afterEcho
    BY <2>1, WrittenOther
  <2> HIDE DEF p
  <2>3. IsWsi(p) /\ Telling(p) /\ Timing(p) /\ Resting(p)
    BY <2>1, <2>2 DEF Sound, IsWsi, Telling, Timing, Resting, SameControl
  <2>4. Framing(p) /\ Reasoning(p) /\ Flushing(p)
    BY <2>1, <2>2 DEF Sound, Framing, Reasoning, Flushing, SameControl
  <2> QED BY <2>2, <2>3, <2>4 DEF p, SameControl, Sound
<1> QED BY <1>1, <1>2

(* Bookkeeping of the poll loop that no property depends on.                 *)
LEMMA MinorSound ==
  ASSUME NEW w, Sound(w), NEW v,
         \/ v = [w EXCEPT !.pollout = FALSE]
         \/ v = [w EXCEPT !.pingPending = FALSE]
         \/ v = [w EXCEPT !.checkPing = FALSE]
  PROVE  Sound(v) /\ (Resting(w) => Resting(v)) /\ v.state = w.state /\ v.told = w.told
<1>1. IsWsi(v) /\ Telling(v) /\ v.state = w.state /\ v.told = w.told
  BY DEF Sound, IsWsi, NewWsi, Fields, Telling
<1>2. Framing(v) /\ Reasoning(v)
  BY DEF Sound, IsWsi, NewWsi, Fields, Framing, Reasoning
<1>3. Flushing(v) /\ Timing(v) /\ (Resting(w) => Resting(v))
  BY DEF Sound, IsWsi, NewWsi, Fields, Flushing, Timing, Resting
<1> QED BY <1>1, <1>2, <1>3 DEF Sound

(* Priority 1 of lws_handle_POLLOUT_event().                                 *)
LEMMA SendBufferedSound ==
  ASSUME CloseInv, NEW o \in Outcomes, SendBuffered(o)
  PROVE  CloseInv'
<1> DEFINE sent == [wsi EXCEPT !.buffered = "none"]
<1>1. Sound(wsi) /\ Resting(wsi)
  BY DEF CloseInv
<1>2. Sound(sent) /\ Resting(sent)
  BY <1>1 DEF Sound, IsWsi, NewWsi, Fields, Telling, Framing, Reasoning, Flushing, Timing, Resting
<1>3. wsi' = CASE o = "all" /\ wsi.state = "FLUSHING_BEFORE_CLOSE" -> PolloutDied(sent)
                 [] o = "all" /\ wsi.state # "FLUSHING_BEFORE_CLOSE" -> OnWritable(sent)
                 [] o = "partial" -> OnWritable(wsi)
                 [] o = "error" -> PolloutDied([wsi EXCEPT !.unusable = TRUE])
  BY DEF SendBuffered
<1> HIDE DEF sent
<1>4. CASE o = "all"
  <2>1. wsi' = PolloutDied(sent) \/ wsi' = OnWritable(sent)
    BY <1>3, <1>4
  <2>2. Sound(PolloutDied(sent)) /\ Resting(PolloutDied(sent))
    BY <1>2, TurnedSound, PolloutDiedSound DEF Sound, IsWsi
  <2> QED BY <1>2, <2>1, <2>2, OnWritableSound DEF CloseInv
<1>5. CASE o = "partial"
  <2>1. wsi' = OnWritable(wsi)
    BY <1>3, <1>5
  <2> QED BY <1>1, <2>1, OnWritableSound DEF CloseInv
<1>6. CASE o = "error"
  <2> DEFINE d == [wsi EXCEPT !.unusable = TRUE]
  <2>1. wsi' = PolloutDied(d)
    BY <1>3, <1>6
  <2>2. Sound(d)
    BY <1>1, UnusableSound
  <2> HIDE DEF d
  <2> QED BY <2>1, <2>2, TurnedSound, PolloutDiedSound DEF CloseInv, Sound, IsWsi
<1> QED BY <1>4, <1>5, <1>6 DEF Outcomes

(* A write that fails closes the connection, whatever was being written.     *)
LEMMA WriteErrorSound ==
  ASSUME CloseInv, NEW f
  PROVE  LET d == PolloutDied(Written(wsi, f, "error")) IN Sound(d) /\ Resting(d)
<1> DEFINE w == Written(wsi, f, "error")
<1>1. w = [wsi EXCEPT !.unusable = TRUE]
  BY DEF Written
<1>2. Sound(w)
  BY <1>1, UnusableSound DEF CloseInv
<1> HIDE DEF w
<1> QED BY <1>2, TurnedSound, PolloutDiedSound DEF Sound, IsWsi, w

(* The close asked for by the close api goes out.                            *)
LEMMA SendCloseSound ==
  ASSUME CloseInv, NEW o \in Outcomes, SendClose(o)
  PROVE  CloseInv'
<1> DEFINE w == Written(wsi, "close", o)
           a == [w EXCEPT !.state = "AWAITING_CLOSE_ACK", !.timeout = "CLOSE_ACK"]
<1>1. Sound(wsi) /\ wsi.state = "WAITING_TO_SEND_CLOSE"
  BY DEF CloseInv, SendClose
<1>2. wsi' = IF o = "error" THEN PolloutDied(w) ELSE a
  BY DEF SendClose
<1>3. CASE o = "error"
  BY <1>2, <1>3, WriteErrorSound DEF CloseInv
<1>4. CASE o # "error"
  <2>1. /\ IsWsi(wsi) /\ ~wsi.echoed /\ wsi.closes = 0 /\ ~wsi.payloadIsClose
        /\ o \in {"all", "partial"}
    BY <1>1, <1>4 DEF Sound, Framing, Outcomes
  <2>2. /\ Fields(w) /\ SameControl(w, wsi)
        /\ w.closes = 1 /\ w.reasonSent = wsi.payload
        /\ (w.echoed <=> wsi.payloadIsClose) /\ w.afterEcho = wsi.afterEcho
    BY <2>1, WrittenClose
  <2> HIDE DEF w
  <2>3. Telling(a) /\ IsWsi(a) /\ Timing(a) /\ Resting(a)
    BY <1>1, <2>1, <2>2 DEF Fields, NewWsi, IsWsi, States, Sound, Telling, Timing, Resting, SameControl
  <2>4. Framing(a) /\ Reasoning(a) /\ Flushing(a)
    BY <1>1, <2>1, <2>2 DEF Fields, NewWsi, Sound, Framing, Reasoning, Flushing, SameControl
  <2> QED BY <1>2, <1>4, <2>3, <2>4 DEF CloseInv, Sound
<1> QED BY <1>3, <1>4

(* The echo of the peer's close goes out and the connection is flushed.      *)
LEMMA SendEchoSound ==
  ASSUME CloseInv, NEW o \in Outcomes, SendEcho(o)
  PROVE  CloseInv'
<1> DEFINE w == Written(wsi, "close", o)
           q == [w EXCEPT !.pingPending = FALSE]
           t == [q EXCEPT !.state = "FLUSHING_BEFORE_CLOSE"]
<1>1. Sound(wsi) /\ wsi.state = "RETURNED_CLOSE" /\ wsi.payloadIsClose
  BY DEF CloseInv, SendEcho, Control, Clear, Pollout, Running, Sound, Framing
<1>2. wsi' = PolloutDied(IF o = "error" THEN w ELSE q)
  BY DEF SendEcho
<1>3. CASE o = "error"
  BY <1>2, <1>3, WriteErrorSound DEF CloseInv
<1>4. CASE o # "error"
  <2>1. IsWsi(wsi) /\ ~wsi.echoed /\ wsi.closes = 0 /\ o \in {"all", "partial"}
    BY <1>1, <1>4 DEF Sound, Framing, Outcomes
  <2>2. /\ Fields(w) /\ SameControl(w, wsi)
        /\ w.closes = 1 /\ w.reasonSent = wsi.payload
        /\ (w.echoed <=> wsi.payloadIsClose) /\ w.afterEcho = wsi.afterEcho
    BY <2>1, WrittenClose
  <2> HIDE DEF w
  <2>3. /\ Fields(q) /\ SameControl(q, wsi)
        /\ q.closes = 1 /\ q.echoed /\ q.afterEcho = wsi.afterEcho
    BY <1>1, <2>2 DEF Fields, NewWsi, SameControl
  <2> HIDE DEF q
  <2>4. Telling(t) /\ IsWsi(t) /\ Timing(t)
    BY <1>1, <2>3 DEF Fields, NewWsi, IsWsi, States, Sound, Telling, Timing, Framing, SameControl
  <2>5. Framing(t) /\ Reasoning(t) /\ Flushing(t)
    BY <1>1, <2>3 DEF Fields, NewWsi, Sound, Framing, Reasoning, Flushing, SameControl
  <2>6. Sound(Turned(q))
    BY <1>1, <2>3, <2>4, <2>5 DEF Sound, Turned, SameControl
  <2> QED BY <1>2, <1>4, <2>3, <2>6, PolloutDiedSound DEF CloseInv
<1> QED BY <1>3, <1>4

(* Where the plain frames of a connection are written.                       *)
LEMMA FramesStates ==
  ASSUME CloseInv, Control, ~(wsi.state = "RETURNED_CLOSE" /\ wsi.payloadIsClose)
  PROVE  wsi.state \in {"ESTABLISHED", "AWAITING_CLOSE_ACK"} /\ ~wsi.told
  BY DEF CloseInv, Control, Clear, Pollout, Running, Sound, IsWsi, States, Framing, Telling

(* A pong, sent or forgotten.                                                *)
LEMMA SendPongSound ==
  ASSUME CloseInv, NEW o \in Outcomes, SendPong(o)
  PROVE  CloseInv'
<1> DEFINE w == Written(wsi, "pong", o)
<1>1. Sound(wsi) /\ Resting(wsi) /\ Control /\ ~wsi.payloadIsClose
  BY DEF CloseInv, SendPong
<1>2. wsi' = CASE wsi.preClose -> [wsi EXCEPT !.pingPending = FALSE]
                 [] ~wsi.preClose /\ o = "error" -> PolloutDied(w)
                 [] ~wsi.preClose /\ o # "error" -> [w EXCEPT !.pingPending = FALSE]
  BY DEF SendPong
<1>3. Sound(w) /\ Resting(w)
  BY <1>1, FramesStates, WrittenSound
<1> HIDE DEF w
<1>4. CASE wsi.preClose
  <2>1. wsi' = [wsi EXCEPT !.pingPending = FALSE]
    BY <1>2, <1>4
  <2> QED BY <1>1, <2>1, MinorSound DEF CloseInv
<1>5. CASE ~wsi.preClose /\ o = "error"
  <2>1. wsi' = PolloutDied(w)
    BY <1>2, <1>5
  <2> QED BY <1>3, <2>1, TurnedSound, PolloutDiedSound DEF CloseInv, Sound, IsWsi
<1>6. CASE ~wsi.preClose /\ o # "error"
  <2>1. wsi' = [w EXCEPT !.pingPending = FALSE]
    BY <1>2, <1>6
  <2> QED BY <1>3, <2>1, MinorSound DEF CloseInv
<1> QED BY <1>4, <1>5, <1>6

(* The check ping.                                                           *)
LEMMA SendPingSound ==
  ASSUME CloseInv, NEW o \in Outcomes, SendPing(o)
  PROVE  CloseInv'
<1> DEFINE p == Written(wsi, "ping", o)
           w == [p EXCEPT !.checkPing = FALSE]
           g == [w EXCEPT !.timeout = "GET_PONG"]
<1>1. /\ Sound(wsi) /\ Resting(wsi) /\ Control
      /\ ~(wsi.state = "RETURNED_CLOSE" /\ wsi.payloadIsClose)
  BY DEF CloseInv, SendPing, ControlDue
<1>2. wsi' = IF o = "error" THEN PolloutDied(w) ELSE g
  BY DEF SendPing
<1>3. wsi.state \in {"ESTABLISHED", "AWAITING_CLOSE_ACK"}
  BY <1>1, FramesStates
<1>4. Sound(p) /\ Resting(p) /\ p.state = wsi.state
  BY <1>1, <1>3, WrittenSound
<1> HIDE DEF p
<1>5. Sound(w) /\ Resting(w) /\ w.state = wsi.state
  BY <1>4, MinorSound
<1> HIDE DEF w
<1>6. Sound(g) /\ Resting(g)
  BY <1>3, <1>5 DEF Sound, IsWsi, NewWsi, Fields, Telling, Framing, Reasoning, Flushing,
                    Timing, Resting
<1>7. Sound(PolloutDied(w)) /\ Resting(PolloutDied(w))
  BY <1>5, TurnedSound, PolloutDiedSound DEF Sound, IsWsi
<1> QED BY <1>2, <1>6, <1>7 DEF CloseInv

(* The user may start its own timeout at any time, and end whatever timeout  *)
(* there is only from a WRITEABLE, which no other closing state gets.        *)
LEMMA RetimedSound ==
  ASSUME NEW w, Sound(w), NEW timer \in Timers,
         timer = "none" => w.state \in {"ESTABLISHED", "AWAITING_CLOSE_ACK"}
  PROVE  LET r == Retimed(w, timer) IN Sound(r) /\ (Resting(w) => Resting(r))
<1> DEFINE r == Retimed(w, timer)
<1>1. IsWsi(r) /\ Telling(r) /\ (Resting(w) => Resting(r))
  BY DEF Sound, IsWsi, NewWsi, Fields, Telling, Resting, Retimed
<1>2. Framing(r) /\ Reasoning(r) /\ Flushing(r)
  BY DEF Sound, IsWsi, NewWsi, Fields, Framing, Reasoning, Flushing, Retimed
<1>3. Timing(r)
  BY DEF Sound, IsWsi, NewWsi, Fields, Timing, Retimed, Timers
<1> QED BY <1>1, <1>2, <1>3 DEF Sound

(* SERVER_WRITEABLE, with what the user writes and asks for.                 *)
LEMMA WriteableSound ==
  ASSUME CloseInv, NEW writes \in BOOLEAN, NEW o \in Outcomes, NEW ret \in Returns,
         NEW timer \in Timers, Writeable(writes, o, ret, timer)
  PROVE  CloseInv'
<1> DEFINE off == [wsi EXCEPT !.pollout = FALSE]
           called == UserCallback(off, "WRITEABLE")
           put == Written(called, "data", o)
           w == IF writes THEN Retimed(put, timer) ELSE called
<1>1. /\ Sound(wsi) /\ Resting(wsi) /\ Control
      /\ ~(wsi.state = "RETURNED_CLOSE" /\ wsi.payloadIsClose)
  BY DEF CloseInv, Writeable, ControlDue
<1>2. wsi' = IF writes /\ o = "error" THEN PolloutDied(w)
             ELSE IF ret = "ok" THEN w ELSE PolloutDied(AfterCallback(w, ret))
  BY DEF Writeable
<1>3. wsi.state \in {"ESTABLISHED", "AWAITING_CLOSE_ACK"} /\ ~wsi.told
  BY <1>1, FramesStates
<1>4. Sound(off) /\ Resting(off) /\ off.state = wsi.state /\ ~off.told
  BY <1>1, <1>3, MinorSound
<1> HIDE DEF off
<1>5. Sound(called) /\ Resting(called) /\ called.state = wsi.state
  BY <1>4, UserCallbackSound
<1> HIDE DEF called
<1>6. Sound(w) /\ Resting(w)
  <2>1. Sound(put) /\ Resting(put) /\ put.state \in {"ESTABLISHED", "AWAITING_CLOSE_ACK"}
    BY <1>3, <1>5, WrittenSound
  <2> HIDE DEF put
  <2>2. Sound(Retimed(put, timer)) /\ Resting(Retimed(put, timer))
    BY <2>1, RetimedSound
  <2> QED BY <1>5, <2>2
<1> HIDE DEF w
<1>7. Sound(PolloutDied(w)) /\ Resting(PolloutDied(w))
  BY <1>6, TurnedSound, PolloutDiedSound DEF Sound, IsWsi
<1>8. Sound(AfterCallback(w, ret))
  BY <1>6, AfterCallbackSound
<1>9. Sound(PolloutDied(AfterCallback(w, ret))) /\ Resting(PolloutDied(AfterCallback(w, ret)))
  BY <1>8, TurnedSound, PolloutDiedSound DEF Sound, IsWsi
<1> QED BY <1>2, <1>6, <1>7, <1>9 DEF CloseInv

(* A CLOSE frame from the peer.                                              *)
LEMMA RxCloseSound ==
  ASSUME CloseInv, NEW ret \in Returns, RxClose(ret)
  PROVE  CloseInv'
<1> DEFINE w == [wsi EXCEPT !.peerHasSentClose = TRUE]
           told == UserCallback(w, "PEER_INITIATED_CLOSE")
           r == [told EXCEPT !.state = "RETURNED_CLOSE", !.payloadIsClose = TRUE]
           k == [r EXCEPT !.payload = "peer", !.pingPending = TRUE,
                          !.pingedOver = @ \/ r.state = "WAITING_TO_SEND_CLOSE"]
<1>1. /\ Sound(wsi) /\ Resting(wsi) /\ wsi.state \in States
      /\ wsi.state \notin {"DEAD_SOCKET", "FLUSHING_BEFORE_CLOSE"}
  BY DEF CloseInv, RxClose, Readable, Running, Sound, IsWsi
<1>2. wsi' = CASE wsi.peerHasSentClose -> wsi
                 [] ~wsi.peerHasSentClose /\ wsi.state = "AWAITING_CLOSE_ACK" -> Bail(w)
                 [] ~wsi.peerHasSentClose /\ wsi.state # "AWAITING_CLOSE_ACK"
                    /\ wsi.buffered # "none" -> Bail([w EXCEPT !.unusable = TRUE])
                 [] ~wsi.peerHasSentClose /\ wsi.state # "AWAITING_CLOSE_ACK"
                    /\ wsi.buffered = "none" ->
                      IF ret # "ok" THEN Bail(AfterCallback(told, ret))
                      ELSE OnWritable(k)
  BY DEF RxClose, Stash
<1>3. /\ Sound(w) /\ Resting(w) /\ w.state = wsi.state /\ w.buffered = wsi.buffered
      /\ ~w.told /\ w.peerHasSentClose
  BY <1>1 DEF Sound, IsWsi, NewWsi, Fields, Telling, Framing, Reasoning, Flushing, Timing,
              Resting
<1> HIDE DEF w
<1>4. CASE wsi.peerHasSentClose
  <2>1. wsi' = wsi BY <1>2, <1>4
  <2> QED BY <1>1, <2>1 DEF CloseInv
<1>5. CASE ~wsi.peerHasSentClose /\ wsi.state = "AWAITING_CLOSE_ACK"
  <2>1. wsi' = Bail(w) BY <1>2, <1>5
  <2>2. MayClose(w) BY <1>3, <1>5 DEF MayClose
  <2> QED BY <1>3, <2>1, <2>2, BailSound DEF CloseInv
<1>6. CASE ~wsi.peerHasSentClose /\ wsi.state # "AWAITING_CLOSE_ACK" /\ wsi.buffered # "none"
  <2>1. wsi' = Bail([w EXCEPT !.unusable = TRUE]) BY <1>2, <1>6
  <2> DEFINE d == [w EXCEPT !.unusable = TRUE]
  <2>2. Sound(d) /\ MayClose(d) BY <1>3, UnusableSound DEF MayClose
  <2> QED BY <2>1, <2>2, BailSound DEF CloseInv
<1>7. CASE ~wsi.peerHasSentClose /\ wsi.state # "AWAITING_CLOSE_ACK" /\ wsi.buffered = "none"
  <2>1. wsi' = IF ret # "ok" THEN Bail(AfterCallback(told, ret)) ELSE OnWritable(k)
    BY <1>2, <1>7
  <2>2. wsi.state \in {"ESTABLISHED", "WAITING_TO_SEND_CLOSE"}
    BY <1>1, <1>7 DEF Sound, Framing, States
  <2>3. /\ Sound(told) /\ told.state = w.state /\ told.buffered = w.buffered
        /\ told.peerHasSentClose = w.peerHasSentClose
    BY <1>3, UserCallbackSound
  <2> HIDE DEF told
  <2>4. MayClose(told)
    BY <2>2, <2>3, <1>3 DEF MayClose
  <2>5. Sound(Bail(AfterCallback(told, ret))) /\ Resting(Bail(AfterCallback(told, ret)))
    BY <2>3, <2>4, AfterCallbackSound, BailSound
  <2>6. told.closes = 0 /\ ~told.echoed
    BY <2>2, <2>3, <1>3 DEF Sound, Framing
  <2>7. /\ Fields(r) /\ r.state = "RETURNED_CLOSE" /\ r.buffered = "none" /\ r.payloadIsClose
        /\ r.peerHasSentClose /\ SameHistory(r, [told EXCEPT !.payloadIsClose = TRUE])
        /\ Telling(r) /\ ~r.discarded
    BY <1>3, <1>7, <2>2, <2>3 DEF Sound, IsWsi, Fields, NewWsi, SameHistory, Telling, Flushing
  <2>8. r.closes = 0 /\ ~r.echoed /\ r.afterEcho = {}
    BY <2>3, <2>6 DEF Sound, IsWsi, Fields, NewWsi, Framing
  <2> HIDE DEF r
  <2>9. IsWsi(k) /\ Telling(k) /\ Flushing(k) /\ Timing(k) /\ Resting(k)
    BY <2>7 DEF IsWsi, States, Fields, NewWsi, Telling, Flushing, Timing, Resting
  <2>10. Framing(k) /\ Reasoning(k)
    BY <2>7, <2>8 DEF Fields, NewWsi, Framing, Reasoning
  <2>11. Sound(OnWritable(k)) /\ Resting(OnWritable(k))
    BY <2>9, <2>10, OnWritableSound DEF Sound
  <2> QED BY <2>1, <2>5, <2>11 DEF CloseInv
<1> QED BY <1>4, <1>5, <1>6, <1>7

(* A PING from the peer takes the buffer our reason may be in.               *)
LEMMA RxPingSound ==
  ASSUME CloseInv, RxPing
  PROVE  CloseInv'
<1> DEFINE k == [wsi EXCEPT !.payload = "ping", !.pingPending = TRUE,
                            !.pingedOver = @ \/ wsi.state = "WAITING_TO_SEND_CLOSE"]
<1>1. wsi' = wsi \/ wsi' = OnWritable(k)
  BY DEF RxPing, Stash
<1>2. IsWsi(k) /\ Telling(k) /\ Framing(k) /\ Flushing(k) /\ Timing(k) /\ Resting(k)
  BY DEF CloseInv, Sound, IsWsi, NewWsi, Fields, Telling, Framing, Flushing, Timing, Resting
<1>3. Reasoning(k)
  BY DEF CloseInv, Sound, IsWsi, NewWsi, Fields, Reasoning, Resting
<1>4. Sound(OnWritable(k)) /\ Resting(OnWritable(k))
  BY <1>2, <1>3, OnWritableSound DEF Sound
<1> QED BY <1>1, <1>4 DEF CloseInv

(* What a callback for received data asks for, while no close has begun.     *)
LEMMA DeliveredSound ==
  ASSUME NEW w, Sound(w), Resting(w), w.state # "DEAD_SOCKET", Delivered(w),
         NEW cb, NEW ret
  PROVE  LET told == UserCallback(w, cb)
             after == IF ret = "ok" THEN told ELSE Bail(AfterCallback(told, ret))
         IN Sound(after) /\ Resting(after)
<1> DEFINE told == UserCallback(w, cb)
<1>1. ~w.told /\ w.bound
  BY DEF Sound, Telling, Delivered
<1>2. Sound(told) /\ Resting(told)
  BY <1>1, UserCallbackSound
<1> HIDE DEF told
<1>3. MayClose(told)
  BY <1>2 DEF Resting, MayClose
<1>4. Sound(Bail(AfterCallback(told, ret))) /\ Resting(Bail(AfterCallback(told, ret)))
  BY <1>2, <1>3, AfterCallbackSound, BailSound
<1> QED BY <1>2, <1>4 DEF told

(* A PONG from the peer: the wait for it is over, and the user is told.      *)
LEMMA RxPongSound ==
  ASSUME CloseInv, NEW ret \in Returns, RxPong(ret)
  PROVE  CloseInv'
<1> DEFINE took == [wsi EXCEPT !.timeout = "none",
                               !.pongTook = wsi.state = "AWAITING_CLOSE_ACK"]
           w == IF wsi.timeout = "GET_PONG" THEN took ELSE wsi
           told == UserCallback(w, "RECEIVE_PONG")
           after == IF ret = "ok" THEN told ELSE Bail(AfterCallback(told, ret))
<1>1. /\ Sound(wsi) /\ Resting(wsi)
      /\ wsi.state \notin {"DEAD_SOCKET", "FLUSHING_BEFORE_CLOSE"}
  BY DEF CloseInv, RxPong, Readable, Running
<1>2. wsi' = IF ~Delivered(w) \/ w.state = "RETURNED_CLOSE" THEN w ELSE after
  BY DEF RxPong
<1>3. ASSUME wsi.timeout = "GET_PONG"
      PROVE  Sound(took) /\ Resting(took) /\ took.state = wsi.state
  BY <1>1, <1>3 DEF Sound, IsWsi, NewWsi, Fields, Telling, Framing, Reasoning, Flushing,
                    Timing, Resting
<1> HIDE DEF took
<1>4. Sound(w) /\ Resting(w) /\ w.state = wsi.state
  BY <1>1, <1>3
<1> HIDE DEF w
<1>5. Delivered(w) => Sound(after) /\ Resting(after)
  BY <1>1, <1>4, DeliveredSound
<1> QED BY <1>2, <1>4, <1>5 DEF CloseInv

(* Data from the peer, delivered while no close has begun.                   *)
LEMMA RxDataSound ==
  ASSUME CloseInv, NEW ret \in Returns, RxData(ret)
  PROVE  CloseInv'
<1> DEFINE told == UserCallback(wsi, "RECEIVE")
           after == IF ret = "ok" THEN told ELSE Bail(AfterCallback(told, ret))
<1>1. Sound(wsi) /\ Resting(wsi) /\ wsi.state # "DEAD_SOCKET"
  BY DEF CloseInv, RxData, Readable, Running
<1>2. wsi' = IF ~Delivered(wsi) THEN wsi ELSE after
  BY DEF RxData
<1>3. Delivered(wsi) => Sound(after) /\ Resting(after)
  BY <1>1, DeliveredSound
<1> HIDE DEF after
<1> QED BY <1>1, <1>2, <1>3 DEF CloseInv

(* Every way in which the connection is closed from outside the frames.      *)
LEMMA ClosesSound ==
  ASSUME CloseInv,
         \/ RxBad \/ RxZero \/ Hangup \/ TimedOut \/ ContextDestroy
         \/ \E f \in {"close", "ping", "pong", "data", "bad"} : RxFlushing(f)
  PROVE  CloseInv'
<1> DEFINE d == [wsi EXCEPT !.unusable = TRUE]
<1>1. Sound(wsi) /\ Resting(wsi) /\ MayClose(wsi)
  BY DEF CloseInv, Resting, MayClose
<1>2. Sound(d) /\ MayClose(d)
  BY <1>1, UnusableSound DEF MayClose
<1>3. CASE RxBad
  <2>1. Sound(CloseReason(wsi)) /\ MayClose(CloseReason(wsi))
    BY <1>1, CloseReasonSound DEF MayClose
  <2> QED BY <1>3, <2>1, BailSound DEF RxBad, CloseInv
<1>4. CASE RxZero
  BY <1>1, <1>4, CloseAndHandledSound DEF RxZero, CloseInv
<1>5. CASE Hangup
  BY <1>2, <1>5, CloseAndHandledSound DEF Hangup, CloseInv
<1>6. CASE TimedOut
  BY <1>2, <1>6, CloseFreeWsiSound, ClosingRests DEF TimedOut, CloseInv
<1>7. CASE ContextDestroy
  BY <1>1, <1>7, CloseFreeWsiSound, ClosingRests DEF ContextDestroy, CloseInv
<1>8. CASE \E f \in {"close", "ping", "pong", "data", "bad"} : RxFlushing(f)
  BY <1>1, <1>8, BailSound DEF RxFlushing, CloseInv
<1> QED BY <1>3, <1>4, <1>5, <1>6, <1>7, <1>8

(* The once-a-second check puts a timeout in the place of another.           *)
LEMMA PingCheckSound ==
  ASSUME CloseInv, PingCheck
  PROVE  CloseInv'
<1> DEFINE k == [wsi EXCEPT !.checkPing = TRUE, !.timeout = "SEND_PING"]
<1>1. Sound(k) /\ Resting(k)
  BY DEF CloseInv, Sound, IsWsi, NewWsi, Fields, Telling, Framing, Reasoning, Flushing,
         Timing, Resting
<1> QED BY <1>1, OnWritableSound DEF PingCheck, CloseInv

(* libuv reports the handle closed: WSI_DESTROY, once.                       *)
LEMMA UvClosedSound ==
  ASSUME CloseInv, UvClosed
  PROVE  CloseInv'
<1> DEFINE k == [wsi EXCEPT !.handle = "closed", !.destroys = Capped(@), !.buffered = "none"]
<1>1. wsi' = k /\ wsi.handle = "closing" /\ wsi.destroys = 0
  BY DEF UvClosed, CloseInv, Sound, Telling
<1>2. k.destroys = Capped(wsi.destroys) /\ Fields(k)
  BY DEF CloseInv, Sound, IsWsi, NewWsi, Fields
<1>3. k.destroys = 1
  BY <1>1, <1>2 DEF Capped
<1>4. /\ k.handle = "closed" /\ k.state = wsi.state /\ k.drops = wsi.drops
      /\ k.bound = wsi.bound /\ k.closeds = wsi.closeds /\ k.told = wsi.told
      /\ k.preClose = wsi.preClose /\ k.afterDrop = wsi.afterDrop
      /\ k.afterClosed = wsi.afterClosed
  BY DEF CloseInv, Sound, IsWsi, NewWsi, Fields
<1>5. Framing(k) /\ Reasoning(k) /\ Flushing(k) /\ Timing(k) /\ Resting(k)
  BY DEF CloseInv, Sound, IsWsi, NewWsi, Fields, Framing, Reasoning, Flushing, Timing, Resting
<1> HIDE DEF k
<1>6. Telling(k) /\ IsWsi(k)
  BY <1>1, <1>2, <1>3, <1>4 DEF CloseInv, Sound, IsWsi, Telling
<1> QED BY <1>1, <1>5, <1>6 DEF CloseInv, Sound

(***************************************************************************)
(* However the end of a connection comes about, in either build, the record *)
(* of what the user was told, of the frames on the wire, of the shared      *)
(* payload buffer and of the timeouts agrees with the state of the wsi.     *)
(***************************************************************************)
THEOREM CloseInvariant == Spec => []CloseInv
<1>1. Init => CloseInv
  BY DEF Init, NewWsi, CloseInv, Sound, IsWsi, Fields, States, Telling, Framing, Reasoning,
         Flushing, Timing, Resting
<1>2. CloseInv /\ [Next]_vars => CloseInv'
  <2> SUFFICES ASSUME CloseInv, [Next]_vars PROVE CloseInv'
    OBVIOUS
  <2>1. ASSUME NEW o \in Outcomes, SendBuffered(o) PROVE CloseInv'
    BY <2>1, SendBufferedSound
  <2>2. ASSUME NEW o \in Outcomes, SendClose(o) PROVE CloseInv'
    BY <2>2, SendCloseSound
  <2>3. ASSUME NEW o \in Outcomes, SendEcho(o) PROVE CloseInv'
    BY <2>3, SendEchoSound
  <2>4. ASSUME NEW o \in Outcomes, SendPong(o) PROVE CloseInv'
    BY <2>4, SendPongSound
  <2>5. ASSUME NEW o \in Outcomes, SendPing(o) PROVE CloseInv'
    BY <2>5, SendPingSound
  <2>6. ASSUME NEW o \in Outcomes, NEW ret \in Returns, NEW writes \in BOOLEAN,
               NEW timer \in Timers, Writeable(writes, o, ret, timer)
        PROVE  CloseInv'
    BY <2>6, WriteableSound
  <2>7. CASE UserAsks \/ UserTimer
    <3>1. CASE UserAsks
      BY <3>1, OnWritableSound DEF UserAsks, CloseInv
    <3>2. CASE UserTimer
      BY <3>2, RetimedSound DEF UserTimer, CloseInv, Timers
    <3> QED BY <2>7, <3>1, <3>2
  <2>8. ASSUME NEW ret \in Returns, RxClose(ret) PROVE CloseInv'
    BY <2>8, RxCloseSound
  <2>9. ASSUME NEW ret \in Returns, RxPong(ret) PROVE CloseInv'
    BY <2>9, RxPongSound
  <2>10. ASSUME NEW ret \in Returns, RxData(ret) PROVE CloseInv'
    BY <2>10, RxDataSound
  <2>11. CASE RxPing
    BY <2>11, RxPingSound
  <2>12. CASE \/ RxBad \/ RxZero \/ Hangup \/ TimedOut \/ ContextDestroy
              \/ \E f \in {"close", "ping", "pong", "data", "bad"} : RxFlushing(f)
    BY <2>12, ClosesSound
  <2>13. CASE PeerStops \/ UNCHANGED vars
    BY <2>13 DEF PeerStops, vars, CloseInv
  <2>14. CASE PingCheck
    BY <2>14, PingCheckSound
  <2>15. CASE UvClosed
    BY <2>15, UvClosedSound
  <2> QED BY <2>1, <2>2, <2>3, <2>4, <2>5, <2>6, <2>7, <2>8, <2>9, <2>10, <2>11, <2>12,
             <2>13, <2>14, <2>15 DEF Next
<1> QED BY <1>1, <1>2, PTL DEF Spec

(* One DROP_PROTOCOL, one CLOSED, one WSI_DESTROY, in this order.            *)
THEOREM ToldCorrect == Spec => []ToldOnceInOrder
<1>1. CloseInv => ToldOnceInOrder
  BY DEF CloseInv, Sound, Telling, ToldOnceInOrder
<1> QED BY <1>1, CloseInvariant, PTL

(* At most one close frame, and no frame after the echo.                     *)
THEOREM FrameCorrect == Spec => []OneCloseFrame
<1>1. CloseInv => OneCloseFrame
  BY DEF CloseInv, Sound, Framing, OneCloseFrame
<1> QED BY <1>1, CloseInvariant, PTL

(* Our close frame carries its reason unless a ping took the buffer.         *)
THEOREM ReasonCorrect == Spec => []ReasonReachesPeer
<1>1. CloseInv => ReasonReachesPeer
  BY DEF CloseInv, Sound, Reasoning, ReasonReachesPeer
<1> QED BY <1>1, CloseInvariant, PTL

(* Output that can still be sent is sent before the socket is shut.          *)
THEOREM FlushCorrect == Spec => []FlushedBeforeClose
<1>1. CloseInv => FlushedBeforeClose
  BY DEF CloseInv, Sound, Flushing, FlushedBeforeClose
<1> QED BY <1>1, CloseInvariant, PTL

(* A closing connection has a timeout, but for the three named exceptions.   *)
THEOREM TimeoutCorrect == Spec => []ClosingIsTimed
<1>1. CloseInv => ClosingIsTimed
  BY DEF CloseInv, Sound, Timing, ClosingIsTimed
<1> QED BY <1>1, CloseInvariant, PTL
=============================================================================
