----------------------------- MODULE HttpPacket -----------------------------
(***************************************************************************)
(* The two REST plugins, protocol-lws-packet (mounted at /c-api/packet) and *)
(* protocol-post-demo (at /formtest), with the part of the library's http/1 *)
(* server that drives them.  The plugins have the same callback: HTTP_BODY  *)
(* clears justHeader, BODY_COMPLETION asks for a WRITEABLE callback, and    *)
(* two of those write the headers and the body of a fixed response.         *)
(*                                                                          *)
(* Everything runs on the service thread, so one read or one write event of *)
(* one connection is one action.  What interleaves is the arrival of input, *)
(* the room in the socket, the timeouts, and EVENT_WAIT_CANCELLED, which    *)
(* the library broadcasts each time it has adopted a new connection.        *)
(*                                                                          *)
(* A request travels as one header block and `len` pieces of body; a read   *)
(* returns any number of these.  What a read returns and the server does    *)
(* not use is stashed in the connection's buflist, which is offered before  *)
(* anything read later.  The headers of a POST with content must not come   *)
(* out of that stash: lws_http_action() then never returns, or the process  *)
(* dies (ReadStashedPost).                                                  *)
(***************************************************************************)
EXTENDS Naturals, Sequences, FiniteSets

CONSTANTS
  Conns,        \* connection slots
  Requests,     \* what a client may ask: [post, len, keep]
  Pipelined,    \* requests a client sends before the first one is answered
  MaxRequests,  \* bound: MaxRequests[c], requests on connection c
  MaxAccepts    \* bound: connections adopted in one behaviour

ASSUME RequestsOK ==
  /\ Requests \subseteq [post : BOOLEAN, len : Nat, keep : BOOLEAN]
  /\ \A q \in Requests : ~q.post => q.len = 0

VARIABLES
  wsi,      \* wsi[c]: what the library and the plugin keep for connection c
  in,       \* in[c]: pieces [req, part] of requests sent and not yet consumed:
            \* the header block (part 0) or the part-th piece of body
  stashed,  \* stashed[c]: how many of in[c], from the front, are in the buflist
  pipe,     \* a byte waits in the event pipe
  fate,     \* of the service thread: running, spinning or crashed
  \* History, read by guards of the client and by properties.
  asked,    \* asked[c]: the requests sent on c, oldest first
  out,      \* out[c]: what was written to c, oldest first
  poked,    \* poked[c]: requests during which WAIT_CANCELLED asked for a write
  accepts   \* connections adopted so far

vars == <<wsi, in, stashed, pipe, fate, asked, out, poked, accepts>>

(* A new wsi.                                                                *)
Fresh(state) ==
  [state |-> state,         \* closed, HEADERS, ESTABLISHED, DOING_TRANSACTION, BODY
                            \* or DEFERRING_ACTION
   parsed |-> FALSE,        \* hdr_parsing_completed
   ah |-> FALSE,            \* the header table holds a complete set of headers
   remain |-> 0,            \* http.rx_content_remain
   bound |-> FALSE,         \* the connection is bound to the plugin
   justHeader |-> 0,        \* pss->justHeader
   pollout |-> FALSE,       \* POLLOUT is requested
   buffered |-> FALSE,      \* lws_has_buffered_out()
   deferred |-> FALSE,      \* http.deferred_transaction_completed
   unusable |-> FALSE,      \* socket_is_permanently_unusable
   timer |-> "none",        \* or HTTP_CONTENT, KEEPALIVE_IDLE, HOLDING_AH
   req |-> 0]               \* history: the request being served

Init ==
  /\ wsi = [c \in Conns |-> Fresh("closed")]
  /\ in = [c \in Conns |-> <<>>]
  /\ stashed = [c \in Conns |-> 0]
  /\ pipe = FALSE
  /\ fate = "running"
  /\ asked = [c \in Conns |-> <<>>]
  /\ out = [c \in Conns |-> <<>>]
  /\ poked = [c \in Conns |-> {}]
  /\ accepts = 0

Open(c) == wsi[c].state # "closed"
Request(c) == asked[c][wsi[c].req]

(* The one service thread takes this step, and goes on to the next.          *)
Serving == fate = "running" /\ UNCHANGED fate

(* The request being served has arrived completely.                          *)
Arrived(c) == wsi[c].state = "BODY" => wsi[c].remain = 0
-----------------------------------------------------------------------------
(* lws_adopt_descriptor_vhost(): a connection is accepted, waits for its     *)
(* headers, and lws_cancel_service_pt() writes to the event pipe.            *)
Adopt(c) ==
  /\ Serving
  /\ ~Open(c)
  /\ accepts < MaxAccepts
  /\ accepts' = accepts + 1
  /\ wsi' = [wsi EXCEPT ![c] = [Fresh("HEADERS") EXCEPT !.timer = "HOLDING_AH"]]
  /\ in' = [in EXCEPT ![c] = <<>>]
  /\ stashed' = [stashed EXCEPT ![c] = 0]
  /\ asked' = [asked EXCEPT ![c] = <<>>]
  /\ out' = [out EXCEPT ![c] = <<>>]
  /\ poked' = [poked EXCEPT ![c] = {}]
  /\ pipe' = TRUE

Responses(c) == Cardinality({i \in 1..Len(out[c]) : out[c][i].part = "body"})

(* The client sends a request (external).                                    *)
Ask(c, q) ==
  LET r == Len(asked[c]) + 1 IN
  /\ Serving
  /\ Open(c)
  /\ r <= MaxRequests[c]
  /\ Len(asked[c]) < Responses(c) + Pipelined
  /\ asked' = [asked EXCEPT ![c] = Append(@, q)]
  /\ in' = [in EXCEPT ![c] = @ \o [i \in 1..(q.len + 1) |-> [req |-> r, part |-> i - 1]]]
  /\ UNCHANGED <<wsi, stashed, pipe, out, poked, accepts>>

(* The connection is closed and its wsi freed, unread input and all.         *)
Free(c) ==
  /\ wsi' = [wsi EXCEPT ![c] = Fresh("closed")]
  /\ in' = [in EXCEPT ![c] = <<>>]
  /\ stashed' = [stashed EXCEPT ![c] = 0]
  /\ asked' = [asked EXCEPT ![c] = <<>>]
  /\ out' = [out EXCEPT ![c] = <<>>]
  /\ poked' = [poked EXCEPT ![c] = {}]

(* lws_close_free_wsi() after a hangup of the peer or an error of the socket. *)
Close(c) ==
  /\ Serving
  /\ Open(c)
  /\ Free(c)
  /\ UNCHANGED <<pipe, accepts>>

(* Mutant: the content timeout is started over when it passes. *)
TimeoutRearmed(c) ==
  /\ Serving
  /\ Open(c)
  /\ wsi[c].timer \notin {"none", "HTTP_CONTENT"}
  /\ Free(c)
  /\ UNCHANGED <<pipe, accepts>>

(* __lws_service_timeout_check(): the pending timeout passed.                *)
Timeout(c) ==
  /\ Serving
  /\ Open(c)
  /\ wsi[c].timer # "none"
  /\ Free(c)
  /\ UNCHANGED <<pipe, accepts>>

(***************************************************************************)
(* The event pipe is readable: every protocol gets EVENT_WAIT_CANCELLED and *)
(* the plugins ask for a WRITEABLE callback on every connection bound to    *)
(* them, whatever it is in the middle of.                                   *)
(***************************************************************************)
CallbackOnWritable(w) == [w EXCEPT !.pollout = @ \/ ~w.unusable]

EventWaitCancelled ==
  /\ Serving
  /\ pipe
  /\ pipe' = FALSE
  /\ wsi' = [c \in Conns |->
               IF wsi[c].bound THEN CallbackOnWritable(wsi[c]) ELSE wsi[c]]
  /\ poked' = [c \in Conns |->
                 IF wsi[c].bound THEN poked[c] \cup {wsi[c].req} ELSE poked[c]]
  /\ UNCHANGED <<in, stashed, asked, out, accepts>>
-----------------------------------------------------------------------------
(* The plugin's HTTP_BODY and HTTP_BODY_COMPLETION callbacks.                *)
HttpBody(w) == [w EXCEPT !.justHeader = 0]

(* Mutant: the end of the body is not noticed. *)
BodyCompletionIdle(w) == w

BodyCompletion(w) == CallbackOnWritable(w)

(* Mutant: the per-session data is kept. *)
BindProtocolKeeps(w, on) == [w EXCEPT !.bound = on]

(* lws_bind_protocol(): the plugin's per-session data is freed and allocated *)
(* anew, zeroed.                                                             *)
BindProtocol(w, on) == [w EXCEPT !.bound = on, !.justHeader = 0]

(***************************************************************************)
(* lws_http_action(): the content timeout is started and the plugin bound.  *)
(* The plugin's HTTP callback does nothing.  A POST without content is      *)
(* completed on the spot; one with content goes on to read its body; a GET  *)
(* takes the path of a mount that serves no file, which binds the plugin    *)
(* again and leaves the connection in DOING_TRANSACTION.                    *)
(***************************************************************************)
HttpAction(w, q) ==
  LET b == [BindProtocol(w, TRUE) EXCEPT !.timer = "HTTP_CONTENT"] IN
  IF ~q.post THEN [b EXCEPT !.state = "DOING_TRANSACTION"]
  ELSE IF q.len = 0 THEN BodyCompletion(HttpBody(b))
  ELSE [b EXCEPT !.state = "BODY", !.remain = q.len]

(* lws_h1_server_socket_service() reads in these states only: in             *)
(* DEFERRING_ACTION and DOING_TRANSACTION it leaves the input where it is.   *)
Reading(c, states) == wsi[c].state \in states /\ in[c] # <<>>

(* lws_buflist_aware_read(): the first segment of the stash if there is one  *)
(* (what was read just now is appended to the stash), else what was read.    *)
Offered(c) == 1..(IF stashed[c] > 0 THEN stashed[c] ELSE Len(in[c]))

(* lws_buflist_aware_consume(): `used` of the n pieces offered are gone; the *)
(* rest is stashed, or stays so.                                             *)
Consume(c, n, used) ==
  LET kept == IF stashed[c] > 0 THEN (stashed[c] - used)..(Len(in[c]) - used)
              ELSE {n - used}
  IN /\ in' = [in EXCEPT ![c] = SubSeq(@, used + 1, Len(@))]
     /\ \E k \in kept : stashed' = [stashed EXCEPT ![c] = k]

Least(m, n) == IF m < n THEN m ELSE n

Received(w, n) == [w EXCEPT !.remain = @ - n]

(* lws_read_h1(), http_postbody: n pieces of body.                           *)
PostBody(w, n) ==
  LET b == HttpBody(Received(w, n)) IN
  IF n = 0 THEN w
  ELSE IF b.remain > 0 THEN [b EXCEPT !.timer = "HTTP_CONTENT"]
  ELSE BodyCompletion([b EXCEPT !.timer = "none"])

(* The next header block can be parsed.                                      *)
AtHeaders(c) ==
  /\ Reading(c, {"HEADERS", "ESTABLISHED"})
  /\ ~wsi[c].ah
  /\ Head(in[c]).part = 0

(* The wsi when the headers of request r are complete.                       *)
Parsed(w, r) ==
  [w EXCEPT !.state = "ESTABLISHED", !.parsed = TRUE, !.ah = TRUE, !.timer = "none", !.req = r]

(* lws_read_h1(), the header block of the next request, and the body that    *)
(* was read with it.                                                         *)
ReadHeaders(c) ==
  LET r == Head(in[c]).req
      q == asked[c][r]
  IN /\ Serving
     /\ AtHeaders(c)
     /\ stashed[c] = 0 \/ q.len = 0
     /\ \E n \in Offered(c) :
          LET body == Least(q.len, n - 1) IN
          /\ Consume(c, n, 1 + body)
          /\ wsi' = [wsi EXCEPT ![c] = PostBody(HttpAction(Parsed(@, r), q), body)]
     /\ UNCHANGED <<pipe, asked, out, poked, accepts>>

(***************************************************************************)
(* lws_read_h1(), the header block of a POST with content comes out of the  *)
(* stash.  lws_http_action() feeds the stash to lws_read_h1() as body until *)
(* it is empty, and the segment with the headers is still in it.  When the  *)
(* stash holds more bytes than the content has (the body is all here, or    *)
(* the headers make up for what is missing), the last call uses none and    *)
(* the loop never ends.  Otherwise the segment is freed under the caller,   *)
(* whose lws_buflist_use_segment() finds no head: an assertion, or NULL.    *)
(***************************************************************************)
ReadStashedPost(c) ==
  LET q == asked[c][Head(in[c]).req] IN
  /\ fate = "running"
  /\ AtHeaders(c)
  /\ stashed[c] > 0
  /\ q.len > 0
  /\ fate' \in IF stashed[c] > q.len THEN {"spinning"} ELSE {"spinning", "crashed"}
  /\ UNCHANGED <<wsi, in, stashed, pipe, asked, out, poked, accepts>>

(* lws_read_h1(), a piece of body where a header block is expected: the      *)
(* parser finds no method it knows, a 403 is written and the connection      *)
(* closed.                                                                   *)
ReadGarbage(c) ==
  /\ Serving
  /\ Reading(c, {"HEADERS", "ESTABLISHED"})
  /\ ~wsi[c].ah
  /\ Head(in[c]).part # 0
  /\ Free(c)
  /\ UNCHANGED <<pipe, accepts>>

(* lws_read_h1(), input in ESTABLISHED while the header table still holds    *)
(* the empty POST being answered: the headers no longer count as parsed, the *)
(* parser drops all it is given, and lws_http_action() runs again on the old *)
(* ones.                                                                     *)
ReadAgain(c) ==
  /\ Serving
  /\ Reading(c, {"ESTABLISHED"})
  /\ wsi[c].ah
  /\ \E n \in Offered(c) : Consume(c, n, n)
  /\ wsi' = [wsi EXCEPT ![c] = HttpAction([@ EXCEPT !.parsed = FALSE, !.timer = "none"], Request(c))]
  /\ UNCHANGED <<pipe, asked, out, poked, accepts>>

(* lws_read_h1(), body.                                                      *)
ReadBody(c) ==
  /\ Serving
  /\ Reading(c, {"BODY"})
  /\ wsi[c].remain > 0
  /\ \E n \in Offered(c) :
       LET body == Least(wsi[c].remain, n) IN
       /\ Consume(c, n, body)
       /\ wsi' = [wsi EXCEPT ![c] = PostBody(@, body)]
  /\ UNCHANGED <<pipe, asked, out, poked, accepts>>

(* lws_read_h1(), the next request is here before this one was answered: the *)
(* completion callback is repeated and the input stashed.                    *)
ReadEarly(c) ==
  /\ Serving
  /\ Reading(c, {"BODY"})
  /\ wsi[c].remain = 0
  /\ \E n \in Offered(c) : Consume(c, n, 0)
  /\ wsi' = [wsi EXCEPT ![c] = BodyCompletion([@ EXCEPT !.timer = "none"])]
  /\ UNCHANGED <<pipe, asked, out, poked, accepts>>
-----------------------------------------------------------------------------
(***************************************************************************)
(* lws_http_transaction_completed().  With something still buffered it is   *)
(* put off until that is gone.  Otherwise the connection is closed, or set  *)
(* up for the next request: unbound, with no headers, and not reading until *)
(* it is writeable.  With the next request already in the stash it keeps    *)
(* the header table, for a limited time.                                    *)
(***************************************************************************)
TransactionCompleted(w, q, stash) ==
  IF w.buffered THEN CallbackOnWritable([w EXCEPT !.deferred = TRUE])
  ELSE IF ~w.parsed THEN w
  ELSE IF ~q.keep THEN Fresh("closed")
  ELSE CallbackOnWritable(
    [BindProtocol(w, FALSE) EXCEPT
       !.state = "DEFERRING_ACTION", !.parsed = FALSE, !.ah = FALSE,
       !.timer = IF stash > 0 THEN "HOLDING_AH" ELSE "KEEPALIVE_IDLE"])

(* The socket can take more: POLLOUT is one shot.                            *)
Writeable(c) == Serving /\ Open(c) /\ wsi[c].pollout
Shot(c) == [wsi[c] EXCEPT !.pollout = FALSE]

Log(c, part) ==
  out' = [out EXCEPT ![c] =
            Append(@, [part |-> part, req |-> wsi[c].req, arrived |-> Arrived(c)])]

(* POLLOUT where there is nobody to tell: the connection waits for headers   *)
(* (again), or reads from now on.                                            *)
WriteableIdle(c) ==
  /\ Writeable(c)
  /\ ~wsi[c].parsed
  /\ wsi' = [wsi EXCEPT ![c] =
       IF @.state = "DEFERRING_ACTION" THEN [Shot(c) EXCEPT !.state = "ESTABLISHED"]
       ELSE Shot(c)]
  /\ UNCHANGED <<in, stashed, pipe, asked, out, poked, accepts>>

(* lws_issue_raw() on what is buffered: all of it goes, or only part.        *)
WriteableFlush(c) ==
  /\ Writeable(c)
  /\ wsi[c].parsed
  /\ wsi[c].buffered
  /\ wsi' = [wsi EXCEPT ![c] =
       IF @.deferred
       THEN TransactionCompleted([Shot(c) EXCEPT !.buffered = FALSE, !.deferred = FALSE],
                                 Request(c), stashed[c])
       ELSE CallbackOnWritable([Shot(c) EXCEPT !.buffered = FALSE])]
  /\ UNCHANGED <<in, stashed, pipe, asked, out, poked, accepts>>

WriteableFlushPart(c) ==
  /\ Writeable(c)
  /\ wsi[c].parsed
  /\ wsi[c].buffered
  /\ wsi' = [wsi EXCEPT ![c] = CallbackOnWritable(Shot(c))]
  /\ UNCHANGED <<in, stashed, pipe, asked, out, poked, accepts>>

(* lws_write(): everything is sent; the rest is buffered and POLLOUT         *)
(* requested; or the socket fails.                                           *)
Write(w) ==
  {w, CallbackOnWritable([w EXCEPT !.buffered = TRUE]), [w EXCEPT !.unusable = TRUE]}

(* HTTP_WRITEABLE, the headers.  CreateHeaders() reports no failure.         *)
WriteableHeaders(c) ==
  /\ Writeable(c)
  /\ wsi[c].parsed
  /\ ~wsi[c].buffered
  /\ wsi[c].justHeader = 0
  /\ \E w \in Write(Shot(c)) :
       wsi' = [wsi EXCEPT ![c] = CallbackOnWritable([w EXCEPT !.justHeader = 1])]
  /\ Log(c, "headers")
  /\ UNCHANGED <<in, stashed, pipe, asked, poked, accepts>>

(* HTTP_WRITEABLE, the body.  When the write fails the callback returns 1,   *)
(* which the library takes for success.                                      *)
WriteableBody(c) ==
  /\ Writeable(c)
  /\ wsi[c].parsed
  /\ ~wsi[c].buffered
  /\ wsi[c].justHeader = 1
  /\ \E w \in Write(Shot(c)) :
       wsi' = [wsi EXCEPT ![c] =
                 IF w.unusable THEN w ELSE TransactionCompleted(w, Request(c), stashed[c])]
  /\ Log(c, "body")
  /\ UNCHANGED <<in, stashed, pipe, asked, poked, accepts>>

Read(c) ==
  \/ ReadHeaders(c)
  \/ ReadStashedPost(c)
  \/ ReadGarbage(c)
  \/ ReadAgain(c)
  \/ ReadBody(c)
  \/ ReadEarly(c)

Pollout(c) ==
  \/ WriteableIdle(c)
  \/ WriteableFlush(c)
  \/ WriteableHeaders(c)
  \/ WriteableBody(c)

Next ==
  \/ EventWaitCancelled
  \/ \E c \in Conns :
       \/ Adopt(c)
       \/ \E q \in Requests : Ask(c, q)
       \/ Close(c)
       \/ Timeout(c)
       \/ Read(c)
       \/ Pollout(c)
       \/ WriteableFlushPart(c)

Spec == Init /\ [][Next]_vars

(***************************************************************************)
(* The service loop: what is readable is read, what is writeable is told so *)
(* (favoured_pollin keeps a connection with both from being only read) and  *)
(* a timeout that has passed is noticed.  A socket that takes part of what  *)
(* is buffered for ever is left to its peer.                                *)
(***************************************************************************)
FairSpec ==
  /\ Spec
  /\ WF_vars(EventWaitCancelled)
  /\ \A c \in Conns : WF_vars(Read(c)) /\ WF_vars(Pollout(c)) /\ WF_vars(Timeout(c))
-----------------------------------------------------------------------------
Headers(c, r) == {i \in 1..Len(out[c]) : out[c][i].part = "headers" /\ out[c][i].req = r}
Bodies(c, r) == {i \in 1..Len(out[c]) : out[c][i].part = "body" /\ out[c][i].req = r}

(* A request gets one body at most, and one that no WAIT_CANCELLED fell into *)
(* gets its headers once, and nothing before all of it arrived.              *)
OneResponse ==
  \A c \in Conns : \A r \in 1..Len(asked[c]) :
    /\ Cardinality(Bodies(c, r)) <= 1
    /\ r \notin poked[c] =>
         /\ Cardinality(Headers(c, r)) <= 1
         /\ \A i \in Headers(c, r) \cup Bodies(c, r) : out[c][i].arrived

(* Every body on the wire comes directly after headers of the same request,  *)
(* and responses come in the order of the requests.                          *)
BodyAfterHeaders ==
  \A c \in Conns : \A i \in 1..Len(out[c]) :
    /\ out[c][i].part = "body" =>
         i > 1 /\ out[c][i - 1].part = "headers" /\ out[c][i - 1].req = out[c][i].req
    /\ \A j \in 1..(i - 1) : out[c][j].req <= out[c][i].req

(* What is buffered is the response of a transaction that is not over.       *)
BufferedIsCurrent ==
  \A c \in Conns :
    /\ wsi[c].buffered => wsi[c].bound /\ wsi[c].state # "DEFERRING_ACTION"
    /\ wsi[c].deferred => wsi[c].buffered

(***************************************************************************)
(* Responses are whole: one to a request, headers first and in the order of *)
(* the requests, and nothing buffered is carried into the next one, however *)
(* bodies and writes are cut up, whatever is pipelined behind (the repeated *)
(* BODY_COMPLETION) and whenever callbacks are asked for: justHeader and    *)
(* result are fresh for each request of a keep-alive connection, and        *)
(* lws_http_transaction_completed() waits for what is buffered.  What       *)
(* WAIT_CANCELLED does to a request it falls into is the exception: such a  *)
(* one may be answered before it has arrived and, when a piece of body      *)
(* clears justHeader in between, may get its headers again.                 *)
(***************************************************************************)
ResponsesAreWhole == OneResponse /\ BodyAfterHeaders /\ BufferedIsCurrent

(***************************************************************************)
(* As long as the service thread goes round, a connection with a request on *)
(* it is never forgotten: a timeout runs, or a WRITEABLE callback is on its *)
(* way, or the socket failed (and then the peer's hangup is what ends it).  *)
(* A POST whose body is complete does not depend on the timeout for its     *)
(* answer.  ReadStashedPost is the exception, for every connection at once: *)
(* nothing is served any more.                                              *)
(***************************************************************************)
Unanswered(c) ==
  wsi[c].state = "BODY" /\ Arrived(c) /\ Bodies(c, wsi[c].req) = {}

NeverForgotten ==
  fate = "running" => \A c \in Conns :
    /\ Open(c) => wsi[c].timer # "none" \/ wsi[c].pollout \/ wsi[c].unusable
    /\ Unanswered(c) => wsi[c].pollout \/ wsi[c].unusable

(***************************************************************************)
(* No request holds its connection for ever: it is answered, or a timeout   *)
(* ends the connection (a GET, which the plugin's HTTP callback ignores; a  *)
(* request whose body never comes; one that ReadAgain has muddled), unless  *)
(* a pipelined POST has stopped the service thread (ReadStashedPost).       *)
(***************************************************************************)
RequestEnds ==
  \A c \in Conns : \A r \in 1..MaxRequests[c] :
    (Open(c) /\ wsi[c].bound /\ wsi[c].req = r)
      ~> (~Open(c) \/ ~wsi[c].bound \/ wsi[c].req # r \/ wsi[c].unusable \/ fate # "running")
=============================================================================
