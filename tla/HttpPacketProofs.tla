--------------------------- MODULE HttpPacketProofs ---------------------------
(***************************************************************************)
(* What HttpPacket promises, for any connections, requests, lengths of      *)
(* bodies and depth of pipelining: responses are whole and in order         *)
(* (ResponsesAreWhole) and no connection is forgotten (NeverForgotten).     *)
(*                                                                          *)
(* The first is about what was written; its induction needs what the wsi    *)
(* says about it: justHeader is 1 only when the last thing on the wire are  *)
(* the headers of this request, and 0, in a request nobody poked, only when *)
(* nothing of it is.  That in turn needs to know which callbacks can be on  *)
(* their way in which state (Called), and that headers still to be read are *)
(* those of later requests (Waits).                                         *)
(***************************************************************************)
EXTENDS HttpPacket, FiniteSetTheorems, TLAPS

IsWsi(w) ==
  /\ DOMAIN w = DOMAIN Fresh("closed")
  /\ w.state \in {"closed", "HEADERS", "ESTABLISHED", "DOING_TRANSACTION", "BODY",
                 "DEFERRING_ACTION"}
  /\ w.remain \in Nat
  /\ w.req \in Nat
  /\ w.justHeader \in {0, 1}

Pieces == [req : Nat, part : Nat]
Entries == [part : {"headers", "body"}, req : Nat, arrived : BOOLEAN]

(* The phases of a transaction.                                              *)
Phases(w) ==
  /\ w.bound => w.state \in {"ESTABLISHED", "DOING_TRANSACTION", "BODY"}
  /\ w.bound <=> w.ah
  /\ w.parsed => w.bound
  /\ w.state = "BODY" => w.parsed
  /\ w.buffered => w.bound
  /\ w.deferred => w.buffered
  /\ w.justHeader = 1 => w.parsed

(* What calls the plugin or ends the wait.                                   *)
Called(w) ==
  /\ w.unusable => ~w.pollout
  /\ w.pollout => w.bound \/ w.state = "DEFERRING_ACTION"
  /\ w.justHeader = 1 => w.pollout \/ w.unusable
  /\ w.state = "BODY" /\ w.remain = 0 => w.pollout \/ w.unusable
  /\ w.state # "closed" => w.timer # "none" \/ (w.state = "BODY" /\ w.remain = 0)

(* The request being served is one of those asked, and one that is answered  *)
(* outside BODY has no body.                                                 *)
Serves(w, a) ==
  /\ w.req <= Len(a)
  /\ w.bound => w.req >= 1
  /\ w.bound /\ w.state # "BODY" => a[w.req].len = 0

(* The header blocks still to be read belong to later requests, in order.    *)
Waits(w, i, a) ==
  \A k \in 1..Len(i) :
    /\ i[k].req \in 1..Len(a)
    /\ i[k].part = 0 => w.req < i[k].req /\ \A j \in 1..(k - 1) : i[j].req < i[k].req

(* What was written, by itself: the parts of ResponsesAreWhole.              *)
Ordered(o) ==
  \A k \in 1..Len(o) :
    /\ o[k].part = "body" =>
         k > 1 /\ o[k - 1].part = "headers" /\ o[k - 1].req = o[k].req
    /\ \A j \in 1..(k - 1) : o[j].req <= o[k].req

NoBody(o, r) == \A k \in 1..Len(o) : o[k].req = r => o[k].part # "body"

OneBody(o) ==
  \A k, j \in 1..Len(o) :
    o[k].part = "body" /\ o[j].part = "body" /\ o[j].req = o[k].req => j = k

Once(o, pk) ==
  /\ OneBody(o)
  /\ \A k \in 1..Len(o) : o[k].req \notin pk =>
       /\ o[k].arrived
       /\ \A j \in 1..Len(o) : o[j].req = o[k].req /\ o[j].part = o[k].part => j = k

(* What was written, and what the wsi says about it.                         *)
UpTo(o, r) == \A k \in 1..Len(o) : o[k].req <= r

HeadersAreLast(o, r) == Len(o) > 0 /\ o[Len(o)].part = "headers" /\ o[Len(o)].req = r

BodyIsDue(w) == w.justHeader = 1 /\ ~w.deferred /\ ~w.unusable

Answering(w, o, pk) ==
  /\ w.state # "closed" => UpTo(o, w.req)
  /\ BodyIsDue(w) => HeadersAreLast(o, w.req)
  /\ w.parsed /\ w.req \notin pk =>
       /\ w.state = "BODY" /\ w.remain > 0 => ~w.pollout /\ w.justHeader = 0
       /\ w.justHeader = 0 => \A k \in 1..Len(o) : o[k].req # w.req
  /\ w.parsed /\ ~w.deferred /\ ~w.unusable => NoBody(o, w.req)

History(i, a, o) == i \in Seq(Pieces) /\ a \in Seq(Requests) /\ o \in Seq(Entries)

Connection(w, i, a, o, pk) ==
  /\ IsWsi(w) /\ Phases(w) /\ Called(w)
  /\ History(i, a, o)
  /\ Serves(w, a) /\ Waits(w, i, a)
  /\ Ordered(o) /\ Once(o, pk) /\ Answering(w, o, pk)

Domains ==
  /\ DOMAIN wsi = Conns /\ DOMAIN in = Conns /\ DOMAIN stashed = Conns
  /\ DOMAIN asked = Conns /\ DOMAIN out = Conns /\ DOMAIN poked = Conns

(* The stash is the front part of the input.                                 *)
Stash(n, i) == n \in 0..Len(i)

HttpInv ==
  /\ Domains
  /\ \A c \in Conns :
       Connection(wsi[c], in[c], asked[c], out[c], poked[c]) /\ Stash(stashed[c], in[c])
-----------------------------------------------------------------------------
(* What lws_callback_on_writable() does to a wsi.                            *)
LEMMA OnWritableFields ==
  ASSUME NEW w, IsWsi(w), NEW n, n = CallbackOnWritable(w)
  PROVE  /\ IsWsi(n)
         /\ n.state = w.state /\ n.parsed = w.parsed /\ n.ah = w.ah /\ n.remain = w.remain
         /\ n.bound = w.bound /\ n.justHeader = w.justHeader /\ n.buffered = w.buffered
         /\ n.deferred = w.deferred /\ n.unusable = w.unusable /\ n.timer = w.timer
         /\ n.req = w.req
         /\ n.pollout <=> w.pollout \/ ~w.unusable
BY DEF IsWsi, CallbackOnWritable, Fresh

(* A request for a callback is harmless in a transaction that is all here.   *)
LEMMA OnWritableKeeps ==
  ASSUME NEW w, NEW i, NEW a, NEW o, NEW pk, Connection(w, i, a, o, pk),
         w.bound \/ w.state = "DEFERRING_ACTION",
         w.state = "BODY" /\ w.remain > 0 => w.req \in pk
  PROVE  Connection(CallbackOnWritable(w), i, a, o, pk)
<1> DEFINE n == CallbackOnWritable(w)
<1>1. IsWsi(w)
  BY DEF Connection
<1> HIDE DEF n
<1>2. /\ IsWsi(n)
      /\ n.state = w.state /\ n.parsed = w.parsed /\ n.ah = w.ah /\ n.remain = w.remain
      /\ n.bound = w.bound /\ n.justHeader = w.justHeader /\ n.buffered = w.buffered
      /\ n.deferred = w.deferred /\ n.unusable = w.unusable /\ n.timer = w.timer
      /\ n.req = w.req
      /\ n.pollout <=> w.pollout \/ ~w.unusable
  BY <1>1, OnWritableFields DEF n
<1>3. Phases(n) /\ Serves(n, a) /\ Waits(n, i, a)
  BY <1>2 DEF Connection, Phases, Serves, Waits
<1>4. Called(n)
  BY <1>2 DEF Connection, Called
<1>5. Answering(n, o, pk)
  BY <1>2 DEF Connection, Answering, BodyIsDue
<1> QED BY <1>2, <1>3, <1>4, <1>5 DEF Connection, n

(***************************************************************************)
(* EVENT_WAIT_CANCELLED asks for a callback whatever the transaction is in  *)
(* the middle of; from then on the request counts as poked.                 *)
(***************************************************************************)
LEMMA PokeKeeps ==
  ASSUME NEW w, NEW i, NEW a, NEW o, NEW pk, Connection(w, i, a, o, pk), w.bound
  PROVE  Connection(CallbackOnWritable(w), i, a, o, pk \cup {w.req})
<1>1. Connection(w, i, a, o, pk \cup {w.req})
  BY DEF Connection, Once, Answering
<1> QED BY <1>1, OnWritableKeeps

(* A new connection, or the end of one: nothing is on it.                    *)
LEMMA EmptyConnection ==
  ASSUME NEW w, w \in {Fresh("closed"), [Fresh("HEADERS") EXCEPT !.timer = "HOLDING_AH"]}
  PROVE  Connection(w, <<>>, <<>>, <<>>, {})
<1>1. /\ IsWsi(w) /\ w.req = 0 /\ w.state \in {"closed", "HEADERS"}
      /\ w.state # "closed" => w.timer # "none"
      /\ ~w.bound /\ ~w.ah /\ ~w.parsed /\ ~w.buffered /\ ~w.deferred /\ ~w.pollout
      /\ ~w.unusable /\ w.justHeader = 0
  BY DEF Fresh, IsWsi
<1>2. Phases(w) /\ Called(w)
  BY <1>1 DEF Phases, Called
<1>3. Len(<<>>) = 0 /\ <<>> \in Seq(Pieces) /\ <<>> \in Seq(Requests) /\ <<>> \in Seq(Entries)
  OBVIOUS
<1>4. Serves(w, <<>>)
  BY <1>1, <1>3 DEF Serves
<1>5. Waits(w, <<>>, <<>>) /\ Ordered(<<>>) /\ Once(<<>>, {})
  BY <1>3 DEF Waits, Ordered, Once, OneBody
<1>6. Answering(w, <<>>, {})
  BY <1>1, <1>3 DEF Answering, UpTo, BodyIsDue
<1> QED BY <1>1, <1>2, <1>3, <1>4, <1>5, <1>6 DEF Connection, History

(* The client sends a request: its pieces go behind everything else.         *)
LEMMA AskKeeps ==
  ASSUME NEW w, NEW i, NEW a, NEW o, NEW pk, Connection(w, i, a, o, pk),
         NEW q \in Requests
  PROVE  Connection(w,
                    i \o [k \in 1..(q.len + 1) |-> [req |-> Len(a) + 1, part |-> k - 1]],
                    Append(a, q), o, pk)
<1> DEFINE s == [k \in 1..(q.len + 1) |-> [req |-> Len(a) + 1, part |-> k - 1]]
           b == Append(a, q)
           m == i \o s
<1>1. q.len \in Nat
  BY RequestsOK
<1>2. i \in Seq(Pieces) /\ a \in Seq(Requests) /\ Len(a) \in Nat /\ Len(i) \in Nat
  BY DEF Connection, History
<1>3. s \in Seq(Pieces) /\ Len(s) = q.len + 1
  <2>1. q.len + 1 \in Nat /\ Len(a) + 1 \in Nat
    BY <1>1, <1>2
  <2>2. ASSUME NEW k \in 1..(q.len + 1) PROVE k - 1 \in Nat
    BY <1>1
  <2>3. s \in [1..(q.len + 1) -> Pieces]
    BY <2>1, <2>2 DEF Pieces
  <2> HIDE DEF s
  <2> QED BY <2>1, <2>3
<1>4. \A k \in 1..Len(s) : s[k].req = Len(a) + 1 /\ s[k].part = k - 1
  BY <1>1, <1>3
<1> HIDE DEF s
<1>5. b \in Seq(Requests) /\ Len(b) = Len(a) + 1 /\ \A k \in 1..Len(a) : b[k] = a[k]
  BY <1>2
<1>6. /\ m \in Seq(Pieces) /\ Len(m) = Len(i) + Len(s)
      /\ \A k \in 1..Len(m) : m[k] = IF k <= Len(i) THEN i[k] ELSE s[k - Len(i)]
  BY <1>2, <1>3
<1> HIDE DEF m, b
<1>7. Serves(w, b)
  BY <1>2, <1>5 DEF Connection, Serves, IsWsi
<1>8. Waits(w, m, b)
  <2> SUFFICES ASSUME NEW k \in 1..Len(m)
               PROVE  /\ m[k].req \in 1..Len(b)
                      /\ m[k].part = 0 => /\ w.req < m[k].req
                                          /\ \A j \in 1..(k - 1) : m[j].req < m[k].req
    BY DEF Waits
  <2>1. w.req \in Nat /\ w.req <= Len(a)
    BY DEF Connection, IsWsi, Serves
  <2>2. \A j \in 1..Len(i) : i[j].req \in 1..Len(a)
    BY DEF Connection, Waits
  <2>3. CASE k <= Len(i)
    <3>1. m[k] = i[k] /\ k \in 1..Len(i) /\ \A j \in 1..(k - 1) : m[j] = i[j]
      BY <1>2, <1>6, <2>3
    <3>2. i[k].part = 0 => w.req < i[k].req /\ \A j \in 1..(k - 1) : i[j].req < i[k].req
      BY <3>1 DEF Connection, Waits
    <3> QED BY <1>2, <1>5, <2>2, <3>1, <3>2
  <2>4. CASE k > Len(i)
    <3>1. k - Len(i) \in 1..Len(s) /\ m[k] = s[k - Len(i)]
      BY <1>2, <1>3, <1>1, <1>6, <2>4
    <3>2. m[k].req = Len(a) + 1 /\ m[k].part = k - Len(i) - 1
      BY <1>4, <3>1
    <3>3. ASSUME m[k].part = 0, NEW j \in 1..(k - 1) PROVE m[j].req < m[k].req
      <4>1. k = Len(i) + 1
        BY <1>2, <3>2, <3>3
      <4>2. j \in 1..Len(i) /\ m[j] = i[j]
        BY <1>2, <1>6, <3>3, <4>1
      <4> QED BY <1>2, <2>2, <3>2, <4>2
    <3>4. m[k].req \in 1..Len(b) /\ w.req < m[k].req
      BY <1>2, <1>5, <2>1, <3>2
    <3> QED BY <3>3, <3>4
  <2> QED BY <1>2, <1>6, <2>3, <2>4
<1> QED BY <1>2, <1>5, <1>6, <1>7, <1>8 DEF Connection, History, m, b, s

(* What lws_http_action() does to a wsi.                                     *)
LEMMA HttpActionFields ==
  ASSUME NEW w, IsWsi(w), NEW q \in Requests, NEW n, n = HttpAction(w, q)
  PROVE  /\ IsWsi(n)
         /\ n.parsed = w.parsed /\ n.ah = w.ah /\ n.buffered = w.buffered
         /\ n.deferred = w.deferred /\ n.unusable = w.unusable /\ n.req = w.req
         /\ n.bound /\ n.justHeader = 0 /\ n.timer = "HTTP_CONTENT"
         /\ n.state = IF ~q.post THEN "DOING_TRANSACTION"
                      ELSE IF q.len > 0 THEN "BODY" ELSE w.state
         /\ n.remain = IF q.len > 0 THEN q.len ELSE w.remain
         /\ n.pollout => w.pollout \/ (q.len = 0 /\ ~w.unusable)
<1>1. q.len \in Nat /\ (~q.post => q.len = 0)
  BY RequestsOK
<1> DEFINE b == [BindProtocol(w, TRUE) EXCEPT !.timer = "HTTP_CONTENT"]
<1>2. /\ IsWsi(b)
      /\ b.parsed = w.parsed /\ b.ah = w.ah /\ b.buffered = w.buffered
      /\ b.deferred = w.deferred /\ b.unusable = w.unusable /\ b.req = w.req
      /\ b.bound /\ b.justHeader = 0 /\ b.timer = "HTTP_CONTENT"
      /\ b.state = w.state /\ b.remain = w.remain /\ b.pollout = w.pollout
  BY DEF IsWsi, Fresh, BindProtocol
<1>3. n = IF ~q.post THEN [b EXCEPT !.state = "DOING_TRANSACTION"]
          ELSE IF q.len = 0 THEN CallbackOnWritable(HttpBody(b))
          ELSE [b EXCEPT !.state = "BODY", !.remain = q.len]
  BY DEF HttpAction, BodyCompletion
<1> HIDE DEF b
<1>4. CASE q.post /\ q.len = 0
  <2> DEFINE h == HttpBody(b)
  <2>1. /\ IsWsi(h)
        /\ h.parsed = b.parsed /\ h.ah = b.ah /\ h.buffered = b.buffered
        /\ h.deferred = b.deferred /\ h.unusable = b.unusable /\ h.req = b.req
        /\ h.bound = b.bound /\ h.justHeader = 0 /\ h.timer = b.timer
        /\ h.state = b.state /\ h.remain = b.remain /\ h.pollout = b.pollout
    BY <1>2 DEF IsWsi, Fresh, HttpBody
  <2>2. n = CallbackOnWritable(h) /\ ~(q.len > 0)
    BY <1>1, <1>3, <1>4
  <2> HIDE DEF h
  <2>3. n.state = w.state /\ n.remain = w.remain /\ (n.pollout <=> w.pollout \/ ~w.unusable)
    BY <1>2, <2>1, <2>2, OnWritableFields
  <2>4. /\ IsWsi(n)
        /\ n.parsed = w.parsed /\ n.ah = w.ah /\ n.buffered = w.buffered
        /\ n.deferred = w.deferred /\ n.unusable = w.unusable /\ n.req = w.req
        /\ n.bound /\ n.justHeader = 0 /\ n.timer = "HTTP_CONTENT"
    BY <1>2, <2>1, <2>2, OnWritableFields
  <2> QED BY <1>4, <2>2, <2>3, <2>4
<1>5. CASE q.len > 0
  <2>1. n = [b EXCEPT !.state = "BODY", !.remain = q.len]
    BY <1>1, <1>3, <1>5
  <2> QED BY <1>1, <1>2, <1>5, <2>1 DEF IsWsi, Fresh
<1>6. CASE ~q.post
  <2>1. n = [b EXCEPT !.state = "DOING_TRANSACTION"] /\ ~(q.len > 0)
    BY <1>1, <1>3, <1>6
  <2> QED BY <1>2, <1>6, <2>1 DEF IsWsi, Fresh
<1> QED BY <1>1, <1>4, <1>5, <1>6
-----------------------------------------------------------------------------
(* Pieces are read: what is left is in order behind them.                    *)
Rest(i, u) == SubSeq(i, u + 1, Len(i))

LEMMA WaitsRest ==
  ASSUME NEW w, NEW i \in Seq(Pieces), NEW a, i # <<>>, Waits(w, i, a),
         NEW u \in 0..Len(i),
         NEW v, v.req = w.req \/ (v.req = Head(i).req /\ Head(i).part = 0 /\ u > 0)
  PROVE  /\ Rest(i, u) \in Seq(Pieces) /\ Len(Rest(i, u)) = Len(i) - u
         /\ Waits(v, Rest(i, u), a)
         /\ Head(i).req \in 1..Len(a) /\ Head(i).req \in Nat
         /\ Head(i).part = 0 => w.req < Head(i).req
<1> DEFINE t == Rest(i, u)
<1>1. Len(i) \in Nat /\ Len(i) > 0 /\ Head(i) = i[1]
  OBVIOUS
<1>2. t \in Seq(Pieces) /\ Len(t) = Len(i) - u /\ \A k \in 1..Len(t) : t[k] = i[k + u]
  BY <1>1 DEF Rest
<1>3. Head(i).req \in 1..Len(a) /\ (Head(i).part = 0 => w.req < Head(i).req)
  BY <1>1 DEF Waits
<1>4. Head(i) \in Pieces
  BY <1>1
<1>5. Head(i).req \in Nat
  BY <1>4 DEF Pieces
<1> HIDE DEF t
<1>6. Waits(v, t, a)
  <2> SUFFICES ASSUME NEW k \in 1..Len(t)
               PROVE  /\ t[k].req \in 1..Len(a)
                      /\ t[k].part = 0 => /\ v.req < t[k].req
                                          /\ \A j \in 1..(k - 1) : t[j].req < t[k].req
    BY DEF Waits
  <2>1. t[k] = i[k + u] /\ k + u \in 1..Len(i) /\ (u > 0 => 1 \in 1..(k + u - 1))
    BY <1>1, <1>2
  <2>2. ASSUME NEW j \in 1..(k - 1)
        PROVE  t[j] = i[j + u] /\ j + u \in 1..(k + u - 1)
    <3>1. j \in 1..Len(t) /\ j + u \in 1..(k + u - 1)
      BY <1>1, <1>2
    <3> QED BY <1>2, <3>1
  <2>3. /\ i[k + u].req \in 1..Len(a)
        /\ i[k + u].part = 0 => /\ w.req < i[k + u].req
                                /\ \A j \in 1..(k + u - 1) : i[j].req < i[k + u].req
    BY <2>1 DEF Waits
  <2>4. t[k].part = 0 => v.req < t[k].req
    BY <1>1, <2>1, <2>3
  <2>5. t[k].part = 0 => \A j \in 1..(k - 1) : t[j].req < t[k].req
    BY <2>1, <2>2, <2>3
  <2> QED BY <2>1, <2>3, <2>4, <2>5
<1> QED BY <1>2, <1>3, <1>5, <1>6 DEF t

(* lws_read_h1(): the headers of the next request.  Nothing of it was sent.  *)
LEMMA ReadHeadersKeeps ==
  ASSUME NEW w, NEW i, NEW a, NEW o, NEW pk, Connection(w, i, a, o, pk),
         i # <<>>, w.state \in {"HEADERS", "ESTABLISHED"}, ~w.ah, Head(i).part = 0,
         NEW u \in 1..Len(i),
         NEW n, n = HttpAction(Parsed(w, Head(i).req), a[Head(i).req])
  PROVE  /\ Connection(n, Rest(i, u), a, o, pk)
         /\ Head(i).req \in 1..Len(a)
         /\ a[Head(i).req].len > 0 => n.state = "BODY" /\ n.remain = a[Head(i).req].len
<1> DEFINE r == Head(i).req
           q == a[r]
           v == Parsed(w, r)
<1>1. IsWsi(w) /\ Phases(w) /\ Called(w) /\ Serves(w, a) /\ Waits(w, i, a) /\ Answering(w, o, pk)
  BY DEF Connection
<1>2. i \in Seq(Pieces) /\ a \in Seq(Requests) /\ o \in Seq(Entries)
  BY DEF Connection, History
<1>3. /\ Rest(i, u) \in Seq(Pieces) /\ r \in 1..Len(a) /\ r \in Nat /\ w.req < r
      /\ \A x : x.req = r => Waits(x, Rest(i, u), a)
  <2>1. u \in 0..Len(i) /\ u > 0
    BY <1>2
  <2> QED BY <1>1, <1>2, <2>1, WaitsRest
<1>4. q \in Requests /\ q.len \in Nat /\ (~q.post => q.len = 0)
  BY <1>2, <1>3, RequestsOK
<1>5. /\ IsWsi(v) /\ v.state = "ESTABLISHED" /\ v.parsed /\ v.ah /\ v.req = r
      /\ v.buffered = w.buffered /\ v.deferred = w.deferred /\ v.unusable = w.unusable
      /\ v.pollout = w.pollout
  BY <1>1, <1>3 DEF IsWsi, Fresh, Parsed
<1>6. n = HttpAction(v, q)
  OBVIOUS
<1>7. ~w.bound /\ ~w.buffered /\ ~w.deferred /\ ~w.pollout
  BY <1>1 DEF Phases, Called
<1> HIDE DEF v, q, r
<1>8. /\ IsWsi(n)
      /\ n.parsed /\ n.ah /\ ~n.buffered /\ ~n.deferred /\ n.unusable = w.unusable /\ n.req = r
      /\ n.bound /\ n.justHeader = 0 /\ n.timer = "HTTP_CONTENT"
      /\ n.state = IF ~q.post THEN "DOING_TRANSACTION"
                   ELSE IF q.len > 0 THEN "BODY" ELSE "ESTABLISHED"
      /\ n.remain = IF q.len > 0 THEN q.len ELSE v.remain
      /\ n.pollout => q.len = 0 /\ ~w.unusable
  BY <1>4, <1>5, <1>6, <1>7, HttpActionFields
<1>10. /\ n.state \in {"ESTABLISHED", "DOING_TRANSACTION", "BODY"}
       /\ n.state = "BODY" => n.remain > 0 /\ q.len > 0
       /\ n.state # "BODY" => q.len = 0
       /\ q.len > 0 => n.state = "BODY" /\ n.remain = q.len
  BY <1>4, <1>8
<1>9. Phases(n)
  BY <1>8, <1>10 DEF Phases
<1>11. Called(n)
  BY <1>8, <1>10 DEF Called
<1>12. Serves(n, a)
  BY <1>2, <1>3, <1>8, <1>10 DEF Serves, q
<1>13. Waits(n, Rest(i, u), a)
  BY <1>3, <1>8
<1>14. \A k \in 1..Len(o) : o[k].req \in Nat /\ o[k].req < r
  <2>1. \A k \in 1..Len(o) : o[k] \in Entries
    BY <1>2
  <2>2. \A k \in 1..Len(o) : o[k].req \in Nat
    BY <2>1 DEF Entries
  <2>3. w.req \in Nat /\ \A k \in 1..Len(o) : o[k].req <= w.req
    BY <1>1 DEF Answering, UpTo, IsWsi
  <2> QED BY <1>3, <2>2, <2>3
<1>15. UpTo(o, n.req) /\ \A k \in 1..Len(o) : o[k].req # n.req
  BY <1>3, <1>8, <1>14 DEF UpTo
<1>16. n.state = "BODY" /\ n.remain > 0 => ~n.pollout /\ n.justHeader = 0
  BY <1>8, <1>10, <1>4
<1>17. ~BodyIsDue(n)
  BY <1>8 DEF BodyIsDue
<1>18. Answering(n, o, pk)
  BY <1>15, <1>16, <1>17 DEF Answering, NoBody
<1>19. Connection(n, Rest(i, u), a, o, pk)
  BY <1>2, <1>3, <1>8, <1>9, <1>11, <1>12, <1>13, <1>18 DEF Connection, History
<1> QED BY <1>3, <1>10, <1>19 DEF q, r

(***************************************************************************)
(* lws_read_h1(), input in ESTABLISHED while the request is being answered: *)
(* its headers no longer count as parsed, so it is never answered further.  *)
(***************************************************************************)
LEMMA ReadAgainKeeps ==
  ASSUME NEW w, NEW i, NEW a, NEW o, NEW pk, Connection(w, i, a, o, pk),
         i # <<>>, w.state = "ESTABLISHED", w.ah, NEW u \in 0..Len(i),
         NEW n, n = HttpAction([w EXCEPT !.parsed = FALSE, !.timer = "none"], a[w.req])
  PROVE  Connection(n, Rest(i, u), a, o, pk)
<1> DEFINE q == a[w.req]
           v == [w EXCEPT !.parsed = FALSE, !.timer = "none"]
<1>1. IsWsi(w) /\ Phases(w) /\ Called(w) /\ Serves(w, a) /\ Waits(w, i, a) /\ Answering(w, o, pk)
  BY DEF Connection
<1>2. i \in Seq(Pieces) /\ a \in Seq(Requests) /\ o \in Seq(Entries)
  BY DEF Connection, History
<1>3. Rest(i, u) \in Seq(Pieces) /\ \A x : x.req = w.req => Waits(x, Rest(i, u), a)
  BY <1>1, <1>2, WaitsRest
<1>4. w.req \in 1..Len(a) /\ q.len = 0 /\ w.bound
  BY <1>1 DEF Phases, Serves, IsWsi
<1>5. q \in Requests
  BY <1>2, <1>4
<1>6. /\ IsWsi(v) /\ v.state = "ESTABLISHED" /\ ~v.parsed /\ v.ah /\ v.req = w.req
      /\ v.buffered = w.buffered /\ v.deferred = w.deferred /\ v.unusable = w.unusable
      /\ v.pollout = w.pollout
  BY <1>1 DEF IsWsi, Fresh
<1>7. n = HttpAction(v, q) /\ ~(q.len > 0)
  BY <1>4
<1> HIDE DEF v, q
<1>8. /\ IsWsi(n)
      /\ ~n.parsed /\ n.ah /\ n.buffered = w.buffered /\ n.deferred = w.deferred
      /\ n.unusable = w.unusable /\ n.req = w.req
      /\ n.bound /\ n.justHeader = 0 /\ n.timer = "HTTP_CONTENT"
      /\ n.state \in {"ESTABLISHED", "DOING_TRANSACTION"}
      /\ n.pollout => w.pollout \/ ~w.unusable
  BY <1>5, <1>6, <1>7, HttpActionFields
<1>9. Phases(n)
  BY <1>1, <1>8 DEF Phases
<1>10. Called(n)
  BY <1>1, <1>8 DEF Called
<1>11. Serves(n, a)
  BY <1>1, <1>4, <1>8 DEF Serves, q
<1>12. Answering(n, o, pk)
  BY <1>1, <1>8 DEF Answering, BodyIsDue
<1> QED BY <1>2, <1>3, <1>8, <1>9, <1>10, <1>11, <1>12 DEF Connection, History

(* lws_read_h1(): pieces of body; with the last one the callback is asked    *)
(* for and the timeout stopped.                                              *)
LEMMA PostBodyKeeps ==
  ASSUME NEW w, NEW i, NEW a, NEW o, NEW pk, Connection(w, i, a, o, pk),
         w.state = "BODY", NEW p \in 1..w.remain
  PROVE  Connection(PostBody(w, p), i, a, o, pk)
<1> DEFINE h == HttpBody(Received(w, p))
           n == PostBody(w, p)
<1>1. IsWsi(w) /\ Phases(w) /\ Called(w) /\ Serves(w, a) /\ Waits(w, i, a) /\ Answering(w, o, pk)
  BY DEF Connection
<1>2. i \in Seq(Pieces) /\ a \in Seq(Requests) /\ o \in Seq(Entries)
  BY DEF Connection, History
<1>3. n = IF h.remain > 0 THEN [h EXCEPT !.timer = "HTTP_CONTENT"]
          ELSE BodyCompletion([h EXCEPT !.timer = "none"])
  <2>1. p # 0
    BY <1>1 DEF IsWsi
  <2> QED BY <2>1 DEF PostBody
<1>4. w.remain - p \in Nat /\ w.remain > 0
  BY <1>1 DEF IsWsi
<1>5. /\ IsWsi(h) /\ h.state = "BODY" /\ h.parsed = w.parsed /\ h.ah = w.ah
      /\ h.remain = w.remain - p /\ h.bound = w.bound /\ h.justHeader = 0
      /\ h.pollout = w.pollout /\ h.buffered = w.buffered /\ h.deferred = w.deferred
      /\ h.unusable = w.unusable /\ h.req = w.req
  BY <1>1, <1>4 DEF IsWsi, Fresh, HttpBody, Received
<1> HIDE DEF h, n
<1>6. /\ IsWsi(n) /\ n.state = "BODY" /\ n.parsed = w.parsed /\ n.ah = w.ah
      /\ n.remain = h.remain /\ n.bound = w.bound /\ n.justHeader = 0
      /\ n.buffered = w.buffered /\ n.deferred = w.deferred
      /\ n.unusable = w.unusable /\ n.req = w.req
      /\ h.remain > 0 => n.timer = "HTTP_CONTENT" /\ n.pollout = w.pollout
      /\ ~(h.remain > 0) => (n.pollout <=> w.pollout \/ ~w.unusable)
  <2>1. CASE h.remain > 0
    <3>1. n = [h EXCEPT !.timer = "HTTP_CONTENT"]
      BY <1>3, <2>1
    <3> QED BY <1>5, <2>1, <3>1 DEF IsWsi, Fresh
  <2>2. CASE ~(h.remain > 0)
    <3> DEFINE z == [h EXCEPT !.timer = "none"]
    <3>1. n = CallbackOnWritable(z)
      BY <1>3, <2>2 DEF BodyCompletion
    <3>2. /\ IsWsi(z) /\ z.state = "BODY" /\ z.parsed = w.parsed /\ z.ah = w.ah
          /\ z.remain = h.remain /\ z.bound = w.bound /\ z.justHeader = 0
          /\ z.pollout = w.pollout /\ z.buffered = w.buffered /\ z.deferred = w.deferred
          /\ z.unusable = w.unusable /\ z.req = w.req
      BY <1>5 DEF IsWsi, Fresh
    <3> HIDE DEF z
    <3> QED BY <2>2, <3>1, <3>2, OnWritableFields
  <2> QED BY <2>1, <2>2
<1>7. n.remain > 0 => n.timer # "none" /\ n.pollout = w.pollout
  BY <1>6
<1>8. ~(n.remain > 0) => n.remain = 0 /\ (n.pollout <=> w.pollout \/ ~w.unusable)
  BY <1>4, <1>5, <1>6
<1>9. Phases(n)
  BY <1>1, <1>6 DEF Phases
<1>10. Called(n)
  <2>1. n.unusable => ~n.pollout
    BY <1>1, <1>6, <1>7, <1>8 DEF Called
  <2>2. n.remain = 0 => n.pollout \/ n.unusable
    BY <1>6, <1>8
  <2>3. n.timer # "none" \/ n.remain = 0
    BY <1>7, <1>8
  <2> QED BY <1>1, <1>6, <2>1, <2>2, <2>3 DEF Called, Phases
<1>11. Serves(n, a)
  BY <1>1, <1>6 DEF Serves
<1>12. ~BodyIsDue(n)
  BY <1>6 DEF BodyIsDue
<1>13. Answering(n, o, pk)
  BY <1>1, <1>4, <1>6, <1>7, <1>12 DEF Answering
<1>14. Waits(n, i, a)
  BY <1>1, <1>6 DEF Waits
<1> QED BY <1>6, <1>9, <1>10, <1>11, <1>13, <1>14 DEF Connection, n

(* Input that is used, or dropped, is gone.                                  *)
LEMMA RestKeeps ==
  ASSUME NEW w, NEW i, NEW a, NEW o, NEW pk, Connection(w, i, a, o, pk),
         i # <<>>, NEW u \in 0..Len(i)
  PROVE  Connection(w, Rest(i, u), a, o, pk)
<1>1. i \in Seq(Pieces) /\ Waits(w, i, a)
  BY DEF Connection, History
<1>2. Rest(i, u) \in Seq(Pieces) /\ Waits(w, Rest(i, u), a)
  BY <1>1, WaitsRest
<1> QED BY <1>2 DEF Connection, History

(* lws_read_h1(): input behind a body that is complete.                      *)
LEMMA ReadEarlyKeeps ==
  ASSUME NEW w, NEW i, NEW a, NEW o, NEW pk, Connection(w, i, a, o, pk),
         w.state = "BODY", w.remain = 0
  PROVE  Connection(BodyCompletion([w EXCEPT !.timer = "none"]), i, a, o, pk)
<1> DEFINE z == [w EXCEPT !.timer = "none"]
<1>1. IsWsi(w)
  BY DEF Connection
<1>2. /\ IsWsi(z) /\ z.state = w.state /\ z.parsed = w.parsed /\ z.ah = w.ah
      /\ z.remain = w.remain /\ z.bound = w.bound /\ z.justHeader = w.justHeader
      /\ z.pollout = w.pollout /\ z.buffered = w.buffered /\ z.deferred = w.deferred
      /\ z.unusable = w.unusable /\ z.req = w.req
  BY <1>1 DEF IsWsi, Fresh
<1> HIDE DEF z
<1>3. Phases(z) /\ Called(z) /\ Serves(z, a) /\ Waits(z, i, a)
  BY <1>2 DEF Connection, Phases, Called, Serves, Waits
<1>4. Answering(z, o, pk)
  BY <1>2 DEF Connection, Answering, BodyIsDue
<1>5. Connection(z, i, a, o, pk)
  BY <1>2, <1>3, <1>4 DEF Connection
<1>6. z.bound /\ ~(z.remain > 0)
  BY <1>2 DEF Connection, Phases
<1>7. CallbackOnWritable(z) = BodyCompletion([w EXCEPT !.timer = "none"])
  BY DEF BodyCompletion, z
<1> QED BY <1>5, <1>6, <1>7, OnWritableKeeps
-----------------------------------------------------------------------------
(* POLLOUT is taken off before the callback.                                 *)
LEMMA ShotFields ==
  ASSUME NEW w, IsWsi(w), NEW s, s = [w EXCEPT !.pollout = FALSE]
  PROVE  /\ IsWsi(s) /\ ~s.pollout
         /\ s.state = w.state /\ s.parsed = w.parsed /\ s.ah = w.ah /\ s.remain = w.remain
         /\ s.bound = w.bound /\ s.justHeader = w.justHeader /\ s.buffered = w.buffered
         /\ s.deferred = w.deferred /\ s.unusable = w.unusable /\ s.timer = w.timer
         /\ s.req = w.req
BY DEF IsWsi, Fresh

(* POLLOUT where there is nobody to tell.                                    *)
LEMMA IdleKeeps ==
  ASSUME NEW w, NEW i, NEW a, NEW o, NEW pk, Connection(w, i, a, o, pk),
         ~w.parsed, w.state # "closed",
         NEW s, s = [w EXCEPT !.pollout = FALSE],
         NEW n, n = IF w.state = "DEFERRING_ACTION" THEN [s EXCEPT !.state = "ESTABLISHED"]
                    ELSE s
  PROVE  Connection(n, i, a, o, pk)
<1>1. IsWsi(w) /\ Phases(w) /\ Called(w)
  BY DEF Connection
<1>2. /\ IsWsi(s) /\ ~s.pollout
      /\ s.state = w.state /\ s.parsed = w.parsed /\ s.ah = w.ah /\ s.remain = w.remain
      /\ s.bound = w.bound /\ s.justHeader = w.justHeader /\ s.buffered = w.buffered
      /\ s.deferred = w.deferred /\ s.unusable = w.unusable /\ s.timer = w.timer
      /\ s.req = w.req
  BY <1>1, ShotFields
<1>3. /\ IsWsi(n) /\ ~n.pollout
      /\ n.parsed = w.parsed /\ n.ah = w.ah /\ n.remain = w.remain
      /\ n.bound = w.bound /\ n.justHeader = w.justHeader /\ n.buffered = w.buffered
      /\ n.deferred = w.deferred /\ n.unusable = w.unusable /\ n.timer = w.timer
      /\ n.req = w.req
      /\ n.state = IF w.state = "DEFERRING_ACTION" THEN "ESTABLISHED" ELSE w.state
  BY <1>2 DEF IsWsi, Fresh
<1>4. w.state # "BODY" /\ w.justHeader # 1 /\ (w.state = "DEFERRING_ACTION" => ~w.bound)
  BY <1>1 DEF Phases
<1>5. Phases(n)
  BY <1>1, <1>3, <1>4 DEF Phases
<1>6. Called(n)
  BY <1>1, <1>3, <1>4 DEF Called
<1>7. Serves(n, a) /\ Waits(n, i, a)
  BY <1>3, <1>4 DEF Connection, Serves, Waits
<1>8. ~BodyIsDue(n)
  BY <1>3, <1>4 DEF BodyIsDue
<1>9. Answering(n, o, pk)
  BY <1>3, <1>8 DEF Connection, Answering
<1> QED BY <1>3, <1>5, <1>6, <1>7, <1>9 DEF Connection

(* What is buffered goes out, or some of it.                                 *)
LEMMA FlushedKeeps ==
  ASSUME NEW w, NEW i, NEW a, NEW o, NEW pk, Connection(w, i, a, o, pk),
         w.bound, w.pollout, NEW n, IsWsi(n), n.pollout,
         n.state = w.state, n.parsed = w.parsed, n.ah = w.ah, n.remain = w.remain,
         n.bound = w.bound, n.justHeader = w.justHeader, n.deferred = w.deferred,
         n.unusable = w.unusable, n.timer = w.timer, n.req = w.req,
         n.deferred => n.buffered
  PROVE  Connection(n, i, a, o, pk)
<1>1. Phases(n) /\ Called(n) /\ Serves(n, a) /\ Waits(n, i, a)
  BY DEF Connection, Phases, Called, Serves, Waits
<1>2. Answering(n, o, pk)
  BY DEF Connection, Answering, BodyIsDue
<1> QED BY <1>1, <1>2 DEF Connection

(***************************************************************************)
(* lws_http_transaction_completed() with nothing left to send: the          *)
(* connection is closed or made ready for the next request.                 *)
(***************************************************************************)
LEMMA CompletedKeeps ==
  ASSUME NEW w, NEW i, NEW a, NEW o, NEW pk, NEW q, NEW z, History(i, a, o),
         IsWsi(w), w.parsed, ~w.buffered, ~w.deferred, ~w.unusable,
         w.req <= Len(a), Waits(w, i, a), Ordered(o), Once(o, pk), UpTo(o, w.req)
  PROVE  Connection(TransactionCompleted(w, q, z), i, a, o, pk)
<1> DEFINE n == TransactionCompleted(w, q, z)
<1>1. CASE q.keep
  <2> DEFINE b == [BindProtocol(w, FALSE) EXCEPT
                     !.state = "DEFERRING_ACTION", !.parsed = FALSE, !.ah = FALSE,
                     !.timer = IF z > 0 THEN "HOLDING_AH" ELSE "KEEPALIVE_IDLE"]
  <2>1. n = CallbackOnWritable(b)
    BY <1>1 DEF TransactionCompleted
  <2>2. /\ IsWsi(b) /\ b.state = "DEFERRING_ACTION" /\ ~b.parsed /\ ~b.ah /\ ~b.bound
        /\ b.justHeader = 0 /\ ~b.buffered /\ ~b.deferred /\ ~b.unusable
        /\ b.timer # "none" /\ b.req = w.req
    BY DEF IsWsi, Fresh, BindProtocol
  <2> HIDE DEF b
  <2>3. /\ IsWsi(n) /\ n.state = "DEFERRING_ACTION" /\ ~n.parsed /\ ~n.ah /\ ~n.bound
        /\ n.justHeader = 0 /\ ~n.buffered /\ ~n.deferred /\ ~n.unusable /\ n.pollout
        /\ n.timer # "none" /\ n.req = w.req
    BY <2>1, <2>2, OnWritableFields
  <2> HIDE DEF n
  <2>4. Phases(n) /\ Called(n) /\ Serves(n, a) /\ Waits(n, i, a)
    BY <2>3 DEF Phases, Called, Serves, Waits
  <2>5. Answering(n, o, pk)
    BY <2>3 DEF Answering, BodyIsDue
  <2> QED BY <2>3, <2>4, <2>5 DEF Connection, n
<1>2. CASE ~q.keep
  <2>1. n = Fresh("closed")
    BY <1>2 DEF TransactionCompleted
  <2>2. /\ IsWsi(n) /\ n.req = 0 /\ n.state = "closed"
        /\ ~n.bound /\ ~n.ah /\ ~n.parsed /\ ~n.buffered /\ ~n.deferred /\ ~n.pollout
        /\ ~n.unusable /\ n.justHeader = 0
    BY <2>1 DEF Fresh, IsWsi
  <2> HIDE DEF n
  <2>3. Phases(n) /\ Called(n)
    BY <2>2 DEF Phases, Called
  <2>4. Serves(n, a)
    <3>1. Len(a) \in Nat
      BY DEF History
    <3> QED BY <2>2, <3>1 DEF Serves
  <2>5. Waits(n, i, a)
    <3>1. \A k \in 1..Len(i) : i[k].req \in 1..Len(a) /\ 0 < i[k].req
      BY DEF Waits, History
    <3> QED BY <2>2, <3>1 DEF Waits
  <2>6. Answering(n, o, pk)
    BY <2>2 DEF Answering, BodyIsDue
  <2> QED BY <2>2, <2>3, <2>4, <2>5, <2>6 DEF Connection, n
<1> QED BY <1>1, <1>2

(* WriteableFlush and WriteableFlushPart.                                    *)
LEMMA FlushKeeps ==
  ASSUME NEW w, NEW i, NEW a, NEW o, NEW pk, Connection(w, i, a, o, pk),
         w.parsed, w.buffered, w.pollout, NEW q, NEW z,
         NEW s, s = [w EXCEPT !.pollout = FALSE]
  PROVE  /\ w.deferred => Connection(
              TransactionCompleted([s EXCEPT !.buffered = FALSE, !.deferred = FALSE], q, z), i, a, o, pk)
         /\ ~w.deferred => Connection(CallbackOnWritable([s EXCEPT !.buffered = FALSE]), i, a, o, pk)
         /\ Connection(CallbackOnWritable(s), i, a, o, pk)
<1>1. /\ IsWsi(w) /\ w.bound /\ ~w.unusable /\ History(i, a, o) /\ Waits(w, i, a)
      /\ Ordered(o) /\ Once(o, pk) /\ UpTo(o, w.req) /\ w.req <= Len(a)
  BY DEF Connection, Phases, Called, Answering, Serves
<1>2. /\ IsWsi(s) /\ ~s.pollout
      /\ s.state = w.state /\ s.parsed = w.parsed /\ s.ah = w.ah /\ s.remain = w.remain
      /\ s.bound = w.bound /\ s.justHeader = w.justHeader /\ s.buffered = w.buffered
      /\ s.deferred = w.deferred /\ s.unusable = w.unusable /\ s.timer = w.timer
      /\ s.req = w.req
  BY <1>1, ShotFields
<1>3. ASSUME w.deferred
      PROVE  Connection(
              TransactionCompleted([s EXCEPT !.buffered = FALSE, !.deferred = FALSE], q, z), i, a, o, pk)
  <2> DEFINE v == [s EXCEPT !.buffered = FALSE, !.deferred = FALSE]
  <2>1. IsWsi(v) /\ v.parsed /\ ~v.buffered /\ ~v.deferred /\ ~v.unusable /\ v.req = w.req
    BY <1>1, <1>2 DEF IsWsi, Fresh
  <2> HIDE DEF v
  <2>2. Waits(v, i, a) /\ v.req <= Len(a) /\ UpTo(o, v.req)
    BY <1>1, <2>1 DEF Waits
  <2>3. Connection(TransactionCompleted(v, q, z), i, a, o, pk)
    BY <1>1, <2>1, <2>2, CompletedKeeps
  <2> QED BY <2>3 DEF v
<1>4. ASSUME ~w.deferred
      PROVE  Connection(CallbackOnWritable([s EXCEPT !.buffered = FALSE]), i, a, o, pk)
  <2> DEFINE v == [s EXCEPT !.buffered = FALSE]
             n == CallbackOnWritable(v)
  <2>1. /\ IsWsi(v) /\ v.state = w.state /\ v.parsed = w.parsed /\ v.ah = w.ah
        /\ v.remain = w.remain /\ v.bound = w.bound /\ v.justHeader = w.justHeader
        /\ v.deferred = w.deferred /\ v.unusable = w.unusable /\ v.timer = w.timer
        /\ v.req = w.req
    BY <1>2 DEF IsWsi, Fresh
  <2> HIDE DEF v
  <2>2. /\ IsWsi(n) /\ n.state = w.state /\ n.parsed = w.parsed /\ n.ah = w.ah
        /\ n.remain = w.remain /\ n.bound = w.bound /\ n.justHeader = w.justHeader
        /\ n.deferred = w.deferred /\ n.unusable = w.unusable /\ n.timer = w.timer
        /\ n.req = w.req /\ n.pollout
    BY <1>1, <2>1, OnWritableFields
  <2> HIDE DEF n
  <2>3. Connection(n, i, a, o, pk)
    BY <1>1, <1>4, <2>2, FlushedKeeps
  <2> QED BY <2>3 DEF n, v
<1>5. Connection(CallbackOnWritable(s), i, a, o, pk)
  <2> DEFINE n == CallbackOnWritable(s)
  <2> HIDE DEF n
  <2>1. /\ IsWsi(n) /\ n.state = s.state /\ n.parsed = s.parsed /\ n.ah = s.ah
        /\ n.remain = s.remain /\ n.bound = s.bound /\ n.justHeader = s.justHeader
        /\ n.deferred = s.deferred /\ n.unusable = s.unusable /\ n.timer = s.timer
        /\ n.req = s.req /\ n.buffered = s.buffered /\ (n.pollout <=> s.pollout \/ ~s.unusable)
    BY <1>2, OnWritableFields, Zenon DEF n
  <2>2. /\ IsWsi(n) /\ n.state = w.state /\ n.parsed = w.parsed /\ n.ah = w.ah
        /\ n.remain = w.remain /\ n.bound = w.bound /\ n.justHeader = w.justHeader
        /\ n.deferred = w.deferred /\ n.unusable = w.unusable /\ n.timer = w.timer
        /\ n.req = w.req /\ n.buffered = w.buffered /\ (n.pollout <=> s.pollout \/ ~s.unusable)
    BY <1>2, <2>1
  <2>3. n.pollout /\ n.buffered
    BY <1>1, <1>2, <2>2
  <2>4. Connection(n, i, a, o, pk)
    BY <1>1, <2>2, <2>3, FlushedKeeps
  <2> QED BY <2>4 DEF n
<1> QED BY <1>3, <1>4, <1>5

(* lws_write(): what it may do to a wsi whose socket did not fail so far.    *)
LEMMA WriteFields ==
  ASSUME NEW s, IsWsi(s), ~s.unusable, ~s.pollout, ~s.buffered, NEW v \in Write(s)
  PROVE  /\ IsWsi(v)
         /\ v.state = s.state /\ v.parsed = s.parsed /\ v.ah = s.ah /\ v.remain = s.remain
         /\ v.bound = s.bound /\ v.justHeader = s.justHeader
         /\ v.deferred = s.deferred /\ v.timer = s.timer /\ v.req = s.req
         /\ v.unusable => ~v.pollout /\ ~v.buffered
         /\ v.buffered => v.pollout
<1>1. CASE v = s
  BY <1>1
<1>2. CASE v = CallbackOnWritable([s EXCEPT !.buffered = TRUE])
  <2> DEFINE b == [s EXCEPT !.buffered = TRUE]
  <2>1. /\ IsWsi(b)
        /\ b.state = s.state /\ b.parsed = s.parsed /\ b.ah = s.ah /\ b.remain = s.remain
        /\ b.bound = s.bound /\ b.justHeader = s.justHeader /\ b.buffered
        /\ b.deferred = s.deferred /\ b.timer = s.timer /\ b.req = s.req
        /\ b.unusable = s.unusable
    BY DEF IsWsi, Fresh
  <2> HIDE DEF b
  <2>2. v = CallbackOnWritable(b)
    BY <1>2 DEF b
  <2> QED BY <2>1, <2>2, OnWritableFields
<1>3. CASE v = [s EXCEPT !.unusable = TRUE]
  BY <1>3 DEF IsWsi, Fresh
<1> QED BY <1>1, <1>2, <1>3 DEF Write

(* One more entry on the wire.                                               *)
LEMMA LogFacts ==
  ASSUME NEW o \in Seq(Entries), NEW e \in Entries, NEW m, m = Append(o, e)
  PROVE  /\ m \in Seq(Entries) /\ Len(o) \in Nat /\ Len(m) = Len(o) + 1 /\ m[Len(m)] = e
         /\ \A k \in 1..Len(o) : m[k] = o[k] /\ o[k].req \in Nat
         /\ e.req \in Nat
<1>1. m \in Seq(Entries) /\ Len(o) \in Nat /\ Len(m) = Len(o) + 1 /\ m[Len(m)] = e
  OBVIOUS
<1>2. \A k \in 1..Len(o) : m[k] = o[k] /\ o[k] \in Entries
  OBVIOUS
<1>3. e.req \in Nat /\ \A k \in 1..Len(o) : o[k].req \in Nat
  BY <1>2 DEF Entries
<1> QED BY <1>1, <1>2, <1>3

(***************************************************************************)
(* An entry of the request being answered is logged: the wire stays in      *)
(* order, and nothing is on it twice.                                       *)
(***************************************************************************)
LEMMA LogKeeps ==
  ASSUME NEW o \in Seq(Entries), NEW e \in Entries, NEW m, m = Append(o, e), NEW pk,
         Ordered(o), Once(o, pk), UpTo(o, e.req),
         e.part = "body" => HeadersAreLast(o, e.req) /\ NoBody(o, e.req),
         e.req \notin pk => e.arrived /\ \A k \in 1..Len(o) : o[k].req = e.req => o[k].part # e.part
  PROVE  m \in Seq(Entries) /\ Ordered(m) /\ Once(m, pk) /\ UpTo(m, e.req)
<1>1. /\ m \in Seq(Entries) /\ Len(o) \in Nat /\ Len(m) = Len(o) + 1 /\ m[Len(m)] = e
      /\ \A k \in 1..Len(o) : m[k] = o[k] /\ o[k].req \in Nat
      /\ e.req \in Nat
  BY LogFacts
<1>2. \A k \in 1..Len(m) : k = Len(m) \/ k \in 1..Len(o)
  BY <1>1
<1>3. UpTo(m, e.req)
  BY <1>1, <1>2 DEF UpTo
<1>4. Ordered(m)
  <2> SUFFICES ASSUME NEW k \in 1..Len(m)
               PROVE  /\ m[k].part = "body" =>
                           k > 1 /\ m[k - 1].part = "headers" /\ m[k - 1].req = m[k].req
                      /\ \A j \in 1..(k - 1) : m[j].req <= m[k].req
    BY DEF Ordered
  <2>1. CASE k \in 1..Len(o)
    <3>1. m[k] = o[k] /\ \A j \in 1..(k - 1) : m[j] = o[j]
      BY <1>1, <2>1
    <3>2. k > 1 => m[k - 1] = o[k - 1]
      BY <3>1
    <3> QED BY <2>1, <3>1, <3>2 DEF Ordered
  <2>2. CASE k = Len(m)
    <3>1. \A j \in 1..(k - 1) : j \in 1..Len(o)
      BY <1>1, <2>2
    <3>2. \A j \in 1..(k - 1) : m[j].req <= m[k].req
      BY <1>1, <2>2, <3>1 DEF UpTo
    <3>3. ASSUME e.part = "body"
          PROVE  k > 1 /\ m[k - 1].part = "headers" /\ m[k - 1].req = m[k].req
      <4>1. k - 1 = Len(o) /\ k > 1 /\ Len(o) \in 1..Len(o)
        BY <1>1, <2>2, <3>3 DEF HeadersAreLast
      <4>2. m[k - 1] = o[Len(o)]
        BY <1>1, <4>1
      <4> QED BY <1>1, <2>2, <3>3, <4>1, <4>2 DEF HeadersAreLast
    <3> QED BY <1>1, <2>2, <3>2, <3>3
  <2> QED BY <1>2, <2>1, <2>2
<1>6. OneBody(m)
  <2> SUFFICES ASSUME NEW k \in 1..Len(m), NEW j \in 1..Len(m),
                      m[k].part = "body", m[j].part = "body", m[j].req = m[k].req
               PROVE  j = k
    BY DEF OneBody
  <2>1. CASE k \in 1..Len(o) /\ j \in 1..Len(o)
    BY <1>1, <2>1 DEF Once, OneBody
  <2>2. CASE k = Len(m) /\ j \in 1..Len(o)
    BY <1>1, <2>2 DEF NoBody
  <2>3. CASE j = Len(m) /\ k \in 1..Len(o)
    BY <1>1, <2>3 DEF NoBody
  <2> QED BY <1>2, <2>1, <2>2, <2>3
<1>5. Once(m, pk)
  <2> SUFFICES ASSUME NEW k \in 1..Len(m), m[k].req \notin pk
               PROVE  /\ m[k].arrived
                      /\ \A j \in 1..Len(m) :
                           m[j].req = m[k].req /\ m[j].part = m[k].part => j = k
    BY <1>6 DEF Once
  <2>1. ASSUME NEW j \in 1..Len(m), m[j].req = m[k].req, m[j].part = m[k].part PROVE j = k
    <3>1. CASE k \in 1..Len(o) /\ j \in 1..Len(o)
      BY <1>1, <2>1, <3>1 DEF Once
    <3>2. CASE k = Len(m) /\ j \in 1..Len(o)
      BY <1>1, <2>1, <3>2
    <3>3. CASE j = Len(m) /\ k \in 1..Len(o)
      BY <1>1, <2>1, <3>3
    <3> QED BY <1>2, <3>1, <3>2, <3>3
  <2>2. CASE k \in 1..Len(o)
    BY <1>1, <2>1, <2>2 DEF Once
  <2>3. CASE k = Len(m)
    BY <1>1, <2>1, <2>3
  <2> QED BY <1>2, <2>2, <2>3
<1> QED BY <1>1, <1>3, <1>4, <1>5

(* HTTP_WRITEABLE, the headers.                                              *)
LEMMA HeadersKeep ==
  ASSUME NEW w, NEW i, NEW a, NEW o, NEW pk, Connection(w, i, a, o, pk),
         w.parsed, ~w.buffered, w.pollout, w.justHeader = 0,
         NEW v \in Write([w EXCEPT !.pollout = FALSE]),
         NEW f \in BOOLEAN, f <=> (w.state = "BODY" => w.remain = 0)
  PROVE  Connection(CallbackOnWritable([v EXCEPT !.justHeader = 1]), i, a,
                    Append(o, [part |-> "headers", req |-> w.req, arrived |-> f]), pk)
<1> DEFINE s == [w EXCEPT !.pollout = FALSE]
           h == [v EXCEPT !.justHeader = 1]
           n == CallbackOnWritable(h)
           e == [part |-> "headers", req |-> w.req, arrived |-> f]
           m == Append(o, e)
<1>1. /\ IsWsi(w) /\ Phases(w) /\ Called(w) /\ Serves(w, a) /\ Waits(w, i, a)
      /\ Answering(w, o, pk) /\ History(i, a, o) /\ Ordered(o) /\ Once(o, pk)
  BY DEF Connection
<1>2. w.bound /\ ~w.unusable /\ ~w.deferred /\ w.state # "closed" /\ w.req \in Nat /\ w.remain \in Nat
  BY <1>1 DEF Phases, Called, IsWsi
<1>3. UpTo(o, w.req) /\ NoBody(o, w.req) /\ o \in Seq(Entries)
  BY <1>1, <1>2 DEF Answering, History
<1>4. w.req \notin pk => f /\ \A k \in 1..Len(o) : o[k].req # w.req
  BY <1>1, <1>2 DEF Answering
<1>5. m \in Seq(Entries) /\ Ordered(m) /\ Once(m, pk) /\ UpTo(m, w.req)
  <2>1. e \in Entries /\ e.part = "headers" /\ e.req = w.req /\ e.arrived = f
    BY <1>2 DEF Entries
  <2>2. m = Append(o, e)
    OBVIOUS
  <2> HIDE DEF e, m
  <2>3. e.req \notin pk =>
          e.arrived /\ \A k \in 1..Len(o) : o[k].req = e.req => o[k].part # e.part
    BY <1>4, <2>1
  <2>4. UpTo(o, e.req) /\ (e.part = "body" => HeadersAreLast(o, e.req) /\ NoBody(o, e.req))
    BY <1>3, <2>1
  <2>5. m \in Seq(Entries) /\ Ordered(m) /\ Once(m, pk) /\ UpTo(m, e.req)
    BY <1>1, <1>3, <2>1, <2>2, <2>3, <2>4, LogKeeps
  <2> QED BY <2>1, <2>5
<1>6. /\ Len(o) \in Nat /\ Len(m) = Len(o) + 1 /\ \A k \in 1..Len(o) : m[k] = o[k]
      /\ m[Len(m)].part = "headers" /\ m[Len(m)].req = w.req
  <2>1. e \in Entries /\ e.part = "headers" /\ e.req = w.req
    BY <1>2 DEF Entries
  <2>2. m = Append(o, e)
    OBVIOUS
  <2> HIDE DEF e, m
  <2> QED BY <1>3, <2>1, <2>2, LogFacts
<1>7. v \in Write(s)
  OBVIOUS
<1> HIDE DEF s, m
<1>8. /\ IsWsi(s) /\ ~s.pollout
      /\ s.state = w.state /\ s.parsed = w.parsed /\ s.ah = w.ah /\ s.remain = w.remain
      /\ s.bound = w.bound /\ s.justHeader = w.justHeader /\ s.buffered = w.buffered
      /\ s.deferred = w.deferred /\ s.unusable = w.unusable /\ s.timer = w.timer
      /\ s.req = w.req
  BY <1>1, ShotFields DEF s
<1>9. /\ IsWsi(v)
      /\ v.state = w.state /\ v.parsed = w.parsed /\ v.ah = w.ah /\ v.remain = w.remain
      /\ v.bound = w.bound /\ v.deferred = w.deferred /\ v.timer = w.timer /\ v.req = w.req
      /\ v.unusable => ~v.pollout
  <2>1. ~s.unusable /\ ~s.buffered
    BY <1>2, <1>8
  <2> QED BY <1>7, <1>8, <2>1, WriteFields
<1>10. /\ IsWsi(h) /\ h.justHeader = 1 /\ h.buffered = v.buffered /\ h.unusable = v.unusable
       /\ h.pollout = v.pollout
       /\ h.state = w.state /\ h.parsed = w.parsed /\ h.ah = w.ah /\ h.remain = w.remain
       /\ h.bound = w.bound /\ h.deferred = w.deferred /\ h.timer = w.timer /\ h.req = w.req
  BY <1>9 DEF IsWsi, Fresh
<1> HIDE DEF h
<1>11. /\ IsWsi(n) /\ n.justHeader = 1 /\ n.unusable = v.unusable
       /\ n.state = w.state /\ n.parsed = w.parsed /\ n.ah = w.ah /\ n.remain = w.remain
       /\ n.bound = w.bound /\ n.deferred = w.deferred /\ n.timer = w.timer /\ n.req = w.req
       /\ n.pollout <=> v.pollout \/ ~v.unusable
  BY <1>10, OnWritableFields
<1> HIDE DEF n
<1>12. Phases(n)
  BY <1>1, <1>2, <1>11 DEF Phases
<1>13. Called(n)
  BY <1>1, <1>2, <1>9, <1>11 DEF Called
<1>14. Serves(n, a) /\ Waits(n, i, a)
  BY <1>1, <1>11 DEF Serves, Waits
<1>15. HeadersAreLast(m, n.req) /\ UpTo(m, n.req)
  BY <1>5, <1>6, <1>11 DEF HeadersAreLast
<1>16. n.parsed /\ n.req \notin pk => ~(n.state = "BODY" /\ n.remain > 0)
  BY <1>1, <1>2, <1>11 DEF Answering
<1>17. NoBody(m, n.req)
  <2>1. \A k \in 1..Len(m) : k \in 1..Len(o) \/ k = Len(m)
    BY <1>6
  <2> QED BY <1>3, <1>6, <1>11, <2>1 DEF NoBody
<1>19. Answering(n, m, pk)
  BY <1>11, <1>15, <1>16, <1>17 DEF Answering
<1>18. Connection(n, i, a, m, pk)
  BY <1>1, <1>5, <1>11, <1>12, <1>13, <1>14, <1>19 DEF Connection, History
<1> QED BY <1>18 DEF n, h, m, e

(* HTTP_WRITEABLE, the body.                                                 *)
LEMMA BodyKeeps ==
  ASSUME NEW w, NEW i, NEW a, NEW o, NEW pk, Connection(w, i, a, o, pk),
         w.parsed, ~w.buffered, w.pollout, w.justHeader = 1, NEW q, NEW z,
         NEW v \in Write([w EXCEPT !.pollout = FALSE]),
         NEW f \in BOOLEAN, f <=> (w.state = "BODY" => w.remain = 0)
  PROVE  Connection(IF v.unusable THEN v ELSE TransactionCompleted(v, q, z), i, a,
                    Append(o, [part |-> "body", req |-> w.req, arrived |-> f]), pk)
<1> DEFINE s == [w EXCEPT !.pollout = FALSE]
           e == [part |-> "body", req |-> w.req, arrived |-> f]
           m == Append(o, e)
<1>1. /\ IsWsi(w) /\ Phases(w) /\ Called(w) /\ Serves(w, a) /\ Waits(w, i, a)
      /\ Answering(w, o, pk) /\ History(i, a, o) /\ Ordered(o) /\ Once(o, pk)
  BY DEF Connection
<1>2. w.bound /\ ~w.unusable /\ ~w.deferred /\ w.state # "closed" /\ w.req \in Nat /\ w.remain \in Nat
  BY <1>1 DEF Phases, Called, IsWsi
<1>3. UpTo(o, w.req) /\ HeadersAreLast(o, w.req) /\ NoBody(o, w.req) /\ o \in Seq(Entries)
  BY <1>1, <1>2 DEF Answering, History, BodyIsDue
<1>4. w.req \notin pk => /\ ~(w.state = "BODY" /\ w.remain > 0)
                         /\ \A k \in 1..Len(o) : o[k].req = w.req => o[k].part # "body"
  BY <1>1, <1>2, <1>3 DEF Answering, NoBody
<1>5. w.req \notin pk => f
  BY <1>2, <1>4
<1>6. m \in Seq(Entries) /\ Ordered(m) /\ Once(m, pk) /\ UpTo(m, w.req)
  <2>1. e \in Entries /\ e.part = "body" /\ e.req = w.req /\ e.arrived = f
    BY <1>2 DEF Entries
  <2>2. m = Append(o, e)
    OBVIOUS
  <2> HIDE DEF e, m
  <2>3. e.req \notin pk =>
          e.arrived /\ \A k \in 1..Len(o) : o[k].req = e.req => o[k].part # e.part
    BY <1>4, <1>5, <2>1
  <2>4. UpTo(o, e.req) /\ (e.part = "body" => HeadersAreLast(o, e.req) /\ NoBody(o, e.req))
    BY <1>3, <2>1
  <2>5. m \in Seq(Entries) /\ Ordered(m) /\ Once(m, pk) /\ UpTo(m, e.req)
    BY <1>1, <1>3, <2>1, <2>2, <2>3, <2>4, LogKeeps
  <2> QED BY <2>1, <2>5
<1>7. v \in Write(s)
  OBVIOUS
<1> HIDE DEF s, m
<1>8. /\ IsWsi(s) /\ ~s.pollout
      /\ s.state = w.state /\ s.parsed = w.parsed /\ s.ah = w.ah /\ s.remain = w.remain
      /\ s.bound = w.bound /\ s.justHeader = w.justHeader /\ s.buffered = w.buffered
      /\ s.deferred = w.deferred /\ s.unusable = w.unusable /\ s.timer = w.timer
      /\ s.req = w.req
  BY <1>1, ShotFields DEF s
<1>9. /\ IsWsi(v)
      /\ v.state = w.state /\ v.parsed = w.parsed /\ v.ah = w.ah /\ v.remain = w.remain
      /\ v.bound = w.bound /\ v.justHeader = w.justHeader
      /\ v.deferred = w.deferred /\ v.timer = w.timer /\ v.req = w.req
      /\ v.unusable => ~v.pollout /\ ~v.buffered
  <2>1. ~s.unusable /\ ~s.buffered
    BY <1>2, <1>8
  <2> QED BY <1>7, <1>8, <2>1, WriteFields
<1>10. History(i, a, m) /\ Waits(v, i, a) /\ UpTo(m, v.req) /\ v.req <= Len(a)
  BY <1>1, <1>6, <1>9 DEF History, Waits, Serves
<1>11. CASE v.unusable
  <2>1. Phases(v) /\ Called(v) /\ Serves(v, a)
    BY <1>1, <1>2, <1>9, <1>11 DEF Phases, Called, Serves
  <2>2. ~BodyIsDue(v) /\ v.justHeader # 0 /\ (v.req \notin pk => ~(v.state = "BODY" /\ v.remain > 0))
    BY <1>4, <1>9, <1>11 DEF BodyIsDue
  <2>3. Answering(v, m, pk)
    BY <1>10, <1>11, <2>2 DEF Answering
  <2>4. Connection(v, i, a, m, pk)
    BY <1>6, <1>9, <1>10, <2>1, <2>3 DEF Connection
  <2> QED BY <1>11, <2>4 DEF m
<1>12. CASE ~v.unusable /\ v.buffered
  <2> DEFINE d == [v EXCEPT !.deferred = TRUE]
             n == CallbackOnWritable(d)
  <2>1. TransactionCompleted(v, q, z) = n
    BY <1>12 DEF TransactionCompleted
  <2>2. /\ IsWsi(d) /\ d.deferred /\ d.buffered = v.buffered /\ d.unusable = v.unusable
        /\ d.state = w.state /\ d.parsed = w.parsed /\ d.ah = w.ah /\ d.remain = w.remain
        /\ d.bound = w.bound /\ d.justHeader = w.justHeader /\ d.timer = w.timer /\ d.req = w.req
    BY <1>9 DEF IsWsi, Fresh
  <2> HIDE DEF d
  <2> HIDE DEF n
  <2>3. /\ IsWsi(n) /\ n.state = d.state /\ n.parsed = d.parsed /\ n.ah = d.ah
        /\ n.remain = d.remain /\ n.bound = d.bound /\ n.justHeader = d.justHeader
        /\ n.deferred = d.deferred /\ n.unusable = d.unusable /\ n.timer = d.timer
        /\ n.req = d.req /\ n.buffered = d.buffered /\ (n.pollout <=> d.pollout \/ ~d.unusable)
    BY <2>2, OnWritableFields, Zenon DEF n
  <2>4. /\ n.pollout /\ n.buffered /\ ~n.unusable /\ n.deferred
        /\ n.state = w.state /\ n.parsed = w.parsed /\ n.ah = w.ah /\ n.remain = w.remain
        /\ n.bound = w.bound /\ n.justHeader = w.justHeader /\ n.timer = w.timer /\ n.req = w.req
    BY <1>12, <2>2, <2>3
  <2>5. Phases(n) /\ Called(n) /\ Serves(n, a) /\ Waits(n, i, a)
    BY <1>1, <1>2, <2>4 DEF Phases, Called, Serves, Waits
  <2>6. /\ ~BodyIsDue(n) /\ n.justHeader # 0 /\ UpTo(m, n.req)
        /\ n.req \notin pk => ~(n.state = "BODY" /\ n.remain > 0)
    BY <1>4, <1>6, <2>4 DEF BodyIsDue
  <2>7. Answering(n, m, pk)
    BY <2>4, <2>6 DEF Answering
  <2>8. Connection(n, i, a, m, pk)
    BY <1>6, <1>10, <2>3, <2>5, <2>7 DEF Connection
  <2> QED BY <1>12, <2>1, <2>8 DEF m
<1>13. CASE ~v.unusable /\ ~v.buffered
  <2>1. v.parsed /\ ~v.deferred
    BY <1>2, <1>9
  <2>2. Connection(TransactionCompleted(v, q, z), i, a, m, pk)
    BY <1>6, <1>9, <1>10, <1>13, <2>1, CompletedKeeps
  <2> QED BY <1>13, <2>2 DEF m
<1> QED BY <1>11, <1>12, <1>13
-----------------------------------------------------------------------------
(* A step of one connection leaves the others as they were.                  *)
Elsewhere(c) ==
  \A d \in Conns \ {c} :
    /\ wsi'[d] = wsi[d] /\ in'[d] = in[d] /\ stashed'[d] = stashed[d]
    /\ asked'[d] = asked[d] /\ out'[d] = out[d] /\ poked'[d] = poked[d]

LEMMA StepOfOne ==
  ASSUME HttpInv, NEW c \in Conns, Domains', Elsewhere(c),
         Connection(wsi'[c], in'[c], asked'[c], out'[c], poked'[c]), Stash(stashed'[c], in'[c])
  PROVE  HttpInv'
BY DEF HttpInv, Elsewhere

(* lws_buflist_aware_read() and _consume() keep the stash at the front.      *)
LEMMA ConsumeKeeps ==
  ASSUME HttpInv, NEW c \in Conns, in[c] # <<>>, NEW n \in Offered(c), NEW u \in 0..n,
         Consume(c, n, u)
  PROVE  /\ n \in 1..Len(in[c]) /\ u \in 0..Len(in[c])
         /\ in'[c] = Rest(in[c], u) /\ Stash(stashed'[c], in'[c])
         /\ DOMAIN in' = Conns /\ DOMAIN stashed' = Conns
         /\ \A d \in Conns \ {c} : in'[d] = in[d] /\ stashed'[d] = stashed[d]
<1>1. Domains /\ stashed[c] \in 0..Len(in[c]) /\ in[c] \in Seq(Pieces) /\ Waits(wsi[c], in[c], asked[c])
  BY DEF HttpInv, Stash, Connection, History
<1>2. Len(in[c]) \in Nat
  BY <1>1
<1>3. n \in 1..Len(in[c]) /\ u \in 0..Len(in[c]) /\ (stashed[c] > 0 => u <= stashed[c])
  BY <1>1, <1>2 DEF Offered
<1>4. Len(Rest(in[c], u)) = Len(in[c]) - u
  BY <1>1, <1>3, WaitsRest
<1>5. /\ in' = [in EXCEPT ![c] = Rest(in[c], u)]
      /\ \E k \in 0..(Len(in[c]) - u) : stashed' = [stashed EXCEPT ![c] = k]
  <2>1. in' = [in EXCEPT ![c] = Rest(in[c], u)]
    BY DEF Consume, Rest
  <2>2. CASE stashed[c] > 0
    <3>1. PICK k \in (stashed[c] - u)..(Len(in[c]) - u) : stashed' = [stashed EXCEPT ![c] = k]
      BY <2>2 DEF Consume
    <3>2. k \in 0..(Len(in[c]) - u)
      BY <1>1, <1>2, <1>3, <2>2
    <3> QED BY <2>1, <3>1, <3>2
  <2>3. CASE ~(stashed[c] > 0)
    <3>1. stashed' = [stashed EXCEPT ![c] = n - u]
      BY <2>3 DEF Consume
    <3>2. n - u \in 0..(Len(in[c]) - u)
      BY <1>2, <1>3
    <3> QED BY <2>1, <3>1, <3>2
  <2> QED BY <2>2, <2>3
<1> QED BY <1>1, <1>3, <1>4, <1>5 DEF Domains, Stash

(* Free(): also what every close does.                                       *)
LEMMA FreeKeeps ==
  ASSUME HttpInv, NEW c \in Conns, Free(c) PROVE HttpInv'
<1>1. Domains' /\ Elsewhere(c)
  BY DEF HttpInv, Domains, Elsewhere, Free
<1>2. /\ wsi'[c] = Fresh("closed") /\ in'[c] = <<>> /\ asked'[c] = <<>>
      /\ out'[c] = <<>> /\ poked'[c] = {} /\ Stash(stashed'[c], in'[c])
  BY DEF HttpInv, Domains, Free, Stash
<1> QED BY <1>1, <1>2, EmptyConnection, StepOfOne

(* How much of a buffer of n pieces is a header block and its body.          *)
LEMMA LeastFacts ==
  ASSUME NEW l \in Nat, NEW n \in Nat, n >= 1
  PROVE  LET b == Least(l, n - 1) IN
         b \in Nat /\ b <= l /\ 1 + b \in 1..n /\ 1 + b \in 0..n
BY DEF Least

(* Reading.                                                                  *)
LEMMA ReadKeeps ==
  ASSUME HttpInv, NEW c \in Conns, Read(c) PROVE HttpInv'
<1> DEFINE w == wsi[c]
           i == in[c]
<1>1. /\ Domains /\ Connection(w, i, asked[c], out[c], poked[c])
      /\ i \in Seq(Pieces) /\ asked[c] \in Seq(Requests) /\ w.remain \in Nat
  BY DEF HttpInv, Connection, History, IsWsi
<1>2. CASE ReadHeaders(c)
  <2> DEFINE r == Head(i).req
             q == asked[c][r]
             h == HttpAction(Parsed(w, r), q)
  <2>1. PICK n \in Offered(c) :
          /\ Consume(c, n, 1 + Least(q.len, n - 1))
          /\ wsi' = [wsi EXCEPT ![c] = PostBody(h, Least(q.len, n - 1))]
    BY <1>2 DEF ReadHeaders
  <2> DEFINE b == Least(q.len, n - 1)
  <2>2. i # <<>> /\ w.state \in {"HEADERS", "ESTABLISHED"} /\ ~w.ah /\ Head(i).part = 0
    BY <1>2 DEF ReadHeaders, AtHeaders, Reading
  <2>3. asked' = asked /\ out' = out /\ poked' = poked
    BY <1>2 DEF ReadHeaders
  <2>4. r \in 1..Len(asked[c]) /\ q.len \in Nat
    <3>1. Len(i) \in Nat /\ Len(i) > 0 /\ Waits(w, i, asked[c]) /\ Head(i) = i[1]
      BY <1>1, <2>2 DEF Connection
    <3>2. r \in 1..Len(asked[c])
      BY <3>1 DEF Waits
    <3> QED BY <1>1, <3>2, RequestsOK
  <2>5. n \in Nat /\ n >= 1
    <3>1. Len(i) \in Nat /\ stashed[c] \in Nat
      BY <1>1 DEF HttpInv, Stash
    <3> QED BY <3>1 DEF Offered
  <2>6. b \in Nat /\ b <= q.len /\ 1 + b \in 1..n /\ 1 + b \in 0..n
    BY <2>4, <2>5, LeastFacts
  <2> HIDE DEF b, h
  <2>7. Consume(c, n, 1 + b) /\ wsi' = [wsi EXCEPT ![c] = PostBody(h, b)]
    BY <2>1 DEF b, h
  <2>8. /\ n \in 1..Len(i) /\ 1 + b \in 0..Len(i)
        /\ in'[c] = Rest(i, 1 + b) /\ Stash(stashed'[c], in'[c])
        /\ DOMAIN in' = Conns /\ DOMAIN stashed' = Conns
        /\ \A d \in Conns \ {c} : in'[d] = in[d] /\ stashed'[d] = stashed[d]
    BY <2>2, <2>6, <2>7, ConsumeKeeps
  <2>9. Domains' /\ Elsewhere(c)
    BY <1>1, <2>3, <2>7, <2>8 DEF Domains, Elsewhere
  <2>10. 1 + b \in 1..Len(i)
    BY <2>6, <2>8
  <2>11. /\ Connection(h, Rest(i, 1 + b), asked[c], out[c], poked[c])
         /\ q.len > 0 => h.state = "BODY" /\ h.remain = q.len
    BY <1>1, <2>2, <2>10, ReadHeadersKeeps DEF h
  <2>12. Connection(PostBody(h, b), Rest(i, 1 + b), asked[c], out[c], poked[c])
    <3>1. CASE b = 0
      <4>1. PostBody(h, b) = h
        BY <3>1 DEF PostBody
      <4> QED BY <2>11, <4>1
    <3>2. CASE b # 0
      <4>1. h.state = "BODY" /\ b \in 1..h.remain
        BY <2>4, <2>6, <2>11, <3>2
      <4> QED BY <2>11, <4>1, PostBodyKeeps
    <3> QED BY <3>1, <3>2
  <2>13. wsi'[c] = PostBody(h, b)
    BY <1>1, <2>7 DEF Domains
  <2> QED BY <2>3, <2>8, <2>9, <2>12, <2>13, StepOfOne
<1>3. CASE ReadStashedPost(c)
  BY <1>3 DEF ReadStashedPost, HttpInv, Domains
<1>4. CASE ReadGarbage(c)
  BY <1>4, FreeKeeps DEF ReadGarbage
<1>5. CASE ReadAgain(c)
  <2>1. PICK n \in Offered(c) : Consume(c, n, n)
    BY <1>5 DEF ReadAgain
  <2>2. i # <<>> /\ w.state = "ESTABLISHED" /\ w.ah
    BY <1>5 DEF ReadAgain, Reading
  <2>3. /\ wsi' = [wsi EXCEPT ![c] =
                     HttpAction([w EXCEPT !.parsed = FALSE, !.timer = "none"], asked[c][w.req])]
        /\ asked' = asked /\ out' = out /\ poked' = poked
    BY <1>5 DEF ReadAgain, Request
  <2>4. n \in 0..n
    <3>1. Len(i) \in Nat /\ stashed[c] \in Nat
      BY <1>1 DEF HttpInv, Stash
    <3> QED BY <3>1 DEF Offered
  <2>5. /\ n \in 0..Len(i)
        /\ in'[c] = Rest(i, n) /\ Stash(stashed'[c], in'[c])
        /\ DOMAIN in' = Conns /\ DOMAIN stashed' = Conns
        /\ \A d \in Conns \ {c} : in'[d] = in[d] /\ stashed'[d] = stashed[d]
    BY <2>1, <2>2, <2>4, ConsumeKeeps
  <2>6. Domains' /\ Elsewhere(c)
    BY <1>1, <2>3, <2>5 DEF Domains, Elsewhere
  <2>7. Connection(wsi'[c], Rest(i, n), asked[c], out[c], poked[c])
    <3>1. wsi'[c] = HttpAction([w EXCEPT !.parsed = FALSE, !.timer = "none"], asked[c][w.req])
      BY <1>1, <2>3 DEF Domains
    <3> QED BY <1>1, <2>2, <2>5, <3>1, ReadAgainKeeps
  <2> QED BY <2>3, <2>5, <2>6, <2>7, StepOfOne
<1>6. CASE ReadBody(c)
  <2>1. PICK n \in Offered(c) :
          /\ Consume(c, n, Least(w.remain, n))
          /\ wsi' = [wsi EXCEPT ![c] = PostBody(w, Least(w.remain, n))]
    BY <1>6 DEF ReadBody
  <2> DEFINE b == Least(w.remain, n)
  <2>2. i # <<>> /\ w.state = "BODY" /\ w.remain > 0
    BY <1>6 DEF ReadBody, Reading
  <2>3. asked' = asked /\ out' = out /\ poked' = poked
    BY <1>6 DEF ReadBody
  <2>4. b \in 0..n /\ b \in 1..w.remain
    <3>1. Len(i) \in Nat /\ stashed[c] \in Nat
      BY <1>1 DEF HttpInv, Stash
    <3>2. n \in Nat /\ n >= 1
      BY <3>1 DEF Offered
    <3> QED BY <1>1, <2>2, <3>2 DEF Least
  <2> HIDE DEF b
  <2>5. Consume(c, n, b) /\ wsi' = [wsi EXCEPT ![c] = PostBody(w, b)]
    BY <2>1 DEF b
  <2>6. /\ b \in 0..Len(i)
        /\ in'[c] = Rest(i, b) /\ Stash(stashed'[c], in'[c])
        /\ DOMAIN in' = Conns /\ DOMAIN stashed' = Conns
        /\ \A d \in Conns \ {c} : in'[d] = in[d] /\ stashed'[d] = stashed[d]
    BY <2>2, <2>4, <2>5, ConsumeKeeps
  <2>7. Domains' /\ Elsewhere(c)
    BY <1>1, <2>3, <2>5, <2>6 DEF Domains, Elsewhere
  <2>8. Connection(PostBody(w, b), i, asked[c], out[c], poked[c])
    BY <1>1, <2>2, <2>4, PostBodyKeeps
  <2>9. Connection(PostBody(w, b), Rest(i, b), asked[c], out[c], poked[c])
    BY <2>2, <2>6, <2>8, RestKeeps
  <2>10. wsi'[c] = PostBody(w, b)
    BY <1>1, <2>5 DEF Domains
  <2> QED BY <2>3, <2>6, <2>7, <2>9, <2>10, StepOfOne
<1>7. CASE ReadEarly(c)
  <2> DEFINE z == BodyCompletion([w EXCEPT !.timer = "none"])
  <2>1. PICK n \in Offered(c) : Consume(c, n, 0)
    BY <1>7 DEF ReadEarly
  <2>2. i # <<>> /\ w.state = "BODY" /\ w.remain = 0
    BY <1>7 DEF ReadEarly, Reading
  <2>3. wsi' = [wsi EXCEPT ![c] = z] /\ asked' = asked /\ out' = out /\ poked' = poked
    BY <1>7 DEF ReadEarly
  <2>4. 0 \in 0..n
    <3>1. Len(i) \in Nat /\ stashed[c] \in Nat
      BY <1>1 DEF HttpInv, Stash
    <3> QED BY <3>1 DEF Offered
  <2>5. /\ 0 \in 0..Len(i)
        /\ in'[c] = Rest(i, 0) /\ Stash(stashed'[c], in'[c])
        /\ DOMAIN in' = Conns /\ DOMAIN stashed' = Conns
        /\ \A d \in Conns \ {c} : in'[d] = in[d] /\ stashed'[d] = stashed[d]
    BY <2>1, <2>2, <2>4, ConsumeKeeps
  <2>6. Domains' /\ Elsewhere(c)
    BY <1>1, <2>3, <2>5 DEF Domains, Elsewhere
  <2>7. Connection(z, i, asked[c], out[c], poked[c])
    BY <1>1, <2>2, ReadEarlyKeeps
  <2> HIDE DEF z
  <2>8. Connection(z, Rest(i, 0), asked[c], out[c], poked[c])
    BY <2>2, <2>5, <2>7, RestKeeps
  <2>9. wsi'[c] = z
    BY <1>1, <2>3 DEF Domains
  <2> QED BY <2>3, <2>5, <2>6, <2>8, <2>9, StepOfOne
<1> QED BY <1>2, <1>3, <1>4, <1>5, <1>6, <1>7 DEF Read

(* Writing.                                                                  *)
LEMMA PolloutKeeps ==
  ASSUME HttpInv, NEW c \in Conns, Pollout(c) \/ WriteableFlushPart(c) PROVE HttpInv'
<1> DEFINE s == [wsi[c] EXCEPT !.pollout = FALSE]
<1>1. /\ Domains /\ Connection(wsi[c], in[c], asked[c], out[c], poked[c])
      /\ Stash(stashed[c], in[c])
  BY DEF HttpInv
<1>2. CASE WriteableIdle(c)
  <2> DEFINE n == IF wsi[c].state = "DEFERRING_ACTION" THEN [s EXCEPT !.state = "ESTABLISHED"]
                  ELSE s
  <2>1. Domains' /\ Elsewhere(c)
    BY <1>1, <1>2 DEF Domains, Elsewhere, WriteableIdle
  <2>2. wsi'[c] = n /\ in' = in /\ stashed' = stashed /\ asked' = asked /\ out' = out /\ poked' = poked
    BY <1>1, <1>2 DEF Domains, WriteableIdle, Shot
  <2>3. ~wsi[c].parsed /\ wsi[c].state # "closed"
    BY <1>2 DEF WriteableIdle, Writeable, Open
  <2>4. Connection(n, in[c], asked[c], out[c], poked[c])
    BY <1>1, <2>3, IdleKeeps
  <2> QED BY <1>1, <2>1, <2>2, <2>4, StepOfOne
<1>3. CASE WriteableFlush(c) \/ WriteableFlushPart(c)
  <2>1. Domains' /\ Elsewhere(c)
    BY <1>1, <1>3 DEF Domains, Elsewhere, WriteableFlush, WriteableFlushPart
  <2>2. wsi[c].parsed /\ wsi[c].buffered /\ wsi[c].pollout
    BY <1>3 DEF WriteableFlush, WriteableFlushPart, Writeable
  <2>3. /\ in' = in /\ stashed' = stashed /\ asked' = asked /\ out' = out /\ poked' = poked
        /\ \/ wsi'[c] = IF wsi[c].deferred
                        THEN TransactionCompleted([s EXCEPT !.buffered = FALSE, !.deferred = FALSE],
                                                  Request(c), stashed[c])
                        ELSE CallbackOnWritable([s EXCEPT !.buffered = FALSE])
           \/ wsi'[c] = CallbackOnWritable(s)
    BY <1>1, <1>3 DEF Domains, WriteableFlush, WriteableFlushPart, Shot
  <2>4. /\ wsi[c].deferred => Connection(
              TransactionCompleted([s EXCEPT !.buffered = FALSE, !.deferred = FALSE], Request(c),
                                   stashed[c]),
              in[c], asked[c], out[c], poked[c])
        /\ ~wsi[c].deferred => Connection(
              CallbackOnWritable([s EXCEPT !.buffered = FALSE]), in[c], asked[c], out[c], poked[c])
        /\ Connection(CallbackOnWritable(s), in[c], asked[c], out[c], poked[c])
    BY <1>1, <2>2, FlushKeeps
  <2>5. Connection(wsi'[c], in'[c], asked'[c], out'[c], poked'[c])
    BY <2>3, <2>4
  <2> QED BY <1>1, <2>1, <2>3, <2>5, StepOfOne
<1> DEFINE f == Arrived(c)
<1>4. f \in BOOLEAN /\ (f <=> (wsi[c].state = "BODY" => wsi[c].remain = 0))
  BY DEF Arrived
<1>5. CASE WriteableHeaders(c)
  <2>1. PICK v \in Write(s) :
          wsi' = [wsi EXCEPT ![c] = CallbackOnWritable([v EXCEPT !.justHeader = 1])]
    BY <1>5 DEF WriteableHeaders, Shot
  <2>2. Domains' /\ Elsewhere(c)
    BY <1>1, <1>5, <2>1 DEF Domains, Elsewhere, WriteableHeaders, Log
  <2>3. /\ wsi'[c] = CallbackOnWritable([v EXCEPT !.justHeader = 1])
        /\ out'[c] = Append(out[c], [part |-> "headers", req |-> wsi[c].req, arrived |-> f])
        /\ in' = in /\ stashed' = stashed /\ asked' = asked /\ poked' = poked
    BY <1>1, <1>5, <2>1 DEF Domains, WriteableHeaders, Log
  <2>4. wsi[c].parsed /\ ~wsi[c].buffered /\ wsi[c].pollout /\ wsi[c].justHeader = 0
    BY <1>5 DEF WriteableHeaders, Writeable
  <2> HIDE DEF f
  <2>5. Connection(wsi'[c], in'[c], asked'[c], out'[c], poked'[c])
    BY <1>1, <1>4, <2>1, <2>3, <2>4, HeadersKeep
  <2> QED BY <1>1, <2>2, <2>3, <2>5, StepOfOne
<1>6. CASE WriteableBody(c)
  <2>1. PICK v \in Write(s) :
          wsi' = [wsi EXCEPT ![c] = IF v.unusable THEN v ELSE TransactionCompleted(v, Request(c), stashed[c])]
    BY <1>6 DEF WriteableBody, Shot
  <2>2. Domains' /\ Elsewhere(c)
    BY <1>1, <1>6, <2>1 DEF Domains, Elsewhere, WriteableBody, Log
  <2>3. /\ wsi'[c] = IF v.unusable THEN v ELSE TransactionCompleted(v, Request(c), stashed[c])
        /\ out'[c] = Append(out[c], [part |-> "body", req |-> wsi[c].req, arrived |-> f])
        /\ in' = in /\ stashed' = stashed /\ asked' = asked /\ poked' = poked
    BY <1>1, <1>6, <2>1 DEF Domains, WriteableBody, Log
  <2>4. wsi[c].parsed /\ ~wsi[c].buffered /\ wsi[c].pollout /\ wsi[c].justHeader = 1
    BY <1>6 DEF WriteableBody, Writeable
  <2> HIDE DEF f
  <2>5. Connection(IF v.unusable THEN v ELSE TransactionCompleted(v, Request(c), stashed[c]), in[c], asked[c],
                   Append(out[c], [part |-> "body", req |-> wsi[c].req, arrived |-> f]), poked[c])
    BY <1>1, <1>4, <2>1, <2>4, BodyKeeps
  <2>6. Connection(wsi'[c], in'[c], asked'[c], out'[c], poked'[c])
    BY <2>3, <2>5
  <2> QED BY <1>1, <2>2, <2>3, <2>6, StepOfOne
<1> QED BY <1>2, <1>3, <1>5, <1>6 DEF Pollout
-----------------------------------------------------------------------------
(***************************************************************************)
(* The inductive invariant: on every connection the wsi, the input still to *)
(* be read and what was written agree, through partial and failed writes,   *)
(* pipelined requests, closes, timeouts and EVENT_WAIT_CANCELLED.           *)
(***************************************************************************)
THEOREM HttpInvariant == Spec => []HttpInv
<1>1. Init => HttpInv
  <2> SUFFICES ASSUME Init PROVE HttpInv
    OBVIOUS
  <2>1. Domains
    BY DEF Init, Domains
  <2>2. ASSUME NEW c \in Conns
        PROVE  /\ wsi[c] = Fresh("closed") /\ in[c] = <<>> /\ asked[c] = <<>>
               /\ out[c] = <<>> /\ poked[c] = {} /\ Stash(stashed[c], in[c])
    BY DEF Init, Stash
  <2> QED BY <2>1, <2>2, EmptyConnection DEF HttpInv
<1>2. HttpInv /\ [Next]_vars => HttpInv'
  <2> SUFFICES ASSUME HttpInv, [Next]_vars PROVE HttpInv'
    OBVIOUS
  <2>1. CASE UNCHANGED vars
    BY <2>1 DEF vars, HttpInv, Domains
  <2>2. CASE EventWaitCancelled
    <3>1. Domains' /\ in' = in /\ stashed' = stashed /\ asked' = asked /\ out' = out
      BY <2>2 DEF HttpInv, Domains, EventWaitCancelled
    <3>2. ASSUME NEW c \in Conns
          PROVE  Connection(wsi'[c], in'[c], asked'[c], out'[c], poked'[c])
      <4>1. Connection(wsi[c], in[c], asked[c], out[c], poked[c])
        BY DEF HttpInv
      <4>2. CASE wsi[c].bound
        <5>1. wsi'[c] = CallbackOnWritable(wsi[c]) /\ poked'[c] = poked[c] \cup {wsi[c].req}
          BY <2>2, <4>2 DEF EventWaitCancelled
        <5> QED BY <3>1, <4>1, <4>2, <5>1, PokeKeeps
      <4>3. CASE ~wsi[c].bound
        <5>1. wsi'[c] = wsi[c] /\ poked'[c] = poked[c]
          BY <2>2, <4>3 DEF EventWaitCancelled
        <5> QED BY <3>1, <4>1, <5>1
      <4> QED BY <4>2, <4>3
    <3> QED BY <3>1, <3>2 DEF HttpInv
  <2>3. ASSUME NEW c \in Conns, Adopt(c) PROVE HttpInv'
    <3>1. Domains' /\ Elsewhere(c)
      BY <2>3 DEF HttpInv, Domains, Elsewhere, Adopt
    <3>2. /\ wsi'[c] = [Fresh("HEADERS") EXCEPT !.timer = "HOLDING_AH"] /\ in'[c] = <<>>
          /\ asked'[c] = <<>> /\ out'[c] = <<>> /\ poked'[c] = {} /\ Stash(stashed'[c], in'[c])
      BY <2>3 DEF HttpInv, Domains, Adopt, Stash
    <3>3. Connection(wsi'[c], <<>>, <<>>, <<>>, {})
      BY <3>2, EmptyConnection
    <3> QED BY <3>1, <3>2, <3>3, StepOfOne
  <2>4. ASSUME NEW c \in Conns, NEW q \in Requests, Ask(c, q) PROVE HttpInv'
    <3> DEFINE r == Len(asked[c]) + 1
               s == [k \in 1..(q.len + 1) |-> [req |-> r, part |-> k - 1]]
    <3>1. Domains' /\ Elsewhere(c)
      BY <2>4 DEF HttpInv, Domains, Elsewhere, Ask
    <3>2. /\ in'[c] = in[c] \o s /\ asked'[c] = Append(asked[c], q)
          /\ wsi' = wsi /\ stashed' = stashed /\ out' = out /\ poked' = poked
      BY <2>4 DEF HttpInv, Domains, Ask
    <3>3. Connection(wsi[c], in[c] \o s, Append(asked[c], q), out[c], poked[c])
      BY AskKeeps DEF HttpInv
    <3>4. Stash(stashed'[c], in'[c])
      <4>1. in[c] \in Seq(Pieces) /\ in[c] \o s \in Seq(Pieces) /\ stashed[c] \in 0..Len(in[c])
        BY <3>3 DEF HttpInv, Connection, History, Stash
      <4>2. s \in Seq(Pieces)
        <5>1. q.len \in Nat /\ r \in Nat
          BY RequestsOK DEF HttpInv, Connection, History
        <5>2. s \in [1..(q.len + 1) -> Pieces]
          BY <5>1 DEF Pieces
        <5> HIDE DEF s
        <5> QED BY <5>1, <5>2
      <4> HIDE DEF s
      <4>3. Len(in[c] \o s) = Len(in[c]) + Len(s) /\ Len(s) \in Nat /\ Len(in[c]) \in Nat
        BY <4>1, <4>2
      <4> QED BY <3>2, <4>1, <4>3 DEF Stash
    <3> QED BY <3>1, <3>2, <3>3, <3>4, StepOfOne
  <2>5. ASSUME NEW c \in Conns, Close(c) \/ Timeout(c) PROVE HttpInv'
    BY <2>5, FreeKeeps DEF Close, Timeout
  <2> QED BY <2>1, <2>2, <2>3, <2>4, <2>5, ReadKeeps, PolloutKeeps DEF Next
<1> QED BY <1>1, <1>2, PTL DEF Spec

(* A set any two members of which are the same has at most one.              *)
LEMMA AtMostOne ==
  ASSUME NEW S, \A x, y \in S : x = y
  PROVE  Cardinality(S) <= 1
<1>1. CASE S = {}
  BY <1>1, FS_EmptySet
<1>2. CASE S # {}
  <2>1. PICK x \in S : TRUE
    BY <1>2
  <2>2. S = {x}
    BY <2>1
  <2>3. Cardinality({x}) = 1
    BY FS_Singleton
  <2> QED BY <2>2, <2>3
<1> QED BY <1>1, <1>2

(***************************************************************************)
(* Responses are whole: one body to a request, directly behind headers of   *)
(* its own, in the order of the requests, nothing buffered is carried into  *)
(* the next transaction, and a request that no EVENT_WAIT_CANCELLED fell    *)
(* into gets its headers once and nothing before all of it arrived.         *)
(***************************************************************************)
THEOREM ResponsesCorrect == Spec => []ResponsesAreWhole
<1>1. HttpInv => ResponsesAreWhole
  <2> SUFFICES ASSUME HttpInv PROVE ResponsesAreWhole
    OBVIOUS
  <2>1. ASSUME NEW c \in Conns
        PROVE  /\ Ordered(out[c]) /\ Once(out[c], poked[c]) /\ Phases(wsi[c])
    BY DEF HttpInv, Connection
  <2>2. BodyAfterHeaders
    BY <2>1 DEF BodyAfterHeaders, Ordered
  <2>3. BufferedIsCurrent
    BY <2>1 DEF BufferedIsCurrent, Phases
  <2>4. OneResponse
    <3> SUFFICES ASSUME NEW c \in Conns, NEW r \in 1..Len(asked[c])
                 PROVE  /\ Cardinality(Bodies(c, r)) <= 1
                        /\ r \notin poked[c] =>
                             /\ Cardinality(Headers(c, r)) <= 1
                             /\ \A i \in Headers(c, r) \cup Bodies(c, r) : out[c][i].arrived
      BY DEF OneResponse
    <3>1. r \notin poked[c] => \A x, y \in Headers(c, r) : x = y
      BY <2>1 DEF Headers, Once
    <3>2. \A x, y \in Bodies(c, r) : x = y
      BY <2>1 DEF Bodies, Once, OneBody
    <3>3. r \notin poked[c] => \A i \in Headers(c, r) \cup Bodies(c, r) : out[c][i].arrived
      BY <2>1 DEF Headers, Bodies, Once
    <3> QED BY <3>1, <3>2, <3>3, AtMostOne
  <2> QED BY <2>2, <2>3, <2>4 DEF ResponsesAreWhole
<1> QED BY <1>1, HttpInvariant, PTL

(***************************************************************************)
(* While the service thread goes round no connection is forgotten: a        *)
(* timeout runs, a callback is on its way or the socket failed, and a POST  *)
(* that is all here waits for the callback.                                 *)
(***************************************************************************)
THEOREM ForgottenNever == Spec => []NeverForgotten
<1>1. HttpInv => NeverForgotten
  <2> SUFFICES ASSUME HttpInv, NEW c \in Conns
               PROVE  /\ Open(c) => wsi[c].timer # "none" \/ wsi[c].pollout \/ wsi[c].unusable
                      /\ Unanswered(c) => wsi[c].pollout \/ wsi[c].unusable
    BY DEF NeverForgotten
  <2>1. Called(wsi[c])
    BY DEF HttpInv, Connection
  <2> QED BY <2>1 DEF Called, Open, Unanswered, Arrived
<1> QED BY <1>1, HttpInvariant, PTL
===============================================================================
