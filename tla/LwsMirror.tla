------------------------------ MODULE LwsMirror ------------------------------
(***************************************************************************)
(* plugins/protocol_lws_mirror.c: what one session sends is written to       *)
(* every session of the same mirror instance.  An instance keeps the        *)
(* messages in an lws_ring, a session keeps a tail; reception is switched    *)
(* off while the ring is nearly full, and the slowest session is given      *)
(* three seconds.  One service thread runs the callbacks, each to its end.  *)
(***************************************************************************)
EXTENDS LwsRing, FiniteSets

CONSTANTS
  Conns,          \* websockets with this protocol
  Names,          \* values of ?mirror=
  QUEUELEN,       \* elements of a ring
  RXFLOW_MIN,     \* less free than this: no more reception
  MaxInstances,   \* MAX_MIRROR_INSTANCES
  NoName,         \* pss->mi is NULL
  MaxMessages     \* bound: messages per instance

RXFLOW_MAX == (2 * QUEUELEN) \div 3

(* sizeof(struct a_message); any size of two bytes or more is alike.         *)
MessageLen == 2

ASSUME MirrorAssumption ==
  /\ QUEUELEN \in Nat \ {0}
  /\ RXFLOW_MIN \in 1..RXFLOW_MAX
  /\ NoName \notin Names

VARIABLES
  mi_list,      \* names of the instances there are
  rings,        \* mi->ring
  rx_enabled,   \* mi->rx_enabled
  mi,           \* pss->mi
  tails,        \* pss->tail
  rxflow,       \* connections whose input is read
  pollout,      \* connections with POLLOUT requested
  timeout,      \* connections with the 3s timeout running
  stuck,        \* connections whose peer has stopped reading
  \* history
  sent,         \* messages that went into the instance's ring
  backlog,      \* whether anything waited when its oldest tail last moved
  last,         \* the last one the session was written, or given up before it came
  newcomer,     \* sessions that came since the oldest tail last moved
  unasked       \* sessions for which no message asked a callback yet

instanceVars == <<mi_list, rings, rx_enabled, sent, backlog>>
mirrorVars == <<instanceVars, mi, tails, last, newcomer, unasked, rxflow, pollout, timeout, stuck>>

(* mi->same_mi_pss_list, and what waits for a session.                       *)
Bound(n) == {c \in Conns : mi[c] = n}
Waiting(c) == WaitingElements(rings[mi[c]], tails[c])

MInit ==
  /\ mi_list = {}
  /\ rings = [n \in Names |-> lws_ring_create(MessageLen, QUEUELEN)]
  /\ rx_enabled = [n \in Names |-> TRUE]
  /\ mi = [c \in Conns |-> NoName]
  /\ tails = [c \in Conns |-> 0]
  /\ rxflow = {}
  /\ pollout = {}
  /\ timeout = {}
  /\ stuck = {}
  /\ sent = [n \in Names |-> 0]
  /\ backlog = [n \in Names |-> FALSE]
  /\ last = [c \in Conns |-> 0]
  /\ newcomer = {}
  /\ unasked = {}

(***************************************************************************)
(* ESTABLISHED.  Joins the instance of that name, or makes it; with          *)
(* MAX_MIRROR_INSTANCES others, or no memory, the connection is refused and *)
(* nothing changes.  Nobody asks for a callback on the newcomer's behalf.   *)
(***************************************************************************)
Established(c, n) ==
  /\ mi[c] = NoName
  /\ \/ n \in mi_list /\ UNCHANGED instanceVars
     \/ /\ n \notin mi_list
        /\ Cardinality(mi_list) # MaxInstances
        /\ mi_list' = mi_list \cup {n}
        /\ rings' = [rings EXCEPT ![n] = lws_ring_create(MessageLen, QUEUELEN)]
        /\ rx_enabled' = [rx_enabled EXCEPT ![n] = TRUE]
        /\ sent' = [sent EXCEPT ![n] = 0]
        /\ backlog' = [backlog EXCEPT ![n] = FALSE]
  /\ mi' = [mi EXCEPT ![c] = n]
  /\ tails' = [tails EXCEPT ![c] = rings'[n].oldest_tail]
  /\ rxflow' = rxflow \cup {c}
  /\ last' = [last EXCEPT ![c] = sent'[n] - WaitingElements(rings'[n], tails'[c])]
  /\ newcomer' = newcomer \cup {c}
  /\ unasked' = unasked \cup {c}
  /\ UNCHANGED <<pollout, timeout, stuck>>

\* Mutant: reception is switched on again only by who finds the ring empty.
EnoughRoomEmpty(r) == FreeElements(r) > RXFLOW_MAX

(* The test in front of re-enabling reception.                               *)
EnoughRoom(r) == FreeElements(r) >= RXFLOW_MAX

\* Mutant: a timeout once set is left running.
TimeoutKept(idle, slowest) == timeout \cup slowest

\* Mutant: nobody is hurried.
TimeoutNever(idle, slowest) == timeout \ idle

(* The connections on the timeout, after it was cleared for idle and set for *)
(* slowest.                                                                  *)
TimeoutAfter(idle, slowest) == (timeout \ idle) \cup slowest

\* Mutant: the session that is furthest ahead decides.
WorstTailBest(r, us, t) ==
  t[CHOOSE c \in us : \A d \in us : WaitingElements(r, t[c]) <= WaitingElements(r, t[d])]

(***************************************************************************)
(* __mirror_update_worst_tail() over the sessions us, whose tails are t:     *)
(* nothing happens unless the oldest tail moves on.  idle are the           *)
(* connections whose timeout was cleared just before.                       *)
(***************************************************************************)
WorstTail(r, us, t) ==
  t[CHOOSE c \in us : \A d \in us : WaitingElements(r, t[c]) >= WaitingElements(r, t[d])]

UpdateWorstTail(n, us, t, idle) ==
  \E worst \in {WorstTail(rings[n], us, t)} :
    \E r \in {lws_ring_update_oldest_tail(rings[n], worst)} :
      LET moved == worst # rings[n].oldest_tail
          left == WaitingElements(r, worst) > 0
          reopen == moved /\ ~rx_enabled[n] /\ EnoughRoom(r)
      IN /\ rings' = [rings EXCEPT ![n] = r]
         /\ rx_enabled' = [rx_enabled EXCEPT ![n] = @ \/ reopen]
         /\ rxflow' = (rxflow \ (Bound(n) \ us)) \cup (IF reopen THEN us ELSE {})
         /\ timeout' = TimeoutAfter(idle, {c \in us : moved /\ left /\ t[c] = worst})
         /\ backlog' = [backlog EXCEPT ![n] = IF moved THEN left ELSE @]
         /\ newcomer' = newcomer \ (IF moved THEN Bound(n) ELSE Bound(n) \ us)

(* __mirror_rxflow_instance(mi, 0)                                           *)
StopReception(n) ==
  /\ rx_enabled' = [rx_enabled EXCEPT ![n] = FALSE]
  /\ rxflow' = IF rx_enabled[n] THEN rxflow \ Bound(n) ELSE rxflow

(***************************************************************************)
(* RECEIVE.  A message that finds no room is dropped; one for which there   *)
(* is no memory is dropped too, and nothing changes.                        *)
(***************************************************************************)
Receive(c) ==
  /\ mi[c] # NoName
  /\ c \in rxflow
  /\ LET n == mi[c] IN
       /\ \/ /\ FreeElements(rings[n]) = 0
             /\ StopReception(n)
             /\ UNCHANGED <<rings, sent>>
          \/ /\ FreeElements(rings[n]) > 0
             /\ sent[n] < MaxMessages
             /\ rings' = [rings EXCEPT ![n] = lws_ring_insert(@, <<sent[n] + 1>>)]
             /\ sent' = [sent EXCEPT ![n] = @ + 1]
             /\ IF FreeElements(rings'[n]) < RXFLOW_MIN THEN StopReception(n)
                ELSE UNCHANGED <<rx_enabled, rxflow>>
       /\ pollout' = pollout \cup Bound(n)
       /\ unasked' = unasked \ Bound(n)
  /\ UNCHANGED <<mi_list, backlog, mi, tails, last, newcomer, timeout, stuck>>

(* "if any left for us to send, ask for writeable again"                     *)
AskAgain(c, waiting) == IF waiting > 0 THEN {c} ELSE {}

(* update_worst: only a session at the oldest tail can have moved it.        *)
HoldsOldest(r, t) == r.oldest_tail = t

(***************************************************************************)
(* SERVER_WRITEABLE: k messages go out before the socket is choked.  If the  *)
(* session held the oldest tail it is rid of its timeout, and the oldest    *)
(* tail is looked for again.  A write that fails closes the connection:     *)
(* that is Closed.                                                          *)
(***************************************************************************)
Writeable(c) ==
  /\ c \in pollout
  /\ c \notin stuck
  /\ mi[c] # NoName
  /\ \E k \in 0..Waiting(c) :
       /\ Waiting(c) > 0 => k > 0
       /\ last' = [last EXCEPT ![c] = IF k > 0 THEN CopyOut(rings[mi[c]], tails[c], k)[k] ELSE @]
       /\ tails' = [tails EXCEPT ![c] = After(rings[mi[c]], @, k)]
       /\ pollout' = (pollout \ {c}) \cup AskAgain(c, Waiting(c) - k)
       /\ UNCHANGED <<mi, unasked, mi_list, sent, stuck>>
       /\ IF k > 0 /\ HoldsOldest(rings[mi[c]], tails[c])
          THEN UpdateWorstTail(mi[c], Bound(mi[c]), tails', {c})
          ELSE UNCHANGED <<rings, rx_enabled, rxflow, timeout, backlog, newcomer>>

(***************************************************************************)
(* CLOSED: the peer went, a write failed, or the timeout passed.  The last  *)
(* session takes the instance and its ring with it.                         *)
(***************************************************************************)
Closed(c) ==
  /\ mi[c] # NoName
  /\ mi' = [mi EXCEPT ![c] = NoName]
  /\ pollout' = pollout \ {c}
  /\ stuck' = stuck \ {c}
  /\ tails' = [tails EXCEPT ![c] = 0]
  /\ last' = [last EXCEPT ![c] = 0]
  /\ unasked' = unasked \ {c}
  /\ LET n == mi[c]
         others == Bound(n) \ {c}
     IN IF others # {}
        THEN UpdateWorstTail(n, others, tails, {c}) /\ UNCHANGED <<mi_list, sent>>
        ELSE /\ mi_list' = mi_list \ {n}
             /\ rings' = [rings EXCEPT ![n] = lws_ring_create(MessageLen, QUEUELEN)]
             /\ rx_enabled' = [rx_enabled EXCEPT ![n] = TRUE]
             /\ sent' = [sent EXCEPT ![n] = 0]
             /\ backlog' = [backlog EXCEPT ![n] = FALSE]
             /\ rxflow' = rxflow \ {c}
             /\ timeout' = timeout \ {c}
             /\ newcomer' = newcomer \ {c}

TimedOut(c) == c \in timeout /\ Closed(c)

(* The library leaves POLLOUT on after a ping or a pong of its own.          *)
LibraryWrite(c) ==
  /\ mi[c] # NoName
  /\ c \notin pollout
  /\ pollout' = pollout \cup {c}
  /\ UNCHANGED <<instanceVars, mi, tails, last, newcomer, unasked, rxflow, timeout, stuck>>

PeerStopsReading(c) ==
  /\ mi[c] # NoName
  /\ c \notin stuck
  /\ stuck' = stuck \cup {c}
  /\ UNCHANGED <<instanceVars, mi, tails, last, newcomer, unasked, rxflow, pollout, timeout>>

MNext ==
  \E c \in Conns :
    \/ \E n \in Names : Established(c, n)
    \/ Receive(c)
    \/ Writeable(c)
    \/ Closed(c)
    \/ LibraryWrite(c)
    \/ PeerStopsReading(c)

MSpec == MInit /\ [][MNext]_mirrorVars

(* The service loop calls who has POLLOUT on and a peer that reads, and      *)
(* closes whose timeout has passed.                                          *)
MFairSpec ==
  MSpec /\ \A c \in Conns : WF_mirrorVars(Writeable(c)) /\ WF_mirrorVars(TimedOut(c))
-----------------------------------------------------------------------------
(***************************************************************************)
(* Nothing is lost: what the ring holds for a session are the messages from *)
(* the one after the last it was written up to the newest, each once and in *)
(* order.  In particular no payload is freed under a session that has not   *)
(* had it, although only a session at the oldest tail looks for a new one.  *)
(***************************************************************************)
NothingLost ==
  \A c \in Conns : mi[c] # NoName =>
    CopyOut(rings[mi[c]], tails[c], Waiting(c)) = [i \in 1..(sent[mi[c]] - last[c]) |-> last[c] + i]

(* Reception does not stay off over a ring with RXFLOW_MAX free.             *)
ReceptionReopens ==
  \A n \in mi_list : rx_enabled[n] \/ FreeElements(rings[n]) < RXFLOW_MAX

(***************************************************************************)
(* "if you are the slowest connection, you had better transmit something":  *)
(* only a session that holds the oldest tail, with messages waiting for it, *)
(* is ever on the timeout that hangs up on it.                              *)
(***************************************************************************)
OnlySlowestTimed ==
  \A c \in timeout : /\ mi[c] # NoName
                     /\ tails[c] = rings[mi[c]].oldest_tail
                     /\ Waiting(c) > 0

(* Joined a backlog, and no message came since to ask for its callback.      *)
Silent(c) == c \in unasked \ pollout

(* A session with messages waiting has a callback coming, except one that    *)
(* joined a backlog nobody has added to since.                               *)
OnItsWay ==
  \A c \in Conns : mi[c] # NoName /\ Waiting(c) > 0 => c \in pollout \/ Silent(c)

(***************************************************************************)
(* Nobody stalls: reception that was switched off is switched on as soon as *)
(* there is room, whoever made the room and whether by sending or by        *)
(* closing; and whoever has messages waiting has a callback coming.         *)
(***************************************************************************)
NobodyStalls == ReceptionReopens /\ OnItsWay

(***************************************************************************)
(* "Don't allow those guys to block the FIFO operation for very long": an   *)
(* instance that does not receive gets to receive again.  The exception is  *)
(* that __mirror_update_worst_tail() returns before it sets timeouts when   *)
(* the oldest tail did not move: a stuck or silent session that came to the *)
(* oldest tail as a newcomer, or when nothing waited there, is never        *)
(* hurried and does block the instance.                                     *)
(***************************************************************************)
Blocked(n) ==
  \E c \in Bound(n) : /\ tails[c] = rings[n].oldest_tail
                      /\ c \in stuck \/ Silent(c)
                      /\ c \in newcomer \/ ~backlog[n]

Reopened(n) == n \notin mi_list \/ rx_enabled[n] \/ Blocked(n)

NeverShut == \A n \in Names : ~Reopened(n) ~> Reopened(n)
=============================================================================
