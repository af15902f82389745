----------------------------- MODULE HeaderPool -----------------------------
(***************************************************************************)
(* The pool of http header tables ("ah") of the library and the limits on   *)
(* what one peer may use (lib/roles/http/server/parsers.c,                  *)
(* lib/misc/peer-limits.c, lib/core/adopt.c).                               *)
(*                                                                          *)
(* A connection must hold an ah to have its headers parsed.  There are at   *)
(* most MaxPool of them and a peer may hold at most LimitAh; a connection   *)
(* that cannot have one goes on a waiting list, with its POLLIN turned off, *)
(* and is handed one when another connection lets go of it.  Nothing else   *)
(* wakes it up.                                                             *)
(***************************************************************************)
EXTENDS Integers, Sequences, FiniteSets, SequencesExt

CONSTANTS
  Conns,      \* connection slots
  Peers,      \* client addresses
  Peer,       \* Peer[c]: the address connection c comes from
  MaxPool,    \* context->max_http_header_pool
  LimitAh,    \* context->ip_limit_ah, 0 for no limit
  LimitWsi    \* context->ip_limit_wsi, 0 for no limit

ASSUME PoolOK ==
  /\ Peer \in [Conns -> Peers]
  /\ MaxPool \in Nat \ {0}
  /\ LimitAh \in Nat
  /\ LimitWsi \in Nat

VARIABLES
  open,       \* connections that have a wsi
  holder,     \* connections that have an ah
  inUse,      \* pt->http.ah_count_in_use
  waitList,   \* pt->http.ah_wait_list, newest first
  pollin,     \* connections with POLLIN enabled
  countAh,    \* countAh[p]: peer->http.count_ah
  countWsi,   \* countWsi[p]: peer->count_wsi
  known,      \* peers that have a struct lws_peer
  idle,       \* peers on context->peer_wait_list, to be culled
  \* History, read by properties only.
  starved     \* connections that wait because an allocation failed

poolVars == <<holder, inUse, waitList, pollin, countAh, starved>>
vars == <<open, poolVars, countWsi, known, idle>>

Init ==
  /\ open = {}
  /\ holder = {}
  /\ inUse = 0
  /\ waitList = <<>>
  /\ pollin = {}
  /\ countAh = [p \in Peers |-> 0]
  /\ countWsi = [p \in Peers |-> 0]
  /\ known = {}
  /\ idle = {}
  /\ starved = {}

Waiting == ToSet(waitList)

(* __lws_remove_from_ah_waiting_list() *)
Without(c) == RemoveFirst(waitList, c)

(* lws_peer_confirm_ah_attach_ok(), for the peer counts n.                   *)
Allowed(c, n) == LimitAh = 0 \/ n[Peer[c]] < LimitAh

(* _lws_header_ensure_we_are_on_waiting_list(): "we cannot accept input then" *)
Park(c) == pollin \ {c}


(* One that is on the list already is left as it is. *)
Refused(c, list) ==
  /\ \/ /\ c \in ToSet(list)
        /\ waitList' = list
        /\ UNCHANGED pollin
     \/ /\ c \notin ToSet(list)
        /\ waitList' = <<c>> \o list
        /\ pollin' = Park(c)
  /\ UNCHANGED <<holder, inUse, countAh>>

(***************************************************************************)
(* lws_header_table_attach(), for a connection without an ah.  The one that *)
(* finds the pool full, its peer at its limit, or no memory (the last       *)
(* disjunct) waits; in that case it has lost its place in the list.         *)
(***************************************************************************)
Attach(c) ==
  \/ /\ inUse = MaxPool \/ ~Allowed(c, countAh)
     /\ Refused(c, waitList)
     /\ UNCHANGED starved
  \/ /\ inUse # MaxPool
     /\ Allowed(c, countAh)
     /\ holder' = holder \cup {c}
     /\ inUse' = inUse + 1
     /\ waitList' = Without(c)
     /\ pollin' = pollin \cup {c}
     /\ countAh' = [countAh EXCEPT ![Peer[c]] = @ + 1]
     /\ starved' = starved \ {c}
  \/ /\ inUse # MaxPool
     /\ Allowed(c, countAh)
     /\ Refused(c, Without(c))
     /\ starved' = starved \cup {c}

(* Mutants: the ah is never handed on; it goes to the newest who may have it. *)
HeirNobody(list, n) == 0
HeirNewest(list, n) ==
  LET may == {i \in 1..Len(list) : Allowed(list[i], n)}
  IN IF may = {} THEN 0 ELSE Min(may)

(* The place in the list of the oldest connection that may have an ah, or 0. *)
Heir(list, n) ==
  LET may == {i \in 1..Len(list) : Allowed(list[i], n)}
  IN IF may = {} THEN 0 ELSE Max(may)

(* Mutant: an ah nobody takes still counts as in use. *)
DestroyUncounted == inUse

(* "nobody usable waiting": the ah is destroyed. *)
Destroy == inUse - 1

(***************************************************************************)
(* __lws_header_table_detach(): the connection leaves the waiting list; if  *)
(* it held an ah this goes to the oldest waiting connection whose peer may  *)
(* have it, and is destroyed if there is none.  Connections in gone are     *)
(* being closed.                                                            *)
(***************************************************************************)
Detach(c, gone) ==
  LET list == Without(c)
      n == [countAh EXCEPT ![Peer[c]] = @ - 1]
      i == Heir(list, n)
  IN \/ /\ c \notin holder
        /\ waitList' = list
        /\ pollin' = pollin \ gone
        /\ starved' = starved \ {c}
        /\ UNCHANGED <<holder, inUse, countAh>>
     \/ /\ c \in holder
        /\ i = 0
        /\ holder' = holder \ {c}
        /\ inUse' = Destroy
        /\ waitList' = list
        /\ pollin' = pollin \ gone
        /\ countAh' = n
        /\ UNCHANGED starved
     \/ /\ c \in holder
        /\ i # 0
        /\ holder' = (holder \ {c}) \cup {list[i]}
        /\ waitList' = RemoveAt(list, i)
        /\ pollin' = (pollin \cup {list[i]}) \ gone
        /\ countAh' = [n EXCEPT ![Peer[list[i]]] = @ + 1]
        /\ starved' = starved \ {list[i]}
        /\ UNCHANGED inUse
-----------------------------------------------------------------------------
OverLimit(p) == LimitWsi # 0 /\ countWsi[p] >= LimitWsi

(* Mutant: the peer stays on the list of those to be culled. *)
NoLongerIdleNever(p) == idle

(* lws_peer_add_wsi() *)
NoLongerIdle(p) == idle \ {p}

(* lws_adopt_descriptor_vhost(): the peer has a place for another wsi; at    *)
(* the end the h1 role tries to attach an ah.                                *)
Adopt(c) ==
  LET p == Peer[c] IN
  /\ c \notin open
  /\ ~OverLimit(p)
  /\ open' = open \cup {c}
  /\ countWsi' = [countWsi EXCEPT ![p] = @ + 1]
  /\ known' = known \cup {p}
  /\ idle' = NoLongerIdle(p)
  /\ Attach(c)

(* The peer has its share of wsi: lws_get_or_create_peer() finds it (or adds *)
(* it to the list to be culled) and the connection is not adopted.           *)
AdoptDenied(c) ==
  LET p == Peer[c] IN
  /\ c \notin open
  /\ OverLimit(p)
  /\ known' = known \cup {p}
  /\ idle' = IF p \in known THEN idle ELSE idle \cup {p}
  /\ UNCHANGED <<open, poolVars, countWsi>>

(* lws_h1_server_socket_service(): there is input, from the socket or left   *)
(* over in the buflist, and no ah to parse it into.                          *)
Service(c) ==
  /\ c \in open \ holder
  /\ Attach(c)
  /\ UNCHANGED <<open, countWsi, known, idle>>

(* The transaction is completed with nothing left to parse, or the           *)
(* connection was upgraded: it lets go of its ah.                            *)
Complete(c) ==
  /\ c \in holder
  /\ Detach(c, {})
  /\ UNCHANGED <<open, countWsi, known, idle>>

(* lws_peer_track_wsi_close(): a peer with nothing left is to be culled.     *)
NowIdle(p) == IF countWsi'[p] = 0 /\ countAh'[p] = 0 THEN idle \cup {p} ELSE idle

(* __lws_free_wsi(): first the ah is let go of, then the peer is told.       *)
Close(c) ==
  LET p == Peer[c] IN
  /\ c \in open
  /\ Detach(c, {c})
  /\ open' = open \ {c}
  /\ countWsi' = [countWsi EXCEPT ![p] = @ - 1]
  /\ idle' = NowIdle(p)
  /\ UNCHANGED known

(* lws_peer_cull_peer_wait_list(), ten seconds later.                        *)
Cull(p) ==
  /\ p \in idle
  /\ idle' = idle \ {p}
  /\ known' = known \ {p}
  /\ UNCHANGED <<open, poolVars, countWsi>>

Next ==
  \/ \E c \in Conns : Adopt(c) \/ AdoptDenied(c) \/ Service(c) \/ Complete(c) \/ Close(c)
  \/ \E p \in Peers : Cull(p)

Spec == Init /\ [][Next]_vars

(* A connection does not keep an ah: it is done with it, or                  *)
(* PENDING_TIMEOUT_HOLDING_AH closes it.                                     *)
FairSpec ==
  Spec /\ \A c \in Conns : WF_vars(c \in holder /\ (Complete(c) \/ Close(c)))
-----------------------------------------------------------------------------
Of(s, p) == {c \in s : Peer[c] = p}

(***************************************************************************)
(* The counters tell the truth across every hand-over: as many ah in use as *)
(* connections that hold one, never more than the pool allows, and for each *)
(* peer what its connections hold, never more than its limits allow.        *)
(***************************************************************************)
Accounting ==
  /\ inUse = Cardinality(holder)
  /\ inUse <= MaxPool
  /\ \A p \in Peers :
       /\ countAh[p] = Cardinality(Of(holder, p))
       /\ countWsi[p] = Cardinality(Of(open, p))
       /\ LimitAh # 0 => countAh[p] <= LimitAh
       /\ LimitWsi # 0 => countWsi[p] <= LimitWsi

(* A connection whose POLLIN was turned off for want of an ah is on the      *)
(* waiting list, once; one that is on the list is not read.                  *)
ParkedIsListed ==
  /\ open \ pollin = Waiting
  /\ Cardinality(Waiting) = Len(waitList)

(* While somebody waits for the pool or for its peer's share, somebody holds *)
(* an ah.                                                                    *)
NobodyWaitsForNothing == holder = {} => Waiting \subseteq starved

(***************************************************************************)
(* No lost wakeup: a connection that is not read for want of an ah is on    *)
(* the waiting list, where the hand-over can find it, and somebody holds an *)
(* ah to hand on.  Only connections that were refused memory may be waiting *)
(* when nobody does: nothing but their timeout wakes those.                 *)
(***************************************************************************)
WaitListIsRight == ParkedIsListed /\ NobodyWaitsForNothing

(***************************************************************************)
(* A peer that has connections is not on the list of those to be culled, so *)
(* wsi->peer never points to freed memory.                                  *)
(***************************************************************************)
PeerOutlivesWsi ==
  \A p \in Peers : countWsi[p] > 0 => p \in known \ idle

(***************************************************************************)
(* Everybody who waits gets an ah in the end, or is closed, or is refused   *)
(* memory: "give it to oldest guy who is allowed to take it"                *)
(* (parsers.c:333) lets nobody overtake for ever.                           *)
(***************************************************************************)
WaitingEnds ==
  \A c \in Conns :
    (c \in Waiting) ~> (c \in holder \/ c \notin open \/ c \in starved)
=============================================================================
