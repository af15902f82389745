---------------------------- MODULE LwsWebsocket ----------------------------
(***************************************************************************)
(* The lws-websocket plugin (plugins/plugin_lws_websocket): controllers     *)
(* hold a websocket each, send CSV packets, and get an ACK or a NACK back.  *)
(* A packet whose checksum is right is also handed to two background        *)
(* commands, one that stores it in redis and one that posts it to the       *)
(* Comlink server.                                                          *)
(*                                                                          *)
(* The plugin runs on the single service thread of lwsws, so each callback  *)
(* is one action.  All sessions of the vhost share ONE pending reply (amsg) *)
(* and one message number (current); a session remembers the number of the  *)
(* last message it was written (last).                                      *)
(*                                                                          *)
(* What the library passes to the RECEIVE callback is a fragment: at most   *)
(* 128 bytes (the rx_buffer_size of the protocol) of one websocket message, *)
(* so a long packet reaches the plugin in several pieces.                   *)
(***************************************************************************)
EXTENDS Naturals, Sequences, FiniteSets

CONSTANTS
  Conns,          \* websocket connection slots, one per controller
  Packets,        \* what a controller may send
  Fragment,       \* what one RECEIVE callback may be given
  Frags,          \* Frags[p]: the fragments packet p arrives in
  Number,         \* Number[f]: the packetNumber atoi() reads from fragment f
  CRCValid,       \* the fragments for which isCRCValid() is true
  Unsplittable,   \* the fragments RECEIVE ends the process on before it starts a
                  \* command: an assertion of str_split() fails, or what verifies
                  \* has no second field and concat() is given NULL
  Multiline,      \* the fragments that verify and end in a newline, as a
                  \* PC_NOTES packet ("...,EOT\r\n") does
  NoReply,        \* a NULL amsg.payload
  CanFail,        \* may malloc() and system() fail?
  Window,         \* fragments a controller leaves unanswered before it waits
  MaxSends,       \* bound: packets sent in one behaviour
  MaxBoots        \* bound: starts of the server in one behaviour

Kinds == {"ACK", "NACK"}
Reply == [kind : Kinds, type : {Number[f] : f \in Fragment}]
Command == {"redisClient", "wget"}

ASSUME ConstantsOK ==
  /\ Frags \in [Packets -> Seq(Fragment)]
  /\ Number \in [Fragment -> Nat]
  /\ CRCValid \subseteq Fragment
  /\ Unsplittable \subseteq Fragment
  /\ Multiline \subseteq CRCValid \ Unsplittable
  /\ CanFail \in BOOLEAN
  /\ Window \in Nat
  /\ MaxSends \in Nat
  /\ MaxBoots \in Nat
  /\ NoReply \notin Reply

VARIABLES
  up,        \* the lwsws process runs and PROTOCOL_INIT was called
  amsg,      \* vhd->amsg.payload: the one pending reply, or NoReply
  current,   \* vhd->current
  pss_list,  \* vhd->pss_list: the sessions that are established
  last,      \* pss->last, for every session
  pollout,   \* connections the library will give a SERVER_WRITEABLE callback
  rx,        \* fragments sent by the controller, not yet received
  tx,        \* what was written to the session, oldest first
  sends,     \* packets sent so far
  boot,      \* starts so far
  \* History of the behaviour, read by properties only.
  joined,    \* the message number at which the session was established
  owed,      \* fragments the session has sent since it was established
  log,       \* log[n]: the fragment that became message n since the last start
  spawned    \* the commands handed to the shell so far

sessionVars == <<pss_list, last, joined>>
wireVars == <<rx, tx, owed, sends>>
vars == <<up, amsg, current, sessionVars, pollout, wireVars, boot, log, spawned>>

Written == [num : Nat, reply : Reply]
LogEntry == [from : Conns, frag : Fragment, reply : Reply]
Spawn == [cmd : Command, boot : Nat, num : Nat, frag : Fragment]

Init ==
  /\ up = FALSE
  /\ amsg = NoReply
  /\ current = 0
  /\ pss_list = {}
  /\ last = [c \in Conns |-> 0]
  /\ pollout = {}
  /\ rx = [c \in Conns |-> <<>>]
  /\ tx = [c \in Conns |-> <<>>]
  /\ sends = 0
  /\ boot = 0
  /\ joined = [c \in Conns |-> 0]
  /\ owed = [c \in Conns |-> 0]
  /\ log = <<>>
  /\ spawned = {}

(***************************************************************************)
(* LWS_CALLBACK_PROTOCOL_INIT: lwsws starts (again) and the vhost data is   *)
(* allocated zeroed.                                                        *)
(***************************************************************************)
ProtocolInit ==
  /\ ~up
  /\ boot < MaxBoots
  /\ up' = TRUE
  /\ boot' = boot + 1
  /\ amsg' = NoReply
  /\ current' = 0
  /\ UNCHANGED <<sessionVars, pollout, wireVars, log, spawned>>

(* Mutant: the session keeps its zeroed number. *)
FirstLastZero == 0

(***************************************************************************)
(* LWS_CALLBACK_ESTABLISHED: a session starts out as if it had been written *)
(* the pending message already.                                             *)
(***************************************************************************)
FirstLast == current

Established(c) ==
  /\ up
  /\ c \notin pss_list
  /\ pss_list' = pss_list \cup {c}
  /\ last' = [last EXCEPT ![c] = FirstLast]
  /\ joined' = [joined EXCEPT ![c] = current]
  /\ UNCHANGED <<up, amsg, current, pollout, wireVars, boot, log, spawned>>

(***************************************************************************)
(* A connection goes away: its per-session data is freed, and its unread    *)
(* input and its poll slot go with it.                                      *)
(***************************************************************************)
Cleared(f, cs, v) == [c \in Conns |-> IF c \in cs THEN v ELSE f[c]]

(* Mutant: the poll slot outlives the connection. *)
RemoveFdsNever(cs) == UNCHANGED pollout

RemoveFds(cs) == pollout' = pollout \ cs

Drop(cs) ==
  /\ pss_list' = pss_list \ cs
  /\ RemoveFds(cs)
  /\ last' = Cleared(last, cs, 0)
  /\ rx' = Cleared(rx, cs, <<>>)
  /\ tx' = Cleared(tx, cs, <<>>)
  /\ joined' = Cleared(joined, cs, 0)
  /\ owed' = Cleared(owed, cs, 0)
  /\ UNCHANGED sends

(* LWS_CALLBACK_CLOSED: the peer left, or the keepalive gave up on it.       *)
Closed(c) ==
  /\ up
  /\ c \in pss_list
  /\ Drop({c})
  /\ UNCHANGED <<up, amsg, current, boot, log, spawned>>

(***************************************************************************)
(* The controller sends a packet (external: nodejsWebSocketClient/client.js *)
(* sends one every two seconds, whether or not it was answered; Window = 1  *)
(* is a controller that waits for its answer first).                        *)
(***************************************************************************)
Send(c, p) ==
  /\ c \in pss_list
  /\ sends < MaxSends
  /\ owed[c] < Len(tx[c]) + Window
  /\ sends' = sends + 1
  /\ owed' = [owed EXCEPT ![c] = @ + Len(Frags[p])]
  /\ rx' = [rx EXCEPT ![c] = @ \o Frags[p]]
  /\ UNCHANGED <<up, amsg, current, sessionVars, pollout, tx, boot, log, spawned>>

(***************************************************************************)
(* The library has a write of its own pending on the connection (a pong, a  *)
(* keepalive ping, the rest of a partial send).  Afterwards it leaves       *)
(* POLLOUT enabled, so the user gets a WRITEABLE callback it did not ask    *)
(* for.                                                                     *)
(***************************************************************************)
LibraryWrite(c) ==
  /\ up
  /\ c \in pss_list
  /\ pollout' = pollout \cup {c}
  /\ UNCHANGED <<up, amsg, current, sessionVars, wireVars, boot, log, spawned>>

(* LWS_CALLBACK_SERVER_WRITEABLE, when nothing is pending for the session.   *)
WriteableNothing(c) ==
  /\ up
  /\ c \in pollout
  /\ amsg = NoReply \/ last[c] = current
  /\ pollout' = pollout \ {c}
  /\ UNCHANGED <<up, amsg, current, sessionVars, wireVars, boot, log, spawned>>

(* Mutant: pss->last is not updated. *)
RememberNothing(c) == UNCHANGED last

Remember(c) == last' = [last EXCEPT ![c] = current]

(* LWS_CALLBACK_SERVER_WRITEABLE, the pending message goes out.              *)
WriteableSend(c) ==
  /\ up
  /\ c \in pollout
  /\ amsg # NoReply
  /\ last[c] # current
  /\ pollout' = pollout \ {c}
  /\ tx' = [tx EXCEPT ![c] = Append(@, [num |-> current, reply |-> amsg])]
  /\ Remember(c)
  /\ UNCHANGED <<up, amsg, current, pss_list, joined, rx, owed, sends, boot, log,
                 spawned>>

(* lws_write() fails: the callback returns -1 and the library closes the     *)
(* connection, which calls back with CLOSED before anything else happens.    *)
WriteableFail(c) ==
  /\ up
  /\ c \in pollout
  /\ amsg # NoReply
  /\ last[c] # current
  /\ Drop({c})
  /\ UNCHANGED <<up, amsg, current, boot, log, spawned>>

(* The reply the plugin composes for a fragment.                             *)
ReplyTo(f) ==
  [kind |-> IF f \in CRCValid THEN "ACK" ELSE "NACK", type |-> Number[f]]

(* Mutant: the packet is stored but not forwarded. *)
CommandsStoreOnly(f) == IF f \in CRCValid THEN {"redisClient"} ELSE {}

(* Mutant: the checksum is not looked at. *)
CommandsAlways(f) == Command

(* The commands RECEIVE runs for a fragment.                                 *)
Commands(f) == IF f \in CRCValid THEN Command ELSE {}

SpawnsOf(f, n, cmds) ==
  {[cmd |-> k, boot |-> boot, num |-> n, frag |-> f] : k \in cmds}

(* Mutant: only an ACK gets a new message number. *)
NumberAfterAcks(f) == IF f \in CRCValid THEN current + 1 ELSE current

NumberAfter(f) == current + 1

(* Mutant: the sender is not asked to become writeable. *)
CallbackOnWritableNever(c) == UNCHANGED pollout

CallbackOnWritable(c) == pollout' = pollout \cup {c}

(***************************************************************************)
(* LWS_CALLBACK_RECEIVE, the whole of it: the previous reply is destroyed   *)
(* whoever still waits for it, the fragment is split and its checksum       *)
(* verified, the answer becomes the pending message, and only the sender is *)
(* asked to become writeable.                                               *)
(***************************************************************************)
Receive(c) ==
  LET f == Head(rx[c]) IN
  /\ up
  /\ c \in pss_list
  /\ rx[c] # <<>>
  /\ f \notin Unsplittable \cup Multiline
  /\ rx' = [rx EXCEPT ![c] = Tail(@)]
  /\ amsg' = ReplyTo(f)
  /\ current' = NumberAfter(f)
  /\ CallbackOnWritable(c)
  /\ log' = Append(log, [from |-> c, frag |-> f, reply |-> ReplyTo(f)])
  /\ spawned' = spawned \cup SpawnsOf(f, current + 1, Commands(f))
  /\ UNCHANGED <<up, sessionVars, tx, owed, sends, boot>>

(***************************************************************************)
(* RECEIVE when malloc() of the payload fails: "OOM: dropping".  The old    *)
(* reply is gone, the number stays and nobody is asked to write.            *)
(***************************************************************************)
ReceiveOOM(c) ==
  /\ CanFail
  /\ up
  /\ c \in pss_list
  /\ rx[c] # <<>>
  /\ rx' = [rx EXCEPT ![c] = Tail(@)]
  /\ amsg' = NoReply
  /\ UNCHANGED <<up, current, sessionVars, pollout, tx, owed, sends, boot, log, spawned>>

(***************************************************************************)
(* RECEIVE ends the process.  An unsplittable fragment does it before any   *)
(* command was started.  A multi-line one puts its newline into the command *)
(* line of redisClient: the shell runs that and then trips over the "&" on  *)
(* a line of its own, and the status system() returns is used as a format   *)
(* string.  Any fragment that verifies may do it when malloc() or system()  *)
(* fails, or a buffer is overrun and free() finds out: then the commands in *)
(* cmds had been started, redisClient always before wget.                   *)
(***************************************************************************)
ReceiveCrash(c) ==
  LET f == Head(rx[c]) IN
  /\ up
  /\ c \in pss_list
  /\ rx[c] # <<>>
  /\ \E cmds \in {{}, Commands(f) \cap {"redisClient"}, Commands(f)} :
       /\ f \in Unsplittable => cmds = {}
       /\ f \in Multiline => cmds = Commands(f) \cap {"redisClient"} \/ (CanFail /\ cmds = {})
       /\ f \notin Unsplittable \cup Multiline => CanFail
       /\ spawned' = spawned \cup SpawnsOf(f, current + 1, cmds)
  /\ up' = FALSE
  /\ Drop(Conns)
  /\ amsg' = NoReply
  /\ current' = 0
  /\ log' = <<>>
  /\ UNCHANGED boot

Next ==
  \/ ProtocolInit
  \/ \E c \in Conns :
       \/ Established(c)
       \/ Closed(c)
       \/ \E p \in Packets : Send(c, p)
       \/ LibraryWrite(c)
       \/ WriteableNothing(c)
       \/ WriteableSend(c)
       \/ WriteableFail(c)
       \/ Receive(c)
       \/ ReceiveOOM(c)
       \/ ReceiveCrash(c)

Spec == Init /\ [][Next]_vars

(***************************************************************************)
(* The service loop visits every connection that poll() reports: unread     *)
(* input is received, and a connection with POLLOUT requested gets its      *)
(* callback once the socket can take more.                                  *)
(***************************************************************************)
Writeable(c) == WriteableNothing(c) \/ WriteableSend(c)

FairSpec ==
  Spec /\ \A c \in Conns : WF_vars(Receive(c)) /\ WF_vars(Writeable(c))
-----------------------------------------------------------------------------
(* The type invariant.                                                       *)
TypeOK ==
  /\ up \in BOOLEAN
  /\ amsg \in Reply \cup {NoReply}
  /\ current \in Nat
  /\ pss_list \subseteq Conns
  /\ last \in [Conns -> Nat]
  /\ pollout \subseteq pss_list
  /\ rx \in [Conns -> Seq(Fragment)]
  /\ tx \in [Conns -> Seq(Written)]
  /\ sends \in Nat
  /\ boot \in Nat
  /\ joined \in [Conns -> Nat]
  /\ owed \in [Conns -> Nat]
  /\ log \in Seq(LogEntry)
  /\ spawned \subseteq Spawn

(***************************************************************************)
(* What a session is written, in which order: each message at most once,    *)
(* never an older one after a newer one, never one from before the session  *)
(* was established.  This is what pss->last is for (the guard last ==       *)
(* current of SERVER_WRITEABLE and the assignment in ESTABLISHED).          *)
(***************************************************************************)
InOrderOnce ==
  \A c \in Conns : \A i \in 1..Len(tx[c]) :
    /\ joined[c] < tx[c][i].num
    /\ tx[c][i].num <= last[c]
    /\ \A j \in 1..(i - 1) : tx[c][j].num < tx[c][i].num

(***************************************************************************)
(* The bytes written under message number n are the reply to the fragment   *)
(* that became message n, although the single amsg buffer is destroyed and  *)
(* refilled between a RECEIVE and the WRITEABLE it asked for.               *)
(***************************************************************************)
WrittenIsLogged ==
  \A c \in Conns : \A i \in 1..Len(tx[c]) :
    LET w == tx[c][i] IN w.num \in 1..Len(log) /\ w.reply = log[w.num].reply

(* Command k was started for message n since the server last started.        *)
Started(k, n) == \E s \in spawned : s.cmd = k /\ s.boot = boot /\ s.num = n

(***************************************************************************)
(* An ACK on the wire means both commands were started for that fragment,   *)
(* and a NACK that neither was: the pending reply becomes visible only      *)
(* after the two calls of system(), and a crash between them leaves none.   *)
(***************************************************************************)
AckIsBacked ==
  \A c \in Conns : \A i \in 1..Len(tx[c]) :
    LET w == tx[c][i]
    IN \A k \in Command : Started(k, w.num) <=> w.reply.kind = "ACK"

(***************************************************************************)
(* What makes the four invariants around it inductive: the message number   *)
(* counts the fragments received since the start, no session is ahead of it *)
(* or behind the number it joined at, the pending reply is the one to the   *)
(* newest message, the commands started for message n are the ones its      *)
(* fragment deserves, and a server that is down keeps nothing.              *)
(***************************************************************************)
Bookkeeping ==
  /\ Len(log) = current
  /\ \A c \in Conns : joined[c] <= last[c] /\ last[c] <= current
  /\ \A c \in Conns \ pss_list : tx[c] = <<>>
  /\ amsg # NoReply => current > 0 /\ amsg = log[current].reply
  /\ \A n \in 1..current : log[n].reply = ReplyTo(log[n].frag)
  /\ \A s \in spawned : s.boot <= boot /\ (up /\ s.boot = boot => s.num <= current)
  /\ \A n \in 1..current, k \in Command : Started(k, n) <=> k \in Commands(log[n].frag)
  /\ ~up => current = 0 /\ pss_list = {} /\ amsg = NoReply

(***************************************************************************)
(* A reply that was composed and not yet overtaken is still going to be     *)
(* written: its sender has a WRITEABLE callback coming, or was written it,  *)
(* or has closed (or closed and come back since).                           *)
(***************************************************************************)
LatestIsOnItsWay ==
  (up /\ amsg # NoReply) =>
    LET c == log[current].from
    IN \/ c \in pollout
       \/ c \notin pss_list
       \/ last[c] = current

(***************************************************************************)
(* Every fragment received is answered by some write to its sender that is  *)
(* at least as recent, unless the sender goes away or the server ends.      *)
(***************************************************************************)
WrittenUpTo(c) == IF tx[c] = <<>> THEN joined[c] ELSE tx[c][Len(tx[c])].num

SentBy(c) == {n \in 1..Len(log) : n > joined[c] /\ log[n].from = c}

Answered ==
  \A c \in Conns :
    (c \in pss_list /\ \E n \in SentBy(c) : WrittenUpTo(c) < n)
      ~> (c \notin pss_list \/ \A n \in SentBy(c) : WrittenUpTo(c) >= n)

(***************************************************************************)
(* Where controllers wait for each answer (Window = 1), a packet is one     *)
(* fragment and malloc() does not fail, a session that is the only one to   *)
(* have sent anything since it was established gets one reply per fragment, *)
(* in order, whoever else is connected, comes or goes.                      *)
(***************************************************************************)
OnlySender(c) == \A n \in 1..Len(log) : n > joined[c] => log[n].from = c

OneReplyEach ==
  \A c \in pss_list : OnlySender(c) =>
    /\ \A i \in 1..Len(tx[c]) : tx[c][i].num = joined[c] + i
    /\ Len(log) <= joined[c] + Len(tx[c]) + 1

(***************************************************************************)
(* "load ack on socket struct to send back to client"                       *)
(* (protocol_lws_websocket.c:150): a session is only written replies to     *)
(* what it sent itself.                                                     *)
(***************************************************************************)
OwnRepliesOnly ==
  \A c \in Conns : \A i \in 1..Len(tx[c]) : log[tx[c][i].num].from = c
=============================================================================
