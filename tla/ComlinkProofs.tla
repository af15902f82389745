---------------------------- MODULE ComlinkProofs ----------------------------
(***************************************************************************)
(* Theorems about the bridge, for every set of connections and packets,     *)
(* every number of tries and every pattern of outages: first those of the   *)
(* plugin alone (Spec, of LwsWebsocket), then those of the plugin with the  *)
(* background commands and the services (CSpec, of Comlink), which implies  *)
(* the former.                                                              *)
(***************************************************************************)
EXTENDS Comlink, SequenceTheorems, TLAPS

(* The reply to a fragment is a reply.                                       *)
LEMMA ReplyToType ==
  ASSUME NEW f \in Fragment
  PROVE  ReplyTo(f) \in Reply
  BY DEF ReplyTo, Reply, Kinds

(* Commands started for a fragment are well-formed spawns.                   *)
LEMMA SpawnsOfType ==
  ASSUME NEW f \in Fragment, NEW n \in Nat, NEW cmds \in SUBSET Command, boot \in Nat
  PROVE  SpawnsOf(f, n, cmds) \subseteq Spawn
  BY DEF SpawnsOf, Spawn

(* Forgetting what belongs to some connections keeps a function's type.      *)
LEMMA ClearedType ==
  ASSUME NEW S, NEW f \in [Conns -> S], NEW cs, NEW v \in S
  PROVE  Cleared(f, cs, v) \in [Conns -> S]
  BY DEF Cleared

(* Dropping connections keeps the types of what it assigns.                  *)
LEMMA DropType ==
  ASSUME TypeOK, NEW cs \in SUBSET Conns, Drop(cs)
  PROVE  /\ pss_list' \subseteq Conns
         /\ last' \in [Conns -> Nat]
         /\ pollout' \subseteq pss_list'
         /\ rx' \in [Conns -> Seq(Fragment)]
         /\ tx' \in [Conns -> Seq(Written)]
         /\ sends' \in Nat
         /\ joined' \in [Conns -> Nat]
         /\ owed' \in [Conns -> Nat]
  <1>1. <<>> \in Seq(Fragment) /\ <<>> \in Seq(Written)
    OBVIOUS
  <1> QED BY <1>1, ClearedType DEF TypeOK, Drop, RemoveFds

(* The head and the tail of a controller's unread input are well typed.      *)
LEMMA HeadType ==
  ASSUME TypeOK, NEW c \in Conns, rx[c] # <<>>
  PROVE  /\ Head(rx[c]) \in Fragment
         /\ Tail(rx[c]) \in Seq(Fragment)
  <1>1. rx[c] \in Seq(Fragment)
    BY DEF TypeOK
  <1> QED BY <1>1

(***************************************************************************)
(* Type correctness of the plugin's state: every variable stays in its type *)
(* and only established sessions hold a poll slot.                          *)
(***************************************************************************)
THEOREM TypeCorrect == Spec => []TypeOK
<1>1. Init => TypeOK
  <2> SUFFICES ASSUME Init PROVE TypeOK
    OBVIOUS
  <2>1. <<>> \in Seq(Fragment) /\ <<>> \in Seq(Written) /\ <<>> \in Seq(LogEntry)
    OBVIOUS
  <2> QED BY <2>1 DEF Init, TypeOK
<1>2. TypeOK /\ [Next]_vars => TypeOK'
  <2> SUFFICES ASSUME TypeOK, [Next]_vars PROVE TypeOK'
    OBVIOUS
  <2> USE ConstantsOK
  <2>1. CASE ProtocolInit
    BY <2>1 DEF TypeOK, ProtocolInit, sessionVars, wireVars
  <2>2. ASSUME NEW c \in Conns, Established(c) PROVE TypeOK'
    BY <2>2 DEF TypeOK, Established, FirstLast, wireVars
  <2>3. ASSUME NEW c \in Conns, Closed(c) PROVE TypeOK'
    <3>1. Drop({c}) BY <2>3 DEF Closed
    <3> QED BY <2>3, <3>1, DropType DEF TypeOK, Closed
  <2>4. ASSUME NEW c \in Conns, NEW p \in Packets, Send(c, p) PROVE TypeOK'
    <3>1. Frags[p] \in Seq(Fragment) /\ rx[c] \in Seq(Fragment)
      BY DEF TypeOK
    <3>2. rx[c] \o Frags[p] \in Seq(Fragment) /\ Len(Frags[p]) \in Nat
      BY <3>1
    <3> QED BY <2>4, <3>2 DEF TypeOK, Send, sessionVars
  <2>5. ASSUME NEW c \in Conns, LibraryWrite(c) PROVE TypeOK'
    BY <2>5 DEF TypeOK, LibraryWrite, sessionVars, wireVars
  <2>6. ASSUME NEW c \in Conns, WriteableNothing(c) PROVE TypeOK'
    BY <2>6 DEF TypeOK, WriteableNothing, sessionVars, wireVars
  <2>7. ASSUME NEW c \in Conns, WriteableSend(c) PROVE TypeOK'
    <3>1. [num |-> current, reply |-> amsg] \in Written
      BY <2>7 DEF TypeOK, WriteableSend, Written
    <3>2. tx[c] \in Seq(Written)
      BY DEF TypeOK
    <3>3. Append(tx[c], [num |-> current, reply |-> amsg]) \in Seq(Written)
      BY <3>1, <3>2
    <3> QED BY <2>7, <3>3 DEF TypeOK, WriteableSend, Remember
  <2>8. ASSUME NEW c \in Conns, WriteableFail(c) PROVE TypeOK'
    <3>1. Drop({c}) BY <2>8 DEF WriteableFail
    <3> QED BY <2>8, <3>1, DropType DEF TypeOK, WriteableFail
  <2>9. ASSUME NEW c \in Conns, Receive(c) PROVE TypeOK'
    <3> DEFINE f == Head(rx[c])
    <3>1. f \in Fragment /\ Tail(rx[c]) \in Seq(Fragment)
      BY <2>9, HeadType DEF Receive
    <3>2. [from |-> c, frag |-> f, reply |-> ReplyTo(f)] \in LogEntry
      BY <3>1, ReplyToType DEF LogEntry
    <3>3. Append(log, [from |-> c, frag |-> f, reply |-> ReplyTo(f)]) \in Seq(LogEntry)
      BY <3>2 DEF TypeOK
    <3>4. SpawnsOf(f, current + 1, Commands(f)) \subseteq Spawn
      <4>1. current + 1 \in Nat /\ boot \in Nat /\ Commands(f) \in SUBSET Command
        BY DEF TypeOK, Commands
      <4> QED BY <3>1, <4>1, SpawnsOfType
    <3>5. ReplyTo(f) \in Reply
      BY <3>1, ReplyToType
    <3> HIDE DEF f
    <3> QED BY <2>9, <3>1, <3>3, <3>4, <3>5, SMTT(20)
            DEF TypeOK, Receive, NumberAfter, CallbackOnWritable, sessionVars, f
  <2>10. ASSUME NEW c \in Conns, ReceiveOOM(c) PROVE TypeOK'
    BY <2>10, HeadType DEF TypeOK, ReceiveOOM, sessionVars
  <2>11. ASSUME NEW c \in Conns, ReceiveCrash(c) PROVE TypeOK'
    <3>1. Head(rx[c]) \in Fragment
      BY <2>11, HeadType DEF ReceiveCrash
    <3>2. PICK cmds \in SUBSET Command :
            spawned' = spawned \cup SpawnsOf(Head(rx[c]), current + 1, cmds)
      BY <2>11 DEF ReceiveCrash, Commands
    <3>3. SpawnsOf(Head(rx[c]), current + 1, cmds) \subseteq Spawn
      <4>1. current + 1 \in Nat /\ boot \in Nat
        BY DEF TypeOK
      <4> QED BY <3>1, <4>1, SpawnsOfType
    <3>4. Drop(Conns)
      BY <2>11 DEF ReceiveCrash
    <3>5. <<>> \in Seq(LogEntry)
      OBVIOUS
    <3> QED BY <2>11, <3>2, <3>3, <3>4, <3>5, DropType DEF TypeOK, ReceiveCrash
  <2>12. CASE UNCHANGED vars
    BY <2>12 DEF TypeOK, vars, sessionVars, wireVars
  <2> QED BY <2>1, <2>2, <2>3, <2>4, <2>5, <2>6, <2>7, <2>8, <2>9, <2>10, <2>11, <2>12
          DEF Next
<1> QED BY <1>1, <1>2, PTL DEF Spec

-----------------------------------------------------------------------------
(* The inductive invariant behind the delivery theorems.                     *)
Delivery == Bookkeeping /\ InOrderOnce /\ WrittenIsLogged

(* The message numbers the sessions and the written messages hold.           *)
LEMMA NumberTypes ==
  ASSUME TypeOK
  PROVE  /\ current \in Nat
         /\ \A c \in Conns : last[c] \in Nat /\ joined[c] \in Nat
         /\ \A c \in Conns : tx[c] \in Seq(Written)
         /\ \A c \in Conns : \A i \in 1..Len(tx[c]) : tx[c][i].num \in Nat
  <1>1. \A c \in Conns : tx[c] \in Seq(Written)
    BY DEF TypeOK
  <1>2. \A c \in Conns : \A i \in 1..Len(tx[c]) : tx[c][i] \in Written
    BY <1>1
  <1>3. \A c \in Conns : \A i \in 1..Len(tx[c]) : tx[c][i].num \in Nat
    BY <1>2 DEF Written
  <1> QED BY <1>1, <1>3 DEF TypeOK

(* No session is behind the number it joined at or ahead of the newest.      *)
LEMMA Ordered ==
  ASSUME Delivery
  PROVE  \A c \in Conns : joined[c] <= last[c] /\ last[c] <= current
  BY DEF Delivery, Bookkeeping

(* Appending to the log leaves the earlier entries alone.                    *)
LEMMA LogAppend ==
  ASSUME NEW e, log \in Seq(LogEntry), log' = Append(log, e)
  PROVE  /\ Len(log') = Len(log) + 1
         /\ log'[Len(log) + 1] = e
         /\ \A n \in 1..Len(log) : log'[n] = log[n]
  OBVIOUS

(* A step that writes nothing and keeps the log keeps the three parts that   *)
(* speak about written messages, as long as sessions that are still there    *)
(* keep their numbers.                                                       *)
LEMMA DropDelivery ==
  ASSUME TypeOK, Delivery, NEW cs \in SUBSET Conns, Drop(cs), up' = up,
         UNCHANGED <<amsg, current, boot, log, spawned>>
  PROVE  Delivery'
  <1>1. \A c \in Conns : /\ last'[c] = IF c \in cs THEN 0 ELSE last[c]
                         /\ joined'[c] = IF c \in cs THEN 0 ELSE joined[c]
                         /\ tx'[c] = IF c \in cs THEN <<>> ELSE tx[c]
    BY DEF Drop, Cleared
  <1>2. Bookkeeping'
    <2>1. \A c \in Conns \ pss_list' : tx'[c] = <<>>
      BY <1>1 DEF Delivery, Bookkeeping, Drop
    <2>2. \A c \in Conns : joined'[c] <= last'[c] /\ last'[c] <= current'
      BY <1>1, NumberTypes, Ordered
    <2>3. ~up => pss_list' = {}
      BY DEF Delivery, Bookkeeping, Drop
    <2> QED BY <2>1, <2>2, <2>3 DEF Delivery, Bookkeeping, Started
  <1>3. InOrderOnce'
    BY <1>1 DEF Delivery, InOrderOnce
  <1>4. WrittenIsLogged'
    BY <1>1 DEF Delivery, WrittenIsLogged
  <1> QED BY <1>2, <1>3, <1>4 DEF Delivery

(* The steps that touch neither the numbers nor what was written.            *)
LEMMA QuietDelivery ==
  ASSUME Delivery,
         UNCHANGED <<up, amsg, current, pss_list, last, joined, tx, boot, log, spawned>>
  PROVE  Delivery'
  BY DEF Delivery, Bookkeeping, InOrderOnce, WrittenIsLogged, Started

(* SERVER_WRITEABLE appends the newest message to what the session got.      *)
LEMMA WriteableDelivery ==
  ASSUME TypeOK, Delivery, NEW c \in Conns, WriteableSend(c)
  PROVE  Delivery'
  <1> DEFINE w == [num |-> current, reply |-> amsg]
  <1>1. tx[c] \in Seq(Written)
    BY DEF TypeOK
  <1>2. /\ tx'[c] = Append(tx[c], w)
        /\ \A d \in Conns \ {c} : tx'[d] = tx[d]
    BY DEF WriteableSend, TypeOK
  <1>3. /\ Len(tx'[c]) = Len(tx[c]) + 1
        /\ tx'[c][Len(tx[c]) + 1] = w
        /\ \A i \in 1..Len(tx[c]) : tx'[c][i] = tx[c][i]
    BY <1>1, <1>2
  <1>4. /\ last'[c] = current
        /\ \A d \in Conns \ {c} : last'[d] = last[d]
        /\ UNCHANGED <<joined, current, log, amsg, pss_list, boot, up, spawned>>
    BY DEF WriteableSend, Remember, TypeOK
  <1>5. joined[c] <= last[c] /\ last[c] < current /\ c \in pss_list
    BY DEF WriteableSend, Delivery, Bookkeeping, TypeOK
  <1>6. Bookkeeping'
    <2>1. \A d \in Conns : joined'[d] <= last'[d] /\ last'[d] <= current'
      BY <1>4, <1>5, NumberTypes, Ordered
    <2>2. \A d \in Conns \ pss_list' : tx'[d] = <<>>
      BY <1>2, <1>4, <1>5 DEF Delivery, Bookkeeping
    <2> QED BY <1>4, <2>1, <2>2 DEF Delivery, Bookkeeping, Started
  <1>7. InOrderOnce'
    <2> SUFFICES ASSUME NEW d \in Conns, NEW i \in 1..Len(tx'[d])
                 PROVE  /\ joined'[d] < tx'[d][i].num
                        /\ tx'[d][i].num <= last'[d]
                        /\ \A j \in 1..(i - 1) : tx'[d][j].num < tx'[d][i].num
      BY DEF InOrderOnce
    <2>1. CASE d # c
      BY <2>1, <1>2, <1>4 DEF Delivery, InOrderOnce
    <2>2. CASE d = c /\ i \in 1..Len(tx[c])
      <3>1. /\ joined[c] < tx[c][i].num
            /\ tx[c][i].num <= last[c]
            /\ \A j \in 1..(i - 1) : tx[c][j].num < tx[c][i].num
        BY <2>2 DEF Delivery, InOrderOnce
      <3>2. tx[c][i].num \in Nat /\ last[c] \in Nat /\ current \in Nat
        BY <2>2, NumberTypes
      <3>3. \A j \in 1..(i - 1) : tx'[c][j] = tx[c][j]
        BY <2>2, <1>1, <1>3
      <3>4. tx'[c][i] = tx[c][i] /\ joined'[c] = joined[c] /\ last'[c] = current
        BY <2>2, <1>3, <1>4
      <3>5. last[c] < current
        BY <1>5
      <3>6. tx'[c][i].num <= current
        BY <3>1, <3>2, <3>4, <3>5
      <3>7. \A j \in 1..(i - 1) : tx'[c][j].num < tx'[c][i].num
        BY <3>1, <3>3, <3>4
      <3> QED BY <2>2, <3>1, <3>4, <3>6, <3>7
    <2>3. CASE d = c /\ i = Len(tx[c]) + 1
      <3>1. \A j \in 1..Len(tx[c]) : tx[c][j].num \in Nat /\ tx[c][j].num <= last[c]
        BY NumberTypes DEF Delivery, InOrderOnce
      <3>2. tx'[c][i].num = current
        BY <2>3, <1>3
      <3>3. last[c] \in Nat /\ joined[c] \in Nat /\ current \in Nat /\ Len(tx[c]) \in Nat
        BY <1>1 DEF TypeOK
      <3>4. \A j \in 1..(i - 1) : tx'[c][j].num < current
        <4>1. \A j \in 1..Len(tx[c]) : tx'[c][j].num < current
          <5> TAKE j \in 1..Len(tx[c])
          <5>1. tx'[c][j] = tx[c][j]
            BY <1>3
          <5>2. tx[c][j].num \in Nat /\ tx[c][j].num <= last[c] /\ last[c] < current
            BY <3>1, <1>5
          <5> QED BY <5>1, <5>2, <3>3
        <4>2. i - 1 = Len(tx[c])
          BY <2>3, <3>3
        <4> QED BY <4>1, <4>2
      <3> QED BY <2>3, <3>2, <3>3, <3>4, <1>4, <1>5
    <2> QED BY <2>1, <2>2, <2>3, <1>1, <1>3
  <1>8. WrittenIsLogged'
    <2> SUFFICES ASSUME NEW d \in Conns, NEW i \in 1..Len(tx'[d])
                 PROVE  /\ tx'[d][i].num \in 1..Len(log')
                        /\ tx'[d][i].reply = log'[tx'[d][i].num].reply
      BY DEF WrittenIsLogged
    <2>1. CASE d # c
      BY <2>1, <1>2, <1>4 DEF Delivery, WrittenIsLogged
    <2>2. CASE d = c /\ i \in 1..Len(tx[c])
      BY <2>2, <1>3, <1>4 DEF Delivery, WrittenIsLogged
    <2>3. CASE d = c /\ i = Len(tx[c]) + 1
      <3>1. /\ Len(log) = current /\ current \in Nat /\ current > 0
            /\ amsg = log[current].reply
        BY DEF WriteableSend, Delivery, Bookkeeping, TypeOK
      <3> QED BY <2>3, <3>1, <1>3, <1>4
    <2> QED BY <2>1, <2>2, <2>3, <1>1, <1>3
  <1> QED BY <1>6, <1>7, <1>8 DEF Delivery

(* RECEIVE appends to the log, and starts the commands of the new message    *)
(* only: no command of an earlier start or an earlier message is mistaken    *)
(* for one of it.                                                            *)
LEMMA ReceiveDelivery ==
  ASSUME TypeOK, Delivery, NEW c \in Conns, Receive(c)
  PROVE  Delivery'
  <1> DEFINE f == Head(rx[c])
             e == [from |-> c, frag |-> f, reply |-> ReplyTo(f)]
  <1>1. f \in Fragment
    BY HeadType DEF Receive
  <1>2. /\ Len(log) = current /\ current \in Nat /\ boot \in Nat
        /\ up /\ log \in Seq(LogEntry)
    BY DEF Delivery, Bookkeeping, TypeOK, Receive
  <1>3. /\ current' = current + 1
        /\ amsg' = ReplyTo(f)
        /\ log' = Append(log, e)
        /\ spawned' = spawned \cup SpawnsOf(f, current + 1, Commands(f))
        /\ UNCHANGED <<up, pss_list, last, joined, tx, boot>>
    BY DEF Receive, NumberAfter, sessionVars
  <1> HIDE DEF f
  <1>4. /\ Len(log') = current + 1
        /\ log'[current + 1] = e
        /\ \A n \in 1..current : log'[n] = log[n]
    BY <1>2, <1>3, LogAppend
  <1>5. Bookkeeping'
    <2>1. \A d \in Conns : joined'[d] <= last'[d] /\ last'[d] <= current'
      BY <1>2, <1>3 DEF Delivery, Bookkeeping, TypeOK
    <2>2. amsg' = log'[current'].reply /\ current' > 0
      BY <1>2, <1>3, <1>4
    <2>3. \A n \in 1..current' : log'[n].reply = ReplyTo(log'[n].frag)
      BY <1>2, <1>3, <1>4 DEF Delivery, Bookkeeping
    <2>4. \A s \in spawned' : s.boot <= boot' /\ (s.boot = boot' => s.num <= current')
      <3>1. \A s \in spawned : s.num \in Nat
        BY DEF TypeOK, Spawn
      <3> QED BY <3>1, <1>2, <1>3 DEF Delivery, Bookkeeping, SpawnsOf
    <2>5. ASSUME NEW n \in 1..current', NEW k \in Command
          PROVE  Started(k, n)' <=> k \in Commands(log'[n].frag)
      <3>1. CASE n \in 1..current
        <4>1. Started(k, n)' <=> Started(k, n)
          BY <3>1, <1>2, <1>3 DEF Started, SpawnsOf
        <4> QED BY <3>1, <4>1, <1>4 DEF Delivery, Bookkeeping
      <3>2. CASE n = current + 1
        <4>1. \A s \in spawned : s.boot = boot => s.num # n
          <5>1. \A s \in spawned : s.num \in Nat
            BY DEF TypeOK, Spawn
          <5> QED BY <5>1, <3>2, <1>2 DEF Delivery, Bookkeeping
        <4>2. Started(k, n)' <=> k \in Commands(f)
          <5>1. Started(k, n)' <=> \E s \in SpawnsOf(f, n, Commands(f)) : s.cmd = k
            BY <4>1, <3>2, <1>3 DEF Started, SpawnsOf
          <5>2. ASSUME k \in Commands(f)
                PROVE  \E s \in SpawnsOf(f, n, Commands(f)) : s.cmd = k
            <6> DEFINE s == [cmd |-> k, boot |-> boot, num |-> n, frag |-> f]
            <6>1. s \in SpawnsOf(f, n, Commands(f)) /\ s.cmd = k
              BY <5>2 DEF SpawnsOf
            <6> QED BY <6>1
          <5>3. \A s \in SpawnsOf(f, n, Commands(f)) : s.cmd \in Commands(f)
            BY DEF SpawnsOf
          <5> QED BY <5>1, <5>2, <5>3
        <4> QED BY <4>2, <3>2, <1>4
      <3> QED BY <3>1, <3>2, <1>2, <1>3
    <2> QED BY <2>1, <2>2, <2>3, <2>4, <2>5, <1>2, <1>3, <1>4
            DEF Delivery, Bookkeeping
  <1>6. InOrderOnce'
    BY <1>3 DEF Delivery, InOrderOnce
  <1>7. WrittenIsLogged'
    BY <1>2, <1>3, <1>4 DEF Delivery, WrittenIsLogged
  <1> QED BY <1>5, <1>6, <1>7 DEF Delivery

(***************************************************************************)
(* Delivery is inductive: whatever the sessions do and whatever fails, the  *)
(* single amsg buffer never writes a session a message twice, out of order, *)
(* from before it joined, or with another message's bytes.                  *)
(***************************************************************************)
THEOREM DeliveryInvariant == Spec => []Delivery
<1>1. Init => Delivery
  BY ConstantsOK DEF Init, Delivery, Bookkeeping, InOrderOnce, WrittenIsLogged, Started
<1>2. TypeOK /\ Delivery /\ [Next]_vars => Delivery'
  <2> SUFFICES ASSUME TypeOK, Delivery, [Next]_vars PROVE Delivery'
    OBVIOUS
  <2>1. CASE ProtocolInit
    <3>1. /\ boot' = boot + 1 /\ current = 0 /\ current' = 0 /\ amsg' = NoReply
          /\ UNCHANGED <<pss_list, last, joined, tx, log, spawned>>
      BY <2>1 DEF ProtocolInit, sessionVars, wireVars, Delivery, Bookkeeping
    <3>2. \A s \in spawned : s.boot \in Nat /\ s.boot <= boot /\ boot \in Nat
      BY DEF TypeOK, Spawn, Delivery, Bookkeeping
    <3>3. \A s \in spawned' : s.boot <= boot' /\ s.boot # boot'
      BY <3>1, <3>2
    <3>4. Bookkeeping'
      BY <2>1, <3>1, <3>3 DEF ProtocolInit, Delivery, Bookkeeping
    <3> QED BY <3>1, <3>4 DEF Delivery, InOrderOnce, WrittenIsLogged
  <2>2. ASSUME NEW c \in Conns, Established(c) PROVE Delivery'
    <3>1. /\ tx[c] = <<>> /\ up
          /\ pss_list' = pss_list \cup {c}
          /\ last'[c] = current /\ joined'[c] = current
          /\ \A d \in Conns \ {c} : last'[d] = last[d] /\ joined'[d] = joined[d]
          /\ UNCHANGED <<up, amsg, current, tx, boot, log, spawned>>
      BY <2>2 DEF Established, FirstLast, wireVars, TypeOK, Delivery, Bookkeeping
    <3>2. Bookkeeping'
      <4>1. \A d \in Conns : joined'[d] <= last'[d] /\ last'[d] <= current'
        BY <3>1, NumberTypes, Ordered
      <4> QED BY <3>1, <4>1 DEF Delivery, Bookkeeping, Started
    <3>3. InOrderOnce'
      BY <3>1 DEF Delivery, InOrderOnce
    <3>4. WrittenIsLogged'
      BY <3>1 DEF Delivery, WrittenIsLogged
    <3> QED BY <3>2, <3>3, <3>4 DEF Delivery
  <2>3. ASSUME NEW c \in Conns, Closed(c) PROVE Delivery'
    BY <2>3, DropDelivery DEF Closed
  <2>4. ASSUME NEW c \in Conns, NEW p \in Packets, Send(c, p) PROVE Delivery'
    BY <2>4, QuietDelivery DEF Send, sessionVars
  <2>5. ASSUME NEW c \in Conns, LibraryWrite(c) PROVE Delivery'
    BY <2>5, QuietDelivery DEF LibraryWrite, sessionVars, wireVars
  <2>6. ASSUME NEW c \in Conns, WriteableNothing(c) PROVE Delivery'
    BY <2>6, QuietDelivery DEF WriteableNothing, sessionVars, wireVars
  <2>7. ASSUME NEW c \in Conns, WriteableSend(c) PROVE Delivery'
    BY <2>7, WriteableDelivery
  <2>8. ASSUME NEW c \in Conns, WriteableFail(c) PROVE Delivery'
    BY <2>8, DropDelivery DEF WriteableFail
  <2>9. ASSUME NEW c \in Conns, Receive(c) PROVE Delivery'
    BY <2>9, ReceiveDelivery
  <2>10. ASSUME NEW c \in Conns, ReceiveOOM(c) PROVE Delivery'
    BY <2>10 DEF ReceiveOOM, sessionVars, Delivery, Bookkeeping, InOrderOnce,
                 WrittenIsLogged, Started
  <2>11. ASSUME NEW c \in Conns, ReceiveCrash(c) PROVE Delivery'
    <3>1. /\ up' = FALSE /\ current' = 0 /\ amsg' = NoReply /\ log' = <<>>
          /\ pss_list' = {} /\ boot' = boot
          /\ \A d \in Conns : last'[d] = 0 /\ joined'[d] = 0 /\ tx'[d] = <<>>
      BY <2>11 DEF ReceiveCrash, Drop, Cleared, TypeOK
    <3>2. boot \in Nat
      BY DEF TypeOK
    <3>3. \A s \in spawned' : s.boot <= boot'
      BY <2>11, <3>1, <3>2 DEF ReceiveCrash, SpawnsOf, Delivery, Bookkeeping
    <3>4. Bookkeeping'
      BY <3>1, <3>3 DEF Bookkeeping
    <3> QED BY <3>1, <3>4 DEF Delivery, InOrderOnce, WrittenIsLogged
  <2>12. CASE UNCHANGED vars
    BY <2>12, QuietDelivery DEF vars, sessionVars, wireVars
  <2> QED BY <2>1, <2>2, <2>3, <2>4, <2>5, <2>6, <2>7, <2>8, <2>9, <2>10, <2>11, <2>12
          DEF Next
<1> QED BY <1>1, <1>2, TypeCorrect, PTL DEF Spec
-----------------------------------------------------------------------------
(***************************************************************************)
(* A session is written each message at most once, newest last, and none    *)
(* from before it was established.                                          *)
(***************************************************************************)
THEOREM OrderCorrect == Spec => []InOrderOnce
  BY DeliveryInvariant, PTL DEF Delivery

(***************************************************************************)
(* The bytes written as message n are the reply to the fragment received as *)
(* message n.                                                               *)
(***************************************************************************)
THEOREM ContentCorrect == Spec => []WrittenIsLogged
  BY DeliveryInvariant, PTL DEF Delivery

(***************************************************************************)
(* An ACK is written only for a fragment that was handed to redisClient and *)
(* to wget, a NACK only for one that was handed to neither.                 *)
(***************************************************************************)
THEOREM AckCorrect == Spec => []AckIsBacked
<1>1. TypeOK /\ Delivery => AckIsBacked
  <2> SUFFICES ASSUME TypeOK, Delivery, NEW c \in Conns, NEW i \in 1..Len(tx[c]),
                      NEW k \in Command
               PROVE  Started(k, tx[c][i].num) <=> tx[c][i].reply.kind = "ACK"
    BY DEF AckIsBacked
  <2> DEFINE n == tx[c][i].num
  <2>1. n \in 1..current /\ tx[c][i].reply = log[n].reply
    BY DEF Delivery, Bookkeeping, WrittenIsLogged
  <2>2. log[n].reply = ReplyTo(log[n].frag) /\ (Started(k, n) <=> k \in Commands(log[n].frag))
    BY <2>1 DEF Delivery, Bookkeeping
  <2>3. ReplyTo(log[n].frag).kind = "ACK" <=> log[n].frag \in CRCValid
    BY DEF ReplyTo
  <2>4. k \in Commands(log[n].frag) <=> log[n].frag \in CRCValid
    BY DEF Commands
  <2> QED BY <2>1, <2>2, <2>3, <2>4
<1> QED BY <1>1, TypeCorrect, DeliveryInvariant, PTL

(***************************************************************************)
(* No reply is forgotten: as long as it is the newest, its sender still has *)
(* a WRITEABLE callback coming, has been written it, or has left.  A ping,  *)
(* a pong or another session's callback cannot use up the one it needs.     *)
(***************************************************************************)
THEOREM NewestNotForgotten == Spec => []LatestIsOnItsWay
<1>1. Init => LatestIsOnItsWay
  BY DEF Init, LatestIsOnItsWay
<1>2. TypeOK /\ Delivery /\ LatestIsOnItsWay /\ [Next]_vars => LatestIsOnItsWay'
  <2> SUFFICES ASSUME TypeOK, Delivery, LatestIsOnItsWay, [Next]_vars
               PROVE  LatestIsOnItsWay'
    OBVIOUS
  <2>1. CASE ProtocolInit
    BY <2>1 DEF ProtocolInit, LatestIsOnItsWay
  <2>2. ASSUME NEW c \in Conns, Established(c) PROVE LatestIsOnItsWay'
    BY <2>2 DEF Established, FirstLast, LatestIsOnItsWay, TypeOK
  <2>3. ASSUME NEW c \in Conns, Closed(c) PROVE LatestIsOnItsWay'
    <3>1. \A d \in Conns \ {c} : last'[d] = last[d]
      BY <2>3 DEF Closed, Drop, Cleared
    <3>2. c \notin pss_list' /\ pollout' = pollout \ {c} /\ pss_list' = pss_list \ {c}
      BY <2>3 DEF Closed, Drop, RemoveFds
    <3>3. UNCHANGED <<up, amsg, current, log>> /\ pss_list \subseteq Conns
      BY <2>3 DEF Closed, TypeOK
    <3> QED BY <3>1, <3>2, <3>3 DEF LatestIsOnItsWay
  <2>4. ASSUME NEW c \in Conns, NEW p \in Packets, Send(c, p) PROVE LatestIsOnItsWay'
    BY <2>4 DEF Send, sessionVars, LatestIsOnItsWay
  <2>5. ASSUME NEW c \in Conns, LibraryWrite(c) PROVE LatestIsOnItsWay'
    BY <2>5 DEF LibraryWrite, sessionVars, wireVars, LatestIsOnItsWay
  <2>6. ASSUME NEW c \in Conns, WriteableNothing(c) PROVE LatestIsOnItsWay'
    BY <2>6 DEF WriteableNothing, sessionVars, wireVars, LatestIsOnItsWay
  <2>7. ASSUME NEW c \in Conns, WriteableSend(c) PROVE LatestIsOnItsWay'
    BY <2>7 DEF WriteableSend, Remember, LatestIsOnItsWay, TypeOK
  <2>8. ASSUME NEW c \in Conns, WriteableFail(c) PROVE LatestIsOnItsWay'
    <3>1. \A d \in Conns \ {c} : last'[d] = last[d]
      BY <2>8 DEF WriteableFail, Drop, Cleared
    <3>2. c \notin pss_list' /\ pollout' = pollout \ {c} /\ pss_list' = pss_list \ {c}
      BY <2>8 DEF WriteableFail, Drop, RemoveFds
    <3>3. UNCHANGED <<up, amsg, current, log>> /\ pss_list \subseteq Conns
      BY <2>8 DEF WriteableFail, TypeOK
    <3> QED BY <3>1, <3>2, <3>3 DEF LatestIsOnItsWay
  <2>9. ASSUME NEW c \in Conns, Receive(c) PROVE LatestIsOnItsWay'
    <3> DEFINE f == Head(rx[c])
               e == [from |-> c, frag |-> f, reply |-> ReplyTo(f)]
    <3>1. log' = Append(log, e) /\ current' = current + 1 /\ c \in pollout'
      BY <2>9 DEF Receive, NumberAfter, CallbackOnWritable
    <3>2. log \in Seq(LogEntry) /\ Len(log) = current
      BY DEF TypeOK, Delivery, Bookkeeping
    <3>3. log'[current'].from = c
      BY <3>1, <3>2, LogAppend
    <3> QED BY <3>1, <3>3 DEF LatestIsOnItsWay
  <2>10. ASSUME NEW c \in Conns, ReceiveOOM(c) PROVE LatestIsOnItsWay'
    BY <2>10 DEF ReceiveOOM, LatestIsOnItsWay
  <2>11. ASSUME NEW c \in Conns, ReceiveCrash(c) PROVE LatestIsOnItsWay'
    BY <2>11 DEF ReceiveCrash, LatestIsOnItsWay
  <2>12. CASE UNCHANGED vars
    BY <2>12 DEF vars, sessionVars, wireVars, LatestIsOnItsWay
  <2> QED BY <2>1, <2>2, <2>3, <2>4, <2>5, <2>6, <2>7, <2>8, <2>9, <2>10, <2>11, <2>12
          DEF Next
<1> QED BY <1>1, <1>2, TypeCorrect, DeliveryInvariant, PTL DEF Spec
-----------------------------------------------------------------------------
(* Controllers that wait for each answer, packets that fit into one fragment *)
(* and no failing malloc() or system(): what OneReplyEach is stated for.     *)
Patient == Window = 1 /\ CanFail = FALSE /\ \A p \in Packets : Len(Frags[p]) = 1

(***************************************************************************)
(* A session nobody else's messages came between: it was written the        *)
(* messages since it joined, one after the other, every fragment it sent is *)
(* still to be received or became a message, and it waits for one answer at *)
(* the most.                                                                *)
(***************************************************************************)
Undisturbed(c) ==
  /\ \A i \in 1..Len(tx[c]) : tx[c][i].num = joined[c] + i
  /\ last[c] = joined[c] + Len(tx[c])
  /\ owed[c] = Len(rx[c]) + (Len(log) - joined[c])
  /\ owed[c] <= Len(tx[c]) + 1

Replying ==
  /\ \A c \in Conns \ pss_list : rx[c] = <<>> /\ owed[c] = 0
  /\ \A c \in pss_list : OnlySender(c) => Undisturbed(c)

(* The numbers of a session.                                                 *)
LEMMA SessionNumbers ==
  ASSUME TypeOK, Delivery, NEW c \in Conns
  PROVE  /\ Len(log) = current /\ current \in Nat /\ Len(tx[c]) \in Nat /\ Len(rx[c]) \in Nat
         /\ joined[c] \in Nat /\ last[c] \in Nat /\ owed[c] \in Nat
         /\ joined[c] <= current /\ last[c] <= current
<1>1. tx[c] \in Seq(Written) /\ rx[c] \in Seq(Fragment)
  BY DEF TypeOK
<1>2. Len(tx[c]) \in Nat /\ Len(rx[c]) \in Nat
  BY <1>1
<1>3. joined[c] \in Nat /\ last[c] \in Nat /\ owed[c] \in Nat /\ current \in Nat
  BY DEF TypeOK
<1>4. joined[c] <= last[c] /\ last[c] <= current /\ Len(log) = current
  BY DEF Delivery, Bookkeeping
<1> QED BY <1>2, <1>3, <1>4

(* Sums of a session's numbers: n messages in the log, j when it joined, t   *)
(* written to it, x of its fragments unread.                                 *)
LEMMA Sums ==
  ASSUME NEW n \in Nat, NEW j \in Nat, NEW t \in Nat, NEW x \in Nat
  PROVE  /\ x + (n - j) <= t + 1 /\ j + t <= n /\ j + t # n => n = j + (t + 1)
         /\ x + (n - j) = (x - 1) + ((n + 1) - j)
  OBVIOUS

(* A step that does nothing to a session and keeps the log.                  *)
LEMMA SameSession ==
  ASSUME NEW c, OnlySender(c) => Undisturbed(c), log' = log, joined'[c] = joined[c],
         tx'[c] = tx[c], last'[c] = last[c], rx'[c] = rx[c], owed'[c] = owed[c]
  PROVE  OnlySender(c)' => Undisturbed(c)'
BY DEF OnlySender, Undisturbed

(* Sessions that go leave nothing behind, and nothing happens to the others. *)
LEMMA DropReplying ==
  ASSUME TypeOK, Replying, NEW cs \in SUBSET Conns, Drop(cs), log' = log
  PROVE  Replying'
<1>1. \A c \in Conns : /\ last'[c] = IF c \in cs THEN 0 ELSE last[c]
                       /\ joined'[c] = IF c \in cs THEN 0 ELSE joined[c]
                       /\ tx'[c] = IF c \in cs THEN <<>> ELSE tx[c]
                       /\ rx'[c] = IF c \in cs THEN <<>> ELSE rx[c]
                       /\ owed'[c] = IF c \in cs THEN 0 ELSE owed[c]
  BY DEF Drop, Cleared
<1>2. pss_list' = pss_list \ cs /\ pss_list \subseteq Conns
  BY DEF Drop, TypeOK
<1>3. \A c \in pss_list' : OnlySender(c)' => Undisturbed(c)'
  <2> SUFFICES ASSUME NEW c \in pss_list' PROVE OnlySender(c)' => Undisturbed(c)'
    OBVIOUS
  <2>1. c \in pss_list /\ c \in Conns /\ c \notin cs
    BY <1>2
  <2>2. OnlySender(c) => Undisturbed(c)
    BY <2>1 DEF Replying
  <2> QED BY <1>1, <2>1, <2>2, SameSession
<1>4. \A c \in Conns \ pss_list' : rx'[c] = <<>> /\ owed'[c] = 0
  BY <1>1, <1>2 DEF Replying
<1> QED BY <1>3, <1>4 DEF Replying

(* The pending message goes out, to a session that lacks exactly that one.   *)
LEMMA WriteableReplying ==
  ASSUME TypeOK, Delivery, Replying, NEW c \in Conns, WriteableSend(c)
  PROVE  Replying'
<1> DEFINE w == [num |-> current, reply |-> amsg]
<1>1. /\ UNCHANGED <<log, joined, rx, owed, pss_list>>
      /\ last' = [last EXCEPT ![c] = current] /\ tx' = [tx EXCEPT ![c] = Append(@, w)]
      /\ last[c] # current /\ c \in pss_list
  BY DEF WriteableSend, Remember, TypeOK
<1>2. /\ \A d \in Conns \ {c} : last'[d] = last[d] /\ tx'[d] = tx[d]
      /\ last'[c] = current /\ tx'[c] = Append(tx[c], w)
  BY <1>1 DEF TypeOK
<1>3. pss_list \subseteq Conns /\ tx[c] \in Seq(Written)
  BY DEF TypeOK
<1>4. w.num = current
  OBVIOUS
<1> HIDE DEF w
<1>5. ASSUME OnlySender(c)' PROVE Undisturbed(c)'
  <2>1. OnlySender(c)
    BY <1>1, <1>5 DEF OnlySender
  <2>2. Undisturbed(c)
    BY <1>1, <2>1 DEF Replying
  <2>3. /\ last[c] = joined[c] + Len(tx[c]) /\ owed[c] <= Len(tx[c]) + 1
        /\ owed[c] = Len(rx[c]) + (current - joined[c])
    BY <2>2, SessionNumbers DEF Undisturbed
  <2>4. current = joined[c] + (Len(tx[c]) + 1)
    <3>1. /\ current \in Nat /\ Len(tx[c]) \in Nat /\ Len(rx[c]) \in Nat /\ joined[c] \in Nat
          /\ last[c] <= current /\ last[c] # current
      BY <1>1, SessionNumbers
    <3>2. Len(rx[c]) + (current - joined[c]) <= Len(tx[c]) + 1
      BY <2>3
    <3>3. joined[c] + Len(tx[c]) <= current /\ joined[c] + Len(tx[c]) # current
      BY <2>3, <3>1
    <3>4. PICK a, b, k, j : a = joined[c] /\ b = Len(tx[c]) /\ k = Len(rx[c]) /\ j = current
      OBVIOUS
    <3>5. a \in Nat /\ b \in Nat /\ k \in Nat /\ j \in Nat
      BY <3>1, <3>4
    <3>6. k + (j - a) <= b + 1 /\ a + b <= j /\ a + b # j
      BY <3>2, <3>3, <3>4
    <3>7. j = a + (b + 1)
      BY <3>5, <3>6
    <3> QED BY <3>4, <3>7
  <2>5. Len(tx'[c]) = Len(tx[c]) + 1 /\ tx'[c][Len(tx[c]) + 1] = w
        /\ \A i \in 1..Len(tx[c]) : tx'[c][i] = tx[c][i]
    BY <1>2, <1>3
  <2>6. Len(tx[c]) \in Nat
    BY SessionNumbers
  <2>7. ASSUME NEW i \in 1..Len(tx'[c]) PROVE tx'[c][i].num = joined'[c] + i
    <3>1. CASE i \in 1..Len(tx[c])
      BY <1>1, <2>2, <2>5, <3>1 DEF Undisturbed
    <3>2. CASE i = Len(tx[c]) + 1
      BY <1>1, <1>4, <2>4, <2>5, <3>2
    <3> QED BY <2>5, <2>6, <2>7, <3>1, <3>2
  <2>8. last'[c] = joined'[c] + Len(tx'[c])
    BY <1>1, <1>2, <2>4, <2>5
  <2>9. owed'[c] <= Len(tx'[c]) + 1
    BY <1>1, <2>3, <2>5, SessionNumbers
  <2>10. owed'[c] = Len(rx'[c]) + (Len(log') - joined'[c])
    BY <1>1, <2>2 DEF Undisturbed
  <2> QED BY <2>7, <2>8, <2>9, <2>10 DEF Undisturbed
<1>6. \A d \in pss_list' : OnlySender(d)' => Undisturbed(d)'
  <2> SUFFICES ASSUME NEW d \in pss_list', d # c PROVE OnlySender(d)' => Undisturbed(d)'
    BY <1>5
  <2>1. d \in Conns \ {c} /\ (OnlySender(d) => Undisturbed(d))
    BY <1>1, <1>3 DEF Replying
  <2> QED BY <1>1, <1>2, <2>1, SameSession
<1> QED BY <1>1, <1>6 DEF Replying

(* A fragment becomes a message: its sender waits for it, and everybody else *)
(* is no longer the only sender.                                             *)
LEMMA ReceiveReplying ==
  ASSUME TypeOK, Delivery, Replying, NEW c \in Conns, Receive(c)
  PROVE  Replying'
<1> DEFINE e == [from |-> c, frag |-> Head(rx[c]), reply |-> ReplyTo(Head(rx[c]))]
<1>1. /\ UNCHANGED <<joined, last, tx, owed, pss_list>> /\ log' = Append(log, e)
      /\ rx' = [rx EXCEPT ![c] = Tail(@)] /\ rx[c] # <<>> /\ c \in pss_list
  BY DEF Receive, sessionVars
<1>2. e.from = c
  OBVIOUS
<1> HIDE DEF e
<1>3. rx[c] \in Seq(Fragment) /\ log \in Seq(LogEntry) /\ pss_list \subseteq Conns
  BY DEF TypeOK
<1>4. /\ Len(log') = Len(log) + 1 /\ log'[Len(log) + 1] = e
      /\ \A n \in 1..Len(log) : log'[n] = log[n]
  BY <1>1, <1>3, LogAppend
<1>5. \A d \in Conns \ {c} : rx'[d] = rx[d]
  BY <1>1 DEF TypeOK
<1>6. rx'[c] = Tail(rx[c])
  BY <1>1 DEF TypeOK
<1>7. Len(rx'[c]) = Len(rx[c]) - 1
  BY <1>1, <1>3, <1>6, HeadTailProperties
<1>8. \A d \in pss_list : OnlySender(d)' => OnlySender(d) /\ d = c
  <2> SUFFICES ASSUME NEW d \in pss_list, OnlySender(d)' PROVE OnlySender(d) /\ d = c
    OBVIOUS
  <2>1. \A n \in 1..(Len(log) + 1) : n > joined[d] => log'[n].from = d
    BY <1>1, <1>4 DEF OnlySender
  <2>2. Len(log) \in Nat /\ joined[d] \in Nat /\ joined[d] <= Len(log)
    BY <1>3, SessionNumbers
  <2>3. Len(log) + 1 \in 1..(Len(log) + 1) /\ Len(log) + 1 > joined[d]
        /\ \A n \in 1..Len(log) : n \in 1..(Len(log) + 1)
    BY <2>2
  <2>4. d = c
    BY <1>2, <1>4, <2>1, <2>3
  <2>5. OnlySender(d)
    BY <1>4, <2>1, <2>3 DEF OnlySender
  <2> QED BY <2>4, <2>5
<1>9. ASSUME OnlySender(c)' PROVE Undisturbed(c)'
  <2>1. Undisturbed(c)
    BY <1>1, <1>8, <1>9 DEF Replying
  <2>2. owed[c] = Len(rx[c]) + (Len(log) - joined[c])
    BY <2>1 DEF Undisturbed
  <2>3. owed'[c] = Len(rx'[c]) + (Len(log') - joined'[c])
    <3>1. Len(log) \in Nat /\ Len(rx[c]) \in Nat /\ joined[c] \in Nat
      BY SessionNumbers
    <3>2. owed'[c] = owed[c] /\ joined'[c] = joined[c]
      BY <1>1
    <3>3. Len(rx[c]) + (Len(log) - joined[c]) = (Len(rx[c]) - 1) + ((Len(log) + 1) - joined[c])
      BY <3>1, Sums
    <3> QED BY <1>4, <1>7, <2>2, <3>2, <3>3
  <2> QED BY <1>1, <2>1, <2>3 DEF Undisturbed
<1>10. \A d \in pss_list' : OnlySender(d)' => Undisturbed(d)'
  BY <1>1, <1>8, <1>9
<1>11. \A d \in Conns \ pss_list' : rx'[d] = <<>> /\ owed'[d] = 0
  BY <1>1, <1>5 DEF Replying
<1> QED BY <1>10, <1>11 DEF Replying

(***************************************************************************)
(* With patient controllers, a session that alone has sent anything since   *)
(* it was established is answered fragment by fragment, in order, and waits *)
(* for one answer at the most, whoever else is connected, comes or goes.    *)
(***************************************************************************)
THEOREM RepliesCorrect == ASSUME Patient PROVE Spec => []OneReplyEach
<1>1. Init => Replying
  BY DEF Init, Replying
<1>2. TypeOK /\ Delivery /\ Replying /\ [Next]_vars => Replying'
  <2> SUFFICES ASSUME TypeOK, Delivery, Replying, [Next]_vars PROVE Replying'
    OBVIOUS
  <2>1. ASSUME UNCHANGED <<pss_list, last, joined, rx, tx, owed, log>> PROVE Replying'
    BY <2>1, SameSession DEF Replying
  <2>2. CASE ProtocolInit
    BY <2>1, <2>2 DEF ProtocolInit, sessionVars, wireVars
  <2>3. ASSUME NEW c \in Conns, Established(c) PROVE Replying'
    <3>1. /\ UNCHANGED <<rx, tx, owed, log>> /\ c \notin pss_list /\ pss_list' = pss_list \cup {c}
          /\ last' = [last EXCEPT ![c] = current] /\ joined' = [joined EXCEPT ![c] = current]
      BY <2>3 DEF Established, FirstLast, wireVars
    <3>2. /\ last'[c] = current /\ joined'[c] = current
          /\ \A d \in Conns \ {c} : last'[d] = last[d] /\ joined'[d] = joined[d]
      BY <3>1 DEF TypeOK
    <3>3. rx[c] = <<>> /\ owed[c] = 0 /\ tx[c] = <<>>
      BY <3>1 DEF Replying, Delivery, Bookkeeping
    <3>4. Undisturbed(c)'
      <4>1. Len(log) = current /\ current \in Nat /\ Len(<<>>) = 0
        BY SessionNumbers
      <4> QED BY <3>1, <3>2, <3>3, <4>1 DEF Undisturbed
    <3>5. ASSUME NEW d \in pss_list', d # c PROVE OnlySender(d)' => Undisturbed(d)'
      <4>1. d \in Conns \ {c} /\ (OnlySender(d) => Undisturbed(d))
        BY <3>1, <3>5 DEF Replying, TypeOK
      <4> QED BY <3>1, <3>2, <4>1, SameSession
    <3> QED BY <3>1, <3>4, <3>5 DEF Replying
  <2>4. ASSUME NEW c \in Conns, Closed(c) \/ WriteableFail(c) PROVE Replying'
    BY <2>4, DropReplying DEF Closed, WriteableFail
  <2>5. ASSUME NEW c \in Conns, NEW p \in Packets, Send(c, p) PROVE Replying'
    <3>1. /\ UNCHANGED <<pss_list, last, joined, tx, log>> /\ c \in pss_list
          /\ owed[c] < Len(tx[c]) + Window /\ owed' = [owed EXCEPT ![c] = @ + Len(Frags[p])]
          /\ rx' = [rx EXCEPT ![c] = @ \o Frags[p]]
      BY <2>5 DEF Send, sessionVars
    <3>2. Window = 1 /\ Len(Frags[p]) = 1 /\ Frags[p] \in Seq(Fragment) /\ rx[c] \in Seq(Fragment)
      BY ConstantsOK DEF Patient, TypeOK
    <3>3. /\ owed'[c] = owed[c] + Len(Frags[p]) /\ rx'[c] = rx[c] \o Frags[p]
          /\ \A d \in Conns \ {c} : owed'[d] = owed[d] /\ rx'[d] = rx[d]
      BY <3>1 DEF TypeOK
    <3>4. Len(rx'[c]) = Len(rx[c]) + 1
      <4>1. Len(rx[c] \o Frags[p]) = Len(rx[c]) + Len(Frags[p])
        BY <3>2, ConcatProperties
      <4> QED BY <3>2, <3>3, <4>1
    <3>5. ASSUME OnlySender(c)' PROVE Undisturbed(c)'
      <4>1. Undisturbed(c)
        BY <3>1, <3>5 DEF Replying, OnlySender
      <4>2. owed[c] = Len(rx[c]) + (Len(log) - joined[c])
        BY <4>1 DEF Undisturbed
      <4>3. /\ Len(log) \in Nat /\ Len(rx[c]) \in Nat /\ joined[c] \in Nat /\ owed[c] \in Nat
            /\ Len(tx[c]) \in Nat
        BY SessionNumbers
      <4>4. owed'[c] = owed[c] + 1 /\ owed[c] < Len(tx[c]) + 1
        BY <3>1, <3>2, <3>3
      <4>5. owed'[c] = Len(rx'[c]) + (Len(log) - joined[c])
        BY <3>4, <4>2, <4>3, <4>4
      <4>6. owed'[c] <= Len(tx[c]) + 1
        BY <4>3, <4>4
      <4> QED BY <3>1, <4>1, <4>5, <4>6 DEF Undisturbed
    <3>6. ASSUME NEW d \in pss_list', d # c PROVE OnlySender(d)' => Undisturbed(d)'
      <4>1. d \in Conns \ {c} /\ (OnlySender(d) => Undisturbed(d))
        BY <3>1, <3>6 DEF Replying, TypeOK
      <4> QED BY <3>1, <3>3, <4>1, SameSession
    <3> QED BY <3>1, <3>3, <3>5, <3>6 DEF Replying
  <2>6. ASSUME NEW c \in Conns, LibraryWrite(c) \/ WriteableNothing(c) PROVE Replying'
    BY <2>1, <2>6 DEF LibraryWrite, WriteableNothing, sessionVars, wireVars
  <2>7. ASSUME NEW c \in Conns, WriteableSend(c) PROVE Replying'
    BY <2>7, WriteableReplying
  <2>8. ASSUME NEW c \in Conns, Receive(c) PROVE Replying'
    BY <2>8, ReceiveReplying
  <2>9. ASSUME NEW c \in Conns, ReceiveOOM(c) PROVE Replying'
    BY <2>9 DEF ReceiveOOM, Patient
  <2>10. ASSUME NEW c \in Conns, ReceiveCrash(c) PROVE Replying'
    <3>1. pss_list' = {} /\ \A d \in Conns : rx'[d] = <<>> /\ owed'[d] = 0
      BY <2>10 DEF ReceiveCrash, Drop, Cleared, TypeOK
    <3> QED BY <3>1 DEF Replying
  <2>11. CASE UNCHANGED vars
    BY <2>1, <2>11 DEF vars, sessionVars, wireVars
  <2> QED BY <2>2, <2>3, <2>4, <2>5, <2>6, <2>7, <2>8, <2>9, <2>10, <2>11 DEF Next
<1>3. TypeOK /\ Delivery /\ Replying => OneReplyEach
  <2> SUFFICES ASSUME TypeOK, Delivery, Replying, NEW c \in pss_list, OnlySender(c)
               PROVE  /\ \A i \in 1..Len(tx[c]) : tx[c][i].num = joined[c] + i
                      /\ Len(log) <= joined[c] + Len(tx[c]) + 1
    BY DEF OneReplyEach
  <2>1. Undisturbed(c) /\ c \in Conns
    BY DEF Replying, TypeOK
  <2>2. /\ Len(log) \in Nat /\ Len(rx[c]) \in Nat /\ joined[c] \in Nat /\ Len(tx[c]) \in Nat
    BY <2>1, SessionNumbers
  <2>3. Len(rx[c]) + (Len(log) - joined[c]) <= Len(tx[c]) + 1
    BY <2>1 DEF Undisturbed
  <2>4. Len(log) <= joined[c] + Len(tx[c]) + 1
    BY <2>2, <2>3
  <2> QED BY <2>1, <2>4 DEF Undisturbed
<1> QED BY <1>1, <1>2, <1>3, TypeCorrect, DeliveryInvariant, PTL DEF Spec
-----------------------------------------------------------------------------
(* Only packets that verify are handed to the background commands.           *)
OnlyVerified == \A j \in spawned : j.frag \in CRCValid

(* Every job that was started, and nothing else, has a phase and its counts. *)
Phases == {"started", "cut"} \cup Connected \cup Ended

JobTypes ==
  /\ phase \in [spawned -> Phases]
  /\ tried \in [spawned -> Nat]
  /\ posted \in [spawned -> Nat]
  /\ redis \in [Devices -> {Word[f] : f \in CRCValid} \cup {NoReply}]
  /\ health \in [Services -> Health]

(* A wget is never connected to redis, and one still running has a try left. *)
Trying(j) ==
  /\ j.cmd = "wget" => phase[j] \in {"started"} \cup Ended
  /\ j.cmd = "wget" /\ phase[j] = "started" => tried[j] < Tries
  /\ j.cmd # "wget" => tried[j] = 0
  /\ posted[j] <= tried[j] /\ tried[j] <= Tries
  /\ j.cmd = "wget" /\ phase[j] = "done" => posted[j] >= 1

(* A job not in trouble: its service is up as long as it runs, its           *)
(* connection holds, and a wget has not tried before.                        *)
Smooth(j) ==
  /\ phase[j] \notin Ended => health[ServiceOf(j)] = "up"
  /\ phase[j] \notin {"cut", "failed"}
  /\ phase[j] = "started" => tried[j] = 0
  /\ posted[j] <= 1
  /\ j.cmd = "redisClient" /\ phase[j] \in {"set", "done"} => redis[Device[j.frag]] # NoReply

Sound(j) == Trying(j) /\ (j \notin troubled => Smooth(j))

JobInv == OnlyVerified /\ JobTypes /\ StoredVerifies /\ \A j \in spawned : Sound(j)

(***************************************************************************)
(* What a step of the plugin does to the jobs: it ends none, and the new    *)
(* ones were started for a packet that verifies.  RECEIVE starts commands   *)
(* only behind isCRCValid(), also when it crashes between the two.          *)
(***************************************************************************)
LEMMA PluginSpawns ==
  ASSUME Next \/ UNCHANGED vars, OnlyVerified
  PROVE  spawned \subseteq spawned' /\ OnlyVerified'
<1>1. ASSUME UNCHANGED spawned PROVE spawned \subseteq spawned' /\ OnlyVerified'
  BY <1>1 DEF OnlyVerified
<1>2. ASSUME NEW f, NEW n, NEW cmds \in SUBSET Commands(f),
             spawned' = spawned \cup SpawnsOf(f, n, cmds)
      PROVE  spawned \subseteq spawned' /\ OnlyVerified'
  BY <1>2 DEF OnlyVerified, SpawnsOf, Commands
<1>3. CASE UNCHANGED vars
  BY <1>1, <1>3 DEF vars
<1>4. CASE ProtocolInit
  BY <1>1, <1>4 DEF ProtocolInit
<1>5. ASSUME NEW c \in Conns,
             \/ Established(c) \/ Closed(c) \/ LibraryWrite(c) \/ WriteableNothing(c)
             \/ WriteableSend(c) \/ WriteableFail(c) \/ ReceiveOOM(c)
             \/ \E p \in Packets : Send(c, p)
      PROVE  UNCHANGED spawned
  BY <1>5 DEF Established, Closed, LibraryWrite, WriteableNothing, WriteableSend,
              WriteableFail, ReceiveOOM, Send
<1>6. ASSUME NEW c \in Conns, Receive(c) PROVE spawned \subseteq spawned' /\ OnlyVerified'
  BY <1>6, <1>2 DEF Receive
<1>7. ASSUME NEW c \in Conns, ReceiveCrash(c) PROVE spawned \subseteq spawned' /\ OnlyVerified'
  <2>1. PICK cmds \in {{}, Commands(Head(rx[c])) \cap {"redisClient"}, Commands(Head(rx[c]))} :
          spawned' = spawned \cup SpawnsOf(Head(rx[c]), current + 1, cmds)
    BY <1>7 DEF ReceiveCrash
  <2> QED BY <2>1, <1>2
<1> QED BY <1>1, <1>3, <1>4, <1>5, <1>6, <1>7 DEF Next

(* What the facts about a job's fragment are.                                *)
LEMMA JobFragment ==
  ASSUME JobInv, NEW j \in spawned
  PROVE  j.frag \in CRCValid /\ Word[j.frag] # NoReply /\ Device[j.frag] \in Devices
<1>1. j.frag \in CRCValid
  BY DEF JobInv, OnlyVerified
<1> QED BY <1>1, ConstantsOK, ComlinkConstants DEF Devices

(***************************************************************************)
(* A step of job j: it is enough to look at j, and at what is stored, which *)
(* must not disappear.                                                      *)
(***************************************************************************)
LEMMA StepOfJob ==
  ASSUME JobInv, NEW j \in spawned, NEW p \in Phases, NEW t \in Nat, NEW n \in Nat,
         UNCHANGED <<spawned, health, troubled>>,
         phase' = [phase EXCEPT ![j] = p],
         tried' = [tried EXCEPT ![j] = t],
         posted' = [posted EXCEPT ![j] = n],
         redis' \in [Devices -> {Word[f] : f \in CRCValid} \cup {NoReply}],
         \A d \in Devices : redis[d] # NoReply => redis'[d] # NoReply,
         StoredVerifies', Sound(j)'
  PROVE  JobInv'
<1>1. OnlyVerified' /\ JobTypes'
  BY DEF JobInv, OnlyVerified, JobTypes
<1>2. ASSUME NEW k \in spawned, k # j PROVE Sound(k)'
  <2>1. phase'[k] = phase[k] /\ tried'[k] = tried[k] /\ posted'[k] = posted[k]
    BY <1>2 DEF JobInv, JobTypes
  <2>2. Device[k.frag] \in Devices
    BY <1>2, JobFragment
  <2>3. Sound(k)
    BY <1>2 DEF JobInv
  <2> QED BY <2>1, <2>2, <2>3 DEF Sound, Trying, Smooth
<1> QED BY <1>1, <1>2 DEF JobInv

(* A step of redisClient that stores nothing.                                *)
LEMMA RedisQuiet ==
  ASSUME JobInv, NEW j \in spawned,
         RedisConnect(j) \/ RedisPing(j) \/ RedisRefuse(j) \/ RedisGet(j) \/ RedisLost(j)
  PROVE  JobInv'
<1>1. PICK p \in {"connected", "pinged", "set", "done", "failed"} :
        /\ phase' = [phase EXCEPT ![j] = p]
        /\ UNCHANGED <<spawned, tried, redis, posted, health, troubled>>
        /\ j.cmd = "redisClient"
        /\ p = "failed" =>
             phase[j] = "cut" \/ (phase[j] = "started" /\ health["redis"] # "up")
        /\ p = "set" => phase[j] = "pinged" /\ health["redis"] = "failing"
        /\ p = "done" => phase[j] = "set"
        /\ p = "pinged" => phase[j] = "connected"
        /\ p = "connected" => phase[j] = "started"
  <2>1. CASE RedisConnect(j)
    BY <2>1 DEF RedisConnect, At, Go, vars
  <2>2. CASE RedisPing(j)
    BY <2>2 DEF RedisPing, At, Go, vars
  <2>3. CASE RedisRefuse(j)
    BY <2>3 DEF RedisRefuse, At, Go, vars
  <2>4. CASE RedisGet(j)
    BY <2>4 DEF RedisGet, At, Go, vars
  <2>5. CASE RedisLost(j)
    BY <2>5 DEF RedisLost, Go, vars
  <2> QED BY <2>1, <2>2, <2>3, <2>4, <2>5
<1>2. p \in Phases
  BY DEF Phases, Connected, Ended
<1>3. /\ tried' = [tried EXCEPT ![j] = tried[j]] /\ tried[j] \in Nat
      /\ posted' = [posted EXCEPT ![j] = posted[j]] /\ posted[j] \in Nat
      /\ redis' \in [Devices -> {Word[f] : f \in CRCValid} \cup {NoReply}]
      /\ phase'[j] = p
  BY <1>1 DEF JobInv, JobTypes
<1>4. StoredVerifies'
  BY <1>1 DEF JobInv, StoredVerifies
<1>5. Sound(j)'
  <2>1. Sound(j) /\ ServiceOf(j) = "redis"
    BY <1>1 DEF JobInv, ServiceOf
  <2>2. Trying(j)'
    BY <1>1, <1>3, <2>1 DEF Sound, Trying
  <2>3. j \notin troubled => Smooth(j)'
    BY <1>1, <1>3, <2>1 DEF Sound, Smooth, Ended
  <2> QED BY <1>1, <2>2, <2>3 DEF Sound
<1>6. UNCHANGED <<spawned, health, troubled, redis>>
  BY <1>1
<1> QED BY <1>1, <1>2, <1>3, <1>4, <1>5, <1>6, StepOfJob

(* The SET that is done.                                                     *)
LEMMA RedisSetKeeps ==
  ASSUME JobInv, NEW j \in spawned, RedisSet(j)
  PROVE  JobInv'
<1>1. j.frag \in CRCValid /\ Word[j.frag] # NoReply /\ Device[j.frag] \in Devices
  BY JobFragment
<1>2. /\ redis' = [redis EXCEPT ![Device[j.frag]] = Word[j.frag]]
      /\ phase' = [phase EXCEPT ![j] = "set"] /\ j.cmd = "redisClient" /\ phase[j] = "pinged"
      /\ UNCHANGED <<spawned, tried, posted, health, troubled>>
  BY DEF RedisSet, Key, Argument, At, Go, vars
<1>3. "set" \in Phases
  BY DEF Phases, Connected
<1>4. /\ tried' = [tried EXCEPT ![j] = tried[j]] /\ tried[j] \in Nat
      /\ posted' = [posted EXCEPT ![j] = posted[j]] /\ posted[j] \in Nat
      /\ redis' \in [Devices -> {Word[f] : f \in CRCValid} \cup {NoReply}]
      /\ phase'[j] = "set"
  BY <1>1, <1>2 DEF JobInv, JobTypes
<1>5. \A d \in Devices : redis'[d] = IF d = Device[j.frag] THEN Word[j.frag] ELSE redis[d]
  BY <1>2 DEF JobInv, JobTypes
<1>6. StoredVerifies'
  BY <1>1, <1>2, <1>5 DEF JobInv, StoredVerifies
<1>7. Sound(j)'
  <2>1. Sound(j)
    BY DEF JobInv
  <2>2. Trying(j)'
    BY <1>2, <1>4, <2>1 DEF Sound, Trying
  <2>3. j \notin troubled => Smooth(j)'
    BY <1>1, <1>2, <1>4, <1>5, <2>1 DEF Sound, Smooth, Ended, ServiceOf
  <2> QED BY <1>2, <2>2, <2>3 DEF Sound
<1>8. \A d \in Devices : redis[d] # NoReply => redis'[d] # NoReply
  BY <1>1, <1>5
<1> QED BY <1>2, <1>3, <1>4, <1>6, <1>7, <1>8, StepOfJob

(* A try of wget: it had one left, and only a silent server gets it another. *)
LEMMA WgetKeeps ==
  ASSUME JobInv, NEW j \in spawned,
         WgetPost(j) \/ WgetError(j) \/ WgetRefused(j) \/ WgetNoAnswer(j)
  PROVE  JobInv'
<1>1. PICK n \in {0, 1}, p \in {"started", "done", "failed"} :
        /\ j.cmd = "wget" /\ phase[j] = "started"
        /\ tried' = [tried EXCEPT ![j] = @ + 1]
        /\ posted' = [posted EXCEPT ![j] = @ + n]
        /\ phase' = [phase EXCEPT ![j] = p]
        /\ UNCHANGED <<spawned, redis, health, troubled>>
        /\ p = "done" => n = 1
        /\ p = "started" => tried[j] + 1 < Tries
        /\ p # "done" => health["comlink"] # "up"
  <2>1. tried[j] + 1 \in Int /\ Tries \in Int
    BY ComlinkConstants DEF JobInv, JobTypes
  <2>2. CASE WgetPost(j)
    BY <2>2 DEF WgetPost, Try, At, Go, vars
  <2>3. CASE WgetError(j)
    BY <2>3 DEF WgetError, Try, At, Go, vars
  <2>4. CASE WgetRefused(j)
    BY <2>4 DEF WgetRefused, Try, At, Go, vars
  <2>5. CASE WgetNoAnswer(j)
    <3>1. PICK n \in {0, 1} : Try(j, n)
      BY <2>5 DEF WgetNoAnswer
    <3>2. CASE tried[j] + 1 >= Tries
      <4>1. phase' = [phase EXCEPT ![j] = "failed"] /\ health["comlink"] = "silent"
        BY <2>5, <3>2 DEF WgetNoAnswer, Go, GivesUp
      <4> QED BY <3>1, <4>1 DEF Try, At, vars
    <3>3. CASE ~(tried[j] + 1 >= Tries)
      <4>1. phase' = [phase EXCEPT ![j] = "started"] /\ health["comlink"] = "silent"
        BY <2>5, <3>3 DEF WgetNoAnswer, Go, GivesUp
      <4>2. tried[j] + 1 < Tries
        BY <2>1, <3>3
      <4> QED BY <3>1, <4>1, <4>2 DEF Try, At, vars
    <3> QED BY <3>2, <3>3
  <2> QED BY <2>2, <2>3, <2>4, <2>5
<1>2. p \in Phases
  BY DEF Phases, Ended
<1>3. /\ tried[j] \in Nat /\ posted[j] \in Nat /\ Tries \in Nat
      /\ redis' \in [Devices -> {Word[f] : f \in CRCValid} \cup {NoReply}]
      /\ tried'[j] = tried[j] + 1 /\ posted'[j] = posted[j] + n /\ phase'[j] = p
  BY <1>1, ComlinkConstants DEF JobInv, JobTypes
<1>4. StoredVerifies'
  BY <1>1 DEF JobInv, StoredVerifies
<1>5. Sound(j)'
  <2>1. Sound(j) /\ ServiceOf(j) = "comlink"
    BY <1>1 DEF JobInv, ServiceOf
  <2>2. Trying(j)'
    BY <1>1, <1>3, <2>1 DEF Sound, Trying, Ended
  <2>3. ASSUME j \notin troubled PROVE Smooth(j)'
    <3>1. tried[j] = 0 /\ health["comlink"] = "up" /\ posted[j] = 0
      BY <1>1, <1>3, <2>1, <2>3 DEF Sound, Smooth, Trying, Ended
    <3> QED BY <1>1, <1>3, <3>1 DEF Smooth, Ended
  <2> QED BY <1>1, <2>2, <2>3 DEF Sound
<1>6. tried[j] + 1 \in Nat /\ posted[j] + n \in Nat
  BY <1>3
<1>7. UNCHANGED <<spawned, health, troubled, redis>>
  BY <1>1
<1> QED BY <1>1, <1>2, <1>3, <1>4, <1>5, <1>6, <1>7, StepOfJob

(* Trouble of a service reaches every job that depends on it.                *)
LEMMA ServiceKeeps ==
  ASSUME JobInv, NEW x \in Services, NEW h \in Health, ServiceChange(x, h)
  PROVE  JobInv'
<1> DEFINE stops == x = "redis" /\ h = "down"
<1>1. /\ UNCHANGED <<spawned, tried, posted>>
      /\ health' = [health EXCEPT ![x] = h]
      /\ phase' = [j \in spawned |-> IF stops /\ phase[j] \in Connected THEN "cut" ELSE phase[j]]
      /\ redis' = redis \/ (stops /\ redis' = NothingStored)
      /\ \A j \in spawned : j \notin troubled' =>
           j \notin troubled /\ ~(ServiceOf(j) = x /\ h # "up" /\ (phase[j] \in Ended => stops))
  BY DEF ServiceChange, vars
<1>2. OnlyVerified' /\ StoredVerifies'
  BY <1>1 DEF JobInv, OnlyVerified, StoredVerifies, NothingStored
<1>3. JobTypes'
  BY <1>1 DEF JobInv, JobTypes, NothingStored, Phases
<1>4. ASSUME NEW j \in spawned PROVE Sound(j)'
  <2>1. Sound(j) /\ phase[j] \in Phases
    BY DEF JobInv, JobTypes
  <2>2. phase'[j] = IF stops /\ phase[j] \in Connected THEN "cut" ELSE phase[j]
    BY <1>1
  <2>3. phase'[j] # phase[j] => phase[j] \in Connected /\ phase'[j] = "cut" /\ stops
    BY <2>2
  <2>4. Trying(j)'
    BY <1>1, <2>1, <2>3 DEF Sound, Trying, Connected, Ended
  <2>5. ASSUME j \notin troubled' PROVE Smooth(j)'
    <3>1. Smooth(j) /\ ~(ServiceOf(j) = x /\ h # "up" /\ (phase[j] \in Ended => stops))
      BY <1>1, <2>1, <2>5 DEF Sound
    <3>2. health'[ServiceOf(j)] = IF ServiceOf(j) = x THEN h ELSE health[ServiceOf(j)]
      BY <1>1 DEF JobInv, JobTypes, ServiceOf, Services
    <3>3. CASE ServiceOf(j) = x
      <4>1. ~stops
        BY <3>1, <3>3
      <4>2. UNCHANGED redis /\ phase'[j] = phase[j] /\ (phase[j] \notin Ended => h = "up")
        BY <1>1, <2>2, <3>1, <3>3, <4>1
      <4> QED BY <1>1, <3>1, <3>2, <3>3, <4>2 DEF Smooth
    <3>4. CASE ServiceOf(j) # x
      <4>1. stops => j.cmd = "wget"
        BY <3>4 DEF ServiceOf
      <4>2. phase'[j] = phase[j]
        BY <2>1, <2>3, <4>1 DEF Sound, Trying, Connected, Ended
      <4>3. j.cmd = "redisClient" => UNCHANGED redis
        BY <1>1, <4>1
      <4> QED BY <1>1, <3>1, <3>2, <3>4, <4>2, <4>3 DEF Smooth
    <3> QED BY <3>3, <3>4
  <2> QED BY <2>4, <2>5 DEF Sound
<1> QED BY <1>1, <1>2, <1>3, <1>4 DEF JobInv

(* A step of the plugin: new jobs start from nothing, in trouble if their    *)
(* service is not up.                                                        *)
LEMMA PluginKeeps ==
  ASSUME JobInv, PluginStep
  PROVE  JobInv'
<1>1. spawned \subseteq spawned' /\ OnlyVerified'
  BY PluginSpawns DEF JobInv, PluginStep
<1>2. /\ UNCHANGED <<redis, health>>
      /\ phase' = Extended(phase, "started") /\ tried' = Extended(tried, 0)
      /\ posted' = Extended(posted, 0)
      /\ troubled' = troubled \cup {j \in spawned' \ spawned : health[ServiceOf(j)] # "up"}
  BY DEF PluginStep
<1>3. JobTypes'
  BY <1>1, <1>2 DEF JobInv, JobTypes, Extended, Phases
<1>4. StoredVerifies'
  BY <1>1, <1>2 DEF JobInv, StoredVerifies
<1>5. ASSUME NEW j \in spawned' PROVE Sound(j)'
  <2>1. CASE j \in spawned
    <3>1. phase'[j] = phase[j] /\ tried'[j] = tried[j] /\ posted'[j] = posted[j]
          /\ (j \in troubled' <=> j \in troubled)
      BY <1>1, <1>2, <2>1 DEF Extended
    <3>2. Sound(j)
      BY <2>1 DEF JobInv
    <3> QED BY <1>2, <3>1, <3>2 DEF Sound, Trying, Smooth
  <2>2. CASE j \notin spawned
    <3>1. phase'[j] = "started" /\ tried'[j] = 0 /\ posted'[j] = 0
          /\ (j \notin troubled' => health[ServiceOf(j)] = "up")
      BY <1>5, <1>2, <2>2 DEF Extended
    <3> QED BY <1>2, <3>1, ComlinkConstants DEF Sound, Trying, Smooth, Ended
  <2> QED BY <2>1, <2>2
<1> QED BY <1>1, <1>3, <1>4, <1>5 DEF JobInv

(***************************************************************************)
(* The jobs of the bridge keep their promises, whatever failed when and     *)
(* however often lwsws died: what is stored comes from a packet that        *)
(* verifies, success of wget means the server was given the packet, and a   *)
(* job whose service was up all the time does not fail.                     *)
(***************************************************************************)
THEOREM JobsInvariant == CSpec => []JobInv
<1>1. CInit => JobInv
  BY DEF CInit, Init, JobInv, OnlyVerified, JobTypes, StoredVerifies, NothingStored, Health
<1>2. JobInv /\ [CNext]_allVars => JobInv'
  <2> SUFFICES ASSUME JobInv, [CNext]_allVars PROVE JobInv'
    OBVIOUS
  <2>1. CASE PluginStep
    BY <2>1, PluginKeeps
  <2>2. ASSUME NEW x \in Services, NEW h \in Health, ServiceChange(x, h) PROVE JobInv'
    BY <2>2, ServiceKeeps
  <2>3. ASSUME NEW j \in spawned, JobStep(j) PROVE JobInv'
    BY <2>3, RedisQuiet, RedisSetKeeps, WgetKeeps DEF JobStep
  <2>4. CASE UNCHANGED allVars
    BY <2>4 DEF allVars, vars, jobVars, JobInv, OnlyVerified, JobTypes, StoredVerifies,
                Sound, Trying, Smooth
  <2> QED BY <2>1, <2>2, <2>3, <2>4 DEF CNext
<1> QED BY <1>1, <1>2, PTL DEF CSpec

(* redis never holds what no packet of the device with a right checksum       *)
(* became in the shell.                                                      *)
THEOREM StoredCorrect == CSpec => []StoredVerifies
<1>1. JobInv => StoredVerifies
  BY DEF JobInv
<1> QED BY <1>1, JobsInvariant, PTL

(* A job fails, or posts twice, only when its service was in trouble while   *)
(* it ran, and what success means holds through every refusal and retry.     *)
THEOREM SettledCorrect == CSpec => []Settled
<1>1. JobInv => Settled
  BY DEF JobInv, Sound, Trying, Smooth, Settled
<1> QED BY <1>1, JobsInvariant, PTL

(***************************************************************************)
(* The background commands and the services do not disturb the plugin: with *)
(* them it still is LwsWebsocket, and so all that is proved of it alone     *)
(* holds in the bridge as a whole.                                          *)
(***************************************************************************)
THEOREM BridgeRunsPlugin == CSpec => Spec
<1>1. CInit => Init
  BY DEF CInit
<1>2. [CNext]_allVars => [Next]_vars
  <2> SUFFICES ASSUME [CNext]_allVars PROVE [Next]_vars
    OBVIOUS
  <2>1. CASE PluginStep
    BY <2>1 DEF PluginStep
  <2>2. ASSUME NEW x \in Services, NEW h \in Health, ServiceChange(x, h) PROVE UNCHANGED vars
    BY <2>2 DEF ServiceChange
  <2>3. ASSUME NEW j \in spawned, JobStep(j) PROVE UNCHANGED vars
    BY <2>3 DEF JobStep, RedisConnect, RedisPing, RedisSet, RedisRefuse, RedisGet, RedisLost,
                WgetPost, WgetError, WgetRefused, WgetNoAnswer, Try
  <2>4. CASE UNCHANGED allVars
    BY <2>4 DEF allVars
  <2> QED BY <2>1, <2>2, <2>3, <2>4 DEF CNext
<1> QED BY <1>1, <1>2, PTL DEF CSpec, Spec

(***************************************************************************)
(* In the bridge, an ACK a controller was written means that both commands  *)
(* were started for that packet, whatever the jobs and the services do.     *)
(***************************************************************************)
THEOREM BridgeAckCorrect == CSpec => []AckIsBacked
BY BridgeRunsPlugin, AckCorrect, PTL
=============================================================================
