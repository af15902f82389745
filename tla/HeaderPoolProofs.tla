-------------------------- MODULE HeaderPoolProofs --------------------------
(***************************************************************************)
(* What HeaderPool promises, for any number of connections and peers and    *)
(* any limits: the counters tell the truth (Accounting), nobody who is not  *)
(* read is forgotten (WaitListIsRight) and no peer is freed under its       *)
(* connections (PeerOutlivesWsi).                                           *)
(*                                                                          *)
(* None of them is inductive on its own: the hand-over keeps the counters   *)
(* right only if whoever is on the waiting list holds no ah, which is what  *)
(* POLLIN tells (Reading), and an ah is destroyed with nobody left to wait  *)
(* only because the counters are right.                                     *)
(***************************************************************************)
EXTENDS HeaderPool, ListTheorems

(* n counts, for each peer, the connections of s.                            *)
Tallies(n, s) ==
  /\ n \in [Peers -> Nat]
  /\ \A p \in Peers : n[p] = Cardinality(Of(s, p))

Lists ==
  /\ open \in SUBSET Conns
  /\ IsFiniteSet(open)
  /\ waitList \in Seq(Conns)
  /\ IsInjective(waitList)

(* The ah there are, and who holds them.                                     *)
Holding ==
  /\ inUse = Cardinality(holder)
  /\ inUse <= MaxPool
  /\ Tallies(countAh, holder)
  /\ LimitAh # 0 => \A p \in Peers : countAh[p] <= LimitAh

Serving ==
  /\ Tallies(countWsi, open)
  /\ LimitWsi # 0 => \A p \in Peers : countWsi[p] <= LimitWsi

(* Whoever holds an ah is read, and whoever is not read is on the list.      *)
Reading ==
  /\ holder \subseteq pollin
  /\ pollin \subseteq open
  /\ open \ pollin = Waiting

PoolInv ==
  /\ Lists /\ Holding /\ Serving /\ Reading
  /\ NobodyWaitsForNothing
  /\ PeerOutlivesWsi
-----------------------------------------------------------------------------
(* What one more connection does to the count of its peer.                   *)
LEMMA TallyAdd ==
  ASSUME NEW s \in SUBSET Conns, IsFiniteSet(s), NEW c \in Conns, c \notin s,
         NEW n, Tallies(n, s)
  PROVE  Tallies([n EXCEPT ![Peer[c]] = @ + 1], s \cup {c})
<1> DEFINE m == [n EXCEPT ![Peer[c]] = @ + 1]
<1>1. Peer[c] \in Peers /\ n \in [Peers -> Nat]
  BY PoolOK DEF Tallies
<1>2. m \in [Peers -> Nat]
  BY <1>1
<1>3. ASSUME NEW p \in Peers
      PROVE  m[p] = Cardinality(Of(s \cup {c}, p))
  <2>1. Of(s, p) \in SUBSET s /\ c \notin Of(s, p)
    BY DEF Of
  <2>2. IsFiniteSet(Of(s, p))
    BY <2>1, FS_Subset
  <2>3. n[p] = Cardinality(Of(s, p))
    BY DEF Tallies
  <2>4. CASE p = Peer[c]
    <3>1. Of(s \cup {c}, p) = Of(s, p) \cup {c}
      BY <2>4 DEF Of
    <3>2. Cardinality(Of(s, p) \cup {c}) = Cardinality(Of(s, p)) + 1
      BY <2>1, <2>2, FS_AddElement
    <3> QED BY <1>1, <2>3, <2>4, <3>1, <3>2
  <2>5. CASE p # Peer[c]
    <3>1. Of(s \cup {c}, p) = Of(s, p)
      BY <2>5 DEF Of
    <3> QED BY <1>1, <2>3, <2>5, <3>1
  <2> QED BY <2>4, <2>5
<1> QED BY <1>2, <1>3 DEF Tallies

(* What one connection less does: the count was not zero.                    *)
LEMMA TallyRemove ==
  ASSUME NEW s \in SUBSET Conns, IsFiniteSet(s), NEW c \in s,
         NEW n, Tallies(n, s)
  PROVE  /\ n[Peer[c]] > 0
         /\ Tallies([n EXCEPT ![Peer[c]] = @ - 1], s \ {c})
<1> DEFINE m == [n EXCEPT ![Peer[c]] = @ - 1]
<1>1. Peer[c] \in Peers /\ n \in [Peers -> Nat]
  BY PoolOK DEF Tallies
<1>2. \A p \in Peers : Of(s, p) \in SUBSET s /\ IsFiniteSet(Of(s, p)) /\ n[p] = Cardinality(Of(s, p))
  BY FS_Subset DEF Of, Tallies
<1>3. c \in Of(s, Peer[c])
  BY DEF Of
<1>4. n[Peer[c]] > 0
  <2>1. Of(s, Peer[c]) # {}
    BY <1>3
  <2>2. Cardinality(Of(s, Peer[c])) # 0
    BY <1>1, <1>2, <2>1, FS_EmptySet
  <2> QED BY <1>1, <1>2, <2>2
<1>5. m \in [Peers -> Nat]
  BY <1>1, <1>4
<1>6. ASSUME NEW p \in Peers
      PROVE  m[p] = Cardinality(Of(s \ {c}, p))
  <2>1. CASE p = Peer[c]
    <3>1. Of(s \ {c}, p) = Of(s, p) \ {c}
      BY DEF Of
    <3>2. Cardinality(Of(s, p) \ {c}) = Cardinality(Of(s, p)) - 1
      BY <1>2, <1>3, <2>1, FS_RemoveElement
    <3> QED BY <1>1, <1>2, <2>1, <3>1, <3>2
  <2>2. CASE p # Peer[c]
    <3>1. Of(s \ {c}, p) = Of(s, p)
      BY <2>2 DEF Of
    <3> QED BY <1>1, <1>2, <2>2, <3>1
  <2> QED BY <2>1, <2>2
<1> QED BY <1>4, <1>5, <1>6 DEF Tallies

(* A peer that is counted has a connection.                                  *)
LEMMA TallyPositive ==
  ASSUME NEW s \in SUBSET Conns, NEW n, Tallies(n, s), NEW p \in Peers, n[p] > 0
  PROVE  s # {}
<1>1. SUFFICES ASSUME s = {} PROVE FALSE
  OBVIOUS
<1>2. Of(s, p) = {}
  BY <1>1 DEF Of
<1>3. n[p] = 0
  BY <1>2, FS_EmptySet DEF Tallies
<1> QED BY <1>3

(* Nobody is counted when there is nobody.                                   *)
LEMMA TallyNone ==
  ASSUME NEW n, Tallies(n, {}), NEW p \in Peers
  PROVE  n[p] = 0
<1>1. Of({}, p) = {}
  BY DEF Of
<1> QED BY <1>1, FS_EmptySet DEF Tallies

(* The heir is on the list and may have an ah; without one nobody may.       *)
LEMMA HeirFacts ==
  ASSUME NEW list \in Seq(Conns), NEW n
  PROVE  /\ Heir(list, n) # 0 => Heir(list, n) \in 1..Len(list) /\ Allowed(list[Heir(list, n)], n)
         /\ Heir(list, n) = 0 => \A j \in 1..Len(list) : ~Allowed(list[j], n)
<1> DEFINE may == {i \in 1..Len(list) : Allowed(list[i], n)}
<1>1. Len(list) \in Nat /\ may \in SUBSET (1..Len(list))
  BY LenProperties
<1>2. CASE may = {}
  <2>1. Heir(list, n) = 0
    BY <1>2 DEF Heir
  <2> QED BY <1>2, <2>1
<1>3. CASE may # {}
  <2>1. Heir(list, n) = Max(may)
    BY <1>3 DEF Heir
  <2>2. Max(may) \in may
    BY <1>1, <1>3, LastPlace
  <2>3. Max(may) # 0
    BY <1>1, <2>2
  <2> QED BY <2>1, <2>2, <2>3
<1> QED BY <1>2, <1>3
-----------------------------------------------------------------------------
(* What attach and detach keep, given what their callers do to open.         *)
PoolPart == Lists /\ Holding /\ Reading /\ NobodyWaitsForNothing

(* One that is put on the list, or was on it, when its POLLIN is off and     *)
(* either somebody holds an ah or it was refused memory.                     *)
LEMMA RefusedKeeps ==
  ASSUME PoolPart, NEW c \in Conns \ holder, open' = open \cup {c},
         NEW list \in {waitList, Without(c)}, Refused(c, list),
         \/ holder # {} /\ starved' = starved
         \/ starved' = starved \cup {c}
  PROVE  PoolPart'
<1> USE DEF PoolPart
<1>1. /\ Without(c) \in Seq(Conns) /\ IsInjective(Without(c))
      /\ ToSet(Without(c)) = Waiting \ {c}
  BY RemoveFirstFacts DEF Lists, Without, Waiting
<1>2. list \in Seq(Conns) /\ IsInjective(list) /\ ToSet(list) \in {Waiting, Waiting \ {c}}
  BY <1>1 DEF Lists, Waiting
<1>3. /\ waitList' \in Seq(Conns) /\ IsInjective(waitList')
      /\ ToSet(waitList') = ToSet(list) \cup {c}
      /\ pollin' = IF c \in ToSet(list) THEN pollin ELSE pollin \ {c}
      /\ UNCHANGED <<holder, inUse, countAh>>
  <2>1. CASE c \in ToSet(list)
    BY <1>2, <2>1 DEF Refused
  <2>2. CASE c \notin ToSet(list)
    <3>1. waitList' = <<c>> \o list /\ pollin' = pollin \ {c} /\ UNCHANGED <<holder, inUse, countAh>>
      BY <2>2 DEF Refused, Park
    <3>2. /\ <<c>> \o list \in Seq(Conns) /\ IsInjective(<<c>> \o list)
          /\ ToSet(<<c>> \o list) = ToSet(list) \cup {c}
      BY <1>2, <2>2, PushFacts
    <3> QED BY <2>2, <3>1, <3>2
  <2> QED BY <2>1, <2>2
<1>4. Waiting' = Waiting \cup {c}
  BY <1>2, <1>3 DEF Waiting
<1>5. Lists'
  BY <1>3, FS_AddElement DEF Lists
<1>6. Holding'
  BY <1>3 DEF Holding, Tallies
<1>7. Reading'
  <2>1. c \in ToSet(list) => c \in Waiting
    BY <1>2
  <2> QED BY <1>3, <1>4, <2>1 DEF Reading
<1>8. NobodyWaitsForNothing'
  BY <1>3, <1>4 DEF NobodyWaitsForNothing
<1> QED BY <1>5, <1>6, <1>7, <1>8

(* lws_header_table_attach(), for a connection that is there already or has  *)
(* just been adopted.                                                        *)
LEMMA AttachKeeps ==
  ASSUME PoolPart, NEW c \in Conns \ holder, open' = open \cup {c}, Attach(c)
  PROVE  PoolPart'
<1>0. /\ IsFiniteSet(open) /\ holder \in SUBSET open /\ open \in SUBSET Conns
      /\ Tallies(countAh, holder) /\ inUse = Cardinality(holder)
  BY DEF PoolPart, Lists, Reading, Holding
<1>1. IsFiniteSet(holder) /\ inUse \in Nat /\ Peer[c] \in Peers
  BY <1>0, FS_Subset, FS_CardinalityType, PoolOK
<1>2. CASE (inUse = MaxPool \/ ~Allowed(c, countAh)) /\ Refused(c, waitList) /\ UNCHANGED starved
  <2>1. CASE inUse = MaxPool
    <3>1. holder # {}
      BY <1>0, <2>1, PoolOK, FS_EmptySet
    <3> QED BY <1>2, <3>1, RefusedKeeps
  <2>2. CASE ~Allowed(c, countAh)
    <3>1. countAh[Peer[c]] > 0
      BY <1>0, <1>1, <2>2, PoolOK DEF Allowed, Tallies
    <3>2. holder # {}
      BY <1>0, <1>1, <3>1, TallyPositive
    <3> QED BY <1>2, <3>2, RefusedKeeps
  <2> QED BY <1>2, <2>1, <2>2
<1>3. CASE /\ inUse # MaxPool /\ Allowed(c, countAh)
           /\ holder' = holder \cup {c} /\ inUse' = inUse + 1
           /\ waitList' = Without(c) /\ pollin' = pollin \cup {c}
           /\ countAh' = [countAh EXCEPT ![Peer[c]] = @ + 1]
  <2>1. waitList' \in Seq(Conns) /\ IsInjective(waitList') /\ Waiting' = Waiting \ {c}
    BY <1>3, RemoveFirstFacts DEF PoolPart, Lists, Without, Waiting
  <2>2. Lists'
    BY <1>0, <2>1, FS_AddElement DEF Lists
  <2>3. Tallies(countAh', holder')
    BY <1>0, <1>1, <1>3, TallyAdd
  <2>4. inUse' = Cardinality(holder') /\ inUse' <= MaxPool
    <3>1. Cardinality(holder \cup {c}) = Cardinality(holder) + 1
      BY <1>1, FS_AddElement
    <3>2. inUse <= MaxPool
      BY DEF PoolPart, Holding
    <3> QED BY <1>0, <1>1, <1>3, <3>1, <3>2, PoolOK
  <2>5. LimitAh # 0 => \A p \in Peers : countAh'[p] <= LimitAh
    BY <1>0, <1>1, <1>3, PoolOK DEF PoolPart, Holding, Tallies, Allowed
  <2>6. Holding'
    BY <2>3, <2>4, <2>5 DEF Holding, Tallies
  <2>7. Reading'
    BY <1>3, <2>1 DEF PoolPart, Reading
  <2>8. NobodyWaitsForNothing'
    BY <1>3 DEF NobodyWaitsForNothing
  <2> QED BY <2>2, <2>6, <2>7, <2>8 DEF PoolPart
<1>4. CASE Refused(c, Without(c)) /\ starved' = starved \cup {c}
  BY <1>4, RefusedKeeps
<1> QED BY <1>2, <1>3, <1>4 DEF Attach

(* __lws_header_table_detach(), for a connection that is done with its ah or *)
(* is being closed.                                                          *)
LEMMA DetachKeeps ==
  ASSUME PoolPart, NEW c \in open, NEW gone, open' = open \ gone, Detach(c, gone),
         gone = {c} \/ (gone = {} /\ c \in holder)
  PROVE  PoolPart'
<1> DEFINE list == Without(c)
           n == [countAh EXCEPT ![Peer[c]] = @ - 1]
           i == Heir(list, n)
<1>0. /\ IsFiniteSet(open) /\ holder \in SUBSET open /\ open \in SUBSET Conns
      /\ Tallies(countAh, holder) /\ inUse = Cardinality(holder)
      /\ holder \in SUBSET Conns
  BY DEF PoolPart, Lists, Reading, Holding
<1>1. IsFiniteSet(holder) /\ inUse \in Nat /\ Peer[c] \in Peers
  BY <1>0, FS_Subset, FS_CardinalityType, PoolOK
<1>2. list \in Seq(Conns) /\ IsInjective(list) /\ ToSet(list) = Waiting \ {c}
  BY RemoveFirstFacts DEF PoolPart, Lists, Without, Waiting
<1>3. IsFiniteSet(open')
  BY <1>0, FS_RemoveElement
<1>4. CASE /\ c \notin holder
           /\ waitList' = list /\ pollin' = pollin \ gone
           /\ starved' = starved \ {c}
           /\ UNCHANGED <<holder, inUse, countAh>>
  <2>1. gone = {c} /\ Waiting' = Waiting \ {c}
    BY <1>2, <1>4 DEF Waiting
  <2>2. Lists'
    BY <1>0, <1>2, <1>3, <1>4 DEF Lists
  <2>3. Holding'
    BY <1>4 DEF PoolPart, Holding, Tallies
  <2>4. Reading'
    BY <1>4, <2>1 DEF PoolPart, Reading
  <2>5. NobodyWaitsForNothing'
    BY <1>4, <2>1 DEF PoolPart, NobodyWaitsForNothing
  <2> QED BY <2>2, <2>3, <2>4, <2>5 DEF PoolPart
<1>5. ASSUME c \in holder
      PROVE  /\ Tallies(n, holder \ {c}) /\ countAh[Peer[c]] > 0
             /\ Cardinality(holder \ {c}) = inUse - 1 /\ IsFiniteSet(holder \ {c})
             /\ c \notin Waiting /\ ToSet(list) = Waiting
  <2>1. Tallies(n, holder \ {c}) /\ countAh[Peer[c]] > 0
    BY <1>0, <1>1, <1>5, TallyRemove
  <2>2. Cardinality(holder \ {c}) = inUse - 1 /\ IsFiniteSet(holder \ {c})
    BY <1>0, <1>1, <1>5, FS_RemoveElement
  <2>3. c \notin Waiting
    BY <1>5 DEF PoolPart, Reading
  <2> QED BY <1>2, <2>1, <2>2, <2>3
<1>6. ASSUME c \in holder, LimitAh # 0
      PROVE  \A p \in Peers : n[p] <= LimitAh
  <2>1. \A p \in Peers : countAh[p] \in Nat /\ countAh[p] <= LimitAh
    BY <1>0, <1>6 DEF PoolPart, Holding, Tallies
  <2> QED BY <1>0, <1>1, <2>1, PoolOK DEF Tallies
<1>7. CASE /\ c \in holder /\ i = 0
           /\ holder' = holder \ {c} /\ inUse' = inUse - 1
           /\ waitList' = list /\ pollin' = pollin \ gone
           /\ countAh' = n /\ UNCHANGED starved
  <2>1. Waiting' = Waiting
    BY <1>5, <1>7 DEF Waiting
  <2>2. Lists'
    BY <1>0, <1>2, <1>3, <1>7 DEF Lists
  <2>3. Holding'
    <3>1. inUse' = Cardinality(holder') /\ inUse' <= MaxPool /\ Tallies(countAh', holder')
      BY <1>1, <1>5, <1>7, PoolOK DEF PoolPart, Holding
    <3> QED BY <3>1, <1>6, <1>7 DEF Holding, Tallies
  <2>4. Reading'
    BY <1>5, <1>7, <2>1 DEF PoolPart, Reading
  <2>5. NobodyWaitsForNothing'
    <3>1. SUFFICES ASSUME holder' = {} PROVE Waiting' = {}
      BY DEF NobodyWaitsForNothing
    <3>2. \A p \in Peers : n[p] = 0
      BY <1>5, <1>7, <3>1, TallyNone
    <3>3. \A j \in 1..Len(list) : ~Allowed(list[j], n)
      BY <1>2, <1>7, HeirFacts
    <3>4. \A j \in 1..Len(list) : Allowed(list[j], n)
      <4> SUFFICES ASSUME NEW j \in 1..Len(list) PROVE Allowed(list[j], n)
        OBVIOUS
      <4>1. list[j] \in Conns
        BY <1>2, ElementOfSeq
      <4>2. n[Peer[list[j]]] = 0
        BY <3>2, <4>1, PoolOK
      <4> QED BY <4>2, PoolOK DEF Allowed
    <3>5. DOMAIN list = 1..Len(list)
      BY <1>2, LenProperties
    <3>6. ToSet(list) = {}
      BY <3>3, <3>4, <3>5 DEF ToSet
    <3> QED BY <1>5, <1>7, <2>1, <3>6
  <2> QED BY <2>2, <2>3, <2>4, <2>5 DEF PoolPart
<1>8. CASE /\ c \in holder /\ i # 0
           /\ holder' = (holder \ {c}) \cup {list[i]} /\ UNCHANGED inUse
           /\ waitList' = RemoveAt(list, i)
           /\ pollin' = (pollin \cup {list[i]}) \ gone
           /\ countAh' = [n EXCEPT ![Peer[list[i]]] = @ + 1]
  <2>1. i \in 1..Len(list) /\ Allowed(list[i], n)
    BY <1>2, <1>8, HeirFacts
  <2>2. DOMAIN list = 1..Len(list)
    BY <1>2, LenProperties
  <2> HIDE DEF i, list, n
  <2>3. list[i] \in Waiting /\ list[i] \in Conns /\ list[i] # c
    <3>1. list[i] \in ToSet(list)
      BY <2>1, <2>2 DEF ToSet
    <3> QED BY <1>2, <1>5, <1>8, <2>1, <3>1, ElementOfSeq
  <2>4. list[i] \notin holder /\ list[i] \in open
    BY <2>3 DEF PoolPart, Reading
  <2>5. waitList' \in Seq(Conns) /\ IsInjective(waitList') /\ Waiting' = Waiting \ {list[i]}
    BY <1>2, <1>5, <1>8, <2>1, RemoveAtFacts DEF Waiting
  <2>6. Lists'
    BY <1>0, <1>3, <2>5 DEF Lists
  <2>7. inUse' = Cardinality(holder')
    <3>1. /\ IsFiniteSet(holder \ {c}) /\ list[i] \notin holder \ {c}
          /\ Cardinality(holder \ {c}) = inUse - 1
      BY <1>5, <1>8, <2>4
    <3>2. Cardinality((holder \ {c}) \cup {list[i]}) = (inUse - 1) + 1
      BY <3>1, FS_AddElement
    <3> QED BY <1>1, <1>8, <3>2
  <2>8. Tallies(countAh', holder')
    BY <1>0, <1>5, <1>8, <2>3, <2>4, TallyAdd
  <2>9. LimitAh # 0 => \A p \in Peers : countAh'[p] <= LimitAh
    <3> SUFFICES ASSUME LimitAh # 0, NEW p \in Peers PROVE countAh'[p] <= LimitAh
      OBVIOUS
    <3>1. n \in [Peers -> Nat] /\ n[p] <= LimitAh /\ Peer[list[i]] \in Peers
      BY <1>5, <1>6, <1>8, <2>3, PoolOK DEF Tallies
    <3>2. n[Peer[list[i]]] < LimitAh
      BY <2>1 DEF Allowed
    <3> QED BY <1>8, <3>1, <3>2, PoolOK
  <2>10. Holding'
    BY <1>8, <2>7, <2>8, <2>9 DEF PoolPart, Holding, Tallies
  <2>11. Reading'
    BY <1>5, <1>8, <2>3, <2>4, <2>5 DEF PoolPart, Reading
  <2>12. NobodyWaitsForNothing'
    BY <1>8 DEF NobodyWaitsForNothing
  <2> QED BY <2>6, <2>10, <2>11, <2>12 DEF PoolPart
<1> QED BY <1>4, <1>7, <1>8 DEF Detach, Destroy
-----------------------------------------------------------------------------
(* lws_peer_add_wsi(), at adoption, leaves no peer with connections to cull. *)
LEMMA AdoptKeeps ==
  ASSUME PoolInv, NEW c \in Conns, Adopt(c)
  PROVE  PoolInv'
<1>1. /\ c \notin open /\ ~OverLimit(Peer[c]) /\ open' = open \cup {c}
      /\ countWsi' = [countWsi EXCEPT ![Peer[c]] = @ + 1]
      /\ known' = known \cup {Peer[c]} /\ idle' = idle \ {Peer[c]} /\ Attach(c)
  BY DEF Adopt, NoLongerIdle
<1>2. PoolPart /\ c \notin holder
  BY <1>1 DEF PoolInv, PoolPart, Reading
<1>3. PoolPart'
  BY <1>1, <1>2, AttachKeeps
<1>4. Peer[c] \in Peers /\ open \in SUBSET Conns /\ IsFiniteSet(open) /\ Tallies(countWsi, open)
  BY PoolOK DEF PoolInv, Lists, Serving
<1>5. Serving'
  <2>1. Tallies(countWsi', open')
    BY <1>1, <1>4, TallyAdd
  <2>2. LimitWsi # 0 => \A p \in Peers : countWsi'[p] <= LimitWsi
    <3> SUFFICES ASSUME LimitWsi # 0, NEW p \in Peers PROVE countWsi'[p] <= LimitWsi
      OBVIOUS
    <3>1. countWsi \in [Peers -> Nat] /\ countWsi[p] <= LimitWsi
      BY DEF PoolInv, Serving, Tallies
    <3>2. countWsi[Peer[c]] < LimitWsi
      BY <1>1, <1>4, <3>1, PoolOK DEF OverLimit
    <3> QED BY <1>1, <1>4, <3>1, <3>2, PoolOK
  <2> QED BY <2>1, <2>2 DEF Serving, Tallies
<1>6. PeerOutlivesWsi'
  <2>1. \A p \in Peers : p # Peer[c] => countWsi'[p] = countWsi[p]
    BY <1>1, <1>4 DEF Tallies
  <2> QED BY <1>1, <2>1 DEF PoolInv, PeerOutlivesWsi
<1> QED BY <1>3, <1>5, <1>6 DEF PoolInv, PoolPart

(* lws_get_or_create_peer() for a peer at its limit: it is known already.    *)
LEMMA AdoptDeniedKeeps ==
  ASSUME PoolInv, NEW c \in Conns, AdoptDenied(c)
  PROVE  PoolInv'
<1>1. /\ UNCHANGED <<open, holder, inUse, waitList, pollin, countAh, starved, countWsi>>
      /\ known' = known \cup {Peer[c]}
      /\ idle' = IF Peer[c] \in known THEN idle ELSE idle \cup {Peer[c]}
  BY DEF AdoptDenied, poolVars
<1>2. Lists' /\ Holding' /\ Serving' /\ Reading' /\ NobodyWaitsForNothing'
  BY <1>1 DEF PoolInv, Lists, Holding, Serving, Reading, NobodyWaitsForNothing, Waiting, Tallies
<1>3. PeerOutlivesWsi'
  BY <1>1 DEF PoolInv, PeerOutlivesWsi
<1> QED BY <1>2, <1>3 DEF PoolInv

(* Input without an ah to parse it into.                                     *)
LEMMA ServiceKeeps ==
  ASSUME PoolInv, NEW c \in Conns, Service(c)
  PROVE  PoolInv'
<1>1. c \in open \ holder /\ Attach(c) /\ UNCHANGED <<open, countWsi, known, idle>>
  BY DEF Service
<1>2. PoolPart /\ open' = open \cup {c}
  BY <1>1 DEF PoolInv, PoolPart
<1>3. PoolPart'
  BY <1>1, <1>2, AttachKeeps
<1> QED BY <1>1, <1>3 DEF PoolInv, PoolPart, Serving, Tallies, PeerOutlivesWsi

(* A transaction is over and its ah handed on or destroyed.                  *)
LEMMA CompleteKeeps ==
  ASSUME PoolInv, NEW c \in Conns, Complete(c)
  PROVE  PoolInv'
<1>1. c \in holder /\ Detach(c, {}) /\ UNCHANGED <<open, countWsi, known, idle>>
  BY DEF Complete
<1>2. PoolPart /\ open' = open \ {} /\ c \in open
  BY <1>1 DEF PoolInv, PoolPart, Reading
<1>3. PoolPart'
  BY <1>1, <1>2, DetachKeeps
<1> QED BY <1>1, <1>3 DEF PoolInv, PoolPart, Serving, Tallies, PeerOutlivesWsi

(* __lws_free_wsi(): only a peer without connections becomes idle.           *)
LEMMA CloseKeeps ==
  ASSUME PoolInv, NEW c \in Conns, Close(c)
  PROVE  PoolInv'
<1>1. /\ c \in open /\ Detach(c, {c}) /\ open' = open \ {c}
      /\ countWsi' = [countWsi EXCEPT ![Peer[c]] = @ - 1]
      /\ idle' = NowIdle(Peer[c]) /\ known' = known
  BY DEF Close
<1>2. PoolPart
  BY DEF PoolInv, PoolPart
<1>3. PoolPart'
  BY <1>1, <1>2, DetachKeeps
<1>4. Peer[c] \in Peers /\ open \in SUBSET Conns /\ IsFiniteSet(open) /\ Tallies(countWsi, open)
  BY PoolOK DEF PoolInv, Lists, Serving
<1>5. Tallies(countWsi', open') /\ countWsi[Peer[c]] > 0
  BY <1>1, <1>4, TallyRemove
<1>6. \A p \in Peers : countWsi'[p] = IF p = Peer[c] THEN countWsi[p] - 1 ELSE countWsi[p]
  BY <1>1, <1>4 DEF Tallies
<1>7. Serving'
  <2>1. LimitWsi # 0 => \A p \in Peers : countWsi'[p] <= LimitWsi
    BY <1>4, <1>6, PoolOK DEF PoolInv, Serving, Tallies
  <2> QED BY <1>5, <2>1 DEF Serving, Tallies
<1>8. PeerOutlivesWsi'
  <2> SUFFICES ASSUME NEW p \in Peers, countWsi'[p] > 0 PROVE p \in known' \ idle'
    BY DEF PeerOutlivesWsi
  <2>1. countWsi[p] > 0
    BY <1>4, <1>6 DEF Tallies
  <2>2. p \in known \ idle
    BY <2>1 DEF PoolInv, PeerOutlivesWsi
  <2>3. countWsi'[p] # 0
    BY <1>5 DEF Tallies
  <2> QED BY <1>1, <2>2, <2>3 DEF NowIdle
<1> QED BY <1>3, <1>7, <1>8 DEF PoolInv, PoolPart

(* An idle peer is freed.                                                    *)
LEMMA CullKeeps ==
  ASSUME PoolInv, NEW p \in Peers, Cull(p)
  PROVE  PoolInv'
<1>1. /\ UNCHANGED <<open, holder, inUse, waitList, pollin, countAh, starved, countWsi>>
      /\ p \in idle /\ known' = known \ {p} /\ idle' = idle \ {p}
  BY DEF Cull, poolVars
<1>2. Lists' /\ Holding' /\ Serving' /\ Reading' /\ NobodyWaitsForNothing'
  BY <1>1 DEF PoolInv, Lists, Holding, Serving, Reading, NobodyWaitsForNothing, Waiting, Tallies
<1>3. PeerOutlivesWsi'
  BY <1>1 DEF PoolInv, PeerOutlivesWsi
<1> QED BY <1>2, <1>3 DEF PoolInv

(***************************************************************************)
(* PoolInv holds in every reachable state.                                  *)
(***************************************************************************)
THEOREM PoolInvariant == Spec => []PoolInv
<1>1. Init => PoolInv
  <2> SUFFICES ASSUME Init PROVE PoolInv
    OBVIOUS
  <2>1. Lists
    BY FS_EmptySet, EmptyFacts DEF Init, Lists
  <2>2. Waiting = {}
    BY EmptyFacts DEF Init, Waiting
  <2>3. \A p \in Peers : Of({}, p) = {}
    BY DEF Of
  <2>4. Tallies([p \in Peers |-> 0], {})
    BY <2>3, FS_EmptySet DEF Tallies
  <2>5. Holding /\ Serving
    BY <2>4, FS_EmptySet, PoolOK DEF Init, Holding, Serving
  <2>6. Reading /\ NobodyWaitsForNothing
    BY <2>2 DEF Init, Reading, NobodyWaitsForNothing
  <2>7. PeerOutlivesWsi
    BY DEF Init, PeerOutlivesWsi
  <2> QED BY <2>1, <2>5, <2>6, <2>7 DEF PoolInv
<1>2. PoolInv /\ [Next]_vars => PoolInv'
  <2> SUFFICES ASSUME PoolInv, [Next]_vars PROVE PoolInv'
    OBVIOUS
  <2>1. ASSUME NEW c \in Conns, Adopt(c) PROVE PoolInv'
    BY <2>1, AdoptKeeps
  <2>2. ASSUME NEW c \in Conns, AdoptDenied(c) PROVE PoolInv'
    BY <2>2, AdoptDeniedKeeps
  <2>3. ASSUME NEW c \in Conns, Service(c) PROVE PoolInv'
    BY <2>3, ServiceKeeps
  <2>4. ASSUME NEW c \in Conns, Complete(c) PROVE PoolInv'
    BY <2>4, CompleteKeeps
  <2>5. ASSUME NEW c \in Conns, Close(c) PROVE PoolInv'
    BY <2>5, CloseKeeps
  <2>6. ASSUME NEW p \in Peers, Cull(p) PROVE PoolInv'
    BY <2>6, CullKeeps
  <2>7. CASE UNCHANGED vars
    BY <2>7 DEF vars, poolVars, PoolInv, Lists, Holding, Serving, Reading, NobodyWaitsForNothing,
                Waiting, Tallies, PeerOutlivesWsi
  <2> QED BY <2>1, <2>2, <2>3, <2>4, <2>5, <2>6, <2>7 DEF Next
<1> QED BY <1>1, <1>2, PTL DEF Spec

(***************************************************************************)
(* Accounting, for every pool size, every limit and every set of peers: the *)
(* counters of parsers.c and peer-limits.c are never off by one, whichever  *)
(* way an ah changes hands.                                                 *)
(***************************************************************************)
THEOREM AccountingCorrect == Spec => []Accounting
<1>1. PoolInv => Accounting
  BY DEF PoolInv, Holding, Serving, Tallies, Accounting
<1> QED BY <1>1, PoolInvariant, PTL

(***************************************************************************)
(* WaitListIsRight: no wakeup is lost between attach, detach and close.     *)
(***************************************************************************)
THEOREM WaitListCorrect == Spec => []WaitListIsRight
<1>1. PoolInv => WaitListIsRight
  BY ListCardinality DEF PoolInv, Lists, Reading, Waiting, WaitListIsRight, ParkedIsListed
<1> QED BY <1>1, PoolInvariant, PTL

(***************************************************************************)
(* PeerOutlivesWsi: no connection's peer is ever culled.                    *)
(***************************************************************************)
THEOREM PeerCorrect == Spec => []PeerOutlivesWsi
<1>1. PoolInv => PeerOutlivesWsi
  BY DEF PoolInv
<1> QED BY <1>1, PoolInvariant, PTL
=============================================================================
