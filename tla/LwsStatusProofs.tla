--------------------------- MODULE LwsStatusProofs ---------------------------
(***************************************************************************)
(* What LwsStatus promises, for any number of sessions and joins: whoever   *)
(* is not walking was shown the list as it is, messages are framed as whole *)
(* ones (ShownIsRight) and a walk that will not start over is on course     *)
(* (UntoldIsOnCourse).                                                      *)
(*                                                                          *)
(* The invariant adds what a walk under way knows: as long as nobody told   *)
(* it that the list changed, it has sent a prefix of the list as it is and  *)
(* its next is the one that follows.                                        *)
(***************************************************************************)
EXTENDS LwsStatus, ListTheorems

Sessions ==
  [walk : {"NONE", "INITIAL", "LIST", "FINAL"}, walk_next : Conns \cup {Null},
   subsequent : BOOLEAN, changed_partway : BOOLEAN]

Types ==
  /\ live_pss_list \in Seq(Conns)
  /\ IsInjective(live_pss_list)
  /\ pss \in [Conns -> Sessions]
  /\ pollout \in SUBSET Live
  /\ text \in [Conns -> Seq(Conns)]
  /\ shown \in [Conns -> Seq(Conns)]

(* The data of a session that is gone.                                       *)
Departed(c) == pss[c] = Zeroed /\ c \notin open

Walks(c) ==
  /\ c \in open <=> pss[c].walk \in {"LIST", "FINAL"}
  /\ pss[c].walk = "LIST" /\ ~pss[c].changed_partway => SentSoFar(c)
  /\ pss[c].walk = "FINAL" /\ ~pss[c].changed_partway => text[c] = live_pss_list
  /\ pss[c].walk = "NONE" => shown[c] = live_pss_list

WalkInv ==
  /\ Types
  /\ \A c \in Conns \ Live : Departed(c)
  /\ \A c \in Live : Walks(c)
-----------------------------------------------------------------------------
(* Where a walk starts.                                                      *)
LEMMA HeadFacts ==
  ASSUME NEW l \in Seq(Conns)
  PROVE  HeadOf(l) \in Conns \cup {Null} /\ HeadOf(l) = IF Len(l) = 0 THEN Null ELSE l[1]
BY DEF HeadOf
-----------------------------------------------------------------------------
(***************************************************************************)
(* trigger_resend() after the list became l: no session is taken to be up   *)
(* to date, and no message is cut in two.                                   *)
(***************************************************************************)
LEMMA ResendKeeps ==
  ASSUME WalkInv,
         live_pss_list' \in Seq(Conns), IsInjective(live_pss_list'),
         NEW c \in Conns,
         ToSet(live_pss_list') \in {Live \cup {c}, Live \ {c}},
         TriggerResend(live_pss_list'),
         text' \in [Conns -> Seq(Conns)], shown' \in [Conns -> Seq(Conns)],
         open' = IF c \in Live THEN open \ {c} ELSE open,
         c \in Live => c \notin ToSet(live_pss_list')
  PROVE  WalkInv'
<1> DEFINE l == live_pss_list'
<1>1. Live' = ToSet(l) /\ pollout' = Live' /\ pss' = [d \in Conns |-> Resent(d, l)]
  BY DEF Live, TriggerResend
<1>2. pss \in [Conns -> Sessions]
  BY DEF WalkInv, Types
<1>3. Zeroed \in Sessions
  BY DEF Zeroed, Sessions
<1>4. HeadOf(l) \in Conns \cup {Null}
  BY HeadFacts
<1> HIDE DEF l
<1>5. ASSUME NEW d \in Conns, d \in ToSet(l), pss[d].walk = "NONE"
      PROVE  Resent(d, l) \in Sessions /\ Resent(d, l).walk = "INITIAL"
  BY <1>2, <1>4, <1>5 DEF Resent, Restarted, Sessions
<1>6. ASSUME NEW d \in Conns, d \in ToSet(l), pss[d].walk # "NONE"
      PROVE  /\ Resent(d, l) \in Sessions /\ Resent(d, l).walk = pss[d].walk
             /\ Resent(d, l).changed_partway
  BY <1>2, <1>6 DEF Resent, Noticed, Sessions
<1>7. ASSUME NEW d \in Conns, d \notin ToSet(l)
      PROVE  Resent(d, l) = Zeroed
  BY <1>7 DEF Resent
<1>8. pss' \in [Conns -> Sessions]
  BY <1>1, <1>3, <1>5, <1>6, <1>7
<1>9. Types'
  BY <1>1, <1>8 DEF Types
<1>10. ASSUME NEW d \in Conns \ Live'
       PROVE  Departed(d)'
  <2>1. pss'[d] = Zeroed
    BY <1>1, <1>7, <1>10
  <2>2. d \notin open'
    BY <1>1, <1>10 DEF WalkInv, Departed, l
  <2> QED BY <2>1, <2>2 DEF Departed
<1>11. ASSUME NEW d \in Live'
       PROVE  Walks(d)'
  <2>1. d \in Conns
    BY <1>1, <1>11 DEF ToSet, l
  <2>2. /\ pss'[d].walk \in {"INITIAL", pss[d].walk} /\ pss'[d].walk # "NONE"
        /\ pss'[d].walk = "INITIAL" \/ pss'[d].changed_partway
        /\ pss[d].walk = "NONE" => pss'[d].walk = "INITIAL"
        /\ pss[d].walk # "NONE" => pss'[d].walk = pss[d].walk
    BY <1>1, <1>5, <1>6, <1>11, <2>1
  <2>3. d \in open <=> pss[d].walk \in {"LIST", "FINAL"}
    <3>1. CASE d \in Live
      BY <3>1 DEF WalkInv, Walks
    <3>2. CASE d \notin Live
      BY <2>1, <3>2 DEF WalkInv, Departed, Zeroed
    <3> QED BY <3>1, <3>2
  <2>4. d \in open' <=> d \in open
    BY <1>1, <1>11 DEF l
  <2> QED BY <2>2, <2>3, <2>4 DEF Walks
<1> QED BY <1>9, <1>10, <1>11 DEF WalkInv
-----------------------------------------------------------------------------
(* A callback of session c changes nothing of the other sessions.            *)
LEMMA WriteKeeps ==
  ASSUME WalkInv, NEW c \in Live, live_pss_list' = live_pss_list, pollout' \in SUBSET Live,
         NEW p \in Sessions, pss' = [pss EXCEPT ![c] = p],
         NEW x \in Seq(Conns), text' = [text EXCEPT ![c] = x],
         NEW y \in Seq(Conns), shown' = [shown EXCEPT ![c] = y],
         open' \in {open, open \cup {c}, open \ {c}},
         Walks(c)'
  PROVE  WalkInv'
<1>1. Live' = Live /\ c \in Conns /\ Live \in SUBSET Conns
  BY DEF Live, ToSet, WalkInv, Types
<1>2. Types'
  BY <1>1 DEF WalkInv, Types
<1>3. ASSUME NEW d \in Conns, d # c
      PROVE  /\ pss'[d] = pss[d] /\ text'[d] = text[d] /\ shown'[d] = shown[d]
             /\ d \in open' <=> d \in open
  BY <1>3 DEF WalkInv, Types
<1>4. ASSUME NEW d \in Conns \ Live'
      PROVE  Departed(d)'
  BY <1>1, <1>3, <1>4 DEF WalkInv, Departed
<1>5. ASSUME NEW d \in Live', d # c
      PROVE  Walks(d)'
  BY <1>1, <1>3, <1>5 DEF WalkInv, Walks, SentSoFar
<1> QED BY <1>2, <1>4, <1>5 DEF WalkInv

(* The session after the k-th of the list.                                   *)
LEMMA NextFacts ==
  ASSUME WalkInv, NEW k \in 1..Len(live_pss_list)
  PROVE  NextOf(live_pss_list[k]) = IF k = Len(live_pss_list) THEN Null ELSE live_pss_list[k + 1]
<1>1. live_pss_list \in Seq(Conns) /\ IsInjective(live_pss_list)
  BY DEF WalkInv, Types
<1>2. DOMAIN live_pss_list = 1..Len(live_pss_list)
  BY <1>1, LenProperties
<1> DEFINE i == CHOOSE i \in DOMAIN live_pss_list : live_pss_list[i] = live_pss_list[k]
<1>3. i = k
  BY <1>1, <1>2 DEF IsInjective
<1>4. NextOf(live_pss_list[k]) = IF i = Len(live_pss_list) THEN Null ELSE live_pss_list[i + 1]
  BY DEF NextOf
<1> HIDE DEF i
<1> QED BY <1>3, <1>4

(* LWS_CALLBACK_ESTABLISHED *)
LEMMA EstablishedKeeps ==
  ASSUME WalkInv, NEW c \in Conns, Established(c)
  PROVE  WalkInv'
<1>1. /\ c \notin Live /\ live_pss_list' = <<c>> \o live_pss_list
      /\ TriggerResend(live_pss_list') /\ UNCHANGED <<open, text, shown>>
  BY DEF Established, wireVars, Cons
<1>2. live_pss_list \in Seq(Conns) /\ IsInjective(live_pss_list)
  BY DEF WalkInv, Types
<1>3. /\ live_pss_list' \in Seq(Conns) /\ IsInjective(live_pss_list')
      /\ ToSet(live_pss_list') = Live \cup {c}
  BY <1>1, <1>2, PushFacts DEF Live
<1>4. text' \in [Conns -> Seq(Conns)] /\ shown' \in [Conns -> Seq(Conns)]
  BY <1>1 DEF WalkInv, Types
<1> QED BY <1>1, <1>3, <1>4, ResendKeeps

(* LWS_CALLBACK_CLOSED, from either side.                                    *)
LEMMA LeaveKeeps ==
  ASSUME WalkInv, NEW c \in Live, Leave(c)
  PROVE  WalkInv'
<1>1. live_pss_list \in Seq(Conns) /\ IsInjective(live_pss_list)
  BY DEF WalkInv, Types
<1>2. c \in Conns
  BY <1>1 DEF Live, ToSet
<1>3. /\ live_pss_list' \in Seq(Conns) /\ IsInjective(live_pss_list')
      /\ ToSet(live_pss_list') = Live \ {c}
  BY <1>1, RemoveFirstFacts DEF Live, Leave
<1>4. text' \in [Conns -> Seq(Conns)] /\ shown' \in [Conns -> Seq(Conns)]
  BY EmptyFacts DEF Leave, WalkInv, Types
<1>5. open' = open \ {c} /\ TriggerResend(live_pss_list')
  BY DEF Leave
<1> QED BY <1>2, <1>3, <1>4, <1>5, ResendKeeps

(* A callback that writes nothing, or is only asked for.                     *)
LEMMA QuietKeeps ==
  ASSUME WalkInv, pollout' \in SUBSET Live,
         UNCHANGED <<live_pss_list, pss, open, text, shown>>
  PROVE  WalkInv'
BY DEF WalkInv, Types, Live, Departed, Walks, SentSoFar

(* WALK_INITIAL *)
LEMMA WriteInitialKeeps ==
  ASSUME WalkInv, NEW c \in Live, WriteInitial(c)
  PROVE  WalkInv'
<1>1. c \in Conns /\ live_pss_list \in Seq(Conns) /\ pss \in [Conns -> Sessions] /\ pollout \in SUBSET Live
      /\ text \in [Conns -> Seq(Conns)] /\ shown \in [Conns -> Seq(Conns)]
  BY DEF WalkInv, Types, Live, ToSet
<1> DEFINE h == HeadOf(live_pss_list)
           p == [pss[c] EXCEPT !.walk = "LIST", !.walk_next = h]
<1>2. h \in Conns \cup {Null} /\ h = IF Len(live_pss_list) = 0 THEN Null ELSE live_pss_list[1]
  BY <1>1, HeadFacts
<1>3. /\ UNCHANGED <<live_pss_list, pollout, shown>> /\ open' = open \cup {c}
      /\ pss' = [pss EXCEPT ![c].walk = "LIST", ![c].walk_next = h]
      /\ text' = [text EXCEPT ![c] = <<>>]
  BY DEF WriteInitial
<1> HIDE DEF h
<1>4. pss' = [pss EXCEPT ![c] = p] /\ p \in Sessions
  BY <1>1, <1>2, <1>3 DEF Sessions
<1>5. shown' = [shown EXCEPT ![c] = shown[c]] /\ shown[c] \in Seq(Conns)
  BY <1>1, <1>3
<1>6. Walks(c)'
  <2>1. pss'[c].walk = "LIST" /\ pss'[c].walk_next = h /\ text'[c] = <<>> /\ c \in open'
    BY <1>1, <1>3, <1>4 DEF Sessions
  <2>2. SentSoFar(c)'
    BY <1>1, <1>2, <1>3, <2>1, LenProperties DEF SentSoFar
  <2> QED BY <2>1, <2>2 DEF Walks
<1>7. <<>> \in Seq(Conns)
  BY EmptyFacts
<1> QED BY <1>1, <1>3, <1>4, <1>5, <1>6, <1>7, WriteKeeps

(* WALK_LIST, an entry: the prefix that was sent grows by one.               *)
LEMMA WriteEntryKeeps ==
  ASSUME WalkInv, NEW c \in Live, WriteEntry(c)
  PROVE  WalkInv'
<1>1. /\ c \in Conns /\ live_pss_list \in Seq(Conns) /\ pss \in [Conns -> Sessions]
      /\ pollout \in SUBSET Live /\ Live \in SUBSET Conns
      /\ text \in [Conns -> Seq(Conns)] /\ shown \in [Conns -> Seq(Conns)]
  BY DEF WalkInv, Types, Live, ToSet
<1> DEFINE d == pss[c].walk_next
           n == NextOf(d)
           w == IF n = Null THEN "FINAL" ELSE "LIST"
           p == [pss[c] EXCEPT !.subsequent = TRUE, !.walk_next = n, !.walk = w]
           x == Append(text[c], d)
<1>2. d \in Live /\ d # Null /\ pss[c].walk = "LIST"
  BY DEF WriteEntry, StillThere
<1>3. /\ UNCHANGED <<live_pss_list, pollout, open, shown>>
      /\ text' = [text EXCEPT ![c] = x]
      /\ pss' = [pss EXCEPT ![c].subsequent = TRUE, ![c].walk_next = n, ![c].walk = w]
  BY <1>2 DEF WriteEntry
<1>4. DOMAIN live_pss_list = 1..Len(live_pss_list) /\ Len(live_pss_list) \in Nat
  BY <1>1, LenProperties
<1>5. n \in Conns \cup {Null}
  <2>1. PICK k \in 1..Len(live_pss_list) : live_pss_list[k] = d
    BY <1>2, <1>4 DEF Live, ToSet
  <2>2. n = IF k = Len(live_pss_list) THEN Null ELSE live_pss_list[k + 1]
    BY <2>1, NextFacts
  <2>3. Len(live_pss_list) \in Nat
    BY <1>4
  <2>4. k # Len(live_pss_list) => k + 1 \in 1..Len(live_pss_list)
    BY <2>3
  <2> QED BY <1>1, <2>2, <2>4, ElementOfSeq
<1>6. d \in Conns
  BY <1>1, <1>2
<1>7. x \in Seq(Conns) /\ Len(x) = Len(text[c]) + 1 /\ text[c] \in Seq(Conns)
      /\ \A j \in 1..Len(x) : x[j] = IF j = Len(x) THEN d ELSE text[c][j]
  <2>1. text[c] \in Seq(Conns)
    BY <1>1
  <2> QED BY <1>6, <2>1, AppendProperties, LenProperties
<1>8. Len(text[c]) \in Nat
  BY <1>7, LenProperties
<1>9. c \in open /\ (~pss[c].changed_partway => SentSoFar(c))
  BY <1>2 DEF WalkInv, Walks
<1>10. ASSUME ~pss[c].changed_partway
       PROVE  /\ Len(x) <= Len(live_pss_list)
              /\ \A j \in 1..Len(x) : x[j] = live_pss_list[j]
              /\ n = IF Len(x) = Len(live_pss_list) THEN Null ELSE live_pss_list[Len(x) + 1]
  <2>1. SentSoFar(c)
    BY <1>9, <1>10
  <2>2. Len(text[c]) # Len(live_pss_list) /\ d = live_pss_list[Len(text[c]) + 1]
    BY <1>2, <2>1 DEF SentSoFar
  <2>3. Len(x) \in 1..Len(live_pss_list)
    BY <1>4, <1>7, <1>8, <2>1, <2>2 DEF SentSoFar
  <2>4. d = live_pss_list[Len(x)]
    BY <1>7, <2>2
  <2>5. n = IF Len(x) = Len(live_pss_list) THEN Null ELSE live_pss_list[Len(x) + 1]
    BY <2>3, <2>4, NextFacts
  <2> HIDE DEF x, d, n
  <2>6. \A j \in 1..Len(x) : x[j] = live_pss_list[j]
    BY <1>7, <1>8, <2>1, <2>4 DEF SentSoFar
  <2> QED BY <1>4, <2>3, <2>5, <2>6
<1> HIDE DEF d, n, x
<1>11. pss' = [pss EXCEPT ![c] = p] /\ p \in Sessions
  BY <1>1, <1>3, <1>5 DEF Sessions
<1>12. /\ pss'[c].walk = w /\ pss'[c].walk_next = n
       /\ pss'[c].changed_partway = pss[c].changed_partway
       /\ text'[c] = x
  BY <1>1, <1>3, <1>11 DEF Sessions
<1>13. Walks(c)'
  <2>1. SUFFICES ASSUME ~pss[c].changed_partway
                 PROVE  /\ n # Null => SentSoFar(c)'
                        /\ n = Null => text'[c] = live_pss_list'
    BY <1>3, <1>9, <1>12 DEF Walks
  <2>2. ASSUME n # Null PROVE SentSoFar(c)'
    BY <1>3, <1>10, <1>12, <2>1 DEF SentSoFar
  <2>3. ASSUME n = Null PROVE x = live_pss_list
    <3>1. Len(x) = Len(live_pss_list)
      <4>1. SUFFICES ASSUME Len(x) # Len(live_pss_list) PROVE FALSE
        OBVIOUS
      <4>2. Len(x) + 1 \in 1..Len(live_pss_list)
        <5>1. Len(x) <= Len(live_pss_list)
          BY <1>10, <2>1
        <5>2. Len(x) \in Nat
          BY <1>7, <1>8
        <5> QED BY <1>4, <4>1, <5>1, <5>2
      <4>3. n \in Conns
        BY <1>1, <1>10, <2>1, <4>1, <4>2, ElementOfSeq
      <4> QED BY <2>3, <4>3, StatusConstants
    <3>2. x \in [1..Len(x) -> Conns] /\ live_pss_list \in [1..Len(live_pss_list) -> Conns]
      BY <1>1, <1>7, LenProperties
    <3> QED BY <1>10, <2>1, <3>1, <3>2
  <2> QED BY <1>3, <1>12, <2>2, <2>3
<1>14. shown' = [shown EXCEPT ![c] = shown[c]] /\ shown[c] \in Seq(Conns)
  BY <1>1, <1>3
<1> HIDE DEF p, w
<1> QED BY <1>1, <1>3, <1>7, <1>11, <1>13, <1>14, WriteKeeps

(* WALK_LIST, "our next guy went away": the walk counts as overtaken.        *)
LEMMA WriteGoneKeeps ==
  ASSUME WalkInv, NEW c \in Live, WriteGone(c)
  PROVE  WalkInv'
<1>1. /\ c \in Conns /\ pss \in [Conns -> Sessions] /\ pollout \in SUBSET Live
      /\ text \in [Conns -> Seq(Conns)] /\ shown \in [Conns -> Seq(Conns)]
  BY DEF WalkInv, Types, Live, ToSet
<1> DEFINE p == [pss[c] EXCEPT !.subsequent = TRUE, !.walk = "FINAL", !.changed_partway = TRUE]
<1>2. /\ UNCHANGED <<live_pss_list, pollout, open, text, shown>>
      /\ pss[c].walk = "LIST"
      /\ pss' = [pss EXCEPT ![c].subsequent = TRUE, ![c].walk = "FINAL", ![c].changed_partway = TRUE]
  BY DEF WriteGone, wireVars
<1>3. pss' = [pss EXCEPT ![c] = p] /\ p \in Sessions
  BY <1>1, <1>2 DEF Sessions
<1>4. pss'[c].walk = "FINAL" /\ pss'[c].changed_partway
  BY <1>1, <1>3 DEF Sessions
<1>5. Walks(c)'
  BY <1>2, <1>4 DEF WalkInv, Walks
<1>6. /\ text' = [text EXCEPT ![c] = text[c]] /\ text[c] \in Seq(Conns)
      /\ shown' = [shown EXCEPT ![c] = shown[c]] /\ shown[c] \in Seq(Conns)
  BY <1>1, <1>2
<1> HIDE DEF p
<1> QED BY <1>1, <1>2, <1>3, <1>5, <1>6, WriteKeeps

(* WALK_FINAL: what was shown is the list, or the walk starts over.          *)
LEMMA WriteFinalKeeps ==
  ASSUME WalkInv, NEW c \in Live, WriteFinal(c)
  PROVE  WalkInv'
<1>1. /\ c \in Conns /\ live_pss_list \in Seq(Conns) /\ pss \in [Conns -> Sessions]
      /\ pollout \in SUBSET Live
      /\ text \in [Conns -> Seq(Conns)] /\ shown \in [Conns -> Seq(Conns)]
  BY DEF WalkInv, Types, Live, ToSet
<1> DEFINE p == Finished(pss[c])
<1>2. /\ UNCHANGED live_pss_list /\ open' = open \ {c}
      /\ pss' = [pss EXCEPT ![c] = p]
      /\ pollout' \in SUBSET Live
      /\ text' = [text EXCEPT ![c] = <<>>] /\ shown' = [shown EXCEPT ![c] = text[c]]
      /\ pss[c].walk = "FINAL" \/ (pss[c].walk = "LIST" /\ pss[c].walk_next = Null)
  BY <1>1 DEF WriteFinal, AskedAgain
<1>3. HeadOf(live_pss_list) \in Conns \cup {Null}
  BY <1>1, HeadFacts
<1>4. p \in Sessions /\ p.walk = IF pss[c].changed_partway THEN "INITIAL" ELSE "NONE"
  BY <1>1, <1>3 DEF Finished, Restarted, Sessions
<1>5. ASSUME ~pss[c].changed_partway
      PROVE  text[c] = live_pss_list
  <2>1. CASE pss[c].walk = "FINAL"
    BY <1>5, <2>1 DEF WalkInv, Walks
  <2>2. CASE pss[c].walk = "LIST" /\ pss[c].walk_next = Null
    <3>1. SentSoFar(c)
      BY <1>5, <2>2 DEF WalkInv, Walks
    <3>2. text[c] \in Seq(Conns)
      BY <1>1
    <3>3. /\ text[c] \in [1..Len(text[c]) -> Conns] /\ Len(text[c]) \in Nat
          /\ live_pss_list \in [1..Len(live_pss_list) -> Conns] /\ Len(live_pss_list) \in Nat
      BY <1>1, <3>2, LenProperties
    <3>4. Len(text[c]) = Len(live_pss_list)
      <4>1. SUFFICES ASSUME Len(text[c]) # Len(live_pss_list) PROVE FALSE
        OBVIOUS
      <4>2. Len(text[c]) + 1 \in 1..Len(live_pss_list)
        BY <3>1, <3>3, <4>1 DEF SentSoFar
      <4>3. pss[c].walk_next \in Conns
        BY <1>1, <3>1, <4>1, <4>2, ElementOfSeq DEF SentSoFar
      <4> QED BY <2>2, <4>3, StatusConstants
    <3> QED BY <3>1, <3>3, <3>4 DEF SentSoFar
  <2> QED BY <1>2, <2>1, <2>2
<1> HIDE DEF p
<1>6. pss'[c] = p /\ shown'[c] = text[c] /\ c \notin open'
  BY <1>1, <1>2
<1>7. Walks(c)'
  BY <1>2, <1>4, <1>5, <1>6 DEF Walks
<1>8. <<>> \in Seq(Conns) /\ text[c] \in Seq(Conns)
  BY <1>1, EmptyFacts
<1> QED BY <1>2, <1>4, <1>7, <1>8, WriteKeeps
-----------------------------------------------------------------------------
(***************************************************************************)
(* WalkInv holds in every reachable state.                                  *)
(***************************************************************************)
THEOREM WalkInvariant == Spec => []WalkInv
<1>1. Init => WalkInv
  <2> SUFFICES ASSUME Init PROVE WalkInv
    OBVIOUS
  <2>1. Live = {}
    BY EmptyFacts DEF Init, Live
  <2>2. Zeroed \in Sessions
    BY DEF Zeroed, Sessions
  <2>3. Types
    BY <2>1, <2>2, EmptyFacts DEF Init, Types
  <2> QED BY <2>1, <2>3 DEF Init, WalkInv, Departed
<1>2. WalkInv /\ [Next]_vars => WalkInv'
  <2> SUFFICES ASSUME WalkInv, [Next]_vars PROVE WalkInv'
    OBVIOUS
  <2>1. pollout \in SUBSET Live
    BY DEF WalkInv, Types
  <2>2. ASSUME NEW c \in Conns, Established(c) PROVE WalkInv'
    BY <2>2, EstablishedKeeps
  <2>3. ASSUME NEW c \in Conns, Closed(c) PROVE WalkInv'
    BY <2>3, LeaveKeeps DEF Closed
  <2>4. ASSUME NEW c \in Conns, LibraryWrite(c) PROVE WalkInv'
    BY <2>1, <2>4, QuietKeeps DEF LibraryWrite, wireVars
  <2>5. ASSUME NEW c \in Conns, Write(c) PROVE WalkInv'
    <3>1. c \in Live
      BY <2>1, <2>5 DEF Write, WriteNothing, WriteInitial, WriteEntry, WriteGone, WriteFinal
    <3>2. CASE WriteNothing(c)
      BY <2>1, <3>2, QuietKeeps DEF WriteNothing, wireVars
    <3> QED BY <2>5, <3>1, <3>2, WriteInitialKeeps, WriteEntryKeeps, WriteGoneKeeps, WriteFinalKeeps
            DEF Write
  <2>6. ASSUME NEW c \in Conns, WriteFail(c) PROVE WalkInv'
    BY <2>1, <2>6, LeaveKeeps DEF WriteFail
  <2>7. CASE UNCHANGED vars
    BY <2>1, <2>7, QuietKeeps DEF vars, wireVars, Live
  <2> QED BY <2>2, <2>3, <2>4, <2>5, <2>6, <2>7 DEF Next
<1> QED BY <1>1, <1>2, PTL DEF Spec

(***************************************************************************)
(* ShownIsRight, for any number of sessions that come and go in whichever   *)
(* phase of each other's walks.                                             *)
(***************************************************************************)
THEOREM ShownCorrect == Spec => []ShownIsRight
<1>1. WalkInv => ShownIsRight
  BY DEF WalkInv, Walks, ShownIsRight, QuietIsCurrent, OneMessageAtATime
<1> QED BY <1>1, WalkInvariant, PTL

(***************************************************************************)
(* UntoldIsOnCourse: a pointer to a session that is gone, or whose slot was *)
(* given to somebody else, is met only by a walk that was told of a change. *)
(***************************************************************************)
THEOREM CourseCorrect == Spec => []UntoldIsOnCourse
<1>1. WalkInv => UntoldIsOnCourse
  BY DEF WalkInv, Walks, UntoldIsOnCourse
<1> QED BY <1>1, WalkInvariant, PTL
=============================================================================
