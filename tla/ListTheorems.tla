---------------------------- MODULE ListTheorems ----------------------------
(***************************************************************************)
(* Facts about the linked lists of the library as the models have them:     *)
(* sequences without repetition, from which an element is unlinked with the *)
(* community operators RemoveFirst and RemoveAt and on whose head one is    *)
(* put.                                                                     *)
(***************************************************************************)
EXTENDS Integers, Sequences, SequencesExt, SequenceTheorems, FiniteSetTheorems,
        TLAPS

(* The least element of a set of natural numbers that has only one.          *)
LEMMA MinOfOne ==
  ASSUME NEW i \in Nat
  PROVE  Min({i}) = i
BY DEF Min

(* What unlinking the i-th element leaves at each place.                     *)
LEMMA RemoveAtPlaces ==
  ASSUME NEW S, NEW s \in Seq(S), NEW i \in 1..Len(s)
  PROVE  /\ RemoveAt(s, i) \in Seq(S)
         /\ Len(RemoveAt(s, i)) = Len(s) - 1
         /\ \A j \in 1..(Len(s) - 1) : RemoveAt(s, i)[j] = IF j < i THEN s[j] ELSE s[j + 1]
<1> DEFINE a == SubSeq(s, 1, i - 1)
           b == SubSeq(s, i + 1, Len(s))
<1>1. a \in Seq(S) /\ Len(a) = i - 1 /\ \A j \in 1..(i - 1) : a[j] = s[j]
  BY SubSeqProperties, LenProperties, ElementOfSeq, Z3
<1>2. b \in Seq(S) /\ Len(b) = Len(s) - i /\ \A j \in 1..(Len(s) - i) : b[j] = s[i + j]
  BY SubSeqProperties, LenProperties, ElementOfSeq, Z3
<1>3. RemoveAt(s, i) = a \o b
  BY DEF RemoveAt
<1> HIDE DEF a, b
<1>4. /\ a \o b \in Seq(S)
      /\ Len(a \o b) = Len(a) + Len(b)
      /\ \A j \in 1..(Len(a) + Len(b)) : (a \o b)[j] = IF j <= Len(a) THEN a[j] ELSE b[j - Len(a)]
  BY <1>1, <1>2, ConcatProperties
<1>5. Len(s) \in Nat
  BY LenProperties
<1>6. ASSUME NEW j \in 1..(Len(s) - 1)
      PROVE  (a \o b)[j] = IF j < i THEN s[j] ELSE s[j + 1]
  BY <1>1, <1>2, <1>4, <1>5
<1> QED BY <1>1, <1>2, <1>3, <1>4, <1>5, <1>6

(* A list without repetition has its i-th element no more once that is       *)
(* unlinked, every other one still, and nothing twice.                       *)
LEMMA RemoveAtFacts ==
  ASSUME NEW S, NEW s \in Seq(S), NEW i \in 1..Len(s), IsInjective(s)
  PROVE  /\ RemoveAt(s, i) \in Seq(S)
         /\ IsInjective(RemoveAt(s, i))
         /\ ToSet(RemoveAt(s, i)) = ToSet(s) \ {s[i]}
<1> DEFINE r == RemoveAt(s, i)
<1>1. /\ r \in Seq(S)
      /\ Len(r) = Len(s) - 1
      /\ \A j \in 1..(Len(s) - 1) : r[j] = IF j < i THEN s[j] ELSE s[j + 1]
  BY RemoveAtPlaces
<1>2. Len(s) \in Nat /\ DOMAIN s = 1..Len(s) /\ DOMAIN r = 1..(Len(s) - 1)
  BY <1>1, LenProperties
<1> HIDE DEF r
<1>3. \A j, k \in DOMAIN s : s[j] = s[k] => j = k
  BY DEF IsInjective
<1> DEFINE at(j) == IF j < i THEN j ELSE j + 1
<1>3a. /\ \A j \in DOMAIN r : at(j) \in DOMAIN s /\ at(j) # i /\ r[j] = s[at(j)]
       /\ \A j, k \in DOMAIN r : at(j) = at(k) => j = k
  BY <1>1, <1>2
<1> HIDE DEF at
<1>4. \A j, k \in DOMAIN r : r[j] = r[k] => j = k
  BY <1>3, <1>3a
<1>5. ASSUME NEW j \in DOMAIN r
      PROVE  r[j] \in ToSet(s) \ {s[i]}
  <2>1. at(j) \in DOMAIN s /\ at(j) # i /\ r[j] = s[at(j)]
    BY <1>3a, <1>5
  <2>2. s[at(j)] # s[i]
    BY <1>2, <1>3, <2>1
  <2> QED BY <2>1, <2>2 DEF ToSet
<1>6. ASSUME NEW x \in ToSet(s), x # s[i]
      PROVE  \E j \in DOMAIN r : r[j] = x
  <2>1. PICK k \in DOMAIN s : s[k] = x
    BY DEF ToSet
  <2>2. CASE k < i
    BY <1>1, <1>2, <2>1, <2>2
  <2>3. CASE k > i
    <3>1. k - 1 \in DOMAIN r /\ r[k - 1] = s[k]
      BY <1>1, <1>2, <2>3
    <3> QED BY <3>1, <2>1
  <2> QED BY <1>2, <1>6, <2>1, <2>2, <2>3
<1>7. ToSet(r) = ToSet(s) \ {s[i]}
  BY <1>5, <1>6 DEF ToSet
<1> QED BY <1>1, <1>4, <1>7 DEF r, IsInjective

(* Unlinking an element by its name, as the library does by its address: it  *)
(* is gone, and the list is as it was if it was not there.                   *)
LEMMA RemoveFirstFacts ==
  ASSUME NEW S, NEW s \in Seq(S), NEW e, IsInjective(s)
  PROVE  /\ RemoveFirst(s, e) \in Seq(S)
         /\ IsInjective(RemoveFirst(s, e))
         /\ ToSet(RemoveFirst(s, e)) = ToSet(s) \ {e}
         /\ e \notin ToSet(s) => RemoveFirst(s, e) = s
<1>1. Len(s) \in Nat /\ DOMAIN s = 1..Len(s)
  BY LenProperties
<1>2. CASE \E i \in 1..Len(s) : s[i] = e
  <2>1. PICK i \in 1..Len(s) : s[i] = e
    BY <1>2
  <2>2. {j \in 1..Len(s) : s[j] = e} = {i}
    BY <1>1, <2>1 DEF IsInjective
  <2>3. i \in Nat
    BY <1>1
  <2>4. Min({i}) = i
    BY <2>3, MinOfOne
  <2>5. SelectInSeq(s, LAMBDA v : v = e) = i
    BY <2>2, <2>4 DEF SelectInSeq
  <2>6. RemoveFirst(s, e) = RemoveAt(s, i)
    BY <1>2, <2>5 DEF RemoveFirst
  <2>7. e \in ToSet(s)
    BY <1>1, <2>1 DEF ToSet
  <2> QED BY <2>1, <2>6, <2>7, RemoveAtFacts
<1>3. CASE ~ \E i \in 1..Len(s) : s[i] = e
  <2>1. RemoveFirst(s, e) = s
    BY <1>3 DEF RemoveFirst
  <2>2. e \notin ToSet(s)
    BY <1>1, <1>3 DEF ToSet
  <2> QED BY <2>1, <2>2
<1> QED BY <1>2, <1>3

(* Putting a new element on the head of a list.                              *)
LEMMA PushFacts ==
  ASSUME NEW S, NEW s \in Seq(S), NEW e \in S, e \notin ToSet(s), IsInjective(s)
  PROVE  /\ <<e>> \o s \in Seq(S)
         /\ IsInjective(<<e>> \o s)
         /\ ToSet(<<e>> \o s) = ToSet(s) \cup {e}
         /\ Len(<<e>> \o s) = Len(s) + 1
<1> DEFINE r == <<e>> \o s
<1>1. /\ r \in Seq(S)
      /\ Len(r) = 1 + Len(s)
      /\ \A j \in 1..(1 + Len(s)) : r[j] = IF j <= 1 THEN e ELSE s[j - 1]
  <2>1. <<e>> \in Seq(S) /\ Len(<<e>>) = 1 /\ <<e>>[1] = e
    OBVIOUS
  <2> QED BY <2>1, ConcatProperties, Z3
<1>2. Len(s) \in Nat /\ DOMAIN s = 1..Len(s) /\ DOMAIN r = 1..(1 + Len(s))
  BY <1>1, LenProperties
<1> HIDE DEF r
<1>3. \A j \in 1..Len(s) : s[j] # e
  BY <1>2 DEF ToSet
<1>4. \A j, k \in DOMAIN s : s[j] = s[k] => j = k
  BY DEF IsInjective
<1>5. \A j, k \in DOMAIN r : r[j] = r[k] => j = k
  BY <1>1, <1>2, <1>3, <1>4
<1>6. \A j \in DOMAIN r : r[j] \in ToSet(s) \cup {e}
  BY <1>1, <1>2 DEF ToSet
<1>7. ASSUME NEW x \in ToSet(s) \cup {e}
      PROVE  \E j \in DOMAIN r : r[j] = x
  <2>1. CASE x = e
    BY <1>1, <1>2, <2>1
  <2>2. CASE x \in ToSet(s)
    <3>1. PICK k \in DOMAIN s : s[k] = x
      BY <2>2 DEF ToSet
    <3>2. k + 1 \in DOMAIN r /\ r[k + 1] = x
      BY <1>1, <1>2, <3>1
    <3> QED BY <3>2
  <2> QED BY <2>1, <2>2
<1>8. ToSet(r) = ToSet(s) \cup {e}
  BY <1>6, <1>7 DEF ToSet
<1> QED BY <1>1, <1>2, <1>5, <1>8 DEF r, IsInjective

(* Nothing is on an empty list, and one that is not empty has something.     *)
LEMMA EmptyFacts ==
  /\ \A S : <<>> \in Seq(S)
  /\ IsInjective(<<>>)
  /\ ToSet(<<>>) = {}
BY DEF IsInjective, ToSet

(* A list without repetition is as long as its set of elements is large.     *)
LEMMA ListCardinality ==
  ASSUME NEW S, NEW s \in Seq(S), IsInjective(s)
  PROVE  IsFiniteSet(ToSet(s)) /\ Cardinality(ToSet(s)) = Len(s)
<1>1. Len(s) \in Nat /\ s \in [1..Len(s) -> S] /\ DOMAIN s = 1..Len(s)
  BY LenProperties
<1>2. s \in Bijection(1..Len(s), ToSet(s))
  BY <1>1 DEF Bijection, Injection, Surjection, IsInjective, ToSet
<1>3. ExistsBijection(1..Len(s), ToSet(s))
  BY <1>2 DEF ExistsBijection
<1> QED BY <1>1, <1>3, FS_CountingElements, FS_NatBijection

(* A set of places that has one has a last one.                              *)
LEMMA LastPlace ==
  ASSUME NEW n \in Nat, NEW T \in SUBSET (1..n), T # {}
  PROVE  Max(T) \in T /\ \A j \in T : Max(T) >= j
<1> DEFINE U == {n - i : i \in T}
<1>1. U \subseteq Nat /\ U # {}
  <2>1. \A i \in T : n - i \in Nat
    OBVIOUS
  <2> QED BY <2>1
<1>2. \E x \in U : \A y \in U : <<y, x>> \notin OpToRel(<, Nat)
  BY <1>1, NatLessThanWellFounded, WFMin
<1>3. PICK x \in U : \A y \in U : <<y, x>> \notin OpToRel(<, Nat)
  BY <1>2
<1>4. \A y \in U : ~(y < x)
  BY <1>1, <1>3 DEF OpToRel
<1>5. PICK i \in T : x = n - i
  BY <1>3
<1>6. \A j \in T : i >= j
  <2> SUFFICES ASSUME NEW j \in T PROVE i >= j
    OBVIOUS
  <2>1. ~(n - j < n - i)
    BY <1>4, <1>5
  <2> QED BY <2>1
<1> QED BY <1>5, <1>6 DEF Max

(* Taking the element at the tail, or the one at the head, is unlinking it.  *)
LEMMA EndFacts ==
  ASSUME NEW S, NEW s \in Seq(S), s # <<>>
  PROVE  /\ Len(s) \in 1..Len(s) /\ 1 \in 1..Len(s)
         /\ Front(s) = RemoveAt(s, Len(s)) /\ Last(s) = s[Len(s)]
         /\ Tail(s) = RemoveAt(s, 1) /\ Head(s) = s[1]
<1>1. Len(s) \in Nat \ {0}
  BY EmptySeq
<1>2. Len(s) \in 1..Len(s) /\ 1 \in 1..Len(s)
  BY <1>1
<1> DEFINE a == RemoveAt(s, Len(s))
           b == RemoveAt(s, 1)
<1>3. /\ b \in Seq(S) /\ Len(b) = Len(s) - 1
      /\ \A j \in 1..(Len(s) - 1) : b[j] = IF j < 1 THEN s[j] ELSE s[j + 1]
  BY <1>2, RemoveAtPlaces
<1> HIDE DEF a, b
<1>4. Front(s) = a
  <2> DEFINE f == SubSeq(s, 1, Len(s) - 1)
  <2>1. SubSeq(s, Len(s) + 1, Len(s)) = <<>>
    BY <1>1, SubSeqEmpty
  <2>2. f \in Seq(S)
    BY SubSeqProperties, LenProperties, ElementOfSeq, Z3
  <2>3. a = f \o <<>>
    BY <2>1 DEF a, RemoveAt
  <2> QED BY <2>2, <2>3, ConcatEmptySeq DEF Front
<1>5. Tail(s) = b
  <2>1. /\ Tail(s) \in Seq(S) /\ Len(Tail(s)) = Len(s) - 1
        /\ \A j \in 1..(Len(s) - 1) : Tail(s)[j] = s[j + 1]
    BY HeadTailProperties
  <2>2. b \in [1..(Len(s) - 1) -> S] /\ Tail(s) \in [1..(Len(s) - 1) -> S]
    BY <1>3, <2>1, LenProperties
  <2>3. \A j \in 1..(Len(s) - 1) : Tail(s)[j] = b[j]
    BY <1>1, <1>3, <2>1
  <2> QED BY <2>2, <2>3
<1>6. Last(s) = s[Len(s)] /\ Head(s) = s[1]
  BY HeadTailProperties DEF Last
<1> QED BY <1>2, <1>4, <1>5, <1>6 DEF a, b
=============================================================================
