----------------------------- MODULE RingProofs -----------------------------
(***************************************************************************)
(* Theorems about the ring and its users, for every size of the buffer and  *)
(* of an element and every set of users.  The argument is in terms of       *)
(* positions in the log of all elements ever inserted: the element at       *)
(* position p (from 0) is in slot p % n, at byte offset (p % n) * e.  The    *)
(* last part is about the mirror plugin, which keeps its messages in rings. *)
(***************************************************************************)
EXTENDS RingUsers, LwsMirror, SequenceTheorems, WellFoundedInduction, TLAPS

-----------------------------------------------------------------------------
(* Division with remainder.                                                  *)
LEMMA DivMod ==
  ASSUME NEW n \in Nat \ {0}, NEW a \in Int
  PROVE  a % n \in 0..(n - 1) /\ a \div n \in Int /\ a = n * (a \div n) + (a % n)
OBVIOUS

(* There is only one remainder.                                              *)
LEMMA OneRemainder ==
  ASSUME NEW n \in Nat \ {0}, NEW q \in Int, NEW r \in 0..(n - 1)
  PROVE  (n * q + r) % n = r
OBVIOUS

(* Whole rounds do not change the remainder.                                 *)
LEMMA WholeRounds ==
  ASSUME NEW n \in Nat \ {0}, NEW q \in Int, NEW a \in Int
  PROVE  (n * q + a) % n = a % n
<1> DEFINE d == a \div n
           r == a % n
<1>1. r \in 0..(n - 1) /\ d \in Int /\ a = n * d + r
  BY DivMod
<1> HIDE DEF d, r
<1>2. n * q + a = n * (q + d) + r /\ q + d \in Int
  BY <1>1
<1>3. (n * (q + d) + r) % n = r
  BY <1>1, <1>2, OneRemainder
<1> QED BY <1>2, <1>3 DEF r

(* Going on from a slot is going on from the position.                       *)
LEMMA SumOfRemainder ==
  ASSUME NEW n \in Nat \ {0}, NEW a \in Int, NEW k \in Int
  PROVE  ((a % n) + k) % n = (a + k) % n
<1> DEFINE d == a \div n
           r == a % n
<1>1. r \in 0..(n - 1) /\ d \in Int /\ a = n * d + r
  BY DivMod
<1> HIDE DEF d, r
<1>2. a + k = n * d + (r + k) /\ r + k \in Int
  BY <1>1
<1>3. (n * d + (r + k)) % n = (r + k) % n
  BY <1>1, <1>2, WholeRounds
<1> QED BY <1>2, <1>3 DEF r

(* The slots of positions less than a round apart.                           *)
LEMMA Wrap ==
  ASSUME NEW n \in Nat \ {0}, NEW p \in Nat, NEW q \in p..(p + n - 1)
  PROVE  q % n = IF (p % n) + (q - p) < n THEN (p % n) + (q - p)
                                          ELSE (p % n) + (q - p) - n
<1> DEFINE r == p % n
           k == q - p
<1>1. r \in 0..(n - 1) /\ k \in 0..(n - 1) /\ p + k = q
  BY DivMod
<1> HIDE DEF r, k
<1>2. q % n = (r + k) % n
  <2>1. p \in Int /\ k \in Int
    BY <1>1
  <2>2. (r + k) % n = (p + k) % n
    BY <2>1, SumOfRemainder, Zenon DEF r
  <2> QED BY <1>1, <2>2
<1>3. CASE r + k < n
  <2>1. r + k \in 0..(n - 1) /\ n * 0 + (r + k) = r + k
    BY <1>1, <1>3
  <2>2. (n * 0 + (r + k)) % n = r + k
    BY <2>1, OneRemainder
  <2> QED BY <1>2, <1>3, <2>1, <2>2 DEF r, k
<1>4. CASE ~(r + k < n)
  <2>1. r + k - n \in 0..(n - 1) /\ n * 1 + (r + k - n) = r + k
    BY <1>1, <1>4
  <2>2. (n * 1 + (r + k - n)) % n = r + k - n
    BY <2>1, OneRemainder
  <2> QED BY <1>2, <1>4, <2>1, <2>2 DEF r, k
<1> QED BY <1>3, <1>4

(* Two positions less than a round apart have different slots.               *)
LEMMA Apart ==
  ASSUME NEW n \in Nat \ {0}, NEW p \in Nat, NEW q \in p..(p + n - 1), p % n = q % n
  PROVE  p = q
<1> DEFINE r == p % n
<1>1. r \in 0..(n - 1)
  BY DivMod
<1>2. r = IF r + (q - p) < n THEN r + (q - p) ELSE r + (q - p) - n
  BY Wrap
<1> HIDE DEF r
<1> QED BY <1>1, <1>2

(* Elements and bytes.                                                       *)
LEMMA Scaled ==
  ASSUME NEW e \in Nat \ {0}, NEW x \in Int, NEW y \in Int
  PROVE  /\ x * e \in Int
         /\ (x * e) \div e = x
         /\ x * e < y * e <=> x < y
         /\ x * e = y * e <=> x = y
         /\ x * e + y * e = (x + y) * e
         /\ x * e - y * e = (x - y) * e
OBVIOUS

LEMMA ScaledRemainder ==
  ASSUME NEW e \in Nat \ {0}, NEW n \in Nat \ {0}, NEW x \in Int
  PROVE  (x * e) % (n * e) = (x % n) * e
OBVIOUS

-----------------------------------------------------------------------------
(***************************************************************************)
(* A ring of n elements of e bytes, into which l elements were inserted and *)
(* of which the first f were given up.                                      *)
(***************************************************************************)
Shape(r, e, n, l, f) ==
  /\ r = [buflen |-> n * e, element_len |-> e, head |-> (l % n) * e,
          oldest_tail |-> (f % n) * e, buf |-> r.buf]
  /\ r.buf = [s \in 0..(n - 1) |-> r.buf[s]]

(* The numbers that can go with a ring: one slot is always free.             *)
Numbers(e, n, l, f) ==
  /\ e \in Nat \ {0}
  /\ n \in Nat \ {0}
  /\ l \in Nat
  /\ f \in Nat
  /\ f <= l
  /\ l < f + n

LEMMA ShapeFields ==
  ASSUME NEW r, NEW e, NEW n, NEW l, NEW f, Shape(r, e, n, l, f)
  PROVE  /\ r.buflen = n * e /\ r.element_len = e /\ r.head = (l % n) * e
         /\ r.oldest_tail = (f % n) * e /\ DOMAIN r.buf = 0..(n - 1)
<1>1. /\ r.buflen = n * e /\ r.element_len = e /\ r.head = (l % n) * e
      /\ r.oldest_tail = (f % n) * e
  BY DEF Shape
<1>2. DOMAIN r.buf = 0..(n - 1)
  BY DEF Shape
<1> QED BY <1>1, <1>2

(* A ring as lws_ring_create() makes it.                                     *)
LEMMA CreateShape ==
  ASSUME NEW e \in Nat \ {0}, NEW n \in Nat \ {0}
  PROVE  /\ Shape(lws_ring_create(e, n), e, n, 0, 0)
         /\ Numbers(e, n, 0, 0)
         /\ \A s \in 0..(n - 1) : lws_ring_create(e, n).buf[s] = Garbage
<1>1. 0 % n = 0 /\ 0 * e = 0
  <2>1. (n * 0 + 0) % n = 0 /\ n * 0 + 0 = 0
    BY OneRemainder
  <2> QED BY <2>1
<1> QED BY <1>1 DEF Shape, Numbers, lws_ring_create

(* The slot of the element at an offset.                                     *)
LEMMA SlotIs ==
  ASSUME NEW r, NEW e, NEW n, NEW l, NEW f, Shape(r, e, n, l, f), Numbers(e, n, l, f),
         NEW p \in Int
  PROVE  Slot(r, (p % n) * e) = p % n /\ p % n \in 0..(n - 1)
<1>1. e \in Nat \ {0} /\ n \in Nat \ {0} /\ r.element_len = e
  BY ShapeFields DEF Numbers
<1> DEFINE s == p % n
<1>2. s \in 0..(n - 1)
  BY <1>1, DivMod
<1> HIDE DEF s
<1>3. (s * e) \div e = s
  BY <1>1, <1>2, Scaled
<1> QED BY <1>1, <1>2, <1>3 DEF Slot, s

(* Stepping from the element at position p to the one k places on.           *)
LEMMA AfterIs ==
  ASSUME NEW r, NEW e, NEW n, NEW l, NEW f, Shape(r, e, n, l, f), Numbers(e, n, l, f),
         NEW p \in Int, NEW k \in Int
  PROVE  After(r, (p % n) * e, k) = ((p + k) % n) * e
<1>1. e \in Nat \ {0} /\ n \in Nat \ {0} /\ r.buflen = n * e /\ r.element_len = e
  BY ShapeFields DEF Numbers
<1> DEFINE s == p % n
<1>2. s \in 0..(n - 1) /\ (s + k) % n = (p + k) % n
  BY <1>1, DivMod, SumOfRemainder
<1> HIDE DEF s
<1>3. s * e + k * e = (s + k) * e /\ s + k \in Int
  BY <1>1, <1>2, Scaled
<1>4. ((s + k) * e) % (n * e) = ((s + k) % n) * e
  BY <1>1, <1>3, ScaledRemainder
<1> QED BY <1>1, <1>2, <1>3, <1>4 DEF After, s

(* The bytes from the slot of p to the slot of q.                            *)
LEMMA Distance ==
  ASSUME NEW e \in Nat \ {0}, NEW n \in Nat \ {0}, NEW p \in Nat, NEW q \in p..(p + n - 1)
  PROVE  /\ (p % n) * e \in Int /\ (q % n) * e \in Int
         /\ (p % n) * e = (q % n) * e <=> p = q
         /\ (q % n) * e > (p % n) * e => (q % n) * e - (p % n) * e = (q - p) * e
         /\ (q % n) * e < (p % n) * e => n * e - (p % n) * e + (q % n) * e = (q - p) * e
<1> DEFINE s == p % n
           t == q % n
<1>1. s \in 0..(n - 1) /\ t \in 0..(n - 1)
  BY DivMod
<1>2. t = IF s + (q - p) < n THEN s + (q - p) ELSE s + (q - p) - n
  BY Wrap
<1> HIDE DEF s, t
<1>3. /\ s * e \in Int /\ t * e \in Int
      /\ s * e = t * e <=> s = t
      /\ s * e < t * e <=> s < t
      /\ t * e < s * e <=> t < s
      /\ t * e - s * e = (t - s) * e
  BY <1>1, Scaled
<1>4. s = t <=> p = q
  BY <1>1, <1>2
<1>5. t > s => t - s = q - p
  BY <1>1, <1>2
<1>6. t < s => n + (t - s) = q - p
  BY <1>1, <1>2
<1>7. t < s => n * e + (t - s) * e = (q - p) * e
  <2>1. n * e + (t - s) * e = (n + (t - s)) * e
    BY <1>1, Scaled
  <2> QED BY <1>6, <2>1
<1>8. n * e \in Int
  OBVIOUS
<1>9. t * e < s * e => n * e - s * e + t * e = (q - p) * e
  <2> SUFFICES ASSUME t * e < s * e PROVE n * e - s * e + t * e = (q - p) * e
    OBVIOUS
  <2> DEFINE x == s * e
             y == t * e
             m == n * e
             d == (t - s) * e
  <2>1. m + d = (q - p) * e /\ y - x = d /\ x \in Int /\ y \in Int /\ m \in Int
    BY <1>3, <1>7, <1>8
  <2> HIDE DEF x, y, m, d
  <2>2. m - x + y = m + (y - x)
    BY <2>1
  <2> QED BY <2>1, <2>2 DEF x, y, m, d
<1> QED BY <1>3, <1>4, <1>5, <1>9 DEF s, t

(* lws_ring_get_count_waiting_elements() counts what is ahead of a tail.     *)
LEMMA WaitingIs ==
  ASSUME NEW r, NEW e, NEW n, NEW l, NEW f, Shape(r, e, n, l, f), Numbers(e, n, l, f),
         NEW p \in Nat, p <= l, l < p + n
  PROVE  WaitingElements(r, (p % n) * e) = l - p
<1>0. e \in Nat \ {0} /\ n \in Nat \ {0} /\ l \in Nat /\ f \in Nat /\ f <= l /\ l < f + n
  BY DEF Numbers
<1> DEFINE x == (p % n) * e
           y == (l % n) * e
           m == n * e
           w == (l - p) * e
<1>1. r.buflen = m /\ r.element_len = e /\ r.head = y
  BY ShapeFields
<1>2. l \in p..(p + n - 1) /\ l - p \in Int
  BY <1>0
<1>3. /\ x \in Int /\ y \in Int
      /\ x = y <=> p = l
      /\ y > x => y - x = w
      /\ y < x => m - x + y = w
  <2>1. e \in Nat \ {0}
    BY <1>0
  <2>2. n \in Nat \ {0}
    BY <1>0
  <2>3. l \in p..(p + n - 1)
    BY <1>2
  <2>4. /\ (p % n) * e \in Int /\ (l % n) * e \in Int
        /\ (p % n) * e = (l % n) * e <=> p = l
        /\ (l % n) * e > (p % n) * e => (l % n) * e - (p % n) * e = (l - p) * e
        /\ (l % n) * e < (p % n) * e => n * e - (p % n) * e + (l % n) * e = (l - p) * e
    BY <2>1, <2>2, <2>3, Distance, ZenonT(30)
  <2> QED BY <2>4
<1> HIDE DEF x, y, m
<1>4. w \div e = l - p /\ 0 \div e = 0
  <2>1. 0 * e = 0 /\ (0 * e) \div e = 0
    BY <1>0, Scaled
  <2> QED BY <1>0, <1>2, <2>1, Scaled
<1> HIDE DEF w
<1>5. WaitingElements(r, x) = l - p
  <2>1. CASE x = y
    BY <1>1, <1>2, <1>3, <1>4, <2>1 DEF WaitingElements
  <2>2. CASE y > x
    <3>1. WaitingElements(r, x) = (y - x) \div e
      BY <1>1, <1>3, <2>2 DEF WaitingElements
    <3> QED BY <1>3, <1>4, <2>2, <3>1
  <2>3. CASE y < x
    <3>1. WaitingElements(r, x) = ((m - x) + y) \div e
      BY <1>1, <1>3, <2>3 DEF WaitingElements
    <3> QED BY <1>3, <1>4, <2>3, <3>1
  <2> QED BY <1>3, <2>1, <2>2, <2>3
<1> QED BY <1>5 DEF x

(* In particular for the oldest tail.                                        *)
LEMMA OldestWaiting ==
  ASSUME NEW r, NEW e, NEW n, NEW l, NEW f, Shape(r, e, n, l, f), Numbers(e, n, l, f)
  PROVE  WaitingElements(r, r.oldest_tail) = l - f
<1>1. r.oldest_tail = (f % n) * e
  BY ShapeFields
<1>2. f \in Nat /\ f <= l /\ l < f + n
  BY DEF Numbers
<1>3. WaitingElements(r, (f % n) * e) = l - f
  BY <1>2, WaitingIs
<1> QED BY <1>1, <1>3

(***************************************************************************)
(* lws_ring_get_count_free_elements(): all but one slot and those that      *)
(* wait, but not the last one when an element is one byte.                  *)
(***************************************************************************)
LEMMA FreeIs ==
  ASSUME NEW r, NEW e, NEW n, NEW l, NEW f, Shape(r, e, n, l, f), Numbers(e, n, l, f)
  PROVE  FreeElements(r) = IF e = 1 /\ l - f = n - 2 THEN 0 ELSE n - 1 - (l - f)
<1> USE DEF Numbers
<1> DEFINE x == (f % n) * e
           y == (l % n) * e
           m == n * e
           w == (l - f) * e
           z == (n - 1 - (l - f)) * e
           c == n - 1 - (l - f)
<1>1. r.buflen = m /\ r.element_len = e /\ r.head = y /\ r.oldest_tail = x
  BY ShapeFields
<1>2. l \in f..(f + n - 1) /\ l - f \in Int /\ c \in Nat
  OBVIOUS
<1>3. /\ x \in Int /\ y \in Int
      /\ x = y <=> f = l
      /\ y > x => y - x = w
      /\ y < x => m - x + y = w
  BY <1>2, Distance
<1>4. z \div e = c
  BY <1>2, Scaled
<1>5. m \in Int /\ w \in Int /\ z \in Int /\ z = m - e - w
  OBVIOUS
<1>6. f = l => w = 0
  OBVIOUS
<1>7. z < 2 <=> c = 0 \/ (c = 1 /\ e = 1)
  <2>1. c = 0 => z = 0
    OBVIOUS
  <2>2. c = 1 => z = e
    OBVIOUS
  <2>3. c >= 2 => z >= 2
    OBVIOUS
  <2> HIDE DEF c, z
  <2> QED BY <1>2, <1>5, <2>1, <2>2, <2>3
<1> HIDE DEF x, y, m, w, z, c
<1>8. FreeElements(r) = IF z < 2 THEN 0 ELSE z \div e
  <2>1. CASE x = y
    <3>1. m - e = z
      BY <1>3, <1>5, <1>6, <2>1
    <3> QED BY <1>1, <2>1, <3>1 DEF FreeElements
  <2>2. CASE y < x
    <3>1. (x - y) - e = z
      BY <1>3, <1>5, <2>2
    <3>2. y # x
      BY <1>3, <2>2
    <3> QED BY <1>1, <2>2, <3>1, <3>2 DEF FreeElements
  <2>3. CASE y > x
    <3>1. (m - y) + x - e = z
      BY <1>3, <1>5, <2>3
    <3>2. y # x /\ ~(y < x)
      BY <1>3, <2>3
    <3> QED BY <1>1, <3>1, <3>2 DEF FreeElements
  <2> QED BY <1>3, <2>1, <2>2, <2>3
<1>9. FreeElements(r) = IF c = 0 \/ (c = 1 /\ e = 1) THEN 0 ELSE c
  BY <1>4, <1>7, <1>8
<1> QED BY <1>2, <1>9 DEF c

(***************************************************************************)
(* The memcpy()s of an insertion: the elements come to the slots of the     *)
(* next positions, across the wrap, and no other slot is touched.           *)
(***************************************************************************)
LEMMA FillIs ==
  ASSUME NEW r, NEW e, NEW n, NEW l, NEW f, Shape(r, e, n, l, f), Numbers(e, n, l, f),
         NEW S, NEW src \in Seq(S), Len(src) <= n
  PROVE  /\ Shape(Fill(r, src), e, n, l + Len(src), f)
         /\ \A i \in 1..Len(src) : Fill(r, src).buf[(l + i - 1) % n] = src[i]
         /\ \A s \in 0..(n - 1) :
              (\A i \in 1..Len(src) : (l + i - 1) % n # s) => Fill(r, src).buf[s] = r.buf[s]
<1>0. e \in Nat \ {0} /\ n \in Nat \ {0} /\ l \in Nat /\ f \in Nat /\ f <= l /\ l < f + n
  BY DEF Numbers
<1> DEFINE k == Len(src)
           at == [i \in 1..k |-> Slot(r, After(r, r.head, i - 1))]
           b == [s \in DOMAIN r.buf |-> IF \E i \in 1..k : at[i] = s
                                       THEN src[CHOOSE i \in 1..k : at[i] = s]
                                       ELSE r.buf[s]]
<1>1. k \in Nat
  BY LenProperties
<1>2. r.head = (l % n) * e /\ DOMAIN r.buf = 0..(n - 1)
  BY ShapeFields
<1>3. ASSUME NEW i \in Int
      PROVE  /\ After(r, r.head, i) = ((l + i) % n) * e
             /\ Slot(r, After(r, r.head, i)) = (l + i) % n
             /\ (l + i) % n \in 0..(n - 1)
  <2>1. l + i \in Int /\ l \in Int
    BY <1>0
  <2>2. After(r, (l % n) * e, i) = ((l + i) % n) * e
    BY <2>1, AfterIs
  <2>3. Slot(r, ((l + i) % n) * e) = (l + i) % n /\ (l + i) % n \in 0..(n - 1)
    BY <2>1, SlotIs
  <2> QED BY <1>2, <2>2, <2>3
<1>4. \A i \in 1..k : at[i] = (l + i - 1) % n /\ at[i] \in 0..(n - 1)
  <2> SUFFICES ASSUME NEW i \in 1..k PROVE at[i] = (l + i - 1) % n /\ at[i] \in 0..(n - 1)
    OBVIOUS
  <2>1. i - 1 \in Int /\ l + (i - 1) = l + i - 1
    BY <1>0, <1>1
  <2>2. at[i] = Slot(r, After(r, r.head, i - 1))
    OBVIOUS
  <2> QED BY <1>3, <2>1, <2>2
<1>5. Fill(r, src) = [r EXCEPT !.head = After(r, r.head, k), !.buf = b]
  BY DEF Fill
<1> HIDE DEF k, at, b
<1>6. \A i, j \in 1..k : at[i] = at[j] => i = j
  <2>1. ASSUME NEW i \in 1..k, NEW j \in 1..k, at[i] = at[j], i <= j PROVE i = j
    <3>1. l + i - 1 \in Nat /\ l + j - 1 \in (l + i - 1)..((l + i - 1) + n - 1)
      BY <1>0, <1>1, <2>1 DEF k
    <3>2. (l + i - 1) % n = (l + j - 1) % n
      BY <1>4, <2>1
    <3>3. l + i - 1 = l + j - 1
      BY <1>0, <3>1, <3>2, Apart
    <3> QED BY <1>0, <1>1, <3>3
  <2> QED BY <1>1, <2>1
<1>7. \A i \in 1..k : b[at[i]] = src[i]
  <2> SUFFICES ASSUME NEW i \in 1..k PROVE b[at[i]] = src[i]
    OBVIOUS
  <2>1. at[i] \in DOMAIN r.buf
    BY <1>2, <1>4
  <2>2. b[at[i]] = src[CHOOSE j \in 1..k : at[j] = at[i]]
    BY <2>1 DEF b
  <2>3. (CHOOSE j \in 1..k : at[j] = at[i]) = i
    BY <1>6
  <2> QED BY <2>2, <2>3
<1>8. \A s \in 0..(n - 1) : (\A i \in 1..k : at[i] # s) => b[s] = r.buf[s]
  BY <1>2 DEF b
<1>9. b = [s \in 0..(n - 1) |-> b[s]]
  BY <1>2 DEF b
<1>10. Shape(Fill(r, src), e, n, l + k, f) /\ Fill(r, src).buf = b
  <2>1. After(r, r.head, k) = ((l + k) % n) * e
    BY <1>1, <1>3
  <2> DEFINE y == ((l + k) % n) * e
             x == (f % n) * e
             m == n * e
             y0 == (l % n) * e
             c == r.buf
  <2>2. r = [buflen |-> m, element_len |-> e, head |-> y0, oldest_tail |-> x, buf |-> c]
    BY DEF Shape
  <2>3. Fill(r, src) = [r EXCEPT !.head = y, !.buf = b]
    BY <1>5, <2>1
  <2> HIDE DEF y, x, m, y0, c
  <2>4. Fill(r, src) = [buflen |-> m, element_len |-> e, head |-> y, oldest_tail |-> x, buf |-> b]
    BY <2>2, <2>3
  <2>5. Fill(r, src).buf = b
    BY <2>4
  <2> QED BY <1>9, <2>4, <2>5 DEF Shape, y, x, m
<1> QED BY <1>4, <1>7, <1>8, <1>10 DEF k

(* Copying out of the buffer from the tail at position p.                    *)
LEMMA CopyIs ==
  ASSUME NEW r, NEW e, NEW n, NEW l, NEW f, Shape(r, e, n, l, f), Numbers(e, n, l, f),
         NEW p \in Nat, NEW k \in Nat
  PROVE  CopyOut(r, (p % n) * e, k) = [i \in 1..k |-> r.buf[(p + i - 1) % n]]
<1> DEFINE x == (p % n) * e
<1>1. ASSUME NEW i \in 1..k
      PROVE  Slot(r, After(r, x, i - 1)) = (p + i - 1) % n
  <2>1. p \in Int /\ i - 1 \in Int /\ p + (i - 1) = p + i - 1 /\ p + i - 1 \in Int
    OBVIOUS
  <2>2. After(r, x, i - 1) = ((p + (i - 1)) % n) * e
    BY <2>1, AfterIs
  <2>3. Slot(r, ((p + i - 1) % n) * e) = (p + i - 1) % n
    BY <2>1, SlotIs
  <2> QED BY <2>1, <2>2, <2>3
<1> HIDE DEF x
<1>2. CopyOut(r, x, k) = [i \in 1..k |-> r.buf[(p + i - 1) % n]]
  BY <1>1 DEF CopyOut
<1> QED BY <1>2 DEF x

(* The slots an update of the oldest tail passes over.                       *)
LEMMA BetweenIs ==
  ASSUME NEW r, NEW e, NEW n, NEW l, NEW f, Shape(r, e, n, l, f), Numbers(e, n, l, f),
         NEW p \in Nat, NEW q \in p..(p + n - 1)
  PROVE  SlotsBetween(r, (p % n) * e, (q % n) * e) = {i % n : i \in p..(q - 1)}
<1>0. e \in Nat \ {0} /\ n \in Nat \ {0} /\ l \in Nat /\ f \in Nat /\ f <= l /\ l < f + n
  BY DEF Numbers
<1> DEFINE s == p % n
           t == q % n
           a == s * e
           b == t * e
<1>1. r.buflen = n * e /\ r.element_len = e
  BY ShapeFields
<1>2. s \in 0..(n - 1) /\ t \in 0..(n - 1)
  <2>1. p \in Int /\ q \in Int
    BY <1>0
  <2> QED BY <1>0, <2>1, DivMod
<1>3. t = IF s + (q - p) < n THEN s + (q - p) ELSE s + (q - p) - n
  BY <1>0, Wrap
<1>4. ((b - a) % (n * e)) \div e = q - p
  <2> HIDE DEF s, t
  <2>1. b - a = (t - s) * e /\ t - s \in Int
    BY <1>0, <1>2, Scaled
  <2>2. ((t - s) * e) % (n * e) = ((t - s) % n) * e
    BY <1>0, <2>1, ScaledRemainder
  <2>3. (t - s) % n = q - p
    <3>1. CASE t - s = q - p
      <4>1. q - p \in 0..(n - 1) /\ n * 0 + (q - p) = t - s
        BY <1>0, <3>1
      <4> QED BY <1>0, <4>1, OneRemainder
    <3>2. CASE t - s = (q - p) - n
      <4>1. q - p \in 0..(n - 1) /\ n * (-1) + (q - p) = t - s
        BY <1>0, <3>2
      <4>2. (n * (-1) + (q - p)) % n = q - p
        BY <1>0, <4>1, OneRemainder
      <4> QED BY <4>1, <4>2
    <3>3. t - s = q - p \/ t - s = (q - p) - n
      BY <1>0, <1>2, <1>3
    <3> QED BY <3>1, <3>2, <3>3
  <2>4. ((q - p) * e) \div e = q - p
    BY <1>0, Scaled
  <2> QED BY <2>1, <2>2, <2>3, <2>4
<1>5. ASSUME NEW i \in Int
      PROVE  Slot(r, After(r, a, i)) = (p + i) % n
  <2>1. p \in Int /\ p + i \in Int
    OBVIOUS
  <2>2. After(r, a, i) = ((p + i) % n) * e
    BY <2>1, AfterIs
  <2>3. Slot(r, ((p + i) % n) * e) = (p + i) % n
    BY <2>1, SlotIs
  <2> QED BY <2>2, <2>3
<1> HIDE DEF a, b, s, t
<1>6. SlotsBetween(r, a, b) = {Slot(r, After(r, a, i)) : i \in 0..(q - p - 1)}
  BY <1>1, <1>4 DEF SlotsBetween
<1>7. {Slot(r, After(r, a, i)) : i \in 0..(q - p - 1)} = {(p + i) % n : i \in 0..(q - p - 1)}
  BY <1>5
<1>8. {(p + i) % n : i \in 0..(q - p - 1)} = {i % n : i \in p..(q - 1)}
  <2>1. ASSUME NEW i \in 0..(q - p - 1) PROVE p + i \in p..(q - 1)
    OBVIOUS
  <2>2. ASSUME NEW i \in p..(q - 1) PROVE i - p \in 0..(q - p - 1) /\ p + (i - p) = i
    OBVIOUS
  <2> QED BY <2>1, <2>2
<1> QED BY <1>6, <1>7, <1>8 DEF a, b, s, t

(***************************************************************************)
(* lws_ring_update_oldest_tail(), and with it lws_ring_destroy(): the tail  *)
(* goes on to position q, the slots it passes are destroyed when there is a *)
(* callback for that, and no other is.                                      *)
(***************************************************************************)
LEMMA UpdateIs ==
  ASSUME NEW r, NEW e, NEW n, NEW l, NEW f, Shape(r, e, n, l, f), Numbers(e, n, l, f),
         NEW q \in f..l
  PROVE  LET u == lws_ring_update_oldest_tail(r, (q % n) * e)
         IN /\ Shape(u, e, n, l, q)
            /\ Numbers(e, n, l, q)
            /\ \A s \in 0..(n - 1) :
                 u.buf[s] = IF DestroyElement /\ s \in {i % n : i \in f..(q - 1)}
                            THEN Garbage ELSE r.buf[s]
<1>0. e \in Nat \ {0} /\ n \in Nat \ {0} /\ l \in Nat /\ f \in Nat /\ f <= l /\ l < f + n
  BY DEF Numbers
<1>1. r.oldest_tail = (f % n) * e /\ DOMAIN r.buf = 0..(n - 1)
  BY ShapeFields
<1>2. q \in f..(f + n - 1)
  BY <1>0
<1>3. SlotsBetween(r, (f % n) * e, (q % n) * e) = {i % n : i \in f..(q - 1)}
  <2>1. f \in Nat
    BY <1>0
  <2> QED BY <1>2, <2>1, BetweenIs
<1> DEFINE x == (f % n) * e
           y == (l % n) * e
           z == (q % n) * e
           m == n * e
           c == r.buf
           gone == {i % n : i \in f..(q - 1)}
           u == lws_ring_update_oldest_tail(r, z)
           b == [s \in 0..(n - 1) |-> IF DestroyElement /\ s \in gone THEN Garbage ELSE c[s]]
<1>4. r = [buflen |-> m, element_len |-> e, head |-> y, oldest_tail |-> x, buf |-> c]
  BY DEF Shape
<1> HIDE DEF x, y, z, m, c, gone, b
<1>5. SlotsBetween(r, r.oldest_tail, z) = gone
  BY <1>1, <1>3 DEF x, z, gone
<1>6. b = [s \in DOMAIN r.buf |-> IF DestroyElement /\ s \in SlotsBetween(r, r.oldest_tail, z)
                                 THEN Garbage ELSE r.buf[s]]
  BY <1>1, <1>5 DEF b, c
<1>7. u = [r EXCEPT !.oldest_tail = z, !.buf = b]
  BY <1>6 DEF lws_ring_update_oldest_tail
<1> HIDE DEF u
<1>8. u = [buflen |-> m, element_len |-> e, head |-> y, oldest_tail |-> z, buf |-> b]
  BY <1>4, <1>7
<1>9. u.buf = b /\ b = [s \in 0..(n - 1) |-> b[s]]
  BY <1>8 DEF b
<1>10. Shape(u, e, n, l, q)
  BY <1>8, <1>9 DEF Shape, m, y, z
<1>11. Numbers(e, n, l, q)
  BY <1>0 DEF Numbers
<1>12. \A s \in 0..(n - 1) : u.buf[s] = IF DestroyElement /\ s \in gone THEN Garbage ELSE c[s]
  BY <1>9 DEF b
<1> QED BY <1>10, <1>11, <1>12 DEF u, z, gone, c

(* Of any users with positions, one has the least.                           *)
LEMMA LeastPosition ==
  ASSUME NEW us, us # {}, NEW pos, \A u \in us : pos[u] \in Nat
  PROVE  \E u \in us : \A v \in us : pos[u] <= pos[v]
<1> DEFINE P == {pos[u] : u \in us}
<1>1. P \subseteq Nat /\ P # {}
  OBVIOUS
<1>2. \E x \in P : \A y \in P : <<y, x>> \notin OpToRel(<, Nat)
  BY <1>1, NatLessThanWellFounded, WFMin
<1>3. PICK x \in P : \A y \in P : <<y, x>> \notin OpToRel(<, Nat)
  BY <1>2
<1>4. \A y \in P : ~(y < x)
  BY <1>1, <1>3 DEF OpToRel
<1>5. PICK u \in us : x = pos[u]
  BY <1>3
<1>6. \A v \in us : pos[u] <= pos[v]
  <2> SUFFICES ASSUME NEW v \in us PROVE pos[u] <= pos[v]
    OBVIOUS
  <2>1. ~(pos[v] < pos[u])
    BY <1>4, <1>5
  <2>2. pos[u] \in Nat /\ pos[v] \in Nat
    OBVIOUS
  <2> QED BY <2>1, <2>2
<1> QED BY <1>6

(* A user with most waiting.                                                 *)
Slowest(r, us, t) ==
  CHOOSE u \in us : \A v \in us : WaitingElements(r, t[u]) >= WaitingElements(r, t[v])

(* It is one at the least position.                                          *)
LEMMA WorstIs ==
  ASSUME NEW r, NEW e, NEW n, NEW l, NEW f, Shape(r, e, n, l, f), Numbers(e, n, l, f),
         NEW us, us # {}, NEW t, NEW pos,
         \A u \in us : pos[u] \in f..l /\ t[u] = (pos[u] % n) * e
  PROVE  /\ Slowest(r, us, t) \in us
         /\ \A v \in us : pos[Slowest(r, us, t)] <= pos[v]
<1>0. e \in Nat \ {0} /\ n \in Nat \ {0} /\ l \in Nat /\ f \in Nat /\ f <= l /\ l < f + n
  BY DEF Numbers
<1>1. \A u \in us : pos[u] \in Nat
  BY <1>0
<1>2. ASSUME NEW u \in us PROVE WaitingElements(r, t[u]) = l - pos[u]
  <2>1. pos[u] \in Nat /\ pos[u] <= l /\ l < pos[u] + n /\ t[u] = (pos[u] % n) * e
    BY <1>0
  <2>2. WaitingElements(r, (pos[u] % n) * e) = l - pos[u]
    BY <2>1, WaitingIs
  <2> QED BY <2>1, <2>2
<1>3. ASSUME NEW u \in us, NEW v \in us
      PROVE  WaitingElements(r, t[u]) >= WaitingElements(r, t[v]) <=> pos[u] <= pos[v]
  <2>1. pos[u] \in Nat /\ pos[v] \in Nat
    BY <1>1
  <2> QED BY <1>0, <1>2, <2>1
<1>4. \E u \in us : \A v \in us : pos[u] <= pos[v]
  BY <1>1, LeastPosition
<1>5. \E u \in us : \A v \in us : WaitingElements(r, t[u]) >= WaitingElements(r, t[v])
  BY <1>3, <1>4
<1> DEFINE w == Slowest(r, us, t)
<1>6. w \in us /\ \A v \in us : WaitingElements(r, t[w]) >= WaitingElements(r, t[v])
  BY <1>5 DEF Slowest
<1> HIDE DEF w
<1>7. w \in us /\ \A v \in us : pos[w] <= pos[v]
  BY <1>3, <1>6
<1> QED BY <1>7 DEF w

-----------------------------------------------------------------------------
(***************************************************************************)
(* The ring r holds what the log lg has from position f on: each element is *)
(* in the slot of its position and, with a destroy_element callback, every  *)
(* other slot is empty.                                                     *)
(***************************************************************************)
Holds(r, e, n, f, lg) ==
  /\ Shape(r, e, n, Len(lg), f)
  /\ Numbers(e, n, Len(lg), f)
  /\ \A i \in f..(Len(lg) - 1) : r.buf[i % n] = lg[i + 1]
  /\ DestroyElement => \A s \in 0..(n - 1) :
       (\A i \in f..(Len(lg) - 1) : i % n # s) => r.buf[s] = Garbage

LEMMA HoldsNumbers ==
  ASSUME NEW r, NEW e, NEW n, NEW f, NEW lg, Holds(r, e, n, f, lg)
  PROVE  /\ e \in Nat \ {0} /\ n \in Nat \ {0} /\ Len(lg) \in Nat /\ f \in Nat
         /\ f <= Len(lg) /\ Len(lg) < f + n
         /\ r.element_len = e /\ r.oldest_tail = (f % n) * e /\ r.head = (Len(lg) % n) * e
         /\ DOMAIN r.buf = 0..(n - 1)
BY ShapeFields DEF Holds, Numbers

(* A new ring holds nothing.                                                 *)
LEMMA CreateHolds ==
  ASSUME NEW e \in Nat \ {0}, NEW n \in Nat \ {0}
  PROVE  Holds(lws_ring_create(e, n), e, n, 0, <<>>)
<1>1. Len(<<>>) = 0
  OBVIOUS
<1>2. \A i \in 0..(0 - 1) : FALSE
  OBVIOUS
<1> QED BY <1>1, <1>2, CreateShape DEF Holds

(***************************************************************************)
(* As long as no more is inserted than fits beside what waits, an insertion *)
(* adds to what the ring holds and overwrites nothing of it.                *)
(***************************************************************************)
LEMMA FillHolds ==
  ASSUME NEW S, NEW r, NEW e, NEW n, NEW f, NEW lg \in Seq(S), Holds(r, e, n, f, lg),
         NEW src \in Seq(S), Len(lg) + Len(src) < f + n
  PROVE  Holds(Fill(r, src), e, n, f, lg \o src)
<1> DEFINE l == Len(lg)
           k == Len(src)
           lh == lg \o src
           u == Fill(r, src)
<1>1. /\ e \in Nat \ {0} /\ n \in Nat \ {0} /\ l \in Nat /\ f \in Nat
      /\ f <= l /\ l < f + n /\ k \in Nat /\ l + k < f + n
  BY HoldsNumbers, LenProperties
<1>2. Len(lh) = l + k /\ \A i \in 1..(l + k) : lh[i] = IF i <= l THEN lg[i] ELSE src[i - l]
  BY ConcatProperties
<1>3. /\ Shape(r, e, n, l, f) /\ Numbers(e, n, l, f)
      /\ \A i \in f..(l - 1) : r.buf[i % n] = lg[i + 1]
      /\ DestroyElement => \A s \in 0..(n - 1) :
           (\A i \in f..(l - 1) : i % n # s) => r.buf[s] = Garbage
  BY DEF Holds
<1>4. Len(src) <= n
  BY <1>1
<1>5. /\ Shape(u, e, n, l + k, f)
      /\ \A i \in 1..k : u.buf[(l + i - 1) % n] = src[i]
      /\ \A s \in 0..(n - 1) :
           (\A i \in 1..k : (l + i - 1) % n # s) => u.buf[s] = r.buf[s]
  BY <1>3, <1>4, FillIs
<1> HIDE DEF l, k, lh, u
<1>6. Numbers(e, n, l + k, f)
  BY <1>1 DEF Numbers
<1>7. ASSUME NEW i \in f..(l + k - 1) PROVE u.buf[i % n] = lh[i + 1]
  <2>0. i \in Nat /\ i % n \in 0..(n - 1)
    <3>1. i \in Nat /\ i \in Int
      BY <1>1
    <3> QED BY <1>1, <3>1, DivMod
  <2>1. CASE i < l
    <3>1. ASSUME NEW j \in 1..k PROVE (l + j - 1) % n # i % n
      <4>1. l + j - 1 \in i..(i + n - 1) /\ l + j - 1 # i
        BY <1>1, <2>0, <2>1
      <4> QED BY <1>1, <2>0, <4>1, Apart
    <3>2. u.buf[i % n] = r.buf[i % n]
      BY <1>5, <2>0, <3>1
    <3>3. r.buf[i % n] = lg[i + 1]
      <4>1. i \in f..(l - 1)
        BY <1>1, <2>1
      <4> QED BY <1>3, <4>1
    <3>4. lh[i + 1] = lg[i + 1]
      BY <1>1, <1>2, <2>0, <2>1
    <3> QED BY <3>2, <3>3, <3>4
  <2>2. CASE ~(i < l)
    <3>1. i - l + 1 \in 1..k /\ l + (i - l + 1) - 1 = i
      BY <1>1, <2>0, <2>2
    <3>2. u.buf[i % n] = src[i - l + 1]
      BY <1>5, <3>1
    <3>3. i + 1 \in 1..(l + k) /\ ~(i + 1 <= l) /\ (i + 1) - l = i - l + 1
      BY <1>1, <2>0, <2>2
    <3>4. lh[i + 1] = src[i - l + 1]
      BY <1>2, <3>3
    <3> QED BY <3>2, <3>4
  <2> QED BY <2>1, <2>2
<1>8. ASSUME DestroyElement, NEW s \in 0..(n - 1), \A i \in f..(l + k - 1) : i % n # s
      PROVE  u.buf[s] = Garbage
  <2>1. \A i \in f..(l - 1) : i % n # s
    <3>1. \A i \in f..(l - 1) : i \in f..(l + k - 1)
      BY <1>1
    <3> QED BY <1>8, <3>1
  <2>2. \A j \in 1..k : (l + j - 1) % n # s
    <3>1. \A j \in 1..k : l + j - 1 \in f..(l + k - 1)
      BY <1>1
    <3> QED BY <1>8, <3>1
  <2> QED BY <1>3, <1>5, <1>8, <2>1, <2>2
<1>9. /\ Shape(u, e, n, Len(lh), f)
      /\ Numbers(e, n, Len(lh), f)
      /\ \A i \in f..(Len(lh) - 1) : u.buf[i % n] = lh[i + 1]
      /\ DestroyElement => \A s \in 0..(n - 1) :
           (\A i \in f..(Len(lh) - 1) : i % n # s) => u.buf[s] = Garbage
  <2>1. Len(lh) = l + k
    BY <1>2
  <2> DEFINE R == f..(Len(lh) - 1)
  <2>2. R = f..(l + k - 1)
    BY <1>1, <2>1
  <2> HIDE DEF R
  <2>3. \A i \in R : u.buf[i % n] = lh[i + 1]
    BY <1>7, <2>2, Zenon
  <2>4. DestroyElement => \A s \in 0..(n - 1) :
          (\A i \in R : i % n # s) => u.buf[s] = Garbage
    BY <1>8, <2>2, Zenon
  <2> QED BY <1>5, <1>6, <2>1, <2>3, <2>4, Zenon DEF R
<1> QED BY <1>9 DEF Holds, lh, u

(***************************************************************************)
(* Moving the oldest tail on to a position that is not past the head gives  *)
(* up what is before it, and nothing else.                                  *)
(***************************************************************************)
LEMMA UpdateHolds ==
  ASSUME NEW r, NEW e, NEW n, NEW f, NEW lg, Holds(r, e, n, f, lg), NEW q \in f..Len(lg)
  PROVE  Holds(lws_ring_update_oldest_tail(r, (q % n) * e), e, n, q, lg)
<1> DEFINE l == Len(lg)
           u == lws_ring_update_oldest_tail(r, (q % n) * e)
           gone == {i % n : i \in f..(q - 1)}
<1>1. /\ e \in Nat \ {0} /\ n \in Nat \ {0} /\ l \in Nat /\ f \in Nat
      /\ f <= l /\ l < f + n
  BY HoldsNumbers
<1>2. /\ Shape(r, e, n, l, f) /\ Numbers(e, n, l, f)
      /\ \A i \in f..(l - 1) : r.buf[i % n] = lg[i + 1]
      /\ DestroyElement => \A s \in 0..(n - 1) :
           (\A i \in f..(l - 1) : i % n # s) => r.buf[s] = Garbage
  BY DEF Holds
<1>3. /\ Shape(u, e, n, l, q)
      /\ Numbers(e, n, l, q)
      /\ \A s \in 0..(n - 1) :
           u.buf[s] = IF DestroyElement /\ s \in gone THEN Garbage ELSE r.buf[s]
  BY <1>2, UpdateIs
<1> HIDE DEF l, u
<1>4. ASSUME NEW i \in q..(l - 1) PROVE u.buf[i % n] = lg[i + 1]
  <2>0. i \in f..(l - 1) /\ i \in Nat /\ q \in Nat /\ q <= i
    BY <1>1
  <2>1. i % n \in 0..(n - 1)
    <3>1. i \in Int
      BY <2>0
    <3> QED BY <1>1, <3>1, DivMod
  <2>2. i % n \notin gone
    <3> SUFFICES ASSUME NEW j \in f..(q - 1), j % n = i % n PROVE FALSE
      OBVIOUS
    <3>1. j \in Nat /\ i \in j..(j + n - 1) /\ i # j
      BY <1>1, <2>0
    <3> QED BY <1>1, <3>1, Apart
  <2>3. u.buf[i % n] = r.buf[i % n]
    BY <1>3, <2>1, <2>2
  <2> QED BY <1>2, <2>0, <2>3
<1>5. ASSUME DestroyElement, NEW s \in 0..(n - 1), \A i \in q..(l - 1) : i % n # s
      PROVE  u.buf[s] = Garbage
  <2>1. CASE s \in gone
    BY <1>3, <1>5, <2>1
  <2>2. CASE s \notin gone
    <3>1. \A i \in f..(l - 1) : i % n # s
      <4> SUFFICES ASSUME NEW i \in f..(l - 1) PROVE i % n # s
        OBVIOUS
      <4>1. i \in f..(q - 1) \/ i \in q..(l - 1)
        BY <1>1
      <4> QED BY <1>5, <2>2, <4>1
    <3> QED BY <1>2, <1>3, <1>5, <2>2, <3>1
  <2> QED BY <2>1, <2>2
<1> QED BY <1>3, <1>4, <1>5 DEF Holds, l, u

(* How much waits for a reader at position p.                                *)
LEMMA WaitingHolds ==
  ASSUME NEW r, NEW e, NEW n, NEW f, NEW lg, Holds(r, e, n, f, lg), NEW p \in f..Len(lg)
  PROVE  WaitingElements(r, (p % n) * e) = Len(lg) - p
<1>1. f \in Nat /\ Len(lg) \in Nat /\ Len(lg) < f + n /\ n \in Nat
  BY HoldsNumbers
<1>2. p \in Nat /\ p <= Len(lg) /\ Len(lg) < p + n
  BY <1>1
<1> QED BY <1>2, WaitingIs DEF Holds

(* What a reader at position p copies out is what comes next in the log.     *)
LEMMA CopyHolds ==
  ASSUME NEW S, NEW r, NEW e, NEW n, NEW f, NEW lg \in Seq(S), Holds(r, e, n, f, lg),
         NEW p \in f..Len(lg), NEW k \in 0..(Len(lg) - p)
  PROVE  CopyOut(r, (p % n) * e, k) = SubSeq(lg, p + 1, p + k)
<1>1. f \in Nat /\ Len(lg) \in Nat
  BY HoldsNumbers
<1>2. p \in Nat /\ k \in Nat /\ p + k <= Len(lg)
  BY <1>1
<1>3. CopyOut(r, (p % n) * e, k) = [i \in 1..k |-> r.buf[(p + i - 1) % n]]
  BY <1>2, CopyIs DEF Holds
<1>4. ASSUME NEW i \in 1..k PROVE r.buf[(p + i - 1) % n] = lg[p + i]
  <2>1. p + i - 1 \in f..(Len(lg) - 1) /\ (p + i - 1) + 1 = p + i
    BY <1>1, <1>2
  <2>2. r.buf[(p + i - 1) % n] = lg[(p + i - 1) + 1]
    BY <2>1 DEF Holds
  <2> QED BY <2>1, <2>2
<1>5. [i \in 1..k |-> r.buf[(p + i - 1) % n]] = [i \in 1..k |-> lg[p + i]]
  BY <1>4
<1>6. SubSeq(lg, p + 1, p + k) = [i \in 1..k |-> lg[p + i]]
  <2>1. /\ SubSeq(lg, p + 1, p + k) \in Seq(S)
        /\ Len(SubSeq(lg, p + 1, p + k)) = k
        /\ \A i \in 1..k : SubSeq(lg, p + 1, p + k)[i] = lg[p + i]
    BY <1>1, <1>2, SubSeqProperties, LenProperties, ElementOfSeq, Z3
  <2> DEFINE t == SubSeq(lg, p + 1, p + k)
  <2> HIDE DEF t
  <2>2. t \in [1..k -> S]
    BY <2>1, LenProperties DEF t
  <2>3. t = [i \in 1..k |-> t[i]]
    BY <2>2
  <2> QED BY <2>1, <2>3 DEF t
<1> QED BY <1>3, <1>5, <1>6

(* Counting what is free.                                                    *)
LEMMA FreeHolds ==
  ASSUME NEW r, NEW e, NEW n, NEW f, NEW lg, Holds(r, e, n, f, lg)
  PROVE  /\ FreeElements(r) \in 0..(n - 1 - (Len(lg) - f))
         /\ \/ FreeElements(r) = n - 1 - (Len(lg) - f)
            \/ e = 1 /\ Len(lg) - f = n - 2 /\ FreeElements(r) = 0
<1> DEFINE l == Len(lg)
<1>1. e \in Nat \ {0} /\ n \in Nat \ {0} /\ l \in Nat /\ f \in Nat /\ f <= l /\ l < f + n
  BY HoldsNumbers
<1>2. FreeElements(r) = IF e = 1 /\ l - f = n - 2 THEN 0 ELSE n - 1 - (l - f)
  BY FreeIs DEF Holds
<1> HIDE DEF l
<1>3. CASE e = 1 /\ l - f = n - 2
  BY <1>1, <1>2, <1>3 DEF l
<1>4. CASE ~(e = 1 /\ l - f = n - 2)
  <2>1. FreeElements(r) = n - 1 - (l - f)
    BY <1>2, <1>4
  <2> QED BY <1>1, <2>1 DEF l
<1> QED BY <1>3, <1>4

(* The slots in use, as CountsAddUp has them.                                *)
LEMMA UsedHolds ==
  ASSUME NEW r, NEW e, NEW n, NEW f, NEW lg, Holds(r, e, n, f, lg)
  PROVE  SlotsBetween(r, r.oldest_tail, r.head) = {i % n : i \in f..(Len(lg) - 1)}
<1>1. /\ n \in Nat \ {0} /\ f \in Nat /\ f <= Len(lg) /\ Len(lg) < f + n /\ Len(lg) \in Nat
      /\ r.oldest_tail = (f % n) * e /\ r.head = (Len(lg) % n) * e
  BY HoldsNumbers
<1>2. Len(lg) \in f..(f + n - 1)
  BY <1>1
<1>3. f \in Nat
  BY <1>1
<1>4. SlotsBetween(r, (f % n) * e, (Len(lg) % n) * e) = {i % n : i \in f..(Len(lg) - 1)}
  BY <1>2, <1>3, BetweenIs DEF Holds
<1> QED BY <1>1, <1>4

(* lws_ring_next_linear_insert_range() promises no more than is free.        *)
LEMMA LinearHolds ==
  ASSUME NEW r, NEW e, NEW n, NEW f, NEW lg, Holds(r, e, n, f, lg)
  PROVE  LinearRange(r) \in Int /\ LinearRange(r) <= FreeElements(r)
<1> DEFINE h == Len(lg) % n
           c == FreeElements(r)
<1>1. e \in Nat \ {0} /\ n \in Nat \ {0} /\ Len(lg) \in Nat /\ f \in Nat /\ r.element_len = e
  BY HoldsNumbers
<1>2. r.head = h * e /\ r.buflen = n * e
  BY ShapeFields DEF Holds
<1>3. h \in Int
  BY <1>1, DivMod
<1>4. c \in Int
  BY <1>1, FreeHolds
<1> HIDE DEF h, c
<1>5. h * e + c * e = (h + c) * e /\ n * e - h * e = (n - h) * e
  BY <1>1, <1>3, <1>4, Scaled
<1>6. (h + c) * e > n * e => h + c > n
  BY <1>1, <1>3, <1>4, Scaled
<1>7. ((n - h) * e) \div e = n - h
  BY <1>1, <1>3, Scaled
<1>8. LinearRange(r) = IF h * e + c * e > n * e THEN (n * e - h * e) \div e ELSE c
  BY <1>1, <1>2 DEF LinearRange, c
<1>9. LinearRange(r) = IF (h + c) * e > n * e THEN n - h ELSE c
  BY <1>5, <1>7, <1>8
<1>10. (LinearRange(r) = n - h /\ h + c > n) \/ LinearRange(r) = c
  BY <1>6, <1>9
<1>11. LinearRange(r) \in Int /\ LinearRange(r) <= c
  BY <1>1, <1>3, <1>4, <1>10
<1> QED BY <1>11 DEF c

-----------------------------------------------------------------------------
(* The position a user has come to.                                          *)
Position(u) == from[u] + Len(got[u])

UserTypes ==
  /\ tail \in [Users -> Int]
  /\ open \in SUBSET Users
  /\ destroyed \in BOOLEAN
  /\ log \in Seq(Elements)
  /\ from \in [Users -> Nat]
  /\ got \in [Users -> Seq(Elements)]

(* A reader is between the oldest element kept and the newest, and its tail  *)
(* is where that element is.                                                 *)
InPlace(u) ==
  /\ Position(u) \in Freed..Len(log)
  /\ u # NullTail => tail[u] = (Position(u) % Count) * ring.element_len

(* The internal tail is used by nobody else, and is the oldest.              *)
NullAlone == NullTail \in open => open = {NullTail} /\ Position(NullTail) = Freed

UsersInv ==
  /\ UserTypes
  /\ ~destroyed => /\ Holds(ring, ring.element_len, Count, Freed, log)
                   /\ \A u \in open : InPlace(u)
                   /\ NullAlone

(* Reads off how much was given up, before and after a step.                 *)
LEMMA FreedIs ==
  ASSUME NEW e, NEW f, Holds(ring, e, Count, f, log), ~destroyed
  PROVE  Freed = f
<1>1. WaitingElements(ring, ring.oldest_tail) = Len(log) - f
  BY OldestWaiting DEF Holds
<1>2. Len(log) \in Nat /\ f \in Nat
  BY HoldsNumbers
<1> QED BY <1>1, <1>2 DEF Freed

LEMMA FreedNext ==
  ASSUME NEW e, NEW f, Holds(ring', e, Count, f, log'), ~destroyed'
  PROVE  Freed' = f
<1>1. WaitingElements(ring', ring'.oldest_tail) = Len(log') - f
  BY OldestWaiting DEF Holds
<1>2. Len(log') \in Nat /\ f \in Nat
  BY HoldsNumbers
<1> QED BY <1>1, <1>2 DEF Freed

(***************************************************************************)
(* What is left to show for a step that does not destroy the ring: what it  *)
(* holds afterwards, and where the readers are.                             *)
(***************************************************************************)
LEMMA AfterStep ==
  ASSUME UsersInv, ~destroyed, UNCHANGED destroyed, UserTypes', NEW f,
         Holds(ring', ring.element_len, Count, f, log'),
         \A u \in open' : /\ Position(u)' \in f..Len(log')
                          /\ u # NullTail =>
                               tail'[u] = (Position(u)' % Count) * ring.element_len,
         NullTail \in open' => open' = {NullTail} /\ Position(NullTail)' = f
  PROVE  UsersInv' /\ Freed' = f
<1>1. ring'.element_len = ring.element_len
  BY HoldsNumbers
<1>2. Freed' = f
  BY FreedNext
<1>3. Holds(ring', ring'.element_len, Count, Freed', log')
  BY <1>1, <1>2
<1>4. \A u \in open' : InPlace(u)'
  BY <1>1, <1>2 DEF InPlace
<1>5. NullAlone'
  BY <1>2 DEF NullAlone
<1> QED BY <1>2, <1>3, <1>4, <1>5 DEF UsersInv

(* What the invariant says in a state in which the ring is there.            *)
LEMMA InState ==
  ASSUME UsersInv, ~destroyed
  PROVE  /\ UserTypes
         /\ Holds(ring, ring.element_len, Count, Freed, log)
         /\ \A u \in open : /\ u \in Users
                            /\ Position(u) \in Freed..Len(log)
                            /\ u # NullTail =>
                                 tail[u] = (Position(u) % Count) * ring.element_len
         /\ NullTail \in open => open = {NullTail} /\ Position(NullTail) = Freed
         /\ ring.element_len \in Nat \ {0} /\ Count \in Nat \ {0}
         /\ Len(log) \in Nat /\ Freed \in Nat
         /\ Freed <= Len(log) /\ Len(log) < Freed + Count
         /\ ring.oldest_tail = (Freed % Count) * ring.element_len
<1>1. Holds(ring, ring.element_len, Count, Freed, log)
  BY DEF UsersInv
<1>2. /\ UserTypes
      /\ \A u \in open : /\ u \in Users
                         /\ Position(u) \in Freed..Len(log)
                         /\ u # NullTail => tail[u] = (Position(u) % Count) * ring.element_len
      /\ NullTail \in open => open = {NullTail} /\ Position(NullTail) = Freed
  BY DEF UsersInv, InPlace, NullAlone, UserTypes
<1> QED BY <1>1, <1>2, HoldsNumbers

(* A batch is a sequence of elements.                                        *)
LEMMA BatchType ==
  ASSUME NEW s \in Batches
  PROVE  s \in Seq(Elements) /\ Len(s) \in Nat
<1>1. PICK n \in 0..MaxBatch : s \in [1..n -> Elements]
  BY DEF Batches
<1>2. n \in Nat
  BY UsersAssumption
<1>3. s \in Seq(Elements)
  BY <1>1, <1>2
<1> QED BY <1>3, LenProperties

(***************************************************************************)
(* Elements src, no more than there is room for, go into the buffer: for    *)
(* lws_ring_insert() as for writing into the buffer directly.               *)
(***************************************************************************)
LEMMA Grows ==
  ASSUME UsersInv, ~destroyed, NEW src \in Seq(Elements), Len(src) <= FreeElements(ring),
         ring' = Fill(ring, src), log' = log \o src,
         UNCHANGED <<tail, open, destroyed, from, got>>
  PROVE  /\ UsersInv'
         /\ Freed' = Freed
         /\ Len(src) \in Nat /\ Len(src) <= Count - 1 - (Len(log) - Freed)
<1>1. /\ UserTypes
      /\ Holds(ring, ring.element_len, Count, Freed, log)
      /\ \A u \in open : /\ u \in Users
                         /\ Position(u) \in Freed..Len(log)
                         /\ u # NullTail => tail[u] = (Position(u) % Count) * ring.element_len
      /\ NullTail \in open => open = {NullTail} /\ Position(NullTail) = Freed
  BY InState
<1>2. /\ Count \in Nat \ {0} /\ Len(log) \in Nat /\ Freed \in Nat
      /\ Freed <= Len(log) /\ Len(log) < Freed + Count
  BY InState
<1>3. FreeElements(ring) \in 0..(Count - 1 - (Len(log) - Freed))
  BY <1>1, FreeHolds
<1>4. Len(src) \in Nat
  BY LenProperties
<1>5. Len(src) <= Count - 1 - (Len(log) - Freed) /\ Len(log) + Len(src) < Freed + Count
  BY <1>2, <1>3, <1>4
<1>6. log \in Seq(Elements) /\ log' \in Seq(Elements) /\ Len(log') = Len(log) + Len(src)
  BY <1>1, ConcatProperties DEF UserTypes
<1>7. Holds(ring', ring.element_len, Count, Freed, log')
  BY <1>1, <1>5, <1>6, FillHolds
<1>8. UserTypes'
  BY <1>1, <1>6 DEF UserTypes
<1>9. \A u \in open' : /\ Position(u)' \in Freed..Len(log')
                       /\ u # NullTail => tail'[u] = (Position(u)' % Count) * ring.element_len
  <2> SUFFICES ASSUME NEW u \in open
               PROVE  /\ Position(u)' \in Freed..Len(log')
                      /\ u # NullTail => tail'[u] = (Position(u)' % Count) * ring.element_len
    OBVIOUS
  <2>1. Position(u)' = Position(u) /\ tail' = tail
    BY DEF Position
  <2>2. Position(u) \in Freed..Len(log')
    <3>1. Position(u) \in Freed..Len(log)
      BY <1>1
    <3> QED BY <1>2, <1>4, <1>6, <3>1
  <2> QED BY <1>1, <2>1, <2>2
<1>10. NullTail \in open' => open' = {NullTail} /\ Position(NullTail)' = Freed
  BY <1>1 DEF Position
<1>11. UsersInv' /\ Freed' = Freed
  BY <1>7, <1>8, <1>9, <1>10, AfterStep
<1> QED BY <1>4, <1>5, <1>11

(* lws_ring_insert() takes what fits, and the queue does.                    *)
LEMMA InsertStep ==
  ASSUME UsersInv, ~destroyed, NEW s \in Batches, Insert(s)
  PROVE  UsersInv' /\ Fifo!Insert(s) /\ UNCHANGED destroyed
<1> DEFINE k == Inserted(ring, s)
           src == SubSeq(s, 1, k)
<1>1. s \in Seq(Elements) /\ Len(s) \in Nat
  BY BatchType
<1>2. /\ ring' = Fill(ring, src) /\ log' = log \o src
      /\ UNCHANGED <<tail, open, destroyed, from, got>>
  BY DEF Insert, lws_ring_insert
<1>3. /\ Count \in Nat \ {0} /\ Len(log) \in Nat /\ Freed \in Nat
      /\ Freed <= Len(log) /\ Len(log) < Freed + Count
      /\ Holds(ring, ring.element_len, Count, Freed, log)
  BY InState
<1>4. /\ FreeElements(ring) \in 0..(Count - 1 - (Len(log) - Freed))
      /\ \/ FreeElements(ring) = Count - 1 - (Len(log) - Freed)
         \/ Len(log) - Freed = Count - 2 /\ FreeElements(ring) = 0
  BY <1>3, FreeHolds
<1>5. k \in 0..Len(s) /\ k <= FreeElements(ring) /\ (k = FreeElements(ring) \/ k = Len(s))
  BY <1>1, <1>3, <1>4 DEF Inserted, MinOf
<1> HIDE DEF k
<1>6. src \in Seq(Elements) /\ Len(src) = k
  BY <1>1, <1>5, SubSeqProperties, LenProperties, ElementOfSeq, Z3
<1> HIDE DEF src
<1>7. UsersInv' /\ Freed' = Freed /\ k <= Count - 1 - (Len(log) - Freed)
  BY <1>2, <1>5, <1>6, Grows
<1>8. Count - 1 - (Len(log) - Freed) > 1 /\ s # <<>> => k > 0
  <2>1. s # <<>> => Len(s) > 0
    BY <1>1, EmptySeq
  <2> QED BY <1>3, <1>4, <1>5, <2>1
<1>9. Fifo!Insert(s)
  BY <1>2, <1>5, <1>7, <1>8 DEF Fifo!Insert, Fifo!Room, src
<1> QED BY <1>2, <1>7, <1>9

(* Writing into the buffer up to the wrap inserts as well.                   *)
LEMMA LinearInsertStep ==
  ASSUME UsersInv, ~destroyed, NEW s \in Batches, LinearInsert(s)
  PROVE  UsersInv' /\ Fifo!Insert(s) /\ UNCHANGED destroyed
<1>1. s \in Seq(Elements) /\ Len(s) \in Nat
  BY BatchType
<1>2. /\ ring' = Fill(ring, s) /\ log' = log \o s /\ Len(s) \in 1..LinearRange(ring)
      /\ UNCHANGED <<tail, open, destroyed, from, got>>
  BY DEF LinearInsert
<1>3. /\ Count \in Nat \ {0} /\ Len(log) \in Nat /\ Freed \in Nat
      /\ Holds(ring, ring.element_len, Count, Freed, log)
  BY InState
<1>4. FreeElements(ring) \in 0..(Count - 1 - (Len(log) - Freed))
  BY <1>3, FreeHolds
<1>5. LinearRange(ring) \in Int /\ LinearRange(ring) <= FreeElements(ring)
  BY <1>3, LinearHolds
<1>6. Len(s) <= FreeElements(ring) /\ Len(s) > 0
  BY <1>1, <1>2, <1>3, <1>4, <1>5
<1>7. UsersInv' /\ Freed' = Freed /\ Len(s) <= Count - 1 - (Len(log) - Freed)
  BY <1>1, <1>2, <1>6, Grows
<1>8. SubSeq(s, 1, Len(s)) = s /\ Len(s) \in 0..Len(s)
  BY <1>1, SubSeqFull
<1>9. Fifo!Insert(s)
  BY <1>2, <1>6, <1>7, <1>8 DEF Fifo!Insert, Fifo!Room
<1> QED BY <1>2, <1>7, <1>9

(* A user comes to the oldest element kept.                                  *)
LEMMA JoinStep ==
  ASSUME UsersInv, ~destroyed, NEW r \in Users, Join(r)
  PROVE  UsersInv' /\ Fifo!Open(r) /\ UNCHANGED destroyed
<1>1. /\ UserTypes
      /\ Holds(ring, ring.element_len, Count, Freed, log)
      /\ \A u \in open : /\ u \in Users
                         /\ Position(u) \in Freed..Len(log)
                         /\ u # NullTail => tail[u] = (Position(u) % Count) * ring.element_len
      /\ Count \in Nat \ {0} /\ Len(log) \in Nat /\ Freed \in Nat /\ Freed <= Len(log)
      /\ ring.oldest_tail = (Freed % Count) * ring.element_len
      /\ ring.element_len \in Nat \ {0}
  BY InState
<1>2. /\ r \notin open /\ NullTail \notin open /\ (r = NullTail => open = {})
      /\ open' = open \cup {r}
      /\ tail' = [tail EXCEPT ![r] = ring.oldest_tail]
      /\ from' = [from EXCEPT ![r] = Freed]
      /\ got' = [got EXCEPT ![r] = <<>>]
      /\ UNCHANGED <<ring, destroyed, log>>
  BY DEF Join
<1>3. ring.oldest_tail \in Int
  <2>1. Freed % Count \in Int
    BY <1>1, DivMod
  <2> QED BY <1>1, <2>1
<1>4. UserTypes'
  BY <1>1, <1>2, <1>3 DEF UserTypes
<1>5. /\ Position(r)' = Freed /\ tail'[r] = (Freed % Count) * ring.element_len
      /\ \A u \in open : Position(u)' = Position(u) /\ tail'[u] = tail[u]
  <2>1. from'[r] = Freed /\ got'[r] = <<>> /\ Len(<<>>) = 0
    BY <1>1, <1>2 DEF UserTypes
  <2>2. Position(r)' = Freed
    BY <1>1, <2>1 DEF Position
  <2>3. tail'[r] = (Freed % Count) * ring.element_len
    BY <1>1, <1>2 DEF UserTypes
  <2>4. ASSUME NEW u \in open PROVE Position(u)' = Position(u) /\ tail'[u] = tail[u]
    <3>1. u # r
      BY <1>2
    <3> QED BY <1>1, <1>2, <3>1 DEF UserTypes, Position
  <2> QED BY <2>2, <2>3, <2>4
<1>6. \A u \in open' : /\ Position(u)' \in Freed..Len(log')
                       /\ u # NullTail => tail'[u] = (Position(u)' % Count) * ring.element_len
  <2>1. log' = log /\ Freed \in Freed..Len(log)
    BY <1>1, <1>2
  <2> QED BY <1>1, <1>2, <1>5, <2>1
<1>7. NullTail \in open' => open' = {NullTail} /\ Position(NullTail)' = Freed
  BY <1>2, <1>5
<1>8. UNCHANGED destroyed /\ Holds(ring', ring.element_len, Count, Freed, log')
  BY <1>1, <1>2
<1>9. UsersInv' /\ Freed' = Freed
  BY <1>4, <1>6, <1>7, <1>8, AfterStep
<1> QED BY <1>2, <1>9 DEF Fifo!Open

(***************************************************************************)
(* lws_ring_consume() with a tail where position p is: how many it takes,   *)
(* what it copies out and where that leaves the reader.                     *)
(***************************************************************************)
LEMMA Takes ==
  ASSUME UsersInv, ~destroyed, NEW r \in open, NEW n \in Nat, NEW t,
         t = (Position(r) % Count) * ring.element_len,
         got' = [got EXCEPT ![r] = @ \o CopyOut(ring, t, Consumed(ring, t, n))], from' = from
  PROVE  LET k == Consumed(ring, t, n)
         IN /\ k = IF n <= Len(log) - Position(r) THEN n ELSE Len(log) - Position(r)
            /\ k \in Nat
            /\ got' = [got EXCEPT ![r] = @ \o SubSeq(log, Position(r) + 1, Position(r) + k)]
            /\ got' \in [Users -> Seq(Elements)]
            /\ Position(r)' = Position(r) + k
            /\ Position(r) + k \in Freed..Len(log)
            /\ After(ring, t, k) = ((Position(r) + k) % Count) * ring.element_len
            /\ After(ring, t, k) \in Int
            /\ \A u \in open \ {r} : Position(u)' = Position(u)
<1> DEFINE k == Consumed(ring, t, n)
           p == Position(r)
           e == ring.element_len
<1>1. /\ UserTypes
      /\ Holds(ring, e, Count, Freed, log)
      /\ r \in Users /\ p \in Freed..Len(log)
      /\ e \in Nat \ {0} /\ Count \in Nat \ {0} /\ Len(log) \in Nat /\ Freed \in Nat
  BY InState
<1>2. p \in Nat /\ p <= Len(log) /\ p \in Int
  BY <1>1
<1>3. WaitingElements(ring, t) = Len(log) - p
  BY <1>1, WaitingHolds
<1>4. k = IF n <= Len(log) - p THEN n ELSE Len(log) - p
  <2>1. k = IF Len(log) - p <= n THEN Len(log) - p ELSE n
    BY <1>3 DEF Consumed, MinOf
  <2> HIDE DEF k, p
  <2> QED BY <1>1, <1>2, <2>1
<1> HIDE DEF k, p, e
<1>5. k \in 0..(Len(log) - p) /\ k \in Nat /\ k \in Int
  BY <1>1, <1>2, <1>4
<1>6. log \in Seq(Elements) /\ got[r] \in Seq(Elements)
  BY <1>1 DEF UserTypes
<1>7. t = (p % Count) * e
  BY DEF p, e
<1>8. CopyOut(ring, t, k) = SubSeq(log, p + 1, p + k)
  <2>1. log \in Seq(Elements)
    BY <1>6
  <2>2. Holds(ring, e, Count, Freed, log)
    BY <1>1
  <2>3. p \in Freed..Len(log)
    BY <1>1
  <2>4. k \in 0..(Len(log) - p)
    BY <1>5
  <2> QED BY <1>7, <2>1, <2>2, <2>3, <2>4, CopyHolds
<1>9. SubSeq(log, p + 1, p + k) \in Seq(Elements) /\ Len(SubSeq(log, p + 1, p + k)) = k
  <2>1. \A i \in (p + 1)..(p + k) : log[i] \in Elements
    <3>1. \A i \in (p + 1)..(p + k) : i \in 1..Len(log)
      BY <1>1, <1>2, <1>5
    <3> QED BY <1>6, <3>1, ElementOfSeq
  <2> DEFINE a == p + 1
             b == p + k
  <2>2. a \in Int /\ b \in Int /\ \A i \in a..b : log[i] \in Elements
    BY <1>2, <1>5, <2>1
  <2> HIDE DEF a, b
  <2>3. SubSeq(log, a, b) \in Seq(Elements) /\ Len(SubSeq(log, a, b)) = IF a <= b THEN b - a + 1 ELSE 0
    BY <2>2, SubSeqProperties
  <2>4. (IF a <= b THEN b - a + 1 ELSE 0) = k
    BY <1>2, <1>5 DEF a, b
  <2> QED BY <2>3, <2>4 DEF a, b
<1>10. got' = [got EXCEPT ![r] = @ \o SubSeq(log, p + 1, p + k)]
  BY <1>8 DEF k
<1>11. got'[r] \in Seq(Elements) /\ Len(got'[r]) = Len(got[r]) + k
  <2>1. got'[r] = got[r] \o SubSeq(log, p + 1, p + k)
    BY <1>1, <1>10 DEF UserTypes
  <2> DEFINE x == SubSeq(log, p + 1, p + k)
  <2>2. x \in Seq(Elements) /\ Len(x) = k /\ got'[r] = got[r] \o x
    BY <1>9, <2>1
  <2> HIDE DEF x
  <2>3. got[r] \o x \in Seq(Elements) /\ Len(got[r] \o x) = Len(got[r]) + Len(x)
    BY <1>6, <2>2, ConcatProperties
  <2> QED BY <2>2, <2>3
<1>12. got' \in [Users -> Seq(Elements)] /\ \A u \in Users \ {r} : got'[u] = got[u]
  BY <1>1, <1>10, <1>11 DEF UserTypes
<1>13. Position(r)' = p + k
  <2>1. from[r] \in Nat /\ Len(got[r]) \in Nat
    BY <1>1, <1>6, LenProperties DEF UserTypes
  <2>2. Position(r)' = from[r] + (Len(got[r]) + k)
    BY <1>11 DEF Position
  <2> QED BY <1>5, <2>1, <2>2 DEF p, Position
<1>14. p + k \in Freed..Len(log)
  BY <1>1, <1>2, <1>5
<1>15. After(ring, t, k) = ((p + k) % Count) * e
  <2>1. Shape(ring, e, Count, Len(log), Freed) /\ Numbers(e, Count, Len(log), Freed)
    BY <1>1 DEF Holds
  <2>2. p \in Int
    BY <1>2
  <2>3. k \in Int
    BY <1>5
  <2> QED BY <1>7, <2>1, <2>2, <2>3, AfterIs
<1>16. After(ring, t, k) \in Int
  <2>1. p + k \in Int
    BY <1>2, <1>5
  <2>2. (p + k) % Count \in Int
    BY <1>1, <2>1, DivMod
  <2> QED BY <1>1, <1>15, <2>2
<1>17. \A u \in open \ {r} : Position(u)' = Position(u)
  BY <1>1, <1>12 DEF UserTypes, Position
<1> QED BY <1>4, <1>5, <1>10, <1>12, <1>13, <1>14, <1>15, <1>16, <1>17 DEF k, p, e

(* The worst tail is that of a reader behind whom nobody is.                 *)
LEMMA WorstOf ==
  ASSUME UsersInv, ~destroyed, NEW us, us # {}, NEW t, NEW pos,
         \A u \in us : pos[u] \in Freed..Len(log) /\ t[u] = (pos[u] % Count) * ring.element_len
  PROVE  \E w \in us : /\ Worst(us, t) = (pos[w] % Count) * ring.element_len
                       /\ \A v \in us : pos[w] <= pos[v]
<1> DEFINE w == Slowest(ring, us, t)
           e == ring.element_len
           l == Len(log)
           f == Freed
<1>1. Shape(ring, e, Count, l, f) /\ Numbers(e, Count, l, f)
  BY InState DEF Holds
<1>2. w \in us /\ \A v \in us : pos[w] <= pos[v]
  <2>1. \A u \in us : pos[u] \in f..l /\ t[u] = (pos[u] % Count) * e
    OBVIOUS
  <2> HIDE DEF e, l, f
  <2> QED BY <1>1, <2>1, WorstIs
<1>3. Worst(us, t) = t[w]
  BY DEF Worst, Slowest
<1> HIDE DEF w
<1> QED BY <1>2, <1>3

(***************************************************************************)
(* The oldest tail is moved to the worst of those of the users us, whose    *)
(* positions are pos and whose tails are t: what is given up was behind     *)
(* all of them.                                                             *)
(***************************************************************************)
LEMMA OldestMoves ==
  ASSUME UsersInv, ~destroyed, NEW us, us # {}, NEW t, NEW pos,
         \A u \in us : pos[u] \in Freed..Len(log) /\ t[u] = (pos[u] % Count) * ring.element_len
  PROVE  \E f \in Freed..Len(log) :
           /\ Holds(lws_ring_update_oldest_tail(ring, Worst(us, t)), ring.element_len,
                    Count, f, log)
           /\ \A u \in us : pos[u] \in f..Len(log)
<1>1. PICK w \in us : /\ Worst(us, t) = (pos[w] % Count) * ring.element_len
                     /\ \A v \in us : pos[w] <= pos[v]
  BY WorstOf
<1>2. /\ Holds(ring, ring.element_len, Count, Freed, log)
      /\ Freed \in Nat /\ Len(log) \in Nat
  BY InState
<1>3. pos[w] \in Freed..Len(log)
  OBVIOUS
<1>4. Holds(lws_ring_update_oldest_tail(ring, (pos[w] % Count) * ring.element_len),
            ring.element_len, Count, pos[w], log)
  BY <1>2, <1>3, UpdateHolds
<1>5. ASSUME NEW u \in us PROVE pos[u] \in pos[w]..Len(log)
  <2>1. pos[u] \in Freed..Len(log) /\ pos[w] <= pos[u]
    BY <1>1
  <2> QED BY <1>2, <1>3, <2>1
<1> QED BY <1>1, <1>3, <1>4, <1>5

(* A reader consumes, and who was at the oldest tail moves it on.            *)
LEMMA ConsumeStep ==
  ASSUME UsersInv, ~destroyed, NEW r \in Users, NEW n \in 1..MaxBatch, Consume(r, n)
  PROVE  UsersInv' /\ Fifo!Read(r, n) /\ UNCHANGED destroyed
<1> DEFINE k == Consumed(ring, tail[r], n)
           e == ring.element_len
           pos == [u \in open |-> IF u = r THEN Position(r) + k ELSE Position(u)]
<1>1. /\ r \in open /\ r # NullTail
      /\ tail' = [tail EXCEPT ![r] = After(ring, tail[r], k)]
      /\ got' = [got EXCEPT ![r] = @ \o CopyOut(ring, tail[r], k)]
      /\ ring' = AfterConsume(r, tail')
      /\ UNCHANGED <<open, destroyed, log, from>>
  <2>1. r \in open \ {NullTail} /\ tail \in [Users -> Int]
    BY DEF Consume, UsersInv, UserTypes
  <2> QED BY <2>1 DEF Consume
<1>2. /\ UserTypes
      /\ \A u \in open : /\ u \in Users
                         /\ Position(u) \in Freed..Len(log)
                         /\ u # NullTail => tail[u] = (Position(u) % Count) * e
      /\ NullTail \in open => open = {NullTail}
      /\ Len(log) \in Nat /\ Freed \in Nat
      /\ Holds(ring, e, Count, Freed, log)
  BY InState
<1>3. n \in Nat
  BY UsersAssumption
<1>4. tail[r] = (Position(r) % Count) * e
  BY <1>1, <1>2
<1>5. /\ k = IF n <= Len(log) - Position(r) THEN n ELSE Len(log) - Position(r)
      /\ got' = [got EXCEPT ![r] = @ \o SubSeq(log, Position(r) + 1, Position(r) + k)]
      /\ got' \in [Users -> Seq(Elements)]
      /\ Position(r)' = Position(r) + k
      /\ Position(r) + k \in Freed..Len(log)
      /\ After(ring, tail[r], k) = ((Position(r) + k) % Count) * e
      /\ After(ring, tail[r], k) \in Int
      /\ \A u \in open \ {r} : Position(u)' = Position(u)
  BY <1>1, <1>3, <1>4, Takes
<1> HIDE DEF k, e, pos
<1>6. UserTypes'
  BY <1>1, <1>2, <1>5 DEF UserTypes
<1>7. ASSUME NEW u \in open
      PROVE  /\ u # NullTail
             /\ pos[u] = Position(u)'
             /\ pos[u] \in Freed..Len(log)
             /\ tail'[u] = (pos[u] % Count) * e
  <2>1. u # NullTail
    BY <1>1, <1>2
  <2>2. CASE u = r
    <3>1. tail'[r] = After(ring, tail[r], k)
      BY <1>1, <1>2 DEF UserTypes
    <3>2. pos[r] = Position(r) + k
      BY <1>1 DEF pos
    <3> QED BY <1>5, <2>1, <2>2, <3>1, <3>2
  <2>3. CASE u # r
    <3>1. tail'[u] = tail[u] /\ pos[u] = Position(u)
      BY <1>1, <1>2, <2>3 DEF UserTypes, pos
    <3> QED BY <1>2, <1>5, <2>1, <2>3, <3>1
  <2> QED BY <2>2, <2>3
<1>8. \E f \in Freed..Len(log) : /\ Holds(ring', e, Count, f, log)
                                /\ \A u \in open : pos[u] \in f..Len(log)
  <2>1. CASE tail[r] = ring.oldest_tail
    <3>1. ring' = lws_ring_update_oldest_tail(ring, Worst(open, tail'))
      BY <1>1, <2>1 DEF AfterConsume
    <3>2. open # {} /\ \A u \in open : /\ pos[u] \in Freed..Len(log)
                                       /\ tail'[u] = (pos[u] % Count) * ring.element_len
      BY <1>1, <1>7 DEF e
    <3>3. \E f \in Freed..Len(log) :
            /\ Holds(lws_ring_update_oldest_tail(ring, Worst(open, tail')), ring.element_len,
                     Count, f, log)
            /\ \A u \in open : pos[u] \in f..Len(log)
      BY <3>2, OldestMoves
    <3> QED BY <3>1, <3>3 DEF e
  <2>2. CASE tail[r] # ring.oldest_tail
    <3>1. ring' = ring
      BY <1>1, <2>2 DEF AfterConsume
    <3>2. Freed \in Freed..Len(log)
      BY <1>2, HoldsNumbers
    <3> QED BY <1>2, <1>7, <3>1, <3>2
  <2> QED BY <2>1, <2>2
<1>9. PICK f \in Freed..Len(log) : /\ Holds(ring', e, Count, f, log)
                                  /\ \A u \in open : pos[u] \in f..Len(log)
  BY <1>8
<1>10. UsersInv' /\ Freed' = f
  <2>1. \A u \in open' : /\ Position(u)' \in f..Len(log')
                         /\ u # NullTail => tail'[u] = (Position(u)' % Count) * ring.element_len
    BY <1>1, <1>7, <1>9 DEF e
  <2>2. NullTail \notin open'
    BY <1>1, <1>7
  <2>3. UNCHANGED destroyed /\ Holds(ring', ring.element_len, Count, f, log')
    BY <1>1, <1>9 DEF e
  <2> QED BY <1>6, <2>1, <2>2, <2>3, AfterStep
<1>11. Fifo!Reclaim
  <2>1. \A u \in open' : Freed' <= Position(u)'
    BY <1>1, <1>2, <1>7, <1>9, <1>10
  <2>2. \A u \in open' : Fifo!Pos(u)' = Position(u)'
    BY DEF Fifo!Pos, Position
  <2>3. Freed' \in Freed..Len(log')
    BY <1>1, <1>9, <1>10
  <2> QED BY <2>1, <2>2, <2>3 DEF Fifo!Reclaim
<1>12. Fifo!Read(r, n)
  <2>1. Fifo!Pos(r) = Position(r)
    BY DEF Fifo!Pos, Position
  <2> QED BY <1>1, <1>5, <1>11, <2>1 DEF Fifo!Read
<1> QED BY <1>1, <1>10, <1>12

(* The user who passes NULL consumes: the oldest tail is its own.            *)
LEMMA ConsumeSingleStep ==
  ASSUME UsersInv, ~destroyed, NEW n \in 1..MaxBatch, ConsumeSingle(n)
  PROVE  UsersInv' /\ Fifo!Read(NullTail, n) /\ UNCHANGED destroyed
<1> DEFINE t == ring.oldest_tail
           k == Consumed(ring, t, n)
           e == ring.element_len
           q == Position(NullTail) + k
<1>1. /\ NullTail \in open
      /\ got' = [got EXCEPT ![NullTail] = @ \o CopyOut(ring, t, k)]
      /\ ring' = lws_ring_update_oldest_tail(ring, After(ring, t, k))
      /\ UNCHANGED <<tail, open, destroyed, log, from>>
  BY DEF ConsumeSingle
<1>2. /\ UserTypes
      /\ open = {NullTail} /\ Position(NullTail) = Freed
      /\ Len(log) \in Nat /\ Freed \in Nat
      /\ Holds(ring, e, Count, Freed, log)
      /\ t = (Position(NullTail) % Count) * e
  BY <1>1, InState
<1>3. n \in Nat
  BY UsersAssumption
<1>4. /\ k = IF n <= Len(log) - Position(NullTail) THEN n ELSE Len(log) - Position(NullTail)
      /\ got' = [got EXCEPT ![NullTail] = @ \o SubSeq(log, Position(NullTail) + 1, q)]
      /\ got' \in [Users -> Seq(Elements)]
      /\ Position(NullTail)' = q
      /\ q \in Freed..Len(log)
      /\ After(ring, t, k) = (q % Count) * e
  BY <1>1, <1>2, <1>3, Takes
<1> HIDE DEF t, k, e, q
<1>5. Holds(ring', e, Count, q, log)
  <2>1. ring' = lws_ring_update_oldest_tail(ring, (q % Count) * e)
    BY <1>1, <1>4
  <2>2. q \in Freed..Len(log)
    BY <1>4
  <2> QED BY <1>2, <2>1, <2>2, UpdateHolds
<1>6. UserTypes'
  BY <1>1, <1>2, <1>4 DEF UserTypes
<1>7. UsersInv' /\ Freed' = q
  <2>1. q \in q..Len(log)
    BY <1>2, <1>4
  <2>2. \A u \in open' : /\ Position(u)' \in q..Len(log')
                         /\ u # NullTail => tail'[u] = (Position(u)' % Count) * ring.element_len
    BY <1>1, <1>2, <1>4, <2>1
  <2>3. open' = {NullTail} /\ Position(NullTail)' = q
    BY <1>1, <1>2, <1>4
  <2>4. UNCHANGED destroyed /\ Holds(ring', ring.element_len, Count, q, log')
    BY <1>1, <1>5 DEF e
  <2> QED BY <1>6, <2>2, <2>3, <2>4, AfterStep
<1>8. Fifo!Reclaim
  <2>1. \A u \in open' : Fifo!Pos(u)' = q
    BY <1>1, <1>2, <1>4 DEF Fifo!Pos, Position
  <2>2. q \in Int /\ log' = log
    BY <1>1, <1>2, <1>4
  <2> QED BY <1>4, <1>7, <2>1, <2>2 DEF Fifo!Reclaim
<1>9. Fifo!Read(NullTail, n)
  <2>1. Fifo!Pos(NullTail) = Position(NullTail)
    BY DEF Fifo!Pos, Position
  <2> QED BY <1>1, <1>4, <1>8, <2>1 DEF Fifo!Read, q
<1> QED BY <1>1, <1>7, <1>9

(* A user goes, and the oldest tail is that of the worst who stays.          *)
LEMMA LeaveStep ==
  ASSUME UsersInv, ~destroyed, NEW r \in Users, Leave(r)
  PROVE  UsersInv' /\ Fifo!Leave(r) /\ UNCHANGED destroyed
<1> DEFINE e == ring.element_len
           pos == [u \in open |-> Position(u)]
<1>1. /\ r \in open /\ open' = open \ {r}
      /\ ring' = IF r = NullTail \/ open' = {} THEN ring
                 ELSE lws_ring_update_oldest_tail(ring, Worst(open', tail))
      /\ UNCHANGED <<tail, destroyed, log, from, got>>
  BY DEF Leave
<1>2. /\ UserTypes
      /\ \A u \in open : /\ u \in Users
                         /\ Position(u) \in Freed..Len(log)
                         /\ u # NullTail => tail[u] = (Position(u) % Count) * e
      /\ NullTail \in open => open = {NullTail}
      /\ Len(log) \in Nat /\ Freed \in Nat /\ Freed <= Len(log)
      /\ Holds(ring, e, Count, Freed, log)
  BY InState
<1>3. \A u : Position(u)' = Position(u)
  BY <1>1 DEF Position
<1>4. ASSUME NEW u \in open'
      PROVE  /\ u # NullTail /\ r # NullTail
             /\ pos[u] = Position(u)
             /\ pos[u] \in Freed..Len(log)
             /\ tail[u] = (pos[u] % Count) * e
  <2>1. u \in open /\ u # r
    BY <1>1
  <2>2. u # NullTail /\ r # NullTail
    BY <1>1, <1>2, <2>1
  <2> QED BY <1>2, <2>1, <2>2
<1> HIDE DEF e, pos
<1>5. \E f \in Freed..Len(log) : /\ Holds(ring', e, Count, f, log)
                                /\ \A u \in open' : pos[u] \in f..Len(log)
  <2>1. CASE open' = {}
    <3>1. ring' = ring /\ Freed \in Freed..Len(log)
      BY <1>1, <1>2, <2>1
    <3> QED BY <1>2, <2>1, <3>1
  <2>2. CASE open' # {}
    <3>1. ring' = lws_ring_update_oldest_tail(ring, Worst(open', tail))
      BY <1>1, <1>4, <2>2
    <3>2. \A u \in open' : /\ pos[u] \in Freed..Len(log)
                           /\ tail[u] = (pos[u] % Count) * ring.element_len
      BY <1>4 DEF e
    <3>3. \E f \in Freed..Len(log) :
            /\ Holds(lws_ring_update_oldest_tail(ring, Worst(open', tail)), ring.element_len,
                     Count, f, log)
            /\ \A u \in open' : pos[u] \in f..Len(log)
      BY <2>2, <3>2, OldestMoves
    <3> QED BY <3>1, <3>3 DEF e
  <2> QED BY <2>1, <2>2
<1>6. PICK f \in Freed..Len(log) : /\ Holds(ring', e, Count, f, log)
                                  /\ \A u \in open' : pos[u] \in f..Len(log)
  BY <1>5
<1>7. UserTypes'
  BY <1>1, <1>2 DEF UserTypes
<1>8. UsersInv' /\ Freed' = f
  <2>1. \A u \in open' : /\ Position(u)' \in f..Len(log')
                         /\ u # NullTail => tail'[u] = (Position(u)' % Count) * ring.element_len
    BY <1>1, <1>3, <1>4, <1>6 DEF e
  <2>2. NullTail \notin open'
    BY <1>4
  <2>3. UNCHANGED destroyed /\ Holds(ring', ring.element_len, Count, f, log')
    BY <1>1, <1>6 DEF e
  <2> QED BY <1>7, <2>1, <2>2, <2>3, AfterStep
<1>9. Fifo!Reclaim
  <2>1. ASSUME NEW u \in open' PROVE Freed' <= Fifo!Pos(u)'
    <3>1. Fifo!Pos(u)' = pos[u]
      BY <1>3, <1>4 DEF Fifo!Pos, Position
    <3> QED BY <1>2, <1>6, <1>8, <3>1
  <2>2. Freed' \in Freed..Len(log')
    BY <1>1, <1>6, <1>8
  <2> QED BY <2>1, <2>2 DEF Fifo!Reclaim
<1> QED BY <1>1, <1>8, <1>9 DEF Fifo!Leave

(* The ring is destroyed with all that is left.                              *)
LEMMA DestroyStep ==
  ASSUME UsersInv, ~destroyed, Destroy
  PROVE  UsersInv' /\ Fifo!Destroy
<1>1. destroyed' = TRUE /\ open' = {} /\ UNCHANGED <<tail, log, from, got>>
  BY DEF Destroy
<1>2. Freed' = Len(log)
  BY <1>1 DEF Freed
<1>3. UserTypes'
  BY <1>1 DEF UsersInv, UserTypes
<1> QED BY <1>1, <1>2, <1>3 DEF UsersInv, Fifo!Destroy

(* A ring is created with nobody reading it.                                 *)
LEMMA UsersInit == Init => UsersInv /\ Fifo!Init
<1> SUFFICES ASSUME Init PROVE UsersInv /\ Fifo!Init
  OBVIOUS
<1>1. PICK len \in ElementLens : ring = lws_ring_create(len, Count)
  BY DEF Init
<1>2. len \in Nat \ {0} /\ Count \in Nat \ {0}
  BY UsersAssumption
<1>3. Holds(ring, len, Count, 0, log) /\ ~destroyed /\ open = {}
  BY <1>1, <1>2, CreateHolds DEF Init
<1>4. Freed = 0 /\ ring.element_len = len
  BY <1>3, FreedIs, HoldsNumbers
<1>5. UserTypes
  <2>1. <<>> \in Seq(Elements) /\ 0 \in Nat /\ 0 \in Int
    OBVIOUS
  <2> QED BY <2>1 DEF Init, UserTypes
<1>6. UsersInv
  BY <1>3, <1>4, <1>5 DEF UsersInv, NullAlone
<1>7. Fifo!Init
  BY <1>4 DEF Init, Fifo!Init
<1> QED BY <1>6, <1>7

(***************************************************************************)
(* Every step of the ring and its users is a step of the queue, or none.    *)
(***************************************************************************)
LEMMA UsersStep ==
  UsersInv /\ [Next]_vars => UsersInv' /\ [Fifo!Next]_(Fifo!vars)
<1> SUFFICES ASSUME UsersInv, [Next]_vars PROVE UsersInv' /\ [Fifo!Next]_(Fifo!vars)
  OBVIOUS
<1>1. CASE UNCHANGED vars
  BY <1>1 DEF vars, UsersInv, UserTypes, InPlace, NullAlone, Position, Freed, Fifo!vars
<1>2. CASE Next
  <2>1. ~destroyed
    BY <1>2 DEF Next
  <2>2. ASSUME NEW s \in Batches, Insert(s) \/ LinearInsert(s)
        PROVE  UsersInv' /\ Fifo!Next
    <3>1. UsersInv' /\ Fifo!Insert(s) /\ UNCHANGED destroyed
      BY <2>1, <2>2, InsertStep, LinearInsertStep
    <3>2. s \in Fifo!Batches
      BY DEF Batches, Fifo!Batches
    <3> QED BY <2>1, <3>1, <3>2 DEF Fifo!Next
  <2>3. ASSUME NEW r \in Users, Join(r) \/ Leave(r) PROVE UsersInv' /\ Fifo!Next
    <3>1. UsersInv' /\ (Fifo!Open(r) \/ Fifo!Leave(r)) /\ UNCHANGED destroyed
      BY <2>1, <2>3, JoinStep, LeaveStep
    <3> QED BY <2>1, <3>1 DEF Fifo!Next
  <2>4. ASSUME NEW r \in Users, NEW n \in 1..MaxBatch, Fifo!Read(r, n), UNCHANGED destroyed
        PROVE  Fifo!Next
    <3>1. n \in 0..MaxBatch
      BY UsersAssumption
    <3> QED BY <2>1, <2>4, <3>1 DEF Fifo!Next
  <2>5. ASSUME NEW r \in Users, NEW n \in 1..MaxBatch, Consume(r, n)
        PROVE  UsersInv' /\ Fifo!Next
    BY <2>1, <2>4, <2>5, ConsumeStep
  <2>6. ASSUME NEW n \in 1..MaxBatch, ConsumeSingle(n) PROVE UsersInv' /\ Fifo!Next
    <3>1. NullTail \in Users
      BY DEF Users
    <3> QED BY <2>1, <2>4, <2>6, <3>1, ConsumeSingleStep
  <2>7. CASE Destroy
    BY <2>1, <2>7, DestroyStep DEF Fifo!Next
  <2> QED BY <1>2, <2>2, <2>3, <2>5, <2>6, <2>7 DEF Next
<1> QED BY <1>1, <1>2

(***************************************************************************)
(* The inductive invariant of the ring: the buffer holds exactly what the   *)
(* log has from the oldest element some reader may still need, each element *)
(* in the slot of its position, and every reader's tail is the slot of the  *)
(* position it has come to.                                                 *)
(***************************************************************************)
THEOREM UsersInvariant == Spec => []UsersInv
BY UsersInit, UsersStep, PTL DEF Spec

(***************************************************************************)
(* The ring implements the queue with several readers, for every number of  *)
(* elements and every size of one, every set of readers and every bound on  *)
(* batches: nobody is given an element twice, none is skipped, and none is  *)
(* overwritten or destroyed before every reader had it.                     *)
(***************************************************************************)
THEOREM RingIsFifo == Spec => ImplementsFifo
<1>1. Init => Fifo!Init
  BY UsersInit
<1>2. UsersInv /\ [Next]_vars => [Fifo!Next]_(Fifo!vars)
  BY UsersStep
<1> QED BY <1>1, <1>2, UsersInvariant, PTL DEF Spec, ImplementsFifo, Fifo!Spec

(***************************************************************************)
(* The two counts add up in every state, to one element less than the count *)
(* the ring was created with, and with destroy_element exactly the slots    *)
(* between the oldest tail and the head are in use.                         *)
(***************************************************************************)
THEOREM CountsCorrect == Spec => []CountsAddUp
<1>1. UsersInv => CountsAddUp
  <2> SUFFICES ASSUME UsersInv, ~destroyed
               PROVE  LET waiting == WaitingElements(ring, ring.oldest_tail)
                          free == FreeElements(ring)
                      IN /\ \/ free + waiting = Count - 1
                            \/ ring.element_len = 1 /\ waiting = Count - 2 /\ free = 0
                         /\ DestroyElement =>
                              {s \in DOMAIN ring.buf : ring.buf[s] # Garbage}
                                = SlotsBetween(ring, ring.oldest_tail, ring.head)
    BY DEF CountsAddUp
  <2> DEFINE f == Freed
             l == Len(log)
             free == FreeElements(ring)
             e == ring.element_len
  <2>1. /\ Holds(ring, e, Count, f, log) /\ log \in Seq(Elements)
        /\ Count \in Nat \ {0} /\ l \in Nat /\ f \in Nat /\ f <= l /\ l < f + Count
        /\ DOMAIN ring.buf = 0..(Count - 1)
    BY InState, HoldsNumbers DEF UserTypes
  <2>2. WaitingElements(ring, ring.oldest_tail) = l - f
    BY <2>1, OldestWaiting DEF Holds
  <2>3. /\ free \in 0..(Count - 1 - (l - f))
        /\ free = Count - 1 - (l - f) \/ (e = 1 /\ l - f = Count - 2 /\ free = 0)
    BY <2>1, FreeHolds
  <2>4. SlotsBetween(ring, ring.oldest_tail, ring.head) = {i % Count : i \in f..(l - 1)}
    <3>1. Holds(ring, e, Count, f, log)
      BY <2>1
    <3> HIDE DEF e, f
    <3>2. SlotsBetween(ring, ring.oldest_tail, ring.head)
            = {i % Count : i \in f..(Len(log) - 1)}
      BY <3>1, UsedHolds
    <3> QED BY <3>2
  <2> HIDE DEF f, l, free, e
  <2>5. free + (l - f) = Count - 1 \/ (e = 1 /\ l - f = Count - 2 /\ free = 0)
    BY <2>1, <2>3
  <2>6. ASSUME DestroyElement, NEW s \in 0..(Count - 1)
        PROVE  ring.buf[s] # Garbage <=> s \in {i % Count : i \in f..(l - 1)}
    <3>1. CASE \A i \in f..(l - 1) : i % Count # s
      BY <2>1, <2>6, <3>1 DEF Holds, l
    <3>2. ASSUME NEW i \in f..(l - 1), i % Count = s PROVE ring.buf[s] # Garbage
      <4>1. ring.buf[i % Count] = log[i + 1]
        BY <2>1 DEF Holds, l
      <4>2. i + 1 \in 1..Len(log)
        BY <2>1 DEF l
      <4>3. log[i + 1] \in Elements
        BY <2>1, <4>2, ElementOfSeq
      <4> QED BY <3>2, <4>1, <4>3, UsersAssumption
    <3> QED BY <3>1, <3>2
  <2>7. DestroyElement => {s \in DOMAIN ring.buf : ring.buf[s] # Garbage}
                            = {i % Count : i \in f..(l - 1)}
    <3>1. \A i \in f..(l - 1) : i % Count \in 0..(Count - 1)
      <4>1. \A i \in f..(l - 1) : i \in Int
        OBVIOUS
      <4> QED BY <2>1, <4>1, DivMod
    <3> QED BY <2>1, <2>6, <3>1
  <2> QED BY <2>2, <2>4, <2>5, <2>7 DEF free, e
<1> QED BY <1>1, UsersInvariant, PTL

-----------------------------------------------------------------------------
(***************************************************************************)
(* The mirror plugin, a user of the ring in this repository.                *)
(***************************************************************************)

(***************************************************************************)
(* The messages of an instance are numbered as they come in.  A ring keeps  *)
(* those after the f-th, of m there were.                                   *)
(***************************************************************************)
Upto(m) == [i \in 1..m |-> i]

Keeps(r, f, m) == m \in Nat /\ Holds(r, MessageLen, QUEUELEN, f, Upto(m))

(* The tail of who has had p messages.                                       *)
TailAt(p) == (p % QUEUELEN) * MessageLen

LEMMA UptoType ==
  ASSUME NEW m \in Nat
  PROVE  Upto(m) \in Seq(Nat) /\ Len(Upto(m)) = m /\ \A i \in 1..m : Upto(m)[i] = i
<1>1. Upto(m) \in [1..m -> Nat]
  BY DEF Upto
<1>2. Upto(m) \in Seq(Nat)
  BY <1>1
<1> QED BY <1>1, <1>2 DEF Upto

LEMMA KeepsNumbers ==
  ASSUME NEW r, NEW f, NEW m, Keeps(r, f, m)
  PROVE  /\ QUEUELEN \in Nat \ {0} /\ m \in Nat /\ f \in Nat /\ f <= m /\ m < f + QUEUELEN
         /\ r.oldest_tail = TailAt(f)
<1>1. m \in Nat /\ Holds(r, MessageLen, QUEUELEN, f, Upto(m))
  BY DEF Keeps
<1>2. Len(Upto(m)) = m
  BY <1>1, UptoType
<1> QED BY <1>1, <1>2, HoldsNumbers DEF TailAt

LEMMA KeepsNew ==
  ASSUME QUEUELEN \in Nat \ {0}
  PROVE  Keeps(lws_ring_create(MessageLen, QUEUELEN), 0, 0)
<1>1. MessageLen \in Nat \ {0}
  BY DEF MessageLen
<1>2. Upto(0) = <<>>
  BY DEF Upto
<1>4. Holds(lws_ring_create(MessageLen, QUEUELEN), MessageLen, QUEUELEN, 0, <<>>)
  BY <1>1, CreateHolds
<1> QED BY <1>2, <1>4 DEF Keeps

(* What waits at the position p, and the room there is.                      *)
LEMMA KeepsWaiting ==
  ASSUME NEW r, NEW f, NEW m, Keeps(r, f, m), NEW p \in f..m
  PROVE  WaitingElements(r, TailAt(p)) = m - p
<1>1. m \in Nat /\ Holds(r, MessageLen, QUEUELEN, f, Upto(m))
  BY DEF Keeps
<1>2. Len(Upto(m)) = m
  BY <1>1, UptoType
<1>3. p \in f..Len(Upto(m))
  BY <1>2
<1>4. WaitingElements(r, TailAt(p)) = Len(Upto(m)) - p
  BY <1>1, <1>3, WaitingHolds DEF TailAt
<1> QED BY <1>2, <1>4

LEMMA KeepsFree ==
  ASSUME NEW r, NEW f, NEW m, Keeps(r, f, m)
  PROVE  FreeElements(r) = QUEUELEN - 1 - (m - f)
<1>1. m \in Nat /\ Holds(r, MessageLen, QUEUELEN, f, Upto(m))
  BY DEF Keeps
<1>2. Len(Upto(m)) = m
  BY <1>1, UptoType
<1>3. MessageLen # 1
  BY DEF MessageLen
<1> QED BY <1>1, <1>2, <1>3, FreeHolds

(* Another message, when there is room.                                      *)
LEMMA KeepsInsert ==
  ASSUME NEW r, NEW f, NEW m, Keeps(r, f, m), FreeElements(r) > 0
  PROVE  Keeps(lws_ring_insert(r, <<m + 1>>), f, m + 1)
<1> DEFINE src == <<m + 1>>
<1>1. m \in Nat /\ Holds(r, MessageLen, QUEUELEN, f, Upto(m))
  BY DEF Keeps
<1>2. Upto(m) \in Seq(Nat) /\ Len(Upto(m)) = m /\ \A i \in 1..m : Upto(m)[i] = i
  BY <1>1, UptoType
<1>3. /\ QUEUELEN \in Nat /\ f \in Nat /\ m \in Nat
      /\ FreeElements(r) = QUEUELEN - 1 - (m - f)
  BY KeepsNumbers, KeepsFree
<1>4. src \in Seq(Nat) /\ Len(src) = 1 /\ src[1] = m + 1
  BY <1>1
<1>12. src = <<m + 1>> /\ m + 1 \in Nat
  BY <1>1
<1> HIDE DEF src
<1>6. Inserted(r, src) = 1
  BY <1>3, <1>4 DEF Inserted, MinOf
<1>13. SubSeq(src, 1, 1) = src
  <2>1. SubSeq(src, 1, 1) = [i \in 1..1 |-> src[i]]
    BY <1>4
  <2>2. src = [i \in 1..1 |-> src[i]]
    BY <1>4
  <2> QED BY <2>1, <2>2
<1>7. lws_ring_insert(r, src) = Fill(r, src)
  BY <1>6, <1>13 DEF lws_ring_insert
<1>8. Len(Upto(m)) + Len(src) < f + QUEUELEN
  BY <1>2, <1>3, <1>4
<1>9. Holds(Fill(r, src), MessageLen, QUEUELEN, f, Upto(m) \o src)
  BY <1>1, <1>2, <1>4, <1>8, FillHolds
<1>10. Upto(m) \o src = Upto(m + 1)
  <2>1. /\ Upto(m + 1) \in Seq(Nat) /\ Len(Upto(m + 1)) = m + 1
        /\ \A i \in 1..(m + 1) : Upto(m + 1)[i] = i
    BY <1>1, UptoType
  <2>2. Upto(m) \o src \in Seq(Nat)
    BY <1>2, <1>4
  <2>4. Len(Upto(m) \o src) = m + 1
    <3>1. Upto(m) \in Seq(Nat)
      BY <1>2
    <3>2. src \in Seq(Nat)
      BY <1>4
    <3>3. Len(Upto(m) \o src) = Len(Upto(m)) + Len(src)
      BY <3>1, <3>2, ConcatProperties
    <3> QED BY <1>2, <1>4, <3>3
  <2>3. \A i \in 1..(m + 1) : (Upto(m) \o src)[i] = i
    <3> TAKE i \in 1..(m + 1)
    <3>1. (Upto(m) \o src)[i] = IF i <= m THEN Upto(m)[i] ELSE src[i - m]
      BY <1>1, <1>2, <1>4, ConcatProperties
    <3>2. i > m => i - m = 1 /\ i = m + 1
      BY <1>1
    <3> QED BY <1>1, <1>2, <1>4, <3>1, <3>2
  <2> QED BY <2>1, <2>2, <2>3, <2>4, SeqEqual
<1> QED BY <1>7, <1>9, <1>10, <1>12 DEF Keeps

(* What a session at p is written, and where it is then.                     *)
LEMMA KeepsCopy ==
  ASSUME NEW r, NEW f, NEW m, Keeps(r, f, m), NEW p \in f..m, NEW k \in 0..(m - p)
  PROVE  CopyOut(r, TailAt(p), k) = [i \in 1..k |-> p + i]
<1>1. m \in Nat /\ Holds(r, MessageLen, QUEUELEN, f, Upto(m))
  BY DEF Keeps
<1>2. Upto(m) \in Seq(Nat) /\ Len(Upto(m)) = m /\ \A i \in 1..m : Upto(m)[i] = i
  BY <1>1, UptoType
<1>3. f \in Nat /\ f <= m
  BY KeepsNumbers
<1> DEFINE a == p + 1
           b == p + k
<1>4. a \in 1..(m + 1) /\ b \in (a - 1)..m
  BY <1>1, <1>3
<1>5. p \in f..Len(Upto(m)) /\ k \in 0..(Len(Upto(m)) - p)
  BY <1>2
<1>6. CopyOut(r, TailAt(p), k) = SubSeq(Upto(m), a, b)
  BY <1>1, <1>2, <1>5, CopyHolds DEF TailAt
<1> HIDE DEF a, b
<1>7. SubSeq(Upto(m), a, b) = [i \in 1..(b - a + 1) |-> Upto(m)[i + a - 1]]
  BY <1>2, <1>4
<1>8. b - a + 1 = k /\ \A i \in 1..k : i + a - 1 = p + i /\ p + i \in 1..m
  BY <1>1, <1>3 DEF a, b
<1>9. SubSeq(Upto(m), a, b) = [i \in 1..k |-> p + i]
  BY <1>2, <1>7, <1>8
<1> QED BY <1>6, <1>9

LEMMA KeepsAfter ==
  ASSUME NEW r, NEW f, NEW m, Keeps(r, f, m), NEW p \in Int, NEW k \in Int
  PROVE  After(r, TailAt(p), k)
           = TailAt(p + k)
<1>1. /\ Shape(r, MessageLen, QUEUELEN, Len(Upto(m)), f)
      /\ Numbers(MessageLen, QUEUELEN, Len(Upto(m)), f)
  BY DEF Keeps, Holds
<1> QED BY <1>1, AfterIs DEF TailAt

(* Two positions of the ring are at the same tail only if they are the same. *)
LEMMA KeepsApart ==
  ASSUME NEW r, NEW f, NEW m, Keeps(r, f, m), NEW p \in f..m, NEW q \in f..m
  PROVE  TailAt(p) = TailAt(q) <=> p = q
<1>1. QUEUELEN \in Nat \ {0} /\ m \in Nat /\ f \in Nat /\ m < f + QUEUELEN
  BY KeepsNumbers
<1>2. MessageLen \in Nat \ {0}
  BY DEF MessageLen
<1>3. p \in Nat /\ q \in Nat
  BY <1>1
<1>5. QUEUELEN \in Nat \ {0}
  BY <1>1
<1>6. p \in Nat
  BY <1>3
<1>8. q \in Nat
  BY <1>3
<1>4. CASE p <= q
  <2>1. q \in p..(p + QUEUELEN - 1)
    BY <1>1, <1>3, <1>4
  <2> QED BY <1>5, <1>2, <1>6, <2>1, Distance DEF TailAt
<1>7. CASE q <= p
  <2>1. p \in q..(q + QUEUELEN - 1)
    BY <1>1, <1>3, <1>7
  <2> QED BY <1>5, <1>2, <1>8, <2>1, Distance DEF TailAt
<1> QED BY <1>3, <1>4, <1>7

LEMMA KeepsUpdate ==
  ASSUME NEW r, NEW f, NEW m, Keeps(r, f, m), NEW q \in f..m
  PROVE  Keeps(lws_ring_update_oldest_tail(r, TailAt(q)), q, m)
<1>1. m \in Nat /\ Holds(r, MessageLen, QUEUELEN, f, Upto(m))
  BY DEF Keeps
<1>2. q \in f..Len(Upto(m))
  BY <1>1, UptoType
<1>3. Holds(lws_ring_update_oldest_tail(r, TailAt(q)),
            MessageLen, QUEUELEN, q, Upto(m))
  BY <1>1, <1>2, UpdateHolds DEF TailAt
<1> QED BY <1>1, <1>3 DEF Keeps

(* The worst tail is that of a session at the least position.                *)
LEMMA KeepsWorst ==
  ASSUME NEW r, NEW f, NEW m, Keeps(r, f, m), NEW us, us # {}, NEW t, NEW pos,
         \A u \in us : pos[u] \in f..m /\ t[u] = TailAt(pos[u])
  PROVE  \E w \in us : /\ WorstTail(r, us, t) = t[w]
                       /\ \A v \in us : pos[w] <= pos[v]
<1>1. m \in Nat /\ Len(Upto(m)) = m
  BY UptoType DEF Keeps
<1>2. Shape(r, MessageLen, QUEUELEN, m, f)
  BY <1>1 DEF Keeps, Holds
<1>3. Numbers(MessageLen, QUEUELEN, m, f)
  BY <1>1 DEF Keeps, Holds
<1>4. /\ Slowest(r, us, t) \in us
      /\ \A v \in us : pos[Slowest(r, us, t)] <= pos[v]
  BY <1>2, <1>3, WorstIs DEF TailAt
<1>6. WorstTail(r, us, t) = t[Slowest(r, us, t)]
  BY DEF WorstTail, Slowest
<1> QED BY <1>4, <1>6

-----------------------------------------------------------------------------
(* An instance is there while a session is bound to it; its ring keeps what  *)
(* was not given up, and reception is off only while there is little room.   *)
InstanceOK(n, f) ==
  /\ (n \in mi_list) <=> (\E c \in Conns : mi[c] = n)
  /\ Keeps(rings[n], f, sent[n])
  /\ rx_enabled[n] \/ FreeElements(rings[n]) < RXFLOW_MAX

(* A session has had nothing its instance has not, misses nothing that was   *)
(* given up, and is asked to write or was never asked.                       *)
SessionOK(c, g) ==
  mi[c] # NoName =>
    /\ last[c] \in g[mi[c]]..sent[mi[c]]
    /\ tails[c] = TailAt(last[c])
    /\ last[c] < sent[mi[c]] => c \in pollout \cup unasked

(* A session on the timeout is at the oldest message kept.                   *)
TimedOK(c, g) ==
  c \in timeout => mi[c] # NoName /\ last[c] = g[mi[c]] /\ last[c] < sent[mi[c]]

MirrorTypes ==
  /\ mi_list \in SUBSET Names
  /\ DOMAIN rings = Names
  /\ rx_enabled \in [Names -> BOOLEAN]
  /\ DOMAIN sent = Names
  /\ mi \in [Conns -> Names \cup {NoName}]
  /\ DOMAIN tails = Conns
  /\ DOMAIN last = Conns
  /\ timeout \in SUBSET Conns

(* The invariant, g[n] being how many messages the instance n has given up.  *)
MirrorWith(g) ==
  /\ MirrorTypes
  /\ \A n \in Names : InstanceOK(n, g[n])
  /\ \A c \in Conns : SessionOK(c, g) /\ TimedOK(c, g)

MirrorInv == \E g \in [Names -> Nat] : MirrorWith(g)

(* The numbers of a session that is bound.                                   *)
LEMMA SessionNumbers ==
  ASSUME NEW g, MirrorWith(g), NEW c \in Conns, mi[c] # NoName
  PROVE  /\ mi[c] \in Names
         /\ Keeps(rings[mi[c]], g[mi[c]], sent[mi[c]])
         /\ g[mi[c]] \in Nat /\ sent[mi[c]] \in Nat /\ last[c] \in Nat
         /\ last[c] \in g[mi[c]]..sent[mi[c]]
         /\ WaitingElements(rings[mi[c]], tails[c]) = sent[mi[c]] - last[c]
<1>1. mi[c] \in Names
  BY DEF MirrorWith, MirrorTypes
<1>2. Keeps(rings[mi[c]], g[mi[c]], sent[mi[c]])
  BY <1>1 DEF MirrorWith, InstanceOK
<1>3. g[mi[c]] \in Nat /\ sent[mi[c]] \in Nat
  BY <1>2, KeepsNumbers
<1>4. /\ last[c] \in g[mi[c]]..sent[mi[c]]
      /\ tails[c] = TailAt(last[c])
  BY DEF MirrorWith, SessionOK
<1>5. WaitingElements(rings[mi[c]], tails[c]) = sent[mi[c]] - last[c]
  BY <1>2, <1>4, KeepsWaiting
<1> QED BY <1>1, <1>2, <1>3, <1>4, <1>5

(* The oldest tail is that of who is at the oldest message kept.             *)
LEMMA AtOldest ==
  ASSUME NEW g, MirrorWith(g), NEW c \in Conns, mi[c] # NoName
  PROVE  rings[mi[c]].oldest_tail = tails[c] <=> last[c] = g[mi[c]]
<1>1. Keeps(rings[mi[c]], g[mi[c]], sent[mi[c]])
  BY SessionNumbers
<1>2. last[c] \in g[mi[c]]..sent[mi[c]]
  BY SessionNumbers
<1>3. g[mi[c]] \in g[mi[c]]..sent[mi[c]]
  BY <1>2, SessionNumbers
<1>4. tails[c] = TailAt(last[c])
  BY DEF MirrorWith, SessionOK
<1>5. rings[mi[c]].oldest_tail = TailAt(g[mi[c]])
  BY <1>1, KeepsNumbers
<1>6. TailAt(last[c]) = TailAt(g[mi[c]])
        <=> last[c] = g[mi[c]]
  BY <1>1, <1>2, <1>3, KeepsApart
<1> QED BY <1>4, <1>5, <1>6

(* What __mirror_update_worst_tail() does to ring, reception and timeouts.   *)
Searched(n, us, t, idle, worst, r) ==
  /\ worst = WorstTail(rings[n], us, t)
  /\ r = lws_ring_update_oldest_tail(rings[n], worst)
  /\ rings' = [rings EXCEPT ![n] = r]
  /\ rx_enabled' = [rx_enabled EXCEPT ![n] = @ \/ (/\ worst # rings[n].oldest_tail
                                                   /\ ~rx_enabled[n]
                                                   /\ EnoughRoom(r))]
  /\ timeout' = (timeout \ idle) \cup
                   {c \in us : /\ worst # rings[n].oldest_tail
                               /\ WaitingElements(r, worst) > 0
                               /\ t[c] = worst}

LEMMA SearchIs ==
  ASSUME NEW n, NEW us, NEW t, NEW idle, UpdateWorstTail(n, us, t, idle)
  PROVE  LET w == WorstTail(rings[n], us, t)
         IN Searched(n, us, t, idle, w, lws_ring_update_oldest_tail(rings[n], w))
BY DEF UpdateWorstTail, TimeoutAfter, Searched

(* The ring is left with what is kept starting at q, the least position of   *)
(* the sessions us.                                                          *)
Moved(n, f, m, us, pos, idle) ==
  \E q \in f..m :
    /\ Keeps(rings'[n], q, m)
    /\ \A u \in us : q <= pos[u]
    /\ DOMAIN rings' = Names
    /\ rx_enabled' \in [Names -> BOOLEAN]
    /\ rx_enabled'[n] \/ FreeElements(rings'[n]) < RXFLOW_MAX
    /\ \A o \in Names \ {n} : rings'[o] = rings[o] /\ rx_enabled'[o] = rx_enabled[o]
    /\ \A u \in timeout' : u \in timeout \ idle \/ (u \in us /\ pos[u] = q /\ q < m)

(***************************************************************************)
(* The search for the worst tail among the sessions us, at the positions    *)
(* pos: what is kept starts at the least of them, reception is on if there  *)
(* is room for it, and who is put on the timeout is at the least position.  *)
(***************************************************************************)
LEMMA WorstMoves ==
  ASSUME NEW n \in Names, NEW f, NEW m, Keeps(rings[n], f, m),
         DOMAIN rings = Names, rx_enabled \in [Names -> BOOLEAN],
         rx_enabled[n] \/ FreeElements(rings[n]) < RXFLOW_MAX,
         NEW us, us # {}, NEW t, NEW pos,
         \A u \in us : pos[u] \in f..m /\ t[u] = TailAt(pos[u]),
         NEW idle, NEW worst, NEW r, Searched(n, us, t, idle, worst, r)
  PROVE  Moved(n, f, m, us, pos, idle)
<1>20. /\ worst = WorstTail(rings[n], us, t)
       /\ r = lws_ring_update_oldest_tail(rings[n], worst)
  BY DEF Searched
<1> DEFINE moved == worst # rings[n].oldest_tail
           left == WaitingElements(r, worst) > 0
           reopen == moved /\ ~rx_enabled[n] /\ EnoughRoom(r)
<1>1. PICK w \in us : worst = t[w] /\ \A v \in us : pos[w] <= pos[v]
  BY <1>20, KeepsWorst
<1> DEFINE q == pos[w]
<1>2. q \in f..m /\ worst = TailAt(q)
  BY <1>1
<1>3. /\ QUEUELEN \in Nat \ {0} /\ m \in Nat /\ f \in Nat /\ f <= m
      /\ rings[n].oldest_tail = TailAt(f)
  BY KeepsNumbers
<1>4. Keeps(r, q, m)
  BY <1>2, <1>20, KeepsUpdate
<1>5. WaitingElements(r, worst) = m - q
  <2>1. q \in q..m
    BY <1>2, <1>3
  <2> QED BY <1>2, <1>4, <2>1, KeepsWaiting
<1>6. moved <=> q # f
  <2>1. f \in f..m
    BY <1>3
  <2> QED BY <1>2, <1>3, <2>1, KeepsApart
<1>7. /\ rings' = [rings EXCEPT ![n] = r]
      /\ rx_enabled' = [rx_enabled EXCEPT ![n] = @ \/ reopen]
      /\ timeout' = (timeout \ idle) \cup {c \in us : moved /\ left /\ t[c] = worst}
  BY DEF Searched
<1>8. left => q < m
  BY <1>2, <1>3, <1>5
<1>9. FreeElements(r) = QUEUELEN - 1 - (m - q)
  BY <1>4, KeepsFree
<1>10. FreeElements(rings[n]) = QUEUELEN - 1 - (m - f)
  BY KeepsFree
<1>11. \A u \in us : t[u] = worst => pos[u] = q
  <2> SUFFICES ASSUME NEW u \in us, t[u] = worst PROVE pos[u] = q
    OBVIOUS
  <2>1. pos[u] \in f..m
    OBVIOUS
  <2>2. TailAt(pos[u]) = TailAt(q)
    BY <1>2
  <2> QED BY <1>2, <2>1, <2>2, KeepsApart
<1>12. EnoughRoom(r) \/ FreeElements(r) < RXFLOW_MAX
  <2>1. FreeElements(r) \in Int
    BY <1>2, <1>3, <1>9
  <2>2. RXFLOW_MAX \in Int
    BY <1>3 DEF RXFLOW_MAX
  <2>3. FreeElements(r) >= RXFLOW_MAX \/ FreeElements(r) < RXFLOW_MAX
    BY <2>1, <2>2
  <2> QED BY <2>3 DEF EnoughRoom
<1>13. ~moved => FreeElements(r) = FreeElements(rings[n])
  BY <1>6, <1>9, <1>10
<1> HIDE DEF moved, left
<1>14. rings'[n] = r /\ DOMAIN rings' = Names /\ \A o \in Names \ {n} : rings'[o] = rings[o]
  BY <1>7
<1>15. reopen \in BOOLEAN
  OBVIOUS
<1>16. /\ rx_enabled' \in [Names -> BOOLEAN] /\ rx_enabled'[n] = (rx_enabled[n] \/ reopen)
       /\ \A o \in Names \ {n} : rx_enabled'[o] = rx_enabled[o]
  <2> HIDE DEF reopen
  <2> QED BY <1>7, <1>15
<1>17. rx_enabled'[n] \/ FreeElements(r) < RXFLOW_MAX
  BY <1>12, <1>13, <1>16
<1>18. \A u \in timeout' : u \in timeout \ idle \/ (u \in us /\ pos[u] = q /\ q < m)
  BY <1>7, <1>8, <1>11
<1>19. \A u \in us : q <= pos[u]
  BY <1>1
<1> HIDE DEF q, reopen
<1> QED BY <1>2, <1>4, <1>14, <1>16, <1>17, <1>18, <1>19 DEF Moved

(* The invariant after a step, from its parts.                               *)
LEMMA MirrorNext ==
  ASSUME NEW g \in [Names -> Nat], MirrorTypes', \A n \in Names : InstanceOK(n, g[n])',
         \A c \in Conns : SessionOK(c, g)' /\ TimedOK(c, g)'
  PROVE  MirrorInv'
<1>1. MirrorWith(g)'
  BY DEF MirrorWith
<1> QED BY <1>1 DEF MirrorInv

LEMMA MirrorInit ==
  ASSUME MInit
  PROVE  MirrorInv
<1> DEFINE g == [n \in Names |-> 0]
<1>1. MirrorTypes
  BY DEF MirrorTypes, MInit
<1>2. \A c \in Conns : mi[c] = NoName /\ c \notin timeout
  BY DEF MInit
<1>3. ASSUME NEW n \in Names PROVE InstanceOK(n, 0)
  <2>1. n \notin mi_list /\ ~ \E c \in Conns : mi[c] = n
    BY <1>2, MirrorAssumption DEF MInit
  <2>2. rings[n] = lws_ring_create(MessageLen, QUEUELEN) /\ sent[n] = 0
    BY DEF MInit
  <2>3. Keeps(rings[n], 0, sent[n])
    BY <2>2, KeepsNew, MirrorAssumption
  <2>4. rx_enabled[n]
    BY DEF MInit
  <2> QED BY <2>1, <2>3, <2>4 DEF InstanceOK
<1>4. g \in [Names -> Nat] /\ \A n \in Names : g[n] = 0
  OBVIOUS
<1> HIDE DEF g
<1>5. \A n \in Names : InstanceOK(n, g[n])
  BY <1>3, <1>4
<1>6. \A c \in Conns : SessionOK(c, g) /\ TimedOK(c, g)
  BY <1>2 DEF SessionOK, TimedOK
<1> QED BY <1>1, <1>4, <1>5, <1>6 DEF MirrorInv, MirrorWith

(* RECEIVE: the ring of the instance grows, or reception goes off.           *)
LEMMA ReceiveRing ==
  ASSUME NEW g \in [Names -> Nat], MirrorWith(g), NEW c \in Conns,
         NEW n \in Names, n = mi[c], Receive(c)
  PROVE  /\ Keeps(rings'[n], g[n], sent'[n])
         /\ DOMAIN rings' = Names /\ DOMAIN sent' = Names
         /\ rx_enabled' \in [Names -> BOOLEAN]
         /\ sent[n] <= sent'[n]
         /\ rx_enabled'[n] \/ FreeElements(rings'[n]) < RXFLOW_MAX
         /\ \A o \in Names \ {n} : /\ rings'[o] = rings[o] /\ rx_enabled'[o] = rx_enabled[o]
                                   /\ sent'[o] = sent[o]
<1>1. MirrorTypes /\ InstanceOK(n, g[n])
  BY DEF MirrorWith
<1>2. Keeps(rings[n], g[n], sent[n])
  BY <1>1 DEF InstanceOK
<1>3. g[n] \in Nat /\ sent[n] \in Nat /\ QUEUELEN \in Nat \ {0} /\ sent[n] < g[n] + QUEUELEN
  BY <1>2, KeepsNumbers
<1>4. FreeElements(rings[n]) = QUEUELEN - 1 - (sent[n] - g[n])
  BY <1>2, KeepsFree
<1>5. RXFLOW_MAX \in Int /\ RXFLOW_MIN \in Int /\ 1 <= RXFLOW_MIN
      /\ RXFLOW_MIN <= RXFLOW_MAX
  <2>1. RXFLOW_MAX \in Int
    BY <1>3 DEF RXFLOW_MAX
  <2> QED BY <2>1, MirrorAssumption
<1>6. CASE FreeElements(rings[n]) = 0 /\ UNCHANGED <<rings, sent>> /\ StopReception(n)
  <2>1. rx_enabled' = [rx_enabled EXCEPT ![n] = FALSE]
    BY <1>6 DEF StopReception
  <2>2. rings' = rings /\ sent' = sent
    BY <1>6
  <2>3. FreeElements(rings'[n]) < RXFLOW_MAX
    BY <1>5, <1>6, <2>2
  <2> QED BY <1>1, <1>2, <1>3, <2>1, <2>2, <2>3 DEF MirrorTypes
<1>7. CASE /\ FreeElements(rings[n]) > 0
           /\ rings' = [rings EXCEPT ![n] = lws_ring_insert(@, <<sent[n] + 1>>)]
           /\ sent' = [sent EXCEPT ![n] = @ + 1]
           /\ IF FreeElements(rings'[n]) < RXFLOW_MIN THEN StopReception(n)
              ELSE UNCHANGED <<rx_enabled, rxflow>>
  <2>1. /\ rings'[n] = lws_ring_insert(rings[n], <<sent[n] + 1>>)
        /\ DOMAIN rings' = Names /\ \A o \in Names \ {n} : rings'[o] = rings[o]
    BY <1>1, <1>7 DEF MirrorTypes
  <2>2. /\ sent'[n] = sent[n] + 1
        /\ DOMAIN sent' = Names /\ \A o \in Names \ {n} : sent'[o] = sent[o]
    BY <1>1, <1>7 DEF MirrorTypes
  <2>3. Keeps(rings'[n], g[n], sent'[n])
    BY <1>2, <1>7, <2>1, <2>2, KeepsInsert
  <2>4. FreeElements(rings'[n]) = QUEUELEN - 1 - (sent'[n] - g[n])
    BY <2>3, KeepsFree
  <2>5. FreeElements(rings'[n]) < FreeElements(rings[n])
        /\ FreeElements(rings'[n]) \in Int /\ FreeElements(rings[n]) \in Int
    BY <1>3, <1>4, <2>2, <2>4
  <2>6. CASE FreeElements(rings'[n]) < RXFLOW_MIN
    <3>1. rx_enabled' = [rx_enabled EXCEPT ![n] = FALSE]
      BY <1>7, <2>6 DEF StopReception
    <3>2. FreeElements(rings'[n]) < RXFLOW_MAX
      BY <1>5, <2>5, <2>6
    <3>3. rx_enabled' \in [Names -> BOOLEAN] /\ \A o \in Names \ {n} : rx_enabled'[o] = rx_enabled[o]
      BY <1>1, <3>1 DEF MirrorTypes
    <3> QED BY <1>3, <2>1, <2>2, <2>3, <3>2, <3>3
  <2>7. CASE ~ (FreeElements(rings'[n]) < RXFLOW_MIN)
    <3>1. rx_enabled' = rx_enabled
      BY <1>7, <2>7
    <3>2. rx_enabled[n] \/ FreeElements(rings[n]) < RXFLOW_MAX
      BY <1>1 DEF InstanceOK
    <3>3. rx_enabled'[n] \/ FreeElements(rings'[n]) < RXFLOW_MAX
      BY <1>5, <2>5, <3>1, <3>2
    <3> QED BY <1>1, <1>3, <2>1, <2>2, <2>3, <3>1, <3>3 DEF MirrorTypes
  <2> QED BY <2>6, <2>7
<1> QED BY <1>6, <1>7 DEF Receive

LEMMA ReceiveKeeps ==
  ASSUME NEW g \in [Names -> Nat], MirrorWith(g), NEW c \in Conns,
         Receive(c)
  PROVE  MirrorInv'
<1>1. mi[c] \in Names
  BY DEF MirrorWith, MirrorTypes, Receive
<1>2. PICK n \in Names : n = mi[c]
  BY <1>1
<1>3. /\ Keeps(rings'[n], g[n], sent'[n])
      /\ DOMAIN rings' = Names /\ DOMAIN sent' = Names
      /\ rx_enabled' \in [Names -> BOOLEAN]
      /\ sent[n] <= sent'[n]
      /\ rx_enabled'[n] \/ FreeElements(rings'[n]) < RXFLOW_MAX
      /\ \A o \in Names \ {n} : /\ rings'[o] = rings[o] /\ rx_enabled'[o] = rx_enabled[o]
                                /\ sent'[o] = sent[o]
  BY <1>2, ReceiveRing
<1>4. /\ pollout' = pollout \cup {d \in Conns : mi[d] = n}
      /\ unasked' = unasked \ {d \in Conns : mi[d] = n}
      /\ mi_list' = mi_list /\ mi' = mi /\ tails' = tails /\ last' = last /\ timeout' = timeout
  BY <1>2 DEF Receive, Bound
<1>5. MirrorTypes'
  BY <1>3, <1>4 DEF MirrorWith, MirrorTypes
<1>6. ASSUME NEW o \in Names PROVE InstanceOK(o, g[o])'
  <2>1. InstanceOK(o, g[o])
    BY DEF MirrorWith
  <2> QED BY <1>3, <1>4, <2>1 DEF InstanceOK
<1>7. ASSUME NEW d \in Conns PROVE SessionOK(d, g)' /\ TimedOK(d, g)'
  <2>1. SessionOK(d, g) /\ TimedOK(d, g)
    BY DEF MirrorWith
  <2>2. mi[d] # NoName => /\ mi[d] \in Names /\ g[mi[d]] \in Nat /\ sent[mi[d]] \in Nat
                          /\ last[d] \in Nat /\ last[d] \in g[mi[d]]..sent[mi[d]]
    BY SessionNumbers
  <2>3. mi[d] # NoName => sent'[mi[d]] \in Nat /\ sent[mi[d]] <= sent'[mi[d]]
    <3>1. sent'[n] \in Nat
      BY <1>3, KeepsNumbers
    <3> QED BY <1>3, <2>2, <3>1
  <2>4. SessionOK(d, g)'
    BY <1>3, <1>4, <2>1, <2>2, <2>3 DEF SessionOK
  <2>5. TimedOK(d, g)'
    BY <1>4, <2>1, <2>2, <2>3 DEF TimedOK
  <2> QED BY <2>4, <2>5
<1> QED BY <1>5, <1>6, <1>7, MirrorNext

(* ESTABLISHED: the instance is there already, or is new and nobody's.       *)
LEMMA EstablishedRing ==
  ASSUME NEW g \in [Names -> Nat], MirrorWith(g), NEW c \in Conns,
         NEW n \in Names, Established(c, n)
  PROVE  \E f \in Nat :
           /\ Keeps(rings'[n], f, sent'[n])
           /\ \A d \in Conns : mi[d] = n => f = g[n] /\ sent'[n] = sent[n]
           /\ mi_list' = mi_list \cup {n}
           /\ DOMAIN rings' = Names /\ DOMAIN sent' = Names
           /\ rx_enabled' \in [Names -> BOOLEAN]
           /\ rx_enabled'[n] \/ FreeElements(rings'[n]) < RXFLOW_MAX
           /\ \A o \in Names \ {n} : /\ rings'[o] = rings[o] /\ rx_enabled'[o] = rx_enabled[o]
                                     /\ sent'[o] = sent[o]
<1>1. MirrorTypes /\ InstanceOK(n, g[n])
  BY DEF MirrorWith
<1>2. CASE n \in mi_list /\ UNCHANGED instanceVars
  <2>1. /\ mi_list' = mi_list /\ rings' = rings /\ rx_enabled' = rx_enabled
        /\ sent' = sent
    BY <1>2 DEF instanceVars
  <2>2. g[n] \in Nat
    OBVIOUS
  <2>3. mi_list' = mi_list \cup {n}
    BY <1>2, <2>1
  <2> QED BY <1>1, <2>1, <2>2, <2>3 DEF InstanceOK, MirrorTypes
<1>3. CASE /\ n \notin mi_list
           /\ mi_list' = mi_list \cup {n}
           /\ rings' = [rings EXCEPT ![n] = lws_ring_create(MessageLen, QUEUELEN)]
           /\ rx_enabled' = [rx_enabled EXCEPT ![n] = TRUE]
           /\ sent' = [sent EXCEPT ![n] = 0]
  <2>1. /\ rings'[n] = lws_ring_create(MessageLen, QUEUELEN)
        /\ DOMAIN rings' = Names /\ \A o \in Names \ {n} : rings'[o] = rings[o]
    BY <1>1, <1>3 DEF MirrorTypes
  <2>2. sent'[n] = 0 /\ DOMAIN sent' = Names /\ \A o \in Names \ {n} : sent'[o] = sent[o]
    BY <1>1, <1>3 DEF MirrorTypes
  <2>3. /\ rx_enabled' \in [Names -> BOOLEAN] /\ rx_enabled'[n]
        /\ \A o \in Names \ {n} : rx_enabled'[o] = rx_enabled[o]
    BY <1>1, <1>3 DEF MirrorTypes
  <2>4. Keeps(rings'[n], 0, sent'[n])
    BY <2>1, <2>2, KeepsNew, MirrorAssumption
  <2>5. \A d \in Conns : mi[d] # n
    BY <1>1, <1>3 DEF InstanceOK
  <2> QED BY <1>3, <2>1, <2>2, <2>3, <2>4, <2>5
<1> QED BY <1>2, <1>3 DEF Established

LEMMA EstablishedKeeps ==
  ASSUME NEW g \in [Names -> Nat], MirrorWith(g), NEW c \in Conns,
         NEW n \in Names, Established(c, n)
  PROVE  MirrorInv'
<1>1. PICK f \in Nat :
           /\ Keeps(rings'[n], f, sent'[n])
           /\ \A d \in Conns : mi[d] = n => f = g[n] /\ sent'[n] = sent[n]
           /\ mi_list' = mi_list \cup {n}
           /\ DOMAIN rings' = Names /\ DOMAIN sent' = Names
           /\ rx_enabled' \in [Names -> BOOLEAN]
           /\ rx_enabled'[n] \/ FreeElements(rings'[n]) < RXFLOW_MAX
           /\ \A o \in Names \ {n} : /\ rings'[o] = rings[o] /\ rx_enabled'[o] = rx_enabled[o]
                                     /\ sent'[o] = sent[o]
  BY EstablishedRing
<1> DEFINE h == [g EXCEPT ![n] = f]
<1>2. h \in [Names -> Nat] /\ h[n] = f /\ \A o \in Names \ {n} : h[o] = g[o]
  OBVIOUS
<1> HIDE DEF h
<1>3. /\ mi' = [mi EXCEPT ![c] = n]
      /\ tails' = [tails EXCEPT ![c] = rings'[n].oldest_tail]
      /\ last' = [last EXCEPT ![c] = sent'[n] - WaitingElements(rings'[n], tails'[c])]
      /\ unasked' = unasked \cup {c} /\ pollout' = pollout /\ timeout' = timeout
      /\ mi[c] = NoName
  BY DEF Established
<1>4. MirrorTypes
  BY DEF MirrorWith
<1>5. /\ mi'[c] = n /\ mi' \in [Conns -> Names \cup {NoName}]
      /\ DOMAIN tails' = Conns /\ DOMAIN last' = Conns
      /\ \A d \in Conns \ {c} : mi'[d] = mi[d] /\ tails'[d] = tails[d] /\ last'[d] = last[d]
  BY <1>3, <1>4 DEF MirrorTypes
<1>6. tails'[c] = TailAt(f) /\ last'[c] = f
      /\ f <= sent'[n] /\ sent'[n] \in Nat
  <2>1. tails'[c] = rings'[n].oldest_tail
    BY <1>3, <1>4 DEF MirrorTypes
  <2>2. rings'[n].oldest_tail = TailAt(f)
        /\ f <= sent'[n] /\ sent'[n] \in Nat
    BY <1>1, KeepsNumbers
  <2>3. f \in f..sent'[n]
    BY <2>2
  <2>4. WaitingElements(rings'[n], tails'[c]) = sent'[n] - f
    BY <1>1, <2>1, <2>2, <2>3, KeepsWaiting
  <2>5. last'[c] = sent'[n] - WaitingElements(rings'[n], tails'[c])
    BY <1>3, <1>4 DEF MirrorTypes
  <2> QED BY <2>1, <2>2, <2>4, <2>5
<1>7. MirrorTypes'
  BY <1>1, <1>3, <1>4, <1>5 DEF MirrorTypes
<1>8. ASSUME NEW o \in Names PROVE InstanceOK(o, h[o])'
  <2>1. InstanceOK(o, g[o])
    BY DEF MirrorWith
  <2>2. Keeps(rings'[o], h[o], sent'[o])
    BY <1>1, <1>2, <2>1 DEF InstanceOK
  <2>3. rx_enabled'[o] \/ FreeElements(rings'[o]) < RXFLOW_MAX
    BY <1>1, <2>1 DEF InstanceOK
  <2>4. (o \in mi_list') <=> (\E d \in Conns : mi'[d] = o)
    <3>1. NoName # o
      BY MirrorAssumption
    <3> QED BY <1>1, <1>3, <1>5, <2>1, <3>1 DEF InstanceOK
  <2> QED BY <2>2, <2>3, <2>4 DEF InstanceOK
<1>9. ASSUME NEW d \in Conns PROVE SessionOK(d, h)' /\ TimedOK(d, h)'
  <2>1. SessionOK(d, g) /\ TimedOK(d, g)
    BY DEF MirrorWith
  <2>2. CASE d = c
    <3>1. f \in f..sent'[n]
      BY <1>6
    <3>2. SessionOK(d, h)'
      BY <1>2, <1>3, <1>5, <1>6, <2>2, <3>1 DEF SessionOK
    <3>3. TimedOK(d, h)'
      BY <1>3, <2>1, <2>2 DEF TimedOK
    <3> QED BY <3>2, <3>3
  <2>3. CASE d # c
    <3>1. mi[d] # NoName => mi[d] \in Names
      BY SessionNumbers
    <3>2. mi[d] # NoName => h[mi[d]] = g[mi[d]] /\ sent'[mi[d]] = sent[mi[d]]
      BY <1>1, <1>2, <3>1
    <3>3. SessionOK(d, h)'
      BY <1>3, <1>5, <2>1, <2>3, <3>2 DEF SessionOK
    <3>4. TimedOK(d, h)'
      BY <1>3, <1>5, <2>1, <2>3, <3>2 DEF TimedOK
    <3> QED BY <3>3, <3>4
  <2> QED BY <2>2, <2>3
<1> QED BY <1>2, <1>7, <1>8, <1>9, MirrorNext

(* What leaves the rings, the sessions' places and the timeouts alone.       *)
LEMMA OthersKeep ==
  ASSUME NEW g \in [Names -> Nat], MirrorWith(g), NEW c \in Conns,
         LibraryWrite(c) \/ PeerStopsReading(c)
  PROVE  MirrorInv'
<1>1. /\ mi_list' = mi_list /\ rings' = rings /\ rx_enabled' = rx_enabled /\ sent' = sent
      /\ mi' = mi /\ tails' = tails /\ last' = last /\ unasked' = unasked
      /\ timeout' = timeout /\ pollout \subseteq pollout'
  BY DEF LibraryWrite, PeerStopsReading, instanceVars
<1>2. MirrorTypes'
  BY <1>1 DEF MirrorWith, MirrorTypes
<1>3. ASSUME NEW n \in Names PROVE InstanceOK(n, g[n])'
  <2>1. InstanceOK(n, g[n])
    BY DEF MirrorWith
  <2> QED BY <1>1, <2>1 DEF InstanceOK
<1>4. ASSUME NEW d \in Conns PROVE SessionOK(d, g)' /\ TimedOK(d, g)'
  <2>1. SessionOK(d, g) /\ TimedOK(d, g)
    BY DEF MirrorWith
  <2> QED BY <1>1, <2>1 DEF SessionOK, TimedOK
<1> QED BY <1>2, <1>3, <1>4, MirrorNext

(* SERVER_WRITEABLE: where the session is after k messages.                  *)
LEMMA WriteMoves ==
  ASSUME NEW g \in [Names -> Nat], MirrorWith(g), NEW c \in Conns, NEW n \in Names, n = mi[c],
         n # NoName, NEW k \in 0..Waiting(c),
         last' = [last EXCEPT ![c] = IF k > 0
                                     THEN CopyOut(rings[n], tails[c], k)[k] ELSE @],
         tails' = [tails EXCEPT ![c] = After(rings[n], @, k)]
  PROVE  /\ Waiting(c) = sent[n] - last[c]
         /\ last[c] \in Nat /\ k \in Nat /\ sent[n] \in Nat /\ g[n] \in Nat
         /\ g[n] <= last[c] /\ last[c] + k <= sent[n]
         /\ last'[c] = last[c] + k
         /\ tails'[c] = TailAt(last[c] + k)
         /\ DOMAIN last' = Conns /\ DOMAIN tails' = Conns
         /\ \A d \in Conns \ {c} : last'[d] = last[d] /\ tails'[d] = tails[d]
<1> DEFINE p == last[c]
<1>1. /\ Keeps(rings[n], g[n], sent[n]) /\ g[n] \in Nat /\ sent[n] \in Nat /\ p \in Nat
      /\ p \in g[n]..sent[n]
      /\ WaitingElements(rings[n], tails[c]) = sent[n] - p
  BY SessionNumbers
<1>2. tails[c] = TailAt(p)
  BY DEF MirrorWith, SessionOK
<1>3. Waiting(c) = sent[n] - p
  BY <1>1 DEF Waiting
<1>4. k \in 0..(sent[n] - p)
  BY <1>3
<1>5. DOMAIN last = Conns /\ DOMAIN tails = Conns
  BY DEF MirrorWith, MirrorTypes
<1>6. CopyOut(rings[n], tails[c], k) = [i \in 1..k |-> p + i]
  BY <1>1, <1>2, <1>4, KeepsCopy
<1>7. After(rings[n], tails[c], k) = TailAt(p + k)
  BY <1>1, <1>2, <1>4, KeepsAfter
<1>8. last'[c] = p + k
  <2>1. last'[c] = IF k > 0 THEN CopyOut(rings[n], tails[c], k)[k] ELSE last[c]
    BY <1>5
  <2>2. CASE k > 0
    <3>1. k \in 1..k
      BY <1>1, <1>4, <2>2
    <3> QED BY <1>6, <2>1, <2>2, <3>1
  <2>3. CASE k = 0
    BY <1>1, <2>1, <2>3
  <2> QED BY <1>1, <1>4, <2>2, <2>3
<1>9. tails'[c] = TailAt(p + k)
  BY <1>5, <1>7
<1>10. /\ DOMAIN last' = Conns /\ DOMAIN tails' = Conns
       /\ \A d \in Conns \ {c} : last'[d] = last[d] /\ tails'[d] = tails[d]
  BY <1>5
<1>11. p \in Nat /\ k \in Nat /\ g[n] <= p /\ p + k <= sent[n]
  BY <1>1, <1>4
<1> QED BY <1>1, <1>3, <1>8, <1>9, <1>10, <1>11

(* After it: nobody of the instance is behind the oldest message kept, and   *)
(* of them only who is at it is on the timeout.                              *)
Resettled(n) ==
  \E q \in Nat :
    /\ Keeps(rings'[n], q, sent[n])
    /\ \A d \in Conns : mi[d] = n => q <= last'[d]
    /\ DOMAIN rings' = Names
    /\ rx_enabled' \in [Names -> BOOLEAN]
    /\ rx_enabled'[n] \/ FreeElements(rings'[n]) < RXFLOW_MAX
    /\ \A o \in Names \ {n} : rings'[o] = rings[o] /\ rx_enabled'[o] = rx_enabled[o]
    /\ \A d \in timeout' : /\ d \in Conns
                           /\ \/ d \in timeout /\ mi[d] # n
                              \/ mi[d] = n /\ last'[d] = q /\ q < sent[n]

LEMMA WriteRing ==
  ASSUME NEW g \in [Names -> Nat], MirrorWith(g), NEW c \in Conns, NEW n \in Names, n = mi[c],
         n # NoName, NEW k \in Nat, Waiting(c) > 0 => k > 0,
         Waiting(c) = sent[n] - last[c], last[c] + k <= sent[n],
         last'[c] = last[c] + k,
         tails'[c] = TailAt(last[c] + k),
         \A d \in Conns \ {c} : last'[d] = last[d] /\ tails'[d] = tails[d],
         NEW us, us = Bound(n), NEW t, t = tails', NEW worst, NEW r,
         IF k > 0 /\ HoldsOldest(rings[n], tails[c])
         THEN Searched(n, us, t, {c}, worst, r)
         ELSE rings' = rings /\ rx_enabled' = rx_enabled /\ timeout' = timeout
  PROVE  Resettled(n)
<1>1. MirrorTypes /\ InstanceOK(n, g[n])
  BY DEF MirrorWith
<1>2. Keeps(rings[n], g[n], sent[n])
  BY <1>1 DEF InstanceOK
<1>3. last[c] \in Nat /\ sent[n] \in Nat /\ g[n] \in Nat /\ g[n] <= last[c]
  BY SessionNumbers
<1>4. ASSUME NEW d \in Conns, mi[d] = n
      PROVE  last'[d] \in g[n]..sent[n] /\ tails'[d] = TailAt(last'[d])
  <2>1. CASE d = c
    <3>1. last'[d] \in g[n]..sent[n]
      BY <1>3, <2>1
    <3> QED BY <2>1, <3>1
  <2>2. CASE d # c
    <3>1. last[d] \in g[n]..sent[n] /\ tails[d] = TailAt(last[d])
      BY <1>4 DEF MirrorWith, SessionOK
    <3> QED BY <1>3, <2>2, <3>1
  <2> QED BY <2>1, <2>2
<1>5. \A d \in timeout : /\ d \in Conns /\ mi[d] # NoName /\ last[d] = g[mi[d]]
                         /\ last[d] < sent[mi[d]]
  BY <1>1 DEF MirrorTypes, MirrorWith, TimedOK
<1>6. CASE k > 0 /\ HoldsOldest(rings[n], tails[c])
  <2>1. us = {d \in Conns : mi[d] = n} /\ c \in us
    BY DEF Bound
  <2>2. \A u \in us : last'[u] \in g[n]..sent[n]
                      /\ tails'[u] = TailAt(last'[u])
    BY <1>4, <2>1
  <2>3. Searched(n, us, t, {c}, worst, r)
    BY <1>6
  <2>4. rx_enabled[n] \/ FreeElements(rings[n]) < RXFLOW_MAX
    BY <1>1 DEF InstanceOK
  <2>5. DOMAIN rings = Names /\ rx_enabled \in [Names -> BOOLEAN]
    BY <1>1 DEF MirrorTypes
  <2>6. us # {}
    BY <2>1
  <2>7. PICK q \in g[n]..sent[n] :
           /\ Keeps(rings'[n], q, sent[n])
           /\ \A u \in us : q <= last'[u]
           /\ DOMAIN rings' = Names
           /\ rx_enabled' \in [Names -> BOOLEAN]
           /\ rx_enabled'[n] \/ FreeElements(rings'[n]) < RXFLOW_MAX
           /\ \A o \in Names \ {n} : rings'[o] = rings[o] /\ rx_enabled'[o] = rx_enabled[o]
           /\ \A u \in timeout' : u \in timeout \ {c}
                                  \/ (u \in us /\ last'[u] = q /\ q < sent[n])
    <3>0. PICK f, m, pos : f = g[n] /\ m = sent[n] /\ pos = last'
      OBVIOUS
    <3>1. DOMAIN rings = Names
      BY <2>5
    <3>2. rx_enabled \in [Names -> BOOLEAN]
      BY <2>5
    <3>3. Keeps(rings[n], f, m)
      BY <1>2, <3>0
    <3>4. \A u \in us : pos[u] \in f..m /\ t[u] = TailAt(pos[u])
      BY <2>2, <3>0
    <3>5. Moved(n, f, m, us, pos, {c})
      BY <2>3, <2>4, <2>6, <3>1, <3>2, <3>3, <3>4, WorstMoves
    <3> QED BY <3>0, <3>5 DEF Moved
  <2>8. q \in Nat /\ g[n] <= q
    BY <1>3
  <2>9. ASSUME NEW d \in timeout'
        PROVE  d \in Conns /\ (\/ d \in timeout /\ mi[d] # n
                               \/ mi[d] = n /\ last'[d] = q /\ q < sent[n])
    <3>1. CASE d \in us /\ last'[d] = q /\ q < sent[n]
      BY <2>1, <3>1
    <3>2. CASE d \in timeout \ {c} /\ mi[d] # n
      BY <1>5, <3>2
    <3>3. CASE d \in timeout \ {c} /\ mi[d] = n
      <4>1. d \in us /\ last'[d] = last[d] /\ last[d] = g[n] /\ g[n] < sent[n] /\ d \in Conns
        BY <1>3, <1>5, <2>1, <3>3
      <4>2. q <= g[n]
        BY <2>7, <4>1
      <4>3. q = g[n]
        <5>1. q \in Nat
          BY <2>8
        <5>2. g[n] \in Nat
          OBVIOUS
        <5>3. g[n] <= q
          BY <2>8
        <5> QED BY <4>2, <5>1, <5>2, <5>3
      <4> QED BY <3>3, <4>1, <4>3
    <3> QED BY <2>7, <3>1, <3>2, <3>3
  <2> QED BY <2>1, <2>7, <2>8, <2>9 DEF Resettled
<1>7. CASE ~(k > 0 /\ HoldsOldest(rings[n], tails[c]))
  <2>1. rings' = rings /\ rx_enabled' = rx_enabled /\ timeout' = timeout
    BY <1>7
  <2>2. c \notin timeout
    <3>1. CASE k = 0
      <4>1. ~(last[c] < sent[n])
        BY <1>3, <3>1
      <4> QED BY <1>5, <4>1
    <3>2. CASE k > 0
      <4>1. rings[n].oldest_tail # tails[c]
        BY <1>7, <3>2 DEF HoldsOldest
      <4>2. last[c] # g[n]
        BY <4>1, AtOldest
      <4> QED BY <1>5, <4>2
    <3> QED BY <1>3, <3>1, <3>2
  <2>3. \A d \in Conns : mi[d] = n => g[n] <= last'[d]
    <3> TAKE d \in Conns
    <3>1. mi[d] = n => last'[d] \in g[n]..sent[n]
      BY <1>4
    <3> QED BY <1>3, <3>1
  <2>4. \A d \in timeout : mi[d] = n => last'[d] = g[n] /\ g[n] < sent[n]
    BY <1>3, <1>5, <2>2
  <2>5. rx_enabled[n] \/ FreeElements(rings[n]) < RXFLOW_MAX
    BY <1>1 DEF InstanceOK
  <2>6. DOMAIN rings = Names /\ rx_enabled \in [Names -> BOOLEAN]
    BY <1>1 DEF MirrorTypes
  <2> QED BY <1>2, <1>3, <1>5, <2>1, <2>3, <2>4, <2>5, <2>6 DEF Resettled
<1> QED BY <1>6, <1>7

LEMMA WriteableKeeps ==
  ASSUME NEW g \in [Names -> Nat], MirrorWith(g), NEW c \in Conns, Writeable(c)
  PROVE  MirrorInv'
<1>1. mi[c] \in Names /\ mi[c] # NoName
  BY DEF MirrorWith, MirrorTypes, Writeable
<1>2. PICK n \in Names : n = mi[c]
  BY <1>1
<1>3. PICK k \in 0..Waiting(c) :
         /\ Waiting(c) > 0 => k > 0
         /\ last' = [last EXCEPT ![c] = IF k > 0
                                        THEN CopyOut(rings[n], tails[c], k)[k] ELSE @]
         /\ tails' = [tails EXCEPT ![c] = After(rings[n], @, k)]
         /\ pollout' = (pollout \ {c}) \cup AskAgain(c, Waiting(c) - k)
         /\ UNCHANGED <<mi, unasked, mi_list, sent, stuck>>
         /\ IF k > 0 /\ HoldsOldest(rings[n], tails[c])
            THEN UpdateWorstTail(n, Bound(n), tails', {c})
            ELSE UNCHANGED <<rings, rx_enabled, rxflow, timeout, backlog, newcomer>>
  BY <1>2 DEF Writeable
<1>5. /\ Waiting(c) = sent[n] - last[c]
      /\ last[c] \in Nat /\ k \in Nat /\ sent[n] \in Nat /\ g[n] \in Nat
      /\ g[n] <= last[c] /\ last[c] + k <= sent[n]
      /\ last'[c] = last[c] + k
      /\ tails'[c] = TailAt(last[c] + k)
      /\ DOMAIN last' = Conns /\ DOMAIN tails' = Conns
      /\ \A d \in Conns \ {c} : last'[d] = last[d] /\ tails'[d] = tails[d]
  <2>1. last' = [last EXCEPT ![c] = IF k > 0
                                    THEN CopyOut(rings[n], tails[c], k)[k] ELSE @]
    BY <1>3
  <2>2. tails' = [tails EXCEPT ![c] = After(rings[n], @, k)]
    BY <1>3
  <2>3. n # NoName
    BY <1>1, <1>2
  <2>4. k \in 0..Waiting(c)
    BY <1>3
  <2> QED BY <1>2, <2>1, <2>2, <2>3, <2>4, WriteMoves, ZenonT(30)
<1>11. Resettled(n)
  <2>1. Waiting(c) > 0 => k > 0
    BY <1>3
  <2> DEFINE w == WorstTail(rings[n], Bound(n), tails')
             v == lws_ring_update_oldest_tail(rings[n], w)
  <2>2. PICK us, t, worst, r : us = Bound(n) /\ t = tails' /\ worst = w /\ r = v
    OBVIOUS
  <2>3. IF k > 0 /\ HoldsOldest(rings[n], tails[c])
        THEN Searched(n, us, t, {c}, worst, r)
        ELSE rings' = rings /\ rx_enabled' = rx_enabled /\ timeout' = timeout
    <3>1. CASE k > 0 /\ HoldsOldest(rings[n], tails[c])
      <4>1. UpdateWorstTail(n, Bound(n), tails', {c})
        BY <1>3, <3>1
      <4>2. Searched(n, Bound(n), tails', {c}, w, v)
        BY <4>1 DEF UpdateWorstTail, TimeoutAfter, Searched
      <4> HIDE DEF w, v
      <4>3. Searched(n, us, t, {c}, worst, r)
        BY <2>2, <4>2 DEF Searched
      <4> QED BY <3>1, <4>3
    <3>2. CASE ~(k > 0 /\ HoldsOldest(rings[n], tails[c]))
      BY <1>3, <3>2
    <3> QED BY <3>1, <3>2
  <2> HIDE DEF w, v
  <2>4. us = Bound(n)
    BY <2>2
  <2>5. t = tails'
    BY <2>2
  <2>6. n # NoName
    BY <1>1, <1>2
  <2>7. k \in Nat
    BY <1>5
  <2>8. Waiting(c) = sent[n] - last[c]
    BY <1>5
  <2>9. last[c] + k <= sent[n]
    BY <1>5
  <2>10. last'[c] = last[c] + k
    BY <1>5
  <2>11. tails'[c] = TailAt(last[c] + k)
    BY <1>5
  <2>12. \A d \in Conns \ {c} : last'[d] = last[d] /\ tails'[d] = tails[d]
    BY <1>5
  <2> QED BY <1>2, <2>1, <2>3, <2>4, <2>5, <2>6, <2>7, <2>8, <2>9, <2>10, <2>11, <2>12, WriteRing
<1>4. PICK q \in Nat :
           /\ Keeps(rings'[n], q, sent[n])
           /\ \A d \in Conns : mi[d] = n => q <= last'[d]
           /\ DOMAIN rings' = Names
           /\ rx_enabled' \in [Names -> BOOLEAN]
           /\ rx_enabled'[n] \/ FreeElements(rings'[n]) < RXFLOW_MAX
           /\ \A o \in Names \ {n} : rings'[o] = rings[o] /\ rx_enabled'[o] = rx_enabled[o]
           /\ \A d \in timeout' : /\ d \in Conns
                                  /\ \/ d \in timeout /\ mi[d] # n
                                     \/ mi[d] = n /\ last'[d] = q /\ q < sent[n]
  BY <1>11 DEF Resettled
<1>6. /\ mi' = mi /\ unasked' = unasked /\ mi_list' = mi_list /\ sent' = sent
      /\ pollout' = (pollout \ {c}) \cup AskAgain(c, Waiting(c) - k)
  BY <1>3
<1> DEFINE h == [g EXCEPT ![n] = q]
<1>7. h \in [Names -> Nat] /\ h[n] = q /\ \A o \in Names \ {n} : h[o] = g[o]
  OBVIOUS
<1> HIDE DEF h
<1>8. MirrorTypes'
  BY <1>4, <1>5, <1>6 DEF MirrorWith, MirrorTypes
<1>9. ASSUME NEW o \in Names PROVE InstanceOK(o, h[o])'
  <2>1. InstanceOK(o, g[o])
    BY DEF MirrorWith
  <2> QED BY <1>4, <1>6, <1>7, <2>1 DEF InstanceOK
<1>10. ASSUME NEW d \in Conns PROVE SessionOK(d, h)' /\ TimedOK(d, h)'
  <2>1. SessionOK(d, g) /\ TimedOK(d, g)
    BY DEF MirrorWith
  <2>2. mi[d] # NoName => /\ mi[d] \in Names /\ sent[mi[d]] \in Nat /\ last[d] \in Nat
                          /\ last[d] \in g[mi[d]]..sent[mi[d]]
    BY SessionNumbers
  <2>3. SessionOK(d, h)'
    <3>1. CASE d = c
      <4>1. last'[c] \in q..sent[n]
        <5>1. q <= last'[c]
          BY <1>2, <1>4
        <5> QED BY <1>5, <5>1
      <4>2. last'[c] < sent[n] => c \in pollout'
        <5>1. last'[c] < sent[n] => Waiting(c) - k > 0
          BY <1>5
        <5> QED BY <1>6, <5>1 DEF AskAgain
      <4> QED BY <1>2, <1>5, <1>6, <1>7, <3>1, <4>1, <4>2 DEF SessionOK
    <3>2. CASE d # c /\ mi[d] = n
      <4>1. last[d] \in q..sent[n]
        <5>1. q <= last[d]
          BY <1>4, <1>5, <3>2
        <5>2. last[d] \in Nat /\ last[d] \in g[n]..sent[n]
          BY <1>1, <1>2, <2>2, <3>2
        <5> QED BY <1>5, <5>1, <5>2
      <4> QED BY <1>2, <1>5, <1>6, <1>7, <2>1, <3>2, <4>1 DEF SessionOK
    <3>3. CASE d # c /\ mi[d] # n
      BY <1>5, <1>6, <1>7, <2>1, <2>2, <3>3 DEF SessionOK
    <3> QED BY <1>2, <3>1, <3>2, <3>3
  <2>4. TimedOK(d, h)'
    <3> SUFFICES ASSUME d \in timeout'
                 PROVE  mi'[d] # NoName /\ last'[d] = h[mi'[d]] /\ last'[d] < sent'[mi'[d]]
      BY DEF TimedOK
    <3>1. CASE mi[d] = n
      BY <1>1, <1>2, <1>4, <1>6, <1>7, <3>1
    <3>2. CASE mi[d] # n
      <4>1. d \in timeout
        BY <1>4, <3>2
      <4>2. mi[d] # NoName /\ last[d] = g[mi[d]] /\ last[d] < sent[mi[d]]
        BY <2>1, <4>1 DEF TimedOK
      <4>3. d # c /\ mi[d] \in Names \ {n}
        BY <1>2, <2>2, <3>2, <4>2
      <4> QED BY <1>5, <1>6, <1>7, <4>2, <4>3
    <3> QED BY <3>1, <3>2
  <2> QED BY <2>3, <2>4
<1> QED BY <1>7, <1>8, <1>9, <1>10, MirrorNext

(* CLOSED: the others of the instance, if there are any, move it on; the     *)
(* last one takes it away.                                                   *)
LEMMA ClosedRing ==
  ASSUME NEW g \in [Names -> Nat], MirrorWith(g), NEW c \in Conns,
         NEW n \in Names, n = mi[c], Closed(c)
  PROVE  \E q \in Nat :
           /\ Keeps(rings'[n], q, sent'[n])
           /\ \A d \in Conns \ {c} : mi[d] = n => q <= last[d] /\ sent'[n] = sent[n]
           /\ (n \in mi_list') <=> (\E d \in Conns \ {c} : mi[d] = n)
           /\ \A o \in Names \ {n} : o \in mi_list' <=> o \in mi_list
           /\ mi_list' \in SUBSET Names
           /\ DOMAIN rings' = Names /\ DOMAIN sent' = Names
           /\ rx_enabled' \in [Names -> BOOLEAN]
           /\ rx_enabled'[n] \/ FreeElements(rings'[n]) < RXFLOW_MAX
           /\ \A o \in Names \ {n} : /\ rings'[o] = rings[o] /\ rx_enabled'[o] = rx_enabled[o]
                                     /\ sent'[o] = sent[o]
           /\ \A d \in timeout' : /\ d \in Conns \ {c}
                                  /\ \/ d \in timeout /\ mi[d] # n
                                     \/ mi[d] = n /\ last[d] = q /\ q < sent'[n]
<1> DEFINE us == Bound(n) \ {c}
<1>1. MirrorTypes /\ InstanceOK(n, g[n])
  BY DEF MirrorWith
<1>2. Keeps(rings[n], g[n], sent[n]) /\ n \in mi_list
  BY <1>1 DEF InstanceOK
<1>3. us = {d \in Conns \ {c} : mi[d] = n}
  BY DEF Bound
<1>4. \A d \in timeout : /\ d \in Conns /\ mi[d] # NoName /\ last[d] = g[mi[d]]
                         /\ last[d] < sent[mi[d]]
  BY <1>1 DEF MirrorTypes, MirrorWith, TimedOK
<1>5. n # NoName
  BY MirrorAssumption
<1>6. sent[n] \in Nat
  BY <1>2, KeepsNumbers
<1>7. CASE us # {}
  <2>1. UpdateWorstTail(n, us, tails, {c}) /\ mi_list' = mi_list /\ sent' = sent
    BY <1>7 DEF Closed
  <2>2. PICK f, m, t, pos, S : f = g[n] /\ m = sent[n] /\ t = tails /\ pos = last /\ S = us
    OBVIOUS
  <2>3. PICK worst, r : /\ worst = WorstTail(rings[n], S, t)
                        /\ r = lws_ring_update_oldest_tail(rings[n], worst)
    OBVIOUS
  <2>4. Searched(n, S, t, {c}, worst, r)
    <3> DEFINE w == WorstTail(rings[n], us, tails)
               u == lws_ring_update_oldest_tail(rings[n], w)
    <3> HIDE DEF us
    <3>3. UpdateWorstTail(n, us, tails, {c})
      BY <2>1
    <3>1. Searched(n, us, tails, {c}, w, u)
      BY <3>3, SearchIs
    <3>2. w = worst /\ u = r
      BY <2>2, <2>3
    <3> HIDE DEF w, u
    <3> QED BY <2>2, <3>1, <3>2 DEF Searched
  <2> HIDE DEF us
  <2>5. \A u \in S : pos[u] \in f..m /\ t[u] = TailAt(pos[u])
    BY <1>3, <1>5, <2>2 DEF MirrorWith, SessionOK
  <2>6. Keeps(rings[n], f, m)
    BY <1>2, <2>2
  <2>7. rx_enabled[n] \/ FreeElements(rings[n]) < RXFLOW_MAX
    BY <1>1 DEF InstanceOK
  <2>8. DOMAIN rings = Names
    BY <1>1 DEF MirrorTypes
  <2>9. rx_enabled \in [Names -> BOOLEAN]
    BY <1>1 DEF MirrorTypes
  <2>10. S # {}
    BY <1>7, <2>2
  <2>11. Moved(n, f, m, S, pos, {c})
    BY <2>4, <2>5, <2>6, <2>7, <2>8, <2>9, <2>10, WorstMoves
  <2>12. PICK q \in g[n]..sent[n] :
           /\ Keeps(rings'[n], q, sent[n])
           /\ \A u \in us : q <= last[u]
           /\ DOMAIN rings' = Names
           /\ rx_enabled' \in [Names -> BOOLEAN]
           /\ rx_enabled'[n] \/ FreeElements(rings'[n]) < RXFLOW_MAX
           /\ \A o \in Names \ {n} : rings'[o] = rings[o] /\ rx_enabled'[o] = rx_enabled[o]
           /\ \A u \in timeout' : u \in timeout \ {c}
                                  \/ (u \in us /\ last[u] = q /\ q < sent[n])
    BY <2>2, <2>11 DEF Moved
  <2>13. q \in Nat /\ g[n] <= q
    BY <1>6
  <2>14. ASSUME NEW d \in timeout'
         PROVE  d \in Conns \ {c} /\ (\/ d \in timeout /\ mi[d] # n
                                      \/ mi[d] = n /\ last[d] = q /\ q < sent[n])
    <3>1. CASE d \in us /\ last[d] = q /\ q < sent[n]
      BY <1>3, <3>1
    <3>2. CASE d \in timeout \ {c} /\ mi[d] # n
      BY <1>4, <3>2
    <3>3. CASE d \in timeout \ {c} /\ mi[d] = n
      <4>1. d \in us /\ last[d] = g[n] /\ g[n] < sent[n] /\ d \in Conns \ {c}
        BY <1>3, <1>4, <3>3
      <4>2. q <= g[n]
        BY <2>12, <4>1
      <4>3. q \in Nat
        BY <2>13
      <4>4. g[n] <= q
        BY <2>13
      <4>5. g[n] \in Nat
        OBVIOUS
      <4>6. q = g[n]
        BY <4>2, <4>3, <4>4, <4>5
      <4> QED BY <3>3, <4>1, <4>6
    <3> QED BY <2>12, <3>1, <3>2, <3>3
  <2>15. \E d \in Conns \ {c} : mi[d] = n
    BY <1>3, <1>7
  <2>16. mi_list' \in SUBSET Names /\ DOMAIN sent' = Names
    BY <1>1, <2>1 DEF MirrorTypes
  <2>17. \A d \in Conns \ {c} : mi[d] = n => q <= last[d]
    BY <1>3, <2>12
  <2> QED BY <1>2, <2>1, <2>12, <2>13, <2>14, <2>15, <2>16, <2>17
<1>8. CASE us = {}
  <2>1. /\ mi_list' = mi_list \ {n}
        /\ rings' = [rings EXCEPT ![n] = lws_ring_create(MessageLen, QUEUELEN)]
        /\ rx_enabled' = [rx_enabled EXCEPT ![n] = TRUE]
        /\ sent' = [sent EXCEPT ![n] = 0]
        /\ timeout' = timeout \ {c}
    BY <1>8 DEF Closed
  <2> HIDE DEF us
  <2>2. /\ rings'[n] = lws_ring_create(MessageLen, QUEUELEN)
        /\ DOMAIN rings' = Names /\ \A o \in Names \ {n} : rings'[o] = rings[o]
    BY <1>1, <2>1 DEF MirrorTypes
  <2>3. sent'[n] = 0 /\ DOMAIN sent' = Names /\ \A o \in Names \ {n} : sent'[o] = sent[o]
    BY <1>1, <2>1 DEF MirrorTypes
  <2>4. /\ rx_enabled' \in [Names -> BOOLEAN] /\ rx_enabled'[n]
        /\ \A o \in Names \ {n} : rx_enabled'[o] = rx_enabled[o]
    BY <1>1, <2>1 DEF MirrorTypes
  <2>5. Keeps(rings'[n], 0, sent'[n])
    BY <2>2, <2>3, KeepsNew, MirrorAssumption
  <2>6. \A d \in Conns \ {c} : mi[d] # n
    BY <1>3, <1>8
  <2>7. \A d \in timeout' : d \in Conns \ {c} /\ d \in timeout /\ mi[d] # n
    BY <1>4, <2>1, <2>6
  <2>8. mi_list' \in SUBSET Names /\ \A o \in Names \ {n} : o \in mi_list' <=> o \in mi_list
    BY <1>1, <2>1 DEF MirrorTypes
  <2>9. n \notin mi_list'
    BY <2>1
  <2> QED BY <2>2, <2>3, <2>4, <2>5, <2>6, <2>7, <2>8, <2>9
<1> QED BY <1>7, <1>8

LEMMA ClosedKeeps ==
  ASSUME NEW g \in [Names -> Nat], MirrorWith(g), NEW c \in Conns,
         Closed(c)
  PROVE  MirrorInv'
<1>1. mi[c] \in Names
  BY DEF MirrorWith, MirrorTypes, Closed
<1>2. PICK n \in Names : n = mi[c]
  BY <1>1
<1>3. PICK q \in Nat :
           /\ Keeps(rings'[n], q, sent'[n])
           /\ \A d \in Conns \ {c} : mi[d] = n => q <= last[d] /\ sent'[n] = sent[n]
           /\ (n \in mi_list') <=> (\E d \in Conns \ {c} : mi[d] = n)
           /\ \A o \in Names \ {n} : o \in mi_list' <=> o \in mi_list
           /\ mi_list' \in SUBSET Names
           /\ DOMAIN rings' = Names /\ DOMAIN sent' = Names
           /\ rx_enabled' \in [Names -> BOOLEAN]
           /\ rx_enabled'[n] \/ FreeElements(rings'[n]) < RXFLOW_MAX
           /\ \A o \in Names \ {n} : /\ rings'[o] = rings[o] /\ rx_enabled'[o] = rx_enabled[o]
                                     /\ sent'[o] = sent[o]
           /\ \A d \in timeout' : /\ d \in Conns \ {c}
                                  /\ \/ d \in timeout /\ mi[d] # n
                                     \/ mi[d] = n /\ last[d] = q /\ q < sent'[n]
  BY <1>2, ClosedRing
<1>4. MirrorTypes
  BY DEF MirrorWith
<1>5. /\ mi' = [mi EXCEPT ![c] = NoName]
      /\ tails' = [tails EXCEPT ![c] = 0]
      /\ last' = [last EXCEPT ![c] = 0]
      /\ pollout' = pollout \ {c} /\ unasked' = unasked \ {c}
  BY DEF Closed
<1>6. /\ mi'[c] = NoName /\ mi' \in [Conns -> Names \cup {NoName}]
      /\ DOMAIN tails' = Conns /\ DOMAIN last' = Conns
      /\ \A d \in Conns \ {c} : mi'[d] = mi[d] /\ tails'[d] = tails[d] /\ last'[d] = last[d]
  BY <1>4, <1>5 DEF MirrorTypes
<1> DEFINE h == [g EXCEPT ![n] = q]
<1>7. h \in [Names -> Nat] /\ h[n] = q /\ \A o \in Names \ {n} : h[o] = g[o]
  OBVIOUS
<1> HIDE DEF h
<1>8. MirrorTypes'
  <2>1. timeout' \in SUBSET Conns
    BY <1>3
  <2> QED BY <1>3, <1>6, <2>1 DEF MirrorTypes
<1>9. ASSUME NEW o \in Names PROVE InstanceOK(o, h[o])'
  <2>1. InstanceOK(o, g[o])
    BY DEF MirrorWith
  <2>2. Keeps(rings'[o], h[o], sent'[o])
    BY <1>3, <1>7, <2>1 DEF InstanceOK
  <2>3. rx_enabled'[o] \/ FreeElements(rings'[o]) < RXFLOW_MAX
    BY <1>3, <2>1 DEF InstanceOK
  <2>4. (o \in mi_list') <=> (\E d \in Conns : mi'[d] = o)
    <3>1. NoName # o
      BY MirrorAssumption
    <3>2. (\E d \in Conns : mi'[d] = o) <=> (\E d \in Conns \ {c} : mi[d] = o)
      BY <1>6, <3>1
    <3>3. CASE o = n
      BY <1>3, <3>2, <3>3
    <3>4. CASE o # n
      BY <1>2, <1>3, <2>1, <3>2, <3>4 DEF InstanceOK
    <3> QED BY <3>3, <3>4
  <2> QED BY <2>2, <2>3, <2>4 DEF InstanceOK
<1>10. ASSUME NEW d \in Conns PROVE SessionOK(d, h)' /\ TimedOK(d, h)'
  <2>1. SessionOK(d, g) /\ TimedOK(d, g)
    BY DEF MirrorWith
  <2>2. CASE d = c
    <3>1. d \notin timeout'
      BY <1>3, <2>2
    <3> QED BY <1>6, <2>2, <3>1 DEF SessionOK, TimedOK
  <2>3. CASE d # c /\ mi[d] = n
    <3>1. n # NoName
      BY MirrorAssumption
    <3>2. last[d] \in q..sent[n]
      <4>1. last[d] \in Nat /\ last[d] \in g[n]..sent[n] /\ g[n] \in Nat /\ sent[n] \in Nat
        BY <2>3, <3>1, SessionNumbers
      <4>2. q <= last[d]
        BY <1>3, <2>3
      <4> QED BY <4>1, <4>2
    <3>3. sent'[n] = sent[n]
      BY <1>3, <2>3
    <3>4. SessionOK(d, h)'
      BY <1>5, <1>6, <1>7, <2>1, <2>3, <3>2, <3>3 DEF SessionOK
    <3>5. TimedOK(d, h)'
      BY <1>3, <1>6, <1>7, <2>3, <3>1 DEF TimedOK
    <3> QED BY <3>4, <3>5
  <2>4. CASE d # c /\ mi[d] # n
    <3>1. mi[d] # NoName => mi[d] \in Names \ {n}
      BY <2>4, SessionNumbers
    <3>2. mi[d] # NoName => h[mi[d]] = g[mi[d]] /\ sent'[mi[d]] = sent[mi[d]]
      BY <1>3, <1>7, <3>1
    <3>3. SessionOK(d, h)'
      BY <1>5, <1>6, <2>1, <2>4, <3>2 DEF SessionOK
    <3>4. d \in timeout' => d \in timeout
      BY <1>3, <2>4
    <3>5. TimedOK(d, h)'
      BY <1>6, <2>1, <2>4, <3>2, <3>4 DEF TimedOK
    <3> QED BY <3>3, <3>5
  <2> QED BY <2>2, <2>3, <2>4
<1> QED BY <1>7, <1>8, <1>9, <1>10, MirrorNext

LEMMA MirrorStep ==
  ASSUME MirrorInv, [MNext]_mirrorVars
  PROVE  MirrorInv'
<1>1. PICK g \in [Names -> Nat] : MirrorWith(g)
  BY DEF MirrorInv
<1>2. CASE MNext
  <2>1. PICK c \in Conns : \/ \E n \in Names : Established(c, n)
                           \/ Receive(c)
                           \/ Writeable(c)
                           \/ Closed(c)
                           \/ LibraryWrite(c)
                           \/ PeerStopsReading(c)
    BY <1>2 DEF MNext
  <2>2. CASE \E n \in Names : Established(c, n)
    BY <1>1, <2>2, EstablishedKeeps
  <2>3. CASE Receive(c)
    BY <1>1, <2>3, ReceiveKeeps
  <2>4. CASE Writeable(c)
    BY <1>1, <2>4, WriteableKeeps
  <2>5. CASE Closed(c)
    BY <1>1, <2>5, ClosedKeeps
  <2>6. CASE LibraryWrite(c) \/ PeerStopsReading(c)
    BY <1>1, <2>6, OthersKeep
  <2> QED BY <2>1, <2>2, <2>3, <2>4, <2>5, <2>6
<1>3. CASE UNCHANGED mirrorVars
  <2>1. /\ mi_list' = mi_list /\ rings' = rings /\ rx_enabled' = rx_enabled /\ sent' = sent
        /\ mi' = mi /\ tails' = tails /\ last' = last /\ unasked' = unasked
        /\ timeout' = timeout /\ pollout' = pollout
    BY <1>3 DEF mirrorVars, instanceVars
  <2>2. MirrorWith(g)'
    BY <1>1, <2>1 DEF MirrorWith, MirrorTypes, InstanceOK, SessionOK, TimedOK
  <2> QED BY <2>2 DEF MirrorInv
<1> QED BY <1>2, <1>3

(***************************************************************************)
(* The invariant of the mirror plugin, for any number of sessions and       *)
(* instances and any size of ring: where every session, its tail and the    *)
(* oldest tail are in the sequence of the messages that came in.            *)
(***************************************************************************)
THEOREM MirrorInvariant ==
  MSpec => []MirrorInv
<1>1. MInit => MirrorInv
  BY MirrorInit
<1>2. MirrorInv /\ [MNext]_mirrorVars => MirrorInv'
  BY MirrorStep
<1> QED BY <1>1, <1>2, PTL DEF MSpec

(***************************************************************************)
(* Nothing is lost: what SERVER_WRITEABLE finds in the ring for a session   *)
(* are the messages it has not had, each once and in order.                 *)
(***************************************************************************)
THEOREM MirrorLosesNothing ==
  MSpec => []NothingLost
<1>1. MirrorInv => NothingLost
  <2> SUFFICES ASSUME MirrorInv, NEW c \in Conns, mi[c] # NoName
               PROVE  CopyOut(rings[mi[c]], tails[c], Waiting(c))
                        = [i \in 1..(sent[mi[c]] - last[c]) |-> last[c] + i]
    BY DEF NothingLost
  <2>1. PICK g \in [Names -> Nat] : MirrorWith(g)
    BY DEF MirrorInv
  <2>2. PICK r, f, m, p, k : /\ r = rings[mi[c]] /\ f = g[mi[c]] /\ m = sent[mi[c]]
                             /\ p = last[c] /\ k = m - p
    OBVIOUS
  <2>3. /\ Keeps(r, f, m) /\ m \in Nat /\ p \in Nat /\ p \in f..m
        /\ WaitingElements(r, tails[c]) = k
    BY <2>1, <2>2, SessionNumbers
  <2>4. tails[c] = TailAt(p)
    BY <2>1, <2>2 DEF MirrorWith, SessionOK
  <2>5. k \in 0..(m - p)
    BY <2>2, <2>3
  <2>6. CopyOut(r, TailAt(p), k) = [i \in 1..k |-> p + i]
    BY <2>3, <2>5, KeepsCopy
  <2> QED BY <2>2, <2>3, <2>4, <2>6 DEF Waiting
<1> QED BY <1>1, MirrorInvariant, PTL

(***************************************************************************)
(* Nobody stalls: reception is off only while there is too little room,     *)
(* whoever made the room, and whoever has messages waiting has a callback   *)
(* coming or joined a backlog nobody has added to since.                    *)
(***************************************************************************)
THEOREM MirrorNeverStalls ==
  MSpec => []NobodyStalls
<1>1. MirrorInv => NobodyStalls
  <2> SUFFICES ASSUME MirrorInv PROVE NobodyStalls
    OBVIOUS
  <2>1. PICK g \in [Names -> Nat] : MirrorWith(g)
    BY DEF MirrorInv
  <2>2. ReceptionReopens
    BY <2>1 DEF MirrorWith, MirrorTypes, InstanceOK, ReceptionReopens
  <2>3. OnItsWay
    <3> SUFFICES ASSUME NEW c \in Conns, mi[c] # NoName, Waiting(c) > 0
                 PROVE  c \in pollout \/ c \in unasked \ pollout
      BY DEF OnItsWay, Silent
    <3>1. /\ sent[mi[c]] \in Nat /\ last[c] \in Nat
          /\ WaitingElements(rings[mi[c]], tails[c]) = sent[mi[c]] - last[c]
      BY <2>1, SessionNumbers
    <3>2. last[c] < sent[mi[c]]
      BY <3>1 DEF Waiting
    <3> QED BY <2>1, <3>2 DEF MirrorWith, SessionOK
  <2> QED BY <2>2, <2>3 DEF NobodyStalls
<1> QED BY <1>1, MirrorInvariant, PTL

(***************************************************************************)
(* Whoever is on the three second timeout holds the oldest tail and has     *)
(* messages waiting: nobody else is hung up on by it.                       *)
(***************************************************************************)
THEOREM MirrorTimesOnlySlowest ==
  MSpec => []OnlySlowestTimed
<1>1. MirrorInv => OnlySlowestTimed
  <2> SUFFICES ASSUME MirrorInv, NEW c \in timeout
               PROVE  /\ mi[c] # NoName
                      /\ tails[c] = rings[mi[c]].oldest_tail
                      /\ Waiting(c) > 0
    BY DEF OnlySlowestTimed
  <2>1. PICK g \in [Names -> Nat] : MirrorWith(g)
    BY DEF MirrorInv
  <2>2. c \in Conns
    BY <2>1 DEF MirrorWith, MirrorTypes
  <2>3. mi[c] # NoName /\ last[c] = g[mi[c]] /\ last[c] < sent[mi[c]]
    BY <2>1, <2>2 DEF MirrorWith, TimedOK
  <2>4. tails[c] = rings[mi[c]].oldest_tail
    BY <2>1, <2>2, <2>3, AtOldest
  <2>5. /\ sent[mi[c]] \in Nat /\ last[c] \in Nat
        /\ WaitingElements(rings[mi[c]], tails[c]) = sent[mi[c]] - last[c]
    BY <2>1, <2>2, <2>3, SessionNumbers
  <2>6. Waiting(c) > 0
    BY <2>3, <2>5 DEF Waiting
  <2> QED BY <2>3, <2>4, <2>6
<1> QED BY <1>1, MirrorInvariant, PTL
=============================================================================
