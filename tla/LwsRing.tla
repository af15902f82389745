------------------------------- MODULE LwsRing -------------------------------
(***************************************************************************)
(* lib/misc/lws-ring.c: the functions, as operators on a ring record.  head *)
(* and tails are byte offsets, as in the code; whole elements are copied,    *)
(* so buf has one entry per element.                                        *)
(***************************************************************************)
EXTENDS Integers, Sequences

CONSTANTS
  DestroyElement,    \* whether the creator gave a destroy_element callback
  Garbage            \* content of memory never written, or of a destroyed element

ASSUME RingAssumption == DestroyElement \in BOOLEAN

MinOf(a, b) == IF a <= b THEN a ELSE b

(* Where the element i places after the byte offset p starts.                *)
After(ring, p, i) == (p + i * ring.element_len) % ring.buflen
Slot(ring, p) == p \div ring.element_len

lws_ring_create(element_len, count) ==
  [buflen |-> count * element_len,
   element_len |-> element_len,
   head |-> 0,
   oldest_tail |-> 0,
   buf |-> [i \in 0..(count - 1) |-> Garbage]]

(* lws_ring_get_count_free_elements(): one element is always kept free, and  *)
(* less than two bytes count as nothing.                                     *)
FreeElements(ring) ==
  LET f == IF ring.head = ring.oldest_tail
           THEN ring.buflen - ring.element_len
           ELSE IF ring.head < ring.oldest_tail
                THEN (ring.oldest_tail - ring.head) - ring.element_len
                ELSE (ring.buflen - ring.head) + ring.oldest_tail - ring.element_len
  IN IF f < 2 THEN 0 ELSE f \div ring.element_len

(* lws_ring_get_count_waiting_elements(), with NULL meaning oldest_tail.     *)
WaitingElements(ring, tail) ==
  LET f == IF ring.head = tail
           THEN 0
           ELSE IF ring.head > tail
                THEN ring.head - tail
                ELSE (ring.buflen - tail) + ring.head
  IN f \div ring.element_len

(* The one or two memcpy()s of an insertion, and the head after it.          *)
Fill(ring, src) ==
  LET at == [i \in 1..Len(src) |-> Slot(ring, After(ring, ring.head, i - 1))]
  IN [ring EXCEPT
        !.head = After(ring, @, Len(src)),
        !.buf = [s \in DOMAIN @ |-> IF \E i \in 1..Len(src) : at[i] = s
                                    THEN src[CHOOSE i \in 1..Len(src) : at[i] = s]
                                    ELSE @[s]]]

Inserted(ring, src) == MinOf(FreeElements(ring), Len(src))
lws_ring_insert(ring, src) == Fill(ring, SubSeq(src, 1, Inserted(ring, src)))

(* lws_ring_next_linear_insert_range(): whole elements up to the end.        *)
LinearRange(ring) ==
  IF ring.head + FreeElements(ring) * ring.element_len > ring.buflen
  THEN (ring.buflen - ring.head) \div ring.element_len
  ELSE FreeElements(ring)

(* lws_ring_consume(): how many, what is copied out, where the tail goes.    *)
Consumed(ring, tail, max_count) == MinOf(WaitingElements(ring, tail), max_count)
CopyOut(ring, tail, n) == [i \in 1..n |-> ring.buf[Slot(ring, After(ring, tail, i - 1))]]

(* The elements from byte offset a up to, not including, byte offset b.      *)
SlotsBetween(ring, a, b) ==
  {Slot(ring, After(ring, a, i)) : i \in 0..(((b - a) % ring.buflen) \div ring.element_len - 1)}

\* Mutant: the element at the new oldest tail is destroyed too.
UpdateOldestTailOne(ring, tail) ==
  [ring EXCEPT
     !.oldest_tail = tail,
     !.buf = [s \in DOMAIN @ |-> IF /\ tail # ring.oldest_tail
                                    /\ s \in SlotsBetween(ring, ring.oldest_tail, tail) \cup {Slot(ring, tail)}
                                 THEN Garbage ELSE @[s]]]

lws_ring_update_oldest_tail(ring, tail) ==
  [ring EXCEPT
     !.oldest_tail = tail,
     !.buf = [s \in DOMAIN @ |-> IF DestroyElement /\ s \in SlotsBetween(ring, ring.oldest_tail, tail)
                                 THEN Garbage ELSE @[s]]]

(* lws_ring_destroy(): what is left is destroyed before the memory goes.     *)
lws_ring_destroy(ring) == lws_ring_update_oldest_tail(ring, ring.head)
=============================================================================
