------------------------------ MODULE RingUsers ------------------------------
(***************************************************************************)
(* An lws_ring and everything its users may do with it: one writer that     *)
(* inserts whole batches or writes into the buffer directly, readers with a *)
(* tail each that follow the macros of lws-ring.h, and the user with no     *)
(* tail of its own, who passes NULL.  It implements MultiReaderFifo.        *)
(***************************************************************************)
EXTENDS LwsRing

CONSTANTS
  Readers,      \* users with a tail of their own
  NullTail,     \* the user that passes NULL for the tail
  Elements,     \* what is inserted
  Count,        \* the count given to lws_ring_create(): the slots of the buffer
  ElementLens,  \* sizes of an element in bytes to choose from
  MaxBatch,     \* bound: elements per call
  MaxInserts    \* bound: elements inserted in a behaviour

ASSUME UsersAssumption ==
  /\ NullTail \notin Readers
  /\ Garbage \notin Elements
  /\ Count \in Nat \ {0}
  /\ ElementLens \subseteq Nat \ {0}
  /\ MaxBatch \in Nat
  /\ MaxInserts \in Nat

VARIABLES
  ring,         \* struct lws_ring
  tail,         \* the tails the users keep
  open,         \* who reads
  destroyed,    \* lws_ring_destroy() was called
  \* history
  log,          \* the elements inserted so far
  from,         \* how many had been given up when a reader came
  got           \* what the reader was given

vars == <<ring, tail, open, destroyed, log, from, got>>

Users == Readers \cup {NullTail}

Freed == IF destroyed THEN Len(log)
         ELSE Len(log) - WaitingElements(ring, ring.oldest_tail)

Init ==
  /\ \E len \in ElementLens : ring = lws_ring_create(len, Count)
  /\ tail = [r \in Users |-> 0]
  /\ open = {}
  /\ destroyed = FALSE
  /\ log = <<>>
  /\ from = [r \in Users |-> 0]
  /\ got = [r \in Users |-> <<>>]

Batches == UNION {[1..n -> Elements] : n \in 0..MaxBatch}

Insert(s) ==
  /\ Len(log) + Len(s) <= MaxInserts
  /\ ring' = lws_ring_insert(ring, s)
  /\ log' = log \o SubSeq(s, 1, Inserted(ring, s))
  /\ UNCHANGED <<tail, open, destroyed, from, got>>

(* Straight into the buffer, up to the wrap; then lws_ring_bump_head().      *)
LinearInsert(s) ==
  /\ Len(log) + Len(s) <= MaxInserts
  /\ Len(s) \in 1..LinearRange(ring)
  /\ ring' = Fill(ring, s)
  /\ log' = log \o s
  /\ UNCHANGED <<tail, open, destroyed, from, got>>

(* A reader starts at lws_ring_get_oldest_tail().  A user of the internal    *)
(* tail is the only one, or it is not used.                                  *)
Join(r) ==
  /\ r \notin open
  /\ NullTail \notin open
  /\ r = NullTail => open = {}
  /\ open' = open \cup {r}
  /\ tail' = [tail EXCEPT ![r] = ring.oldest_tail]
  /\ from' = [from EXCEPT ![r] = Freed]
  /\ got' = [got EXCEPT ![r] = <<>>]
  /\ UNCHANGED <<ring, destroyed, log>>

(* The tail among those of the users in us with most still to read.          *)
Worst(us, tails) ==
  LET worst == CHOOSE u \in us : \A v \in us :
                 WaitingElements(ring, tails[u]) >= WaitingElements(ring, tails[v])
  IN tails[worst]

\* Mutant: the ring is told of every tail that moves.
AfterConsumeAny(r, tails) ==
  lws_ring_update_oldest_tail(ring, tails[r])

(* lws_ring_consume_and_update_oldest_tail(): only who was at the oldest     *)
(* tail can move it on, to the new worst of all.                             *)
AfterConsume(r, tails) ==
  IF tail[r] = ring.oldest_tail
  THEN lws_ring_update_oldest_tail(ring, Worst(open, tails))
  ELSE ring

(* Copies out and consumes up to n elements, with a tail.                    *)
Consume(r, n) ==
  /\ r \in open \ {NullTail}
  /\ LET k == Consumed(ring, tail[r], n) IN
       /\ tail' = [tail EXCEPT ![r] = After(ring, @, k)]
       /\ got' = [got EXCEPT ![r] = @ \o CopyOut(ring, tail[r], k)]
  /\ ring' = AfterConsume(r, tail')
  /\ UNCHANGED <<open, destroyed, log, from>>

(* With NULL for the tail: the oldest tail is the one that moves.            *)
ConsumeSingle(n) ==
  /\ NullTail \in open
  /\ LET k == Consumed(ring, ring.oldest_tail, n) IN
       /\ got' = [got EXCEPT ![NullTail] = @ \o CopyOut(ring, ring.oldest_tail, k)]
       /\ ring' = lws_ring_update_oldest_tail(ring, After(ring, ring.oldest_tail, k))
  /\ UNCHANGED <<tail, open, destroyed, log, from>>

(* A reader goes: the others' worst tail is the oldest from now on.          *)
Leave(r) ==
  /\ r \in open
  /\ open' = open \ {r}
  /\ ring' = IF r = NullTail \/ open' = {} THEN ring
             ELSE lws_ring_update_oldest_tail(ring, Worst(open', tail))
  /\ UNCHANGED <<tail, destroyed, log, from, got>>

Destroy ==
  /\ ring' = lws_ring_destroy(ring)
  /\ open' = {}
  /\ destroyed' = TRUE
  /\ UNCHANGED <<tail, log, from, got>>

Next ==
  /\ ~destroyed
  /\ \/ \E s \in Batches : Insert(s) \/ LinearInsert(s)
     \/ \E r \in Users : Join(r) \/ Leave(r)
     \/ \E r \in Users, n \in 1..MaxBatch : Consume(r, n)
     \/ \E n \in 1..MaxBatch : ConsumeSingle(n)
     \/ Destroy

Spec == Init /\ [][Next]_vars
-----------------------------------------------------------------------------
(***************************************************************************)
(* The ring implements the queue: through wraps, batches that do not fit,    *)
(* readers that come, lag and go, what each reader copies out of the buffer *)
(* is what was inserted, nothing twice, nothing skipped, and elements are   *)
(* given up for reuse only after every reader had them.                     *)
(***************************************************************************)
Fifo == INSTANCE MultiReaderFifo WITH
          Readers <- Users,
          Capacity <- Count - 1,
          freed <- Freed,
          closed <- destroyed

ImplementsFifo == Fifo!Spec

(***************************************************************************)
(* The two counts the callers plan with add up, whatever was inserted and   *)
(* consumed, and with destroy_element nothing in the buffer outlives its    *)
(* last reader.  They add up to one element less than lws-ring.h says: for  *)
(* it `count` is "the number of elements the ringbuffer can contain" (:85)  *)
(* and the free count "how many elements can fit in the free space" (:113), *)
(* but lws_ring_get_count_free_elements() always keeps one element back, so *)
(* a ring of Count slots holds Count - 1 and one of a single slot nothing.  *)
(* It also takes a last free slot of one byte for none: of one-byte         *)
(* elements, one that is inserted alone does not get beyond Count - 2.      *)
(***************************************************************************)
CountsAddUp ==
  ~destroyed =>
    LET waiting == WaitingElements(ring, ring.oldest_tail)
        free == FreeElements(ring)
    IN /\ free + waiting = Count - 1 \/ (ring.element_len = 1 /\ waiting = Count - 2 /\ free = 0)
       /\ DestroyElement =>
            {s \in DOMAIN ring.buf : ring.buf[s] # Garbage}
              = SlotsBetween(ring, ring.oldest_tail, ring.head)
=============================================================================
