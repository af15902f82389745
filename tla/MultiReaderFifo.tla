--------------------------- MODULE MultiReaderFifo ---------------------------
(***************************************************************************)
(* What a ring with one head and several tails promises its users           *)
(* (include/libwebsockets/lws-ring.h): a queue of bounded capacity in which  *)
(* every reader that is open gets every element from the oldest one still   *)
(* kept when it opened, each once and in order, and in which elements are   *)
(* given up only after every open reader had them.                          *)
(***************************************************************************)
EXTENDS Integers, Sequences

CONSTANTS
  Readers,      \* identities of readers
  Elements,     \* what is queued
  Capacity,     \* how many elements are kept at most
  MaxBatch      \* bound: elements offered or asked for at once

VARIABLES
  log,          \* all elements ever accepted
  freed,        \* how many of them were given up
  open,         \* the readers that are open
  from,         \* how many had been given up when a reader opened
  got,          \* what a reader was given since
  closed        \* the queue was destroyed

vars == <<log, freed, open, from, got, closed>>

Pos(r) == from[r] + Len(got[r])
Room == Capacity - (Len(log) - freed)
Batches == UNION {[1..n -> Elements] : n \in 0..MaxBatch}

Init ==
  /\ log = <<>>
  /\ freed = 0
  /\ open = {}
  /\ from = [r \in Readers |-> 0]
  /\ got = [r \in Readers |-> <<>>]
  /\ closed = FALSE

(* Elements no open reader still needs may be given up with any step.        *)
Reclaim ==
  /\ freed' \in freed..Len(log')
  /\ \A r \in open' : freed' <= Pos(r)'

(* A prefix of s is accepted, a nonempty one if there is room for two.       *)
Insert(s) ==
  /\ \E k \in 0..Len(s) :
       /\ k <= Room
       /\ Room > 1 /\ s # <<>> => k > 0
       /\ log' = log \o SubSeq(s, 1, k)
  /\ freed' = freed
  /\ UNCHANGED <<open, from, got>>

Open(r) ==
  /\ r \notin open
  /\ open' = open \cup {r}
  /\ from' = [from EXCEPT ![r] = freed]
  /\ got' = [got EXCEPT ![r] = <<>>]
  /\ freed' = freed
  /\ UNCHANGED log

(* A reader asks for n elements and gets as many of them as there are.       *)
Read(r, n) ==
  /\ r \in open
  /\ LET k == IF n <= Len(log) - Pos(r) THEN n ELSE Len(log) - Pos(r)
     IN got' = [got EXCEPT ![r] = @ \o SubSeq(log, Pos(r) + 1, Pos(r) + k)]
  /\ UNCHANGED <<log, open, from>>
  /\ Reclaim

Leave(r) ==
  /\ r \in open
  /\ open' = open \ {r}
  /\ UNCHANGED <<log, from, got>>
  /\ Reclaim

(* Destroying the queue gives up all that is left.                           *)
Destroy ==
  /\ closed' = TRUE
  /\ freed' = Len(log)
  /\ open' = {}
  /\ UNCHANGED <<log, from, got>>

Next ==
  /\ ~closed
  /\ \/ /\ \/ \E s \in Batches : Insert(s)
           \/ \E r \in Readers : Open(r) \/ Leave(r)
           \/ \E r \in Readers, n \in 0..MaxBatch : Read(r, n)
        /\ closed' = closed
     \/ Destroy

Spec == Init /\ [][Next]_vars
=============================================================================
