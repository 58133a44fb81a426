---------------------------- MODULE BoundedBuffer ----------------------------
(***************************************************************************)
(* What sync_buffer.h promises its callers, without threads, indices or    *)
(* condition variables: a FIFO of at most Size pairs that can be closed,   *)
(* and from which all pairs of a directory can be withdrawn: HeaderStep.   *)
(* The one departure of sync_buffer.c from its header, CancelMissOnFull,   *)
(* is an action of its own, so that the refinement says exactly how far    *)
(* the implementation goes.                                                *)
(***************************************************************************)
EXTENDS Integers, Sequences, FiniteSets

CONSTANTS Size, Pairs, Dirs

VARIABLES queue, closed

vars == <<queue, closed>>

Init == queue = <<>> /\ closed = FALSE

Put(p) ==
  /\ ~closed
  /\ Len(queue) < Size
  /\ queue' = Append(queue, p)
  /\ UNCHANGED closed

Get ==
  /\ queue # <<>>
  /\ queue' = Tail(queue)
  /\ UNCHANGED closed

\* The offsets of the pairs of other directories, and those pairs in the order they have.
KeptAt(dir) == {i \in 0 .. Len(queue) - 1 : queue[1 + i].src.dir # dir}
Others(dir) ==
  LET K == KeptAt(dir)
  IN  [n \in 1 .. Cardinality(K) |-> queue[1 + CHOOSE i \in K : Cardinality({k \in K : k < i}) = n - 1]]

Cancel(dir) ==
  /\ ~closed
  /\ queue' = Others(dir)
  /\ UNCHANGED closed

Holds(dir) == \E i \in DOMAIN queue : queue[i].src.dir = dir

\* A full buffer that holds no pair of dir is emptied: the new count is computed modulo Size.
CancelMissOnFull(dir) ==
  /\ ~closed
  /\ Len(queue) = Size
  /\ ~Holds(dir)
  /\ queue' = <<>>
  /\ UNCHANGED closed

Close ==
  /\ closed' = TRUE
  /\ UNCHANGED queue

\* What the header has, and the departure from it.
HeaderStep ==
  \/ \E p \in Pairs : Put(p)
  \/ Get
  \/ \E dir \in Dirs : Cancel(dir)
  \/ Close

Next == HeaderStep \/ \E dir \in Dirs : CancelMissOnFull(dir)

Spec == Init /\ [][Next]_vars
=============================================================================
