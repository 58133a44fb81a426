------------------------------ MODULE SyncRing ------------------------------
(***************************************************************************)
(* The cyclical array inside struct sync_buffer of the Remote Directory    *)
(* Synchronizer (sync_buffer.c): index arithmetic and the two walks over   *)
(* the live window, as operators on the fields they read.  SyncBuffer uses *)
(* them inside the critical sections, CancelLoop replays the cancel walk   *)
(* one iteration at a time.                                                *)
(***************************************************************************)
EXTENDS Integers, Sequences, FiniteSets

CONSTANTS
  Size,    \* buffer.size, the -b argument of nfs_manager
  Pairs,   \* struct sync_pair: [file, src, tar]; src, tar are [dir, host] (host stands for host:port)
  NoPair   \* an array cell that was never written, or the zeroed pair of a quitting obtain

ASSUME SizeAssumption == Size \in Nat \ {0}
ASSUME NoPairAssumption == NoPair \notin Pairs

Cells == 0 .. Size - 1

\* The index reached n cells to the right of index i.
Shift(i, n) == (i + n) % Size

\* The live window, oldest pair first.
Window(data, start, count) == [i \in 1 .. count |-> data[Shift(start, i - 1)]]

\* The comparison of sync_buffer_file_exists: same file of the same dir@host:port, whatever the target.
SameSource(p, q) == p.file = q.file /\ p.src = q.src

\* Offsets of the window that sync_buffer_cancel_dir(dir) does not delete.
KeptOffsets(data, start, count, dir) ==
  {i \in 0 .. count - 1 : data[Shift(start, i)].src.dir # dir}

\* The offset an element of K moves to when the window is compacted.
Rank(i, K) == Cardinality({k \in K : k < i})

(***************************************************************************)
(* The array after the compaction walk: the kept pairs, in order, from     *)
(* start on; the cells after them keep what they held.                     *)
(***************************************************************************)
CompactedData(data, start, count, dir) ==
  LET K == KeptOffsets(data, start, count, dir)
      Moves(i, j) == Shift(start, Rank(i, K)) = j
  IN  [j \in Cells |-> IF \E i \in K : Moves(i, j)
                       THEN data[Shift(start, CHOOSE i \in K : Moves(i, j))]
                       ELSE data[j]]

\* place_index when the walk ends.
PlaceIndex(data, start, count, dir) ==
  Shift(start, Cardinality(KeptOffsets(data, start, count, dir)))

\* Mutated form: the last used cell taken to be place_index itself.
EndFromPlace(place) == place

\* buffer.end and buffer.count as sync_buffer_cancel_dir recomputes them from place_index.
EndFrom(place) == (place - 1 + Size) % Size
CountFrom(place, start) == (place - start + Size) % Size
=============================================================================
