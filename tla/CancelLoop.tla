----------------------------- MODULE CancelLoop -----------------------------
(***************************************************************************)
(* sync_buffer_cancel_dir (sync_buffer.c:122-186) one iteration at a time, *)
(* from every state of the ring: the walk that compacts the array in place *)
(* while it reads it, the list of cancelled locations it reports, and the  *)
(* final recomputation of end and count.  SyncBuffer takes the whole walk  *)
(* as one step; this module shows that the closed form it uses there is    *)
(* what the walk computes.                                                 *)
(***************************************************************************)
EXTENDS SyncRing, SequencesExt

CONSTANT Dirs \* the names the console may give to cancel

VARIABLES
  data, start, end, count, \* struct sync_buffer
  dir,                     \* src_dir_name
  i, place_index,          \* the walk
  deleted,                 \* the flag returned
  report,                  \* deleted_buffer[0 .. deleted_index - 1]
  terminator,              \* the index zeroed at the end, -1 before
  pc,
  data0, count0            \* the ring the walk started from

vars == <<data, start, end, count, dir, i, place_index, deleted, report, terminator, pc, data0, count0>>

\* Every ring the buffer can be in: count live cells from start on, end the last of them.
Init ==
  /\ data0 \in [Cells -> Pairs]
  /\ start \in Cells
  /\ count0 \in 0 .. Size
  /\ dir \in Dirs
  /\ data = data0
  /\ count = count0
  /\ end = Shift(start, count0 + Size - 1)
  /\ i = 0
  /\ place_index = start
  /\ deleted = FALSE
  /\ report = <<>>
  /\ terminator = -1
  /\ pc = "walk"

-----------------------------------------------------------------------------
(* Mutated forms, used only to see that the properties notice them. *)

ReportedNever(loc) == FALSE
NextPlaceUnwrapped == place_index + 1
NextPlaceNoWrap == IF place_index = Size - 1 THEN place_index ELSE place_index + 1

-----------------------------------------------------------------------------
search_index == Shift(start, i)
cur_dir == data[search_index].src

\* deleted_index, the number of locations reported so far.
deleted_index == Len(report)

Reported(loc) == \E j \in 1 .. deleted_index : report[j] = loc
NextPlace == Shift(place_index, 1)

Keep ==
  /\ pc = "walk" /\ i < count
  /\ cur_dir.dir # dir
  /\ data' = [data EXCEPT ![place_index] = data[search_index]]
  /\ place_index' = NextPlace
  /\ i' = i + 1
  /\ UNCHANGED <<start, end, count, dir, deleted, report, terminator, pc, data0, count0>>

Delete ==
  /\ pc = "walk" /\ i < count
  /\ cur_dir.dir = dir
  /\ deleted' = TRUE
  /\ report' = IF ~Reported(cur_dir) /\ deleted_index < Size THEN Append(report, cur_dir) ELSE report
  /\ i' = i + 1
  /\ UNCHANGED <<data, start, end, count, dir, place_index, terminator, pc, data0, count0>>

Recompute ==
  /\ pc = "walk" /\ i >= count
  /\ end' = EndFrom(place_index)
  /\ count' = CountFrom(place_index, start)
  /\ pc' = "terminate"
  /\ UNCHANGED <<data, start, dir, i, place_index, deleted, report, terminator, data0, count0>>

\* After the unlock; the signal sent before it changes nothing here.
Terminate ==
  /\ pc = "terminate"
  /\ terminator' = deleted_index
  /\ pc' = "done"
  /\ UNCHANGED <<data, start, end, count, dir, i, place_index, deleted, report, data0, count0>>

Done == pc = "done" /\ UNCHANGED vars

Next == Keep \/ Delete \/ Recompute \/ Terminate \/ Done

Spec == Init /\ [][Next]_vars

-----------------------------------------------------------------------------
(* Properties. *)

Kept == {k \in KeptOffsets(data0, start, count0, dir) : k < i}

\* The indices of the walk stay inside the array; the terminator's may be one behind it (line 183).
TypeOK ==
  /\ data \in [Cells -> Pairs]
  /\ start \in Cells /\ place_index \in Cells /\ end \in Cells
  /\ count \in 0 .. Size /\ i \in 0 .. Size
  /\ terminator \in -1 .. Size
  /\ deleted \in BOOLEAN
  /\ pc \in {"walk", "terminate", "done"}

\* Compacting in place never overwrites a cell before it is read: the offsets from i on still hold
\* what they held, and the kept offsets read so far stand in their order from start on.
WalkSafe ==
  /\ \A k \in i .. count0 - 1 : data[Shift(start, k)] = data0[Shift(start, k)]
  /\ \A k \in Kept : data[Shift(start, Rank(k, Kept))] = data0[Shift(start, k)]
  /\ place_index = Shift(start, Cardinality(Kept))

\* The walk computes the closed form that SyncBuffer uses for the array, the end and the count.
WalkIsClosedForm ==
  pc # "walk" =>
    /\ data = CompactedData(data0, start, count0, dir)
    /\ end = EndFrom(PlaceIndex(data0, start, count0, dir))
    /\ count = CountFrom(PlaceIndex(data0, start, count0, dir), start)

\* What the console is told is what was cancelled: the report names every cancelled location exactly
\* once, is empty iff nothing was deleted, and where entries of the caller's array are left the
\* terminator follows the last of them; the caller reads no further than the array
\* (nfs_manager.c:400).  With an entry in every cell the code writes the terminator one behind the
\* array (line 183); nothing is asked of it there, an array that is full needs none.
ReportExact ==
  pc = "done" =>
    LET gone == {data0[Shift(start, k)].src :
                   k \in (0 .. count0 - 1) \ KeptOffsets(data0, start, count0, dir)}
    IN  /\ ToSet(report) = gone
        /\ Len(report) = Cardinality(gone)
        /\ deleted <=> gone # {}
        /\ Len(report) < Size => terminator = Len(report)
=============================================================================
