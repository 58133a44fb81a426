--------------------------- MODULE CancelLoopProof ---------------------------
(***************************************************************************)
(* Proofs about CancelLoop, for every buffer size, every ring and every    *)
(* directory name: compacting in place reads no cell after it wrote it,    *)
(* ends in the closed form that SyncBuffer takes for it, and reports what  *)
(* it deleted.                                                             *)
(***************************************************************************)
EXTENDS CancelLoop, SyncRingProof

(* The inductive invariant of the walk: the kept pairs read so far have    *)
(* moved to the first cells, every other cell is as it was.                *)
Offsets == KeptOffsets(data0, start, count0, dir)
Moved == \A k \in Kept : data[Shift(start, Rank(k, Kept))] = data0[Shift(start, k)]
Unmoved == \A j \in Cells : (\A k \in Kept : Shift(start, Rank(k, Kept)) # j) => data[j] = data0[j]
Ranges ==
  /\ data \in [Cells -> Pairs] /\ data0 \in [Cells -> Pairs]
  /\ start \in Cells /\ end \in Cells
  /\ count0 \in 0 .. Size /\ count \in 0 .. Size /\ i \in 0 .. count0
  /\ pc \in {"walk", "terminate", "done"}
Phases ==
  /\ pc = "walk" => count = count0
  /\ pc # "walk" => i = count0 /\ end = EndFrom(place_index) /\ count = CountFrom(place_index, start)
WInv == Ranges /\ Phases /\ Moved /\ Unmoved /\ place_index = Shift(start, Cardinality(Kept))

(* The kept offsets read so far, and what the next iteration makes of them. *)
LEMMA KeptSoFar ==
  ASSUME Ranges
  PROVE  /\ Kept \subseteq 0 .. i - 1 /\ i \in Nat
         /\ Cardinality(Kept) \in 0 .. i
         /\ \A k \in Kept : Rank(k, Kept) \in 0 .. k /\ Rank(k, Kept) < Cardinality(Kept)
         /\ Offsets \subseteq 0 .. count0 - 1
<1>1. i \in Nat
  BY SizeAssumption DEF Ranges
<1>2. Offsets \subseteq 0 .. count0 - 1
  BY DEF Offsets, KeptOffsets
<1>3. Kept \subseteq 0 .. i - 1
  BY <1>2, SizeAssumption DEF Kept, Offsets, Ranges
<1> HIDE DEF Kept
<1>4. Cardinality(Kept) \in 0 .. i
  BY <1>1, <1>3, RankAdd
<1>5. \A k \in Kept : Rank(k, Kept) \in 0 .. k /\ Rank(k, Kept) \in 0 .. Cardinality(Kept) - 1
  BY <1>1, <1>3, RankBelow, RankOnto
<1> QED
  BY <1>1, <1>2, <1>3, <1>4, <1>5

(* What is read next was not written yet.                                  *)
LEMMA Unread ==
  ASSUME Ranges, Unmoved, NEW k \in i .. count0 - 1
  PROVE  data[Shift(start, k)] = data0[Shift(start, k)]
<1>1. k \in 0 .. Size - 1 /\ k \in 0 .. Size
  BY SizeAssumption DEF Ranges
<1>2. Shift(start, k) \in Cells
  BY <1>1, ShiftType DEF Ranges
<1>3. \A m \in Kept : Shift(start, Rank(m, Kept)) # Shift(start, k)
  <2> SUFFICES ASSUME NEW m \in Kept, Shift(start, Rank(m, Kept)) = Shift(start, k) PROVE FALSE
    OBVIOUS
  <2>1. Rank(m, Kept) \in 0 .. m /\ m \in 0 .. i - 1
    BY KeptSoFar
  <2>2. Rank(m, Kept) \in 0 .. Size - 1 /\ Rank(m, Kept) < k
    BY <1>1, <2>1, SizeAssumption DEF Ranges
  <2>3. Rank(m, Kept) = k
    BY <1>1, <2>2, ShiftInjective DEF Ranges
  <2> QED
    BY <1>1, <2>2, <2>3
<1> QED
  BY <1>2, <1>3 DEF Unmoved

LEMMA WalkInit == Init => WInv
<1> SUFFICES ASSUME Init PROVE WInv
  OBVIOUS
<1>1. Kept = {}
  BY SizeAssumption DEF Init, Kept, KeptOffsets
<1>2. Cardinality(Kept) = 0
  BY <1>1, FS_EmptySet
<1>3. Shift(start, 0) = start
  BY ShiftType, SizeAssumption DEF Init, Cells
<1>4. end \in Cells
  <2>1. count0 + Size - 1 \in Nat /\ start \in Nat /\ Size \in Nat \ {0}
    BY SizeAssumption DEF Init, Cells
  <2>2. (start + (count0 + Size - 1)) % Size \in 0 .. Size - 1
    BY <2>1, Z3
  <2> QED
    BY <2>2 DEF Init, Shift, Cells
<1>5. Ranges
  BY <1>4, SizeAssumption DEF Init, Ranges
<1> QED
  BY <1>1, <1>2, <1>3, <1>5 DEF WInv, Init, Phases, Moved, Unmoved

(* Keep: the pair at hand moves to the cell after those moved before.      *)
LEMMA WalkKeep == WInv /\ Keep => WInv'
<1> SUFFICES ASSUME WInv, Keep PROVE WInv'
  OBVIOUS
<1> USE SizeAssumption
<1> DEFINE c == Cardinality(Kept)
<1>1. /\ Ranges /\ i \in 0 .. count0 - 1 /\ pc = "walk" /\ start \in Cells
      /\ UNCHANGED <<start, end, count, dir, pc, data0, count0>> /\ i' = i + 1
  BY DEF WInv, Keep, Phases, Ranges
<1>2. /\ Kept \subseteq 0 .. i - 1 /\ i \in Nat /\ c \in 0 .. i
      /\ \A k \in Kept : Rank(k, Kept) \in 0 .. c - 1
  BY <1>1, KeptSoFar
<1>3. data[Shift(start, i)] = data0[Shift(start, i)]
  <2>1. i \in i .. count0 - 1
    BY <1>1
  <2> QED
    BY <1>1, <2>1, Unread DEF WInv
<1>4. i \in Offsets
  BY <1>1, <1>3 DEF Keep, cur_dir, search_index, Offsets, KeptOffsets
<1>5. Kept' = Kept \cup {i}
  <2>1. Offsets' = Offsets
    BY <1>1 DEF Offsets
  <2>2. \A k \in Offsets : k \in Int
    BY <1>1, KeptSoFar
  <2>3. Kept = {k \in Offsets : k < i} /\ Kept' = {k \in Offsets : k < i + 1}
    BY <1>1, <2>1 DEF Kept, Offsets
  <2>4. \A k \in Offsets : k < i + 1 <=> k < i \/ k = i
    BY <1>1, <2>2
  <2>5. \A k : k \in Kept' <=> k \in Kept \cup {i}
    BY <1>4, <2>3, <2>4
  <2> QED
    BY <2>5
<1> HIDE DEF Kept
<1>6. /\ \A k \in Kept : Rank(k, Kept') = Rank(k, Kept)
      /\ Rank(i, Kept') = c
      /\ Cardinality(Kept') = c + 1
  BY <1>2, <1>5, RankAdd
<1>7. c \in 0 .. Size - 1 /\ place_index = Shift(start, c) /\ place_index \in Cells
  <2>1. c \in 0 .. Size - 1 /\ c \in 0 .. Size
    BY <1>1, <1>2 DEF Ranges
  <2> QED
    BY <1>1, <2>1, ShiftType DEF WInv
<1>8. \A k \in Kept : Shift(start, Rank(k, Kept)) \in Cells /\ Shift(start, Rank(k, Kept)) # place_index
  <2> TAKE k \in Kept
  <2>1. Rank(k, Kept) \in 0 .. Size - 1 /\ Rank(k, Kept) \in 0 .. Size /\ Rank(k, Kept) # c
    BY <1>2, <1>7
  <2> QED
    BY <1>1, <1>7, <2>1, ShiftType, ShiftInjective
<1>9. data' = [data EXCEPT ![place_index] = data0[Shift(start, i)]]
  BY <1>3 DEF Keep, search_index
<1>10. Ranges'
  <2>1. Shift(start, i) \in Cells
    BY <1>1, ShiftType DEF Ranges
  <2>2. data' \in [Cells -> Pairs]
    BY <1>1, <1>9, <2>1 DEF Ranges
  <2> QED
    BY <1>1, <2>2 DEF Ranges
<1>11. Moved'
  <2> SUFFICES ASSUME NEW k \in Kept' PROVE data'[Shift(start, Rank(k, Kept'))] = data0[Shift(start, k)]
    BY <1>1 DEF Moved
  <2>1. CASE k = i
    BY <1>1, <1>6, <1>7, <1>9, <2>1 DEF Ranges
  <2>2. CASE k \in Kept
    BY <1>1, <1>6, <1>8, <1>9, <2>2 DEF WInv, Moved, Ranges
  <2> QED
    BY <1>5, <2>1, <2>2
<1>12. Unmoved'
  <2> SUFFICES ASSUME NEW j \in Cells, \A k \in Kept' : Shift(start, Rank(k, Kept')) # j
               PROVE  data'[j] = data0[j]
    BY <1>1 DEF Unmoved
  <2>1. j # place_index
    BY <1>5, <1>6, <1>7
  <2>2. \A k \in Kept : Shift(start, Rank(k, Kept)) # j
    BY <1>5, <1>6
  <2>3. data[j] = data0[j]
    BY <2>2 DEF WInv, Unmoved
  <2> QED
    BY <1>1, <1>9, <2>1, <2>3 DEF Ranges
<1>13. place_index' = Shift(start', Cardinality(Kept'))
  <2>1. Shift(Shift(start, c), 1) = Shift(start, c + 1)
    BY <1>1, <1>7, ShiftShift
  <2> QED
    BY <1>1, <1>6, <1>7, <2>1 DEF Keep, NextPlace
<1> QED
  BY <1>1, <1>10, <1>11, <1>12, <1>13 DEF WInv, Phases

(* Delete: nothing moves, and the kept offsets read so far are the same.   *)
LEMMA WalkDelete == WInv /\ Delete => WInv'
<1> SUFFICES ASSUME WInv, Delete PROVE WInv'
  OBVIOUS
<1> USE SizeAssumption
<1>1. /\ Ranges /\ i \in 0 .. count0 - 1 /\ pc = "walk"
      /\ UNCHANGED <<data, start, end, count, dir, place_index, pc, data0, count0>> /\ i' = i + 1
  BY DEF WInv, Delete, Phases, Ranges
<1>2. data[Shift(start, i)] = data0[Shift(start, i)]
  <2>1. i \in i .. count0 - 1
    BY <1>1
  <2> QED
    BY <1>1, <2>1, Unread DEF WInv
<1>3. i \notin Offsets
  BY <1>2 DEF Delete, cur_dir, search_index, Offsets, KeptOffsets
<1>4. Kept' = Kept
  <2>1. Offsets' = Offsets
    BY <1>1 DEF Offsets
  <2>2. \A k \in Offsets : k \in Int
    BY <1>1, KeptSoFar
  <2>3. Kept = {k \in Offsets : k < i} /\ Kept' = {k \in Offsets : k < i + 1}
    BY <1>1, <2>1 DEF Kept, Offsets
  <2> QED
    BY <1>1, <1>3, <2>2, <2>3
<1> HIDE DEF Kept
<1>5. Ranges'
  BY <1>1 DEF Ranges
<1> QED
  BY <1>1, <1>4, <1>5 DEF WInv, Phases, Moved, Unmoved

(* After the walk only end, count and the terminator change.               *)
LEMMA WalkRest == WInv /\ (Recompute \/ Terminate \/ UNCHANGED vars) => WInv'
<1> USE SizeAssumption
<1>1. ASSUME WInv, Recompute PROVE WInv'
  <2>1. Ranges /\ i = count0 /\ UNCHANGED <<data, start, dir, i, place_index, data0, count0>>
    BY <1>1 DEF WInv, Recompute, Phases, Ranges
  <2>2. Kept = Offsets
    BY <2>1, KeptSoFar DEF Kept, Offsets, Ranges
  <2>3. place_index = PlaceIndex(data0, start, count0, dir)
    BY <1>1, <2>2 DEF WInv, PlaceIndex, Offsets
  <2>4. EndFrom(place_index) \in Cells /\ CountFrom(place_index, start) \in 0 .. count0
    BY <2>1, <2>3, CancelShape DEF Ranges
  <2>5. Ranges' /\ Phases'
    BY <1>1, <2>1, <2>4 DEF Recompute, Ranges, Phases
  <2>6. Kept' = Kept
    BY <2>1 DEF Kept
  <2> HIDE DEF Kept
  <2> QED
    BY <1>1, <2>1, <2>5, <2>6 DEF WInv, Moved, Unmoved
<1>2. ASSUME WInv, UNCHANGED <<data, start, end, count, dir, i, place_index, data0, count0>>,
             pc' = pc \/ (pc = "terminate" /\ pc' = "done")
      PROVE  WInv'
  <2>1. Kept' = Kept
    BY <1>2 DEF Kept
  <2> HIDE DEF Kept
  <2> QED
    BY <1>2, <2>1 DEF WInv, Ranges, Phases, Moved, Unmoved
<1> QED
  BY <1>1, <1>2 DEF Terminate, vars

THEOREM WalkInductive == Spec => []WInv
<1>1. WInv /\ [Next]_vars => WInv'
  BY WalkKeep, WalkDelete, WalkRest DEF Next, Done
<1> QED
  BY WalkInit, <1>1, PTL DEF Spec

(* No cell is overwritten before it was read, for every ring               *)
(* (sync_buffer.c:134-169).                                                *)
THEOREM WalkIsSafe == Spec => []WalkSafe
<1>1. WInv => WalkSafe
  BY Unread DEF WInv, WalkSafe, Moved
<1> QED
  BY WalkInductive, <1>1, PTL

(* When the walk ends, the array, end and count are the closed form that   *)
(* SyncBuffer takes for the whole of sync_buffer_cancel_dir.               *)
THEOREM WalkComputes == Spec => []WalkIsClosedForm
<1>1. WInv => WalkIsClosedForm
  <2> SUFFICES ASSUME WInv, pc # "walk" PROVE WalkIsClosedForm
    BY DEF WalkIsClosedForm
  <2>1. Ranges /\ i = count0
    BY DEF WInv, Phases
  <2>2. Kept = Offsets
    BY <2>1, KeptSoFar, SizeAssumption DEF Kept, Offsets, Ranges
  <2>3. place_index = PlaceIndex(data0, start, count0, dir)
    BY <2>2 DEF WInv, PlaceIndex, Offsets
  <2>4. data = CompactedData(data0, start, count0, dir)
    <3> DEFINE Moves(k, j) == Shift(start, Rank(k, Offsets)) = j
    <3>1. CompactedData(data0, start, count0, dir)
            = [j \in Cells |-> IF \E k \in Offsets : Moves(k, j)
                               THEN data0[Shift(start, CHOOSE k \in Offsets : Moves(k, j))] ELSE data0[j]]
      BY DEF CompactedData, Offsets
    <3> HIDE DEF Offsets
    <3>2. ASSUME NEW j \in Cells, \E k \in Offsets : Moves(k, j)
          PROVE  data[j] = data0[Shift(start, CHOOSE k \in Offsets : Moves(k, j))]
      <4>1. PICK k \in Offsets : k = CHOOSE m \in Offsets : Moves(m, j)
        BY <3>2
      <4>2. Moves(k, j)
        BY <3>2, <4>1
      <4> QED
        BY <2>2, <4>1, <4>2 DEF WInv, Moved
    <3>3. ASSUME NEW j \in Cells, ~ \E k \in Offsets : Moves(k, j)
          PROVE  data[j] = data0[j]
      BY <2>2, <3>3 DEF WInv, Unmoved
    <3> HIDE DEF Moves
    <3>4. data = [j \in Cells |-> data[j]]
      BY <2>1 DEF Ranges
    <3> QED
      BY <3>1, <3>2, <3>3, <3>4
  <2> QED
    BY <2>3, <2>4 DEF WInv, Phases, WalkIsClosedForm
<1> QED
  BY WalkInductive, <1>1, PTL

-----------------------------------------------------------------------------
(* The report: the locations deleted so far, each once.  The bound of its  *)
(* length is why the test of its capacity (sync_buffer.c:162) never fails. *)
Locs == {p.src : p \in Pairs}
Gone == {data0[Shift(start, k)].src : k \in (0 .. i - 1) \ Offsets}
RInv ==
  /\ report \in Seq(Locs) /\ Len(report) <= i
  /\ ToSet(report) = Gone
  /\ IsFiniteSet(Gone) /\ Len(report) = Cardinality(Gone)
  /\ deleted \in BOOLEAN /\ (deleted <=> Gone # {})
  /\ terminator = IF pc = "done" THEN Len(report) ELSE -1

LEMMA ReportInit == Init => RInv
<1> SUFFICES ASSUME Init PROVE RInv
  OBVIOUS
<1>1. Gone = {}
  BY DEF Init, Gone
<1>2. report = <<>> /\ ToSet(<<>>) = {} /\ Len(<<>>) = 0 /\ <<>> \in Seq(Locs)
  BY DEF Init, ToSet
<1>3. IsFiniteSet(Gone) /\ Cardinality(Gone) = 0
  BY <1>1, FS_EmptySet
<1>4. i = 0 /\ deleted = FALSE /\ terminator = -1 /\ pc = "walk"
  BY DEF Init
<1>5. report \in Seq(Locs) /\ Len(report) = 0 /\ ToSet(report) = {}
  BY <1>2
<1>6. Len(report) <= i /\ Len(report) = Cardinality(Gone)
  BY <1>3, <1>4, <1>5
<1>7. deleted \in BOOLEAN /\ (deleted <=> Gone # {})
  BY <1>1, <1>4
<1>8. terminator = IF pc = "done" THEN Len(report) ELSE -1
  BY <1>4
<1> QED
  BY <1>1, <1>3, <1>5, <1>6, <1>7, <1>8 DEF RInv

(* The location at hand, and whether the next iteration deletes it.        *)
LEMMA AtHand ==
  ASSUME WInv, pc = "walk", i < count
  PROVE  /\ i \in 0 .. count0 - 1 /\ Shift(start, i) \in Cells /\ Shift(start, i) \in DOMAIN data0
         /\ cur_dir = data0[Shift(start, i)].src /\ cur_dir \in Locs
         /\ i \in Offsets <=> cur_dir.dir # dir
<1> USE SizeAssumption
<1>1. Ranges /\ i \in 0 .. count0 - 1
  BY DEF WInv, Phases, Ranges
<1>2. i \in 0 .. Size /\ start \in Cells
  BY <1>1 DEF Ranges
<1>3. Shift(start, i) \in Cells
  BY <1>2, ShiftType
<1>4. data[Shift(start, i)] = data0[Shift(start, i)]
  <2>1. i \in i .. count0 - 1
    BY <1>1
  <2> QED
    BY <1>1, <2>1, Unread DEF WInv
<1>5. cur_dir = data0[Shift(start, i)].src
  BY <1>4 DEF cur_dir, search_index
<1>6. data0[Shift(start, i)] \in Pairs /\ Shift(start, i) \in DOMAIN data0
  BY <1>1, <1>3 DEF Ranges
<1>7. i \in Offsets <=> cur_dir.dir # dir
  BY <1>1, <1>5 DEF Offsets, KeptOffsets
<1> QED
  BY <1>1, <1>3, <1>5, <1>6, <1>7 DEF Locs

LEMMA ReportKeep == WInv /\ RInv /\ Keep => RInv'
<1> SUFFICES ASSUME WInv, RInv, Keep PROVE RInv'
  OBVIOUS
<1>1. i \in 0 .. count0 - 1 /\ i \in Offsets /\ i' = i + 1
  BY AtHand DEF Keep
<1>2. UNCHANGED <<start, dir, data0, count0, report, deleted, terminator, pc>> /\ count0 \in Nat
  BY SizeAssumption DEF Keep, WInv, Ranges
<1>3. Gone' = Gone
  <2>1. Offsets' = Offsets
    BY <1>2 DEF Offsets
  <2>2. \A k : k \in (0 .. i) \ Offsets <=> k \in (0 .. i - 1) \ Offsets
    BY <1>1, <1>2
  <2>3. (0 .. i' - 1) \ Offsets' = (0 .. i - 1) \ Offsets
    BY <1>1, <1>2, <2>1, <2>2
  <2> QED
    BY <1>2, <2>3 DEF Gone
<1>4. Len(report) <= i + 1
  BY <1>1, <1>2 DEF RInv
<1> QED
  BY <1>1, <1>2, <1>3, <1>4 DEF RInv

LEMMA ReportDelete == WInv /\ RInv /\ Delete => RInv'
<1> SUFFICES ASSUME WInv, RInv, Delete PROVE RInv'
  OBVIOUS
<1> DEFINE loc == cur_dir
<1>1. i \in 0 .. count0 - 1 /\ i \notin Offsets /\ i' = i + 1 /\ loc = data0[Shift(start, i)].src /\ loc \in Locs
  BY AtHand DEF Delete
<1>2. UNCHANGED <<start, dir, data0, count0, terminator, pc>> /\ pc = "walk" /\ deleted' = TRUE
  BY DEF Delete
<1>3. count0 \in 0 .. Size /\ Size \in Nat
  BY SizeAssumption DEF WInv, Ranges
<1>4. Len(report) \in Nat /\ Len(report) < Size /\ Len(report) <= i
  BY <1>1, <1>3 DEF RInv
<1>5. report' = IF loc \in Gone THEN report ELSE Append(report, loc)
  <2>1. Reported(loc) <=> loc \in ToSet(report)
    BY <1>4 DEF Reported, deleted_index, ToSet, RInv
  <2>2. deleted_index < Size
    BY <1>4 DEF deleted_index
  <2> QED
    BY <2>1, <2>2 DEF Delete, RInv
<1>6. Gone' = Gone \cup {loc}
  <2>1. Offsets' = Offsets
    BY <1>2 DEF Offsets
  <2>2. \A k : k \in (0 .. i) \ Offsets <=> k \in ((0 .. i - 1) \ Offsets) \cup {i}
    BY <1>1, <1>3
  <2>3. (0 .. i' - 1) \ Offsets' = ((0 .. i - 1) \ Offsets) \cup {i}
    BY <1>1, <1>3, <2>1, <2>2
  <2>4. Gone' = {data0[Shift(start, k)].src : k \in ((0 .. i - 1) \ Offsets) \cup {i}}
    BY <1>2, <2>3 DEF Gone
  <2> QED
    BY <1>1, <2>4 DEF Gone
<1> HIDE DEF loc
<1>7. IsFiniteSet(Gone') /\ Cardinality(Gone') = IF loc \in Gone THEN Cardinality(Gone) ELSE Cardinality(Gone) + 1
  <2>1. IsFiniteSet(Gone)
    BY DEF RInv
  <2>2. /\ IsFiniteSet(Gone \cup {loc})
        /\ Cardinality(Gone \cup {loc}) = IF loc \in Gone THEN Cardinality(Gone) ELSE Cardinality(Gone) + 1
    BY <2>1, FS_AddElement
  <2> QED
    BY <1>6, <2>2
<1>8. report' \in Seq(Locs) /\ Len(report') = (IF loc \in Gone THEN Len(report) ELSE Len(report) + 1)
  BY <1>1, <1>5 DEF RInv
<1>9. ToSet(report') = Gone'
  <2>1. CASE loc \in Gone
    BY <1>5, <1>6, <2>1 DEF RInv
  <2>2. CASE loc \notin Gone
    <3>1. report' = Append(report, loc) /\ report \in Seq(Locs)
      BY <1>5, <2>2 DEF RInv
    <3>2. /\ DOMAIN report' = 1 .. Len(report) + 1 /\ DOMAIN report = 1 .. Len(report)
          /\ \A j \in 1 .. Len(report) : report'[j] = report[j]
          /\ report'[Len(report) + 1] = loc
      BY <1>1, <3>1
    <3>3. \A x : x \in ToSet(report') <=> x \in ToSet(report) \cup {loc}
      BY <1>4, <3>2 DEF ToSet
    <3> QED
      BY <1>6, <3>3 DEF RInv
  <2> QED
    BY <2>1, <2>2
<1> QED
  BY <1>1, <1>2, <1>4, <1>6, <1>7, <1>8, <1>9 DEF RInv

LEMMA ReportRest == WInv /\ RInv /\ (Recompute \/ Terminate \/ UNCHANGED vars) => RInv'
<1>1. ASSUME UNCHANGED <<start, dir, data0, count0, i>> PROVE Gone' = Gone
  BY <1>1 DEF Gone, Offsets
<1>2. ASSUME RInv, Recompute PROVE RInv'
  BY <1>1, <1>2 DEF RInv, Recompute
<1>3. ASSUME RInv, Terminate PROVE RInv'
  BY <1>1, <1>3 DEF RInv, Terminate, deleted_index
<1>4. ASSUME RInv, UNCHANGED vars PROVE RInv'
  BY <1>1, <1>4 DEF RInv, vars
<1> QED
  BY <1>2, <1>3, <1>4

THEOREM ReportInductive == Spec => []RInv
<1>1. WInv /\ RInv /\ [Next]_vars => RInv'
  BY ReportKeep, ReportDelete, ReportRest DEF Next, Done
<1> QED
  BY WalkInductive, ReportInit, <1>1, PTL DEF Spec

(* The walk's indices stay inside the array, for every size of the ring.   *)
THEOREM WalkTypeCorrect == Spec => []TypeOK
<1>1. WInv /\ RInv => TypeOK
  <2> SUFFICES ASSUME WInv, RInv PROVE TypeOK
    OBVIOUS
  <2>1. Ranges /\ Size \in Nat \ {0} /\ start \in Cells
    BY SizeAssumption DEF WInv, Ranges
  <2>2. Cardinality(Kept) \in 0 .. Size
    BY <2>1, KeptSoFar DEF Ranges
  <2>3. place_index \in Cells
    BY <2>1, <2>2, ShiftType DEF WInv
  <2>4. terminator \in -1 .. Size
    BY <2>1 DEF RInv, Ranges
  <2>5. i \in 0 .. Size
    BY <2>1 DEF Ranges
  <2> QED
    BY <2>1, <2>3, <2>4, <2>5 DEF TypeOK, Ranges, RInv
<1> QED
  BY WalkInductive, ReportInductive, <1>1, PTL

(* The report names every cancelled location exactly once, and as long as  *)
(* it leaves entries of the caller's array unused its terminator follows   *)
(* the last one used; of the terminator of a full report, which            *)
(* sync_buffer.c:183 writes behind the array, nothing is said.             *)
THEOREM ReportIsExact == Spec => []ReportExact
<1>1. WInv /\ RInv => ReportExact
  <2> SUFFICES ASSUME WInv, RInv, pc = "done" PROVE ReportExact
    BY DEF ReportExact
  <2>1. i = count0
    BY DEF WInv, Phases
  <2> QED
    BY <2>1 DEF RInv, ReportExact, Gone, Offsets
<1> QED
  BY WalkInductive, ReportInductive, <1>1, PTL
=============================================================================
