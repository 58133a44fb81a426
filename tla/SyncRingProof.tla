---------------------------- MODULE SyncRingProof ----------------------------
(***************************************************************************)
(* Lemmas about the ring of sync_buffer.c: its index arithmetic, and what  *)
(* the closed form of the cancel walk keeps, drops and moves.              *)
(***************************************************************************)
EXTENDS SyncRing, FiniteSetTheorems, FunctionTheorems, TLAPS

(* Index arithmetic: within twice the size, one subtraction reduces.       *)
LEMMA ModWrap ==
  ASSUME NEW n \in 0 .. 2 * Size - 1
  PROVE  n % Size = IF n < Size THEN n ELSE n - Size
BY SizeAssumption, Z3

(* An index shifted by at most Size stays in the array.                    *)
LEMMA ShiftType ==
  ASSUME NEW i \in Cells, NEW n \in 0 .. Size
  PROVE  Shift(i, n) \in Cells /\ Shift(i, n) = IF i + n < Size THEN i + n ELSE i + n - Size
<1>1. i + n \in 0 .. 2 * Size - 1
  BY SizeAssumption DEF Cells
<1> QED
  BY <1>1, ModWrap, SizeAssumption DEF Shift, Cells

(* Two shifts in a row add up.                                             *)
LEMMA ShiftShift ==
  ASSUME NEW i \in Cells, NEW m \in 0 .. Size, NEW n \in 0 .. Size, m + n <= Size
  PROVE  Shift(Shift(i, m), n) = Shift(i, m + n)
<1>1. m + n \in 0 .. Size
  BY SizeAssumption
<1>2. Shift(i, m) \in Cells /\ Shift(i, m) = IF i + m < Size THEN i + m ELSE i + m - Size
  BY ShiftType
<1>3. Shift(Shift(i, m), n) = IF Shift(i, m) + n < Size THEN Shift(i, m) + n ELSE Shift(i, m) + n - Size
  BY <1>2, ShiftType
<1>4. Shift(i, m + n) = IF i + (m + n) < Size THEN i + (m + n) ELSE i + (m + n) - Size
  BY <1>1, ShiftType
<1> QED
  BY <1>2, <1>3, <1>4, SizeAssumption DEF Cells

(* Shifts by different offsets reach different cells.                      *)
LEMMA ShiftInjective ==
  ASSUME NEW s \in Cells, NEW m \in 0 .. Size - 1, NEW n \in 0 .. Size - 1, Shift(s, m) = Shift(s, n)
  PROVE  m = n
<1>1. m \in 0 .. Size /\ n \in 0 .. Size
  BY SizeAssumption
<1>2. Shift(s, m) = IF s + m < Size THEN s + m ELSE s + m - Size
  BY <1>1, ShiftType
<1>3. Shift(s, n) = IF s + n < Size THEN s + n ELSE s + n - Size
  BY <1>1, ShiftType
<1>4. s \in Int /\ m \in Int /\ n \in Int /\ Size \in Nat /\ 0 <= m /\ m < Size /\ 0 <= n /\ n < Size
  BY SizeAssumption DEF Cells
<1>5. IF s + m < Size THEN s + m = Shift(s, m) ELSE s + m - Size = Shift(s, m)
  BY <1>2
<1>6. IF s + n < Size THEN s + n = Shift(s, m) ELSE s + n - Size = Shift(s, m)
  BY <1>3
<1> HIDE DEF Shift
<1> QED
  BY <1>4, <1>5, <1>6

(* The cell after end, which is -1 until the first place, is in the array. *)
LEMMA NextCellType ==
  ASSUME NEW e \in Cells \cup {-1}
  PROVE  Shift(e, 1) \in Cells
<1>1. e + 1 \in 0 .. 2 * Size - 1
  BY SizeAssumption DEF Cells
<1> QED
  BY <1>1, ModWrap, SizeAssumption DEF Shift, Cells

(* Cancelling keeps at most the pairs that were live.                      *)
LEMMA KeptCount ==
  ASSUME NEW d, NEW s \in Cells, NEW n \in 0 .. Size, NEW dir
  PROVE  Cardinality(KeptOffsets(d, s, n, dir)) \in 0 .. n
<1> DEFINE K == KeptOffsets(d, s, n, dir)
<1>1. K \subseteq 0 .. n - 1
  BY DEF KeptOffsets
<1>2. IsFiniteSet(0 .. n - 1) /\ Cardinality(0 .. n - 1) = n
  BY FS_Interval, SizeAssumption, Z3
<1>3. IsFiniteSet(K) /\ Cardinality(K) <= n
  BY <1>1, <1>2, FS_Subset
<1>4. Cardinality(K) \in Nat
  BY <1>3, FS_CardinalityType
<1> QED
  BY <1>3, <1>4

(* What cancelling makes of the three indices.                             *)
LEMMA CancelShape ==
  ASSUME NEW d, NEW s \in Cells, NEW n \in 0 .. Size, NEW dir
  PROVE  LET place == PlaceIndex(d, s, n, dir)
         IN  /\ EndFrom(place) \in Cells
             /\ CountFrom(place, s) \in 0 .. n
             /\ Shift(EndFrom(place), 1) = Shift(s, CountFrom(place, s))
<1> DEFINE k == Cardinality(KeptOffsets(d, s, n, dir))
           place == PlaceIndex(d, s, n, dir)
<1>1. k \in 0 .. n
  BY KeptCount
<1>2. place = Shift(s, k)
  BY DEF PlaceIndex
<1> HIDE DEF k, place
<1>3. place \in Cells /\ place = IF s + k < Size THEN s + k ELSE s + k - Size
  BY <1>1, <1>2, ShiftType, SizeAssumption
<1>4. place - 1 + Size \in 0 .. 2 * Size - 1 /\ place - s + Size \in 0 .. 2 * Size - 1
  BY <1>3, SizeAssumption DEF Cells
<1>5. EndFrom(place) = IF place - 1 + Size < Size THEN place - 1 + Size ELSE place - 1
  BY <1>3, <1>4, ModWrap, SizeAssumption DEF EndFrom, Cells
<1>6. CountFrom(place, s) = IF place - s + Size < Size THEN place - s + Size ELSE place - s
  BY <1>3, <1>4, ModWrap, SizeAssumption DEF CountFrom, Cells
<1>7. EndFrom(place) \in Cells
  BY <1>3, <1>5, SizeAssumption DEF Cells
<1>8. CountFrom(place, s) = IF k = Size THEN 0 ELSE k
  BY <1>1, <1>3, <1>6, SizeAssumption DEF Cells
<1>9. Shift(EndFrom(place), 1) = place
  <2>1. Shift(EndFrom(place), 1) = IF EndFrom(place) + 1 < Size THEN EndFrom(place) + 1
                                   ELSE EndFrom(place) + 1 - Size
    BY <1>7, ShiftType, SizeAssumption
  <2> QED
    BY <1>3, <1>5, <2>1, SizeAssumption DEF Cells
<1>10. Shift(s, CountFrom(place, s)) = place
  <2>1. CountFrom(place, s) \in 0 .. Size
    BY <1>1, <1>8, SizeAssumption
  <2>2. Shift(s, CountFrom(place, s)) = IF s + CountFrom(place, s) < Size THEN s + CountFrom(place, s)
                                        ELSE s + CountFrom(place, s) - Size
    BY <2>1, ShiftType
  <2> QED
    BY <1>1, <1>3, <1>8, <2>2, SizeAssumption DEF Cells
<1> QED
  BY <1>1, <1>7, <1>8, <1>9, <1>10 DEF place

(* Cancelling writes into a live cell only pairs read from live cells.     *)
LEMMA CancelFilled ==
  ASSUME NEW d \in [Cells -> Pairs \cup {NoPair}], NEW s \in Cells, NEW n \in 0 .. Size, NEW dir,
         \A i \in 0 .. n - 1 : d[Shift(s, i)] \in Pairs
  PROVE  /\ CompactedData(d, s, n, dir) \in [Cells -> Pairs \cup {NoPair}]
         /\ \A i \in 0 .. n - 1 : CompactedData(d, s, n, dir)[Shift(s, i)] \in Pairs
<1> DEFINE K == KeptOffsets(d, s, n, dir)
           Moves(i, j) == Shift(s, Rank(i, K)) = j
           D == CompactedData(d, s, n, dir)
<1>1. D = [j \in Cells |-> IF \E i \in K : Moves(i, j)
                           THEN d[Shift(s, CHOOSE i \in K : Moves(i, j))] ELSE d[j]]
  BY DEF CompactedData
<1>2. \A i \in K : i \in 0 .. n - 1
  BY DEF KeptOffsets
<1> HIDE DEF K, Moves, D
<1>3. ASSUME NEW j \in Cells, \E i \in K : Moves(i, j)
      PROVE  D[j] \in Pairs
  <2>1. (CHOOSE i \in K : Moves(i, j)) \in K
    BY <1>3
  <2>2. D[j] = d[Shift(s, CHOOSE i \in K : Moves(i, j))]
    BY <1>1, <1>3
  <2> QED
    BY <1>2, <2>1, <2>2
<1>4. ASSUME NEW j \in Cells, ~ \E i \in K : Moves(i, j)
      PROVE  D[j] = d[j]
  BY <1>1, <1>4
<1>5. D \in [Cells -> Pairs \cup {NoPair}]
  <2>1. \A j \in Cells : D[j] \in Pairs \cup {NoPair}
    BY <1>3, <1>4
  <2> QED
    BY <1>1, <2>1
<1>6. ASSUME NEW i \in 0 .. n - 1
      PROVE  D[Shift(s, i)] \in Pairs
  <2>1. Shift(s, i) \in Cells
    BY ShiftType, SizeAssumption
  <2> QED
    BY <1>3, <1>4, <2>1
<1> QED
  BY <1>5, <1>6 DEF D

(* Counting the smaller members ranks a set without gaps or ties.          *)
LEMMA RankOnto ==
  ASSUME NEW n \in Nat, NEW K, K \subseteq 0 .. n - 1
  PROVE  /\ \A i \in K : Rank(i, K) \in 0 .. Cardinality(K) - 1
         /\ \A i, j \in K : Rank(i, K) = Rank(j, K) => i = j
         /\ \A r \in 0 .. Cardinality(K) - 1 : \E i \in K : Rank(i, K) = r
<1> DEFINE below(i) == {k \in K : k < i}
           k0 == Cardinality(K)
           index == [i \in K |-> Rank(i, K)]
<1>0. K \in SUBSET (0 .. n - 1) /\ \A i \in K : i \in Int
  OBVIOUS
<1>1. IsFiniteSet(K) /\ k0 \in Nat
  <2>1. IsFiniteSet(0 .. n - 1)
    BY FS_Interval
  <2>2. IsFiniteSet(K)
    BY <1>0, <2>1, FS_Subset
  <2> QED
    BY <2>2, FS_CardinalityType
<1>2. \A i \in K : IsFiniteSet(below(i)) /\ Cardinality(below(i)) \in Nat
  <2> TAKE i \in K
  <2>1. below(i) \in SUBSET K
    OBVIOUS
  <2>2. IsFiniteSet(below(i))
    BY <1>1, <2>1, FS_Subset
  <2> QED
    BY <2>2, FS_CardinalityType
<1>3. \A i \in K : Rank(i, K) = Cardinality(below(i))
  BY DEF Rank
<1>4. \A i, j \in K : i < j => Cardinality(below(i)) < Cardinality(below(j))
  <2> SUFFICES ASSUME NEW i \in K, NEW j \in K, i < j
               PROVE  Cardinality(below(i)) < Cardinality(below(j))
    OBVIOUS
  <2>1. below(i) \in SUBSET below(j)
    <3> SUFFICES ASSUME NEW x \in below(i) PROVE x \in below(j)
      OBVIOUS
    <3>1. x \in K /\ x < i /\ x \in Int /\ i \in Int /\ j \in Int
      BY <1>0
    <3> QED
      BY <3>1
  <2>2. i \in below(j) /\ i \notin below(i)
    BY <1>0
  <2>3. Cardinality(below(i)) <= Cardinality(below(j)) /\ Cardinality(below(i)) # Cardinality(below(j))
    <3> HIDE DEF below
    <3> QED
      BY <1>2, <2>1, <2>2, FS_Subset
  <2> QED
    BY <1>2, <2>3
<1>5. \A i \in K : Cardinality(below(i)) < k0
  <2> TAKE i \in K
  <2>1. below(i) \in SUBSET K /\ i \notin below(i)
    BY <1>0
  <2>2. Cardinality(below(i)) <= k0 /\ Cardinality(below(i)) # k0
    <3> HIDE DEF below
    <3> QED
      BY <1>1, <2>1, FS_Subset
  <2> QED
    BY <1>1, <1>2, <2>2
<1> HIDE DEF below
<1>6. \A i \in K : Rank(i, K) \in 0 .. k0 - 1
  BY <1>1, <1>2, <1>3, <1>5
<1>7. \A i, j \in K : Rank(i, K) = Rank(j, K) => i = j
  <2> SUFFICES ASSUME NEW i \in K, NEW j \in K, Rank(i, K) = Rank(j, K) PROVE i = j
    OBVIOUS
  <2>1. i \in Int /\ j \in Int
    BY <1>0
  <2>2. ~(i < j) /\ ~(j < i)
    BY <1>2, <1>3, <1>4
  <2> QED
    BY <2>1, <2>2
<1>8. index \in Injection(K, 0 .. k0 - 1)
  <2>1. index \in [K -> 0 .. k0 - 1]
    BY <1>6
  <2>2. \A i, j \in K : index[i] = index[j] => i = j
    BY <1>7
  <2> HIDE DEF index, k0
  <2> QED
    BY <2>1, <2>2, Fun_IsInj
<1>9. IsFiniteSet(0 .. k0 - 1) /\ Cardinality(0 .. k0 - 1) = k0
  <2> HIDE DEF k0
  <2>1. IsFiniteSet(0 .. k0 - 1) /\ Cardinality(0 .. k0 - 1) = IF 0 > k0 - 1 THEN 0 ELSE k0 - 1 - 0 + 1
    BY <1>1, FS_Interval
  <2> QED
    BY <1>1, <2>1
<1>10. index \in Surjection(K, 0 .. k0 - 1)
  BY <1>8, <1>9, FS_Injection
<1>11. \A r \in 0 .. k0 - 1 : \E i \in K : index[i] = r
  <2> HIDE DEF index, k0
  <2> QED
    BY <1>10 DEF Surjection
<1> QED
  BY <1>6, <1>7, <1>11

(* The count is at most the number itself.                                 *)
LEMMA RankBelow ==
  ASSUME NEW n \in Nat, NEW K, K \subseteq 0 .. n - 1, NEW x \in K
  PROVE  Rank(x, K) \in 0 .. x
<1> DEFINE below == {k \in K : k < x}
<1>1. x \in Nat /\ below \in SUBSET (0 .. x - 1)
  <2>1. x \in 0 .. n - 1 /\ \A k \in K : k \in 0 .. n - 1
    OBVIOUS
  <2>2. \A k \in below : k \in 0 .. x - 1
    BY <2>1
  <2>3. below \in SUBSET (0 .. x - 1)
    <3> HIDE DEF below
    <3> QED
      BY <2>2
  <2>4. x \in Nat
    BY <2>1
  <2> QED
    BY <2>3, <2>4
<1>2. IsFiniteSet(0 .. x - 1) /\ Cardinality(0 .. x - 1) = x
  <2> DEFINE last == x - 1
  <2>1. last \in Int /\ (0 > last <=> x = 0) /\ last - 0 + 1 = x
    BY <1>1
  <2> HIDE DEF last
  <2>2. IsFiniteSet(0 .. last) /\ Cardinality(0 .. last) = IF 0 > last THEN 0 ELSE last - 0 + 1
    BY <2>1, FS_Interval
  <2> QED
    BY <2>1, <2>2 DEF last
<1> HIDE DEF below
<1>3. IsFiniteSet(below) /\ Cardinality(below) <= x
  <2> DEFINE all == 0 .. x - 1
  <2>1. below \in SUBSET all /\ IsFiniteSet(all) /\ Cardinality(all) = x
    BY <1>1, <1>2
  <2> HIDE DEF all
  <2>2. IsFiniteSet(below) /\ Cardinality(below) <= Cardinality(all)
    BY ONLY <2>1, FS_Subset
  <2> QED
    BY <2>1, <2>2
<1>4. Cardinality(below) \in Nat
  <2>1. IsFiniteSet(below)
    BY <1>3
  <2> QED
    BY ONLY <2>1, FS_CardinalityType
<1>5. Rank(x, K) = Cardinality(below)
  BY DEF Rank, below
<1> QED
  BY <1>1, <1>3, <1>4, <1>5

(* A greater offset joins the set at the next index and moves no other.     *)
LEMMA RankAdd ==
  ASSUME NEW n \in Nat, NEW K, K \subseteq 0 .. n - 1
  PROVE  /\ \A x \in K : Rank(x, K \cup {n}) = Rank(x, K)
         /\ Rank(n, K \cup {n}) = Cardinality(K)
         /\ Cardinality(K \cup {n}) = Cardinality(K) + 1
         /\ Cardinality(K) \in 0 .. n
<1>1. \A x \in K : x \in Int /\ x < n
  OBVIOUS
<1>2. \A x \in K : {k \in K \cup {n} : k < x} = {k \in K : k < x}
  BY <1>1
<1>3. {k \in K \cup {n} : k < n} = K
  <2>1. ~(n < n) /\ \A k \in K : k < n
    BY <1>1
  <2> QED
    BY <2>1
<1>4. IsFiniteSet(0 .. n - 1) /\ Cardinality(0 .. n - 1) = n
  <2>1. IsFiniteSet(0 .. n - 1) /\ Cardinality(0 .. n - 1) = IF 0 > n - 1 THEN 0 ELSE n - 1 - 0 + 1
    BY FS_Interval
  <2> QED
    BY <2>1
<1>5. IsFiniteSet(K) /\ Cardinality(K) <= n
  <2>1. K \in SUBSET (0 .. n - 1)
    OBVIOUS
  <2> QED
    BY <1>4, <2>1, FS_Subset
<1>6. Cardinality(K) \in Nat
  BY <1>5, FS_CardinalityType
<1>7. n \notin K
  BY <1>1
<1>8. Cardinality(K \cup {n}) = Cardinality(K) + 1
  BY <1>5, <1>7, FS_AddElement
<1> QED
  BY <1>2, <1>3, <1>5, <1>6, <1>8 DEF Rank

(* The ways to say which live cell each live cell of the new window was    *)
(* filled from: a kept one, and the order stays.                           *)
Origins(d, s, n, dir, m) ==
  {f \in [0 .. m - 1 -> KeptOffsets(d, s, n, dir)] :
     \A r \in 0 .. m - 1 :
        /\ Rank(f[r], KeptOffsets(d, s, n, dir)) = r
        /\ CompactedData(d, s, n, dir)[Shift(s, r)] = d[Shift(s, f[r])]}

(* After a cancel the live cells hold the kept pairs in their order: all   *)
(* of them, unless nothing of a full ring was deleted, when the recomputed *)
(* count is 0.                                                             *)
LEMMA CancelCompacts ==
  ASSUME NEW d, NEW s \in Cells, NEW n \in 0 .. Size, NEW dir,
         NEW m, m = CountFrom(PlaceIndex(d, s, n, dir), s)
  PROVE  /\ m = IF Cardinality(KeptOffsets(d, s, n, dir)) = Size
                THEN 0 ELSE Cardinality(KeptOffsets(d, s, n, dir))
         /\ Origins(d, s, n, dir, m) # {}
<1> DEFINE K == KeptOffsets(d, s, n, dir)
           k == Cardinality(K)
           Moves(i, j) == Shift(s, Rank(i, K)) = j
           D == CompactedData(d, s, n, dir)
           place == PlaceIndex(d, s, n, dir)
           f == [r \in 0 .. m - 1 |-> CHOOSE i \in K : Moves(i, Shift(s, r))]
<1>1. K \subseteq 0 .. n - 1
  BY DEF KeptOffsets
<1>2. k \in 0 .. n
  BY KeptCount
<1>3. D = [j \in Cells |-> IF \E i \in K : Moves(i, j)
                           THEN d[Shift(s, CHOOSE i \in K : Moves(i, j))] ELSE d[j]]
  BY DEF CompactedData
<1>4. place = Shift(s, k)
  BY DEF PlaceIndex
<1>5. /\ \A i \in K : Rank(i, K) \in 0 .. k - 1
      /\ \A i, j \in K : Rank(i, K) = Rank(j, K) => i = j
      /\ \A r \in 0 .. k - 1 : \E i \in K : Rank(i, K) = r
  <2>1. n \in Nat
    BY SizeAssumption
  <2> HIDE DEF K
  <2> QED
    BY <1>1, <2>1, RankOnto
<1> HIDE DEF K, k, D, place
<1>6. m = IF k = Size THEN 0 ELSE k
  <2>1. place \in Cells /\ place = IF s + k < Size THEN s + k ELSE s + k - Size
    BY <1>2, <1>4, ShiftType, SizeAssumption
  <2>2. place - s + Size \in 0 .. 2 * Size - 1
    BY <2>1, SizeAssumption DEF Cells
  <2>3. CountFrom(place, s) = IF place - s + Size < Size THEN place - s + Size ELSE place - s
    BY <2>1, <2>2, ModWrap, SizeAssumption DEF CountFrom, Cells
  <2>4. m = CountFrom(place, s)
    BY DEF place
  <2> QED
    BY <1>2, <2>1, <2>3, <2>4, SizeAssumption DEF Cells
<1>7. \A r \in 0 .. m - 1 : /\ r \in 0 .. Size - 1 /\ r \in 0 .. k - 1
                            /\ Shift(s, r) \in Cells
                            /\ \E i \in K : Moves(i, Shift(s, r))
  <2> TAKE r \in 0 .. m - 1
  <2>1. r \in 0 .. Size - 1 /\ r \in 0 .. Size /\ r \in 0 .. k - 1
    BY <1>2, <1>6, SizeAssumption
  <2>2. Shift(s, r) \in Cells
    BY <2>1, ShiftType
  <2>3. \E i \in K : Moves(i, Shift(s, r))
    BY <1>5, <2>1
  <2> QED
    BY <2>1, <2>2, <2>3
<1>8. \A r \in 0 .. m - 1 : f[r] \in K /\ Shift(s, Rank(f[r], K)) = Shift(s, r)
  <2> TAKE r \in 0 .. m - 1
  <2>1. PICK i \in K : Moves(i, Shift(s, r))
    BY <1>7
  <2>2. f[r] \in K /\ Moves(f[r], Shift(s, r))
    BY <2>1
  <2> QED
    BY <2>2
<1>9. \A r \in 0 .. m - 1 : Rank(f[r], K) = r
  <2> TAKE r \in 0 .. m - 1
  <2>1. f[r] \in K /\ Shift(s, Rank(f[r], K)) = Shift(s, r) /\ r \in 0 .. Size - 1
    BY <1>7, <1>8
  <2>2. Rank(f[r], K) \in 0 .. Size - 1
    BY <1>2, <1>5, <2>1, SizeAssumption
  <2> QED
    BY <2>1, <2>2, ShiftInjective
<1>10. \A r \in 0 .. m - 1 : D[Shift(s, r)] = d[Shift(s, f[r])]
  BY <1>3, <1>7
<1>11. f \in [0 .. m - 1 -> K]
  BY <1>8
<1> HIDE DEF f
<1>12. f \in Origins(d, s, n, dir, m)
  BY <1>9, <1>10, <1>11 DEF D, K, Origins
<1> QED
  BY <1>6, <1>12 DEF k, K
=============================================================================
