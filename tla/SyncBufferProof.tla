-------------------------- MODULE SyncBufferProof --------------------------
(***************************************************************************)
(* Proofs about SyncBuffer, for every buffer size, every pool of workers   *)
(* and every set of pairs and directory names.                             *)
(***************************************************************************)
EXTENDS SyncBuffer, SyncRingProof, SequenceTheorems

-----------------------------------------------------------------------------
(* The initial state: nothing live, every worker about to obtain.          *)
LEMMA InitInductive == Init => IInv
<1> SUFFICES ASSUME Init PROVE IInv
  OBVIOUS
<1>1. TypeOK
  <2>1. 0 \in Cells /\ 0 \in 0 .. Size
    BY SizeAssumption DEF Cells
  <2>2. data \in [Cells -> Pairs \cup {NoPair}] /\ held \in [Workers -> Pairs \cup {NoPair}]
    BY DEF Init
  <2>3. workerPc \in [Workers -> WorkerStates] /\ mainPc \in MainStates
    BY DEF Init, WorkerStates, MainStates
  <2>4. start \in Cells /\ end \in Cells \cup {-1} /\ count \in 0 .. Size
    BY <2>1 DEF Init
  <2>5. quit \in BOOLEAN /\ pending \in Pairs \cup {NoPair}
    BY DEF Init
  <2> QED
    BY <2>2, <2>3, <2>4, <2>5 DEF TypeOK
<1>2. RingShape
  <2>1. Shift(0, 0) = 0
    BY ShiftType, SizeAssumption DEF Cells
  <2>2. Shift(-1, 1) = 0
    BY ModWrap, SizeAssumption DEF Shift
  <2> QED
    BY <2>1, <2>2 DEF Init, RingShape
<1>3. Filled /\ QuitPhase /\ PendingShape /\ HeldShape /\ Drained /\ Joined /\ NoLostWakeup
  BY SizeAssumption DEF Init, Filled, QuitPhase, PendingShape, HeldShape, Drained, Joined, NoLostWakeup
<1> QED
  BY <1>1, <1>2, <1>3 DEF IInv

(* Placing: the new pair lands in the cell after the live ones.            *)
LEMMA PlaceInductive == IInv /\ Place => IInv'
<1> SUFFICES ASSUME IInv, Place PROVE IInv'
  OBVIOUS
<1> USE SizeAssumption
<1>1. /\ start \in Cells /\ end \in Cells \cup {-1} /\ count \in 0 .. Size - 1
      /\ NextCell \in Cells /\ pending \in Pairs /\ mainPc = "place"
  BY NextCellType DEF IInv, TypeOK, Place, IsFull, NextCell, PendingShape
<1>2. TypeOK'
  BY <1>1 DEF IInv, TypeOK, Place, MainStates
<1>3. NextCell = Shift(start, count)
  BY DEF IInv, RingShape, NextCell
<1>4. RingShape'
  <2>1. Shift(Shift(start, count), 1) = Shift(start, count + 1)
    BY <1>1, ShiftShift
  <2> QED
    BY <1>3, <2>1 DEF Place, RingShape
<1>5. Filled'
  <2> SUFFICES ASSUME NEW i \in 0 .. count PROVE data'[Shift(start, i)] \in Pairs
    BY <1>1 DEF Filled, Live, Place
  <2>1. Shift(start, i) \in Cells
    BY <1>1, ShiftType
  <2>2. CASE i = count
    BY <1>1, <1>3, <2>2 DEF IInv, TypeOK, Place
  <2>3. CASE i \in 0 .. count - 1
    BY <1>1, <2>1, <2>3 DEF IInv, TypeOK, Filled, Live, Place
  <2> QED
    BY <1>1, <2>2, <2>3
<1>6. (QuitPhase /\ PendingShape /\ HeldShape /\ Joined /\ NoLostWakeup)'
  BY <1>1 DEF IInv, QuitPhase, PendingShape, HeldShape, Joined, NoLostWakeup, Place
<1>7. Drained'
  BY <1>1 DEF IInv, Drained, QuitPhase, Place
<1> QED
  BY <1>2, <1>4, <1>5, <1>6, <1>7 DEF IInv

(* Obtaining: the oldest live cell leaves, the others keep their places.   *)
LEMMA ObtainInductive == ASSUME NEW w \in Workers PROVE IInv /\ Obtain(w) => IInv'
<1> SUFFICES ASSUME IInv, Obtain(w) PROVE IInv'
  OBVIOUS
<1> USE SizeAssumption
<1>1. start \in Cells /\ count \in 1 .. Size /\ workerPc[w] = "obtain"
  BY DEF IInv, TypeOK, Obtain, MustWait, MustExit
<1>2. data[start] \in Pairs
  <2>1. Shift(start, 0) = start
    BY <1>1, ShiftType DEF Cells
  <2> QED
    BY <1>1, <2>1 DEF IInv, Filled, Live
<1>3. Shift(start, 1) \in Cells
  BY <1>1, ShiftType
<1>4. TypeOK'
  BY <1>1, <1>2, <1>3 DEF IInv, TypeOK, Obtain, WorkerStates
<1>5. \A i \in 0 .. count - 1 : Shift(Shift(start, 1), i) = Shift(start, i + 1)
  BY <1>1, ShiftShift
<1>6. RingShape'
  <2>1. Shift(Shift(start, 1), count - 1) = Shift(start, count)
    BY <1>1, <1>5
  <2> QED
    BY <2>1 DEF IInv, RingShape, Obtain
<1>7. Filled'
  <2> SUFFICES ASSUME NEW i \in 0 .. count - 2 PROVE data[Shift(Shift(start, 1), i)] \in Pairs
    BY <1>1 DEF Filled, Live, Obtain
  <2> QED
    BY <1>1, <1>5 DEF IInv, Filled, Live
<1>8. (QuitPhase /\ PendingShape /\ Joined)'
  BY <1>1 DEF IInv, TypeOK, QuitPhase, PendingShape, Joined, Obtain
<1>9. HeldShape'
  BY <1>1, <1>2 DEF IInv, TypeOK, HeldShape, Obtain
<1>10. Drained'
  BY <1>1 DEF IInv, TypeOK, Drained, Obtain
<1>11. NoLostWakeup'
  BY <1>1 DEF IInv, TypeOK, NoLostWakeup, Obtain
<1> QED
  BY <1>4, <1>6, <1>7, <1>8, <1>9, <1>10, <1>11 DEF IInv

(* Cancelling: the ring shrinks but stays a ring of written cells.         *)
LEMMA CancelInductive == ASSUME NEW dir \in Dirs PROVE IInv /\ CancelDir(dir) => IInv'
<1> SUFFICES ASSUME IInv, CancelDir(dir) PROVE IInv'
  OBVIOUS
<1> USE SizeAssumption
<1>1. /\ data \in [Cells -> Pairs \cup {NoPair}] /\ start \in Cells /\ count \in 0 .. Size
      /\ \A i \in 0 .. count - 1 : data[Shift(start, i)] \in Pairs
  BY DEF IInv, TypeOK, Filled, Live
<1>2. end' \in Cells /\ count' \in 0 .. count /\ Shift(end', 1) = Shift(start, count')
  BY <1>1, CancelShape DEF CancelDir
<1>3. /\ data' \in [Cells -> Pairs \cup {NoPair}]
      /\ \A i \in 0 .. count - 1 : data'[Shift(start, i)] \in Pairs
  BY <1>1, CancelFilled DEF CancelDir
<1>4. TypeOK'
  BY <1>1, <1>2, <1>3 DEF IInv, TypeOK, CancelDir
<1>5. RingShape'
  BY <1>2 DEF RingShape, CancelDir
<1>6. Filled'
  BY <1>1, <1>2, <1>3 DEF Filled, Live, CancelDir
<1>7. (QuitPhase /\ PendingShape /\ HeldShape /\ Joined)'
  BY DEF IInv, QuitPhase, PendingShape, HeldShape, Joined, CancelDir
<1>8. (Drained /\ NoLostWakeup)'
  BY <1>1, <1>2 DEF IInv, Drained, NoLostWakeup, CancelDir
<1> QED
  BY <1>4, <1>5, <1>6, <1>7, <1>8 DEF IInv

(* Every other step leaves the ring alone and moves program counters only. *)
LEMMA RingUntouched ==
  ASSUME UNCHANGED ring
  PROVE  (RingShape => RingShape') /\ (Filled => Filled')
BY DEF ring, RingShape, Filled, Live

LEMMA MainInductive ==
  IInv /\ ((\E p \in Pairs : CheckExists(p)) \/ PlaceWaits \/ SignalNonempty \/ Quit
             \/ Broadcast \/ Join \/ SpuriousNonfull)
  => IInv'
<1> USE SizeAssumption
<1>1. ASSUME IInv, NEW p \in Pairs, CheckExists(p) PROVE IInv'
  BY <1>1, RingUntouched
  DEF IInv, CheckExists, TypeOK, ring, MainStates, QuitPhase, PendingShape, HeldShape, Drained, Joined, NoLostWakeup
<1>2. ASSUME IInv, PlaceWaits PROVE IInv'
  BY <1>2, RingUntouched
  DEF IInv, PlaceWaits, IsFull, TypeOK, ring, MainStates, QuitPhase, PendingShape, HeldShape, Drained, Joined, NoLostWakeup
<1>3. ASSUME IInv, SignalNonempty PROVE IInv'
  <2>1. (TypeOK /\ RingShape /\ Filled)'
    BY <1>3, RingUntouched DEF IInv, SignalNonempty, WakeOne, TypeOK, ring, MainStates, WorkerStates
  <2>2. (QuitPhase /\ PendingShape)'
    BY <1>3 DEF IInv, SignalNonempty, QuitPhase, PendingShape
  <2>3. (HeldShape /\ Drained /\ Joined)'
    <3>1. \A w \in Workers : workerPc'[w] = workerPc[w] \/ (workerPc[w] = "wait" /\ workerPc'[w] = "obtain")
      BY <1>3 DEF IInv, TypeOK, SignalNonempty, WakeOne
    <3>2. mainPc' = "idle" /\ UNCHANGED <<count, quit, held>>
      BY <1>3 DEF SignalNonempty, ring
    <3> QED
      BY <1>3, <3>1, <3>2 DEF IInv, HeldShape, Drained, Joined
  <2>4. NoLostWakeup'
    <3>1. mainPc' = "idle" /\ count' = count
      BY <1>3 DEF SignalNonempty, ring
    <3>2. ASSUME count > 0
          PROVE  \E w \in Workers : workerPc'[w] \in {"obtain", "signal", "sync"}
      <4>1. CASE \E w \in Workers : workerPc[w] = "wait" /\ workerPc' = [workerPc EXCEPT ![w] = "obtain"]
        BY <1>3, <4>1 DEF IInv, TypeOK
      <4>2. CASE (\A w \in Workers : workerPc[w] # "wait") /\ UNCHANGED workerPc
        <5>1. PICK w \in Workers : TRUE
          BY WorkersAssumption
        <5>2. workerPc[w] # "exit" /\ workerPc[w] # "wait"
          BY <1>3, <3>2, <4>2 DEF IInv, Drained, TypeOK
        <5> QED
          BY <1>3, <4>2, <5>2 DEF IInv, TypeOK, WorkerStates
      <4> QED
        BY <1>3, <4>1, <4>2 DEF SignalNonempty, WakeOne
    <3> QED
      BY <3>1, <3>2 DEF NoLostWakeup
  <2> QED
    BY <2>1, <2>2, <2>3, <2>4 DEF IInv
<1>4. ASSUME IInv, Quit PROVE IInv'
  BY <1>4, RingUntouched
  DEF IInv, Quit, TypeOK, ring, MainStates, QuitPhase, PendingShape, HeldShape, Drained, Joined, NoLostWakeup
<1>5. ASSUME IInv, Broadcast PROVE IInv'
  <2>1. (TypeOK /\ RingShape /\ Filled)'
    BY <1>5, RingUntouched DEF IInv, Broadcast, WakeAll, TypeOK, ring, MainStates, WorkerStates
  <2>2. (QuitPhase /\ PendingShape /\ HeldShape /\ Drained /\ Joined /\ NoLostWakeup)'
    BY <1>5
    DEF IInv, TypeOK, Broadcast, WakeAll, ring, QuitPhase, PendingShape, HeldShape, Drained, Joined, NoLostWakeup
  <2> QED
    BY <2>1, <2>2 DEF IInv
<1>6. ASSUME IInv, Join PROVE IInv'
  BY <1>6, RingUntouched
  DEF IInv, Join, TypeOK, ring, MainStates, QuitPhase, PendingShape, HeldShape, Drained, Joined, NoLostWakeup
<1>7. ASSUME IInv, SpuriousNonfull PROVE IInv'
  BY <1>7, RingUntouched
  DEF IInv, SpuriousNonfull, TypeOK, ring, MainStates, QuitPhase, PendingShape, HeldShape, Drained, Joined, NoLostWakeup
<1> QED
  BY <1>1, <1>2, <1>3, <1>4, <1>5, <1>6, <1>7

LEMMA WorkerInductive ==
  ASSUME NEW w \in Workers
  PROVE  IInv /\ (ObtainWaits(w) \/ ObtainExits(w) \/ SignalNonfull(w) \/ Finish(w) \/ SpuriousNonempty(w))
         => IInv'
<1> USE SizeAssumption
<1>1. ASSUME IInv, ObtainWaits(w) PROVE IInv'
  BY <1>1, RingUntouched
  DEF IInv, ObtainWaits, MustWait, TypeOK, ring, WorkerStates, QuitPhase, PendingShape, HeldShape, Drained, Joined, NoLostWakeup
<1>2. ASSUME IInv, ObtainExits(w) PROVE IInv'
  BY <1>2, RingUntouched
  DEF IInv, ObtainExits, MustWait, MustExit, TypeOK, ring, WorkerStates, QuitPhase, PendingShape, HeldShape, Drained, Joined, NoLostWakeup
<1>3. ASSUME IInv, SignalNonfull(w) PROVE IInv'
  BY <1>3, RingUntouched
  DEF IInv, SignalNonfull, WokenMain, TypeOK, ring, MainStates, WorkerStates, QuitPhase, PendingShape, HeldShape, Drained, Joined, NoLostWakeup
<1>4. ASSUME IInv, Finish(w) PROVE IInv'
  BY <1>4, RingUntouched
  DEF IInv, Finish, TypeOK, ring, WorkerStates, QuitPhase, PendingShape, HeldShape, Drained, Joined, NoLostWakeup
<1>5. ASSUME IInv, SpuriousNonempty(w) PROVE IInv'
  BY <1>5, RingUntouched
  DEF IInv, SpuriousNonempty, TypeOK, ring, WorkerStates, QuitPhase, PendingShape, HeldShape, Drained, Joined, NoLostWakeup
<1> QED
  BY <1>1, <1>2, <1>3, <1>4, <1>5

LEMMA StutterInductive == IInv /\ UNCHANGED vars => IInv'
<1> SUFFICES ASSUME IInv, UNCHANGED vars PROVE IInv'
  OBVIOUS
<1>1. (TypeOK /\ RingShape /\ Filled)'
  BY RingUntouched DEF IInv, vars, ring, TypeOK
<1>2. (QuitPhase /\ PendingShape /\ HeldShape /\ Drained /\ Joined /\ NoLostWakeup)'
  BY DEF IInv, vars, QuitPhase, PendingShape, HeldShape, Drained, Joined, NoLostWakeup
<1> QED
  BY <1>1, <1>2 DEF IInv

(* The inductive invariant holds in every reachable state: the indices of  *)
(* sync_buffer.c delimit exactly the written live cells whatever the       *)
(* interleaving of place, obtain, cancel, quit and spurious wakeups.       *)
THEOREM Inductive == Spec => []IInv
<1>1. IInv /\ [Next]_vars => IInv'
  BY PlaceInductive, ObtainInductive, CancelInductive, MainInductive, WorkerInductive, StutterInductive
  DEF Next, MainStep, WorkerStep, Terminated
<1> QED
  BY InitInductive, <1>1, PTL DEF Spec

(* The indices and counters of sync_buffer.c stay in range for every size. *)
THEOREM TypeCorrect == Spec => []TypeOK
<1>1. IInv => TypeOK
  BY DEF IInv
<1> QED
  BY Inductive, <1>1, PTL

(* Signalling after the unlock (sync_buffer.c:67-68, 93-94) loses no       *)
(* wakeup, however many workers share the pool.                            *)
THEOREM WakeupsKept == Spec => []NoLostWakeup
<1>1. IInv => NoLostWakeup
  BY DEF IInv
<1> QED
  BY Inductive, <1>1, PTL

(* No worker leaves the pool while a pair is queued, and the main thread   *)
(* joins the pool only after the last transfer (sync_buffer.c:81-86).      *)
THEOREM ShutdownIsClean == Spec => []ShutdownDrains
<1>1. IInv => ShutdownDrains
  <2> SUFFICES ASSUME IInv PROVE ShutdownDrains
    OBVIOUS
  <2>1. ASSUME NEW w \in Workers, workerPc[w] = "exit"
        PROVE  quit /\ count = 0 /\ held[w] = NoPair
    BY <2>1 DEF IInv, Drained, HeldShape
  <2>2. ASSUME mainPc = "done"
        PROVE  count = 0 /\ \A w \in Workers : held[w] = NoPair
    BY <2>1, <2>2, WorkersAssumption DEF IInv, Joined
  <2> QED
    BY <2>1, <2>2 DEF ShutdownDrains
<1> QED
  BY Inductive, <1>1, PTL

-----------------------------------------------------------------------------
(* The buffer never holds a file twice.  The hard step is the cancel: that *)
(* the compaction walk moves different kept pairs to different cells, and  *)
(* fills every cell of the new window (CancelCompacts).                    *)

(* What the check leaves true until the place that follows it: workers may *)
(* take pairs away meanwhile, and nobody adds one.                         *)
PendingFresh ==
  mainPc \in {"place", "waitfull"} => \A i \in 0 .. count - 1 : ~SameSource(pending, Live(i))
UInv == NoDuplicates /\ PendingFresh

LEMMA InitUnique == Init => UInv
BY DEF Init, UInv, NoDuplicates, PendingFresh

(* Placing: the new pair was compared with every pair that is still live.  *)
LEMMA PlaceUnique == IInv /\ UInv /\ Place => UInv'
<1> SUFFICES ASSUME IInv, UInv, Place PROVE UInv'
  OBVIOUS
<1> USE SizeAssumption
<1>1. /\ start \in Cells /\ end \in Cells \cup {-1} /\ count \in 0 .. Size - 1
      /\ NextCell \in Cells /\ NextCell = Shift(start, count) /\ mainPc = "place"
  BY NextCellType DEF IInv, TypeOK, Place, IsFull, NextCell, RingShape
<1>2. \A i \in 0 .. count : data'[Shift(start, i)] = IF i = count THEN pending ELSE Live(i)
  <2> TAKE i \in 0 .. count
  <2>1. i \in 0 .. Size - 1 /\ i \in 0 .. Size
    BY <1>1
  <2>2. Shift(start, i) \in Cells
    BY <1>1, <2>1, ShiftType
  <2>3. Shift(start, i) = Shift(start, count) => i = count
    BY <1>1, <2>1, ShiftInjective
  <2> QED
    BY <1>1, <2>2, <2>3 DEF IInv, TypeOK, Place, Live
<1>3. \A i \in 0 .. count - 1 : ~SameSource(pending, Live(i)) /\ ~SameSource(Live(i), pending)
  BY <1>1 DEF UInv, PendingFresh, SameSource
<1>4. ASSUME NEW i \in 0 .. count, NEW j \in 0 .. count, i # j
      PROVE  ~SameSource(data'[Shift(start, i)], data'[Shift(start, j)])
  <2>1. CASE i = count
    BY <1>1, <1>2, <1>3, <1>4, <2>1
  <2>2. CASE j = count
    BY <1>1, <1>2, <1>3, <1>4, <2>2
  <2>3. CASE i # count /\ j # count
    <3>1. i \in 0 .. count - 1 /\ j \in 0 .. count - 1
      BY <1>1, <2>3
    <3> QED
      BY <1>2, <1>4, <2>3, <3>1 DEF UInv, NoDuplicates
  <2> QED
    BY <2>1, <2>2, <2>3
<1>5. NoDuplicates'
  <2>1. start' = start /\ count' - 1 = count
    BY <1>1 DEF Place
  <2> QED
    BY <1>4, <2>1 DEF NoDuplicates, Live
<1>6. PendingFresh'
  BY DEF Place, PendingFresh
<1> QED
  BY <1>5, <1>6 DEF UInv

(* Obtaining: the live cells lose their first and keep their order.        *)
LEMMA ObtainUnique == ASSUME NEW w \in Workers PROVE IInv /\ UInv /\ Obtain(w) => UInv'
<1> SUFFICES ASSUME IInv, UInv, Obtain(w) PROVE UInv'
  OBVIOUS
<1> USE SizeAssumption
<1>1. start \in Cells /\ count \in 1 .. Size
  BY DEF IInv, TypeOK, Obtain, MustWait, MustExit
<1>2. \A i \in 0 .. count - 2 : Live(i)' = Live(i + 1) /\ i + 1 \in 0 .. count - 1
  <2> TAKE i \in 0 .. count - 2
  <2>1. Shift(Shift(start, 1), i) = Shift(start, 1 + i)
    BY <1>1, ShiftShift
  <2> QED
    BY <1>1, <2>1 DEF Obtain, Live
<1>3. count' - 1 = count - 2 /\ UNCHANGED <<mainPc, pending>>
  BY <1>1 DEF Obtain
<1>4. NoDuplicates'
  <2> SUFFICES ASSUME NEW i \in 0 .. count - 2, NEW j \in 0 .. count - 2, i # j
               PROVE  ~SameSource(Live(i)', Live(j)')
    BY <1>3 DEF NoDuplicates
  <2> QED
    BY <1>1, <1>2 DEF UInv, NoDuplicates
<1>5. PendingFresh'
  BY <1>2, <1>3 DEF UInv, PendingFresh
<1> QED
  BY <1>4, <1>5 DEF UInv

(* Cancelling: each live cell now holds a pair that was in a live cell of  *)
(* its own.                                                                *)
LEMMA CancelUnique == ASSUME NEW dir \in Dirs PROVE IInv /\ UInv /\ CancelDir(dir) => UInv'
<1> SUFFICES ASSUME IInv, UInv, CancelDir(dir) PROVE UInv'
  OBVIOUS
<1>1. start \in Cells /\ count \in 0 .. Size
  BY DEF IInv, TypeOK
<1>2. count' = CountFrom(PlaceIndex(data, start, count, dir), start)
  BY DEF CancelDir
<1>3. PICK f : f \in Origins(data, start, count, dir, count')
  BY <1>1, <1>2, CancelCompacts
<1>4. \A r \in 0 .. count' - 1 : Live(r)' = Live(f[r])
  BY <1>3 DEF CancelDir, Live, Origins
<1>5. NoDuplicates'
  <2>1. \A q, r \in 0 .. count' - 1 : /\ f[q] \in 0 .. count - 1 /\ f[r] \in 0 .. count - 1
                                      /\ q # r => f[q] # f[r]
    <3>1. \A r \in 0 .. count' - 1 : f[r] \in 0 .. count - 1 /\ Rank(f[r], KeptOffsets(data, start, count, dir)) = r
      BY <1>3 DEF Origins, KeptOffsets
    <3> QED
      BY <3>1
  <2> QED
    BY <1>4, <2>1 DEF UInv, NoDuplicates
<1>6. PendingFresh'
  BY DEF CancelDir, PendingFresh
<1> QED
  BY <1>5, <1>6 DEF UInv

(* No other step touches the ring, and only CheckExists begins a place.    *)
LEMMA OtherUnique ==
  ASSUME NEW w \in Workers
  PROVE  IInv /\ UInv /\ ( \/ (\E p \in Pairs : CheckExists(p)) \/ PlaceWaits \/ SignalNonempty \/ Quit
                           \/ Broadcast \/ Join \/ SpuriousNonfull
                           \/ ObtainWaits(w) \/ ObtainExits(w) \/ SignalNonfull(w) \/ Finish(w)
                           \/ SpuriousNonempty(w) \/ UNCHANGED vars )
         => UInv'
<1>1. ASSUME UInv, UNCHANGED ring PROVE NoDuplicates'
  BY <1>1 DEF UInv, NoDuplicates, Live, ring
<1>2. ASSUME UInv, UNCHANGED <<ring, pending>>,
             mainPc' \in {"place", "waitfull"} => mainPc \in {"place", "waitfull"}
      PROVE  PendingFresh'
  BY <1>2 DEF UInv, PendingFresh, Live, ring
<1>3. ASSUME UInv, NEW p \in Pairs, CheckExists(p) PROVE UInv'
  <2>1. PendingFresh'
    BY <1>3 DEF CheckExists, FileExists, PendingFresh, Live, ring
  <2> QED
    BY <1>1, <1>3, <2>1 DEF UInv, CheckExists
<1>4. ASSUME UInv, PlaceWaits \/ SignalNonempty \/ Quit \/ Broadcast \/ Join \/ SpuriousNonfull PROVE UInv'
  BY <1>1, <1>2, <1>4 DEF UInv, PlaceWaits, SignalNonempty, Quit, Broadcast, Join, SpuriousNonfull
<1>5. ASSUME UInv, ObtainWaits(w) \/ ObtainExits(w) \/ SignalNonfull(w) \/ Finish(w) \/ SpuriousNonempty(w)
      PROVE  UInv'
  BY <1>1, <1>2, <1>5
  DEF UInv, ObtainWaits, ObtainExits, SignalNonfull, WokenMain, Finish, SpuriousNonempty
<1>6. ASSUME UInv, UNCHANGED vars PROVE UInv'
  BY <1>1, <1>2, <1>6 DEF UInv, vars, ring
<1> QED
  BY <1>3, <1>4, <1>5, <1>6

(* The buffer never holds a source file twice, although the check          *)
(* (nfs_manager.c:249, 353) and the place are two critical sections: only  *)
(* the main thread places, and everything that happens in between takes    *)
(* pairs away.                                                             *)
THEOREM NeverQueuedTwice == Spec => []NoDuplicates
<1>1. IInv /\ UInv /\ [Next]_vars => UInv'
  <2>1. PICK w0 \in Workers : TRUE
    BY WorkersAssumption
  <2> QED
    BY <2>1, PlaceUnique, ObtainUnique, CancelUnique, OtherUnique
    DEF Next, MainStep, WorkerStep, Terminated
<1>2. UInv => NoDuplicates
  BY DEF UInv
<1> QED
  BY Inductive, InitUnique, <1>1, <1>2, PTL DEF Spec
-----------------------------------------------------------------------------
(* The ring refines the FIFO of BoundedBuffer, step by step.               *)
Queue == Window(data, start, count)

LEMMA WindowShape ==
  ASSUME NEW d, NEW s, NEW n \in Nat
  PROVE  /\ Len(Window(d, s, n)) = n /\ DOMAIN Window(d, s, n) = 1 .. n
         /\ \A i \in 1 .. n : Window(d, s, n)[i] = d[Shift(s, i - 1)]
BY DEF Window

LEMMA AppendIs ==
  ASSUME NEW P, NEW q \in Seq(P), NEW p \in P, NEW n \in Nat, Len(q) = n
  PROVE  Append(q, p) = [i \in 1 .. n + 1 |-> IF i = n + 1 THEN p ELSE q[i]]
<1> DEFINE r == [i \in 1 .. n + 1 |-> IF i = n + 1 THEN p ELSE q[i]]
<1>1. r \in Seq(P) /\ Len(r) = n + 1 /\ \A i \in 1 .. n + 1 : r[i] = IF i = n + 1 THEN p ELSE q[i]
  OBVIOUS
<1>2. /\ Append(q, p) \in Seq(P) /\ Len(Append(q, p)) = n + 1
      /\ \A i \in 1 .. n + 1 : Append(q, p)[i] = IF i = n + 1 THEN p ELSE q[i]
  OBVIOUS
<1> HIDE DEF r
<1>3. Append(q, p) = r
  BY <1>1, <1>2, SeqEqual
<1> QED
  BY <1>3 DEF r

LEMMA TailIs ==
  ASSUME NEW P, NEW q \in Seq(P), NEW n \in Nat \ {0}, Len(q) = n
  PROVE  q # <<>> /\ Tail(q) = [i \in 1 .. n - 1 |-> q[i + 1]]
<1> DEFINE r == [i \in 1 .. n - 1 |-> q[i + 1]]
<1>1. r \in Seq(P) /\ Len(r) = n - 1 /\ \A i \in 1 .. n - 1 : r[i] = q[i + 1]
  OBVIOUS
<1>2. q # <<>> /\ Tail(q) \in Seq(P) /\ Len(Tail(q)) = n - 1 /\ \A i \in 1 .. n - 1 : Tail(q)[i] = q[i + 1]
  OBVIOUS
<1> HIDE DEF r
<1>3. Tail(q) = r
  BY <1>1, <1>2, SeqEqual
<1> QED
  BY <1>2, <1>3 DEF r

LEMMA QueueType == ASSUME TypeOK, Filled PROVE Queue \in Seq(Pairs)
<1>1. count \in Nat
  BY SizeAssumption DEF TypeOK
<1>2. \A i \in 1 .. count : Live(i - 1) \in Pairs
  BY <1>1 DEF Filled
<1> QED
  BY <1>1, <1>2 DEF Queue, Window, Live

LEMMA InitRefines == Init => Bounded!Init
BY DEF Init, Window, Bounded!Init

(* Placing appends: the cell written is the one after the window.          *)
LEMMA PlaceRefines == IInv /\ Place => Bounded!Put(pending)
<1> SUFFICES ASSUME IInv, Place PROVE Bounded!Put(pending)
  OBVIOUS
<1> USE SizeAssumption
<1>1. /\ start \in Cells /\ end \in Cells \cup {-1} /\ count \in 0 .. Size - 1
      /\ NextCell \in Cells /\ NextCell = Shift(start, count) /\ pending \in Pairs
  BY NextCellType DEF IInv, TypeOK, Place, IsFull, NextCell, RingShape, PendingShape
<1>2. \A i \in 1 .. count + 1 : data'[Shift(start, i - 1)] = IF i = count + 1 THEN pending ELSE Live(i - 1)
  <2> TAKE i \in 1 .. count + 1
  <2>1. i - 1 \in 0 .. Size - 1 /\ i - 1 \in 0 .. Size
    BY <1>1
  <2>2. Shift(start, i - 1) \in Cells
    BY <1>1, <2>1, ShiftType
  <2>3. Shift(start, i - 1) = Shift(start, count) => i = count + 1
    BY <1>1, <2>1, ShiftInjective
  <2> QED
    BY <1>1, <2>2, <2>3 DEF IInv, TypeOK, Place, Live
<1>3. Queue' = [i \in 1 .. count + 1 |-> data'[Shift(start, i - 1)]]
  BY DEF Place, Queue, Window
<1>4. Queue' = Append(Queue, pending)
  <2>1. Queue \in Seq(Pairs) /\ Len(Queue) = count /\ \A i \in 1 .. count : Queue[i] = Live(i - 1)
    BY <1>1, QueueType, WindowShape DEF IInv, Queue, Live
  <2> HIDE DEF Queue
  <2>2. Append(Queue, pending) = [i \in 1 .. count + 1 |-> IF i = count + 1 THEN pending ELSE Queue[i]]
    BY <1>1, <2>1, AppendIs
  <2>3. \A i \in 1 .. count + 1 : i # count + 1 => i \in 1 .. count
    BY <1>1
  <2> QED
    BY <1>2, <1>3, <2>1, <2>2, <2>3
<1>5. ~quit /\ UNCHANGED quit
  BY DEF IInv, QuitPhase, Place
<1>6. Len(Queue) < Size
  BY <1>1, WindowShape DEF Queue
<1> QED
  BY <1>4, <1>5, <1>6 DEF Bounded!Put, Queue

(* Obtaining takes the head: the window starts one cell later.             *)
LEMMA ObtainRefines == ASSUME NEW w \in Workers PROVE IInv /\ Obtain(w) => Bounded!Get
<1> SUFFICES ASSUME IInv, Obtain(w) PROVE Bounded!Get
  OBVIOUS
<1> USE SizeAssumption
<1>1. start \in Cells /\ count \in 1 .. Size
  BY DEF IInv, TypeOK, Obtain, MustWait, MustExit
<1>2. \A i \in 1 .. count - 1 : Shift(Shift(start, 1), i - 1) = Shift(start, i)
  <2> TAKE i \in 1 .. count - 1
  <2>1. 1 \in 0 .. Size /\ i - 1 \in 0 .. Size /\ 1 + (i - 1) <= Size /\ 1 + (i - 1) = i
    BY <1>1
  <2> QED
    BY <1>1, <2>1, ShiftShift
<1>3. Queue' = [i \in 1 .. count - 1 |-> data[Shift(start, i)]]
  BY <1>2 DEF Obtain, Queue, Window
<1>4. Queue \in Seq(Pairs) /\ Len(Queue) = count /\ \A i \in 1 .. count : Queue[i] = data[Shift(start, i - 1)]
  BY <1>1, QueueType, WindowShape DEF IInv, Queue
<1>5. Queue # <<>> /\ Tail(Queue) = [i \in 1 .. count - 1 |-> data[Shift(start, i)]]
  <2> HIDE DEF Queue
  <2>1. Queue # <<>> /\ Tail(Queue) = [i \in 1 .. count - 1 |-> Queue[i + 1]]
    BY <1>1, <1>4, TailIs
  <2>2. \A i \in 1 .. count - 1 : Queue[i + 1] = data[Shift(start, i)]
    BY <1>1, <1>4
  <2> QED
    BY <2>1, <2>2
<1> QED
  BY <1>3, <1>5 DEF Bounded!Get, Queue, Obtain

(* The two modules count with the same operator.                           *)
LEMMA SameCardinality == \A S : Bounded!Cardinality(S) = Cardinality(S)
BY DEF Bounded!Cardinality, Cardinality

(* Cancelling leaves the pairs of other directories in their order, or     *)
(* nothing at all when it had nothing to delete from a full ring.          *)
LEMMA CancelRefines ==
  ASSUME NEW dir \in Dirs
  PROVE  IInv /\ CancelDir(dir) => Bounded!Cancel(dir) \/ Bounded!CancelMissOnFull(dir)
<1> SUFFICES ASSUME IInv, CancelDir(dir) PROVE Bounded!Cancel(dir) \/ Bounded!CancelMissOnFull(dir)
  OBVIOUS
<1> USE SizeAssumption
<1> DEFINE K == KeptOffsets(data, start, count, dir)
           k == Cardinality(K)
<1>1. start \in Cells /\ count \in 0 .. Size /\ count \in Nat
  BY DEF IInv, TypeOK
<1>2. count' = CountFrom(PlaceIndex(data, start, count, dir), start) /\ start' = start
  BY DEF CancelDir
<1>3. count' = (IF k = Size THEN 0 ELSE k) /\ Origins(data, start, count, dir, count') # {}
  BY <1>1, <1>2, CancelCompacts
<1>4. K \subseteq 0 .. count - 1 /\ k \in 0 .. count
  <2>1. k \in 0 .. count
    BY <1>1, KeptCount
  <2> QED
    BY <2>1 DEF KeptOffsets
<1>5. ~quit /\ UNCHANGED quit
  BY DEF IInv, QuitPhase, CancelDir
<1>6. /\ Len(Queue) = count /\ DOMAIN Queue = 1 .. count
      /\ \A i \in 1 .. count : Queue[i] = Live(i - 1)
  BY <1>1, WindowShape DEF Queue, Live
<1>7. Bounded!KeptAt(dir) = K
  BY <1>1, <1>6 DEF Bounded!KeptAt, KeptOffsets, Queue, Live
<1>8. Queue' = [n \in 1 .. count' |-> data'[Shift(start, n - 1)]]
  BY <1>2 DEF Queue, Window
<1>9. CASE k = Size
  <2>1. K = 0 .. count - 1 /\ count = Size
    <3>1. IsFiniteSet(0 .. count - 1) /\ Cardinality(0 .. count - 1) = count
      BY <1>1, FS_Interval
    <3>2. K # 0 .. count - 1 => k < count
      <4>1. K \in SUBSET (0 .. count - 1)
        BY <1>4
      <4> HIDE DEF K
      <4>2. Cardinality(K) = Cardinality(0 .. count - 1) => K = 0 .. count - 1
        BY <3>1, <4>1, FS_Subset
      <4> QED
        BY <1>1, <1>4, <3>1, <4>2
    <3> QED
      BY <1>1, <1>4, <1>9, <3>2
  <2>2. ~Bounded!Holds(dir)
    BY <1>1, <1>6, <2>1 DEF Bounded!Holds, KeptOffsets, Live, Queue
  <2>3. Queue' = <<>>
    BY <1>3, <1>8, <1>9
  <2> QED
    BY <1>5, <1>6, <2>1, <2>2, <2>3 DEF Bounded!CancelMissOnFull, Queue
<1>10. CASE k # Size
  <2>1. PICK f : f \in Origins(data, start, count, dir, k)
    BY <1>3, <1>10
  <2>2. \A r \in 0 .. k - 1 : f[r] \in K /\ Rank(f[r], K) = r /\ data'[Shift(start, r)] = data[Shift(start, f[r])]
    BY <2>1 DEF Origins, CancelDir
  <2>3. \A i, j \in K : Rank(i, K) = Rank(j, K) => i = j
    BY <1>1, <1>4, RankOnto
  <2> DEFINE at(n) == CHOOSE i \in K : Bounded!Cardinality({j \in K : j < i}) = n - 1
  <2> HIDE DEF K
  <2>4. \A n \in 1 .. k : data'[Shift(start, n - 1)] = Queue[1 + at(n)]
    <3> TAKE n \in 1 .. k
    <3>1. n - 1 \in 0 .. k - 1
      BY <1>4
    <3>2. f[n - 1] \in K /\ Rank(f[n - 1], K) = n - 1
      BY <2>2, <3>1
    <3>3. at(n) \in K /\ Rank(at(n), K) = n - 1
      BY <3>2, SameCardinality DEF Rank
    <3>4. at(n) = f[n - 1]
      BY <2>3, <3>2, <3>3
    <3>5. 1 + f[n - 1] \in 1 .. count /\ (1 + f[n - 1]) - 1 = f[n - 1]
      <4>1. f[n - 1] \in 0 .. count - 1
        BY <1>4, <3>2
      <4> QED
        BY <1>1, <4>1
    <3> QED
      BY <1>6, <2>2, <3>1, <3>4, <3>5 DEF Live
  <2>5. Bounded!Others(dir) = [n \in 1 .. k |-> Queue[1 + at(n)]]
    <3>1. Bounded!Cardinality(K) = k
      BY SameCardinality
    <3> QED
      BY <1>7, <3>1 DEF Bounded!Others, Queue
  <2>6. Queue' = Bounded!Others(dir)
    BY <1>3, <1>8, <1>10, <2>4, <2>5
  <2> QED
    BY <1>5, <2>6 DEF Bounded!Cancel, Queue
<1> QED
  BY <1>9, <1>10

LEMMA StutterRefines ==
  ASSUME UNCHANGED <<data, start, count, quit>>
  PROVE  UNCHANGED <<Queue, quit>>
BY DEF Queue, Window

(* Every step of the threads is a step of the abstract buffer or leaves    *)
(* its contents alone.                                                     *)
LEMMA StepRefines == IInv /\ [Next]_vars => [Bounded!Next]_<<Queue, quit>>
<1> SUFFICES ASSUME IInv, [Next]_vars PROVE [Bounded!Next]_<<Queue, quit>>
  OBVIOUS
<1>1. CASE Place
  <2>1. pending \in Pairs
    BY <1>1 DEF IInv, PendingShape, Place
  <2> QED
    BY <1>1, <2>1, PlaceRefines DEF Bounded!Next, Bounded!HeaderStep
<1>2. CASE \E w \in Workers : Obtain(w)
  BY <1>2, ObtainRefines DEF Bounded!Next, Bounded!HeaderStep
<1>3. CASE \E dir \in Dirs : CancelDir(dir)
  BY <1>3, CancelRefines DEF Bounded!Next, Bounded!HeaderStep
<1>4. CASE Quit
  <2>1. UNCHANGED Queue
    BY <1>4 DEF Quit, ring, Queue, Window
  <2> QED
    BY <1>4, <2>1 DEF Quit, Bounded!Next, Bounded!HeaderStep, Bounded!Close, Queue
<1>5. CASE PlaceWaits \/ SignalNonempty \/ Broadcast \/ Join \/ SpuriousNonfull \/ UNCHANGED vars
           \/ \E p \in Pairs : CheckExists(p)
  BY <1>5, StutterRefines DEF PlaceWaits, SignalNonempty, Broadcast, Join, SpuriousNonfull, CheckExists, vars, ring
<1>6. CASE \E w \in Workers : ObtainWaits(w) \/ ObtainExits(w) \/ SignalNonfull(w) \/ Finish(w) \/ SpuriousNonempty(w)
  BY <1>6, StutterRefines DEF ObtainWaits, ObtainExits, SignalNonfull, Finish, SpuriousNonempty, ring
<1> QED
  BY <1>1, <1>2, <1>3, <1>4, <1>5, <1>6 DEF Next, MainStep, WorkerStep, Terminated

(* sync_buffer.c implements the bounded FIFO of sync_buffer.h, for every   *)
(* size and any number of threads, except for the emptying that            *)
(* CancelMissOnFull names.                                                 *)
THEOREM RefinesBounded == Spec => ImplementsBounded
<1>1. Bounded!Spec <=> Bounded!Init /\ [][Bounded!Next]_<<Queue, quit>>
  BY DEF Bounded!Spec, Bounded!vars, Queue
<1> QED
  BY Inductive, InitRefines, StepRefines, <1>1, PTL DEF Spec, ImplementsBounded
=============================================================================
