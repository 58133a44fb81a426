----------------------------- MODULE SyncBuffer -----------------------------
(***************************************************************************)
(* The synchronization buffer of nfs_manager (sync_buffer.c) with the      *)
(* threads that use it: the main thread, which lists directories, places   *)
(* and cancels pairs and orders the shutdown (nfs_manager.c), and a pool   *)
(* of worker threads that obtain pairs and transfer them.                  *)
(*                                                                         *)
(* Every access to the buffer happens with its mutex held, so one critical *)
(* section is one action; a thread whose pc is "place" or "obtain" is      *)
(* about to take the mutex, for the first time or because it was woken.    *)
(* Condition variables are signalled after the unlock, by a step of their  *)
(* own.  A wakeup never carries the condition with it: the woken thread    *)
(* tests it again under the mutex.                                         *)
(***************************************************************************)
EXTENDS SyncRing

CONSTANTS
  Workers, \* the threads of the pool
  Dirs     \* the names the console may give to cancel

ASSUME WorkersAssumption == Workers # {}

VARIABLES
  data, start, end, count, \* struct sync_buffer
  quit,                    \* sync_buffer_quit_boolean
  mainPc, pending,         \* the main thread, and the pair it is about to place
  workerPc, held           \* each worker, and the pair it is transferring

ring == <<data, start, end, count>>
vars == <<data, start, end, count, quit, mainPc, pending, workerPc, held>>

MainStates == {"idle", "place", "waitfull", "signal", "broadcast", "join", "done"}
WorkerStates == {"obtain", "wait", "signal", "sync", "exit"}

Init ==
  /\ data = [i \in Cells |-> NoPair]
  /\ start = 0
  /\ end = -1
  /\ count = 0
  /\ quit = FALSE
  /\ mainPc = "idle"
  /\ pending = NoPair
  /\ workerPc = [w \in Workers |-> "obtain"]
  /\ held = [w \in Workers |-> NoPair]

-----------------------------------------------------------------------------
(* Mutated forms, used only to see that the properties notice them. *)

FileExistsShort(p) == \E i \in 0 .. count - 2 : SameSource(p, data[Shift(start, i)])
IsFullLate == count > Size
MustExitAtOnce == quit
WakeNobody(from, to) == UNCHANGED workerPc
WokenMainNever == mainPc
WakeFirstOnly(from, to) ==
  IF \E w \in Workers : workerPc[w] = from
  THEN workerPc' = [workerPc EXCEPT ![CHOOSE w \in Workers : workerPc[w] = from] = to]
  ELSE UNCHANGED workerPc

-----------------------------------------------------------------------------
(* The conditions tested under the mutex. *)

\* sync_buffer_file_exists
FileExists(p) == \E i \in 0 .. count - 1 : SameSource(p, data[Shift(start, i)])
IsFull == count >= Size
MustWait == count <= 0 /\ ~quit
MustExit == count <= 0 /\ quit
NextCell == Shift(end, 1)

\* pthread_cond_signal and pthread_cond_broadcast on cond_nonempty.
WakeOne(from, to) ==
  \/ /\ \A w \in Workers : workerPc[w] # from
     /\ UNCHANGED workerPc
  \/ \E w \in Workers :
       /\ workerPc[w] = from
       /\ workerPc' = [workerPc EXCEPT ![w] = to]
WakeAll(from, to) ==
  workerPc' = [w \in Workers |-> IF workerPc[w] = from THEN to ELSE workerPc[w]]

\* pthread_cond_signal on cond_nonfull: only the main thread waits there.
WokenMain == IF mainPc = "waitfull" THEN "place" ELSE mainPc

-----------------------------------------------------------------------------
(* The main thread. *)

\* A file of a LIST reply: skipped when the buffer holds it, placed otherwise.
CheckExists(p) ==
  /\ mainPc = "idle"
  /\ ~FileExists(p)
  /\ mainPc' = "place"
  /\ pending' = p
  /\ UNCHANGED <<ring, quit, workerPc, held>>

PlaceWaits ==
  /\ mainPc = "place"
  /\ IsFull
  /\ mainPc' = "waitfull"
  /\ UNCHANGED <<ring, quit, pending, workerPc, held>>

Place ==
  /\ mainPc = "place"
  /\ ~IsFull
  /\ end' = NextCell
  /\ data' = [data EXCEPT ![NextCell] = pending]
  /\ count' = count + 1
  /\ pending' = NoPair
  /\ mainPc' = "signal"
  /\ UNCHANGED <<start, quit, workerPc, held>>

SignalNonempty ==
  /\ mainPc = "signal"
  /\ mainPc' = "idle"
  /\ WakeOne("wait", "obtain")
  /\ UNCHANGED <<ring, quit, pending, held>>

(* The console's cancel.  The signal it sends on cond_nonfull reaches      *)
(* nobody: only the main thread ever waits there, and it is the sender.    *)
CancelDir(dir) ==
  /\ mainPc = "idle"
  /\ data' = CompactedData(data, start, count, dir)
  /\ end' = EndFrom(PlaceIndex(data, start, count, dir))
  /\ count' = CountFrom(PlaceIndex(data, start, count, dir), start)
  /\ UNCHANGED <<start, quit, mainPc, pending, workerPc, held>>

\* The console's shutdown: sync_buffer_quit sets the flag, then wakes every worker.
Quit ==
  /\ mainPc = "idle"
  /\ quit' = TRUE
  /\ mainPc' = "broadcast"
  /\ UNCHANGED <<ring, pending, workerPc, held>>

Broadcast ==
  /\ mainPc = "broadcast"
  /\ mainPc' = "join"
  /\ WakeAll("wait", "obtain")
  /\ UNCHANGED <<ring, quit, pending, held>>

\* nfs_join_worker_thread_pool
Join ==
  /\ mainPc = "join"
  /\ \A w \in Workers : workerPc[w] = "exit"
  /\ mainPc' = "done"
  /\ UNCHANGED <<ring, quit, pending, workerPc, held>>

-----------------------------------------------------------------------------
(* A worker thread. *)

ObtainWaits(w) ==
  /\ workerPc[w] = "obtain"
  /\ MustWait
  /\ workerPc' = [workerPc EXCEPT ![w] = "wait"]
  /\ UNCHANGED <<ring, quit, mainPc, pending, held>>

\* The zeroed pair makes the worker leave its loop.
ObtainExits(w) ==
  /\ workerPc[w] = "obtain"
  /\ ~MustWait
  /\ MustExit
  /\ workerPc' = [workerPc EXCEPT ![w] = "exit"]
  /\ UNCHANGED <<ring, quit, mainPc, pending, held>>

Obtain(w) ==
  /\ workerPc[w] = "obtain"
  /\ ~MustWait
  /\ ~MustExit
  /\ held' = [held EXCEPT ![w] = data[start]]
  /\ start' = Shift(start, 1)
  /\ count' = count - 1
  /\ workerPc' = [workerPc EXCEPT ![w] = "signal"]
  /\ UNCHANGED <<data, end, quit, mainPc, pending>>

SignalNonfull(w) ==
  /\ workerPc[w] = "signal"
  /\ workerPc' = [workerPc EXCEPT ![w] = "sync"]
  /\ mainPc' = WokenMain
  /\ UNCHANGED <<ring, quit, pending, held>>

\* The transfer, whatever its outcome: the loop continues with the next pair.
Finish(w) ==
  /\ workerPc[w] = "sync"
  /\ held' = [held EXCEPT ![w] = NoPair]
  /\ workerPc' = [workerPc EXCEPT ![w] = "obtain"]
  /\ UNCHANGED <<ring, quit, mainPc, pending>>

-----------------------------------------------------------------------------
(* POSIX allows a wait to return without a signal. *)
SpuriousNonempty(w) ==
  /\ workerPc[w] = "wait"
  /\ workerPc' = [workerPc EXCEPT ![w] = "obtain"]
  /\ UNCHANGED <<ring, quit, mainPc, pending, held>>

SpuriousNonfull ==
  /\ mainPc = "waitfull"
  /\ mainPc' = "place"
  /\ UNCHANGED <<ring, quit, pending, workerPc, held>>

\* The process is over: the buffer is destroyed and nothing moves any more.
Terminated == mainPc = "done" /\ UNCHANGED vars

WorkerStep(w) ==
  ObtainWaits(w) \/ ObtainExits(w) \/ Obtain(w) \/ SignalNonfull(w) \/ Finish(w)

\* The steps of an operation the main thread has begun.
MainStep == PlaceWaits \/ Place \/ SignalNonempty \/ Broadcast \/ Join

Next ==
  \/ MainStep
  \/ \E p \in Pairs : CheckExists(p)
  \/ \E dir \in Dirs : CancelDir(dir)
  \/ Quit
  \/ \E w \in Workers : WorkerStep(w) \/ SpuriousNonempty(w)
  \/ SpuriousNonfull
  \/ Terminated

Spec == Init /\ [][Next]_vars

(* The scheduler runs every thread, and a transfer ends.  Nothing obliges  *)
(* the console to type a command, and no wakeup is owed without a signal.  *)
Fairness == WF_vars(MainStep) /\ \A w \in Workers : WF_vars(WorkerStep(w))
FairSpec == Spec /\ Fairness

-----------------------------------------------------------------------------
(* Properties. *)

\* The fields of sync_buffer.c and the threads' locals stay within their ranges; the indices
\* address the array (end is -1 until the first place or the first cancel).
TypeOK ==
  /\ data \in [Cells -> Pairs \cup {NoPair}]
  /\ start \in Cells
  /\ end \in Cells \cup {-1}
  /\ count \in 0 .. Size
  /\ quit \in BOOLEAN
  /\ mainPc \in MainStates
  /\ pending \in Pairs \cup {NoPair}
  /\ workerPc \in [Workers -> WorkerStates]
  /\ held \in [Workers -> Pairs \cup {NoPair}]

Live(i) == data[Shift(start, i)]

\* No wakeup is lost although both conditions are signalled outside the mutex (sync_buffer.c:67-68,
\* 93-94): while a pair is queued some worker is awake or about to be woken, and while the main
\* thread sleeps on a buffer with a free slot some worker is still to signal it.
NoLostWakeup ==
  /\ count > 0 => \/ mainPc = "signal"
                  \/ \E w \in Workers : workerPc[w] \in {"obtain", "signal", "sync"}
  /\ mainPc = "waitfull" /\ count < Size => \E w \in Workers : workerPc[w] = "signal"

\* A worker leaves only after sync_buffer_quit and only on an empty buffer, which stays empty; when
\* the main thread has joined the pool no pair is queued or half transferred (sync_buffer.h:32-35).
ShutdownDrains ==
  /\ \A w \in Workers : workerPc[w] = "exit" => quit /\ count = 0 /\ held[w] = NoPair
  /\ mainPc = "done" => count = 0 /\ \A w \in Workers : held[w] = NoPair

\* The same source file is never queued twice: the check (nfs_manager.c:249, 353) and the place that
\* follows are two critical sections, with obtains of other threads between them.
NoDuplicates ==
  \A i, j \in 0 .. count - 1 : i # j => ~SameSource(Live(i), Live(j))

(* What the two invariants above rest on.  RingShape relates the three     *)
(* indices; Filled says that only written cells are live; the others tie   *)
(* the flag and the pairs in transit to the program counters.              *)
RingShape == Shift(end, 1) = Shift(start, count)
Filled == \A i \in 0 .. count - 1 : Live(i) \in Pairs
QuitPhase == quit <=> mainPc \in {"broadcast", "join", "done"}
PendingShape == mainPc \in {"place", "waitfull"} => pending \in Pairs
HeldShape ==
  \A w \in Workers : IF workerPc[w] \in {"signal", "sync"} THEN held[w] \in Pairs ELSE held[w] = NoPair
Drained == \A w \in Workers : workerPc[w] = "exit" => quit /\ count = 0
Joined == mainPc = "done" => \A w \in Workers : workerPc[w] = "exit"

\* The inductive invariant: the live cells are exactly the count cells from start to end, every one
\* of them written, across all interleavings of place, obtain, cancel and quit.
IInv ==
  /\ TypeOK /\ RingShape /\ Filled
  /\ QuitPhase /\ PendingShape /\ HeldShape
  /\ Drained /\ Joined
  /\ NoLostWakeup

\* The buffer with its threads and indices implements the FIFO that sync_buffer.h describes, except
\* for the emptying that BoundedBuffer names CancelMissOnFull.
Bounded == INSTANCE BoundedBuffer WITH queue <- Window(data, start, count), closed <- quit
ImplementsBounded == Bounded!Spec

\* sync_buffer_place always returns: the workers make room for the main thread (sync_buffer.h:28).
PlaceReturns == (mainPc = "place") ~> (mainPc = "idle")

\* How a queued pair leaves the buffer: to a worker, by a cancel that names its directory, or by the
\* emptying of a full buffer when a cancel names a directory none of whose pairs it holds.
Queued(p) == \E i \in 0 .. count - 1 : Live(i) = p
TakenByWorker(p) == \E w \in Workers : Obtain(w) /\ held'[w] = p
MissOnFull == \E dir \in Dirs : CancelDir(dir) /\ count = Size /\ \A i \in 0 .. count - 1 : Live(i).src.dir # dir

\* No queued pair is forgotten: it stays until a worker obtains it or its own name is cancelled
\* (README.md:70, 76), and one of these happens.  The one way in which pairs that nobody cancelled
\* vanish is named: a cancel that deletes nothing from a full buffer computes its count modulo the
\* size, as 0 (sync_buffer.c:173).
Drains ==
  /\ \A p \in Pairs : Queued(p) ~> ~Queued(p)
  /\ [][\A p \in Pairs : Queued(p) /\ ~Queued(p)' =>
            TakenByWorker(p) \/ CancelDir(p.src.dir) \/ MissOnFull]_vars

\* Once the shutdown is ordered the pool finishes the queue and the main thread joins every worker.
ShutdownCompletes == quit ~> (mainPc = "done")
=============================================================================
