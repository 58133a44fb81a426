-------------------------- MODULE FssManagerProof --------------------------
(***************************************************************************)
(* Proofs about FssManager, for every set of directories and files, every  *)
(* worker limit, every set of commands and every number of changes and     *)
(* faults.                                                                 *)
(***************************************************************************)
EXTENDS FssManager, JobQueueProof

Events == [wd : Nat, op : Kinds, file : Files]

(* What the kernel and the queue hold.                                     *)
QInv == queue \in Queues(Jobs) /\ events \in Seq(Events) /\ watch \in [Dirs -> Nat] /\ nextWd \in Nat

LEMMA JobTypes ==
  ASSUME NEW d \in Dirs
  PROVE  /\ \A sync \in BOOLEAN : FullJob(d, sync) \in Jobs
         /\ \A op \in Kinds, f \in Files : [dir |-> d, file |-> f, op |-> op, sync |-> FALSE] \in Jobs
BY DEF FullJob, Jobs

(* A job that is taken from the queue.                                     *)
LEMMA HeadTyped ==
  ASSUME NEW q \in Queues(Jobs), q.nodes # <<>>
  PROVE  Head(q.nodes) \in Jobs /\ q.size > 0 /\ Dequeue(q) \in Queues(Jobs)
<1>1. q.nodes \in Seq(Jobs) /\ q.size \in Nat /\ q.size >= Len(q.nodes)
  BY DEF Queues
<1>2. Head(q.nodes) \in Jobs /\ q.size > 0
  BY <1>1
<1> QED
  BY <1>2, DequeueCovers

LEMMA EventQueued ==
  ASSUME NEW q \in Queues(Jobs), NEW e \in Events
  PROVE  EventOutcomes(q, e) \subseteq Queues(Jobs)
<1>1. CASE q = Crashed \/ Owners(e.wd) = {}
  BY <1>1, SimpleQueues DEF EventOutcomes
<1>2. CASE ~(q = Crashed \/ Owners(e.wd) = {})
  <2> DEFINE d == CHOOSE d \in Owners(e.wd) : TRUE
             job == [dir |-> d, file |-> e.file, op |-> e.op, sync |-> FALSE]
  <2>1. d \in Dirs /\ e.file \in Files /\ e.op \in Kinds
    BY <1>2 DEF Owners, Events
  <2>2. EventOutcomes(q, e) = Enqueue(q, job)
    BY <1>2 DEF EventOutcomes
  <2> HIDE DEF d
  <2>3. job \in Jobs
    BY <2>1, JobTypes
  <2> HIDE DEF job
  <2> QED
    BY <2>2, <2>3, EnqueueCovers
<1> QED
  BY <1>1, <1>2

(* Where the outcomes of a batch lie when those of each event do.  That    *)
(* they exist, and this, by induction over the events: the least number of *)
(* events without is not 0 and has none before it.                         *)
LEMMA BatchWithin ==
  ASSUME NEW batch, Len(batch) \in Nat, NEW Q, queue \in Q[0],
         \A n \in 1 .. Len(batch) : \A q \in Q[n - 1] : EventOutcomes(q, batch[n]) \subseteq Q[n]
  PROVE  QueueOutcomes(batch) \subseteq Q[Len(batch)]
<1> DEFINE N == Len(batch)
           step(n, K) == UNION {EventOutcomes(q, batch[n]) : q \in K}
           value(g, n) == IF n = 0 THEN {queue} ELSE step(n, g[n - 1])
           follows(g, m) == g = [n \in 0 .. m |-> value(g, n)]
           outcomes == CHOOSE g : follows(g, N)
           stuck == {m \in 0 .. N : \A g : ~follows(g, m)}
           wrong == {m \in 0 .. N : ~(outcomes[m] \subseteq Q[m])}
<1>1. N \in Nat
  OBVIOUS
<1>2. \A n \in 1 .. N : \A K : K \subseteq Q[n - 1] => step(n, K) \subseteq Q[n]
  OBVIOUS
<1>3. QueueOutcomes(batch) = outcomes[N]
  BY DEF QueueOutcomes
<1> HIDE DEF N, step
<1>4. stuck = {}
  <2> SUFFICES ASSUME stuck # {} PROVE FALSE
    OBVIOUS
  <2>1. PICK m \in stuck : \A k \in stuck : m <= k
    BY <1>1, LeastGreatestTo
  <2>2. CASE m = 0
    <3>1. follows([n \in 0 .. m |-> {queue}], m)
      BY <2>2
    <3> QED
      BY <3>1
  <2>3. CASE m # 0
    <3>1. m \in 1 .. N /\ m - 1 \in 0 .. N /\ m - 1 \notin stuck
      <4>1. m \in 0 .. N
        OBVIOUS
      <4>2. m \in 1 .. N /\ m - 1 \in 0 .. N /\ ~(m <= m - 1)
        BY <1>1, <2>3, <4>1
      <4> HIDE DEF stuck
      <4> QED
        BY <2>1, <4>2
    <3>2. PICK g : follows(g, m - 1)
      BY <3>1
    <3> DEFINE h == [n \in 0 .. m |-> IF n = m THEN step(m, g[m - 1]) ELSE g[n]]
    <3>3. \A n \in 0 .. m : h[n] = value(h, n)
      <4> TAKE n \in 0 .. m
      <4>1. CASE n = m
        BY <3>1, <4>1
      <4>2. CASE n # m
        <5>1. n \in 0 .. m - 1 /\ h[n] = g[n]
          BY <3>1, <4>2
        <5>2. g[n] = value(g, n)
          BY <3>2, <5>1
        <5>3. n # 0 => h[n - 1] = g[n - 1]
          BY <3>1, <5>1
        <5> QED
          BY <5>1, <5>2, <5>3
      <4> QED
        BY <4>1, <4>2
    <3>4. follows(h, m)
      BY <3>3
    <3> QED
      BY <3>4
  <2> QED
    BY <2>2, <2>3
<1>5. follows(outcomes, N)
  <2>1. N \in 0 .. N
    BY <1>1
  <2>2. \E g : follows(g, N)
    <3> HIDE DEF follows
    <3>1. N \notin stuck
      BY <1>4
    <3> QED
      BY <2>1, <3>1
  <2> HIDE DEF follows
  <2> QED
    BY <2>2
<1>6. \A n \in 0 .. N : outcomes[n] = value(outcomes, n)
  BY <1>5
<1> HIDE DEF outcomes
<1>7. wrong = {}
  <2> SUFFICES ASSUME wrong # {} PROVE FALSE
    OBVIOUS
  <2>1. PICK m \in wrong : \A k \in wrong : m <= k
    BY <1>1, LeastGreatestTo
  <2>2. CASE m = 0
    BY <1>6, <2>1, <2>2
  <2>3. CASE m # 0
    <3>1. m \in 1 .. N /\ m - 1 \in 0 .. N /\ m - 1 \notin wrong
      BY <1>1, <2>1, <2>3
    <3>2. outcomes[m - 1] \subseteq Q[m - 1]
      BY <3>1
    <3>3. outcomes[m] = step(m, outcomes[m - 1])
      BY <1>6, <3>1
    <3> QED
      BY <1>2, <2>1, <3>1, <3>2, <3>3
  <2> QED
    BY <2>2, <2>3
<1>8. outcomes[N] \subseteq Q[N]
  <2>1. N \in 0 .. N
    BY <1>1
  <2> QED
    BY <1>7, <2>1
<1> QED
  BY <1>3, <1>8 DEF N

LEMMA BatchQueued ==
  ASSUME queue \in Queues(Jobs), NEW batch \in Seq(Events)
  PROVE  QueueOutcomes(batch) \subseteq Queues(Jobs)
<1> DEFINE Q == [n \in 0 .. Len(batch) |-> Queues(Jobs)]
<1>1. Len(batch) \in Nat /\ \A n \in 1 .. Len(batch) : batch[n] \in Events
  OBVIOUS
<1>2. \A n \in 0 .. Len(batch) : Q[n] = Queues(Jobs)
  OBVIOUS
<1> HIDE DEF Q
<1>3. \A n \in 1 .. Len(batch) : \A q \in Q[n - 1] : EventOutcomes(q, batch[n]) \subseteq Q[n]
  <2> TAKE n \in 1 .. Len(batch)
  <2>1. Q[n - 1] = Queues(Jobs) /\ Q[n] = Queues(Jobs)
    BY <1>1, <1>2
  <2> QED
    BY <1>1, <2>1, EventQueued
<1>4. queue \in Q[0] /\ Q[Len(batch)] = Queues(Jobs)
  BY <1>1, <1>2
<1>5. QueueOutcomes(batch) \subseteq Q[Len(batch)]
  BY <1>1, <1>3, <1>4, BatchWithin
<1> QED
  BY <1>4, <1>5
-----------------------------------------------------------------------------
(* The records of the workers and of what the scan has yet to look at.  A  *)
(* lost slot is neither free nor busy.                                     *)
Entries == [known : BOOLEAN, active : BOOLEAN, wd : Nat, working : BOOLEAN]
Indices == {ConsoleIndex} \cup Slots
Processes == [pc : {"none", "run", "reported", "dead"}, todo : SUBSET (Files \cup {"ALL"})]
Lost == Slots \ (Busy \cup ToSet(slotQ))

TInv ==
  /\ QInv
  /\ mon \in [Dirs -> Entries]
  /\ slotQ \in Seq(Slots) /\ active \in Int /\ faults \in Nat
  /\ slotJob \in [Indices -> Jobs \cup {NoJob}]
  /\ worker \in [Indices -> Processes]

(* A report that the scan will read is of a slot that is still busy.       *)
ScanInv ==
  /\ ready \subseteq 0 .. Limit + 1
  /\ pc # "scan" => ready = {}
  /\ \A s \in ready \cap Slots : s \in Busy

(* A directory that is not working has no worker.                          *)
ExclusiveInv ==
  /\ \A s \in Busy : mon[slotJob[s].dir].working
  /\ Exclusive

(* With one fault at most one slot is lost, so that index 0 is used for    *)
(* one worker at most.                                                     *)
PoolInv ==
  /\ WorkingConsistent
  /\ SlotAccounting
  /\ \E l \in Nat : Lost \subseteq {l}

FInv == TInv /\ ScanInv /\ ExclusiveInv /\ (faults <= 1 => PoolInv)
-----------------------------------------------------------------------------
(* Types: what each group of steps can disturb.                            *)
LEMMA NextSlotType ==
  ASSUME slotQ \in Seq(Slots)
  PROVE  /\ NextSlot \in Indices /\ (slotQ # <<>> => NextSlot \in Slots)
         /\ TakeSlot => slotQ' \in Seq(Slots)
<1>1. CASE slotQ = <<>>
  BY <1>1 DEF NextSlot, TakeSlot, Indices
<1>2. CASE slotQ # <<>>
  <2>1. Head(slotQ) \in Slots /\ Tail(slotQ) \in Seq(Slots)
    BY <1>2
  <2> HIDE DEF Slots
  <2> QED
    BY <1>2, <2>1 DEF NextSlot, TakeSlot, Indices
<1> QED
  BY <1>1, <1>2

(* A field of an entry is set and the others stay.                         *)
LEMMA EntryChanged ==
  ASSUME mon \in [Dirs -> Entries], NEW d \in Dirs, NEW e \in Entries
  PROVE  /\ [mon EXCEPT ![d] = e] \in [Dirs -> Entries]
         /\ \A x \in Dirs : [mon EXCEPT ![d] = e][x] = IF x = d THEN e ELSE mon[x]
OBVIOUS

LEMMA EntryFields ==
  ASSUME NEW e \in Entries, NEW b \in BOOLEAN
  PROVE  /\ [e EXCEPT !.active = b] \in Entries /\ [e EXCEPT !.active = b].working = e.working
         /\ [e EXCEPT !.working = b] \in Entries /\ [e EXCEPT !.working = b].working = b
         /\ [e EXCEPT !.known = b] \in Entries /\ [e EXCEPT !.known = b].working = e.working
BY DEF Entries

LEMMA EntryWatch ==
  ASSUME NEW e \in Entries, NEW n \in Nat
  PROVE  [e EXCEPT !.wd = n] \in Entries /\ [e EXCEPT !.wd = n].working = e.working
BY DEF Entries

(* Monitoring a directory does not touch who works on it.                  *)
LEMMA Monitored ==
  ASSUME mon \in [Dirs -> Entries], NEW d \in Dirs, watch' \in [Dirs -> Nat], Monitor(d)
  PROVE  mon' \in [Dirs -> Entries] /\ \A e \in Dirs : mon'[e].working = mon[e].working
<1> DEFINE known == [mon[d] EXCEPT !.known = TRUE]
           on == [known EXCEPT !.active = TRUE]
           watched == [on EXCEPT !.wd = watch'[d]]
<1>1. mon' = [mon EXCEPT ![d] = watched]
  BY DEF Monitor
<1>2. mon[d] \in Entries /\ watch'[d] \in Nat
  OBVIOUS
<1>3. known \in Entries /\ known.working = mon[d].working
  BY <1>2, EntryFields
<1> HIDE DEF known
<1>4. on \in Entries /\ on.working = mon[d].working
  BY <1>3, EntryFields
<1> HIDE DEF on
<1>5. watched \in Entries /\ watched.working = mon[d].working
  BY <1>2, <1>4, EntryWatch
<1> HIDE DEF watched
<1> QED
  BY <1>1, <1>5, EntryChanged

(* One read takes the first events and leaves the rest.                    *)
LEMMA BatchSplit ==
  ASSUME events \in Seq(Events)
  PROVE  /\ Batch(events) \in Seq(Events) /\ Unread(events) \in Seq(Events)
         /\ Len(events) = Len(Batch(events)) + Len(Unread(events))
         /\ \A i \in 1 .. Len(Batch(events)) : Batch(events)[i] = events[i]
         /\ \A i \in 1 .. Len(Unread(events)) : Unread(events)[i] = events[Len(Batch(events)) + i]
<1> DEFINE n == Min({Len(events), ReadMax})
           b == SubSeq(events, 1, n)
           u == SubSeq(events, ReadMax + 1, Len(events))
<1>1. n \in 0 .. Len(events) /\ n = IF Len(events) <= ReadMax THEN Len(events) ELSE ReadMax
  <2>1. {Len(events), ReadMax} \subseteq 0 .. Len(events) + ReadMax /\ {Len(events), ReadMax} # {}
    BY ReadAssumption
  <2>2. Len(events) + ReadMax \in Nat
    BY ReadAssumption
  <2>3. n \in {Len(events), ReadMax} /\ \A k \in {Len(events), ReadMax} : n <= k
    BY <2>1, <2>2, LeastGreatestTo
  <2> QED
    BY <2>3, ReadAssumption
<1>2. Batch(events) = b /\ Unread(events) = u
  BY DEF Batch, Unread
<1> HIDE DEF n
<1>3. b \in Seq(Events) /\ Len(b) = n /\ \A i \in 1 .. n : b[i] = events[i]
  <2>1. 1 \in Int /\ n \in Int /\ \A i \in 1 .. n : events[i] \in Events
    BY <1>1
  <2>2. b \in Seq(Events) /\ Len(b) = (IF 1 <= n THEN n - 1 + 1 ELSE 0) /\ \A i \in 1 .. n - 1 + 1 : b[i] = events[1 + i - 1]
    BY ONLY <2>1, SubSeqProperties
  <2> HIDE DEF b
  <2>3. Len(b) = n
    BY <1>1, <2>2
  <2>4. ASSUME NEW i \in 1 .. n PROVE b[i] = events[i]
    <3>1. 1 + i - 1 = i /\ i \in 1 .. n - 1 + 1
      BY <1>1
    <3>2. b[i] = events[1 + i - 1]
      BY <2>2, <3>1
    <3> QED
      BY <3>1, <3>2
  <2> QED
    BY <2>2, <2>3, <2>4
<1>4. u \in Seq(Events) /\ Len(u) = Len(events) - n /\ \A i \in 1 .. Len(u) : u[i] = events[n + i]
  <2>1. CASE Len(events) <= ReadMax
    <3>1. ReadMax + 1 \in Int /\ Len(events) \in Int /\ Len(events) < ReadMax + 1
      BY <2>1, ReadAssumption
    <3>2. u = <<>>
      BY ONLY <3>1, SubSeqEmpty
    <3> HIDE DEF u
    <3>3. u \in Seq(Events) /\ Len(u) = 0
      BY <3>2
    <3>4. Len(events) - n = 0
      BY <1>1, <2>1
    <3> QED
      BY <3>3, <3>4
  <2>2. CASE ~(Len(events) <= ReadMax)
    <3>1. n = ReadMax
      BY <1>1, <2>2
    <3>2. u = SubSeq(events, n + 1, Len(events))
      BY <3>1
    <3> HIDE DEF u
    <3> QED
      BY <1>1, <3>2, SuffixShape
  <2> QED
    BY <2>1, <2>2
<1> HIDE DEF b, u
<1>5. Len(events) = Len(b) + Len(u)
  BY <1>1, <1>3, <1>4
<1> QED
  BY <1>2, <1>3, <1>4, <1>5

LEMMA ManagerTypes ==
  ASSUME TInv, ManagerStep \/ SetupFails
  PROVE  TInv'
<1>0. /\ queue \in Queues(Jobs) /\ events \in Seq(Events) /\ watch \in [Dirs -> Nat] /\ nextWd \in Nat
      /\ mon \in [Dirs -> Entries] /\ slotQ \in Seq(Slots) /\ active \in Int /\ faults \in Nat
      /\ slotJob \in [Indices -> Jobs \cup {NoJob}] /\ worker \in [Indices -> Processes]
  BY DEF TInv, QInv
<1>1. ASSUME queue' \in Queues(Jobs), UNCHANGED <<events, watch, nextWd, mon, slotQ, active, faults, slotJob, worker>>
      PROVE  TInv'
  BY <1>0, <1>1 DEF TInv, QInv
<1>2. CASE TakeNothing
  BY <1>1, <1>2, SimpleQueues DEF TakeNothing, Dequeue, kernel, workers
<1>3. CASE PutBack
  <2>1. queue.nodes # <<>> /\ queue' \in Enqueue(Dequeue(queue), Head(queue.nodes))
    BY <1>3 DEF PutBack
  <2>2. queue' \in Queues(Jobs)
    BY <1>0, <2>1, HeadTyped, EnqueueCovers
  <2> QED
    BY <1>1, <1>3, <2>2 DEF PutBack, kernel, workers
<1>4. CASE StartWorker
  <2> DEFINE job == Head(queue.nodes)
  <2>1. queue.nodes # <<>> /\ queue' = Dequeue(queue)
    BY <1>4 DEF StartWorker
  <2>2. job \in Jobs /\ queue' \in Queues(Jobs)
    BY <1>0, <2>1, HeadTyped
  <2>3. slotJob' = [slotJob EXCEPT ![NextSlot] = job] /\ mon' = [mon EXCEPT ![job.dir].working = TRUE]
    BY <1>4 DEF StartWorker
  <2>4. worker' = [worker EXCEPT ![NextSlot] = [pc |-> "run", todo |-> IF job.op = "FULL" THEN Files ELSE {job.file}]]
    BY <1>4 DEF StartWorker
  <2> HIDE DEF job
  <2>5. slotJob' \in [Indices -> Jobs \cup {NoJob}]
    BY <1>0, <2>2, <2>3
  <2>6. worker' \in [Indices -> Processes]
    <3> DEFINE todo == IF job.op = "FULL" THEN Files ELSE {job.file}
    <3>1. todo \in SUBSET (Files \cup {"ALL"})
      BY <2>2 DEF Jobs
    <3> HIDE DEF todo
    <3>2. [pc |-> "run", todo |-> todo] \in Processes
      BY <3>1 DEF Processes
    <3>3. worker' = [worker EXCEPT ![NextSlot] = [pc |-> "run", todo |-> todo]]
      BY <2>4 DEF todo
    <3> QED
      BY <1>0, <3>2, <3>3
  <2>7. mon' \in [Dirs -> Entries]
    BY <1>0, <2>3 DEF Entries
  <2>8. slotQ' \in Seq(Slots)
    BY <1>0, <1>4, NextSlotType DEF StartWorker
  <2>9. active' \in Int /\ UNCHANGED <<events, watch, nextWd, faults>>
    BY <1>0, <1>4 DEF StartWorker, kernel
  <2> QED
    BY <1>0, <2>2, <2>5, <2>6, <2>7, <2>8, <2>9 DEF TInv, QInv
<1>5. CASE SetupFails
  <2>1. queue.nodes # <<>> /\ queue' = Dequeue(queue) /\ faults' = faults + 1 /\ TakeSlot
    BY <1>5 DEF SetupFails
  <2>2. queue' \in Queues(Jobs) /\ slotQ' \in Seq(Slots) /\ faults' \in Nat
    BY <1>0, <2>1, HeadTyped, NextSlotType
  <2>3. UNCHANGED <<events, watch, nextWd, mon, active, slotJob, worker>>
    BY <1>5 DEF SetupFails, kernel
  <2> QED
    BY <1>0, <2>2, <2>3 DEF TInv, QInv
<1>6. CASE EndDispatch \/ Poll \/ IgnoreInput \/ EndScan
  BY <1>0, <1>1, <1>6 DEF EndDispatch, Poll, IgnoreInput, EndScan, kernel, workers
<1>7. CASE HandleInotify
  <2>1. Batch(events) \in Seq(Events) /\ Unread(events) \in Seq(Events)
    BY <1>0, BatchSplit
  <2>2. queue' \in Queues(Jobs)
    <3>1. queue' \in QueueOutcomes(Batch(events))
      BY <1>7 DEF HandleInotify
    <3> QED
      BY <1>0, <2>1, <3>1, BatchQueued
  <2>3. events' = Unread(events) /\ UNCHANGED <<watch, nextWd, mon, slotQ, active, faults, slotJob, worker>>
    BY <1>7 DEF HandleInotify, workers
  <2> QED
    BY <1>0, <2>1, <2>2, <2>3 DEF TInv, QInv
<1>8. ASSUME NEW d \in Dirs, Status(d) \/ Shutdown(d) PROVE TInv'
  BY <1>0, <1>1, <1>8 DEF Status, Shutdown, Untouched, Commanded, workers
<1>9. ASSUME NEW d \in Dirs, Cancel(d) PROVE TInv'
  <2>1. UNCHANGED <<events, slotQ, active, faults, slotJob, worker, nextWd>>
    BY <1>9 DEF Cancel, Untouched, Commanded, workers
  <2>2. \/ UNCHANGED <<watch, mon, queue>>
        \/ /\ watch' = [watch EXCEPT ![d] = 0] /\ mon' = [mon EXCEPT ![d].active = FALSE]
           /\ queue' = RemoveDir(queue, d)
    BY <1>9 DEF Cancel, Untouched
  <2>3. watch' \in [Dirs -> Nat]
    BY <1>0, <2>2
  <2>4. mon' \in [Dirs -> Entries]
    <3>1. mon[d] \in Entries
      BY <1>0
    <3>2. [mon[d] EXCEPT !.active = FALSE] \in Entries
      BY <3>1, EntryFields
    <3>3. [mon EXCEPT ![d] = [mon[d] EXCEPT !.active = FALSE]] \in [Dirs -> Entries]
      BY <1>0, <3>2, EntryChanged
    <3> QED
      BY <1>0, <2>2, <3>3
  <2>5. queue' \in Queues(Jobs)
    BY <1>0, <2>2, RemoveCovers
  <2> QED
    BY <1>0, <2>1, <2>3, <2>4, <2>5 DEF TInv, QInv
<1>10. ASSUME NEW d \in Dirs, Add(d) \/ Sync(d) PROVE TInv'
  <2>1. UNCHANGED <<events, slotQ, active, faults, slotJob, worker>>
    BY <1>10 DEF Add, Sync, Commanded, workers
  <2>2. UNCHANGED <<watch, nextWd, mon>> \/ (AddWatch(d) /\ Monitor(d))
    BY <1>10 DEF Add, Sync, Untouched
  <2>3. watch' \in [Dirs -> Nat] /\ nextWd' \in Nat
    <3>1. CASE UNCHANGED <<watch, nextWd>>
      BY <1>0, <3>1
    <3>2. CASE watch' = [watch EXCEPT ![d] = nextWd] /\ nextWd' = nextWd + 1
      BY <1>0, <3>2
    <3> QED
      BY <2>2, <3>1, <3>2 DEF AddWatch
  <2>4. mon' \in [Dirs -> Entries]
    BY <1>0, <2>2, <2>3, Monitored
  <2>5. UNCHANGED queue \/ \E sync \in BOOLEAN : queue' \in Enqueue(queue, FullJob(d, sync))
    BY <1>10 DEF Add, Sync, Untouched
  <2>6. queue' \in Queues(Jobs)
    BY <1>0, <2>5, JobTypes, EnqueueCovers
  <2> QED
    BY <1>0, <2>1, <2>3, <2>4, <2>6 DEF TInv, QInv
<1>11. ASSUME NEW s \in Slots, HandleReport(s) PROVE TInv'
  <2>1. /\ mon' = [mon EXCEPT ![slotJob[s].dir].working = FALSE]
        /\ slotQ' = Append(slotQ, s) /\ active' = active - 1
        /\ slotJob' = [slotJob EXCEPT ![s] = NoJob] /\ worker' = [worker EXCEPT ![s] = Idle]
        /\ UNCHANGED <<queue, events, watch, nextWd, faults>>
    BY <1>11 DEF HandleReport, NotWorking, Freed, kernel
  <2>2. Idle \in Processes
    BY DEF Idle, Processes
  <2>3. mon' \in [Dirs -> Entries]
    BY <1>0, <2>1 DEF Entries
  <2>4. slotQ' \in Seq(Slots) /\ active' \in Int
    BY <1>0, <2>1
  <2>5. slotJob' \in [Indices -> Jobs \cup {NoJob}] /\ worker' \in [Indices -> Processes]
    BY <1>0, <2>1, <2>2
  <2> QED
    BY <1>0, <2>1, <2>3, <2>4, <2>5 DEF TInv, QInv
<1> QED
  BY <1>2, <1>3, <1>4, <1>5, <1>6, <1>7, <1>8, <1>9, <1>10, <1>11 DEF ManagerStep
-----------------------------------------------------------------------------
(* Which steps can disturb the records of the workers.                     *)

(* Everybody but the manager.                                              *)
Environment ==
  \/ \E s \in Indices : WorkerStep(s) \/ KillWorker(s)
  \/ \E d \in Dirs, f \in Files, kind \in Kinds : ChangeFile(d, f, kind)
  \/ \E d \in Dirs : RemoveSource(d)
  \/ \E c \in Commands : Type(c)
  \/ ConsoleReads \/ Over \/ UNCHANGED vars

LEMMA StepKinds ==
  ASSUME [Next]_vars
  PROVE  ManagerStep \/ SetupFails \/ Environment
BY DEF Next, Environment, Indices

\* A step that leaves the records of the workers as they are.
Kept ==
  /\ UNCHANGED <<slotQ, active, slotJob>> /\ faults' >= faults
  /\ \A d \in Dirs : mon'[d].working = mon[d].working
  /\ \A s \in Indices : worker'[s].pc = "none" <=> worker[s].pc = "none"
  /\ pc' = "stopped" => pc = "stopped" /\ UNCHANGED queue

LEMMA EnvironmentKeeps ==
  ASSUME TInv, Environment
  PROVE  TInv' /\ Kept /\ UNCHANGED <<pc, ready>>
<1>0. /\ queue \in Queues(Jobs) /\ events \in Seq(Events) /\ watch \in [Dirs -> Nat] /\ nextWd \in Nat
      /\ mon \in [Dirs -> Entries] /\ slotQ \in Seq(Slots) /\ active \in Int /\ faults \in Nat
      /\ slotJob \in [Indices -> Jobs \cup {NoJob}] /\ worker \in [Indices -> Processes]
  BY DEF TInv, QInv
<1>1. ASSUME UNCHANGED <<queue, nextWd, mon, slotQ, active, faults, slotJob, worker, pc, ready>>,
             events' \in Seq(Events), watch' \in [Dirs -> Nat]
      PROVE  TInv' /\ Kept /\ UNCHANGED <<pc, ready>>
  BY <1>0, <1>1 DEF TInv, QInv, Kept
<1>2. ASSUME NEW s \in Indices, NEW p \in Processes, worker[s].pc # "none", p.pc # "none",
             worker' = [worker EXCEPT ![s] = p], faults' \in {faults, faults + 1},
             UNCHANGED <<queue, events, watch, nextWd, mon, slotQ, active, slotJob, pc, ready>>
      PROVE  TInv' /\ Kept /\ UNCHANGED <<pc, ready>>
  <2>1. worker' \in [Indices -> Processes] /\ \A t \in Indices : worker'[t].pc = "none" <=> worker[t].pc = "none"
    BY <1>0, <1>2
  <2>2. faults' \in Nat /\ faults' >= faults
    BY <1>0, <1>2
  <2> QED
    BY <1>0, <1>2, <2>1, <2>2 DEF TInv, QInv, Kept
<1>3. ASSUME NEW s \in Indices, WorkerStep(s) \/ KillWorker(s)
      PROVE  TInv' /\ Kept /\ UNCHANGED <<pc, ready>>
  <2>1. worker[s] \in Processes /\ worker[s].pc = "run"
    BY <1>0, <1>3 DEF WorkerStep, CopyFile, Report, KillWorker
  <2>2. \E p \in Processes : p.pc # "none" /\ worker' = [worker EXCEPT ![s] = p]
    <3>1. ASSUME NEW f \in Files, CopyFile(s, f) PROVE \E p \in Processes : p.pc # "none" /\ worker' = [worker EXCEPT ![s] = p]
      <4> DEFINE p == [pc |-> worker[s].pc, todo |-> worker[s].todo \ {f}]
      <4>1. p \in Processes /\ p.pc # "none"
        BY <2>1 DEF Processes
      <4>2. worker' = [worker EXCEPT ![s].todo = @ \ {f}]
        BY <3>1 DEF CopyFile
      <4>3. [worker[s] EXCEPT !.todo = @ \ {f}] = p
        BY <2>1 DEF Processes
      <4>4. worker' = [worker EXCEPT ![s] = p]
        BY <1>0, <4>2, <4>3
      <4> HIDE DEF p
      <4> QED
        BY <4>1, <4>4
    <3>2. CASE Report(s)
      <4> DEFINE p == [pc |-> "reported", todo |-> worker[s].todo]
      <4>1. p \in Processes /\ p.pc # "none"
        BY <2>1 DEF Processes
      <4>2. worker' = [worker EXCEPT ![s].pc = "reported"]
        BY <3>2 DEF Report
      <4>3. [worker[s] EXCEPT !.pc = "reported"] = p
        BY <2>1 DEF Processes
      <4>4. worker' = [worker EXCEPT ![s] = p]
        BY <1>0, <4>2, <4>3
      <4> HIDE DEF p
      <4> QED
        BY <4>1, <4>4
    <3>3. CASE KillWorker(s)
      <4>1. [pc |-> "dead", todo |-> {}] \in Processes
        BY DEF Processes
      <4> QED
        BY <3>3, <4>1 DEF KillWorker
    <3> QED
      BY <1>3, <3>1, <3>2, <3>3 DEF WorkerStep
  <2>3. faults' \in {faults, faults + 1}
    BY <1>3 DEF WorkerStep, CopyFile, Report, KillWorker
  <2>4. UNCHANGED <<queue, events, watch, nextWd, mon, slotQ, active, slotJob, pc, ready>>
    BY <1>3 DEF WorkerStep, CopyFile, Report, KillWorker, kernel
  <2> QED
    BY <1>2, <2>1, <2>2, <2>3, <2>4
<1>4. ASSUME NEW d \in Dirs, NEW f \in Files, NEW kind \in Kinds, ChangeFile(d, f, kind)
      PROVE  TInv' /\ Kept /\ UNCHANGED <<pc, ready>>
  <2> DEFINE e == [wd |-> watch[d], op |-> kind, file |-> f]
  <2>1. e \in Events
    BY <1>0 DEF Events
  <2>2. events' = events \/ events' = Append(events, e)
    BY <1>4 DEF ChangeFile, Emit
  <2> HIDE DEF e
  <2>3. Append(events, e) \in Seq(Events)
    BY <1>0, <2>1
  <2>4. events' \in Seq(Events)
    BY <1>0, <2>2, <2>3
  <2> QED
    BY <1>0, <1>1, <1>4, <2>4 DEF ChangeFile, workers
<1>5. ASSUME NEW d \in Dirs, RemoveSource(d) PROVE TInv' /\ Kept /\ UNCHANGED <<pc, ready>>
  <2>1. watch' \in [Dirs -> Nat]
    BY <1>0, <1>5 DEF RemoveSource
  <2> QED
    BY <1>0, <1>1, <1>5, <2>1 DEF RemoveSource, workers
<1>6. ASSUME (\E c \in Commands : Type(c)) \/ ConsoleReads \/ Over \/ UNCHANGED vars
      PROVE  TInv' /\ Kept /\ UNCHANGED <<pc, ready>>
  BY <1>0, <1>1, <1>6 DEF Type, ConsoleReads, Over, vars, kernel, workers
<1> QED
  BY <1>3, <1>4, <1>5, <1>6 DEF Environment

(* Of the manager's steps, those that start and end a worker.              *)
LEMMA ManagerKeeps ==
  ASSUME TInv, ManagerStep \/ SetupFails
  PROVE  Kept \/ StartWorker \/ SetupFails \/ EndDispatch \/ \E s \in Slots : HandleReport(s)
<1>0. mon \in [Dirs -> Entries] /\ faults \in Nat
  BY DEF TInv
<1>1. ASSUME UNCHANGED <<slotQ, active, slotJob, faults, worker>>, pc' # "stopped",
             \A d \in Dirs : mon'[d].working = mon[d].working
      PROVE  Kept
  BY <1>0, <1>1 DEF Kept
<1>2. CASE TakeNothing \/ PutBack
  BY <1>1, <1>2 DEF TakeNothing, PutBack, Taking, Dispatching, workers
<1>3. CASE Poll \/ IgnoreInput \/ HandleInotify \/ EndScan
  BY <1>1, <1>3 DEF Poll, IgnoreInput, HandleInotify, EndScan, Scans, workers
<1>4. ASSUME NEW d \in Dirs, Add(d) \/ Status(d) \/ Cancel(d) \/ Sync(d) \/ Shutdown(d) PROVE Kept
  <2>1. \E name : Commanded(name, d)
    BY <1>4 DEF Add, Status, Cancel, Sync, Shutdown
  <2>2. UNCHANGED <<slotQ, active, slotJob, faults, worker>> /\ pc' # "stopped"
    BY <2>1 DEF Commanded, Scans, workers
  <2>3. mon' = mon \/ mon' = [mon EXCEPT ![d].active = FALSE] \/ (AddWatch(d) /\ Monitor(d))
    BY <1>4 DEF Add, Status, Cancel, Sync, Shutdown, Untouched
  <2>4. ASSUME mon' = [mon EXCEPT ![d].active = FALSE], NEW e \in Dirs PROVE mon'[e].working = mon[e].working
    BY <1>0, <2>4 DEF Entries
  <2>5. AddWatch(d) /\ Monitor(d) => \A e \in Dirs : mon'[e].working = mon[e].working
    <3>1. TInv'
      BY ManagerTypes
    <3> QED
      BY <1>0, <3>1, Monitored DEF TInv, QInv
  <2> QED
    BY <1>1, <2>2, <2>3, <2>4, <2>5
<1> QED
  BY <1>2, <1>3, <1>4 DEF ManagerStep
-----------------------------------------------------------------------------
(* The queue of free slots as a set.                                       *)
LEMMA HeadTail ==
  ASSUME NEW S, NEW q \in Seq(S), q # <<>>
  PROVE  /\ Head(q) \in ToSet(q) /\ ToSet(q) \subseteq ToSet(Tail(q)) \cup {Head(q)} /\ ToSet(Tail(q)) \subseteq ToSet(q)
         /\ IsInjective(q) => Head(q) \notin ToSet(Tail(q)) /\ IsInjective(Tail(q))
<1>1. /\ Len(q) \in Nat /\ Len(q) >= 1 /\ DOMAIN q = 1 .. Len(q) /\ Head(q) = q[1]
      /\ DOMAIN Tail(q) = 1 .. Len(q) - 1 /\ \A i \in 1 .. Len(q) - 1 : Tail(q)[i] = q[i + 1]
  OBVIOUS
<1>2. Head(q) \in ToSet(q)
  BY <1>1 DEF ToSet
<1>3. ASSUME NEW i \in DOMAIN q PROVE q[i] \in ToSet(Tail(q)) \cup {Head(q)}
  <2>1. CASE i = 1
    BY <1>1, <2>1
  <2>2. CASE i # 1
    <3>1. i - 1 \in 1 .. Len(q) - 1 /\ (i - 1) + 1 = i
      BY <1>1, <2>2
    <3>2. i - 1 \in DOMAIN Tail(q) /\ Tail(q)[i - 1] = q[i]
      BY <1>1, <3>1
    <3> QED
      BY <3>2 DEF ToSet
  <2> QED
    BY <2>1, <2>2
<1>4. \A i \in DOMAIN Tail(q) : i + 1 \in DOMAIN q /\ i + 1 # 1 /\ Tail(q)[i] = q[i + 1]
  BY <1>1
<1>5. ToSet(q) \subseteq ToSet(Tail(q)) \cup {Head(q)}
  BY <1>3 DEF ToSet
<1>6. ToSet(Tail(q)) \subseteq ToSet(q)
  BY <1>4 DEF ToSet
<1>7. ASSUME IsInjective(q) PROVE Head(q) \notin ToSet(Tail(q)) /\ IsInjective(Tail(q))
  <2>1. \A i \in DOMAIN Tail(q) : Tail(q)[i] # Head(q)
    <3>1. 1 \in DOMAIN q /\ Head(q) = q[1]
      BY <1>1
    <3> QED
      BY <1>4, <1>7, <3>1 DEF IsInjective
  <2>2. ASSUME NEW i \in DOMAIN Tail(q), NEW j \in DOMAIN Tail(q), Tail(q)[i] = Tail(q)[j] PROVE i = j
    <3>1. i + 1 = j + 1
      BY <1>4, <1>7, <2>2 DEF IsInjective
    <3> QED
      BY <1>1, <3>1
  <2>3. Head(q) \notin ToSet(Tail(q))
    BY <2>1 DEF ToSet
  <2> QED
    BY <2>2, <2>3 DEF IsInjective
<1> QED
  BY <1>2, <1>5, <1>6, <1>7

LEMMA AppendSet ==
  ASSUME NEW S, NEW q \in Seq(S), NEW x \in S
  PROVE  /\ ToSet(Append(q, x)) = ToSet(q) \cup {x}
         /\ IsInjective(q) /\ x \notin ToSet(q) => IsInjective(Append(q, x))
<1> DEFINE n == Len(q) + 1
<1>1. /\ Len(q) \in Nat /\ DOMAIN q = 1 .. Len(q) /\ DOMAIN Append(q, x) = DOMAIN q \cup {n}
      /\ Append(q, x)[n] = x /\ \A i \in DOMAIN q : Append(q, x)[i] = q[i]
  <2>1. /\ Len(q) \in Nat /\ DOMAIN q = 1 .. Len(q) /\ DOMAIN Append(q, x) = 1 .. Len(q) + 1
        /\ Append(q, x)[n] = x /\ \A i \in 1 .. Len(q) : Append(q, x)[i] = q[i]
    OBVIOUS
  <2>2. 1 .. Len(q) + 1 = 1 .. Len(q) \cup {n}
    BY <2>1
  <2> QED
    BY <2>1, <2>2
<1> HIDE DEF n
<1>2. ToSet(Append(q, x)) = ToSet(q) \cup {x}
  BY <1>1 DEF ToSet
<1>3. IsInjective(q) /\ x \notin ToSet(q) => IsInjective(Append(q, x))
  BY <1>1 DEF IsInjective, ToSet
<1> QED
  BY <1>2, <1>3

-----------------------------------------------------------------------------
LEMMA IndexTypes ==
  /\ ConsoleIndex \notin Slots /\ InotifyIndex \notin Slots
  /\ \A s \in Slots : s \in Nat
  /\ IsFiniteSet(Slots) /\ Cardinality(Slots) = Limit
<1>1. ConsoleIndex \notin Slots /\ InotifyIndex \notin Slots /\ \A s \in Slots : s \in Nat
  BY LimitAssumption DEF Slots, ConsoleIndex, InotifyIndex
<1>2. IsFiniteSet(2 .. Limit + 1) /\ Cardinality(2 .. Limit + 1) = Limit
  <2>1. PICK m \in Nat : m = Limit + 1
    BY LimitAssumption
  <2>2. IsFiniteSet(2 .. m) /\ Cardinality(2 .. m) = IF 2 > m THEN 0 ELSE m - 2 + 1
    BY FS_Interval
  <2> QED
    BY <2>1, <2>2, LimitAssumption
<1> QED
  BY <1>1, <1>2 DEF Slots

LEMMA BusyTypes ==
  ASSUME TInv
  PROVE  /\ Busy = {s \in Indices : slotJob[s] # NoJob} /\ IsFiniteSet(Busy) /\ Cardinality(Busy) \in Nat
         /\ \A s \in Busy : slotJob[s].dir \in Dirs
<1>1. slotJob \in [Indices -> Jobs \cup {NoJob}]
  BY DEF TInv
<1>2. Busy = {s \in Indices : slotJob[s] # NoJob}
  BY <1>1 DEF Busy
<1>3. IsFiniteSet(Indices)
  BY IndexTypes, FS_AddElement DEF Indices
<1>4. IsFiniteSet(Busy) /\ Cardinality(Busy) \in Nat
  <2>1. Busy \in SUBSET Indices
    BY <1>2
  <2> QED
    BY <1>3, <2>1, FS_Subset, FS_CardinalityType
<1>5. \A s \in Busy : slotJob[s] \in Jobs
  BY <1>1, <1>2
<1> QED
  BY <1>2, <1>4, <1>5 DEF Jobs

(* What starting a worker changes.                                         *)
LEMMA Started ==
  ASSUME TInv, StartWorker
  PROVE  \E job \in Jobs :
           /\ slotJob' = [slotJob EXCEPT ![NextSlot] = job] /\ Busy' = Busy \cup {NextSlot}
           /\ ~mon[job.dir].working /\ job.dir \in Dirs
           /\ \A d \in Dirs : mon'[d].working = (IF d = job.dir THEN TRUE ELSE mon[d].working)
           /\ \A s \in Indices : worker'[s].pc = IF s = NextSlot THEN "run" ELSE worker[s].pc
<1> DEFINE job == Head(queue.nodes)
<1>0. /\ queue \in Queues(Jobs) /\ mon \in [Dirs -> Entries] /\ slotQ \in Seq(Slots)
      /\ slotJob \in [Indices -> Jobs \cup {NoJob}] /\ worker \in [Indices -> Processes] /\ NextSlot \in Indices
  BY NextSlotType DEF TInv, QInv
<1>1. job \in Jobs /\ job.dir \in Dirs
  BY <1>0, HeadTyped DEF StartWorker, Jobs
<1>2. slotJob' = [slotJob EXCEPT ![NextSlot] = job] /\ mon' = [mon EXCEPT ![job.dir].working = TRUE] /\ ~mon[job.dir].working
  BY DEF StartWorker, IsWorking
<1>3. \A s \in Indices : worker'[s].pc = IF s = NextSlot THEN "run" ELSE worker[s].pc
  BY <1>0 DEF StartWorker
<1> HIDE DEF job
<1>4. \A d \in Dirs : mon'[d].working = (IF d = job.dir THEN TRUE ELSE mon[d].working)
  BY <1>0, <1>1, <1>2 DEF Entries
<1>5. Busy' = Busy \cup {NextSlot}
  <2>1. DOMAIN slotJob' = DOMAIN slotJob /\ NextSlot \in DOMAIN slotJob /\ job # NoJob
    BY <1>0, <1>1, <1>2, NoJobAssumption
  <2>2. \A s \in DOMAIN slotJob : slotJob'[s] = IF s = NextSlot THEN job ELSE slotJob[s]
    BY <1>2
  <2> QED
    BY <2>1, <2>2 DEF Busy
<1> QED
  BY <1>1, <1>2, <1>3, <1>4, <1>5

(* What reading a report changes.                                          *)
LEMMA Ended ==
  ASSUME TInv, ScanInv, NEW s \in Slots, HandleReport(s)
  PROVE  /\ s \in Busy /\ Busy' = Busy \ {s} /\ slotJob' = [slotJob EXCEPT ![s] = NoJob]
         /\ \A d \in Dirs : mon'[d].working = (IF d = slotJob[s].dir THEN FALSE ELSE mon[d].working)
         /\ \A t \in Indices : worker'[t].pc = IF t = s THEN "none" ELSE worker[t].pc
         /\ s \in ready /\ ready' = ready \ {s} /\ pc = "scan" /\ pc' = pc
<1>0. /\ mon \in [Dirs -> Entries] /\ slotJob \in [Indices -> Jobs \cup {NoJob}]
      /\ worker \in [Indices -> Processes] /\ s \in Indices
  BY DEF TInv, Indices
<1>1. ready' = ready \ {s} /\ pc = "scan" /\ pc' = pc /\ ready # {} /\ s = Min(ready)
  BY DEF HandleReport, Scans
<1>2. s \in ready
  <2>1. PICK m \in Nat : m = Limit + 1
    BY LimitAssumption
  <2>2. ready \subseteq 0 .. m
    BY <2>1 DEF ScanInv
  <2> QED
    BY <1>1, <2>2, LeastGreatestTo
<1>3. s \in Busy
  BY <1>2 DEF ScanInv
<1>4. slotJob' = [slotJob EXCEPT ![s] = NoJob] /\ mon' = [mon EXCEPT ![slotJob[s].dir].working = FALSE]
  BY DEF HandleReport, NotWorking
<1>5. Busy' = Busy \ {s}
  <2>1. \A t \in DOMAIN slotJob : slotJob'[t] = IF t = s THEN NoJob ELSE slotJob[t]
    BY <1>4
  <2>2. DOMAIN slotJob' = DOMAIN slotJob
    BY <1>0, <1>4
  <2> QED
    BY <2>1, <2>2 DEF Busy
<1>6. \A d \in Dirs : mon'[d].working = (IF d = slotJob[s].dir THEN FALSE ELSE mon[d].working)
  BY <1>0, <1>4 DEF Entries
<1>7. \A t \in Indices : worker'[t].pc = IF t = s THEN "none" ELSE worker[t].pc
  BY <1>0 DEF HandleReport, Idle
<1> QED
  BY <1>1, <1>2, <1>3, <1>4, <1>5, <1>6, <1>7
-----------------------------------------------------------------------------
(* The scan.  Workers start only between scans, and a report frees the     *)
(* slot that the scan has just left.                                       *)
LEMMA ScanKept ==
  ASSUME TInv, ScanInv, [Next]_vars
  PROVE  ScanInv'
<1>0. slotJob \in [Indices -> Jobs \cup {NoJob}] /\ Limit \in Nat
  BY LimitAssumption DEF TInv
<1>1. ASSUME UNCHANGED slotJob, ready' \subseteq ready, ready' = {} \/ pc' = "scan" PROVE ScanInv'
  BY <1>1 DEF ScanInv, Busy
<1>2. CASE Environment
  BY <1>1, <1>2, EnvironmentKeeps DEF Kept, ScanInv
<1>3. ASSUME Dispatching, UNCHANGED ready PROVE ScanInv'
  BY <1>3 DEF ScanInv, Dispatching
<1>4. CASE TakeNothing \/ PutBack \/ StartWorker \/ EndDispatch \/ SetupFails
  BY <1>3, <1>4 DEF TakeNothing, PutBack, StartWorker, EndDispatch, SetupFails, Taking
<1>5. CASE Poll
  <2>1. ready' = ReadyNow /\ pc' = "scan" /\ UNCHANGED slotJob
    BY <1>5 DEF Poll, workers
  <2>2. ReadyNow \subseteq 0 .. Limit + 1
    BY <1>0 DEF ReadyNow, Slots, InotifyIndex, ConsoleIndex
  <2>3. \A s \in ReadyNow \cap Slots : s \in Busy
    BY <1>0, IndexTypes DEF ReadyNow, Reporting, Busy, Indices
  <2> QED
    BY <2>1, <2>2, <2>3 DEF ScanInv, Busy
<1>6. ASSUME NEW i, Scans(i), UNCHANGED <<slotJob, pc>> PROVE ScanInv'
  BY <1>1, <1>6 DEF Scans
<1>7. CASE IgnoreInput \/ HandleInotify \/ EndScan
  BY <1>1, <1>6, <1>7 DEF IgnoreInput, HandleInotify, EndScan, workers
<1>8. ASSUME NEW d \in Dirs, Add(d) \/ Status(d) \/ Cancel(d) \/ Sync(d) \/ Shutdown(d) PROVE ScanInv'
  <2>1. \E name : Commanded(name, d)
    BY <1>8 DEF Add, Status, Cancel, Sync, Shutdown
  <2> QED
    BY <1>6, <2>1 DEF Commanded, workers
<1>9. ASSUME NEW s \in Slots, HandleReport(s) PROVE ScanInv'
  BY <1>9, Ended DEF ScanInv
<1> QED
  BY StepKinds, <1>2, <1>4, <1>5, <1>7, <1>8, <1>9 DEF ManagerStep

(* A directory that is not working has no worker: one is started only for  *)
(* such a directory, and a report makes only its own directory one, which  *)
(* no other worker has.                                                    *)
LEMMA ExclusiveKept ==
  ASSUME TInv, ScanInv, ExclusiveInv, [Next]_vars
  PROVE  ExclusiveInv'
<1>0. /\ slotJob \in [Indices -> Jobs \cup {NoJob}] /\ Busy \subseteq Indices
      /\ \A s \in Busy : slotJob[s].dir \in Dirs
  BY BusyTypes DEF TInv
<1>1. CASE Kept
  BY <1>0, <1>1 DEF Kept, ExclusiveInv, Exclusive, Busy
<1>2. CASE StartWorker
  <2>1. PICK job \in Jobs :
          /\ slotJob' = [slotJob EXCEPT ![NextSlot] = job] /\ Busy' = Busy \cup {NextSlot}
          /\ ~mon[job.dir].working /\ job.dir \in Dirs
          /\ \A d \in Dirs : mon'[d].working = (IF d = job.dir THEN TRUE ELSE mon[d].working)
    BY <1>2, Started
  <2>2. NextSlot \in Indices /\ slotJob'[NextSlot] = job
    BY <1>0, <2>1, NextSlotType DEF TInv
  <2>3. \A s \in Busy' : s # NextSlot => s \in Busy /\ slotJob'[s] = slotJob[s] /\ slotJob[s].dir # job.dir
    BY <1>0, <2>1 DEF ExclusiveInv
  <2>4. \A s \in Busy' : mon'[slotJob'[s].dir].working
    BY <1>0, <2>1, <2>2, <2>3 DEF ExclusiveInv
  <2>5. Exclusive'
    BY <2>2, <2>3 DEF ExclusiveInv, Exclusive
  <2> QED
    BY <2>4, <2>5 DEF ExclusiveInv
<1>3. CASE SetupFails \/ EndDispatch
  <2>1. UNCHANGED <<slotJob, mon>>
    BY <1>3 DEF SetupFails, EndDispatch, workers
  <2> QED
    BY <2>1 DEF ExclusiveInv, Exclusive, Busy
<1>4. ASSUME NEW s \in Slots, HandleReport(s) PROVE ExclusiveInv'
  <2>1. /\ s \in Busy /\ Busy' = Busy \ {s} /\ slotJob' = [slotJob EXCEPT ![s] = NoJob]
        /\ \A d \in Dirs : mon'[d].working = (IF d = slotJob[s].dir THEN FALSE ELSE mon[d].working)
    BY <1>4, Ended
  <2>2. \A t \in Busy' : t \in Busy /\ slotJob'[t] = slotJob[t] /\ slotJob[t].dir # slotJob[s].dir
    BY <1>0, <2>1 DEF ExclusiveInv, Exclusive
  <2>3. \A t \in Busy' : mon'[slotJob'[t].dir].working
    BY <1>0, <2>1, <2>2 DEF ExclusiveInv
  <2>4. Exclusive'
    BY <2>2 DEF ExclusiveInv, Exclusive
  <2> QED
    BY <2>3, <2>4 DEF ExclusiveInv
<1> QED
  BY StepKinds, EnvironmentKeeps, ManagerKeeps, <1>1, <1>2, <1>3, <1>4
-----------------------------------------------------------------------------
(* The slots.  Where the slot queue is empty although a worker is          *)
(* available, index 0 is given out; it was free, or with every slot but    *)
(* the lost one busy there would be as many workers as the limit allows.   *)
LEMMA NextSlotFree ==
  ASSUME TInv, PoolInv, Available
  PROVE  NextSlot \in Indices \ Busy
<1>0. slotQ \in Seq(Slots) /\ NextSlot \in Indices
  BY NextSlotType DEF TInv
<1>1. CASE slotQ # <<>>
  <2>1. NextSlot \in ToSet(slotQ)
    BY <1>0, <1>1, HeadTail DEF NextSlot
  <2> QED
    BY <1>0, <2>1 DEF PoolInv, SlotAccounting
<1>2. CASE slotQ = <<>>
  <2> SUFFICES ASSUME ConsoleIndex \in Busy PROVE FALSE
    BY <1>0, <1>2 DEF NextSlot
  <2>1. PICK l \in Nat : Lost \subseteq {l}
    BY DEF PoolInv
  <2> DEFINE used == Slots \ {l}
  <2>2. used \subseteq Busy
    <3>1. ToSet(slotQ) = {}
      BY <1>2 DEF ToSet
    <3> QED
      BY <2>1, <3>1 DEF Lost
  <2>3. IsFiniteSet(used) /\ Cardinality(used) >= Limit - 1
    BY IndexTypes, FS_RemoveElement, LimitAssumption
  <2>4. ConsoleIndex \notin used
    BY IndexTypes
  <2> HIDE DEF used
  <2>5. IsFiniteSet(used \cup {ConsoleIndex}) /\ Cardinality(used \cup {ConsoleIndex}) = Cardinality(used) + 1
    BY <2>3, <2>4, FS_AddElement
  <2>6. (used \cup {ConsoleIndex}) \in SUBSET Busy
    BY <2>2
  <2>7. Cardinality(used \cup {ConsoleIndex}) <= Cardinality(Busy)
    BY <2>6, BusyTypes, FS_Subset
  <2>8. Cardinality(used) \in Nat /\ Cardinality(Busy) \in Nat
    BY <2>3, BusyTypes, FS_CardinalityType
  <2>9. Cardinality(Busy) < Limit
    BY <2>8, LimitAssumption DEF Available, PoolInv, SlotAccounting
  <2> QED
    BY <2>3, <2>5, <2>7, <2>8, <2>9, LimitAssumption
<1> QED
  BY <1>1, <1>2

(* Taking a slot from the queue.                                           *)
LEMMA SlotTaken ==
  ASSUME slotQ \in Seq(Slots), IsInjective(slotQ), TakeSlot
  PROVE  /\ IsInjective(slotQ') /\ ToSet(slotQ') \subseteq ToSet(slotQ) /\ NextSlot \notin ToSet(slotQ')
         /\ ToSet(slotQ) \subseteq ToSet(slotQ') \cup {NextSlot}
<1>1. CASE slotQ = <<>>
  <2>1. slotQ' = <<>> /\ ToSet(slotQ') = {} /\ ToSet(slotQ) = {}
    BY <1>1 DEF TakeSlot, ToSet
  <2> QED
    BY <1>1, <2>1
<1>2. CASE slotQ # <<>>
  BY <1>2, HeadTail DEF TakeSlot, NextSlot
<1> QED
  BY <1>1, <1>2

LEMMA StartKeepsPool ==
  ASSUME TInv, PoolInv, StartWorker
  PROVE  PoolInv'
<1>0. /\ slotJob \in [Indices -> Jobs \cup {NoJob}] /\ slotQ \in Seq(Slots) /\ faults \in Nat
      /\ worker \in [Indices -> Processes] /\ Busy \subseteq Indices /\ \A s \in Busy : slotJob[s].dir \in Dirs
      /\ IsFiniteSet(Busy) /\ Cardinality(Busy) \in Nat
  BY BusyTypes DEF TInv
<1>1. PICK job \in Jobs :
        /\ slotJob' = [slotJob EXCEPT ![NextSlot] = job] /\ Busy' = Busy \cup {NextSlot}
        /\ ~mon[job.dir].working /\ job.dir \in Dirs
        /\ \A d \in Dirs : mon'[d].working = (IF d = job.dir THEN TRUE ELSE mon[d].working)
        /\ \A s \in Indices : worker'[s].pc = IF s = NextSlot THEN "run" ELSE worker[s].pc
  BY Started
<1>2. NextSlot \in Indices \ Busy
  BY NextSlotFree DEF StartWorker, Taking
<1>3. /\ IsInjective(slotQ') /\ ToSet(slotQ') \subseteq ToSet(slotQ) /\ NextSlot \notin ToSet(slotQ')
      /\ ToSet(slotQ) \subseteq ToSet(slotQ') \cup {NextSlot}
  BY <1>0, SlotTaken DEF StartWorker, PoolInv, SlotAccounting
<1>4. pc' = "dispatch" /\ active' = active + 1 /\ faults' = faults
  BY DEF StartWorker, Taking, Dispatching
<1>5. \A s \in Busy : slotJob'[s] = slotJob[s] /\ s # NextSlot
  BY <1>0, <1>1, <1>2
<1>6. slotJob'[NextSlot] = job /\ DOMAIN slotJob' = Indices /\ DOMAIN slotJob = Indices
  BY <1>0, <1>1, <1>2
<1>7. WorkingConsistent'
  <2>1. ASSUME NEW d \in Dirs PROVE mon'[d].working <=> \E s \in Busy' : slotJob'[s].dir = d
    <3>1. CASE d = job.dir
      BY <1>1, <1>6, <3>1
    <3>2. CASE d # job.dir
      <4>1. (\E s \in Busy' : slotJob'[s].dir = d) <=> \E s \in Busy : slotJob[s].dir = d
        BY <1>1, <1>5, <1>6, <3>2
      <4>2. mon'[d].working = mon[d].working
        BY <1>1, <3>2
      <4> QED
        BY <4>1, <4>2 DEF PoolInv, WorkingConsistent
    <3> QED
      BY <3>1, <3>2
  <2>2. \A s \in Indices : s \in Busy' <=> worker'[s].pc # "none"
    BY <1>1, <1>6 DEF PoolInv, WorkingConsistent
  <2> QED
    BY <1>4, <1>6, <2>1, <2>2 DEF WorkingConsistent
<1>8. SlotAccounting'
  <2>1. ToSet(slotQ') \cap Busy' = {}
    BY <1>1, <1>3 DEF PoolInv, SlotAccounting
  <2>2. active' = Cardinality(Busy')
    BY <1>0, <1>1, <1>2, <1>4, FS_AddElement DEF PoolInv, SlotAccounting
  <2>3. faults' = 0 => ToSet(slotQ') = Slots \ Busy'
    BY <1>1, <1>3, <1>4 DEF PoolInv, SlotAccounting
  <2> QED
    BY <1>3, <2>1, <2>2, <2>3 DEF SlotAccounting
<1>9. Lost' \subseteq Lost
  BY <1>1, <1>3 DEF Lost
<1> QED
  BY <1>7, <1>8, <1>9 DEF PoolInv

(* A failing pipe() loses the slot it took.                                *)
LEMMA FailureLosesOne ==
  ASSUME TInv, PoolInv, SetupFails, faults' <= 1
  PROVE  PoolInv'
<1>0. slotQ \in Seq(Slots) /\ faults \in Nat /\ NextSlot \in Indices
  BY NextSlotType DEF TInv
<1>1. /\ TakeSlot /\ faults' = faults + 1 /\ pc' = "dispatch"
      /\ UNCHANGED <<mon, active, slotJob, worker>>
  BY DEF SetupFails, Taking, Dispatching
<1>2. /\ IsInjective(slotQ') /\ ToSet(slotQ') \subseteq ToSet(slotQ)
      /\ ToSet(slotQ) \subseteq ToSet(slotQ') \cup {NextSlot}
  BY <1>0, <1>1, SlotTaken DEF PoolInv, SlotAccounting
<1>3. faults = 0 /\ faults' # 0
  BY <1>0, <1>1
<1>4. Busy' = Busy
  BY <1>1 DEF Busy
<1>5. WorkingConsistent'
  BY <1>1, <1>4 DEF PoolInv, WorkingConsistent
<1>6. SlotAccounting'
  BY <1>1, <1>2, <1>3, <1>4 DEF PoolInv, SlotAccounting
<1>7. Lost' \subseteq {NextSlot}
  BY <1>2, <1>3, <1>4 DEF Lost, PoolInv, SlotAccounting
<1>8. NextSlot \in Nat
  BY <1>0, IndexTypes DEF Indices, ConsoleIndex
<1> QED
  BY <1>5, <1>6, <1>7, <1>8 DEF PoolInv

LEMMA ReportKeepsPool ==
  ASSUME TInv, ScanInv, ExclusiveInv, PoolInv, NEW s \in Slots, HandleReport(s)
  PROVE  PoolInv'
<1>0. /\ slotJob \in [Indices -> Jobs \cup {NoJob}] /\ slotQ \in Seq(Slots)
      /\ Busy \subseteq Indices /\ \A t \in Busy : slotJob[t].dir \in Dirs
      /\ IsFiniteSet(Busy) /\ Cardinality(Busy) \in Nat /\ s \in Indices /\ s \in Nat
  BY BusyTypes, IndexTypes DEF TInv, Indices
<1>1. /\ s \in Busy /\ Busy' = Busy \ {s} /\ slotJob' = [slotJob EXCEPT ![s] = NoJob]
      /\ \A d \in Dirs : mon'[d].working = (IF d = slotJob[s].dir THEN FALSE ELSE mon[d].working)
      /\ \A t \in Indices : worker'[t].pc = IF t = s THEN "none" ELSE worker[t].pc
      /\ pc' = "scan"
  BY Ended
<1>2. slotQ' = Append(slotQ, s) /\ active' = active - 1 /\ faults' = faults
  BY DEF HandleReport, Freed
<1>3. s \notin ToSet(slotQ)
  BY <1>1 DEF PoolInv, SlotAccounting
<1>4. ToSet(slotQ') = ToSet(slotQ) \cup {s} /\ IsInjective(slotQ')
  BY <1>0, <1>2, <1>3, AppendSet DEF PoolInv, SlotAccounting
<1>5. \A t \in Busy' : t \in Busy /\ slotJob'[t] = slotJob[t] /\ slotJob[t].dir # slotJob[s].dir
  BY <1>0, <1>1 DEF ExclusiveInv, Exclusive
<1>6. DOMAIN slotJob' = Indices /\ DOMAIN slotJob = Indices
  BY <1>0, <1>1
<1>7. WorkingConsistent'
  <2>1. ASSUME NEW d \in Dirs PROVE mon'[d].working <=> \E t \in Busy' : slotJob'[t].dir = d
    <3>1. CASE d = slotJob[s].dir
      BY <1>1, <1>5, <3>1
    <3>2. CASE d # slotJob[s].dir
      <4>1. (\E t \in Busy' : slotJob'[t].dir = d) <=> \E t \in Busy : slotJob[t].dir = d
        BY <1>1, <1>5, <3>2
      <4>2. mon'[d].working = mon[d].working
        BY <1>1, <3>2
      <4> QED
        BY <4>1, <4>2 DEF PoolInv, WorkingConsistent
    <3> QED
      BY <3>1, <3>2
  <2>2. \A t \in Indices : t \in Busy' <=> worker'[t].pc # "none"
    BY <1>1, <1>6 DEF PoolInv, WorkingConsistent
  <2> QED
    BY <1>1, <1>6, <2>1, <2>2 DEF WorkingConsistent
<1>8. SlotAccounting'
  <2>1. ToSet(slotQ') \cap Busy' = {}
    BY <1>1, <1>4 DEF PoolInv, SlotAccounting
  <2>2. active' = Cardinality(Busy')
    BY <1>0, <1>1, <1>2, FS_RemoveElement DEF PoolInv, SlotAccounting
  <2>3. faults' = 0 => ToSet(slotQ') = Slots \ Busy'
    BY <1>1, <1>2, <1>4 DEF PoolInv, SlotAccounting
  <2> QED
    BY <1>4, <2>1, <2>2, <2>3 DEF SlotAccounting
<1>9. Lost' \subseteq Lost
  BY <1>1, <1>4 DEF Lost
<1> QED
  BY <1>7, <1>8, <1>9 DEF PoolInv

(* A pass of the dispatch loop that ends a shutdown has seen the counter   *)
(* at 0, so that no job is left, and no active worker.                     *)
LEMMA EndKeepsPool ==
  ASSUME TInv, PoolInv, EndDispatch
  PROVE  PoolInv'
<1>1. UNCHANGED <<queue, mon, slotQ, active, slotJob, worker, faults>>
  BY DEF EndDispatch, workers
<1>2. Busy' = Busy /\ Lost' = Lost
  BY <1>1 DEF Busy, Lost
<1>3. pc' = "stopped" => Busy' = {} /\ queue'.nodes = <<>>
  <2> SUFFICES ASSUME pc' = "stopped" PROVE Busy = {} /\ queue.nodes = <<>>
    BY <1>1, <1>2
  <2>1. queue.size = 0 /\ active = 0
    BY DEF EndDispatch, HasDrained
  <2>2. Busy = {}
    BY <2>1, BusyTypes, FS_EmptySet DEF PoolInv, SlotAccounting
  <2>3. queue.nodes \in Seq(Jobs) /\ queue.size >= Len(queue.nodes)
    BY DEF TInv, QInv, Queues
  <2> QED
    BY <2>1, <2>2, <2>3
<1>4. WorkingConsistent'
  BY <1>1, <1>2, <1>3 DEF PoolInv, WorkingConsistent
<1>5. SlotAccounting'
  BY <1>1, <1>2 DEF PoolInv, SlotAccounting
<1> QED
  BY <1>2, <1>4, <1>5 DEF PoolInv

LEMMA KeptPool ==
  ASSUME TInv, PoolInv, Kept
  PROVE  PoolInv'
<1>0. DOMAIN slotJob = Indices /\ faults \in Nat
  BY DEF TInv
<1>1. UNCHANGED <<slotQ, active, slotJob>> /\ Busy' = Busy /\ Lost' = Lost
  BY DEF Kept, Busy, Lost
<1>2. WorkingConsistent'
  BY <1>0, <1>1 DEF Kept, PoolInv, WorkingConsistent
<1>3. SlotAccounting'
  BY <1>0, <1>1 DEF Kept, PoolInv, SlotAccounting
<1> QED
  BY <1>1, <1>2, <1>3 DEF PoolInv

-----------------------------------------------------------------------------
LEMMA InitHolds == Init => FInv
<1> SUFFICES ASSUME Init PROVE FInv
  OBVIOUS
<1>1. ConfigDirs \in Seq(Dirs) /\ Len(ConfigDirs) \in Nat /\ DOMAIN ConfigDirs = 1 .. Len(ConfigDirs)
  BY ConfigAssumption
<1>2. QInv
  <2> DEFINE nodes == [i \in DOMAIN ConfigDirs |-> FullJob(ConfigDirs[i], FALSE)]
  <2>1. \A i \in DOMAIN ConfigDirs : FullJob(ConfigDirs[i], FALSE) \in Jobs
    <3>1. \A i \in DOMAIN ConfigDirs : ConfigDirs[i] \in Dirs
      BY <1>1
    <3>2. FALSE \in BOOLEAN
      OBVIOUS
    <3> QED
      BY <3>1, <3>2, JobTypes
  <2>2. nodes \in Seq(Jobs) /\ Len(nodes) = Len(ConfigDirs)
    <3> DEFINE n == Len(ConfigDirs)
    <3>1. nodes = [i \in 1 .. n |-> FullJob(ConfigDirs[i], FALSE)] /\ \A i \in 1 .. n : FullJob(ConfigDirs[i], FALSE) \in Jobs
      BY <1>1, <2>1
    <3>2. n \in Nat
      BY <1>1
    <3> HIDE DEF n, nodes
    <3>3. nodes \in [1 .. n -> Jobs] /\ DOMAIN nodes = 1 .. n
      BY <3>1
    <3>4. nodes \in Seq(Jobs) /\ Len(nodes) = n
      BY <3>2, <3>3
    <3> QED
      BY <3>4 DEF n
  <2>3. queue = [nodes |-> nodes, size |-> Len(ConfigDirs), tail |-> IF ConfigDirs = <<>> THEN "null" ELSE "last"]
    BY DEF Init
  <2> HIDE DEF nodes
  <2>4. queue \in Queues(Jobs)
    BY <1>1, <2>2, <2>3 DEF Queues, Tails
  <2>5. \A d \in Dirs : WdOf(d) \in Nat
    BY <1>1 DEF WdOf, Configured, ToSet
  <2> QED
    BY <1>1, <2>4, <2>5 DEF Init, QInv
<1>3. slotQ \in Seq(Slots) /\ IsInjective(slotQ) /\ ToSet(slotQ) = Slots
  <2>1. slotQ = [i \in 1 .. Limit |-> i + 1] /\ \A i \in 1 .. Limit : i + 1 \in Slots
    BY LimitAssumption DEF Init, Slots
  <2>2. slotQ \in Seq(Slots)
    BY <2>1, LimitAssumption
  <2>3. IsInjective(slotQ)
    BY <2>1, LimitAssumption DEF IsInjective
  <2>4. \A s \in Slots : s - 1 \in 1 .. Limit /\ (s - 1) + 1 = s
    BY LimitAssumption DEF Slots
  <2>5. ToSet(slotQ) = Slots
    BY <2>1, <2>4 DEF ToSet
  <2> QED
    BY <2>2, <2>3, <2>5
<1>4. slotJob = [i \in Indices |-> NoJob] /\ worker = [i \in Indices |-> Idle] /\ Busy = {}
  BY DEF Init, Busy, Indices
<1>5. Idle \in Processes /\ Idle.pc = "none"
  BY DEF Idle, Processes
<1>6. mon \in [Dirs -> Entries] /\ \A d \in Dirs : mon[d].working = FALSE
  <2>1. \A d \in Dirs : Configured(d) \in BOOLEAN
    BY DEF Configured
  <2>2. \A d \in Dirs : WdOf(d) \in Nat
    BY <1>1 DEF WdOf, Configured, ToSet
  <2> QED
    BY <2>1, <2>2 DEF Init, Entries
<1>7. active = 0 /\ faults = 0 /\ pc = "dispatch" /\ ready = {}
  BY DEF Init
<1>8. TInv
  BY <1>2, <1>3, <1>4, <1>5, <1>6, <1>7 DEF TInv
<1>9. ScanInv /\ ExclusiveInv
  BY <1>4, <1>7 DEF ScanInv, ExclusiveInv, Exclusive
<1>10. WorkingConsistent
  BY <1>4, <1>5, <1>6, <1>7 DEF WorkingConsistent
<1>11. SlotAccounting /\ Lost \subseteq {0}
  BY <1>3, <1>4, <1>7, FS_EmptySet DEF SlotAccounting, Lost
<1> QED
  BY <1>8, <1>9, <1>10, <1>11 DEF FInv, PoolInv

LEMMA StepHolds == FInv /\ [Next]_vars => FInv'
<1> SUFFICES ASSUME FInv, [Next]_vars PROVE FInv'
  OBVIOUS
<1>1. TInv /\ ScanInv /\ ExclusiveInv /\ faults \in Nat
  BY DEF FInv, TInv
<1>2. TInv' /\ ScanInv' /\ ExclusiveInv'
  BY <1>1, StepKinds, EnvironmentKeeps, ManagerTypes, ScanKept, ExclusiveKept
<1>3. ASSUME faults' <= 1 PROVE PoolInv'
  <2>1. faults' \in Nat
    BY <1>2 DEF TInv
  <2>2. Kept \/ StartWorker \/ SetupFails \/ EndDispatch \/ \E s \in Slots : HandleReport(s)
    BY <1>1, StepKinds, EnvironmentKeeps, ManagerKeeps
  <2>3. faults <= faults'
    BY <1>1, <2>1, <2>2 DEF Kept, StartWorker, SetupFails, EndDispatch, HandleReport
  <2>4. PoolInv
    BY <1>1, <1>3, <2>1, <2>3 DEF FInv
  <2> QED
    BY <1>1, <1>3, <2>2, <2>4, KeptPool, StartKeepsPool, FailureLosesOne, EndKeepsPool, ReportKeepsPool
<1> QED
  BY <1>2, <1>3 DEF FInv

(* Two workers never copy into one target at once (fss_manager.c:96-106),  *)
(* whatever is cancelled, added again, put back or lost meanwhile, and     *)
(* however many setups fail and workers die.                               *)
THEOREM WorkersApart == Spec => []Exclusive
<1>1. FInv => Exclusive
  BY DEF FInv, ExclusiveInv
<1> QED
  BY InitHolds, StepHolds, <1>1, PTL DEF Spec

(* The monitor's worker_pid, the jobs in worker_jobs and the processes     *)
(* agree, and a stopped manager leaves no job and no process, as long as   *)
(* no more than one setup has failed or worker died                        *)
(* (file_monitor.c:164-182, worker_management.c:94-183).                   *)
THEOREM RecordsAgree == Spec => [](faults <= 1 => WorkingConsistent)
<1>1. FInv => (faults <= 1 => WorkingConsistent)
  BY DEF FInv, PoolInv
<1> QED
  BY InitHolds, StepHolds, <1>1, PTL DEF Spec

(* In the same case a slot is never given out twice, and without a fault   *)
(* none is lost (worker_management.c:99-106, 164-183).                     *)
THEOREM SlotsAccounted == Spec => [](faults <= 1 => SlotAccounting)
<1>1. FInv => (faults <= 1 => SlotAccounting)
  BY DEF FInv, PoolInv
<1> QED
  BY InitHolds, StepHolds, <1>1, PTL DEF Spec
-----------------------------------------------------------------------------
(* The types that the proofs above did not need.                           *)
Contents == [Dirs -> [Files -> {Old} \cup 0 .. MaxChanges]]
DiskInv ==
  /\ src \in [Dirs -> [Files -> 0 .. MaxChanges]] /\ tar \in Contents
  /\ gone \subseteq Removable /\ changes \in Nat

ControlInv ==
  /\ left \in Nat
  /\ \A d \in Dirs : mon[d].active => mon[d].known
  /\ active \in 0 .. Limit /\ active >= Cardinality(Busy)
  /\ pc \in {"dispatch", "poll", "scan", "stopped"}
  /\ conPc \in {"idle", "header", "lines", "lastheader", "lastlines", "closed"}

LEMMA DiskKept ==
  ASSUME DiskInv, [Next]_vars
  PROVE  DiskInv'
<1>0. /\ src \in [Dirs -> [Files -> 0 .. MaxChanges]] /\ tar \in [Dirs -> [Files -> {Old} \cup 0 .. MaxChanges]]
      /\ gone \subseteq Removable /\ changes \in Nat /\ MaxChanges \in Nat
  BY BoundAssumption DEF DiskInv, Contents
<1>1. ASSUME UNCHANGED disk PROVE DiskInv'
  BY <1>0, <1>1 DEF DiskInv, Contents, disk
<1>2. CASE ManagerStep
  <2>1. ASSUME NEW d \in Dirs, Add(d) \/ Status(d) \/ Cancel(d) \/ Sync(d) \/ Shutdown(d) PROVE UNCHANGED disk
    <3>1. \E name : Commanded(name, d)
      BY <2>1 DEF Add, Status, Cancel, Sync, Shutdown
    <3> QED
      BY <3>1 DEF Commanded
  <2>2. ASSUME NEW s \in Slots, HandleReport(s) PROVE UNCHANGED disk
    BY <2>2 DEF HandleReport
  <2> QED
    BY <1>1, <1>2, <2>1, <2>2
    DEF ManagerStep, TakeNothing, PutBack, StartWorker, EndDispatch, Poll, IgnoreInput, HandleInotify, EndScan
<1>3. CASE SetupFails \/ (\E c \in Commands : Type(c)) \/ ConsoleReads \/ Over \/ UNCHANGED vars
  BY <1>1, <1>3 DEF SetupFails, Type, ConsoleReads, Over, vars
<1>4. ASSUME NEW s \in Indices, Report(s) \/ KillWorker(s) PROVE DiskInv'
  BY <1>1, <1>4 DEF Report, KillWorker
<1>5. ASSUME NEW s \in Indices, NEW f \in Files, CopyFile(s, f) PROVE DiskInv'
  <2> DEFINE d == slotJob[s].dir
  <2>1. \/ tar' = tar \/ tar' = [tar EXCEPT ![d][f] = 0] \/ tar' = [tar EXCEPT ![d][f] = src[d][f]]
    BY <1>5 DEF CopyFile
  <2>2. UNCHANGED <<src, gone, changes>>
    BY <1>5 DEF CopyFile
  <2> HIDE DEF d
  <2>3. tar' \in [Dirs -> [Files -> {Old} \cup 0 .. MaxChanges]]
    BY <1>0, <2>1
  <2> QED
    BY <1>0, <2>2, <2>3 DEF DiskInv, Contents
<1>6. ASSUME NEW d \in Dirs, NEW f \in Files, NEW kind \in Kinds, ChangeFile(d, f, kind) PROVE DiskInv'
  <2> DEFINE new == IF kind = "DELETED" THEN 0 ELSE changes'
  <2>1. changes' \in 0 .. MaxChanges /\ src' = [src EXCEPT ![d][f] = new] /\ UNCHANGED <<tar, gone>>
    BY <1>0, <1>6 DEF ChangeFile
  <2>2. new \in 0 .. MaxChanges
    BY <1>0, <2>1
  <2> HIDE DEF new
  <2>3. src' \in [Dirs -> [Files -> 0 .. MaxChanges]]
    BY <1>0, <2>1, <2>2
  <2> QED
    BY <1>0, <2>1, <2>3 DEF DiskInv, Contents
<1>7. ASSUME NEW d \in Dirs, RemoveSource(d) PROVE DiskInv'
  BY <1>0, <1>7 DEF RemoveSource, DiskInv, Contents
<1> QED
  BY <1>2, <1>3, <1>4, <1>5, <1>6, <1>7 DEF Next, WorkerStep, Indices

LEMMA ControlKept ==
  ASSUME FInv, ControlInv, [Next]_vars
  PROVE  ControlInv'
<1>0. /\ TInv /\ TInv' /\ ScanInv /\ mon \in [Dirs -> Entries] /\ left \in Nat
      /\ active \in 0 .. Limit /\ active >= Cardinality(Busy) /\ IsFiniteSet(Busy) /\ Cardinality(Busy) \in Nat
      /\ Limit \in Nat /\ \A d \in Dirs : mon[d].active => mon[d].known
  BY StepHolds, BusyTypes, LimitAssumption DEF FInv, TInv, ControlInv
<1>1. active' \in 0 .. Limit /\ active' >= Cardinality(Busy')
  <2>1. CASE Kept \/ SetupFails \/ EndDispatch
    BY <1>0, <2>1 DEF Kept, SetupFails, EndDispatch, workers, Busy
  <2>2. CASE StartWorker
    <3>1. active' = active + 1 /\ active < Limit
      BY <1>0, <2>2 DEF StartWorker, Taking, Available
    <3>2. Cardinality(Busy') <= Cardinality(Busy) + 1
      <4>1. Busy' = Busy \cup {NextSlot}
        BY <1>0, <2>2, Started
      <4>2. CASE NextSlot \in Busy
        <5>1. Busy' = Busy
          BY <4>1, <4>2
        <5> QED
          BY <1>0, <5>1
      <4>3. CASE NextSlot \notin Busy
        <5>1. Cardinality(Busy') = Cardinality(Busy) + 1
          BY <1>0, <4>1, <4>3, FS_AddElement
        <5> QED
          BY <1>0, <5>1
      <4> QED
        BY <4>2, <4>3
    <3>3. Cardinality(Busy') \in Nat
      BY <1>0, <2>2, Started, FS_AddElement, FS_CardinalityType
    <3> QED
      BY <1>0, <3>1, <3>2, <3>3
  <2>3. ASSUME NEW s \in Slots, HandleReport(s) PROVE active' \in 0 .. Limit /\ active' >= Cardinality(Busy')
    <3>1. s \in Busy /\ Busy' = Busy \ {s} /\ active' = active - 1
      BY <1>0, <2>3, Ended DEF HandleReport
    <3>2. Cardinality(Busy') = Cardinality(Busy) - 1 /\ Cardinality(Busy) # 0
      BY <1>0, <3>1, FS_RemoveElement, FS_EmptySet
    <3> QED
      BY <1>0, <3>1, <3>2
  <2> QED
    BY <1>0, StepKinds, EnvironmentKeeps, ManagerKeeps, <2>1, <2>2, <2>3
<1>2. left' \in Nat /\ pc' \in {"dispatch", "poll", "scan", "stopped"}
  <2>1. CASE Environment
    <3>1. UNCHANGED <<left, pc>>
      BY <2>1 DEF Environment, WorkerStep, CopyFile, Report, KillWorker, ChangeFile, RemoveSource, Type, ConsoleReads, Over, vars
    <3> QED
      BY <3>1 DEF ControlInv
  <2>2. CASE TakeNothing \/ PutBack \/ StartWorker \/ SetupFails
    <3>1. left > 0 /\ left' \in {left, left - 1} /\ pc' = pc
      BY <2>2 DEF TakeNothing, PutBack, StartWorker, SetupFails, Taking
    <3> QED
      BY <1>0, <3>1 DEF ControlInv
  <2>3. CASE EndDispatch \/ Poll \/ IgnoreInput \/ HandleInotify
    BY <1>0, <2>3 DEF ControlInv, EndDispatch, Poll, IgnoreInput, HandleInotify
  <2>4. CASE EndScan
    BY <1>0, <2>4 DEF EndScan, TInv, QInv, Queues
  <2>5. ASSUME NEW d \in Dirs, Add(d) \/ Status(d) \/ Cancel(d) \/ Sync(d) \/ Shutdown(d) PROVE UNCHANGED <<left, pc>>
    <3>1. \E name : Commanded(name, d)
      BY <2>5 DEF Add, Status, Cancel, Sync, Shutdown
    <3> QED
      BY <3>1 DEF Commanded
  <2>6. ASSUME NEW s \in Slots, HandleReport(s) PROVE UNCHANGED <<left, pc>>
    BY <2>6 DEF HandleReport
  <2> QED
    BY <1>0, StepKinds, <2>1, <2>2, <2>3, <2>4, <2>5, <2>6 DEF ControlInv, ManagerStep
<1>3. \A d \in Dirs : mon'[d].active => mon'[d].known
  <2>1. CASE UNCHANGED mon
    BY <1>0, <2>1
  <2>2. ASSUME NEW job, mon' = [mon EXCEPT ![job].working = TRUE] \/ mon' = [mon EXCEPT ![job].working = FALSE]
        PROVE  \A d \in Dirs : mon'[d].active => mon'[d].known
    BY <1>0, <2>2 DEF Entries
  <2>3. ASSUME NEW d \in Dirs, mon' = [mon EXCEPT ![d].active = FALSE]
        PROVE  \A e \in Dirs : mon'[e].active => mon'[e].known
    BY <1>0, <2>3 DEF Entries
  <2>4. ASSUME NEW d \in Dirs, Monitor(d) PROVE \A e \in Dirs : mon'[e].active => mon'[e].known
    <3> DEFINE known == [mon EXCEPT ![d].known = TRUE]
               on == [known EXCEPT ![d].active = TRUE]
    <3>1. known \in [Dirs -> Entries] /\ known[d].known /\ \A e \in Dirs : known[e].active => known[e].known
      BY <1>0 DEF Entries
    <3>2. mon' = [on EXCEPT ![d].wd = watch'[d]]
      BY <2>4 DEF Monitor
    <3> HIDE DEF known
    <3>3. on \in [Dirs -> Entries] /\ \A e \in Dirs : on[e].active => on[e].known
      BY <3>1 DEF Entries
    <3> HIDE DEF on
    <3> QED
      BY <3>2, <3>3 DEF Entries
  <2>5. CASE Environment
    <3>1. UNCHANGED mon
      BY <2>5 DEF Environment, WorkerStep, CopyFile, Report, KillWorker, ChangeFile, RemoveSource, Type, ConsoleReads, Over, vars
    <3> QED
      BY <2>1, <3>1
  <2>6. CASE TakeNothing \/ PutBack \/ SetupFails \/ EndDispatch \/ Poll \/ IgnoreInput \/ HandleInotify \/ EndScan
    BY <2>1, <2>6 DEF TakeNothing, PutBack, SetupFails, EndDispatch, Poll, IgnoreInput, HandleInotify, EndScan
  <2>7. CASE StartWorker
    BY <2>2, <2>7 DEF StartWorker
  <2>8. ASSUME NEW s \in Slots, HandleReport(s) PROVE \A e \in Dirs : mon'[e].active => mon'[e].known
    BY <2>2, <2>8 DEF HandleReport, NotWorking
  <2>9. ASSUME NEW d \in Dirs, Add(d) \/ Status(d) \/ Cancel(d) \/ Sync(d) \/ Shutdown(d)
        PROVE  \A e \in Dirs : mon'[e].active => mon'[e].known
    <3>1. mon' = mon \/ mon' = [mon EXCEPT ![d].active = FALSE] \/ Monitor(d)
      BY <2>9 DEF Add, Status, Cancel, Sync, Shutdown, Untouched
    <3> QED
      BY <2>1, <2>3, <2>4, <3>1
  <2> QED
    BY StepKinds, <2>5, <2>6, <2>7, <2>8, <2>9 DEF ManagerStep
<1>4. conPc' \in {"idle", "header", "lines", "lastheader", "lastlines", "closed"}
  <2>1. conPc' = conPc \/ (\E c \in Commands : Type(c)) \/ ConsoleReads
    <3>1. ASSUME NEW d \in Dirs, Add(d) \/ Status(d) \/ Cancel(d) \/ Sync(d) \/ Shutdown(d) PROVE conPc' = conPc
      <4>1. \E name : Commanded(name, d)
        BY <3>1 DEF Add, Status, Cancel, Sync, Shutdown
      <4> QED
        BY <4>1 DEF Commanded
    <3>2. ASSUME NEW s \in Slots, HandleReport(s) PROVE conPc' = conPc
      BY <3>2 DEF HandleReport
    <3>3. CASE SetupFails \/ TakeNothing \/ PutBack \/ StartWorker \/ EndDispatch \/ Poll \/ IgnoreInput \/ HandleInotify \/ EndScan
      BY <3>3 DEF SetupFails, TakeNothing, PutBack, StartWorker, EndDispatch, Poll, IgnoreInput, HandleInotify, EndScan, console
    <3>4. ASSUME Environment PROVE conPc' = conPc \/ (\E c \in Commands : Type(c)) \/ ConsoleReads
      BY <3>4 DEF Environment, WorkerStep, CopyFile, Report, KillWorker, ChangeFile, RemoveSource, Over, vars, console
    <3> QED
      BY StepKinds, <3>1, <3>2, <3>3, <3>4 DEF ManagerStep
  <2> QED
    BY <2>1 DEF ControlInv, Type, ConsoleReads, AfterLine
<1> QED
  BY <1>1, <1>2, <1>3, <1>4 DEF ControlInv

LEMMA RestInit == Init => DiskInv /\ ControlInv
<1> SUFFICES ASSUME Init PROVE DiskInv /\ ControlInv
  OBVIOUS
<1>1. src \in [Dirs -> [Files -> {0, 1}]] /\ {0, 1} \subseteq 0 .. MaxChanges
  BY BoundAssumption DEF Init
<1>2. src \in [Dirs -> [Files -> 0 .. MaxChanges]]
  BY <1>1
<1>3. tar \in [Dirs -> [Files -> {Old} \cup 0 .. MaxChanges]]
  BY BoundAssumption DEF Init
<1>4. DiskInv
  BY <1>2, <1>3 DEF Init, DiskInv, Contents
<1>5. FInv /\ faults = 0 /\ active = 0
  BY InitHolds DEF Init
<1>6. active \in 0 .. Limit /\ active >= Cardinality(Busy)
  BY <1>5, LimitAssumption, BusyTypes DEF FInv, PoolInv, SlotAccounting
<1>7. left \in Nat
  BY ConfigAssumption DEF Init
<1> QED
  BY <1>4, <1>6, <1>7 DEF Init, ControlInv


(* Every record of the manager, the queue's counter and the contents of    *)
(* all files keep their ranges, whatever fails (fss_manager.c:56-324): so  *)
(* many workers are never active as to exceed the limit.                   *)
THEOREM TypesHold == Spec => []TypeOK
<1>1. FInv /\ DiskInv /\ ControlInv /\ [Next]_vars => (DiskInv /\ ControlInv)'
  BY DiskKept, ControlKept
<1>2. FInv /\ DiskInv /\ ControlInv => TypeOK
  <2> SUFFICES ASSUME FInv, DiskInv, ControlInv PROVE TypeOK
    OBVIOUS
  <2>1. queue.size \in Nat /\ slotQ \in Seq(Slots) /\ DOMAIN slotJob = {ConsoleIndex} \cup Slots
    BY DEF FInv, TInv, QInv, Queues, Indices
  <2>2. ToSet(slotQ) \subseteq Slots
    <3>1. \A i \in DOMAIN slotQ : slotQ[i] \in Slots
      BY <2>1
    <3> QED
      BY <3>1 DEF ToSet
  <2>3. ready \subseteq {ConsoleIndex, InotifyIndex} \cup Slots
    BY LimitAssumption DEF FInv, ScanInv, Slots, ConsoleIndex, InotifyIndex
  <2> QED
    BY <2>1, <2>2, <2>3 DEF TypeOK, DiskInv, Contents, ControlInv
<1> QED
  BY InitHolds, StepHolds, RestInit, <1>1, <1>2, PTL DEF Spec
-----------------------------------------------------------------------------
(* The replies.  A line that is announced and comes later is owed by a     *)
(* sync job, of which there is at most one, or by a shutdown.              *)
SyncAt(q) == {i \in DOMAIN q.nodes : q.nodes[i].sync}
SyncSlots == {s \in Busy : slotJob[s].sync}
AtMostOne(S) == \A x, y \in S : x = y

OneSync == AtMostOne(SyncAt(queue)) /\ AtMostOne(SyncSlots) /\ (SyncAt(queue) = {} \/ SyncSlots = {})
Owing == SyncAt(queue) # {} \/ SyncSlots # {}
Stopping == shutDown /\ pc # "stopped"
Due == (IF Owing THEN 1 ELSE 0) + (IF Stopping THEN 1 ELSE 0)

Text(q) == \A i \in DOMAIN q : q[i] = 0

\* A command that was typed is still in its pipe; or its reply is in the other, as far as it has been written.
Unanswered ==
  /\ conOut = <<>> /\ Due = 0
  /\ \E c \in Commands : conIn = <<c>> /\ (c.name = "shutdown" <=> conPc = "lastheader")
Answered ==
  /\ conIn = <<>> /\ conOut # <<>> /\ Head(conOut) > 0
  /\ Text(Tail(conOut)) /\ Head(conOut) >= Len(conOut) - 1 + Due

ReplyInv ==
  /\ conOut \in Seq(Nat) /\ conLeft \in Nat
  /\ conPc \in {"idle", "header", "lines", "lastheader", "lastlines", "closed"}
  /\ OneSync
  /\ shutDown => conPc \in {"lastheader", "lastlines", "closed"}
  /\ conPc \in {"idle", "closed"} => conIn = <<>> /\ conOut = <<>> /\ Due = 0
  /\ conPc \in {"header", "lastheader"} => Unanswered \/ Answered
  /\ conPc \in {"lines", "lastlines"} => conIn = <<>> /\ Text(conOut) /\ conLeft > 0 /\ conLeft >= Len(conOut) + Due

\* An active directory that nobody can remove has its watch.
WatchInv == nextWd \in Nat \ {0} /\ (Removable = {} => \A d \in Dirs : mon[d].active => watch[d] # 0)

(* What the operations of the queue do to the sync jobs in it.             *)
NoMoreSync(q, r) ==
  /\ SyncAt(q) = {} => SyncAt(r) = {}
  /\ AtMostOne(SyncAt(q)) => AtMostOne(SyncAt(r))

LEMMA SyncEnqueued ==
  ASSUME NEW q \in Queues(Jobs), NEW job \in Jobs, NEW r \in Enqueue(q, job)
  PROVE  /\ ~job.sync => NoMoreSync(q, r)
         /\ SyncAt(q) = {} => AtMostOne(SyncAt(r))
<1>1. q.nodes \in Seq(Jobs)
  BY DEF Queues
<1>2. r.nodes = <<>> \/ r.nodes = q.nodes \/ r.nodes = Append(q.nodes, job)
  BY EnqueueShape
<1>3. CASE r.nodes = <<>>
  <2>1. SyncAt(r) = {}
    BY <1>3 DEF SyncAt
  <2> QED
    BY <2>1 DEF NoMoreSync, AtMostOne
<1>4. CASE r.nodes = q.nodes
  <2>1. SyncAt(r) = SyncAt(q)
    BY <1>4 DEF SyncAt
  <2> QED
    BY <2>1 DEF NoMoreSync, AtMostOne
<1>5. CASE r.nodes = Append(q.nodes, job)
  <2> DEFINE n == Len(q.nodes) + 1
  <2>1. /\ DOMAIN r.nodes = DOMAIN q.nodes \cup {n} /\ n \notin DOMAIN q.nodes /\ r.nodes[n] = job
        /\ \A i \in DOMAIN q.nodes : r.nodes[i] = q.nodes[i]
    BY <1>1, <1>5
  <2> HIDE DEF n
  <2>2. SyncAt(r) = IF job.sync THEN SyncAt(q) \cup {n} ELSE SyncAt(q)
    BY <2>1 DEF SyncAt
  <2> QED
    BY <2>2 DEF NoMoreSync, AtMostOne
<1> QED
  BY <1>2, <1>3, <1>4, <1>5

LEMMA SyncDequeued ==
  ASSUME NEW q \in Queues(Jobs), q.nodes # <<>>
  PROVE  /\ NoMoreSync(q, Dequeue(q))
         /\ Head(q.nodes).sync => SyncAt(q) # {}
         /\ Head(q.nodes).sync /\ AtMostOne(SyncAt(q)) => SyncAt(Dequeue(q)) = {}
<1>1. /\ q.nodes \in Seq(Jobs) /\ Dequeue(q).nodes = Tail(q.nodes)
  BY DEF Queues, Dequeue
<1>2. /\ 1 \in DOMAIN q.nodes /\ Head(q.nodes) = q.nodes[1]
      /\ \A i \in DOMAIN Tail(q.nodes) : i + 1 \in DOMAIN q.nodes /\ i + 1 # 1 /\ Tail(q.nodes)[i] = q.nodes[i + 1] /\ i \in Nat
  BY <1>1
<1>3. \A i \in SyncAt(Dequeue(q)) : i + 1 \in SyncAt(q) /\ i + 1 # 1 /\ i \in Nat
  BY <1>1, <1>2 DEF SyncAt
<1>4. Head(q.nodes).sync => 1 \in SyncAt(q)
  BY <1>2 DEF SyncAt
<1>5. AtMostOne(SyncAt(q)) => AtMostOne(SyncAt(Dequeue(q)))
  <2> SUFFICES ASSUME AtMostOne(SyncAt(q)), NEW i \in SyncAt(Dequeue(q)), NEW j \in SyncAt(Dequeue(q)) PROVE i = j
    BY DEF AtMostOne
  <2>1. i + 1 = j + 1
    BY <1>3 DEF AtMostOne
  <2> QED
    BY <1>3, <2>1
<1> QED
  BY <1>3, <1>4, <1>5 DEF NoMoreSync, AtMostOne

LEMMA SyncRemoved ==
  ASSUME NEW q \in Queues(Jobs), NEW d, SyncAt(q) = {}
  PROVE  SyncAt(RemoveDir(q, d)) = {}
BY RemoveShape DEF SyncAt

LEMMA SyncBatched ==
  ASSUME queue \in Queues(Jobs), NEW batch \in Seq(Events), NEW r \in QueueOutcomes(batch)
  PROVE  NoMoreSync(queue, r)
<1> DEFINE good == {q \in Queues(Jobs) : NoMoreSync(queue, q)}
           Q == [n \in 0 .. Len(batch) |-> good]
<1>1. Len(batch) \in Nat /\ \A n \in 1 .. Len(batch) : batch[n] \in Events
  OBVIOUS
<1>2. \A n \in 0 .. Len(batch) : Q[n] = good
  OBVIOUS
<1> HIDE DEF Q
<1>3. ASSUME NEW q \in good, NEW e \in Events PROVE EventOutcomes(q, e) \subseteq good
  <2>1. q \in Queues(Jobs) /\ EventOutcomes(q, e) \subseteq Queues(Jobs)
    BY EventQueued
  <2>2. CASE q = Crashed \/ Owners(e.wd) = {}
    <3>1. SyncAt(Crashed) = {} /\ EventOutcomes(q, e) = {Crashed}
      BY <2>2 DEF SyncAt, Crashed, EventOutcomes
    <3> QED
      BY <2>1, <3>1 DEF NoMoreSync, AtMostOne
  <2>3. CASE ~(q = Crashed \/ Owners(e.wd) = {})
    <3> DEFINE d == CHOOSE d \in Owners(e.wd) : TRUE
               job == [dir |-> d, file |-> e.file, op |-> e.op, sync |-> FALSE]
    <3>1. d \in Dirs /\ e.file \in Files /\ e.op \in Kinds
      BY <2>3 DEF Owners, Events
    <3>2. EventOutcomes(q, e) = Enqueue(q, job)
      BY <2>3 DEF EventOutcomes
    <3> HIDE DEF d
    <3>3. job \in Jobs /\ ~job.sync
      BY <3>1, JobTypes
    <3> HIDE DEF job
    <3>4. \A s \in Enqueue(q, job) : NoMoreSync(q, s)
      BY <2>1, <3>3, SyncEnqueued
    <3>5. \A s \in Enqueue(q, job) : NoMoreSync(queue, s)
      BY <3>4 DEF NoMoreSync
    <3> QED
      BY <2>1, <3>2, <3>5
  <2> QED
    BY <2>2, <2>3
<1>4. queue \in good
  BY DEF NoMoreSync
<1> HIDE DEF good
<1>5. \A n \in 1 .. Len(batch) : \A q \in Q[n - 1] : EventOutcomes(q, batch[n]) \subseteq Q[n]
  <2> TAKE n \in 1 .. Len(batch)
  <2>1. Q[n - 1] = good /\ Q[n] = good
    BY <1>1, <1>2
  <2> QED
    BY <1>1, <1>3, <2>1
<1>6. queue \in Q[0] /\ Q[Len(batch)] = good
  BY <1>1, <1>2, <1>4
<1>7. QueueOutcomes(batch) \subseteq Q[Len(batch)]
  BY <1>1, <1>5, <1>6, BatchWithin
<1> QED
  BY <1>6, <1>7 DEF good

LEMMA DueType == Due \in Nat
BY DEF Due

(* A step that says nothing to the console and owes it no more.            *)
LEMMA SilentKeeps ==
  ASSUME ReplyInv, UNCHANGED <<conIn, conOut, conPc, conLeft>>, OneSync', Due' <= Due, shutDown' = shutDown
  PROVE  ReplyInv'
<1>1. Due \in Nat /\ Due' \in Nat /\ Len(conOut) \in Nat /\ (conOut # <<>> => Head(conOut) \in Nat) /\ conLeft \in Nat
  BY DEF ReplyInv, Due
<1>2. Due = 0 => Due' = 0
  BY <1>1
<1>3. Unanswered => Unanswered'
  BY <1>2 DEF Unanswered
<1>4. Answered => Answered'
  BY <1>1 DEF Answered
<1>5. conLeft >= Len(conOut) + Due => conLeft >= Len(conOut) + Due'
  BY <1>1
<1> QED
  BY <1>2, <1>3, <1>4, <1>5 DEF ReplyInv

(* A line that was owed is written.                                        *)
LEMMA LineKeeps ==
  ASSUME ReplyInv, conOut' = conOut \o Line, UNCHANGED <<conIn, conPc, conLeft>>,
         OneSync', Due' < Due, shutDown' = shutDown
  PROVE  ReplyInv'
<1>1. conOut \in Seq(Nat) /\ Len(conOut) \in Nat /\ conLeft \in Nat
  BY DEF ReplyInv
<1>0. Due \in Nat /\ Due' \in Nat
  BY DEF Due
<1>2. /\ conOut' \in Seq(Nat) /\ Len(conOut') = Len(conOut) + 1 /\ conOut' # <<>>
      /\ \A i \in 1 .. Len(conOut) : conOut'[i] = conOut[i]
      /\ conOut'[Len(conOut) + 1] = 0
  BY <1>1 DEF Line
<1>3. Due # 0
  BY <1>0
<1>4. Text(conOut) => Text(conOut')
  BY <1>1, <1>2 DEF Text
<1>5. Answered => Answered'
  <2> SUFFICES ASSUME Answered PROVE Answered'
    OBVIOUS
  <2>1. Len(conOut) >= 1 /\ Head(conOut') = Head(conOut) /\ Head(conOut) \in Nat
    BY <1>1, <1>2 DEF Answered
  <2>2. Text(Tail(conOut'))
    <3>1. Len(Tail(conOut)) = Len(conOut) - 1 /\ \A i \in 1 .. Len(conOut) - 1 : Tail(conOut)[i] = conOut[i + 1]
      BY <1>1, <2>1
    <3>2. \A i \in 2 .. Len(conOut) : conOut[i] = 0
      <4> TAKE i \in 2 .. Len(conOut)
      <4>1. i - 1 \in DOMAIN Tail(conOut) /\ Tail(conOut)[i - 1] = conOut[i]
        BY <1>1, <2>1, <3>1
      <4> QED
        BY <4>1 DEF Answered, Text
    <3>3. \A i \in DOMAIN Tail(conOut') : i \in 1 .. Len(conOut) /\ Tail(conOut')[i] = conOut'[i + 1]
      BY <1>1, <1>2
    <3> QED
      BY <1>1, <1>2, <3>2, <3>3 DEF Text
  <2>3. Head(conOut) >= Len(conOut) + 1 - 1 + Due'
    <3>1. Head(conOut) >= Len(conOut) - 1 + Due /\ Head(conOut) \in Nat /\ Len(conOut) \in Nat
      BY <1>1, <2>1 DEF Answered
    <3>2. \A h, n, e, f \in Nat : h >= n - 1 + e /\ f < e => h >= n + 1 - 1 + f
      OBVIOUS
    <3> QED
      BY <1>0, <3>1, <3>2
  <2> QED
    BY <1>2, <2>1, <2>2, <2>3 DEF Answered
<1>6. conLeft >= Len(conOut) + Due => conLeft >= Len(conOut') + Due'
  <2>1. \A h, n, e, f \in Nat : h >= n + e /\ f < e => h >= n + 1 + f
    OBVIOUS
  <2> QED
    BY <1>0, <1>1, <1>2, <2>1
<1>7. conPc \in {"header", "lastheader"} => Answered
  BY <1>3 DEF ReplyInv, Unanswered
<1> QED
  BY <1>2, <1>3, <1>4, <1>5, <1>6, <1>7 DEF ReplyInv

LEMMA TextTail ==
  ASSUME NEW r \in Seq(Nat), r # <<>>, \A i \in 2 .. Len(r) : r[i] = 0
  PROVE  Text(Tail(r))
<1>1. DOMAIN Tail(r) = 1 .. Len(r) - 1 /\ Len(r) \in Nat /\ \A i \in 1 .. Len(r) - 1 : Tail(r)[i] = r[i + 1]
  OBVIOUS
<1>2. \A i \in 1 .. Len(r) - 1 : i + 1 \in 2 .. Len(r)
  BY <1>1
<1> QED
  BY <1>1, <1>2 DEF Text

(* The reply to a command.                                                 *)
LEMMA ReplyShape ==
  /\ \A n \in Nat \ {0} : /\ Reply(n) \in Seq(Nat) /\ Len(Reply(n)) = n + 1 /\ Reply(n) # <<>>
                          /\ Head(Reply(n)) = n /\ Text(Tail(Reply(n)))
  /\ \A r : r = <<2>> \o Line => r \in Seq(Nat) /\ Len(r) = 2 /\ r # <<>> /\ Head(r) = 2 /\ Text(Tail(r))
  /\ \A r : r = <<4>> \o Line \o Line \o Line =>
        r \in Seq(Nat) /\ Len(r) = 4 /\ r # <<>> /\ Head(r) = 4 /\ Text(Tail(r))
<1>1. ASSUME NEW n \in Nat \ {0}
      PROVE  Reply(n) \in Seq(Nat) /\ Len(Reply(n)) = n + 1 /\ Reply(n) # <<>> /\ Head(Reply(n)) = n /\ Text(Tail(Reply(n)))
  <2> DEFINE z == [i \in 1 .. n |-> 0]
  <2>1. z \in Seq(Nat) /\ Len(z) = n /\ \A i \in 1 .. n : z[i] = 0
    OBVIOUS
  <2> HIDE DEF z
  <2>2. <<n>> \o z \in Seq(Nat) /\ Len(<<n>> \o z) = n + 1 /\ (<<n>> \o z)[1] = n
    BY <2>1
  <2>3. \A i \in 2 .. n + 1 : (<<n>> \o z)[i] = 0
    BY <2>1
  <2>4. <<n>> \o z # <<>>
    BY <2>2
  <2>5. Text(Tail(<<n>> \o z))
    BY <2>2, <2>3, <2>4, TextTail
  <2>6. Reply(n) = <<n>> \o z
    BY DEF Reply, z
  <2> QED
    BY <2>2, <2>4, <2>5, <2>6
<1>2. ASSUME NEW r, r = << 2 >> \o Line
      PROVE  r \in Seq(Nat) /\ Len(r) = 2 /\ r # <<>> /\ Head(r) = 2 /\ Text(Tail(r))
  <2>1. r \in Seq(Nat) /\ Len(r) = 2 /\ r[1] = 2 /\ r[2] = 0
    BY <1>2 DEF Line
  <2>2. r # <<>>
    BY <1>2 DEF Line
  <2>3. \A i \in 2 .. Len(r) : r[i] = 0
    BY <2>1
  <2>4. Text(Tail(r))
    BY <2>1, <2>2, <2>3, TextTail
  <2> QED
    BY <2>1, <2>2, <2>4
<1>3. ASSUME NEW r, r = << 4 >> \o Line \o Line \o Line
      PROVE  r \in Seq(Nat) /\ Len(r) = 4 /\ r # <<>> /\ Head(r) = 4 /\ Text(Tail(r))
  <2>1. r \in Seq(Nat) /\ Len(r) = 4 /\ r[1] = 4 /\ r[2] = 0 /\ r[3] = 0 /\ r[4] = 0
    BY <1>3 DEF Line
  <2>2. r # <<>>
    BY <2>1
  <2>3. \A i \in 2 .. Len(r) : r[i] = 0
    BY <2>1
  <2>4. Text(Tail(r))
    BY <2>1, <2>2, <2>3, TextTail
  <2> QED
    BY <2>1, <2>2, <2>4
<1> QED
  BY <1>1, <1>2, <1>3

LEMMA AnswerKeeps ==
  ASSUME ReplyInv, conPc \in {"header", "lastheader"}, conIn' = <<>>, UNCHANGED <<conPc, conLeft>>,
         NEW r \in Seq(Nat), conOut' = r, r # <<>>, Head(r) > 0, Text(Tail(r)),
         NEW due \in Nat, Due' = due, Head(r) >= Len(r) - 1 + due, OneSync', shutDown' => conPc = "lastheader"
  PROVE  ReplyInv'
<1>1. Answered'
  <2>1. Head(conOut') >= Len(conOut') - 1 + Due'
    OBVIOUS
  <2> QED
    BY <2>1 DEF Answered
<1> QED
  BY <1>1 DEF ReplyInv

LEMMA DueLess ==
  ASSUME Owing' => Owing, Stopping' => Stopping
  PROVE  Due' <= Due
BY DEF Due

LEMMA SyncPaid ==
  ASSUME Owing, ~Owing', Stopping' => Stopping
  PROVE  Due' < Due
BY DEF Due

LEMMA ShutdownPaid ==
  ASSUME Owing' => Owing, Stopping, ~Stopping'
  PROVE  Due' < Due
BY DEF Due

LEMMA QueueKeepsSync ==
  ASSUME OneSync, UNCHANGED slotJob, NoMoreSync(queue, queue')
  PROVE  OneSync' /\ (Owing' => Owing)
<1>1. Busy' = Busy /\ SyncSlots' = SyncSlots
  BY DEF Busy, SyncSlots
<1> QED
  BY <1>1 DEF OneSync, Owing, NoMoreSync

(* The dispatch loop and the scan: the sync job goes from the queue to a   *)
(* slot, and its line is written when it leaves either.                    *)
LEMMA DispatchReplies ==
  ASSUME TInv, ReplyInv, TakeNothing \/ PutBack \/ StartWorker \/ SetupFails \/ EndDispatch
  PROVE  ReplyInv'
<1>0. /\ queue \in Queues(Jobs) /\ slotJob \in [Indices -> Jobs \cup {NoJob}] /\ NextSlot \in Indices
      /\ OneSync /\ conOut \in Seq(Nat) /\ pc = "dispatch"
  BY NextSlotType DEF TInv, QInv, ReplyInv, TakeNothing, PutBack, StartWorker, SetupFails, EndDispatch, Taking, Dispatching
<1>1. CASE TakeNothing
  <2>1. UNCHANGED <<conIn, conOut, conPc, conLeft, shutDown, slotJob, pc>> /\ queue' = Crashed
    BY <1>1 DEF TakeNothing, Dequeue, workers, console
  <2>2. NoMoreSync(queue, queue')
    <3>1. SyncAt(Crashed) = {}
      BY DEF SyncAt, Crashed
    <3> QED
      BY <2>1, <3>1 DEF NoMoreSync, AtMostOne
  <2>3. OneSync' /\ (Owing' => Owing)
    BY <1>0, <2>1, <2>2, QueueKeepsSync
  <2>4. Due' <= Due
    BY <2>1, <2>3, DueLess DEF Stopping
  <2> QED
    BY <2>1, <2>3, <2>4, SilentKeeps
<1>2. CASE PutBack
  <2> DEFINE job == Head(queue.nodes)
  <2>1. UNCHANGED <<conIn, conOut, conPc, conLeft, shutDown, slotJob, pc>> /\ queue.nodes # <<>> /\ queue' \in Enqueue(Dequeue(queue), job)
    BY <1>2 DEF PutBack, workers, console
  <2>2. job \in Jobs /\ Dequeue(queue) \in Queues(Jobs)
    BY <1>0, <2>1, HeadTyped
  <2>3. /\ NoMoreSync(queue, Dequeue(queue)) /\ (job.sync => SyncAt(queue) # {})
        /\ job.sync /\ AtMostOne(SyncAt(queue)) => SyncAt(Dequeue(queue)) = {}
    BY <1>0, <2>1, SyncDequeued
  <2> HIDE DEF job
  <2>4. /\ ~job.sync => NoMoreSync(Dequeue(queue), queue')
        /\ SyncAt(Dequeue(queue)) = {} => AtMostOne(SyncAt(queue'))
    BY <2>1, <2>2, SyncEnqueued
  <2>5. NoMoreSync(queue, queue')
    BY <2>3, <2>4 DEF NoMoreSync
  <2>6. OneSync' /\ (Owing' => Owing)
    BY <1>0, <2>1, <2>5, QueueKeepsSync
  <2>7. Due' <= Due
    BY <2>1, <2>6, DueLess DEF Stopping
  <2> QED
    BY <2>1, <2>6, <2>7, SilentKeeps
<1>3. CASE StartWorker
  <2> DEFINE job == Head(queue.nodes)
  <2>1. /\ UNCHANGED <<conIn, conOut, conPc, conLeft, shutDown, pc>> /\ queue.nodes # <<>>
        /\ queue' = Dequeue(queue) /\ slotJob' = [slotJob EXCEPT ![NextSlot] = job]
    BY <1>3 DEF StartWorker, console
  <2>2. job \in Jobs
    BY <1>0, <2>1, HeadTyped
  <2>3. /\ NoMoreSync(queue, queue') /\ (job.sync => SyncAt(queue) # {})
        /\ job.sync /\ AtMostOne(SyncAt(queue)) => SyncAt(queue') = {}
    BY <1>0, <2>1, SyncDequeued
  <2> HIDE DEF job
  <2>4. SyncSlots' \subseteq SyncSlots \cup {s \in {NextSlot} : job.sync}
    BY <1>0, <2>1, <2>2 DEF SyncSlots, Busy
  <2>5. CASE job.sync
    <3>1. SyncAt(queue') = {} /\ SyncSlots' \subseteq {NextSlot} /\ Owing
      BY <1>0, <2>3, <2>4, <2>5 DEF OneSync, Owing
    <3>2. OneSync'
      BY <3>1 DEF OneSync, AtMostOne
    <3>3. Due' <= Due
      BY <2>1, <3>1, DueLess DEF Stopping
    <3> QED
      BY <2>1, <3>2, <3>3, SilentKeeps
  <2>6. CASE ~job.sync
    <3>1. SyncSlots' \subseteq SyncSlots
      BY <2>4, <2>6
    <3>2. OneSync' /\ (Owing' => Owing)
      BY <1>0, <2>3, <3>1 DEF OneSync, Owing, NoMoreSync, AtMostOne
    <3>3. Due' <= Due
      BY <2>1, <3>2, DueLess DEF Stopping
    <3> QED
      BY <2>1, <3>2, <3>3, SilentKeeps
  <2> QED
    BY <2>5, <2>6
<1>4. CASE SetupFails
  <2> DEFINE job == Head(queue.nodes)
  <2>1. /\ UNCHANGED <<conIn, conPc, conLeft, shutDown, pc, slotJob>> /\ queue.nodes # <<>>
        /\ queue' = Dequeue(queue) /\ conOut' = IF job.sync THEN conOut \o Line ELSE conOut
    BY <1>4 DEF SetupFails
  <2>2. /\ NoMoreSync(queue, queue') /\ (job.sync => SyncAt(queue) # {})
        /\ job.sync /\ AtMostOne(SyncAt(queue)) => SyncAt(queue') = {}
    BY <1>0, <2>1, SyncDequeued
  <2> HIDE DEF job
  <2>3. OneSync' /\ (Owing' => Owing)
    BY <1>0, <2>1, <2>2, QueueKeepsSync
  <2>4. CASE job.sync
    <3>1. Owing /\ ~Owing'
      <4>1. SyncSlots' = SyncSlots
        BY <2>1 DEF SyncSlots, Busy
      <4> QED
        BY <1>0, <2>2, <2>4, <4>1 DEF Owing, OneSync
    <3>2. Due' < Due
      <4>1. Stopping' => Stopping
        BY <2>1 DEF Stopping
      <4> QED
        BY <3>1, <4>1, SyncPaid
    <3> QED
      BY <2>1, <2>3, <2>4, <3>2, LineKeeps
  <2>5. CASE ~job.sync
    <3>1. Due' <= Due
      BY <2>1, <2>3, DueLess DEF Stopping
    <3> QED
      BY <2>1, <2>3, <2>5, <3>1, SilentKeeps
  <2> QED
    BY <2>4, <2>5
<1>5. CASE EndDispatch
  <2>1. /\ UNCHANGED <<conIn, conPc, conLeft, shutDown, slotJob, queue>>
        /\ pc' = (IF HasDrained THEN "stopped" ELSE "poll")
        /\ conOut' = (IF HasDrained THEN conOut \o Line ELSE conOut)
    BY <1>5 DEF EndDispatch, workers
  <2>2. OneSync' /\ (Owing' => Owing)
    BY <1>0, <2>1, QueueKeepsSync DEF NoMoreSync
  <2>3. CASE HasDrained
    <3>1. Stopping /\ ~Stopping'
      BY <1>0, <2>1, <2>3 DEF Stopping, HasDrained
    <3>2. Due' < Due
      BY <2>2, <3>1, ShutdownPaid
    <3> QED
      BY <2>1, <2>2, <2>3, <3>2, LineKeeps
  <2>4. CASE ~HasDrained
    <3>1. Stopping' => Stopping
      BY <1>0, <2>1 DEF Stopping
    <3>2. Due' <= Due
      BY <2>2, <3>1, DueLess
    <3> QED
      BY <2>1, <2>2, <2>4, <3>2, SilentKeeps
  <2> QED
    BY <2>3, <2>4
<1> QED
  BY <1>1, <1>2, <1>3, <1>4, <1>5

LEMMA ScanReplies ==
  ASSUME TInv, ScanInv, TInv', ReplyInv, HandleInotify \/ \E s \in Slots : HandleReport(s)
  PROVE  ReplyInv'
<1>0. /\ queue \in Queues(Jobs) /\ events \in Seq(Events) /\ slotJob \in [Indices -> Jobs \cup {NoJob}]
      /\ OneSync /\ conOut \in Seq(Nat)
  BY DEF TInv, QInv, ReplyInv
<1>1. CASE HandleInotify
  <2>1. /\ UNCHANGED <<conIn, conOut, conPc, conLeft, shutDown, slotJob, pc>>
        /\ queue' \in QueueOutcomes(Batch(events))
    BY <1>1 DEF HandleInotify, workers, console
  <2>2. NoMoreSync(queue, queue')
    BY <1>0, <2>1, BatchSplit, SyncBatched
  <2>3. OneSync' /\ (Owing' => Owing)
    BY <1>0, <2>1, <2>2, QueueKeepsSync
  <2>4. Due' <= Due
    BY <2>1, <2>3, DueLess DEF Stopping
  <2> QED
    BY <2>1, <2>3, <2>4, SilentKeeps
<1>2. ASSUME NEW s \in Slots, HandleReport(s) PROVE ReplyInv'
  <2>1. /\ UNCHANGED <<conIn, conPc, conLeft, shutDown, queue, pc>>
        /\ conOut' = conOut \o Completion(slotJob[s])
    BY <1>2 DEF HandleReport, Answer
  <2>2. s \in Busy /\ Busy' = Busy \ {s} /\ slotJob' = [slotJob EXCEPT ![s] = NoJob]
    BY <1>2, Ended
  <2>3. SyncSlots' = SyncSlots \ {s}
    BY <1>0, <2>2, BusyTypes DEF SyncSlots
  <2>4. OneSync' /\ (Owing' => Owing)
    BY <1>0, <2>1, <2>3 DEF OneSync, Owing, AtMostOne
  <2>5. CASE slotJob[s].sync
    <3>1. Owing /\ ~Owing'
      <4>1. s \in SyncSlots
        BY <2>2, <2>5 DEF SyncSlots
      <4>2. SyncSlots' = {} /\ SyncAt(queue) = {}
        BY <1>0, <2>3, <4>1 DEF OneSync, AtMostOne
      <4> QED
        BY <2>1, <4>1, <4>2 DEF Owing
    <3>2. Due' < Due
      <4>1. Stopping' => Stopping
        BY <2>1 DEF Stopping
      <4> QED
        BY <3>1, <4>1, SyncPaid
    <3>3. conOut' = conOut \o Line
      BY <2>1, <2>5 DEF Completion
    <3> QED
      BY <2>1, <2>4, <3>2, <3>3, LineKeeps
  <2>6. CASE ~slotJob[s].sync
    <3>1. Due' <= Due
      BY <2>1, <2>4, DueLess DEF Stopping
    <3>2. conOut' = conOut
      BY <1>0, <2>1, <2>6 DEF Completion
    <3> QED
      BY <2>1, <2>4, <3>1, <3>2, SilentKeeps
  <2> QED
    BY <2>5, <2>6
<1> QED
  BY <1>1, <1>2

LEMMA WatchKept ==
  ASSUME TInv, DiskInv, WatchInv, [Next]_vars
  PROVE  WatchInv'
<1>0. mon \in [Dirs -> Entries] /\ watch \in [Dirs -> Nat] /\ nextWd \in Nat \ {0} /\ gone \subseteq Removable
  BY DEF TInv, QInv, WatchInv, DiskInv
<1>1. ASSUME UNCHANGED <<watch, nextWd>>, \A d \in Dirs : mon'[d].active => mon[d].active PROVE WatchInv'
  BY <1>1 DEF WatchInv
<1>2. ASSUME NEW d, NEW b \in BOOLEAN, mon' = [mon EXCEPT ![d].working = b]
      PROVE  \A e \in Dirs : mon'[e].active => mon[e].active
  BY <1>0, <1>2 DEF Entries
<1>3. CASE Environment
  <2>1. CASE \E d \in Dirs : RemoveSource(d)
    <3>1. Removable # {} /\ nextWd' = nextWd
      BY <2>1 DEF RemoveSource
    <3> QED
      BY <1>0, <3>1 DEF WatchInv
  <2>2. CASE ~\E d \in Dirs : RemoveSource(d)
    <3>1. UNCHANGED <<watch, nextWd, mon>>
      BY <1>3, <2>2 DEF Environment, WorkerStep, CopyFile, Report, KillWorker, ChangeFile, Type, ConsoleReads, Over, vars, kernel
    <3> QED
      BY <1>1, <3>1
  <2> QED
    BY <2>1, <2>2
<1>4. CASE TakeNothing \/ PutBack \/ SetupFails \/ EndDispatch \/ Poll \/ IgnoreInput \/ HandleInotify \/ EndScan
  BY <1>1, <1>4 DEF TakeNothing, PutBack, SetupFails, EndDispatch, Poll, IgnoreInput, HandleInotify, EndScan, kernel
<1>5. CASE StartWorker
  <2>1. UNCHANGED <<watch, nextWd>> /\ \E d : mon' = [mon EXCEPT ![d].working = TRUE]
    BY <1>5 DEF StartWorker, kernel
  <2> QED
    BY <1>1, <1>2, <2>1
<1>6. ASSUME NEW s \in Slots, HandleReport(s) PROVE WatchInv'
  <2>1. UNCHANGED <<watch, nextWd>> /\ \E d : mon' = [mon EXCEPT ![d].working = FALSE]
    BY <1>6 DEF HandleReport, NotWorking, kernel
  <2> QED
    BY <1>1, <1>2, <2>1
<1>7. ASSUME NEW d \in Dirs, Add(d) \/ Status(d) \/ Cancel(d) \/ Sync(d) \/ Shutdown(d) PROVE WatchInv'
  <2>1. \/ UNCHANGED <<watch, nextWd, mon>>
        \/ watch' = [watch EXCEPT ![d] = 0] /\ mon' = [mon EXCEPT ![d].active = FALSE] /\ nextWd' = nextWd
        \/ AddWatch(d) /\ Monitor(d)
    BY <1>7 DEF Add, Status, Cancel, Sync, Shutdown, Untouched
  <2>2. CASE UNCHANGED <<watch, nextWd, mon>>
    BY <1>1, <2>2
  <2>3. CASE watch' = [watch EXCEPT ![d] = 0] /\ mon' = [mon EXCEPT ![d].active = FALSE] /\ nextWd' = nextWd
    <3>1. \A e \in Dirs : mon'[e].active => e # d /\ mon[e].active /\ watch'[e] = watch[e]
      BY <1>0, <2>3 DEF Entries
    <3> QED
      BY <1>0, <2>3, <3>1 DEF WatchInv
  <2>4. CASE AddWatch(d) /\ Monitor(d)
    <3>1. watch'[d] # 0 /\ nextWd' \in Nat \ {0} /\ \A e \in Dirs : e # d => watch'[e] = watch[e]
      BY <1>0, <2>4 DEF AddWatch
    <3>2. \A e \in Dirs : e # d => mon'[e] = mon[e]
      BY <1>0, <2>4 DEF Monitor
    <3> QED
      BY <3>1, <3>2 DEF WatchInv
  <2> QED
    BY <2>1, <2>2, <2>3, <2>4
<1> QED
  BY StepKinds, <1>3, <1>4, <1>5, <1>6, <1>7 DEF ManagerStep

(* What is known when a command is read: nothing is owed.                  *)
LEMMA Asked ==
  ASSUME ReplyInv, NEW name, NEW d, Commanded(name, d)
  PROVE  /\ conPc \in {"header", "lastheader"} /\ (name = "shutdown" <=> conPc = "lastheader")
         /\ [name |-> name, dir |-> d] \in Commands
         /\ conOut = <<>> /\ conIn' = <<>> /\ SyncAt(queue) = {} /\ SyncSlots = {} /\ SyncSlots' = {} /\ ~Stopping
         /\ UNCHANGED <<conPc, conLeft, pc>>
<1>1. conIn # <<>> /\ Head(conIn) = [name |-> name, dir |-> d] /\ conIn' = Tail(conIn) /\ UNCHANGED <<conPc, conLeft, pc, slotJob>>
  BY DEF Commanded, workers
<1>2. conPc \in {"header", "lastheader"} /\ Unanswered
  BY <1>1 DEF ReplyInv, Answered
<1>3. PICK c \in Commands : conIn = <<c>> /\ (c.name = "shutdown" <=> conPc = "lastheader")
  BY <1>2 DEF Unanswered
<1>4. c = [name |-> name, dir |-> d] /\ conIn' = <<>>
  BY <1>1, <1>3
<1>5. ~Owing /\ ~Stopping
  BY <1>2 DEF Unanswered, Due
<1>6. SyncAt(queue) = {} /\ SyncSlots = {} /\ SyncSlots' = {}
  BY <1>1, <1>5 DEF Owing, SyncSlots, Busy
<1> QED
  BY <1>1, <1>2, <1>3, <1>4, <1>5, <1>6 DEF Unanswered

\* No cancel meets a directory that was removed while it was active (fss_manager.c:247).
NoCancel == \A c \in Commands : c.name # "cancel"
SingleReply == Removable = {} \/ NoCancel

LEMMA CommandReplies ==
  ASSUME TInv, ReplyInv, WatchInv, SingleReply, NEW d \in Dirs,
         Add(d) \/ Status(d) \/ Cancel(d) \/ Sync(d) \/ Shutdown(d)
  PROVE  ReplyInv'
<1>0. queue \in Queues(Jobs) /\ FullJob(d, FALSE) \in Jobs /\ FullJob(d, TRUE) \in Jobs
  BY JobTypes DEF TInv, QInv
<1>1. PICK name : Commanded(name, d)
  BY DEF Add, Status, Cancel, Sync, Shutdown
<1>2. /\ conPc \in {"header", "lastheader"} /\ (name = "shutdown" <=> conPc = "lastheader")
      /\ [name |-> name, dir |-> d] \in Commands
      /\ conOut = <<>> /\ conIn' = <<>> /\ SyncAt(queue) = {} /\ SyncSlots = {} /\ SyncSlots' = {} /\ ~Stopping
      /\ UNCHANGED <<conPc, conLeft, pc>>
  BY <1>1, Asked
<1>3. \A n \in Nat \ {0} : Reply(n) \in Seq(Nat) /\ Len(Reply(n)) = n + 1 /\ Reply(n) # <<>> /\ Head(Reply(n)) = n /\ Text(Tail(Reply(n)))
  BY ReplyShape
<1>4. shutDown => pc = "stopped"
  BY <1>2 DEF Stopping
<1>5. ASSUME NEW n \in Nat \ {0}, Answer(Reply(n)), SyncAt(queue') = {}, shutDown' = shutDown PROVE ReplyInv'
  <2>1. conOut' = Reply(n)
    BY <1>2, <1>3, <1>5 DEF Answer
  <2>2. ~Owing' /\ ~Stopping' /\ OneSync'
    BY <1>2, <1>4, <1>5 DEF Owing, Stopping, OneSync, AtMostOne
  <2>3. Due' = 0
    BY <2>2 DEF Due
  <2> DEFINE r == Reply(n)
  <2>4. r \in Seq(Nat) /\ r # <<>> /\ Head(r) > 0 /\ Text(Tail(r)) /\ Head(r) >= Len(r) - 1 + 0
    <3>1. r \in Seq(Nat) /\ Len(r) = n + 1 /\ r # <<>> /\ Head(r) = n /\ Text(Tail(r))
      BY <1>3
    <3> HIDE DEF r
    <3> QED
      BY <3>1
  <2>6. conOut' = r
    BY <2>1
  <2> HIDE DEF r
  <2>5. shutDown' => conPc = "lastheader"
    BY <1>2, <1>5 DEF ReplyInv
  <2> QED
    BY <1>2, <2>2, <2>3, <2>4, <2>5, <2>6, AnswerKeeps
<1>6. SyncAt(RemoveDir(queue, d)) = {} /\ \A r \in Enqueue(queue, FullJob(d, FALSE)) : SyncAt(r) = {}
  BY <1>0, <1>2, SyncRemoved, SyncEnqueued DEF FullJob, NoMoreSync
<1>7. CASE Add(d)
  <2>1. (Answer(Reply(1)) \/ Answer(Reply(2))) /\ (UNCHANGED queue \/ queue' \in Enqueue(queue, FullJob(d, FALSE))) /\ shutDown' = shutDown
    BY <1>7 DEF Add, Untouched
  <2>2. SyncAt(queue') = {}
    BY <1>2, <1>6, <2>1
  <2> QED
    BY <1>5, <2>1, <2>2
<1>8. CASE Status(d)
  <2>1. (Answer(Reply(6)) \/ Answer(Reply(1))) /\ UNCHANGED queue /\ shutDown' = shutDown
    BY <1>8 DEF Status, Untouched
  <2>2. SyncAt(queue') = {}
    BY <1>2, <2>1
  <2>3. 1 \in Nat \ {0} /\ 6 \in Nat \ {0}
    OBVIOUS
  <2> QED
    BY <1>5, <2>1, <2>2, <2>3
<1>9. CASE Cancel(d)
  <2>1. mon[d].active => watch[d] # 0
    <3>1. Commanded("cancel", d)
      BY <1>9 DEF Cancel
    <3>2. [name |-> "cancel", dir |-> d] \in Commands
      BY <3>1, Asked
    <3>3. ~NoCancel
      BY <3>2 DEF NoCancel
    <3> QED
      BY <3>3 DEF SingleReply, WatchInv
  <2>2. Answer(Reply(1)) /\ (UNCHANGED queue \/ queue' = RemoveDir(queue, d)) /\ shutDown' = shutDown
    BY <1>9, <2>1 DEF Cancel, Untouched
  <2> QED
    BY <1>2, <1>5, <1>6, <2>2
<1>10. CASE Sync(d)
  <2>0. \/ (Answer(Reply(1)) \/ Answer(Reply(2))) /\ UNCHANGED queue /\ shutDown' = shutDown
        \/ queue' \in Enqueue(queue, FullJob(d, TRUE)) /\ Answer(<<2>> \o Line) /\ shutDown' = shutDown
    BY <1>10 DEF Sync, Untouched
  <2>1. CASE (Answer(Reply(1)) \/ Answer(Reply(2))) /\ UNCHANGED queue /\ shutDown' = shutDown
    <3>1. SyncAt(queue') = {}
      BY <1>2, <2>1
    <3> QED
      BY <1>5, <2>1, <3>1
  <2>2. CASE /\ queue' \in Enqueue(queue, FullJob(d, TRUE))
             /\ Answer(<<2>> \o Line) /\ shutDown' = shutDown
    <3> DEFINE r == <<2>> \o Line
    <3>1. r \in Seq(Nat) /\ Len(r) = 2 /\ r # <<>> /\ Head(r) = 2 /\ Text(Tail(r))
      BY ReplyShape
    <3>2. conOut' = r
      BY <1>2, <2>2, <3>1 DEF Answer
    <3> HIDE DEF r
    <3>3. OneSync'
      <4>1. AtMostOne(SyncAt(queue'))
        BY <1>0, <1>2, <2>2, SyncEnqueued
      <4> QED
        BY <1>2, <4>1 DEF OneSync, AtMostOne
    <3>4. ~Stopping'
      BY <1>2, <1>4, <2>2 DEF Stopping
    <3>5. PICK due \in {0, 1} : Due' = due
      BY <3>4 DEF Due
    <3>6. due \in Nat /\ Head(r) >= Len(r) - 1 + due /\ Head(r) > 0
      BY <3>1
    <3>7. shutDown' => conPc = "lastheader"
      BY <1>2, <2>2 DEF ReplyInv
    <3> QED
      BY <1>2, <3>1, <3>2, <3>3, <3>5, <3>6, <3>7, AnswerKeeps
  <2> QED
    BY <2>0, <2>1, <2>2
<1>11. CASE Shutdown(d)
  <2> DEFINE r == <<4>> \o Line \o Line \o Line
  <2>1. Answer(r) /\ UNCHANGED queue /\ shutDown' = TRUE
    BY <1>11 DEF Shutdown
  <2>2. r \in Seq(Nat) /\ Len(r) = 4 /\ r # <<>> /\ Head(r) = 4 /\ Text(Tail(r))
    BY ReplyShape
  <2>3. conOut' = r
    BY <1>2, <2>1, <2>2 DEF Answer
  <2> HIDE DEF r
  <2>4. ~Owing' /\ OneSync'
    BY <1>2, <2>1 DEF Owing, OneSync, AtMostOne
  <2>5. PICK due \in {0, 1} : Due' = due
    BY <2>4 DEF Due
  <2>6. due \in Nat /\ Head(r) >= Len(r) - 1 + due /\ Head(r) > 0
    BY <2>2
  <2>7. conPc = "lastheader"
    <3>1. Commanded("shutdown", d)
      BY <1>11 DEF Shutdown
    <3> QED
      BY <3>1, Asked
  <2> QED
    BY <1>2, <2>2, <2>3, <2>4, <2>5, <2>6, <2>7, AnswerKeeps
<1> QED
  BY <1>7, <1>8, <1>9, <1>10, <1>11

(* The console: what it reads was due, and nothing is due where it asks.   *)
LEMMA ConsoleReplies ==
  ASSUME ReplyInv, ConsoleReads \/ \E c \in Commands : Type(c)
  PROVE  ReplyInv'
<1>0. UNCHANGED <<queue, slotJob, shutDown, pc>>
  BY DEF ConsoleReads, Type, workers
<1>1. OneSync' /\ Due' = Due /\ OneSync
  BY <1>0 DEF ReplyInv, OneSync, Due, Owing, Stopping, SyncSlots, SyncAt, Busy, AtMostOne
<1>2. conOut \in Seq(Nat) /\ conLeft \in Nat /\ Due \in Nat
  BY DueType DEF ReplyInv
<1>3. ASSUME NEW c \in Commands, Type(c) PROVE ReplyInv'
  <2>1. /\ conPc = "idle" /\ conIn = <<>> /\ conOut = <<>> /\ Due = 0 /\ ~shutDown
        /\ UNCHANGED <<conLeft, conOut>> /\ conIn' = Append(conIn, c)
        /\ conPc' = (IF c.name = "shutdown" THEN "lastheader" ELSE "header")
    BY <1>3 DEF Type, ReplyInv
  <2>2. conIn' = <<c>>
    BY <2>1
  <2>3. Unanswered'
    BY <1>1, <2>1, <2>2 DEF Unanswered
  <2> QED
    BY <1>0, <1>1, <1>2, <2>1, <2>3 DEF ReplyInv
<1>4. CASE ConsoleReads
  <2>1. /\ conPc \in {"header", "lines", "lastheader", "lastlines"} /\ conOut # <<>>
        /\ conOut' = Tail(conOut) /\ conIn' = conIn /\ conPc' = AfterLine(conLeft')
        /\ conLeft' = (IF conPc \in {"header", "lastheader"} THEN Head(conOut) ELSE conLeft - 1)
    BY <1>4 DEF ConsoleReads
  <2>2. Len(conOut) \in Nat \ {0} /\ Tail(conOut) \in Seq(Nat) /\ Len(Tail(conOut)) = Len(conOut) - 1 /\ Head(conOut) \in Nat
    BY <1>2, <2>1
  <2>3. CASE conPc \in {"header", "lastheader"}
    <3>1. conIn = <<>> /\ Head(conOut) > 0 /\ Text(Tail(conOut)) /\ Head(conOut) >= Len(conOut) - 1 + Due
      BY <2>1, <2>3 DEF ReplyInv, Unanswered, Answered
    <3>2. conLeft' = Head(conOut)
      BY <2>1, <2>3
    <3>3. conPc' = IF conPc = "header" THEN "lines" ELSE "lastlines"
      BY <2>1, <2>2, <2>3, <3>1, <3>2 DEF AfterLine
    <3>4. conLeft' > 0 /\ conLeft' >= Len(conOut') + Due' /\ Text(conOut')
      BY <1>1, <2>1, <2>2, <3>1, <3>2
    <3>5. shutDown => conPc = "lastheader"
      BY <2>3 DEF ReplyInv
    <3> QED
      BY <1>0, <1>1, <2>1, <2>2, <2>3, <3>1, <3>2, <3>3, <3>4, <3>5 DEF ReplyInv
  <2>4. CASE conPc \in {"lines", "lastlines"}
    <3>1. conIn = <<>> /\ Text(conOut) /\ conLeft > 0 /\ conLeft >= Len(conOut) + Due
      BY <2>4 DEF ReplyInv
    <3>2. conLeft' = conLeft - 1 /\ conLeft' \in Nat
      BY <1>2, <2>1, <2>4, <3>1
    <3>3. Text(conOut')
      BY <1>2, <2>1, <3>1 DEF Text
    <3>4. conLeft' >= Len(conOut') + Due'
      BY <1>1, <1>2, <2>1, <2>2, <3>1, <3>2
    <3>5. conPc' = IF conLeft' > 0 THEN conPc ELSE IF conPc = "lines" THEN "idle" ELSE "closed"
      BY <2>1, <2>4 DEF AfterLine
    <3>6. conLeft' > 0 \/ (conOut' = <<>> /\ Due' = 0)
      BY <1>1, <1>2, <2>1, <2>2, <3>2, <3>4
    <3>7. shutDown => conPc = "lastlines"
      BY <2>4 DEF ReplyInv
    <3> QED
      BY <1>0, <1>1, <2>1, <2>2, <2>4, <3>1, <3>2, <3>3, <3>4, <3>5, <3>6, <3>7 DEF ReplyInv
  <2> QED
    BY <2>1, <2>3, <2>4
<1> QED
  BY <1>3, <1>4

(* Every other step says nothing and touches no job.                       *)
LEMMA OthersSilent ==
  ASSUME ReplyInv, UNCHANGED <<queue, slotJob, shutDown, pc, conIn, conOut, conPc, conLeft>>
  PROVE  ReplyInv'
<1>1. OneSync' /\ Due' = Due /\ Due \in Nat
  BY DueType DEF ReplyInv, OneSync, Due, Owing, Stopping, SyncSlots, SyncAt, Busy, AtMostOne
<1> QED
  BY <1>1, SilentKeeps

LEMMA PhaseReplies ==
  ASSUME ReplyInv, Poll \/ EndScan \/ IgnoreInput
  PROVE  ReplyInv'
<1>1. UNCHANGED <<queue, slotJob, shutDown, conIn, conOut, conPc, conLeft>> /\ pc # "stopped"
  BY DEF Poll, EndScan, IgnoreInput, Scans, workers, console
<1>2. OneSync' /\ (Owing' => Owing)
  BY <1>1 DEF ReplyInv, OneSync, Owing, SyncSlots, SyncAt, Busy, AtMostOne
<1>3. Due' <= Due
  BY <1>1, <1>2, DueLess DEF Stopping
<1> QED
  BY <1>1, <1>2, <1>3, SilentKeeps

LEMMA RepliesKept ==
  ASSUME FInv, FInv', WatchInv, ReplyInv, SingleReply, [Next]_vars
  PROVE  ReplyInv'
<1>0. TInv /\ TInv' /\ ScanInv
  BY DEF FInv
<1>1. CASE Environment
  <2>1. CASE ConsoleReads \/ \E c \in Commands : Type(c)
    BY <2>1, ConsoleReplies
  <2>2. CASE ~(ConsoleReads \/ \E c \in Commands : Type(c))
    <3>1. UNCHANGED <<queue, slotJob, shutDown, pc, conIn, conOut, conPc, conLeft>>
      BY <1>1, <2>2 DEF Environment, WorkerStep, CopyFile, Report, KillWorker, ChangeFile, RemoveSource, Over, vars, workers, console
    <3> QED
      BY <3>1, OthersSilent
  <2> QED
    BY <2>1, <2>2
<1>2. CASE SetupFails
  BY <1>0, <1>2, DispatchReplies
<1>3. CASE ManagerStep
  BY <1>0, <1>3, DispatchReplies, ScanReplies, PhaseReplies, CommandReplies DEF ManagerStep
<1> QED
  BY StepKinds, <1>1, <1>2, <1>3

LEMMA RepliesInit == Init => WatchInv /\ ReplyInv
<1> SUFFICES ASSUME Init PROVE WatchInv /\ ReplyInv
  OBVIOUS
<1>1. WatchInv
  <2>1. nextWd \in Nat \ {0}
    BY ConfigAssumption DEF Init
  <2>2. ASSUME NEW d \in Dirs, mon[d].active PROVE watch[d] # 0
    <3>1. Configured(d) /\ watch[d] = WdOf(d)
      BY <2>2 DEF Init
    <3>2. \E i \in DOMAIN ConfigDirs : ConfigDirs[i] = d
      BY <3>1 DEF Configured, ToSet
    <3>3. WdOf(d) \in DOMAIN ConfigDirs
      BY <3>1, <3>2 DEF WdOf
    <3> QED
      BY <3>1, <3>3, ConfigAssumption
  <2> QED
    BY <2>1, <2>2 DEF WatchInv
<1>2. SyncSlots = {} /\ SyncAt(queue) = {}
  <2>1. Busy = {}
    BY DEF Init, Busy
  <2>2. \A i \in DOMAIN queue.nodes : ~queue.nodes[i].sync
    BY ConfigAssumption DEF Init, FullJob
  <2> QED
    BY <2>1, <2>2 DEF SyncSlots, SyncAt
<1>3. OneSync /\ Due = 0
  <2>1. ~Stopping
    BY DEF Init, Stopping
  <2> QED
    BY <1>2, <2>1 DEF OneSync, AtMostOne, Due, Owing
<1> QED
  BY <1>1, <1>3 DEF Init, ReplyInv

(* The console finds the announced number of lines where it expects it and *)
(* text everywhere else (fss_manager.h:11-13), whatever is queued, fails   *)
(* or stops meanwhile, provided that no command has two replies: a cancel  *)
(* has when the directory was removed (fss_manager.c:247-256).             *)
THEOREM RepliesInStep ==
  ASSUME SingleReply
  PROVE  Spec => []ReplyInSync
<1>1. FInv /\ DiskInv /\ ControlInv /\ [Next]_vars => (DiskInv /\ ControlInv)'
  BY DiskKept, ControlKept
<1>2. FInv /\ FInv' /\ DiskInv /\ WatchInv /\ ReplyInv /\ [Next]_vars => WatchInv' /\ ReplyInv'
  BY WatchKept, RepliesKept DEF FInv
<1>3. ReplyInv => ReplyInSync
  <2> SUFFICES ASSUME ReplyInv, conOut # <<>> PROVE ReplyInSync
    BY DEF ReplyInSync
  <2>1. conOut \in Seq(Nat) /\ 1 \in DOMAIN conOut /\ Head(conOut) = conOut[1]
    BY DEF ReplyInv
  <2> QED
    BY <2>1 DEF ReplyInv, ReplyInSync, Unanswered, Answered, Text
<1> QED
  BY InitHolds, StepHolds, RestInit, RepliesInit, <1>1, <1>2, <1>3, PTL DEF Spec
-----------------------------------------------------------------------------
(* The mirror.  What is still to be done to the targets: the jobs in the   *)
(* order in which they will be dispatched, those that were put back first, *)
(* and then the jobs that the unread events will become.                   *)
Rotated(jobs, cut) ==
  [p \in 1 .. Len(jobs) |-> IF p <= Len(jobs) - cut THEN jobs[cut + p] ELSE jobs[p - (Len(jobs) - cut)]]
Cut == IF pc = "dispatch" THEN left ELSE Len(queue.nodes)
Owner == [w \in Nat |-> CHOOSE d \in Owners(w) : TRUE]
Meant(owner, e) == [dir |-> owner[e.wd], file |-> e.file, op |-> e.op, sync |-> FALSE]
Announced(owner, q) == [i \in DOMAIN q |-> Meant(owner, q[i])]
Chain == Rotated(queue.nodes, Cut) \o Announced(Owner, events)

Deletes(job, d, f) == job.dir = d /\ job.file = f /\ job.op = "DELETED"
Copies(job, d, f) == job.dir = d /\ (job.op = "FULL" \/ (job.file = f /\ job.op # "DELETED"))

\* The chain removes a file; it copies it after it was removed for the last time.
Erased(c, d, f) == \E i \in DOMAIN c : Deletes(c[i], d, f)
Settled(c, d, f) == \E i \in DOMAIN c : Copies(c[i], d, f) /\ \A j \in DOMAIN c : Deletes(c[j], d, f) => j < i

\* So do the workers.
Erasing(d, f) == \E s \in Busy : slotJob[s].dir = d /\ f \in worker[s].todo /\ slotJob[s].op = "DELETED"
Copying(d, f) == \E s \in Busy : slotJob[s].dir = d /\ f \in worker[s].todo /\ slotJob[s].op # "DELETED"

Mirrors(d, f) ==
  IF src[d][f] = 0
  THEN tar[d][f] \in {0, Old} \/ Erasing(d, f) \/ Erased(Chain, d, f)
  ELSE \/ Settled(Chain, d, f)
       \/ ~Erased(Chain, d, f) /\ (Copying(d, f) \/ (~Erasing(d, f) /\ tar[d][f] = src[d][f]))

MirrorInv == \A d \in Dirs, f \in Files : IF mon[d].known THEN Mirrors(d, f) ELSE tar[d][f] \in {0, Old}

\* Without a cancel a monitored directory has its watch until it is removed, and its watch descriptor for itself.
OwnersInv ==
  /\ \A d \in Dirs : /\ mon[d].known = mon[d].active
                     /\ mon[d].known => mon[d].wd < nextWd /\ (d \notin gone => watch[d] = mon[d].wd /\ mon[d].wd # 0)
                     /\ ~mon[d].known => watch[d] = 0
  /\ \A d, e \in Dirs : mon[d].known /\ mon[e].known /\ mon[d].wd = mon[e].wd => d = e
  /\ \A i \in DOMAIN events : \E d \in Dirs : mon[d].known /\ mon[d].wd = events[i].wd
  /\ \A i \in DOMAIN queue.nodes : mon[queue.nodes[i].dir].known
  /\ \A s \in Busy : mon[slotJob[s].dir].known

\* Where the dispatch loop has put jobs back, every job is of the one directory there is.
OrderInv ==
  pc = "dispatch" =>
    /\ left <= Len(queue.nodes)
    /\ left # Len(queue.nodes) => Available /\ \A d, e \in Dirs : d = e /\ mon[d].working

FreshInv == \A s \in Indices : worker[s].pc # "run" => worker[s].todo = {}

CInv == Whole(queue) /\ OwnersInv /\ OrderInv /\ FreshInv /\ MirrorInv

\* With several directories and several workers a job that is put back is overtaken by a later one.
OneAtATime == (\A d, e \in Dirs : d = e) \/ Limit <= 1

LEMMA RotatedJobs ==
  ASSUME NEW q \in Seq(Jobs), NEW cut \in 0 .. Len(q)
  PROVE  /\ Rotated(q, cut) \in Seq(Jobs) /\ Len(Rotated(q, cut)) = Len(q)
         /\ cut = Len(q) \/ cut = 0 => Rotated(q, cut) = q
<1>1. Len(q) \in Nat /\ cut \in Nat /\ q \in [1 .. Len(q) -> Jobs]
  OBVIOUS
<1>2. ASSUME NEW p \in 1 .. Len(q), p <= Len(q) - cut PROVE cut + p \in 1 .. Len(q)
  BY <1>1, <1>2
<1>3. ASSUME NEW p \in 1 .. Len(q), ~(p <= Len(q) - cut) PROVE p - (Len(q) - cut) \in 1 .. Len(q)
  BY <1>1, <1>3
<1>4. Rotated(q, cut) \in [1 .. Len(q) -> Jobs]
  BY <1>1, <1>2, <1>3 DEF Rotated
<1>5. Rotated(q, cut) \in Seq(Jobs) /\ Len(Rotated(q, cut)) = Len(q)
  BY <1>1, <1>4
<1>6. ASSUME cut = Len(q) \/ cut = 0 PROVE Rotated(q, cut) = q
  <2>1. ASSUME NEW p \in 1 .. Len(q) PROVE Rotated(q, cut)[p] = q[p]
    <3>1. CASE cut = Len(q)
      <4>1. ~(p <= Len(q) - cut) /\ p - (Len(q) - cut) = p
        BY <1>1, <3>1
      <4> QED
        BY <4>1 DEF Rotated
    <3>2. CASE cut = 0
      <4>1. p <= Len(q) - cut /\ cut + p = p
        BY <1>1, <3>2
      <4> QED
        BY <4>1 DEF Rotated
    <3> QED
      BY <1>6, <3>1, <3>2
  <2> QED
    BY <1>1, <1>4, <2>1
<1> QED
  BY <1>5, <1>6

(* A job that is put back keeps its place.                                 *)
LEMMA RotatedFurther ==
  ASSUME NEW q \in Seq(Jobs), NEW cut \in 1 .. Len(q)
  PROVE  Rotated(Append(Tail(q), Head(q)), cut - 1) = Rotated(q, cut)
<1> DEFINE n == Len(q)
           r == Append(Tail(q), Head(q))
<1>1. n \in Nat \ {0} /\ q # <<>> /\ cut \in Nat
  OBVIOUS
<1>2. r \in Seq(Jobs) /\ Len(r) = n /\ r[n] = q[1] /\ \A i \in 1 .. n - 1 : r[i] = q[i + 1]
  BY <1>1
<1> HIDE DEF r
<1>3. cut \in 0 .. Len(q) /\ cut - 1 \in 0 .. Len(r)
  BY <1>1, <1>2
<1>4. Rotated(q, cut) \in [1 .. n -> Jobs] /\ Rotated(r, cut - 1) \in [1 .. n -> Jobs]
  <2>1. Rotated(q, cut) \in Seq(Jobs) /\ Len(Rotated(q, cut)) = n /\ Rotated(r, cut - 1) \in Seq(Jobs) /\ Len(Rotated(r, cut - 1)) = n
    BY <1>2, <1>3, RotatedJobs
  <2> QED
    BY <2>1
<1>5. ASSUME NEW p \in 1 .. n PROVE Rotated(r, cut - 1)[p] = Rotated(q, cut)[p]
  <2>1. CASE p <= n - cut
    <3>1. Rotated(q, cut)[p] = q[cut + p] /\ Rotated(r, cut - 1)[p] = r[cut - 1 + p]
      BY <1>1, <1>2, <2>1 DEF Rotated
    <3>2. cut - 1 + p \in 1 .. n - 1 /\ cut - 1 + p + 1 = cut + p
      BY <1>1, <2>1
    <3> QED
      BY <1>2, <3>1, <3>2
  <2>2. CASE p = n - cut + 1
    <3>1. Rotated(q, cut)[p] = q[p - (n - cut)] /\ Rotated(r, cut - 1)[p] = r[cut - 1 + p]
      BY <1>1, <1>2, <2>2 DEF Rotated
    <3>2. p - (n - cut) = 1 /\ cut - 1 + p = n
      BY <1>1, <2>2
    <3> QED
      BY <1>2, <3>1, <3>2
  <2>3. CASE p > n - cut + 1
    <3>1. Rotated(q, cut)[p] = q[p - (n - cut)] /\ Rotated(r, cut - 1)[p] = r[p - (n - (cut - 1))]
      BY <1>1, <1>2, <2>3 DEF Rotated
    <3>2. p - (n - (cut - 1)) \in 1 .. n - 1 /\ p - (n - (cut - 1)) + 1 = p - (n - cut)
      BY <1>1, <2>3
    <3> QED
      BY <1>2, <3>1, <3>2
  <2> QED
    BY <1>1, <2>1, <2>2, <2>3
<1> QED
  BY <1>4, <1>5 DEF r

LEMMA TakenFirst ==
  ASSUME NEW a \in Seq(Jobs), NEW b \in Seq(Jobs), a # <<>>
  PROVE  Tail(a) \o b = Tail(a \o b) /\ Head(a \o b) = Head(a) /\ a \o b # <<>>
<1>1. Len(a) \in Nat \ {0} /\ Len(b) \in Nat /\ Tail(a) \in Seq(Jobs) /\ Len(Tail(a)) = Len(a) - 1
  OBVIOUS
<1>2. a \o b \in Seq(Jobs) /\ Len(a \o b) = Len(a) + Len(b) /\ a \o b # <<>> /\ (a \o b)[1] = a[1]
  BY <1>1
<1>3. Tail(a) \o b \in Seq(Jobs) /\ Len(Tail(a) \o b) = Len(a) + Len(b) - 1
  BY <1>1
<1>4. Tail(a \o b) \in Seq(Jobs) /\ Len(Tail(a \o b)) = Len(a) + Len(b) - 1
  BY <1>1, <1>2
<1>5. \A i \in 1 .. Len(a) + Len(b) - 1 : (Tail(a) \o b)[i] = Tail(a \o b)[i]
  BY <1>1, <1>2
<1> QED
  BY <1>2, <1>3, <1>4, <1>5

(* What the three ways to change a chain do to it.                         *)
LEMMA ChainFirst ==
  ASSUME NEW c \in Seq(Jobs), c # <<>>, NEW d, NEW f
  PROVE  /\ Erased(c, d, f) => Deletes(Head(c), d, f) \/ Erased(Tail(c), d, f)
         /\ Erased(Tail(c), d, f) => Erased(c, d, f)
         /\ Deletes(Head(c), d, f) => Erased(c, d, f)
         /\ Settled(c, d, f) => Settled(Tail(c), d, f) \/ (Copies(Head(c), d, f) /\ ~Erased(Tail(c), d, f))
<1>1. /\ Len(c) \in Nat \ {0} /\ Head(c) = c[1] /\ DOMAIN c = 1 .. Len(c) /\ DOMAIN Tail(c) = 1 .. Len(c) - 1
      /\ \A i \in 1 .. Len(c) - 1 : Tail(c)[i] = c[i + 1]
  OBVIOUS
<1>2. \A i \in DOMAIN Tail(c) : i + 1 \in DOMAIN c /\ Tail(c)[i] = c[i + 1] /\ i + 1 > 1
  BY <1>1
<1>3. \A i \in DOMAIN c : i # 1 => i - 1 \in DOMAIN Tail(c) /\ Tail(c)[i - 1] = c[i]
  BY <1>1
<1>4. Erased(c, d, f) => Deletes(Head(c), d, f) \/ Erased(Tail(c), d, f)
  BY <1>1, <1>3 DEF Erased
<1>5. Erased(Tail(c), d, f) => Erased(c, d, f)
  BY <1>2 DEF Erased
<1>6. Deletes(Head(c), d, f) => Erased(c, d, f)
  BY <1>1 DEF Erased
<1>7. ASSUME Settled(c, d, f) PROVE Settled(Tail(c), d, f) \/ (Copies(Head(c), d, f) /\ ~Erased(Tail(c), d, f))
  <2>1. PICK i \in DOMAIN c : Copies(c[i], d, f) /\ \A j \in DOMAIN c : Deletes(c[j], d, f) => j < i
    BY <1>7 DEF Settled
  <2>2. CASE i = 1
    <3>1. \A j \in DOMAIN Tail(c) : ~Deletes(Tail(c)[j], d, f)
      BY <1>1, <1>2, <2>1, <2>2
    <3> QED
      BY <1>1, <2>1, <2>2, <3>1 DEF Erased
  <2>3. CASE i # 1
    <3>1. i - 1 \in DOMAIN Tail(c) /\ Copies(Tail(c)[i - 1], d, f)
      BY <1>3, <2>1, <2>3
    <3>2. \A j \in DOMAIN Tail(c) : Deletes(Tail(c)[j], d, f) => j < i - 1
      BY <1>1, <1>2, <2>1
    <3> QED
      BY <3>1, <3>2 DEF Settled
  <2> QED
    BY <2>2, <2>3
<1> QED
  BY <1>4, <1>5, <1>6, <1>7

LEMMA ChainJoined ==
  ASSUME NEW a \in Seq(Jobs), NEW b \in Seq(Jobs), NEW job \in Jobs, NEW d, NEW f, ~Deletes(job, d, f)
  PROVE  /\ Erased(Append(a, job) \o b, d, f) <=> Erased(a \o b, d, f)
         /\ Settled(a \o b, d, f) => Settled(Append(a, job) \o b, d, f)
         /\ Copies(job, d, f) /\ ~Erased(b, d, f) => Settled(Append(a, job) \o b, d, f)
<1> DEFINE m == Len(a)
           c == a \o b
           x == Append(a, job) \o b
<1>1. /\ m \in Nat /\ Len(b) \in Nat /\ DOMAIN b = 1 .. Len(b)
      /\ DOMAIN c = 1 .. m + Len(b) /\ DOMAIN x = 1 .. m + Len(b) + 1
      /\ \A i \in 1 .. m : x[i] = c[i]
      /\ x[m + 1] = job
      /\ \A i \in 1 .. Len(b) : x[m + 1 + i] = b[i] /\ c[m + i] = b[i]
  OBVIOUS
<1> HIDE DEF c, x, m
<1>2. \A i \in DOMAIN c : i > m => i + 1 \in DOMAIN x /\ x[i + 1] = c[i]
  <2> TAKE i \in DOMAIN c
  <2> HAVE i > m
  <2>1. i - m \in 1 .. Len(b) /\ m + 1 + (i - m) = i + 1 /\ m + (i - m) = i
    BY <1>1
  <2> QED
    BY <1>1, <2>1
<1>3. \A i \in DOMAIN x : i > m + 1 => i - 1 \in DOMAIN c /\ c[i - 1] = x[i]
  <2> SUFFICES ASSUME NEW i \in 1 .. m + Len(b) + 1, i > m + 1 PROVE i - 1 \in DOMAIN c /\ c[i - 1] = x[i]
    BY <1>1
  <2>1. PICK k \in Int : k = i - (m + 1)
    BY <1>1
  <2>2. k \in 1 .. Len(b) /\ m + 1 + k = i /\ m + k = i - 1 /\ i - 1 \in 1 .. m + Len(b)
    BY <1>1, <2>1
  <2> QED
    BY <1>1, <2>2
<1>4. \A i \in DOMAIN x : i = m + 1 \/ i > m + 1 \/ (i \in 1 .. m /\ i \in DOMAIN c)
  BY <1>1
<1>5. \A i \in DOMAIN c : i > m \/ (i \in 1 .. m /\ i \in DOMAIN x)
  BY <1>1
<1>6. Erased(x, d, f) <=> Erased(c, d, f)
  <2>1. ASSUME NEW i \in DOMAIN x, Deletes(x[i], d, f) PROVE \E j \in DOMAIN c : Deletes(c[j], d, f)
    BY <1>1, <1>3, <1>4, <2>1
  <2>2. ASSUME NEW i \in DOMAIN c, Deletes(c[i], d, f) PROVE \E j \in DOMAIN x : Deletes(x[j], d, f)
    BY <1>1, <1>2, <1>5, <2>2
  <2> QED
    BY <2>1, <2>2 DEF Erased
<1>7. ASSUME Settled(c, d, f) PROVE Settled(x, d, f)
  <2>1. PICK i \in DOMAIN c : Copies(c[i], d, f) /\ \A j \in DOMAIN c : Deletes(c[j], d, f) => j < i
    BY <1>7 DEF Settled
  <2>2. CASE i > m
    <3>1. i + 1 \in DOMAIN x /\ Copies(x[i + 1], d, f)
      BY <1>2, <2>1, <2>2
    <3>2. ASSUME NEW j \in DOMAIN x, Deletes(x[j], d, f) PROVE j < i + 1
      <4>1. CASE j > m + 1
        <5>1. j - 1 < i
          BY <1>3, <2>1, <3>2, <4>1
        <5> QED
          BY <1>1, <5>1
      <4>2. CASE j \in 1 .. m
        BY <1>1, <2>2, <4>2
      <4> QED
        BY <1>1, <1>4, <3>2, <4>1, <4>2
    <3> QED
      BY <3>1, <3>2 DEF Settled
  <2>3. CASE i \in 1 .. m /\ i \in DOMAIN x
    <3>1. Copies(x[i], d, f)
      BY <1>1, <2>1, <2>3
    <3>2. ASSUME NEW j \in DOMAIN x, Deletes(x[j], d, f) PROVE j < i
      <4>1. CASE j > m + 1
        <5>1. j - 1 < i
          BY <1>3, <2>1, <3>2, <4>1
        <5> QED
          BY <1>1, <2>3, <4>1, <5>1
      <4>2. CASE j \in 1 .. m /\ j \in DOMAIN c
        BY <1>1, <2>1, <3>2, <4>2
      <4> QED
        BY <1>1, <1>4, <3>2, <4>1, <4>2
    <3> QED
      BY <2>3, <3>1, <3>2 DEF Settled
  <2> QED
    BY <1>5, <2>2, <2>3
<1>8. ASSUME Copies(job, d, f), ~Erased(b, d, f) PROVE Settled(x, d, f)
  <2>1. m + 1 \in DOMAIN x /\ Copies(x[m + 1], d, f)
    BY <1>1, <1>8
  <2>2. ASSUME NEW j \in DOMAIN x, Deletes(x[j], d, f) PROVE j < m + 1
    <3>1. CASE j > m + 1
      <4> DEFINE k == j - (m + 1)
      <4>0. j \in 1 .. m + Len(b) + 1
        BY <1>1
      <4>1. k \in DOMAIN b /\ m + 1 + k = j
        BY <1>1, <3>1, <4>0
      <4> HIDE DEF k
      <4>2. Deletes(b[k], d, f)
        BY <1>1, <2>2, <4>1
      <4> QED
        BY <1>8, <4>1, <4>2 DEF Erased
    <3>2. CASE j \in 1 .. m
      BY <1>1, <3>2
    <3> QED
      BY <1>1, <1>4, <2>2, <3>1, <3>2
  <2> QED
    BY <2>1, <2>2 DEF Settled
<1> QED
  BY <1>6, <1>7, <1>8 DEF c, x

LEMMA ChainLast ==
  ASSUME NEW c \in Seq(Jobs), c # <<>>, NEW d, NEW f
  PROVE  /\ Deletes(c[Len(c)], d, f) => Erased(c, d, f)
         /\ Copies(c[Len(c)], d, f) /\ ~Deletes(c[Len(c)], d, f) => Settled(c, d, f)
<1>1. DOMAIN c = 1 .. Len(c) /\ Len(c) \in Nat \ {0}
  OBVIOUS
<1>2. Len(c) \in DOMAIN c /\ \A j \in DOMAIN c : j = Len(c) \/ j < Len(c)
  BY <1>1
<1> QED
  BY <1>2 DEF Erased, Settled

(* Whose event a watch descriptor announces.                               *)
LEMMA OwnerSame ==
  ASSUME \A d \in Dirs : mon'[d].known = mon[d].known /\ mon'[d].wd = mon[d].wd
  PROVE  Owner' = Owner
<1>1. ASSUME NEW w PROVE {d \in Dirs : mon'[d].known /\ mon'[d].wd = w} = {d \in Dirs : mon[d].known /\ mon[d].wd = w}
  OBVIOUS
<1> QED
  BY <1>1 DEF Owner, Owners

LEMMA OwnerIs ==
  ASSUME TInv, OwnersInv, NEW d \in Dirs, mon[d].known
  PROVE  mon[d].wd \in Nat /\ Owners(mon[d].wd) = {d} /\ Owner[mon[d].wd] = d
<1>1. mon[d].wd \in Nat
  BY DEF TInv, Entries
<1>2. Owners(mon[d].wd) = {d}
  BY DEF OwnersInv, Owners
<1> QED
  BY <1>1, <1>2 DEF Owner

LEMMA EventOwned ==
  ASSUME TInv, OwnersInv, NEW e \in Events, \E d \in Dirs : mon[d].known /\ mon[d].wd = e.wd
  PROVE  /\ Owner[e.wd] \in Dirs /\ mon[Owner[e.wd]].known /\ mon[Owner[e.wd]].wd = e.wd
         /\ Meant(Owner, e) \in Jobs
<1>1. PICK d \in Dirs : mon[d].known /\ mon[d].wd = e.wd
  OBVIOUS
<1>2. Owner[e.wd] = d
  BY <1>1, OwnerIs
<1>3. e.file \in Files /\ e.op \in Kinds
  BY DEF Events
<1>4. Meant(Owner, e) = [dir |-> d, file |-> e.file, op |-> e.op, sync |-> FALSE]
  BY <1>2 DEF Meant
<1> QED
  BY <1>1, <1>2, <1>3, <1>4, JobTypes

LEMMA AnnouncedIs ==
  ASSUME TInv, OwnersInv, NEW q \in Seq(Events),
         \A i \in DOMAIN q : \E d \in Dirs : mon[d].known /\ mon[d].wd = q[i].wd
  PROVE  /\ Announced(Owner, q) \in Seq(Jobs) /\ Len(Announced(Owner, q)) = Len(q)
         /\ \A i \in 1 .. Len(q) : /\ Announced(Owner, q)[i] = Meant(Owner, q[i])
                                  /\ mon[Announced(Owner, q)[i].dir].known
<1>1. Len(q) \in Nat /\ DOMAIN q = 1 .. Len(q) /\ \A i \in 1 .. Len(q) : q[i] \in Events
  OBVIOUS
<1>2. \A i \in 1 .. Len(q) : Meant(Owner, q[i]) \in Jobs /\ mon[Owner[q[i].wd]].known
  BY <1>1, EventOwned
<1>3. Announced(Owner, q) = [i \in 1 .. Len(q) |-> Meant(Owner, q[i])]
  BY <1>1 DEF Announced
<1>4. \A i \in 1 .. Len(q) : Announced(Owner, q)[i].dir = Owner[q[i].wd]
  BY <1>3 DEF Meant
<1> QED
  BY <1>1, <1>2, <1>3, <1>4

LEMMA AnnouncedTyped ==
  ASSUME TInv, OwnersInv
  PROVE  Announced(Owner, events) \in Seq(Jobs) /\ Len(Announced(Owner, events)) = Len(events)
BY AnnouncedIs DEF TInv, QInv, OwnersInv

LEMMA CutTyped ==
  ASSUME TInv, OrderInv, left \in Nat
  PROVE  Cut \in 0 .. Len(queue.nodes)
<1>1. queue.nodes \in Seq(Jobs) /\ Len(queue.nodes) \in Nat
  BY DEF TInv, QInv, Queues
<1> QED
  BY <1>1 DEF Cut, OrderInv

LEMMA ChainTyped ==
  ASSUME TInv, OwnersInv, OrderInv, left \in Nat
  PROVE  Chain \in Seq(Jobs) /\ queue.nodes \in Seq(Jobs)
<1>1. queue.nodes \in Seq(Jobs)
  BY DEF TInv, QInv, Queues
<1>2. Rotated(queue.nodes, Cut) \in Seq(Jobs)
  BY <1>1, CutTyped, RotatedJobs
<1> QED
  BY <1>1, <1>2, AnnouncedTyped DEF Chain

(* A step that leaves what has to be done to a file, or lets it be copied  *)
(* once more.                                                              *)
LEMMA MirrorsKept ==
  ASSUME NEW d, NEW f, Mirrors(d, f), src'[d][f] = src[d][f], tar'[d][f] = tar[d][f],
         Erasing(d, f)' <=> Erasing(d, f), Copying(d, f)' <=> Copying(d, f),
         Erased(Chain', d, f) <=> Erased(Chain, d, f), Settled(Chain, d, f) => Settled(Chain', d, f)
  PROVE  Mirrors(d, f)'
BY DEF Mirrors

LEMMA SameWork ==
  ASSUME UNCHANGED <<slotJob, worker>>, NEW d, NEW f
  PROVE  (Erasing(d, f)' <=> Erasing(d, f)) /\ (Copying(d, f)' <=> Copying(d, f))
BY DEF Erasing, Copying, Busy

LEMMA OwnersKept ==
  ASSUME OwnersInv, UNCHANGED <<watch, nextWd, gone, events>>,
         \A d \in Dirs : mon'[d].known = mon[d].known /\ mon'[d].wd = mon[d].wd /\ mon'[d].active = mon[d].active,
         \A i \in DOMAIN queue'.nodes : mon'[queue'.nodes[i].dir].known,
         \A s \in Busy' : mon'[slotJob'[s].dir].known
  PROVE  OwnersInv'
<1>1. \A i \in DOMAIN events : \E d \in Dirs : mon[d].known /\ mon[d].wd = events[i].wd
  BY DEF OwnersInv
<1>3. \A i \in DOMAIN events' : \E d \in Dirs : mon'[d].known /\ mon'[d].wd = events'[i].wd
  BY <1>1
<1>4. \A d \in Dirs : /\ mon'[d].known = mon'[d].active
                      /\ mon'[d].known => mon'[d].wd < nextWd' /\ (d \notin gone' => watch'[d] = mon'[d].wd /\ mon'[d].wd # 0)
                      /\ ~mon'[d].known => watch'[d] = 0
  BY DEF OwnersInv
<1>5. \A d, e \in Dirs : mon'[d].known /\ mon'[e].known /\ mon'[d].wd = mon'[e].wd => d = e
  BY DEF OwnersInv
<1> QED
  BY <1>3, <1>4, <1>5 DEF OwnersInv

LEMMA QueuedDirs ==
  ASSUME TInv
  PROVE  \A i \in DOMAIN queue.nodes : queue.nodes[i] \in Jobs /\ queue.nodes[i].dir \in Dirs
<1>1. queue.nodes \in Seq(Jobs)
  BY DEF TInv, QInv, Queues
<1>2. \A i \in DOMAIN queue.nodes : queue.nodes[i] \in Jobs
  BY <1>1
<1> QED
  BY <1>2 DEF Jobs

(* Steps that change neither files, nor entries, nor workers, nor what     *)
(* there is to do.                                                         *)
LEMMA ChainKeeps ==
  ASSUME TInv, CInv, UNCHANGED <<src, tar, gone, watch, nextWd, mon, slotJob, worker>>,
         Chain' = Chain, Whole(queue'), OrderInv',
         \A i \in DOMAIN queue'.nodes : mon[queue'.nodes[i].dir].known,
         \A i \in DOMAIN events' : \E d \in Dirs : mon[d].known /\ mon[d].wd = events'[i].wd
  PROVE  CInv'
<1>2. OwnersInv' /\ FreshInv'
  BY DEF CInv, OwnersInv, FreshInv, Busy
<1>3. MirrorInv'
  <2>1. ASSUME NEW d \in Dirs, NEW f \in Files, Mirrors(d, f) PROVE Mirrors(d, f)'
    BY <2>1, MirrorsKept, SameWork
  <2> QED
    BY <2>1 DEF CInv, MirrorInv
<1> QED
  BY <1>2, <1>3 DEF CInv

LEMMA CalmKeeps ==
  ASSUME TInv, CInv, UNCHANGED <<src, tar, gone, watch, nextWd, events, queue, mon, slotJob, worker>>,
         Rotated(queue.nodes, Cut') = Rotated(queue.nodes, Cut), OrderInv'
  PROVE  CInv'
<1>1. Owner' = Owner
  BY OwnerSame
<1>2. Chain' = Chain
  BY <1>1 DEF Chain
<1> QED
  BY <1>2, ChainKeeps DEF CInv, OwnersInv
-----------------------------------------------------------------------------
(* The dispatch loop.                                                      *)
LEMMA NoneWorking ==
  ASSUME TInv, PoolInv, Available, Limit <= 1, NEW d \in Dirs
  PROVE  ~mon[d].working
<1>1. IsFiniteSet(Busy) /\ Cardinality(Busy) \in Nat
  BY BusyTypes
<1>2. Cardinality(Busy) < 1
  BY <1>1, LimitAssumption DEF PoolInv, SlotAccounting, Available
<1>3. Busy = {}
  BY <1>1, <1>2, FS_EmptySet
<1> QED
  BY <1>3 DEF PoolInv, WorkingConsistent

LEMMA PutBackMirrors ==
  ASSUME TInv, PoolInv, CInv, left \in Nat, OneAtATime, PutBack
  PROVE  CInv'
<1> DEFINE job == Head(queue.nodes)
<1>1. /\ pc = "dispatch" /\ left > 0 /\ Available /\ queue.nodes # <<>> /\ IsWorking(job.dir)
      /\ queue' \in Enqueue(Dequeue(queue), job) /\ left' = left - 1
      /\ UNCHANGED <<src, tar, gone, watch, nextWd, events, mon, active, slotJob, worker, pc>>
  BY DEF PutBack, Taking, Dispatching, workers, kernel, disk
<1>2. queue \in Queues(Jobs) /\ queue.nodes \in Seq(Jobs) /\ Whole(queue) /\ Len(queue.nodes) \in Nat \ {0}
  BY <1>1 DEF TInv, QInv, Queues, CInv
<1>3. job \in Jobs /\ Dequeue(queue) \in Queues(Jobs) /\ job.dir \in Dirs
  BY <1>1, <1>2, HeadTyped DEF Jobs
<1>4. Dequeue(queue).nodes = Tail(queue.nodes) /\ Whole(Dequeue(queue))
  BY <1>1, <1>2, DequeueWhole
<1>5. queue'.nodes = Append(Tail(queue.nodes), job) /\ Whole(queue')
  BY <1>1, <1>3, <1>4, EnqueueWhole
<1>6. left <= Len(queue.nodes)
  BY <1>1 DEF CInv, OrderInv
<1>7. Len(queue'.nodes) = Len(queue.nodes) /\ left' # Len(queue.nodes) /\ left' <= Len(queue.nodes)
  BY <1>1, <1>2, <1>5, <1>6
<1>8. \A d, e \in Dirs : d = e /\ mon[d].working
  <2>1. ASSUME Limit <= 1 PROVE FALSE
    BY <1>1, <1>3, <2>1, NoneWorking DEF IsWorking
  <2>2. \A d, e \in Dirs : d = e
    BY <2>1 DEF OneAtATime
  <2> QED
    BY <1>1, <1>3, <2>2 DEF IsWorking
<1>9. OrderInv'
  <2>1. Available'
    BY <1>1 DEF Available
  <2> QED
    BY <1>1, <1>7, <1>8, <2>1 DEF OrderInv
<1>10. Chain' = Chain
  <2>1. Cut = left /\ Cut' = left - 1 /\ left \in 1 .. Len(queue.nodes)
    BY <1>1, <1>2, <1>6 DEF Cut
  <2>2. Rotated(Append(Tail(queue.nodes), job), left - 1) = Rotated(queue.nodes, left)
    BY <1>2, <2>1, RotatedFurther
  <2>3. Owner' = Owner
    BY <1>1, OwnerSame
  <2> QED
    BY <1>1, <1>5, <2>1, <2>2, <2>3 DEF Chain
<1>11. \A i \in DOMAIN queue'.nodes : mon[queue'.nodes[i].dir].known
  <2>1. \A i \in DOMAIN queue.nodes : mon[queue.nodes[i].dir].known
    BY DEF CInv, OwnersInv
  <2>2. 1 \in DOMAIN queue.nodes /\ job = queue.nodes[1]
    BY <1>2
  <2> HIDE DEF job
  <2>3. \A i \in DOMAIN queue'.nodes : queue'.nodes[i] = job \/ (i + 1 \in DOMAIN queue.nodes /\ queue'.nodes[i] = queue.nodes[i + 1])
    BY <1>2, <1>3, <1>5
  <2> QED
    BY <2>1, <2>2, <2>3
<1> QED
  BY <1>1, <1>5, <1>9, <1>10, <1>11, ChainKeeps DEF CInv, OwnersInv

(* The first job of the chain becomes the worker's.                        *)
LEMMA StartMirrors ==
  ASSUME TInv, PoolInv, CInv, left \in Nat, OneAtATime, StartWorker
  PROVE  CInv'
<1> DEFINE job == Head(queue.nodes)
           todo == IF job.op = "FULL" THEN Files ELSE {job.file}
<1>1. /\ pc = "dispatch" /\ left > 0 /\ Available /\ queue.nodes # <<>> /\ ~IsWorking(job.dir)
      /\ queue' = Dequeue(queue) /\ left' = left - 1
      /\ slotJob' = [slotJob EXCEPT ![NextSlot] = job]
      /\ worker' = [worker EXCEPT ![NextSlot] = [pc |-> "run", todo |-> todo]]
      /\ mon' = [mon EXCEPT ![job.dir].working = TRUE]
      /\ UNCHANGED <<src, tar, gone, watch, nextWd, events, pc>>
  BY DEF StartWorker, Taking, Dispatching, kernel, disk
<1>2. /\ queue \in Queues(Jobs) /\ queue.nodes \in Seq(Jobs) /\ Whole(queue) /\ Len(queue.nodes) \in Nat \ {0}
      /\ mon \in [Dirs -> Entries] /\ slotJob \in [Indices -> Jobs \cup {NoJob}] /\ worker \in [Indices -> Processes]
  BY <1>1 DEF TInv, QInv, Queues, CInv
<1>3. job \in Jobs /\ job.dir \in Dirs /\ job # NoJob /\ 1 \in DOMAIN queue.nodes /\ job = queue.nodes[1]
  <2>1. job \in Jobs
    BY <1>1, <1>2, HeadTyped
  <2>2. 1 \in DOMAIN queue.nodes /\ job = queue.nodes[1]
    BY <1>1, <1>2
  <2> HIDE DEF job
  <2>3. job.dir \in Dirs
    BY <2>1 DEF Jobs
  <2> QED
    BY <2>1, <2>2, <2>3, NoJobAssumption
<1>4. queue'.nodes = Tail(queue.nodes) /\ Whole(queue')
  BY <1>1, <1>2, DequeueWhole
<1>5. left = Len(queue.nodes)
  BY <1>1, <1>3 DEF CInv, OrderInv, IsWorking
<1>6. NextSlot \in Indices /\ NextSlot \notin Busy
  BY <1>1, NextSlotFree
<1>7. \A d \in Dirs : mon'[d].known = mon[d].known /\ mon'[d].wd = mon[d].wd /\ mon'[d].active = mon[d].active
  BY <1>1, <1>2, <1>3 DEF Entries
<1>8. Owner' = Owner
  BY <1>7, OwnerSame
<1>9. Chain \in Seq(Jobs) /\ Chain # <<>> /\ Head(Chain) = job /\ Chain' = Tail(Chain)
  <2>1. Cut = Len(queue.nodes) /\ Cut' = Len(Tail(queue.nodes)) /\ Tail(queue.nodes) \in Seq(Jobs)
    BY <1>1, <1>2, <1>5 DEF Cut
  <2>2. Len(queue.nodes) \in 0 .. Len(queue.nodes) /\ Len(Tail(queue.nodes)) \in 0 .. Len(Tail(queue.nodes))
    BY <1>2, <2>1
  <2>3. Rotated(queue.nodes, Cut) = queue.nodes /\ Rotated(Tail(queue.nodes), Cut') = Tail(queue.nodes)
    BY <1>2, <2>1, <2>2, RotatedJobs
  <2>4. Announced(Owner, events) \in Seq(Jobs)
    BY AnnouncedTyped DEF CInv
  <2>5. Chain = queue.nodes \o Announced(Owner, events) /\ Chain' = Tail(queue.nodes) \o Announced(Owner, events)
    BY <1>1, <1>4, <1>8, <2>3 DEF Chain
  <2>6. Chain \in Seq(Jobs)
    BY <1>2, <2>4, <2>5
  <2> QED
    BY <1>1, <1>2, <2>4, <2>5, <2>6, TakenFirst
<1>10. /\ Busy' = Busy \cup {NextSlot} /\ slotJob'[NextSlot] = job /\ worker'[NextSlot].todo = todo
       /\ \A s \in Busy : s # NextSlot /\ slotJob'[s] = slotJob[s] /\ worker'[s] = worker[s]
  BY <1>1, <1>2, <1>3, <1>6 DEF Busy
<1>11. mon[job.dir].known
  BY <1>3 DEF CInv, OwnersInv
<1> HIDE DEF job
<1>12. ASSUME NEW d \in Dirs, NEW f \in Files
       PROVE  /\ Erasing(d, f)' <=> Erasing(d, f) \/ Deletes(job, d, f)
              /\ Copying(d, f)' <=> Copying(d, f) \/ Copies(job, d, f)
  <2>1. f \in todo <=> job.op = "FULL" \/ job.file = f
    BY <1>3
  <2> HIDE DEF todo
  <2>2. Erasing(d, f)' <=> \E s \in Busy \cup {NextSlot} : slotJob'[s].dir = d /\ f \in worker'[s].todo /\ slotJob'[s].op = "DELETED"
    BY <1>10 DEF Erasing
  <2>3. Copying(d, f)' <=> \E s \in Busy \cup {NextSlot} : slotJob'[s].dir = d /\ f \in worker'[s].todo /\ slotJob'[s].op # "DELETED"
    BY <1>10 DEF Copying
  <2>4. Erasing(d, f)' <=> Erasing(d, f) \/ Deletes(job, d, f)
    BY <1>10, <2>1, <2>2 DEF Erasing, Deletes
  <2>5. Copying(d, f)' <=> Copying(d, f) \/ Copies(job, d, f)
    BY <1>10, <2>1, <2>3 DEF Copying, Copies
  <2> QED
    BY <2>4, <2>5
<1>13. ASSUME NEW d \in Dirs, NEW f \in Files, Mirrors(d, f) PROVE Mirrors(d, f)'
  <2>1. /\ Erased(Chain, d, f) => Deletes(job, d, f) \/ Erased(Chain', d, f)
        /\ Erased(Chain', d, f) => Erased(Chain, d, f)
        /\ Deletes(job, d, f) => Erased(Chain, d, f)
        /\ Settled(Chain, d, f) => Settled(Chain', d, f) \/ (Copies(job, d, f) /\ ~Erased(Chain', d, f))
    BY <1>9, ChainFirst
  <2>2. UNCHANGED <<src, tar>>
    BY <1>1
  <2> QED
    BY <1>12, <1>13, <2>1, <2>2 DEF Mirrors
<1>14. MirrorInv'
  BY <1>1, <1>7, <1>13 DEF CInv, MirrorInv
<1>15. FreshInv'
  <2>1. \A s \in Indices : s # NextSlot => worker'[s] = worker[s]
    BY <1>1, <1>2
  <2>2. worker'[NextSlot].pc = "run"
    BY <1>1, <1>2, <1>6
  <2> QED
    BY <2>1, <2>2 DEF CInv, FreshInv
<1>16. OrderInv'
  BY <1>1, <1>2, <1>4, <1>5 DEF OrderInv
<1>17. OwnersInv'
  <2>1. \A i \in DOMAIN queue'.nodes : mon'[queue'.nodes[i].dir].known
    <3>1. \A i \in DOMAIN queue'.nodes : i + 1 \in DOMAIN queue.nodes /\ queue'.nodes[i] = queue.nodes[i + 1]
      BY <1>1, <1>2, <1>4
    <3>2. \A i \in DOMAIN queue.nodes : queue.nodes[i].dir \in Dirs
      BY QueuedDirs
    <3>3. \A i \in DOMAIN queue.nodes : mon[queue.nodes[i].dir].known
      BY DEF CInv, OwnersInv
    <3> QED
      BY <1>7, <3>1, <3>2, <3>3
  <2>2. \A s \in Busy' : mon'[slotJob'[s].dir].known
    <3>1. \A s \in Busy : slotJob[s].dir \in Dirs
      BY BusyTypes
    <3>2. \A s \in Busy : mon[slotJob[s].dir].known
      BY DEF CInv, OwnersInv
    <3> QED
      BY <1>3, <1>7, <1>10, <1>11, <3>1, <3>2
  <2> QED
    BY <1>1, <1>7, <2>1, <2>2, OwnersKept DEF CInv
<1> QED
  BY <1>4, <1>14, <1>15, <1>16, <1>17 DEF CInv

LEMMA DispatchMirrors ==
  ASSUME TInv, PoolInv, CInv, left \in Nat, OneAtATime, TakeNothing \/ PutBack \/ StartWorker \/ EndDispatch
  PROVE  CInv'
<1>0. queue.nodes \in Seq(Jobs) /\ Len(queue.nodes) \in Nat
  BY DEF TInv, QInv, Queues
<1>1. ~TakeNothing
  <2> SUFFICES ASSUME TakeNothing PROVE FALSE
    OBVIOUS
  <2>1. left > 0 /\ pc = "dispatch" /\ Len(queue.nodes) = 0
    BY DEF TakeNothing, Taking, Dispatching
  <2> QED
    BY <2>1 DEF CInv, OrderInv
<1>2. CASE EndDispatch
  <2>1. /\ pc = "dispatch" /\ pc' # "dispatch" /\ (left = 0 \/ ~Available)
        /\ UNCHANGED <<src, tar, gone, watch, nextWd, events, queue, mon, slotJob, worker>>
    BY <1>2 DEF EndDispatch, Dispatching, disk, kernel, workers
  <2>2. Cut' = Len(queue.nodes) /\ (Cut = 0 \/ Cut = Len(queue.nodes))
    BY <1>2, <2>1 DEF Cut, CInv, OrderInv, EndDispatch, Dispatching
  <2>3. Rotated(queue.nodes, Cut') = queue.nodes /\ Rotated(queue.nodes, Cut) = queue.nodes
    BY <1>0, <2>2, RotatedJobs
  <2>4. OrderInv'
    BY <1>2 DEF EndDispatch, OrderInv
  <2> QED
    BY <1>2, <2>1, <2>3, <2>4, CalmKeeps DEF EndDispatch, disk, kernel, workers
<1> QED
  BY <1>1, <1>2, PutBackMirrors, StartMirrors
-----------------------------------------------------------------------------
(* The scan.                                                               *)
LEMMA PhaseMirrors ==
  ASSUME TInv, CInv, Poll \/ IgnoreInput \/ EndScan
  PROVE  CInv'
<1>0. queue.nodes \in Seq(Jobs) /\ Len(queue.nodes) \in Nat
  BY DEF TInv, QInv, Queues
<1>1. /\ pc # "dispatch" /\ (pc' = "dispatch" => left' = queue.size)
      /\ UNCHANGED <<src, tar, gone, watch, nextWd, events, queue, mon, slotJob, worker>>
  BY DEF Poll, IgnoreInput, EndScan, Scans, disk, kernel, workers
<1>2. queue.size = Len(queue.nodes)
  BY DEF CInv, Whole
<1>3. Cut' = Cut
  BY <1>1, <1>2 DEF Cut
<1>4. OrderInv'
  BY <1>0, <1>1, <1>2 DEF OrderInv
<1> QED
  BY <1>1, <1>3, <1>4, CalmKeeps

LEMMA AppendedIs ==
  ASSUME NEW s \in Seq(Jobs), NEW job \in Jobs
  PROVE  /\ Len(Append(s, job)) = Len(s) + 1 /\ Append(s, job)[Len(s) + 1] = job
         /\ \A i \in 1 .. Len(s) : Append(s, job)[i] = s[i]
OBVIOUS

LEMMA JoinedIs ==
  ASSUME NEW s \in Seq(Jobs), NEW a \in Seq(Jobs), NEW b \in Seq(Jobs), Len(s) = Len(a) + Len(b),
         \A i \in 1 .. Len(a) : s[i] = a[i], \A i \in 1 .. Len(b) : s[Len(a) + i] = b[i]
  PROVE  s = a \o b
<1> DEFINE x == a \o b
           m == Len(a)
<1>1. /\ x \in Seq(Jobs) /\ Len(x) = m + Len(b) /\ m \in Nat /\ Len(b) \in Nat
      /\ \A i \in 1 .. m : x[i] = a[i]
      /\ \A i \in 1 .. Len(b) : x[m + i] = b[i]
  OBVIOUS
<1>2. \A i \in 1 .. m : s[i] = a[i]
  OBVIOUS
<1>3. \A i \in 1 .. Len(b) : s[m + i] = b[i]
  OBVIOUS
<1> HIDE DEF x, m
<1>4. ASSUME NEW i \in 1 .. m + Len(b) PROVE s[i] = x[i]
  <2>1. CASE i \in 1 .. m
    BY <1>1, <1>2, <2>1
  <2>2. CASE i \notin 1 .. m
    <3>1. i - m \in 1 .. Len(b) /\ m + (i - m) = i
      BY <1>1, <2>2
    <3> QED
      BY <1>1, <1>3, <3>1
  <2> QED
    BY <2>1, <2>2
<1>5. Len(s) = m + Len(b)
  BY DEF m
<1>6. s = x
  BY <1>1, <1>4, <1>5, SeqEqual
<1> QED
  BY <1>6 DEF x

(* The jobs of a batch are appended in the order of its events.            *)
LEMMA BatchAppended ==
  ASSUME TInv, OwnersInv, Whole(queue), NEW batch \in Seq(Events), NEW r \in QueueOutcomes(batch),
         \A i \in DOMAIN batch : \E d \in Dirs : mon[d].known /\ mon[d].wd = batch[i].wd
  PROVE  Whole(r) /\ r.nodes = queue.nodes \o Announced(Owner, batch)
<1> DEFINE a == Announced(Owner, batch)
           m == Len(queue.nodes)
           Upto(n) == {q \in Queues(Jobs) : /\ Whole(q) /\ Len(q.nodes) = m + n
                                            /\ \A i \in 1 .. m : q.nodes[i] = queue.nodes[i]
                                            /\ \A i \in 1 .. n : q.nodes[m + i] = a[i]}
           Q == [n \in 0 .. Len(batch) |-> Upto(n)]
<1>1. /\ Len(batch) \in Nat /\ DOMAIN batch = 1 .. Len(batch) /\ \A n \in 1 .. Len(batch) : batch[n] \in Events
      /\ queue \in Queues(Jobs) /\ queue.nodes \in Seq(Jobs) /\ m \in Nat
  BY DEF TInv, QInv, Queues
<1>2. /\ a \in Seq(Jobs) /\ Len(a) = Len(batch)
      /\ \A i \in 1 .. Len(batch) : a[i] = Meant(Owner, batch[i]) /\ a[i] \in Jobs
  BY <1>1, AnnouncedIs
<1> HIDE DEF a
<1>3. \A n \in 0 .. Len(batch) : Q[n] = Upto(n)
  OBVIOUS
<1> HIDE DEF Q
<1>4. queue \in Upto(0)
  BY <1>1
<1>5. ASSUME NEW n \in 1 .. Len(batch), NEW q \in Upto(n - 1), NEW s \in EventOutcomes(q, batch[n]) PROVE s \in Upto(n)
  <2>1. /\ q \in Queues(Jobs) /\ Whole(q) /\ Len(q.nodes) = m + n - 1 /\ q.nodes \in Seq(Jobs)
        /\ \A i \in 1 .. m : q.nodes[i] = queue.nodes[i]
        /\ \A i \in 1 .. n - 1 : q.nodes[m + i] = a[i]
    BY <1>1 DEF Queues
  <2>2. q # Crashed
    BY <2>1 DEF Whole, Crashed
  <2>3. PICK d \in Dirs : mon[d].known /\ mon[d].wd = batch[n].wd
    BY <1>1
  <2>4. Owners(batch[n].wd) = {d} /\ Owner[batch[n].wd] = d
    BY <2>3, OwnerIs
  <2>5. (CHOOSE x \in Owners(batch[n].wd) : TRUE) = Owner[batch[n].wd]
    BY <2>4
  <2>6. EventOutcomes(q, batch[n]) = Enqueue(q, a[n])
    BY <1>2, <2>2, <2>4, <2>5 DEF EventOutcomes, Meant
  <2>7. s.nodes = Append(q.nodes, a[n]) /\ Whole(s) /\ s \in Queues(Jobs)
    BY <1>2, <1>5, <2>1, <2>6, EnqueueWhole, EnqueueCovers
  <2>8. Len(s.nodes) = m + n /\ s.nodes[m + n] = a[n] /\ \A i \in 1 .. m + n - 1 : s.nodes[i] = q.nodes[i]
    <3>1. Len(Append(q.nodes, a[n])) = m + n
      BY <1>1, <1>2, <2>1, AppendedIs
    <3>2. Append(q.nodes, a[n])[m + n - 1 + 1] = a[n]
      BY <1>2, <2>1, AppendedIs
    <3>3. \A i \in 1 .. m + n - 1 : Append(q.nodes, a[n])[i] = q.nodes[i]
      BY <1>2, <2>1, AppendedIs
    <3> QED
      BY <1>1, <2>7, <3>1, <3>2, <3>3
  <2>9. \A i \in 1 .. m : s.nodes[i] = queue.nodes[i]
    BY <1>1, <2>1, <2>8
  <2>10. \A i \in 1 .. n : s.nodes[m + i] = a[i]
    <3> TAKE i \in 1 .. n
    <3>1. CASE i = n
      BY <2>8, <3>1
    <3>2. CASE i # n
      <4>1. i \in 1 .. n - 1 /\ m + i \in 1 .. m + n - 1
        BY <1>1, <3>2
      <4> QED
        BY <2>1, <2>8, <4>1
    <3> QED
      BY <3>1, <3>2
  <2> QED
    BY <2>7, <2>8, <2>9, <2>10
<1> HIDE DEF Upto
<1>6. QueueOutcomes(batch) \subseteq Q[Len(batch)]
  <2>1. \A n \in 1 .. Len(batch) : \A q \in Q[n - 1] : EventOutcomes(q, batch[n]) \subseteq Q[n]
    BY <1>1, <1>3, <1>5
  <2>2. queue \in Q[0]
    BY <1>1, <1>3, <1>4
  <2> QED
    BY <1>1, <2>1, <2>2, BatchWithin
<1>7. r \in Upto(Len(batch))
  BY <1>1, <1>3, <1>6
<1>8. /\ r \in Queues(Jobs) /\ Whole(r) /\ Len(r.nodes) = m + Len(batch)
      /\ \A i \in 1 .. m : r.nodes[i] = queue.nodes[i]
      /\ \A i \in 1 .. Len(batch) : r.nodes[m + i] = a[i]
  BY <1>7 DEF Upto
<1>9. r.nodes = queue.nodes \o a
  <2>1. r.nodes \in Seq(Jobs)
    BY <1>8 DEF Queues
  <2>2. Len(r.nodes) = Len(queue.nodes) + Len(a)
    BY <1>2, <1>8
  <2>3. \A i \in 1 .. Len(queue.nodes) : r.nodes[i] = queue.nodes[i]
    BY <1>8
  <2>4. \A i \in 1 .. Len(a) : r.nodes[Len(queue.nodes) + i] = a[i]
    BY <1>2, <1>8
  <2> HIDE DEF m
  <2> QED
    BY <1>1, <1>2, <2>1, <2>2, <2>3, <2>4, JoinedIs
<1> QED
  BY <1>8, <1>9 DEF a

LEMMA ThreeJoined ==
  ASSUME NEW a \in Seq(Jobs), NEW b \in Seq(Jobs), NEW c \in Seq(Jobs)
  PROVE  (a \o b) \o c = a \o (b \o c)
BY ConcatAssociative

LEMMA InotifyMirrors ==
  ASSUME TInv, CInv, HandleInotify
  PROVE  CInv'
<1> DEFINE b == Batch(events)
           u == Unread(events)
<1>1. /\ pc # "dispatch" /\ pc' = pc /\ queue' \in QueueOutcomes(b) /\ events' = u
      /\ UNCHANGED <<src, tar, gone, watch, nextWd, mon, slotJob, worker>>
  BY DEF HandleInotify, Scans, disk, workers
<1>2. events \in Seq(Events) /\ queue.nodes \in Seq(Jobs) /\ Len(queue.nodes) \in Nat
  BY DEF TInv, QInv, Queues
<1>3. /\ b \in Seq(Events) /\ u \in Seq(Events) /\ Len(events) = Len(b) + Len(u)
      /\ \A i \in 1 .. Len(b) : b[i] = events[i]
      /\ \A i \in 1 .. Len(u) : u[i] = events[Len(b) + i]
  BY <1>2, BatchSplit
<1> HIDE DEF b, u
<1>4. \A i \in DOMAIN events : \E d \in Dirs : mon[d].known /\ mon[d].wd = events[i].wd
  BY DEF CInv, OwnersInv
<1>5. \A i \in 1 .. Len(b) : i \in DOMAIN events
  BY <1>2, <1>3
<1>6. \A i \in 1 .. Len(u) : Len(b) + i \in DOMAIN events
  BY <1>2, <1>3
<1>7. \A i \in DOMAIN b : \E d \in Dirs : mon[d].known /\ mon[d].wd = b[i].wd
  <2>1. DOMAIN b = 1 .. Len(b) /\ \A i \in 1 .. Len(b) : b[i] = events[i]
    BY <1>3
  <2>2. \A i \in 1 .. Len(b) : \E d \in Dirs : mon[d].known /\ mon[d].wd = events[i].wd
    BY <1>4, <1>5
  <2> QED
    BY <2>1, <2>2
<1>8. \A i \in DOMAIN u : \E d \in Dirs : mon[d].known /\ mon[d].wd = u[i].wd
  <2>1. DOMAIN u = 1 .. Len(u) /\ \A i \in 1 .. Len(u) : u[i] = events[Len(b) + i]
    BY <1>3
  <2>2. \A i \in 1 .. Len(u) : \E d \in Dirs : mon[d].known /\ mon[d].wd = events[Len(b) + i].wd
    BY <1>4, <1>6
  <2> QED
    BY <2>1, <2>2
<1> DEFINE ab == Announced(Owner, b)
           au == Announced(Owner, u)
           ae == Announced(Owner, events)
<1>9. /\ ab \in Seq(Jobs) /\ Len(ab) = Len(b) /\ \A i \in 1 .. Len(b) : ab[i] = Meant(Owner, b[i]) /\ mon[ab[i].dir].known
      /\ au \in Seq(Jobs) /\ Len(au) = Len(u) /\ \A i \in 1 .. Len(u) : au[i] = Meant(Owner, u[i])
      /\ ae \in Seq(Jobs) /\ Len(ae) = Len(events) /\ \A i \in 1 .. Len(events) : ae[i] = Meant(Owner, events[i])
  BY <1>2, <1>3, <1>4, <1>7, <1>8, AnnouncedIs DEF CInv
<1>10. Whole(queue') /\ queue'.nodes = queue.nodes \o ab
  BY <1>1, <1>3, <1>7, BatchAppended DEF CInv
<1> HIDE DEF ab, au, ae
<1>11. ae = ab \o au
  <2>0. Len(ae) = Len(ab) + Len(au) /\ DOMAIN events = 1 .. Len(events)
    BY <1>2, <1>3, <1>9
  <2>1. ASSUME NEW i \in 1 .. Len(ab) PROVE ae[i] = ab[i]
    <3>1. i \in 1 .. Len(b) /\ i \in 1 .. Len(events)
      BY <1>5, <1>9, <2>0
    <3> QED
      BY <1>3, <1>9, <3>1
  <2>2. ASSUME NEW i \in 1 .. Len(au) PROVE ae[Len(ab) + i] = au[i]
    <3>1. i \in 1 .. Len(u) /\ Len(b) + i \in 1 .. Len(events)
      BY <1>6, <1>9, <2>0
    <3> QED
      BY <1>3, <1>9, <3>1
  <2> QED
    BY <1>9, <2>0, <2>1, <2>2, JoinedIs
<1>12. Chain' = Chain
  <2>1. Cut = Len(queue.nodes) /\ Cut' = Len(queue'.nodes) /\ queue'.nodes \in Seq(Jobs) /\ Len(queue'.nodes) \in Nat
    BY <1>1, <1>2, <1>9, <1>10 DEF Cut
  <2>2. Rotated(queue.nodes, Cut) = queue.nodes /\ Rotated(queue'.nodes, Cut') = queue'.nodes
    BY <1>2, <2>1, RotatedJobs
  <2>3. Owner' = Owner
    BY <1>1, OwnerSame
  <2>4. Chain = queue.nodes \o ae
    BY <2>2 DEF Chain, ae
  <2>5. Chain' = (queue.nodes \o ab) \o au
    BY <1>1, <1>10, <2>2, <2>3 DEF Chain, au
  <2>6. (queue.nodes \o ab) \o au = queue.nodes \o (ab \o au)
    BY <1>2, <1>9, ThreeJoined
  <2> QED
    BY <1>11, <2>4, <2>5, <2>6
<1>13. \A i \in DOMAIN queue'.nodes : mon[queue'.nodes[i].dir].known
  <2>1. \A i \in DOMAIN queue.nodes : mon[queue.nodes[i].dir].known
    BY DEF CInv, OwnersInv
  <2>2. ASSUME NEW i \in DOMAIN queue'.nodes
        PROVE  (i \in DOMAIN queue.nodes /\ queue'.nodes[i] = queue.nodes[i]) \/ \E j \in 1 .. Len(b) : queue'.nodes[i] = ab[j]
    <3>1. i \in 1 .. Len(queue.nodes) + Len(b)
      BY <1>2, <1>9, <1>10
    <3>2. CASE i \in 1 .. Len(queue.nodes)
      BY <1>2, <1>9, <1>10, <3>2
    <3>3. CASE i \notin 1 .. Len(queue.nodes)
      <4>1. i - Len(queue.nodes) \in 1 .. Len(b) /\ queue'.nodes[i] = ab[i - Len(queue.nodes)]
        BY <1>2, <1>9, <1>10, <3>1, <3>3
      <4> QED
        BY <4>1
    <3> QED
      BY <3>2, <3>3
  <2> QED
    BY <1>9, <2>1, <2>2
<1>14. OrderInv'
  BY <1>1 DEF OrderInv
<1> QED
  BY <1>1, <1>8, <1>10, <1>12, <1>13, <1>14, ChainKeeps

(* A worker whose report is read has nothing left to do.                   *)
LEMMA ReportMirrors ==
  ASSUME TInv, ScanInv, CInv, NEW s \in Slots, HandleReport(s), worker[s].pc = "reported"
  PROVE  CInv'
<1>1. /\ s \in Busy /\ Busy' = Busy \ {s} /\ slotJob' = [slotJob EXCEPT ![s] = NoJob]
      /\ pc = "scan" /\ pc' = pc
  BY Ended
<1>2. /\ worker' = [worker EXCEPT ![s] = Idle]
      /\ mon' = [mon EXCEPT ![slotJob[s].dir].working = FALSE]
      /\ UNCHANGED <<src, tar, gone, watch, nextWd, events, queue>>
  BY DEF HandleReport, NotWorking, disk, kernel
<1>3. /\ mon \in [Dirs -> Entries] /\ slotJob \in [Indices -> Jobs \cup {NoJob}] /\ worker \in [Indices -> Processes]
      /\ s \in Indices /\ queue.nodes \in Seq(Jobs)
  BY DEF TInv, QInv, Queues, Indices
<1>4. \A d \in Dirs : mon'[d].known = mon[d].known /\ mon'[d].wd = mon[d].wd /\ mon'[d].active = mon[d].active
  BY <1>2, <1>3 DEF Entries
<1>5. Chain' = Chain
  <2>1. Owner' = Owner
    BY <1>4, OwnerSame
  <2>2. Cut' = Cut
    BY <1>1, <1>2 DEF Cut
  <2> QED
    BY <1>2, <2>1, <2>2 DEF Chain
<1>6. worker[s].todo = {}
  BY <1>3 DEF CInv, FreshInv
<1>7. \A t \in Busy' : t \in Busy /\ t # s /\ slotJob'[t] = slotJob[t] /\ worker'[t] = worker[t]
  BY <1>1, <1>2, <1>3, BusyTypes
<1>8. ASSUME NEW d \in Dirs, NEW f \in Files
      PROVE  (Erasing(d, f)' <=> Erasing(d, f)) /\ (Copying(d, f)' <=> Copying(d, f))
  <2>1. \A t \in Busy : t \in Busy' \/ f \notin worker[t].todo
    BY <1>1, <1>6
  <2>2. Erasing(d, f)' <=> Erasing(d, f)
    BY <1>7, <2>1 DEF Erasing
  <2>3. Copying(d, f)' <=> Copying(d, f)
    BY <1>7, <2>1 DEF Copying
  <2> QED
    BY <2>2, <2>3
<1>9. MirrorInv'
  <2>1. ASSUME NEW d \in Dirs, NEW f \in Files, Mirrors(d, f) PROVE Mirrors(d, f)'
    BY <1>2, <1>5, <1>8, <2>1, MirrorsKept
  <2> QED
    BY <1>2, <1>4, <2>1 DEF CInv, MirrorInv
<1>10. OwnersInv'
  <2>1. \A i \in DOMAIN queue'.nodes : mon'[queue'.nodes[i].dir].known
    <3>1. \A i \in DOMAIN queue.nodes : mon[queue.nodes[i].dir].known
      BY DEF CInv, OwnersInv
    <3> QED
      BY <1>2, <1>4, <3>1, QueuedDirs
  <2>2. \A t \in Busy' : mon'[slotJob'[t].dir].known
    <3>1. \A t \in Busy : mon[slotJob[t].dir].known
      BY DEF CInv, OwnersInv
    <3> QED
      BY <1>4, <1>7, <3>1, BusyTypes
  <2> QED
    BY <1>2, <1>4, <2>1, <2>2, OwnersKept DEF CInv
<1>11. FreshInv'
  <2>1. \A t \in Indices : worker'[t] = IF t = s THEN Idle ELSE worker[t]
    BY <1>2, <1>3
  <2> QED
    BY <2>1 DEF CInv, FreshInv, Idle
<1>12. OrderInv'
  BY <1>1 DEF OrderInv
<1> QED
  BY <1>2, <1>9, <1>10, <1>11, <1>12 DEF CInv
-----------------------------------------------------------------------------
(* Commands: a FULL job of a directory is appended to the queue, between   *)
(* the jobs that wait and those that the unread events will become.        *)
LEMMA AppendedOne ==
  ASSUME NEW s \in Seq(Jobs), NEW job \in Jobs
  PROVE  \A i \in DOMAIN Append(s, job) : (i \in DOMAIN s /\ Append(s, job)[i] = s[i]) \/ Append(s, job)[i] = job
<1>1. DOMAIN Append(s, job) = 1 .. Len(s) + 1 /\ DOMAIN s = 1 .. Len(s) /\ Len(s) \in Nat
  OBVIOUS
<1>2. \A i \in 1 .. Len(s) + 1 : i \in 1 .. Len(s) \/ i = Len(s) + 1
  BY <1>1
<1> QED
  BY <1>1, <1>2, AppendedIs

LEMMA FullAppended ==
  ASSUME TInv, CInv, pc # "dispatch", pc' = pc, NEW d \in Dirs, NEW sync \in BOOLEAN,
         queue' \in Enqueue(queue, FullJob(d, sync)), UNCHANGED events,
         Announced(Owner', events) = Announced(Owner, events)
  PROVE  /\ Whole(queue') /\ OrderInv' /\ queue'.nodes = Append(queue.nodes, FullJob(d, sync))
         /\ \A e \in Dirs, f \in Files : /\ Erased(Chain', e, f) <=> Erased(Chain, e, f)
                                         /\ Settled(Chain, e, f) => Settled(Chain', e, f)
         /\ \A f \in Files : ~Erased(Announced(Owner, events), d, f) => Settled(Chain', d, f)
<1> DEFINE job == FullJob(d, sync)
           a == Announced(Owner, events)
<1>1. queue \in Queues(Jobs) /\ queue.nodes \in Seq(Jobs) /\ Len(queue.nodes) \in Nat /\ job \in Jobs
  BY JobTypes DEF TInv, QInv, Queues
<1>2. queue'.nodes = Append(queue.nodes, job) /\ Whole(queue')
  BY <1>1, EnqueueWhole DEF CInv
<1>3. a \in Seq(Jobs)
  BY AnnouncedTyped DEF CInv
<1>4. \A e \in Dirs, f \in Files : ~Deletes(job, e, f) /\ Copies(job, d, f)
  BY DEF FullJob, Deletes, Copies
<1> HIDE DEF a, job
<1>5. Chain = queue.nodes \o a /\ Chain' = Append(queue.nodes, job) \o a
  <2>1. Append(queue.nodes, job) \in Seq(Jobs) /\ Len(Append(queue.nodes, job)) \in Nat
    BY <1>1
  <2>2. Cut = Len(queue.nodes) /\ Cut' = Len(Append(queue.nodes, job))
    BY <1>2 DEF Cut
  <2>3. Rotated(queue.nodes, Cut) = queue.nodes
    BY <1>1, <2>2, RotatedJobs
  <2>4. Rotated(Append(queue.nodes, job), Cut') = Append(queue.nodes, job)
    <3>1. PICK x \in Seq(Jobs) : x = Append(queue.nodes, job)
      BY <2>1
    <3>2. Len(x) \in 0 .. Len(x)
      OBVIOUS
    <3>3. Rotated(x, Len(x)) = x
      BY <3>2, RotatedJobs
    <3> QED
      BY <2>2, <3>1, <3>3
  <2>5. Chain = queue.nodes \o a
    BY <2>3 DEF Chain, a
  <2>6. Chain' = Rotated(queue'.nodes, Cut') \o Announced(Owner', events')
    BY DEF Chain
  <2> QED
    BY <1>2, <2>4, <2>5, <2>6 DEF a
<1>6. ASSUME NEW e \in Dirs, NEW f \in Files
      PROVE  /\ Erased(Chain', e, f) <=> Erased(Chain, e, f)
             /\ Settled(Chain, e, f) => Settled(Chain', e, f)
             /\ Copies(job, e, f) /\ ~Erased(a, e, f) => Settled(Chain', e, f)
  <2>1. ~Deletes(job, e, f)
    BY <1>4
  <2>2. /\ Erased(Append(queue.nodes, job) \o a, e, f) <=> Erased(queue.nodes \o a, e, f)
        /\ Settled(queue.nodes \o a, e, f) => Settled(Append(queue.nodes, job) \o a, e, f)
        /\ Copies(job, e, f) /\ ~Erased(a, e, f) => Settled(Append(queue.nodes, job) \o a, e, f)
    BY <1>1, <1>3, <2>1, ChainJoined
  <2> QED
    BY <1>5, <2>2
<1>7. OrderInv'
  BY DEF OrderInv
<1> QED
  BY <1>2, <1>4, <1>6, <1>7 DEF a, job

LEMMA SyncMirrors ==
  ASSUME TInv, CInv, pc # "dispatch", pc' = pc, NEW d \in Dirs, mon[d].known, queue' \in Enqueue(queue, FullJob(d, TRUE)),
         UNCHANGED <<src, tar, gone, watch, nextWd, events, mon, slotJob, worker>>
  PROVE  CInv'
<1>1. Owner' = Owner
  BY OwnerSame
<1>2. /\ Whole(queue') /\ OrderInv' /\ queue'.nodes = Append(queue.nodes, FullJob(d, TRUE))
      /\ \A e \in Dirs, f \in Files : /\ Erased(Chain', e, f) <=> Erased(Chain, e, f)
                                      /\ Settled(Chain, e, f) => Settled(Chain', e, f)
  BY <1>1, FullAppended
<1>3. queue.nodes \in Seq(Jobs) /\ FullJob(d, TRUE) \in Jobs /\ FullJob(d, TRUE).dir = d
  BY JobTypes DEF TInv, QInv, Queues, FullJob
<1>4. OwnersInv'
  <2>1. \A i \in DOMAIN queue.nodes : mon[queue.nodes[i].dir].known
    BY DEF CInv, OwnersInv
  <2>2. \A i \in DOMAIN queue'.nodes : (i \in DOMAIN queue.nodes /\ queue'.nodes[i] = queue.nodes[i]) \/ queue'.nodes[i] = FullJob(d, TRUE)
    <3>1. PICK x \in Jobs : x = FullJob(d, TRUE)
      BY <1>3
    <3>2. \A i \in DOMAIN Append(queue.nodes, x) :
            (i \in DOMAIN queue.nodes /\ Append(queue.nodes, x)[i] = queue.nodes[i]) \/ Append(queue.nodes, x)[i] = x
      BY <1>3, AppendedOne
    <3> QED
      BY <1>2, <3>1, <3>2
  <2>3. \A i \in DOMAIN queue'.nodes : mon'[queue'.nodes[i].dir].known
    BY <1>3, <2>1, <2>2
  <2>4. \A s \in Busy' : mon'[slotJob'[s].dir].known
    BY DEF CInv, OwnersInv, Busy
  <2> QED
    BY <2>3, <2>4, OwnersKept DEF CInv
<1>5. MirrorInv'
  <2>1. ASSUME NEW e \in Dirs, NEW f \in Files, Mirrors(e, f) PROVE Mirrors(e, f)'
    BY <1>2, <2>1, MirrorsKept, SameWork
  <2> QED
    BY <2>1 DEF CInv, MirrorInv
<1>6. FreshInv'
  BY DEF CInv, FreshInv
<1> QED
  BY <1>2, <1>4, <1>5, <1>6 DEF CInv

(* A directory that was not monitored has neither jobs nor events, and an  *)
(* empty target.                                                           *)
LEMMA AddMirrors ==
  ASSUME TInv, CInv, WatchInv, pc # "dispatch", pc' = pc, NEW d \in Dirs, ~mon[d].known, AddWatch(d), Monitor(d),
         queue' \in Enqueue(queue, FullJob(d, FALSE)), UNCHANGED <<src, tar, gone, events, slotJob, worker>>
  PROVE  CInv'
<1>0. /\ mon \in [Dirs -> Entries] /\ watch \in [Dirs -> Nat] /\ nextWd \in Nat \ {0} /\ events \in Seq(Events)
      /\ queue.nodes \in Seq(Jobs)
  BY DEF TInv, QInv, Queues, WatchInv
<1>1. watch[d] = 0 /\ watch' = [watch EXCEPT ![d] = nextWd] /\ nextWd' = nextWd + 1 /\ watch'[d] = nextWd
  BY <1>0 DEF AddWatch, CInv, OwnersInv
<1>2. /\ mon'[d].known /\ mon'[d].active /\ mon'[d].wd = nextWd
      /\ \A e \in Dirs : e # d => mon'[e] = mon[e] /\ watch'[e] = watch[e]
  BY <1>0, <1>1 DEF Monitor, Entries
<1>3. \A e \in Dirs : mon[e].known => e # d /\ mon'[e] = mon[e] /\ mon[e].wd \in Nat /\ mon[e].wd < nextWd
  BY <1>0, <1>2 DEF CInv, OwnersInv, Entries
<1>4. \A i \in DOMAIN events : \E e \in Dirs : mon[e].known /\ mon[e].wd = events[i].wd
  BY DEF CInv, OwnersInv
<1>5. \A e, x \in Dirs : mon'[e].known /\ mon'[x].known /\ mon'[e].wd = mon'[x].wd => e = x
  <2>1. \A e \in Dirs : e # d /\ mon'[e].known => mon[e].known /\ mon'[e].wd = mon[e].wd /\ mon'[e].wd # nextWd
    BY <1>0, <1>2, <1>3
  <2>2. \A e, x \in Dirs : mon[e].known /\ mon[x].known /\ mon[e].wd = mon[x].wd => e = x
    BY DEF CInv, OwnersInv
  <2> QED
    BY <1>2, <2>1, <2>2
<1>6. Announced(Owner', events) = Announced(Owner, events)
  <2>1. ASSUME NEW i \in DOMAIN events PROVE Owner'[events[i].wd] = Owner[events[i].wd]
    <3>1. PICK e \in Dirs : mon[e].known /\ mon[e].wd = events[i].wd
      BY <1>4
    <3>2. Owner[events[i].wd] = e
      BY <3>1, OwnerIs DEF CInv
    <3>3. {x \in Dirs : mon'[x].known /\ mon'[x].wd = events[i].wd} = {e}
      BY <1>3, <1>5, <3>1
    <3>4. events[i].wd \in Nat
      BY <1>3, <3>1
    <3>5. Owner'[events[i].wd] = CHOOSE x \in {x \in Dirs : mon'[x].known /\ mon'[x].wd = events[i].wd} : TRUE
      BY <3>4 DEF Owner, Owners
    <3> QED
      BY <3>2, <3>3, <3>5
  <2> QED
    BY <2>1 DEF Announced, Meant
<1>7. /\ Whole(queue') /\ OrderInv' /\ queue'.nodes = Append(queue.nodes, FullJob(d, FALSE))
      /\ \A e \in Dirs, f \in Files : /\ Erased(Chain', e, f) <=> Erased(Chain, e, f)
                                      /\ Settled(Chain, e, f) => Settled(Chain', e, f)
      /\ \A f \in Files : ~Erased(Announced(Owner, events), d, f) => Settled(Chain', d, f)
  BY <1>6, FullAppended
<1>8. FullJob(d, FALSE) \in Jobs /\ FullJob(d, FALSE).dir = d
  BY JobTypes DEF FullJob
<1>9. OwnersInv'
  <2>1. \A e \in Dirs : /\ mon'[e].known = mon'[e].active
                        /\ mon'[e].known => mon'[e].wd < nextWd' /\ (e \notin gone' => watch'[e] = mon'[e].wd /\ mon'[e].wd # 0)
                        /\ ~mon'[e].known => watch'[e] = 0
    <3> TAKE e \in Dirs
    <3>1. CASE e = d
      <4>1. nextWd < nextWd + 1 /\ nextWd # 0
        BY <1>0
      <4> QED
        BY <1>1, <1>2, <3>1, <4>1
    <3>2. CASE e # d
      <4>1. /\ mon[e].known = mon[e].active
            /\ mon[e].known => mon[e].wd < nextWd /\ (e \notin gone => watch[e] = mon[e].wd /\ mon[e].wd # 0)
            /\ ~mon[e].known => watch[e] = 0
        BY DEF CInv, OwnersInv
      <4>2. mon[e].known => mon[e].wd < nextWd + 1
        BY <1>0, <1>3
      <4> QED
        BY <1>1, <1>2, <3>2, <4>1, <4>2
    <3> QED
      BY <3>1, <3>2
  <2>2. \A i \in DOMAIN events' : \E e \in Dirs : mon'[e].known /\ mon'[e].wd = events'[i].wd
    BY <1>3, <1>4
  <2>3. \A i \in DOMAIN queue'.nodes : mon'[queue'.nodes[i].dir].known
    <3>1. \A i \in DOMAIN queue.nodes : mon[queue.nodes[i].dir].known
      BY DEF CInv, OwnersInv
    <3>2. \A i \in DOMAIN queue'.nodes : (i \in DOMAIN queue.nodes /\ queue'.nodes[i] = queue.nodes[i]) \/ queue'.nodes[i] = FullJob(d, FALSE)
      BY <1>0, <1>7, <1>8, AppendedOne
    <3> QED
      BY <1>2, <1>3, <1>8, <3>1, <3>2, QueuedDirs
  <2>4. \A s \in Busy' : mon'[slotJob'[s].dir].known
    <3>1. Busy' = Busy /\ \A s \in Busy : mon[slotJob[s].dir].known
      BY DEF CInv, OwnersInv, Busy
    <3> QED
      BY <1>3, <3>1, BusyTypes
  <2> QED
    BY <1>5, <2>1, <2>2, <2>3, <2>4 DEF OwnersInv
<1>10. ASSUME NEW f \in Files PROVE Mirrors(d, f)'
  <2>1. ~Erased(Announced(Owner, events), d, f)
    <3>1. PICK a \in Seq(Jobs) : a = Announced(Owner, events) /\ Len(a) = Len(events)
      BY AnnouncedTyped DEF CInv
    <3>2. \A i \in 1 .. Len(events) : mon[a[i].dir].known
      BY <1>0, <1>4, <3>1, AnnouncedIs DEF CInv
    <3>3. \A i \in DOMAIN a : mon[a[i].dir].known
      BY <3>1, <3>2
    <3> QED
      BY <3>1, <3>3 DEF Erased, Deletes
  <2>2. Settled(Chain', d, f)
    BY <1>7, <2>1
  <2>3. tar'[d][f] \in {0, Old}
    BY DEF CInv, MirrorInv
  <2> QED
    BY <2>2, <2>3 DEF Mirrors
<1>11. MirrorInv'
  <2>1. ASSUME NEW e \in Dirs, NEW f \in Files, Mirrors(e, f) PROVE Mirrors(e, f)'
    BY <1>7, <2>1, MirrorsKept, SameWork
  <2>2. ASSUME NEW e \in Dirs, NEW f \in Files PROVE IF mon'[e].known THEN Mirrors(e, f)' ELSE tar'[e][f] \in {0, Old}
    BY <1>2, <1>10, <2>1 DEF CInv, MirrorInv
  <2> QED
    BY <2>2 DEF MirrorInv
<1>12. FreshInv'
  BY DEF CInv, FreshInv
<1> QED
  BY <1>7, <1>9, <1>11, <1>12 DEF CInv

LEMMA CommandMirrors ==
  ASSUME TInv, CInv, WatchInv, ReplyInv, NoCancel, NEW d \in Dirs,
         Add(d) \/ Status(d) \/ Cancel(d) \/ Sync(d) \/ Shutdown(d)
  PROVE  CInv'
<1>1. PICK name : Commanded(name, d)
  BY DEF Add, Status, Cancel, Sync, Shutdown
<1>2. pc # "dispatch" /\ pc' = pc /\ UNCHANGED <<src, tar, gone, events, slotJob, worker, left>>
  BY <1>1 DEF Commanded, Scans, disk, workers
<1>3. ~Cancel(d)
  <2> SUFFICES ASSUME Cancel(d) PROVE FALSE
    OBVIOUS
  <2>1. Commanded("cancel", d)
    BY DEF Cancel
  <2>2. [name |-> "cancel", dir |-> d] \in Commands
    BY <2>1, Asked
  <2> QED
    BY <2>2 DEF NoCancel
<1>4. mon[d].known = mon[d].active
  BY DEF CInv, OwnersInv
<1>5. CASE UNCHANGED <<watch, nextWd, queue, mon>>
  <2>1. Cut' = Cut /\ OrderInv'
    BY <1>2, <1>5 DEF Cut, OrderInv
  <2> QED
    BY <1>2, <1>5, <2>1, CalmKeeps
<1>6. CASE Status(d) \/ Shutdown(d)
  <2>1. UNCHANGED <<watch, nextWd, queue, mon>>
    BY <1>6 DEF Status, Shutdown, Untouched
  <2> QED
    BY <1>5, <2>1
<1>7. CASE Add(d)
  <2>1. \/ UNCHANGED <<watch, nextWd, queue, mon>>
        \/ ~mon[d].active /\ AddWatch(d) /\ Monitor(d) /\ queue' \in Enqueue(queue, FullJob(d, FALSE))
    BY <1>7 DEF Add, Untouched
  <2> QED
    BY <1>2, <1>4, <1>5, <2>1, AddMirrors
<1>8. CASE Sync(d)
  <2>1. \/ UNCHANGED <<watch, nextWd, queue, mon>>
        \/ mon[d].known /\ queue' \in Enqueue(queue, FullJob(d, TRUE)) /\ UNCHANGED <<watch, nextWd, mon>>
    BY <1>4, <1>8 DEF Sync, Untouched
  <2> QED
    BY <1>2, <1>5, <2>1, SyncMirrors
<1> QED
  BY <1>3, <1>6, <1>7, <1>8
-----------------------------------------------------------------------------
(* The environment.  Only the worker of its job copies a file.             *)
LEMMA CopyMirrors ==
  ASSUME TInv, ExclusiveInv, PoolInv, DiskInv, CInv, NEW s \in Indices, NEW g \in Files, CopyFile(s, g)
  PROVE  CInv'
<1>00. PICK job : job = slotJob[s]
  OBVIOUS
<1>0. /\ slotJob \in [Indices -> Jobs \cup {NoJob}] /\ worker \in [Indices -> Processes] /\ tar \in Contents
      /\ Busy = {t \in Indices : slotJob[t] # NoJob}
  BY BusyTypes DEF TInv, DiskInv
<1>1. /\ worker[s].pc = "run" /\ g \in worker[s].todo
      /\ worker' = [worker EXCEPT ![s].todo = @ \ {g}]
      /\ UNCHANGED <<src, gone, watch, nextWd, events, queue, left, mon, slotJob, pc, active>>
  BY DEF CopyFile, kernel
<1>2. s \in Busy /\ job.dir \in Dirs
  BY <1>00, <1>0, <1>1, BusyTypes DEF PoolInv, WorkingConsistent
<1>3. \A t \in Busy : t # s => slotJob[t].dir # job.dir
  BY <1>00, <1>2 DEF ExclusiveInv, Exclusive
<1>4. /\ worker'[s].todo = worker[s].todo \ {g} /\ worker'[s].pc = "run"
      /\ \A t \in Indices : t # s => worker'[t] = worker[t]
  <2>1. worker'[s] = [worker[s] EXCEPT !.todo = @ \ {g}] /\ \A t \in Indices : t # s => worker'[t] = worker[t]
    BY <1>0, <1>1
  <2> QED
    BY <1>0, <1>1, <2>1 DEF Processes
<1>5. Busy' = Busy
  BY <1>1 DEF Busy
<1>6. tar' = IF job.op = "DELETED" THEN [tar EXCEPT ![job.dir][g] = 0]
             ELSE IF src[job.dir][g] # 0 THEN [tar EXCEPT ![job.dir][g] = src[job.dir][g]] ELSE tar
  BY <1>00 DEF CopyFile
<1>7. ASSUME NEW d \in Dirs, NEW f \in Files, d # job.dir \/ f # g
      PROVE  tar'[d][f] = tar[d][f] /\ (Erasing(d, f)' <=> Erasing(d, f)) /\ (Copying(d, f)' <=> Copying(d, f))
  <2>1. tar'[d][f] = tar[d][f]
    BY <1>0, <1>2, <1>6, <1>7 DEF Contents
  <2>2. \A t \in Busy : slotJob'[t] = slotJob[t] /\ (slotJob[t].dir = d => (f \in worker'[t].todo <=> f \in worker[t].todo))
    BY <1>00, <1>0, <1>1, <1>3, <1>4, <1>7
  <2>3. Erasing(d, f)' <=> Erasing(d, f)
    BY <1>5, <2>2 DEF Erasing
  <2>4. Copying(d, f)' <=> Copying(d, f)
    BY <1>5, <2>2 DEF Copying
  <2> QED
    BY <2>1, <2>3, <2>4
<1>8. /\ ~Erasing(job.dir, g)' /\ ~Copying(job.dir, g)'
      /\ Erasing(job.dir, g) <=> job.op = "DELETED"
      /\ Copying(job.dir, g) <=> job.op # "DELETED"
  <2>1. \A t \in Busy' : slotJob'[t].dir = job.dir => t = s
    BY <1>1, <1>3, <1>5
  <2>2. g \notin worker'[s].todo
    BY <1>4
  <2>3. ~Erasing(job.dir, g)' /\ ~Copying(job.dir, g)'
    BY <1>1, <2>1, <2>2 DEF Erasing, Copying
  <2>4. Erasing(job.dir, g) <=> job.op = "DELETED"
    BY <1>00, <1>1, <1>2, <1>3 DEF Erasing
  <2>5. Copying(job.dir, g) <=> job.op # "DELETED"
    BY <1>00, <1>1, <1>2, <1>3 DEF Copying
  <2> QED
    BY <2>3, <2>4, <2>5
<1>9. tar'[job.dir][g] = IF job.op = "DELETED" THEN 0 ELSE IF src[job.dir][g] # 0 THEN src[job.dir][g] ELSE tar[job.dir][g]
  <2>1. CASE job.op = "DELETED"
    <3>1. tar' = [tar EXCEPT ![job.dir][g] = 0]
      BY <1>6, <2>1
    <3>2. tar'[job.dir][g] = 0
      BY <1>0, <1>2, <3>1 DEF Contents
    <3> QED
      BY <2>1, <3>2
  <2>2. CASE job.op # "DELETED" /\ src[job.dir][g] # 0
    BY <1>0, <1>2, <1>6, <2>2 DEF Contents
  <2>3. CASE job.op # "DELETED" /\ src[job.dir][g] = 0
    BY <1>6, <2>3
  <2> QED
    BY <2>1, <2>2, <2>3
<1>10. Chain' = Chain /\ OrderInv'
  <2>1. Owner' = Owner /\ Cut' = Cut
    BY <1>1, OwnerSame DEF Cut
  <2>2. Chain' = Chain
    BY <1>1, <2>1 DEF Chain
  <2>3. OrderInv'
    BY <1>1 DEF CInv, OrderInv, Available
  <2> QED
    BY <2>2, <2>3
<1>11. ASSUME NEW d \in Dirs, NEW f \in Files, Mirrors(d, f) PROVE Mirrors(d, f)'
  <2>1. CASE d # job.dir \/ f # g
    BY <1>1, <1>7, <1>10, <1>11, <2>1, MirrorsKept
  <2>2. CASE d = job.dir /\ f = g
    BY <1>1, <1>8, <1>9, <1>10, <1>11, <2>2 DEF Mirrors
  <2> QED
    BY <2>1, <2>2
<1>12. MirrorInv'
  <2>1. mon[job.dir].known
    BY <1>00, <1>2 DEF CInv, OwnersInv
  <2>2. ASSUME NEW d \in Dirs, NEW f \in Files PROVE IF mon'[d].known THEN Mirrors(d, f)' ELSE tar'[d][f] \in {0, Old}
    BY <1>1, <1>7, <1>11, <2>1 DEF CInv, MirrorInv
  <2> QED
    BY <2>2 DEF MirrorInv
<1>13. FreshInv'
  BY <1>4 DEF CInv, FreshInv
<1>14. OwnersInv'
  <2>1. (\A i \in DOMAIN queue.nodes : mon[queue.nodes[i].dir].known) /\ (\A t \in Busy : mon[slotJob[t].dir].known)
    BY DEF CInv, OwnersInv
  <2> QED
    BY <1>1, <1>5, <2>1, OwnersKept DEF CInv
<1> QED
  BY <1>1, <1>10, <1>12, <1>13, <1>14 DEF CInv, Whole

LEMMA ReportedMirrors ==
  ASSUME TInv, CInv, NEW s \in Indices, Report(s)
  PROVE  CInv'
<1>0. worker \in [Indices -> Processes] /\ slotJob \in [Indices -> Jobs \cup {NoJob}]
  BY DEF TInv
<1>1. /\ worker[s].todo = {} /\ worker' = [worker EXCEPT ![s].pc = "reported"]
      /\ UNCHANGED <<src, tar, gone, watch, nextWd, events, queue, left, mon, slotJob, pc, active>>
  BY DEF Report, kernel, disk
<1>2. \A t \in Indices : worker'[t].todo = worker[t].todo /\ (t # s => worker'[t] = worker[t])
  BY <1>0, <1>1 DEF Processes
<1>3. Busy' = Busy /\ Busy \subseteq Indices
  BY <1>1, BusyTypes DEF Busy
<1>4. Chain' = Chain /\ OrderInv'
  <2>1. Owner' = Owner /\ Cut' = Cut
    BY <1>1, OwnerSame DEF Cut
  <2>2. Chain' = Chain
    BY <1>1, <2>1 DEF Chain
  <2>3. OrderInv'
    BY <1>1 DEF CInv, OrderInv, Available
  <2> QED
    BY <2>2, <2>3
<1>5. ASSUME NEW d \in Dirs, NEW f \in Files, Mirrors(d, f) PROVE Mirrors(d, f)'
  <2>1. (Erasing(d, f)' <=> Erasing(d, f)) /\ (Copying(d, f)' <=> Copying(d, f))
    BY <1>1, <1>2, <1>3 DEF Erasing, Copying
  <2> QED
    BY <1>1, <1>4, <1>5, <2>1, MirrorsKept
<1>6. MirrorInv'
  BY <1>1, <1>5 DEF CInv, MirrorInv
<1>7. FreshInv'
  BY <1>1, <1>2 DEF CInv, FreshInv
<1>8. OwnersInv'
  <2>1. (\A i \in DOMAIN queue.nodes : mon[queue.nodes[i].dir].known) /\ (\A t \in Busy : mon[slotJob[t].dir].known)
    BY DEF CInv, OwnersInv
  <2> QED
    BY <1>1, <1>3, <2>1, OwnersKept DEF CInv
<1> QED
  BY <1>1, <1>4, <1>6, <1>7, <1>8 DEF CInv, Whole

LEMMA AppendJoined ==
  ASSUME NEW s \in Seq(Jobs), NEW a \in Seq(Jobs), NEW job \in Jobs
  PROVE  s \o Append(a, job) = Append(s \o a, job)
<1>1. \A x \in Seq(Jobs) : Append(x, job) = x \o <<job>>
  OBVIOUS
<1>2. <<job>> \in Seq(Jobs) /\ s \o a \in Seq(Jobs)
  OBVIOUS
<1> QED
  BY <1>1, <1>2, ThreeJoined

LEMMA AnnouncedLast ==
  ASSUME TInv, OwnersInv, NEW e \in Events, \E d \in Dirs : mon[d].known /\ mon[d].wd = e.wd
  PROVE  Announced(Owner, Append(events, e)) = Append(Announced(Owner, events), Meant(Owner, e))
<1> DEFINE a == Announced(Owner, events)
           x == Announced(Owner, Append(events, e))
           j == Meant(Owner, e)
           n == Len(events)
<1>1. events \in Seq(Events) /\ n \in Nat /\ DOMAIN events = 1 .. n /\ Append(events, e) \in Seq(Events)
  BY DEF TInv, QInv
<1>2. /\ DOMAIN Append(events, e) = 1 .. n + 1 /\ Append(events, e)[n + 1] = e
      /\ \A i \in 1 .. n : Append(events, e)[i] = events[i]
  BY <1>1
<1>3. j \in Jobs
  BY EventOwned
<1>4. a \in Seq(Jobs) /\ Len(a) = n /\ \A i \in 1 .. n : a[i] = Meant(Owner, events[i])
  <2>1. \A i \in DOMAIN events : \E d \in Dirs : mon[d].known /\ mon[d].wd = events[i].wd
    BY DEF OwnersInv
  <2> QED
    BY <1>1, <2>1, AnnouncedIs
<1>5. x = [i \in 1 .. n + 1 |-> Meant(Owner, Append(events, e)[i])]
  BY <1>2 DEF Announced
<1>6. x \in Seq(Jobs) /\ Len(x) = n + 1
  <2>1. \A i \in 1 .. n + 1 : i = n + 1 \/ i \in 1 .. n
    BY <1>1
  <2>2. \A i \in 1 .. n : Meant(Owner, events[i]) \in Jobs
    BY <1>1, <1>4
  <2>3. \A i \in 1 .. n + 1 : Meant(Owner, Append(events, e)[i]) \in Jobs
    BY <1>2, <1>3, <2>1, <2>2
  <2> HIDE DEF x
  <2> QED
    BY <1>1, <1>5, <2>3
<1>7. x[n + 1] = j /\ \A i \in 1 .. n : x[i] = a[i]
  <2>1. n + 1 \in 1 .. n + 1 /\ \A i \in 1 .. n : i \in 1 .. n + 1
    BY <1>1
  <2> HIDE DEF x
  <2> QED
    BY <1>2, <1>4, <1>5, <2>1
<1> HIDE DEF a, x, j
<1>8. x = Append(a, j)
  <2>1. Append(a, j) \in Seq(Jobs) /\ Len(Append(a, j)) = n + 1
    BY <1>3, <1>4, AppendedIs
  <2>2. \A i \in 1 .. n + 1 : x[i] = Append(a, j)[i]
    <3> TAKE i \in 1 .. n + 1
    <3>1. i = n + 1 \/ i \in 1 .. n
      BY <1>1
    <3> QED
      BY <1>3, <1>4, <1>7, <3>1, AppendedIs
  <2> QED
    BY <1>6, <2>1, <2>2, SeqEqual
<1> QED
  BY <1>8 DEF a, x, j

(* A change is announced by the last event, and so is the last of the      *)
(* chain, whether the event was merged or not.                             *)
LEMMA ChangeMirrors ==
  ASSUME TInv, DiskInv, CInv, left \in Nat, NEW d \in Dirs, NEW g \in Files, NEW kind \in Kinds, ChangeFile(d, g, kind)
  PROVE  CInv'
<1>0. src \in [Dirs -> [Files -> 0 .. MaxChanges]] /\ changes \in Nat /\ watch \in [Dirs -> Nat] /\ mon \in [Dirs -> Entries] /\ events \in Seq(Events)
  BY DEF TInv, QInv, DiskInv
<1>1. /\ d \notin gone /\ changes' = changes + 1
      /\ src' = [src EXCEPT ![d][g] = IF kind = "DELETED" THEN 0 ELSE changes']
      /\ UNCHANGED <<tar, gone, watch, nextWd, queue, left, mon, slotJob, worker, pc, active>>
  BY DEF ChangeFile, workers
<1>2. /\ src'[d][g] = (IF kind = "DELETED" THEN 0 ELSE changes') /\ changes' # 0
      /\ \A x \in Dirs, f \in Files : x # d \/ f # g => src'[x][f] = src[x][f]
  <2>1. changes' # 0
    BY <1>0, <1>1
  <2>2. src'[d][g] = (IF kind = "DELETED" THEN 0 ELSE changes')
    BY <1>0, <1>1
  <2>3. \A x \in Dirs, f \in Files : x # d \/ f # g => src'[x][f] = src[x][f]
    BY <1>0, <1>1
  <2> QED
    BY <2>1, <2>2, <2>3
<1>3. Owner' = Owner /\ Cut' = Cut /\ OrderInv'
  <2>1. Owner' = Owner /\ Cut' = Cut
    BY <1>1, OwnerSame DEF Cut
  <2>2. OrderInv'
    BY <1>1 DEF CInv, OrderInv, Available
  <2> QED
    BY <2>1, <2>2
<1>4. Whole(queue') /\ FreshInv'
  BY <1>1 DEF CInv, Whole, FreshInv
<1>5. CASE ~mon[d].known
  <2>1. watch[d] = 0
    BY <1>5 DEF CInv, OwnersInv
  <2>2. events' = events
    BY <2>1 DEF ChangeFile, Emit
  <2>3. Chain' = Chain
    BY <1>1, <1>3, <2>2 DEF Chain
  <2>4. ASSUME NEW x \in Dirs, NEW f \in Files, x # d, Mirrors(x, f) PROVE Mirrors(x, f)'
    BY <1>1, <1>2, <2>3, <2>4, MirrorsKept, SameWork
  <2>5. ASSUME NEW x \in Dirs, NEW f \in Files PROVE IF mon'[x].known THEN Mirrors(x, f)' ELSE tar'[x][f] \in {0, Old}
    BY <1>1, <1>5, <2>4 DEF CInv, MirrorInv
  <2>6. MirrorInv'
    BY <2>5 DEF MirrorInv
  <2>7. OwnersInv'
    BY <1>1, <2>2 DEF CInv, OwnersInv, Busy
  <2> QED
    BY <1>3, <1>4, <2>6, <2>7 DEF CInv
<1>6. CASE mon[d].known
  <2> DEFINE e == [wd |-> watch[d], op |-> kind, file |-> g]
             r == Rotated(queue.nodes, Cut)
             a == Announced(Owner, events)
  <2>1. watch[d] = mon[d].wd /\ watch[d] # 0 /\ mon[d].wd \in Nat /\ Owner[watch[d]] = d
    BY <1>1, <1>6, OwnerIs DEF CInv, OwnersInv
  <2>2. e \in Events /\ e.wd = mon[d].wd
    BY <2>1 DEF Events
  <2>3. (events' = events /\ events # <<>> /\ events[Len(events)] = e) \/ events' = Append(events, e)
    BY <2>1 DEF ChangeFile, Emit, Last
  <2>4. PICK j \in Jobs : j = Meant(Owner, e) /\ j.dir = d /\ j.file = g /\ j.op = kind
    <3>1. Meant(Owner, e) \in Jobs
      BY <1>6, <2>2, EventOwned DEF CInv
    <3>2. Meant(Owner, e) = [dir |-> d, file |-> g, op |-> kind, sync |-> FALSE]
      BY <2>1 DEF Meant
    <3> QED
      BY <3>1, <3>2
  <2>5. r \in Seq(Jobs) /\ a \in Seq(Jobs) /\ Len(a) = Len(events) /\ Chain = r \o a
    <3>1. queue.nodes \in Seq(Jobs)
      BY DEF TInv, QInv, Queues
    <3>2. r \in Seq(Jobs)
      BY <3>1, CutTyped, RotatedJobs DEF CInv
    <3>3. a \in Seq(Jobs) /\ Len(a) = Len(events)
      BY AnnouncedTyped DEF CInv
    <3> QED
      BY <3>2, <3>3 DEF Chain
  <2>6. ASSUME events' = events, events # <<>>, events[Len(events)] = e
        PROVE  Chain' = Chain /\ Chain # <<>> /\ Chain[Len(Chain)] = j
    <3>1. Chain' = Chain
      BY <1>1, <1>3, <2>6 DEF Chain
    <3>2. Len(events) \in 1 .. Len(events) /\ Len(events) \in DOMAIN events
      BY <1>0, <2>6
    <3>3. a[Len(a)] = j
      BY <2>4, <2>5, <2>6, <3>2 DEF Announced
    <3> HIDE DEF a, r
    <3>4. Len(a) \in Nat \ {0}
      BY <2>5, <3>2
    <3>5. Chain \in Seq(Jobs) /\ Chain # <<>> /\ Chain[Len(Chain)] = j
      BY <2>5, <3>3, <3>4
    <3> QED
      BY <3>1, <3>5
  <2>7. ASSUME events' = Append(events, e) PROVE Chain' = Append(Chain, j)
    <3>1. Chain' = r \o Announced(Owner, Append(events, e))
      BY <1>1, <1>3, <2>7 DEF Chain
    <3>2. Announced(Owner, Append(events, e)) = Append(a, j)
      BY <1>6, <2>2, <2>4, AnnouncedLast DEF CInv
    <3> HIDE DEF a, r
    <3>3. Chain' = Append(Chain, j)
      BY <2>5, <3>1, <3>2, AppendJoined
    <3>4. Chain \in Seq(Jobs)
      BY <2>5
    <3> QED
      BY <3>3, <3>4
  <2> HIDE DEF a, r, e
  <2>8. (Chain' = Chain /\ Chain # <<>> /\ Chain[Len(Chain)] = j) \/ Chain' = Append(Chain, j)
    BY <2>3, <2>6, <2>7
  <2>9. Chain \in Seq(Jobs)
    BY <2>5
  <2>10. PICK c : c = Chain'
    OBVIOUS
  <2>11. c \in Seq(Jobs) /\ c # <<>> /\ c[Len(c)] = j
    BY <2>8, <2>9, <2>10
  <2>12. Mirrors(d, g)'
    <3>1. CASE kind = "DELETED"
      <4>1. Erased(c, d, g)
        BY <2>4, <2>11, <3>1, ChainLast DEF Deletes
      <4> QED
        BY <1>2, <2>10, <3>1, <4>1 DEF Mirrors
    <3>2. CASE kind # "DELETED"
      <4>1. Settled(c, d, g)
        BY <2>4, <2>11, <3>2, ChainLast DEF Deletes, Copies
      <4> QED
        BY <1>2, <2>10, <3>2, <4>1 DEF Mirrors
    <3> QED
      BY <3>1, <3>2
  <2>13. ASSUME NEW x \in Dirs, NEW f \in Files, x # d \/ f # g, Mirrors(x, f) PROVE Mirrors(x, f)'
    <3>1. ~Deletes(j, x, f)
      BY <2>4, <2>13 DEF Deletes
    <3>2. PICK b \in Seq(Jobs) : b = Chain
      BY <2>9
    <3>3. (Erased(c, x, f) <=> Erased(b, x, f)) /\ (Settled(b, x, f) => Settled(c, x, f))
      <4>1. CASE c = b
        BY <4>1
      <4>2. CASE c = Append(b, j)
        <5>1. <<>> \in Seq(Jobs) /\ b \o <<>> = b /\ Append(b, j) \o <<>> = Append(b, j)
          OBVIOUS
        <5>2. /\ Erased(Append(b, j) \o <<>>, x, f) <=> Erased(b \o <<>>, x, f)
              /\ Settled(b \o <<>>, x, f) => Settled(Append(b, j) \o <<>>, x, f)
          BY <3>1, <5>1, ChainJoined
        <5> QED
          BY <4>2, <5>1, <5>2
      <4> QED
        BY <2>8, <2>10, <3>2, <4>1, <4>2
    <3> QED
      BY <1>1, <1>2, <2>10, <2>13, <3>2, <3>3, MirrorsKept, SameWork
  <2>14. MirrorInv'
    <3>1. ASSUME NEW x \in Dirs, NEW f \in Files PROVE IF mon'[x].known THEN Mirrors(x, f)' ELSE tar'[x][f] \in {0, Old}
      BY <1>1, <1>6, <2>12, <2>13 DEF CInv, MirrorInv
    <3> QED
      BY <3>1 DEF MirrorInv
  <2>15. OwnersInv'
    <3>1. \A i \in DOMAIN events : \E x \in Dirs : mon[x].known /\ mon[x].wd = events[i].wd
      BY DEF CInv, OwnersInv
    <3>2. \A i \in DOMAIN events' : (i \in DOMAIN events /\ events'[i] = events[i]) \/ events'[i] = e
      <4>1. events \in Seq(Events)
        BY <1>0
      <4>2. CASE events' = events
        BY <4>2
      <4>3. CASE events' = Append(events, e)
        BY <4>1, <4>3, <2>2
      <4> QED
        BY <2>3, <4>2, <4>3
    <3>3. \A i \in DOMAIN events' : \E x \in Dirs : mon[x].known /\ mon[x].wd = events'[i].wd
      BY <1>6, <2>2, <3>1, <3>2
    <3> QED
      BY <1>1, <3>3 DEF CInv, OwnersInv, Busy
  <2> QED
    BY <1>3, <1>4, <2>14, <2>15 DEF CInv
<1> QED
  BY <1>5, <1>6

(* A removed source has no events any more, and keeps its entry.           *)
LEMMA RemovalMirrors ==
  ASSUME TInv, CInv, NEW d \in Dirs, RemoveSource(d)
  PROVE  CInv'
<1>0. watch \in [Dirs -> Nat]
  BY DEF TInv, QInv
<1>1. /\ gone' = gone \cup {d} /\ watch' = [watch EXCEPT ![d] = 0]
      /\ UNCHANGED <<src, tar, nextWd, events, queue, left, mon, slotJob, worker, pc, active>>
  BY DEF RemoveSource, workers
<1>2. \A x \in Dirs : watch'[x] = IF x = d THEN 0 ELSE watch[x]
  BY <1>0, <1>1
<1>3. Owner' = Owner /\ Cut' = Cut
  BY <1>1, OwnerSame DEF Cut
<1>4. Chain' = Chain
  BY <1>1, <1>3 DEF Chain
<1>5. MirrorInv'
  <2>1. ASSUME NEW x \in Dirs, NEW f \in Files, Mirrors(x, f) PROVE Mirrors(x, f)'
    BY <1>1, <1>4, <2>1, MirrorsKept, SameWork
  <2> QED
    BY <1>1, <2>1 DEF CInv, MirrorInv
<1>6. OwnersInv'
  <2>1. \A x \in Dirs : /\ mon[x].known = mon[x].active
                        /\ mon[x].known => mon[x].wd < nextWd /\ (x \notin gone' => watch'[x] = mon[x].wd /\ mon[x].wd # 0)
                        /\ ~mon[x].known => watch'[x] = 0
    BY <1>1, <1>2 DEF CInv, OwnersInv
  <2> QED
    BY <1>1, <2>1 DEF CInv, OwnersInv, Busy
<1>7. OrderInv' /\ FreshInv' /\ Whole(queue')
  BY <1>1 DEF CInv, OrderInv, FreshInv, Available, Whole
<1> QED
  BY <1>5, <1>6, <1>7 DEF CInv
-----------------------------------------------------------------------------
(* Only a worker that has reported is ready; it stays so until it is read. *)
ReadyInv == \A s \in ready \cap Slots : worker[s].pc = "reported"

LEMMA ReadyKept ==
  ASSUME TInv, ScanInv, ReadyInv, [Next]_vars
  PROVE  ReadyInv'
<1>0. worker \in [Indices -> Processes] /\ Slots \subseteq Indices
  BY DEF TInv, Indices
<1>1. ASSUME UNCHANGED worker, ready' \subseteq ready PROVE ReadyInv'
  BY <1>1 DEF ReadyInv
<1>2. ASSUME ready' = {} PROVE ReadyInv'
  BY <1>2 DEF ReadyInv
<1>3. CASE Environment
  <2>1. ready' = ready
    BY <1>3, EnvironmentKeeps
  <2>2. UNCHANGED worker \/ \E t \in Indices : worker[t].pc = "run" /\ \E p : worker' = [worker EXCEPT ![t] = p]
    <3>1. ASSUME NEW t \in Indices, NEW f \in Files, CopyFile(t, f)
          PROVE  worker[t].pc = "run" /\ \E p : worker' = [worker EXCEPT ![t] = p]
      <4>1. worker' = [worker EXCEPT ![t] = [worker[t] EXCEPT !.todo = @ \ {f}]]
        BY <1>0, <3>1 DEF CopyFile
      <4> QED
        BY <3>1, <4>1 DEF CopyFile
    <3>2. ASSUME NEW t \in Indices, Report(t)
          PROVE  worker[t].pc = "run" /\ \E p : worker' = [worker EXCEPT ![t] = p]
      <4>1. worker' = [worker EXCEPT ![t] = [worker[t] EXCEPT !.pc = "reported"]]
        BY <1>0, <3>2 DEF Report
      <4> QED
        BY <3>2, <4>1 DEF Report
    <3>3. ASSUME NEW t \in Indices, KillWorker(t)
          PROVE  worker[t].pc = "run" /\ \E p : worker' = [worker EXCEPT ![t] = p]
      BY <3>3 DEF KillWorker
    <3>4. (\E d \in Dirs, f \in Files, kind \in Kinds : ChangeFile(d, f, kind)) \/ (\E d \in Dirs : RemoveSource(d))
            \/ (\E c \in Commands : Type(c)) \/ ConsoleReads \/ Over \/ UNCHANGED vars => UNCHANGED worker
      BY DEF ChangeFile, RemoveSource, Type, ConsoleReads, Over, vars, workers
    <3> QED
      BY <1>3, <3>1, <3>2, <3>3, <3>4 DEF Environment, WorkerStep
  <2>3. \A s \in Indices : worker[s].pc = "reported" => worker'[s] = worker[s]
    BY <1>0, <2>2
  <2> QED
    BY <1>0, <2>1, <2>3 DEF ReadyInv
<1>4. CASE TakeNothing \/ PutBack \/ StartWorker \/ EndDispatch \/ SetupFails
  <2>1. ready = {} /\ ready' = ready
    BY <1>4 DEF ScanInv, TakeNothing, PutBack, StartWorker, EndDispatch, SetupFails, Taking, Dispatching
  <2> QED
    BY <1>2, <2>1
<1>5. CASE Poll
  <2>1. ready' = ReadyNow /\ UNCHANGED worker
    BY <1>5 DEF Poll, workers
  <2>2. \A s \in ReadyNow \cap Slots : worker[s].pc = "reported"
    BY IndexTypes DEF ReadyNow, Reporting
  <2> QED
    BY <2>1, <2>2 DEF ReadyInv
<1>6. CASE IgnoreInput \/ HandleInotify
  BY <1>1, <1>6 DEF IgnoreInput, HandleInotify, Scans, workers
<1>7. CASE EndScan
  BY <1>2, <1>7 DEF EndScan
<1>8. ASSUME NEW d \in Dirs, Add(d) \/ Status(d) \/ Cancel(d) \/ Sync(d) \/ Shutdown(d) PROVE ReadyInv'
  <2>1. \E name : Commanded(name, d)
    BY <1>8 DEF Add, Status, Cancel, Sync, Shutdown
  <2> QED
    BY <1>1, <2>1 DEF Commanded, Scans, workers
<1>9. ASSUME NEW s \in Slots, HandleReport(s) PROVE ReadyInv'
  <2>1. ready' = ready \ {s} /\ worker' = [worker EXCEPT ![s] = Idle]
    BY <1>9 DEF HandleReport, Scans
  <2> QED
    BY <1>0, <2>1 DEF ReadyInv
<1> QED
  BY StepKinds, <1>3, <1>4, <1>5, <1>6, <1>7, <1>8, <1>9 DEF ManagerStep

LEMMA CalmSteps ==
  ASSUME TInv, CInv, (\E c \in Commands : Type(c)) \/ ConsoleReads \/ Over \/ UNCHANGED vars
  PROVE  CInv'
<1>1. UNCHANGED <<src, tar, gone, watch, nextWd, events, queue, left, mon, slotJob, worker, pc, active>>
  BY DEF Type, ConsoleReads, Over, vars, disk, kernel, workers
<1>2. Cut' = Cut /\ OrderInv'
  BY <1>1 DEF Cut, CInv, OrderInv, Available
<1> QED
  BY <1>1, <1>2, CalmKeeps

LEMMA MirrorKept ==
  ASSUME FInv, DiskInv, ControlInv, WatchInv, ReplyInv, ReadyInv, CInv, NoCancel, OneAtATime,
         [Next]_vars, faults = 0, faults' = 0
  PROVE  CInv'
<1>1. TInv /\ ScanInv /\ ExclusiveInv /\ PoolInv /\ left \in Nat
  BY DEF FInv, ControlInv
<1>2. ~SetupFails /\ \A s \in Indices : ~KillWorker(s)
  BY DEF SetupFails, KillWorker
<1>3. CASE Environment
  BY <1>1, <1>2, <1>3, CopyMirrors, ReportedMirrors, ChangeMirrors, RemovalMirrors, CalmSteps DEF Environment, WorkerStep
<1>4. ASSUME NEW s \in Slots, HandleReport(s) PROVE CInv'
  <2>1. s \in ready
    BY <1>1, <1>4, Ended
  <2> QED
    BY <1>1, <1>4, <2>1, ReportMirrors DEF ReadyInv
<1>5. CASE ManagerStep
  BY <1>1, <1>4, <1>5, DispatchMirrors, PhaseMirrors, InotifyMirrors, CommandMirrors DEF ManagerStep
<1> QED
  BY <1>2, <1>3, <1>5, StepKinds

LEMMA MirrorInit == Init => CInv /\ ReadyInv
<1> SUFFICES ASSUME Init PROVE CInv /\ ReadyInv
  OBVIOUS
<1>0. FInv /\ DiskInv /\ ControlInv /\ TInv
  BY InitHolds, RestInit DEF FInv
<1>1. ConfigDirs \in Seq(Dirs) /\ Len(ConfigDirs) \in Nat /\ DOMAIN ConfigDirs = 1 .. Len(ConfigDirs)
  BY ConfigAssumption
<1>2. /\ tar \in [Dirs -> [Files -> {0, Old}]] /\ gone = {} /\ events = <<>>
      /\ watch = [d \in Dirs |-> WdOf(d)] /\ nextWd = Len(ConfigDirs) + 1 /\ left = Len(ConfigDirs)
      /\ mon = [d \in Dirs |-> [known |-> Configured(d), active |-> Configured(d), wd |-> WdOf(d), working |-> FALSE]]
      /\ queue.nodes = [i \in DOMAIN ConfigDirs |-> FullJob(ConfigDirs[i], FALSE)]
      /\ queue.size = Len(ConfigDirs) /\ queue.tail = (IF ConfigDirs = <<>> THEN "null" ELSE "last")
      /\ pc = "dispatch" /\ ready = {}
  BY DEF Init
<1>3. queue.nodes \in Seq(Jobs) /\ Len(queue.nodes) = Len(ConfigDirs) /\ DOMAIN queue.nodes = 1 .. Len(ConfigDirs)
  <2>1. queue.nodes \in Seq(Jobs)
    BY <1>0 DEF TInv, QInv, Queues
  <2>2. PICK n \in Nat : n = Len(ConfigDirs)
    BY <1>1
  <2>3. PICK q \in Seq(Jobs) : q = queue.nodes
    BY <2>1
  <2>4. DOMAIN q = 1 .. n
    BY <1>1, <1>2, <2>2, <2>3
  <2>5. Len(q) = n
    BY <2>4
  <2> QED
    BY <2>2, <2>3, <2>4, <2>5
<1>4. \A d \in Dirs : Configured(d) => WdOf(d) \in 1 .. Len(ConfigDirs) /\ ConfigDirs[WdOf(d)] = d
  BY <1>1 DEF Configured, WdOf, ToSet
<1>5. \A i \in 1 .. Len(ConfigDirs) : /\ Configured(ConfigDirs[i]) /\ ConfigDirs[i] \in Dirs
                                      /\ queue.nodes[i].dir = ConfigDirs[i] /\ queue.nodes[i].op = "FULL"
  <2> TAKE i \in 1 .. Len(ConfigDirs)
  <2>1. Configured(ConfigDirs[i]) /\ ConfigDirs[i] \in Dirs
    BY <1>1 DEF Configured, ToSet
  <2>2. queue.nodes[i] = FullJob(ConfigDirs[i], FALSE)
    BY <1>1, <1>2
  <2> QED
    BY <2>1, <2>2 DEF FullJob
<1>6. Whole(queue)
  <2>1. queue.nodes = <<>> <=> ConfigDirs = <<>>
    BY <1>1, <1>3, NodesEmpty
  <2> QED
    BY <1>2, <1>3, <2>1 DEF Whole
<1>7. Busy = {} /\ \A s \in Indices : worker[s].todo = {}
  BY DEF Init, Busy, Indices, Idle
<1>8. OwnersInv
  <2>1. \A d \in Dirs : /\ mon[d].known = Configured(d) /\ mon[d].active = Configured(d)
                        /\ mon[d].wd = WdOf(d) /\ watch[d] = WdOf(d)
    BY <1>2
  <2>2. \A d \in Dirs : /\ mon[d].known = mon[d].active
                        /\ mon[d].known => mon[d].wd < nextWd /\ (d \notin gone => watch[d] = mon[d].wd /\ mon[d].wd # 0)
                        /\ ~mon[d].known => watch[d] = 0
    <3> TAKE d \in Dirs
    <3>1. CASE Configured(d)
      <4>1. WdOf(d) < Len(ConfigDirs) + 1 /\ WdOf(d) # 0
        BY <1>1, <1>4, <3>1
      <4> QED
        BY <1>2, <2>1, <3>1, <4>1
    <3>2. CASE ~Configured(d)
      BY <2>1, <3>2 DEF WdOf
    <3> QED
      BY <3>1, <3>2
  <2>3. \A d, e \in Dirs : mon[d].known /\ mon[e].known /\ mon[d].wd = mon[e].wd => d = e
    BY <1>4, <2>1
  <2>4. \A i \in DOMAIN queue.nodes : mon[queue.nodes[i].dir].known
    BY <1>3, <1>5, <2>1
  <2>5. \A i \in DOMAIN events : \E d \in Dirs : mon[d].known /\ mon[d].wd = events[i].wd
    BY <1>2
  <2>6. \A s \in Busy : mon[slotJob[s].dir].known
    BY <1>7
  <2> QED
    BY <2>2, <2>3, <2>4, <2>5, <2>6 DEF OwnersInv
<1>9. OrderInv /\ FreshInv /\ ReadyInv
  BY <1>1, <1>2, <1>3, <1>7 DEF OrderInv, FreshInv, ReadyInv
<1>10. Chain = queue.nodes
  <2>1. Cut = Len(queue.nodes) /\ Len(queue.nodes) \in 0 .. Len(queue.nodes)
    BY <1>1, <1>2, <1>3 DEF Cut
  <2>2. Rotated(queue.nodes, Cut) = queue.nodes
    BY <1>3, <2>1, RotatedJobs
  <2>3. PICK a \in Seq(Jobs) : a = Announced(Owner, events) /\ Len(a) = Len(events)
    BY <1>0, <1>8, AnnouncedTyped
  <2>4. a = <<>>
    BY <1>2, <2>3
  <2> QED
    BY <1>3, <2>2, <2>3, <2>4 DEF Chain
<1>11. MirrorInv
  <2>1. \A d \in Dirs, f \in Files : tar[d][f] \in {0, Old}
    BY <1>2
  <2>2. ASSUME NEW d \in Dirs, NEW f \in Files, mon[d].known PROVE Settled(Chain, d, f)
    <3>1. Configured(d)
      BY <1>2, <2>2
    <3>2. PICK i \in 1 .. Len(ConfigDirs) : ConfigDirs[i] = d
      BY <1>4, <3>1
    <3>3. Copies(queue.nodes[i], d, f)
      BY <1>5, <3>2 DEF Copies
    <3>4. \A j \in DOMAIN queue.nodes : ~Deletes(queue.nodes[j], d, f)
      <4>1. \A j \in DOMAIN queue.nodes : queue.nodes[j].op = "FULL"
        BY <1>3, <1>5
      <4> QED
        BY <4>1 DEF Deletes
    <3> QED
      BY <1>3, <1>10, <3>2, <3>3, <3>4 DEF Settled
  <2> QED
    BY <2>1, <2>2 DEF MirrorInv, Mirrors
<1> QED
  BY <1>6, <1>8, <1>9, <1>11 DEF CInv

(* Where nothing is left to do for a directory, nothing of the chain is.   *)
LEMMA ChainNone ==
  ASSUME TInv, CInv, left \in Nat, NEW d \in Dirs, mon[d].known, ~DirExists(queue, d),
         \A i \in DOMAIN events : events[i].wd # mon[d].wd
  PROVE  \A i \in DOMAIN Chain : Chain[i].dir # d
<1> DEFINE r == Rotated(queue.nodes, Cut)
           a == Announced(Owner, events)
<1>1. queue.nodes \in Seq(Jobs) /\ Len(queue.nodes) \in Nat /\ Cut \in 0 .. Len(queue.nodes) /\ events \in Seq(Events)
  BY CutTyped DEF CInv, TInv, QInv, Queues
<1>2. r \in Seq(Jobs) /\ Len(r) = Len(queue.nodes)
  BY <1>1, RotatedJobs
<1>3. \A i \in 1 .. Len(r) : r[i].dir # d
  <2>1. \A i \in 1 .. Len(queue.nodes) : queue.nodes[i].dir # d
    BY <1>1 DEF DirExists
  <2> TAKE i \in 1 .. Len(r)
  <2>2. i \in 1 .. Len(queue.nodes)
    BY <1>2
  <2>3. PICK n \in Nat : n = Len(queue.nodes)
    BY <1>1
  <2>4. r[i] = IF i <= n - Cut THEN queue.nodes[Cut + i] ELSE queue.nodes[i - (n - Cut)]
    BY <2>2, <2>3 DEF Rotated
  <2>5. CASE i <= n - Cut
    <3>1. Cut + i \in 1 .. n
      BY <1>1, <2>2, <2>3, <2>5
    <3> QED
      BY <2>1, <2>3, <2>4, <2>5, <3>1
  <2>6. CASE ~(i <= n - Cut)
    <3>1. i - (n - Cut) \in 1 .. n
      BY <1>1, <2>2, <2>3, <2>6
    <3> QED
      BY <2>1, <2>3, <2>4, <2>6, <3>1
  <2> QED
    BY <2>5, <2>6
<1>4. a \in Seq(Jobs) /\ Len(a) = Len(events)
  BY AnnouncedTyped DEF CInv
<1>5. \A i \in 1 .. Len(a) : a[i].dir # d
  <2> TAKE i \in 1 .. Len(a)
  <2>1. i \in DOMAIN events /\ i \in DOMAIN a
    BY <1>1, <1>4
  <2>2. PICK x \in Dirs : mon[x].known /\ mon[x].wd = events[i].wd
    BY <2>1 DEF CInv, OwnersInv
  <2>3. Owner[events[i].wd] = x /\ x # d
    BY <2>1, <2>2, OwnerIs DEF CInv
  <2>4. a[i] = Meant(Owner, events[i])
    BY <2>1 DEF Announced
  <2> QED
    BY <2>3, <2>4 DEF Meant
<1> HIDE DEF r, a
<1>6. ASSUME NEW i \in DOMAIN (r \o a) PROVE (r \o a)[i].dir # d
  <2>1. i \in 1 .. Len(r) + Len(a) /\ Len(r) \in Nat /\ Len(a) \in Nat
    BY <1>2, <1>4
  <2>2. CASE i \in 1 .. Len(r)
    <3>1. (r \o a)[i] = r[i]
      BY <1>2, <1>4, <2>2
    <3> QED
      BY <1>3, <2>2, <3>1
  <2>3. CASE i \notin 1 .. Len(r)
    <3>1. PICK k \in Int : k = i - Len(r)
      BY <2>1
    <3>2. k \in 1 .. Len(a) /\ i = Len(r) + k
      BY <2>1, <2>3, <3>1
    <3>3. (r \o a)[i] = a[k]
      BY <1>2, <1>4, <3>2
    <3> QED
      BY <1>5, <3>2, <3>3
  <2> QED
    BY <2>2, <2>3
<1> QED
  BY <1>6 DEF Chain, r, a

LEMMA QuietMirrors ==
  ASSUME FInv, DiskInv, CInv, left \in Nat, faults = 0
  PROVE  Converged
<1>0. TInv /\ WorkingConsistent
  BY DEF FInv, PoolInv
<1> SUFFICES ASSUME NEW d \in Dirs, mon[d].active, Quiet(d) PROVE Mirrored(d)
  BY DEF Converged
<1>1. mon[d].known
  BY DEF CInv, OwnersInv
<1>2. \A i \in DOMAIN Chain : Chain[i].dir # d
  BY <1>0, <1>1, ChainNone DEF Quiet
<1>3. \A s \in Busy : slotJob[s].dir # d
  BY <1>0 DEF WorkingConsistent, Quiet
<1>4. ASSUME NEW f \in Files PROVE tar[d][f] = src[d][f] \/ (src[d][f] = 0 /\ tar[d][f] = Old)
  <2>1. ~Erased(Chain, d, f) /\ ~Settled(Chain, d, f)
    BY <1>2 DEF Erased, Settled, Deletes, Copies
  <2>2. ~Erasing(d, f) /\ ~Copying(d, f)
    BY <1>3 DEF Erasing, Copying
  <2>3. Mirrors(d, f)
    BY <1>1 DEF CInv, MirrorInv
  <2> QED
    BY <2>1, <2>2, <2>3 DEF Mirrors
<1> QED
  BY <1>4 DEF Mirrored

(* README.md:3 "the target directory remains identical to the source       *)
(* directory", but for the files that only the target had at the start,    *)
(* which stay (worker.c:60-151): once nothing is left to do for an active  *)
(* directory, its target has what its source has, for every number of      *)
(* directories, files, changes and workers and any files in the targets,   *)
(* however the events are batched and merged and the jobs put back         *)
(* (fss_manager.c:80-324, worker.c:59-221).  This needs that the           *)
(* console types no cancel, which leaves events without a watch, and that  *)
(* there is one directory or one worker: otherwise a job that is put back  *)
(* can be overtaken by a later one of the same directory.  No setup has    *)
(* failed and no worker died.                                              *)
THEOREM TargetsFollow ==
  ASSUME NoCancel, OneAtATime
  PROVE  Spec => [](faults = 0 => Converged)
<1> DEFINE Rest == FInv /\ DiskInv /\ ControlInv /\ WatchInv /\ ReplyInv /\ ReadyInv
           MInv == faults = 0 => CInv
<1>1. Init => Rest /\ MInv
  BY InitHolds, RestInit, RepliesInit, MirrorInit
<1>2. Rest /\ [Next]_vars => Rest'
  <2> SUFFICES ASSUME Rest, [Next]_vars PROVE Rest'
    OBVIOUS
  <2>1. FInv' /\ TInv /\ ScanInv /\ SingleReply
    BY StepHolds DEF FInv, SingleReply
  <2>2. DiskInv' /\ ControlInv' /\ ReadyInv'
    BY <2>1, DiskKept, ControlKept, ReadyKept
  <2>3. WatchInv' /\ ReplyInv'
    BY <2>1, WatchKept, RepliesKept
  <2> QED
    BY <2>1, <2>2, <2>3
<1>3. Rest /\ Rest' /\ MInv /\ [Next]_vars => MInv'
  <2> SUFFICES ASSUME Rest, Rest', MInv, [Next]_vars, faults' = 0 PROVE CInv'
    OBVIOUS
  <2>1. faults = 0
    <3>1. TInv /\ TInv' /\ faults \in Nat
      BY DEF FInv, TInv
    <3>2. Kept \/ StartWorker \/ SetupFails \/ EndDispatch \/ \E s \in Slots : HandleReport(s)
      BY <3>1, StepKinds, EnvironmentKeeps, ManagerKeeps
    <3>3. faults <= faults'
      BY <3>1, <3>2 DEF Kept, StartWorker, SetupFails, EndDispatch, HandleReport
    <3> QED
      BY <3>1, <3>3
  <2> QED
    BY <2>1, MirrorKept
<1>4. Rest /\ MInv => (faults = 0 => Converged)
  BY QuietMirrors DEF ControlInv
<1> HIDE DEF Rest, MInv
<1> QED
  BY <1>1, <1>2, <1>3, <1>4, PTL DEF Spec
=============================================================================
