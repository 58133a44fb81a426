-------------------------- MODULE JobQueueSpecProof --------------------------
(***************************************************************************)
(* Proof about JobQueueSpec, for every set of jobs, every length and every *)
(* sequence of calls.                                                      *)
(***************************************************************************)
EXTENDS JobQueueSpec, JobQueueProof

(* The dispatch loop takes as many jobs as the counter says                *)
(* (fss_manager.c:80-88): it never stops before a job that can be reached, *)
(* whatever removals have done to the list (job_queue.c:162-205).          *)
THEOREM CounterCovers == Spec => []SizeCovers
<1>1. Init => queue \in Queues(Jobs)
  BY SimpleQueues DEF Init
<1>2. queue \in Queues(Jobs) /\ [Next]_vars => (queue \in Queues(Jobs))'
  <2> SUFFICES ASSUME queue \in Queues(Jobs), [Next]_vars PROVE queue' \in Queues(Jobs)
    OBVIOUS
  <2>1. ASSUME NEW job \in Jobs, EnqueueJob(job) PROVE queue' \in Queues(Jobs)
    BY <2>1, EnqueueCovers DEF EnqueueJob
  <2>2. ASSUME DequeueJob PROVE queue' \in Queues(Jobs)
    BY <2>2, DequeueCovers DEF DequeueJob
  <2>3. ASSUME NEW dir \in Dirs, RemoveDirJobs(dir) PROVE queue' \in Queues(Jobs)
    BY <2>3, RemoveCovers DEF RemoveDirJobs
  <2>4. ASSUME Stopped \/ UNCHANGED vars PROVE queue' \in Queues(Jobs)
    BY <2>4 DEF Stopped, vars
  <2> QED
    BY <2>1, <2>2, <2>3, <2>4 DEF Next
<1>3. queue \in Queues(Jobs) => SizeCovers
  BY DEF Queues, SizeCovers
<1> QED
  BY <1>1, <1>2, <1>3, PTL DEF Spec

(* While every removal has met its jobs at the head, the list is the       *)
(* promised one.                                                           *)
Fifo ==
  /\ queue \in Queues(Jobs) /\ intact \in BOOLEAN
  /\ IntactIsFifo

LEMMA EnqueueFifo == ASSUME NEW job \in Jobs PROVE Fifo /\ EnqueueJob(job) => Fifo'
<1> SUFFICES ASSUME Fifo, EnqueueJob(job) PROVE Fifo'
  OBVIOUS
<1>1. queue' \in Queues(Jobs) /\ intact' = intact
  BY EnqueueCovers DEF Fifo, EnqueueJob
<1>2. ASSUME intact PROVE queue'.nodes = ideal' /\ Whole(queue')
  <2>1. queue.nodes = ideal /\ Whole(queue) /\ queue \in Queues(Jobs)
    BY <1>2 DEF Fifo, IntactIsFifo, Whole
  <2>2. queue' \in Enqueue(queue, job) /\ ideal' = Append(ideal, job)
    BY DEF EnqueueJob
  <2> QED
    BY <2>1, <2>2, EnqueueWhole
<1> QED
  BY <1>1, <1>2 DEF Fifo, IntactIsFifo, Whole

LEMMA DequeueFifo == Fifo /\ DequeueJob => Fifo'
<1> SUFFICES ASSUME Fifo, DequeueJob PROVE Fifo'
  OBVIOUS
<1>1. queue' \in Queues(Jobs) /\ intact' = intact
  BY DequeueCovers DEF Fifo, DequeueJob
<1>2. ASSUME intact PROVE queue'.nodes = ideal' /\ Whole(queue')
  <2>1. queue.nodes = ideal /\ Whole(queue) /\ queue \in Queues(Jobs) /\ queue.size > 0
    BY <1>2 DEF Fifo, IntactIsFifo, Whole, DequeueJob
  <2>2. queue.nodes # <<>>
    BY <2>1, NodesEmpty DEF Whole, Queues
  <2>3. queue' = Dequeue(queue) /\ ideal' = Tail(ideal)
    BY <2>1, <2>2 DEF DequeueJob
  <2> QED
    BY <2>1, <2>2, <2>3, DequeueWhole
<1> QED
  BY <1>1, <1>2 DEF Fifo, IntactIsFifo, Whole

LEMMA LeadingRunStart ==
  ASSUME NEW J, NEW q \in Queues(J), NEW dir
  PROVE  /\ LeadingRun(q, dir) \in 0 .. Len(q.nodes)
         /\ \A i \in 1 .. Len(q.nodes) : i <= LeadingRun(q, dir) => q.nodes[i].dir = dir
<1>1. q.nodes \in Seq(J) /\ Len(q.nodes) \in Nat /\ DOMAIN q.nodes = 1 .. Len(q.nodes)
  BY DEF Queues
<1>2. LeadingRun(q, dir) \in 0 .. Len(q.nodes)
  BY LeadingRunBounds
<1>3. CASE OtherAt(q, dir) = {}
  BY <1>1, <1>2, <1>3 DEF OtherAt
<1>4. CASE OtherAt(q, dir) # {}
  <2>1. OtherAt(q, dir) \subseteq 1 .. Len(q.nodes)
    BY <1>1 DEF OtherAt
  <2>2. \A k \in OtherAt(q, dir) : Min(OtherAt(q, dir)) <= k
    BY <1>1, <1>4, <2>1, LeastGreatestIndex
  <2>3. LeadingRun(q, dir) = Min(OtherAt(q, dir)) - 1 /\ Min(OtherAt(q, dir)) \in 1 .. Len(q.nodes)
    BY <1>1, <1>4, <2>1, LeastGreatestIndex DEF LeadingRun
  <2>4. \A i \in 1 .. Len(q.nodes) : i <= LeadingRun(q, dir) => i \notin OtherAt(q, dir)
    BY <2>2, <2>3
  <2> QED
    BY <1>1, <1>2, <2>4 DEF OtherAt
<1> QED
  BY <1>3, <1>4

(* Without a job of the directory behind another's, the others are what    *)
(* follows the leading run.                                                *)
LEMMA OthersFollow ==
  ASSUME NEW dir, NEW n \in 0 .. Len(ideal), ideal \in Seq(Jobs),
         \A i \in 1 .. Len(ideal) : ideal[i].dir = dir <=> i <= n
  PROVE  Others(dir) = SubSeq(ideal, n + 1, Len(ideal))
<1> DEFINE L == Len(ideal)
           K == n + 1 .. L
           at(m) == CHOOSE i \in K : Cardinality({k \in K : k <= i}) = m
<1>1. L \in Nat /\ n \in Nat /\ n <= L /\ DOMAIN ideal = 1 .. L
  OBVIOUS
<1>2. KeptAt(dir) = K
  BY <1>1 DEF KeptAt
<1>3. Cardinality(K) = L - n
  <2>1. n + 1 \in Int /\ L \in Int
    BY <1>1
  <2>2. Cardinality(n + 1 .. L) = IF n + 1 > L THEN 0 ELSE L - (n + 1) + 1
    BY ONLY <2>1, FS_Interval
  <2> QED
    BY <1>1, <2>2
<1>4. \A i \in K : Cardinality({k \in K : k <= i}) = i - n
  <2> TAKE i \in K
  <2>1. {k \in K : k <= i} = n + 1 .. i
    BY <1>1
  <2>2. Cardinality(n + 1 .. i) = i - n
    BY <1>1, FS_Interval
  <2> QED
    BY <2>1, <2>2
<1>5. \A m \in 1 .. L - n : at(m) = n + m
  <2> TAKE m \in 1 .. L - n
  <2>1. n + m \in K /\ \A i \in K : Cardinality({k \in K : k <= i}) = m <=> i = n + m
    BY <1>1, <1>4
  <2> QED
    BY <2>1
<1>6. Others(dir) = [m \in 1 .. L - n |-> ideal[at(m)]]
  BY <1>2, <1>3 DEF Others
<1>7. /\ SubSeq(ideal, n + 1, L) \in Seq(Jobs) /\ Len(SubSeq(ideal, n + 1, L)) = L - n
      /\ \A m \in 1 .. L - n : SubSeq(ideal, n + 1, L)[m] = ideal[n + m]
  BY <1>1, SuffixShape
<1>8. \A m \in 1 .. L - n : Others(dir)[m] = SubSeq(ideal, n + 1, L)[m] /\ Others(dir)[m] \in Jobs
  <2> TAKE m \in 1 .. L - n
  <2>1. Others(dir)[m] = ideal[n + m]
    BY <1>5, <1>6
  <2>2. ideal[n + m] \in Jobs
    <3>1. n + m \in 1 .. L
      BY <1>1
    <3> QED
      BY <1>1, <3>1
  <2>3. SubSeq(ideal, n + 1, L)[m] = ideal[n + m]
    BY <1>7
  <2> QED
    BY <2>1, <2>2, <2>3
<1>9. Others(dir) \in Seq(Jobs) /\ Len(Others(dir)) = L - n
  <2>1. L - n \in Nat
    BY <1>1
  <2>2. DOMAIN Others(dir) = 1 .. L - n /\ Others(dir) \in [1 .. L - n -> Jobs]
    BY <1>6, <1>8
  <2> QED
    BY <2>1, <2>2, LenProperties
<1> QED
  BY <1>1, <1>7, <1>8, <1>9, SeqEqual

LEMMA RemoveFifo == ASSUME NEW dir PROVE Fifo /\ RemoveDirJobs(dir) => Fifo'
<1> SUFFICES ASSUME Fifo, RemoveDirJobs(dir) PROVE Fifo'
  OBVIOUS
<1>1. queue' \in Queues(Jobs) /\ intact' \in BOOLEAN
  BY RemoveCovers DEF Fifo, RemoveDirJobs
<1>2. ASSUME intact' PROVE IntactIsFifo'
  <2> DEFINE n == LeadingRun(queue, dir)
             r == RemoveLeading(queue, n)
             L == Len(ideal)
  <2>1. /\ queue.nodes = ideal /\ queue.size = L /\ queue.tail = (IF ideal = <<>> THEN "null" ELSE "last")
        /\ ideal \in Seq(Jobs) /\ L \in Nat /\ DOMAIN ideal = 1 .. L
        /\ queue \in [nodes : Seq(Jobs), size : Nat, tail : Tails] /\ MatchesBehind(queue, dir) = {}
    <3>1. intact /\ MatchesBehind(queue, dir) = {}
      BY <1>2 DEF Fifo, RemoveDirJobs
    <3> QED
      BY <3>1 DEF Fifo, IntactIsFifo, Queues
  <2>2. n \in 0 .. L /\ \A i \in 1 .. L : ideal[i].dir = dir <=> i <= n
    <3>1. n \in 0 .. L /\ \A i \in 1 .. L : i <= n => ideal[i].dir = dir
      BY <2>1, LeadingRunStart DEF Fifo
    <3> QED
      BY <2>1, <3>1 DEF MatchesBehind
  <2> HIDE DEF n
  <2>3. r = [nodes |-> SubSeq(ideal, n + 1, L), size |-> L - n, tail |-> queue.tail]
    <3>1. r = [queue EXCEPT !.nodes = SubSeq(ideal, n + 1, L), !.size = L - n]
      BY <2>1 DEF RemoveLeading
    <3> HIDE DEF r
    <3> QED
      BY <2>1, <3>1
  <2> HIDE DEF r
  <2>4. /\ SubSeq(ideal, n + 1, L) \in Seq(Jobs) /\ Len(SubSeq(ideal, n + 1, L)) = L - n
        /\ \A m \in 1 .. L - n : SubSeq(ideal, n + 1, L)[m] = ideal[n + m]
    <3>1. Len(ideal) = L /\ n \in 0 .. Len(ideal)
      BY <2>2
    <3> HIDE DEF L
    <3>2. /\ SubSeq(ideal, n + 1, Len(ideal)) \in Seq(Jobs) /\ Len(SubSeq(ideal, n + 1, Len(ideal))) = Len(ideal) - n
          /\ \A m \in 1 .. Len(ideal) - n : SubSeq(ideal, n + 1, Len(ideal))[m] = ideal[n + m]
      BY <2>1, <3>1, SuffixShape
    <3> QED
      BY ONLY <3>1, <3>2
  <2>5. ideal' = SubSeq(ideal, n + 1, L)
    BY <2>1, <2>2, OthersFollow DEF RemoveDirJobs
  <2>6. MatchesBehind(r, dir) = {}
    <3>1. \A k \in 1 .. L - n : n + k \in 1 .. L /\ ~(n + k <= n)
      BY <2>1, <2>2
    <3>2. r.nodes = SubSeq(ideal, n + 1, L) /\ DOMAIN r.nodes = 1 .. L - n
      <4>1. DOMAIN SubSeq(ideal, n + 1, L) = 1 .. L - n
        BY <2>4
      <4> QED
        BY <2>3, <4>1
    <3>3. \A k \in DOMAIN r.nodes : r.nodes[k].dir # dir
      BY <2>2, <2>4, <3>1, <3>2
    <3> QED
      BY <3>3 DEF MatchesBehind
  <2>7. CASE L = n
    <3>1. r.size = 0
      BY <2>1, <2>3, <2>7
    <3>2. queue' = (IF queue.size = 0 THEN queue ELSE EmptyQueue)
      BY <2>1, <3>1 DEF RemoveDirJobs, RemoveDir, r, n
    <3>3. ideal' = <<>>
      <4>1. Len(ideal') = 0 /\ ideal' \in Seq(Jobs)
        BY <2>1, <2>4, <2>5, <2>7
      <4> QED
        BY <4>1, EmptySeq
    <3>4. queue.size = 0 => ideal = <<>>
      BY <2>1, EmptySeq
    <3> QED
      BY <2>1, <3>2, <3>3, <3>4 DEF EmptyQueue, IntactIsFifo
  <2>8. CASE L # n
    <3>1. n \in 0 .. L /\ L \in Nat /\ queue.size = L
      BY <2>1, <2>2
    <3> HIDE DEF L
    <3>2. L - n > 0 /\ L > 0
      BY ONLY <2>8, <3>1
    <3>3. \A s \in Seq(Jobs) : s = <<>> <=> Len(s) = 0
      BY EmptySeq
    <3>4. Len(ideal') = L - n /\ ideal' \in Seq(Jobs)
      BY <2>4, <2>5
    <3>5. ideal' # <<>> /\ r.nodes = ideal' /\ r.size = L - n /\ r.size > 0 /\ queue.size > 0
      <4>1. r.nodes = ideal' /\ r.size = L - n
        BY <2>3, <2>5
      <4>2. ideal' # <<>>
        BY <3>2, <3>3, <3>4
      <4> QED
        BY <3>1, <3>2, <4>1, <4>2
    <3>6. queue' = r
      BY <2>1, <2>6, <3>5 DEF RemoveDirJobs, RemoveDir, UnlinkBehind, r, n
    <3>7. queue.tail = "last"
      <4>1. ideal # <<>>
        BY <2>1, <3>2, <3>3
      <4> QED
        BY <2>1, <4>1
    <3> QED
      BY <2>3, <3>4, <3>5, <3>6, <3>7 DEF IntactIsFifo
  <2> QED
    BY <2>7, <2>8
<1> QED
  BY <1>1, <1>2 DEF Fifo, IntactIsFifo

(* job_queue.h:13-26: until a removal meets a job of its directory behind  *)
(* another's, the list with its head, tail and counter is the FIFO of the  *)
(* jobs that were put in and not taken out or withdrawn.                   *)
THEOREM FifoWhileIntact == Spec => []IntactIsFifo
<1>1. Init => Fifo
  BY SimpleQueues DEF Init, Fifo, IntactIsFifo, EmptyQueue
<1>2. Fifo /\ [Next]_vars => Fifo'
  <2> SUFFICES ASSUME Fifo, [Next]_vars PROVE Fifo'
    OBVIOUS
  <2>1. CASE Stopped \/ UNCHANGED vars
    BY <2>1 DEF Stopped, vars, Fifo, IntactIsFifo
  <2> QED
    BY <2>1, EnqueueFifo, DequeueFifo, RemoveFifo DEF Next
<1> QED
  BY <1>1, <1>2, PTL DEF Spec, Fifo
==============================================================================
