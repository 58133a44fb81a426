---------------------------- MODULE JobQueueProof ----------------------------
(***************************************************************************)
(* Lemmas about the job queue, for every set J of jobs: whatever a call    *)
(* does to the list, also when it loses jobs, the counter is never less    *)
(* than the number of jobs that can still be reached.                      *)
(***************************************************************************)
EXTENDS JobQueue, FiniteSetTheorems, SequenceTheorems, WellFoundedInduction, TLAPS

(* Nonempty sets of naturals have a least member, bounded ones a greatest. *)
LEMMA LeastNatural ==
  ASSUME NEW T \in SUBSET Nat, T # {}
  PROVE  \E m \in T : \A k \in T : m <= k
<1>1. PICK m \in T : \A k \in T : ~ (<<k, m>> \in OpToRel(<, Nat))
  BY NatLessThanWellFounded, WFMin
<1>2. \A k \in T : ~ (k < m)
  BY <1>1 DEF OpToRel
<1> QED
  BY <1>2

LEMMA LeastGreatestTo ==
  ASSUME NEW n \in Nat, NEW K, K \subseteq 0 .. n, K # {}
  PROVE  /\ Min(K) \in K /\ \A k \in K : Min(K) <= k
         /\ Max(K) \in K /\ \A k \in K : k <= Max(K)
<1>1. \A k \in K : k \in Nat /\ k <= n
  OBVIOUS
<1>2. \E x \in K : \A k \in K : x <= k
  BY <1>1, LeastNatural
<1>3. \E y \in K : \A k \in K : k <= y
  <2> DEFINE T == {n - k : k \in K}
  <2>1. T \in SUBSET Nat /\ T # {}
    <3>1. \A k \in K : n - k \in Nat
      BY <1>1
    <3> QED
      BY <3>1
  <2>2. PICK t \in T : \A u \in T : t <= u
    <3> HIDE DEF T
    <3> QED
      BY <2>1, LeastNatural
  <2>3. PICK y \in K : t = n - y
    OBVIOUS
  <2>4. \A k \in K : n - y <= n - k
    BY <2>2, <2>3
  <2> QED
    BY <1>1, <2>4
<1>4. Min(K) \in K /\ \A k \in K : Min(K) <= k
  BY <1>2 DEF Min
<1>5. Max(K) \in K /\ \A k \in K : Max(K) >= k
  <2>1. \E y \in K : \A k \in K : y >= k
    BY <1>1, <1>3
  <2> QED
    BY <2>1 DEF Max
<1> QED
  BY <1>1, <1>4, <1>5

LEMMA LeastGreatestIndex ==
  ASSUME NEW n \in Nat, NEW K, K \subseteq 1 .. n, K # {}
  PROVE  /\ Min(K) \in K /\ \A k \in K : Min(K) <= k
         /\ Max(K) \in K /\ \A k \in K : k <= Max(K)
<1>1. K \subseteq 0 .. n
  OBVIOUS
<1> QED
  BY <1>1, LeastGreatestTo

Tails == {"null", "last", "stray", "crashed"}
Queues(J) == {q \in [nodes : Seq(J), size : Nat, tail : Tails] : q.size >= Len(q.nodes)}

LEMMA SimpleQueues ==
  ASSUME NEW J
  PROVE  /\ EmptyQueue \in Queues(J) /\ Crashed \in Queues(J)
         /\ \A job \in J : [nodes |-> <<job>>, size |-> 1, tail |-> "last"] \in Queues(J)
<1>1. <<>> \in Seq(J) /\ Len(<<>>) = 0 /\ 0 \in Nat /\ 0 >= 0
  OBVIOUS
<1>2. EmptyQueue \in Queues(J)
  BY <1>1 DEF EmptyQueue, Queues, Tails
<1>3. Crashed \in Queues(J)
  BY <1>1 DEF Crashed, Queues, Tails
<1>4. ASSUME NEW job \in J PROVE [nodes |-> <<job>>, size |-> 1, tail |-> "last"] \in Queues(J)
  <2>1. <<job>> \in Seq(J) /\ Len(<<job>>) = 1 /\ 1 \in Nat /\ 1 >= 1
    OBVIOUS
  <2> QED
    BY <2>1 DEF Queues, Tails
<1> QED
  BY <1>2, <1>3, <1>4

LEMMA EnqueueCovers ==
  ASSUME NEW J, NEW q \in Queues(J), NEW job \in J, NEW r \in Enqueue(q, job)
  PROVE  r \in Queues(J)
<1>1. /\ q \in [nodes : Seq(J), size : Nat, tail : Tails]
      /\ q.nodes \in Seq(J) /\ q.size \in Nat /\ q.size >= Len(q.nodes) /\ Len(q.nodes) \in Nat
  BY DEF Queues, Tails
<1>2. CASE q.size = 0
  BY <1>2, SimpleQueues DEF Enqueue
<1>3. CASE q.size # 0 /\ q.tail = "last"
  <2>1. r = [q EXCEPT !.nodes = Append(@, job), !.size = @ + 1]
    BY <1>3 DEF Enqueue
  <2>2. r.nodes = Append(q.nodes, job) /\ r.size = q.size + 1 /\ r.tail = q.tail
    BY <1>1, <2>1
  <2>3. Append(q.nodes, job) \in Seq(J) /\ Len(Append(q.nodes, job)) = Len(q.nodes) + 1
    BY <1>1
  <2>4. r = [nodes |-> Append(q.nodes, job), size |-> q.size + 1, tail |-> q.tail]
    BY <1>1, <2>1
  <2>5. q.size + 1 \in Nat /\ q.size + 1 >= Len(q.nodes) + 1
    BY <1>1
  <2> QED
    BY <1>1, <2>3, <2>4, <2>5 DEF Queues, Tails
<1>4. CASE q.size # 0 /\ q.tail = "stray"
  <2>1. r = Crashed \/ r = [q EXCEPT !.size = @ + 1]
    BY <1>4 DEF Enqueue
  <2>2. CASE r = [q EXCEPT !.size = @ + 1]
    BY <1>1, <2>2 DEF Queues, Tails
  <2> QED
    BY <2>1, <2>2, SimpleQueues
<1>5. CASE q.size # 0 /\ q.tail \notin {"last", "stray"}
  BY <1>5, SimpleQueues DEF Enqueue
<1> QED
  BY <1>2, <1>3, <1>4, <1>5

LEMMA DequeueCovers ==
  ASSUME NEW J, NEW q \in Queues(J), q.size > 0
  PROVE  Dequeue(q) \in Queues(J)
<1>1. /\ q \in [nodes : Seq(J), size : Nat, tail : Tails]
      /\ q.nodes \in Seq(J) /\ q.size \in Nat /\ q.size >= Len(q.nodes)
  BY DEF Queues, Tails
<1>2. CASE q.nodes = <<>>
  BY <1>2, SimpleQueues DEF Dequeue
<1>3. CASE q.nodes # <<>>
  <2>1. Tail(q.nodes) \in Seq(J) /\ Len(Tail(q.nodes)) = Len(q.nodes) - 1
    BY <1>1, <1>3
  <2>2. TailAfterDequeue(q) \in Tails
    BY <1>1 DEF TailAfterDequeue, Tails
  <2>3. q.size - 1 \in Nat /\ q.size - 1 >= Len(Tail(q.nodes))
    BY <1>1, <2>1
  <2> QED
    BY <1>3, <2>1, <2>2, <2>3 DEF Dequeue, Queues
<1> QED
  BY <1>2, <1>3

(* The first loop takes exactly the jobs before the first of another       *)
(* directory, which is then at the head.                                   *)
LEMMA LeadingRunBounds ==
  ASSUME NEW J, NEW q \in Queues(J), NEW dir
  PROVE  /\ LeadingRun(q, dir) \in 0 .. Len(q.nodes)
         /\ LeadingRun(q, dir) < Len(q.nodes) => q.nodes[LeadingRun(q, dir) + 1].dir # dir
<1>1. q.nodes \in Seq(J) /\ Len(q.nodes) \in Nat
  BY DEF Queues, Tails
<1>2. CASE OtherAt(q, dir) = {}
  BY <1>1, <1>2 DEF LeadingRun
<1>3. CASE OtherAt(q, dir) # {}
  <2>1. OtherAt(q, dir) \subseteq 1 .. Len(q.nodes)
    BY <1>1 DEF OtherAt
  <2>2. Min(OtherAt(q, dir)) \in OtherAt(q, dir)
    BY <1>1, <1>3, <2>1, LeastGreatestIndex
  <2>3. Min(OtherAt(q, dir)) \in 1 .. Len(q.nodes) /\ q.nodes[Min(OtherAt(q, dir))].dir # dir
    BY <1>1, <2>2 DEF OtherAt
  <2>4. LeadingRun(q, dir) = Min(OtherAt(q, dir)) - 1
    BY <1>3 DEF LeadingRun
  <2> QED
    BY <1>1, <2>3, <2>4
<1> QED
  BY <1>2, <1>3

(* The second loop: each match it counts was reachable, and so was the     *)
(* kept first node before all of them.                                     *)
LEMMA UnlinkCovers ==
  ASSUME NEW J, NEW q \in Queues(J), q.nodes # <<>>,
         NEW matches, matches \subseteq 2 .. Len(q.nodes)
  PROVE  UnlinkBehind(q, 1, matches) \in Queues(J)
<1>1. /\ q \in [nodes : Seq(J), size : Nat, tail : Tails]
      /\ q.nodes \in Seq(J) /\ q.size \in Nat /\ q.size >= Len(q.nodes)
      /\ Len(q.nodes) \in Nat \ {0} /\ q.nodes[1] \in J
  BY DEF Queues, Tails
<1>2. CASE matches = {}
  BY <1>2 DEF UnlinkBehind
<1>3. CASE matches # {}
  <2> DEFINE m == Max(matches)
             rest == SubSeq(q.nodes, m + 1, Len(q.nodes))
             c == Cardinality(matches)
  <2>1. m \in 2 .. Len(q.nodes) /\ \A k \in matches : k <= m
    <3>1. matches \subseteq 1 .. Len(q.nodes)
      BY <1>1
    <3>2. m \in matches /\ \A k \in matches : k <= m
      BY <1>1, <1>3, <3>1, LeastGreatestIndex
    <3> QED
      BY <3>2
  <2> HIDE DEF m
  <2>2. c \in Nat /\ c <= m - 1
    <3>1. matches \in SUBSET (2 .. m)
      <4>1. \A k \in matches : k \in 2 .. m
        BY <1>1, <2>1
      <4> QED
        BY <4>1
    <3>2. IsFiniteSet(2 .. m) /\ Cardinality(2 .. m) = m - 1
      <4>1. IsFiniteSet(2 .. m) /\ Cardinality(2 .. m) = IF 2 > m THEN 0 ELSE m - 2 + 1
        BY <2>1, FS_Interval
      <4> QED
        BY <2>1, <4>1
    <3>3. IsFiniteSet(matches) /\ c <= m - 1
      BY <3>1, <3>2, FS_Subset
    <3> QED
      BY <3>3, FS_CardinalityType
  <2> HIDE DEF c
  <2>3. rest \in Seq(J) /\ Len(rest) = Len(q.nodes) - m
    BY <1>1, <2>1
  <2> HIDE DEF rest
  <2>4. <<q.nodes[1]>> \o rest \in Seq(J) /\ Len(<<q.nodes[1]>> \o rest) = 1 + Len(q.nodes) - m
    BY <1>1, <2>1, <2>3
  <2>5. q.size - c \in Nat /\ q.size - c >= 1 + Len(q.nodes) - m
    BY <1>1, <2>1, <2>2
  <2> DEFINE nodes == <<q.nodes[1]>> \o rest
             size == q.size - c
             tail == IF m = Len(q.nodes) THEN "null" ELSE q.tail
  <2>6. UnlinkBehind(q, 1, matches) = [nodes |-> nodes, size |-> size, tail |-> tail]
    BY <1>3 DEF UnlinkBehind, m, rest, c
  <2>7. tail \in Tails
    BY <1>1 DEF Tails
  <2>8. nodes \in Seq(J) /\ size \in Nat /\ size >= Len(nodes)
    BY <2>4, <2>5
  <2> HIDE DEF nodes, size, tail
  <2> QED
    BY <2>6, <2>7, <2>8 DEF Queues, Tails
<1> QED
  BY <1>2, <1>3

LEMMA RemoveCovers ==
  ASSUME NEW J, NEW q \in Queues(J), NEW dir
  PROVE  RemoveDir(q, dir) \in Queues(J)
<1> DEFINE n == LeadingRun(q, dir)
           r == RemoveLeading(q, n)
           matches == MatchesBehind(r, dir)
<1>1. /\ q \in [nodes : Seq(J), size : Nat, tail : Tails]
      /\ q.nodes \in Seq(J) /\ q.size \in Nat /\ q.size >= Len(q.nodes) /\ Len(q.nodes) \in Nat
  BY DEF Queues, Tails
<1>2. n \in 0 .. Len(q.nodes) /\ (n < Len(q.nodes) => q.nodes[n + 1].dir # dir)
  BY LeadingRunBounds
<1> HIDE DEF n
<1>3. /\ r.nodes = SubSeq(q.nodes, n + 1, Len(q.nodes)) /\ r.size = q.size - n /\ r.tail = q.tail
      /\ r = [nodes |-> SubSeq(q.nodes, n + 1, Len(q.nodes)), size |-> q.size - n, tail |-> q.tail]
  <2>1. r = [q EXCEPT !.nodes = SubSeq(@, n + 1, Len(@)), !.size = @ - n]
    BY DEF RemoveLeading
  <2> HIDE DEF r
  <2>2. r = [nodes |-> SubSeq(q.nodes, n + 1, Len(q.nodes)), size |-> q.size - n, tail |-> q.tail]
    BY <1>1, <2>1
  <2> QED
    BY <2>2
<1>4. /\ r.nodes \in Seq(J) /\ Len(r.nodes) = Len(q.nodes) - n
      /\ r.nodes # <<>> => n < Len(q.nodes) /\ r.nodes[1] = q.nodes[n + 1]
  BY <1>1, <1>2, <1>3
<1>5. r.size \in Nat /\ r.size >= Len(r.nodes)
  BY <1>1, <1>2, <1>3, <1>4
<1>6. r \in Queues(J)
  BY <1>1, <1>3, <1>4, <1>5 DEF Queues, Tails
<1>7. matches \subseteq 2 .. Len(r.nodes)
  <2> SUFFICES ASSUME NEW k \in matches PROVE k \in 2 .. Len(r.nodes)
    OBVIOUS
  <2> HIDE DEF r
  <2>1. k \in DOMAIN r.nodes /\ r.nodes[k].dir = dir
    BY DEF MatchesBehind
  <2>2. k \in 1 .. Len(r.nodes) /\ r.nodes # <<>>
    BY <1>4, <2>1
  <2>3. k # 1
    BY <1>2, <1>4, <2>1, <2>2
  <2> QED
    BY <1>4, <2>2, <2>3
<1> HIDE DEF r, matches
<1>8. \/ RemoveDir(q, dir) = q \/ RemoveDir(q, dir) = EmptyQueue \/ RemoveDir(q, dir) = Crashed
      \/ r.nodes # <<>> /\ RemoveDir(q, dir) = UnlinkBehind(r, 1, matches)
  <2>1. RemoveDir(q, dir) =
          CASE q.size = 0 -> q
            [] q.size > 0 /\ r.size = 0 -> EmptyQueue
            [] r.size > 0 /\ r.nodes = <<>> -> Crashed
            [] OTHER -> UnlinkBehind(r, 1, matches)
    BY DEF RemoveDir, n, r, matches
  <2>2. CASE q.size = 0
    <3>1. r.size <= 0
      BY <1>1, <1>2, <1>3, <2>2
    <3> QED
      BY <1>1, <1>5, <2>1, <2>2, <3>1
  <2>3. CASE q.size > 0 /\ r.size = 0
    BY <1>1, <2>1, <2>3
  <2>4. CASE q.size > 0 /\ r.size > 0 /\ r.nodes = <<>>
    BY <1>1, <1>5, <2>1, <2>4
  <2>5. CASE q.size > 0 /\ r.size > 0 /\ r.nodes # <<>>
    BY <1>1, <1>5, <2>1, <2>5
  <2> QED
    BY <1>1, <1>5, <2>2, <2>3, <2>4, <2>5
<1> QED
  BY <1>6, <1>7, <1>8, UnlinkCovers, SimpleQueues
-----------------------------------------------------------------------------
(* A queue whose list, counter and tail pointer agree.                     *)
Whole(q) == q.size = Len(q.nodes) /\ q.tail = IF q.nodes = <<>> THEN "null" ELSE "last"

LEMMA NodesEmpty == \A J : \A s \in Seq(J) : Len(s) \in Nat /\ (s = <<>> <=> Len(s) = 0)
BY EmptySeq

LEMMA EnqueueWhole ==
  ASSUME NEW J, NEW q \in Queues(J), Whole(q), NEW job \in J, NEW r \in Enqueue(q, job)
  PROVE  r.nodes = Append(q.nodes, job) /\ Whole(r) /\ r # Crashed
<1>1. /\ q \in [nodes : Seq(J), size : Nat, tail : Tails] /\ q.nodes \in Seq(J)
      /\ q.size = Len(q.nodes) /\ (q.nodes = <<>> <=> q.size = 0)
  BY NodesEmpty DEF Queues, Whole
<1>2. r.nodes = Append(q.nodes, job) /\ r.size = q.size + 1 /\ r.tail = "last"
  <2>1. CASE q.size = 0
    <3>1. r = [nodes |-> <<job>>, size |-> 1, tail |-> "last"]
      BY <2>1 DEF Enqueue
    <3>2. Append(<<>>, job) = <<job>>
      OBVIOUS
    <3> QED
      BY <1>1, <2>1, <3>1, <3>2
  <2>2. CASE q.size # 0
    <3>1. r = [q EXCEPT !.nodes = Append(@, job), !.size = @ + 1] /\ q.tail = "last"
      BY <1>1, <2>2 DEF Enqueue, Whole
    <3> QED
      BY <1>1, <3>1
  <2> QED
    BY <2>1, <2>2
<1>3. Append(q.nodes, job) \in Seq(J) /\ Len(Append(q.nodes, job)) = q.size + 1 /\ q.size \in Nat
  BY <1>1
<1>4. r.nodes # <<>>
  <2>1. \A s \in Seq(J) : s = <<>> <=> Len(s) = 0
    BY NodesEmpty
  <2> QED
    BY <1>2, <1>3, <2>1
<1> QED
  BY <1>2, <1>3, <1>4 DEF Whole, Crashed

LEMMA DequeueWhole ==
  ASSUME NEW J, NEW q \in Queues(J), Whole(q), q.nodes # <<>>
  PROVE  Dequeue(q).nodes = Tail(q.nodes) /\ Whole(Dequeue(q)) /\ Dequeue(q) # Crashed
<1>1. /\ q.nodes \in Seq(J) /\ q.size = Len(q.nodes) /\ q.tail = "last"
      /\ Tail(q.nodes) \in Seq(J) /\ Len(Tail(q.nodes)) = q.size - 1 /\ q.size \in Nat
  BY DEF Queues, Whole
<1>2. Dequeue(q) = [nodes |-> Tail(q.nodes), size |-> q.size - 1, tail |-> TailAfterDequeue(q)]
  BY DEF Dequeue
<1>3. Tail(q.nodes) = <<>> <=> q.size = 1
  <2>1. Tail(q.nodes) = <<>> <=> Len(Tail(q.nodes)) = 0
    BY <1>1, NodesEmpty
  <2> QED
    BY <1>1, <2>1
<1>4. TailAfterDequeue(q) = IF Tail(q.nodes) = <<>> THEN "null" ELSE "last"
  BY <1>1, <1>3 DEF TailAfterDequeue
<1> QED
  BY <1>1, <1>2, <1>4 DEF Whole, Crashed
-----------------------------------------------------------------------------
(* Which jobs the operations leave in the list.                            *)
LEMMA EnqueueShape ==
  ASSUME NEW J, NEW q \in Queues(J), NEW job, NEW r \in Enqueue(q, job)
  PROVE  r.nodes = <<>> \/ r.nodes = q.nodes \/ r.nodes = Append(q.nodes, job)
<1>1. /\ q \in [nodes : Seq(J), size : Nat, tail : Tails] /\ q.nodes \in Seq(J)
      /\ q.size >= Len(q.nodes) /\ q.size \in Nat
  BY DEF Queues
<1>2. CASE q.size = 0
  <2>1. q.nodes = <<>>
    BY <1>1, <1>2, NodesEmpty
  <2>2. r.nodes = <<job>> /\ Append(<<>>, job) = <<job>>
    BY <1>2 DEF Enqueue
  <2> QED
    BY <2>1, <2>2
<1>3. CASE q.size # 0
  <2>1. \/ r = [q EXCEPT !.nodes = Append(@, job), !.size = @ + 1]
        \/ r = [q EXCEPT !.size = @ + 1] \/ r = Crashed
    BY <1>3 DEF Enqueue
  <2>2. r = [q EXCEPT !.nodes = Append(@, job), !.size = @ + 1] => r.nodes = Append(q.nodes, job)
    BY <1>1
  <2>3. r = [q EXCEPT !.size = @ + 1] => r.nodes = q.nodes
    BY <1>1
  <2>4. r = Crashed => r.nodes = <<>>
    BY DEF Crashed
  <2> QED
    BY <2>1, <2>2, <2>3, <2>4
<1> QED
  BY <1>2, <1>3

LEMMA SuffixShape ==
  ASSUME NEW S, NEW s \in Seq(S), NEW n \in 0 .. Len(s)
  PROVE  /\ SubSeq(s, n + 1, Len(s)) \in Seq(S) /\ Len(SubSeq(s, n + 1, Len(s))) = Len(s) - n
         /\ \A m \in 1 .. Len(s) - n : SubSeq(s, n + 1, Len(s))[m] = s[n + m]
<1> DEFINE t == SubSeq(s, n + 1, Len(s))
<1>1. n + 1 \in Int /\ Len(s) \in Int /\ \A i \in n + 1 .. Len(s) : s[i] \in S
  OBVIOUS
<1>2. /\ t \in Seq(S) /\ Len(t) = IF n + 1 <= Len(s) THEN Len(s) - (n + 1) + 1 ELSE 0
      /\ \A m \in 1 .. Len(s) - (n + 1) + 1 : t[m] = s[n + 1 + m - 1]
  BY ONLY <1>1, SubSeqProperties
<1> HIDE DEF t
<1>3. t \in Seq(S) /\ Len(t) = Len(s) - n
  BY <1>1, <1>2
<1>4. ASSUME NEW m \in 1 .. Len(s) - n PROVE t[m] = s[n + m]
  <2>1. m \in 1 .. Len(s) - (n + 1) + 1 /\ n + 1 + m - 1 = n + m
    BY <1>1
  <2>2. t[m] = s[n + 1 + m - 1]
    BY <1>2, <2>1
  <2> QED
    BY <2>1, <2>2
<1> QED
  BY <1>3, <1>4 DEF t

(* A removal adds no job.                                                  *)
LEMMA RemoveShape ==
  ASSUME NEW J, NEW q \in Queues(J), NEW dir
  PROVE  \A i \in DOMAIN RemoveDir(q, dir).nodes : \E j \in DOMAIN q.nodes : RemoveDir(q, dir).nodes[i] = q.nodes[j]
<1> DEFINE n == LeadingRun(q, dir)
           r == RemoveLeading(q, n)
           matches == MatchesBehind(r, dir)
           among(s) == \A i \in DOMAIN s : \E j \in DOMAIN q.nodes : s[i] = q.nodes[j]
<1>1. q \in [nodes : Seq(J), size : Nat, tail : Tails] /\ q.nodes \in Seq(J) /\ Len(q.nodes) \in Nat
  BY DEF Queues
<1>2. n \in 0 .. Len(q.nodes)
  BY LeadingRunBounds
<1>3. r.nodes = SubSeq(q.nodes, n + 1, Len(q.nodes))
  BY <1>1 DEF RemoveLeading
<1> HIDE DEF n
<1>4. r.nodes \in Seq(J) /\ among(r.nodes)
  <2>1. /\ r.nodes \in Seq(J) /\ Len(r.nodes) = Len(q.nodes) - n
        /\ \A m \in 1 .. Len(q.nodes) - n : r.nodes[m] = q.nodes[n + m]
    BY <1>1, <1>2, <1>3, SuffixShape
  <2>2. \A i \in DOMAIN r.nodes : n + i \in DOMAIN q.nodes /\ r.nodes[i] = q.nodes[n + i]
    BY <1>1, <1>2, <2>1
  <2> QED
    BY <2>1, <2>2
<1> HIDE DEF r
<1>5. RemoveDir(q, dir) = q \/ RemoveDir(q, dir).nodes = <<>> \/ RemoveDir(q, dir) = UnlinkBehind(r, 1, matches)
  BY DEF RemoveDir, n, r, EmptyQueue, Crashed
<1>6. CASE RemoveDir(q, dir) = UnlinkBehind(r, 1, matches) /\ matches # {}
  <2> DEFINE m == Max(matches)
             rest == SubSeq(r.nodes, m + 1, Len(r.nodes))
  <2>1. m \in 1 .. Len(r.nodes)
    <3>1. matches \subseteq 1 .. Len(r.nodes)
      BY <1>4 DEF MatchesBehind
    <3>2. m \in matches
      BY <1>4, <1>6, <3>1, LeastGreatestIndex
    <3> QED
      BY <3>1, <3>2
  <2>2. RemoveDir(q, dir).nodes = <<r.nodes[1]>> \o rest
    <3>1. UnlinkBehind(r, 1, matches) =
            [nodes |-> <<r.nodes[1]>> \o rest, size |-> r.size - Cardinality(matches),
             tail |-> IF m = Len(r.nodes) THEN "null" ELSE r.tail]
      BY <1>6 DEF UnlinkBehind
    <3> HIDE DEF m, rest, matches
    <3> QED
      BY <1>6, <3>1
  <2> HIDE DEF m
  <2>3. /\ rest \in Seq(J) /\ Len(rest) = Len(r.nodes) - m
        /\ \A i \in 1 .. Len(r.nodes) - m : rest[i] = r.nodes[m + i]
    BY <1>4, <2>1, SuffixShape
  <2> HIDE DEF rest
  <2>4. r.nodes[1] \in J /\ 1 \in DOMAIN r.nodes
    BY <1>4, <2>1
  <2>5. \A i \in DOMAIN rest : \E j \in DOMAIN r.nodes : rest[i] = r.nodes[j]
    <3> TAKE i \in DOMAIN rest
    <3>1. m + i \in DOMAIN r.nodes /\ rest[i] = r.nodes[m + i]
      BY <1>4, <2>1, <2>3
    <3> QED
      BY <3>1
  <2>6. \A i \in DOMAIN (<<r.nodes[1]>> \o rest) :
          (<<r.nodes[1]>> \o rest)[i] = r.nodes[1] \/ \E k \in DOMAIN rest : (<<r.nodes[1]>> \o rest)[i] = rest[k]
    <3> TAKE i \in DOMAIN (<<r.nodes[1]>> \o rest)
    <3>1. CASE i = 1
      BY <2>3, <2>4, <3>1
    <3>2. CASE i # 1
      <4>1. i - 1 \in DOMAIN rest /\ (<<r.nodes[1]>> \o rest)[i] = rest[i - 1]
        BY <2>3, <2>4, <3>2
      <4> QED
        BY <4>1
    <3> QED
      BY <3>1, <3>2
  <2>7. among(<<r.nodes[1]>> \o rest)
    BY <1>4, <2>4, <2>5, <2>6
  <2> QED
    BY <2>2, <2>7
<1>7. CASE RemoveDir(q, dir) = UnlinkBehind(r, 1, matches) /\ matches = {}
  BY <1>4, <1>7 DEF UnlinkBehind
<1>8. CASE RemoveDir(q, dir) = q \/ RemoveDir(q, dir).nodes = <<>>
  BY <1>8
<1> QED
  BY <1>5, <1>6, <1>7, <1>8
=============================================================================
