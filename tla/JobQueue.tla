------------------------------ MODULE JobQueue ------------------------------
(***************************************************************************)
(* The linked list of jobs of fss_manager (job_queue.c) as operators on a  *)
(* record: nodes, the jobs reachable from head; size, the counter the code *)
(* trusts; tail, what the tail pointer points to: the last reachable node, *)
(* nothing, or a node that was freed or is no longer reachable from head.  *)
(* size and nodes may disagree, because job_queue_remove_dir does not keep *)
(* them together.  A null pointer dereference ends the manager: it is the  *)
(* queue Crashed.                                                          *)
(***************************************************************************)
EXTENDS Integers, Sequences, FiniteSets, FiniteSetsExt

EmptyQueue == [nodes |-> <<>>, size |-> 0, tail |-> "null"]
Crashed == [nodes |-> <<>>, size |-> 0, tail |-> "crashed"]

\* What the tail pointer is once the list has lost its first node.
TailAfterDequeue(q) ==
  IF q.size = 1 THEN "null"
  ELSE IF Len(q.nodes) = 1 /\ q.tail = "last" THEN "stray" ELSE q.tail

(* Mutated form: the counter is set, not incremented. *)
EnqueueUncounted(q, job) == {[nodes |-> Append(q.nodes, job), size |-> 1, tail |-> "last"]}

(* job_queue_enqueue, as the set of its outcomes: appending behind a stray *)
(* tail writes to freed memory, which crashes or loses the job.            *)
Enqueue(q, job) ==
  IF q.size = 0 THEN {[nodes |-> <<job>>, size |-> 1, tail |-> "last"]}
  ELSE CASE q.tail = "last" -> {[q EXCEPT !.nodes = Append(@, job), !.size = @ + 1]}
         [] q.tail = "stray" -> {[q EXCEPT !.size = @ + 1], Crashed}
         [] OTHER -> {Crashed}

(* job_queue_dequeue on a queue whose size is not 0; the job it returns is *)
(* Head(q.nodes).                                                          *)
Dequeue(q) ==
  IF q.nodes = <<>> THEN Crashed
  ELSE [nodes |-> Tail(q.nodes), size |-> q.size - 1, tail |-> TailAfterDequeue(q)]

\* job_queue_dir_exists
DirExists(q, dir) == \E i \in DOMAIN q.nodes : q.nodes[i].dir = dir

\* Indices at which q holds a job of another directory, and the length of the run of dir's jobs before them.
OtherAt(q, dir) == {i \in DOMAIN q.nodes : q.nodes[i].dir # dir}
LeadingRun(q, dir) == IF OtherAt(q, dir) = {} THEN Len(q.nodes) ELSE Min(OtherAt(q, dir)) - 1

\* Indices of dir's jobs behind the first job of another directory.
MatchesBehind(q, dir) == {i \in DOMAIN q.nodes : i > LeadingRun(q, dir) /\ q.nodes[i].dir = dir}

(* The second loop of job_queue_remove_dir: prev_node stays at the first   *)
(* kept node, so each match links it past every node up to the match.      *)
UnlinkBehind(q, first, matches) ==
  IF matches = {} THEN q
  ELSE [nodes |-> <<q.nodes[first]>> \o SubSeq(q.nodes, Max(matches) + 1, Len(q.nodes)),
        size |-> q.size - Cardinality(matches),
        tail |-> IF Max(matches) = Len(q.nodes) THEN "null" ELSE q.tail]

(* Mutated form: the first loop does not count what it removes.            *)
RemoveLeadingUncounted(q, n) == [q EXCEPT !.nodes = SubSeq(@, n + 1, Len(@))]

\* The first loop: the leading jobs of dir are unlinked one by one.
RemoveLeading(q, n) ==
  [q EXCEPT !.nodes = SubSeq(@, n + 1, Len(@)), !.size = @ - n]

\* job_queue_remove_dir
RemoveDir(q, dir) ==
  LET n == LeadingRun(q, dir)
      r == RemoveLeading(q, n)
  IN  CASE q.size = 0 -> q
        [] q.size > 0 /\ r.size = 0 -> EmptyQueue
        [] r.size > 0 /\ r.nodes = <<>> -> Crashed
        [] OTHER -> UnlinkBehind(r, 1, MatchesBehind(r, dir))
=============================================================================
