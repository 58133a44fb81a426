---------------------------- MODULE JobQueueSpec ----------------------------
(***************************************************************************)
(* The job queue under any sequence of the calls fss_manager.c makes,      *)
(* beside the list of jobs job_queue.h promises its callers (ideal).       *)
(***************************************************************************)
EXTENDS JobQueue

CONSTANTS
  Jobs,  \* records with a field dir
  Dirs,
  MaxLen \* bound on the ideal queue

VARIABLES
  queue,
  ideal, \* the jobs a correct queue would hold
  intact \* no removal has met a job of the directory behind another directory's

vars == <<queue, ideal, intact>>

Init == queue = EmptyQueue /\ ideal = <<>> /\ intact = TRUE

Alive == queue # Crashed

EnqueueJob(job) ==
  /\ Alive /\ Len(ideal) < MaxLen /\ queue.size < MaxLen
  /\ queue' \in Enqueue(queue, job)
  /\ ideal' = Append(ideal, job)
  /\ UNCHANGED intact

DequeueJob ==
  /\ Alive /\ queue.size > 0
  /\ queue' = Dequeue(queue)
  /\ ideal' = IF ideal = <<>> THEN ideal ELSE Tail(ideal)
  /\ UNCHANGED intact

\* The places of the jobs of other directories, and those jobs in the order they have.
KeptAt(dir) == {i \in DOMAIN ideal : ideal[i].dir # dir}
Others(dir) ==
  LET K == KeptAt(dir)
  IN  [n \in 1 .. Cardinality(K) |-> ideal[CHOOSE i \in K : Cardinality({k \in K : k <= i}) = n]]

RemoveDirJobs(dir) ==
  /\ Alive
  /\ queue' = RemoveDir(queue, dir)
  /\ ideal' = Others(dir)
  /\ intact' = (intact /\ MatchesBehind(queue, dir) = {})

Stopped == ~Alive /\ UNCHANGED vars

Next ==
  \/ \E job \in Jobs : EnqueueJob(job)
  \/ DequeueJob
  \/ \E dir \in Dirs : RemoveDirJobs(dir)
  \/ Stopped

Spec == Init /\ [][Next]_vars

-----------------------------------------------------------------------------
(* Properties. *)

\* As long as every removed directory had its jobs at the head of the queue, the list, its counter and
\* its tail pointer agree and hold exactly the promised jobs in order (job_queue.c:77-85, 101-106, 166-182).
IntactIsFifo ==
  intact => /\ queue.nodes = ideal
            /\ queue.size = Len(ideal)
            /\ queue.tail = IF ideal = <<>> THEN "null" ELSE "last"

\* The counter never falls below the reachable nodes, even after a removal that loses nodes: the
\* dispatch loop, which trusts it, sees every job that is left.
SizeCovers == queue.size >= Len(queue.nodes)
=============================================================================
