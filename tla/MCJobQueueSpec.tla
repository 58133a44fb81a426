--------------------------- MODULE MCJobQueueSpec ---------------------------
(* Three directories, so that a removal can skip a job of a second directory *)
(* before it meets one of the first; two jobs of one directory.              *)
EXTENDS JobQueueSpec

CONSTANTS a, b, c, f1, f2

Job(d, f) == [dir |-> d, file |-> f]
MCJobs == {Job(a, f1), Job(a, f2), Job(b, f1), Job(c, f1)}
MCDirs == {a, b, c}
=============================================================================
