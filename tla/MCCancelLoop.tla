---------------------------- MODULE MCCancelLoop ----------------------------
(* CancelLoop on a ring of three cells: one directory name on as many hosts as the ring has     *)
(* cells, so that a full ring can hold only distinct cancelled locations, and another directory. *)
EXTENDS CancelLoop

CONSTANTS f1, f2, a, b, h1, h2, h3, t

At(d, h) == [dir |-> d, host |-> h]
Pair(f, d, h) == [file |-> f, src |-> At(d, h), tar |-> At(t, h1)]

MCPairs == {Pair(f1, a, h1), Pair(f1, a, h2), Pair(f1, a, h3), Pair(f1, b, h1), Pair(f2, b, h1)}
MCDirs == {a, b, t}
=============================================================================
