---------------------------- MODULE MCSyncBuffer ----------------------------
(* A small instance of SyncBuffer: two directories of the same name on two hosts, which one     *)
(* cancel removes together, and a third; two files of the first, so that order matters.         *)
EXTENDS SyncBuffer

CONSTANTS f1, f2, a, b, h1, h2, t

At(d, h) == [dir |-> d, host |-> h]
Pair(f, d, h) == [file |-> f, src |-> At(d, h), tar |-> At(t, h1)]

MCPairs == {Pair(f1, a, h1), Pair(f1, a, h2), Pair(f2, a, h1), Pair(f2, b, h1)}
MCDirs == {a, b, t}
=============================================================================
