---------------------------- MODULE MCNfsManager ----------------------------
(* Instances of NfsManager: directories a and b are sources, t and u their   *)
(* targets, on hosts h1 and h2, so that each host is a source and a target.  *)
EXTENDS NfsManager, TLC

CONSTANTS a, b, t, u, h1, h2, f1, f2, f3, f4, w1, w2

A == [dir |-> a, host |-> h1]
B == [dir |-> b, host |-> h2]
T == [dir |-> t, host |-> h2]
U == [dir |-> u, host |-> h1]
AtoT == [src |-> A, tar |-> T]
BtoU == [src |-> B, tar |-> U]

TwoHosts == {h1, h2}
Places == {A, B, T, U}
Routes == {AtoT, BtoU}
OneRoute == {AtoT}
OneWorker == {w1}
TwoWorkers == {w1, w2}
TwoFiles == {f1, f2}
FourFiles == {f1, f2, f3, f4}
Numbers == 1 .. 4
FewNumbers == 1 .. 3 \* a failed connect leaves too few
AConfigured == <<AtoT>>
NoneConfigured == <<>>

\* In a, f1 has two blocks and f2 none; b has f1 only; the target of a has an older f1.
Content(x, y) == (f1 :> x) @@ (f2 :> y)
Initial == {1, 2, 3, Old}
Start == {(A :> Content(<<1, 2>>, <<>>)) @@ (B :> Content(<<3>>, Absent))
            @@ (T :> Content(<<Old>>, Absent)) @@ (U :> Content(Absent, Absent))}

\* The size of f1 wraps around to 0, and that of f2 to a negative number (Width = 6).
TooLong == {(A :> Content(<<1, 2, 1, 2, 1, 2>>, <<1, 2, 3>>)) @@ (B :> Content(Absent, Absent))
              @@ (T :> Content(<<Old>>, Absent)) @@ (U :> Content(Absent, Absent))}
StartOrTooLong == Start \cup TooLong
EmptyFiles == {[l \in Places |-> [f \in FourFiles |-> IF l = A THEN <<>> ELSE Absent]]}

AddA == [name |-> "add", arg |-> AtoT]
AddB == [name |-> "add", arg |-> BtoU]
CancelA == [name |-> "cancel", arg |-> a]
Other == [name |-> "other", arg |-> a]
Stop == [name |-> "shutdown", arg |-> a]
AddCancelStop == {AddB, CancelA, Stop}
AddOtherStop == {AddA, Other, Stop}
AddAgain == {AddA}
=============================================================================
