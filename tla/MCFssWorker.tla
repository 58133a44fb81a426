---------------------------- MODULE MCFssWorker ----------------------------
(* An instance of FssWorker: three files, the first with a long name, the    *)
(* first two with an old version in the target.                              *)
EXTENDS FssWorker

CONSTANTS f1, f2, f3

ThreeFiles == {f1, f2, f3}
FirstTwo == {f1, f2}
OneLong == {f1}
=============================================================================
