---------------------------- MODULE MCFssManager ----------------------------
(* Instances of FssManager: one or two directories of one file, with the     *)
(* commands each run lets the console type.                                  *)
EXTENDS FssManager

CONSTANTS a, b, f1

OneDir == {a}
TwoDirs == {a, b}
OneConfigured == <<a>>
BothConfigured == <<a, b>>
OneFile == {f1}

NoCommands == {}
Harmless == [name : {"add", "status", "sync", "shutdown"}, dir : {a}]
AllOfOne == [name : {"add", "status", "cancel", "sync", "shutdown"}, dir : {a}]
CancelAdd == [name : {"cancel", "add"}, dir : {a}]
JustA == {a}
None == {}
=============================================================================
