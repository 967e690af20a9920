---------------------------- MODULE MCRenRecovery ----------------------------
(* Instances of RenRecovery for TLC. *)
EXTENDS RenRecovery, TLC

CONSTANTS p1, p2

TwoProcs == {p1, p2}
Overlap == Permutations(TwoProcs)
=============================================================================
