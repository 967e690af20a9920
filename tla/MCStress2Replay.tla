--------------------------- MODULE MCStress2Replay ---------------------------
(* Instances of Stress2Replay for TLC. *)
EXTENDS Stress2Replay

CONSTANTS p1, p2

TwoProcs == {p1, p2}
TriedHorizons == {<<1>>, <<1, 2>>, <<2>>, <<1, 1>>}
TriedModels == {<<"ridge">>, <<"last_value", "ridge">>}
=============================================================================
