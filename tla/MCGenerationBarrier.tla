------------------------ MODULE MCGenerationBarrier ------------------------
(* Instances of GenerationBarrier for TLC. *)
EXTENDS GenerationBarrier, TLC

CONSTANTS f, det, phys, s

OneFold == {f}
TwoArms == {det, phys}
PhysicalArms == {phys}
OneSealer == {s}
BothModes == {"formal", "legacy"}
=============================================================================
