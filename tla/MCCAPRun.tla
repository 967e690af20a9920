------------------------------ MODULE MCCAPRun ------------------------------
(* Instances of CAPRun for TLC. *)
EXTENDS CAPRunSlots, TLC

CONSTANTS p1, p2, o1, o2

OneProc == {p1}
TwoProcs == {p1, p2}
OneOrigin == {o1}
TwoOrigins == {o1, o2}
NoKeys == {}
LastKey == {NumKeys}
Always == {TRUE}
Sometimes == BOOLEAN
=============================================================================
