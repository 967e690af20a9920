------------------------- MODULE MCEvaluatorSession -------------------------
(* Instances of EvaluatorSession for TLC. *)
EXTENDS EvaluatorSession, TLC

CONSTANTS p, q

OnePolicy == {p}
TwoPolicies == {p, q}

\* No policy is told from another; used for safety properties only.
SamePolicies == Permutations(TwoPolicies)
=============================================================================
