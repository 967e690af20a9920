------------------------ MODULE MCHybridOrchestrator ------------------------
EXTENDS HybridOrchestrator, TLC

\* Two candidates that agree, that differ, and that tie in training.
MCRequests ==
    {[forecast |-> [k \in Keys |-> [m \in Models |-> f[m]]], error |-> [k \in Keys |-> [m \in Models |-> e[m]]],
      disagreement |-> d, ood |-> 0] :
        f \in {"last_value" :> 1 @@ "ridge" :> 1, "last_value" :> -1 @@ "ridge" :> 2},
        e \in {"last_value" :> 1 @@ "ridge" :> 0, "last_value" :> 1 @@ "ridge" :> 1}, d \in {1, 2}}

Weights(a, b) == "last_value" :> a @@ "ridge" :> b

\* Exact, just tolerated, out of tolerance, abstaining, and malformed answers.
MCAnswers ==
    {[complete |-> c, role |-> r, origin |-> o, abstain |-> FALSE, weights |-> Weights(4, 0), risk |-> x] :
        c \in BOOLEAN, r \in Roles, o \in BOOLEAN, x \in {1, 5}}
    \cup {[complete |-> TRUE, role |-> r, origin |-> TRUE, abstain |-> a, weights |-> w, risk |-> 2] :
        r \in Roles, a \in BOOLEAN, w \in {Weights(4, 1), Weights(2, 2), Weights(1, 2), Weights(4, 4), Weights(0, 0)}}

MCRanking == <<"last_value", "ridge">>
=============================================================================
