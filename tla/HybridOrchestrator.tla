-------------------------- MODULE HybridOrchestrator --------------------------
(***************************************************************************)
(* HybridOrchestrator.run of experiments/api_hybrid over the arkcli        *)
(* adapter: one causal request, four topologies, up to three agent roles,  *)
(* two of them in concurrent threads in the parallel debate.               *)
(*                                                                         *)
(* Abstractions.  Weights and risks are multiples of 1/One, forecasts are  *)
(* integers and a fused forecast is scaled by One; a sum of weights may    *)
(* miss One by Tol, the hull by nothing (1e-6 and 1e-12 in the code).      *)
(* What a subprocess may do is the finite set Kinds; an answer that is not *)
(* the object the schema asks for is one of the shapes in Answers.         *)
(***************************************************************************)
EXTENDS Integers, Sequences, FiniteSetsExt

CONSTANTS
    Ranking,     \* candidate models, simplest first
    Keys,        \* forecast keys
    One, Tol,    \* scale of the weights, tolerance on their sum
    Requests,    \* requests that pass CausalForecastRequest.from_mapping
    Answers,     \* raw decisions a model may return
    Threshold,   \* routing threshold for disagreement and OOD scores
    MaxRetries   \* max_network_retries

Models == {Ranking[i] : i \in DOMAIN Ranking}

ASSUME HybridAssumption ==
    /\ Len(Ranking) \in Nat \ {0} /\ DOMAIN Ranking = 1..Len(Ranking)
    /\ IsFiniteSet(Keys)
    /\ One \in Nat \ {0} /\ Tol \in Nat /\ Threshold \in Nat /\ MaxRetries \in Int
    /\ \A raw \in Answers : raw.weights \in [Models -> Int] /\ raw.abstain \in BOOLEAN
    /\ Requests \subseteq [forecast : [Keys -> [Models -> Int]], error : [Keys -> [Models -> Nat]],
                           disagreement : Nat, ood : Nat]

Analyst == "regime_analyst"
Critic == "forecast_critic"
Judge == "fusion_judge"
Roles == {Analyst, Critic, Judge}

Topologies == {"single_agent", "fixed_hierarchy", "parallel_debate", "dynamic_route"}

\* Real calls, a dry run, and real calls without credentials in the environment.
Modes == {"real", "dry", "bare"}

VARIABLES
    request, topology, mode,
    at,       \* where run stands
    call,     \* per role: the _call and the adapter's attempts in it
    result    \* the HybridResult

vars == <<request, topology, mode, at, call, result>>

NoDecision == [abstain |-> TRUE, weights |-> [m \in Models |-> 0], risk |-> -1]
NoRecord == [status |-> "none", error |-> "none"]
NoResult == [status |-> "none"]

Idle == [at |-> "idle", sees |-> <<>>, heard |-> <<>>, record |-> NoRecord, decision |-> NoDecision]

Init ==
    /\ request \in Requests /\ topology \in Topologies /\ mode \in Modes
    /\ at = "run"
    /\ call = [r \in Roles |-> Idle]
    /\ result = NoResult

-----------------------------------------------------------------------------
(* The adapter and _call *)

Attempts == 1 + IF MaxRetries > 0 THEN MaxRetries ELSE 0

\* Mutant: an answer whose content does not parse is asked for again.
RetryableAlsoGarbled == {"timeout", "busy", "invalid_content"}

\* A timeout, or stderr with one of 429, rate limit, 500, 502, 503, 504.
Retryable == {"timeout", "busy"}

\* A missing arkcli, a response that is JSON but no object, and an answer with
\* an integer that no float can hold (which _call does not catch) raise.
Raising == {"no_cli", "not_object", "huge_number"}

\* What an attempt may come to; an answer is told apart by _call.
Kinds ==
    Retryable \cup {"no_cli", "not_object", "cli_failure", "invalid_json"}
        \cup (IF mode = "dry"
              THEN {"preview", "invalid_preview"}
              ELSE {"missing_content", "invalid_content", "not_mapping", "huge_number", "answer"})

ProviderStatus(kind) ==
    CASE kind = "preview" -> "DRY_RUN"
      [] kind \in {"not_mapping", "answer"} -> "OK"
      [] OTHER -> "ERROR"

Total(w) == MapThenSumSet(LAMBDA m : w[m], Models)

\* parse_agent_decision.
Accepts(raw, r) ==
    /\ raw.complete /\ raw.role = r /\ raw.origin
    /\ \A m \in Models : raw.weights[m] \in 0..One
    /\ IF raw.abstain THEN Total(raw.weights) = 0 ELSE Total(raw.weights) \in (One - Tol)..(One + Tol)
    /\ raw.risk \in 0..One

Asked(r, upstream) == [Idle EXCEPT !.at = "asking", !.sees = upstream]

\* _child_environment: no credentials for a real call.
Refuse(r) ==
    /\ call[r].at = "asking" /\ mode = "bare"
    /\ call' = [call EXCEPT ![r].at = "raised"]
    /\ UNCHANGED <<request, topology, mode, at, result>>

Heard(r, kind) == Append(call[r].heard, kind)

Retry(r) ==
    /\ call[r].at = "asking" /\ mode # "bare"
    /\ Len(call[r].heard) + 1 < Attempts
    /\ \E kind \in Kinds \cap Retryable : call' = [call EXCEPT ![r].heard = Heard(r, kind)]
    /\ UNCHANGED <<request, topology, mode, at, result>>

Break(r) ==
    /\ call[r].at = "asking" /\ mode # "bare"
    /\ \E kind \in Kinds \cap Raising : call' = [call EXCEPT ![r].heard = Heard(r, kind), ![r].at = "raised"]
    /\ UNCHANGED <<request, topology, mode, at, result>>

\* invoke returns a result with no decision in it.
CloseEmpty(r) ==
    /\ call[r].at = "asking" /\ mode # "bare"
    /\ \E kind \in Kinds \ (Raising \cup {"answer"}) :
        /\ kind \in Retryable => Len(call[r].heard) + 1 = Attempts
        /\ call' = [call EXCEPT ![r].at = "closed", ![r].heard = Heard(r, kind),
                                ![r].record = [status |-> ProviderStatus(kind), error |-> kind]]
    /\ UNCHANGED <<request, topology, mode, at, result>>

\* invoke returns a decision, which is accepted or recorded as invalid.
CloseAnswer(r) ==
    /\ call[r].at = "asking" /\ mode # "bare" /\ "answer" \in Kinds
    /\ \E raw \in Answers :
        LET closed == [call[r] EXCEPT !.at = "closed", !.heard = Heard(r, "answer")] IN
        call' = [call EXCEPT ![r] =
            IF Accepts(raw, r)
            THEN [closed EXCEPT !.record = [status |-> "OK", error |-> "none"],
                                !.decision = [abstain |-> raw.abstain, weights |-> raw.weights, risk |-> raw.risk]]
            ELSE [closed EXCEPT !.record = [status |-> "INVALID_DECISION", error |-> "schema"]]]
    /\ UNCHANGED <<request, topology, mode, at, result>>

-----------------------------------------------------------------------------
(* Fusion and fallback *)

MacroError(m) == MapThenSumSet(LAMBDA k : request.error[k][m], Keys)

FallbackWeights ==
    LET best == {i \in DOMAIN Ranking : \A j \in DOMAIN Ranking : MacroError(Ranking[i]) <= MacroError(Ranking[j])}
    IN  [m \in Models |-> IF m = Ranking[Min(best)] THEN One ELSE 0]

Fused(w) == [k \in Keys |-> MapThenSumSet(LAMBDA m : w[m] * request.forecast[k][m], Models)]

Points(k) == {request.forecast[k][m] : m \in Models}

InHull(forecast) ==
    \A k \in Keys : forecast[k] \in (One * Min(Points(k)))..(One * Max(Points(k)))

CallRecord(r) == [role |-> r, status |-> call[r].record.status, error |-> call[r].record.error]

\* The calls of a result, in the order the code lists them.
CallsOf(roles) == [i \in DOMAIN roles |-> CallRecord(roles[i])]

Return(res) == result' = res /\ at' = "returned"

Fallback(roles, reason) ==
    /\ Return([status |-> "FALLBACK", weights |-> FallbackWeights, forecast |-> Fused(FallbackWeights),
               risk |-> One, reason |-> reason, calls |-> CallsOf(roles)])
    /\ UNCHANGED call

\* convex_fuse raises when the weighted sum leaves the hull.
Fuse(roles) ==
    LET w == call[Judge].decision.weights
        risks == {call[roles[i]].decision.risk : i \in DOMAIN roles}
    IN  IF InHull(Fused(w))
        THEN Return([status |-> "OK", weights |-> w, forecast |-> Fused(w), risk |-> Max(risks),
                     reason |-> "none", calls |-> CallsOf(roles)])
        ELSE at' = "raised" /\ UNCHANGED result

-----------------------------------------------------------------------------
(* run *)

Failed(r) == call[r].decision = NoDecision

Triggered == request.disagreement > Threshold \/ request.ood > Threshold

Ask(r, upstream, next) ==
    /\ at' = next
    /\ call' = [call EXCEPT ![r] = Asked(r, upstream)]
    /\ UNCHANGED result

NumericOnly ==
    /\ at = "run" /\ topology = "dynamic_route" /\ ~Triggered
    /\ Return([status |-> "NUMERIC_ONLY", weights |-> FallbackWeights, forecast |-> Fused(FallbackWeights),
               risk |-> Min({One, Max({request.disagreement, request.ood})}), reason |-> "none", calls |-> <<>>])
    /\ UNCHANGED <<request, topology, mode, call>>

Single ==
    /\ at = "run"
    /\ topology = "single_agent" \/ (topology = "dynamic_route" /\ Triggered)
    /\ Ask(Judge, <<>>, "judge")
    /\ UNCHANGED <<request, topology, mode>>

Hierarchy ==
    /\ at = "run" /\ topology = "fixed_hierarchy"
    /\ Ask(Analyst, <<>>, "analyst")
    /\ UNCHANGED <<request, topology, mode>>

Parallel ==
    /\ at = "run" /\ topology = "parallel_debate"
    /\ at' = "pool"
    /\ call' = [call EXCEPT ![Analyst] = Asked(Analyst, <<>>), ![Critic] = Asked(Critic, <<>>)]
    /\ UNCHANGED <<request, topology, mode, result>>

AfterAnalyst ==
    /\ at = "analyst" /\ call[Analyst].at = "closed"
    /\ IF Failed(Analyst)
       THEN Fallback(<<Analyst>>, "regime_agent_failure")
       ELSE Ask(Critic, <<call[Analyst].decision>>, "critic")
    /\ UNCHANGED <<request, topology, mode>>

Both == <<call[Analyst].decision, call[Critic].decision>>

AfterCritic ==
    /\ at = "critic" /\ call[Critic].at = "closed"
    /\ IF Failed(Critic)
       THEN Fallback(<<Analyst, Critic>>, "critic_agent_failure")
       ELSE Ask(Judge, Both, "judge")
    /\ UNCHANGED <<request, topology, mode>>

\* Mutant: one member's decision will do.
AfterPoolEither ==
    /\ at = "pool" /\ \A r \in {Analyst, Critic} : call[r].at = "closed"
    /\ IF Failed(Analyst) /\ Failed(Critic)
       THEN Fallback(<<Analyst, Critic>>, "parallel_debate_member_failure")
       ELSE Ask(Judge, Both, "judge")
    /\ UNCHANGED <<request, topology, mode>>

\* Leaving the pool waits for both members, whichever ends first.
AfterPool ==
    /\ at = "pool" /\ \A r \in {Analyst, Critic} : call[r].at = "closed"
    /\ IF Failed(Analyst) \/ Failed(Critic)
       THEN Fallback(<<Analyst, Critic>>, "parallel_debate_member_failure")
       ELSE Ask(Judge, Both, "judge")
    /\ UNCHANGED <<request, topology, mode>>

AfterJudge ==
    /\ at = "judge" /\ call[Judge].at = "closed"
    /\ LET roles == IF topology \in {"fixed_hierarchy", "parallel_debate"} THEN <<Analyst, Critic, Judge>> ELSE <<Judge>>
       IN  IF Failed(Judge) \/ call[Judge].decision.abstain
           THEN Fallback(roles, "judge_failure_or_abstention")
           ELSE Fuse(roles) /\ UNCHANGED call
    /\ UNCHANGED <<request, topology, mode>>

\* Mutants: a member's exception ends the run at once; it is never collected.
PropagateAtOnce ==
    /\ at \in {"analyst", "critic", "judge", "pool"}
    /\ \E r \in Roles : call[r].at = "raised"
    /\ at' = "raised"
    /\ UNCHANGED <<request, topology, mode, call, result>>

PropagateOutsidePool ==
    /\ at \in {"analyst", "critic", "judge"}
    /\ \E r \in Roles : call[r].at = "raised"
    /\ at' = "raised"
    /\ UNCHANGED <<request, topology, mode, call, result>>

\* What invoke raises leaves run, from the pool only when both members ended.
Propagate ==
    /\ at \in {"analyst", "critic", "judge", "pool"}
    /\ \E r \in Roles : call[r].at = "raised"
    /\ \A r \in Roles : call[r].at # "asking"
    /\ at' = "raised"
    /\ UNCHANGED <<request, topology, mode, call, result>>

Adapter(r) == Refuse(r) \/ Retry(r) \/ Break(r) \/ CloseEmpty(r) \/ CloseAnswer(r)

Run ==
    \/ NumericOnly \/ Single \/ Hierarchy \/ Parallel
    \/ AfterAnalyst \/ AfterCritic \/ AfterPool \/ AfterJudge \/ Propagate

Next == Run \/ \E r \in Roles : Adapter(r)

\* Every attempt has a time limit and run never waits for anything else.
Spec == Init /\ [][Next]_vars /\ WF_vars(Run) /\ \A r \in Roles : WF_vars(Adapter(r))

-----------------------------------------------------------------------------
(* Properties *)

Ended == at \in {"returned", "raised"}

Decisions == [abstain : BOOLEAN, weights : [Models -> 0..One], risk : 0..One] \cup {NoDecision}

Statuses == {"OK", "ERROR", "DRY_RUN", "INVALID_DECISION"}

\* Types; a call is idle until it is asked and closes with the decision its
\* record speaks of; a result stands exactly where run returned one.
TypeOK ==
    /\ request \in Requests /\ topology \in Topologies /\ mode \in Modes
    /\ at \in {"run", "analyst", "critic", "pool", "judge", "returned", "raised"}
    /\ \A r \in Roles :
        /\ call[r].at \in {"idle", "asking", "closed", "raised"}
        /\ call[r].decision \in Decisions
        /\ (call[r].at = "closed") <=> (call[r].record.status \in Statuses)
        /\ ~Failed(r) => call[r].record.status = "OK"
    /\ (at = "returned") <=> (result # NoResult)

RolesOf(t) == IF t \in {"single_agent", "dynamic_route"} THEN {Judge} ELSE Roles

\* The reason of a result without agents names the member that failed, or the
\* judge, and nobody was asked after it.
ReasonIsTrue ==
    /\ result.reason = "regime_agent_failure" => Failed(Analyst) /\ call[Critic] = Idle
    /\ result.reason = "critic_agent_failure" => ~Failed(Analyst) /\ Failed(Critic) /\ call[Judge] = Idle
    /\ result.reason = "parallel_debate_member_failure" =>
          (Failed(Analyst) \/ Failed(Critic)) /\ call[Judge] = Idle
    /\ result.reason = "judge_failure_or_abstention" =>
          /\ \A r \in RolesOf(topology) \ {Judge} : ~Failed(r)
          /\ Failed(Judge) \/ call[Judge].decision.abstain
    /\ result.reason = "none" => \A r \in Roles : call[r] = Idle

\* A result with status OK rests on an accepted decision of every role of its
\* topology: the judge did not abstain, it was shown the decisions of both
\* other members as they were accepted, the weights are its own, the forecast
\* lies in the hull of the candidates and the risk is at least every member's.
\* Any other result is the forecast of one candidate no other beats in training,
\* its reason says truly where the topology broke off, and nothing an agent
\* answered has a say in it.
ResultIsEarned ==
    /\ result.status = "OK" =>
        /\ \A r \in RolesOf(topology) : ~Failed(r) /\ call[r].decision.risk <= result.risk
        /\ ~call[Judge].decision.abstain /\ result.weights = call[Judge].decision.weights
        /\ call[Judge].sees = IF RolesOf(topology) = Roles THEN Both ELSE <<>>
        /\ InHull(result.forecast)
    /\ result.status \in {"FALLBACK", "NUMERIC_ONLY"} =>
        /\ \E m \in Models :
            /\ \A n \in Models : MacroError(m) <= MacroError(n)
            /\ \A k \in Keys : result.forecast[k] = One * request.forecast[k][m]
        /\ ReasonIsTrue

\* A role is asked again only while no answer of any kind has come back, and
\* never more often than the configuration allows; and the calls of a result
\* name every role that was asked, each once, with the status of its last
\* attempt, whichever member of the pool ended first.
CallsAreAccounted ==
    /\ \A r \in Roles :
        /\ Len(call[r].heard) <= Attempts
        /\ \A i \in 1..(Len(call[r].heard) - 1) : call[r].heard[i] \in {"timeout", "busy"}
    /\ result # NoResult =>
        /\ {result.calls[i].role : i \in DOMAIN result.calls} = {r \in Roles : call[r] # Idle}
        /\ Len(result.calls) = Cardinality({r \in Roles : call[r] # Idle})
        /\ \A i \in DOMAIN result.calls :
            /\ result.calls[i].status = call[result.calls[i].role].record.status
            /\ i > 1 => result.calls[i - 1].role # Judge

\* When run returns or raises no attempt is under way: no member of the pool
\* outlives the run that submitted it.
NothingOutlivesTheRun == Ended => \A r \in Roles : call[r].at # "asking"

\* Every run ends.
RunEnds == <>Ended

\* A run fails only when a call failed: what the schema accepts of a judge can
\* be fused, so an answer never costs the origin its forecast.
AcceptedDecisionYieldsResult == at = "raised" => \E r \in Roles : call[r].at = "raised"
=============================================================================
