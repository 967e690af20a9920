---------------------------- MODULE Stress2Replay ----------------------------
(***************************************************************************)
(* The Stress-2 baseline run: run_stress2_baselines.main over the causal   *)
(* nested-LOCO replay of experiments/audit_cap/replay.py and the sealed    *)
(* CSV ledger of ledger.py.                                                *)
(*                                                                         *)
(* Every unit is held out once.  Its events are revealed one at a time;    *)
(* all predictions of an origin and their checkpoint are durable before    *)
(* the label service reads the next event.  Scoring starts from the sealed *)
(* ledger after the whole causal order has been verified again.            *)
(*                                                                         *)
(* Abstractions.  A prediction is its key and whether it succeeded; what   *)
(* goes wrong in fitting, predicting, maturing and scaling is a set of     *)
(* faults of the data and the models, fixed at the start.  One target      *)
(* stands for both.  A hash-chained file is the sequence of its rows, a    *)
(* hash of it the rows themselves.  Every row is synced before the next    *)
(* step, so the files are what is on disk.                                 *)
(***************************************************************************)
EXTENDS Integers, FiniteSets, Sequences, SequencesExt

CONSTANTS
    Procs,      \* invocations with the same --output-dir
    N,          \* events of a unit
    LastUnit,   \* the units are 1..LastUnit
    Contexts,   \* --context values tried
    Horizons,   \* --horizons values tried, sequences
    Models,     \* --models values tried, sequences of models
    MaxFaults   \* bound on the faults of one behaviour

ASSUME ReplayAssumption ==
    /\ N \in Nat /\ LastUnit \in Nat /\ LastUnit >= 3
    /\ Contexts \subseteq Nat /\ Horizons \subseteq Seq(Nat) /\ Models \subseteq Seq(STRING)
    /\ MaxFaults \in Nat

LastValue == "last_value"

Units == 1..LastUnit
ModelNames == UNION {ToSet(ms) : ms \in Models}
Steps == (UNION {ToSet(hs) : hs \in Horizons}) \ {0}

\* A model cannot be tuned or fitted for a fold, a prediction raises or is not
\* finite, a label cannot be resolved, a training scale or a baseline error is
\* zero.
Faults ==
    [kind : {"config", "state"}, unit : Units, horizon : Steps, model : ModelNames]
        \cup [kind : {"predict"}, unit : Units, horizon : Steps, model : ModelNames, origin : 1..(N - 2)]
        \cup [kind : {"maturity"}, unit : Units, horizon : Steps, origin : 1..(N - 2)]
        \cup [kind : {"scale"}, unit : Units]
        \cup [kind : {"zero"}, unit : Units, horizon : Steps]

VARIABLES
    request,     \* the command line
    faults,
    created,     \* the prediction ledger and the two logs exist
    ledger,      \* prediction rows
    checkpoints, \* origin checkpoints
    access,      \* authorized reveals
    seal,        \* the rows the seal binds, once it is published
    tables,      \* metrics as published with the other tables
    published,   \* which of tables, summary, manifest and COMPLETE exist
    proc         \* the invocations

vars == <<request, faults, created, ledger, checkpoints, access, seal, tables, published, proc>>

Start == [at |-> "check", unit |-> 1, read |-> 0]

Ends == {"done", "refused", "failed", "killed"}

Points == {"check", "open", "unit", "reveal", "read", "predict", "commit", "seal", "barrier",
           "mature", "tables", "summary", "manifest", "complete"} \cup Ends

Unsealed == <<>>

Init ==
    /\ request \in [context : Contexts, horizons : Horizons, models : Models]
    /\ \E fs \in [1..MaxFaults -> Faults], some \in SUBSET (1..MaxFaults) : faults = {fs[i] : i \in some}
    /\ created = FALSE
    /\ ledger = <<>> /\ checkpoints = <<>> /\ access = <<>>
    /\ seal = Unsealed /\ tables = <<>> /\ published = {}
    /\ proc = [p \in Procs |-> Start]

Goto(p, pc) == proc' = [proc EXCEPT ![p].at = pc]

Distinct(s) == Cardinality(ToSet(s)) = Len(s)

-----------------------------------------------------------------------------
(* Generation *)

\* main: the output directory must be empty.
CheckOutput(p) ==
    /\ proc[p].at = "check"
    /\ Goto(p, IF created \/ published # {} THEN "refused" ELSE "open")
    /\ UNCHANGED <<request, faults, created, ledger, checkpoints, access, seal, tables, published>>

\* Mutant: any positive horizons will do.
AcceptableHorizonsAny == \A h \in ToSet(request.horizons) : h >= 1

\* generate_nested_loco_predictions.  Only names of MODEL_ORDER pass the choices
\* of the command line.
AcceptableHorizons ==
    /\ \A h \in ToSet(request.horizons) : h >= 1
    /\ 1 \in ToSet(request.horizons)
    /\ Distinct(request.horizons)

Acceptable ==
    /\ request.context >= 2
    /\ AcceptableHorizons
    /\ request.models # <<>> /\ Distinct(request.models)

\* The ledger is created exclusively, and the two logs after it.
Open(p) ==
    /\ proc[p].at = "open"
    /\ IF ~Acceptable \/ created
       THEN Goto(p, "failed") /\ UNCHANGED created
       ELSE Goto(p, "unit") /\ created' = TRUE
    /\ UNCHANGED <<request, faults, ledger, checkpoints, access, seal, tables, published>>

\* The next fold: tuning and fitting only see the other units.
StartUnit(p) ==
    /\ proc[p].at = "unit"
    /\ Goto(p, IF proc[p].unit > LastUnit THEN "seal"
               ELSE IF N < request.context THEN "failed" ELSE "reveal")
    /\ UNCHANGED <<request, faults, created, ledger, checkpoints, access, seal, tables, published>>

NextUnit(p) == proc' = [proc EXCEPT ![p] = [at |-> "unit", unit |-> @.unit + 1, read |-> 0]]

Origin(p) == proc[p].read - 1

\* reveal_next: the access is on record before the event is read.
Authorize(p) ==
    /\ proc[p].at = "reveal"
    /\ LET boot == proc[p].read < request.context
           cp == {i \in DOMAIN checkpoints :
                     checkpoints[i].unit = proc[p].unit /\ checkpoints[i].origin = Origin(p)}
       IN IF ~boot /\ cp = {}
          THEN Goto(p, "failed") /\ UNCHANGED access
          ELSE /\ access' = Append(access,
                     [unit |-> proc[p].unit, event |-> proc[p].read, bootstrap |-> boot,
                      checkpoint |-> IF boot THEN 0 ELSE CHOOSE i \in cp : TRUE])
               /\ Goto(p, "read")
    /\ UNCHANGED <<request, faults, created, ledger, checkpoints, seal, tables, published>>

ReadEvent(p) ==
    /\ proc[p].at = "read"
    /\ LET read == proc[p].read + 1
       IN IF read < request.context
          THEN proc' = [proc EXCEPT ![p].read = read, ![p].at = "reveal"]
          ELSE IF read <= N - 1
               THEN proc' = [proc EXCEPT ![p].read = read, ![p].at = "predict"]
               ELSE NextUnit(p)
    /\ UNCHANGED <<request, faults, created, ledger, checkpoints, access, seal, tables, published>>

\* Tuning or fitting failed for the fold (_prepared_model_states).
Unprepared(u, h, m, kind) == [kind |-> kind, unit |-> u, horizon |-> h, model |-> m] \in faults

PredictionStatus(u, o, h, m) ==
    CASE Unprepared(u, h, m, "config") -> "config"
      [] Unprepared(u, h, m, "state") -> "state"
      [] [kind |-> "predict", unit |-> u, horizon |-> h, model |-> m, origin |-> o] \in faults -> "predict"
      [] OTHER -> "OK"

Fits(o, h) == o + h < N

\* Mutant: a prediction that failed leaves no row.
RowsOfSuccessful(u, o) ==
    SelectSeq(FlattenSeq([i \in DOMAIN request.horizons |->
        IF ~Fits(o, request.horizons[i]) THEN <<>>
        ELSE [j \in DOMAIN request.models |->
                 [unit |-> u, origin |-> o, horizon |-> request.horizons[i], model |-> request.models[j],
                  status |-> PredictionStatus(u, o, request.horizons[i], request.models[j])]]]),
        LAMBDA row : row.status = "OK")

\* _predict_revealed_origin: one row per model and horizon that fits, failed
\* ones included.
RowsOf(u, o) ==
    FlattenSeq([i \in DOMAIN request.horizons |->
        IF ~Fits(o, request.horizons[i]) THEN <<>>
        ELSE [j \in DOMAIN request.models |->
                 [unit |-> u, origin |-> o, horizon |-> request.horizons[i], model |-> request.models[j],
                  status |-> PredictionStatus(u, o, request.horizons[i], request.models[j])]]])

Predict(p) ==
    /\ proc[p].at = "predict"
    /\ LET rows == RowsOf(proc[p].unit, Origin(p))
       IN /\ ledger' = ledger \o rows
          /\ IF rows = <<>> THEN NextUnit(p) ELSE Goto(p, "commit")
    /\ UNCHANGED <<request, faults, created, checkpoints, access, seal, tables, published>>

Committed == IF checkpoints = <<>> THEN 0 ELSE checkpoints[Len(checkpoints)].last

\* append_origin, after the rows.
Commit(p) ==
    /\ proc[p].at = "commit"
    /\ checkpoints' = Append(checkpoints,
          [unit |-> proc[p].unit, origin |-> Origin(p), first |-> Committed + 1, last |-> Len(ledger)])
    /\ Goto(p, "reveal")
    /\ UNCHANGED <<request, faults, created, ledger, access, seal, tables, published>>

\* finalize: the chains are closed and bound.
Seal(p) ==
    /\ proc[p].at = "seal"
    /\ seal' = <<ledger, checkpoints, access>>
    /\ Goto(p, "barrier")
    /\ UNCHANGED <<request, faults, created, ledger, checkpoints, access, tables, published>>

-----------------------------------------------------------------------------
(* The causal barrier *)

\* verify_sealed_ledger and the lineage of the seal.
SealHolds == seal = <<ledger, checkpoints, access>>

Before(i) == IF i = 1 THEN 0 ELSE checkpoints[i - 1].last

\* The checkpoints cut the ledger into the batches of their origins.
CheckpointsCover ==
    /\ \A i, j \in DOMAIN checkpoints :
          checkpoints[i].unit = checkpoints[j].unit /\ checkpoints[i].origin = checkpoints[j].origin => i = j
    /\ \A i \in DOMAIN checkpoints :
          /\ checkpoints[i].first = Before(i) + 1 /\ checkpoints[i].first <= checkpoints[i].last
          /\ \A k \in checkpoints[i].first .. checkpoints[i].last :
                k <= Len(ledger) /\ ledger[k].unit = checkpoints[i].unit /\ ledger[k].origin = checkpoints[i].origin
    /\ Committed = Len(ledger)

AccessesOf(log, u) == SelectSeq(log, LAMBDA a : a.unit = u)

\* Events are revealed in order, the context first and without a checkpoint;
\* every predicted origin authorizes exactly the next event; every target of a
\* prediction was revealed.
AccessIsCausal ==
    \A u \in {row.unit : row \in ToSet(ledger)} :
        LET mine == AccessesOf(access, u)
            origins == {row.origin : row \in {r \in ToSet(ledger) : r.unit = u}}
            post == (request.context + 1) .. Len(mine)
        IN /\ \A k \in DOMAIN mine :
                 mine[k].event = k - 1 /\ (mine[k].bootstrap <=> k <= request.context)
           /\ Len(mine) >= request.context
           /\ Cardinality(post) = Cardinality(origins)
           /\ \A k \in post :
                 /\ mine[k].event - 1 \in origins
                 /\ mine[k].checkpoint \in DOMAIN checkpoints
                 /\ checkpoints[mine[k].checkpoint].unit = u
                 /\ checkpoints[mine[k].checkpoint].origin = mine[k].event - 1
           /\ \A row \in ToSet(ledger) : row.unit = u => row.origin + row.horizon < Len(mine)

\* verify_causal_barrier; without any prediction there is no one context.
CausalBarrier == SealHolds /\ CheckpointsCover /\ ledger # <<>> /\ AccessIsCausal

VerifyBarrier(p) ==
    /\ proc[p].at = "barrier"
    /\ Goto(p, IF CausalBarrier THEN "mature" ELSE "failed")
    /\ UNCHANGED <<request, faults, created, ledger, checkpoints, access, seal, tables, published>>

-----------------------------------------------------------------------------
(* Scoring *)

Key(row) == <<row.unit, row.horizon, row.origin>>

\* _assert_common_key_parity.
CommonKeys ==
    \A m1, m2 \in {row.model : row \in ToSet(ledger)} :
        {Key(row) : row \in {r \in ToSet(ledger) : r.model = m1}}
            = {Key(row) : row \in {r \in ToSet(ledger) : r.model = m2}}

Group(m, h, u) == {row \in ToSet(ledger) : row.model = m /\ row.horizon = h /\ row.unit = u}

\* mature_sealed_predictions: the score status of a row; a label that cannot be
\* resolved fails the row of every model.
ScoreStatus(row) ==
    IF [kind |-> "maturity", unit |-> row.unit, horizon |-> row.horizon, origin |-> row.origin] \in faults
    THEN "FAIL_maturity"
    ELSE IF row.status # "OK" THEN "NA_prediction_failed" ELSE "OK"

MetricStatus(m, h, u) ==
    CASE \E row \in Group(m, h, u) : ScoreStatus(row) # "OK" -> "NA_planned_failure"
      [] [kind |-> "scale", unit |-> u] \in faults -> "NA_invalid_training_scale"
      [] OTHER -> "OK"

ComparisonStatus(m, h, u) ==
    CASE Group(LastValue, h, u) = {} -> "NA_last_value_not_run"
      [] MetricStatus(m, h, u) # "OK" \/ MetricStatus(LastValue, h, u) # "OK" -> "NA_planned_failure"
      [] [kind |-> "zero", unit |-> u, horizon |-> h] \in faults -> "NA_zero_last_value_mae"
      [] OTHER -> "OK"

ScoredUnits(m, h) == {u \in Units : Group(m, h, u) # {}}

\* Mutant: units without a metric are left out of the mean.
AggregateSkipping(m, h) ==
    LET units == {u \in ScoredUnits(m, h) : MetricStatus(m, h, u) = "OK"}
    IN [status |-> IF units = {} THEN "NA_planned_failure" ELSE "OK",
        comparison |-> IF units = {} THEN "NA_planned_failure"
                       ELSE IF \A u \in units : ComparisonStatus(m, h, u) = "OK" THEN "OK"
                       ELSE "NA_incomplete_last_value_comparison"]

\* _score_predictions, over all units that were scored.
Aggregate(m, h) ==
    LET units == ScoredUnits(m, h)
        failed == \E u \in units : MetricStatus(m, h, u) # "OK"
    IN [status |-> IF failed THEN "NA_planned_failure" ELSE "OK",
        comparison |-> IF failed THEN "NA_planned_failure"
                       ELSE IF \A u \in units : ComparisonStatus(m, h, u) = "OK" THEN "OK"
                       ELSE "NA_incomplete_last_value_comparison"]

Scored == {k \in ToSet(request.models) \X ToSet(request.horizons) : ScoredUnits(k[1], k[2]) # {}}

\* The seal and the barrier are verified again before any label is resolved.
Mature(p) ==
    /\ proc[p].at = "mature"
    /\ IF CausalBarrier /\ CommonKeys
       THEN tables' = <<[k \in Scored |-> Aggregate(k[1], k[2])]>> /\ Goto(p, "tables")
       ELSE UNCHANGED tables /\ Goto(p, "failed")
    /\ UNCHANGED <<request, faults, created, ledger, checkpoints, access, seal, published>>

-----------------------------------------------------------------------------
(* Publication *)

Publishing == <<"tables", "summary", "manifest", "complete">>

\* Mutant: the marker is written with the manifest's name still free.
PublishUnordered(p) ==
    /\ proc[p].at \in ToSet(Publishing)
    /\ \E next \in (ToSet(Publishing) \cup {"done"}) \ {proc[p].at} :
          /\ published' = published \cup {proc[p].at}
          /\ Goto(p, next)
    /\ UNCHANGED <<request, faults, created, ledger, checkpoints, access, seal, tables>>

\* The tables, the summary, the manifest of all of them and last the marker
\* COMPLETE, which binds the manifest.
Publish(p) ==
    \E i \in DOMAIN Publishing :
        /\ proc[p].at = Publishing[i]
        /\ published' = published \cup {Publishing[i]}
        /\ Goto(p, IF i = Len(Publishing) THEN "done" ELSE Publishing[i + 1])
        /\ UNCHANGED <<request, faults, created, ledger, checkpoints, access, seal, tables>>

Step(p) ==
    \/ CheckOutput(p) \/ Open(p) \/ StartUnit(p) \/ Authorize(p) \/ ReadEvent(p)
    \/ Predict(p) \/ Commit(p) \/ Seal(p) \/ VerifyBarrier(p) \/ Mature(p) \/ Publish(p)

\* An invocation is killed, perhaps with only the first rows of a batch on disk.
Kill(p) ==
    /\ proc[p].at \notin Ends
    /\ Goto(p, "killed")
    /\ \/ UNCHANGED ledger
       \/ /\ proc[p].at = "predict"
          /\ \E rows \in Prefixes(RowsOf(proc[p].unit, Origin(p))) \ {<<>>} : ledger' = ledger \o rows
    /\ UNCHANGED <<request, faults, created, checkpoints, access, seal, tables, published>>

Next == \E p \in Procs : Step(p) \/ Kill(p)

\* An invocation that is not killed runs on.
Spec == Init /\ [][Next]_vars /\ \A p \in Procs : WF_vars(Step(p))

-----------------------------------------------------------------------------
(* Correctness *)

Rows == [unit : Units, origin : 0..(N - 2), horizon : Steps, model : ModelNames,
         status : {"OK", "config", "state", "predict"}]

\* Type invariant; no row predicts an event the stream does not have.
TypeOK ==
    /\ created \in BOOLEAN
    /\ \A row \in ToSet(ledger) : row \in Rows /\ row.origin + row.horizon \in 0..(N - 1)
    /\ \A cp \in ToSet(checkpoints) : cp.unit \in Units /\ cp.origin \in 0..(N - 2)
    /\ \A a \in ToSet(access) : a.unit \in Units /\ a.event \in 0..(N - 1)
    /\ published \subseteq ToSet(Publishing)
    /\ \A p \in Procs :
          proc[p].at \in Points /\ proc[p].unit \in 1..(LastUnit + 1) /\ proc[p].read \in 0..N

\* What must be on disk for an origin: one row for each model and each horizon
\* that ends within the stream, whether it succeeded or not.
Planned(u, o) ==
    {<<u, o, h, m>> : h \in {k \in ToSet(request.horizons) : o + k <= N - 1}, m \in ToSet(request.models)}

\* No peeking: behind every access to an event after the context, in every
\* state and so after every kill, the ledger holds all planned predictions of
\* the origin before it and a checkpoint that bounds exactly them; and no
\* invocation has read an event that is not on record.
NoPeeking ==
    /\ \A a \in ToSet(access) : a.event >= request.context =>
          \E cp \in ToSet(checkpoints) :
             /\ cp.unit = a.unit /\ cp.origin = a.event - 1
             /\ {<<ledger[k].unit, ledger[k].origin, ledger[k].horizon, ledger[k].model>> :
                    k \in cp.first .. cp.last} = Planned(a.unit, a.event - 1)
    /\ \A p \in Procs : \A e \in 0..(proc[p].read - 1) :
          \E a \in ToSet(access) : a.unit = proc[p].unit /\ a.event = e

\* The faults that touch a model at a horizon, by what they are.
Hits(f, m, h) ==
    /\ f.kind \in {"config", "state", "predict", "maturity"} => f.horizon = h
    /\ f.kind \in {"config", "state", "predict"} => f.model = m
    /\ f.kind \in {"predict", "maturity"} => f.origin >= request.context - 1 /\ f.origin + h < N
    /\ f.kind # "zero"

\* No failure is averaged away: the tables have a line for every model and
\* horizon that was planned, it is OK exactly when nothing failed for any unit,
\* and its comparison is OK exactly when last_value ran, did not fail and has a
\* nonzero error everywhere.
NoFailureIsAveragedAway ==
    tables # <<>> =>
        /\ DOMAIN tables[1] =
              ToSet(request.models) \X {h \in ToSet(request.horizons) : request.context - 1 + h < N}
        /\ \A k \in DOMAIN tables[1] :
              LET sound(m) == \A f \in faults : ~Hits(f, m, k[2])
              IN /\ tables[1][k].status = "OK" <=> sound(k[1])
                 /\ tables[1][k].comparison = "OK" <=>
                       /\ sound(k[1]) /\ sound(LastValue) /\ LastValue \in ToSet(request.models)
                       /\ ~\E f \in faults : f.kind = "zero" /\ f.horizon = k[2]

\* A run that carries COMPLETE is whole: sealed, causal, scored and listed.
CompleteRunIsWhole ==
    "complete" \in published => published = ToSet(Publishing) /\ tables # <<>> /\ CausalBarrier

\* A request the command line check lets pass, with more events than context,
\* is carried through by the invocation that opened the ledger unless it is
\* killed: no check behind the seal turns down what the loop itself produced,
\* whichever models, folds or labels failed.
OpenedRunCompletes ==
    \A p \in Procs :
        proc[p].at = "unit" /\ request.context < N ~> proc[p].at \in {"done", "killed"}
=============================================================================
