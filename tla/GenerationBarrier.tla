------------------------- MODULE GenerationBarrier -------------------------
(***************************************************************************)
(* One generation: the frozen plan of fold-by-arm cells, the barrier over  *)
(* all of their predictions, the joint unseal, the authorization of each   *)
(* cell's FINALIZE, and the seal of the scoring inputs                     *)
(* (experiments/vfps_agent/generation_barrier.py and the formal half of    *)
(* evaluator_service.py).                                                  *)
(*                                                                         *)
(* A cell is a run directory with its evaluator process.  Modules CAPRun   *)
(* and EvaluatorSession have their insides; here a cell keeps what the     *)
(* barrier reads of it, and the stages of FINALIZE.                        *)
(*                                                                         *)
(* A session is "shut" once its journal refuses to be opened again: after  *)
(* an ABORTED REVEAL, after a death between a journal line and the head    *)
(* that names it, and after a torn line.                                   *)
(*                                                                         *)
(* Abstractions.  A hash of an artifact is the artifact's content.  The    *)
(* context prefix is not counted: revealed counts post-commit reveals.     *)
(* Every plan, binding and artifact is read from the one path it has.      *)
(***************************************************************************)
EXTENDS Integers, FiniteSets

CONSTANTS
    Folds, Arms,  \* the axes of the plan; Arms is the canonical registry
    Physical,     \* the arms whose answers must carry Ark evidence
    Replay,       \* post-commit reveals every cell expects
    Sealers,      \* processes that may seal the prediction barrier
    LaunchModes,  \* how the launcher starts evaluators
    MaxCrashes,   \* bound on process deaths
    MaxFaults,    \* bound on failed writes
    None

ASSUME GenerationAssumption ==
    /\ Folds # {} /\ Arms # {} /\ Physical \subseteq Arms
    /\ Replay \in Nat \ {0}
    /\ LaunchModes \subseteq {"formal", "legacy"}
    /\ MaxCrashes \in Nat /\ MaxFaults \in Nat

Pairs == Folds \X Arms

\* How an origin was answered: with Ark evidence, without, or under another
\* policy or arm than the cell's.
Kinds == {"attested", "mock", "foreign"}

\* GENERATION_JOINT_UNSEAL.json; a complete one binds every cell of the plan
\* and its session.
Unseals == {"none", "torn", "complete"}

Receipts == [predictions: 0..(Replay + 1), revealed: 0..Replay, kinds: SUBSET Kinds]

VARIABLES
    plan,      \* the frozen plan, or None
    cell,      \* per cell: its run directory and session
    sealer,    \* per sealer: the receipts it has built, or None when idle
    barrier,   \* the prediction barrier: receipt of every cell, or None
    unseal,    \* the joint unseal file, in Unseals
    launcher,  \* control point of the launcher, or "dead"
    joint,     \* the supervisors hold _joint_unseal_hash
    score,     \* the score-input seal: receipt of every cell, or None
    crashes, faults

vars == <<plan, cell, sealer, barrier, unseal, launcher, joint, score, crashes, faults>>

\* stage: 0, then ACCESS sealed (1), labels written (2), run sealed (3).
\* session: the journal of the evaluator.  authorized: issued by the supervisor.
\* torn: a write of the run directory's ledger or seal was cut short.
NewCell == [mode |-> "none", process |-> "down", session |-> "none",
            predictions |-> 0, revealed |-> 0, kinds |-> {}, sealed |-> FALSE,
            torn |-> FALSE, stage |-> 0, authorized |-> FALSE]

Init ==
    /\ plan = None
    /\ cell = [c \in Pairs |-> NewCell]
    /\ sealer = [s \in Sealers |-> None]
    /\ barrier = None
    /\ unseal = "none"
    /\ launcher = "free"
    /\ joint = FALSE
    /\ score = None
    /\ crashes = 0 /\ faults = 0

-----------------------------------------------------------------------------
(* The plan *)

Admissions == {"ADMITTED", "NA", "BLOCKED"}

\* attestation: FrozenGenerationArmAdmission.requires_attested_ark per arm.
Plans == [formal: BOOLEAN, status: [Arms -> Admissions], attestation: SUBSET Arms,
          cells: SUBSET Pairs]

Admitted(p) == IF p.formal THEN {a \in Arms : p.status[a] = "ADMITTED"} ELSE Arms

\* FrozenGenerationPlan.__post_init__: the cells are the Cartesian plan.  A
\* local plan carries no admissions.
ValidPlan(p) ==
    /\ p.formal => p.attestation = Physical /\ Admitted(p) # {}
    /\ ~p.formal => p.attestation = {} /\ p.status = [a \in Arms |-> "NA"]
    /\ p.cells = Folds \X Admitted(p)

\* seal_generation_plan: published whole, never replaced.
SealPlan(p) ==
    /\ plan = None /\ launcher = "free"
    /\ ValidPlan(p)
    /\ plan' = p
    /\ UNCHANGED <<cell, sealer, barrier, unseal, launcher, joint, score, crashes, faults>>

Cells == IF plan = None THEN {} ELSE plan.cells

-----------------------------------------------------------------------------
(* One cell: launch, predict, reveal, seal *)

Formal(c) == cell[c].mode = "formal"

Update(c, new) ==
    /\ cell' = [cell EXCEPT ![c] = new]
    /\ UNCHANGED <<plan, sealer, barrier, unseal, launcher, joint, score>>

\* bind_formal_generation and verify_formal_generation_binding: only a cell of
\* a formal plan can be bound.
Bound(c) == plan.formal /\ c \in Cells

\* Mutant: the lock of a session is taken for the generation, not for a cell.
LaunchCellAlone(c, mode) ==
    /\ launcher = "free" /\ \A d \in Cells : cell[d].session # "open"
    /\ cell[c].session = "none"
    /\ mode = "formal" => Bound(c)
    /\ Update(c, [cell[c] EXCEPT !.mode = mode, !.process = "up", !.session = "open"])
    /\ UNCHANGED <<crashes, faults>>

\* start_isolated_evaluator with _verify_formal_launch: without a binding the
\* evaluator is a legacy one.  A run directory has one session.
LaunchCell(c, mode) ==
    /\ launcher = "free" /\ cell[c].session = "none"
    /\ mode = "formal" => Bound(c)
    /\ Update(c, [cell[c] EXCEPT !.mode = mode, !.process = "up", !.session = "open"])
    /\ UNCHANGED <<crashes, faults>>

\* CAPAccuracyRun.run_origin on the latest revealed event.
Predict(c, kind) ==
    LET k == cell[c] IN
    /\ launcher # "dead" /\ k.session # "none"
    /\ ~k.sealed /\ ~k.torn /\ k.predictions = k.revealed
    /\ Update(c, [k EXCEPT !.predictions = @ + 1, !.kinds = @ \cup {kind}])
    /\ UNCHANGED <<crashes, faults>>

\* A formal evaluator accepts only checkpoints of the cell's policy, and the
\* held-out stream has an end.
MayReveal(c) ==
    LET k == cell[c] IN
    /\ k.predictions > k.revealed /\ k.revealed < Replay
    /\ Formal(c) => "foreign" \notin k.kinds

\* The evaluator reveals the next event.  A checkpoint that it refuses, and a
\* reveal past the end, are journaled as ABORTED: the session is over.
Reveal(c) ==
    LET k == cell[c] IN
    /\ launcher # "dead" /\ k.process = "up" /\ k.session = "open"
    /\ k.predictions > k.revealed
    /\ Update(c, IF MayReveal(c) THEN [k EXCEPT !.revealed = @ + 1]
                 ELSE [k EXCEPT !.session = "shut", !.process = "down"])
    /\ UNCHANGED <<crashes, faults>>

\* The evaluator ends and leaves a journal that refuses to be opened, with the
\* event of the open request revealed or not.
Shuts(c) ==
    LET k == cell[c] IN
    \E event \in {0, 1} :
        /\ event = 1 => MayReveal(c)
        /\ Update(c, [k EXCEPT !.session = "shut", !.process = "down",
                               !.revealed = @ + event])

\* A write of the request fails, its answer cannot be sent even though it was
\* COMPLETED, or it came out of turn.
RequestFails(c) ==
    /\ cell[c].process = "up" /\ cell[c].session = "open"
    /\ faults < MaxFaults /\ faults' = faults + 1
    /\ Shuts(c)
    /\ UNCHANGED crashes

\* seal_prediction_phase, at any time.
SealPhase(c) ==
    /\ launcher # "dead" /\ cell[c].session # "none" /\ ~cell[c].sealed /\ ~cell[c].torn
    /\ Update(c, [cell[c] EXCEPT !.sealed = TRUE])
    /\ UNCHANGED <<crashes, faults>>

\* The write of a ledger line or of the phase's seal fails halfway: from now on
\* the run directory's files refuse to be read.
TearLedger(c) ==
    /\ launcher # "dead" /\ cell[c].session # "none" /\ ~cell[c].sealed /\ ~cell[c].torn
    /\ faults < MaxFaults /\ faults' = faults + 1
    /\ Update(c, [cell[c] EXCEPT !.torn = TRUE])
    /\ UNCHANGED crashes

\* An evaluator dies, between two requests or inside one: with the journal
\* whole, or ahead of its head, or torn.
Crash(c) ==
    /\ crashes < MaxCrashes /\ cell[c].process = "up"
    /\ \/ Update(c, [cell[c] EXCEPT !.process = "down"])
       \/ cell[c].session = "open" /\ Shuts(c)
    /\ crashes' = crashes + 1
    /\ UNCHANGED faults

\* EvaluatorSupervisor.restart: the journal refuses an open FINALIZE, a session
\* that has ended and one that is shut.
Restart(c) ==
    /\ launcher # "dead"
    /\ cell[c].process = "down" /\ cell[c].session = "open"
    /\ Update(c, [cell[c] EXCEPT !.process = "up"])
    /\ UNCHANGED <<crashes, faults>>

-----------------------------------------------------------------------------
(* The prediction barrier *)

ReceiptOf(c) == [predictions |-> cell[c].predictions, revealed |-> cell[c].revealed,
                 kinds |-> cell[c].kinds]

\* Mutant: an unfinished replay earns a receipt.
EarnsReceiptUnfinished(c) ==
    cell[c].stage = 0 /\ cell[c].sealed /\ cell[c].predictions > 0
                      /\ "foreign" \notin cell[c].kinds

\* Mutant: a mock answer passes as Ark evidence.
EarnsReceiptMock(c) == EarnsReceiptUnfinished(c) /\ cell[c].revealed = Replay

\* _verify_attested_attempt_records: evidence for every physical slot.
Attested(c) == cell[c].kinds = {"attested"}

\* _build_cell_receipt: no artifact of scoring yet, the prediction phase and
\* the access ledger verify, every attempt is the cell's own, the replay is
\* complete, and a physical arm has Ark evidence for every slot.
EarnsReceipt(c) ==
    LET k == cell[c] IN
    /\ k.stage = 0
    /\ k.sealed
    /\ k.predictions > 0 /\ "foreign" \notin k.kinds
    /\ k.revealed = Replay
    /\ c[2] \in plan.attestation => Attested(c)

\* seal_generation_prediction_barrier opens the plan and visits the cells.
BeginSeal(s) ==
    /\ plan # None /\ sealer[s] = None
    /\ sealer' = [sealer EXCEPT ![s] = <<>>]
    /\ UNCHANGED <<plan, cell, barrier, unseal, launcher, joint, score, crashes, faults>>

\* Receipts in the canonical order of the cells; any order is taken here.
Visit(s, c) ==
    /\ sealer[s] # None /\ c \notin DOMAIN sealer[s]
    /\ sealer' = [sealer EXCEPT ![s] =
                    IF EarnsReceipt(c)
                    THEN [d \in DOMAIN @ \cup {c} |-> IF d = c THEN ReceiptOf(c) ELSE @[d]]
                    ELSE None]
    /\ UNCHANGED <<plan, cell, barrier, unseal, launcher, joint, score, crashes, faults>>

Whole(s) == DOMAIN sealer[s] = Cells

\* _write_atomic_exclusive: a temporary file, linked to a path that must be
\* free.  A rival's barrier is never replaced.
PublishBarrier(s) ==
    /\ sealer[s] # None /\ Whole(s)
    /\ barrier' = IF barrier = None THEN sealer[s] ELSE barrier
    /\ sealer' = [sealer EXCEPT ![s] = None]
    /\ UNCHANGED <<plan, cell, unseal, launcher, joint, score, crashes, faults>>

\* _parse_prediction_barrier.
BarrierVerifies == barrier # None /\ DOMAIN barrier = Cells

-----------------------------------------------------------------------------
(* The joint unseal *)

\* The checks of issue_generation_joint_unseal_authorization.
MayUnseal ==
    /\ plan # None /\ BarrierVerifies /\ unseal = "none" /\ ~joint
    /\ \A c \in Cells : Formal(c) /\ cell[c].process = "up"

\* _write_joint_unseal_exclusive creates the final path first...
CreateUnseal ==
    /\ launcher = "free" /\ MayUnseal
    /\ unseal' = "torn"
    /\ launcher' = "writing"
    /\ UNCHANGED <<plan, cell, sealer, barrier, joint, score, crashes, faults>>

\* ... then fills it in place, syncs file and directory, and only then are the
\* supervisors told.  A write or a sync that raises leaves the path occupied.
WriteUnseal ==
    /\ launcher = "writing"
    /\ launcher' = "free"
    /\ \/ unseal' = "complete" /\ joint' = TRUE /\ UNCHANGED faults
       \/ /\ faults < MaxFaults /\ faults' = faults + 1
          /\ unseal' \in {"torn", "complete"}
          /\ UNCHANGED joint
    /\ UNCHANGED <<plan, cell, sealer, barrier, score, crashes>>

-----------------------------------------------------------------------------
(* FINALIZE *)

\* verify_finalize_permit with reverify_cell.
PermitHolds(c) == BarrierVerifies /\ EarnsReceipt(c) /\ ReceiptOf(c) = barrier[c]

\* Mutant: a supervisor signs without the joint unseal.
MayAuthorizeAlone(c) == ~cell[c].authorized /\ cell[c].process = "up"

MayAuthorize(c) == ~cell[c].authorized /\ cell[c].process = "up" /\ joint

\* EvaluatorSupervisor.issue_formal_finalize_authorization: once per session.
Authorize(c) ==
    /\ launcher = "free" /\ Formal(c)
    /\ MayAuthorize(c) /\ PermitHolds(c)
    /\ Update(c, [cell[c] EXCEPT !.authorized = TRUE])
    /\ UNCHANGED <<crashes, faults>>

\* finalize_and_score: the evaluator journals FINALIZE before it runs it.  A
\* formal client does not send without an authorization.
SendFinalize(c) ==
    /\ launcher # "dead" /\ cell[c].process = "up" /\ cell[c].session = "open"
    /\ Formal(c) => cell[c].authorized
    /\ Update(c, [cell[c] EXCEPT !.session = "finalizing"])
    /\ UNCHANGED <<crashes, faults>>

\* seal_access_and_mature: the replay is complete and the evidence verifies.
MayScore(c) == cell[c].revealed = Replay /\ cell[c].sealed

\* _run_operation FINALIZE: the checks, then the first artifact, or ABORTED.
StartScoring(c) ==
    LET k == cell[c] IN
    /\ k.process = "up" /\ k.session = "finalizing" /\ k.stage = 0
    /\ IF MayScore(c) /\ (Formal(c) => PermitHolds(c))
       THEN Update(c, [k EXCEPT !.stage = 1])
       ELSE Update(c, [k EXCEPT !.session = "aborted", !.process = "down"])
    /\ UNCHANGED <<crashes, faults>>

\* MATURITY, the run seal, and the COMPLETED line.
ContinueScoring(c) ==
    LET k == cell[c] IN
    /\ k.process = "up" /\ k.session = "finalizing" /\ k.stage > 0
    /\ IF k.stage < 3 THEN Update(c, [k EXCEPT !.stage = @ + 1])
       ELSE Update(c, [k EXCEPT !.session = "completed", !.process = "down"])
    /\ UNCHANGED <<crashes, faults>>

\* A write of FINALIZE raises: the request is ABORTED, the session is over.
ScoringFails(c) ==
    LET k == cell[c] IN
    /\ k.process = "up" /\ k.session = "finalizing"
    /\ faults < MaxFaults /\ faults' = faults + 1
    /\ Update(c, [k EXCEPT !.session = "aborted", !.process = "down"])
    /\ UNCHANGED crashes

-----------------------------------------------------------------------------
(* Scoring inputs; death of the launcher *)

\* Mutant: a run counts as complete with its labels, sealed or not.
CompleteRunUnsealed(c) == cell[c].stage >= 2 /\ cell[c].sealed

\* verify_complete_run: the final run seal verifies.
CompleteRun(c) == cell[c].stage = 3 /\ cell[c].sealed

\* seal_generation_score_inputs, by any process: all that it reads is final.
SealScoreInputs ==
    /\ plan # None /\ BarrierVerifies /\ score = None
    /\ \A c \in Cells : CompleteRun(c) /\ ReceiptOf(c) = barrier[c]
    /\ score' = [c \in Cells |-> ReceiptOf(c)]
    /\ UNCHANGED <<plan, cell, sealer, barrier, unseal, launcher, joint, crashes, faults>>

\* The session keys, _joint_unseal_hash and the pipes die with the launcher;
\* an evaluator ends when its pipe does.
LauncherDies ==
    /\ crashes < MaxCrashes /\ crashes' = crashes + 1
    /\ launcher' = "dead"
    /\ joint' = FALSE
    /\ cell' = [c \in Pairs |-> IF cell[c].session = "finalizing" THEN cell[c]
                                ELSE [cell[c] EXCEPT !.process = "down"]]
    /\ UNCHANGED <<plan, sealer, barrier, unseal, score, faults>>

-----------------------------------------------------------------------------
CellStep(c) ==
    \/ \E mode \in LaunchModes : LaunchCell(c, mode)
    \/ \E kind \in Kinds : Predict(c, kind)
    \/ Reveal(c) \/ RequestFails(c) \/ SealPhase(c) \/ TearLedger(c)
    \/ Crash(c) \/ Restart(c)
    \/ Authorize(c) \/ SendFinalize(c)
    \/ StartScoring(c) \/ ContinueScoring(c) \/ ScoringFails(c)

Next ==
    \/ plan = None /\ \E p \in Plans : SealPlan(p)
    \/ \E c \in Cells : CellStep(c)
    \/ \E s \in Sealers : BeginSeal(s) \/ PublishBarrier(s) \/ \E c \in Cells : Visit(s, c)
    \/ CreateUnseal \/ WriteUnseal
    \/ SealScoreInputs
    \/ launcher # "dead" /\ LauncherDies

Spec == Init /\ [][Next]_vars

\* The driver of a cell, the supervisor's calls about it, its evaluator, the
\* sealers and the coordinator keep running, each a thread of its own: nothing
\* is fair about which call a thread chooses, about deaths or failed writes.
FairSpec ==
    /\ Spec
    /\ \A c \in Pairs :
          /\ WF_vars(c \in Cells /\ \/ \E mode \in LaunchModes : LaunchCell(c, mode)
                                    \/ \E kind \in Kinds : Predict(c, kind)
                                    \/ Reveal(c) \/ SealPhase(c))
          /\ WF_vars(c \in Cells /\ (Restart(c) \/ Authorize(c) \/ SendFinalize(c)))
          /\ WF_vars(c \in Cells /\ (StartScoring(c) \/ ContinueScoring(c)))
    /\ \A s \in Sealers :
          WF_vars(BeginSeal(s) \/ PublishBarrier(s) \/ \E c \in Cells : Visit(s, c))
    /\ WF_vars(\/ plan = None /\ \E p \in Plans : SealPlan(p)
               \/ CreateUnseal \/ WriteUnseal \/ SealScoreInputs)

-----------------------------------------------------------------------------
(* Properties *)

CellRecords == [mode: {"none", "formal", "legacy"}, process: {"up", "down"},
                session: {"none", "open", "shut", "finalizing", "completed", "aborted"},
                predictions: 0..(Replay + 1), revealed: 0..Replay, kinds: SUBSET Kinds,
                sealed: BOOLEAN, torn: BOOLEAN, stage: 0..3, authorized: BOOLEAN]

\* The types of the variables.
TypeOK ==
    /\ plan \in Plans \cup {None}
    /\ cell \in [Pairs -> CellRecords]
    /\ DOMAIN sealer = Sealers
    /\ \A s \in Sealers : sealer[s] # None =>
          /\ DOMAIN sealer[s] \subseteq Cells
          /\ sealer[s] \in [DOMAIN sealer[s] -> Receipts]
    /\ barrier # None => barrier \in [Cells -> Receipts]
    /\ unseal \in Unseals
    /\ launcher \in {"free", "writing", "dead"}
    /\ joint \in BOOLEAN
    /\ score # None => score \in [Cells -> Receipts]
    /\ crashes \in 0..MaxCrashes /\ faults \in 0..MaxFaults

\* What the barrier recorded of a cell is true of the cell for ever: nothing
\* the cell does after its receipt was built, while others were, can make the receipt stale.
ReceiptsStayTrue ==
    barrier # None => \A c \in Cells :
        barrier[c] = ReceiptOf(c) /\ cell[c].sealed /\ cell[c].revealed = Replay

\* Every answer of a physical arm in a formal generation whose scoring inputs
\* are sealed carries Ark evidence, whichever evaluators ran the cells.
ScoredAnswersAreAttested ==
    score # None => \A c \in Cells :
        /\ cell[c].stage = 3
        /\ plan.formal /\ c[2] \in Physical => Attested(c)

\* The ways in which a generation cannot be scored any more.
LostSession(c) ==
    \/ cell[c].session = "shut"
    \/ cell[c].session = "aborted" /\ cell[c].stage < 3
    \/ cell[c].session = "finalizing" /\ cell[c].process = "down" /\ cell[c].stage < 3

LostPredictions(c) ==
    \/ cell[c].torn /\ ~cell[c].sealed
    \/ cell[c].sealed /\ cell[c].revealed < Replay /\ cell[c].predictions = cell[c].revealed
    \/ "foreign" \in cell[c].kinds
    \/ c[2] \in plan.attestation /\ "mock" \in cell[c].kinds

LostOrder(c) ==
    \/ cell[c].stage > 0 /\ barrier = None
    \/ cell[c].mode = "formal" /\ \E d \in Cells : cell[d].mode = "legacy"

Wedged ==
    \/ launcher = "dead"
    \/ launcher = "free" /\ unseal # "none" /\ ~joint
    \/ \E c \in Cells : LostSession(c) \/ LostPredictions(c) \/ LostOrder(c)

\* Every generation is scored unless the launcher dies, the unseal's path is
\* occupied by a file nobody may use, a session ends or its journal is shut
\* before its run is sealed, the run directory's files are torn, or a cell was
\* predicted or run against the plan: no other order of deaths, restarts and
\* repeated seals keeps it from its statistics.
ScoredOrWedged == <>(score # None \/ Wedged)

Promise == INSTANCE JointUnseal WITH
    Cells <- Pairs,
    owed <- Cells,
    finished <- {c \in Cells : cell[c].sealed /\ cell[c].revealed = Replay},
    unsealed <- unseal = "complete",
    labelled <- {c \in Cells : Formal(c) /\ cell[c].stage >= 2},
    scored <- score # None /\ \A c \in Cells : Formal(c)

\* Run by formal evaluators, the barrier, the unseal, the authorizations and
\* the score seal together keep the promise of module JointUnseal.
KeepsJointUnseal == Promise!Spec

=============================================================================
