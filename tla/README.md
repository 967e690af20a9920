# TLA+ verification of the CAP accuracy harness

The repository holds a research harness for causal, online forecasts of capacitor
degradation.  Its scientific claims rest on protocol claims: every forecast origin
gets at most one provider call, whatever crashes; a forecast that is published is
the one the provider really gave, in time and verified, or else the frozen
fallback; nothing is revealed before the forecast for it is durable; a sealed phase
never changes.  This project models the code that is responsible for those claims,
checks it with TLC, and proves the central ones with TLAPS.

Paths below are relative to `src/experiments/`.

## 1. Inventory

| component | state it keeps | operations | talks to |
|---|---|---|---|
| run directory, `vfps_agent/runner.py` | ATTEMPT, PREDICTION, EXECUTION and CHECKPOINT ledgers, four seal files, `PREDICTION_PHASE_SEAL`; in memory `_ledgers`, `_prediction_sealed` | open/resume, `run_origin`, `seal_prediction_phase`, `verify_prediction_phase`, close | ledgers, provider, arms; read by the evaluator |
| JSONL ledger, `vfps_agent/ledger.py` | a file of hash-chained lines, a seal file, a flock; in memory tail and key sets | create, resume, append of six kinds, seal, close, `verify_ledger` | run directory, replay service |
| arms, verifier, actions, registry, search | none (pure) | `execute_arm`, parsing and authority checks, enumeration | run directory |
| provider, Ark provider, HTTPS transport | one-shot credential, wire state | `invoke`, `send` | run directory |
| one-attempt budget, `budget.py` | reserved, committed attempts | `reserve`, `restore`, `mark_committed` | mock execution path |
| blind replay, `replay.py` | hidden events, revealed count, ACCESS and MATURITY ledgers | bootstrap, build packet, reveal after a checkpoint, seal access and mature, `verify_complete_run` | run directory (reads), ledgers |
| evaluator service, `evaluator_service.py` | session journal and head file, pipe, child process, unseal authorizations | BOOTSTRAP, REVEAL, FINALIZE; client, supervisor kill and restart | replay service, generation barrier |
| generation barrier, `generation_barrier.py` | plan, bindings, receipts, barrier, permits, score-input seal | seal and verify of each | run directories of all cells, evaluator |
| architecture registry, response schema, contracts, canonical | static tables and value types | validation, hashing | all |
| `api_hybrid/` | call records of one run | topologies single, hierarchy, parallel; fallback | CLI adapter |
| `audit_cap/` | CSV ledger and seal, receipts of data gates, download recovery | rolling replay, gates, durable local job, recovery | files |
| `n0_plus/` | qualification manifest | registry, qualification run, manifest verification | files |

What is hard here is not computation but durability and order.  `run_origin` is up
to 4 + n durable appends (n planned keys) and one external call, and may die, or
see a failing `fsync`, at any of them; it is then called again, by the same process
or by another one.  The answer of the provider lives only in memory.  Four flocks
are taken and released one by one.  Sealing is five durable steps.  The hazards are
listed in `PROJECT.json` with the line where each one bites.

What makes each component correct:

* run directory: one call, one STARTED, one FINISHED, one commit per slot; a
  published forecast is the provider's own; every checkpoint has a full lineage; a
  sealed phase is complete and frozen; a started slot is always finished off.
* ledger: an append that returned is never lost silently; all such records form one
  chain; a seal binds what was synced.
* replay and evaluator: an event is revealed only behind the checkpoint of the
  previous origin, once, in order, never further ahead of the client than the request
  it waits for; the journal tells after any crash what was done; a refusal is final.
* generation barrier: no formal cell gets labels before every cell that an admitted
  arm owes has finished its predictions and the whole generation is unsealed; a
  receipt stays true of its cell; a generation ends scored, or in a listed dead end.
* Ark provider and transport: one request on the wire for a single-use adapter, a
  credential that is readable only while it is needed, evidence that tells the calls
  really made, and no text that reaches an arm without it.
* Ren recovery: one extraction, behind two filled seals that bind the reports on disk; no
  release of other bytes than the listed ones, whatever the seals bound; nothing on disk
  is rewritten; an accepted run stays what was accepted.
* Stress-2 replay: no event is read before the predictions of its origin are durable;
  no failure vanishes in an average; COMPLETE only over a whole run.
* hybrid orchestrator: an OK result rests on every member of the panel, any other one
  on the numbers alone, for the reason it gives; no attempt outlives the run, and every run ends.

## 2. Modules

| module | what it is |
|---|---|
| `OneShotSlots` | abstract: a slot goes FREE, CONSUMED, CLOSED, DECIDED, CHECKPOINTED; it is called at most once, and only a called (or local) slot is decided by its own answer |
| `CAPRun` | the run directory with its processes; composes the ledgers as `DurableLedger` describes them |
| `CAPRunSlots` | refinement mapping from `CAPRun` to `OneShotSlots`, read off the durable ledgers alone |
| `CAPRunProofs` | proofs about `CAPRun`, in two parts: types, one call and one record per slot, reads that stay true; and, built on them, lineage, provenance, the refinement of `OneShotSlots`, seals, lost answers |
| `DurableLedger` | abstract: what a user may assume of a ledger (records, a holder, `stale`, `broken`) |
| `JSONLLedger` | one ledger file with bytes, hash chain, sync, seal, power loss; implements `DurableLedger` |
| `CausalReveal` | abstract: a hidden stream is shown one event at a time, each behind a durable forecast from the event before it, and labels come last |
| `EvaluatorSession` | client, evaluator process with journal, head file and blind replay, supervisor; implements `CausalReveal` |
| `JointUnseal` | abstract: the cells of a generation finish one by one, are unsealed once and together, and only then labelled and scored |
| `GenerationBarrier` | plan, bindings, receipts, barrier, joint unseal, authorizations, score-input seal over all cells; implements `JointUnseal` |
| `ArkOneShot` | runner attempt, Ark adapter, one-shot HTTPS transport, credential lease, FINISHED row |
| `RenRecovery` | overlapping invocations of the recovery phases and the independent verifier |
| `Stress2Replay` | the Stress-2 baseline run: label service, prediction writer, causal barrier, maturity, publication |
| `HybridOrchestrator` | the agent panel with its topologies, threads and retries |
| `JSONLLedgerProofs`, `GenerationBarrierProofs`, `ArkOneShotProofs`, `RenRecoveryProofs`, `HybridOrchestratorProofs`, `EvaluatorSessionProofs`, `Stress2ReplayProofs` | proofs about the module of that name |
| `MC...` | instances of the above for TLC |

### CAPRun and runner.py

The four ledgers are sequences of records; a record's hash is its position.  `lock`
is the flock of each ledger, `seals` the seal files (`NoSeal`, `BadSeal` for a torn
one or one of a stale tail, or the bound count), `phaseSeal` the phase seal.  `pc`,
`step` and `call` are a process's place in the constructor, in `run_origin` or in
`seal_prediction_phase` and its locals.  `stale` and `unacked` are what a failed
fsync leaves behind: a tail that is behind the file, and a STARTED that is on disk
but not in the writer's `_started`.  `sent` and `answer` are history variables, read
by properties only.

| action | code |
|---|---|
| `OpenRun`, `OpenLedger`, `CloseRun` | `CAPAccuracyRun.__init__` (seal check, then four ledger constructors), `close` |
| `ClaimSlot` | `run_origin` up to the durable STARTED, or the discovery of an old one |
| `SlotRaises`, `SlotCommitted`, `SlotFinished`, `SlotRecovered`, `SlotLocal`, `SlotInvoke` | the branches of `run_origin` after it has read the PREDICTION and ATTEMPT ledgers |
| `Respond` | the return (or exception) of `provider.invoke`, `_closed_result`, `append_finished` |
| `CommitPrediction` | `execute_arm`, reason, disposition, `_validate_committed_prediction`, `append_prediction` |
| `AppendRow`, `AppendCheckpoint` | `_append_execution_and_checkpoint`, one durable row per step |
| `SealStart`, `SealLedger`, `WritePhaseSeal`, `VerifyPhase` | `seal_prediction_phase` and `verify_prediction_phase` |
| `Crash`, `CrashInSeal`, outcome `torn` | process death between, or inside, durable steps |

Every append has four outcomes: it returns (`ok`), the bytes are written but fsync
fails (`fsync`), the write is short and raises (`short`), the process dies in it
(`torn`).

Abstractions.  A response is reduced to what the code tells apart: status,
well-formedness, lateness, and for its text absent, rejected, or verified with the
set of keys for which FALLBACK was chosen.  TIMEOUT and MODEL_MISMATCH are `ERROR`;
the result of `_recovery_result`, an ERROR with code CRASH_RECOVERY, has a status of
its own.  Existing execution rows are read at each row instead of once, which makes
no durable difference because only the holder of the lock appends.  Sealing, closing
and verifying one ledger is one step.  Bindings that `_validate_bindings` rejects
change nothing and are stuttering steps.  Power loss is left to `JSONLLedger`.

### JSONLLedger and ledger.py

`lines`, `torn` and `synced` are the file; `mem` is the holder's `_sequence`,
`_previous_hash` and key sets; `seal` the seal file; `acked` (history) the hashes of
the records whose append returned.  A hash is the sequence of contents that led to
it.  `kind` is chosen initially: ATTEMPT, a kind with a key set, or a plain kind.
Actions: `Create`, `Resume`, `Close`, `AppendStarted`, `AppendFinished`, `AppendRow`,
`SealLedger`, `Crash`, `PowerLoss`.  The typed checks of a payload are reduced to its
deduplication id and reference.

### EvaluatorSession, evaluator_service.py and replay.py

`journal` and `head` are `EVALUATOR_SESSION.jsonl` and the number of lines its head
file binds; `access` is the ACCESS ledger; `torn` says which of the two no longer
verifies; `scoring` counts the durable stages of `seal_access_and_mature`.  `epc` is
the evaluator's place in `_evaluator_main` (`cont` where it goes once the head is
written) and `req`, `mode`, `result`, `revealed` its locals.  `toServer`, `toClient`
and `cut` are the pipe.  `client` is the `EvaluatorClient` with its chain, its
`_pending_request` and the length of its prefix (`seen`); `session` says whether
`start_isolated_evaluator` has returned it.

| action | code |
|---|---|
| `Launch`, `StartFails`, `Restart`, `Kill` | `start_isolated_evaluator`, `EvaluatorSupervisor.restart` and `crash` |
| `OpenJournal`, `OpenAccess`, `Bootstrap`, `Ready` | the constructors of `_SessionJournal` and `BlindReplayService`, the ready frame and `_replace_connection` |
| `Receive`, `ProtocolAbort`, `EndOfSession` | one turn of the loop of `_evaluator_main` up to the IN_FLIGHT line |
| `RunBootstrap`, `RunReveal`, `RunFinalize`, `ScoreStage` | `_run_operation` and the replay service |
| `Finish`, `Reply`, `Abort`, `Refuse`, `WriteHead` | the COMPLETED or ABORTED line, its head, the answer |
| `SendBootstrap`, `SendReveal`, `SendFinalize`, `Accept`, `Timeout`, `HangUp`, `CloseClient` | `EvaluatorClient` |
| `Predict`, `SealPhase` | `run_origin` and `seal_prediction_phase`, which `CAPRun` has in steps |
| `Crash`, `OutOfTurn` | death of the process, and prediction code that writes frames itself |

Abstractions.  Hashes, HMACs and nonces are the id that is fresh for every request;
a frame that does not authenticate changes nothing and is left out.  The rows of the
MATURITY ledger are one stage.  FINALIZE carries no authorization: the formal path is in `GenerationBarrier`.  After a failed start nobody holds a handle, and
the session is not followed any further.

### GenerationBarrier, generation_barrier.py and the formal half of evaluator_service.py

A cell is a run directory and its evaluator as the barrier sees them: how it was
launched, its process and session, how many origins it predicted and revealed, what
kinds of answers it holds, its seals, and whether its files are torn.  A session is `shut`
once its journal refuses to be opened again.  `sealer` holds the receipts a process has built
so far, `barrier`, `unseal` and `score` the three published files, `joint` what the
supervisors remember of the unseal.

| action | code |
|---|---|
| `SealPlan`, `LaunchCell` | `FrozenGenerationPlan`, `seal_generation_plan`, `bind_formal_generation`, `_verify_formal_launch` |
| `Predict`, `Reveal`, `SealPhase`, `Crash`, `Restart` | a cell's own life, in steps in `CAPRun` and `EvaluatorSession`; a reveal of a foreign checkpoint or past the end is ABORTED |
| `RequestFails`, `TearLedger` | a request whose write, head or answer fails (ABORTED, a line without its head, a torn line); a ledger line or phase seal cut short |
| `BeginSeal`, `Visit`, `PublishBarrier` | `seal_generation_prediction_barrier`, one receipt at a time |
| `CreateUnseal`, `WriteUnseal` | `issue_generation_joint_unseal_authorization`, written in place at its final path |
| `Authorize`, `SendFinalize`, `StartScoring`, `ContinueScoring`, `ScoringFails` | `issue_formal_finalize_authorization`, FINALIZE and the stages of `seal_access_and_mature` |
| `SealScoreInputs`, `LauncherDies` | `seal_generation_score_inputs`; death of the process that owns the supervisors |

Abstractions.  A hash of an artifact is its content; every artifact has one path.

### ArkOneShot, ark_provider.py, ark_https_transport.py and _closed_result

`wiring` says which adapter and transport an attempt uses and in which lane (formal
with receipts, mock without, or bare without the canonical schema too); `used` and `sent` are the two single-use
flags, `leases` and `secret` the credential, `wire` the request calls really made.
`Enter` to `ReadBody` are the stages of `send`; `SendFails` leaves any of them with
the receipt the code builds there.  `Verdict`, `Audit`, `AuditValid`, `EnvelopeHolds`,
`Response` and `Finished` follow the answer through `invoke` and the runner to the
durable row.  The clock is read afresh wherever the code reads it and may step back.

### RenRecovery, ren_p1r1_recovery.py and verify_ren_p1r1_recovery.py

Each invocation of R1A, R1B or R1C is a process (`proc`); they share the run's
directories and nothing else.  `Edit` changes an input and may change it back while a
command runs; `WriteFails`, `RecordBlock` and `Kill` are the ways out of a phase.
A file is whether its bytes are the frozen ones.

The inputs (archive, policy, tool) are hashed anew for every use, one after the other:
`CheckPolicy` and `CheckArchive` in R1A, and `HashInput` at each of the points `sealR1A`,
`sealR1B` and `seal`, into `proc[p].hashed`, which the next step uses and forgets.  An
`Edit` may fall between any two of them.  R1C therefore verifies R1A's seal and R1B's seal
against two hashings, and an archive that is changed, changed back and changed again
passes both although they bind different bytes.  The seals do not vouch for what is
extracted; the scan of every extracted file does, and `ReleaseIsListed` says so.  What is
left of the seals is `ExtractionIsEarned`: they are filled, over the passing reports on
disk, which no edit touches.

Abstractions.  Several files of one input are hashed at one moment, and `Verify`, the
independent verifier, reads everything at one moment.

### Stress2Replay, audit_cap/replay.py and run_stress2_baselines.py

One action per durable step of `main`: `CheckOutput`, `Open`, `StartUnit`, `Authorize`
and `ReadEvent` (`reveal_next`), `Predict` and `Commit` (`append_origin`), `Seal`,
`VerifyBarrier`, `Mature`, `Publish`, and `Kill`, which may leave part of a batch.
What can go wrong in fitting, predicting and scoring is a set of faults fixed at the
start; a prediction is its key and whether it succeeded.

### HybridOrchestrator, api_hybrid/

`call[r]` is the `_call` for a role with the attempts of the CLI adapter in it; the
debate runs two of them concurrently and leaves its pool only when both have ended.
`Adapter(r)` is one attempt (an answer, a retry, an exception), `Run` the next step of
the topology.  The exceptions are those that leave `run`: no CLI, a decision that is not an
object, and a number that `float` cannot hold.  Weights are multiples of 1/`One`; the tolerances 1e-6 and 1e-12 become
`Tol` and nothing, since a multiple of 1/`One` cannot be off by less.

## 3. Runs

Passing:

| run | instance | checks |
|---|---|---|
| `action` | 1 process, 1 origin, 2 keys, ACTION arm, provider sometimes missing, 2 crashes, 1 fault | `TypeOK`, `CommittedAnswerIsGenuine`, `VerifiedPhaseAccountsForCalls`, `SealedPhaseFrozen`, `AnswerLostOnlyToFaults`, refinement of `OneShotSlots`, `StartedSlotIsCheckpointed` |
| `rivals` | 2 processes, 1 origin, 1 key, DIRECT arm, 2 crashes, 1 fault | `OneRecordPerSlot`, `OneCallPerSlot`, `ReadsStayTrue`, `CheckpointHasLineage` |
| `local` | 1 process, 2 origins, 2 keys of which one RUL_NA, N0 arm, 2 crashes, 1 fault | refinement of `OneShotSlots` |
| `ledger` | 2 ids, 4 lines, 2 faults, 2 crashes or power losses, every kind | `AckedRecordsStand`, `SealStands`, refinement of `DurableLedger` |
| `session` | 4 events of which 2 bootstrap, 1 policy, 2 deaths, 1 timeout, 1 failed or torn write, 5 requests | `NoEventRunsAhead`, `LedgersStayOrderly`, `PendingRevealResolved` |
| `unruly` | the same stream, 2 policies (symmetric), 1 death, 1 timeout, frames out of turn | `RefusalIsFinal`, refinement of `CausalReveal` |
| `generation` | 1 fold, 2 arms of which one physical, every valid plan, formal and legacy evaluators, foreign and surplus reveals, 1 death, 1 failed write (of a journal, a head, an answer, a ledger, a seal or the unseal) | `ReceiptsStayTrue`, `ScoredAnswersAreAttested`, refinement of `JointUnseal`, `ScoredOrWedged` |
| `ark` | 2 attempts, 2 adapters, 2 transports in every sound wiring, 4 moments | `CredentialServesOneCall`, `EvidenceTellsTheWire`, `UsedAnswerIsEarned`, `EveryPathCloses`, `AuditedAnswerKeepsEvidence` |
| `recovery` | 2 overlapping invocations (symmetric), 3 changes of an input | `ExtractionIsEarned`, `ReleaseIsListed`, `RunStands` |
| `stress2` | 2 invocations, 3 units of 4 events, contexts 1 to 5, 4 horizon lists, 2 model lists, at most 1 fault, of any sort and place | `NoPeeking`, `NoFailureIsAveragedAway`, `CompleteRunIsWhole`, `OpenedRunCompletes` |
| `hybrid` | 2 candidates, 1 key, 8 requests, every topology and mode, 1 retry | `ResultIsEarned`, `CallsAreAccounted`, `NothingOutlivesTheRun`, `RunEnds` |

`SealedPhaseFrozen` is a property of a single driver: through any of its own
crashes it never writes after its phase seal.  It does not hold for two processes
(the constructor looks for the phase seal before it takes the locks), so `rivals`
does not list it.  `TypeOK` is a property of one run only; where there are proofs it is
proved, in the other modules it documents the ranges of the variables.

Violation, a disagreement between the code and a line of the repository (quoted in
`PROJECT.json`):

| run | what happens |
|---|---|
| `hull_escape` | a judge's weights that the schema accepts (a sum off by at most 1e-6) leave the hull by more than the 1e-12 that `convex_fuse` allows: `run` raises instead of falling back |

### Other disagreements

The model has the following behaviours too; each contradicts a line of the
repository, and the properties above except it by name instead of hiding it.

* `runner.py:1379`: an answer that abstains on some keys only is refused after FINISHED
  is durable, and the slot ends as CRASH_RECOVERY although nothing crashed
  (`AnswerLostOnlyToFaults`).
* `ledger.py:233`: resume does not look at the seal, so a restart after half a sealing
  appends to a sealed ledger (`SealStands` speaks of the time until somebody appends).
* `runner.py:1448`: the phase seal is written before the phase is verified, over a slot
  without a commit; the directory can then neither be resumed nor verified.
* `ledger.py:332`: after a failed fsync the next append returns and breaks the chain
  (`stale` in `DurableLedger`).
* `evaluator_service.py:816`: death between a journal line and its head file; no restart
  is accepted and the pending REVEAL is lost (`Unrestartable`).
* `evaluator_service.py:1636`: a client that times out and closes makes the evaluator
  write ABORTED after COMPLETED, which its own `_verify_transitions` refuses
  (`Unrestartable`).  In a generation both of these end the cell: its session is `shut`,
  and `Wedged` counts it.
* `generation_barrier.py:1068`: in a local plan, or with legacy evaluators, a cell may be
  labelled while the barrier is still being built; `JointUnseal` is promised for
  formal evaluators only.
* `runner.py:589` and `:619`: the runner expects of INVALID_RESPONSE another error code
  than it derives, and of MODEL_MISMATCH a response identity the adapter does not hand
  on: the evidence of such an answer is dropped (`AuditedAnswerKeepsEvidence`).
* `ren_p1r1_recovery.py:880`: the two seals R1C checks may bind different archives, since
  each is checked against a hashing of its own (`ExtractionIsEarned` speaks of the reports
  they bind, `ReleaseIsListed` of the bytes).
* `schemas.py:100`: `float` of an integer of more than 308 digits raises OverflowError,
  which `_call` does not catch: `run` raises instead of falling back (kind `huge_number`).
* `ren_p1r1_recovery.py:909`: a finished phase that is invoked again writes BLOCKED into
  a run that had verified.

Met while reading, not modelled: `run_stress2_baselines` writes its tables without
fsync although its comment speaks of durable files; a context as long as the stream
seals an empty ledger and then fails (`OpenedRunCompletes` excepts it); the CLI
adapter truncates stdout before it parses it as JSON, and a retried timeout may be a
second paid call of which only one is recorded.

Bounds.  Two crashes are enough to crash, recover, and crash during the recovery;
one fault is enough for a stale tail or a torn line to meet each of the other steps,
two (in `ledger`) for a fault on top of a stale tail.  Two keys give the mixed
answer and a crash between rows; two origins give interleaved records in one ledger;
two processes give every lock hand-over.  Two cells, one of them physical, are the
least for which one can wait for the other; two attempts the least that can share an
adapter; three changes of an input are exchange, exchange back, and one more; three
units make every fold train on two, four events give an origin with and one without a
second horizon.  Five requests are a bootstrap, two
reveals, a FINALIZE and one to spare for a repeated or misplaced frame; two reveals
make the second one depend on the recovery of the first.  Deadlock is not checked: a run directory
that is sealed, or broken, rightly stops, and so does everything else here once it is
finalized, refused, published or lost.

Fairness (`FairSpec`).  A live process keeps executing, and a dead one is restarted
with `resume=True` (weak fairness of `OpenRun`, `OpenLedger`, the steps of
`run_origin` and of sealing); the driver keeps calling `run_origin` for an origin
that has no result (strong fairness of `ClaimSlot`, because closing and crashing
disable it in between).  Both are what the replay driver does: it cannot proceed to
the next origin without this one's checkpoint.  `StartedSlotIsCheckpointed` exempts
directories with a failed write, since a torn ledger refuses every resume, and
directories that somebody has begun to seal.

For the evaluator, the process keeps executing, the client returns from `poll` when
there is an answer or the pipe is broken, and the driver kills and restarts an
evaluator it gave up on (weak fairness); it retries the pending request (strong
fairness, because closing and reopening the client disables it in between).  The
retry is what the driver must do: `_request` accepts nothing else while a request is
pending.  `PendingRevealResolved` excepts a session whose journal cannot be opened
again (section "Other disagreements").

For a generation, the driver of a cell, the supervisor's calls about it, its evaluator,
every sealer and the coordinator are threads that keep running (weak fairness of each
thread, not of the single calls: which call a thread chooses is free).  Deaths, failed
writes and the launcher's death are not fair.  `ScoredOrWedged` names the dead ends one by
one: the launcher is dead; the unseal's path is occupied and the supervisors do not hold
it; a session is shut (an ABORTED reveal, a journal line without its head, a torn line) or
ended in FINALIZE before its run was sealed; a ledger or phase seal is torn; a cell was
sealed before its last prediction, answered under a foreign policy or by a mock where Ark
is owed, scored before the barrier, or run by a legacy evaluator beside formal ones.  That
there is no other is the property: any other interleaving of deaths, restarts, failed
writes and repeated seals reaches the scores.  A Stress-2 invocation runs on unless it
is killed (weak fairness of its step).  In the orchestrator every attempt has the time
limit of `subprocess.run` (weak fairness of `Adapter`), and `run` waits for nothing
else (weak fairness of `Run`).

Mutants.  Every property is broken by a plausible slip in the code (resending on
recovery, opening without the flock, a lost previous hash on resume, returning before
fsync, ...); the mutated operators stand next to the originals and are marked
`Mutant`.

## 4. Proofs

TLC's instances are small; the theorems hold for every value of the constants that the
module's ASSUME allows: any number of processes, origins, keys, threads, folds, arms,
candidates, crashes, failed writes.  The bounds (`MaxCrashes`, `MaxFaults`, ...) only
have to be naturals.  `PROJECT.json` lists the theorems; those that state a property of
a run are the ones below with a second name.

Every module follows one pattern: an inductive invariant `IInv` made of named parts,
`Init => IInv`, one lemma for each action that a step of it keeps `IInv`, and theorems
that read the property off `IInv`.

### The run directory

`CAPRunProofs` (from `CAPAssumption`): `TypeCorrect`, `NeverResent`
(`OneCallPerSlot`), `NeverRecordedTwice` (`OneRecordPerSlot`), `ReadsNeverStale`
(`ReadsStayTrue`).  The inductive invariant is

    IInv == TypeOK /\ OneRecordPerSlot /\ OneCallPerSlot /\ ReadsStayTrue

None of the first three is inductive alone.  That a slot is not sent twice depends on
the fact that a process about to send still holds the ATTEMPT lock it wrote STARTED
under and that nobody has sent before; that no second FINISHED or commit is appended
depends on the earlier read being still true when the lock lets the process append.
`ReadsHold(p)` states these facts control point by control point.  It is conditional
on the lock because a sealer closes ledgers while the same process may be between
calls, and because another process may take a released ledger.

The argument: one type lemma per action, collected in `TypeStep`; growth lemmas that
say how an append changes the sets of positions (`AttemptGrowth`, `CommitGrowth`,
`RowGrowth`); `OthersKeepReads`, the frame lemma: a step of p that only grows the
ledgers p holds the lock of leaves the reads of every other process true; one safety
lemma per action; `NextPreserves` combines them.

The second part of the module goes on from there.

* `LineageHolds`: `LineageInv == IInv /\ RecordsLink /\ CallsLink`.  `RecordsLink`
  ties STARTED, FINISHED, commit, rows and checkpoint of a slot together; `CallsLink`
  ties what a running call holds in memory to what the provider answered.  The link is
  needed because between the answer and its commit there is a durable append after
  which anything may die: what is committed is proved against the answer, not against
  the memory it came from.
* `CheckpointsHaveLineage` (`CheckpointHasLineage`), `OnlyGenuineIsCommitted`
  (`CommittedAnswerIsGenuine`), `VerifiedAccountsForCalls`
  (`VerifiedPhaseAccountsForCalls`).
* `RefinesOneShotSlots` (`ImplementsOneShotSlots`).  Each of the actions is first shown
  to do one of eight things to the ledgers and the history (`LedgerStep`: nothing, a
  STARTED, a request on the wire, an answer, a FINISHED, a commit, a row, a
  checkpoint); each of those is a step of one slot or a stutter.  The mapping reads the
  durable ledgers alone, so a crash maps to a stutter.
* `OneDriverFreezes` (`SealedPhaseFrozen`), for at most one process: `FrozenInv` says
  that a sealer has sealed the ledgers behind it as they are and that a process under a
  phase seal has no way left to append.  The hypothesis is the code's own limit
  (section 3).
* `AnswersSurviveCalm` (`AnswerLostOnlyToFaults`), for any number of processes.  Its
  invariant `LossInv` is conditional: *as long as nothing crashed and no write failed*,
  nothing is torn, no tail is stale, the locks are where the control flow says
  (`LocksHeld`), seals are made in order by one process (`SealsInOrder`), and a request
  without a commit has its caller still at work or a mixed answer (`AnswersKept`).

### The ledger

`JSONLLedgerProofs` (from `LedgerAssumption`): `TypeCorrect`, `ReturnedRecordsStand`
(`AckedRecordsStand`), `SealedBytesStand` (`SealStands`).  What a chain of hashes says
of a file is a fact by induction over its lines; the invariant carries that induction: `HashesTell` (the hash at the end of a chained prefix
tells that prefix) is extended by every append.  `MemoryHolds` keeps the writer's tail
behind the file and ahead of every returned record, `AckedHold` puts the returned
records in the synced part, one extending the other, and `CleanHolds` says what a ledger
without a failed write knows.

`RefinesDurableLedger` (`ImplementsDurableLedger`): the file refines what `CAPRun`
composes its ledgers from.  A user sees the parsed lines (`Intact`), whether the file
verifies, and whether the holder's tail is behind it.  The invariant above knows the
holder's key sets only while no write failed; the refinement needs them after a failed
write as well, since a write over a stale tail breaks the ledger and any other must not.
`TailHolds` adds it: a holder whose tail is the file's, of a file that verifies, has the
key sets of that file.  It is inductive because a file that once ceased to verify
under a holder never verifies again before somebody resumes it (`RecordVerifies`: after
a record it verifies exactly if it did before and the tail was the file's).  Each of the
actions is then one of `Take`, `Drop`, `Write`, `Tear`, `LoseTail`, or a stutter.
`Intact` is a recursive function on the prefixes of the file; that it exists, grows by
the record appended, and keeps its first part when lines are cut off (`IntactCollects`,
`IntactGrows`, `IntactShrinks`) is shown by induction over a *set* of naturals
(`CountingUp`).

### The generation barrier

`GenerationBarrierProofs` (from `GenerationAssumption`): `TypeCorrect`,
`ReceiptsNeverStale` (`ReceiptsStayTrue`), `OnlyAttestedIsScored`
(`ScoredAnswersAreAttested`), `RefinesJointUnseal` (`KeepsJointUnseal`).  Receipts are
taken one cell at a time while the other cells go on.  `Settled(c, r)` is the key: a
receipt that was true once belongs to a cell that is sealed and fully revealed, and no
action writes what the receipt shows of such a cell (`CellMoves`).  It is required of
the receipts a sealer still holds in memory too (`SealersHold`), because they are
published later.  `CellHolds` chains FINALIZE to an authorization and the authorization
to the joint unseal, which is what the refinement needs.

### Ark provider and transport

`ArkOneShotProofs` (from `ClockAssumption`, `WiringAssumption`, `NoneAssumption`):
`TypeCorrect`, `OneCallOneCredential` (`CredentialServesOneCall`), `EvidenceIsTrue`
(`EvidenceTellsTheWire`), `AnswerIsEarned` (`UsedAnswerIsEarned`), `ConstructorsAccept`
(`EveryPathCloses`), `EvidenceIsKept` (`AuditedAnswerKeepsEvidence`).  `OwnersHold`:
whoever may still put a request on the wire has consumed the adapter's slot, alone, and
likewise the transport's; the two flags are set in different places, so both are needed
for attempts that share one but not the other.  `Holds(a)` says what a thread has done
where it stands, and `Settled` what a closed slot keeps: its row is computed from its
audit, its audit is valid and tells the calls on the wire.

### Ren recovery

`RenRecoveryProofs` (from `RecoveryAssumption`): `TypeCorrect`,
`ExtractedOnceWhenEarned` (`ExtractionIsEarned`), `ReleasedOnlyListed`
(`ReleaseIsListed`), and the action property `RunStandsHolds` (`RunStands`).  `Alone`
(a torn seal has one writer, the quarantine one extractor) rests on exclusive creation;
`Holds(p)` says what an invocation may still rely on although the inputs change
underneath it: nothing about the inputs, but that the seals it has passed are filled and
bind the artifacts on disk, since these are written once.

### The agent panel

`HybridOrchestratorProofs` (from `HybridAssumption`): `TypeCorrect`,
`EveryResultIsEarned` (`ResultIsEarned`, with `ReasonIsTrue`), `EveryCallIsAccounted` (`CallsAreAccounted`),
`NoneOutlivesTheRun` (`NothingOutlivesTheRun`).  `Sound(c)` is what `_call` and the
adapter leave behind, `RunHolds` says who was asked, accepted and shown to the judge
wherever `run` stands.  That a fallback's weighted sum *is* the best candidate's
forecast, for every number of candidates and keys, is a fact about sums over finite sets.
`MapThenSumSet` is a recursive function on subsets; the proofs show that it exists, is
unique, is an integer and picks the one nonzero term, by the well-foundedness of strict
inclusion (`SubsetInduction`, stated about a *set* of subsets, since an induction theorem
with an operator parameter cannot be instantiated).

### The evaluator session

`EvaluatorSessionProofs` (from `SessionAssumption`): `TypeCorrect`,
`EventsStayBehindTheClient` (`NoEventRunsAhead`), `RefusedSessionsStayShut`
(`RefusalIsFinal`), `SessionImplementsCausalReveal` (`ImplementsCausalReveal`), all of
`UnrulySpec`, whose client may send frames that bypass `_request`; `Spec` implies it
(`OrderlyIsUnruly`).  `LedgersAgree` (`LedgersStayOrderly`) is about `Spec`, since an
unruly client is thrown out for a violation.

The heart of the invariant is `ExchangeHolds`.  The client and the journal each count
requests, and a death can fall between any two of their writes; unless the session is
refused, they stand in one of three relations: the client's next request is not in the
journal (`Between`), its last line leaves it open (`InFlight`), or its last line
completes it and the client does not know (`Answered`).  Only in the last two may the
ACCESS ledger be one event ahead.  A frame out of turn cannot be taken for a new request
(`FreshIsPending`): an old one is in the journal, and one that skips a number matches the
journal's count only in `Answered`, where the request it is chained to is the wrong one.
An answer the client accepts brings it level (`AcceptedAnswer`), because a checkpoint's
origin says which single event it was used for (`ShownOnce`).  `MemoryHolds` says what
the process relies on at each point, `DoomHolds` that after a refusal it is on its way
out, `BusyHolds` and `PipeHolds` that the pipe is empty meanwhile.  For `LedgersAgree`,
`OrderHolds` adds that the frame in the pipe is the one the client holds, and
`HeldRequestIsInOrder` shows in each of the three relations that the evaluator takes it.

### The Stress-2 replay

`Stress2ReplayProofs` (from `ReplayAssumption`): `TypeCorrect`, `NothingIsPeekedAt`
(`NoPeeking`), `CompleteIsWhole` (`CompleteRunIsWhole`), `FailuresStayVisible`
(`NoFailureIsAveragedAway`).

* `OwnersHold`: the output directory is created exclusively, so one invocation at most
  ever writes; a killed one leaves it to nobody.
* `CheckpointsHold` and `AccessHolds`: a checkpoint binds a stretch of the ledger that
  holds exactly the planned keys of its origin, and behind the context no event is
  authorized without one.  `NoPeeking` is read off these two, in every state, so also in
  the one a kill leaves.
* `WriterHolds(p)` says what the writer has behind it wherever it is in the loop: the
  ledger holds the rows of all units and origins it has passed and no others.  At the end
  that makes the ledger whole (`LedgerIsWhole`), which `FailuresStayVisible` needs: a line
  of the tables is OK exactly if nothing failed only if no row is missing.  A fault is
  matched with the row it spoils, and a spoilt row with the aggregate of its group.
* `PublicationHolds(p)`: files appear in their order, from an invocation that passed the
  barrier over the very ledger that is on disk.

The rows of an origin are put together by `FlattenSeq`, a recursive function of the
community modules; that it yields every element of every part, in any number of parts, is
the first section of the module.  The assumption `Models \subseteq Seq(STRING)` says that
a list of models is a list of names.

### Only model-checked

* Liveness: `StartedSlotIsCheckpointed`, `PendingRevealResolved`, `ScoredOrWedged`,
  `OpenedRunCompletes`, `RunEnds`.  The prover has no fairness.

## 5. Plan

Done: run directory, ledger, evaluator session with the blind replay, generation
barrier, provider side, recovery, Stress-2 replay, agent panel; the abstract
specifications of the first four; the proofs of section 4, which cover every safety
property and every refinement the runs check.  What could follow:

1. The safety half of `OpenedRunCompletes` as a theorem: no check behind the seal turns
   down what the Stress-2 loop itself wrote.  `WriterHolds` has what it says of the
   ledger and the checkpoints; the order of the accesses is missing.
2. `durable_local_job.py` and the data gates, should they come to keep state that a
   restart reads.

## 6. Not modelled

Numerical work (regression, fusion, scoring, random simulation) and table or workbook
parsing are outside what a model checker sees.  Canonical JSON and SHA-256 appear as
injective hashes.  Static tables (response schemas, frozen architectures) hold no
state.  Research documents, recorded traces and the vendored skill collection are not
part of the program.  The labels `seal_access_and_mature` gives each key and the
recomputation of `verify_complete_run` are value comparisons without an order of steps.
The data gates and audits of `audit_cap` (`benchmark_l_data_gate`, `audit_large_pack`,
`patrizi_hsc_data_gate`, `ren_scs_data_gate` and their verifiers) and `n0_plus` read
files once and write a report once: what could go wrong in them is parsing and
arithmetic, not order.  `budget.py` is a legacy unit harness that the run directory
replaces; `durable_local_job.py` writes three receipts around one child process.
`response_schema`, `architecture_registry`, `registry`, `search` and `actions` are
tables and pure enumeration over numeric forecasts.
