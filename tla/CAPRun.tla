------------------------------- MODULE CAPRun -------------------------------
(***************************************************************************)
(* One accuracy_v1 run directory (experiments/vfps_agent/runner.py).       *)
(*                                                                         *)
(* Processes open the directory, take the exclusive flock of its four      *)
(* ledgers, run forecast origins through run_origin and finally seal the   *)
(* prediction phase.  Every durable append is a step of its own, so a      *)
(* process may crash, or an append may fail, between any two of them.      *)
(*                                                                         *)
(* Abstractions.  A record's hash is its position in its ledger (the       *)
(* SHA-256 chain is the subject of module JSONLLedger).  Ledger faults     *)
(* appear as `broken' (the file no longer passes verify_ledger) and        *)
(* `stale' (the writer's in-memory tail is behind the file after a failed  *)
(* fsync).  Bindings that _validate_bindings rejects never reach a ledger, *)
(* so such calls are stuttering steps.                                     *)
(***************************************************************************)
EXTENDS Integers, Sequences, FiniteSets

CONSTANTS
    Procs,       \* processes that may open the run directory
    Origins,     \* forecast origins; one physical slot each
    NumKeys,     \* planned forecast keys, in token order
    RulNA,       \* keys whose fallback forecast is RUL_NA (forced)
    Arm,         \* "N0" (local), "DIRECT" (D1), or "ACTION" (ACT1, RC1, IF1)
    Providers,   \* may run_origin be given a provider?  subset of BOOLEAN
    MaxCrashes,  \* bound on process crashes
    MaxFaults,   \* bound on failed, torn or unsynced writes
    NoProc, NoOrigin   \* "nobody" and "no origin"

Keys == 1..NumKeys

ASSUME CAPAssumption ==
    /\ NumKeys \in Nat \ {0}
    /\ RulNA \subseteq Keys
    /\ Arm \in {"N0", "DIRECT", "ACTION"}
    /\ Providers \subseteq BOOLEAN
    /\ MaxCrashes \in Nat
    /\ MaxFaults \in Nat
    /\ NoProc \notin Procs
    /\ NoOrigin \notin Origins

Kinds == {"ATTEMPT", "PREDICTION", "EXECUTION", "CHECKPOINT"}

\* The order in which the constructor opens and the sealer seals.
LedgerOrder == <<"ATTEMPT", "PREDICTION", "EXECUTION", "CHECKPOINT">>

PhysicalCalls == IF Arm = "N0" THEN 0 ELSE 1

NoSeal == -1     \* no seal file
BadSeal == -2    \* a seal file that binds no ledger: torn, or of a stale tail

-----------------------------------------------------------------------------
(* Values *)

Statuses == {"NONE", "SUCCESS", "ERROR", "LOCAL", "CRASH_RECOVERY"}

\* A response text, reduced to what the verifier makes of it: absent,
\* rejected, or verified, with the non-RUL keys for which it chose FALLBACK.
Texts ==
    [kind: {"NONE", "INVALID"}, abstained: {{}}]
      \cup [kind: {"VERIFIED"},
            abstained: IF Arm = "ACTION" THEN SUBSET (Keys \ RulNA) ELSE {{}}]

NoText == [kind |-> "NONE", abstained |-> {}]

NoAnswer == [status |-> "NONE", malformed |-> FALSE, late |-> FALSE, text |-> NoText]

\* What provider.invoke hands back; malformed covers every field that
\* _closed_result rejects and evidence that differs from the rebuilt one.
Responses ==
    [status: {"SUCCESS", "ERROR"}, malformed: BOOLEAN, late: BOOLEAN, text: Texts]

States == {"ACTIVE", "DELIBERATE_FALLBACK", "ERROR_FALLBACK"}

Executions ==
    [error: BOOLEAN, abstention: BOOLEAN, isFallback: BOOLEAN,
     rows: [Keys -> States]]

Reasons == {"CRASH_RECOVERY", "LATE_RESPONSE", "PROVIDER_FAILURE",
            "INVALID_RESPONSE", "DELIBERATE_FALLBACK", "NUMERICAL_CHAMPION",
            "VERIFIED_RESPONSE"}

AttemptRecords ==
    [event: {"STARTED", "FINISHED"}, origin: Origins, started: Nat,
     status: Statuses, late: BOOLEAN]

Commits ==
    [origin: Origins, started: Nat, disposition: {"FALLBACK", "PREDICTION"},
     reason: Reasons, late: BOOLEAN, execution: Executions]

ExecutionRows == [ref: Nat, key: Keys, state: States]

Checkpoints == [origin: Origins, final: Nat, ref: Nat, rows: [Keys -> Nat]]

\* The locals of a run_origin call in progress.
Calls ==
    [origin: Origins \cup {NoOrigin}, recovered: BOOLEAN, provider: BOOLEAN,
     status: Statuses, late: BOOLEAN, text: Texts]

NoCall == [origin |-> NoOrigin, recovered |-> FALSE, provider |-> FALSE,
           status |-> "NONE", late |-> FALSE, text |-> NoText]

-----------------------------------------------------------------------------
VARIABLES
    attempts, predictions, executions, checkpoints,  \* the ledger files
    created,    \* ledger files that exist
    broken,     \* ledgers that no longer pass verify_ledger
    lock,       \* holder of each ledger's flock
    seals,      \* per-ledger seal file: NoSeal, BadSeal or the record count
    phaseSeal,  \* PREDICTION_PHASE_SEAL: its state and the counts it binds
    pc, step, call,  \* each process: control point, loop index, locals
    stale,      \* ledgers whose in-memory tail is behind the file
    unacked,    \* origins whose STARTED is on disk but not in _started
    crashes, faults,           \* counters for the bounds
    sent, answer               \* history, read by the properties only

ledgers == <<attempts, predictions, executions, checkpoints>>
files == <<created, seals, phaseSeal>>
history == <<sent, answer>>
memory == <<stale, unacked>>
vars == <<ledgers, created, broken, lock, seals, phaseSeal, pc, step, call,
          stale, unacked, crashes, faults, history>>

\* Control points: "opening" walks LedgerOrder, "open" is between calls,
\* "slot" .. "checkpoint" are inside run_origin, "sealing" .. "verify" inside
\* seal_prediction_phase, "sealed" has _prediction_sealed = True.
PCs == {"down", "openingNew", "openingResume", "open", "slot", "waiting",
        "commit", "rows", "checkpoint", "sealing", "phase",
        "verify", "sealed"}

InCall == {"slot", "waiting", "commit", "rows", "checkpoint"}

LedgersTypeOK ==
    /\ attempts \in Seq(AttemptRecords)
    /\ predictions \in Seq(Commits)
    /\ executions \in Seq(ExecutionRows)
    /\ checkpoints \in Seq(Checkpoints)

FilesTypeOK ==
    /\ created \in SUBSET Kinds
    /\ broken \in SUBSET Kinds
    /\ lock \in [Kinds -> Procs \cup {NoProc}]
    /\ seals \in [Kinds -> Int]
    /\ phaseSeal \in [state: {"ABSENT", "TORN", "WRITTEN"}, counts: [Kinds -> Int]]

ProcsTypeOK ==
    /\ pc \in [Procs -> PCs]
    /\ step \in [Procs -> Nat]
    /\ call \in [Procs -> Calls]
    /\ stale \in [Procs -> SUBSET Kinds]
    /\ unacked \in [Procs -> SUBSET Origins]

HistoryTypeOK ==
    /\ crashes \in Nat
    /\ faults \in Nat
    /\ sent \in [Origins -> Nat]
    /\ answer \in [Origins -> Responses \cup {NoAnswer}]

TypeOK == LedgersTypeOK /\ FilesTypeOK /\ ProcsTypeOK /\ HistoryTypeOK

Init ==
    /\ attempts = <<>> /\ predictions = <<>> /\ executions = <<>> /\ checkpoints = <<>>
    /\ created = {} /\ broken = {}
    /\ lock = [k \in Kinds |-> NoProc]
    /\ seals = [k \in Kinds |-> NoSeal]
    /\ phaseSeal = [state |-> "ABSENT", counts |-> [k \in Kinds |-> NoSeal]]
    /\ pc = [p \in Procs |-> "down"]
    /\ step = [p \in Procs |-> 0]
    /\ call = [p \in Procs |-> NoCall]
    /\ stale = [p \in Procs |-> {}]
    /\ unacked = [p \in Procs |-> {}]
    /\ crashes = 0 /\ faults = 0
    /\ sent = [o \in Origins |-> 0]
    /\ answer = [o \in Origins |-> NoAnswer]

-----------------------------------------------------------------------------
(* What a verified read of the ledgers yields *)

Starts(o) == {i \in DOMAIN attempts :
                attempts[i].event = "STARTED" /\ attempts[i].origin = o}
Finishes(o) == {i \in DOMAIN attempts :
                attempts[i].event = "FINISHED" /\ attempts[i].origin = o}
CommitsOf(o) == {i \in DOMAIN predictions : predictions[i].origin = o}
RowsOf(ref) == {i \in DOMAIN executions : executions[i].ref = ref}
CheckpointsOf(ref) == {i \in DOMAIN checkpoints : checkpoints[i].ref = ref}

Started(o) == Starts(o) # {}
Finished(o) == Finishes(o) # {}
Committed(o) == CommitsOf(o) # {}

AtMostOne(S) == \A i, j \in S : i = j
Only(S) == CHOOSE i \in S : TRUE
Latest(S) == CHOOSE i \in S : \A j \in S : j <= i

LedgerLen(k) ==
    CASE k = "ATTEMPT" -> Len(attempts)
      [] k = "PREDICTION" -> Len(predictions)
      [] k = "EXECUTION" -> Len(executions)
      [] OTHER -> Len(checkpoints)

-----------------------------------------------------------------------------
(* From a provider response to a commit: pure functions of the runner *)

\* Mutant: an unrecognised status is passed through.
ClosedStatusRaw(r) == IF r.malformed THEN "MALFORMED" ELSE r.status

\* _closed_result: a malformed response, or one whose evidence does not
\* match, closes as ERROR; lateness survives.
ClosedStatus(r) == IF r.malformed THEN "ERROR" ELSE r.status

\* Mutant: the provider's own status decides, not the closed result.
UsableTextUnclosed(r) == IF r.status = "SUCCESS" /\ ~r.late THEN r.text ELSE NoText

\* The text that reaches execute_arm, only when SUCCESS and on time.
UsableText(r) ==
    IF ClosedStatus(r) = "SUCCESS" /\ ~r.late THEN r.text ELSE NoText

\* arms._fallback: the whole sealed fallback bundle, every key in error.
FallbackExecution ==
    [error |-> TRUE, abstention |-> FALSE, isFallback |-> TRUE,
     rows |-> [k \in Keys |-> "ERROR_FALLBACK"]]

\* verifier.execute_action_selections: one FALLBACK choice sets
\* selected_abstention, but only an all-FALLBACK answer is the fallback bundle.
VerifiedExecution(t) ==
    [error |-> FALSE,
     abstention |-> t.abstained # {},
     isFallback |-> Arm = "ACTION" /\ t.abstained \cup RulNA = Keys,
     rows |-> [k \in Keys |-> IF k \in RulNA \cup t.abstained
                              THEN "DELIBERATE_FALLBACK" ELSE "ACTIVE"]]

\* N0 publishes the numerical champion, which is the fallback bundle itself.
ChampionExecution ==
    [error |-> FALSE, abstention |-> FALSE, isFallback |-> TRUE,
     rows |-> [k \in Keys |-> IF k \in RulNA
                              THEN "DELIBERATE_FALLBACK" ELSE "ACTIVE"]]

ExecuteArm(t) ==
    IF Arm = "N0" THEN ChampionExecution
    ELSE IF t.kind = "VERIFIED" THEN VerifiedExecution(t)
    ELSE FallbackExecution

Reason(c, x) ==
    CASE c.recovered -> "CRASH_RECOVERY"
      [] ~c.recovered /\ c.late -> "LATE_RESPONSE"
      [] ~c.recovered /\ ~c.late /\ c.status \notin {"SUCCESS", "LOCAL"} -> "PROVIDER_FAILURE"
      [] OTHER -> IF x.error THEN "INVALID_RESPONSE"
                  ELSE IF x.abstention THEN "DELIBERATE_FALLBACK"
                  ELSE IF Arm = "N0" THEN "NUMERICAL_CHAMPION"
                  ELSE "VERIFIED_RESPONSE"

\* Mutant: only an error is a fallback.
DispositionOfErrors(x) == IF x.error THEN "FALLBACK" ELSE "PREDICTION"

Disposition(x) ==
    IF x.error \/ (x.isFallback /\ x.abstention) THEN "FALLBACK" ELSE "PREDICTION"

CommitOf(c) ==
    LET x == ExecuteArm(c.text) IN
    [origin |-> c.origin, started |-> Only(Starts(c.origin)),
     disposition |-> Disposition(x), reason |-> Reason(c, x),
     late |-> c.late, execution |-> x]

\* _validate_committed_prediction and PredictionCommit.__post_init__, as far
\* as they relate the outcome flags to the disposition.
CommitValid(m) ==
    /\ m.disposition = IF m.execution.error \/ m.execution.abstention
                       THEN "FALLBACK" ELSE "PREDICTION"
    /\ m.late => m.disposition = "FALLBACK"

-----------------------------------------------------------------------------
(* Ending a step: return, raise, go down, or settle a durable append *)

Released(p) == [k \in Kinds |-> IF lock[k] = p THEN NoProc ELSE lock[k]]

\* The process is gone, or the run object is closed: locks and memory are lost.
GoDown(p) ==
    /\ pc' = [pc EXCEPT ![p] = "down"]
    /\ step' = [step EXCEPT ![p] = 0]
    /\ call' = [call EXCEPT ![p] = NoCall]
    /\ stale' = [stale EXCEPT ![p] = {}]
    /\ unacked' = [unacked EXCEPT ![p] = {}]
    /\ lock' = Released(p)

\* An exception, or a return, leaves the run object open between calls.
GoIdle(p, at) ==
    /\ pc' = [pc EXCEPT ![p] = at]
    /\ step' = [step EXCEPT ![p] = 0]
    /\ call' = [call EXCEPT ![p] = NoCall]
    /\ UNCHANGED <<lock, stale, unacked>>

Raise(p) == GoIdle(p, "open")

Continue(p, at, i, c) ==
    /\ pc' = [pc EXCEPT ![p] = at]
    /\ step' = [step EXCEPT ![p] = i]
    /\ call' = [call EXCEPT ![p] = c]
    /\ UNCHANGED <<lock, unacked>>

\* CanonicalJSONLLedger._append: the record is durable ("ok"); it is in the
\* file but fsync failed ("fsync"); the write was short ("short"); or the
\* process died inside the write ("torn").
Outcomes == {"ok", "fsync", "short", "torn"}

Appended(file, r, out) ==
    IF out \in {"ok", "fsync"} THEN Append(file, r) ELSE file

\* Only a successful append advances _sequence and _previous_hash, so a later
\* append over a stale tail repeats a sequence number and breaks the chain.
LedgerEffect(p, k, out) ==
    /\ out # "ok" => faults < MaxFaults
    /\ out = "torn" => crashes < MaxCrashes
    /\ faults' = IF out = "ok" THEN faults ELSE faults + 1
    /\ crashes' = IF out = "torn" THEN crashes + 1 ELSE crashes
    /\ broken' = IF out \in {"short", "torn"} \/ k \in stale[p]
                 THEN broken \cup {k} ELSE broken

\* How the caller of _append goes on: it continues at `at', sees the
\* exception, or is gone.
Settle(p, k, out, at, i, c) ==
    /\ LedgerEffect(p, k, out)
    /\ \/ /\ out = "ok"
          /\ Continue(p, at, i, c)
          /\ UNCHANGED stale
       \/ /\ out = "fsync"
          /\ stale' = [stale EXCEPT ![p] = @ \cup {k}]
          /\ unacked' = IF pc[p] = "open"
                        THEN [unacked EXCEPT ![p] = @ \cup {c.origin}]
                        ELSE unacked
          /\ pc' = [pc EXCEPT ![p] = "open"]
          /\ step' = [step EXCEPT ![p] = 0]
          /\ call' = [call EXCEPT ![p] = NoCall]
          /\ UNCHANGED lock
       \/ out = "short" /\ Raise(p)
       \/ out = "torn" /\ GoDown(p)

-----------------------------------------------------------------------------
(* CAPAccuracyRun.__init__ and close *)

\* Mutant: resume does not look for the phase seal.
OpenRunSealed(p, resume) ==
    /\ pc[p] = "down"
    /\ resume \/ created = {}
    /\ Continue(p, IF resume THEN "openingResume" ELSE "openingNew", 1, NoCall)
    /\ UNCHANGED <<ledgers, files, broken, stale, crashes, faults, history>>

OpenRun(p, resume) ==
    /\ pc[p] = "down"
    /\ phaseSeal.state = "ABSENT"
    /\ resume \/ created = {}
    /\ Continue(p, IF resume THEN "openingResume" ELSE "openingNew", 1, NoCall)
    /\ UNCHANGED <<ledgers, files, broken, stale, crashes, faults, history>>

\* Mutant: the ledger is opened without taking its flock.
OpenLedgerUnlocked(p) ==
    LET k == LedgerOrder[step[p]] IN
    /\ pc[p] \in {"openingNew", "openingResume"}
    /\ k \in created => pc[p] = "openingResume"
    /\ k \notin broken
    /\ lock' = [lock EXCEPT ![k] = p]
    /\ created' = created \cup {k}
    /\ pc' = [pc EXCEPT ![p] = IF step[p] = 4 THEN "open" ELSE @]
    /\ step' = [step EXCEPT ![p] = IF @ = 4 THEN 0 ELSE @ + 1]
    /\ UNCHANGED <<call, stale, unacked, ledgers, broken, seals, phaseSeal, crashes,
                   faults, history>>

\* One CanonicalJSONLLedger constructor: create or reopen, flock, verify.
OpenLedger(p) ==
    LET k == LedgerOrder[step[p]]
        usable == /\ k \in created => pc[p] = "openingResume"
                  /\ lock[k] = NoProc
                  /\ k \notin broken
    IN
    /\ pc[p] \in {"openingNew", "openingResume"}
    /\ \/ /\ usable
          /\ lock' = [lock EXCEPT ![k] = p]
          /\ created' = created \cup {k}
          /\ pc' = [pc EXCEPT ![p] = IF step[p] = 4 THEN "open" ELSE @]
          /\ step' = [step EXCEPT ![p] = IF @ = 4 THEN 0 ELSE @ + 1]
          /\ UNCHANGED <<call, stale, unacked>>
       \/ /\ ~usable
          /\ GoDown(p)
          /\ UNCHANGED created
    /\ UNCHANGED <<ledgers, broken, seals, phaseSeal, crashes, faults, history>>

CloseRun(p) ==
    /\ pc[p] \in {"open", "sealed"}
    /\ GoDown(p)
    /\ UNCHANGED <<ledgers, files, broken, crashes, faults, history>>

\* The process dies between two durable steps.
Crash(p) ==
    /\ pc[p] # "down"
    /\ crashes < MaxCrashes
    /\ crashes' = crashes + 1
    /\ GoDown(p)
    /\ UNCHANGED <<ledgers, files, broken, faults, history>>

-----------------------------------------------------------------------------
(* run_origin *)

\* The slot is claimed: an existing STARTED makes the call a recovery,
\* otherwise STARTED is appended first.
ClaimSlot(p, o, prov) ==
    LET c == [NoCall EXCEPT !.origin = o, !.recovered = Started(o), !.provider = prov]
        r == [event |-> "STARTED", origin |-> o, started |-> 0,
              status |-> "NONE", late |-> FALSE]
    IN
    /\ pc[p] = "open"
    /\ "ATTEMPT" \notin broken
    /\ AtMostOne(Starts(o))
    /\ \/ /\ Started(o)
          /\ Continue(p, "slot", 0, c)
          /\ UNCHANGED <<attempts, broken, stale, crashes, faults>>
       \/ /\ ~Started(o)
          /\ lock["ATTEMPT"] = p
          /\ \E out \in Outcomes :
                /\ attempts' = Appended(attempts, r, out)
                /\ Settle(p, "ATTEMPT", out, "slot", 0, c)
    /\ UNCHANGED <<predictions, executions, checkpoints, files, history>>

\* run_origin reads PREDICTION and ATTEMPT before it decides what to do.
Readable == {"PREDICTION", "ATTEMPT"} \cap broken = {}

\* The call raises: an unreadable ledger, a commit without a FINISHED, or a
\* physical arm without a provider.  STARTED is already durable.
SlotRaises(p) ==
    LET o == call[p].origin IN
    /\ pc[p] = "slot"
    /\ \/ ~Readable
       \/ ~AtMostOne(CommitsOf(o))
       \/ Committed(o) /\ (~Finished(o) \/ ~CommitValid(predictions[Only(CommitsOf(o))]))
       \/ /\ ~Committed(o) /\ ~Finished(o)
          /\ \/ call[p].recovered /\ (o \in unacked[p] \/ lock["ATTEMPT"] # p)
             \/ ~call[p].recovered /\ PhysicalCalls = 1 /\ ~call[p].provider
    /\ Raise(p)
    /\ UNCHANGED <<ledgers, files, broken, crashes, faults, history>>

\* A durable prediction exists: only the missing rows and checkpoint follow.
SlotCommitted(p) ==
    LET o == call[p].origin IN
    /\ pc[p] = "slot"
    /\ Readable
    /\ Committed(o) /\ AtMostOne(CommitsOf(o)) /\ Finished(o)
    /\ CommitValid(predictions[Only(CommitsOf(o))])
    /\ Continue(p, "rows", 1, call[p])
    /\ UNCHANGED <<ledgers, files, broken, stale, crashes, faults, history>>

\* FINISHED without a prediction: the response is gone, commit the fallback.
SlotFinished(p) ==
    LET o == call[p].origin IN
    /\ pc[p] = "slot"
    /\ Readable
    /\ ~Committed(o) /\ Finished(o)
    /\ Continue(p, "commit", 0, [call[p] EXCEPT !.status = "CRASH_RECOVERY"])
    /\ UNCHANGED <<ledgers, files, broken, stale, crashes, faults, history>>

\* append_finished, after which the call holds the closed result.
AppendFinished(p, status, late, text) ==
    LET o == call[p].origin
        r == [event |-> "FINISHED", origin |-> o, started |-> Only(Starts(o)),
              status |-> status, late |-> late]
        c == [call[p] EXCEPT !.status = status, !.late = late, !.text = text]
    IN
    /\ lock["ATTEMPT"] = p
    /\ \E out \in Outcomes :
          /\ attempts' = Appended(attempts, r, out)
          /\ Settle(p, "ATTEMPT", out, "commit", 0, c)
    /\ UNCHANGED <<predictions, executions, checkpoints, files>>

\* Mutant: a slot that already has its FINISHED is closed again.
SlotRecoveredTwice(p) ==
    LET o == call[p].origin IN
    /\ pc[p] = "slot"
    /\ Readable
    /\ ~Committed(o) /\ call[p].recovered
    /\ o \notin unacked[p]
    /\ AppendFinished(p, "CRASH_RECOVERY", FALSE, NoText)
    /\ UNCHANGED history

\* Mutant: the fallback is committed without closing the attempt first.
SlotRecoveredUnclosed(p) ==
    LET o == call[p].origin IN
    /\ pc[p] = "slot"
    /\ Readable
    /\ ~Committed(o) /\ ~Finished(o) /\ call[p].recovered
    /\ Continue(p, "commit", 0, [call[p] EXCEPT !.status = "CRASH_RECOVERY"])
    /\ UNCHANGED <<ledgers, files, broken, stale, crashes, faults, history>>

\* Mutant: recovery refuses a crash-left slot.
SlotRecoveredRefused(p) ==
    LET o == call[p].origin IN
    /\ pc[p] = "slot"
    /\ Readable
    /\ ~Committed(o) /\ ~Finished(o) /\ call[p].recovered
    /\ Raise(p)
    /\ UNCHANGED <<ledgers, files, broken, crashes, faults, history>>

\* A crash-left STARTED is consumed, never resent.
SlotRecovered(p) ==
    LET o == call[p].origin IN
    /\ pc[p] = "slot"
    /\ Readable
    /\ ~Committed(o) /\ ~Finished(o) /\ call[p].recovered
    /\ o \notin unacked[p]
    /\ AppendFinished(p, "CRASH_RECOVERY", FALSE, NoText)
    /\ UNCHANGED history

\* Mutant: a local slot is decided without its FINISHED.
SlotLocalUnclosed(p) ==
    LET o == call[p].origin IN
    /\ pc[p] = "slot"
    /\ Readable
    /\ ~Committed(o) /\ ~Finished(o) /\ ~call[p].recovered
    /\ PhysicalCalls = 0
    /\ Continue(p, "commit", 0, [call[p] EXCEPT !.status = "LOCAL"])
    /\ UNCHANGED <<ledgers, files, broken, stale, crashes, faults, history>>

SlotLocal(p) ==
    LET o == call[p].origin IN
    /\ pc[p] = "slot"
    /\ Readable
    /\ ~Committed(o) /\ ~Finished(o) /\ ~call[p].recovered
    /\ PhysicalCalls = 0
    /\ AppendFinished(p, "LOCAL", FALSE, NoText)
    /\ UNCHANGED history

\* Mutant: a recovered slot is invoked again.
SlotInvokeResends(p) ==
    LET o == call[p].origin IN
    /\ pc[p] = "slot"
    /\ Readable
    /\ ~Committed(o) /\ ~Finished(o)
    /\ PhysicalCalls = 1 /\ call[p].provider
    /\ sent' = [sent EXCEPT ![o] = @ + 1]
    /\ Continue(p, "waiting", 0, call[p])
    /\ UNCHANGED <<ledgers, files, broken, stale, crashes, faults, answer>>

\* provider.invoke: the request leaves the process.
SlotInvoke(p) ==
    LET o == call[p].origin IN
    /\ pc[p] = "slot"
    /\ Readable
    /\ ~Committed(o) /\ ~Finished(o) /\ ~call[p].recovered
    /\ PhysicalCalls = 1 /\ call[p].provider
    /\ sent' = [sent EXCEPT ![o] = @ + 1]
    /\ Continue(p, "waiting", 0, call[p])
    /\ UNCHANGED <<ledgers, files, broken, stale, crashes, faults, answer>>

\* The provider answers, or raises (an ERROR without text).
Respond(p, r) ==
    /\ pc[p] = "waiting"
    /\ answer' = [answer EXCEPT ![call[p].origin] = r]
    /\ AppendFinished(p, ClosedStatus(r), r.late, UsableText(r))
    /\ UNCHANGED sent

\* The commit is built, validated and appended.  A commit that fails its own
\* validation raises after FINISHED is durable.
CommitPrediction(p) ==
    LET m == CommitOf(call[p]) IN
    /\ pc[p] = "commit"
    /\ \/ /\ CommitValid(m) /\ lock["PREDICTION"] = p
          /\ \E out \in Outcomes :
                /\ predictions' = Appended(predictions, m, out)
                /\ Settle(p, "PREDICTION", out, "rows", 1, call[p])
       \/ /\ ~CommitValid(m) \/ lock["PREDICTION"] # p
          /\ Raise(p)
          /\ UNCHANGED <<predictions, broken, crashes, faults>>
    /\ UNCHANGED <<attempts, executions, checkpoints, files, history>>

\* One execution row of _append_execution_and_checkpoint: an equal existing
\* row is kept, a missing one appended, a different one refused.
AppendRow(p) ==
    LET ref == Only(CommitsOf(call[p].origin))
        key == step[p]
        r == [ref |-> ref, key |-> key,
              state |-> predictions[ref].execution.rows[key]]
        existing == {i \in RowsOf(ref) : executions[i].key = key}
        at == IF key = NumKeys THEN "checkpoint" ELSE "rows"
    IN
    /\ pc[p] = "rows"
    /\ \/ /\ existing # {}
          /\ \A i \in existing : executions[i] = r
          /\ key = 1 => "EXECUTION" \notin broken
          /\ Continue(p, at, key + 1, call[p])
          /\ UNCHANGED <<executions, broken, stale, crashes, faults>>
       \/ /\ existing = {}
          /\ key = 1 => "EXECUTION" \notin broken
          /\ lock["EXECUTION"] = p
          /\ \E out \in Outcomes :
                /\ executions' = Appended(executions, r, out)
                /\ Settle(p, "EXECUTION", out, at, key + 1, call[p])
       \/ /\ \/ key = 1 /\ "EXECUTION" \in broken
             \/ \E i \in existing : executions[i] # r
             \/ existing = {} /\ lock["EXECUTION"] # p
          /\ Raise(p)
          /\ UNCHANGED <<executions, broken, crashes, faults>>
    /\ UNCHANGED <<attempts, predictions, checkpoints, files, history>>

\* Mutant: the first record of the attempt.
FinalRecordFirst(o) ==
    CHOOSE i \in Starts(o) \cup Finishes(o) : \A j \in Starts(o) \cup Finishes(o) : i <= j

\* attempt_final_record_hash: the last record of this attempt.
FinalRecord(o) == Latest(Starts(o) \cup Finishes(o))

\* The checkpoint binds the last attempt record, the commit and every row;
\* run_origin returns.
AppendCheckpoint(p) ==
    LET o == call[p].origin
        ref == Only(CommitsOf(o))
        r == [origin |-> o, final |-> FinalRecord(o), ref |-> ref,
              rows |-> [k \in Keys |-> Only({i \in RowsOf(ref) : executions[i].key = k})]]
        readable == {"ATTEMPT", "CHECKPOINT"} \cap broken = {}
        existing == CheckpointsOf(ref)
    IN
    /\ pc[p] = "checkpoint"
    /\ \/ /\ readable
          /\ existing = {} /\ lock["CHECKPOINT"] = p
          /\ \E out \in Outcomes :
                /\ checkpoints' = Appended(checkpoints, r, out)
                /\ Settle(p, "CHECKPOINT", out, "open", 0, NoCall)
       \/ /\ \/ ~readable
             \/ existing # {}     \* an equal one returns, a different one raises
             \/ lock["CHECKPOINT"] # p
          /\ GoIdle(p, "open")
          /\ UNCHANGED <<checkpoints, broken, crashes, faults>>
    /\ UNCHANGED <<attempts, predictions, executions, files, history>>

-----------------------------------------------------------------------------
(* seal_prediction_phase and verify_prediction_phase *)

SealStart(p) ==
    /\ pc[p] = "open"
    /\ Continue(p, "sealing", 1, NoCall)
    /\ UNCHANGED <<ledgers, files, broken, stale, crashes, faults, history>>

\* verify_ledger with a seal: the chain holds and the seal binds every record.
SealBinds(k) == k \notin broken /\ seals[k] = LedgerLen(k)

\* CanonicalJSONLLedger.seal, close and verify_ledger for the next ledger.
\* The seal file is created exclusively and survives every later failure.
SealLedger(p) ==
    LET k == LedgerOrder[step[p]]
        count == IF k \in stale[p] THEN BadSeal ELSE LedgerLen(k)
        incomplete == k = "ATTEMPT" /\ \E o \in Origins : Started(o) /\ ~Finished(o)
    IN
    /\ pc[p] = "sealing"
    /\ \/ /\ lock[k] = p /\ seals[k] = NoSeal
          /\ seals' = [seals EXCEPT ![k] = count]
          /\ lock' = [lock EXCEPT ![k] = NoProc]
          /\ \/ /\ k \notin broken /\ count # BadSeal /\ ~incomplete
                /\ pc' = [pc EXCEPT ![p] = IF step[p] = 4 THEN "phase" ELSE "sealing"]
                /\ step' = [step EXCEPT ![p] = IF @ = 4 THEN 0 ELSE @ + 1]
             \/ /\ k \in broken \/ count = BadSeal \/ incomplete
                /\ pc' = [pc EXCEPT ![p] = "open"]
                /\ step' = [step EXCEPT ![p] = 0]
          /\ UNCHANGED <<call, stale, unacked>>
       \/ /\ lock[k] # p \/ seals[k] # NoSeal
          /\ Raise(p)
          /\ UNCHANGED seals
    /\ UNCHANGED <<ledgers, created, phaseSeal, broken, crashes, faults, history>>

\* Dying between the exclusive create of a seal and its last byte.
CrashInSeal(p) ==
    /\ crashes < MaxCrashes /\ faults < MaxFaults
    /\ crashes' = crashes + 1
    /\ faults' = faults + 1
    /\ \/ /\ pc[p] = "sealing"
          /\ lock[LedgerOrder[step[p]]] = p
          /\ seals[LedgerOrder[step[p]]] = NoSeal
          /\ seals' = [seals EXCEPT ![LedgerOrder[step[p]]] = BadSeal]
          /\ UNCHANGED phaseSeal
       \/ /\ pc[p] = "phase"
          /\ phaseSeal.state = "ABSENT"
          /\ phaseSeal' = [phaseSeal EXCEPT !.state = "TORN"]
          /\ UNCHANGED seals
    /\ GoDown(p)
    /\ UNCHANGED <<ledgers, created, broken, history>>

\* _write_exclusive of PREDICTION_PHASE_SEAL, before anything is verified.
WritePhaseSeal(p) ==
    /\ pc[p] = "phase"
    /\ \/ /\ phaseSeal.state = "ABSENT"
          /\ phaseSeal' = [state |-> "WRITTEN", counts |-> seals]
          /\ GoIdle(p, "verify")
       \/ /\ phaseSeal.state # "ABSENT"
          /\ Raise(p)
          /\ UNCHANGED phaseSeal
    /\ UNCHANGED <<ledgers, created, seals, broken, crashes, faults, history>>

\* A commit's rows and its one checkpoint bind the ledgers exactly.
LineageBinds(ref) ==
    LET m == predictions[ref]
        rows(k) == {i \in RowsOf(ref) : executions[i].key = k}
    IN
    /\ Started(m.origin) /\ Finished(m.origin)
    /\ m.started \in Starts(m.origin)
    /\ \A i \in Finishes(m.origin) : attempts[i].started = m.started
    /\ CommitValid(m)
    /\ \A k \in Keys :
          /\ rows(k) # {} /\ AtMostOne(rows(k))
          /\ \A i \in rows(k) : executions[i].state = m.execution.rows[k]
    /\ CheckpointsOf(ref) # {} /\ AtMostOne(CheckpointsOf(ref))
    /\ \A i \in CheckpointsOf(ref) :
          /\ checkpoints[i].origin = m.origin
          /\ checkpoints[i].final \in Finishes(m.origin)
          /\ \A k \in Keys : checkpoints[i].rows[k] \in rows(k)

\* Mutant: started and finished slots are compared, commits are not.
PhaseVerifiesUncommitted ==
    /\ \A k \in Kinds : SealBinds(k)
    /\ \A o \in Origins : Started(o) <=> Finished(o)
    /\ \A ref \in DOMAIN predictions : LineageBinds(ref)
    /\ phaseSeal.state = "WRITTEN" /\ phaseSeal.counts = seals

\* verify_prediction_phase
PhaseVerifies ==
    /\ \A k \in Kinds : SealBinds(k)
    /\ \A o \in Origins : /\ Started(o) <=> Finished(o)
                          /\ Started(o) <=> Committed(o)
    /\ \A ref \in DOMAIN predictions : LineageBinds(ref)
    /\ phaseSeal.state = "WRITTEN" /\ phaseSeal.counts = seals

\* _prediction_sealed is set before the verification, so whether it raises or
\* not, a second seal_prediction_phase returns the artifact's hash at once.
VerifyPhase(p) ==
    /\ pc[p] = "verify"
    /\ GoIdle(p, "sealed")
    /\ UNCHANGED <<ledgers, files, broken, crashes, faults, history>>

-----------------------------------------------------------------------------
RunOriginStep(p) ==
    \/ SlotRaises(p) \/ SlotCommitted(p) \/ SlotFinished(p)
    \/ SlotRecovered(p) \/ SlotLocal(p) \/ SlotInvoke(p)
    \/ \E r \in Responses : Respond(p, r)
    \/ CommitPrediction(p) \/ AppendRow(p) \/ AppendCheckpoint(p)

SealStep(p) == SealLedger(p) \/ WritePhaseSeal(p) \/ VerifyPhase(p)

Next ==
    \E p \in Procs :
        \/ \E resume \in BOOLEAN : OpenRun(p, resume)
        \/ OpenLedger(p) \/ CloseRun(p)
        \/ Crash(p) \/ CrashInSeal(p)
        \/ \E o \in Origins, prov \in Providers : ClaimSlot(p, o, prov)
        \/ RunOriginStep(p)
        \/ SealStart(p) \/ SealStep(p)

Spec == Init /\ [][Next]_vars

-----------------------------------------------------------------------------
(* Properties *)

\* Whatever crashes, restarts, failed writes and rival processes do, run_origin
\* sends at most one provider request for a slot, and only once the slot's
\* STARTED record is durable (runner.run_origin: "recovered" never resends).
OneCallPerSlot ==
    \A o \in Origins : sent[o] <= 1 /\ (sent[o] = 1 => Started(o))

\* A slot has at most one STARTED, one FINISHED and one COMMITTED record, whoever
\* wrote them and whatever failed in between ("durable one-attempt slot is
\* duplicated", "durable slot has multiple prediction commits" never fire).
OneRecordPerSlot ==
    \A o \in Origins :
        AtMostOne(Starts(o)) /\ AtMostOne(Finishes(o)) /\ AtMostOne(CommitsOf(o))

\* What process p may rely on at its control point.
ReadsHold(p) ==
    LET o == call[p].origin IN
    /\ pc[p] \in {"openingNew", "openingResume", "sealing"} => step[p] \in 1..4
    /\ pc[p] \in InCall => o \in Origins /\ Started(o)
    /\ pc[p] = "slot" /\ ~call[p].recovered => lock["ATTEMPT"] = p /\ sent[o] = 0
    /\ pc[p] = "waiting" /\ lock["ATTEMPT"] = p => ~Finished(o)
    /\ pc[p] \in {"waiting", "commit"} /\ lock["PREDICTION"] = p => ~Committed(o)
    /\ pc[p] = "rows" => step[p] \in Keys
    /\ pc[p] = "checkpoint" => step[p] = NumKeys + 1
    /\ pc[p] \in {"rows", "checkpoint"} =>
          /\ Committed(o)
          /\ \A k \in Keys : k < step[p] =>
                \E i \in RowsOf(Only(CommitsOf(o))) : executions[i].key = k

\* What run_origin read from the ledgers at its start still holds when it acts
\* on it, however rivals, crashes and seals interleave: its slot is consumed, a
\* fresh slot was never called, a slot it is about to close or commit is still
\* open if its lock lets it append, and the rows it skipped or wrote exist.
ReadsStayTrue == \A p \in Procs : ReadsHold(p)

\* A commit that is not an error fallback carries exactly the provider's own
\* well-formed, successful, on-time answer for that origin, although the answer
\* only ever lives in memory between the FINISHED and the COMMITTED append.
CommittedAnswerIsGenuine ==
    \A i \in DOMAIN predictions :
        LET m == predictions[i]
            a == answer[m.origin]
        IN PhysicalCalls = 1 /\ ~m.execution.error =>
             /\ sent[m.origin] = 1
             /\ ClosedStatus(a) = "SUCCESS" /\ ~a.late
             /\ m.execution = ExecuteArm(a.text)
             /\ \E j \in Finishes(m.origin) :
                   attempts[j].status = "SUCCESS" /\ ~attempts[j].late

\* A durable checkpoint is only ever reached through a complete lineage: one
\* STARTED, one FINISHED, one commit, one equal row per planned key, and
\* references to exactly those records (what verify_durable_checkpoint demands
\* before the evaluator reveals the next event).
CheckpointHasLineage ==
    \A i \in DOMAIN checkpoints :
        LET c == checkpoints[i] IN
        /\ c.ref \in DOMAIN predictions /\ predictions[c.ref].origin = c.origin
        /\ AtMostOne(CommitsOf(c.origin))
        /\ AtMostOne(Starts(c.origin)) /\ AtMostOne(Finishes(c.origin))
        /\ LineageBinds(c.ref)

\* When verify_prediction_phase passes, no provider request is unaccounted
\* for: whichever process sent it, and whatever crash or failed write followed,
\* its origin has a checkpoint.
VerifiedPhaseAccountsForCalls ==
    PhaseVerifies =>
        \A o \in Origins : sent[o] = 1 =>
            \E i \in DOMAIN checkpoints : checkpoints[i].origin = o

\* Once the prediction phase seal is on disk the four ledgers never change
\* again ("a sealed prediction phase is immutable and cannot be resumed").
SealedPhaseFrozen ==
    phaseSeal.state = "WRITTEN" =>
        \A k \in Kinds : LedgerLen(k) = phaseSeal.counts[k]

\* Whatever raises after FINISHED is durable costs the answer: the next call
\* commits the slot as CRASH_RECOVERY.  An answer that came back is lost so only
\* to a crash or a failed write, or when it chose FALLBACK for some keys and not
\* for others, on which run_origin and its own validation disagree.
AnswerLostOnlyToFaults ==
    \A i \in DOMAIN predictions :
        LET o == predictions[i].origin
            abstained == answer[o].text.abstained
        IN predictions[i].reason = "CRASH_RECOVERY" =>
             \/ crashes > 0 \/ faults > 0 \/ sent[o] = 0
             \/ abstained # {} /\ abstained \cup RulNA # Keys

-----------------------------------------------------------------------------
(* Fairness: a live process keeps executing, a dead one is restarted with    *)
(* resume, and the driver keeps calling run_origin for an unfinished origin. *)

FairSpec ==
    /\ Spec
    /\ \A p \in Procs :
         /\ WF_vars(OpenRun(p, TRUE))
         /\ WF_vars(OpenLedger(p))
         /\ WF_vars(RunOriginStep(p))
         /\ WF_vars(SealStep(p))
         /\ \A o \in Origins : SF_vars(\E prov \in Providers : ClaimSlot(p, o, prov))

\* Every slot that was ever started is eventually checkpointed, through any
\* finite number of crashes, unless someone begins to seal a ledger or a write
\* fails: a torn ledger refuses every resume.
StartedSlotIsCheckpointed ==
    \A o \in Origins :
        Started(o) ~> \/ \E i \in DOMAIN checkpoints : checkpoints[i].origin = o
                      \/ \E k \in Kinds : seals[k] # NoSeal
                      \/ faults > 0

=============================================================================
