---------------------------- MODULE CAPRunProofs ----------------------------
(***************************************************************************)
(* Machine-checked proofs about the run directory, for every number of     *)
(* processes, origins, keys, crashes and failed writes.                    *)
(*                                                                         *)
(* The first half, over the control flow, ends in one record per slot and  *)
(* reads that stay true.  The second goes on to the lineage of             *)
(* checkpoints, the provenance of answers and the refinement of            *)
(* OneShotSlots: whatever the control flow, a step does one of eight       *)
(* things to the ledgers and the history (LedgerStep), and the links       *)
(* between the records and the abstract slots only see those.              *)
(*                                                                         *)
(* The last two parts go back to the control flow: what a single driver    *)
(* leaves alone after its phase seal, and when an answer that arrived may  *)
(* be lost.                                                                *)
(***************************************************************************)
EXTENDS CAPRun, CAPRunSlots, TLAPS, WellFoundedInduction

USE CAPAssumption

(* The pure functions of the runner return values of their types. *)

LEMMA ValueTypes ==
    /\ NoText \in Texts
    /\ NoCall \in Calls
    /\ \A r \in Responses : /\ ClosedStatus(r) \in Statuses
                            /\ UsableText(r) \in Texts
                            /\ r.late \in BOOLEAN
    /\ \A t \in Texts : ExecuteArm(t) \in Executions
    /\ \A c \in Calls, x \in Executions :
          /\ Reason(c, x) \in Reasons
          /\ Disposition(x) \in {"FALLBACK", "PREDICTION"}
<1>1. NoText \in Texts
  BY DEF NoText, Texts
<1>2. NoCall \in Calls
  BY <1>1 DEF NoCall, Calls, Statuses
<1>3. \A r \in Responses : /\ ClosedStatus(r) \in Statuses
                           /\ UsableText(r) \in Texts
                           /\ r.late \in BOOLEAN
  BY <1>1 DEF ClosedStatus, UsableText, Responses, Statuses
<1>4. FallbackExecution \in Executions /\ ChampionExecution \in Executions
  BY DEF FallbackExecution, ChampionExecution, Executions, States
<1>5. \A t \in Texts : VerifiedExecution(t) \in Executions
  <2> SUFFICES ASSUME NEW t \in Texts PROVE VerifiedExecution(t) \in Executions
    OBVIOUS
  <2>1. [k \in Keys |-> IF k \in RulNA \cup t.abstained
                        THEN "DELIBERATE_FALLBACK" ELSE "ACTIVE"] \in [Keys -> States]
    BY DEF States
  <2> QED BY <2>1 DEF VerifiedExecution, Executions
<1>6. \A t \in Texts : ExecuteArm(t) \in Executions
  BY <1>4, <1>5 DEF ExecuteArm
<1>7. \A c \in Calls, x \in Executions :
          /\ Reason(c, x) \in Reasons
          /\ Disposition(x) \in {"FALLBACK", "PREDICTION"}
  BY DEF Reason, Reasons, Disposition, Calls, Executions
<1> QED BY <1>1, <1>2, <1>3, <1>6, <1>7

LEMMA LedgerOrderType == \A i \in 1..4 : LedgerOrder[i] \in Kinds
BY DEF LedgerOrder, Kinds

(* Appended keeps a ledger a sequence and grows it by at most one record. *)

LEMMA AppendedType ==
    ASSUME NEW S, NEW file \in Seq(S), NEW r \in S, NEW out \in Outcomes
    PROVE  /\ Appended(file, r, out) \in Seq(S)
           /\ \/ Appended(file, r, out) = file
              \/ Appended(file, r, out) = Append(file, r)
BY DEF Appended, Outcomes

LEMMA GoDownType ==
    ASSUME ProcsTypeOK, FilesTypeOK, NEW p \in Procs, GoDown(p)
    PROVE  /\ ProcsTypeOK'
           /\ lock' \in [Kinds -> Procs \cup {NoProc}]
           /\ \A k \in Kinds : lock'[k] \in {lock[k], NoProc}
BY ValueTypes DEF ProcsTypeOK, FilesTypeOK, GoDown, Released, PCs

LEMMA SettleType ==
    ASSUME TypeOK,
           NEW p \in Procs, NEW k \in Kinds, NEW out \in Outcomes,
           NEW at \in PCs, NEW i \in Nat, NEW c \in Calls,
           pc[p] = "open" => c.origin \in Origins,
           Settle(p, k, out, at, i, c)
    PROVE  /\ ProcsTypeOK'
           /\ broken' \in SUBSET Kinds
           /\ lock' \in [Kinds -> Procs \cup {NoProc}]
           /\ crashes' \in Nat /\ faults' \in Nat
<1> USE DEF TypeOK
<1>1. crashes' \in Nat /\ faults' \in Nat /\ broken' \in SUBSET Kinds
  BY DEF Settle, LedgerEffect, HistoryTypeOK, FilesTypeOK
<1>2. CASE out = "ok"
  BY <1>1, <1>2 DEF Settle, Continue, ProcsTypeOK, FilesTypeOK
<1>3. CASE out = "fsync"
  BY <1>1, <1>3, ValueTypes DEF Settle, ProcsTypeOK, FilesTypeOK, PCs
<1>4. CASE out = "short"
  BY <1>1, <1>4, ValueTypes DEF Settle, Raise, GoIdle, ProcsTypeOK, FilesTypeOK, PCs
<1>5. CASE out = "torn"
  BY <1>1, <1>5, GoDownType DEF Settle
<1> QED BY <1>2, <1>3, <1>4, <1>5 DEF Outcomes

(* How an append changes what a read of the ledger yields. *)

LEMMA AttemptGrowth ==
    ASSUME LedgersTypeOK, NEW r \in AttemptRecords, attempts' = Append(attempts, r)
    PROVE  /\ \A o : Starts(o)' = IF r.event = "STARTED" /\ r.origin = o
                                  THEN Starts(o) \cup {Len(attempts) + 1} ELSE Starts(o)
           /\ \A o : Finishes(o)' = IF r.event = "FINISHED" /\ r.origin = o
                                    THEN Finishes(o) \cup {Len(attempts) + 1} ELSE Finishes(o)
BY DEF LedgersTypeOK, Starts, Finishes

LEMMA CommitGrowth ==
    ASSUME LedgersTypeOK, NEW m \in Commits, predictions' = Append(predictions, m)
    PROVE  \A o : CommitsOf(o)' = IF m.origin = o
                                 THEN CommitsOf(o) \cup {Len(predictions) + 1}
                                 ELSE CommitsOf(o)
BY DEF LedgersTypeOK, CommitsOf

LEMMA RowGrowth ==
    ASSUME LedgersTypeOK, NEW r \in ExecutionRows, executions' = Append(executions, r)
    PROVE  /\ \A ref : RowsOf(ref) \subseteq RowsOf(ref)'
           /\ \A ref : \A i \in RowsOf(ref) : executions'[i] = executions[i]
           /\ Len(executions) + 1 \in RowsOf(r.ref)'
           /\ executions'[Len(executions) + 1] = r
BY DEF LedgersTypeOK, RowsOf

LEMMA OnlyInSet ==
    ASSUME NEW S, S # {} PROVE Only(S) \in S
BY DEF Only

(* Ledger positions are numbers, and one of several is the latest. *)

LEMMA PositionsAreNat ==
    ASSUME LedgersTypeOK
    PROVE  /\ \A o : Starts(o) \subseteq Nat /\ Finishes(o) \subseteq Nat
           /\ \A o : CommitsOf(o) \subseteq DOMAIN predictions
           /\ DOMAIN predictions \subseteq Nat
           /\ \A ref : RowsOf(ref) \subseteq Nat
BY DEF LedgersTypeOK, Starts, Finishes, CommitsOf, RowsOf

LEMMA MaximumExists ==
    ASSUME NEW n \in Nat, NEW S \in SUBSET (1..n), S # {}
    PROVE  \E i \in S : \A j \in S : j <= i
<1> DEFINE T == {n - i : i \in S}
<1>1. T \subseteq Nat /\ T # {}
  <2>1. PICK i \in S : TRUE
    OBVIOUS
  <2>2. n - i \in T
    BY <2>1
  <2>3. \A y \in T : y \in Nat
    OBVIOUS
  <2> QED BY <2>2, <2>3
<1>2. PICK x \in T : \A y \in T : ~(<<y, x>> \in OpToRel(<, Nat))
  <2> HIDE DEF T
  <2> QED BY <1>1, NatLessThanWellFounded, WFMin, Zenon
<1>3. \A y \in T : ~(y < x)
  BY <1>1, <1>2 DEF OpToRel
<1>4. PICK i \in S : x = n - i
  OBVIOUS
<1>5. \A j \in S : j <= i
  BY <1>3, <1>4
<1> QED BY <1>5

LEMMA LatestIsPosition ==
    ASSUME LedgersTypeOK, NEW o, Started(o)
    PROVE  Latest(Starts(o) \cup Finishes(o)) \in Starts(o) \cup Finishes(o)
<1> DEFINE S == Starts(o) \cup Finishes(o)
<1>1. Len(attempts) \in Nat /\ S \in SUBSET (1..Len(attempts)) /\ S # {}
  BY DEF LedgersTypeOK, Starts, Finishes, Started
<1>2. \E i \in S : \A j \in S : j <= i
  <2> HIDE DEF S
  <2> QED BY <1>1, MaximumExists
<1> QED BY <1>2 DEF Latest

-----------------------------------------------------------------------------
(* Type correctness, one lemma per ledger append, then one step per action. *)

LEMMA CallUpdate ==
    ASSUME NEW c \in Calls, NEW s \in Statuses, NEW late \in BOOLEAN, NEW t \in Texts
    PROVE  [c EXCEPT !.status = s, !.late = late, !.text = t] \in Calls
BY DEF Calls

LEMMA AppendFinishedType ==
    ASSUME TypeOK, ReadsStayTrue, NEW p \in Procs, pc[p] \in {"slot", "waiting"},
           NEW s \in Statuses, NEW late \in BOOLEAN, NEW t \in Texts,
           AppendFinished(p, s, late, t)
    PROVE  LedgersTypeOK' /\ FilesTypeOK' /\ ProcsTypeOK' /\ crashes' \in Nat /\ faults' \in Nat
<1> DEFINE o == call[p].origin
           r == [event |-> "FINISHED", origin |-> o, started |-> Only(Starts(o)),
                 status |-> s, late |-> late]
           c == [call[p] EXCEPT !.status = s, !.late = late, !.text = t]
<1>1. o \in Origins /\ Started(o)
  BY DEF ReadsStayTrue, ReadsHold, InCall
<1>2. r \in AttemptRecords
  BY <1>1, OnlyInSet, PositionsAreNat DEF TypeOK, AttemptRecords, Started
<1>3. c \in Calls
  BY CallUpdate DEF TypeOK, ProcsTypeOK
<1>4. PICK out \in Outcomes : /\ attempts' = Appended(attempts, r, out)
                              /\ Settle(p, "ATTEMPT", out, "commit", 0, c)
  BY DEF AppendFinished
<1>5. attempts' \in Seq(AttemptRecords)
  <2> HIDE DEF r
  <2> QED BY <1>2, <1>4, AppendedType DEF TypeOK, LedgersTypeOK
<1>6. /\ ProcsTypeOK' /\ broken' \in SUBSET Kinds
      /\ lock' \in [Kinds -> Procs \cup {NoProc}] /\ crashes' \in Nat /\ faults' \in Nat
  <2> HIDE DEF c
  <2> QED BY <1>3, <1>4, SettleType DEF Kinds, PCs
<1>7. UNCHANGED <<predictions, executions, checkpoints, files>>
  BY DEF AppendFinished
<1> QED BY <1>5, <1>6, <1>7 DEF TypeOK, LedgersTypeOK, FilesTypeOK, files

LEMMA ClaimSlotType ==
    ASSUME TypeOK, NEW p \in Procs, NEW o \in Origins, NEW prov \in BOOLEAN,
           ClaimSlot(p, o, prov)
    PROVE  TypeOK'
<1> DEFINE c == [NoCall EXCEPT !.origin = o, !.recovered = Started(o), !.provider = prov]
           r == [event |-> "STARTED", origin |-> o, started |-> 0,
                 status |-> "NONE", late |-> FALSE]
<1>1. c \in Calls /\ c.origin = o
  BY ValueTypes DEF Calls, NoCall, Started, Statuses
<1>2. r \in AttemptRecords
  BY DEF AttemptRecords, Statuses
<1>3. UNCHANGED <<predictions, executions, checkpoints, files, history>>
  BY DEF ClaimSlot
<1>4. CASE /\ Continue(p, "slot", 0, c)
           /\ UNCHANGED <<attempts, broken, stale, crashes, faults>>
  <2> HIDE DEF c
  <2> QED BY <1>1, <1>3, <1>4 DEF TypeOK, LedgersTypeOK, FilesTypeOK, ProcsTypeOK,
                                  HistoryTypeOK, Continue, files, history, PCs
<1>5. CASE \E out \in Outcomes : /\ attempts' = Appended(attempts, r, out)
                                 /\ Settle(p, "ATTEMPT", out, "slot", 0, c)
  <2> HIDE DEF c, r
  <2>1. PICK out \in Outcomes : /\ attempts' = Appended(attempts, r, out)
                                /\ Settle(p, "ATTEMPT", out, "slot", 0, c)
    BY <1>5
  <2>2. attempts' \in Seq(AttemptRecords)
    BY <1>2, <2>1, AppendedType DEF TypeOK, LedgersTypeOK
  <2>3. /\ ProcsTypeOK' /\ broken' \in SUBSET Kinds
        /\ lock' \in [Kinds -> Procs \cup {NoProc}] /\ crashes' \in Nat /\ faults' \in Nat
    BY <1>1, <2>1, SettleType DEF Kinds, PCs
  <2> QED BY <1>3, <2>2, <2>3 DEF TypeOK, LedgersTypeOK, FilesTypeOK, HistoryTypeOK,
                                  files, history
<1> QED BY <1>4, <1>5 DEF ClaimSlot

LEMMA CommitPredictionType ==
    ASSUME TypeOK, ReadsStayTrue, NEW p \in Procs, CommitPrediction(p)
    PROVE  TypeOK'
<1> DEFINE m == CommitOf(call[p])
<1>1. m \in Commits
  <2> DEFINE x == ExecuteArm(call[p].text)
  <2>1. call[p].origin \in Origins /\ Started(call[p].origin) /\ call[p] \in Calls
    BY DEF ReadsStayTrue, ReadsHold, InCall, CommitPrediction, TypeOK, ProcsTypeOK
  <2>2. Only(Starts(call[p].origin)) \in Nat
    BY <2>1, OnlyInSet, PositionsAreNat DEF TypeOK, Started
  <2>3. call[p].text \in Texts /\ call[p].late \in BOOLEAN
    BY <2>1 DEF Calls
  <2>4. x \in Executions
    BY <2>3, ValueTypes
  <2>5. Reason(call[p], x) \in Reasons /\ Disposition(x) \in {"FALLBACK", "PREDICTION"}
    BY <2>1, <2>4, ValueTypes
  <2> HIDE DEF x
  <2>6. m = [origin |-> call[p].origin, started |-> Only(Starts(call[p].origin)),
             disposition |-> Disposition(x), reason |-> Reason(call[p], x),
             late |-> call[p].late, execution |-> x]
    BY DEF CommitOf, x
  <2> QED BY <2>1, <2>2, <2>3, <2>4, <2>5, <2>6 DEF Commits
<1>2. UNCHANGED <<attempts, executions, checkpoints, files, history>>
  BY DEF CommitPrediction
<1> HIDE DEF m
<1>3. CASE \E out \in Outcomes : /\ predictions' = Appended(predictions, m, out)
                                 /\ Settle(p, "PREDICTION", out, "rows", 1, call[p])
  <2>1. PICK out \in Outcomes : /\ predictions' = Appended(predictions, m, out)
                                /\ Settle(p, "PREDICTION", out, "rows", 1, call[p])
    BY <1>3
  <2>2. predictions' \in Seq(Commits)
    BY <1>1, <2>1, AppendedType DEF TypeOK, LedgersTypeOK
  <2>3. /\ ProcsTypeOK' /\ broken' \in SUBSET Kinds
        /\ lock' \in [Kinds -> Procs \cup {NoProc}] /\ crashes' \in Nat /\ faults' \in Nat
    <3>1. call[p] \in Calls /\ pc[p] # "open"
      BY DEF TypeOK, ProcsTypeOK, CommitPrediction
    <3> QED BY <2>1, <3>1, SettleType DEF Kinds, PCs
  <2> QED BY <1>2, <2>2, <2>3 DEF TypeOK, LedgersTypeOK, FilesTypeOK, HistoryTypeOK,
                                  files, history
<1>4. CASE Raise(p) /\ UNCHANGED <<predictions, broken, crashes, faults>>
  BY <1>2, <1>4, ValueTypes DEF TypeOK, LedgersTypeOK, FilesTypeOK, ProcsTypeOK,
        HistoryTypeOK, Raise, GoIdle, files, history, PCs
<1> QED BY <1>3, <1>4 DEF CommitPrediction, m

LEMMA AppendRowType ==
    ASSUME TypeOK, ReadsStayTrue, NEW p \in Procs, AppendRow(p)
    PROVE  TypeOK'
<1> DEFINE ref == Only(CommitsOf(call[p].origin))
           key == step[p]
           r == [ref |-> ref, key |-> key, state |-> predictions[ref].execution.rows[key]]
           at == IF key = NumKeys THEN "checkpoint" ELSE "rows"
<1>1. key \in Keys /\ Committed(call[p].origin) /\ pc[p] = "rows"
  BY DEF ReadsStayTrue, ReadsHold, AppendRow
<1>2. ref \in DOMAIN predictions /\ ref \in Nat
  BY <1>1, OnlyInSet, PositionsAreNat DEF TypeOK, Committed
<1>3. r \in ExecutionRows
  <2> HIDE DEF ref, key
  <2>1. predictions[ref].execution \in Executions
    <3>1. predictions[ref] \in Commits
      BY <1>2 DEF TypeOK, LedgersTypeOK
    <3> QED BY <3>1 DEF Commits
  <2>2. predictions[ref].execution.rows[key] \in States
    BY <1>1, <2>1 DEF Executions
  <2> QED BY <1>1, <1>2, <2>2 DEF ExecutionRows
<1>4. UNCHANGED <<attempts, predictions, checkpoints, files, history>>
  BY DEF AppendRow
<1>5. at \in PCs /\ key + 1 \in Nat /\ call[p] \in Calls
  BY <1>1 DEF PCs, Keys, TypeOK, ProcsTypeOK
<1> HIDE DEF r, at
<1>6. CASE Continue(p, at, key + 1, call[p]) /\ UNCHANGED <<executions, broken, stale, crashes, faults>>
  BY <1>4, <1>5, <1>6 DEF TypeOK, LedgersTypeOK, FilesTypeOK, ProcsTypeOK,
        HistoryTypeOK, Continue, files, history
<1>7. CASE \E out \in Outcomes : /\ executions' = Appended(executions, r, out)
                                 /\ Settle(p, "EXECUTION", out, at, key + 1, call[p])
  <2>1. PICK out \in Outcomes : /\ executions' = Appended(executions, r, out)
                                /\ Settle(p, "EXECUTION", out, at, key + 1, call[p])
    BY <1>7
  <2>2. executions' \in Seq(ExecutionRows)
    BY <1>3, <2>1, AppendedType DEF TypeOK, LedgersTypeOK
  <2>3. /\ ProcsTypeOK' /\ broken' \in SUBSET Kinds
        /\ lock' \in [Kinds -> Procs \cup {NoProc}] /\ crashes' \in Nat /\ faults' \in Nat
    BY <1>1, <1>5, <2>1, SettleType DEF Kinds
  <2> QED BY <1>4, <2>2, <2>3 DEF TypeOK, LedgersTypeOK, FilesTypeOK, HistoryTypeOK,
                                  files, history
<1>8. CASE Raise(p) /\ UNCHANGED <<executions, broken, crashes, faults>>
  BY <1>4, <1>8, ValueTypes DEF TypeOK, LedgersTypeOK, FilesTypeOK, ProcsTypeOK,
        HistoryTypeOK, Raise, GoIdle, files, history, PCs
<1> QED BY <1>6, <1>7, <1>8 DEF AppendRow, r, at

LEMMA AppendCheckpointType ==
    ASSUME TypeOK, ReadsStayTrue, NEW p \in Procs, AppendCheckpoint(p)
    PROVE  TypeOK'
<1> DEFINE o == call[p].origin
           ref == Only(CommitsOf(o))
           final == FinalRecord(o)
           rows == [k \in Keys |-> Only({i \in RowsOf(ref) : executions[i].key = k})]
           r == [origin |-> o, final |-> final, ref |-> ref, rows |-> rows]
<1>1. o \in Origins /\ Started(o) /\ Committed(o) /\ pc[p] = "checkpoint"
  BY DEF ReadsStayTrue, ReadsHold, AppendCheckpoint, InCall
<1>2. ref \in Nat
  BY <1>1, OnlyInSet, PositionsAreNat DEF TypeOK, Committed
<1>3. final \in Nat
  BY <1>1, LatestIsPosition, PositionsAreNat DEF TypeOK, FinalRecord
<1>4. rows \in [Keys -> Nat]
  <2> SUFFICES ASSUME NEW k \in Keys
               PROVE  Only({i \in RowsOf(ref) : executions[i].key = k}) \in Nat
    OBVIOUS
  <2>1. k < step[p]
    BY DEF ReadsStayTrue, ReadsHold, AppendCheckpoint, Keys
  <2>2. \E i \in RowsOf(ref) : executions[i].key = k
    BY <2>1 DEF ReadsStayTrue, ReadsHold, AppendCheckpoint
  <2> HIDE DEF ref
  <2>3. Only({i \in RowsOf(ref) : executions[i].key = k}) \in RowsOf(ref)
    BY <2>2, OnlyInSet
  <2> QED BY <2>3, PositionsAreNat DEF TypeOK
<1>5. r \in Checkpoints
  <2> HIDE DEF o, ref, final, rows
  <2> QED BY <1>1, <1>2, <1>3, <1>4 DEF Checkpoints
<1>6. UNCHANGED <<attempts, predictions, executions, files, history>>
  BY DEF AppendCheckpoint
<1>7. CASE \E out \in Outcomes : /\ checkpoints' = Appended(checkpoints, r, out)
                                 /\ Settle(p, "CHECKPOINT", out, "open", 0, NoCall)
  <2> HIDE DEF r
  <2>1. PICK out \in Outcomes : /\ checkpoints' = Appended(checkpoints, r, out)
                                /\ Settle(p, "CHECKPOINT", out, "open", 0, NoCall)
    BY <1>7
  <2>2. checkpoints' \in Seq(Checkpoints)
    BY <1>5, <2>1, AppendedType DEF TypeOK, LedgersTypeOK
  <2>3. /\ ProcsTypeOK' /\ broken' \in SUBSET Kinds
        /\ lock' \in [Kinds -> Procs \cup {NoProc}] /\ crashes' \in Nat /\ faults' \in Nat
    BY <1>1, <2>1, ValueTypes, SettleType DEF Kinds, PCs
  <2> QED BY <1>6, <2>2, <2>3 DEF TypeOK, LedgersTypeOK, FilesTypeOK, HistoryTypeOK,
                                  files, history
<1>8. CASE GoIdle(p, "open") /\ UNCHANGED <<checkpoints, broken, crashes, faults>>
  BY <1>6, <1>8, ValueTypes DEF TypeOK, LedgersTypeOK, FilesTypeOK, ProcsTypeOK,
        HistoryTypeOK, GoIdle, files, history, PCs
<1> HIDE DEF r
<1> QED BY <1>7, <1>8 DEF AppendCheckpoint, r

LEMMA TypeInit == Init => TypeOK
<1> SUFFICES ASSUME Init PROVE TypeOK
  OBVIOUS
<1>1. LedgersTypeOK
  BY DEF Init, LedgersTypeOK
<1>2. FilesTypeOK
  BY DEF Init, FilesTypeOK, NoSeal
<1>3. ProcsTypeOK
  BY ValueTypes DEF Init, ProcsTypeOK, PCs
<1>4. HistoryTypeOK
  BY DEF Init, HistoryTypeOK
<1> QED BY <1>1, <1>2, <1>3, <1>4 DEF TypeOK

\* Every step keeps the types, given what an in-flight call may rely on.
LEMMA TypeStep ==
    ASSUME TypeOK, ReadsStayTrue, [Next]_vars
    PROVE  TypeOK'
<1> USE DEF TypeOK
<1>1. ASSUME NEW p \in Procs, NEW resume \in BOOLEAN, OpenRun(p, resume) PROVE TypeOK'
  BY <1>1, ValueTypes DEF OpenRun, Continue, LedgersTypeOK, FilesTypeOK, ProcsTypeOK,
        HistoryTypeOK, ledgers, files, history, PCs
<1>2. ASSUME NEW p \in Procs, OpenLedger(p) PROVE TypeOK'
  <2> DEFINE k == LedgerOrder[step[p]]
  <2>1. k \in Kinds
    BY <1>2, LedgerOrderType DEF ReadsStayTrue, ReadsHold, OpenLedger
  <2>2. UNCHANGED <<ledgers, broken, seals, phaseSeal, crashes, faults, history>>
    BY <1>2 DEF OpenLedger
  <2>3. CASE GoDown(p) /\ UNCHANGED created
    BY <2>2, <2>3, GoDownType DEF LedgersTypeOK, FilesTypeOK, HistoryTypeOK, ledgers, history
  <2>4. CASE /\ lock' = [lock EXCEPT ![k] = p]
             /\ created' = created \cup {k}
             /\ pc' = [pc EXCEPT ![p] = IF step[p] = 4 THEN "open" ELSE @]
             /\ step' = [step EXCEPT ![p] = IF @ = 4 THEN 0 ELSE @ + 1]
             /\ UNCHANGED <<call, stale, unacked>>
    <3> HIDE DEF k
    <3> QED BY <2>1, <2>2, <2>4 DEF LedgersTypeOK, FilesTypeOK, ProcsTypeOK,
            HistoryTypeOK, ledgers, history, PCs
  <2> HIDE DEF k
  <2> QED BY <1>2, <2>3, <2>4 DEF OpenLedger, k
<1>3. ASSUME NEW p \in Procs, CloseRun(p) PROVE TypeOK'
  BY <1>3, GoDownType DEF CloseRun, LedgersTypeOK, FilesTypeOK, HistoryTypeOK, ledgers, files, history
<1>4. ASSUME NEW p \in Procs, Crash(p) PROVE TypeOK'
  BY <1>4, GoDownType DEF Crash, LedgersTypeOK, FilesTypeOK, HistoryTypeOK, ledgers, files, history
<1>5. ASSUME NEW p \in Procs, CrashInSeal(p) PROVE TypeOK'
  <2>1. seals' \in [Kinds -> Int] /\ phaseSeal' \in [state: {"ABSENT", "TORN", "WRITTEN"}, counts: [Kinds -> Int]]
    BY <1>5 DEF CrashInSeal, FilesTypeOK, BadSeal
  <2> QED BY <1>5, <2>1, GoDownType, SMTT(40) DEF CrashInSeal, LedgersTypeOK, FilesTypeOK, HistoryTypeOK, ledgers, history
<1>6. ASSUME NEW p \in Procs, NEW o \in Origins, NEW prov \in Providers, ClaimSlot(p, o, prov)
      PROVE TypeOK'
  BY <1>6, ClaimSlotType
<1>7. ASSUME NEW p \in Procs, SlotRaises(p) PROVE TypeOK'
  BY <1>7, ValueTypes DEF SlotRaises, Raise, GoIdle, LedgersTypeOK, FilesTypeOK,
        ProcsTypeOK, HistoryTypeOK, ledgers, files, history, PCs
<1>8. ASSUME NEW p \in Procs, SlotCommitted(p) PROVE TypeOK'
  BY <1>8 DEF SlotCommitted, Continue, LedgersTypeOK, FilesTypeOK, ProcsTypeOK,
        HistoryTypeOK, ledgers, files, history, PCs
<1>9. ASSUME NEW p \in Procs, SlotFinished(p) PROVE TypeOK'
  <2>1. [call[p] EXCEPT !.status = "CRASH_RECOVERY"] \in Calls
    BY DEF ProcsTypeOK, Calls, Statuses
  <2> QED BY <1>9, <2>1 DEF SlotFinished, Continue, LedgersTypeOK, FilesTypeOK, ProcsTypeOK,
        HistoryTypeOK, ledgers, files, history, PCs
<1>10. ASSUME NEW p \in Procs, SlotRecovered(p) PROVE TypeOK'
  BY <1>10, AppendFinishedType, ValueTypes DEF SlotRecovered, HistoryTypeOK, history, Statuses
<1>11. ASSUME NEW p \in Procs, SlotLocal(p) PROVE TypeOK'
  BY <1>11, AppendFinishedType, ValueTypes DEF SlotLocal, HistoryTypeOK, history, Statuses
<1>12. ASSUME NEW p \in Procs, SlotInvoke(p) PROVE TypeOK'
  <2>1. HistoryTypeOK'
    <3>1. sent' \in [Origins -> Nat]
      <4>1. sent' = [sent EXCEPT ![call[p].origin] = @ + 1] /\ call[p].origin \in Origins
        BY <1>12 DEF SlotInvoke, ReadsStayTrue, ReadsHold, InCall
      <4> QED BY <4>1 DEF HistoryTypeOK
    <3>2. UNCHANGED <<crashes, faults, answer>>
      BY <1>12 DEF SlotInvoke
    <3> QED BY <3>1, <3>2 DEF HistoryTypeOK
  <2>2. ProcsTypeOK' /\ UNCHANGED lock
    BY <1>12 DEF SlotInvoke, Continue, ProcsTypeOK, PCs
  <2> QED BY <1>12, <2>1, <2>2 DEF SlotInvoke, LedgersTypeOK, FilesTypeOK, ledgers, files
<1>13. ASSUME NEW p \in Procs, NEW r \in Responses, Respond(p, r) PROVE TypeOK'
  <2>1. /\ LedgersTypeOK' /\ FilesTypeOK' /\ ProcsTypeOK'
        /\ crashes' \in Nat /\ faults' \in Nat
    BY <1>13, AppendFinishedType, ValueTypes DEF Respond
  <2>2. answer' \in [Origins -> Responses \cup {NoAnswer}]
    BY <1>13 DEF Respond, HistoryTypeOK
  <2> QED BY <1>13, <2>1, <2>2 DEF Respond, HistoryTypeOK
<1>14. ASSUME NEW p \in Procs, SealStart(p) PROVE TypeOK'
  BY <1>14, ValueTypes DEF SealStart, Continue, LedgersTypeOK, FilesTypeOK, ProcsTypeOK,
        HistoryTypeOK, ledgers, files, history, PCs
<1>15. ASSUME NEW p \in Procs, SealLedger(p) PROVE TypeOK'
  <2>1. \A k \in Kinds : LedgerLen(k) \in Int
    BY DEF LedgerLen, LedgersTypeOK
  <2>2. LedgerOrder[step[p]] \in Kinds
    BY <1>15, LedgerOrderType DEF ReadsStayTrue, ReadsHold, SealLedger
  <2>3. seals' \in [Kinds -> Int]
    BY <1>15, <2>1, <2>2 DEF SealLedger, FilesTypeOK, BadSeal
  <2>4. lock' \in [Kinds -> Procs \cup {NoProc}]
    BY <1>15, <2>2 DEF SealLedger, FilesTypeOK, Raise, GoIdle
  <2>5. ProcsTypeOK'
    BY <1>15, ValueTypes DEF SealLedger, Raise, GoIdle, ProcsTypeOK, PCs
  <2> QED BY <1>15, <2>3, <2>4, <2>5 DEF SealLedger, LedgersTypeOK,
        FilesTypeOK, HistoryTypeOK, ledgers, history
<1>16. ASSUME NEW p \in Procs, WritePhaseSeal(p) PROVE TypeOK'
  <2>1. phaseSeal' \in [state: {"ABSENT", "TORN", "WRITTEN"}, counts: [Kinds -> Int]]
    BY <1>16 DEF WritePhaseSeal, FilesTypeOK
  <2>2. ProcsTypeOK' /\ UNCHANGED lock
    BY <1>16, ValueTypes DEF WritePhaseSeal, Raise, GoIdle, ProcsTypeOK, PCs
  <2> QED BY <1>16, <2>1, <2>2 DEF WritePhaseSeal, LedgersTypeOK, FilesTypeOK,
        HistoryTypeOK, ledgers, history
<1>17. ASSUME NEW p \in Procs, VerifyPhase(p) PROVE TypeOK'
  BY <1>17, ValueTypes DEF VerifyPhase, GoIdle, LedgersTypeOK, FilesTypeOK,
        ProcsTypeOK, HistoryTypeOK, ledgers, files, history, PCs
<1>18. CASE UNCHANGED vars
  BY <1>18 DEF vars, LedgersTypeOK, FilesTypeOK, ProcsTypeOK, HistoryTypeOK, ledgers, history
<1> QED
  BY <1>1, <1>2, <1>3, <1>4, <1>5, <1>6, <1>7, <1>8, <1>9, <1>10, <1>11, <1>12, <1>13,
     <1>14, <1>15, <1>16, <1>17, <1>18,
     CommitPredictionType, AppendRowType, AppendCheckpointType
     DEF Next, RunOriginStep, SealStep

-----------------------------------------------------------------------------
(* A process disturbs neither the locks nor the reads of another one.       *)

\* A set of ledger positions stays or goes from empty to a single record.
GrowsOnce(S, T) == T = S \/ (S = {} /\ \E n : T = {n})

\* A step of p leaves the control state and the locks of the others alone.
OthersUnmoved(p) ==
    \A q \in Procs : q # p =>
        /\ pc'[q] = pc[q] /\ step'[q] = step[q] /\ call'[q] = call[q]
        /\ \A k \in Kinds : lock'[k] = q <=> lock[k] = q

\* A step of p grows the ledgers at most by records its locks entitle it to.
LedgersGrow(p) ==
    /\ \A o \in Origins : GrowsOnce(Starts(o), Starts(o)')
    /\ \A o \in Origins :
          \/ Finishes(o)' = Finishes(o)
          \/ lock["ATTEMPT"] = p /\ GrowsOnce(Finishes(o), Finishes(o)')
    /\ \A o \in Origins :
          \/ CommitsOf(o)' = CommitsOf(o)
          \/ lock["PREDICTION"] = p /\ GrowsOnce(CommitsOf(o), CommitsOf(o)')
    /\ \A ref : \A i \in RowsOf(ref) :
          i \in RowsOf(ref)' /\ executions'[i].key = executions[i].key
    /\ \A o \in Origins : sent'[o] = sent[o] \/ lock["ATTEMPT"] = p

LEMMA QuietLedgers ==
    ASSUME NEW p, UNCHANGED <<attempts, predictions, executions, sent>>
    PROVE  LedgersGrow(p)
BY DEF LedgersGrow, GrowsOnce, Starts, Finishes, CommitsOf, RowsOf

LEMMA OthersKeepReads ==
    ASSUME TypeOK, NEW p, NEW q \in Procs, q # p, ReadsHold(q),
           OthersUnmoved(p), LedgersGrow(p)
    PROVE  ReadsHold(q)'
<1>0. PICK o : o = call[q].origin
  OBVIOUS
<1>1. /\ pc'[q] = pc[q] /\ step'[q] = step[q] /\ call'[q] = call[q]
      /\ lock'["ATTEMPT"] = q <=> lock["ATTEMPT"] = q
      /\ lock'["PREDICTION"] = q <=> lock["PREDICTION"] = q
  BY DEF OthersUnmoved, Kinds
<1>2. pc[q] \in {"openingNew", "openingResume", "sealing"} => step[q] \in 1..4
  BY <1>0 DEF ReadsHold
<1>3. pc[q] \in InCall => o \in Origins /\ Started(o)'
  BY <1>0 DEF ReadsHold, LedgersGrow, GrowsOnce, Started
<1>4. pc[q] = "slot" /\ ~call[q].recovered => lock'["ATTEMPT"] = q /\ sent'[o] = 0
  BY <1>0, <1>1, <1>3 DEF ReadsHold, LedgersGrow, InCall
<1>5. pc[q] = "waiting" /\ lock'["ATTEMPT"] = q => ~Finished(o)'
  BY <1>0, <1>1, <1>3 DEF ReadsHold, LedgersGrow, InCall, Finished
<1>6. pc[q] \in {"waiting", "commit"} /\ lock'["PREDICTION"] = q => ~Committed(o)'
  BY <1>0, <1>1, <1>3 DEF ReadsHold, LedgersGrow, InCall, Committed
<1>7. pc[q] = "rows" => step[q] \in Keys
  BY <1>0 DEF ReadsHold
<1>8. pc[q] = "checkpoint" => step[q] = NumKeys + 1
  BY <1>0 DEF ReadsHold
<1>9. ASSUME pc[q] \in {"rows", "checkpoint"}
      PROVE  (/\ Committed(call[q].origin)
              /\ \A k \in Keys : k < step[q] =>
                   \E i \in RowsOf(Only(CommitsOf(call[q].origin))) : executions[i].key = k)'
  <2>1. o \in Origins /\ Committed(o)
    BY <1>0, <1>9 DEF ReadsHold, InCall
  <2>2. CommitsOf(o)' = CommitsOf(o)
    BY <1>0, <2>1 DEF LedgersGrow, GrowsOnce, Committed
  <2>3. CommitsOf(call[q].origin)' = CommitsOf(o)
    BY <1>0, <1>1, <2>2 DEF CommitsOf
  <2>4. PICK ref : ref = Only(CommitsOf(o)) /\ ref = Only(CommitsOf(call[q].origin))'
    BY <2>3 DEF Only
  <2>5. \A k \in Keys : k < step[q] => \E i \in RowsOf(ref) : executions[i].key = k
    BY <1>0, <1>9, <2>4 DEF ReadsHold
  <2>6. \A k \in Keys : k < step[q] => \E i \in RowsOf(ref)' : executions'[i].key = k
    BY <2>5 DEF LedgersGrow
  <2>7. Committed(call[q].origin)'
    BY <2>1, <2>3 DEF Committed
  <2> QED BY <1>0, <1>1, <2>4, <2>6, <2>7 DEF RowsOf
<1> QED
  BY <1>0, <1>1, <1>2, <1>3, <1>4, <1>5, <1>6, <1>7, <1>8, <1>9 DEF ReadsHold

LEMMA IdleKeepsReads ==
    ASSUME NEW p \in Procs,
           pc'[p] \in {"down", "open", "phase", "verify", "sealed"}
    PROVE  ReadsHold(p)'
BY DEF ReadsHold, InCall

LEMMA GoDownFrame ==
    ASSUME TypeOK, NEW p \in Procs, GoDown(p)
    PROVE  OthersUnmoved(p) /\ pc'[p] = "down"
BY DEF TypeOK, ProcsTypeOK, FilesTypeOK, GoDown, Released, OthersUnmoved

LEMMA GoIdleFrame ==
    ASSUME TypeOK, NEW p \in Procs, NEW at, GoIdle(p, at)
    PROVE  OthersUnmoved(p) /\ pc'[p] = at
BY DEF TypeOK, ProcsTypeOK, GoIdle, OthersUnmoved

LEMMA ContinueFrame ==
    ASSUME TypeOK, NEW p \in Procs, NEW at, NEW i, NEW c, Continue(p, at, i, c)
    PROVE  /\ OthersUnmoved(p)
           /\ pc'[p] = at /\ step'[p] = i /\ call'[p] = c /\ lock' = lock
BY DEF TypeOK, ProcsTypeOK, Continue, OthersUnmoved

LEMMA SettleFrame ==
    ASSUME TypeOK, NEW p \in Procs, NEW k \in Kinds, NEW out \in Outcomes,
           NEW at, NEW i, NEW c, Settle(p, k, out, at, i, c)
    PROVE  /\ OthersUnmoved(p)
           /\ \/ pc'[p] \in {"down", "open"}
              \/ /\ out = "ok"
                 /\ pc'[p] = at /\ step'[p] = i /\ call'[p] = c /\ lock' = lock
<1>1. CASE out = "ok"
  BY <1>1, ContinueFrame DEF Settle
<1>2. CASE out = "fsync"
  BY <1>2 DEF Settle, TypeOK, ProcsTypeOK, OthersUnmoved
<1>3. CASE out = "short"
  BY <1>3, GoIdleFrame DEF Settle, Raise
<1>4. CASE out = "torn"
  BY <1>4, GoDownFrame DEF Settle
<1> QED BY <1>1, <1>2, <1>3, <1>4 DEF Outcomes

-----------------------------------------------------------------------------
(* The inductive invariant.  TypeOK alone is not inductive: the record that  *)
(* FINISHED, a row or a checkpoint refers to exists only because the reads   *)
(* of the call in flight stay true, and those stay true only because the     *)
(* flocks serialize the appends and every slot has one record of each kind.  *)

IInv == TypeOK /\ OneRecordPerSlot /\ OneCallPerSlot /\ ReadsStayTrue

\* What each action of process p is shown to do.
StepIsSafe(p) ==
    OthersUnmoved(p) /\ LedgersGrow(p) /\ ReadsHold(p)' /\ OneCallPerSlot'

LEMMA CallsStayAccounted ==
    ASSUME IInv, NEW p \in Procs, LedgersGrow(p), UNCHANGED sent
    PROVE  OneCallPerSlot'
BY DEF IInv, OneCallPerSlot, LedgersGrow, GrowsOnce, Started

LEMMA QuietStepIsSafe ==
    ASSUME IInv, NEW p \in Procs, OthersUnmoved(p), ReadsHold(p)',
           UNCHANGED <<attempts, predictions, executions, sent>>
    PROVE  StepIsSafe(p)
BY QuietLedgers, CallsStayAccounted DEF StepIsSafe

LEMMA OneRecordStep ==
    ASSUME IInv, NEW p \in Procs, LedgersGrow(p)
    PROVE  OneRecordPerSlot'
BY DEF IInv, OneRecordPerSlot, AtMostOne, LedgersGrow, GrowsOnce

LEMMA OpenIsSafe ==
    ASSUME IInv, NEW p \in Procs,
           (\E resume \in BOOLEAN : OpenRun(p, resume)) \/ OpenLedger(p)
    PROVE  StepIsSafe(p)
<1> USE DEF IInv
<1>1. UNCHANGED <<attempts, predictions, executions, sent>>
  BY DEF OpenRun, OpenLedger, ledgers, history
<1>2. ASSUME NEW resume \in BOOLEAN, OpenRun(p, resume)
      PROVE  OthersUnmoved(p) /\ ReadsHold(p)'
  <2>1. OthersUnmoved(p) /\ pc'[p] \in {"openingNew", "openingResume"} /\ step'[p] = 1
    BY <1>2, ContinueFrame DEF OpenRun
  <2> QED BY <2>1 DEF ReadsHold, InCall
<1>3. ASSUME OpenLedger(p) PROVE OthersUnmoved(p) /\ ReadsHold(p)'
  <2>1. step[p] \in 1..4 /\ LedgerOrder[step[p]] \in Kinds
    BY <1>3, LedgerOrderType DEF OpenLedger, ReadsStayTrue, ReadsHold
  <2>2. CASE GoDown(p)
    BY <2>2, GoDownFrame, IdleKeepsReads
  <2>3. CASE ~GoDown(p)
    <3>1. /\ lock[LedgerOrder[step[p]]] = NoProc
          /\ lock' = [lock EXCEPT ![LedgerOrder[step[p]]] = p]
          /\ pc' = [pc EXCEPT ![p] = IF step[p] = 4 THEN "open" ELSE @]
          /\ step' = [step EXCEPT ![p] = IF @ = 4 THEN 0 ELSE @ + 1]
          /\ call' = call
          /\ pc[p] \in {"openingNew", "openingResume"}
      BY <1>3, <2>3 DEF OpenLedger
    <3>2. OthersUnmoved(p)
      BY <2>1, <3>1 DEF TypeOK, ProcsTypeOK, FilesTypeOK, OthersUnmoved
    <3>3. pc'[p] = "open" \/ (pc'[p] \in {"openingNew", "openingResume"} /\ step'[p] \in 1..4)
      BY <2>1, <3>1 DEF TypeOK, ProcsTypeOK
    <3> QED BY <3>2, <3>3, IdleKeepsReads DEF ReadsHold, InCall
  <2> QED BY <2>2, <2>3
<1> QED BY <1>1, <1>2, <1>3, QuietStepIsSafe

LEMMA EndIsSafe ==
    ASSUME IInv, NEW p \in Procs, CloseRun(p) \/ Crash(p) \/ CrashInSeal(p)
    PROVE  StepIsSafe(p)
<1>1. GoDown(p) /\ UNCHANGED <<attempts, predictions, executions, sent>>
  BY DEF CloseRun, Crash, CrashInSeal, ledgers, history
<1> QED BY <1>1, GoDownFrame, IdleKeepsReads, QuietStepIsSafe DEF IInv

LEMMA ClaimSlotIsSafe ==
    ASSUME IInv, NEW p \in Procs, NEW o \in Origins, NEW prov \in BOOLEAN,
           ClaimSlot(p, o, prov)
    PROVE  StepIsSafe(p)
<1> USE DEF IInv
<1>1. PICK c : c = [NoCall EXCEPT !.origin = o, !.recovered = Started(o), !.provider = prov]
  OBVIOUS
<1>2. c.origin = o /\ (c.recovered <=> Started(o))
  BY <1>1 DEF NoCall
<1>3. PICK r : r = [event |-> "STARTED", origin |-> o, started |-> 0,
                    status |-> "NONE", late |-> FALSE]
  OBVIOUS
<1>4. r \in AttemptRecords /\ r.event = "STARTED" /\ r.origin = o
  BY <1>3 DEF AttemptRecords, Statuses
<1>5. UNCHANGED <<predictions, executions, sent>>
  BY DEF ClaimSlot, history
<1>6. CASE Started(o) /\ Continue(p, "slot", 0, c) /\ UNCHANGED attempts
  <2>1. OthersUnmoved(p) /\ pc'[p] = "slot" /\ call'[p] = c
    BY <1>6, ContinueFrame
  <2>2. Started(o)'
    BY <1>6 DEF Started, Starts
  <2>3. ReadsHold(p)'
    BY <1>2, <1>6, <2>1, <2>2 DEF ReadsHold, InCall
  <2> QED BY <1>5, <1>6, <2>1, <2>3, QuietStepIsSafe
<1>7. CASE /\ ~Started(o) /\ lock["ATTEMPT"] = p
           /\ \E out \in Outcomes : /\ attempts' = Appended(attempts, r, out)
                                    /\ Settle(p, "ATTEMPT", out, "slot", 0, c)
  <2>1. PICK out \in Outcomes : /\ attempts' = Appended(attempts, r, out)
                                /\ Settle(p, "ATTEMPT", out, "slot", 0, c)
    BY <1>7
  <2>2. CASE attempts' = attempts /\ out # "ok"
    <3>1. OthersUnmoved(p) /\ pc'[p] \in {"down", "open"}
      BY <2>1, <2>2, SettleFrame DEF Kinds
    <3> QED BY <1>5, <2>2, <3>1, IdleKeepsReads, QuietStepIsSafe
  <2>3. CASE attempts' = Append(attempts, r)
    <3>1. /\ \A x \in Origins : Starts(x)' = IF x = o THEN Starts(x) \cup {Len(attempts) + 1} ELSE Starts(x)
          /\ \A x \in Origins : Finishes(x)' = Finishes(x)
      BY <1>4, <2>3, AttemptGrowth DEF TypeOK
    <3>2. LedgersGrow(p)
      <4>1. \A x \in Origins : GrowsOnce(Starts(x), Starts(x)')
        BY <1>7, <3>1 DEF GrowsOnce, Started
      <4> QED BY <1>5, <3>1, <4>1 DEF LedgersGrow, CommitsOf, RowsOf
    <3>3. /\ OthersUnmoved(p)
          /\ \/ pc'[p] \in {"down", "open"}
             \/ pc'[p] = "slot" /\ call'[p] = c /\ lock' = lock
      BY <2>1, SettleFrame DEF Kinds
    <3>4. Started(o)' /\ sent'[o] = 0
      BY <1>5, <1>7, <3>1 DEF Started, OneCallPerSlot, TypeOK, HistoryTypeOK
    <3>5. ReadsHold(p)'
      BY <1>2, <1>7, <3>3, <3>4, IdleKeepsReads DEF ReadsHold, InCall
    <3> QED BY <1>5, <3>2, <3>3, <3>5, CallsStayAccounted DEF StepIsSafe
  <2> QED BY <2>1, <2>2, <2>3 DEF Appended, Outcomes
<1> QED BY <1>1, <1>3, <1>6, <1>7 DEF ClaimSlot

\* FINISHED closes a slot that is still open, and leaves the call deciding.
LEMMA AppendFinishedIsSafe ==
    ASSUME IInv, NEW p \in Procs, pc[p] \in {"slot", "waiting"},
           NEW s \in Statuses, NEW late \in BOOLEAN, NEW t \in Texts,
           ~Finished(call[p].origin),
           lock["PREDICTION"] = p => ~Committed(call[p].origin),
           AppendFinished(p, s, late, t), UNCHANGED sent
    PROVE  StepIsSafe(p)
<1> USE DEF IInv
<1>1. PICK o \in Origins : o = call[p].origin /\ Started(o)
  BY DEF ReadsStayTrue, ReadsHold, InCall
<1>2. PICK r : r = [event |-> "FINISHED", origin |-> o, started |-> Only(Starts(o)),
                    status |-> s, late |-> late]
  OBVIOUS
<1>3. r \in AttemptRecords /\ r.event = "FINISHED" /\ r.origin = o
  BY <1>1, <1>2, OnlyInSet, PositionsAreNat DEF TypeOK, AttemptRecords, Started
<1>4. PICK c : c = [call[p] EXCEPT !.status = s, !.late = late, !.text = t]
  OBVIOUS
<1>5. c.origin = o
  BY <1>1, <1>4 DEF TypeOK, ProcsTypeOK, Calls
<1>6. PICK out \in Outcomes : /\ attempts' = Appended(attempts, r, out)
                              /\ Settle(p, "ATTEMPT", out, "commit", 0, c)
  BY <1>1, <1>2, <1>4 DEF AppendFinished
<1>7. lock["ATTEMPT"] = p /\ UNCHANGED <<predictions, executions>>
  BY DEF AppendFinished
<1>8. LedgersGrow(p)
  <2>1. CASE attempts' = attempts
    BY <1>7, <2>1, QuietLedgers
  <2>2. CASE attempts' = Append(attempts, r)
    <3>1. /\ \A x \in Origins : Starts(x)' = Starts(x)
          /\ \A x \in Origins : Finishes(x)' =
                IF x = o THEN Finishes(x) \cup {Len(attempts) + 1} ELSE Finishes(x)
      BY <1>3, <2>2, AttemptGrowth DEF TypeOK
    <3>2. \A x \in Origins : GrowsOnce(Finishes(x), Finishes(x)')
      BY <1>1, <3>1 DEF GrowsOnce, Finished
    <3> QED BY <1>7, <3>1, <3>2 DEF LedgersGrow, GrowsOnce, CommitsOf, RowsOf
  <2> QED BY <1>6, <2>1, <2>2 DEF Appended
<1>9. /\ OthersUnmoved(p)
      /\ \/ pc'[p] \in {"down", "open"}
         \/ pc'[p] = "commit" /\ call'[p] = c /\ lock' = lock
  BY <1>6, SettleFrame DEF Kinds
<1>10. Started(o)' /\ (lock["PREDICTION"] = p => ~Committed(o)')
  BY <1>1, <1>7, <1>8 DEF LedgersGrow, GrowsOnce, Started, Committed, CommitsOf
<1>11. ReadsHold(p)'
  BY <1>5, <1>9, <1>10, IdleKeepsReads DEF ReadsHold, InCall
<1> QED BY <1>8, <1>9, <1>11, CallsStayAccounted DEF StepIsSafe

LEMMA SlotIsSafe ==
    ASSUME IInv, NEW p \in Procs,
           \/ SlotRaises(p) \/ SlotCommitted(p) \/ SlotFinished(p)
           \/ SlotRecovered(p) \/ SlotLocal(p) \/ SlotInvoke(p)
    PROVE  StepIsSafe(p)
<1> USE DEF IInv
<1>0. pc[p] = "slot"
  BY DEF SlotRaises, SlotCommitted, SlotFinished, SlotRecovered, SlotLocal, SlotInvoke
<1>1. PICK o \in Origins : o = call[p].origin /\ Started(o)
  BY <1>0 DEF ReadsStayTrue, ReadsHold, InCall
<1>2. CASE SlotRaises(p)
  <2>1. Raise(p) /\ UNCHANGED <<attempts, predictions, executions, sent>>
    BY <1>2 DEF SlotRaises, ledgers, history
  <2> QED BY <2>1, GoIdleFrame, IdleKeepsReads, QuietStepIsSafe DEF Raise
<1>3. CASE SlotCommitted(p)
  <2>1. UNCHANGED <<attempts, predictions, executions, sent>> /\ Committed(o)
    BY <1>1, <1>3 DEF SlotCommitted, ledgers, history
  <2>2. /\ OthersUnmoved(p)
        /\ pc'[p] = "rows" /\ step'[p] = 1 /\ call'[p] = call[p]
    BY <1>3, ContinueFrame DEF SlotCommitted
  <2>3. Started(o)' /\ Committed(o)'
    BY <1>1, <2>1 DEF Started, Starts, Committed, CommitsOf
  <2>4. 1 \in Keys /\ \A k \in Keys : ~(k < 1)
    BY DEF Keys
  <2>5. ReadsHold(p)'
    BY <1>1, <2>2, <2>3, <2>4 DEF ReadsHold, InCall
  <2> QED BY <2>1, <2>2, <2>5, QuietStepIsSafe
<1>4. CASE SlotFinished(p)
  <2>1. UNCHANGED <<attempts, predictions, executions, sent>> /\ ~Committed(o)
    BY <1>1, <1>4 DEF SlotFinished, ledgers, history
  <2>2. /\ OthersUnmoved(p)
        /\ pc'[p] = "commit" /\ call'[p] = [call[p] EXCEPT !.status = "CRASH_RECOVERY"]
    BY <1>4, ContinueFrame DEF SlotFinished
  <2>3. call'[p].origin = o
    BY <1>1, <2>2 DEF TypeOK, ProcsTypeOK, Calls
  <2>4. Started(o)' /\ ~Committed(o)'
    BY <1>1, <2>1 DEF Started, Starts, Committed, CommitsOf
  <2>5. ReadsHold(p)'
    BY <2>2, <2>3, <2>4 DEF ReadsHold, InCall
  <2> QED BY <2>1, <2>2, <2>5, QuietStepIsSafe
<1>5. CASE SlotRecovered(p)
  BY <1>0, <1>5, AppendFinishedIsSafe, ValueTypes DEF SlotRecovered, history, Statuses
<1>6. CASE SlotLocal(p)
  BY <1>0, <1>6, AppendFinishedIsSafe, ValueTypes DEF SlotLocal, history, Statuses
<1>7. CASE SlotInvoke(p)
  <2>1. /\ UNCHANGED <<attempts, predictions, executions>>
        /\ sent' = [sent EXCEPT ![o] = @ + 1]
        /\ ~call[p].recovered /\ ~Committed(o) /\ ~Finished(o)
    BY <1>1, <1>7 DEF SlotInvoke, ledgers
  <2>2. lock["ATTEMPT"] = p /\ sent[o] = 0
    BY <1>0, <1>1, <2>1 DEF ReadsStayTrue, ReadsHold
  <2>3. /\ OthersUnmoved(p) /\ lock' = lock
        /\ pc'[p] = "waiting" /\ call'[p] = call[p]
    BY <1>7, ContinueFrame DEF SlotInvoke
  <2>4. LedgersGrow(p)
    BY <2>1, <2>2 DEF LedgersGrow, GrowsOnce, Starts, Finishes, CommitsOf, RowsOf
  <2>5. OneCallPerSlot'
    BY <1>1, <2>1, <2>2 DEF OneCallPerSlot, Started, Starts, TypeOK, HistoryTypeOK
  <2>6. Started(o)' /\ ~Finished(o)' /\ ~Committed(o)'
    BY <1>1, <2>1 DEF Started, Starts, Finished, Finishes, Committed, CommitsOf
  <2>7. ReadsHold(p)'
    BY <1>1, <2>3, <2>6 DEF ReadsHold, InCall
  <2> QED BY <2>3, <2>4, <2>5, <2>7 DEF StepIsSafe
<1> QED BY <1>2, <1>3, <1>4, <1>5, <1>6, <1>7

LEMMA RespondIsSafe ==
    ASSUME IInv, NEW p \in Procs, NEW r \in Responses, Respond(p, r)
    PROVE  StepIsSafe(p)
<1>1. pc[p] = "waiting" /\ lock["ATTEMPT"] = p
  BY DEF Respond, AppendFinished
<1>2. ~Finished(call[p].origin) /\ (lock["PREDICTION"] = p => ~Committed(call[p].origin))
  BY <1>1 DEF IInv, ReadsStayTrue, ReadsHold
<1> QED BY <1>1, <1>2, AppendFinishedIsSafe, ValueTypes DEF Respond

LEMMA CommitPredictionIsSafe ==
    ASSUME IInv, NEW p \in Procs, CommitPrediction(p), TypeOK'
    PROVE  StepIsSafe(p)
<1> USE DEF IInv
<1>1. pc[p] = "commit" /\ UNCHANGED <<attempts, executions, sent>>
  BY DEF CommitPrediction, history
<1>2. PICK o \in Origins : o = call[p].origin /\ Started(o)
  BY <1>1 DEF ReadsStayTrue, ReadsHold, InCall
<1>3. PICK m : m = CommitOf(call[p]) /\ m.origin = o
  <2>1. CommitOf(call[p]).origin = call[p].origin
    BY DEF CommitOf
  <2> QED BY <1>2, <2>1
<1>4. CASE Raise(p) /\ UNCHANGED predictions
  BY <1>1, <1>4, GoIdleFrame, IdleKeepsReads, QuietStepIsSafe DEF Raise
<1>5. CASE /\ lock["PREDICTION"] = p
           /\ \E out \in Outcomes : /\ predictions' = Appended(predictions, m, out)
                                    /\ Settle(p, "PREDICTION", out, "rows", 1, call[p])
  <2>1. PICK out \in Outcomes : /\ predictions' = Appended(predictions, m, out)
                                /\ Settle(p, "PREDICTION", out, "rows", 1, call[p])
    BY <1>5
  <2>2. ~Committed(o)
    BY <1>1, <1>2, <1>5 DEF ReadsStayTrue, ReadsHold
  <2>3. CASE predictions' = predictions /\ out # "ok"
    <3>1. OthersUnmoved(p) /\ pc'[p] \in {"down", "open"}
      BY <2>1, <2>3, SettleFrame DEF Kinds
    <3> QED BY <1>1, <2>3, <3>1, IdleKeepsReads, QuietStepIsSafe
  <2>4. CASE predictions' = Append(predictions, m)
    <3>1. m \in Commits
      BY <2>4 DEF TypeOK, LedgersTypeOK
    <3>2. \A x \in Origins : CommitsOf(x)' =
            IF x = o THEN CommitsOf(x) \cup {Len(predictions) + 1} ELSE CommitsOf(x)
      BY <1>3, <2>4, <3>1, CommitGrowth DEF TypeOK
    <3>3. LedgersGrow(p)
      <4>1. \A x \in Origins : GrowsOnce(CommitsOf(x), CommitsOf(x)')
        BY <2>2, <3>2 DEF GrowsOnce, Committed
      <4> QED BY <1>1, <1>5, <4>1 DEF LedgersGrow, GrowsOnce, Starts, Finishes, RowsOf
    <3>4. /\ OthersUnmoved(p)
          /\ \/ pc'[p] \in {"down", "open"}
             \/ pc'[p] = "rows" /\ step'[p] = 1 /\ call'[p] = call[p]
      BY <2>1, SettleFrame DEF Kinds
    <3>5. Started(o)' /\ Committed(o)'
      BY <1>1, <1>2, <3>2 DEF Started, Starts, Committed
    <3>6. 1 \in Keys /\ \A k \in Keys : ~(k < 1)
      BY DEF Keys
    <3>7. ReadsHold(p)'
      BY <1>2, <3>4, <3>5, <3>6, IdleKeepsReads DEF ReadsHold, InCall
    <3> QED BY <1>1, <3>3, <3>4, <3>7, CallsStayAccounted DEF StepIsSafe
  <2> QED BY <2>1, <2>3, <2>4 DEF Appended, Outcomes
<1> QED BY <1>3, <1>4, <1>5 DEF CommitPrediction

LEMMA AppendRowIsSafe ==
    ASSUME IInv, NEW p \in Procs, AppendRow(p), TypeOK'
    PROVE  StepIsSafe(p)
<1> USE DEF IInv
<1>1. pc[p] = "rows" /\ UNCHANGED <<attempts, predictions, sent>>
  BY DEF AppendRow, history
<1>2. PICK o \in Origins : o = call[p].origin /\ Started(o) /\ Committed(o)
  BY <1>1 DEF ReadsStayTrue, ReadsHold, InCall
<1>3. PICK ref : ref = Only(CommitsOf(o))
  OBVIOUS
<1>4. PICK key \in Keys : key = step[p]
  BY <1>1 DEF ReadsStayTrue, ReadsHold
<1>5. PICK r : r = [ref |-> ref, key |-> key, state |-> predictions[ref].execution.rows[key]]
  OBVIOUS
<1>6. PICK at : at = IF key = NumKeys THEN "checkpoint" ELSE "rows"
  OBVIOUS
<1>7. \A k \in Keys : k < key => \E i \in RowsOf(ref) : executions[i].key = k
  BY <1>1, <1>2, <1>3, <1>4 DEF ReadsStayTrue, ReadsHold
<1>8. CommitsOf(call[p].origin)' = CommitsOf(call'[p].origin)
  BY <1>1 DEF CommitsOf
<1>9. ASSUME pc'[p] = at, step'[p] = key + 1, call'[p] = call[p],
             \A i \in RowsOf(ref) : i \in RowsOf(ref)' /\ executions'[i].key = executions[i].key,
             \E i \in RowsOf(ref)' : executions'[i].key = key
      PROVE  ReadsHold(p)'
  <2>1. Started(o)' /\ Committed(o)' /\ CommitsOf(o)' = CommitsOf(o)
    BY <1>1, <1>2 DEF Started, Starts, Committed, CommitsOf
  <2>2. ref = Only(CommitsOf(call[p].origin))'
    BY <1>1, <1>2, <1>3, <1>9 DEF Only, CommitsOf
  <2>3. \A k \in Keys : k < key + 1 => k < key \/ k = key
    BY DEF Keys
  <2>4. \A k \in Keys : k < key + 1 => \E i \in RowsOf(ref)' : executions'[i].key = k
    BY <1>7, <1>9, <2>3
  <2>5. (\A k \in Keys : k < step[p] =>
           \E i \in RowsOf(Only(CommitsOf(call[p].origin))) : executions[i].key = k)'
    BY <1>9, <2>2, <2>4 DEF RowsOf
  <2>6. (at = "rows" => key + 1 \in Keys) /\ (at = "checkpoint" => key + 1 = NumKeys + 1)
    BY <1>4, <1>6 DEF Keys
  <2>7. Committed(call[p].origin)' /\ Started(call[p].origin)' /\ call'[p].origin \in Origins
    BY <1>2, <1>9, <2>1 DEF Committed, CommitsOf, Started, Starts
  <2>8. at \in {"rows", "checkpoint"}
    BY <1>6
  <2> QED BY <1>9, <2>5, <2>6, <2>7, <2>8 DEF ReadsHold, InCall
<1>10. CASE Raise(p) /\ UNCHANGED executions
  BY <1>1, <1>10, GoIdleFrame, IdleKeepsReads, QuietStepIsSafe DEF Raise
<1>11. CASE /\ \E i \in RowsOf(ref) : executions[i].key = key
            /\ Continue(p, at, key + 1, call[p])
            /\ UNCHANGED executions
  <2>1. /\ OthersUnmoved(p)
        /\ pc'[p] = at /\ step'[p] = key + 1 /\ call'[p] = call[p]
    BY <1>11, ContinueFrame
  <2>2. RowsOf(ref)' = RowsOf(ref)
    BY <1>11 DEF RowsOf
  <2>3. ReadsHold(p)'
    BY <1>9, <1>11, <2>1, <2>2
  <2> QED BY <1>1, <1>11, <2>1, <2>3, QuietStepIsSafe
<1>12. CASE \E out \in Outcomes : /\ executions' = Appended(executions, r, out)
                                  /\ Settle(p, "EXECUTION", out, at, key + 1, call[p])
  <2>1. PICK out \in Outcomes : /\ executions' = Appended(executions, r, out)
                                /\ Settle(p, "EXECUTION", out, at, key + 1, call[p])
    BY <1>12
  <2>2. CASE executions' = executions /\ out # "ok"
    <3>1. OthersUnmoved(p) /\ pc'[p] \in {"down", "open"}
      BY <2>1, <2>2, SettleFrame DEF Kinds
    <3> QED BY <1>1, <2>2, <3>1, IdleKeepsReads, QuietStepIsSafe
  <2>3. CASE executions' = Append(executions, r)
    <3>1. r \in ExecutionRows
      BY <2>3 DEF TypeOK, LedgersTypeOK
    <3>2. /\ \A x : RowsOf(x) \subseteq RowsOf(x)'
          /\ \A x : \A i \in RowsOf(x) : executions'[i] = executions[i]
          /\ Len(executions) + 1 \in RowsOf(ref)'
          /\ executions'[Len(executions) + 1].key = key
      <4>1. r.ref = ref /\ r.key = key
        BY <1>5
      <4> QED BY <2>3, <3>1, <4>1, RowGrowth DEF TypeOK
    <3>3. LedgersGrow(p)
      BY <1>1, <3>2 DEF LedgersGrow, GrowsOnce, Starts, Finishes, CommitsOf
    <3>4. /\ OthersUnmoved(p)
          /\ \/ pc'[p] \in {"down", "open"}
             \/ pc'[p] = at /\ step'[p] = key + 1 /\ call'[p] = call[p]
      BY <2>1, SettleFrame DEF Kinds
    <3>5. ReadsHold(p)'
      BY <1>9, <3>2, <3>4, IdleKeepsReads
    <3> QED BY <1>1, <3>3, <3>4, <3>5, CallsStayAccounted DEF StepIsSafe
  <2> QED BY <2>1, <2>2, <2>3 DEF Appended, Outcomes
<1> QED
  <2>1. \/ Raise(p) /\ UNCHANGED executions
        \/ /\ {i \in RowsOf(ref) : executions[i].key = key} # {}
           /\ Continue(p, at, key + 1, call[p])
           /\ UNCHANGED executions
        \/ \E out \in Outcomes : /\ executions' = Appended(executions, r, out)
                                 /\ Settle(p, "EXECUTION", out, at, key + 1, call[p])
    BY <1>2, <1>3, <1>4, <1>5, <1>6 DEF AppendRow
  <2> QED BY <1>10, <1>11, <1>12, <2>1

LEMMA AppendCheckpointIsSafe ==
    ASSUME IInv, NEW p \in Procs, AppendCheckpoint(p)
    PROVE  StepIsSafe(p)
<1>1. UNCHANGED <<attempts, predictions, executions, sent>>
  BY DEF AppendCheckpoint, history
<1>2. \/ GoIdle(p, "open")
      \/ \E out \in Outcomes : Settle(p, "CHECKPOINT", out, "open", 0, NoCall)
  BY DEF AppendCheckpoint
<1>3. OthersUnmoved(p) /\ pc'[p] \in {"down", "open"}
  BY <1>2, GoIdleFrame, SettleFrame DEF IInv, Kinds
<1> QED BY <1>1, <1>3, IdleKeepsReads, QuietStepIsSafe

LEMMA SealIsSafe ==
    ASSUME IInv, NEW p \in Procs,
           SealStart(p) \/ SealLedger(p) \/ WritePhaseSeal(p) \/ VerifyPhase(p)
    PROVE  StepIsSafe(p)
<1> USE DEF IInv
<1>1. UNCHANGED <<attempts, predictions, executions, sent>>
  BY DEF SealStart, SealLedger, WritePhaseSeal, VerifyPhase, ledgers, history
<1>2. CASE SealStart(p)
  <2>1. OthersUnmoved(p) /\ pc'[p] = "sealing" /\ step'[p] = 1
    BY <1>2, ContinueFrame DEF SealStart
  <2>2. ReadsHold(p)'
    BY <2>1 DEF ReadsHold, InCall
  <2> QED BY <1>1, <2>1, <2>2, QuietStepIsSafe
<1>3. CASE SealLedger(p)
  <2>1. step[p] \in 1..4 /\ LedgerOrder[step[p]] \in Kinds /\ pc[p] = "sealing"
    BY <1>3, LedgerOrderType DEF SealLedger, ReadsStayTrue, ReadsHold
  <2>2. CASE Raise(p)
    BY <1>1, <2>2, GoIdleFrame, IdleKeepsReads, QuietStepIsSafe DEF Raise
  <2>3. CASE ~Raise(p)
    <3>1. /\ lock[LedgerOrder[step[p]]] = p
          /\ lock' = [lock EXCEPT ![LedgerOrder[step[p]]] = NoProc]
          /\ call' = call
      BY <1>3, <2>3 DEF SealLedger
    <3>2. \/ /\ pc' = [pc EXCEPT ![p] = IF step[p] = 4 THEN "phase" ELSE "sealing"]
             /\ step' = [step EXCEPT ![p] = IF @ = 4 THEN 0 ELSE @ + 1]
          \/ /\ pc' = [pc EXCEPT ![p] = "open"]
             /\ step' = [step EXCEPT ![p] = 0]
      BY <1>3, <2>3 DEF SealLedger
    <3>3. OthersUnmoved(p)
      BY <2>1, <3>1, <3>2 DEF TypeOK, ProcsTypeOK, FilesTypeOK, OthersUnmoved
    <3>4. pc'[p] \in {"phase", "open"} \/ (pc'[p] = "sealing" /\ step'[p] \in 1..4)
      BY <2>1, <3>2 DEF TypeOK, ProcsTypeOK
    <3>5. ReadsHold(p)'
      BY <3>4, IdleKeepsReads DEF ReadsHold, InCall
    <3> QED BY <1>1, <3>3, <3>5, QuietStepIsSafe
  <2> QED BY <2>2, <2>3
<1>4. CASE WritePhaseSeal(p)
  <2>1. GoIdle(p, "verify") \/ GoIdle(p, "open")
    BY <1>4 DEF WritePhaseSeal, Raise
  <2> QED BY <1>1, <2>1, GoIdleFrame, IdleKeepsReads, QuietStepIsSafe
<1>5. CASE VerifyPhase(p)
  BY <1>1, <1>5, GoIdleFrame, IdleKeepsReads, QuietStepIsSafe DEF VerifyPhase
<1> QED BY <1>2, <1>3, <1>4, <1>5

-----------------------------------------------------------------------------
(* The theorems *)

LEMMA InitEstablishes == Init => IInv
<1> SUFFICES ASSUME Init PROVE IInv
  OBVIOUS
<1>1. \A o : Starts(o) = {} /\ Finishes(o) = {} /\ CommitsOf(o) = {}
  BY DEF Init, Starts, Finishes, CommitsOf
<1>2. OneRecordPerSlot
  BY <1>1 DEF OneRecordPerSlot, AtMostOne
<1>3. OneCallPerSlot
  BY DEF Init, OneCallPerSlot
<1>4. ReadsStayTrue
  BY DEF Init, ReadsStayTrue, ReadsHold, InCall
<1> QED BY <1>2, <1>3, <1>4, TypeInit DEF IInv

LEMMA NextPreserves == IInv /\ [Next]_vars => IInv'
<1> SUFFICES ASSUME IInv, [Next]_vars PROVE IInv'
  OBVIOUS
<1>1. TypeOK'
  BY TypeStep DEF IInv
<1>2. CASE UNCHANGED vars
  <2> USE <1>2 DEF vars, ledgers, history
  <2>1. OneRecordPerSlot'
    BY DEF IInv, OneRecordPerSlot, Starts, Finishes, CommitsOf
  <2>2. OneCallPerSlot'
    BY DEF IInv, OneCallPerSlot, Started, Starts
  <2>3. ReadsStayTrue'
    <3>1. OthersUnmoved(NoProc) /\ LedgersGrow(NoProc)
      BY QuietLedgers DEF OthersUnmoved
    <3> QED BY <3>1, OthersKeepReads DEF IInv, ReadsStayTrue
  <2> QED BY <1>1, <2>1, <2>2, <2>3 DEF IInv
<1>3. CASE Next
  <2>1. PICK p \in Procs :
          \/ \E resume \in BOOLEAN : OpenRun(p, resume)
          \/ OpenLedger(p) \/ CloseRun(p)
          \/ Crash(p) \/ CrashInSeal(p)
          \/ \E o \in Origins, prov \in Providers : ClaimSlot(p, o, prov)
          \/ RunOriginStep(p)
          \/ SealStart(p) \/ SealStep(p)
    BY <1>3 DEF Next
  <2>2. ASSUME RunOriginStep(p) PROVE StepIsSafe(p)
    BY <1>1, <2>2, SlotIsSafe, RespondIsSafe, CommitPredictionIsSafe, AppendRowIsSafe,
       AppendCheckpointIsSafe DEF RunOriginStep
  <2>3. StepIsSafe(p)
    BY <2>1, <2>2, OpenIsSafe, EndIsSafe, ClaimSlotIsSafe, SealIsSafe DEF SealStep
  <2>4. ReadsStayTrue'
    <3> SUFFICES ASSUME NEW q \in Procs PROVE ReadsHold(q)'
      BY DEF ReadsStayTrue
    <3>1. CASE q = p
      BY <2>3, <3>1 DEF StepIsSafe
    <3>2. CASE q # p
      BY <2>3, <3>2, OthersKeepReads DEF StepIsSafe, IInv, ReadsStayTrue
    <3> QED BY <3>1, <3>2
  <2> QED BY <1>1, <2>3, <2>4, OneRecordStep DEF StepIsSafe, IInv
<1> QED BY <1>2, <1>3

\* The invariant above holds throughout every run of the directory.
THEOREM InvariantHolds == Spec => []IInv
<1>1. Init => IInv
  BY InitEstablishes
<1>2. IInv /\ [Next]_vars => IInv'
  BY NextPreserves
<1> QED BY <1>1, <1>2, PTL DEF Spec

\* Every ledger, file, process and history variable keeps its type, so no
\* record ever refers to one that does not exist.
THEOREM TypeCorrect == Spec => []TypeOK
<1>1. IInv => TypeOK
  BY DEF IInv
<1> QED BY <1>1, InvariantHolds, PTL

\* run_origin never sends a second provider request for a slot, whatever the
\* number of processes, crashes, restarts and failed writes.
THEOREM NeverResent == Spec => []OneCallPerSlot
<1>1. IInv => OneCallPerSlot
  BY DEF IInv
<1> QED BY <1>1, InvariantHolds, PTL

\* The ledgers never hold a second STARTED, FINISHED or COMMITTED of a slot.
THEOREM NeverRecordedTwice == Spec => []OneRecordPerSlot
<1>1. IInv => OneRecordPerSlot
  BY DEF IInv
<1> QED BY <1>1, InvariantHolds, PTL

\* What run_origin read at its start still holds whenever it acts on it.
THEOREM ReadsNeverStale == Spec => []ReadsStayTrue
<1>1. IInv => ReadsStayTrue
  BY DEF IInv
<1> QED BY <1>1, InvariantHolds, PTL

-----------------------------------------------------------------------------
(* The links between records, calls and slots *)

\* The answer to slot o came back well-formed, successful and on time, and its
\* FINISHED record says so.
Genuine(o) ==
    /\ sent[o] = 1
    /\ ClosedStatus(answer[o]) = "SUCCESS" /\ ~answer[o].late
    /\ \E j \in Finishes(o) : attempts[j].status = "SUCCESS" /\ ~attempts[j].late

\* FINISHED follows its STARTED.
AttemptsLink ==
    \A o \in Origins : \A i \in Finishes(o) :
        attempts[i].started \in Starts(o) /\ \A j \in Starts(o) : j < i

\* A commit follows FINISHED, and is the fallback or the provider's answer.
CommitLinks(m) ==
    /\ Finished(m.origin) /\ m.started \in Starts(m.origin) /\ CommitValid(m)
    /\ PhysicalCalls = 1 /\ ~m.execution.error =>
          Genuine(m.origin) /\ m.execution = ExecuteArm(answer[m.origin].text)

CommitsLink == \A i \in DOMAIN predictions : CommitLinks(predictions[i])

\* Rows repeat their commit, one for a key.
RowsLink ==
    /\ \A i \in DOMAIN executions :
          /\ executions[i].ref \in DOMAIN predictions
          /\ executions[i].state = predictions[executions[i].ref].execution.rows[executions[i].key]
    /\ \A i, j \in DOMAIN executions :
          executions[i].ref = executions[j].ref /\ executions[i].key = executions[j].key => i = j

\* A checkpoint binds its commit, its FINISHED and a row for every key.
CheckpointLinks(c) ==
    /\ c.ref \in DOMAIN predictions /\ predictions[c.ref].origin = c.origin
    /\ c.final \in Finishes(c.origin)
    /\ \A k \in Keys : c.rows[k] \in RowsOf(c.ref) /\ executions[c.rows[k]].key = k

CheckpointsLink ==
    /\ \A i \in DOMAIN checkpoints : CheckpointLinks(checkpoints[i])
    /\ \A i, j \in DOMAIN checkpoints : checkpoints[i].ref = checkpoints[j].ref => i = j

RecordsLink == AttemptsLink /\ CommitsLink /\ RowsLink /\ CheckpointsLink

\* What the call of process p holds in memory is what the slot was answered.
CallLinks(p) ==
    LET o == call[p].origin IN
    /\ pc[p] = "slot" => call[p].text = NoText /\ ~call[p].late
    /\ pc[p] = "waiting" => lock["ATTEMPT"] = p /\ sent[o] = 1
    /\ pc[p] = "commit" =>
          /\ Finished(o)
          /\ call[p].late => call[p].text = NoText
          /\ call[p].text.kind = "VERIFIED" => Genuine(o) /\ call[p].text = answer[o].text

CallsLink == \A p \in Procs : CallLinks(p)

LineageInv == IInv /\ RecordsLink /\ CallsLink


-----------------------------------------------------------------------------
(* What a step does to the ledgers and the history *)

StartRecord(o) ==
    [event |-> "STARTED", origin |-> o, started |-> 0, status |-> "NONE", late |-> FALSE]

FinishRecord(o, status, late) ==
    [event |-> "FINISHED", origin |-> o, started |-> Only(Starts(o)),
     status |-> status, late |-> late]

Untouched == UNCHANGED <<ledgers, history>>

StartAppended(o) ==
    /\ ~Started(o) /\ attempts' = Append(attempts, StartRecord(o))
    /\ UNCHANGED <<predictions, executions, checkpoints, history>>

\* Only a slot without a FINISHED is answered.
AnswersOnly(o) == \A x \in Origins : x # o => answer'[x] = answer[x]

FinishAppended(o, status, late) ==
    /\ Started(o) /\ ~Finished(o) /\ attempts' = Append(attempts, FinishRecord(o, status, late))
    /\ UNCHANGED <<predictions, executions, checkpoints, sent>> /\ AnswersOnly(o)

AnswerArrived(o) ==
    ~Finished(o) /\ UNCHANGED <<ledgers, sent>> /\ AnswersOnly(o)

CallSent(o) ==
    /\ Started(o) /\ ~Finished(o) /\ sent[o] = 0 /\ PhysicalCalls = 1
    /\ sent' = [sent EXCEPT ![o] = 1] /\ UNCHANGED <<ledgers, answer>>

CommitAppended(m) ==
    /\ m \in Commits /\ CommitLinks(m) /\ ~Committed(m.origin)
    /\ predictions' = Append(predictions, m)
    /\ UNCHANGED <<attempts, executions, checkpoints, history>>

RowAppended(r) ==
    /\ r \in ExecutionRows /\ r.ref \in DOMAIN predictions
    /\ r.state = predictions[r.ref].execution.rows[r.key]
    /\ \A i \in RowsOf(r.ref) : executions[i].key # r.key
    /\ executions' = Append(executions, r)
    /\ UNCHANGED <<attempts, predictions, checkpoints, history>>

CheckpointAppended(c) ==
    /\ c \in Checkpoints /\ CheckpointLinks(c) /\ CheckpointsOf(c.ref) = {}
    /\ checkpoints' = Append(checkpoints, c)
    /\ UNCHANGED <<attempts, predictions, executions, history>>

LedgerStep ==
    \/ Untouched
    \/ \E o \in Origins :
          \/ StartAppended(o) \/ AnswerArrived(o) \/ CallSent(o)
          \/ \E status \in Statuses, late \in BOOLEAN : FinishAppended(o, status, late)
    \/ \E m \in Commits : CommitAppended(m)
    \/ \E r \in ExecutionRows : RowAppended(r)
    \/ \E c \in Checkpoints : CheckpointAppended(c)

-----------------------------------------------------------------------------
(* What stays, whatever the step *)

\* Records keep their place, and a slot with a FINISHED keeps its answer.
RecordsStay ==
    /\ \A i \in DOMAIN attempts : i \in DOMAIN attempts' /\ attempts'[i] = attempts[i]
    /\ \A i \in DOMAIN predictions : i \in DOMAIN predictions' /\ predictions'[i] = predictions[i]
    /\ \A i \in DOMAIN executions : i \in DOMAIN executions' /\ executions'[i] = executions[i]
    /\ \A i \in DOMAIN checkpoints : i \in DOMAIN checkpoints' /\ checkpoints'[i] = checkpoints[i]
    /\ \A o \in Origins : /\ Finished(o) => answer'[o] = answer[o]
                          /\ sent[o] = 1 => sent'[o] = 1

LEMMA AppendIs ==
    ASSUME NEW S, NEW s \in Seq(S), NEW e
    PROVE  /\ \A i \in DOMAIN s : i \in DOMAIN Append(s, e) /\ Append(s, e)[i] = s[i]
           /\ DOMAIN Append(s, e) = DOMAIN s \cup {Len(s) + 1}
           /\ Append(s, e)[Len(s) + 1] = e
           /\ Len(s) \in Nat /\ DOMAIN s = 1..Len(s)
OBVIOUS

LEMMA StepKeepsRecords == ASSUME TypeOK, LedgerStep PROVE RecordsStay
<1>0. /\ attempts \in Seq(AttemptRecords) /\ predictions \in Seq(Commits)
      /\ executions \in Seq(ExecutionRows) /\ checkpoints \in Seq(Checkpoints)
      /\ sent \in [Origins -> Nat]
  BY DEF TypeOK, LedgersTypeOK, HistoryTypeOK
<1>1. CASE Untouched
  BY <1>1 DEF Untouched, RecordsStay, ledgers, history
<1>2. ASSUME NEW o \in Origins, StartAppended(o) PROVE RecordsStay
  BY <1>0, <1>2, AppendIs DEF StartAppended, RecordsStay, history
<1>3. ASSUME NEW o \in Origins, NEW status, NEW late, FinishAppended(o, status, late)
      PROVE  RecordsStay
  <2>1. \A i \in DOMAIN attempts : i \in DOMAIN attempts' /\ attempts'[i] = attempts[i]
    BY <1>0, <1>3, AppendIs DEF FinishAppended
  <2>2. \A x \in Origins : (Finished(x) => answer'[x] = answer[x]) /\ (sent[x] = 1 => sent'[x] = 1)
    BY <1>3 DEF FinishAppended, AnswersOnly
  <2> QED BY <1>3, <2>1, <2>2 DEF FinishAppended, RecordsStay
<1>4. ASSUME NEW o \in Origins, AnswerArrived(o) PROVE RecordsStay
  BY <1>4 DEF AnswerArrived, AnswersOnly, RecordsStay, ledgers
<1>5. ASSUME NEW o \in Origins, CallSent(o) PROVE RecordsStay
  BY <1>0, <1>5 DEF CallSent, RecordsStay, ledgers
<1>6. ASSUME NEW m, CommitAppended(m) PROVE RecordsStay
  BY <1>0, <1>6, AppendIs DEF CommitAppended, RecordsStay, history
<1>7. ASSUME NEW r, RowAppended(r) PROVE RecordsStay
  BY <1>0, <1>7, AppendIs DEF RowAppended, RecordsStay, history
<1>8. ASSUME NEW c, CheckpointAppended(c) PROVE RecordsStay
  BY <1>0, <1>8, AppendIs DEF CheckpointAppended, RecordsStay, history
<1> QED BY <1>1, <1>2, <1>3, <1>4, <1>5, <1>6, <1>7, <1>8 DEF LedgerStep

\* What a verified read yields only grows.
LEMMA ReadsGrow ==
    ASSUME RecordsStay
    PROVE  /\ \A o : Starts(o) \subseteq Starts(o)' /\ Finishes(o) \subseteq Finishes(o)'
           /\ \A o : CommitsOf(o) \subseteq CommitsOf(o)'
           /\ \A ref : RowsOf(ref) \subseteq RowsOf(ref)'
           /\ \A o : Started(o) => Started(o)'
           /\ \A o : Finished(o) => Finished(o)'
           /\ \A o : Committed(o) => Committed(o)'
<1>1. \A o : Starts(o) \subseteq Starts(o)' /\ Finishes(o) \subseteq Finishes(o)'
  BY DEF RecordsStay, Starts, Finishes
<1>2. \A o : CommitsOf(o) \subseteq CommitsOf(o)'
  BY DEF RecordsStay, CommitsOf
<1>3. \A ref : RowsOf(ref) \subseteq RowsOf(ref)'
  BY DEF RecordsStay, RowsOf
<1> QED BY <1>1, <1>2, <1>3 DEF Started, Finished, Committed

LEMMA GenuineStays ==
    ASSUME RecordsStay, NEW o \in Origins, Finished(o), Genuine(o)
    PROVE  Genuine(o)' /\ answer'[o] = answer[o]
<1>1. answer'[o] = answer[o] /\ sent'[o] = 1
  BY DEF RecordsStay, Genuine
<1>2. PICK j \in Finishes(o) : attempts[j].status = "SUCCESS" /\ ~attempts[j].late
  BY DEF Genuine
<1>3. j \in Finishes(o)' /\ attempts'[j] = attempts[j]
  BY ReadsGrow DEF RecordsStay, Finishes
<1>4. ClosedStatus(answer[o])' = "SUCCESS" /\ ~answer'[o].late
  BY <1>1 DEF Genuine, ClosedStatus
<1> QED BY <1>1, <1>2, <1>3, <1>4 DEF Genuine

LEMMA CommitLinksStay ==
    ASSUME RecordsStay, NEW m \in Commits, CommitLinks(m) PROVE CommitLinks(m)'
<1>1. m.origin \in Origins
  BY DEF Commits
<1>2. /\ Finished(m.origin) /\ Finished(m.origin)' /\ m.started \in Starts(m.origin)'
      /\ CommitValid(m)
  BY ReadsGrow DEF CommitLinks
<1>3. ASSUME PhysicalCalls = 1, ~m.execution.error
      PROVE  Genuine(m.origin)' /\ m.execution = ExecuteArm(answer'[m.origin].text)
  BY <1>1, <1>2, <1>3, GenuineStays DEF CommitLinks
<1> QED BY <1>2, <1>3 DEF CommitLinks, CommitValid

LEMMA CheckpointLinksStay ==
    ASSUME RecordsStay, NEW c \in Checkpoints, CheckpointLinks(c) PROVE CheckpointLinks(c)'
<1>1. /\ c.ref \in DOMAIN predictions' /\ predictions'[c.ref].origin = c.origin
      /\ c.final \in Finishes(c.origin)'
  BY ReadsGrow DEF CheckpointLinks, RecordsStay
<1>2. ASSUME NEW k \in Keys PROVE c.rows[k] \in RowsOf(c.ref)' /\ executions'[c.rows[k]].key = k
  <2>1. c.rows[k] \in RowsOf(c.ref) /\ executions[c.rows[k]].key = k
    BY DEF CheckpointLinks
  <2>2. c.rows[k] \in DOMAIN executions
    BY <2>1 DEF RowsOf
  <2> QED BY <2>1, <2>2, ReadsGrow DEF RecordsStay
<1> QED BY <1>1, <1>2 DEF CheckpointLinks

-----------------------------------------------------------------------------
(* Every kind of step keeps the links *)

LEMMA AttemptsLinkStep ==
    ASSUME TypeOK, RecordsLink, LedgerStep PROVE AttemptsLink'
<1>0. attempts \in Seq(AttemptRecords) /\ AttemptsLink /\ Len(attempts) \in Nat
  BY DEF TypeOK, LedgersTypeOK, RecordsLink
<1>1. CASE attempts' = attempts
  BY <1>0, <1>1 DEF AttemptsLink, Starts, Finishes
<1>2. ASSUME NEW o \in Origins, StartAppended(o) PROVE AttemptsLink'
  <2>1. PICK r : r = StartRecord(o)
    OBVIOUS
  <2>2. r \in AttemptRecords /\ r.event = "STARTED" /\ r.origin = o
    BY <2>1 DEF StartRecord, AttemptRecords, Statuses
  <2>3. attempts' = Append(attempts, r) /\ Starts(o) = {}
    BY <1>2, <2>1 DEF StartAppended, Started
  <2>4. /\ \A x : Starts(x)' = IF x = o THEN Starts(x) \cup {Len(attempts) + 1} ELSE Starts(x)
        /\ \A x : Finishes(x)' = Finishes(x)
    BY <2>2, <2>3, AttemptGrowth DEF TypeOK
  <2>5. Finishes(o) = {}
    BY <1>0, <2>3 DEF AttemptsLink
  <2>6. \A x : \A i \in Finishes(x) : attempts'[i] = attempts[i]
    BY <1>0, <2>3, AppendIs DEF Finishes
  <2> QED BY <1>0, <2>4, <2>5, <2>6 DEF AttemptsLink
<1>3. ASSUME NEW o \in Origins, NEW status \in Statuses, NEW late \in BOOLEAN,
             FinishAppended(o, status, late)
      PROVE  AttemptsLink'
  <2>1. PICK r : r = FinishRecord(o, status, late)
    OBVIOUS
  <2>2. Only(Starts(o)) \in Starts(o) /\ Starts(o) \subseteq Nat
    BY <1>3, OnlyInSet, PositionsAreNat DEF FinishAppended, Started, TypeOK
  <2>3. r \in AttemptRecords /\ r.event = "FINISHED" /\ r.origin = o /\ r.started = Only(Starts(o))
    BY <2>1, <2>2 DEF FinishRecord, AttemptRecords
  <2>4. attempts' = Append(attempts, r) /\ Finishes(o) = {}
    BY <1>3, <2>1 DEF FinishAppended, Finished
  <2>5. /\ \A x : Starts(x)' = Starts(x)
        /\ \A x : Finishes(x)' = IF x = o THEN Finishes(x) \cup {Len(attempts) + 1} ELSE Finishes(x)
    BY <2>3, <2>4, AttemptGrowth DEF TypeOK
  <2>6. (\A x : \A i \in Finishes(x) : attempts'[i] = attempts[i])
        /\ attempts'[Len(attempts) + 1] = r
    BY <1>0, <2>4, AppendIs DEF Finishes
  <2>7. \A j \in Starts(o) : j < Len(attempts) + 1
    BY <1>0 DEF Starts
  <2>8. ASSUME NEW x \in Origins, NEW i \in Finishes(x)'
        PROVE  attempts'[i].started \in Starts(x)' /\ \A j \in Starts(x)' : j < i
    <3>1. CASE x = o
      BY <2>2, <2>3, <2>4, <2>5, <2>6, <2>7, <2>8, <3>1
    <3>2. CASE x # o
      BY <1>0, <2>5, <2>6, <2>8, <3>2 DEF AttemptsLink
    <3> QED BY <3>1, <3>2
  <2> QED BY <2>8 DEF AttemptsLink
<1> QED
  <2>1. \/ attempts' = attempts
        \/ \E o \in Origins : \/ StartAppended(o)
                              \/ \E status \in Statuses, late \in BOOLEAN :
                                    FinishAppended(o, status, late)
    BY DEF LedgerStep, Untouched, AnswerArrived, CallSent, CommitAppended, RowAppended,
           CheckpointAppended, ledgers
  <2> QED BY <1>1, <1>2, <1>3, <2>1

LEMMA CommitsLinkStep ==
    ASSUME TypeOK, RecordsLink, LedgerStep PROVE CommitsLink'
<1>0. predictions \in Seq(Commits) /\ CommitsLink /\ RecordsStay
  BY StepKeepsRecords DEF TypeOK, LedgersTypeOK, RecordsLink
<1>1. \A i \in DOMAIN predictions : predictions[i] \in Commits /\ CommitLinks(predictions[i])
  BY <1>0 DEF CommitsLink
<1>2. ASSUME NEW i \in DOMAIN predictions', NEW m, m = predictions'[i], CommitLinks(m)'
      PROVE  CommitLinks(predictions[i])'
  BY <1>2 DEF CommitLinks, CommitValid, Genuine
<1>3. \A i \in DOMAIN predictions : i \in DOMAIN predictions' /\ CommitLinks(predictions[i])'
  <2> SUFFICES ASSUME NEW i \in DOMAIN predictions
               PROVE  i \in DOMAIN predictions' /\ CommitLinks(predictions[i])'
    OBVIOUS
  <2>1. PICK m \in Commits : m = predictions[i] /\ CommitLinks(m)
    BY <1>1
  <2>2. CommitLinks(m)'
    BY <1>0, <2>1, CommitLinksStay
  <2> QED BY <1>0, <1>2, <2>1, <2>2 DEF RecordsStay
<1>4. CASE predictions' = predictions
  BY <1>3, <1>4 DEF CommitsLink
<1>5. ASSUME NEW m \in Commits, CommitAppended(m) PROVE CommitsLink'
  <2>1. CommitLinks(m)'
    BY <1>0, <1>5, CommitLinksStay DEF CommitAppended
  <2>2. PICK n : /\ DOMAIN predictions' = DOMAIN predictions \cup {n}
                 /\ predictions'[n] = m
    BY <1>0, <1>5, AppendIs DEF CommitAppended
  <2>3. CommitLinks(predictions[n])'
    BY <1>2, <2>1, <2>2
  <2> QED BY <1>3, <2>2, <2>3 DEF CommitsLink
<1> QED
  <2>1. predictions' = predictions \/ \E m \in Commits : CommitAppended(m)
    BY DEF LedgerStep, Untouched, StartAppended, FinishAppended, AnswerArrived, CallSent,
           RowAppended, CheckpointAppended, ledgers
  <2> QED BY <1>4, <1>5, <2>1

LEMMA RowsLinkStep ==
    ASSUME TypeOK, RecordsLink, LedgerStep PROVE RowsLink'
<1>0. executions \in Seq(ExecutionRows) /\ RowsLink /\ RecordsStay
  BY StepKeepsRecords DEF TypeOK, LedgersTypeOK, RecordsLink
<1>1. \A i \in DOMAIN executions :
          /\ executions'[i] = executions[i]
          /\ executions[i].ref \in DOMAIN predictions'
          /\ executions[i].state =
                predictions'[executions[i].ref].execution.rows[executions[i].key]
  BY <1>0 DEF RowsLink, RecordsStay
<1>2. CASE executions' = executions
  BY <1>0, <1>1, <1>2 DEF RowsLink
<1>3. ASSUME NEW r \in ExecutionRows, RowAppended(r) PROVE RowsLink'
  <2>1. PICK n : /\ DOMAIN executions' = DOMAIN executions \cup {n} /\ executions'[n] = r
    BY <1>0, <1>3, AppendIs DEF RowAppended
  <2>2. r.ref \in DOMAIN predictions' /\ r.state = predictions'[r.ref].execution.rows[r.key]
    BY <1>3 DEF RowAppended
  <2>3. \A i \in DOMAIN executions : ~(executions[i].ref = r.ref /\ executions[i].key = r.key)
    BY <1>3 DEF RowAppended, RowsOf
  <2>4. \A i \in DOMAIN executions' :
          /\ executions'[i].ref \in DOMAIN predictions'
          /\ executions'[i].state =
                predictions'[executions'[i].ref].execution.rows[executions'[i].key]
    BY <1>1, <2>1, <2>2
  <2>5. ASSUME NEW i \in DOMAIN executions', NEW j \in DOMAIN executions',
               executions'[i].ref = executions'[j].ref, executions'[i].key = executions'[j].key
        PROVE  i = j
    <3>1. CASE i \in DOMAIN executions /\ j \in DOMAIN executions
      BY <1>0, <1>1, <2>5, <3>1 DEF RowsLink
    <3>2. CASE i = n /\ j = n
      BY <3>2
    <3>3. CASE i = n /\ j \in DOMAIN executions
      BY <1>1, <2>1, <2>3, <2>5, <3>3
    <3>4. CASE j = n /\ i \in DOMAIN executions
      BY <1>1, <2>1, <2>3, <2>5, <3>4
    <3> QED BY <2>1, <3>1, <3>2, <3>3, <3>4
  <2> QED BY <2>4, <2>5 DEF RowsLink
<1> QED
  <2>1. executions' = executions \/ \E r \in ExecutionRows : RowAppended(r)
    BY DEF LedgerStep, Untouched, StartAppended, FinishAppended, AnswerArrived, CallSent,
           CommitAppended, CheckpointAppended, ledgers
  <2> QED BY <1>2, <1>3, <2>1

LEMMA CheckpointsLinkStep ==
    ASSUME TypeOK, RecordsLink, LedgerStep PROVE CheckpointsLink'
<1>0. checkpoints \in Seq(Checkpoints) /\ CheckpointsLink /\ RecordsStay
  BY StepKeepsRecords DEF TypeOK, LedgersTypeOK, RecordsLink
<1>1. ASSUME NEW i \in DOMAIN checkpoints', NEW c, c = checkpoints'[i], CheckpointLinks(c)'
      PROVE  CheckpointLinks(checkpoints[i])'
  BY <1>1 DEF CheckpointLinks, RowsOf, Finishes
<1>2. \A i \in DOMAIN checkpoints :
          /\ i \in DOMAIN checkpoints' /\ checkpoints'[i] = checkpoints[i]
          /\ CheckpointLinks(checkpoints[i])'
  <2> SUFFICES ASSUME NEW i \in DOMAIN checkpoints
               PROVE  /\ i \in DOMAIN checkpoints' /\ checkpoints'[i] = checkpoints[i]
                      /\ CheckpointLinks(checkpoints[i])'
    OBVIOUS
  <2>1. PICK c \in Checkpoints : c = checkpoints[i] /\ CheckpointLinks(c)
    BY <1>0 DEF CheckpointsLink
  <2>2. CheckpointLinks(c)'
    BY <1>0, <2>1, CheckpointLinksStay
  <2> QED BY <1>0, <1>1, <2>1, <2>2 DEF RecordsStay
<1>3. CASE checkpoints' = checkpoints
  BY <1>0, <1>2, <1>3 DEF CheckpointsLink
<1>4. ASSUME NEW c \in Checkpoints, CheckpointAppended(c) PROVE CheckpointsLink'
  <2>1. CheckpointLinks(c)'
    BY <1>0, <1>4, CheckpointLinksStay DEF CheckpointAppended
  <2>2. PICK n : /\ DOMAIN checkpoints' = DOMAIN checkpoints \cup {n} /\ checkpoints'[n] = c
    BY <1>0, <1>4, AppendIs DEF CheckpointAppended
  <2>3. CheckpointLinks(checkpoints[n])'
    BY <1>1, <2>1, <2>2
  <2>4. \A i \in DOMAIN checkpoints : checkpoints[i].ref # c.ref
    BY <1>4 DEF CheckpointAppended, CheckpointsOf
  <2>5. ASSUME NEW i \in DOMAIN checkpoints', NEW j \in DOMAIN checkpoints',
               checkpoints'[i].ref = checkpoints'[j].ref
        PROVE  i = j
    <3>1. CASE i \in DOMAIN checkpoints /\ j \in DOMAIN checkpoints
      BY <1>0, <1>2, <2>5, <3>1 DEF CheckpointsLink
    <3>2. CASE i = n /\ j = n
      BY <3>2
    <3>3. CASE i = n /\ j \in DOMAIN checkpoints
      BY <1>2, <2>2, <2>4, <2>5, <3>3
    <3>4. CASE j = n /\ i \in DOMAIN checkpoints
      BY <1>2, <2>2, <2>4, <2>5, <3>4
    <3> QED BY <2>2, <3>1, <3>2, <3>3, <3>4
  <2> QED BY <1>2, <2>2, <2>3, <2>5 DEF CheckpointsLink
<1> QED
  <2>1. checkpoints' = checkpoints \/ \E c \in Checkpoints : CheckpointAppended(c)
    BY DEF LedgerStep, Untouched, StartAppended, FinishAppended, AnswerArrived, CallSent,
           CommitAppended, RowAppended, ledgers
  <2> QED BY <1>3, <1>4, <2>1

LEMMA RecordsLinkStep ==
    ASSUME TypeOK, RecordsLink, LedgerStep PROVE RecordsLink'
BY AttemptsLinkStep, CommitsLinkStep, RowsLinkStep, CheckpointsLinkStep DEF RecordsLink

-----------------------------------------------------------------------------
(* Every action is such a step, and leaves its call linked *)

\* What a call of another process holds in memory stays true.
LEMMA OthersKeepLinks ==
    ASSUME LineageInv, LedgerStep, NEW p, NEW q \in Procs, q # p, OthersUnmoved(p)
    PROVE  CallLinks(q)'
<1>1. RecordsStay /\ CallLinks(q) /\ ReadsHold(q)
  BY StepKeepsRecords DEF LineageInv, IInv, CallsLink, ReadsStayTrue
<1>2. /\ pc'[q] = pc[q] /\ call'[q] = call[q]
      /\ lock'["ATTEMPT"] = q <=> lock["ATTEMPT"] = q
  BY DEF OthersUnmoved, Kinds
<1>3. PICK o : o = call[q].origin
  OBVIOUS
<1>4. pc[q] = "slot" => call[q].text = NoText /\ ~call[q].late
  BY <1>1 DEF CallLinks
<1>5. pc[q] = "waiting" => lock'["ATTEMPT"] = q /\ sent'[o] = 1
  BY <1>1, <1>2, <1>3 DEF CallLinks, RecordsStay, ReadsHold, InCall
<1>6. ASSUME pc[q] = "commit"
      PROVE  /\ Finished(o)' /\ (call[q].late => call[q].text = NoText)
             /\ call[q].text.kind = "VERIFIED" => Genuine(o)' /\ call[q].text = answer'[o].text
  <2>1. o \in Origins
    BY <1>1, <1>3, <1>6 DEF ReadsHold, InCall
  <2>2. /\ Finished(o) /\ (call[q].late => call[q].text = NoText)
        /\ call[q].text.kind = "VERIFIED" => Genuine(o) /\ call[q].text = answer[o].text
    BY <1>1, <1>3, <1>6 DEF CallLinks
  <2> QED BY <1>1, <2>1, <2>2, ReadsGrow, GenuineStays
<1> QED
  <2>1. /\ Finished(call[q].origin)' = Finished(o)'
        /\ Genuine(call[q].origin)' = Genuine(o)'
    BY <1>2, <1>3 DEF Finished, Finishes, Genuine
  <2> QED BY <1>2, <1>3, <1>4, <1>5, <1>6, <2>1 DEF CallLinks

\* A process between calls holds no answer.
LEMMA IdleLinks ==
    ASSUME NEW p \in Procs, pc'[p] \notin {"slot", "waiting", "commit"} PROVE CallLinks(p)'
BY DEF CallLinks

\* What each action of process p is shown to do.
StepLinks(p) == LedgerStep /\ CallLinks(p)'

LEMMA OpenLinks ==
    ASSUME LineageInv, NEW p \in Procs,
           \/ \E resume \in BOOLEAN : OpenRun(p, resume)
           \/ OpenLedger(p)
           \/ CloseRun(p) \/ Crash(p) \/ CrashInSeal(p)
    PROVE  StepLinks(p)
<1>1. Untouched
  BY DEF OpenRun, OpenLedger, CloseRun, Crash, CrashInSeal, Untouched
<1>2. pc'[p] \in {"down", "openingNew", "openingResume", "open"}
  <2>1. TypeOK
    BY DEF LineageInv, IInv
  <2>2. CASE \E resume \in BOOLEAN : OpenRun(p, resume)
    BY <2>1, <2>2, ContinueFrame DEF OpenRun
  <2>3. CASE OpenLedger(p)
    <3>1. CASE GoDown(p)
      BY <2>1, <3>1, GoDownFrame
    <3>2. CASE ~GoDown(p)
      BY <2>1, <2>3, <3>2 DEF OpenLedger, TypeOK, ProcsTypeOK
    <3> QED BY <3>1, <3>2
  <2>4. CASE CloseRun(p) \/ Crash(p) \/ CrashInSeal(p)
    BY <2>1, <2>4, GoDownFrame DEF CloseRun, Crash, CrashInSeal
  <2> QED BY <2>2, <2>3, <2>4
<1> QED BY <1>1, <1>2, IdleLinks DEF StepLinks, LedgerStep

LEMMA SealLinks ==
    ASSUME LineageInv, NEW p \in Procs,
           SealStart(p) \/ SealLedger(p) \/ WritePhaseSeal(p) \/ VerifyPhase(p)
    PROVE  StepLinks(p)
<1>1. Untouched
  BY DEF SealStart, SealLedger, WritePhaseSeal, VerifyPhase, Untouched
<1>2. pc'[p] \in {"open", "sealing", "phase", "verify", "sealed"}
  <2>1. TypeOK
    BY DEF LineageInv, IInv
  <2>2. CASE SealStart(p)
    BY <2>1, <2>2, ContinueFrame DEF SealStart
  <2>3. CASE SealLedger(p)
    <3>1. CASE Raise(p)
      BY <2>1, <3>1, GoIdleFrame DEF Raise
    <3>2. CASE ~Raise(p)
      BY <2>1, <2>3, <3>2 DEF SealLedger, TypeOK, ProcsTypeOK
    <3> QED BY <3>1, <3>2
  <2>4. CASE WritePhaseSeal(p) \/ VerifyPhase(p)
    BY <2>1, <2>4, GoIdleFrame DEF WritePhaseSeal, VerifyPhase, Raise
  <2> QED BY <2>2, <2>3, <2>4
<1> QED BY <1>1, <1>2, IdleLinks DEF StepLinks, LedgerStep

LEMMA ClaimSlotLinks ==
    ASSUME LineageInv, NEW p \in Procs, NEW o \in Origins, NEW prov \in BOOLEAN,
           ClaimSlot(p, o, prov)
    PROVE  StepLinks(p)
<1>1. PICK c : c = [NoCall EXCEPT !.origin = o, !.recovered = Started(o), !.provider = prov]
  OBVIOUS
<1>2. c.text = NoText /\ ~c.late
  BY <1>1 DEF NoCall
<1>3. UNCHANGED <<predictions, executions, checkpoints, history>> /\ TypeOK
  BY DEF ClaimSlot, LineageInv, IInv
<1>4. ASSUME pc'[p] = "slot", call'[p] = c PROVE CallLinks(p)'
  BY <1>2, <1>4 DEF CallLinks
<1>5. CASE Continue(p, "slot", 0, c) /\ attempts' = attempts
  <2>1. pc'[p] = "slot" /\ call'[p] = c
    BY <1>3, <1>5, ContinueFrame
  <2>2. Untouched
    BY <1>3, <1>5 DEF Untouched, ledgers
  <2> QED BY <1>4, <2>1, <2>2 DEF StepLinks, LedgerStep
<1>6. ASSUME ~Started(o), NEW out \in Outcomes,
             attempts' = Appended(attempts, StartRecord(o), out),
             Settle(p, "ATTEMPT", out, "slot", 0, c)
      PROVE  StepLinks(p)
  <2>0. "ATTEMPT" \in Kinds
    BY DEF Kinds
  <2>1. \/ pc'[p] \in {"down", "open"}
        \/ pc'[p] = "slot" /\ call'[p] = c
    BY <1>3, <1>6, <2>0, SettleFrame
  <2>2. CallLinks(p)'
    BY <1>4, <2>1, IdleLinks
  <2>3. Untouched \/ StartAppended(o)
    BY <1>3, <1>6 DEF Appended, Untouched, StartAppended, ledgers
  <2> QED BY <2>2, <2>3 DEF StepLinks, LedgerStep
<1> QED BY <1>1, <1>5, <1>6 DEF ClaimSlot, StartRecord

\* FINISHED is appended, or the write fails and only the answer has arrived.
LEMMA AppendFinishedLinks ==
    ASSUME LineageInv, NEW p \in Procs, pc[p] \in {"slot", "waiting"},
           NEW o, o = call[p].origin, ~Finished(o),
           NEW s \in Statuses, NEW late \in BOOLEAN, NEW t \in Texts,
           AppendFinished(p, s, late, t), UNCHANGED sent, AnswersOnly(o),
           late => t = NoText,
           t.kind = "VERIFIED" =>
              /\ sent[o] = 1 /\ s = "SUCCESS" /\ ~late
              /\ ClosedStatus(answer[o])' = "SUCCESS"
              /\ ~answer'[o].late /\ t = answer'[o].text
    PROVE  StepLinks(p)
<1>1. o \in Origins /\ Started(o)
  BY DEF LineageInv, IInv, ReadsStayTrue, ReadsHold, InCall
<1>2. PICK r : r = FinishRecord(o, s, late)
  OBVIOUS
<1>3. TypeOK /\ attempts \in Seq(AttemptRecords) /\ call[p] \in Calls
  BY DEF LineageInv, IInv, TypeOK, LedgersTypeOK, ProcsTypeOK
<1>4. PICK c : c = [call[p] EXCEPT !.status = s, !.late = late, !.text = t]
  OBVIOUS
<1>5. c.origin = o /\ c.late = late /\ c.text = t
  BY <1>1, <1>3, <1>4 DEF Calls
<1>6. PICK out \in Outcomes : /\ attempts' = Appended(attempts, r, out)
                              /\ Settle(p, "ATTEMPT", out, "commit", 0, c)
  BY <1>1, <1>2, <1>4 DEF AppendFinished, FinishRecord
<1>7. UNCHANGED <<predictions, executions, checkpoints>>
  BY DEF AppendFinished
<1>8. AnswerArrived(o) \/ FinishAppended(o, s, late)
  <2>1. CASE attempts' = attempts
    BY <1>1, <1>7, <2>1 DEF AnswerArrived, ledgers
  <2>2. CASE attempts' = Append(attempts, r)
    BY <1>1, <1>2, <1>7, <2>2 DEF FinishAppended
  <2> QED BY <1>6, <2>1, <2>2 DEF Appended
<1>9. /\ \/ pc'[p] \in {"down", "open"}
         \/ out = "ok" /\ pc'[p] = "commit" /\ call'[p] = c
  BY <1>3, <1>6, SettleFrame DEF Kinds
<1>10. ASSUME out = "ok", pc'[p] = "commit", call'[p] = c PROVE CallLinks(p)'
  <2>1. attempts' = Append(attempts, r)
    BY <1>6, <1>10 DEF Appended
  <2>2. PICK n : n \in DOMAIN attempts' /\ attempts'[n] = r
    BY <1>3, <2>1, AppendIs
  <2>3. r.event = "FINISHED" /\ r.origin = o /\ r.status = s /\ r.late = late
    BY <1>2 DEF FinishRecord
  <2>4. n \in Finishes(o)'
    BY <2>2, <2>3 DEF Finishes
  <2>5. Finished(o)'
    BY <2>4 DEF Finished
  <2>6. t.kind = "VERIFIED" => Genuine(o)' /\ t = answer'[o].text
    <3> SUFFICES ASSUME t.kind = "VERIFIED" PROVE Genuine(o)' /\ t = answer'[o].text
      OBVIOUS
    <3>1. /\ sent'[o] = 1 /\ s = "SUCCESS" /\ ~late /\ ClosedStatus(answer[o])' = "SUCCESS"
          /\ ~answer'[o].late /\ t = answer'[o].text
      OBVIOUS
    <3>2. \E j \in Finishes(o)' : attempts'[j].status = "SUCCESS" /\ ~attempts'[j].late
      BY <2>2, <2>3, <2>4, <3>1
    <3> QED BY <3>1, <3>2 DEF Genuine
  <2>7. /\ Finished(call[p].origin)' = Finished(o)' /\ Genuine(call[p].origin)' = Genuine(o)'
    BY <1>5, <1>10 DEF Finished, Finishes, Genuine
  <2> QED BY <1>5, <1>10, <2>5, <2>6, <2>7 DEF CallLinks
<1>11. CallLinks(p)'
  BY <1>9, <1>10, IdleLinks
<1> QED BY <1>1, <1>8, <1>11 DEF StepLinks, LedgerStep

LEMMA SlotLinks ==
    ASSUME LineageInv, NEW p \in Procs,
           \/ SlotRaises(p) \/ SlotCommitted(p) \/ SlotFinished(p)
           \/ SlotRecovered(p) \/ SlotLocal(p) \/ SlotInvoke(p)
    PROVE  StepLinks(p)
<1>0. pc[p] = "slot" /\ TypeOK
  BY DEF SlotRaises, SlotCommitted, SlotFinished, SlotRecovered, SlotLocal, SlotInvoke,
         LineageInv, IInv
<1>1. PICK o \in Origins : o = call[p].origin /\ Started(o)
  BY <1>0 DEF LineageInv, IInv, ReadsStayTrue, ReadsHold, InCall
<1>2. call[p] \in Calls /\ call[p].text = NoText /\ ~call[p].late /\ NoText.kind # "VERIFIED"
  BY <1>0 DEF TypeOK, ProcsTypeOK, LineageInv, CallsLink, CallLinks, NoText
<1>3. CASE SlotRaises(p) \/ SlotCommitted(p)
  <2>1. Untouched
    BY <1>3 DEF SlotRaises, SlotCommitted, Untouched
  <2>2. pc'[p] \in {"open", "rows"}
    BY <1>0, <1>3, GoIdleFrame, ContinueFrame DEF SlotRaises, SlotCommitted, Raise
  <2> QED BY <2>1, <2>2, IdleLinks DEF StepLinks, LedgerStep
<1>4. CASE SlotFinished(p)
  <2>1. Untouched /\ Finished(o)
    BY <1>1, <1>4 DEF SlotFinished, Untouched
  <2>2. pc'[p] = "commit" /\ call'[p] = [call[p] EXCEPT !.status = "CRASH_RECOVERY"]
    BY <1>0, <1>4, ContinueFrame DEF SlotFinished
  <2>3. call'[p].origin = o /\ call'[p].text = NoText /\ ~call'[p].late
    BY <1>1, <1>2, <2>2 DEF Calls
  <2>4. Finished(call[p].origin)'
    BY <2>1, <2>3 DEF Finished, Finishes, Untouched, ledgers
  <2>5. CallLinks(p)'
    BY <1>2, <2>2, <2>3, <2>4 DEF CallLinks
  <2> QED BY <2>1, <2>5 DEF StepLinks, LedgerStep
<1>5. CASE SlotRecovered(p) \/ SlotLocal(p)
  <2>1. PICK s \in Statuses : AppendFinished(p, s, FALSE, NoText)
    BY <1>5 DEF SlotRecovered, SlotLocal, Statuses
  <2>2. UNCHANGED sent /\ AnswersOnly(o) /\ ~Finished(o)
    BY <1>1, <1>5 DEF SlotRecovered, SlotLocal, AnswersOnly, history
  <2> QED BY <1>0, <1>1, <1>2, <2>1, <2>2, ValueTypes, AppendFinishedLinks
<1>6. CASE SlotInvoke(p)
  <2>1. /\ ~Finished(o) /\ PhysicalCalls = 1 /\ sent' = [sent EXCEPT ![o] = @ + 1]
        /\ UNCHANGED <<ledgers, answer>> /\ ~call[p].recovered
    BY <1>1, <1>6 DEF SlotInvoke
  <2>2. sent[o] = 0 /\ lock["ATTEMPT"] = p
    BY <1>0, <1>1, <2>1 DEF LineageInv, IInv, ReadsStayTrue, ReadsHold
  <2>3. sent' = [sent EXCEPT ![o] = 1] /\ sent'[o] = 1
    BY <1>0, <2>1, <2>2 DEF TypeOK, HistoryTypeOK
  <2>4. CallSent(o)
    BY <1>1, <2>1, <2>2, <2>3 DEF CallSent
  <2>5. pc'[p] = "waiting" /\ call'[p] = call[p] /\ lock' = lock
    BY <1>0, <1>6, ContinueFrame DEF SlotInvoke
  <2>6. CallLinks(p)'
    BY <1>1, <2>2, <2>3, <2>5 DEF CallLinks
  <2> QED BY <2>4, <2>6 DEF StepLinks, LedgerStep
<1> QED BY <1>3, <1>4, <1>5, <1>6

LEMMA RespondLinks ==
    ASSUME LineageInv, NEW p \in Procs, NEW r \in Responses, Respond(p, r)
    PROVE  StepLinks(p)
<1>0. pc[p] = "waiting" /\ lock["ATTEMPT"] = p /\ TypeOK
  BY DEF Respond, AppendFinished, LineageInv, IInv
<1>1. PICK o \in Origins : o = call[p].origin
  BY <1>0 DEF LineageInv, IInv, ReadsStayTrue, ReadsHold, InCall
<1>2. ~Finished(o) /\ sent[o] = 1
  BY <1>0, <1>1 DEF LineageInv, IInv, ReadsStayTrue, ReadsHold, CallsLink, CallLinks
<1>3. /\ answer' = [answer EXCEPT ![o] = r] /\ UNCHANGED sent
      /\ AppendFinished(p, ClosedStatus(r), r.late, UsableText(r))
  BY <1>1 DEF Respond
<1>4. answer'[o] = r /\ AnswersOnly(o)
  BY <1>0, <1>3 DEF TypeOK, HistoryTypeOK, AnswersOnly
<1>5. ClosedStatus(answer[o])' = ClosedStatus(r)
  BY <1>4 DEF ClosedStatus
<1>6. /\ r.late => UsableText(r) = NoText
      /\ UsableText(r).kind = "VERIFIED" =>
            ClosedStatus(r) = "SUCCESS" /\ ~r.late /\ UsableText(r) = r.text
  BY DEF UsableText, NoText
<1>7. ClosedStatus(r) \in Statuses /\ UsableText(r) \in Texts /\ r.late \in BOOLEAN
  BY ValueTypes
<1> QED BY <1>0, <1>1, <1>2, <1>3, <1>4, <1>5, <1>6, <1>7, AppendFinishedLinks

\* A commit is the fallback unless the call holds the provider's answer.
LEMMA CommitPredictionLinks ==
    ASSUME LineageInv, NEW p \in Procs, CommitPrediction(p), TypeOK'
    PROVE  StepLinks(p)
<1>0. pc[p] = "commit" /\ TypeOK /\ predictions \in Seq(Commits)
  BY DEF CommitPrediction, LineageInv, IInv, TypeOK, LedgersTypeOK
<1>1. PICK o \in Origins : o = call[p].origin /\ Started(o)
  BY <1>0 DEF LineageInv, IInv, ReadsStayTrue, ReadsHold, InCall
<1>2. PICK m : m = CommitOf(call[p])
  OBVIOUS
<1>3. m.origin = o /\ m.started = Only(Starts(o)) /\ m.execution = ExecuteArm(call[p].text)
  BY <1>1, <1>2 DEF CommitOf
<1>4. UNCHANGED <<attempts, executions, checkpoints, history>>
  BY DEF CommitPrediction
<1>5. CASE Raise(p) /\ UNCHANGED predictions
  <2>1. Untouched
    BY <1>4, <1>5 DEF Untouched, ledgers
  <2>2. pc'[p] = "open"
    BY <1>0, <1>5, GoIdleFrame DEF Raise
  <2> QED BY <2>1, <2>2, IdleLinks DEF StepLinks, LedgerStep
<1>6. ASSUME CommitValid(m), lock["PREDICTION"] = p, NEW out \in Outcomes,
             predictions' = Appended(predictions, m, out),
             Settle(p, "PREDICTION", out, "rows", 1, call[p])
      PROVE  StepLinks(p)
  <2>0. "PREDICTION" \in Kinds
    BY DEF Kinds
  <2>1. pc'[p] \in {"down", "open", "rows"}
    BY <1>0, <1>6, <2>0, SettleFrame
  <2>2. CASE predictions' = predictions
    BY <1>4, <2>1, <2>2, IdleLinks DEF StepLinks, LedgerStep, Untouched, ledgers
  <2>3. CASE predictions' = Append(predictions, m)
    <3>1. m \in Commits
      BY <1>0, <2>3 DEF TypeOK, LedgersTypeOK
    <3>2. ~Committed(o)
      BY <1>0, <1>1, <1>6 DEF LineageInv, IInv, ReadsStayTrue, ReadsHold
    <3>3. /\ Finished(o)
          /\ call[p].text.kind = "VERIFIED" => Genuine(o) /\ call[p].text = answer[o].text
      BY <1>0, <1>1 DEF LineageInv, CallsLink, CallLinks
    <3>4. Only(Starts(o)) \in Starts(o)
      BY <1>1, OnlyInSet DEF Started
    <3>5. ASSUME PhysicalCalls = 1, ~m.execution.error
          PROVE  Genuine(o) /\ m.execution = ExecuteArm(answer[o].text)
      <4>1. Arm # "N0"
        BY <3>5 DEF PhysicalCalls
      <4>2. call[p].text.kind = "VERIFIED"
        BY <1>3, <3>5, <4>1 DEF ExecuteArm, FallbackExecution
      <4> QED BY <1>3, <3>3, <4>2
    <3>6. CommitLinks(m)
      BY <1>3, <1>6, <3>3, <3>4, <3>5 DEF CommitLinks
    <3>7. CommitAppended(m)
      BY <1>3, <1>4, <2>3, <3>1, <3>2, <3>6 DEF CommitAppended
    <3> QED BY <2>1, <3>1, <3>7, IdleLinks DEF StepLinks, LedgerStep
  <2> QED BY <1>6, <2>2, <2>3 DEF Appended
<1> QED BY <1>2, <1>5, <1>6 DEF CommitPrediction

LEMMA AppendRowLinks ==
    ASSUME LineageInv, NEW p \in Procs, AppendRow(p), TypeOK'
    PROVE  StepLinks(p)
<1>0. pc[p] = "rows" /\ TypeOK /\ executions \in Seq(ExecutionRows)
  BY DEF AppendRow, LineageInv, IInv, TypeOK, LedgersTypeOK
<1>1. PICK o \in Origins : o = call[p].origin /\ Committed(o)
  BY <1>0 DEF LineageInv, IInv, ReadsStayTrue, ReadsHold, InCall
<1>2. PICK ref : ref = Only(CommitsOf(o))
  OBVIOUS
<1>3. ref \in DOMAIN predictions
  BY <1>0, <1>1, <1>2, OnlyInSet, PositionsAreNat DEF Committed, TypeOK
<1>4. PICK key \in Keys : key = step[p]
  BY <1>0 DEF LineageInv, IInv, ReadsStayTrue, ReadsHold
<1>5. PICK r : r = [ref |-> ref, key |-> key, state |-> predictions[ref].execution.rows[key]]
  OBVIOUS
<1>6. PICK at : at = IF key = NumKeys THEN "checkpoint" ELSE "rows"
  OBVIOUS
<1>7. UNCHANGED <<attempts, predictions, checkpoints, history>>
  BY DEF AppendRow
<1>8. \/ Raise(p) /\ UNCHANGED executions
      \/ Continue(p, at, key + 1, call[p]) /\ UNCHANGED executions
      \/ /\ {i \in RowsOf(ref) : executions[i].key = key} = {}
         /\ \E out \in Outcomes : /\ executions' = Appended(executions, r, out)
                                  /\ Settle(p, "EXECUTION", out, at, key + 1, call[p])
  BY <1>1, <1>2, <1>4, <1>5, <1>6 DEF AppendRow
<1>9. pc'[p] \notin {"slot", "waiting", "commit"}
  <2>0. "EXECUTION" \in Kinds /\ at \in {"checkpoint", "rows"}
    BY <1>6 DEF Kinds
  <2>1. CASE Raise(p)
    BY <1>0, <2>1, GoIdleFrame DEF Raise
  <2>2. CASE Continue(p, at, key + 1, call[p])
    BY <1>0, <2>0, <2>2, ContinueFrame
  <2>3. CASE \E out \in Outcomes : Settle(p, "EXECUTION", out, at, key + 1, call[p])
    BY <1>0, <2>0, <2>3, SettleFrame
  <2> QED BY <1>8, <2>1, <2>2, <2>3
<1>10. CASE executions' = executions
  BY <1>7, <1>9, <1>10, IdleLinks DEF StepLinks, LedgerStep, Untouched, ledgers
<1>11. CASE /\ {i \in RowsOf(ref) : executions[i].key = key} = {}
            /\ executions' = Append(executions, r)
  <2>1. r \in ExecutionRows
    BY <1>0, <1>11 DEF TypeOK, LedgersTypeOK
  <2>2. r.ref = ref /\ r.key = key /\ r.state = predictions[ref].execution.rows[key]
    BY <1>5
  <2>3. RowAppended(r)
    BY <1>3, <1>7, <1>11, <2>1, <2>2 DEF RowAppended
  <2> QED BY <1>9, <2>1, <2>3, IdleLinks DEF StepLinks, LedgerStep
<1> QED BY <1>8, <1>10, <1>11 DEF Appended

\* The last record of a finished attempt is its FINISHED.
LEMMA FinalIsFinished ==
    ASSUME LineageInv, NEW o \in Origins, Started(o), Finished(o)
    PROVE  FinalRecord(o) \in Finishes(o)
<1> DEFINE S == Starts(o) \cup Finishes(o)
<1>0. LedgersTypeOK /\ AttemptsLink
  BY DEF LineageInv, IInv, TypeOK, RecordsLink
<1>1. Len(attempts) \in Nat /\ S \in SUBSET (1..Len(attempts)) /\ S # {}
  BY <1>0 DEF LedgersTypeOK, Starts, Finishes, Started
<1>2. \E i \in S : \A j \in S : j <= i
  <2> HIDE DEF S
  <2> QED BY <1>1, MaximumExists
<1>3. FinalRecord(o) \in S /\ \A j \in S : j <= FinalRecord(o)
  BY <1>2 DEF FinalRecord, Latest
<1>4. PICK f \in Finishes(o) : f <= FinalRecord(o)
  BY <1>3 DEF Finished
<1>5. \A j \in Starts(o) : j < f
  BY <1>0 DEF AttemptsLink
<1>6. f \in Nat /\ Starts(o) \subseteq Nat
  BY <1>0, PositionsAreNat
<1> QED BY <1>3, <1>4, <1>5, <1>6

LEMMA AppendCheckpointLinks ==
    ASSUME LineageInv, NEW p \in Procs, AppendCheckpoint(p), TypeOK'
    PROVE  StepLinks(p)
<1>0. pc[p] = "checkpoint" /\ TypeOK /\ checkpoints \in Seq(Checkpoints)
  BY DEF AppendCheckpoint, LineageInv, IInv, TypeOK, LedgersTypeOK
<1>1. PICK o \in Origins : o = call[p].origin /\ Started(o) /\ Committed(o)
  BY <1>0 DEF LineageInv, IInv, ReadsStayTrue, ReadsHold, InCall
<1>2. PICK ref : ref = Only(CommitsOf(o))
  OBVIOUS
<1>3. ref \in DOMAIN predictions /\ predictions[ref].origin = o
  <2>1. ref \in CommitsOf(o)
    BY <1>1, <1>2, OnlyInSet DEF Committed
  <2> QED BY <2>1 DEF CommitsOf
<1>4. PICK rows : rows = [k \in Keys |-> Only({i \in RowsOf(ref) : executions[i].key = k})]
  OBVIOUS
<1>5. PICK c : c = [origin |-> o, final |-> FinalRecord(o), ref |-> ref, rows |-> rows]
  OBVIOUS
<1>6. UNCHANGED <<attempts, predictions, executions, history>>
  BY DEF AppendCheckpoint
<1>7. \/ GoIdle(p, "open") /\ UNCHANGED checkpoints
      \/ /\ CheckpointsOf(ref) = {}
         /\ \E out \in Outcomes : /\ checkpoints' = Appended(checkpoints, c, out)
                                  /\ Settle(p, "CHECKPOINT", out, "open", 0, NoCall)
  BY <1>1, <1>2, <1>4, <1>5 DEF AppendCheckpoint
<1>8. pc'[p] \in {"down", "open"}
  <2>0. "CHECKPOINT" \in Kinds
    BY DEF Kinds
  <2> QED BY <1>0, <1>7, <2>0, GoIdleFrame, SettleFrame
<1>9. CASE checkpoints' = checkpoints
  BY <1>6, <1>8, <1>9, IdleLinks DEF StepLinks, LedgerStep, Untouched, ledgers
<1>10. CASE CheckpointsOf(ref) = {} /\ checkpoints' = Append(checkpoints, c)
  <2>1. c \in Checkpoints
    BY <1>0, <1>10 DEF TypeOK, LedgersTypeOK
  <2>2. c.origin = o /\ c.final = FinalRecord(o) /\ c.ref = ref /\ c.rows = rows
    BY <1>5
  <2>3. Finished(o)
    BY <1>3 DEF LineageInv, RecordsLink, CommitsLink, CommitLinks
  <2>4. c.final \in Finishes(o)
    BY <1>1, <2>2, <2>3, FinalIsFinished
  <2>5. ASSUME NEW k \in Keys PROVE rows[k] \in RowsOf(ref) /\ executions[rows[k]].key = k
    <3>1. k < step[p]
      BY <1>0 DEF LineageInv, IInv, ReadsStayTrue, ReadsHold, Keys
    <3>2. \E i \in RowsOf(ref) : executions[i].key = k
      BY <1>0, <1>1, <1>2, <3>1 DEF LineageInv, IInv, ReadsStayTrue, ReadsHold
    <3>3. rows[k] \in {i \in RowsOf(ref) : executions[i].key = k}
      BY <1>4, <3>2, OnlyInSet
    <3> QED BY <3>3
  <2>6. CheckpointLinks(c)
    BY <1>3, <2>2, <2>4, <2>5 DEF CheckpointLinks
  <2>7. CheckpointAppended(c)
    BY <1>6, <1>10, <2>1, <2>2, <2>6 DEF CheckpointAppended
  <2> QED BY <1>8, <2>1, <2>7, IdleLinks DEF StepLinks, LedgerStep
<1> QED BY <1>7, <1>9, <1>10 DEF Appended

-----------------------------------------------------------------------------
(* The invariant *)

LEMMA LineageInit == Init => LineageInv
<1> SUFFICES ASSUME Init PROVE LineageInv
  OBVIOUS
<1>1. RecordsLink
  BY DEF Init, RecordsLink, AttemptsLink, CommitsLink, RowsLink, CheckpointsLink, Finishes
<1>2. CallsLink
  BY DEF Init, CallsLink, CallLinks
<1> QED BY <1>1, <1>2, InitEstablishes DEF LineageInv

\* A step of some process is one of the eight kinds and disturbs no other call.
LEMMA StepOfProcess ==
    ASSUME LineageInv, Next
    PROVE  \E p \in Procs : StepLinks(p) /\ OthersUnmoved(p)
<1>0. TypeOK' /\ IInv
  BY TypeStep DEF LineageInv, IInv
<1>1. PICK p \in Procs :
          \/ \E resume \in BOOLEAN : OpenRun(p, resume)
          \/ OpenLedger(p) \/ CloseRun(p)
          \/ Crash(p) \/ CrashInSeal(p)
          \/ \E o \in Origins, prov \in Providers : ClaimSlot(p, o, prov)
          \/ RunOriginStep(p)
          \/ SealStart(p) \/ SealStep(p)
  BY DEF Next
<1>2. ASSUME RunOriginStep(p) PROVE StepLinks(p) /\ OthersUnmoved(p)
  <2>1. StepLinks(p)
    BY <1>0, <1>2, SlotLinks, RespondLinks, CommitPredictionLinks, AppendRowLinks,
       AppendCheckpointLinks DEF RunOriginStep
  <2>2. StepIsSafe(p)
    BY <1>0, <1>2, SlotIsSafe, RespondIsSafe, CommitPredictionIsSafe, AppendRowIsSafe,
       AppendCheckpointIsSafe DEF RunOriginStep
  <2> QED BY <2>1, <2>2 DEF StepIsSafe
<1>3. CASE \/ \E resume \in BOOLEAN : OpenRun(p, resume)
           \/ OpenLedger(p) \/ CloseRun(p) \/ Crash(p) \/ CrashInSeal(p)
  BY <1>0, <1>3, OpenLinks, OpenIsSafe, EndIsSafe DEF StepIsSafe
<1>4. CASE \E o \in Origins, prov \in Providers : ClaimSlot(p, o, prov)
  BY <1>0, <1>4, ClaimSlotLinks, ClaimSlotIsSafe DEF StepIsSafe
<1>5. CASE SealStart(p) \/ SealStep(p)
  BY <1>0, <1>5, SealLinks, SealIsSafe DEF StepIsSafe, SealStep
<1> QED BY <1>1, <1>2, <1>3, <1>4, <1>5

LEMMA LineageStep == LineageInv /\ [Next]_vars => LineageInv' /\ LedgerStep
<1> SUFFICES ASSUME LineageInv, [Next]_vars PROVE LineageInv' /\ LedgerStep
  OBVIOUS
<1>0. IInv' /\ TypeOK /\ RecordsLink
  BY NextPreserves DEF LineageInv, IInv
<1>1. CASE UNCHANGED vars
  <2>1. LedgerStep
    BY <1>1 DEF LedgerStep, Untouched, vars, history
  <2>2. OthersUnmoved(NoProc)
    BY <1>1 DEF OthersUnmoved, vars
  <2>3. CallsLink'
    BY <2>1, <2>2, OthersKeepLinks DEF CallsLink
  <2> QED BY <1>0, <2>1, <2>3, RecordsLinkStep DEF LineageInv
<1>2. CASE Next
  <2>1. PICK p \in Procs : StepLinks(p) /\ OthersUnmoved(p)
    BY <1>2, StepOfProcess
  <2>2. LedgerStep /\ CallLinks(p)'
    BY <2>1 DEF StepLinks
  <2>3. CallsLink'
    BY <2>1, <2>2, OthersKeepLinks DEF CallsLink
  <2> QED BY <1>0, <2>2, <2>3, RecordsLinkStep DEF LineageInv
<1> QED BY <1>1, <1>2

-----------------------------------------------------------------------------
(* The stage of a slot *)

Checkpointed(o) == \E i \in DOMAIN checkpoints : checkpoints[i].origin = o

\* A later stage is reached through the earlier ones.
LEMMA StagesNest ==
    ASSUME LineageInv, NEW o \in Origins
    PROVE  /\ Checkpointed(o) => Committed(o)
           /\ Committed(o) => Finished(o)
           /\ Finished(o) => Started(o)
           /\ sent[o] > 0 => Started(o)
<1>1. Checkpointed(o) => Committed(o)
  BY DEF LineageInv, RecordsLink, CheckpointsLink, CheckpointLinks, Checkpointed, Committed, CommitsOf
<1>2. Committed(o) => Finished(o)
  BY DEF LineageInv, RecordsLink, CommitsLink, CommitLinks, Committed, CommitsOf
<1>3. Finished(o) => Started(o)
  BY DEF LineageInv, RecordsLink, AttemptsLink, Finished, Started
<1>4. sent[o] > 0 => Started(o)
  <2>1. sent[o] \in Nat /\ sent[o] <= 1 /\ (sent[o] = 1 => Started(o))
    BY DEF LineageInv, IInv, OneCallPerSlot, TypeOK, HistoryTypeOK
  <2> QED BY <2>1
<1> QED BY <1>1, <1>2, <1>3, <1>4

\* A slot whose records and history stay keeps its stage and its verdict.
LEMMA SlotStays ==
    ASSUME NEW o \in Origins, Starts(o)' = Starts(o), Finishes(o)' = Finishes(o),
           CommitsOf(o)' = CommitsOf(o), Checkpointed(o)' <=> Checkpointed(o),
           \A i \in CommitsOf(o) : predictions'[i] = predictions[i]
    PROVE  SlotStage(o)' = SlotStage(o) /\ SlotVerdict(o)' = SlotVerdict(o)
<1>1. /\ Started(o)' <=> Started(o)
      /\ Finished(o)' <=> Finished(o)
      /\ Committed(o)' <=> Committed(o)
  BY DEF Started, Finished, Committed
<1>2. SlotStage(o)' = SlotStage(o)
  BY <1>1 DEF SlotStage, Checkpointed
<1>3. SlotVerdict(o)' = SlotVerdict(o)
  <2>1. CASE ~Committed(o)
    BY <1>1, <2>1 DEF SlotVerdict
  <2>2. CASE Committed(o)
    <3>1. PICK i : i = Only(CommitsOf(o)) /\ i \in CommitsOf(o)
      BY <2>2, OnlyInSet DEF Committed
    <3>2. Only(CommitsOf(o))' = i
      BY <3>1
    <3>3. predictions'[i] = predictions[i]
      BY <3>1
    <3> QED BY <1>1, <3>1, <3>2, <3>3 DEF SlotVerdict
  <2> QED BY <2>1, <2>2
<1> QED BY <1>2, <1>3

\* The slot moves on, and the others stay.
Moves(o, from, to) ==
    /\ SlotStage(o) = from
    /\ \A x \in Origins : SlotStage(x)' = IF x = o THEN to ELSE SlotStage(x)

VerdictsStay == \A x \in Origins : SlotVerdict(x)' = SlotVerdict(x)

LEMMA AllStay ==
    ASSUME UNCHANGED <<attempts, predictions, checkpoints>>, NEW o \in Origins
    PROVE  SlotStage(o)' = SlotStage(o) /\ SlotVerdict(o)' = SlotVerdict(o)
<1>1. /\ Starts(o)' = Starts(o) /\ Finishes(o)' = Finishes(o) /\ CommitsOf(o)' = CommitsOf(o)
      /\ (Checkpointed(o)' <=> Checkpointed(o))
  BY DEF Starts, Finishes, CommitsOf, Checkpointed
<1> QED BY <1>1, SlotStays

LEMMA StartMoves ==
    ASSUME LineageInv, NEW o \in Origins, StartAppended(o)
    PROVE  Moves(o, "FREE", "CONSUMED") /\ VerdictsStay
<1>1. PICK r : r = StartRecord(o)
  OBVIOUS
<1>2. r \in AttemptRecords /\ r.event = "STARTED" /\ r.origin = o
  BY <1>1 DEF StartRecord, AttemptRecords, Statuses
<1>3. attempts' = Append(attempts, r) /\ ~Started(o) /\ UNCHANGED <<predictions, checkpoints>>
  BY <1>1 DEF StartAppended
<1>4. /\ \A x : Starts(x)' = IF x = o THEN Starts(x) \cup {Len(attempts) + 1} ELSE Starts(x)
      /\ \A x : Finishes(x)' = Finishes(x)
  BY <1>2, <1>3, AttemptGrowth DEF LineageInv, IInv, TypeOK
<1>5. \A x : /\ CommitsOf(x)' = CommitsOf(x) /\ (Checkpointed(x)' <=> Checkpointed(x))
             /\ (Finished(x)' <=> Finished(x)) /\ (Committed(x)' <=> Committed(x))
  BY <1>3, <1>4 DEF CommitsOf, Checkpointed, Finished, Committed
<1>6. ASSUME NEW x \in Origins, x # o
      PROVE  SlotStage(x)' = SlotStage(x) /\ SlotVerdict(x)' = SlotVerdict(x)
  <2>1. /\ Starts(x)' = Starts(x) /\ Finishes(x)' = Finishes(x) /\ CommitsOf(x)' = CommitsOf(x)
        /\ (Checkpointed(x)' <=> Checkpointed(x))
    BY <1>6, <1>3, <1>4, <1>5
  <2>2. \A i \in CommitsOf(x) : predictions'[i] = predictions[i]
    BY <1>3
  <2> QED BY <2>1, <2>2, SlotStays
<1>7. ~Finished(o) /\ ~Committed(o) /\ ~Checkpointed(o)
  BY <1>3, StagesNest
<1>8. SlotStage(o) = "FREE" /\ SlotVerdict(o) = "NONE"
  BY <1>3, <1>7 DEF SlotStage, SlotVerdict, Checkpointed
<1>9. Started(o)'
  BY <1>4 DEF Started
<1>10. SlotStage(o)' = "CONSUMED" /\ SlotVerdict(o)' = "NONE"
  BY <1>5, <1>7, <1>9 DEF SlotStage, SlotVerdict, Checkpointed
<1> QED BY <1>6, <1>8, <1>10 DEF Moves, VerdictsStay

LEMMA FinishMoves ==
    ASSUME LineageInv, NEW o \in Origins, NEW s \in Statuses, NEW late \in BOOLEAN,
           FinishAppended(o, s, late)
    PROVE  Moves(o, "CONSUMED", "CLOSED") /\ VerdictsStay
<1>1. PICK r : r = FinishRecord(o, s, late)
  OBVIOUS
<1>2. Only(Starts(o)) \in Nat
  BY OnlyInSet, PositionsAreNat DEF FinishAppended, Started, LineageInv, IInv, TypeOK
<1>3. r \in AttemptRecords /\ r.event = "FINISHED" /\ r.origin = o
  BY <1>1, <1>2 DEF FinishRecord, AttemptRecords
<1>4. /\ attempts' = Append(attempts, r) /\ Started(o) /\ ~Finished(o)
      /\ UNCHANGED <<predictions, checkpoints>>
  BY <1>1 DEF FinishAppended
<1>5. /\ \A x : Starts(x)' = Starts(x)
      /\ \A x : Finishes(x)' = IF x = o THEN Finishes(x) \cup {Len(attempts) + 1} ELSE Finishes(x)
  BY <1>3, <1>4, AttemptGrowth DEF LineageInv, IInv, TypeOK
<1>6. \A x : /\ CommitsOf(x)' = CommitsOf(x) /\ (Checkpointed(x)' <=> Checkpointed(x))
             /\ (Committed(x)' <=> Committed(x))
  BY <1>4 DEF CommitsOf, Checkpointed, Committed
<1>7. ASSUME NEW x \in Origins, x # o
      PROVE  SlotStage(x)' = SlotStage(x) /\ SlotVerdict(x)' = SlotVerdict(x)
  <2>1. /\ Starts(x)' = Starts(x) /\ Finishes(x)' = Finishes(x) /\ CommitsOf(x)' = CommitsOf(x)
        /\ (Checkpointed(x)' <=> Checkpointed(x))
    BY <1>7, <1>4, <1>5, <1>6
  <2>2. \A i \in CommitsOf(x) : predictions'[i] = predictions[i]
    BY <1>4
  <2> QED BY <2>1, <2>2, SlotStays
<1>8. ~Committed(o) /\ ~Checkpointed(o)
  BY <1>4, StagesNest
<1>9. SlotStage(o) = "CONSUMED" /\ SlotVerdict(o) = "NONE"
  BY <1>4, <1>8 DEF SlotStage, SlotVerdict, Checkpointed
<1>10. Finished(o)'
  BY <1>5 DEF Finished
<1>11. SlotStage(o)' = "CLOSED" /\ SlotVerdict(o)' = "NONE"
  BY <1>6, <1>8, <1>10 DEF SlotStage, SlotVerdict, Checkpointed
<1> QED BY <1>7, <1>9, <1>11 DEF Moves, VerdictsStay

\* Only a call, or a local arm, decides by anything but the fallback.
LEMMA CommitMoves ==
    ASSUME LineageInv, NEW m \in Commits, CommitAppended(m)
    PROVE  /\ Moves(m.origin, "CLOSED", "DECIDED")
           /\ \E v \in {"OWN", "FALLBACK"} :
                 /\ \A x \in Origins : SlotVerdict(x)' = IF x = m.origin THEN v ELSE SlotVerdict(x)
                 /\ v = "OWN" => sent[m.origin] > 0 \/ PhysicalCalls = 0
<1>1. PICK o \in Origins : o = m.origin
  BY DEF Commits
<1>2. PICK n : n = Len(predictions) + 1
  OBVIOUS
<1>3. /\ predictions' = Append(predictions, m) /\ ~Committed(o) /\ Finished(o)
      /\ UNCHANGED <<attempts, checkpoints>> /\ predictions \in Seq(Commits)
  BY <1>1 DEF CommitAppended, CommitLinks, LineageInv, IInv, TypeOK, LedgersTypeOK
<1>4. \A x : CommitsOf(x)' = IF x = o THEN CommitsOf(x) \cup {n} ELSE CommitsOf(x)
  BY <1>1, <1>2, <1>3, CommitGrowth DEF LineageInv, IInv, TypeOK
<1>5. CommitsOf(o)' = {n} /\ predictions'[n] = m
  BY <1>2, <1>3, <1>4, AppendIs DEF Committed
<1>6. \A x : /\ Starts(x)' = Starts(x) /\ Finishes(x)' = Finishes(x)
             /\ (Checkpointed(x)' <=> Checkpointed(x))
  BY <1>3 DEF Starts, Finishes, Checkpointed
<1>7. \A x : \A i \in CommitsOf(x) : predictions'[i] = predictions[i]
  BY <1>3, AppendIs DEF CommitsOf
<1>8. \A x \in Origins : x # o => SlotStage(x)' = SlotStage(x) /\ SlotVerdict(x)' = SlotVerdict(x)
  BY <1>4, <1>6, <1>7, SlotStays
<1>9. ~Checkpointed(o)
  BY <1>3, StagesNest
<1>10. SlotStage(o) = "CLOSED"
  BY <1>3, <1>9 DEF SlotStage, Checkpointed
<1>11. Committed(o)' /\ Only(CommitsOf(o))' = n
  BY <1>5, OnlyInSet DEF Committed
<1>12. SlotStage(o)' = "DECIDED"
  BY <1>6, <1>9, <1>11 DEF SlotStage, Checkpointed
<1>13. SlotVerdict(o)' = IF m.execution.error THEN "FALLBACK" ELSE "OWN"
  BY <1>5, <1>11 DEF SlotVerdict
<1>14. ~m.execution.error => sent[o] > 0 \/ PhysicalCalls = 0
  <2>1. PhysicalCalls = 0 \/ PhysicalCalls = 1
    BY DEF PhysicalCalls
  <2>2. PhysicalCalls = 1 /\ ~m.execution.error => sent[o] = 1
    BY <1>1 DEF CommitAppended, CommitLinks, Genuine
  <2> QED BY <2>1, <2>2
<1>15. Moves(o, "CLOSED", "DECIDED")
  BY <1>8, <1>10, <1>12 DEF Moves
<1>16. PICK v \in {"OWN", "FALLBACK"} : v = IF m.execution.error THEN "FALLBACK" ELSE "OWN"
  OBVIOUS
<1>17. \A x \in Origins : SlotVerdict(x)' = IF x = o THEN v ELSE SlotVerdict(x)
  BY <1>8, <1>13, <1>16
<1>18. v = "OWN" => sent[o] > 0 \/ PhysicalCalls = 0
  BY <1>14, <1>16
<1> QED BY <1>1, <1>15, <1>17, <1>18

LEMMA CheckpointMoves ==
    ASSUME LineageInv, NEW c \in Checkpoints, CheckpointAppended(c)
    PROVE  Moves(c.origin, "DECIDED", "CHECKPOINTED") /\ VerdictsStay
<1>1. PICK o \in Origins : o = c.origin
  BY DEF Checkpoints
<1>2. /\ checkpoints' = Append(checkpoints, c) /\ checkpoints \in Seq(Checkpoints)
      /\ UNCHANGED <<attempts, predictions>>
      /\ c.ref \in DOMAIN predictions /\ predictions[c.ref].origin = o
      /\ \A i \in DOMAIN checkpoints : checkpoints[i].ref # c.ref
  BY <1>1 DEF CheckpointAppended, CheckpointLinks, CheckpointsOf, LineageInv, IInv, TypeOK,
              LedgersTypeOK
<1>3. Committed(o) /\ AtMostOne(CommitsOf(o)) /\ c.ref \in CommitsOf(o)
  BY <1>2 DEF Committed, CommitsOf, LineageInv, IInv, OneRecordPerSlot
<1>4. ~Checkpointed(o)
  <2> SUFFICES ASSUME NEW i \in DOMAIN checkpoints, checkpoints[i].origin = o PROVE FALSE
    BY DEF Checkpointed
  <2>1. checkpoints[i].ref \in CommitsOf(o)
    BY DEF LineageInv, RecordsLink, CheckpointsLink, CheckpointLinks, CommitsOf
  <2> QED BY <1>2, <1>3, <2>1 DEF AtMostOne
<1>5. SlotStage(o) = "DECIDED"
  BY <1>3, <1>4 DEF SlotStage, Checkpointed
<1>6. PICK n : /\ DOMAIN checkpoints' = DOMAIN checkpoints \cup {n} /\ checkpoints'[n] = c
               /\ \A i \in DOMAIN checkpoints : checkpoints'[i] = checkpoints[i]
  BY <1>2, AppendIs
<1>7. \A x : Checkpointed(x)' <=> (Checkpointed(x) \/ x = o)
  BY <1>1, <1>6 DEF Checkpointed
<1>8. \A x : /\ Starts(x)' = Starts(x) /\ Finishes(x)' = Finishes(x) /\ CommitsOf(x)' = CommitsOf(x)
  BY <1>2 DEF Starts, Finishes, CommitsOf
<1>9. ASSUME NEW x \in Origins, x # o
      PROVE  SlotStage(x)' = SlotStage(x) /\ SlotVerdict(x)' = SlotVerdict(x)
  <2>1. /\ Starts(x)' = Starts(x) /\ Finishes(x)' = Finishes(x) /\ CommitsOf(x)' = CommitsOf(x)
        /\ (Checkpointed(x)' <=> Checkpointed(x))
    BY <1>9, <1>2, <1>7, <1>8
  <2>2. \A i \in CommitsOf(x) : predictions'[i] = predictions[i]
    BY <1>2
  <2> QED BY <2>1, <2>2, SlotStays
<1>10. SlotStage(o)' = "CHECKPOINTED"
  BY <1>7 DEF SlotStage, Checkpointed
<1>11. SlotVerdict(o)' = SlotVerdict(o)
  BY <1>2, <1>8 DEF SlotVerdict, Committed
<1> QED BY <1>1, <1>5, <1>9, <1>10, <1>11 DEF Moves, VerdictsStay

LEMMA OthersStay ==
    ASSUME UNCHANGED <<attempts, predictions, checkpoints>>
    PROVE  (\A x \in Origins : SlotStage(x)' = SlotStage(x)) /\ VerdictsStay
BY AllStay DEF VerdictsStay

LEMMA CallMoves ==
    ASSUME LineageInv, NEW o \in Origins, CallSent(o)
    PROVE  SlotStage(o) = "CONSUMED"
<1>1. Started(o) /\ ~Finished(o)
  BY DEF CallSent
<1>2. ~Committed(o) /\ ~Checkpointed(o)
  BY <1>1, StagesNest
<1> QED BY <1>1, <1>2 DEF SlotStage, Checkpointed

-----------------------------------------------------------------------------
(* The theorems *)

\* The links between records, and between a running run_origin call and the
\* answer it holds in memory, survive every step, crash and failed write.
THEOREM LineageHolds == Spec => []LineageInv
BY LineageInit, LineageStep, PTL DEF Spec

\* Every durable checkpoint of run_origin has its whole lineage: one STARTED,
\* one FINISHED, one commit, one equal row per key, bound by reference.
THEOREM CheckpointsHaveLineage == Spec => []CheckpointHasLineage
<1>1. LineageInv => CheckpointHasLineage
  <2> SUFFICES ASSUME LineageInv, NEW i \in DOMAIN checkpoints
               PROVE  LET c == checkpoints[i] IN
                      /\ c.ref \in DOMAIN predictions /\ predictions[c.ref].origin = c.origin
                      /\ AtMostOne(CommitsOf(c.origin))
                      /\ AtMostOne(Starts(c.origin)) /\ AtMostOne(Finishes(c.origin))
                      /\ LineageBinds(c.ref)
    BY DEF CheckpointHasLineage
  <2>1. PICK c \in Checkpoints : c = checkpoints[i]
    BY DEF LineageInv, IInv, TypeOK, LedgersTypeOK
  <2>2. PICK ref \in Nat, o \in Origins : ref = c.ref /\ o = c.origin
    BY DEF Checkpoints
  <2>3. ref \in DOMAIN predictions /\ predictions[ref].origin = o
    BY <2>1, <2>2 DEF LineageInv, RecordsLink, CheckpointsLink, CheckpointLinks
  <2>4. AtMostOne(CommitsOf(o)) /\ AtMostOne(Starts(o)) /\ AtMostOne(Finishes(o))
    BY DEF LineageInv, IInv, OneRecordPerSlot
  <2>5. PICK m : m = predictions[ref]
    OBVIOUS
  <2>6. CommitLinks(m) /\ m.origin = o
    BY <2>3, <2>5 DEF LineageInv, RecordsLink, CommitsLink
  <2>7. Finished(o) /\ m.started \in Starts(o) /\ CommitValid(m) /\ Started(o)
    BY <2>6 DEF CommitLinks, Started
  <2>8. \A j \in Finishes(o) : attempts[j].started = m.started
    BY <2>4, <2>7 DEF LineageInv, RecordsLink, AttemptsLink, AtMostOne
  <2>9. ASSUME NEW k \in Keys
        PROVE  LET R == {j \in RowsOf(ref) : executions[j].key = k} IN
               /\ R # {} /\ AtMostOne(R)
               /\ \A j \in R : executions[j].state = m.execution.rows[k]
    <3>1. c.rows[k] \in RowsOf(ref) /\ executions[c.rows[k]].key = k
      BY <2>1, <2>2 DEF LineageInv, RecordsLink, CheckpointsLink, CheckpointLinks
    <3> QED BY <2>5, <3>1 DEF LineageInv, RecordsLink, RowsLink, RowsOf, AtMostOne
  <2>10. CheckpointsOf(ref) # {} /\ AtMostOne(CheckpointsOf(ref))
    BY <2>1, <2>2 DEF LineageInv, RecordsLink, CheckpointsLink, CheckpointsOf, AtMostOne
  <2>11. ASSUME NEW j \in CheckpointsOf(ref)
         PROVE  /\ checkpoints[j].origin = o /\ checkpoints[j].final \in Finishes(o)
                /\ \A k \in Keys : checkpoints[j].rows[k] \in
                                     {n \in RowsOf(ref) : executions[n].key = k}
    BY <2>3 DEF CheckpointsOf, LineageInv, RecordsLink, CheckpointsLink, CheckpointLinks
  <2>12. LineageBinds(ref)
    BY <2>5, <2>6, <2>7, <2>8, <2>9, <2>10, <2>11 DEF LineageBinds
  <2> QED BY <2>1, <2>2, <2>3, <2>4, <2>12
<1> QED BY <1>1, LineageHolds, PTL

\* A commit that is no error fallback is the provider's own answer, although
\* run_origin holds that answer in memory only between two durable appends.
THEOREM OnlyGenuineIsCommitted == Spec => []CommittedAnswerIsGenuine
<1>1. LineageInv => CommittedAnswerIsGenuine
  <2> SUFFICES ASSUME LineageInv, NEW i \in DOMAIN predictions,
                      PhysicalCalls = 1, ~predictions[i].execution.error
               PROVE  LET m == predictions[i]
                          a == answer[m.origin]
                      IN /\ sent[m.origin] = 1
                         /\ ClosedStatus(a) = "SUCCESS" /\ ~a.late
                         /\ m.execution = ExecuteArm(a.text)
                         /\ \E j \in Finishes(m.origin) :
                               attempts[j].status = "SUCCESS" /\ ~attempts[j].late
    BY DEF CommittedAnswerIsGenuine
  <2>1. CommitLinks(predictions[i])
    BY DEF LineageInv, RecordsLink, CommitsLink
  <2> QED BY <2>1 DEF CommitLinks, Genuine
<1> QED BY <1>1, LineageHolds, PTL

\* When verify_prediction_phase passes, every request any process ever sent has
\* its checkpoint.
THEOREM VerifiedAccountsForCalls == Spec => []VerifiedPhaseAccountsForCalls
<1>1. LineageInv => VerifiedPhaseAccountsForCalls
  <2> SUFFICES ASSUME LineageInv, PhaseVerifies, NEW o \in Origins, sent[o] = 1
               PROVE  \E i \in DOMAIN checkpoints : checkpoints[i].origin = o
    BY DEF VerifiedPhaseAccountsForCalls
  <2>1. Committed(o)
    BY DEF LineageInv, IInv, OneCallPerSlot, PhaseVerifies
  <2>2. PICK ref \in DOMAIN predictions : predictions[ref].origin = o
    BY <2>1 DEF Committed, CommitsOf
  <2>3. LineageBinds(ref)
    BY DEF PhaseVerifies
  <2>4. PICK i \in CheckpointsOf(ref) : checkpoints[i].origin = o
    BY <2>2, <2>3 DEF LineageBinds
  <2> QED BY <2>4 DEF CheckpointsOf
<1> QED BY <1>1, LineageHolds, PTL

\* A run directory is a set of one-shot slots: whatever its processes, crashes
\* and failed writes do, no slot is reopened, re-called, re-decided, or taken
\* past a stage (run_origin, _append_execution_and_checkpoint).
THEOREM RefinesOneShotSlots == Spec => ImplementsOneShotSlots
<1>1. Init => Abstract!Init
  <2> SUFFICES ASSUME Init PROVE Abstract!Init
    OBVIOUS
  <2>1. attempts = <<>> /\ predictions = <<>> /\ checkpoints = <<>>
    BY DEF Init
  <2>2. ASSUME NEW o \in Origins
        PROVE  SlotStage(o) = "FREE" /\ SlotVerdict(o) = "NONE" /\ ~(sent[o] > 0)
    <3>1. ~Started(o) /\ ~Finished(o) /\ ~Committed(o) /\ ~Checkpointed(o)
      BY <2>1 DEF Started, Finished, Committed, Checkpointed, Starts, Finishes, CommitsOf
    <3>2. sent[o] = 0
      BY DEF Init
    <3> QED BY <3>1, <3>2 DEF SlotStage, SlotVerdict, Checkpointed
  <2>3. [o \in Origins |-> sent[o] > 0] = [o \in Origins |-> FALSE]
    <3>1. \A o \in Origins : (sent[o] > 0) = FALSE
      BY <2>2
    <3> QED BY <3>1, Zenon
  <2>4. /\ [o \in Origins |-> SlotStage(o)] = [o \in Origins |-> "FREE"]
        /\ [o \in Origins |-> SlotVerdict(o)] = [o \in Origins |-> "NONE"]
    BY <2>2
  <2> QED BY <2>3, <2>4, Zenon DEF Abstract!Init
<1>2. LineageInv /\ [Next]_vars => [Abstract!Next]_(Abstract!slotVars)
  <2> SUFFICES ASSUME LineageInv, [Next]_vars PROVE [Abstract!Next]_(Abstract!slotVars)
    OBVIOUS
  <2>0. LedgerStep
    BY LineageStep
  <2> DEFINE CallsStay == \A x \in Origins : (sent'[x] > 0) = (sent[x] > 0)
             StagesStay == \A x \in Origins : SlotStage(x)' = SlotStage(x)
             stage == [x \in Origins |-> SlotStage(x)]
             called == [x \in Origins |-> sent[x] > 0]
             verdict == [x \in Origins |-> SlotVerdict(x)]
  <2>1. CallsStay => called' = called
    OBVIOUS
  <2>2. StagesStay => stage' = stage
    OBVIOUS
  <2>3. VerdictsStay => verdict' = verdict
    BY DEF VerdictsStay
  <2>4. ASSUME NEW o \in Origins, NEW from, NEW to, Moves(o, from, to)
        PROVE  Abstract!Advance(o, from, to)
    BY <2>4 DEF Moves, Abstract!Advance
  <2>5. sent' = sent => CallsStay
    OBVIOUS
  <2>6. CASE Untouched \/ (\E o \in Origins : AnswerArrived(o)) \/ (\E r \in ExecutionRows : RowAppended(r))
    <3>1. UNCHANGED <<attempts, predictions, checkpoints, sent>>
      BY <2>6 DEF Untouched, AnswerArrived, RowAppended, ledgers, history
    <3> QED BY <3>1, <2>1, <2>2, <2>3, <2>5, OthersStay DEF Abstract!slotVars
  <2>7. ASSUME NEW o \in Origins, StartAppended(o) PROVE Abstract!Consume(o)
    <3>1. sent' = sent
      BY <2>7 DEF StartAppended, history
    <3> QED BY <2>1, <2>3, <2>4, <2>5, <2>7, <3>1, StartMoves DEF Abstract!Consume
  <2>8. ASSUME NEW o \in Origins, NEW s \in Statuses, NEW late \in BOOLEAN,
               FinishAppended(o, s, late)
        PROVE  Abstract!CloseSlot(o)
    <3>1. sent' = sent
      BY <2>8 DEF FinishAppended
    <3> QED BY <2>1, <2>3, <2>4, <2>5, <2>8, <3>1, FinishMoves DEF Abstract!CloseSlot
  <2>9. ASSUME NEW o \in Origins, CallSent(o) PROVE Abstract!Call(o)
    <3>1. /\ sent[o] = 0 /\ PhysicalCalls = 1 /\ sent' = [sent EXCEPT ![o] = 1]
          /\ UNCHANGED <<attempts, predictions, checkpoints>> /\ sent \in [Origins -> Nat]
      BY <2>9 DEF CallSent, ledgers, LineageInv, IInv, TypeOK, HistoryTypeOK
    <3>2. called' = [called EXCEPT ![o] = TRUE]
      <4>1. ASSUME NEW x \in Origins PROVE (sent'[x] > 0) = IF x = o THEN TRUE ELSE sent[x] > 0
        <5>1. CASE x = o
          <6>1. (sent'[x] > 0) = TRUE
            BY <3>1, <5>1
          <6> QED BY <5>1, <6>1, Zenon
        <5>2. CASE x # o
          <6>1. sent'[x] = sent[x]
            BY <3>1, <5>2
          <6> QED BY <5>2, <6>1, Zenon
        <5> QED BY <5>1, <5>2
      <4>2. called' = [x \in Origins |-> IF x = o THEN TRUE ELSE sent[x] > 0]
        BY <4>1, Zenon
      <4>3. [called EXCEPT ![o] = TRUE] = [x \in Origins |-> IF x = o THEN TRUE ELSE sent[x] > 0]
        BY Zenon
      <4> QED BY <4>2, <4>3, Zenon
    <3>3. stage[o] = "CONSUMED" /\ ~called[o] /\ PhysicalCalls # 0
      <4>1. stage[o] = "CONSUMED"
        BY <2>9, CallMoves
      <4>2. ~(sent[o] > 0) /\ PhysicalCalls # 0
        BY <3>1
      <4> QED BY <4>1, <4>2, Zenon
    <3> QED BY <2>2, <2>3, <3>1, <3>2, <3>3, OthersStay DEF Abstract!Call
  <2>10. ASSUME NEW m \in Commits, CommitAppended(m)
         PROVE  \E o \in Origins : \E v \in {"OWN", "FALLBACK"} : Abstract!Decide(o, v)
    <3>1. PICK o \in Origins : o = m.origin
      BY DEF Commits
    <3>2. sent' = sent /\ Moves(o, "CLOSED", "DECIDED")
      BY <2>10, <3>1, CommitMoves DEF CommitAppended, history
    <3>3. PICK v \in {"OWN", "FALLBACK"} :
             /\ \A x \in Origins : SlotVerdict(x)' = IF x = o THEN v ELSE SlotVerdict(x)
             /\ v = "OWN" => sent[o] > 0 \/ PhysicalCalls = 0
      BY <2>10, <3>1, CommitMoves
    <3>4. verdict' = [verdict EXCEPT ![o] = v]
      BY <3>3
    <3> QED BY <2>1, <2>4, <2>5, <3>2, <3>3, <3>4 DEF Abstract!Decide
  <2>11. ASSUME NEW c \in Checkpoints, CheckpointAppended(c)
         PROVE  \E o \in Origins : Abstract!Checkpoint(o)
    <3>1. PICK o \in Origins : o = c.origin
      BY DEF Checkpoints
    <3>2. sent' = sent
      BY <2>11 DEF CheckpointAppended, history
    <3> QED BY <2>1, <2>3, <2>4, <2>5, <2>11, <3>1, <3>2, CheckpointMoves DEF Abstract!Checkpoint
  <2> QED BY <2>0, <2>6, <2>7, <2>8, <2>9, <2>10, <2>11 DEF LedgerStep, Abstract!Next
<1> QED BY <1>1, <1>2, LineageHolds, PTL DEF Spec, ImplementsOneShotSlots, Abstract!Spec

-----------------------------------------------------------------------------
(* A single driver's phase seal *)

\* A sealer that has got to step s has sealed the ledgers before it as they are,
\* and once there is a phase seal nobody is left who could append.
DriverFreezes(p) ==
    /\ pc[p] = "sealing" =>
          \A i \in 1..4 : i < step[p] => seals[LedgerOrder[i]] = LedgerLen(LedgerOrder[i])
    /\ pc[p] = "phase" => \A k \in Kinds : seals[k] = LedgerLen(k)
    /\ phaseSeal.state # "ABSENT" => pc[p] \in {"down", "verify", "sealed"}

FrozenInv == IInv /\ SealedPhaseFrozen /\ \A p \in Procs : DriverFreezes(p)

-----------------------------------------------------------------------------
(* Runs without a crash or a failed write *)

\* The answer of slot o chose FALLBACK for some keys and not for others.
Mixed(o) == answer[o].text.abstained # {} /\ answer[o].text.abstained \cup RulNA # Keys

\* Process p is in the call that sent the request of slot o.
Caller(p, o) ==
    pc[p] \in {"waiting", "commit"} /\ call[p].origin = o /\ ~call[p].recovered

\* Process p has begun to seal, or sealed, all ledgers.
Sealing(p) == pc[p] = "phase" \/ (pc[p] = "sealing" /\ step[p] > 1)

\* Only the ATTEMPT lock is ever missing to a process that may append, because
\* its sealing failed there.
LocksHeld(p) ==
    /\ pc[p] \in {"openingNew", "openingResume"} =>
          \A i \in 1..4 : i < step[p] => lock[LedgerOrder[i]] = p
    /\ pc[p] \in {"open"} \cup InCall => \A k \in Kinds \ {"ATTEMPT"} : lock[k] = p
    /\ pc[p] = "sealing" => \A i \in 2..4 : step[p] <= i => lock[LedgerOrder[i]] = p

\* Ledgers are sealed in order, by one process.
SealsInOrder ==
    /\ seals["ATTEMPT"] = NoSeal =>
          phaseSeal.state = "ABSENT" /\ \A k \in Kinds : seals[k] = NoSeal
    /\ \A p \in Procs : Sealing(p) =>
          /\ seals["ATTEMPT"] # NoSeal /\ phaseSeal.state = "ABSENT"
          /\ pc[p] = "sealing" => \A i \in 2..4 : step[p] <= i => seals[LedgerOrder[i]] = NoSeal
          /\ \A q \in Procs : Sealing(q) => q = p

\* A request without a commit is being answered, or its answer was refused.
AnswersKept ==
    /\ \A o \in Origins : sent[o] = 1 /\ ~Committed(o) =>
          Mixed(o) \/ \E p \in Procs : Caller(p, o)
    /\ \A i \in DOMAIN predictions : predictions[i].reason = "CRASH_RECOVERY" =>
          sent[predictions[i].origin] = 0 \/ Mixed(predictions[i].origin)
    /\ \A p \in Procs : pc[p] = "waiting" => ~call[p].recovered

Calm == crashes = 0 /\ faults = 0

Undisturbed ==
    /\ broken = {} /\ \A p \in Procs : stale[p] = {} /\ LocksHeld(p)
    /\ SealsInOrder /\ AnswersKept
    /\ \A o \in Origins : sent[o] = 1 => PhysicalCalls = 1

LossInv == LineageInv /\ (Calm => Undisturbed)

-----------------------------------------------------------------------------
(* One driver: nothing is appended behind the phase seal *)

\* A step that is no step of sealing leaves the seals alone, and once there is a
\* phase seal the ledgers too.
NoSealStep(p) ==
    /\ UNCHANGED <<seals, phaseSeal>> /\ pc'[p] \notin {"sealing", "phase"}
    /\ phaseSeal.state # "ABSENT" => UNCHANGED ledgers /\ pc'[p] = "down"

LEMMA OtherStepsSealNothing ==
    ASSUME FrozenInv, NEW p \in Procs,
           \/ \E resume \in BOOLEAN : OpenRun(p, resume)
           \/ OpenLedger(p) \/ CloseRun(p) \/ Crash(p)
           \/ \E o \in Origins, prov \in Providers : ClaimSlot(p, o, prov)
           \/ RunOriginStep(p)
    PROVE  NoSealStep(p)
<1>0. TypeOK /\ pc[p] \in PCs /\ DriverFreezes(p)
  BY DEF FrozenInv, IInv, TypeOK, ProcsTypeOK
<1>1. CASE \/ \E resume \in BOOLEAN : OpenRun(p, resume)
           \/ OpenLedger(p) \/ CloseRun(p) \/ Crash(p)
  <2>1. UNCHANGED <<seals, phaseSeal, ledgers>>
    BY <1>1 DEF OpenRun, OpenLedger, CloseRun, Crash, files
  <2>2. \/ pc'[p] = "down"
        \/ phaseSeal.state = "ABSENT" /\ pc'[p] \in {"openingNew", "openingResume"}
        \/ pc[p] \in {"openingNew", "openingResume"} /\ pc'[p] \in {"open", pc[p]}
    BY <1>0, <1>1, GoDownFrame, ContinueFrame
       DEF OpenRun, OpenLedger, CloseRun, Crash, TypeOK, ProcsTypeOK
  <2> QED BY <1>0, <2>1, <2>2 DEF NoSealStep, DriverFreezes
<1>2. CASE (\E o \in Origins, prov \in Providers : ClaimSlot(p, o, prov)) \/ RunOriginStep(p)
  <2>1. pc[p] \in {"open"} \cup InCall
    BY <1>2 DEF ClaimSlot, RunOriginStep, SlotRaises, SlotCommitted, SlotFinished, SlotRecovered,
       SlotLocal, SlotInvoke, Respond, CommitPrediction, AppendRow, AppendCheckpoint, InCall
  <2>2. phaseSeal.state = "ABSENT"
    BY <1>0, <2>1 DEF DriverFreezes, InCall
  <2>3. UNCHANGED <<seals, phaseSeal>>
    BY <1>2 DEF ClaimSlot, RunOriginStep, SlotRaises, SlotCommitted, SlotFinished, SlotRecovered,
       SlotLocal, SlotInvoke, Respond, CommitPrediction, AppendRow, AppendCheckpoint,
       AppendFinished, files
  <2>4. pc'[p] \in {"down", "open"} \cup InCall
    <3>1. CASE \E o \in Origins, prov \in Providers : ClaimSlot(p, o, prov)
      <4>1. PICK c : Continue(p, "slot", 0, c)
                     \/ \E out \in Outcomes : Settle(p, "ATTEMPT", out, "slot", 0, c)
        BY <3>1 DEF ClaimSlot
      <4> QED BY <1>0, <4>1, ContinueFrame, SettleFrame DEF InCall, Kinds
    <3>2. CASE SlotRaises(p) \/ SlotCommitted(p) \/ SlotFinished(p) \/ SlotInvoke(p)
      BY <1>0, <3>2, ContinueFrame, GoIdleFrame
         DEF SlotRaises, SlotCommitted, SlotFinished, SlotInvoke, InCall, Raise
    <3>3. ASSUME NEW s, NEW late, NEW text, AppendFinished(p, s, late, text)
          PROVE  pc'[p] \in {"down", "open", "commit"}
      BY <1>0, <3>3, SettleFrame DEF AppendFinished, Kinds
    <3>4. CASE SlotRecovered(p) \/ SlotLocal(p) \/ \E r \in Responses : Respond(p, r)
      BY <3>3, <3>4 DEF SlotRecovered, SlotLocal, Respond, InCall
    <3>5. CASE CommitPrediction(p)
      BY <1>0, <3>5, SettleFrame, GoIdleFrame DEF CommitPrediction, Kinds, Raise, InCall
    <3>6. CASE AppendRow(p)
      <4>1. PICK at : at = IF step[p] = NumKeys THEN "checkpoint" ELSE "rows"
        OBVIOUS
      <4>2. pc'[p] \in {"down", "open", at}
        BY <1>0, <3>6, <4>1, SettleFrame, GoIdleFrame, ContinueFrame DEF AppendRow, Kinds, Raise
      <4> QED BY <4>1, <4>2 DEF InCall
    <3>7. CASE AppendCheckpoint(p)
      BY <1>0, <3>7, SettleFrame, GoIdleFrame, ZenonT(40) DEF AppendCheckpoint, Kinds
    <3> QED BY <1>2, <3>1, <3>2, <3>4, <3>5, <3>6, <3>7 DEF RunOriginStep
  <2> QED BY <2>2, <2>3, <2>4 DEF NoSealStep, InCall
<1> QED BY <1>1, <1>2

\* The steps of sealing itself.
LEMMA SealStepFreezes ==
    ASSUME FrozenInv, NEW p \in Procs,
           SealStart(p) \/ SealStep(p) \/ CrashInSeal(p)
    PROVE  SealedPhaseFrozen' /\ DriverFreezes(p)'
<1>0. TypeOK /\ DriverFreezes(p) /\ SealedPhaseFrozen
  BY DEF FrozenInv, IInv
<1>1. \A k \in Kinds : LedgerLen(k)' = LedgerLen(k)
  BY DEF SealStart, SealStep, SealLedger, WritePhaseSeal, VerifyPhase, CrashInSeal, ledgers,
         LedgerLen
<1>2. CASE SealStart(p)
  <2>1. pc[p] = "open" /\ pc'[p] = "sealing" /\ step'[p] = 1 /\ UNCHANGED <<seals, phaseSeal>>
    BY <1>0, <1>2, ContinueFrame DEF SealStart, files
  <2>2. phaseSeal.state = "ABSENT"
    BY <1>0, <2>1 DEF DriverFreezes
  <2> QED BY <2>1, <2>2 DEF DriverFreezes, SealedPhaseFrozen
<1>3. CASE SealLedger(p)
  <2>1. pc[p] = "sealing" /\ step[p] \in 1..4 /\ UNCHANGED phaseSeal
    BY <1>3 DEF SealLedger, FrozenInv, IInv, ReadsStayTrue, ReadsHold
  <2>2. phaseSeal.state = "ABSENT"
    BY <1>0, <2>1 DEF DriverFreezes
  <2>3. PICK k \in Kinds : k = LedgerOrder[step[p]]
    BY <2>1, LedgerOrderType
  <2>4. CASE pc'[p] = "open"
    BY <2>1, <2>2, <2>4 DEF DriverFreezes, SealedPhaseFrozen
  <2>5. CASE pc'[p] # "open"
    <3>1. ~Raise(p)
      BY <1>0, <2>5, GoIdleFrame DEF Raise
    <3>2. /\ seals' = [seals EXCEPT ![k] = LedgerLen(k)]
          /\ pc' = [pc EXCEPT ![p] = IF step[p] = 4 THEN "phase" ELSE "sealing"]
          /\ step' = [step EXCEPT ![p] = IF @ = 4 THEN 0 ELSE @ + 1]
      BY <1>0, <1>3, <2>3, <2>5, <3>1 DEF SealLedger, TypeOK, ProcsTypeOK
    <3>3. \A i \in 1..4 : i <= step[p] => seals'[LedgerOrder[i]] = LedgerLen(LedgerOrder[i])
      <4> SUFFICES ASSUME NEW i \in 1..4, i <= step[p]
                   PROVE  seals'[LedgerOrder[i]] = LedgerLen(LedgerOrder[i])
        OBVIOUS
      <4>1. PICK l \in Kinds : l = LedgerOrder[i]
        BY LedgerOrderType
      <4>2. CASE l = k
        BY <1>0, <2>3, <3>2, <4>1, <4>2 DEF TypeOK, FilesTypeOK
      <4>3. CASE l # k
        <5>1. i < step[p]
          BY <2>1, <2>3, <4>1, <4>3
        <5>2. seals[l] = LedgerLen(l)
          BY <1>0, <2>1, <4>1, <5>1 DEF DriverFreezes
        <5> QED BY <1>0, <3>2, <4>1, <4>3, <5>2 DEF TypeOK, FilesTypeOK
      <4> QED BY <4>2, <4>3
    <3>4. \A i \in 1..4 : i <= step[p] => seals'[LedgerOrder[i]] = LedgerLen(LedgerOrder[i])'
      BY <1>1, <3>3, LedgerOrderType
    <3>5. CASE step[p] = 4
      <4>1. pc'[p] = "phase"
        BY <1>0, <3>2, <3>5 DEF TypeOK, ProcsTypeOK
      <4>2. \A k2 \in Kinds : seals'[k2] = LedgerLen(k2)'
        BY <3>4, <3>5 DEF Kinds, LedgerOrder
      <4> QED BY <2>1, <2>2, <4>1, <4>2 DEF DriverFreezes, SealedPhaseFrozen
    <3>6. CASE step[p] # 4
      <4>1. pc'[p] = "sealing" /\ step'[p] = step[p] + 1
        BY <1>0, <3>2, <3>6 DEF TypeOK, ProcsTypeOK
      <4>2. \A i \in 1..4 : i < step'[p] => seals'[LedgerOrder[i]] = LedgerLen(LedgerOrder[i])'
        BY <2>1, <3>4, <4>1
      <4> QED BY <2>1, <2>2, <4>1, <4>2 DEF DriverFreezes, SealedPhaseFrozen
    <3> QED BY <3>5, <3>6
  <2> QED BY <2>4, <2>5
<1>4. CASE WritePhaseSeal(p)
  <2>1. pc[p] = "phase" /\ phaseSeal.state = "ABSENT"
    BY <1>0, <1>4 DEF WritePhaseSeal, DriverFreezes
  <2>2. pc'[p] = "verify" /\ phaseSeal' = [state |-> "WRITTEN", counts |-> seals]
    BY <1>0, <1>4, <2>1, GoIdleFrame DEF WritePhaseSeal
  <2> QED BY <1>0, <1>1, <2>1, <2>2 DEF DriverFreezes, SealedPhaseFrozen
<1>5. CASE VerifyPhase(p)
  <2>1. pc'[p] = "sealed" /\ UNCHANGED phaseSeal
    BY <1>0, <1>5, GoIdleFrame DEF VerifyPhase, files
  <2> QED BY <1>0, <1>1, <2>1 DEF DriverFreezes, SealedPhaseFrozen
<1>6. CASE CrashInSeal(p)
  <2>1. pc'[p] = "down" /\ (UNCHANGED phaseSeal \/ phaseSeal' = [phaseSeal EXCEPT !.state = "TORN"])
    BY <1>0, <1>6, GoDownFrame DEF CrashInSeal
  <2>2. phaseSeal'.state = "WRITTEN" => UNCHANGED phaseSeal
    BY <1>0, <2>1 DEF TypeOK, FilesTypeOK
  <2> QED BY <1>0, <1>1, <2>1, <2>2 DEF DriverFreezes, SealedPhaseFrozen
<1> QED BY <1>2, <1>3, <1>4, <1>5, <1>6 DEF SealStep

LEMMA FrozenStep ==
    ASSUME AtMostOne(Procs), FrozenInv, [Next]_vars
    PROVE  FrozenInv'
<1>0. IInv' /\ IInv /\ SealedPhaseFrozen
  BY NextPreserves DEF FrozenInv
<1>1. CASE UNCHANGED vars
  <2>1. \A k : LedgerLen(k)' = LedgerLen(k)
    BY <1>1 DEF vars, ledgers, LedgerLen
  <2> QED BY <1>0, <1>1, <2>1 DEF vars, FrozenInv, SealedPhaseFrozen, DriverFreezes
<1>2. ASSUME NEW p \in Procs, NoSealStep(p) PROVE SealedPhaseFrozen' /\ DriverFreezes(p)'
  <2>1. phaseSeal.state # "ABSENT" => \A k : LedgerLen(k)' = LedgerLen(k)
    BY <1>2 DEF NoSealStep, ledgers, LedgerLen
  <2> QED BY <1>0, <1>2, <2>1 DEF NoSealStep, SealedPhaseFrozen, DriverFreezes
<1>3. CASE Next
  <2>1. PICK p \in Procs : SealedPhaseFrozen' /\ DriverFreezes(p)'
    BY <1>2, <1>3, OtherStepsSealNothing, SealStepFreezes DEF Next
  <2> QED BY <1>0, <2>1 DEF FrozenInv, AtMostOne
<1> QED BY <1>1, <1>3

-----------------------------------------------------------------------------
(* What a step does when nothing crashed and no write failed *)

\* Until something goes wrong nothing has gone wrong.
LEMMA CalmBefore ==
    ASSUME TypeOK, [Next]_vars, Calm'
    PROVE  Calm
<1> SUFFICES crashes <= crashes' /\ faults <= faults'
  BY DEF Calm, TypeOK, HistoryTypeOK
<1>0. crashes \in Nat /\ faults \in Nat
  BY DEF TypeOK, HistoryTypeOK
<1>1. ASSUME NEW p, NEW k, NEW out, NEW at, NEW i, NEW c, Settle(p, k, out, at, i, c)
      PROVE  crashes <= crashes' /\ faults <= faults'
  BY <1>0, <1>1 DEF Settle, LedgerEffect
<1>2. CASE UNCHANGED <<crashes, faults>>
  BY <1>0, <1>2
<1>3. CASE UNCHANGED vars
  BY <1>2, <1>3 DEF vars
<1>4. ASSUME NEW p \in Procs, Crash(p) \/ CrashInSeal(p)
      PROVE  crashes <= crashes' /\ faults <= faults'
  BY <1>0, <1>4 DEF Crash, CrashInSeal
<1>5. ASSUME NEW p \in Procs, \/ \E resume \in BOOLEAN : OpenRun(p, resume)
                              \/ OpenLedger(p) \/ CloseRun(p) \/ SealStart(p) \/ SealStep(p)
      PROVE  UNCHANGED <<crashes, faults>>
  BY <1>5 DEF OpenRun, OpenLedger, CloseRun, SealStart, SealStep, SealLedger, WritePhaseSeal,
              VerifyPhase
<1>6. ASSUME NEW p \in Procs, SlotRaises(p) \/ SlotCommitted(p) \/ SlotFinished(p) \/ SlotInvoke(p)
      PROVE  UNCHANGED <<crashes, faults>>
  BY <1>6 DEF SlotRaises, SlotCommitted, SlotFinished, SlotInvoke
<1>7. ASSUME NEW p \in Procs, \/ \E o \in Origins, prov \in Providers : ClaimSlot(p, o, prov)
                              \/ SlotRecovered(p) \/ SlotLocal(p)
                              \/ \E r \in Responses : Respond(p, r)
                              \/ CommitPrediction(p) \/ AppendRow(p) \/ AppendCheckpoint(p)
      PROVE  \/ UNCHANGED <<crashes, faults>>
             \/ \E k, out, at, i, c : Settle(p, k, out, at, i, c)
  <2>1. ASSUME NEW s, NEW late, NEW text, AppendFinished(p, s, late, text)
        PROVE  \E k, out, at, i, c : Settle(p, k, out, at, i, c)
    BY <2>1 DEF AppendFinished
  <2>2. CASE \E o \in Origins, prov \in Providers : ClaimSlot(p, o, prov)
    BY <2>2 DEF ClaimSlot
  <2>3. CASE SlotRecovered(p) \/ SlotLocal(p) \/ \E r \in Responses : Respond(p, r)
    BY <2>1, <2>3 DEF SlotRecovered, SlotLocal, Respond
  <2>4. CASE CommitPrediction(p)
    BY <2>4 DEF CommitPrediction
  <2>5. CASE AppendRow(p)
    BY <2>5 DEF AppendRow
  <2>6. CASE AppendCheckpoint(p)
    BY <2>6 DEF AppendCheckpoint
  <2> QED BY <1>7, <2>2, <2>3, <2>4, <2>5, <2>6
<1> QED BY <1>1, <1>2, <1>3, <1>4, <1>5, <1>6, <1>7 DEF Next, RunOriginStep

\* An append that nothing disturbs returns.
LEMMA CalmSettle ==
    ASSUME TypeOK, NEW p \in Procs, NEW k \in Kinds, NEW out \in Outcomes,
           NEW at, NEW i, NEW c, Settle(p, k, out, at, i, c),
           Calm', broken = {}, stale[p] = {}
    PROVE  out = "ok" /\ Continue(p, at, i, c) /\ UNCHANGED <<broken, stale>>
<1>1. out = "ok"
  BY DEF Settle, LedgerEffect, Calm, TypeOK, HistoryTypeOK
<1> QED BY <1>1 DEF Settle, LedgerEffect

\* The others keep their locks, and the seals that nobody touches their order.
LEMMA OthersKeepLocks ==
    ASSUME NEW p \in Procs, OthersUnmoved(p), NEW q \in Procs, q # p, LocksHeld(q)
    PROVE  LocksHeld(q)'
BY LedgerOrderType DEF OthersUnmoved, LocksHeld

LEMMA SealsKeepOrder ==
    ASSUME NEW p \in Procs, OthersUnmoved(p), SealsInOrder, UNCHANGED <<seals, phaseSeal>>,
           ~Sealing(p)'
    PROVE  SealsInOrder'
<1>1. \A q \in Procs : Sealing(q)' => /\ q # p /\ Sealing(q)
                                      /\ pc'[q] = pc[q] /\ step'[q] = step[q]
  BY DEF OthersUnmoved, Sealing
<1> QED BY <1>1 DEF SealsInOrder

\* Who is in no call of its own changes no account of answers.
LEMMA AnswersStayKept ==
    ASSUME NEW p \in Procs, OthersUnmoved(p), AnswersKept,
           UNCHANGED <<predictions, sent, answer>>,
           pc[p] \notin {"waiting", "commit"}, pc'[p] # "waiting"
    PROVE  AnswersKept'
<1>1. \A o \in Origins : (Committed(o)' <=> Committed(o)) /\ (Mixed(o)' <=> Mixed(o))
  BY DEF Committed, CommitsOf, Mixed
<1>2. \A q \in Procs, o \in Origins : Caller(q, o) => Caller(q, o)'
  BY DEF Caller, OthersUnmoved
<1>3. \A i \in DOMAIN predictions : Mixed(predictions[i].origin)' <=> Mixed(predictions[i].origin)
  BY DEF Mixed
<1> QED BY <1>1, <1>2, <1>3 DEF AnswersKept, OthersUnmoved

\* What an undisturbed step between opening and sealing does to the process.
RunStep(p) ==
    /\ OthersUnmoved(p) /\ lock' = lock
    /\ pc[p] \in {"open"} \cup InCall /\ pc'[p] \in {"open"} \cup InCall
    /\ UNCHANGED <<seals, phaseSeal, broken, stale>>

LEMMA CalmRun ==
    ASSUME LineageInv, Undisturbed, Calm', NEW p \in Procs,
           \/ \E o \in Origins, prov \in Providers : ClaimSlot(p, o, prov)
           \/ RunOriginStep(p)
    PROVE  RunStep(p)
<1>0. TypeOK /\ broken = {} /\ stale[p] = {}
  BY DEF LineageInv, IInv, Undisturbed
<1>1. UNCHANGED <<seals, phaseSeal>> /\ pc[p] \in {"open"} \cup InCall
  BY DEF ClaimSlot, RunOriginStep, SlotRaises, SlotCommitted, SlotFinished, SlotRecovered,
     SlotLocal, SlotInvoke, Respond, CommitPrediction, AppendRow, AppendCheckpoint,
     AppendFinished, files, InCall
<1>2. ASSUME NEW k \in Kinds, NEW out \in Outcomes, NEW at \in {"open"} \cup InCall,
             NEW i, NEW c, Settle(p, k, out, at, i, c)
      PROVE  RunStep(p)
  BY <1>0, <1>1, <1>2, CalmSettle, ContinueFrame DEF RunStep
<1>3. ASSUME NEW at \in {"open"} \cup InCall, NEW i, NEW c, Continue(p, at, i, c),
             UNCHANGED <<broken, stale>>
      PROVE  RunStep(p)
  BY <1>0, <1>1, <1>3, ContinueFrame DEF RunStep
<1>4. ASSUME GoIdle(p, "open"), UNCHANGED broken PROVE RunStep(p)
  BY <1>0, <1>1, <1>4, GoIdleFrame DEF RunStep, GoIdle
<1>5. ASSUME NEW o \in Origins, NEW prov \in Providers, ClaimSlot(p, o, prov) PROVE RunStep(p)
  <2>1. PICK c : \/ Continue(p, "slot", 0, c) /\ UNCHANGED <<broken, stale>>
                 \/ \E out \in Outcomes : Settle(p, "ATTEMPT", out, "slot", 0, c)
    BY <1>5 DEF ClaimSlot
  <2> QED BY <1>2, <1>3, <2>1 DEF Kinds, InCall
<1>6. CASE SlotRaises(p) \/ SlotCommitted(p) \/ SlotFinished(p) \/ SlotInvoke(p)
  <2>1. CASE SlotRaises(p)
    BY <1>4, <2>1 DEF SlotRaises, Raise
  <2>2. CASE SlotCommitted(p)
    BY <1>3, <2>2 DEF SlotCommitted, InCall
  <2>3. CASE SlotFinished(p)
    BY <1>3, <2>3 DEF SlotFinished, InCall
  <2>4. CASE SlotInvoke(p)
    BY <1>3, <2>4 DEF SlotInvoke, InCall
  <2> QED BY <1>6, <2>1, <2>2, <2>3, <2>4
<1>7. ASSUME NEW s, NEW late, NEW text, AppendFinished(p, s, late, text) PROVE RunStep(p)
  <2>1. PICK c : \E out \in Outcomes : Settle(p, "ATTEMPT", out, "commit", 0, c)
    BY <1>7 DEF AppendFinished
  <2> QED BY <1>2, <2>1 DEF Kinds, InCall
<1>8. CASE SlotRecovered(p) \/ SlotLocal(p) \/ \E r \in Responses : Respond(p, r)
  BY <1>7, <1>8 DEF SlotRecovered, SlotLocal, Respond
<1>9. CASE CommitPrediction(p)
  <2>1. \/ \E out \in Outcomes : Settle(p, "PREDICTION", out, "rows", 1, call[p])
        \/ Raise(p) /\ UNCHANGED broken
    BY <1>9 DEF CommitPrediction
  <2> QED BY <1>2, <1>4, <2>1 DEF Kinds, InCall, Raise
<1>10. CASE AppendRow(p)
  <2>1. PICK at \in InCall : at = IF step[p] = NumKeys THEN "checkpoint" ELSE "rows"
    BY DEF InCall
  <2>2. \/ Continue(p, at, step[p] + 1, call[p]) /\ UNCHANGED <<broken, stale>>
        \/ \E out \in Outcomes : Settle(p, "EXECUTION", out, at, step[p] + 1, call[p])
        \/ Raise(p) /\ UNCHANGED broken
    BY <1>10, <2>1 DEF AppendRow
  <2> QED BY <1>2, <1>3, <1>4, <2>2 DEF Kinds, Raise
<1>11. CASE AppendCheckpoint(p)
  <2>1. \/ \E out \in Outcomes : Settle(p, "CHECKPOINT", out, "open", 0, NoCall)
        \/ GoIdle(p, "open") /\ UNCHANGED broken
    BY <1>11 DEF AppendCheckpoint
  <2> QED BY <1>2, <1>4, <2>1 DEF Kinds
<1> QED BY <1>5, <1>6, <1>8, <1>9, <1>10, <1>11 DEF RunOriginStep

\* A commit that run_origin refuses itself is a mixed answer.
LEMMA RefusedIsMixed ==
    ASSUME NEW c \in Calls, c.late => c.text = NoText, PhysicalCalls = 1,
           ~CommitValid(CommitOf(c))
    PROVE  c.text.kind = "VERIFIED" /\ c.text.abstained # {} /\ c.text.abstained \cup RulNA # Keys
<1>0. Arm # "N0" /\ c.text \in Texts /\ c.late \in BOOLEAN
  BY DEF PhysicalCalls, Calls
<1>1. PICK x : x = ExecuteArm(c.text)
  OBVIOUS
<1>2. CommitOf(c).disposition = Disposition(x) /\ CommitOf(c).execution = x /\ CommitOf(c).late = c.late
  BY <1>1 DEF CommitOf
<1>3. c.text.kind = "VERIFIED"
  <2> SUFFICES ASSUME c.text.kind # "VERIFIED" PROVE FALSE
    OBVIOUS
  <2>1. x.error /\ Disposition(x) = "FALLBACK"
    BY <1>0, <1>1 DEF ExecuteArm, FallbackExecution, Disposition
  <2> QED BY <1>2, <2>1 DEF CommitValid
<1>4. ~c.late
  BY <1>3 DEF NoText
<1>5. /\ ~x.error /\ (x.abstention <=> c.text.abstained # {})
      /\ x.isFallback <=> (Arm = "ACTION" /\ c.text.abstained \cup RulNA = Keys)
  BY <1>0, <1>1, <1>3 DEF ExecuteArm, VerifiedExecution
<1>6. x.abstention /\ ~x.isFallback
  BY <1>2, <1>4, <1>5 DEF CommitValid, Disposition
<1>7. Arm = "ACTION"
  BY <1>0, <1>5, <1>6 DEF Texts
<1> QED BY <1>3, <1>5, <1>6, <1>7

LEMMA CallKeepsAnswers ==
    ASSUME LineageInv, Undisturbed, NEW p \in Procs, RunStep(p), Calm',
           SlotInvoke(p) \/ \E r \in Responses : Respond(p, r)
    PROVE  AnswersKept'
<1>0. TypeOK /\ pc[p] \in InCall /\ lock["PREDICTION"] = p /\ OthersUnmoved(p) /\ AnswersKept
  BY DEF LineageInv, IInv, SlotInvoke, Respond, InCall, Undisturbed, LocksHeld, Kinds, RunStep
<1>1. PICK o \in Origins : o = call[p].origin
  BY <1>0 DEF LineageInv, IInv, ReadsStayTrue, ReadsHold
<1>2. ~Committed(o) /\ ~call[p].recovered
  BY <1>0, <1>1 DEF SlotInvoke, Respond, LineageInv, IInv, ReadsStayTrue, ReadsHold, AnswersKept
<1>3. /\ UNCHANGED predictions
      /\ \A x \in Origins : x # o => sent'[x] = sent[x] /\ answer'[x] = answer[x]
  BY <1>0, <1>1 DEF SlotInvoke, Respond, AppendFinished, ledgers, TypeOK, HistoryTypeOK
<1>4. /\ pc'[p] \in {"waiting", "commit"} /\ call'[p].origin = o /\ ~call'[p].recovered
  <2>1. CASE SlotInvoke(p)
    BY <1>0, <1>1, <1>2, <2>1, ContinueFrame DEF SlotInvoke
  <2>2. ASSUME NEW r \in Responses, Respond(p, r)
        PROVE  pc'[p] = "commit" /\ call'[p].origin = o /\ ~call'[p].recovered
    <3>1. PICK c : /\ c = [call[p] EXCEPT !.status = ClosedStatus(r), !.late = r.late,
                                           !.text = UsableText(r)]
                   /\ \E out \in Outcomes : Settle(p, "ATTEMPT", out, "commit", 0, c)
      BY <2>2 DEF Respond, AppendFinished
    <3>2. c.origin = o /\ c.recovered = call[p].recovered
      BY <1>0, <1>1, <3>1 DEF TypeOK, ProcsTypeOK, Calls
    <3>3. Continue(p, "commit", 0, c)
      BY <1>0, <3>1, CalmSettle DEF Undisturbed, Kinds
    <3> QED BY <1>0, <1>2, <3>2, <3>3, ContinueFrame
  <2> QED BY <2>1, <2>2
<1>5. Caller(p, o)'
  BY <1>4 DEF Caller
<1>6. ASSUME NEW x \in Origins, x # o, sent'[x] = 1, ~Committed(x)'
      PROVE  Mixed(x)' \/ \E q \in Procs : Caller(q, x)'
  <2>1. sent[x] = 1 /\ ~Committed(x) /\ (Mixed(x)' <=> Mixed(x))
    BY <1>3, <1>6 DEF Committed, CommitsOf, Mixed
  <2>2. \A q \in Procs : Caller(q, x) => Caller(q, x)'
    BY <1>0, <1>1, <1>6 DEF Caller, OthersUnmoved
  <2> QED BY <1>0, <2>1, <2>2 DEF AnswersKept
<1>7. ASSUME NEW i \in DOMAIN predictions, predictions[i].reason = "CRASH_RECOVERY"
      PROVE  sent'[predictions[i].origin] = 0 \/ Mixed(predictions[i].origin)'
  <2>0. predictions[i] \in Commits
    BY <1>0 DEF TypeOK, LedgersTypeOK
  <2>1. PICK x \in Origins : x = predictions[i].origin /\ x # o
    BY <1>2, <2>0 DEF Commits, Committed, CommitsOf
  <2>2. sent'[x] = sent[x] /\ (Mixed(x)' <=> Mixed(x))
    BY <1>3, <2>1 DEF Mixed
  <2>3. predictions'[i].origin = x
    BY <1>3, <2>1
  <2>4. Mixed(predictions[i].origin)' <=> Mixed(x)'
    BY <2>3 DEF Mixed
  <2>5. sent[x] = 0 \/ Mixed(x)
    BY <1>0, <1>7, <2>1 DEF AnswersKept, Mixed
  <2> QED BY <2>1, <2>2, <2>4, <2>5
<1>8. \A q \in Procs : pc'[q] = "waiting" => ~call'[q].recovered
  BY <1>0, <1>4 DEF OthersUnmoved, AnswersKept
<1>9. \A j \in DOMAIN predictions' : predictions'[j].reason = "CRASH_RECOVERY" =>
         sent'[predictions'[j].origin] = 0 \/ Mixed(predictions[j].origin)'
  BY <1>3, <1>7
<1> QED BY <1>5, <1>6, <1>8, <1>9 DEF AnswersKept

LEMMA CommitKeepsAnswers ==
    ASSUME LineageInv, Undisturbed, NEW p \in Procs, RunStep(p), Calm', CommitPrediction(p)
    PROVE  AnswersKept'
<1>0. /\ TypeOK /\ pc[p] = "commit" /\ lock["PREDICTION"] = p /\ OthersUnmoved(p)
      /\ AnswersKept /\ pc'[p] \in {"open"} \cup InCall
  BY DEF LineageInv, IInv, CommitPrediction, InCall, Undisturbed, LocksHeld, Kinds, RunStep
<1>1. PICK o \in Origins : o = call[p].origin
  BY <1>0 DEF LineageInv, IInv, ReadsStayTrue, ReadsHold, InCall
<1>2. ~Committed(o) /\ sent[o] \in {0, 1}
  BY <1>0, <1>1 DEF LineageInv, IInv, ReadsStayTrue, ReadsHold, OneCallPerSlot, TypeOK,
                    HistoryTypeOK
<1>3. UNCHANGED <<sent, answer>>
  BY DEF CommitPrediction, history
<1>4. \A x \in Origins : Mixed(x)' <=> Mixed(x)
  BY <1>3 DEF Mixed
<1>5. \A q \in Procs, x \in Origins : x # o /\ Caller(q, x) => Caller(q, x)'
  BY <1>0, <1>1 DEF Caller, OthersUnmoved
<1>6. ASSUME NEW q \in Procs, Caller(q, o) PROVE q = p
  <2>1. lock["PREDICTION"] = q
    BY <1>6 DEF Caller, Undisturbed, LocksHeld, Kinds, InCall
  <2> QED BY <1>0, <2>1
<1>7. PICK m : m = CommitOf(call[p])
  OBVIOUS
<1>8. CASE ~CommitValid(m)
  <2>1. Raise(p) /\ UNCHANGED predictions
    BY <1>7, <1>8 DEF CommitPrediction
  <2>2. pc'[p] = "open"
    BY <1>0, <2>1, GoIdleFrame DEF Raise
  <2>3. sent[o] = 1 => Mixed(o)
    <3> SUFFICES ASSUME sent[o] = 1, Caller(p, o) PROVE Mixed(o)
      BY <1>0, <1>2, <1>6 DEF AnswersKept
    <3>1. PhysicalCalls = 1
      BY DEF Undisturbed
    <3>2. /\ call[p] \in Calls
          /\ call[p].late => call[p].text = NoText
          /\ call[p].text.kind = "VERIFIED" => call[p].text = answer[o].text
      BY <1>0, <1>1 DEF TypeOK, ProcsTypeOK, LineageInv, CallsLink, CallLinks
    <3> QED BY <1>7, <1>8, <3>1, <3>2, RefusedIsMixed DEF Mixed
  <2>4. \A x \in Origins : Committed(x)' <=> Committed(x)
    BY <2>1 DEF Committed, CommitsOf
  <2>5. \A x \in Origins : sent'[x] = 1 /\ ~Committed(x)' =>
           Mixed(x)' \/ \E q \in Procs : Caller(q, x)'
    BY <1>0, <1>3, <1>4, <1>5, <2>3, <2>4 DEF AnswersKept
  <2>6. \A i \in DOMAIN predictions : Mixed(predictions[i].origin)' <=> Mixed(predictions[i].origin)
    BY <1>3, <2>1 DEF Mixed
  <2> QED BY <1>0, <1>3, <2>1, <2>2, <2>5, <2>6 DEF AnswersKept, OthersUnmoved
<1>9. CASE CommitValid(m)
  <2>1. PICK out \in Outcomes : /\ predictions' = Appended(predictions, m, out)
                                /\ Settle(p, "PREDICTION", out, "rows", 1, call[p])
    BY <1>0, <1>7, <1>9 DEF CommitPrediction
  <2>2. out = "ok" /\ pc'[p] = "rows"
    BY <1>0, <2>1, CalmSettle, ContinueFrame DEF Undisturbed, Kinds
  <2>3. predictions' = Append(predictions, m) /\ predictions \in Seq(Commits)
    BY <1>0, <2>1, <2>2 DEF Appended, TypeOK, LedgersTypeOK
  <2>4. /\ m.origin = o
        /\ m.reason = "CRASH_RECOVERY" => call[p].recovered
    BY <1>1, <1>7 DEF CommitOf, Reason
  <2>5. PICK n : /\ DOMAIN predictions' = DOMAIN predictions \cup {n} /\ predictions'[n] = m
                 /\ \A i \in DOMAIN predictions : predictions'[i] = predictions[i]
    BY <2>3, AppendIs
  <2>6. Committed(o)' /\ \A x \in Origins : Committed(x) => Committed(x)'
    BY <2>4, <2>5 DEF Committed, CommitsOf
  <2>7. \A x \in Origins : sent'[x] = 1 /\ ~Committed(x)' =>
           Mixed(x)' \/ \E q \in Procs : Caller(q, x)'
    BY <1>0, <1>3, <1>4, <1>5, <2>6 DEF AnswersKept
  <2>8. m.reason = "CRASH_RECOVERY" => sent[o] = 0 \/ Mixed(o)
    BY <1>0, <1>2, <1>6, <2>4 DEF AnswersKept, Caller
  <2>9. ASSUME NEW i \in DOMAIN predictions', predictions'[i].reason = "CRASH_RECOVERY"
        PROVE  sent'[predictions'[i].origin] = 0 \/ Mixed(predictions[i].origin)'
    <3>1. PICK x \in Origins : x = predictions'[i].origin /\ (sent[x] = 0 \/ Mixed(x))
      <4>1. CASE i = n
        BY <2>4, <2>5, <2>8, <2>9, <4>1
      <4>2. CASE i \in DOMAIN predictions
        <5>1. predictions'[i] = predictions[i] /\ predictions[i] \in Commits
          BY <2>3, <2>5, <4>2
        <5>2. PICK x \in Origins : x = predictions[i].origin
          BY <5>1 DEF Commits
        <5>3. sent[x] = 0 \/ Mixed(x)
          BY <1>0, <2>9, <4>2, <5>1, <5>2 DEF AnswersKept, Mixed
        <5> QED BY <5>1, <5>2, <5>3
      <4> QED BY <2>5, <4>1, <4>2
    <3>2. Mixed(predictions[i].origin)' <=> Mixed(x)'
      BY <3>1 DEF Mixed
    <3> QED BY <1>3, <1>4, <3>1, <3>2
  <2> QED BY <1>0, <2>2, <2>7, <2>9 DEF AnswersKept, OthersUnmoved
<1> QED BY <1>8, <1>9

\* What the steps below show of a step of process p.
StaysUndisturbed(p) ==
    /\ OthersUnmoved(p) /\ broken' = {} /\ (\A q \in Procs : stale'[q] = {})
    /\ LocksHeld(p)' /\ SealsInOrder' /\ AnswersKept'
    /\ \A o \in Origins : sent'[o] = 1 => PhysicalCalls = 1

LEMMA CalmRunStays ==
    ASSUME LineageInv, Undisturbed, Calm', NEW p \in Procs,
           \/ \E o \in Origins, prov \in Providers : ClaimSlot(p, o, prov)
           \/ RunOriginStep(p)
    PROVE  StaysUndisturbed(p)
<1>0. RunStep(p) /\ TypeOK
  BY CalmRun DEF LineageInv, IInv
<1>1. LocksHeld(p)' /\ SealsInOrder' /\ broken' = {} /\ \A q \in Procs : stale'[q] = {}
  <2>1. pc'[p] \notin {"openingNew", "openingResume", "sealing", "phase"}
    BY <1>0 DEF RunStep, InCall
  <2>2. ~Sealing(p)'
    BY <2>1 DEF Sealing
  <2> QED BY <1>0, <2>1, <2>2, SealsKeepOrder DEF RunStep, LocksHeld, Undisturbed
<1>2. CASE SlotInvoke(p) \/ \E r \in Responses : Respond(p, r)
  <2>1. AnswersKept'
    BY <1>0, <1>2, CallKeepsAnswers
  <2>2. \A o \in Origins : sent'[o] = 1 => PhysicalCalls = 1
    BY <1>2 DEF SlotInvoke, Respond, Undisturbed
  <2> QED BY <1>0, <1>1, <2>1, <2>2 DEF StaysUndisturbed, RunStep
<1>3. CASE CommitPrediction(p)
  <2>1. UNCHANGED sent
    BY <1>3 DEF CommitPrediction, history
  <2> QED BY <1>0, <1>1, <1>3, <2>1, CommitKeepsAnswers DEF StaysUndisturbed, RunStep, Undisturbed
<1>4. CASE \/ \E o \in Origins, prov \in Providers : ClaimSlot(p, o, prov)
           \/ SlotRaises(p) \/ SlotCommitted(p) \/ SlotFinished(p) \/ SlotRecovered(p)
           \/ SlotLocal(p) \/ AppendRow(p) \/ AppendCheckpoint(p)
  <2>1. UNCHANGED <<predictions, sent, answer>> /\ pc[p] \notin {"waiting", "commit"}
    BY <1>4 DEF ClaimSlot, SlotRaises, SlotCommitted, SlotFinished, SlotRecovered, SlotLocal,
                AppendRow, AppendCheckpoint, AppendFinished, ledgers, history
  <2>2. pc'[p] # "waiting"
    <3>0. broken = {} /\ stale[p] = {}
      BY DEF Undisturbed
    <3>1. ASSUME NEW k \in Kinds, NEW out \in Outcomes, NEW at, NEW i, NEW c,
                 Settle(p, k, out, at, i, c)
          PROVE  pc'[p] = at
      BY <1>0, <3>0, <3>1, CalmSettle, ContinueFrame
    <3>2. CASE \E o \in Origins, prov \in Providers : ClaimSlot(p, o, prov)
      <4>1. PICK c : Continue(p, "slot", 0, c)
                     \/ \E out \in Outcomes : Settle(p, "ATTEMPT", out, "slot", 0, c)
        BY <3>2 DEF ClaimSlot
      <4> QED BY <1>0, <3>1, <4>1, ContinueFrame DEF Kinds
    <3>3. CASE SlotRaises(p) \/ SlotCommitted(p) \/ SlotFinished(p)
      BY <1>0, <3>3, ContinueFrame, GoIdleFrame DEF SlotRaises, SlotCommitted, SlotFinished, Raise
    <3>4. CASE SlotRecovered(p) \/ SlotLocal(p)
      <4>1. PICK c : \E out \in Outcomes : Settle(p, "ATTEMPT", out, "commit", 0, c)
        BY <3>4 DEF SlotRecovered, SlotLocal, AppendFinished
      <4> QED BY <3>1, <4>1 DEF Kinds
    <3>5. CASE AppendRow(p)
      <4>1. PICK at : at = IF step[p] = NumKeys THEN "checkpoint" ELSE "rows"
        OBVIOUS
      <4>2. \/ Continue(p, at, step[p] + 1, call[p]) \/ Raise(p)
            \/ \E out \in Outcomes : Settle(p, "EXECUTION", out, at, step[p] + 1, call[p])
        BY <3>5, <4>1 DEF AppendRow
      <4> QED BY <1>0, <3>1, <4>1, <4>2, ContinueFrame, GoIdleFrame DEF Kinds, Raise
    <3>6. CASE AppendCheckpoint(p)
      <4>1. \/ GoIdle(p, "open")
            \/ \E out \in Outcomes : Settle(p, "CHECKPOINT", out, "open", 0, NoCall)
        BY <3>6 DEF AppendCheckpoint
      <4> QED BY <1>0, <3>1, <4>1, GoIdleFrame DEF Kinds
    <3> QED BY <1>4, <3>2, <3>3, <3>4, <3>5, <3>6
  <2>3. AnswersKept'
    BY <1>0, <2>1, <2>2, AnswersStayKept DEF RunStep, Undisturbed
  <2> QED BY <1>0, <1>1, <2>1, <2>3 DEF StaysUndisturbed, RunStep, Undisturbed
<1> QED BY <1>2, <1>3, <1>4 DEF RunOriginStep

LEMMA CalmOpenStays ==
    ASSUME LineageInv, Undisturbed, NEW p \in Procs,
           (\E resume \in BOOLEAN : OpenRun(p, resume)) \/ OpenLedger(p) \/ CloseRun(p)
    PROVE  StaysUndisturbed(p)
<1>0. TypeOK /\ pc[p] \notin {"waiting", "commit"}
  BY DEF LineageInv, IInv, OpenRun, OpenLedger, CloseRun
<1>1. UNCHANGED <<predictions, sent, answer, seals, phaseSeal, broken>>
  BY DEF OpenRun, OpenLedger, CloseRun, ledgers, files, history
<1>2. /\ OthersUnmoved(p) /\ LocksHeld(p)' /\ (\A q \in Procs : stale'[q] = {})
      /\ pc'[p] \in {"down", "openingNew", "openingResume", "open"}
  <2>0. stale \in [Procs -> SUBSET Kinds] /\ \A q \in Procs : stale[q] = {}
    BY <1>0 DEF TypeOK, ProcsTypeOK, Undisturbed
  <2>1. CASE GoDown(p)
    BY <1>0, <2>0, <2>1, GoDownFrame DEF GoDown, LocksHeld, InCall
  <2>2. ASSUME NEW resume \in BOOLEAN, OpenRun(p, resume)
        PROVE  /\ OthersUnmoved(p) /\ LocksHeld(p)' /\ UNCHANGED stale
               /\ pc'[p] \in {"openingNew", "openingResume"}
    <3>1. /\ OthersUnmoved(p) /\ UNCHANGED stale /\ step'[p] = 1
          /\ pc'[p] \in {"openingNew", "openingResume"}
      BY <1>0, <2>2, ContinueFrame DEF OpenRun
    <3> QED BY <3>1 DEF LocksHeld, InCall
  <2>3. CASE OpenLedger(p) /\ ~GoDown(p)
    <3>0. step[p] \in 1..4 /\ pc[p] \in {"openingNew", "openingResume"}
      BY <2>3 DEF OpenLedger, LineageInv, IInv, ReadsStayTrue, ReadsHold
    <3>1. PICK k \in Kinds : k = LedgerOrder[step[p]]
      BY <3>0, LedgerOrderType
    <3>2. /\ lock[k] = NoProc /\ lock' = [lock EXCEPT ![k] = p] /\ UNCHANGED <<stale, call>>
          /\ pc' = [pc EXCEPT ![p] = IF step[p] = 4 THEN "open" ELSE @]
          /\ step' = [step EXCEPT ![p] = IF @ = 4 THEN 0 ELSE @ + 1]
      BY <2>3, <3>1 DEF OpenLedger
    <3>3. OthersUnmoved(p)
      BY <1>0, <3>2, CAPAssumption DEF OthersUnmoved, TypeOK, ProcsTypeOK, FilesTypeOK
    <3>4. \A i \in 1..4 : i <= step[p] => lock'[LedgerOrder[i]] = p
      <4>1. \A i \in 1..4 : i < step[p] => lock[LedgerOrder[i]] = p
        BY <3>0 DEF Undisturbed, LocksHeld
      <4>2. \A l \in Kinds : lock'[l] = IF l = k THEN p ELSE lock[l]
        BY <1>0, <3>2 DEF TypeOK, FilesTypeOK
      <4> QED BY <3>0, <3>1, <4>1, <4>2, LedgerOrderType
    <3>5. CASE step[p] = 4
      <4>1. pc'[p] = "open" /\ \A l \in Kinds : lock'[l] = p
        BY <1>0, <3>2, <3>4, <3>5 DEF TypeOK, ProcsTypeOK, Kinds, LedgerOrder
      <4> QED BY <2>0, <3>2, <3>3, <4>1 DEF LocksHeld, InCall
    <3>6. CASE step[p] # 4
      <4>1. pc'[p] = pc[p] /\ step'[p] = step[p] + 1
        BY <1>0, <3>2, <3>6 DEF TypeOK, ProcsTypeOK
      <4>2. \A i \in 1..4 : i < step'[p] => lock'[LedgerOrder[i]] = p
        BY <3>0, <3>4, <4>1
      <4> QED BY <2>0, <3>0, <3>2, <3>3, <4>1, <4>2 DEF LocksHeld, InCall
    <3> QED BY <3>5, <3>6
  <2> QED BY <2>0, <2>1, <2>2, <2>3 DEF CloseRun
<1>3. ~Sealing(p)' /\ pc'[p] # "waiting"
  BY <1>2 DEF Sealing
<1> QED BY <1>0, <1>1, <1>2, <1>3, SealsKeepOrder, AnswersStayKept DEF StaysUndisturbed, Undisturbed

LEMMA OrderedKinds ==
    /\ \A i \in 1..4 : LedgerOrder[i] = "ATTEMPT" <=> i = 1
    /\ \A k \in Kinds \ {"ATTEMPT"} : \E i \in 2..4 : k = LedgerOrder[i]
    /\ \A i, j \in 1..4 : LedgerOrder[i] = LedgerOrder[j] => i = j
BY DEF LedgerOrder, Kinds

LEMMA CalmSealLedger ==
    ASSUME LineageInv, Undisturbed, NEW p \in Procs, SealLedger(p)
    PROVE  OthersUnmoved(p) /\ LocksHeld(p)' /\ SealsInOrder'
<1>0. /\ TypeOK /\ OthersUnmoved(p) /\ pc[p] = "sealing" /\ step[p] \in 1..4
      /\ UNCHANGED phaseSeal /\ LocksHeld(p) /\ SealsInOrder
  BY SealIsSafe DEF LineageInv, IInv, StepIsSafe, SealLedger, ReadsStayTrue, ReadsHold, Undisturbed
<1>1. PICK s \in 1..4, k \in Kinds : s = step[p] /\ k = LedgerOrder[s]
  BY <1>0, LedgerOrderType
<1>2. s > 1 => Sealing(p) /\ lock[k] = p /\ seals[k] = NoSeal
  BY <1>0, <1>1 DEF Sealing, LocksHeld, SealsInOrder
<1>3. \A i \in 2..4 : s <= i => lock[LedgerOrder[i]] = p
  BY <1>0, <1>1 DEF LocksHeld
<1>4. CASE Raise(p) /\ UNCHANGED seals /\ (lock[k] # p \/ seals[k] # NoSeal)
  <2>0. s = 1
    BY <1>1, <1>2, <1>4
  <2>1. pc'[p] = "open" /\ lock' = lock
    BY <1>0, <1>4 DEF Raise, GoIdle, TypeOK, ProcsTypeOK
  <2>2. \A l \in Kinds \ {"ATTEMPT"} : lock'[l] = p
    BY <1>3, <2>0, <2>1, OrderedKinds
  <2>3. ~Sealing(p)'
    BY <2>1 DEF Sealing
  <2> QED BY <1>0, <1>4, <2>1, <2>2, <2>3, SealsKeepOrder DEF LocksHeld, InCall
<1>5. ASSUME lock[k] = p, seals[k] = NoSeal, UNCHANGED call,
             seals' = [seals EXCEPT ![k] = LedgerLen(k)], lock' = [lock EXCEPT ![k] = NoProc],
             \/ /\ pc' = [pc EXCEPT ![p] = IF step[p] = 4 THEN "phase" ELSE "sealing"]
                /\ step' = [step EXCEPT ![p] = IF @ = 4 THEN 0 ELSE @ + 1]
             \/ k = "ATTEMPT" /\ pc' = [pc EXCEPT ![p] = "open"]
      PROVE  LocksHeld(p)' /\ SealsInOrder'
  <2>0. LedgerLen(k) \in Nat /\ NoSeal \notin Nat
    BY <1>0 DEF TypeOK, LedgersTypeOK, LedgerLen, NoSeal
  <2>1. \A l \in Kinds : /\ seals'[l] = IF l = k THEN LedgerLen(k) ELSE seals[l]
                         /\ lock'[l] = IF l = k THEN NoProc ELSE lock[l]
    BY <1>0, <1>5 DEF TypeOK, FilesTypeOK
  <2>2. k = "ATTEMPT" <=> s = 1
    BY <1>1, OrderedKinds
  <2>3. seals'["ATTEMPT"] # NoSeal
    BY <1>0, <1>2, <2>0, <2>1, <2>2 DEF Kinds, SealsInOrder
  <2>4. phaseSeal.state = "ABSENT" /\ \A i \in 2..4 : s <= i => seals[LedgerOrder[i]] = NoSeal
    <3>1. CASE s = 1
      BY <1>0, <1>5, <2>2, <3>1, LedgerOrderType DEF SealsInOrder
    <3>2. CASE s > 1
      BY <1>0, <1>1, <1>2, <3>2 DEF SealsInOrder
    <3> QED BY <3>1, <3>2
  <2>5. ASSUME NEW q \in Procs, q # p PROVE ~Sealing(q)'
    <3>1. ~Sealing(q)
      BY <1>0, <1>2, <1>5, <2>2, <2>5 DEF SealsInOrder
    <3> QED BY <1>0, <2>5, <3>1 DEF OthersUnmoved, Sealing
  <2>6. \A i \in 2..4 : s < i => /\ lock'[LedgerOrder[i]] = p
                                 /\ seals'[LedgerOrder[i]] = NoSeal
    BY <1>1, <1>3, <2>1, <2>4, OrderedKinds, LedgerOrderType
  <2>7. CASE pc' = [pc EXCEPT ![p] = "open"] /\ s = 1
    <3>1. pc'[p] = "open"
      BY <1>0, <2>7 DEF TypeOK, ProcsTypeOK
    <3>2. \A l \in Kinds \ {"ATTEMPT"} : lock'[l] = p
      BY <2>6, <2>7, OrderedKinds
    <3>3. LocksHeld(p)'
      BY <3>1, <3>2 DEF LocksHeld, InCall
    <3>4. \A q \in Procs : ~Sealing(q)'
      BY <2>5, <3>1 DEF Sealing
    <3> QED BY <2>3, <3>3, <3>4 DEF SealsInOrder
  <2>8. CASE /\ pc' = [pc EXCEPT ![p] = IF step[p] = 4 THEN "phase" ELSE "sealing"]
             /\ step' = [step EXCEPT ![p] = IF @ = 4 THEN 0 ELSE @ + 1]
    <3>1. \/ pc'[p] = "phase"
          \/ pc'[p] = "sealing" /\ step'[p] = s + 1
      BY <1>0, <1>1, <2>8 DEF TypeOK, ProcsTypeOK
    <3>2. LocksHeld(p)'
      BY <2>6, <3>1 DEF LocksHeld, InCall
    <3>3. pc'[p] = "sealing" => \A i \in 2..4 : step'[p] <= i => seals'[LedgerOrder[i]] = NoSeal
      BY <2>6, <3>1
    <3> QED BY <1>0, <2>3, <2>4, <2>5, <3>2, <3>3 DEF SealsInOrder
  <2> QED BY <1>5, <2>2, <2>7, <2>8
<1>6. LedgerLen(k) # BadSeal
  BY <1>0 DEF TypeOK, LedgersTypeOK, LedgerLen, BadSeal
<1>7. k \notin stale[p] /\ k \notin broken
  BY DEF Undisturbed
<1> QED BY <1>0, <1>1, <1>4, <1>5, <1>6, <1>7 DEF SealLedger

LEMMA CalmSealStays ==
    ASSUME LineageInv, Undisturbed, NEW p \in Procs, SealStart(p) \/ SealStep(p)
    PROVE  StaysUndisturbed(p)
<1>0. TypeOK /\ pc[p] \notin {"waiting", "commit"} /\ OthersUnmoved(p)
  BY SealIsSafe DEF LineageInv, IInv, StepIsSafe, SealStart, SealStep, SealLedger, WritePhaseSeal,
                    VerifyPhase
<1>1. UNCHANGED <<predictions, sent, answer, broken, stale>>
  BY DEF SealStart, SealStep, SealLedger, WritePhaseSeal, VerifyPhase, ledgers, files, history,
         Raise, GoIdle
<1>2. LocksHeld(p)' /\ SealsInOrder' /\ pc'[p] # "waiting"
  <2>1. CASE SealStart(p)
    <3>1. /\ pc[p] = "open" /\ pc'[p] = "sealing" /\ step'[p] = 1 /\ lock' = lock
          /\ UNCHANGED <<seals, phaseSeal>>
      BY <1>0, <2>1, ContinueFrame DEF SealStart, files
    <3>2. \A i \in 2..4 : lock[LedgerOrder[i]] = p
      BY <3>1, OrderedKinds, LedgerOrderType DEF Undisturbed, LocksHeld
    <3>3. ~Sealing(p)'
      BY <3>1 DEF Sealing
    <3> QED BY <1>0, <3>1, <3>2, <3>3, SealsKeepOrder DEF LocksHeld, Undisturbed, InCall
  <2>2. CASE SealLedger(p)
    <3>1. pc'[p] \in {"open", "phase", "sealing"}
      BY <1>0, <2>2, GoIdleFrame DEF SealLedger, Raise, TypeOK, ProcsTypeOK
    <3> QED BY <2>2, <3>1, CalmSealLedger
  <2>3. CASE WritePhaseSeal(p)
    <3>1. Sealing(p) /\ SealsInOrder
      BY <2>3 DEF WritePhaseSeal, Sealing, Undisturbed
    <3>2. phaseSeal.state = "ABSENT" /\ seals["ATTEMPT"] # NoSeal
      BY <3>1 DEF SealsInOrder
    <3>3. pc'[p] = "verify" /\ UNCHANGED seals
      BY <1>0, <2>3, <3>2, GoIdleFrame DEF WritePhaseSeal
    <3>4. \A q \in Procs : ~Sealing(q)'
      BY <1>0, <3>1, <3>3 DEF SealsInOrder, Sealing, OthersUnmoved
    <3> QED BY <3>2, <3>3, <3>4 DEF LocksHeld, SealsInOrder, InCall
  <2>4. CASE VerifyPhase(p)
    <3>1. pc'[p] = "sealed" /\ UNCHANGED <<seals, phaseSeal>>
      BY <1>0, <2>4, GoIdleFrame DEF VerifyPhase, files
    <3>2. ~Sealing(p)'
      BY <3>1 DEF Sealing
    <3> QED BY <1>0, <3>1, <3>2, SealsKeepOrder DEF LocksHeld, Undisturbed, InCall
  <2> QED BY <2>1, <2>2, <2>3, <2>4 DEF SealStep
<1> QED BY <1>0, <1>1, <1>2, AnswersStayKept DEF StaysUndisturbed, Undisturbed

LEMMA LossStep == LossInv /\ [Next]_vars => LossInv'
<1> SUFFICES ASSUME LossInv, [Next]_vars PROVE LossInv'
  OBVIOUS
<1>0. LineageInv /\ LineageInv' /\ TypeOK
  BY LineageStep DEF LossInv, LineageInv, IInv
<1> SUFFICES ASSUME Calm' PROVE Undisturbed'
  BY <1>0 DEF LossInv
<1>1. Calm /\ Undisturbed
  BY <1>0, CalmBefore DEF LossInv
<1>2. CASE UNCHANGED vars
  <2>1. \A o \in Origins : (Committed(o)' <=> Committed(o)) /\ (Mixed(o)' <=> Mixed(o))
    BY <1>2 DEF vars, ledgers, history, Committed, CommitsOf, Mixed
  <2>2. \A q \in Procs : (Sealing(q)' <=> Sealing(q)) /\ (LocksHeld(q)' <=> LocksHeld(q))
    BY <1>2 DEF vars, Sealing, LocksHeld
  <2>3. \A q \in Procs, o \in Origins : Caller(q, o)' <=> Caller(q, o)
    BY <1>2 DEF vars, Caller
  <2>4. \A i \in DOMAIN predictions : Mixed(predictions[i].origin)' <=> Mixed(predictions[i].origin)
    BY <1>2 DEF vars, ledgers, history, Mixed
  <2>5. AnswersKept'
    BY <1>1, <1>2, <2>1, <2>3, <2>4 DEF AnswersKept, Undisturbed, vars, ledgers, history
  <2>6. SealsInOrder'
    BY <1>1, <1>2, <2>2 DEF SealsInOrder, Undisturbed, vars
  <2> QED BY <1>1, <1>2, <2>2, <2>5, <2>6 DEF Undisturbed, vars, history
<1>3. ASSUME NEW p \in Procs, StaysUndisturbed(p) PROVE Undisturbed'
  BY <1>1, <1>3, OthersKeepLocks DEF StaysUndisturbed, Undisturbed
<1>4. ASSUME NEW p \in Procs PROVE ~Crash(p) /\ ~CrashInSeal(p)
  BY <1>1 DEF Crash, CrashInSeal, Calm
<1> QED BY <1>0, <1>1, <1>2, <1>3, <1>4, CalmRunStays, CalmOpenStays, CalmSealStays DEF Next

-----------------------------------------------------------------------------
(* The theorems about seals and losses *)

\* A single driver never appends behind its own phase seal, whatever crashes and
\* failed writes it goes through (runner.py: "a sealed prediction phase is
\* immutable and cannot be resumed").  Two processes can: the constructor looks
\* for the phase seal before it takes the locks.
THEOREM OneDriverFreezes ==
    ASSUME AtMostOne(Procs)
    PROVE  Spec => []SealedPhaseFrozen
<1>1. Init => FrozenInv
  <2> SUFFICES ASSUME Init PROVE FrozenInv
    OBVIOUS
  <2>1. IInv
    BY InitEstablishes
  <2>2. phaseSeal.state = "ABSENT" /\ \A p \in Procs : pc[p] = "down"
    BY DEF Init
  <2> QED BY <2>1, <2>2 DEF FrozenInv, SealedPhaseFrozen, DriverFreezes
<1>2. FrozenInv /\ [Next]_vars => FrozenInv'
  BY FrozenStep
<1>3. FrozenInv => SealedPhaseFrozen
  BY DEF FrozenInv
<1> QED BY <1>1, <1>2, <1>3, PTL DEF Spec

\* However many processes share the run directory, close, reopen and begin to
\* seal it: an answer that came back is replaced by CRASH_RECOVERY only after a
\* crash or a failed write, or because run_origin refuses a mixed answer itself.
THEOREM AnswersSurviveCalm == Spec => []AnswerLostOnlyToFaults
<1>1. Init => LossInv
  <2> SUFFICES ASSUME Init PROVE LossInv
    OBVIOUS
  <2>1. LineageInv
    BY LineageInit
  <2>2. /\ predictions = <<>> /\ broken = {} /\ phaseSeal.state = "ABSENT"
        /\ \A p \in Procs : pc[p] = "down" /\ stale[p] = {}
        /\ \A k \in Kinds : seals[k] = NoSeal
        /\ \A o \in Origins : sent[o] = 0
    BY DEF Init
  <2>3. \A p \in Procs : LocksHeld(p) /\ ~Sealing(p)
    BY <2>2 DEF LocksHeld, Sealing, InCall
  <2>4. SealsInOrder
    BY <2>2, <2>3 DEF SealsInOrder
  <2>5. AnswersKept
    BY <2>2 DEF AnswersKept
  <2> QED BY <2>1, <2>2, <2>3, <2>4, <2>5 DEF LossInv, Undisturbed
<1>2. LossInv => AnswerLostOnlyToFaults
  <2> SUFFICES ASSUME LossInv PROVE AnswerLostOnlyToFaults
    OBVIOUS
  <2>1. crashes \in Nat /\ faults \in Nat
    BY DEF LossInv, LineageInv, IInv, TypeOK, HistoryTypeOK
  <2> SUFFICES ASSUME NEW i \in DOMAIN predictions, Calm,
                      predictions[i].reason = "CRASH_RECOVERY"
               PROVE  sent[predictions[i].origin] = 0 \/ Mixed(predictions[i].origin)
    BY <2>1 DEF AnswerLostOnlyToFaults, Calm, Mixed
  <2> QED BY DEF LossInv, Undisturbed, AnswersKept
<1> QED BY <1>1, <1>2, LossStep, PTL DEF Spec
=============================================================================
