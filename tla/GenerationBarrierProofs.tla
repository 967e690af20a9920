----------------------- MODULE GenerationBarrierProofs -----------------------
(***************************************************************************)
(* Machine-checked proofs about the generation barrier, for every plan and *)
(* every number of cells, sealers, reveals, deaths and failed writes: the  *)
(* receipts stay true, what is scored is attested, and the barrier keeps   *)
(* the promise of module JointUnseal.                                      *)
(***************************************************************************)
EXTENDS GenerationBarrier, TLAPS

USE GenerationAssumption

-----------------------------------------------------------------------------
(* The inductive invariant *)

\* FINALIZE was journalled.
Ended == {"finalizing", "completed", "aborted"}

\* Receipt r of cell c is true, complete, and can never become stale.
Settled(c, r) ==
    /\ r = ReceiptOf(c)
    /\ cell[c].sealed /\ cell[c].revealed = Replay
    /\ c[2] \in plan.attestation => Attested(c)

\* A cell is untouched before its launch, stays at most one prediction ahead of
\* the reveals, and is scored behind FINALIZE; a formal one only behind an
\* authorization, and so behind the joint unseal.
CellHolds(c) ==
    /\ c \notin Cells \/ cell[c].session = "none" => cell[c] = NewCell
    /\ cell[c].predictions \in {cell[c].revealed, cell[c].revealed + 1}
    /\ cell[c].stage > 0 => cell[c].session \in Ended
    /\ Formal(c) /\ cell[c].session \in Ended => cell[c].authorized
    /\ cell[c].authorized => unseal = "complete"

CellsHold == \A c \in Pairs : CellHolds(c)

PlanHolds ==
    IF plan = None
    THEN barrier = None /\ score = None /\ \A s \in Sealers : sealer[s] = None
    ELSE ValidPlan(plan)

\* The receipts a sealer holds in memory are as good as the published ones.
SealersHold ==
    \A s \in Sealers : sealer[s] # None =>
        \A c \in DOMAIN sealer[s] : Settled(c, sealer[s][c])

BarrierHolds == barrier # None => \A c \in Cells : Settled(c, barrier[c])

UnsealHolds ==
    /\ unseal # "none" => plan # None /\ barrier # None
    /\ launcher = "writing" => unseal = "torn"
    /\ joint => unseal = "complete"

ScoreHolds == score # None => barrier # None /\ \A c \in Cells : cell[c].stage = 3

IInv == /\ TypeOK /\ CellsHold /\ PlanHolds /\ SealersHold /\ BarrierHolds
        /\ UnsealHolds /\ ScoreHolds

LEMMA NewCellType == NewCell \in CellRecords
BY DEF NewCell, CellRecords

LEMMA CellsArePairs == ASSUME TypeOK PROVE Cells \subseteq Pairs
BY DEF TypeOK, Cells, Plans

LEMMA ReceiptType ==
    ASSUME TypeOK, NEW c \in Pairs PROVE ReceiptOf(c) \in Receipts
BY DEF TypeOK, ReceiptOf, Receipts, CellRecords

-----------------------------------------------------------------------------
(* One cell moves: its receipt, once earned, is out of its reach *)

LEMMA CellMoves ==
    ASSUME IInv, NEW c \in Cells, NEW k \in CellRecords, Update(c, k),
           crashes' \in 0..MaxCrashes, faults' \in 0..MaxFaults,
           k.predictions \in {k.revealed, k.revealed + 1},
           k.session # "none",
           k.stage > 0 => k.session \in Ended,
           k.mode = "formal" /\ k.session \in Ended => k.authorized,
           k.authorized => unseal = "complete",
           cell[c].sealed /\ cell[c].revealed = Replay =>
               /\ k.predictions = cell[c].predictions /\ k.revealed = cell[c].revealed
               /\ k.kinds = cell[c].kinds /\ k.sealed,
           cell[c].stage = 3 => k.stage = 3
    PROVE  IInv'
<1> USE DEF IInv
<1>1. c \in Pairs
  BY CellsArePairs
<1>2. /\ UNCHANGED <<plan, sealer, barrier, unseal, launcher, joint, score>>
      /\ cell'[c] = k /\ \A d \in Pairs \ {c} : cell'[d] = cell[d]
      /\ Cells' = Cells
  BY <1>1 DEF Update, TypeOK, Cells
<1>3. TypeOK'
  BY <1>1, <1>2 DEF TypeOK, Update
<1>4. CellsHold'
  <2> SUFFICES ASSUME NEW d \in Pairs PROVE CellHolds(d)'
    BY DEF CellsHold
  <2>1. CASE d = c
    BY <1>2, <2>1 DEF CellHolds, Formal
  <2>2. CASE d # c
    <3>1. CellHolds(d) /\ cell'[d] = cell[d]
      BY <1>2, <2>2 DEF CellsHold
    <3> QED BY <1>2, <3>1 DEF CellHolds, Formal
  <2> QED BY <2>1, <2>2
<1>5. ASSUME NEW d \in Pairs, NEW r, Settled(d, r) PROVE Settled(d, r)'
  <2>1. CASE d = c
    BY <1>2, <1>5, <2>1 DEF Settled, ReceiptOf, Attested
  <2>2. CASE d # c
    BY <1>2, <1>5, <2>2 DEF Settled, ReceiptOf, Attested
  <2> QED BY <2>1, <2>2
<1>6. SealersHold' /\ BarrierHolds'
  <2>1. SealersHold'
    <3> SUFFICES ASSUME NEW s \in Sealers, sealer[s] # None, NEW d \in DOMAIN sealer[s]
                 PROVE  Settled(d, sealer[s][d])'
      BY <1>2 DEF SealersHold
    <3>1. d \in Pairs /\ Settled(d, sealer[s][d])
      BY CellsArePairs DEF SealersHold, TypeOK
    <3>2. PICK r : r = sealer[s][d] /\ r = sealer'[s][d]
      BY <1>2
    <3> QED BY <1>5, <3>1, <3>2
  <2>2. BarrierHolds'
    <3> SUFFICES ASSUME barrier # None, NEW d \in Cells PROVE Settled(d, barrier[d])'
      BY <1>2 DEF BarrierHolds
    <3>1. d \in Pairs /\ Settled(d, barrier[d])
      BY CellsArePairs DEF BarrierHolds
    <3>2. PICK r : r = barrier[d] /\ r = barrier'[d]
      BY <1>2
    <3> QED BY <1>5, <3>1, <3>2
  <2> QED BY <2>1, <2>2
<1>7. PlanHolds' /\ UnsealHolds'
  BY <1>2 DEF PlanHolds, UnsealHolds
<1>8. ScoreHolds'
  BY <1>2, CellsArePairs DEF ScoreHolds
<1> QED BY <1>3, <1>4, <1>6, <1>7, <1>8

LEMMA CellStepKeeps ==
    ASSUME IInv, NEW c \in Cells, CellStep(c)
    PROVE  IInv'
<1> USE DEF IInv
<1>1. c \in Pairs /\ cell[c] \in CellRecords /\ CellHolds(c)
  BY CellsArePairs DEF TypeOK, CellsHold
<1>2. crashes' \in 0..MaxCrashes /\ faults' \in 0..MaxFaults
  <2>1. \/ UNCHANGED <<crashes, faults>>
        \/ crashes < MaxCrashes /\ crashes' = crashes + 1 /\ UNCHANGED faults
        \/ faults < MaxFaults /\ faults' = faults + 1 /\ UNCHANGED crashes
    BY DEF CellStep, LaunchCell, Predict, Reveal, RequestFails, SealPhase, TearLedger, Crash,
           Restart, Authorize, SendFinalize, StartScoring, ContinueScoring, ScoringFails
  <2> QED BY <2>1 DEF TypeOK
<1>3. ASSUME NEW mode \in LaunchModes, LaunchCell(c, mode) PROVE IInv'
  <2> DEFINE k == [cell[c] EXCEPT !.mode = mode, !.process = "up", !.session = "open"]
  <2>1. cell[c] = NewCell /\ Update(c, k)
    BY <1>1, <1>3 DEF LaunchCell, CellHolds
  <2>2. mode \in {"formal", "legacy"}
    OBVIOUS
  <2>3. k \in CellRecords
    BY <1>1, <2>2 DEF CellRecords
  <2>4. /\ k.session = "open" /\ k.stage = 0 /\ k.authorized = FALSE
        /\ k.predictions = k.revealed /\ cell[c].sealed = FALSE /\ cell[c].stage # 3
    BY <2>1 DEF NewCell
  <2> HIDE DEF k
  <2> QED BY <1>2, <2>1, <2>3, <2>4, CellMoves DEF Ended
<1>4. ASSUME NEW kind \in Kinds, Predict(c, kind) PROVE IInv'
  <2> DEFINE k == [cell[c] EXCEPT !.predictions = @ + 1, !.kinds = @ \cup {kind}]
  <2>1. Update(c, k) /\ cell[c].predictions = cell[c].revealed /\ ~cell[c].sealed
        /\ cell[c].session # "none"
    BY <1>4 DEF Predict
  <2>2. /\ k \in CellRecords
        /\ k.predictions = k.revealed + 1 /\ k.revealed = cell[c].revealed
        /\ k.session = cell[c].session /\ k.stage = cell[c].stage /\ k.mode = cell[c].mode
        /\ k.authorized = cell[c].authorized
    <3>1. cell[c].predictions + 1 \in 0..(Replay + 1)
      BY <1>1, <2>1 DEF CellRecords
    <3>2. cell[c].kinds \cup {kind} \in SUBSET Kinds
      BY <1>1 DEF CellRecords
    <3>3. k \in CellRecords
      BY <1>1, <3>1, <3>2 DEF CellRecords
    <3> QED BY <1>1, <2>1, <3>3 DEF CellRecords
  <2> HIDE DEF k
  <2> QED BY <1>1, <1>2, <2>1, <2>2, CellMoves DEF CellHolds, Formal
\* An open session reveals the next event or not, and goes on or is shut.
<1>5. ASSUME NEW event \in {0, 1}, NEW session \in {"open", "shut"}, NEW up \in {"up", "down"},
             cell[c].session = "open", event = 1 => MayReveal(c),
             Update(c, [cell[c] EXCEPT !.session = session, !.process = up,
                                       !.revealed = cell[c].revealed + event])
      PROVE  IInv'
  <2> DEFINE k == [cell[c] EXCEPT !.session = session, !.process = up,
                                  !.revealed = cell[c].revealed + event]
  <2>1. /\ cell[c].predictions \in Int /\ cell[c].revealed \in 0..Replay
        /\ event = 1 => cell[c].predictions > cell[c].revealed /\ cell[c].revealed < Replay
    BY <1>1, <1>5 DEF CellRecords, MayReveal
  <2>2. cell[c].revealed + event \in 0..Replay
    BY <1>5, <2>1
  <2>3. /\ k \in CellRecords
        /\ k.predictions = cell[c].predictions /\ k.revealed = cell[c].revealed + event
        /\ k.kinds = cell[c].kinds /\ k.sealed = cell[c].sealed
        /\ k.session = session /\ k.stage = cell[c].stage /\ k.authorized = cell[c].authorized
    BY <1>1, <2>2 DEF CellRecords
  <2>4. /\ k.predictions \in {k.revealed, k.revealed + 1}
        /\ cell[c].revealed = Replay => k.revealed = cell[c].revealed
    BY <1>1, <1>5, <2>1, <2>3 DEF CellHolds
  <2>5. ~(cell[c].stage > 0) /\ cell[c].stage # 3 /\ session \notin Ended /\ session # "none"
    BY <1>1, <1>5 DEF CellHolds, Ended
  <2>6. Update(c, k)
    BY <1>5
  <2> HIDE DEF k
  <2> QED BY <1>1, <1>2, <2>3, <2>4, <2>5, <2>6, CellMoves DEF CellHolds
<1>6. ASSUME cell[c].session = "open", Shuts(c) PROVE IInv'
  BY <1>5, <1>6 DEF Shuts
<1>7. CASE Reveal(c)
  <2>1. cell[c].session = "open" /\ cell[c].process = "up"
    BY <1>7 DEF Reveal
  <2>2. CASE MayReveal(c)
    <3>1. [cell[c] EXCEPT !.revealed = @ + 1] =
          [cell[c] EXCEPT !.session = "open", !.process = "up", !.revealed = cell[c].revealed + 1]
      BY <1>1, <2>1 DEF CellRecords
    <3>2. Update(c, [cell[c] EXCEPT !.revealed = @ + 1])
      BY <1>7, <2>2 DEF Reveal
    <3> QED BY <1>5, <2>1, <2>2, <3>1, <3>2
  <2>3. CASE ~MayReveal(c)
    <3>1. [cell[c] EXCEPT !.session = "shut", !.process = "down"] =
          [cell[c] EXCEPT !.session = "shut", !.process = "down", !.revealed = cell[c].revealed + 0]
      <4>1. cell[c].revealed + 0 = cell[c].revealed
        BY <1>1 DEF CellRecords
      <4>2. [cell[c] EXCEPT !.session = "shut", !.process = "down"] =
            [cell[c] EXCEPT !.session = "shut", !.process = "down", !.revealed = cell[c].revealed]
        BY <1>1 DEF CellRecords
      <4> QED BY <4>1, <4>2
    <3>2. Update(c, [cell[c] EXCEPT !.session = "shut", !.process = "down"])
      BY <1>7, <2>3 DEF Reveal
    <3> QED BY <1>5, <2>1, <3>1, <3>2
  <2> QED BY <2>2, <2>3
<1>8. CASE RequestFails(c)
  BY <1>6, <1>8 DEF RequestFails
<1>9. CASE TearLedger(c)
  <2> DEFINE k == [cell[c] EXCEPT !.torn = TRUE]
  <2>1. Update(c, k) /\ cell[c].session # "none"
    BY <1>9 DEF TearLedger
  <2>2. /\ k \in CellRecords
        /\ k.predictions = cell[c].predictions /\ k.revealed = cell[c].revealed
        /\ k.kinds = cell[c].kinds /\ k.sealed = cell[c].sealed
        /\ k.session = cell[c].session /\ k.stage = cell[c].stage /\ k.mode = cell[c].mode
        /\ k.authorized = cell[c].authorized
    BY <1>1, <2>1 DEF CellRecords
  <2> HIDE DEF k
  <2> QED BY <1>1, <1>2, <2>1, <2>2, CellMoves DEF CellHolds, Formal
<1>10. CASE SealPhase(c)
  <2> DEFINE k == [cell[c] EXCEPT !.sealed = TRUE]
  <2>1. Update(c, k) /\ cell[c].session # "none"
    BY <1>10 DEF SealPhase
  <2>2. /\ k \in CellRecords
        /\ k.predictions = cell[c].predictions /\ k.revealed = cell[c].revealed
        /\ k.kinds = cell[c].kinds /\ k.sealed
        /\ k.session = cell[c].session /\ k.stage = cell[c].stage /\ k.mode = cell[c].mode
        /\ k.authorized = cell[c].authorized
    BY <1>1, <2>1 DEF CellRecords
  <2> HIDE DEF k
  <2> QED BY <1>1, <1>2, <2>1, <2>2, CellMoves DEF CellHolds, Formal
<1>11. ASSUME NEW up \in {"up", "down"}, cell[c].session # "none",
             Update(c, [cell[c] EXCEPT !.process = up])
      PROVE  IInv'
  <2> DEFINE k == [cell[c] EXCEPT !.process = up]
  <2>1. /\ k \in CellRecords
        /\ k.predictions = cell[c].predictions /\ k.revealed = cell[c].revealed
        /\ k.kinds = cell[c].kinds /\ k.sealed = cell[c].sealed
        /\ k.session = cell[c].session /\ k.stage = cell[c].stage /\ k.mode = cell[c].mode
        /\ k.authorized = cell[c].authorized
    BY <1>1, <1>11 DEF CellRecords
  <2>2. Update(c, k)
    BY <1>11
  <2> HIDE DEF k
  <2> QED BY <1>1, <1>2, <1>11, <2>1, <2>2, CellMoves DEF CellHolds, Formal
<1>12. CASE Crash(c) \/ Restart(c)
  <2>1. cell[c].session # "none"
    BY <1>1, <1>12 DEF Crash, Restart, CellHolds, NewCell
  <2> QED BY <1>6, <1>11, <1>12, <2>1 DEF Crash, Restart
<1>13. CASE Authorize(c)
  <2> DEFINE k == [cell[c] EXCEPT !.authorized = TRUE]
  <2>1. Update(c, k) /\ joint /\ cell[c].mode = "formal"
    BY <1>13 DEF Authorize, MayAuthorize, Formal
  <2>2. cell[c].session # "none" /\ unseal = "complete"
    BY <1>1, <2>1 DEF CellHolds, NewCell, UnsealHolds
  <2>3. /\ k \in CellRecords
        /\ k.predictions = cell[c].predictions /\ k.revealed = cell[c].revealed
        /\ k.kinds = cell[c].kinds /\ k.sealed = cell[c].sealed
        /\ k.session = cell[c].session /\ k.stage = cell[c].stage /\ k.authorized
    BY <1>1 DEF CellRecords
  <2> HIDE DEF k
  <2> QED BY <1>1, <1>2, <2>1, <2>2, <2>3, CellMoves DEF CellHolds
\* The remaining steps end the session's openness and advance the stage.
<1>14. ASSUME NEW session \in Ended, NEW up \in {"up", "down"}, NEW stage \in 0..3,
              cell[c].session # "none", Formal(c) => cell[c].authorized,
              cell[c].stage = 3 => stage = 3,
              Update(c, [cell[c] EXCEPT !.session = session, !.process = up, !.stage = stage])
       PROVE  IInv'
  <2> DEFINE k == [cell[c] EXCEPT !.session = session, !.process = up, !.stage = stage]
  <2>1. /\ k \in CellRecords
        /\ k.predictions = cell[c].predictions /\ k.revealed = cell[c].revealed
        /\ k.kinds = cell[c].kinds /\ k.sealed = cell[c].sealed
        /\ k.session = session /\ k.stage = stage /\ k.mode = cell[c].mode
        /\ k.authorized = cell[c].authorized
    BY <1>1, <1>14 DEF CellRecords, Ended
  <2>2. Update(c, k)
    BY <1>14
  <2>3. session # "none"
    BY <1>14 DEF Ended
  <2> HIDE DEF k
  <2> QED BY <1>1, <1>2, <1>14, <2>1, <2>2, <2>3, CellMoves DEF CellHolds, Formal
<1>15. CASE SendFinalize(c)
  <2>1. [cell[c] EXCEPT !.session = "finalizing"] =
        [cell[c] EXCEPT !.session = "finalizing", !.process = cell[c].process, !.stage = cell[c].stage]
    BY <1>1 DEF CellRecords
  <2>2. cell[c].process \in {"up", "down"} /\ cell[c].stage \in 0..3
    BY <1>1 DEF CellRecords
  <2> QED BY <1>14, <1>15, <2>1, <2>2 DEF SendFinalize, Ended
<1>16. CASE StartScoring(c) \/ ContinueScoring(c) \/ ScoringFails(c)
  <2>1. cell[c].session = "finalizing" /\ (Formal(c) => cell[c].authorized)
    BY <1>1, <1>16 DEF StartScoring, ContinueScoring, ScoringFails, CellHolds, Ended
  <2>2. cell[c].process = "up" /\ cell[c].stage \in 0..3
    BY <1>1, <1>16 DEF CellRecords, StartScoring, ContinueScoring, ScoringFails
  <2>3. \A stage \in 0..3 : [cell[c] EXCEPT !.stage = stage] =
          [cell[c] EXCEPT !.session = "finalizing", !.process = "up", !.stage = stage]
    BY <1>1, <2>1, <2>2 DEF CellRecords
  <2>4. [cell[c] EXCEPT !.session = "aborted", !.process = "down"] =
        [cell[c] EXCEPT !.session = "aborted", !.process = "down", !.stage = cell[c].stage]
    BY <1>1 DEF CellRecords
  <2>5. [cell[c] EXCEPT !.session = "completed", !.process = "down"] =
        [cell[c] EXCEPT !.session = "completed", !.process = "down", !.stage = cell[c].stage]
    BY <1>1 DEF CellRecords
  <2>6. \/ \E stage \in 0..3 : /\ cell[c].stage # 3
                               /\ Update(c, [cell[c] EXCEPT !.stage = stage])
        \/ Update(c, [cell[c] EXCEPT !.session = "aborted", !.process = "down"])
        \/ Update(c, [cell[c] EXCEPT !.session = "completed", !.process = "down"])
    BY <1>16, <2>2 DEF StartScoring, ContinueScoring, ScoringFails
  <2>7. ASSUME NEW stage \in 0..3, cell[c].stage # 3, Update(c, [cell[c] EXCEPT !.stage = stage])
        PROVE  IInv'
    BY <1>14, <2>1, <2>3, <2>7 DEF Ended
  <2> QED BY <1>14, <2>1, <2>2, <2>4, <2>5, <2>6, <2>7 DEF Ended
<1> QED BY <1>3, <1>4, <1>7, <1>8, <1>9, <1>10, <1>12, <1>13, <1>15, <1>16
       DEF CellStep

-----------------------------------------------------------------------------
(* The other steps *)

LEMMA SealPlanKeeps ==
    ASSUME IInv, NEW p \in Plans, SealPlan(p)
    PROVE  IInv'
<1> USE DEF IInv
<1>1. /\ plan = None /\ plan' = p /\ ValidPlan(p)
      /\ UNCHANGED <<cell, sealer, barrier, unseal, launcher, joint, score, crashes, faults>>
  BY DEF SealPlan
<1>2. /\ barrier = None /\ score = None /\ unseal = "none"
      /\ \A s \in Sealers : sealer[s] = None
  BY <1>1 DEF PlanHolds, UnsealHolds
<1>3. TypeOK'
  BY <1>1, <1>2 DEF TypeOK
<1>4. CellsHold'
  <2> SUFFICES ASSUME NEW c \in Pairs PROVE CellHolds(c)'
    BY DEF CellsHold
  <2>1. CellHolds(c) /\ c \notin Cells
    BY <1>1 DEF CellsHold, Cells
  <2> QED BY <1>1, <2>1 DEF CellHolds, Formal
<1>5. PlanHolds' /\ SealersHold' /\ BarrierHolds' /\ UnsealHolds' /\ ScoreHolds'
  BY <1>1, <1>2 DEF PlanHolds, SealersHold, BarrierHolds, UnsealHolds, ScoreHolds
<1> QED BY <1>3, <1>4, <1>5

\* While the plan and the cells stand, so does every settled receipt.
LEMMA CellsStand ==
    ASSUME IInv, UNCHANGED <<plan, cell>>
    PROVE  /\ Cells' = Cells
           /\ unseal' = unseal \/ unseal # "complete" => CellsHold'
           /\ \A c, r : Settled(c, r) => Settled(c, r)'
<1>1. Cells' = Cells
  BY DEF Cells
<1>2. ASSUME unseal' = unseal \/ unseal # "complete" PROVE CellsHold'
  <2> SUFFICES ASSUME NEW c \in Pairs PROVE CellHolds(c)'
    BY DEF CellsHold
  <2>1. CellHolds(c)
    BY DEF IInv, CellsHold
  <2> QED BY <1>1, <1>2, <2>1 DEF CellHolds, Formal
<1>3. ASSUME NEW c, NEW r, Settled(c, r) PROVE Settled(c, r)'
  BY <1>3 DEF Settled, ReceiptOf, Attested
<1> QED BY <1>1, <1>2, <1>3

LEMMA BeginSealKeeps ==
    ASSUME IInv, NEW s \in Sealers, BeginSeal(s)
    PROVE  IInv'
<1> USE DEF IInv
<1>1. /\ UNCHANGED <<plan, cell, barrier, unseal, launcher, joint, score, crashes, faults>>
      /\ plan # None /\ sealer' = [sealer EXCEPT ![s] = <<>>]
  BY DEF BeginSeal
<1>2. Cells' = Cells /\ CellsHold' /\ \A c, r : Settled(c, r) => Settled(c, r)'
  BY <1>1, CellsStand
<1>3. /\ DOMAIN sealer' = Sealers /\ sealer'[s] = <<>>
      /\ \A t \in Sealers \ {s} : sealer'[t] = sealer[t]
  BY <1>1 DEF TypeOK
<1>4. DOMAIN (<<>>) = {} /\ <<>> \in [{} -> Receipts]
  OBVIOUS
<1>5. TypeOK'
  BY <1>1, <1>2, <1>3, <1>4 DEF TypeOK
<1>6. SealersHold'
  BY <1>2, <1>3, <1>4 DEF SealersHold
<1>7. PlanHolds' /\ BarrierHolds' /\ UnsealHolds' /\ ScoreHolds'
  BY <1>1, <1>2 DEF PlanHolds, BarrierHolds, UnsealHolds, ScoreHolds
<1> QED BY <1>2, <1>5, <1>6, <1>7

\* What EarnsReceipt checks of a cell is what makes its receipt settled.
LEMMA EarnedIsSettled ==
    ASSUME NEW c, EarnsReceipt(c) PROVE Settled(c, ReceiptOf(c))
BY DEF EarnsReceipt, Settled

LEMMA VisitKeeps ==
    ASSUME IInv, NEW s \in Sealers, NEW c \in Cells, Visit(s, c)
    PROVE  IInv'
<1> USE DEF IInv
<1> DEFINE old == sealer[s]
           new == [d \in DOMAIN old \cup {c} |-> IF d = c THEN ReceiptOf(c) ELSE old[d]]
<1>1. /\ UNCHANGED <<plan, cell, barrier, unseal, launcher, joint, score, crashes, faults>>
      /\ old # None /\ c \in Pairs
  BY CellsArePairs DEF Visit
<1>2. Cells' = Cells /\ CellsHold' /\ \A d, r : Settled(d, r) => Settled(d, r)'
  BY <1>1, CellsStand
<1>3. /\ DOMAIN sealer' = Sealers
      /\ sealer'[s] = IF EarnsReceipt(c) THEN new ELSE None
      /\ \A t \in Sealers \ {s} : sealer'[t] = sealer[t]
  BY DEF TypeOK, Visit
<1>4. /\ DOMAIN old \subseteq Cells /\ old \in [DOMAIN old -> Receipts]
      /\ \A d \in DOMAIN old : Settled(d, old[d])
  BY <1>1 DEF TypeOK, SealersHold
<1>5. /\ DOMAIN new = DOMAIN old \cup {c} /\ DOMAIN new \subseteq Cells
      /\ new \in [DOMAIN new -> Receipts]
  BY <1>1, <1>4, ReceiptType
<1>6. ASSUME EarnsReceipt(c), NEW d \in DOMAIN new PROVE Settled(d, new[d])
  <2>1. CASE d = c
    BY <1>6, <2>1, EarnedIsSettled
  <2>2. CASE d # c
    BY <1>4, <1>6, <2>2
  <2> QED BY <2>1, <2>2
<1> HIDE DEF old, new
<1>7. TypeOK'
  <2>1. \A t \in Sealers : sealer'[t] # None =>
          DOMAIN sealer'[t] \subseteq Cells /\ sealer'[t] \in [DOMAIN sealer'[t] -> Receipts]
    BY <1>3, <1>5 DEF TypeOK
  <2> QED BY <1>1, <1>2, <1>3, <2>1 DEF TypeOK
<1>8. SealersHold'
  <2> SUFFICES ASSUME NEW t \in Sealers, sealer'[t] # None, NEW d \in DOMAIN sealer'[t]
               PROVE  Settled(d, sealer[t][d])'
    BY DEF SealersHold
  <2>1. Settled(d, sealer'[t][d])
    BY <1>3, <1>6 DEF SealersHold
  <2>2. PICK r : r = sealer'[t][d]
    OBVIOUS
  <2> QED BY <1>2, <2>1, <2>2
<1>9. PlanHolds'
  BY <1>1 DEF PlanHolds, old
<1>10. BarrierHolds' /\ UnsealHolds' /\ ScoreHolds'
  BY <1>1, <1>2 DEF BarrierHolds, UnsealHolds, ScoreHolds
<1> QED BY <1>2, <1>7, <1>8, <1>9, <1>10

LEMMA PublishBarrierKeeps ==
    ASSUME IInv, NEW s \in Sealers, PublishBarrier(s)
    PROVE  IInv'
<1> USE DEF IInv
<1>1. /\ UNCHANGED <<plan, cell, unseal, launcher, joint, score, crashes, faults>>
      /\ sealer[s] # None /\ DOMAIN sealer[s] = Cells
      /\ barrier' = IF barrier = None THEN sealer[s] ELSE barrier
  BY DEF PublishBarrier, Whole
<1>2. Cells' = Cells /\ CellsHold' /\ \A d, r : Settled(d, r) => Settled(d, r)'
  BY <1>1, CellsStand
<1>3. /\ DOMAIN sealer' = Sealers /\ sealer'[s] = None
      /\ \A t \in Sealers \ {s} : sealer'[t] = sealer[t]
  BY DEF TypeOK, PublishBarrier
<1>4. plan # None
  BY <1>1 DEF PlanHolds
<1>5. barrier' \in [Cells -> Receipts] /\ barrier' # None
  BY <1>1 DEF TypeOK
<1>6. \A c \in Cells : Settled(c, barrier'[c])
  BY <1>1 DEF BarrierHolds, SealersHold
<1>7. TypeOK'
  BY <1>1, <1>2, <1>3, <1>5 DEF TypeOK
<1>8. BarrierHolds'
  <2> SUFFICES ASSUME NEW c \in Cells PROVE Settled(c, barrier[c])'
    BY <1>2 DEF BarrierHolds
  <2>1. PICK r : r = barrier'[c]
    OBVIOUS
  <2> QED BY <1>2, <1>6, <2>1
<1>9. SealersHold'
  <2> SUFFICES ASSUME NEW t \in Sealers, sealer'[t] # None, NEW d \in DOMAIN sealer'[t]
               PROVE  Settled(d, sealer[t][d])'
    BY DEF SealersHold
  <2>1. Settled(d, sealer'[t][d])
    BY <1>3 DEF SealersHold
  <2>2. PICK r : r = sealer'[t][d]
    OBVIOUS
  <2> QED BY <1>2, <2>1, <2>2
<1>10. PlanHolds' /\ UnsealHolds' /\ ScoreHolds'
  BY <1>1, <1>2, <1>4, <1>5 DEF PlanHolds, UnsealHolds, ScoreHolds
<1> QED BY <1>2, <1>7, <1>8, <1>9, <1>10

LEMMA UnsealKeeps ==
    ASSUME IInv, CreateUnseal \/ WriteUnseal
    PROVE  IInv'
<1> USE DEF IInv
<1>1. UNCHANGED <<plan, cell, sealer, barrier, score, crashes>>
  BY DEF CreateUnseal, WriteUnseal
<1>2. /\ unseal \in {"none", "torn"}
      /\ plan # None /\ barrier # None
  BY DEF CreateUnseal, MayUnseal, BarrierVerifies, WriteUnseal, UnsealHolds
<1>3. Cells' = Cells /\ CellsHold' /\ \A d, r : Settled(d, r) => Settled(d, r)'
  BY <1>1, <1>2, CellsStand
<1>4. /\ unseal' \in {"torn", "complete"} /\ launcher' \in {"free", "writing"}
      /\ launcher' = "writing" => unseal' = "torn"
      /\ joint' => unseal' = "complete"
      /\ faults' \in 0..MaxFaults /\ joint' \in BOOLEAN
  <2>1. joint = FALSE
    BY <1>2 DEF UnsealHolds, TypeOK
  <2>2. CASE CreateUnseal
    BY <2>1, <2>2 DEF CreateUnseal, TypeOK
  <2>3. CASE WriteUnseal
    <3>1. faults' \in 0..MaxFaults /\ launcher' = "free"
      BY <2>3 DEF WriteUnseal, TypeOK
    <3>2. \/ unseal' = "complete" /\ joint' = TRUE
          \/ unseal' \in {"torn", "complete"} /\ joint' = FALSE
      BY <2>1, <2>3 DEF WriteUnseal
    <3> QED BY <3>1, <3>2
  <2> QED BY <2>2, <2>3
<1>5. TypeOK'
  BY <1>1, <1>3, <1>4 DEF TypeOK, Unseals
<1>6. UnsealHolds'
  BY <1>1, <1>2, <1>4 DEF UnsealHolds
<1>7. PlanHolds' /\ SealersHold' /\ BarrierHolds' /\ ScoreHolds'
  BY <1>1, <1>3 DEF PlanHolds, SealersHold, BarrierHolds, ScoreHolds
<1> QED BY <1>3, <1>5, <1>6, <1>7

LEMMA SealScoreInputsKeeps ==
    ASSUME IInv, SealScoreInputs
    PROVE  IInv'
<1> USE DEF IInv
<1>1. /\ UNCHANGED <<plan, cell, sealer, barrier, unseal, launcher, joint, crashes, faults>>
      /\ plan # None /\ barrier # None /\ \A c \in Cells : cell[c].stage = 3
      /\ score' = [c \in Cells |-> ReceiptOf(c)]
  BY DEF SealScoreInputs, BarrierVerifies, CompleteRun
<1>2. Cells' = Cells /\ CellsHold' /\ \A d, r : Settled(d, r) => Settled(d, r)'
  BY <1>1, CellsStand
<1>3. score' \in [Cells -> Receipts]
  BY <1>1, ReceiptType, CellsArePairs
<1>4. TypeOK'
  BY <1>1, <1>2, <1>3 DEF TypeOK
<1>5. PlanHolds' /\ SealersHold' /\ BarrierHolds' /\ UnsealHolds' /\ ScoreHolds'
  BY <1>1, <1>2 DEF PlanHolds, SealersHold, BarrierHolds, UnsealHolds, ScoreHolds
<1> QED BY <1>2, <1>4, <1>5

LEMMA LauncherDiesKeeps ==
    ASSUME IInv, LauncherDies
    PROVE  IInv'
<1> USE DEF IInv
<1>1. /\ UNCHANGED <<plan, sealer, barrier, unseal, score, faults>>
      /\ launcher' = "dead" /\ joint' = FALSE /\ crashes' \in 0..MaxCrashes
  BY DEF LauncherDies, TypeOK
<1>2. ASSUME NEW c \in Pairs
      PROVE  /\ cell'[c] \in CellRecords
             /\ cell[c] = NewCell => cell'[c] = NewCell
             /\ cell'[c].session = cell[c].session /\ cell'[c].stage = cell[c].stage
             /\ cell'[c].mode = cell[c].mode /\ cell'[c].authorized = cell[c].authorized
             /\ cell'[c].predictions = cell[c].predictions
             /\ cell'[c].revealed = cell[c].revealed
             /\ cell'[c].kinds = cell[c].kinds /\ cell'[c].sealed = cell[c].sealed
  <2>1. cell[c] \in CellRecords
    BY DEF TypeOK
  <2>2. cell'[c] = IF cell[c].session = "finalizing" THEN cell[c]
                   ELSE [cell[c] EXCEPT !.process = "down"]
    BY DEF LauncherDies
  <2>3. cell[c] = NewCell => cell'[c] = NewCell
    BY <2>2 DEF NewCell
  <2> QED BY <2>1, <2>2, <2>3 DEF CellRecords
<1>3. Cells' = Cells
  BY <1>1 DEF Cells
<1>4. TypeOK'
  BY <1>1, <1>2, <1>3, ZenonT(40) DEF TypeOK, LauncherDies
<1>5. CellsHold'
  BY <1>1, <1>2, <1>3 DEF CellsHold, CellHolds, Formal
<1>6. ASSUME NEW c \in Pairs, NEW r, Settled(c, r) PROVE Settled(c, r)'
  BY <1>1, <1>2, <1>6 DEF Settled, ReceiptOf, Attested
<1>7. SealersHold'
  <2> SUFFICES ASSUME NEW s \in Sealers, sealer[s] # None, NEW d \in DOMAIN sealer[s]
               PROVE  Settled(d, sealer[s][d])'
    BY <1>1 DEF SealersHold
  <2>1. d \in Pairs /\ Settled(d, sealer[s][d])
    BY CellsArePairs DEF SealersHold, TypeOK
  <2>2. PICK r : r = sealer[s][d] /\ r = sealer'[s][d]
    BY <1>1
  <2> QED BY <1>6, <2>1, <2>2
<1>8. BarrierHolds'
  <2> SUFFICES ASSUME barrier # None, NEW d \in Cells PROVE Settled(d, barrier[d])'
    BY <1>1, <1>3 DEF BarrierHolds
  <2>1. d \in Pairs /\ Settled(d, barrier[d])
    BY CellsArePairs DEF BarrierHolds
  <2>2. PICK r : r = barrier[d] /\ r = barrier'[d]
    BY <1>1
  <2> QED BY <1>6, <2>1, <2>2
<1>9. PlanHolds' /\ UnsealHolds'
  BY <1>1 DEF PlanHolds, UnsealHolds
<1>10. ScoreHolds'
  BY <1>1, <1>2, <1>3, CellsArePairs DEF ScoreHolds
<1> QED BY <1>4, <1>5, <1>7, <1>8, <1>9, <1>10

-----------------------------------------------------------------------------
(* The invariant holds *)

LEMMA InitEstablishes == Init => IInv
<1> SUFFICES ASSUME Init PROVE IInv
  OBVIOUS
<1>1. Cells = {} /\ \A c \in Pairs : cell[c] = NewCell
  BY DEF Init, Cells
<1>2. TypeOK
  <2>1. crashes \in 0..MaxCrashes /\ faults \in 0..MaxFaults
    BY DEF Init
  <2>2. cell \in [Pairs -> CellRecords]
    BY NewCellType DEF Init
  <2>3. DOMAIN sealer = Sealers /\ \A s \in Sealers : sealer[s] = None
    BY DEF Init
  <2> QED BY <2>1, <2>2, <2>3, Zenon DEF Init, TypeOK, Unseals
<1>3. CellsHold
  <2>1. /\ NewCell.predictions = NewCell.revealed /\ NewCell.stage = 0
        /\ NewCell.mode = "none" /\ NewCell.authorized = FALSE
    BY DEF NewCell
  <2> QED BY <1>1, <2>1 DEF CellsHold, CellHolds, Formal
<1>4. PlanHolds /\ SealersHold /\ BarrierHolds /\ UnsealHolds /\ ScoreHolds
  BY DEF Init, PlanHolds, SealersHold, BarrierHolds, UnsealHolds, ScoreHolds
<1> QED BY <1>2, <1>3, <1>4 DEF IInv

LEMMA StutterKeeps == ASSUME IInv, UNCHANGED vars PROVE IInv'
<1> USE DEF IInv
<1>1. UNCHANGED <<plan, cell, sealer, barrier, unseal, launcher, joint, score, crashes, faults>>
  BY DEF vars
<1>2. Cells' = Cells /\ CellsHold' /\ \A d, r : Settled(d, r) => Settled(d, r)'
  BY <1>1, CellsStand
<1>3. TypeOK' /\ PlanHolds' /\ UnsealHolds' /\ ScoreHolds'
  BY <1>1, <1>2 DEF TypeOK, PlanHolds, UnsealHolds, ScoreHolds
<1>4. SealersHold' /\ BarrierHolds'
  BY <1>1, <1>2 DEF SealersHold, BarrierHolds
<1> QED BY <1>2, <1>3, <1>4

LEMMA NextPreserves == IInv /\ [Next]_vars => IInv'
<1> SUFFICES ASSUME IInv, [Next]_vars PROVE IInv'
  OBVIOUS
<1> QED BY SealPlanKeeps, CellStepKeeps, BeginSealKeeps, VisitKeeps, PublishBarrierKeeps,
           UnsealKeeps, SealScoreInputsKeeps, LauncherDiesKeeps, StutterKeeps DEF Next

\* The inductive invariant holds throughout every generation.
THEOREM InvariantHolds == Spec => []IInv
<1>1. Init => IInv
  BY InitEstablishes
<1>2. IInv /\ [Next]_vars => IInv'
  BY NextPreserves
<1> QED BY <1>1, <1>2, PTL DEF Spec

\* Every variable of the generation keeps its type.
THEOREM TypeCorrect == Spec => []TypeOK
<1>1. IInv => TypeOK
  BY DEF IInv
<1> QED BY <1>1, InvariantHolds, PTL

\* What the published barrier says of a cell stays true of it for ever.
THEOREM ReceiptsNeverStale == Spec => []ReceiptsStayTrue
<1>1. IInv => ReceiptsStayTrue
  BY DEF IInv, BarrierHolds, Settled, ReceiptsStayTrue
<1> QED BY <1>1, InvariantHolds, PTL

\* A formal generation whose scoring inputs are sealed has Ark evidence for
\* every answer of a physical arm.
THEOREM OnlyAttestedIsScored == Spec => []ScoredAnswersAreAttested
<1>1. IInv => ScoredAnswersAreAttested
  <2> SUFFICES ASSUME IInv, score # None, NEW c \in Cells
               PROVE  /\ cell[c].stage = 3
                      /\ plan.formal /\ c[2] \in Physical => Attested(c)
    BY DEF ScoredAnswersAreAttested
  <2>1. cell[c].stage = 3 /\ barrier # None
    BY DEF IInv, ScoreHolds
  <2>2. plan # None /\ ValidPlan(plan)
    BY DEF IInv, PlanHolds
  <2>3. c[2] \in plan.attestation => Attested(c)
    BY <2>1 DEF IInv, BarrierHolds, Settled
  <2> QED BY <2>1, <2>2, <2>3 DEF ValidPlan
<1> QED BY <1>1, InvariantHolds, PTL

-----------------------------------------------------------------------------
(* The refinement of JointUnseal *)

FinishedCells == {c \in Cells : cell[c].sealed /\ cell[c].revealed = Replay}
LabelledCells == {c \in Cells : Formal(c) /\ cell[c].stage >= 2}
Unsealed == unseal = "complete"
Scored == score # None /\ \A c \in Cells : Formal(c)

\* A plan has cells.
LEMMA PlanHasCells ==
    ASSUME IInv, plan # None PROVE Cells # {}
<1>1. ValidPlan(plan) /\ Cells = plan.cells
  BY DEF IInv, PlanHolds, Cells
<1>2. Admitted(plan) # {}
  BY <1>1 DEF ValidPlan, Admitted
<1>3. Cells = Folds \X Admitted(plan)
  BY <1>1 DEF ValidPlan
<1>4. PICK f \in Folds, a \in Admitted(plan) : TRUE
  BY <1>2
<1>5. <<f, a>> \in Cells
  BY <1>3, <1>4
<1> QED BY <1>5

\* A step of a cell finishes it, labels it, or is none of the generation's
\* business; labels come only after the joint unseal.
LEMMA CellStepMaps ==
    ASSUME IInv, NEW c \in Cells, CellStep(c)
    PROVE  /\ Cells' = Cells /\ Unsealed' = Unsealed /\ Scored' = Scored
           /\ \/ FinishedCells' = FinishedCells /\ LabelledCells' = LabelledCells
              \/ /\ c \notin FinishedCells /\ FinishedCells' = FinishedCells \cup {c}
                 /\ LabelledCells' = LabelledCells
              \/ /\ c \notin LabelledCells /\ LabelledCells' = LabelledCells \cup {c}
                 /\ FinishedCells' = FinishedCells /\ unseal = "complete"
<1> USE DEF IInv
<1>1. c \in Pairs /\ cell[c] \in CellRecords /\ CellHolds(c) /\ Cells \subseteq Pairs
  BY CellsArePairs DEF TypeOK, CellsHold
<1>2. PICK k : Update(c, k)
  BY DEF CellStep, LaunchCell, Predict, Reveal, RequestFails, SealPhase, TearLedger, Crash,
         Restart, Shuts, Authorize, SendFinalize, StartScoring, ContinueScoring, ScoringFails
<1>3. /\ UNCHANGED <<plan, unseal, score>> /\ Cells' = Cells
      /\ \A d \in Pairs \ {c} : cell'[d] = cell[d]
  BY <1>1, <1>2 DEF Update, TypeOK, Cells
<1>4. Unsealed' = Unsealed
  BY <1>3 DEF Unsealed
<1>5. /\ cell'[c].mode = cell[c].mode \/ cell[c].stage = 0
      /\ \/ cell'[c].mode = cell[c].mode /\ cell'[c].stage = cell[c].stage
         \/ cell[c].stage = 0 /\ cell'[c].stage \in {0, 1}
         \/ cell[c].stage = 1 /\ cell'[c].stage = 2 /\ cell'[c].mode = cell[c].mode
         \/ cell[c].stage = 2 /\ cell'[c].stage = 3 /\ cell'[c].mode = cell[c].mode
      /\ cell[c].sealed /\ cell[c].revealed = Replay =>
             cell'[c].sealed /\ cell'[c].revealed = Replay
      /\ cell'[c].stage # cell[c].stage =>
             cell'[c].sealed = cell[c].sealed /\ cell'[c].revealed = cell[c].revealed
  <2>1. \A new : Update(c, new) => cell'[c] = new
    BY <1>1 DEF Update, TypeOK
  <2>2. cell[c].session = "none" => cell[c].stage = 0
    BY <1>1 DEF CellHolds, NewCell
  <2>3. ASSUME NEW mode \in LaunchModes, LaunchCell(c, mode)
        PROVE  /\ cell[c].stage = 0 /\ cell'[c].stage = 0
               /\ cell'[c].sealed = cell[c].sealed /\ cell'[c].revealed = cell[c].revealed
    <3>1. cell'[c] = [cell[c] EXCEPT !.mode = mode, !.process = "up", !.session = "open"]
      BY <2>1, <2>3 DEF LaunchCell
    <3>2. cell[c].stage = 0
      BY <2>2, <2>3 DEF LaunchCell
    <3> QED BY <1>1, <3>1, <3>2 DEF CellRecords
  <2>4. ASSUME NEW kind \in Kinds, Predict(c, kind)
        PROVE  /\ cell'[c].mode = cell[c].mode /\ cell'[c].stage = cell[c].stage
               /\ ~cell[c].sealed
    BY <1>1, <2>4 DEF Predict, Update, TypeOK, CellRecords
  <2>5. ASSUME NEW event \in {0, 1}, NEW session, NEW up, event = 1 => MayReveal(c),
               cell'[c] = [cell[c] EXCEPT !.session = session, !.process = up,
                                          !.revealed = cell[c].revealed + event]
        PROVE  /\ cell'[c].mode = cell[c].mode /\ cell'[c].stage = cell[c].stage
               /\ cell[c].sealed /\ cell[c].revealed = Replay =>
                     cell'[c].sealed /\ cell'[c].revealed = Replay
    <3>1. cell[c].revealed = Replay => cell[c].revealed + event = Replay
      BY <1>1, <2>5 DEF MayReveal
    <3> DEFINE sum == cell[c].revealed + event
    <3>2. cell'[c] = [cell[c] EXCEPT !.session = session, !.process = up, !.revealed = sum]
      BY <2>5
    <3> HIDE DEF sum
    <3>3. /\ cell'[c].mode = cell[c].mode /\ cell'[c].stage = cell[c].stage
          /\ cell'[c].sealed = cell[c].sealed /\ cell'[c].revealed = sum
      BY <1>1, <3>2 DEF CellRecords
    <3> QED BY <3>1, <3>3 DEF sum
  <2>6. ASSUME \/ Reveal(c) \/ RequestFails(c) \/ SealPhase(c) \/ TearLedger(c) \/ Crash(c)
               \/ Restart(c) \/ Authorize(c) \/ SendFinalize(c) \/ ScoringFails(c)
        PROVE  /\ cell'[c].mode = cell[c].mode /\ cell'[c].stage = cell[c].stage
               /\ cell[c].sealed /\ cell[c].revealed = Replay =>
                     cell'[c].sealed /\ cell'[c].revealed = Replay
    <3> DEFINE Marked == {[cell[c] EXCEPT !.authorized = TRUE],
                          [cell[c] EXCEPT !.sealed = TRUE],
                          [cell[c] EXCEPT !.torn = TRUE]}
               Moved == {[cell[c] EXCEPT !.process = "down"],
                         [cell[c] EXCEPT !.process = "up"],
                         [cell[c] EXCEPT !.session = "finalizing"]}
               Stopped == {[cell[c] EXCEPT !.session = "aborted", !.process = "down"],
                           [cell[c] EXCEPT !.session = "shut", !.process = "down"]}
    <3>1. \/ cell'[c] \in Marked \cup Moved \cup Stopped
          \/ MayReveal(c) /\ cell'[c] = [cell[c] EXCEPT !.revealed = @ + 1]
          \/ Shuts(c)
      BY <2>1, <2>6 DEF Reveal, RequestFails, SealPhase, TearLedger, Crash, Restart, Authorize,
            SendFinalize, ScoringFails
    <3>2. CASE Shuts(c)
      <4>1. PICK event \in {0, 1} :
              /\ event = 1 => MayReveal(c)
              /\ Update(c, [cell[c] EXCEPT !.session = "shut", !.process = "down",
                                           !.revealed = @ + event])
        BY <3>2 DEF Shuts
      <4>2. cell'[c] = [cell[c] EXCEPT !.session = "shut", !.process = "down",
                                       !.revealed = cell[c].revealed + event]
        BY <2>1, <4>1
      <4> QED BY <2>5, <4>1, <4>2
    <3>3. CASE MayReveal(c) /\ cell'[c] = [cell[c] EXCEPT !.revealed = @ + 1]
      BY <1>1, <3>3 DEF MayReveal, CellRecords
    <3>4. ASSUME cell'[c] \in Marked
          PROVE  /\ cell'[c].mode = cell[c].mode /\ cell'[c].stage = cell[c].stage
                 /\ cell'[c].revealed = cell[c].revealed
                 /\ cell[c].sealed => cell'[c].sealed
      BY <1>1, <3>4 DEF CellRecords
    <3>5. ASSUME cell'[c] \in Moved
          PROVE  /\ cell'[c].mode = cell[c].mode /\ cell'[c].stage = cell[c].stage
                 /\ cell'[c].revealed = cell[c].revealed /\ cell'[c].sealed = cell[c].sealed
      BY <1>1, <3>5 DEF CellRecords
    <3>6. ASSUME cell'[c] \in Stopped
          PROVE  /\ cell'[c].mode = cell[c].mode /\ cell'[c].stage = cell[c].stage
                 /\ cell'[c].revealed = cell[c].revealed /\ cell'[c].sealed = cell[c].sealed
      BY <1>1, <3>6 DEF CellRecords
    <3> HIDE DEF Marked, Moved, Stopped
    <3> QED BY <3>1, <3>2, <3>3, <3>4, <3>5, <3>6
  <2>7. ASSUME StartScoring(c) \/ ContinueScoring(c)
        PROVE  /\ cell'[c].mode = cell[c].mode
               /\ cell'[c].sealed = cell[c].sealed /\ cell'[c].revealed = cell[c].revealed
               /\ \/ cell'[c].stage = cell[c].stage
                  \/ cell[c].stage \in 0..2 /\ cell'[c].stage = cell[c].stage + 1
    <3>1. \/ cell[c].stage = 0 /\ cell'[c] = [cell[c] EXCEPT !.stage = 1]
          \/ cell[c].stage < 3 /\ cell'[c] = [cell[c] EXCEPT !.stage = @ + 1]
          \/ cell'[c] = [cell[c] EXCEPT !.session = "aborted", !.process = "down"]
          \/ cell'[c] = [cell[c] EXCEPT !.session = "completed", !.process = "down"]
      BY <2>1, <2>7 DEF StartScoring, ContinueScoring
    <3>2. cell[c].stage \in 0..3
      BY <1>1 DEF CellRecords
    <3>3. ASSUME NEW n, cell'[c] = [cell[c] EXCEPT !.stage = n]
          PROVE  /\ cell'[c].mode = cell[c].mode /\ cell'[c].stage = n
                 /\ cell'[c].sealed = cell[c].sealed /\ cell'[c].revealed = cell[c].revealed
      BY <1>1, <3>3 DEF CellRecords
    <3>4. ASSUME NEW session, cell'[c] = [cell[c] EXCEPT !.session = session, !.process = "down"]
          PROVE  /\ cell'[c].mode = cell[c].mode /\ cell'[c].stage = cell[c].stage
                 /\ cell'[c].sealed = cell[c].sealed /\ cell'[c].revealed = cell[c].revealed
      BY <1>1, <3>4 DEF CellRecords
    <3>5. CASE cell[c].stage = 0 /\ cell'[c] = [cell[c] EXCEPT !.stage = 1]
      <4>1. cell'[c].stage = 1
        BY <3>3, <3>5
      <4>2. cell[c].stage \in 0..2 /\ cell'[c].stage = cell[c].stage + 1
        BY <3>5, <4>1
      <4> QED BY <3>3, <3>5, <4>2
    <3>6. CASE cell[c].stage < 3 /\ cell'[c] = [cell[c] EXCEPT !.stage = @ + 1]
      <4>1. cell'[c] = [cell[c] EXCEPT !.stage = cell[c].stage + 1]
        BY <3>6
      <4>2. /\ cell'[c].mode = cell[c].mode /\ cell'[c].stage = cell[c].stage + 1
            /\ cell'[c].sealed = cell[c].sealed /\ cell'[c].revealed = cell[c].revealed
        BY <3>3, <4>1
      <4>3. cell[c].stage \in 0..2
        BY <3>2, <3>6
      <4> QED BY <4>2, <4>3
    <3>7. CASE \/ cell'[c] = [cell[c] EXCEPT !.session = "aborted", !.process = "down"]
               \/ cell'[c] = [cell[c] EXCEPT !.session = "completed", !.process = "down"]
      BY <3>4, <3>7
    <3> QED BY <3>1, <3>5, <3>6, <3>7
  <2> QED BY <2>3, <2>4, <2>6, <2>7 DEF CellStep
<1>6. Scored' = Scored
  <2>1. CASE score = None
    BY <1>3, <2>1 DEF Scored
  <2>2. CASE score # None
    <3>1. cell[c].stage = 3
      BY <2>2 DEF ScoreHolds
    <3>2. \A d \in Cells : Formal(d)' = Formal(d)
      BY <1>1, <1>3, <1>5, <3>1 DEF Formal
    <3> QED BY <1>3, <3>2 DEF Scored
  <2> QED BY <2>1, <2>2
<1>7. \/ FinishedCells' = FinishedCells
      \/ c \notin FinishedCells /\ FinishedCells' = FinishedCells \cup {c}
  BY <1>1, <1>3, <1>5 DEF FinishedCells
<1>8. cell'[c].stage # cell[c].stage => FinishedCells' = FinishedCells
  BY <1>1, <1>3, <1>5 DEF FinishedCells
<1>9. \/ LabelledCells' = LabelledCells
      \/ /\ c \notin LabelledCells /\ LabelledCells' = LabelledCells \cup {c}
         /\ cell'[c].stage # cell[c].stage /\ unseal = "complete"
  <2>1. CASE Formal(c) /\ cell[c].stage = 1 /\ cell'[c].stage = 2 /\ cell'[c].mode = cell[c].mode
    <3>1. unseal = "complete"
      BY <1>1, <2>1 DEF CellHolds
    <3> QED BY <1>1, <1>3, <2>1, <3>1 DEF LabelledCells, Formal
  <2>2. CASE ~(Formal(c) /\ cell[c].stage = 1 /\ cell'[c].stage = 2 /\ cell'[c].mode = cell[c].mode)
    <3>1. (Formal(c) /\ cell[c].stage >= 2)' = (Formal(c) /\ cell[c].stage >= 2)
      BY <1>1, <1>5, <2>2 DEF Formal
    <3>2. \A d \in Cells : (Formal(d) /\ cell[d].stage >= 2)' = (Formal(d) /\ cell[d].stage >= 2)
      BY <1>1, <1>3, <3>1 DEF Formal
    <3> QED BY <1>3, <3>2 DEF LabelledCells
  <2> QED BY <2>1, <2>2
<1> QED BY <1>3, <1>4, <1>6, <1>7, <1>8, <1>9

\* The plan is sealed before anything else has happened.
LEMMA SealPlanMaps ==
    ASSUME IInv, NEW p \in Plans, SealPlan(p)
    PROVE  /\ Cells = {} /\ Cells' \in SUBSET Pairs
           /\ FinishedCells = {} /\ FinishedCells' = {}
           /\ LabelledCells = {} /\ LabelledCells' = {}
           /\ Unsealed' = Unsealed /\ Scored' = Scored
<1> USE DEF IInv
<1>1. /\ plan = None /\ plan' = p /\ UNCHANGED <<cell, unseal, score>>
      /\ score = None /\ Cells = {}
  BY DEF SealPlan, PlanHolds, Cells
<1>2. Cells' \in SUBSET Pairs
  BY <1>1 DEF Cells, Plans
<1>3. \A c \in Pairs : cell[c] = NewCell
  BY <1>1 DEF CellsHold, CellHolds
<1>4. \A c \in Pairs : ~cell[c].sealed /\ ~Formal(c)
  BY <1>3 DEF NewCell, Formal
<1>5. FinishedCells' = {} /\ LabelledCells' = {}
  BY <1>1, <1>2, <1>4 DEF FinishedCells, LabelledCells, Formal
<1>6. FinishedCells = {} /\ LabelledCells = {}
  BY <1>1 DEF FinishedCells, LabelledCells
<1>7. Unsealed' = Unsealed /\ Scored' = Scored
  BY <1>1 DEF Unsealed, Scored
<1> QED BY <1>1, <1>2, <1>5, <1>6, <1>7

\* The steps of the sealers, the coordinator and the launcher touch no cell;
\* the unseal comes after every cell of the plan has finished.
LEMMA OtherStepMaps ==
    ASSUME IInv,
           \/ \E s \in Sealers : BeginSeal(s) \/ PublishBarrier(s) \/ \E c \in Cells : Visit(s, c)
           \/ CreateUnseal \/ WriteUnseal \/ SealScoreInputs \/ LauncherDies \/ UNCHANGED vars
    PROVE  /\ Cells' = Cells /\ FinishedCells' = FinishedCells /\ LabelledCells' = LabelledCells
           /\ \/ Unsealed' = Unsealed /\ Scored' = Scored
              \/ /\ Cells # {} /\ FinishedCells = Cells /\ Unsealed' = TRUE /\ Scored' = Scored
              \/ /\ Cells # {} /\ LabelledCells = Cells /\ Scored' = TRUE /\ Unsealed' = Unsealed
<1> USE DEF IInv
<1>1. plan' = plan /\ Cells' = Cells /\ Cells \subseteq Pairs
  BY CellsArePairs DEF BeginSeal, PublishBarrier, Visit, CreateUnseal, WriteUnseal,
        SealScoreInputs, LauncherDies, vars, Cells
<1>2. \A c \in Pairs : /\ cell'[c].sealed = cell[c].sealed /\ cell'[c].stage = cell[c].stage
                       /\ cell'[c].revealed = cell[c].revealed /\ cell'[c].mode = cell[c].mode
  <2>1. CASE LauncherDies
    <3> SUFFICES ASSUME NEW c \in Pairs
                 PROVE  /\ cell'[c].sealed = cell[c].sealed /\ cell'[c].stage = cell[c].stage
                        /\ cell'[c].revealed = cell[c].revealed /\ cell'[c].mode = cell[c].mode
      OBVIOUS
    <3>1. cell'[c] \in {cell[c], [cell[c] EXCEPT !.process = "down"]} /\ cell[c] \in CellRecords
      BY <2>1 DEF LauncherDies, TypeOK
    <3> QED BY <3>1 DEF CellRecords
  <2>2. CASE ~LauncherDies
    <3>1. cell' = cell
      BY <2>2 DEF BeginSeal, PublishBarrier, Visit, CreateUnseal, WriteUnseal,
            SealScoreInputs, vars
    <3> QED BY <3>1
  <2> QED BY <2>1, <2>2
<1>3. FinishedCells' = FinishedCells /\ LabelledCells' = LabelledCells
  BY <1>1, <1>2 DEF FinishedCells, LabelledCells, Formal
<1>4. \A c \in Cells : Formal(c)' = Formal(c)
  BY <1>1, <1>2 DEF Formal
<1>5. CASE score' = score
  <2>1. Scored' = Scored
    BY <1>1, <1>4, <1>5 DEF Scored
  <2>2. CASE Unsealed' = Unsealed
    BY <1>1, <1>3, <2>1, <2>2
  <2>3. CASE Unsealed' # Unsealed
    <3>1. unseal' # unseal
      BY <2>3 DEF Unsealed
    <3>2. CreateUnseal \/ WriteUnseal
      BY <3>1 DEF BeginSeal, PublishBarrier, Visit, SealScoreInputs, LauncherDies, vars
    <3>3. plan # None /\ barrier # None /\ unseal \in {"none", "torn"}
      BY <3>2 DEF CreateUnseal, MayUnseal, BarrierVerifies, WriteUnseal, UnsealHolds
    <3>4. Unsealed = FALSE /\ Unsealed' = TRUE
      BY <2>3, <3>3 DEF Unsealed
    <3>5. FinishedCells = Cells
      BY <3>3 DEF FinishedCells, BarrierHolds, Settled
    <3> QED BY <1>1, <1>3, <2>1, <3>3, <3>4, <3>5, PlanHasCells
  <2> QED BY <2>2, <2>3
<1>6. CASE score' # score
  <2>1. SealScoreInputs
    BY <1>6 DEF BeginSeal, PublishBarrier, Visit, CreateUnseal, WriteUnseal, LauncherDies, vars
  <2>2. /\ plan # None /\ score = None /\ unseal' = unseal
        /\ \A c \in Cells : cell[c].stage = 3
    BY <2>1 DEF SealScoreInputs, CompleteRun
  <2>3. Unsealed' = Unsealed /\ Scored = FALSE
    BY <2>2 DEF Unsealed, Scored
  <2>4. CASE \A c \in Cells : Formal(c)
    <3>1. LabelledCells = Cells
      BY <2>2, <2>4 DEF LabelledCells
    <3>2. Scored' = TRUE
      BY <1>1, <1>4, <1>6, <2>2, <2>4 DEF Scored
    <3> QED BY <1>1, <1>3, <2>2, <2>3, <3>1, <3>2, PlanHasCells
  <2>5. CASE ~(\A c \in Cells : Formal(c))
    <3>1. Scored' = FALSE
      BY <1>1, <1>4, <2>5 DEF Scored
    <3> QED BY <1>1, <1>3, <2>3, <3>1
  <2> QED BY <2>4, <2>5
<1> QED BY <1>5, <1>6

\* Run by formal evaluators or not, every generation behaves as JointUnseal
\* promises: no formal cell gets labels before all predictions of the plan are
\* complete and the generation is unsealed, and only whole ones are scored.
THEOREM RefinesJointUnseal == Spec => KeepsJointUnseal
<1>1. Init => Promise!Init
  <2> SUFFICES ASSUME Init PROVE Promise!Init
    OBVIOUS
  <2>1. Cells = {} /\ unseal = "none" /\ score = None
    BY DEF Init, Cells
  <2> QED BY <2>1 DEF Promise!Init
<1>2. IInv /\ [Next]_vars => [Promise!Next]_(Promise!vars)
  <2> SUFFICES ASSUME IInv, [Next]_vars PROVE [Promise!Next]_(Promise!vars)
    OBVIOUS
  <2> USE DEF FinishedCells, LabelledCells, Unsealed, Scored
  <2>1. ASSUME NEW p \in Plans, SealPlan(p) PROVE [Promise!Next]_(Promise!vars)
    <3>1. CASE Cells' = {}
      BY <2>1, <3>1, SealPlanMaps DEF Promise!vars
    <3>2. CASE Cells' # {}
      BY <2>1, <3>2, SealPlanMaps DEF Promise!Next, Promise!Plan
    <3> QED BY <3>1, <3>2
  <2>2. ASSUME NEW c \in Cells, CellStep(c) PROVE [Promise!Next]_(Promise!vars)
    <3>1. c \in Pairs
      BY CellsArePairs DEF IInv
    <3> QED BY <2>2, <3>1, CellStepMaps DEF Promise!Next, Promise!vars, Promise!Finish, Promise!Label
  <2>3. CASE \/ \E s \in Sealers : BeginSeal(s) \/ PublishBarrier(s) \/ \E c \in Cells : Visit(s, c)
             \/ CreateUnseal \/ WriteUnseal \/ SealScoreInputs \/ LauncherDies \/ UNCHANGED vars
    BY <2>3, OtherStepMaps DEF Promise!Next, Promise!vars, Promise!Unseal, Promise!Score
  <2> QED BY <2>1, <2>2, <2>3 DEF Next
<1> QED BY <1>1, <1>2, InvariantHolds, PTL DEF Spec, KeepsJointUnseal, Promise!Spec
==============================================================================
