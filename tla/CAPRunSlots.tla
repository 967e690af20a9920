----------------------------- MODULE CAPRunSlots -----------------------------
(***************************************************************************)
(* The run directory implements OneShotSlots: the stage of a slot is read  *)
(* off the durable ledgers alone, so it survives every crash.              *)
(***************************************************************************)
EXTENDS CAPRun

SlotStage(o) ==
    IF \E i \in DOMAIN checkpoints : checkpoints[i].origin = o THEN "CHECKPOINTED"
    ELSE IF Committed(o) THEN "DECIDED"
    ELSE IF Finished(o) THEN "CLOSED"
    ELSE IF Started(o) THEN "CONSUMED"
    ELSE "FREE"

SlotVerdict(o) ==
    IF ~Committed(o) THEN "NONE"
    ELSE IF predictions[Only(CommitsOf(o))].execution.error THEN "FALLBACK" ELSE "OWN"

Abstract == INSTANCE OneShotSlots WITH
    Slots <- Origins,
    Local <- (PhysicalCalls = 0),
    stage <- [o \in Origins |-> SlotStage(o)],
    called <- [o \in Origins |-> sent[o] > 0],
    verdict <- [o \in Origins |-> SlotVerdict(o)]

\* Every step of the run directory is a step of a one-shot slot or leaves all
\* slots alone: ledger appends, crashes and recoveries never reopen, re-call,
\* re-decide or skip a stage of a slot.
ImplementsOneShotSlots == Abstract!Spec
==============================================================================
