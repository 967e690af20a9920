----------------------------- MODULE OneShotSlots -----------------------------
(***************************************************************************)
(* What an accuracy_v1 run promises about its slots, without ledgers,      *)
(* processes, crashes or retries: a slot is consumed once, called at most  *)
(* once, closed once, decided once, and checkpointed once; only a called   *)
(* slot (or a local arm) may be decided by anything but the fallback.      *)
(***************************************************************************)
CONSTANTS Slots, Local

VARIABLES stage, called, verdict

slotVars == <<stage, called, verdict>>

Stages == {"FREE", "CONSUMED", "CLOSED", "DECIDED", "CHECKPOINTED"}
Verdicts == {"NONE", "OWN", "FALLBACK"}

Init ==
    /\ stage = [o \in Slots |-> "FREE"]
    /\ called = [o \in Slots |-> FALSE]
    /\ verdict = [o \in Slots |-> "NONE"]

Advance(o, from, to) ==
    /\ stage[o] = from
    /\ stage' = [stage EXCEPT ![o] = to]

Consume(o) == Advance(o, "FREE", "CONSUMED") /\ UNCHANGED <<called, verdict>>

Call(o) ==
    /\ stage[o] = "CONSUMED" /\ ~called[o] /\ ~Local
    /\ called' = [called EXCEPT ![o] = TRUE]
    /\ UNCHANGED <<stage, verdict>>

CloseSlot(o) == Advance(o, "CONSUMED", "CLOSED") /\ UNCHANGED <<called, verdict>>

Decide(o, v) ==
    /\ Advance(o, "CLOSED", "DECIDED")
    /\ v = "OWN" => called[o] \/ Local
    /\ verdict' = [verdict EXCEPT ![o] = v]
    /\ UNCHANGED called

Checkpoint(o) == Advance(o, "DECIDED", "CHECKPOINTED") /\ UNCHANGED <<called, verdict>>

Next ==
    \E o \in Slots :
        \/ Consume(o) \/ Call(o) \/ CloseSlot(o) \/ Checkpoint(o)
        \/ \E v \in {"OWN", "FALLBACK"} : Decide(o, v)

Spec == Init /\ [][Next]_slotVars
===============================================================================
