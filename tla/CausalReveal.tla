---------------------------- MODULE CausalReveal ----------------------------
(***************************************************************************)
(* What the blind replay promises, without processes, pipes, journals or   *)
(* crashes: a hidden stream is shown to a forecaster one event at a time,  *)
(* each event only after a forecast from the event before it is durable,   *)
(* and labels are written only when everything has been shown.             *)
(***************************************************************************)
EXTENDS Naturals

CONSTANTS Context, NumEvents

VARIABLES
    revealed,    \* events that have left the hidden store
    seen,        \* events the forecaster has received
    committed,   \* origins with a durable forecast
    scored       \* labels exist

revealVars == <<revealed, seen, committed, scored>>

Init == revealed = 0 /\ seen = 0 /\ committed = {} /\ scored = FALSE

Expose ==
    /\ revealed < Context
    /\ revealed' = revealed + 1
    /\ UNCHANGED <<seen, committed, scored>>

Welcome ==
    /\ seen = 0 /\ revealed = Context
    /\ seen' = Context
    /\ UNCHANGED <<revealed, committed, scored>>

\* A forecast is made from the latest event received, never from a later one.
Commit ==
    /\ seen > 0
    /\ committed' = committed \cup {seen - 1}
    /\ UNCHANGED <<revealed, seen, scored>>

Reveal ==
    /\ seen = revealed /\ seen >= Context /\ revealed < NumEvents
    /\ revealed - 1 \in committed
    /\ revealed' = revealed + 1
    /\ UNCHANGED <<seen, committed, scored>>

See ==
    /\ seen >= Context /\ seen < revealed
    /\ seen' = seen + 1
    /\ UNCHANGED <<revealed, committed, scored>>

Score ==
    /\ seen = NumEvents /\ revealed = NumEvents
    /\ scored' = TRUE
    /\ UNCHANGED <<revealed, seen, committed>>

Next == Expose \/ Welcome \/ Commit \/ Reveal \/ See \/ Score

Spec == Init /\ [][Next]_revealVars
=============================================================================
