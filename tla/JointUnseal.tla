---------------------------- MODULE JointUnseal ----------------------------
(***************************************************************************)
(* What a formal generation promises, whatever its processes do: its cells *)
(* are fixed first and finish their predictions one by one, the generation *)
(* is unsealed once and as a whole, and only then does any cell get labels;*)
(* the statistics start from the labelled cells of the whole generation.   *)
(***************************************************************************)
CONSTANT Cells

VARIABLES
    owed,       \* the cells of the generation; none before it is planned
    finished,   \* cells whose predictions and replay are complete
    unsealed,   \* the generation has been unsealed
    labelled,   \* cells with labels on disk
    scored      \* the input of the statistics is sealed

vars == <<owed, finished, unsealed, labelled, scored>>

Init == owed = {} /\ finished = {} /\ unsealed = FALSE /\ labelled = {} /\ scored = FALSE

Plan(S) ==
    /\ owed = {} /\ S # {}
    /\ owed' = S
    /\ UNCHANGED <<finished, unsealed, labelled, scored>>

Finish(c) ==
    /\ c \in owed \ finished
    /\ finished' = finished \cup {c}
    /\ UNCHANGED <<owed, unsealed, labelled, scored>>

Unseal ==
    /\ owed # {} /\ finished = owed
    /\ unsealed' = TRUE
    /\ UNCHANGED <<owed, finished, labelled, scored>>

Label(c) ==
    /\ unsealed /\ c \in owed \ labelled
    /\ labelled' = labelled \cup {c}
    /\ UNCHANGED <<owed, finished, unsealed, scored>>

Score ==
    /\ owed # {} /\ labelled = owed
    /\ scored' = TRUE
    /\ UNCHANGED <<owed, finished, unsealed, labelled>>

Next ==
    \/ \E S \in SUBSET Cells : Plan(S)
    \/ \E c \in Cells : Finish(c) \/ Label(c)
    \/ Unseal \/ Score

Spec == Init /\ [][Next]_vars
=============================================================================
