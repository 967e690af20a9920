---------------------------- MODULE DurableLedger ----------------------------
(***************************************************************************)
(* What a user of a JSONL ledger may assume of it: a sequence of records,  *)
(* one holder at a time, and two ways of going wrong.  `stale': an append  *)
(* reached the file but failed, so the holder's tail is behind the file.   *)
(* `broken': the file no longer verifies, and nobody can take it again.    *)
(* CAPRun uses its four ledgers this way.                                  *)
(***************************************************************************)
EXTENDS Sequences, Naturals

VARIABLES records, held, stale, broken

ledgerVars == <<records, held, stale, broken>>

Init == records = <<>> /\ held = FALSE /\ stale = FALSE /\ broken = FALSE

Grown(new) == /\ Len(new) = Len(records) + 1
              /\ SubSeq(new, 1, Len(records)) = records

\* Only a ledger that verifies can be taken.
Take == /\ ~held /\ ~broken
        /\ held' = TRUE /\ stale' = FALSE
        /\ UNCHANGED <<records, broken>>

Drop == held /\ held' = FALSE /\ stale' = FALSE /\ UNCHANGED <<records, broken>>

\* A whole record is written; over a stale tail it breaks the ledger.
Write == /\ held /\ UNCHANGED held
         /\ Grown(records')
         /\ broken' = (broken \/ stale)
         /\ stale' \in {stale, TRUE}

\* Part of a record is written, or a record after such a part.
Tear == /\ held /\ held' \in BOOLEAN
        /\ broken' = TRUE
        /\ stale' \in BOOLEAN
        /\ records' = records

\* The machine stops: an unsynced end of the file may be lost or cut; if no
\* record is lost the ledger is at worst as broken as it was.
LoseTail == /\ held' = FALSE /\ stale' = FALSE
            /\ Len(records') <= Len(records)
            /\ records' = SubSeq(records, 1, Len(records'))
            /\ broken' /\ records' = records => broken

Next == Take \/ Drop \/ Write \/ Tear \/ LoseTail

Spec == Init /\ [][Next]_ledgerVars
==============================================================================
