---------------------------- MODULE MCJSONLLedger ----------------------------
(* Instances of JSONLLedger for TLC. *)
EXTENDS JSONLLedger

CONSTANTS a, b

TwoIds == {a, b}
==============================================================================
