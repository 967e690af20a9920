---------------------------- MODULE MCArkOneShot ----------------------------
(* Instances of ArkOneShot for TLC. *)
EXTENDS ArkOneShot, TLC

CONSTANTS a1, a2, d1, d2, t1, t2

TwoAttempts == {a1, a2}
TwoAdapters == {d1, d2}
TwoTransports == {t1, t2}

\* Every way to share; a mock transport issues no receipts, so a formal adapter
\* never shares one with a mock adapter.
SoundWirings ==
    {w \in [adapter: [TwoAttempts -> TwoAdapters], transport: [TwoAdapters -> TwoTransports],
            lane: [TwoAdapters -> Lanes]] :
        \A d, e \in TwoAdapters :
            w.lane[d] = "formal" /\ w.lane[e] # "formal" => w.transport[d] # w.transport[e]}
=============================================================================
