-------------------------- MODULE RenRecoveryProofs --------------------------
(***************************************************************************)
(* Machine-checked proofs about the recovery run, for every number of      *)
(* overlapping invocations and every number of changes of the inputs.      *)
(***************************************************************************)
EXTENDS RenRecovery, TLAPS

USE RecoveryAssumption

-----------------------------------------------------------------------------
(* The inductive invariant *)

\* What the seal of a phase says of the artifacts.
Told(ph) == [q \in Phases |-> IF q \in UpTo(ph) THEN "pass" ELSE "none"]

\* A seal, even a torn one, is made only over passing results, its own and
\* those of the phases before, and it says so.
SealsTell ==
    \A ph \in Phases :
        seal[ph].state # "absent" => /\ \A q \in UpTo(ph) : artifact[q] = "pass"
                                     /\ seal[ph].binds.artifacts = Told(ph)

\* The seals behind which R1C works.
Unlocked == seal["R1A"].state = "filled" /\ seal["R1B"].state = "filled"

Working == {"command", "transcript", "result", "seal", "fill"}

\* What an invocation may rely on at its control point: the seals it has verified
\* so far stay filled, whatever becomes of the inputs they were verified against.
Holds(p) ==
    LET ph == proc[p].phase
        pc == proc[p].at
    IN
    /\ pc \in {"mkdir", "mklocal", "policy", "archive"} => ph = "R1A"
    /\ ph = "R1B" => pc \notin {"sealR1B", "acquire"}
    /\ ph = "R1B" /\ pc \in Working \cup {"free"} => seal["R1A"].state = "filled"
    /\ ph = "R1C" /\ pc = "sealR1B" => seal["R1A"].state = "filled"
    /\ ph = "R1C" /\ pc \in Working \cup {"free", "acquire"} => Unlocked
    /\ pc \in {"seal", "fill"} => artifact[ph] = "pass"
    /\ pc = "fill" => seal[ph].state = "torn"
    /\ ph = "R1C" /\ pc = "command" => quarantine = "empty" /\ extractions = 0
    /\ ph = "R1C" /\ pc \in Working \ {"command"} => extractions = 1

ProcsHold == \A p \in Procs : Holds(p)

\* A torn seal has one writer, and the quarantine one extractor.
Alone ==
    \A p, q \in Procs :
        /\ proc[p].at = "fill" /\ proc[q].at = "fill" /\ proc[p].phase = proc[q].phase => p = q
        /\ /\ proc[p].at = "command" /\ proc[p].phase = "R1C"
           /\ proc[q].at = "command" /\ proc[q].phase = "R1C"
           => p = q

\* The quarantine is made once, behind the seals, and filled once; its manifest
\* passes only while it holds the listed bytes.
QuarantineHolds ==
    /\ extractions \in {0, 1}
    /\ quarantine = "absent" => extractions = 0
    /\ quarantine # "absent" => Unlocked
    /\ artifact["R1C"] # "none" => extractions = 1
    /\ artifact["R1C"] = "pass" => quarantine = "frozen"

\* An accepted run is complete.
AcceptedHolds ==
    accepted => /\ extractions = 1
                /\ \A ph \in Phases : seal[ph].state = "filled" /\ artifact[ph] = "pass"

IInv == TypeOK /\ SealsTell /\ ProcsHold /\ Alone /\ QuarantineHolds /\ AcceptedHolds

LEMMA ConstantTypes == Nothing \in Bindings /\ Unhashed \in [Inputs -> Bytes] /\ Idle \in Invocations
<1>1. Unhashed \in [Inputs -> Bytes]
  BY DEF Unhashed, Bytes
<1>2. Nothing \in Bindings
  BY <1>1 DEF Nothing, Bindings, Results
<1> QED BY <1>1, <1>2 DEF Idle, Invocations, Results, Phases, Points

\* What a seal binds is well formed.
LEMMA BoundIsBinding ==
    ASSUME TypeOK, NEW ph \in Phases, NEW inputs \in [Inputs -> Bytes]
    PROVE  Bound(ph, inputs) \in Bindings
BY DEF TypeOK, Bound, Bindings, Results

LEMMA GotoType ==
    ASSUME TypeOK, NEW p \in Procs, NEW pc \in Points, Goto(p, pc)
    PROVE  proc' \in [Procs -> Invocations]
BY DEF TypeOK, Goto, Invocations

LEMMA HearType ==
    ASSUME TypeOK, NEW p \in Procs, NEW result \in Results \cup {"differs"}, Hear(p, result)
    PROVE  proc' \in [Procs -> Invocations]
BY ZenonT(40) DEF TypeOK, Hear, Invocations, Points

-----------------------------------------------------------------------------
(* Type correctness *)

LEMMA TypeInit == Init => TypeOK
<1> SUFFICES ASSUME Init PROVE TypeOK
  OBVIOUS
<1>1. bytes \in [Inputs -> Bytes] /\ bytes["archive"] # "none"
  BY DEF Init, Inputs, Bytes
<1>2. seal \in [Phases -> Seals]
  BY ConstantTypes DEF Init, Seals
<1>3. proc \in [Procs -> Invocations]
  BY ConstantTypes DEF Init
<1>4. artifact \in [Phases -> Results]
  BY DEF Init, Results
<1>5. extractions \in Nat /\ edits \in 0..MaxEdits
  BY DEF Init
<1> QED BY <1>1, <1>2, <1>3, <1>4, <1>5, Zenon DEF Init, TypeOK

LEMMA TypeStep == TypeOK /\ [Next]_vars => TypeOK'
<1> SUFFICES ASSUME TypeOK, [Next]_vars PROVE TypeOK'
  OBVIOUS
<1>1. CASE UNCHANGED vars
  BY <1>1 DEF vars, TypeOK
<1>2. ASSUME NEW p \in Procs, NEW ph \in Phases, Start(p, ph) PROVE TypeOK'
  <2>1. proc' \in [Procs -> Invocations]
    BY <1>2, ConstantTypes DEF TypeOK, Start, Invocations, Points, Results
  <2> QED BY <1>2, <2>1 DEF TypeOK, Start
<1>3. ASSUME NEW p \in Procs, MakeOutput(p) \/ MakeLocal(p) PROVE TypeOK'
  <2>1. proc' \in [Procs -> Invocations]
    BY <1>3, GotoType DEF MakeOutput, MakeLocal, Points
  <2> QED BY <1>3, <2>1 DEF TypeOK, MakeOutput, MakeLocal
<1>4. ASSUME NEW p \in Procs,
             CheckPolicy(p) \/ CheckArchive(p) \/ HashInput(p) \/ VerifySeal(p) \/ CheckUnattempted(p)
      PROVE  TypeOK'
  <2>1. proc' \in [Procs -> Invocations]
    <3>1. CASE CheckPolicy(p) \/ CheckArchive(p) \/ CheckUnattempted(p)
      BY <3>1, GotoType DEF CheckPolicy, CheckArchive, CheckUnattempted, Points
    <3>2. CASE HashInput(p)
      <4>1. PICK f \in Inputs : \/ Goto(p, "fail")
                               \/ proc' = [proc EXCEPT ![p].hashed[f] = bytes[f]]
        BY <3>2 DEF HashInput, Inputs
      <4>2. CASE Goto(p, "fail")
        BY <4>2, GotoType DEF Points
      <4>3. CASE proc' = [proc EXCEPT ![p].hashed[f] = bytes[f]]
        <5>1. [proc[p] EXCEPT !.hashed[f] = bytes[f]] \in Invocations
          BY DEF TypeOK, Invocations
        <5> QED BY <4>3, <5>1 DEF TypeOK
      <4> QED BY <4>1, <4>2, <4>3
    <3>3. CASE VerifySeal(p)
      <4>1. PICK pc \in Points : proc' = [proc EXCEPT ![p].at = pc, ![p].hashed = Unhashed]
        BY <3>3 DEF VerifySeal, AfterSeal, Points
      <4>2. [proc[p] EXCEPT !.at = pc, !.hashed = Unhashed] \in Invocations
        BY ConstantTypes DEF TypeOK, Invocations
      <4> QED BY <4>1, <4>2 DEF TypeOK
    <3> QED BY <1>4, <3>1, <3>2, <3>3
  <2> QED BY <1>4, <2>1 DEF TypeOK, CheckPolicy, CheckArchive, HashInput, VerifySeal, CheckUnattempted
<1>5. ASSUME NEW p \in Procs, AcquireTool(p) PROVE TypeOK'
  <2>1. proc' \in [Procs -> Invocations]
    BY <1>5, GotoType DEF AcquireTool, Points
  <2>2. bytes' \in [Inputs -> Bytes] /\ bytes'["archive"] # "none"
    BY <1>5 DEF TypeOK, AcquireTool, Inputs, Bytes
  <2> QED BY <1>5, <2>1, <2>2 DEF TypeOK, AcquireTool
<1>6. ASSUME NEW p \in Procs, MakeQuarantine(p) PROVE TypeOK'
  <2>1. proc' \in [Procs -> Invocations]
    BY <1>6, GotoType DEF MakeQuarantine, Points
  <2> QED BY <1>6, <2>1 DEF TypeOK, MakeQuarantine
<1>7. ASSUME NEW p \in Procs, ListArchive(p) \/ TestArchive(p) PROVE TypeOK'
  <2>1. proc' \in [Procs -> Invocations]
    BY <1>7, HearType DEF ListArchive, TestArchive, Results
  <2> QED BY <1>7, <2>1 DEF TypeOK, ListArchive, TestArchive
<1>8. ASSUME NEW p \in Procs, Extract(p) PROVE TypeOK'
  <2>1. proc' \in [Procs -> Invocations]
    BY <1>8, HearType DEF Extract, Results
  <2>2. bytes["archive"] \in Bytes
    BY DEF TypeOK, Inputs
  <2> QED BY <1>8, <2>1, <2>2 DEF TypeOK, Extract, Bytes
<1>9. ASSUME NEW p \in Procs, PersistTranscript(p) PROVE TypeOK'
  <2>1. proc' \in [Procs -> Invocations]
    BY <1>9, GotoType DEF PersistTranscript, Points
  <2>2. proc[p].phase \in Phases
    BY DEF TypeOK, Invocations
  <2> QED BY <1>9, <2>1, <2>2 DEF TypeOK, PersistTranscript
<1>10. ASSUME NEW p \in Procs, WriteResult(p) PROVE TypeOK'
  <2>1. proc' \in [Procs -> Invocations]
    BY <1>10, GotoType DEF WriteResult, Points
  <2>2. artifact' \in [Phases -> Results]
    BY <1>10 DEF TypeOK, WriteResult, Results, ListingDiff, ArchiveTestReport,
                 ExtractionManifest, Verdict
  <2> QED BY <1>10, <2>1, <2>2 DEF TypeOK, WriteResult
<1>11. ASSUME NEW p \in Procs, CreateSeal(p) PROVE TypeOK'
  <2>1. proc' \in [Procs -> Invocations]
    BY <1>11, GotoType DEF CreateSeal, Points
  <2>2. seal' \in [Phases -> Seals]
    <3>1. proc[p].phase \in Phases /\ proc[p].hashed \in [Inputs -> Bytes]
      BY DEF TypeOK, Invocations
    <3>2. Bound(proc[p].phase, proc[p].hashed) \in Bindings
      BY <3>1, BoundIsBinding
    <3>3. [state |-> "torn", binds |-> Bound(proc[p].phase, proc[p].hashed)] \in Seals
      BY <3>2 DEF Seals
    <3> QED BY <1>11, <3>1, <3>3 DEF TypeOK, CreateSeal
  <2> QED BY <1>11, <2>1, <2>2 DEF TypeOK, CreateSeal
<1>12. ASSUME NEW p \in Procs, FillSeal(p) PROVE TypeOK'
  <2>1. proc' \in [Procs -> Invocations]
    BY <1>12, ConstantTypes DEF TypeOK, FillSeal
  <2>2. seal' \in [Phases -> Seals]
    BY <1>12 DEF TypeOK, FillSeal, Seals, Invocations
  <2> QED BY <1>12, <2>1, <2>2 DEF TypeOK, FillSeal
<1>13. ASSUME NEW p \in Procs, RecordBlock(p) \/ WriteFails(p) \/ Kill(p) PROVE TypeOK'
  <2>1. proc' \in [Procs -> Invocations]
    <3>1. CASE WriteFails(p)
      BY <3>1, GotoType DEF WriteFails, Points
    <3>2. CASE RecordBlock(p) \/ Kill(p)
      BY <3>2, ConstantTypes DEF TypeOK, RecordBlock, Kill
    <3> QED BY <1>13, <3>1, <3>2
  <2>2. proc[p].phase \in Phases
    BY DEF TypeOK, Invocations
  <2> QED BY <1>13, <2>1, <2>2 DEF TypeOK, RecordBlock, WriteFails, Kill
<1>14. ASSUME NEW f \in Inputs, Edit(f) PROVE TypeOK'
  BY <1>14 DEF TypeOK, Edit, Bytes
<1>15. CASE Verify
  BY <1>15 DEF TypeOK, Verify
<1> QED BY <1>1, <1>2, <1>3, <1>4, <1>5, <1>6, <1>7, <1>8, <1>9, <1>10, <1>11, <1>12, <1>13,
           <1>14, <1>15 DEF Next

-----------------------------------------------------------------------------
(* The invariant is inductive *)

Facts == SealsTell /\ ProcsHold /\ Alone /\ QuarantineHolds /\ AcceptedHolds

OthersStay(p) == \A q \in Procs \ {p} : proc'[q] = proc[q]

\* An invocation that leaves the results, seals and quarantine alone, and becomes
\* neither the writer of a seal nor the extractor, disturbs nothing but itself.
LEMMA QuietStep ==
    ASSUME IInv, NEW p \in Procs, OthersStay(p), Holds(p)',
           proc'[p].at # "fill", ~(proc'[p].at = "command" /\ proc'[p].phase = "R1C"),
           UNCHANGED <<artifact, seal, quarantine, extractions, accepted>>
    PROVE  Facts'
<1> USE DEF IInv
<1>1. SealsTell' /\ QuarantineHolds' /\ AcceptedHolds'
  BY DEF SealsTell, QuarantineHolds, AcceptedHolds, Unlocked
<1>2. ProcsHold'
  <2> SUFFICES ASSUME NEW q \in Procs, q # p PROVE Holds(q)'
    BY DEF ProcsHold
  <2>1. Holds(q) /\ proc'[q] = proc[q]
    BY DEF ProcsHold, OthersStay
  <2> QED BY <2>1 DEF Holds, Unlocked
<1>3. Alone'
  BY DEF Alone, OthersStay
<1> QED BY <1>1, <1>2, <1>3 DEF Facts

LEMMA GotoFrame ==
    ASSUME TypeOK, NEW p \in Procs, NEW pc, Goto(p, pc)
    PROVE  /\ OthersStay(p)
           /\ proc'[p].at = pc /\ proc'[p].phase = proc[p].phase
BY DEF TypeOK, Goto, OthersStay, Invocations

LEMMA HearFrame ==
    ASSUME TypeOK, NEW p \in Procs, NEW result, Hear(p, result)
    PROVE  OthersStay(p) /\ proc'[p].at = "transcript" /\ proc'[p].phase = proc[p].phase
BY DEF TypeOK, Hear, OthersStay, Invocations

LEMMA IdleFrame ==
    ASSUME TypeOK, NEW p \in Procs, proc' = [proc EXCEPT ![p] = Idle]
    PROVE  OthersStay(p) /\ proc'[p].at = "idle" /\ Holds(p)'
<1>1. OthersStay(p) /\ proc'[p] = Idle
  BY DEF TypeOK, OthersStay
<1> QED BY <1>1 DEF Idle, Holds, Working

LEMMA StartKeeps ==
    ASSUME IInv, NEW p \in Procs, NEW ph \in Phases, Start(p, ph)
    PROVE  Facts'
<1>1. /\ OthersStay(p) /\ proc'[p].phase = ph
      /\ proc'[p].at = IF ph = "R1A" THEN "mkdir" ELSE "sealR1A"
  BY DEF IInv, TypeOK, Start, OthersStay
<1>2. Holds(p)'
  BY <1>1 DEF Holds, Working
<1> QED BY <1>1, <1>2, QuietStep DEF Start

LEMMA MakeDirKeeps ==
    ASSUME IInv, NEW p \in Procs, MakeOutput(p) \/ MakeLocal(p)
    PROVE  Facts'
<1>1. /\ OthersStay(p) /\ proc'[p].at \in {"fail", "mklocal", "policy"}
      /\ proc'[p].phase = proc[p].phase
  BY GotoFrame DEF IInv, MakeOutput, MakeLocal
<1>2. proc[p].phase = "R1A"
  BY DEF IInv, ProcsHold, Holds, MakeOutput, MakeLocal
<1>3. Holds(p)'
  BY <1>1, <1>2 DEF Holds, Working
<1> QED BY <1>1, <1>3, QuietStep DEF MakeOutput, MakeLocal

LEMMA CheckR1AKeeps ==
    ASSUME IInv, NEW p \in Procs, CheckPolicy(p) \/ CheckArchive(p)
    PROVE  Facts'
<1>1. /\ OthersStay(p) /\ proc'[p].at \in {"fail", "archive", "acquire"}
      /\ proc'[p].phase = proc[p].phase
  BY GotoFrame DEF IInv, CheckPolicy, CheckArchive
<1>2. proc[p].phase = "R1A"
  BY DEF IInv, ProcsHold, Holds, CheckPolicy, CheckArchive
<1>3. Holds(p)'
  BY <1>1, <1>2 DEF Holds, Working
<1> QED BY <1>1, <1>3, QuietStep DEF CheckPolicy, CheckArchive

LEMMA HashInputKeeps ==
    ASSUME IInv, NEW p \in Procs, HashInput(p)
    PROVE  Facts'
<1> USE DEF IInv
<1>1. UNCHANGED <<artifact, seal, quarantine, extractions, accepted>> /\ proc[p].at \in Hashing
  BY DEF HashInput
<1>2. CASE Goto(p, "fail")
  <2>1. OthersStay(p) /\ proc'[p].at = "fail"
    BY <1>2, GotoFrame
  <2>2. Holds(p)'
    BY <2>1 DEF Holds, Working
  <2> QED BY <1>1, <2>1, <2>2, QuietStep
<1>3. CASE ~Goto(p, "fail")
  <2>1. PICK f : proc' = [proc EXCEPT ![p].hashed[f] = bytes[f]]
    BY <1>3 DEF HashInput
  <2>2. /\ OthersStay(p) /\ proc'[p].at = proc[p].at /\ proc'[p].phase = proc[p].phase
    BY <2>1 DEF TypeOK, Invocations, OthersStay
  <2>3. Holds(p)
    BY DEF ProcsHold
  <2>4. Holds(p)'
    BY <1>1, <2>2, <2>3 DEF Holds, Unlocked, Hashing
  <2> QED BY <1>1, <2>2, <2>4, QuietStep DEF Hashing
<1> QED BY <1>2, <1>3

\* R1C goes on to its second seal behind a filled first one, and past it behind
\* two: filled seals stay, though the inputs may be others by then.
LEMMA VerifySealKeeps ==
    ASSUME IInv, NEW p \in Procs, VerifySeal(p)
    PROVE  Facts'
<1> USE DEF IInv
<1> DEFINE ph == proc[p].phase
           pc == proc[p].at
<1>1. UNCHANGED <<artifact, seal, quarantine, extractions, accepted>> /\ Holds(p)
      /\ pc \in {"sealR1A", "sealR1B"}
  BY DEF VerifySeal, ProcsHold
<1>2. /\ OthersStay(p) /\ proc'[p].phase = ph
      /\ \/ proc'[p].at = "fail"
         \/ /\ proc'[p].at = AfterSeal(p)
            /\ pc = "sealR1A" => seal["R1A"].state = "filled"
            /\ pc = "sealR1B" => seal["R1B"].state = "filled"
  BY DEF VerifySeal, SealHolds, TypeOK, Invocations, OthersStay
<1>3. AfterSeal(p) \in {"sealR1B", "free"} /\ (AfterSeal(p) = "sealR1B" <=> ph = "R1C" /\ pc = "sealR1A")
  BY DEF AfterSeal
<1>4. (ph = "R1B" => pc # "sealR1B") /\ (ph = "R1C" /\ pc = "sealR1B" => seal["R1A"].state = "filled")
  BY <1>1 DEF Holds
<1> HIDE DEF ph, pc
<1>5. Holds(p)'
  BY <1>1, <1>2, <1>3, <1>4 DEF Holds, Working, Unlocked
<1> QED BY <1>1, <1>2, <1>3, <1>5, QuietStep

LEMMA CheckUnattemptedKeeps ==
    ASSUME IInv, NEW p \in Procs, CheckUnattempted(p)
    PROVE  Facts'
<1> DEFINE ph == proc[p].phase
<1>1. /\ OthersStay(p) /\ proc'[p].phase = ph
      /\ proc'[p].at \in {"fail", "command", "acquire"}
      /\ proc'[p].at = "command" => ph = "R1B"
      /\ proc'[p].at = "acquire" => ph # "R1B"
  BY GotoFrame DEF IInv, CheckUnattempted
<1>2. /\ ph = "R1B" => seal["R1A"].state = "filled"
      /\ ph = "R1C" => Unlocked
  BY DEF IInv, ProcsHold, Holds, CheckUnattempted
<1>3. UNCHANGED <<artifact, seal, quarantine, extractions, accepted>>
  BY DEF CheckUnattempted
<1> HIDE DEF ph
<1>4. Holds(p)'
  BY <1>1, <1>2, <1>3 DEF Holds, Working, Unlocked
<1> QED BY <1>1, <1>3, <1>4, QuietStep

LEMMA AcquireToolKeeps ==
    ASSUME IInv, NEW p \in Procs, AcquireTool(p)
    PROVE  Facts'
<1>1. OthersStay(p) /\ proc'[p].at \in {"fail", "command"} /\ proc'[p].phase = "R1A"
  BY GotoFrame DEF IInv, AcquireTool
<1>2. Holds(p)'
  BY <1>1 DEF Holds, Working
<1> QED BY <1>1, <1>2, QuietStep DEF AcquireTool

LEMMA ListOrTestKeeps ==
    ASSUME IInv, NEW p \in Procs, ListArchive(p) \/ TestArchive(p)
    PROVE  Facts'
<1>1. /\ OthersStay(p) /\ proc'[p].at = "transcript" /\ proc'[p].phase = proc[p].phase
      /\ proc[p].at = "command" /\ proc[p].phase \in {"R1A", "R1B"}
  BY HearFrame DEF IInv, ListArchive, TestArchive
<1>2. UNCHANGED <<artifact, seal, quarantine, extractions, accepted>>
  BY DEF ListArchive, TestArchive
<1>3. Holds(p)'
  BY <1>1, <1>2 DEF IInv, ProcsHold, Holds, Working
<1> QED BY <1>1, <1>2, <1>3, QuietStep

LEMMA PersistTranscriptKeeps ==
    ASSUME IInv, NEW p \in Procs, PersistTranscript(p)
    PROVE  Facts'
<1>1. /\ OthersStay(p) /\ proc'[p].at \in {"fail", "result"}
      /\ proc'[p].phase = proc[p].phase /\ proc[p].at = "transcript"
  BY GotoFrame DEF IInv, PersistTranscript
<1>2. UNCHANGED <<artifact, seal, quarantine, extractions, accepted>>
  BY DEF PersistTranscript
<1>3. Holds(p)'
  BY <1>1, <1>2 DEF IInv, ProcsHold, Holds, Working, Unlocked
<1> QED BY <1>1, <1>2, <1>3, QuietStep

LEMMA EndKeeps ==
    ASSUME IInv, NEW p \in Procs, RecordBlock(p) \/ WriteFails(p) \/ Kill(p)
    PROVE  Facts'
<1>1. UNCHANGED <<artifact, seal, quarantine, extractions, accepted>>
  BY DEF RecordBlock, WriteFails, Kill
<1>2. CASE WriteFails(p)
  <2>1. OthersStay(p) /\ proc'[p].at = "fail"
    BY <1>2, GotoFrame DEF IInv, WriteFails
  <2>2. Holds(p)'
    BY <2>1 DEF Holds, Working
  <2> QED BY <1>1, <2>1, <2>2, QuietStep
<1>3. CASE RecordBlock(p) \/ Kill(p)
  BY <1>1, <1>3, IdleFrame, QuietStep DEF IInv, RecordBlock, Kill
<1> QED BY <1>2, <1>3

\* The quarantine is made once: whoever finds it absent is its only extractor.
LEMMA MakeQuarantineKeeps ==
    ASSUME IInv, NEW p \in Procs, MakeQuarantine(p)
    PROVE  Facts'
<1> USE DEF IInv
<1>1. UNCHANGED <<artifact, seal, extractions, accepted>> /\ proc[p].phase = "R1C"
  BY DEF MakeQuarantine
<1>2. Unlocked /\ Unlocked'
  BY <1>1 DEF ProcsHold, Holds, MakeQuarantine, Unlocked
<1>3. CASE quarantine # "absent"
  <2>1. OthersStay(p) /\ proc'[p].at = "fail" /\ UNCHANGED quarantine
    BY <1>3, GotoFrame DEF MakeQuarantine
  <2>2. Holds(p)'
    BY <2>1 DEF Holds, Working
  <2> QED BY <1>1, <2>1, <2>2, QuietStep
<1>4. CASE quarantine = "absent"
  <2>1. /\ OthersStay(p) /\ proc'[p].at = "command" /\ proc'[p].phase = "R1C"
        /\ quarantine' = "empty"
    BY <1>1, <1>4, GotoFrame DEF MakeQuarantine
  <2>2. \A q \in Procs : ~(proc[q].at = "command" /\ proc[q].phase = "R1C")
    BY <1>4 DEF ProcsHold, Holds
  <2>3. extractions = 0 /\ artifact["R1C"] = "none"
    BY <1>4 DEF QuarantineHolds
  <2>4. SealsTell' /\ QuarantineHolds' /\ AcceptedHolds'
    BY <1>1, <1>2, <2>1, <2>3 DEF SealsTell, QuarantineHolds, AcceptedHolds
  <2>5. Alone'
    BY <2>1, <2>2 DEF Alone, OthersStay
  <2>6. ProcsHold'
    <3> SUFFICES ASSUME NEW q \in Procs PROVE Holds(q)'
      BY DEF ProcsHold
    <3>1. CASE q = p
      BY <1>1, <1>2, <2>1, <2>3, <3>1 DEF Holds, Working
    <3>2. CASE q # p
      <4>1. Holds(q) /\ proc'[q] = proc[q]
        BY <2>1, <3>2 DEF ProcsHold, OthersStay
      <4> QED BY <1>1, <1>2, <2>2, <4>1 DEF Holds
    <3> QED BY <3>1, <3>2
  <2> QED BY <2>4, <2>5, <2>6 DEF Facts
<1> QED BY <1>3, <1>4

\* The extractor runs unrar x for the first time, and there is no manifest yet.
LEMMA ExtractKeeps ==
    ASSUME IInv, NEW p \in Procs, Extract(p)
    PROVE  Facts'
<1> USE DEF IInv
<1>1. /\ UNCHANGED <<artifact, seal, accepted>> /\ extractions' = extractions + 1
      /\ proc[p].phase = "R1C" /\ proc[p].at = "command"
  BY DEF Extract
<1>2. OthersStay(p) /\ proc'[p].at = "transcript" /\ proc'[p].phase = "R1C"
  BY <1>1, HearFrame DEF Extract
<1>3. extractions = 0 /\ quarantine = "empty" /\ Unlocked /\ Unlocked'
  BY <1>1 DEF ProcsHold, Holds, Working, Unlocked
<1>4. quarantine' # "absent"
  BY DEF Extract, TypeOK, Bytes, Inputs
<1>5. artifact["R1C"] = "none" /\ ~accepted
  BY <1>3 DEF QuarantineHolds, AcceptedHolds
<1>6. SealsTell' /\ QuarantineHolds' /\ AcceptedHolds'
  BY <1>1, <1>3, <1>4, <1>5 DEF SealsTell, QuarantineHolds, AcceptedHolds
<1>7. Alone'
  BY <1>2 DEF Alone, OthersStay
<1>8. ProcsHold'
  <2> SUFFICES ASSUME NEW q \in Procs PROVE Holds(q)'
    BY DEF ProcsHold
  <2>1. CASE q = p
    BY <1>1, <1>2, <1>3, <2>1 DEF Holds, Working
  <2>2. CASE q # p
    <3>1. Holds(q) /\ proc'[q] = proc[q]
      BY <1>2, <2>2 DEF ProcsHold, OthersStay
    <3>2. ~(proc[q].phase = "R1C" /\ proc[q].at \in Working)
      BY <1>1, <1>3, <2>2, <3>1 DEF Holds, Working, Alone
    <3> QED BY <1>1, <3>1, <3>2 DEF Holds, Unlocked, Working
  <2> QED BY <2>1, <2>2
<1> QED BY <1>6, <1>7, <1>8 DEF Facts

\* A result is written where there was none, and that of R1C only by an
\* invocation that has extracted, after the scan.
LEMMA WriteResultKeeps ==
    ASSUME IInv, NEW p \in Procs, WriteResult(p)
    PROVE  Facts'
<1> USE DEF IInv
<1> DEFINE ph == proc[p].phase
<1>1. /\ UNCHANGED <<seal, quarantine, extractions, accepted>>
      /\ proc[p].at = "result" /\ ph \in Phases
  BY DEF WriteResult, TypeOK, Invocations
<1>2. /\ OthersStay(p) /\ proc'[p].phase = ph
      /\ proc'[p].at = "fail" \/ (proc'[p].at = "seal" /\ artifact'[ph] = "pass")
  BY GotoFrame DEF WriteResult
<1>3. /\ \A q \in Phases \ {ph} : artifact'[q] = artifact[q]
      /\ artifact[ph] # "none" => artifact' = artifact
      /\ artifact[ph] = "none" /\ ph = "R1C" /\ artifact'[ph] = "pass" => quarantine = "frozen"
  BY <1>1 DEF WriteResult, TypeOK, ExtractionManifest, Verdict
<1>4. \A q \in Phases : artifact[q] # "none" => artifact'[q] = artifact[q]
  BY <1>3
<1>5. ph = "R1C" => extractions = 1
  BY <1>1 DEF ProcsHold, Holds, Working
<1>6. SealsTell'
  BY <1>1, <1>4 DEF SealsTell, UpTo, Phases
<1>7. QuarantineHolds'
  BY <1>1, <1>3, <1>5 DEF QuarantineHolds, Unlocked, Phases
<1>8. AcceptedHolds'
  BY <1>1, <1>4 DEF AcceptedHolds
<1>9. Alone'
  BY <1>2 DEF Alone, OthersStay
<1>10. ProcsHold'
  <2> SUFFICES ASSUME NEW q \in Procs PROVE Holds(q)'
    BY DEF ProcsHold
  <2>1. Holds(q) /\ Holds(p) /\ proc[q].phase \in Phases
    BY DEF ProcsHold, TypeOK, Invocations
  <2>2. CASE q = p
    BY <1>1, <1>2, <1>5, <2>1, <2>2 DEF Holds, Working, Unlocked
  <2>3. CASE q # p
    <3>1. proc'[q] = proc[q]
      BY <1>2, <2>3 DEF OthersStay
    <3> QED BY <1>1, <1>4, <2>1, <3>1 DEF Holds, Unlocked
  <2> QED BY <2>2, <2>3
<1> QED BY <1>6, <1>7, <1>8, <1>9, <1>10 DEF Facts

\* Every result a new seal binds is a pass: its own, as its writer saw it, and
\* the earlier phases', whose seals the writer found.
LEMMA SealedResultsPass ==
    ASSUME IInv, NEW p \in Procs, proc[p].at \in {"seal", "fill"}
    PROVE  /\ \A q \in UpTo(proc[p].phase) : artifact[q] = "pass"
           /\ \A inputs : Bound(proc[p].phase, inputs).artifacts = Told(proc[p].phase)
<1> USE DEF IInv
<1>1. proc[p].phase \in Phases /\ Holds(p)
  BY DEF ProcsHold, TypeOK, Invocations
<1>2. artifact[proc[p].phase] = "pass"
  BY <1>1 DEF Holds
<1>3. proc[p].phase = "R1B" => artifact["R1A"] = "pass"
  BY <1>1 DEF Holds, Working, SealsTell, UpTo, Phases
<1>4. proc[p].phase = "R1C" => artifact["R1A"] = "pass" /\ artifact["R1B"] = "pass"
  BY <1>1 DEF Holds, Working, SealsTell, UpTo, Phases, Unlocked
<1>5. \A q \in UpTo(proc[p].phase) : artifact[q] = "pass"
  BY <1>1, <1>2, <1>3, <1>4 DEF UpTo, Phases
<1> QED BY <1>5 DEF Bound, Told

LEMMA CreateSealKeeps ==
    ASSUME IInv, NEW p \in Procs, CreateSeal(p)
    PROVE  Facts'
<1> USE DEF IInv
<1> DEFINE ph == proc[p].phase
<1>1. /\ UNCHANGED <<artifact, quarantine, extractions, accepted>>
      /\ proc[p].at = "seal" /\ ph \in Phases
  BY DEF CreateSeal, TypeOK, Invocations
<1>2. CASE ~NoSeal(ph)
  <2>1. OthersStay(p) /\ proc'[p].at = "fail" /\ UNCHANGED seal
    BY <1>2, GotoFrame DEF CreateSeal
  <2>2. Holds(p)'
    BY <2>1 DEF Holds, Working
  <2> QED BY <1>1, <2>1, <2>2, QuietStep
<1>3. CASE NoSeal(ph)
  <2>1. OthersStay(p) /\ proc'[p].at = "fill" /\ proc'[p].phase = ph
    BY <1>3, GotoFrame DEF CreateSeal
  <2>2. /\ seal'[ph].state = "torn" /\ seal[ph].state = "absent"
        /\ seal'[ph].binds = Bound(ph, proc[p].hashed)
        /\ \A q \in Phases \ {ph} : seal'[q] = seal[q]
    BY <1>1, <1>3 DEF CreateSeal, TypeOK, NoSeal, Seals
  <2>3. /\ \A q \in UpTo(ph) : artifact[q] = "pass"
        /\ seal'[ph].binds.artifacts = Told(ph)
    BY <1>1, <2>2, SealedResultsPass
  <2>4. Unlocked => Unlocked'
    BY <2>2 DEF Unlocked, Phases
  <2> HIDE DEF ph
  <2>5. SealsTell'
    BY <1>1, <2>2, <2>3 DEF SealsTell
  <2>6. QuarantineHolds' /\ AcceptedHolds'
    BY <1>1, <2>2, <2>4 DEF QuarantineHolds, AcceptedHolds
  <2>7. Holds(p)
    BY DEF ProcsHold
  <2>8. Holds(p)'
    BY <1>1, <2>1, <2>2, <2>3, <2>4, <2>7 DEF Holds, Working, Phases, ph
  <2>9. \A q \in Procs : ~(proc[q].at = "fill" /\ proc[q].phase = ph)
    BY <2>2 DEF ProcsHold, Holds
  <2>10. Alone'
    BY <2>1, <2>9 DEF Alone, OthersStay
  <2>11. ProcsHold'
    <3> SUFFICES ASSUME NEW q \in Procs, q # p PROVE Holds(q)'
      BY <2>8 DEF ProcsHold
    <3>1. Holds(q) /\ proc'[q] = proc[q] /\ proc[q].phase \in Phases
      BY <2>1 DEF ProcsHold, OthersStay, TypeOK, Invocations
    <3>2. seal'["R1A"].state = "filled" \/ seal["R1A"].state # "filled"
      BY <2>2 DEF Phases
    <3> QED BY <1>1, <2>2, <2>4, <2>9, <3>1, <3>2 DEF Holds
  <2> QED BY <2>5, <2>6, <2>10, <2>11 DEF Facts
<1> QED BY <1>2, <1>3

LEMMA FillSealKeeps ==
    ASSUME IInv, NEW p \in Procs, FillSeal(p)
    PROVE  Facts'
<1> USE DEF IInv
<1> DEFINE ph == proc[p].phase
<1>1. /\ UNCHANGED <<artifact, quarantine, extractions, accepted>>
      /\ proc[p].at = "fill" /\ ph \in Phases /\ Holds(p)
  BY DEF FillSeal, TypeOK, Invocations, ProcsHold
<1>2. OthersStay(p) /\ proc'[p].at = "idle" /\ Holds(p)'
  BY IdleFrame DEF FillSeal
<1>3. /\ seal[ph].state = "torn"
      /\ seal'[ph].state = "filled" /\ seal'[ph].binds = seal[ph].binds
      /\ \A q \in Phases \ {ph} : seal'[q] = seal[q]
  BY <1>1 DEF FillSeal, TypeOK, Holds, Seals
<1>4. Unlocked => Unlocked'
  BY <1>3 DEF Unlocked, Phases
<1> HIDE DEF ph
<1>5. SealsTell'
  BY <1>1, <1>3 DEF SealsTell
<1>6. QuarantineHolds' /\ AcceptedHolds'
  BY <1>1, <1>3, <1>4 DEF QuarantineHolds, AcceptedHolds
<1>7. Alone'
  BY <1>2 DEF Alone, OthersStay
<1>8. ProcsHold'
  <2> SUFFICES ASSUME NEW q \in Procs, q # p PROVE Holds(q)'
    BY <1>2 DEF ProcsHold
  <2>1. Holds(q) /\ proc'[q] = proc[q] /\ proc[q].phase \in Phases
    BY <1>2 DEF ProcsHold, OthersStay, TypeOK, Invocations
  <2>2. ~(proc[q].at = "fill" /\ proc[q].phase = ph)
    BY <1>1 DEF Alone, ph
  <2>3. seal["R1A"].state = "filled" => seal'["R1A"].state = "filled"
    BY <1>3 DEF Phases
  <2> QED BY <1>1, <1>3, <1>4, <2>1, <2>2, <2>3 DEF Holds
<1> QED BY <1>5, <1>6, <1>7, <1>8 DEF Facts

LEMMA OutsideKeeps ==
    ASSUME IInv, UNCHANGED vars \/ Verify \/ \E f \in Inputs : Edit(f)
    PROVE  Facts'
<1> USE DEF IInv
<1>1. UNCHANGED <<artifact, seal, quarantine, extractions, proc>>
  BY DEF vars, Verify, Edit
<1>2. SealsTell' /\ Alone'
  BY <1>1 DEF SealsTell, Alone
<1>3. QuarantineHolds'
  BY <1>1 DEF QuarantineHolds, Unlocked
<1>4. ProcsHold'
  BY <1>1 DEF ProcsHold, Holds, Unlocked
<1>5. AcceptedHolds'
  <2>1. CASE Verify
    <3>1. \A ph \in Phases : seal[ph].state = "filled" /\ artifact[ph] = "pass"
      BY <2>1 DEF Verify, Verifies, SealsHold, SealHolds, RebuildR1A, RebuildTestReport,
                  RebuildExtractionManifest, Phases
    <3>2. extractions = 1
      BY <3>1 DEF QuarantineHolds, Phases
    <3> QED BY <1>1, <3>1, <3>2 DEF AcceptedHolds
  <2>2. CASE ~Verify
    <3>1. UNCHANGED accepted
      BY <2>2 DEF vars, Edit
    <3> QED BY <1>1, <3>1 DEF AcceptedHolds
  <2> QED BY <2>1, <2>2
<1> QED BY <1>2, <1>3, <1>4, <1>5 DEF Facts

-----------------------------------------------------------------------------
(* The theorems *)

LEMMA InitEstablishes == Init => IInv
<1> SUFFICES ASSUME Init PROVE IInv
  OBVIOUS
<1>1. \A p \in Procs : proc[p].at = "idle"
  BY DEF Init, Idle
<1>2. ProcsHold /\ Alone
  BY <1>1 DEF ProcsHold, Holds, Working, Alone
<1>3. SealsTell /\ QuarantineHolds /\ AcceptedHolds
  BY DEF Init, SealsTell, QuarantineHolds, AcceptedHolds, Phases
<1> QED BY <1>2, <1>3, TypeInit DEF IInv

LEMMA NextPreserves == IInv /\ [Next]_vars => IInv'
<1> SUFFICES ASSUME IInv, [Next]_vars PROVE IInv'
  OBVIOUS
<1>1. TypeOK'
  BY TypeStep DEF IInv
<1>2. Facts'
  BY StartKeeps, MakeDirKeeps, CheckR1AKeeps, HashInputKeeps, VerifySealKeeps,
     CheckUnattemptedKeeps, AcquireToolKeeps, MakeQuarantineKeeps, ListOrTestKeeps, ExtractKeeps, PersistTranscriptKeeps, WriteResultKeeps,
     CreateSealKeeps, FillSealKeeps, EndKeeps, OutsideKeeps DEF Next
<1> QED BY <1>1, <1>2 DEF IInv, Facts

\* The inductive invariant holds throughout every recovery run.
THEOREM InvariantHolds == Spec => []IInv
<1>1. Init => IInv
  BY InitEstablishes
<1>2. IInv /\ [Next]_vars => IInv'
  BY NextPreserves
<1> QED BY <1>1, <1>2, PTL DEF Spec

\* Every variable of the recovery run keeps its type.
THEOREM TypeCorrect == Spec => []TypeOK
<1>1. IInv => TypeOK
  BY DEF IInv
<1> QED BY <1>1, InvariantHolds, PTL

\* unrar x runs at most once, behind filled seals of R1A and R1B over the passing
\* reports on disk, for any number of overlapping invocations and of changes of
\* the inputs between the hashings.
THEOREM ExtractedOnceWhenEarned == Spec => []ExtractionIsEarned
<1>1. IInv => ExtractionIsEarned
  <2> SUFFICES ASSUME IInv PROVE ExtractionIsEarned
    OBVIOUS
  <2>1. extractions <= 1
    BY DEF IInv, QuarantineHolds
  <2>2. ASSUME quarantine # "absent", NEW ph \in {"R1A", "R1B"}
        PROVE  /\ seal[ph].state = "filled" /\ artifact[ph] = "pass"
               /\ \A q \in UpTo(ph) : seal[ph].binds.artifacts[q] = artifact[q]
    <3>1. seal[ph].state = "filled" /\ ph \in Phases /\ ph \in UpTo(ph)
      BY <2>2 DEF IInv, QuarantineHolds, Unlocked, Phases, UpTo
    <3>2. /\ \A q \in UpTo(ph) : artifact[q] = "pass"
          /\ seal[ph].binds.artifacts = Told(ph)
      BY <3>1 DEF IInv, SealsTell
    <3>3. UpTo(ph) \subseteq Phases
      BY <3>1 DEF UpTo, Phases
    <3> QED BY <3>1, <3>2, <3>3 DEF Told
  <2> QED BY <2>1, <2>2 DEF ExtractionIsEarned
<1> QED BY <1>1, InvariantHolds, PTL

\* The seal of R1C, torn or whole, stands for a complete extraction of the
\* listed bytes.
THEOREM ReleasedOnlyListed == Spec => []ReleaseIsListed
<1>1. IInv => ReleaseIsListed
  BY DEF IInv, ReleaseIsListed, NoSeal, SealsTell, QuarantineHolds, UpTo, Phases
<1> QED BY <1>1, InvariantHolds, PTL

\* The steps that change a result, a seal, the quarantine, a transcript or a
\* record do it only where there was none: nothing on disk is replaced, and an
\* accepted run is left as the verifier saw it.
LEMMA StepStands ==
    ASSUME IInv, [Next]_vars
    PROVE  /\ \A ph \in Phases :
                 /\ artifact[ph] # "none" => artifact'[ph] = artifact[ph]
                 /\ seal[ph].state = "filled" => seal'[ph] = seal[ph]
           /\ transcript \subseteq transcript' /\ blocked \subseteq blocked'
           /\ ~accepted /\ accepted' => blocked = {}
           /\ accepted => seal' = seal /\ artifact' = artifact /\ quarantine' = quarantine
<1> USE DEF IInv
<1>1. ASSUME NEW p \in Procs, WriteResult(p)
      PROVE  /\ \A ph \in Phases : artifact[ph] # "none" => artifact'[ph] = artifact[ph]
             /\ accepted => artifact' = artifact
  <2>1. proc[p].phase \in Phases
    BY DEF TypeOK, Invocations
  <2>2. /\ \A ph \in Phases \ {proc[p].phase} : artifact'[ph] = artifact[ph]
        /\ artifact[proc[p].phase] # "none" => artifact' = artifact
    BY <1>1 DEF WriteResult, TypeOK
  <2> QED BY <2>1, <2>2 DEF AcceptedHolds
<1>2. ASSUME NEW p \in Procs, CreateSeal(p) \/ FillSeal(p)
      PROVE  /\ \A ph \in Phases : seal[ph].state = "filled" => seal'[ph] = seal[ph]
             /\ accepted => seal' = seal
  <2>1. proc[p].phase \in Phases /\ Holds(p)
    BY DEF TypeOK, Invocations, ProcsHold
  <2>2. /\ \A ph \in Phases \ {proc[p].phase} : seal'[ph] = seal[ph]
        /\ seal' = seal \/ seal[proc[p].phase].state # "filled"
    BY <1>2, <2>1 DEF CreateSeal, FillSeal, TypeOK, NoSeal, Holds
  <2> QED BY <2>1, <2>2 DEF AcceptedHolds
<1>3. ASSUME NEW p \in Procs, MakeQuarantine(p) \/ Extract(p)
      PROVE  accepted => quarantine' = quarantine
  <2> SUFFICES ASSUME accepted PROVE quarantine' = quarantine
    OBVIOUS
  <2>1. extractions = 1 /\ quarantine # "absent"
    BY DEF AcceptedHolds, QuarantineHolds, Phases
  <2>2. Extract(p) => extractions = 0
    BY DEF Extract, ProcsHold, Holds
  <2>3. MakeQuarantine(p) => quarantine' = quarantine
    BY <2>1 DEF MakeQuarantine
  <2> QED BY <1>3, <2>1, <2>2, <2>3
<1>4. CASE Verify \/ UNCHANGED vars \/ \E f \in Inputs : Edit(f)
  BY <1>4 DEF Verify, Verifies, ExactSets, Edit, vars
<1>5. ASSUME NEW p \in Procs,
             \/ \E ph \in Phases : Start(p, ph)
             \/ MakeOutput(p) \/ MakeLocal(p) \/ CheckPolicy(p) \/ CheckArchive(p)
             \/ HashInput(p) \/ VerifySeal(p) \/ CheckUnattempted(p) \/ AcquireTool(p)
             \/ ListArchive(p) \/ TestArchive(p) \/ PersistTranscript(p)
             \/ RecordBlock(p) \/ WriteFails(p) \/ Kill(p)
      PROVE  /\ UNCHANGED <<artifact, seal, quarantine, accepted>>
             /\ transcript \subseteq transcript' /\ blocked \subseteq blocked'
  BY <1>5 DEF Start, MakeOutput, MakeLocal, CheckPolicy, CheckArchive, HashInput, VerifySeal,
              CheckUnattempted, AcquireTool, ListArchive, TestArchive, PersistTranscript, RecordBlock, WriteFails, Kill
<1>6. ASSUME NEW p \in Procs,
             WriteResult(p) \/ CreateSeal(p) \/ FillSeal(p) \/ MakeQuarantine(p) \/ Extract(p)
      PROVE  UNCHANGED <<transcript, blocked, accepted>>
  BY <1>6 DEF WriteResult, CreateSeal, FillSeal, MakeQuarantine, Extract
<1>7. ASSUME NEW p \in Procs, CreateSeal(p) \/ FillSeal(p) \/ MakeQuarantine(p) \/ Extract(p)
      PROVE  UNCHANGED artifact
  BY <1>7 DEF CreateSeal, FillSeal, MakeQuarantine, Extract
<1>8. ASSUME NEW p \in Procs, WriteResult(p) \/ MakeQuarantine(p) \/ Extract(p)
      PROVE  UNCHANGED seal
  BY <1>8 DEF WriteResult, MakeQuarantine, Extract
<1>9. ASSUME NEW p \in Procs, WriteResult(p) \/ CreateSeal(p) \/ FillSeal(p)
      PROVE  UNCHANGED quarantine
  BY <1>9 DEF WriteResult, CreateSeal, FillSeal
<1> QED BY <1>1, <1>2, <1>3, <1>4, <1>5, <1>6, <1>7, <1>8, <1>9 DEF Next

\* Results, seals, transcripts and records are never replaced or withdrawn; the
\* verifier accepts no run with a failure on record, and what it accepted stays.
THEOREM RunStandsHolds == Spec => RunStands
<1>1. IInv /\ [Next]_vars =>
        [ /\ \A ph \in Phases :
                /\ artifact[ph] # "none" => artifact'[ph] = artifact[ph]
                /\ seal[ph].state = "filled" => seal'[ph] = seal[ph]
          /\ transcript \subseteq transcript' /\ blocked \subseteq blocked'
          /\ ~accepted /\ accepted' => blocked = {}
          /\ accepted => seal' = seal /\ artifact' = artifact /\ quarantine' = quarantine ]_vars
  BY StepStands
<1> QED BY <1>1, InvariantHolds, PTL DEF Spec, RunStands
==============================================================================
