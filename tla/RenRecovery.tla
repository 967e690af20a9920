----------------------------- MODULE RenRecovery -----------------------------
(***************************************************************************)
(* One Ren P1-R1 recovery run: the phases R1A (identity, tool, listing),   *)
(* R1B (archive test) and R1C (extraction), each its own invocation of     *)
(* experiments/audit_cap/ren_p1r1_recovery.py, and the independent         *)
(* verifier verify_ren_p1r1_recovery.py.                                   *)
(*                                                                         *)
(* Invocations share nothing but the run's directories.  They may overlap, *)
(* be killed, and be repeated; and while a command of two hours runs, the  *)
(* inputs it reads may be changed and changed back by other work in the    *)
(* tree.                                                                   *)
(*                                                                         *)
(* Abstractions.  A file is whether its bytes are the frozen ones.  The    *)
(* artifacts and transcripts a phase writes together are one file with the *)
(* phase's result, which only invocations touch.  The project's other      *)
(* frozen authorities (plan, packet, approval, release, prior ledger) are  *)
(* among the policy, and the tool is all that was unpacked of it: each of  *)
(* the three inputs is hashed at one moment, whenever it is hashed.  The   *)
(* verifier reads at one moment.                                           *)
(***************************************************************************)
EXTENDS Integers, FiniteSets

CONSTANTS
    Procs,     \* invocations that may be under way at a time
    MaxEdits   \* bound on changes to the inputs by others

ASSUME RecoveryAssumption == MaxEdits \in Nat

Phases == {"R1A", "R1B", "R1C"}

\* What a seal binds beside the artifacts; the tool arrives with R1A.
Inputs == {"archive", "policy", "tool"}
Bytes == {"none", "frozen", "other"}

\* The phases whose artifacts a phase's seal binds.
UpTo(ph) == CASE ph = "R1A" -> {"R1A"} [] ph = "R1B" -> {"R1A", "R1B"} [] OTHER -> Phases

VARIABLES
    bytes,       \* the inputs' bytes
    output, local,  \* the run's two directories exist
    transcript,  \* phases whose command transcripts are on disk
    artifact,    \* per phase: "none", or the result its artifacts tell
    seal,        \* per phase: whether it is there, and what it binds, or will
    quarantine,  \* the extraction directory: "absent", or what it holds
    blocked,     \* BLOCKED records
    proc,        \* the invocations
    extractions, \* how often unrar x was run
    accepted,    \* the verifier accepted the run
    edits

vars == <<bytes, output, local, transcript, artifact, seal, quarantine, blocked, proc,
          extractions, accepted, edits>>

Unhashed == [f \in Inputs |-> "none"]

Nothing == [inputs |-> Unhashed, artifacts |-> [ph \in Phases |-> "none"]]

Idle == [phase |-> "R1A", at |-> "idle", got |-> "none", hashed |-> Unhashed]

Points == {"idle", "mkdir", "mklocal", "policy", "archive", "sealR1A", "sealR1B", "free",
           "acquire", "command", "transcript", "result", "seal", "fill", "fail"}

Init ==
    /\ bytes = [archive |-> "frozen", policy |-> "frozen", tool |-> "none"]
    /\ output = FALSE /\ local = FALSE
    /\ transcript = {}
    /\ artifact = [ph \in Phases |-> "none"]
    /\ seal = [ph \in Phases |-> [state |-> "absent", binds |-> Nothing]]
    /\ quarantine = "absent"
    /\ blocked = {}
    /\ proc = [p \in Procs |-> Idle]
    /\ extractions = 0
    /\ accepted = FALSE
    /\ edits = 0

Goto(p, pc) == proc' = [proc EXCEPT ![p].at = pc]

\* The files of _r1a_files, _r1b_files and of R1C, behind the hashes of the inputs.
Bound(ph, inputs) ==
    [inputs |-> inputs,
     artifacts |-> [q \in Phases |-> IF q \in UpTo(ph) THEN artifact[q] ELSE "none"]]

\* _verify_seal: the seal parses and binds what was hashed.
SealHolds(ph, inputs) == seal[ph].state = "filled" /\ seal[ph].binds = Bound(ph, inputs)

NoSeal(ph) == seal[ph].state = "absent"

-----------------------------------------------------------------------------
(* The start of an invocation *)

\* Paths.build: a failure here leaves no record.
Start(p, ph) ==
    /\ proc[p].at = "idle"
    /\ IF ph = "R1A" THEN ~output /\ ~local ELSE output /\ local /\ blocked = {}
    /\ proc' = [proc EXCEPT ![p] = [phase |-> ph, at |-> IF ph = "R1A" THEN "mkdir" ELSE "sealR1A",
                                    got |-> "none", hashed |-> Unhashed]]
    /\ UNCHANGED <<bytes, output, local, transcript, artifact, seal, quarantine, blocked,
                   extractions, accepted, edits>>

\* The exclusive mkdirs of r1a.
MakeOutput(p) ==
    /\ proc[p].at = "mkdir"
    /\ output' = TRUE
    /\ Goto(p, IF output THEN "fail" ELSE "mklocal")
    /\ UNCHANGED <<bytes, local, transcript, artifact, seal, quarantine, blocked,
                   extractions, accepted, edits>>

MakeLocal(p) ==
    /\ proc[p].at = "mklocal"
    /\ local' = TRUE
    /\ Goto(p, IF local THEN "fail" ELSE "policy")
    /\ UNCHANGED <<bytes, output, transcript, artifact, seal, quarantine, blocked,
                   extractions, accepted, edits>>

\* R1A checks the release, the hashes of the frozen authorities and the approval...
CheckPolicy(p) ==
    /\ proc[p].at = "policy"
    /\ Goto(p, IF bytes.policy = "frozen" THEN "archive" ELSE "fail")
    /\ UNCHANGED <<bytes, output, local, transcript, artifact, seal, quarantine, blocked,
                   extractions, accepted, edits>>

\* ... and then the identity of the archive.
CheckArchive(p) ==
    /\ proc[p].at = "archive"
    /\ Goto(p, IF bytes.archive = "frozen" THEN "acquire" ELSE "fail")
    /\ UNCHANGED <<bytes, output, local, transcript, artifact, seal, quarantine, blocked,
                   extractions, accepted, edits>>

\* The control points at which _bound reads the inputs, each for a seal of its
\* own: nothing hashed for one seal is used for another.
Hashing == {"sealR1A", "sealR1B", "seal"}

Hashed(p) == \A f \in Inputs : proc[p].hashed[f] # "none"

\* _bound hashes file after file, sorted by name; a file that is missing ends it.
HashInput(p) ==
    LET h == proc[p].hashed
        f == IF h.policy = "none" THEN "policy" ELSE IF h.archive = "none" THEN "archive" ELSE "tool"
    IN
    /\ proc[p].at \in Hashing /\ ~Hashed(p)
    /\ IF bytes[f] = "none" THEN Goto(p, "fail")
       ELSE proc' = [proc EXCEPT ![p].hashed[f] = bytes[f]]
    /\ UNCHANGED <<bytes, output, local, transcript, artifact, seal, quarantine, blocked,
                   extractions, accepted, edits>>

\* Mutant: the phases after R1A look at its seal alone.
AfterSealFirstOnly(p) == "free"

\* R1C verifies a second seal, R1B only the first.
AfterSeal(p) == IF proc[p].phase = "R1C" /\ proc[p].at = "sealR1A" THEN "sealR1B" ELSE "free"

VerifySeal(p) ==
    LET ph == IF proc[p].at = "sealR1A" THEN "R1A" ELSE "R1B" IN
    /\ proc[p].at \in {"sealR1A", "sealR1B"} /\ Hashed(p)
    /\ proc' = [proc EXCEPT ![p].at = IF SealHolds(ph, proc[p].hashed) THEN AfterSeal(p) ELSE "fail",
                            ![p].hashed = Unhashed]
    /\ UNCHANGED <<bytes, output, local, transcript, artifact, seal, quarantine, blocked,
                   extractions, accepted, edits>>

\* A phase that was attempted is not attempted again.
Unattempted(ph) ==
    /\ artifact[ph] = "none" /\ NoSeal(ph)
    /\ ph = "R1C" => quarantine = "absent"

CheckUnattempted(p) ==
    /\ proc[p].at = "free"
    /\ Goto(p, IF ~Unattempted(proc[p].phase) THEN "fail"
               ELSE IF proc[p].phase = "R1B" THEN "command" ELSE "acquire")
    /\ UNCHANGED <<bytes, output, local, transcript, artifact, seal, quarantine, blocked,
                   extractions, accepted, edits>>

\* R1A downloads and unpacks the tool and checks its identity.
AcquireTool(p) ==
    /\ proc[p].at = "acquire" /\ proc[p].phase = "R1A"
    /\ \/ bytes' = [bytes EXCEPT !.tool = "frozen"] /\ Goto(p, "command")
       \/ UNCHANGED bytes /\ Goto(p, "fail")
    /\ UNCHANGED <<output, local, transcript, artifact, seal, quarantine, blocked,
                   extractions, accepted, edits>>

\* Mutant: the extraction directory may exist already.
MakeQuarantineShared(p) ==
    /\ proc[p].at = "acquire" /\ proc[p].phase = "R1C"
    /\ quarantine' = IF quarantine = "absent" THEN "empty" ELSE quarantine
    /\ Goto(p, "command")
    /\ UNCHANGED <<bytes, output, local, transcript, artifact, seal, blocked,
                   extractions, accepted, edits>>

\* R1C makes the extraction directory, exclusively.
MakeQuarantine(p) ==
    /\ proc[p].at = "acquire" /\ proc[p].phase = "R1C"
    /\ IF quarantine = "absent"
       THEN quarantine' = "empty" /\ Goto(p, "command")
       ELSE UNCHANGED quarantine /\ Goto(p, "fail")
    /\ UNCHANGED <<bytes, output, local, transcript, artifact, seal, blocked,
                   extractions, accepted, edits>>

-----------------------------------------------------------------------------
(* The command *)

Hear(p, result) == proc' = [proc EXCEPT ![p].at = "transcript", ![p].got = result]

\* unrar lt reads the headers: the listing of other bytes may differ from the
\* prior ledger, not parse, or be the same; a changed tool may say anything.
ListArchive(p) ==
    /\ proc[p].at = "command" /\ proc[p].phase = "R1A"
    /\ \E result \in {"pass", "differs", "fail"} :
          /\ bytes.tool = "frozen" /\ bytes.archive = "frozen" => result # "differs"
          /\ Hear(p, result)
    /\ UNCHANGED <<bytes, output, local, transcript, artifact, seal, quarantine, blocked,
                   extractions, accepted, edits>>

\* unrar t: other bytes may test well too; the command may fail or time out.
TestArchive(p) ==
    /\ proc[p].at = "command" /\ proc[p].phase = "R1B"
    /\ \E result \in {"pass", "fail"} : Hear(p, result)
    /\ UNCHANGED <<bytes, output, local, transcript, artifact, seal, quarantine, blocked,
                   extractions, accepted, edits>>

\* unrar x into the quarantine; a failing command leaves part of it.
Extract(p) ==
    /\ proc[p].at = "command" /\ proc[p].phase = "R1C"
    /\ extractions' = extractions + 1
    /\ \/ /\ quarantine' \in IF bytes.tool = "frozen" THEN {bytes.archive}
                             ELSE {"frozen", "other", "partial"}
          /\ Hear(p, "pass")
       \/ quarantine' = "partial" /\ Hear(p, "fail")
    /\ UNCHANGED <<bytes, output, local, transcript, artifact, seal, blocked, accepted, edits>>

\* _persist_command: the transcripts are created exclusively.  A listing that
\* failed ends R1A before it reports anything.
PersistTranscript(p) ==
    /\ proc[p].at = "transcript"
    /\ transcript' = transcript \cup {proc[p].phase}
    /\ Goto(p, IF \/ proc[p].phase \in transcript
                  \/ proc[p].phase = "R1A" /\ proc[p].got = "fail"
               THEN "fail" ELSE "result")
    /\ UNCHANGED <<bytes, output, local, artifact, seal, quarantine, blocked,
                   extractions, accepted, edits>>

Verdict(passed) == IF passed THEN "pass" ELSE "fail"

\* The prior ledger's rows against the listing, and room for the files.
ListingDiff(p, full) == Verdict(proc[p].got = "pass" /\ ~full)

ArchiveTestReport(p) == Verdict(proc[p].got = "pass")

\* Mutant: the manifest repeats what unrar said, without the scan.
ExtractionManifestUnscanned(p) == Verdict(proc[p].got = "pass")

\* Every extracted file is scanned: type, links, size and CRC.
ExtractionManifest(p) == Verdict(proc[p].got = "pass" /\ quarantine = "frozen")

WriteResult(p) ==
    /\ proc[p].at = "result"
    /\ LET ph == proc[p].phase
       IN IF artifact[ph] = "none"
          THEN \E full \in BOOLEAN :
                  /\ artifact' = [artifact EXCEPT ![ph] =
                        CASE ph = "R1A" -> ListingDiff(p, full)
                          [] ph = "R1B" -> ArchiveTestReport(p)
                          [] OTHER -> ExtractionManifest(p)]
                  /\ Goto(p, IF artifact'[ph] = "pass" THEN "seal" ELSE "fail")
          ELSE UNCHANGED artifact /\ Goto(p, "fail")
    /\ UNCHANGED <<bytes, output, local, transcript, seal, quarantine, blocked,
                   extractions, accepted, edits>>

\* _seal, once everything is hashed: created exclusively, then filled.
CreateSeal(p) ==
    /\ proc[p].at = "seal" /\ Hashed(p)
    /\ LET ph == proc[p].phase
       IN IF NoSeal(ph)
          THEN /\ seal' = [seal EXCEPT ![ph] =
                             [state |-> "torn", binds |-> Bound(ph, proc[p].hashed)]]
               /\ Goto(p, "fill")
          ELSE UNCHANGED seal /\ Goto(p, "fail")
    /\ UNCHANGED <<bytes, output, local, transcript, artifact, quarantine, blocked,
                   extractions, accepted, edits>>

FillSeal(p) ==
    /\ proc[p].at = "fill"
    /\ seal' = [seal EXCEPT ![proc[p].phase].state = "filled"]
    /\ proc' = [proc EXCEPT ![p] = Idle]
    /\ UNCHANGED <<bytes, output, local, transcript, artifact, quarantine, blocked,
                   extractions, accepted, edits>>

-----------------------------------------------------------------------------
(* Failures *)

\* _record_block, in the output; a second record of a phase goes to the local
\* evidence directory, which is made for it.
RecordBlock(p) ==
    /\ proc[p].at = "fail"
    /\ blocked' = blocked \cup {proc[p].phase}
    /\ local' = (local \/ proc[p].phase \in blocked)
    /\ proc' = [proc EXCEPT ![p] = Idle]
    /\ UNCHANGED <<bytes, output, transcript, artifact, seal, quarantine,
                   extractions, accepted, edits>>

\* A write of _write_bytes or _write_csv fails.
WriteFails(p) ==
    /\ proc[p].at \in {"transcript", "result", "seal", "fill"}
    /\ Goto(p, "fail")
    /\ UNCHANGED <<bytes, output, local, transcript, artifact, seal, quarantine, blocked,
                   extractions, accepted, edits>>

\* An invocation is killed: nothing is recorded.
Kill(p) ==
    /\ proc[p].at # "idle"
    /\ proc' = [proc EXCEPT ![p] = Idle]
    /\ UNCHANGED <<bytes, output, local, transcript, artifact, seal, quarantine, blocked,
                   extractions, accepted, edits>>

\* Other work in the tree changes an input, or changes it back.
Edit(f) ==
    /\ edits < MaxEdits /\ bytes[f] # "none"
    /\ bytes' = [bytes EXCEPT ![f] = IF @ = "frozen" THEN "other" ELSE "frozen"]
    /\ edits' = edits + 1
    /\ UNCHANGED <<output, local, transcript, artifact, seal, quarantine, blocked, proc,
                   extractions, accepted>>

-----------------------------------------------------------------------------
(* The independent verifier *)

\* Mutant: the verifier does not look for records it does not expect.
ExactSetsLeniently == output /\ local

\* Exactly the expected artifacts and transcripts, and no other file.
ExactSets == output /\ local /\ blocked = {} /\ transcript = Phases

FrozenHashes == bytes = [f \in Inputs |-> "frozen"]

SealsHold == \A ph \in Phases : SealHolds(ph, bytes)

\* Each phase's artifacts are rebuilt from its transcripts and must pass.
RebuildR1A == artifact["R1A"] = "pass"
RebuildTestReport == artifact["R1B"] = "pass"

\* The extraction is scanned again.
RebuildExtractionManifest == artifact["R1C"] = "pass" /\ quarantine = "frozen"

Verifies ==
    /\ ExactSets /\ FrozenHashes /\ SealsHold
    /\ RebuildR1A /\ RebuildTestReport /\ RebuildExtractionManifest

Verify ==
    /\ Verifies /\ ~accepted
    /\ accepted' = TRUE
    /\ UNCHANGED <<bytes, output, local, transcript, artifact, seal, quarantine, blocked, proc,
                   extractions, edits>>

Next ==
    \/ \E p \in Procs :
          \/ \E ph \in Phases : Start(p, ph)
          \/ MakeOutput(p) \/ MakeLocal(p) \/ CheckPolicy(p) \/ CheckArchive(p)
          \/ HashInput(p) \/ VerifySeal(p) \/ CheckUnattempted(p)
          \/ AcquireTool(p) \/ MakeQuarantine(p) \/ ListArchive(p) \/ TestArchive(p) \/ Extract(p)
          \/ PersistTranscript(p)
          \/ WriteResult(p) \/ CreateSeal(p) \/ FillSeal(p)
          \/ RecordBlock(p) \/ WriteFails(p) \/ Kill(p)
    \/ \E f \in Inputs : Edit(f)
    \/ Verify

Spec == Init /\ [][Next]_vars

-----------------------------------------------------------------------------
(* Correctness *)

Results == {"none", "pass", "fail"}
Bindings == [inputs: [Inputs -> Bytes], artifacts: [Phases -> Results]]
Seals == [state: {"absent", "torn", "filled"}, binds: Bindings]
Invocations == [phase: Phases, at: Points, got: Results \cup {"differs"}, hashed: [Inputs -> Bytes]]

\* The types of the variables.
TypeOK ==
    /\ bytes \in [Inputs -> Bytes] /\ bytes["archive"] # "none"
    /\ output \in BOOLEAN /\ local \in BOOLEAN
    /\ transcript \in SUBSET Phases /\ blocked \in SUBSET Phases
    /\ artifact \in [Phases -> Results]
    /\ seal \in [Phases -> Seals]
    /\ quarantine \in {"absent", "empty", "partial", "frozen", "other"}
    /\ proc \in [Procs -> Invocations]
    /\ extractions \in Nat /\ accepted \in BOOLEAN /\ edits \in 0..MaxEdits

\* The archive is opened for extraction at most once, and only behind filled
\* seals of R1A and R1B over the passing reports that are on disk: no overlap,
\* kill or repetition of invocations leads to another extraction.  The seals may
\* bind different archives, policies and tools: R1C hashes them for one seal and
\* then for the other, and they may be changed and changed back in between.
ExtractionIsEarned ==
    /\ extractions <= 1
    /\ quarantine # "absent" =>
          \A ph \in {"R1A", "R1B"} :
              /\ seal[ph].state = "filled" /\ artifact[ph] = "pass"
              /\ \A q \in UpTo(ph) : seal[ph].binds.artifacts[q] = artifact[q]

\* A seal of R1C, which releases the extraction, stands for a complete one of
\* the listed bytes, even when the archive was exchanged during unrar x and put
\* back before the files were hashed.
ReleaseIsListed ==
    ~NoSeal("R1C") => quarantine = "frozen" /\ artifact["R1C"] = "pass"

\* What a phase has put on disk stays as it is, whoever runs it again: results
\* and filled seals are never replaced, records are never withdrawn.  And the
\* verifier accepts a run only when no invocation of it ever failed on record;
\* from then on nothing, repeated phases included, changes what it accepted.
RunStands ==
    [][ /\ \A ph \in Phases :
              /\ artifact[ph] # "none" => artifact'[ph] = artifact[ph]
              /\ seal[ph].state = "filled" => seal'[ph] = seal[ph]
        /\ transcript \subseteq transcript' /\ blocked \subseteq blocked'
        /\ ~accepted /\ accepted' => blocked = {}
        /\ accepted => seal' = seal /\ artifact' = artifact /\ quarantine' = quarantine ]_vars
=============================================================================
