----------------------------- MODULE JSONLLedger -----------------------------
(***************************************************************************)
(* One CanonicalJSONLLedger file (experiments/vfps_agent/ledger.py): the   *)
(* lines on disk, what of them would survive a power loss, the memory of   *)
(* the process that holds the flock, and the seal file.                    *)
(*                                                                         *)
(* Abstractions.  A record hash is the sequence of record contents that    *)
(* led to it, which is what a collision-free chain of SHA-256 identifies.  *)
(* Only the process that holds the flock acts: opening a locked ledger     *)
(* raises and changes nothing.  A payload is its deduplication id.         *)
(***************************************************************************)
EXTENDS Integers, Sequences, FiniteSets

CONSTANTS
    Ids,         \* attempt ids, or keys of commits and rows
    MaxLines,    \* bound on the lines of the file
    MaxFaults,   \* bound on failed or torn writes
    MaxCrashes   \* bound on process crashes and power losses

ASSUME LedgerAssumption ==
    MaxLines \in Nat /\ MaxFaults \in Nat /\ MaxCrashes \in Nat

\* ATTEMPT; PREDICTION, EXECUTION, MATURITY ("KEYED": one record per key);
\* ACCESS, CHECKPOINT ("PLAIN": any number).
LedgerKinds == {"ATTEMPT", "KEYED", "PLAIN"}

Events(k) == IF k = "ATTEMPT" THEN {"STARTED", "FINISHED"} ELSE {"ROW"}

Genesis == <<>>   \* the all-zero previous hash

\* canonical_sha256 of the record's body.
RecordHash(r) == Append(r.prev, [event |-> r.event, id |-> r.id, ref |-> r.ref])

\* A line that does not parse: a fragment and whatever was appended to it.
Garbage == [ok |-> FALSE]

VARIABLES
    kind,      \* the ledger's kind, fixed
    exists,    \* the file exists
    lines,     \* its newline-terminated lines
    torn,      \* it ends in a fragment without a newline
    synced,    \* how many lines a power loss cannot take
    seal,      \* the seal file: its state and what it binds
    mem,       \* the holder's _sequence, _previous_hash and key sets
    open,      \* somebody holds the flock and has not closed
    acked,     \* history: record hashes that an append returned
    faults, crashes

vars == <<kind, exists, lines, torn, synced, seal, mem, open, acked, faults, crashes>>

NoSeal == [state |-> "ABSENT", count |-> 0, final |-> Genesis, bytes |-> <<>>]

NoMemory == [sequence |-> 0, previous |-> Genesis, started |-> {}, finished |-> {},
             keys |-> {}, sealed |-> FALSE]

Init ==
    /\ kind \in LedgerKinds
    /\ exists = FALSE /\ lines = <<>> /\ torn = FALSE /\ synced = 0
    /\ seal = NoSeal
    /\ mem = NoMemory /\ open = FALSE
    /\ acked = {}
    /\ faults = 0 /\ crashes = 0

-----------------------------------------------------------------------------
(* verify_ledger *)

PreviousHash(i) == IF i = 1 THEN Genesis ELSE RecordHash(lines[i - 1])

Parses == ~torn /\ \A i \in DOMAIN lines : lines[i].ok

ChainHolds ==
    \A i \in DOMAIN lines :
        /\ lines[i].seq = i - 1
        /\ lines[i].prev = PreviousHash(i)

\* Duplicate STARTED, FINISHED, commit or row; FINISHED without its STARTED.
ReferencesHold ==
    \A i \in DOMAIN lines :
        /\ kind # "PLAIN" => \A j \in 1..(i - 1) :
              ~(lines[j].event = lines[i].event /\ lines[j].id = lines[i].id)
        /\ lines[i].event = "FINISHED" => \E j \in 1..(i - 1) :
              /\ lines[j].event = "STARTED" /\ lines[j].id = lines[i].id
              /\ lines[i].ref = RecordHash(lines[j])

Verifies == Parses /\ ChainHolds /\ ReferencesHold

\* With seal_path: the seal binds exactly these bytes and this tail.
SealVerifies ==
    /\ Verifies
    /\ seal.state = "WRITTEN"
    /\ seal.count = Len(lines)
    /\ seal.final = PreviousHash(Len(lines) + 1)
    /\ seal.bytes = lines

-----------------------------------------------------------------------------
(* __init__ and close *)

\* What resume rebuilds from a verified file.
RestoredMemory ==
    LET with(e) == {i \in DOMAIN lines : lines[i].event = e} IN
    [sequence |-> Len(lines),
     previous |-> PreviousHash(Len(lines) + 1),
     started |-> {<<lines[i].id, RecordHash(lines[i])>> : i \in with("STARTED")},
     finished |-> {lines[i].id : i \in with("FINISHED")},
     keys |-> {lines[i].id : i \in with("ROW")},
     sealed |-> FALSE]

\* _secure_create: the new name is synced with its directory.
Create ==
    /\ ~open /\ ~exists
    /\ exists' = TRUE /\ open' = TRUE /\ mem' = NoMemory
    /\ UNCHANGED <<kind, lines, torn, synced, seal, acked, faults, crashes>>

\* Mutant: resume trusts the file.
ResumeUnverified ==
    /\ ~open /\ exists
    /\ open' = TRUE
    /\ mem' = [NoMemory EXCEPT !.sequence = Len(lines)]
    /\ UNCHANGED <<kind, exists, lines, torn, synced, seal, acked, faults, crashes>>

\* An existing file is reopened only if it verifies; the seal is not consulted.
Resume ==
    /\ ~open /\ exists
    /\ Verifies
    /\ open' = TRUE
    /\ mem' = RestoredMemory
    /\ UNCHANGED <<kind, exists, lines, torn, synced, seal, acked, faults, crashes>>

\* close flushes and syncs before it unlocks.
Close ==
    /\ open
    /\ open' = FALSE /\ mem' = NoMemory
    /\ synced' = Len(lines)
    /\ UNCHANGED <<kind, exists, lines, torn, seal, acked, faults, crashes>>

-----------------------------------------------------------------------------
(* _append *)

\* Mutant: the append returns before fsync.
SyncedAfterLazy(out, new) == synced

\* How much of the file an append has synced.
SyncedAfter(out, new) == IF out = "ok" THEN Len(new) ELSE synced

\* The bytes reach the file whole ("ok", "fsync") or in part ("short": the
\* write raised; "torn": the process died).  After a fragment a whole record
\* only completes a garbage line.
WriteLine(r, out) ==
    /\ Len(lines) < MaxLines
    /\ out # "ok" => faults < MaxFaults
    /\ out = "torn" => crashes < MaxCrashes
    /\ IF out \in {"ok", "fsync"}
       THEN lines' = Append(lines, IF torn THEN Garbage ELSE r) /\ torn' = FALSE
       ELSE lines' = lines /\ torn' = TRUE
    /\ synced' = SyncedAfter(out, lines')
    /\ acked' = IF out = "ok" THEN acked \cup {RecordHash(r)} ELSE acked
    /\ faults' = IF out = "ok" THEN faults ELSE faults + 1
    /\ crashes' = IF out = "torn" THEN crashes + 1 ELSE crashes
    /\ open' = (out # "torn")

\* Only a successful append moves the tail and the key sets.
AppendLine(event, id, ref, out, learned) ==
    LET r == [ok |-> TRUE, seq |-> mem.sequence, prev |-> mem.previous,
              event |-> event, id |-> id, ref |-> ref]
    IN
    /\ open /\ ~mem.sealed
    /\ WriteLine(r, out)
    /\ mem' = CASE out = "ok" -> [learned EXCEPT !.sequence = @ + 1,
                                                 !.previous = RecordHash(r)]
                [] out = "torn" -> NoMemory
                [] OTHER -> mem
    /\ UNCHANGED <<kind, exists, seal>>

AppendStarted(id, out) ==
    LET hash == Append(mem.previous, [event |-> "STARTED", id |-> id, ref |-> Genesis]) IN
    /\ kind = "ATTEMPT"
    /\ \A s \in mem.started : s[1] # id
    /\ AppendLine("STARTED", id, Genesis, out,
                  [mem EXCEPT !.started = @ \cup {<<id, hash>>}])

\* The caller names the STARTED record; it must be the one the writer knows.
AppendFinished(id, out) ==
    /\ kind = "ATTEMPT"
    /\ id \notin mem.finished
    /\ \E s \in mem.started :
          /\ s[1] = id
          /\ AppendLine("FINISHED", id, s[2], out, [mem EXCEPT !.finished = @ \cup {id}])

\* append_prediction, append_execution, append_maturity; append_access and
\* append_checkpoint keep no key set.
AppendRow(id, out) ==
    /\ kind # "ATTEMPT"
    /\ kind = "KEYED" => id \notin mem.keys
    /\ AppendLine("ROW", id, Genesis, out, [mem EXCEPT !.keys = @ \cup {id}])

-----------------------------------------------------------------------------
(* seal, crash, power loss *)

\* Mutant: the ledger is sealed without syncing it first.
SealLedgerUnsynced(dies) ==
    /\ open /\ ~mem.sealed /\ seal.state = "ABSENT" /\ ~dies
    /\ seal' = [state |-> "WRITTEN", count |-> mem.sequence, final |-> mem.previous,
                bytes |-> lines]
    /\ mem' = [mem EXCEPT !.sealed = TRUE]
    /\ UNCHANGED <<kind, exists, lines, torn, synced, open, acked, faults, crashes>>

\* The count and the tail come from memory, the bytes from the synced file;
\* the seal file is created exclusively, and dying inside leaves a stub.
SealLedger(dies) ==
    /\ open /\ ~mem.sealed
    /\ seal.state = "ABSENT"
    /\ synced' = Len(lines)
    /\ IF dies
       THEN /\ crashes < MaxCrashes
            /\ crashes' = crashes + 1
            /\ seal' = [seal EXCEPT !.state = "TORN"]
            /\ mem' = NoMemory /\ open' = FALSE
       ELSE /\ seal' = [state |-> "WRITTEN", count |-> mem.sequence,
                        final |-> mem.previous, bytes |-> lines]
            /\ mem' = [mem EXCEPT !.sealed = TRUE]
            /\ UNCHANGED <<open, crashes>>
    /\ UNCHANGED <<kind, exists, lines, torn, acked, faults>>

\* The holder dies between two calls; the kernel keeps what it has written.
Crash ==
    /\ open /\ crashes < MaxCrashes
    /\ crashes' = crashes + 1
    /\ open' = FALSE /\ mem' = NoMemory
    /\ UNCHANGED <<kind, exists, lines, torn, synced, seal, acked, faults>>

\* The machine stops: lines that were never synced may be gone, the first
\* lost one in part.
PowerLoss ==
    /\ exists /\ crashes < MaxCrashes
    /\ crashes' = crashes + 1
    /\ \E n \in synced..Len(lines) :
          /\ lines' = SubSeq(lines, 1, n)
          /\ torn' \in IF n < Len(lines) THEN BOOLEAN ELSE {torn, FALSE}
          /\ synced' = n
    /\ open' = FALSE /\ mem' = NoMemory
    /\ UNCHANGED <<kind, exists, seal, acked, faults>>

Outcomes == {"ok", "fsync", "short", "torn"}

Next ==
    \/ Create \/ Resume \/ Close \/ Crash \/ PowerLoss
    \/ \E id \in Ids, out \in Outcomes :
          AppendStarted(id, out) \/ AppendFinished(id, out) \/ AppendRow(id, out)
    \/ \E dies \in BOOLEAN : SealLedger(dies)

Spec == Init /\ [][Next]_vars

-----------------------------------------------------------------------------
(* Properties *)

TypeOK ==
    /\ kind \in LedgerKinds
    /\ exists \in BOOLEAN /\ torn \in BOOLEAN /\ open \in BOOLEAN
    /\ synced \in 0..Len(lines)
    /\ mem.sequence \in Nat /\ mem.sealed \in BOOLEAN
    /\ mem.finished \subseteq Ids /\ mem.keys \subseteq Ids
    /\ seal.state \in {"ABSENT", "TORN", "WRITTEN"}
    /\ \A i \in DOMAIN lines : lines[i].ok => lines[i].event \in Events(kind)

\* What an append returned for stands.  A ledger that verifies holds every such
\* record in its place, which neither a crash, a failed write nor a power loss
\* takes silently (CanonicalJSONLLedger: "fsync-before-return"); and no two of
\* them ever extended different histories, across any number of writers.
AckedRecordsStand ==
    /\ Verifies => \A h \in acked :
          Len(h) \in DOMAIN lines /\ RecordHash(lines[Len(h)]) = h
    /\ \A g, h \in acked : Len(g) <= Len(h) => SubSeq(h, 1, Len(g)) = g

\* What was sealed outlives a power loss: the ledger still begins with the bytes
\* the seal binds (seal syncs the ledger before it writes the seal).  And while
\* no write ever failed, the seal goes on binding its ledger until somebody
\* appends: the count and the tail that resume rebuilt are the ones
\* verify_ledger recomputes from the bytes.
SealStands ==
    seal.state = "WRITTEN" =>
        /\ Len(seal.bytes) <= Len(lines)
        /\ SubSeq(lines, 1, Len(seal.bytes)) = seal.bytes
        /\ faults = 0 /\ Len(lines) = Len(seal.bytes) => SealVerifies

\* The intact records, for a user who cannot see bytes.
IntactOf(file) ==
    LET among[n \in 0..Len(file)] ==   \* the first n lines
            IF n = 0 THEN <<>>
            ELSE IF file[n].ok THEN Append(among[n - 1], file[n]) ELSE among[n - 1]
    IN among[Len(file)]

Intact == IntactOf(lines)

Abstract == INSTANCE DurableLedger WITH
    records <- Intact,
    held <- open,
    stale <- (open /\ mem.sequence # Len(lines)),
    broken <- ~Verifies

\* The bytes, hashes and syncs amount to what DurableLedger promises.
ImplementsDurableLedger == Abstract!Spec

==============================================================================
