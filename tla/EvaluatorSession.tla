-------------------------- MODULE EvaluatorSession --------------------------
(***************************************************************************)
(* One isolated evaluator session: the client in the prediction plane, the *)
(* evaluator process with its session journal and blind replay service,    *)
(* and the supervisor that kills and restarts the process                  *)
(* (experiments/vfps_agent/evaluator_service.py and replay.py).            *)
(*                                                                         *)
(* Every durable write is a step, so the process may die between any two:  *)
(* a journal line, its head file, an ACCESS record, each stage of scoring. *)
(*                                                                         *)
(* Abstractions.  HMACs, hashes and nonces are the request's id, which a   *)
(* client draws fresh for every request it encodes.  A checkpoint is the   *)
(* origin and policy it is for; run_origin makes it durable in one step    *)
(* (module CAPRun has the steps).  The driver is one thread: it is inside  *)
(* a request, inside restart, or free.  Generation authorizations are left *)
(* to the generation barrier: FINALIZE carries no payload here.            *)
(***************************************************************************)
EXTENDS Integers, Sequences, FiniteSets

CONSTANTS
    Context,      \* events revealed at bootstrap
    NumEvents,    \* events of the hidden stream
    Policies,     \* allowed policy hashes
    MaxCrashes,   \* bound on process deaths
    MaxTimeouts,  \* bound on client timeouts
    MaxRequests,  \* bound on requests a client encodes
    MaxFaults,    \* bound on failed or torn writes
    NoCheckpoint  \* a hash that is in no ledger, or none

ASSUME SessionAssumption ==
    /\ Context \in Nat \ {0}
    /\ NumEvents \in Nat /\ Context < NumEvents
    /\ MaxCrashes \in Nat /\ MaxTimeouts \in Nat /\ MaxFaults \in Nat
    /\ MaxRequests \in Nat
    /\ NoCheckpoint \notin [origin: Nat, policy: Policies]

Operations == {"BOOTSTRAP", "REVEAL", "FINALIZE"}

Checkpoints == [origin: 0..(NumEvents - 1), policy: Policies]

Requests == [id: Nat, sequence: Nat, operation: Operations \cup {"NONE"},
             checkpoint: Checkpoints \cup {NoCheckpoint}, previous: Nat]

NoRequest == [id |-> 0, sequence |-> 0, operation |-> "NONE",
              checkpoint |-> NoCheckpoint, previous |-> 0]

\* result: the bootstrap length, or the index of the revealed event.
Responses == [id: Nat, sequence: Nat, status: {"OK", "ERROR", "NONE"},
              result: Nat, previous: Nat]

NoResponse == [id |-> 0, sequence |-> 0, status |-> "NONE", result |-> 0, previous |-> 0]

\* A journal line: the request and, when COMPLETED, the response it binds.
JournalRecords ==
    [phase: {"INIT", "IN_FLIGHT", "COMPLETED", "ABORTED"},
     operation: Operations \cup {"NONE", "PROTOCOL"},
     request: Requests, result: Nat]

VARIABLES
    journal,      \* EVALUATOR_SESSION.jsonl
    head,         \* how many journal lines the head file binds
    access,       \* the ACCESS ledger: [event, checkpoint]
    torn,         \* which of "journal", "access" no longer verify
    scoring,      \* stages of seal_access_and_mature that are on disk
    checkpoints, phaseSealed,         \* what the prediction plane has made durable
    epc, cont,    \* evaluator: control point, and where to go after the head
    req, mode, result, revealed,      \* evaluator: locals and _revealed_count
    toServer, toClient, cut,          \* the pipe; cut: the client closed its end
    session,      \* start_isolated_evaluator: has it returned a client?
    client, waiting,                  \* the client, and is it in a request
    ids, crashes, timeouts, faults    \* fresh ids; counters for the bounds

disk == <<journal, head, access, torn, scoring>>
plane == <<checkpoints, phaseSealed>>
locals == <<req, mode, result, revealed>>
pipe == <<toServer, toClient, cut>>
clientVars == <<session, client, waiting, ids>>
vars == <<disk, plane, epc, cont, locals, pipe, clientVars, crashes, timeouts, faults>>

Booting == {"journal", "access", "bootstrap"}

EPCs == Booting \cup {"down", "head", "idle", "protocol", "run", "finalize",
                      "finish", "reply", "abort", "refuse"}

\* seen: length of _prefix; pending: _pending_request, kept across restarts.
NewClient == [sequence |-> 0, previousRequest |-> 0, previousResponse |-> 0,
              pending |-> NoRequest, closed |-> FALSE, seen |-> 0]

Init ==
    /\ journal = <<>> /\ head = 0 /\ access = <<>> /\ torn = {} /\ scoring = 0
    /\ checkpoints = {} /\ phaseSealed = FALSE
    /\ epc = "down" /\ cont = "down"
    /\ req = NoRequest /\ mode = "fresh" /\ result = 0 /\ revealed = 0
    /\ toServer = NoRequest /\ toClient = NoResponse /\ cut = FALSE
    /\ session = "unborn" /\ client = NewClient /\ waiting = FALSE
    /\ ids = 0 /\ crashes = 0 /\ timeouts = 0 /\ faults = 0

-----------------------------------------------------------------------------
(* What the journal says *)

Last == journal[Len(journal)]

Completed == {i \in DOMAIN journal : journal[i].phase = "COMPLETED"}

\* Every COMPLETED line follows its own IN_FLIGHT line, so ids are in order.
ExpectedSequence == Cardinality(Completed)

LastCompleted == journal[CHOOSE i \in Completed : \A j \in Completed : j <= i]

PreviousRequest == IF Completed = {} THEN 0 ELSE LastCompleted.request.id

\* response_hash_before: the response the next one must be chained to.
ResponseBefore(sequence) ==
    LET before == {i \in Completed : journal[i].request.sequence < sequence} IN
    IF before = {} THEN 0
    ELSE journal[CHOOSE i \in before : \A j \in before : j <= i].request.id

Unresolved == journal # <<>> /\ Last.phase = "IN_FLIGHT"

Recovering(r) == Unresolved /\ Last.request = r

Replaying(r) == Completed # {} /\ LastCompleted.request = r

\* _evaluator_main's checks of an authenticated request.
InOrder(r) ==
    /\ Unresolved => Recovering(r)
    /\ Replaying(r) => r.operation = "REVEAL"
    /\ ~Recovering(r) /\ ~Replaying(r) =>
          /\ r.sequence = ExpectedSequence
          /\ r.previous = PreviousRequest
          /\ \A i \in DOMAIN journal : journal[i].request.id # r.id
          /\ IF r.operation = "BOOTSTRAP" THEN Completed = {}
             ELSE /\ \E i \in Completed : journal[i].operation = "BOOTSTRAP"
                  /\ \A i \in Completed : journal[i].operation # "FINALIZE"

\* _verify_transitions: after the INIT line, requests in order, each opened once
\* and closed at most once under the same identity, the bootstrap first,
\* nothing behind a FINALIZE or a refusal.
TransitionsHold ==
    \A i \in 2..Len(journal) :
        LET line == journal[i]
            before == 2..(i - 1)
        IN
        IF i % 2 = 0
        THEN /\ line.phase = "IN_FLIGHT"
             /\ line.request.sequence = (i \div 2) - 1
             /\ line.request.previous = journal[i - 1].request.id
             /\ \A j \in before : /\ journal[j].request.id # line.request.id
                                  /\ journal[j].operation # "FINALIZE"
             /\ line.operation = "BOOTSTRAP" => i = 2
             /\ line.operation \notin {"BOOTSTRAP", "PROTOCOL"} =>
                   \E j \in before : journal[j].operation = "BOOTSTRAP"
             /\ line.operation = "PROTOCOL" => i < Len(journal) /\ journal[i + 1].phase = "ABORTED"
        ELSE /\ line.phase \in {"COMPLETED", "ABORTED"}
             /\ line.operation = journal[i - 1].operation
             /\ line.request = journal[i - 1].request
             /\ line.phase = "ABORTED" => i = Len(journal)

\* Mutant: a restart gives up on any interrupted request.
JournalRestartsClean == Last.phase = "COMPLETED" /\ head = Len(journal)

\* Mutant: a refused session may be resumed.
JournalRestartsRefused ==
    /\ "journal" \notin torn /\ head = Len(journal)
    /\ Unresolved => Last.operation = "REVEAL"

\* _SessionJournal.__init__ over an existing file.
JournalRestarts ==
    /\ "journal" \notin torn /\ TransitionsHold
    /\ head = Len(journal)
    /\ Last.phase # "ABORTED"
    /\ Unresolved => Last.operation = "REVEAL"
    /\ \A i \in Completed : journal[i].operation # "FINALIZE"

-----------------------------------------------------------------------------
(* Durable appends of the evaluator *)

Exit == epc' = "down" /\ UNCHANGED cont

\* _SessionJournal.append writes and syncs the line, then replaces the head.
\* "fsync": the line is in the file but append raises; "short": part of it is.
\* A line after one that append did not acknowledge breaks the chain.
JournalAppend(record, next, onError) ==
    \E out \in {"ok", "fsync", "short"} :
        /\ out # "ok" => faults < MaxFaults
        /\ faults' = IF out = "ok" THEN faults ELSE faults + 1
        /\ journal' = IF out = "short" THEN journal ELSE Append(journal, record)
        /\ torn' = IF out = "short" \/ (record.phase = "ABORTED" /\ Last.phase = "COMPLETED")
                   THEN torn \cup {"journal"} ELSE torn
        /\ IF out = "ok" THEN epc' = "head" /\ cont' = next
           ELSE epc' = onError /\ UNCHANGED cont

\* _write_head: a temporary file, renamed over the old head.  It may raise
\* before the rename or, at the sync of the directory, after it.
WriteHead ==
    /\ epc = "head"
    /\ \/ /\ head' = Len(journal)
          /\ epc' = cont
          /\ UNCHANGED faults
       \/ /\ faults < MaxFaults
          /\ faults' = faults + 1
          /\ epc' = IF cont = "reply" THEN "abort" ELSE "down"
          /\ head' \in {head, Len(journal)}
    /\ UNCHANGED <<journal, access, torn, scoring, plane, cont, locals, pipe, clientVars,
                   crashes, timeouts>>

\* Mutant: an acknowledged reveal is not on disk.
AccessAppendLost(record, next, onError) == epc' = next /\ UNCHANGED <<access, torn, faults>>

\* CanonicalJSONLLedger.append_access (module JSONLLedger).
AccessAppend(record, next, onError) ==
    \E out \in {"ok", "fsync", "short"} :
        /\ out # "ok" => faults < MaxFaults
        /\ faults' = IF out = "ok" THEN faults ELSE faults + 1
        /\ access' = IF out = "short" THEN access ELSE Append(access, record)
        /\ torn' = IF out = "short" THEN torn \cup {"access"} ELSE torn
        /\ epc' = IF out = "ok" THEN next ELSE onError

-----------------------------------------------------------------------------
(* Starting the evaluator *)

\* start_isolated_evaluator spawns the first process.
Launch ==
    /\ session = "unborn"
    /\ session' = "starting"
    /\ epc' = "journal"
    /\ UNCHANGED <<disk, plane, cont, locals, pipe, client, waiting, ids, crashes,
                   timeouts, faults>>

\* EvaluatorSupervisor.restart: only over a dead process.
Restart ==
    /\ session = "live" /\ epc = "down" /\ ~waiting
    /\ epc' = "journal"
    /\ UNCHANGED <<disk, plane, cont, locals, pipe, clientVars, crashes, timeouts, faults>>

OpenJournal ==
    /\ epc = "journal"
    /\ \/ /\ journal = <<>> /\ session = "starting"
          /\ JournalAppend([phase |-> "INIT", operation |-> "NONE",
                            request |-> NoRequest, result |-> 0], "access", "down")
       \/ /\ journal # <<>> /\ JournalRestarts
          /\ epc' = "access"
          /\ UNCHANGED <<journal, torn, cont, faults>>
       \/ /\ journal # <<>> /\ ~JournalRestarts
          /\ Exit
          /\ UNCHANGED <<journal, torn, faults>>
    /\ UNCHANGED <<head, access, scoring, plane, locals, pipe, clientVars, crashes, timeouts>>

\* BlindReplayService.__init__: an existing ledger must hold the bootstrap
\* prefix; a new one is filled with it.
OpenAccess ==
    /\ epc = "access"
    /\ epc' = IF "access" \in torn \/ (access # <<>> /\ Len(access) < Context)
              THEN "down" ELSE "bootstrap"
    /\ revealed' = Len(access)
    /\ UNCHANGED <<disk, plane, cont, req, mode, result, pipe, clientVars, crashes,
                   timeouts, faults>>

Bootstrap ==
    /\ epc = "bootstrap" /\ revealed < Context
    /\ AccessAppend([event |-> revealed, checkpoint |-> NoCheckpoint], "bootstrap", "down")
    /\ revealed' = revealed + 1
    /\ UNCHANGED <<journal, head, scoring, plane, cont, req, mode, result, pipe,
                   clientVars, crashes, timeouts>>

\* The ready frame: a new pipe, and the client is connected to it.
Ready ==
    /\ epc = "bootstrap" /\ revealed >= Context
    /\ epc' = "idle"
    /\ toServer' = NoRequest /\ toClient' = NoResponse /\ cut' = FALSE
    /\ client' = [client EXCEPT !.closed = FALSE]
    /\ UNCHANGED <<disk, plane, cont, locals, session, waiting, ids, crashes, timeouts, faults>>

-----------------------------------------------------------------------------
(* _evaluator_main: one request *)

Entry(phase, r, x) == [phase |-> phase, operation |-> r.operation, request |-> r, result |-> x]

\* Receive, check, and journal IN_FLIGHT unless the request is known.
Receive ==
    LET r == toServer IN
    /\ epc = "idle" /\ r.operation \in Operations
    /\ toServer' = NoRequest
    /\ req' = r
    /\ \/ /\ InOrder(r) /\ (Recovering(r) \/ Replaying(r))
          /\ epc' = "run"
          /\ mode' = IF Recovering(r) THEN "recover" ELSE "replay"
          /\ UNCHANGED <<journal, torn, cont, faults>>
       \/ /\ InOrder(r) /\ ~Recovering(r) /\ ~Replaying(r)
          /\ mode' = "fresh"
          /\ JournalAppend(Entry("IN_FLIGHT", r, 0), "run", "down")
       \/ /\ ~InOrder(r)
          /\ epc' = "protocol"
          /\ mode' = "fresh"
          /\ UNCHANGED <<journal, torn, cont, faults>>
    /\ UNCHANGED <<head, access, scoring, plane, result, revealed, toClient, cut, clientVars,
                   crashes, timeouts>>

\* _abort_authenticated_protocol_request: no reply, the session is over.  An
\* open request is closed; otherwise a PROTOCOL entry, named after the frame, is
\* opened and closed.
ProtocolAbort ==
    LET violation == [NoRequest EXCEPT !.sequence = ExpectedSequence, !.previous = PreviousRequest]
    IN
    /\ epc = "protocol"
    /\ IF Unresolved THEN JournalAppend([Last EXCEPT !.phase = "ABORTED"], "down", "down")
       ELSE JournalAppend([phase |-> "IN_FLIGHT", operation |-> "PROTOCOL",
                           request |-> violation, result |-> 0], "protocol", "down")
    /\ UNCHANGED <<head, access, scoring, plane, locals, pipe, clientVars, crashes, timeouts>>

\* The client hung up.
EndOfSession ==
    /\ epc = "idle" /\ toServer = NoRequest /\ cut
    /\ Exit
    /\ UNCHANGED <<disk, plane, locals, pipe, clientVars, crashes, timeouts, faults>>

\* verify_durable_checkpoint: the checkpoint is durable and for this origin.
CheckpointFor(c, origin) == c \in checkpoints /\ c.origin = origin

UsedBy(c) == {i \in DOMAIN access : access[i].checkpoint = c /\ c # NoCheckpoint}

\* How an operation ends that raises: a replay just returns.
Reject == epc' = (IF mode = "replay" THEN "down" ELSE "abort")

RunBootstrap ==
    /\ epc = "run" /\ req.operation = "BOOTSTRAP"
    /\ result' = revealed
    /\ epc' = "finish"
    /\ UNCHANGED <<disk, plane, cont, req, mode, revealed, pipe, clientVars, crashes,
                   timeouts, faults>>

\* An unused checkpoint of the latest event, and there is a next event.
MayReveal(c) == UsedBy(c) = {} /\ revealed < NumEvents /\ CheckpointFor(c, revealed - 1)

\* reveal_next_after_checkpoint: a used checkpoint returns its event again, a
\* checkpoint of the latest event reveals the next one.
RunReveal ==
    LET c == req.checkpoint IN
    /\ epc = "run" /\ req.operation = "REVEAL"
    /\ \/ \E i \in UsedBy(c) :
             /\ CheckpointFor(c, access[i].event - 1)
             /\ result' = access[i].event
             /\ epc' = "finish"
             /\ UNCHANGED <<access, torn, revealed, faults>>
       \/ /\ MayReveal(c)
          /\ AccessAppend([event |-> revealed, checkpoint |-> c], "finish",
                          IF mode = "replay" THEN "down" ELSE "abort")
          /\ result' = revealed
          /\ revealed' = revealed + 1
       \/ /\ ~MayReveal(c)
          /\ \A i \in UsedBy(c) : ~CheckpointFor(c, access[i].event - 1)
          /\ Reject
          /\ UNCHANGED <<access, torn, result, revealed, faults>>
    /\ UNCHANGED <<journal, head, scoring, plane, cont, req, mode, pipe, clientVars,
                   crashes, timeouts>>

\* verify_access_barrier: after the bootstrap prefix, event i was revealed for
\* a checkpoint of event i - 1 that no other event used.
AccessBarrier ==
    \A i \in DOMAIN access :
        /\ access[i].event = i - 1
        /\ IF i <= Context THEN access[i].checkpoint = NoCheckpoint
           ELSE CheckpointFor(access[i].checkpoint, i - 2) /\ UsedBy(access[i].checkpoint) = {i}

\* Mutant: the stream need not be revealed to its end.
MayScoreEarly == phaseSealed /\ scoring = 0

\* What seal_access_and_mature asks before it writes: a complete replay, sealed
\* predictions, the access barrier, and no artifact of an earlier attempt.
MayScore == revealed = NumEvents /\ phaseSealed /\ AccessBarrier /\ scoring = 0

RunFinalize ==
    /\ epc = "run" /\ req.operation = "FINALIZE"
    /\ \/ MayScore /\ epc' = "finalize"
       \/ ~MayScore /\ Reject
    /\ result' = 0
    /\ UNCHANGED <<disk, plane, cont, req, mode, revealed, pipe, clientVars, crashes,
                   timeouts, faults>>

\* Its durable stages: ACCESS sealed, MATURITY written, MATURITY sealed, run
\* sealed.  Any of them may raise.
ScoreStage ==
    /\ epc = "finalize"
    /\ \/ /\ scoring' = scoring + 1
          /\ epc' = IF scoring = 3 THEN "finish" ELSE "finalize"
          /\ UNCHANGED faults
       \/ /\ faults < MaxFaults
          /\ faults' = faults + 1
          /\ epc' = "abort"
          /\ UNCHANGED scoring
    /\ UNCHANGED <<journal, head, access, torn, plane, cont, locals, pipe, clientVars,
                   crashes, timeouts>>

\* COMPLETED is journalled before the reply; a replay must give the same one.
Finish ==
    /\ epc = "finish"
    /\ \/ /\ mode # "replay"
          /\ JournalAppend(Entry("COMPLETED", req, result), "reply", "abort")
       \/ /\ mode = "replay"
          /\ epc' = IF result = LastCompleted.result THEN "reply" ELSE "down"
          /\ UNCHANGED <<journal, torn, cont, faults>>
    /\ UNCHANGED <<head, access, scoring, plane, locals, pipe, clientVars, crashes, timeouts>>

Response(status) ==
    [id |-> req.id, sequence |-> req.sequence, status |-> status,
     result |-> IF status = "OK" THEN result ELSE 0,
     previous |-> ResponseBefore(req.sequence)]

\* Sending into a closed pipe raises inside the same try as the operation.
Reply ==
    /\ epc = "reply"
    /\ \/ /\ ~cut
          /\ toClient' = Response("OK")
          /\ epc' = IF req.operation = "FINALIZE" THEN "down" ELSE "idle"
       \/ /\ cut
          /\ Reject
          /\ UNCHANGED toClient
    /\ UNCHANGED <<disk, plane, cont, locals, toServer, cut, clientVars, crashes, timeouts, faults>>

Abort ==
    /\ epc = "abort"
    /\ JournalAppend(Entry("ABORTED", req, 0), "refuse", "down")
    /\ UNCHANGED <<head, access, scoring, plane, locals, pipe, clientVars, crashes, timeouts>>

Refuse ==
    /\ epc = "refuse"
    /\ toClient' = IF cut THEN toClient ELSE Response("ERROR")
    /\ Exit
    /\ UNCHANGED <<disk, plane, locals, toServer, cut, clientVars, crashes, timeouts, faults>>

-----------------------------------------------------------------------------
(* Death of the evaluator *)

WritesJournal ==
    \/ epc = "journal" /\ journal = <<>>
    \/ epc = "idle" /\ toServer # NoRequest
    \/ epc = "finish" /\ mode # "replay"
    \/ epc \in {"protocol", "abort"}

WritesAccess ==
    \/ epc = "bootstrap" /\ revealed < Context
    \/ epc = "run" /\ req.operation = "REVEAL"

\* It dies between two writes, or inside the one it is about to make.
Crash ==
    /\ epc # "down" /\ crashes < MaxCrashes
    /\ crashes' = crashes + 1
    /\ Exit
    /\ \/ UNCHANGED <<torn, faults>>
       \/ /\ faults < MaxFaults
          /\ faults' = faults + 1
          /\ \/ /\ WritesJournal
                /\ torn' = torn \cup {"journal"}
             \/ /\ WritesAccess
                /\ torn' = torn \cup {"access"}
    /\ UNCHANGED <<journal, head, access, scoring, plane, locals, pipe, clientVars, timeouts>>

\* EvaluatorSupervisor.crash, which a driver needs before restart when the
\* client has given up on a live process; a kill at any other time is a Crash.
Kill ==
    /\ session = "live" /\ client.closed /\ ~waiting
    /\ epc \notin Booting \cup {"down"}
    /\ Exit
    /\ UNCHANGED <<disk, plane, locals, pipe, clientVars, crashes, timeouts, faults>>

-----------------------------------------------------------------------------
(* The client *)

Usable == ~client.closed /\ ~waiting /\ epc \notin Booting

\* _request: an unresolved request is sent again, byte for byte; nothing else
\* may take its place.
Request(operation, c) ==
    LET new == [id |-> ids + 1, sequence |-> client.sequence, operation |-> operation,
                checkpoint |-> c, previous |-> client.previousRequest]
        r == IF client.pending = NoRequest THEN new ELSE client.pending
    IN
    /\ Usable
    /\ r.operation = operation /\ r.checkpoint = c
    /\ client.pending = NoRequest => ids < MaxRequests
    /\ ids' = IF client.pending = NoRequest THEN ids + 1 ELSE ids
    /\ \/ /\ epc # "down"
          /\ toServer' = r
          /\ waiting' = TRUE
          /\ client' = [client EXCEPT !.pending = r]
       \/ /\ epc = "down"      \* broken pipe
          /\ client' = [client EXCEPT !.pending = r, !.closed = TRUE]
          /\ UNCHANGED <<toServer, waiting>>
    /\ UNCHANGED <<disk, plane, epc, cont, locals, toClient, cut, session, crashes, timeouts, faults>>

\* start_isolated_evaluator bootstraps before it returns the client.
SendBootstrap ==
    /\ session = "starting" /\ client.seen = 0 /\ client.pending = NoRequest
    /\ epc = "idle"
    /\ Request("BOOTSTRAP", NoCheckpoint)

SendReveal(c) == session = "live" /\ Request("REVEAL", c)

SendFinalize == session = "live" /\ Request("FINALIZE", NoCheckpoint)

\* A failed start closes the client and ends the process; nobody gets a handle,
\* so what the process does in its last two seconds is not followed.
Lost ==
    /\ session' = IF session = "starting" THEN "lost" ELSE session
    /\ epc' = IF session = "starting" THEN "down" ELSE epc

\* Mutant: an unanswered request is forgotten.
GivesUpForgetful == [client EXCEPT !.closed = TRUE, !.pending = NoRequest]

\* A client that gets no valid response closes itself and keeps the request.
GivesUp == [client EXCEPT !.closed = TRUE]

Timeout ==
    /\ waiting /\ toClient = NoResponse
    /\ timeouts < MaxTimeouts
    /\ timeouts' = timeouts + 1
    /\ waiting' = FALSE
    /\ client' = GivesUp
    /\ Lost
    /\ UNCHANGED <<disk, plane, cont, locals, pipe, ids, crashes, faults>>

HangUp ==
    /\ waiting /\ toClient = NoResponse /\ epc = "down"
    /\ waiting' = FALSE
    /\ client' = GivesUp
    /\ Lost
    /\ UNCHANGED <<disk, plane, cont, locals, pipe, ids, crashes, timeouts, faults>>

\* The process died before the ready frame of the first start.
StartFails ==
    /\ session = "starting" /\ epc = "down" /\ ~waiting
    /\ Lost
    /\ UNCHANGED <<disk, plane, cont, locals, pipe, client, waiting, ids, crashes,
                   timeouts, faults>>

Genuine(m) ==
    /\ m.id = client.pending.id
    /\ m.sequence = client.sequence
    /\ m.previous = client.previousResponse

\* A frame that bypasses _request: an old one again, or one numbered too high.
OutOfTurn ==
    LET old == {journal[i].request : i \in DOMAIN journal} \ {NoRequest}
        skipping == [id |-> ids + 1, sequence |-> client.sequence + 1, operation |-> "REVEAL",
                     checkpoint |-> NoCheckpoint, previous |-> client.previousRequest]
    IN
    /\ session = "live" /\ Usable /\ epc = "idle" /\ ids < MaxRequests
    /\ toServer' \in old \cup {skipping}
    /\ ids' = ids + 1
    /\ waiting' = TRUE
    /\ UNCHANGED <<disk, plane, epc, cont, locals, toClient, cut, session, client, crashes,
                   timeouts, faults>>

\* What the accepted result of a request makes of _prefix: a bootstrap sets it,
\* the next event extends it, a known one changes nothing, any other is refused.
Learned(operation, x) ==
    CASE operation = "BOOTSTRAP" -> x
      [] operation = "REVEAL" /\ x = client.seen -> x + 1
      [] OTHER -> client.seen

NonCausal(operation, x) == operation = "REVEAL" /\ x > client.seen

\* _receive_response and the caller's reading of the payload.
Accept ==
    LET m == toClient
        operation == client.pending.operation
        ok == m.status = "OK"
    IN
    /\ waiting /\ m # NoResponse
    /\ waiting' = FALSE
    /\ toClient' = NoResponse
    /\ \/ /\ Genuine(m)
          /\ client' =
                [sequence |-> client.sequence + 1,
                 previousRequest |-> client.pending.id,
                 previousResponse |-> m.id,
                 pending |-> NoRequest,
                 closed |-> ~ok \/ operation = "FINALIZE" \/ NonCausal(operation, m.result),
                 seen |-> IF ok THEN Learned(operation, m.result) ELSE client.seen]
          /\ IF session = "starting" /\ ok THEN session' = "live" /\ UNCHANGED epc ELSE Lost
       \/ /\ ~Genuine(m)
          /\ client' = GivesUp
          /\ Lost
    /\ UNCHANGED <<disk, plane, cont, locals, toServer, cut, ids, crashes, timeouts, faults>>

\* EvaluatorClient.close, also after a timeout, when the evaluator may still be
\* at work on the request.
CloseClient ==
    /\ session = "live" /\ ~waiting /\ epc \notin Booting /\ ~cut
    /\ client' = [client EXCEPT !.closed = TRUE]
    /\ cut' = TRUE
    /\ UNCHANGED <<disk, plane, epc, cont, locals, toServer, toClient, session, waiting, ids, crashes,
                   timeouts, faults>>

-----------------------------------------------------------------------------
(* The prediction plane: run_origin from the packet of the current prefix *)

Predict(policy) ==
    /\ session = "live" /\ ~waiting /\ epc \notin Booting /\ ~phaseSealed
    /\ checkpoints' = checkpoints \cup {[origin |-> client.seen - 1, policy |-> policy]}
    /\ UNCHANGED <<disk, phaseSealed, epc, cont, locals, pipe, clientVars, crashes,
                   timeouts, faults>>

SealPhase ==
    /\ session = "live" /\ ~waiting /\ ~phaseSealed
    /\ phaseSealed' = TRUE
    /\ UNCHANGED <<disk, checkpoints, epc, cont, locals, pipe, clientVars, crashes,
                   timeouts, faults>>

-----------------------------------------------------------------------------
EvaluatorStep ==
    \/ OpenJournal \/ OpenAccess \/ Bootstrap \/ Ready \/ WriteHead
    \/ Receive \/ ProtocolAbort \/ EndOfSession
    \/ RunBootstrap \/ RunReveal \/ RunFinalize \/ ScoreStage
    \/ Finish \/ Reply \/ Abort \/ Refuse

Retry == client.pending # NoRequest /\ (SendReveal(client.pending.checkpoint) \/ SendFinalize)

Next ==
    \/ Launch \/ Restart \/ EvaluatorStep \/ Crash \/ Kill
    \/ SendBootstrap \/ SendFinalize
    \/ \E c \in checkpoints \cup {NoCheckpoint} : SendReveal(c)
    \/ Timeout \/ HangUp \/ StartFails \/ Accept \/ CloseClient
    \/ SealPhase \/ \E policy \in Policies : Predict(policy)

Spec == Init /\ [][Next]_vars

\* The client is in the hands of prediction code, which is not trusted.
UnrulySpec == Init /\ [][Next \/ OutOfTurn]_vars

\* The evaluator runs, the driver waits for answers and keeps retrying: it
\* kills and restarts an evaluator it lost and, if it goes on reopening the
\* session, does not close it every time before it retries.
FairSpec ==
    /\ Spec
    /\ WF_vars(EvaluatorStep) /\ WF_vars(Accept) /\ WF_vars(HangUp)
    /\ WF_vars(Kill) /\ WF_vars(Restart) /\ SF_vars(Retry)

-----------------------------------------------------------------------------
(* Properties *)

TypeOK ==
    /\ \A i \in DOMAIN journal : journal[i] \in JournalRecords
    /\ head \in Nat
    /\ \A i \in DOMAIN access :
          /\ access[i].event \in 0..(NumEvents - 1)
          /\ access[i].checkpoint \in Checkpoints \cup {NoCheckpoint}
    /\ torn \subseteq {"journal", "access"} /\ scoring \in 0..4
    /\ checkpoints \subseteq Checkpoints /\ phaseSealed \in BOOLEAN
    /\ epc \in EPCs /\ cont \in EPCs
    /\ req \in Requests /\ mode \in {"fresh", "recover", "replay"}
    /\ result \in Nat /\ revealed \in 0..NumEvents
    /\ toServer \in Requests /\ toClient \in Responses /\ cut \in BOOLEAN
    /\ session \in {"unborn", "starting", "live", "lost"}
    /\ client \in [sequence: Nat, previousRequest: Nat, previousResponse: Nat,
                   pending: Requests, closed: BOOLEAN, seen: 0..NumEvents]
    /\ waiting \in BOOLEAN
    /\ ids \in 0..MaxRequests /\ crashes \in Nat /\ timeouts \in Nat /\ faults \in Nat

\* The journal ends in a refusal.
Refused == journal # <<>> /\ Last.phase = "ABORTED"

\* Blindness: whatever dies and is retried, the evaluator is at most one event
\* ahead of the client, and only for the checkpoint of the request the client
\* still holds; a refused session stays where it was refused.
NoEventRunsAhead ==
    session = "live" =>
        \/ Len(access) = client.seen
        \/ /\ Len(access) = client.seen + 1
           /\ \/ client.pending.checkpoint = access[Len(access)].checkpoint
              \/ Refused

\* The two ledgers agree in every state: an event left the store exactly for
\* the REVEALs the journal has COMPLETED, and perhaps for the one that its last
\* line leaves open, refuses or could not complete; the ACCESS ledger passes
\* verify_access_barrier, so a complete replay is never refused at FINALIZE for
\* how it was revealed; and a client that follows _request never makes the
\* evaluator end the session for a protocol violation, whatever was lost.
LedgersStayOrderly ==
    LET used == {access[i].checkpoint : i \in DOMAIN access} \ {NoCheckpoint}
        done == {journal[i].request.checkpoint : i \in Completed} \ {NoCheckpoint}
    IN /\ AccessBarrier
       /\ journal # <<>> => done \subseteq used /\ used \subseteq done \cup {Last.request.checkpoint}
       /\ \A i \in DOMAIN journal : journal[i].operation # "PROTOCOL"

\* Once the journal holds a refusal or a violation, no restart and no request
\* brings out another event or a label.
RefusalIsFinal ==
    [][(\E i \in DOMAIN journal : journal[i].phase = "ABORTED" \/ journal[i].operation = "PROTOCOL")
        => access' = access /\ scoring' = scoring /\ client'.seen = client.seen]_vars

\* The replay behind processes, pipes and crashes is the causal replay.
Reveals == INSTANCE CausalReveal WITH
    revealed <- Len(access), seen <- client.seen,
    committed <- {c.origin : c \in checkpoints}, scored <- scoring >= 2
ImplementsCausalReveal == Reveals!Spec

\* The session can no longer restart for a reason the constructor of the
\* journal gives: the head is behind, the file does not verify, a refusal.
Unrestartable ==
    epc = "down" /\ (head # Len(journal) \/ torn # {} \/ Refused)

\* A REVEAL without an answer is answered in the end, unless the journal can
\* no longer be opened.
PendingRevealResolved ==
    (session = "live" /\ client.pending.operation = "REVEAL")
        ~> (client.pending = NoRequest \/ Unrestartable)

=============================================================================
