----------------------------- MODULE ArkOneShot -----------------------------
(***************************************************************************)
(* One paid call: the runner's attempt, the Ark provider adapter, the      *)
(* one-shot HTTPS transport with its credential lease, and the FINISHED    *)
(* row the runner closes the attempt with                                  *)
(* (experiments/vfps_agent/ark_provider.py, ark_https_transport.py and     *)
(* _closed_result of runner.py).                                           *)
(*                                                                         *)
(* Every attempt runs in a thread.  Adapters and transports are single-use *)
(* objects that threads, and a careless composition root, may share.       *)
(*                                                                         *)
(* Abstractions.  A hash is what it is a hash of; the hashes that bind the *)
(* frozen policy, prompt and schema are equal by construction and left     *)
(* out.  A provider's answer is the list of the checks it passes.  The     *)
(* wall clock is read afresh wherever the code reads it and may be stepped *)
(* back: a reading is any moment of 0..Latest.                             *)
(***************************************************************************)
EXTENDS Integers, FiniteSets

CONSTANTS
    Attempts,      \* threads, each with one attempt
    Adapters, Transports,
    Wirings,       \* how a composition root may share and configure them
    Started, Deadline, Latest,  \* moments of the wall clock
    None

ASSUME ClockAssumption ==
    /\ Started \in Nat /\ Deadline \in Nat /\ Latest \in Nat
    /\ 0 < Started /\ Started < Deadline /\ Deadline < Latest

Lanes == {"formal", "mock", "bare"}

\* _validate_static_bindings: a formal adapter demands a transport that issues
\* receipts and a canonical schema; the mock override lifts the first demand,
\* and with "bare" the second.
ASSUME WiringAssumption ==
    Wirings \subseteq [adapter: [Attempts -> Adapters], transport: [Adapters -> Transports],
                       lane: [Adapters -> Lanes]]

Moments == 0..Latest

Later(x, y) == IF x < y THEN y ELSE x

-----------------------------------------------------------------------------
(* The provider's answer, as the checks it passes *)

\* _extract_usage: absent, reported, or refused.
UsageReports == {"none", "valid", "bad"}

\* One assistant message with one plain text part, that the schema accepts.
Contents == BOOLEAN

\* http: 0 is not a status.
Answers == [http: {200, 500, 0}, json: BOOLEAN, envelope: BOOLEAN,
            usage: UsageReports, model: {"requested", "other"}, content: Contents]

\* Answers told apart by the code: later checks of a failed answer do not matter.
Told(a) ==
    /\ a.http # 200 => ~a.json
    /\ ~a.json => ~a.envelope
    /\ ~a.envelope => a.usage = "bad"
    /\ a.usage = "bad" => a.model = "requested"
    /\ a.model = "other" => ~a.content
    /\ a.usage = "bad" => ~a.content

ToldAnswers == {a \in Answers : Told(a)}

-----------------------------------------------------------------------------
(* Receipts of the transport *)

Outcomes == {"RESPONSE_COMPLETE", "PRE_REQUEST_FAILURE", "REQUEST_FAILURE", "RESPONSE_FAILURE"}

WireStates == {"NOT_CALLED", "REQUEST_CALL_RAISED", "REQUEST_CALL_RETURNED",
               "RESPONSE_HEADERS", "RESPONSE_COMPLETE"}

\* Where send stands; each line is what a failure there puts in its receipt.
Stages == {"entry", "lease", "connect", "request", "getresponse", "headers", "body", "complete"}

After(stage) ==
    CASE stage \in {"entry", "lease"} -> [auth |-> FALSE, conns |-> 0, requests |-> 0, gets |-> 0, reads |-> 0]
      [] stage = "connect" -> [auth |-> TRUE, conns |-> 0, requests |-> 0, gets |-> 0, reads |-> 0]
      [] stage = "request" -> [auth |-> TRUE, conns |-> 1, requests |-> 1, gets |-> 0, reads |-> 0]
      [] stage \in {"getresponse", "headers"} ->
            [auth |-> TRUE, conns |-> 1, requests |-> 1, gets |-> 1, reads |-> 0]
      [] OTHER -> [auth |-> TRUE, conns |-> 1, requests |-> 1, gets |-> 1, reads |-> 1]

WireAt(stage) ==
    CASE stage \in {"entry", "lease", "connect"} -> "NOT_CALLED"
      [] stage = "request" -> "REQUEST_CALL_RAISED"
      [] stage = "getresponse" -> "REQUEST_CALL_RETURNED"
      [] stage \in {"headers", "body"} -> "RESPONSE_HEADERS"
      [] OTHER -> "RESPONSE_COMPLETE"

OutcomeAt(stage) ==
    CASE stage \in {"entry", "lease", "connect"} -> "PRE_REQUEST_FAILURE"
      [] stage = "request" -> "REQUEST_FAILURE"
      [] stage = "complete" -> "RESPONSE_COMPLETE"
      [] OTHER -> "RESPONSE_FAILURE"

\* The failure codes send may return from a stage.
CodesAt(stage) ==
    CASE stage = "entry" -> {"ALREADY_CONSUMED", "DEADLINE_EXPIRED"}
      [] stage = "lease" -> {"CREDENTIAL_UNAVAILABLE", "INVALID_CREDENTIAL"}
      [] stage = "connect" -> {"TLS_ERROR", "INTERNAL_ERROR"}
      [] stage = "request" -> {"TIMEOUT", "TLS_ERROR", "DNS_CONNECT_ERROR", "REQUEST_IO_ERROR",
                               "INTERNAL_ERROR"}
      [] stage = "getresponse" -> {"TIMEOUT", "TLS_ERROR", "RESPONSE_PROTOCOL_ERROR"}
      [] stage = "headers" -> {"RESPONSE_PROTOCOL_ERROR"}
      [] stage = "body" -> {"RESPONSE_INCOMPLETE", "TIMEOUT", "RESPONSE_PROTOCOL_ERROR",
                            "RESPONSE_TOO_LARGE"}
      [] OTHER -> {"NONE"}

\* The bytes a failure saw: what was read before the read broke off.
Observed(stage, code) ==
    stage = "complete" \/ code \in {"RESPONSE_INCOMPLETE", "RESPONSE_TOO_LARGE"}

\* Mutant: the completion time is not pulled up to the start.
CompletedRaw(start, reading) == reading

CompletedAt(start, reading) == Later(start, reading)

\* A failure reports the status once the headers were read.
HttpAt(stage) ==
    CASE stage = "headers" -> {None, 200}
      [] stage = "body" -> {200}
      [] OTHER -> {None}

\* _receipt and _failure.
Receipt(stage, code, start, reading, http) ==
    [calls |-> After(stage), outcome |-> OutcomeAt(stage), wire |-> WireAt(stage),
     code |-> code, http |-> http,
     complete |-> stage = "complete", observed |-> Observed(stage, code),
     started |-> start, completed |-> CompletedAt(start, reading)]

\* ArkOneShotTransportReceipt.__post_init__.
ReceiptValid(r) ==
    LET c == r.calls IN
    /\ r.completed >= r.started
    /\ c.conns <= 1 /\ c.requests <= 1
    /\ c.gets <= c.requests /\ c.reads <= c.gets
    /\ c.requests = 1 => c.auth /\ c.conns = 1
    /\ r.outcome \in Outcomes /\ r.wire \in WireStates
    /\ IF r.outcome = "RESPONSE_COMPLETE"
       THEN /\ r.code = "NONE" /\ r.wire = "RESPONSE_COMPLETE" /\ r.complete
            /\ c.conns + c.requests + c.gets + c.reads = 4
            /\ r.http # None /\ r.observed
       ELSE /\ r.code # "NONE" /\ ~r.complete
            /\ r.outcome = "PRE_REQUEST_FAILURE" =>
                  r.wire = "NOT_CALLED" /\ c.requests + c.gets + c.reads = 0
            /\ r.outcome = "REQUEST_FAILURE" =>
                  r.wire = "REQUEST_CALL_RAISED" /\ c.requests = 1 /\ c.gets + c.reads = 0
            /\ r.outcome = "RESPONSE_FAILURE" =>
                  c.requests = 1 /\ r.wire \in {"REQUEST_CALL_RETURNED", "RESPONSE_HEADERS"}

-----------------------------------------------------------------------------
(* The adapter's verdict and its audit *)

ClosedOutcomes == {"SUCCESS", "LATE_RESPONSE", "MODEL_MISMATCH", "TRANSPORT_ERROR",
                   "HTTP_ERROR", "INVALID_RESPONSE"}

Accepted == {"SUCCESS", "LATE_RESPONSE"}
Identified == Accepted \cup {"MODEL_MISMATCH"}

\* The checks of invoke, in their order.
Verdict(answer, completed) ==
    CASE answer.http = 0 -> "INVALID_RESPONSE"
      [] answer.http \notin {0, 200} -> "HTTP_ERROR"
      [] answer.http = 200 /\ (completed < Started \/ ~answer.json \/ ~answer.envelope
                               \/ answer.usage = "bad") -> "INVALID_RESPONSE"
      [] OTHER -> CASE answer.model = "other" -> "MODEL_MISMATCH"
                    [] answer.model # "other" /\ ~answer.content -> "INVALID_RESPONSE"
                    [] OTHER -> IF completed > Deadline THEN "LATE_RESPONSE" ELSE "SUCCESS"

\* _audit: what invoke binds under each outcome.
Audit(outcome, completed, physical, receipt, answer) ==
    [outcome |-> outcome, completed |-> Later(Started, completed), physical |-> physical,
     receipt |-> receipt,
     http |-> IF answer = None THEN None ELSE IF answer.http = 0 THEN None ELSE answer.http,
     raw |-> answer # None,
     model |-> IF outcome \in Identified THEN answer.model ELSE None,
     id |-> outcome \in Identified,
     content |-> outcome \in Accepted,
     usage |-> outcome \in Identified /\ answer.usage = "valid"]

\* ArkProviderEvidenceEnvelope.__post_init__: no more calls than the slot has,
\* and a receipt exactly under a manifest that requires one.  Both sides of the
\* other comparisons come from the contracts that the adapter was built with.
EnvelopeHolds(lane, u) == u.physical <= 1 /\ (lane = "formal") = (u.receipt # None)

\* ArkInvocationAudit.__post_init__, inside its envelope.
AuditValid(lane, u) ==
    /\ EnvelopeHolds(lane, u)
    /\ u.outcome \in ClosedOutcomes
    /\ u.physical \in {0, 1}
    /\ u.receipt # None =>
          /\ ReceiptValid(u.receipt)
          /\ u.physical = u.receipt.calls.requests
          /\ u.completed = u.receipt.completed
          /\ IF u.receipt.complete
             THEN u.http = u.receipt.http /\ u.raw
             ELSE u.outcome = "TRANSPORT_ERROR"
    /\ u.completed >= Started
    /\ u.outcome \in Accepted =>
          /\ u.physical = 1 /\ u.http = 200 /\ u.model = "requested"
          /\ u.raw /\ u.id /\ u.content
          /\ (u.outcome = "LATE_RESPONSE") = (u.completed > Deadline)
    /\ u.outcome = "MODEL_MISMATCH" =>
          /\ u.physical = 1 /\ u.http = 200 /\ u.model \notin {None, "requested"}
          /\ u.raw /\ u.id /\ ~u.content
    /\ u.outcome = "HTTP_ERROR" =>
          u.physical = 1 /\ u.http \notin {None, 200} /\ u.raw /\ ~u.content
    /\ u.outcome = "INVALID_RESPONSE" => u.physical = 1 /\ u.raw /\ ~u.content
    /\ u.outcome = "TRANSPORT_ERROR" =>
          u.http = None /\ u.model = None /\ ~u.raw /\ ~u.id /\ ~u.content

Statuses == {"SUCCESS", "MODEL_MISMATCH", "ERROR"}

StatusOf(outcome) ==
    CASE outcome \in Accepted -> "SUCCESS"
      [] outcome = "MODEL_MISMATCH" -> "MODEL_MISMATCH"
      [] OTHER -> "ERROR"

\* Mutant: a late answer is handed on without the identity of the response.
ResponseAnonymousWhenLate(u) ==
    [status |-> StatusOf(u.outcome), completed |-> u.completed, late |-> u.completed > Deadline,
     usage |-> u.usage, id |-> u.outcome = "SUCCESS", model |-> u.model,
     text |-> u.outcome \in Accepted, audit |-> u]

\* _closed_response, and the accepting end of invoke.  Only the latter hands
\* the runner the response's identity.
Response(u) ==
    [status |-> StatusOf(u.outcome), completed |-> u.completed, late |-> u.completed > Deadline,
     usage |-> u.usage, id |-> u.outcome \in Accepted, model |-> u.model,
     text |-> u.outcome \in Accepted, audit |-> u]

\* _unaudited_transport_error, and what the runner makes of an exception.
Unaudited ==
    [status |-> "ERROR", completed |-> Started, late |-> FALSE, usage |-> FALSE, id |-> FALSE,
     model |-> None, text |-> FALSE, audit |-> None]

-----------------------------------------------------------------------------
(* The runner's FINISHED row *)

\* The error the runner derives, and the one it expects of the evidence.
DerivedError(status) ==
    CASE status = "SUCCESS" -> "NONE"
      [] status = "MODEL_MISMATCH" -> "MODEL_MISMATCH"
      [] OTHER -> "PROVIDER_ERROR"

ExpectedError(outcome) ==
    IF outcome = "INVALID_RESPONSE" THEN "INVALID_RESPONSE" ELSE DerivedError(StatusOf(outcome))

\* validate_attempt, the comparisons of _closed_result, validate_result.
Binds(lane, r) ==
    LET u == r.audit IN
    /\ AuditValid(lane, u)
    /\ lane # "bare"
    /\ r.status = StatusOf(u.outcome)
    /\ DerivedError(r.status) = ExpectedError(u.outcome)
    /\ r.completed = u.completed
    /\ r.late = (u.completed > Deadline)
    /\ r.usage = u.usage /\ r.id = u.id /\ r.model = u.model /\ r.text = u.content

\* Mutant: a row whose evidence does not bind keeps the provider's status.
FinishedTrusting(lane, r) ==
    [status |-> r.status, error |-> DerivedError(r.status), completed |-> r.completed,
     late |-> r.late, evidence |-> r.audit # None, text |-> r.text]

\* _closed_result; text is what reaches execute_arm.
Finished(lane, r) ==
    IF r.audit # None /\ ~Binds(lane, r)
    THEN [status |-> "ERROR", error |-> "BINDING_MISMATCH", completed |-> r.completed,
          late |-> r.late, evidence |-> FALSE, text |-> FALSE]
    ELSE [status |-> r.status, error |-> DerivedError(r.status), completed |-> r.completed,
          late |-> r.late, evidence |-> r.audit # None,
          text |-> r.status = "SUCCESS" /\ ~r.late /\ r.text]

-----------------------------------------------------------------------------
VARIABLES
    wiring,    \* which adapter an attempt uses, with which transport and lane
    used,      \* adapters whose slot is consumed
    sent,      \* transports whose send was entered
    leases,    \* per transport: credentials taken
    physical,  \* per adapter: its own count of physical attempts
    at,        \* per attempt: where its thread stands
    began,     \* per attempt: the transport's started_unix_ms, or None
    secret,    \* per attempt: its thread holds a readable credential
    wire,      \* per attempt: request calls really made
    built,     \* per attempt: the receipt and the audit that were put together
    row        \* per attempt: the FINISHED row, or None

vars == <<wiring, used, sent, leases, physical, at, began, secret, wire, built, row>>

Points == {"idle", "send", "done"} \cup Stages

Init ==
    /\ wiring \in Wirings
    /\ used = {} /\ sent = {}
    /\ leases = [t \in Transports |-> 0]
    /\ physical = [d \in Adapters |-> 0]
    /\ at = [a \in Attempts |-> "idle"]
    /\ began = [a \in Attempts |-> None]
    /\ secret = [a \in Attempts |-> FALSE]
    /\ wire = [a \in Attempts |-> 0]
    /\ built = [a \in Attempts |-> [receipt |-> None, audit |-> None]]
    /\ row = [a \in Attempts |-> None]

AdapterOf(a) == wiring.adapter[a]
LaneOf(a) == wiring.lane[AdapterOf(a)]
TransportOf(a) == wiring.transport[AdapterOf(a)]

\* invoke returns or raises; the runner closes the slot.
Close(a, response) ==
    /\ at' = [at EXCEPT ![a] = "done"]
    /\ row' = [row EXCEPT ![a] = Finished(LaneOf(a), response)]

\* An audit that fails its own checks leaves invoke as an exception.
CloseAudited(a, receipt, u) ==
    /\ built' = [built EXCEPT ![a] = [receipt |-> receipt, audit |-> u]]
    /\ physical' = [physical EXCEPT ![AdapterOf(a)] = @ + u.physical]
    /\ Close(a, IF AuditValid(LaneOf(a), u) THEN Response(u) ELSE Unaudited)

-----------------------------------------------------------------------------
(* The adapter: entry *)

\* _validate_attempt: the attempt is of another policy, arm, packet or budget.
RefuseAttempt(a) ==
    /\ at[a] = "idle"
    /\ Close(a, Unaudited)
    /\ UNCHANGED <<wiring, used, sent, leases, physical, began, secret, wire, built>>

\* Mutant: the slot is looked at, and not taken.
InvokeUnlocked(a) ==
    /\ at[a] = "idle"
    /\ AdapterOf(a) \notin used
    /\ used' \in {used, used \cup {AdapterOf(a)}}
    /\ at' = [at EXCEPT ![a] = "send"]
    /\ UNCHANGED <<wiring, sent, leases, physical, began, secret, wire, built, row>>

Invoke(a) ==
    /\ at[a] = "idle"
    /\ AdapterOf(a) \notin used
    /\ used' = used \cup {AdapterOf(a)}
    /\ at' = [at EXCEPT ![a] = "send"]
    /\ UNCHANGED <<wiring, sent, leases, physical, began, secret, wire, built, row>>

\* ArkInvocationError.
InvokeConsumed(a) ==
    /\ at[a] = "idle"
    /\ AdapterOf(a) \in used
    /\ Close(a, Unaudited)
    /\ UNCHANGED <<wiring, used, sent, leases, physical, began, secret, wire, built>>

\* A mock transport raises, returns something else, or answers at any moment.
MockSend(a) ==
    /\ at[a] = "send"
    /\ LaneOf(a) # "formal"
    /\ wire' = [wire EXCEPT ![a] = @ + 1]
    /\ \/ CloseAudited(a, None, Audit("TRANSPORT_ERROR", Started, 1, None, None))
       \/ \E answer \in ToldAnswers, now \in Moments :
             CloseAudited(a, None, Audit(Verdict(answer, now), now, 1, None, answer))
    /\ UNCHANGED <<wiring, used, sent, leases, began, secret>>

-----------------------------------------------------------------------------
(* The transport: send *)

\* The typed result comes back to a formal adapter.
Deliver(a, receipt, answer) ==
    /\ secret' = [secret EXCEPT ![a] = FALSE]
    /\ IF ReceiptValid(receipt) /\ receipt.started >= Started
       THEN CloseAudited(a, receipt,
               Audit(IF answer = None THEN "TRANSPORT_ERROR" ELSE Verdict(answer, receipt.completed),
                     receipt.completed, receipt.calls.requests, receipt, answer))
       ELSE /\ built' = [built EXCEPT ![a] = [receipt |-> receipt, audit |-> None]]
            /\ Close(a, Unaudited)
            /\ UNCHANGED physical

\* Mutant: the transport does not notice that it was entered before.
EnterAgain(a) ==
    /\ at[a] = "send" /\ LaneOf(a) = "formal"
    /\ sent' = sent \cup {TransportOf(a)}
    /\ \E now \in 0..(Deadline - 1) : began' = [began EXCEPT ![a] = now]
    /\ at' = [at EXCEPT ![a] = "lease"]
    /\ UNCHANGED <<wiring, used, leases, physical, secret, wire, built, row>>

Enter(a) ==
    /\ at[a] = "send" /\ LaneOf(a) = "formal"
    /\ TransportOf(a) \notin sent
    /\ sent' = sent \cup {TransportOf(a)}
    /\ \E now \in 0..(Deadline - 1) : began' = [began EXCEPT ![a] = now]
    /\ at' = [at EXCEPT ![a] = "lease"]
    /\ UNCHANGED <<wiring, used, leases, physical, secret, wire, built, row>>

\* ALREADY_CONSUMED or DEADLINE_EXPIRED.
EnterRefused(a) ==
    /\ at[a] = "send" /\ LaneOf(a) = "formal"
    /\ sent' = sent \cup {TransportOf(a)}
    /\ \E now \in Moments, later \in Moments :
          /\ TransportOf(a) \in sent \/ now >= Deadline
          /\ Deliver(a, Receipt("entry", IF TransportOf(a) \in sent THEN "ALREADY_CONSUMED"
                                         ELSE "DEADLINE_EXPIRED", now, later, None), None)
    /\ UNCHANGED <<wiring, used, leases, began, wire>>

TakeLease(a) ==
    /\ at[a] = "lease"
    /\ leases' = [leases EXCEPT ![TransportOf(a)] = @ + 1]
    /\ secret' = [secret EXCEPT ![a] = TRUE]
    /\ at' = [at EXCEPT ![a] = "connect"]
    /\ UNCHANGED <<wiring, used, sent, physical, began, wire, built, row>>

Connect(a) ==
    /\ at[a] = "connect"
    /\ at' = [at EXCEPT ![a] = "request"]
    /\ UNCHANGED <<wiring, used, sent, leases, physical, began, secret, wire, built, row>>

\* Mutant: a request call that was cut off is made again.
RequestCallRetried(a) ==
    /\ at[a] = "request"
    /\ \E n \in 1..2 : wire' = [wire EXCEPT ![a] = @ + n]
    /\ secret' = [secret EXCEPT ![a] = FALSE]
    /\ at' = [at EXCEPT ![a] = "getresponse"]
    /\ UNCHANGED <<wiring, used, sent, leases, physical, began, built, row>>

\* connection.request returns; its finally wipes the credential.
RequestCall(a) ==
    /\ at[a] = "request"
    /\ wire' = [wire EXCEPT ![a] = @ + 1]
    /\ secret' = [secret EXCEPT ![a] = FALSE]
    /\ at' = [at EXCEPT ![a] = "getresponse"]
    /\ UNCHANGED <<wiring, used, sent, leases, physical, began, built, row>>

GetResponse(a) ==
    /\ at[a] = "getresponse"
    /\ at' = [at EXCEPT ![a] = "headers"]
    /\ UNCHANGED <<wiring, used, sent, leases, physical, began, secret, wire, built, row>>

ReadHeaders(a) ==
    /\ at[a] = "headers"
    /\ at' = [at EXCEPT ![a] = "body"]
    /\ UNCHANGED <<wiring, used, sent, leases, physical, began, secret, wire, built, row>>

\* Any step of send fails; a failing request call was still a request call.
SendFails(a) ==
    /\ at[a] \in Stages \ {"entry", "complete"}
    /\ wire' = IF at[a] = "request" THEN [wire EXCEPT ![a] = @ + 1] ELSE wire
    /\ \E code \in CodesAt(at[a]), later \in Moments, http \in HttpAt(at[a]) :
          /\ leases' = IF code = "INVALID_CREDENTIAL"
                       THEN [leases EXCEPT ![TransportOf(a)] = @ + 1] ELSE leases
          /\ Deliver(a, Receipt(at[a], code, began[a], later, http), None)
    /\ UNCHANGED <<wiring, used, sent, began>>

\* The body is read whole; the status passed the header checks.
ReadBody(a) ==
    /\ at[a] = "body"
    /\ \E answer \in ToldAnswers, later \in Moments :
          /\ answer.http # 0
          /\ Deliver(a, Receipt("complete", "NONE", began[a], later, answer.http), answer)
    /\ UNCHANGED <<wiring, used, sent, leases, began, wire>>

Next ==
    \E a \in Attempts :
        \/ RefuseAttempt(a) \/ Invoke(a) \/ InvokeConsumed(a) \/ MockSend(a)
        \/ Enter(a) \/ EnterRefused(a) \/ TakeLease(a) \/ Connect(a) \/ RequestCall(a)
        \/ GetResponse(a) \/ ReadHeaders(a) \/ SendFails(a) \/ ReadBody(a)

Spec == Init /\ [][Next]_vars

-----------------------------------------------------------------------------
(* Correctness *)

Codes == UNION {CodesAt(stage) : stage \in Stages}

CallCounts == [auth: BOOLEAN, conns: 0..1, requests: 0..1, gets: 0..1, reads: 0..1]

Receipts == [calls: CallCounts, outcome: Outcomes, wire: WireStates, code: Codes,
             http: {200, 500, None}, complete: BOOLEAN, observed: BOOLEAN,
             started: Moments, completed: Moments]

Audits == [outcome: ClosedOutcomes, completed: Moments, physical: 0..1,
           receipt: Receipts \cup {None}, http: {200, 500, None}, raw: BOOLEAN,
           model: {"requested", "other", None}, id: BOOLEAN, content: BOOLEAN, usage: BOOLEAN]

Rows == [status: Statuses,
         error: {"NONE", "PROVIDER_ERROR", "MODEL_MISMATCH", "INVALID_RESPONSE", "BINDING_MISMATCH"},
         completed: Moments, late: BOOLEAN, evidence: BOOLEAN, text: BOOLEAN]

\* None is no value of the code's types.
ASSUME NoneAssumption ==
    /\ None \notin Moments /\ None \notin {200, 500} /\ None \notin {"requested", "other"}
    /\ None \notin Answers /\ None \notin Receipts /\ None \notin Audits /\ None \notin Rows

\* Type invariant; a FINISHED row holds exactly the closed codes of contracts.py,
\* and an attempt has a row exactly when its thread is done.
TypeOK ==
    /\ wiring \in Wirings
    /\ used \subseteq Adapters /\ sent \subseteq Transports
    /\ leases \in [Transports -> Nat] /\ physical \in [Adapters -> Nat]
    /\ at \in [Attempts -> Points]
    /\ began \in [Attempts -> Moments \cup {None}]
    /\ secret \in [Attempts -> BOOLEAN] /\ wire \in [Attempts -> Nat]
    /\ built \in [Attempts -> [receipt: Receipts \cup {None}, audit: Audits \cup {None}]]
    /\ row \in [Attempts -> Rows \cup {None}]
    /\ \A a \in Attempts : (row[a] # None) = (at[a] = "done")

\* However threads share adapters and transports, an adapter and a formal
\* transport put at most one request on the wire ("Consume this transport and
\* perform at most one HTTPS request call"), no credential is taken from a lease
\* twice, and none is readable but between the lease and the end of the request
\* call: not while the answer is awaited, nor once send was left by any path.
CredentialServesOneCall ==
    /\ \A d \in Adapters : Cardinality({a \in Attempts : AdapterOf(a) = d /\ wire[a] > 0}) <= 1
    /\ \A t \in Transports :
          /\ Cardinality({a \in Attempts : TransportOf(a) = t /\ LaneOf(a) = "formal"
                                           /\ wire[a] > 0}) <= 1
          /\ leases[t] <= 1
    /\ \A a \in Attempts :
          /\ wire[a] <= 1
          /\ secret[a] => at[a] \in {"connect", "request"} /\ wire[a] = 0

\* A durable row that keeps provider evidence tells how many request calls were
\* made, and the adapter's own counter never exceeds the calls on the wire: a
\* failure before the wire is not billed as a call, and one after is.
EvidenceTellsTheWire ==
    \A a \in Attempts : LaneOf(a) = "formal" =>
        /\ row[a] # None => (row[a].evidence => built[a].audit.physical = wire[a])
        /\ physical[AdapterOf(a)] <=
              Cardinality({b \in Attempts : AdapterOf(b) = AdapterOf(a) /\ wire[b] = 1})

\* Text reaches the arm only from a whole answer of the requested model, sent
\* after the attempt started and completed by its deadline, and in the formal
\* lane only under evidence that says so.
UsedAnswerIsEarned ==
    \A a \in Attempts : row[a] # None => (row[a].text =>
        /\ ~row[a].late /\ row[a].completed \in Started..Deadline
        /\ row[a].evidence
        /\ built[a].audit.outcome = "SUCCESS" /\ built[a].audit.model = "requested"
        /\ LaneOf(a) = "formal" =>
              built[a].receipt.complete /\ wire[a] = 1 /\ began[a] >= Started)

\* Every receipt and every audit the code puts together passes its own
\* constructor's checks, whatever the clock does and wherever send stops: no
\* path loses a consumed slot to its own bookkeeping.
EveryPathCloses ==
    \A a \in Attempts :
        /\ built[a].receipt # None => ReceiptValid(built[a].receipt)
        /\ built[a].audit # None => AuditValid(LaneOf(a), built[a].audit)

\* runner.py freezes that a FINISHED row keeps the typed evidence of its answer:
\* so it does for every audited answer of a qualified adapter, late and failed
\* ones included, but for the two outcomes on which the adapter and the
\* runner's own table disagree.
AuditedAnswerKeepsEvidence ==
    \A a \in Attempts :
        /\ row[a] # None /\ built[a].audit # None /\ LaneOf(a) # "bare"
        /\ built[a].audit.outcome \notin {"INVALID_RESPONSE", "MODEL_MISMATCH"}
        => row[a].evidence
=============================================================================
