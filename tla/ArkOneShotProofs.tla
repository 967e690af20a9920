-------------------------- MODULE ArkOneShotProofs --------------------------
(***************************************************************************)
(* Machine-checked proofs about the paid call, for every number of threads *)
(* and every way in which they share adapters and transports.              *)
(***************************************************************************)
EXTENDS ArkOneShot, TLAPS, FiniteSetTheorems

USE ClockAssumption, WiringAssumption

-----------------------------------------------------------------------------
(* The inductive invariant *)

Unbuilt == [receipt |-> None, audit |-> None]

\* What a closed slot keeps, told of its lane, its receipt and audit, its row,
\* its calls on the wire and the moment its send began.
Settled(lane, b, finished, calls, start) ==
    /\ b.receipt # None =>
          ReceiptValid(b.receipt) /\ (b.receipt.complete => b.receipt.started = start)
    /\ b.audit = None => finished = Finished(lane, Unaudited)
    /\ b.audit # None =>
          /\ finished = Finished(lane, Response(b.audit))
          /\ AuditValid(lane, b.audit)
          /\ b.audit.receipt = b.receipt
          /\ b.audit.id = (b.audit.outcome \in Identified)
          /\ b.audit.content = (b.audit.outcome \in Accepted)
          /\ b.audit.physical = calls
          /\ lane = "formal" => b.receipt.started >= Started

\* What an attempt has done by the point where its thread stands.
Holds(a) ==
    /\ wire[a] \in {0, 1}
    /\ at[a] \notin {"entry", "complete"}
    /\ at[a] # "done" => row[a] = None /\ built[a] = Unbuilt
    /\ at[a] \in {"idle", "send", "lease", "connect", "request"} => wire[a] = 0
    /\ at[a] \in {"getresponse", "headers", "body"} => wire[a] = 1
    /\ at[a] \in Stages => LaneOf(a) = "formal" /\ began[a] \in Moments
    /\ secret[a] => at[a] \in {"connect", "request"}
    /\ at[a] = "done" => Settled(LaneOf(a), built[a], row[a], wire[a], began[a])

AttemptsHold == \A a \in Attempts : Holds(a)

\* The attempt has its adapter's slot, and put or may yet put a request on the
\* wire; and the attempt that has a formal transport.
Engaged(a) == at[a] \in {"send"} \cup Stages \/ wire[a] = 1
Inside(a) == LaneOf(a) = "formal" /\ (at[a] \in Stages \/ wire[a] = 1)

\* Whoever is engaged has consumed the slot, alone; likewise for a transport.
OwnersHold ==
    /\ \A a \in Attempts : /\ Engaged(a) => AdapterOf(a) \in used
                           /\ Inside(a) => TransportOf(a) \in sent
    /\ \A a, b \in Attempts :
          /\ Engaged(a) /\ Engaged(b) /\ AdapterOf(a) = AdapterOf(b) => a = b
          /\ Inside(a) /\ Inside(b) /\ TransportOf(a) = TransportOf(b) => a = b

\* A lease is taken behind the consumed transport, once.
LeasesHold ==
    /\ \A t \in Transports : leases[t] \in {0, 1} /\ (leases[t] = 1 => t \in sent)
    /\ \A a \in Attempts : at[a] = "lease" => leases[TransportOf(a)] = 0

\* The adapter counts a call only when the attempt that made it is closed.
CountsHold ==
    \A d \in Adapters :
        /\ physical[d] \in {0, 1}
        /\ physical[d] = 1 =>
              \E b \in Attempts : AdapterOf(b) = d /\ at[b] = "done" /\ wire[b] = 1

IInv == TypeOK /\ AttemptsHold /\ OwnersHold /\ LeasesHold /\ CountsHold

-----------------------------------------------------------------------------
(* What the adapter and the transport put together *)

LEMMA CodeTypes == \A stage \in Stages : CodesAt(stage) \subseteq Codes
BY DEF Codes

LEMMA LaterIs == \A x, y \in Moments : /\ Later(x, y) \in Moments
                                       /\ Later(x, y) >= x /\ Later(x, y) >= y
                                       /\ x <= y => Later(x, y) = y
BY DEF Later, Moments

\* _receipt: whatever the stage, the code and the two readings of the clock, the
\* receipt passes ArkOneShotTransportReceipt.__post_init__.
LEMMA ReceiptIsValid ==
    ASSUME NEW stage \in Stages, NEW code \in CodesAt(stage),
           NEW start \in Moments, NEW reading \in Moments, NEW http \in {200, 500, None},
           stage = "complete" => http # None
    PROVE  LET r == Receipt(stage, code, start, reading, http) IN
           /\ r \in Receipts /\ ReceiptValid(r)
           /\ r.started = start /\ r.http = http
           /\ r.complete = (stage = "complete")
           /\ r.calls.requests = IF stage \in {"entry", "lease", "connect"} THEN 0 ELSE 1
<1> DEFINE r == Receipt(stage, code, start, reading, http)
<1>1. After(stage) \in CallCounts
  BY DEF After, CallCounts, Stages
<1>2. OutcomeAt(stage) \in Outcomes /\ WireAt(stage) \in WireStates
  BY DEF OutcomeAt, WireAt, Outcomes, WireStates, Stages
<1>3. CompletedAt(start, reading) \in Moments /\ CompletedAt(start, reading) >= start
  BY LaterIs DEF CompletedAt
<1>4. (stage = "complete") \in BOOLEAN /\ Observed(stage, code) \in BOOLEAN
  BY DEF Observed
<1>5. r \in Receipts
  BY <1>1, <1>2, <1>3, <1>4, CodeTypes DEF Receipt, Receipts
<1>6. /\ r.started = start /\ r.http = http /\ r.complete = (stage = "complete")
      /\ r.calls = After(stage) /\ r.outcome = OutcomeAt(stage) /\ r.wire = WireAt(stage)
      /\ r.code = code /\ r.completed >= r.started /\ r.observed = Observed(stage, code)
  BY <1>3 DEF Receipt
<1>7. /\ stage \notin {"entry", "lease"} => r.calls.auth
      /\ r.calls.conns = IF stage \in {"entry", "lease", "connect"} THEN 0 ELSE 1
      /\ r.calls.requests = IF stage \in {"entry", "lease", "connect"} THEN 0 ELSE 1
      /\ r.calls.gets = IF stage \in {"entry", "lease", "connect", "request"} THEN 0 ELSE 1
      /\ r.calls.reads = IF stage \in {"body", "complete"} THEN 1 ELSE 0
  BY <1>6 DEF After, Stages
<1>8. /\ code = "NONE" <=> stage = "complete"
      /\ stage = "complete" => Observed(stage, code)
      /\ r.outcome = "RESPONSE_COMPLETE" <=> stage = "complete"
      /\ r.outcome = "PRE_REQUEST_FAILURE" <=> stage \in {"entry", "lease", "connect"}
      /\ r.outcome = "REQUEST_FAILURE" <=> stage = "request"
      /\ r.outcome = "RESPONSE_FAILURE" <=> stage \in {"getresponse", "headers", "body"}
      /\ r.wire = "NOT_CALLED" <=> stage \in {"entry", "lease", "connect"}
      /\ r.wire = "REQUEST_CALL_RAISED" <=> stage = "request"
      /\ r.wire \in {"REQUEST_CALL_RETURNED", "RESPONSE_HEADERS"}
             <=> stage \in {"getresponse", "headers", "body"}
      /\ r.wire = "RESPONSE_COMPLETE" <=> stage = "complete"
  BY <1>6 DEF CodesAt, Stages, OutcomeAt, WireAt, Observed
<1> HIDE DEF r
<1>9. ReceiptValid(r)
  <2>1. /\ r.calls.conns <= 1 /\ r.calls.requests <= 1
        /\ r.calls.gets <= r.calls.requests /\ r.calls.reads <= r.calls.gets
        /\ r.calls.requests = 1 => r.calls.auth /\ r.calls.conns = 1
    BY <1>7 DEF Stages
  <2>2. stage = "complete" =>
            r.calls.conns + r.calls.requests + r.calls.gets + r.calls.reads = 4
    BY <1>7
  <2>3. stage \in {"entry", "lease", "connect"} =>
            r.calls.requests + r.calls.gets + r.calls.reads = 0
    BY <1>7
  <2>4. stage = "request" => r.calls.requests = 1 /\ r.calls.gets + r.calls.reads = 0
    BY <1>7
  <2>5. stage \in {"getresponse", "headers", "body"} => r.calls.requests = 1
    BY <1>7
  <2>6. r.outcome \in Outcomes /\ r.wire \in WireStates /\ r.completed >= r.started
    BY <1>2, <1>6
  <2> QED BY <1>6, <1>8, <2>1, <2>2, <2>3, <2>4, <2>5, <2>6 DEF ReceiptValid
<1> QED BY <1>5, <1>6, <1>7, <1>9 DEF r

\* The verdict on an answer tells what was checked of it.
LEMMA VerdictTells ==
    ASSUME NEW answer \in Answers, NEW completed \in Moments
    PROVE  LET v == Verdict(answer, completed) IN
           /\ v \in ClosedOutcomes \ {"TRANSPORT_ERROR"}
           /\ v \in Identified => answer.http = 200 /\ completed >= Started
           /\ v \in Accepted => /\ answer.model = "requested"
                                /\ (v = "LATE_RESPONSE") = (completed > Deadline)
           /\ v = "MODEL_MISMATCH" => answer.model = "other"
           /\ v = "HTTP_ERROR" => answer.http = 500
<1>1. /\ answer.http \in {0, 200, 500} /\ answer.model \in {"requested", "other"}
      /\ answer.content \in BOOLEAN /\ answer.json \in BOOLEAN /\ answer.envelope \in BOOLEAN
  BY DEF Answers, Contents
<1>2. CASE answer.http = 0
  BY <1>2 DEF Verdict, ClosedOutcomes, Identified, Accepted
<1>3. CASE answer.http = 500
  BY <1>3 DEF Verdict, ClosedOutcomes, Identified, Accepted
<1>4. CASE answer.http = 200 /\ (completed < Started \/ ~answer.json \/ ~answer.envelope
                                 \/ answer.usage = "bad")
  BY <1>4 DEF Verdict, ClosedOutcomes, Identified, Accepted
<1>5. CASE answer.http = 200 /\ ~(completed < Started \/ ~answer.json \/ ~answer.envelope
                                  \/ answer.usage = "bad")
  <2>1. completed >= Started
    BY <1>5 DEF Moments
  <2>2. CASE answer.model = "other"
    BY <1>5, <2>1, <2>2 DEF Verdict, ClosedOutcomes, Identified, Accepted
  <2>3. CASE answer.model = "requested" /\ ~answer.content
    BY <1>5, <2>3 DEF Verdict, ClosedOutcomes, Identified, Accepted
  <2>4. CASE answer.model = "requested" /\ answer.content
    <3>1. Verdict(answer, completed) = IF completed > Deadline THEN "LATE_RESPONSE" ELSE "SUCCESS"
      BY <1>5, <2>4 DEF Verdict
    <3> QED BY <1>5, <2>1, <2>4, <3>1 DEF ClosedOutcomes, Identified, Accepted
  <2> QED BY <1>1, <2>2, <2>3, <2>4
<1> QED BY <1>1, <1>2, <1>3, <1>4, <1>5

\* A receipt and an answer that go into one audit.
Fits(lane, receipt, answer, completed, calls) ==
    /\ lane \in Lanes /\ completed \in Moments /\ calls \in 0..1
    /\ receipt \in Receipts \cup {None} /\ answer \in Answers \cup {None}
    /\ (lane = "formal") = (receipt # None)
    /\ answer # None => calls = 1
    /\ receipt # None =>
          /\ ReceiptValid(receipt) /\ receipt.started >= Started
          /\ completed = receipt.completed /\ calls = receipt.calls.requests
          /\ receipt.complete = (answer # None)
          /\ receipt.complete => answer.http = receipt.http

OutcomeOf(answer, completed) ==
    IF answer = None THEN "TRANSPORT_ERROR" ELSE Verdict(answer, completed)

\* _audit: on every path of invoke the audit passes the checks of
\* ArkInvocationAudit.__post_init__ and of its envelope.
LEMMA AuditIsValid ==
    ASSUME NEW lane, NEW receipt, NEW answer, NEW completed, NEW calls,
           Fits(lane, receipt, answer, completed, calls)
    PROVE  LET u == Audit(OutcomeOf(answer, completed), completed, calls, receipt, answer) IN
           /\ u \in Audits /\ AuditValid(lane, u)
           /\ u.receipt = receipt /\ u.physical = calls
           /\ u.id = (u.outcome \in Identified) /\ u.content = (u.outcome \in Accepted)
<1> DEFINE o == OutcomeOf(answer, completed)
           u == Audit(o, completed, calls, receipt, answer)
<1> USE NoneAssumption
<1>1. /\ o \in ClosedOutcomes
      /\ o \in Identified \cup {"HTTP_ERROR", "INVALID_RESPONSE"} <=> answer # None
      /\ o = "TRANSPORT_ERROR" <=> answer = None
      /\ o \in Identified => answer.http = 200 /\ completed >= Started
      /\ o \in Accepted => /\ answer.model = "requested"
                           /\ (o = "LATE_RESPONSE") = (completed > Deadline)
      /\ o = "MODEL_MISMATCH" => answer.model = "other"
      /\ o = "HTTP_ERROR" => answer.http = 500
  <2>1. CASE answer = None
    BY <2>1 DEF OutcomeOf, ClosedOutcomes, Identified, Accepted
  <2>2. CASE answer # None
    <3>1. answer \in Answers /\ completed \in Moments /\ o = Verdict(answer, completed)
      BY <2>2 DEF Fits, OutcomeOf
    <3> HIDE DEF o
    <3> QED BY <2>2, <3>1, VerdictTells DEF ClosedOutcomes, Identified, Accepted
  <2> QED BY <2>1, <2>2
<1> HIDE DEF o
<1>2. /\ Later(Started, completed) \in Moments /\ Later(Started, completed) >= Started
      /\ completed >= Started => Later(Started, completed) = completed
  BY LaterIs DEF Fits, Moments
<1>3. answer # None => /\ answer \in Answers /\ answer.http \in {0, 200, 500}
                       /\ answer.model \in {"requested", "other"}
  BY DEF Fits, Answers
<1>4. /\ u.outcome = o /\ u.completed = Later(Started, completed) /\ u.physical = calls
      /\ u.receipt = receipt
      /\ u.http = IF answer = None THEN None ELSE IF answer.http = 0 THEN None ELSE answer.http
      /\ u.model = IF o \in Identified THEN answer.model ELSE None
  BY DEF Audit
<1>same. /\ u.raw = (answer # None)
         /\ u.id = (o \in Identified) /\ u.content = (o \in Accepted)
  BY DEF Audit
<1>flags. /\ answer # None => u.raw
          /\ answer = None => ~u.raw
          /\ o \in Identified => u.id
          /\ o \notin Identified => ~u.id
          /\ o \in Accepted => u.content
          /\ o \notin Accepted => ~u.content
  BY <1>same, ZenonT(40)
<1>5. u \in Audits
  <2>1. (o \in Identified /\ answer.usage = "valid") \in BOOLEAN
    OBVIOUS
  <2>2. (IF o \in Identified THEN answer.model ELSE None) \in {"requested", "other", None}
    BY <1>1, <1>3
  <2>3. (IF answer = None THEN None ELSE IF answer.http = 0 THEN None ELSE answer.http)
            \in {200, 500, None}
    BY <1>3
  <2> QED BY <1>1, <1>2, <2>1, <2>2, <2>3 DEF Audit, Audits, Fits
<1> HIDE DEF u
<1>6. EnvelopeHolds(lane, u)
  BY <1>4 DEF EnvelopeHolds, Fits
<1>7. u.receipt # None =>
          /\ ReceiptValid(u.receipt)
          /\ u.physical = u.receipt.calls.requests
          /\ u.completed = u.receipt.completed
          /\ IF u.receipt.complete
             THEN u.http = u.receipt.http /\ u.raw
             ELSE u.outcome = "TRANSPORT_ERROR"
  <2> SUFFICES ASSUME receipt # None
               PROVE  /\ ReceiptValid(receipt) /\ calls = receipt.calls.requests
                      /\ u.completed = receipt.completed
                      /\ receipt.complete => u.http = receipt.http /\ u.raw
                      /\ ~receipt.complete => o = "TRANSPORT_ERROR"
    BY <1>4
  <2>1. /\ ReceiptValid(receipt) /\ receipt.started >= Started
        /\ completed = receipt.completed /\ calls = receipt.calls.requests
        /\ receipt.complete = (answer # None)
        /\ receipt.complete => answer.http = receipt.http
    BY DEF Fits
  <2>2. receipt.completed >= receipt.started /\ receipt \in Receipts
    BY <2>1 DEF ReceiptValid, Fits
  <2>3. receipt.completed >= Started
    BY <2>1, <2>2 DEF Receipts, Moments
  <2>4. receipt.complete => u.http = receipt.http /\ u.raw
    <3> SUFFICES ASSUME receipt.complete PROVE u.http = receipt.http /\ u.raw
      OBVIOUS
    <3>1. answer # None /\ answer.http = receipt.http
      BY <2>1
    <3>2. receipt.http # 0
      BY <2>2 DEF Receipts, Moments
    <3> QED BY <1>4, <1>flags, <3>1, <3>2
  <2>5. ~receipt.complete => o = "TRANSPORT_ERROR"
    BY <1>1, <2>1, Zenon
  <2>6. u.completed = receipt.completed
    BY <1>2, <1>4, <2>1, <2>3
  <2> QED BY <2>1, <2>4, <2>5, <2>6
<1>8. /\ u.outcome \in ClosedOutcomes /\ u.physical \in {0, 1} /\ u.completed >= Started
  BY <1>1, <1>2, <1>4 DEF Fits
<1>9. u.outcome \in Accepted =>
          /\ u.physical = 1 /\ u.http = 200 /\ u.model = "requested"
          /\ u.raw /\ u.id /\ u.content
          /\ (u.outcome = "LATE_RESPONSE") = (u.completed > Deadline)
  <2> SUFFICES ASSUME o \in Accepted
               PROVE  /\ u.physical = 1 /\ u.http = 200 /\ u.model = "requested"
                      /\ u.raw /\ u.id /\ u.content
                      /\ (o = "LATE_RESPONSE") = (u.completed > Deadline)
    BY <1>4
  <2>1. o \in Identified
    BY DEF Identified
  <2>2. answer # None /\ answer.http = 200 /\ calls = 1 /\ u.completed = completed
    BY <1>1, <1>2, <1>4, <2>1 DEF Fits
  <2>3. (o = "LATE_RESPONSE") = (u.completed > Deadline)
    BY <1>1, <2>2
  <2> QED BY <1>1, <1>4, <1>flags, <2>1, <2>2, <2>3
<1>10. u.outcome = "MODEL_MISMATCH" =>
          /\ u.physical = 1 /\ u.http = 200 /\ u.model \notin {None, "requested"}
          /\ u.raw /\ u.id /\ ~u.content
  <2> SUFFICES ASSUME o = "MODEL_MISMATCH"
               PROVE  /\ u.physical = 1 /\ u.http = 200 /\ u.model \notin {None, "requested"}
                      /\ u.raw /\ u.id /\ ~u.content
    BY <1>4
  <2>1. o \in Identified /\ o \notin Accepted
    BY DEF Identified, Accepted
  <2>2. answer # None /\ answer.http = 200 /\ calls = 1 /\ answer.model = "other"
    BY <1>1, <2>1 DEF Fits
  <2> QED BY <1>4, <1>flags, <2>1, <2>2
<1>11. u.outcome = "HTTP_ERROR" =>
          u.physical = 1 /\ u.http \notin {None, 200} /\ u.raw /\ ~u.content
  <2> SUFFICES ASSUME o = "HTTP_ERROR"
               PROVE  u.physical = 1 /\ u.http \notin {None, 200} /\ u.raw /\ ~u.content
    BY <1>4
  <2>1. answer # None /\ answer.http = 500 /\ calls = 1
    BY <1>1 DEF Fits
  <2> QED BY <1>4, <1>flags, <2>1 DEF Accepted
<1>12. u.outcome = "INVALID_RESPONSE" => u.physical = 1 /\ u.raw /\ ~u.content
  BY <1>1, <1>4, <1>flags DEF Fits, Accepted
<1>13. u.outcome = "TRANSPORT_ERROR" =>
          u.http = None /\ u.model = None /\ ~u.raw /\ ~u.id /\ ~u.content
  BY <1>1, <1>4, <1>flags DEF Identified, Accepted
<1>14. AuditValid(lane, u)
  BY <1>6, <1>7, <1>8, <1>9, <1>10, <1>11, <1>12, <1>13 DEF AuditValid
<1> QED BY <1>4, <1>same, <1>5, <1>14 DEF u, o

-----------------------------------------------------------------------------
(* The FINISHED row *)

LEMMA UnauditedRow ==
    ASSUME NEW lane
    PROVE  LET f == Finished(lane, Unaudited) IN
           f \in Rows /\ f.evidence = FALSE /\ f.text = FALSE
<1>1. Finished(lane, Unaudited) = [status |-> "ERROR", error |-> "PROVIDER_ERROR",
          completed |-> Started, late |-> FALSE, evidence |-> FALSE, text |-> FALSE]
  BY DEF Finished, Unaudited, DerivedError
<1> QED BY <1>1 DEF Rows, Statuses, Moments

\* _closed_result over a valid audit: the evidence is kept unless the adapter's
\* table and the runner's disagree, and text passes only on a timely success.
LEMMA AuditedRow ==
    ASSUME NEW lane, NEW u \in Audits, AuditValid(lane, u),
           u.id = (u.outcome \in Identified), u.content = (u.outcome \in Accepted)
    PROVE  LET f == Finished(lane, Response(u)) IN
           /\ f \in Rows
           /\ f.text => /\ ~f.late /\ f.completed = u.completed /\ f.evidence
                        /\ u.completed \in Started..Deadline
                        /\ u.outcome = "SUCCESS" /\ u.model = "requested"
           /\ lane # "bare" /\ u.outcome \notin {"INVALID_RESPONSE", "MODEL_MISMATCH"}
                 => f.evidence
<1> DEFINE r == Response(u)
           f == Finished(lane, r)
           late == u.completed > Deadline
<1> USE NoneAssumption
<1>1. u # None /\ u.completed \in Moments /\ u.outcome \in ClosedOutcomes
  BY DEF Audits
<1>2. /\ r.status = StatusOf(u.outcome) /\ r.completed = u.completed /\ r.late = late
      /\ r.usage = u.usage /\ r.id = (u.outcome \in Accepted) /\ r.model = u.model
      /\ r.text = (u.outcome \in Accepted) /\ r.audit = u
  BY DEF Response
<1>3. StatusOf(u.outcome) \in Statuses
  BY DEF StatusOf, Statuses
<1> HIDE DEF r
<1>4. CASE Binds(lane, r)
  <2>1. f = [status |-> r.status, error |-> DerivedError(r.status), completed |-> r.completed,
             late |-> r.late, evidence |-> r.audit # None,
             text |-> r.status = "SUCCESS" /\ ~r.late /\ r.text]
    BY <1>4 DEF Finished
  <2>2. (r.audit # None) = TRUE
    BY <1>1, <1>2
  <2>3. f.evidence /\ f.late = late /\ f.completed = u.completed
    <3>1. f.evidence = (r.audit # None) /\ f.late = r.late /\ f.completed = r.completed
      BY <2>1
    <3> HIDE DEF f, late
    <3> QED BY <1>2, <2>2, <3>1, ZenonT(40)
  <2>4. f.text = (r.status = "SUCCESS" /\ ~r.late /\ r.text)
    BY <2>1
  <2>5. f \in Rows
    <3>1. DerivedError(r.status) \in {"NONE", "PROVIDER_ERROR", "MODEL_MISMATCH"}
      BY DEF DerivedError
    <3>2. (r.status = "SUCCESS" /\ ~r.late /\ r.text) \in BOOLEAN /\ r.late \in BOOLEAN
      BY <1>2
    <3> QED BY <1>1, <1>2, <1>3, <2>1, <2>2, <3>1, <3>2 DEF Rows
  <2>6. ASSUME f.text
        PROVE  /\ ~late /\ u.completed \in Started..Deadline
               /\ u.outcome = "SUCCESS" /\ u.model = "requested"
    <3>1. ~r.late /\ r.text
      BY <2>4, <2>6, Zenon
    <3>2. ~late
      BY <1>2, <3>1, Zenon
    <3>6. u.outcome \in Accepted
      BY <1>2, <3>1, Zenon
    <3>3. u.completed >= Started /\ u.model = "requested"
          /\ (u.outcome = "LATE_RESPONSE") = late
      BY <3>6 DEF AuditValid
    <3>4. u.outcome = "SUCCESS"
      BY <3>6, <3>2, <3>3 DEF Accepted
    <3>5. u.completed \in Started..Deadline
      BY <1>1, <3>2, <3>3 DEF Moments
    <3> QED BY <3>2, <3>3, <3>4, <3>5
  <2> QED BY <2>3, <2>5, <2>6 DEF r
<1>5. CASE ~Binds(lane, r)
  <2>1. f = [status |-> "ERROR", error |-> "BINDING_MISMATCH", completed |-> r.completed,
             late |-> r.late, evidence |-> FALSE, text |-> FALSE]
    BY <1>1, <1>2, <1>5 DEF Finished
  <2>2. f \in Rows /\ f.text = FALSE
    <3>1. r.late \in BOOLEAN
      BY <1>2
    <3> QED BY <1>1, <1>2, <2>1, <3>1 DEF Rows, Statuses
  <2>3. lane = "bare" \/ u.outcome \in {"INVALID_RESPONSE", "MODEL_MISMATCH"}
    <3> SUFFICES ASSUME lane # "bare", u.outcome \notin {"INVALID_RESPONSE", "MODEL_MISMATCH"}
                 PROVE  Binds(lane, r)
      BY <1>5
    <3>1. DerivedError(r.status) = ExpectedError(u.outcome)
      BY <1>2 DEF ExpectedError
    <3>2. (u.outcome \in Identified) = (u.outcome \in Accepted)
      BY DEF Identified
    <3>3. r.id = u.id /\ r.text = u.content
      <4>1. r.id = (u.outcome \in Accepted) /\ r.text = (u.outcome \in Accepted)
        BY <1>2, Zenon
      <4> QED BY <4>1, <3>2, Zenon
    <3>4. r.status = StatusOf(r.audit.outcome) /\ r.completed = r.audit.completed
          /\ r.late = (r.audit.completed > Deadline)
      BY <1>2
    <3> QED BY <1>2, <3>1, <3>3, <3>4 DEF Binds
  <2> QED BY <2>2, <2>3 DEF r
<1> QED BY <1>4, <1>5

-----------------------------------------------------------------------------
(* One attempt moves and the others stay *)

LEMMA WiringTypes ==
    ASSUME TypeOK, NEW a \in Attempts
    PROVE  AdapterOf(a) \in Adapters /\ TransportOf(a) \in Transports /\ LaneOf(a) \in Lanes
<1>1. wiring \in [adapter: [Attempts -> Adapters], transport: [Adapters -> Transports],
                  lane: [Adapters -> Lanes]]
  BY DEF TypeOK
<1> QED BY <1>1 DEF AdapterOf, TransportOf, LaneOf

\* Wired alike.
LEMMA WiringStays ==
    ASSUME wiring' = wiring, NEW a
    PROVE  AdapterOf(a)' = AdapterOf(a) /\ TransportOf(a)' = TransportOf(a) /\ LaneOf(a)' = LaneOf(a)
BY DEF AdapterOf, TransportOf, LaneOf

OthersStay(a) ==
    /\ wiring' = wiring
    /\ \A b \in Attempts \ {a} :
          /\ at'[b] = at[b] /\ began'[b] = began[b] /\ secret'[b] = secret[b]
          /\ wire'[b] = wire[b] /\ built'[b] = built[b] /\ row'[b] = row[b]

LEMMA AttemptsKeep ==
    ASSUME IInv, NEW a \in Attempts, OthersStay(a), Holds(a)'
    PROVE  AttemptsHold'
<1> SUFFICES ASSUME NEW b \in Attempts, b # a PROVE Holds(b)'
  BY DEF AttemptsHold
<1>1. /\ at'[b] = at[b] /\ began'[b] = began[b] /\ secret'[b] = secret[b]
      /\ wire'[b] = wire[b] /\ built'[b] = built[b] /\ row'[b] = row[b]
  BY DEF OthersStay
<1>2. LaneOf(b)' = LaneOf(b)
  BY WiringStays DEF OthersStay
<1>3. Holds(b)
  BY DEF IInv, AttemptsHold
<1> QED BY <1>1, <1>2, <1>3 DEF Holds

\* Nobody becomes an owner but through an untaken slot or transport.
LEMMA OwnersKeep ==
    ASSUME IInv, NEW a \in Attempts, OthersStay(a),
           used \subseteq used', sent \subseteq sent',
           Engaged(a)' => AdapterOf(a) \in used' /\ (Engaged(a) \/ AdapterOf(a) \notin used),
           Inside(a)' => TransportOf(a) \in sent' /\ (Inside(a) \/ TransportOf(a) \notin sent)
    PROVE  OwnersHold'
<1>1. \A b \in Attempts : /\ AdapterOf(b)' = AdapterOf(b) /\ TransportOf(b)' = TransportOf(b)
                          /\ LaneOf(b)' = LaneOf(b)
  BY WiringStays DEF OthersStay
<1>2. \A b \in Attempts \ {a} : Engaged(b)' = Engaged(b) /\ Inside(b)' = Inside(b)
  BY <1>1 DEF OthersStay, Engaged, Inside
<1>3. OwnersHold
  BY DEF IInv
<1>4. \A b \in Attempts : /\ Engaged(b)' => AdapterOf(b) \in used'
                          /\ Inside(b)' => TransportOf(b) \in sent'
  BY <1>2, <1>3 DEF OwnersHold
<1>5. ASSUME NEW b \in Attempts, b # a
      PROVE  /\ Engaged(a)' /\ Engaged(b)' => AdapterOf(a) # AdapterOf(b)
             /\ Inside(a)' /\ Inside(b)' => TransportOf(a) # TransportOf(b)
  <2>1. Engaged(b)' = Engaged(b) /\ Inside(b)' = Inside(b)
    BY <1>2, <1>5
  <2>2. /\ Engaged(b) => AdapterOf(b) \in used
        /\ Inside(b) => TransportOf(b) \in sent
        /\ Engaged(a) /\ Engaged(b) => AdapterOf(a) # AdapterOf(b)
        /\ Inside(a) /\ Inside(b) => TransportOf(a) # TransportOf(b)
    BY <1>3, <1>5 DEF OwnersHold
  <2> QED BY <2>1, <2>2
<1>6. ASSUME NEW b \in Attempts, NEW c \in Attempts, b # a, c # a
      PROVE  /\ Engaged(b)' /\ Engaged(c)' /\ AdapterOf(b) = AdapterOf(c) => b = c
             /\ Inside(b)' /\ Inside(c)' /\ TransportOf(b) = TransportOf(c) => b = c
  BY <1>2, <1>3, <1>6 DEF OwnersHold
<1>7. \A b, c \in Attempts :
          /\ Engaged(b)' /\ Engaged(c)' /\ AdapterOf(b)' = AdapterOf(c)' => b = c
          /\ Inside(b)' /\ Inside(c)' /\ TransportOf(b)' = TransportOf(c)' => b = c
  BY <1>1, <1>5, <1>6
<1> QED BY <1>1, <1>4, <1>7 DEF OwnersHold

LEMMA LeasesKeep ==
    ASSUME IInv, NEW a \in Attempts, OthersStay(a), UNCHANGED leases,
           sent \subseteq sent',
           at'[a] = "lease" => TransportOf(a) \notin sent
    PROVE  LeasesHold'
<1>1. \A b \in Attempts : TransportOf(b)' = TransportOf(b) /\ TransportOf(b) \in Transports
  BY WiringStays, WiringTypes DEF OthersStay, IInv
<1>2. \A b \in Attempts : at'[b] = "lease" => leases[TransportOf(b)] = 0
  BY <1>1 DEF IInv, LeasesHold, OthersStay
<1> QED BY <1>1, <1>2 DEF IInv, LeasesHold

LEMMA CountsKeep ==
    ASSUME IInv, NEW a \in Attempts, OthersStay(a), UNCHANGED physical, at[a] # "done"
    PROVE  CountsHold'
<1> SUFFICES ASSUME NEW d \in Adapters, physical[d] = 1
             PROVE  \E b \in Attempts : AdapterOf(b)' = d /\ at'[b] = "done" /\ wire'[b] = 1
  BY DEF IInv, CountsHold
<1>1. PICK b \in Attempts : AdapterOf(b) = d /\ at[b] = "done" /\ wire[b] = 1
  BY DEF IInv, CountsHold
<1>2. b # a
  BY <1>1
<1> QED BY <1>1, <1>2, WiringStays DEF OthersStay

-----------------------------------------------------------------------------
(* Closing a slot *)

Builds == [receipt: Receipts \cup {None}, audit: Audits \cup {None}]

\* A step that closes the slot of a, with this many calls on the wire in all.
Closes(a, calls) ==
    /\ UNCHANGED <<wiring, used, began>>
    /\ at' = [at EXCEPT ![a] = "done"]
    /\ wire' = [wire EXCEPT ![a] = calls]
    /\ \E b \in Builds, f \in Rows :
          /\ built' = [built EXCEPT ![a] = b]
          /\ row' = [row EXCEPT ![a] = f]
          /\ Settled(LaneOf(a), b, f, calls, began[a])
    /\ secret' = [secret EXCEPT ![a] = FALSE]
    /\ \/ UNCHANGED physical
       \/ physical' = [physical EXCEPT ![AdapterOf(a)] = @ + calls]

LEMMA CloseKeeps ==
    ASSUME IInv, NEW a \in Attempts, at[a] # "done", NEW calls \in {0, 1}, Closes(a, calls),
           calls = 1 => Engaged(a),
           calls = 1 /\ LaneOf(a) = "formal" => TransportOf(a) \in sent' /\ Inside(a),
           sent \subseteq sent', sent' \subseteq Transports,
           leases' \in [Transports -> Nat], LeasesHold'
    PROVE  IInv'
<1> USE DEF IInv
<1>1. PICK b \in Builds, f \in Rows :
          /\ built' = [built EXCEPT ![a] = b]
          /\ row' = [row EXCEPT ![a] = f]
          /\ Settled(LaneOf(a), b, f, calls, began[a])
  BY DEF Closes
<1>2. /\ at'[a] = "done" /\ wire'[a] = calls /\ built'[a] = b /\ row'[a] = f
      /\ began'[a] = began[a] /\ LaneOf(a)' = LaneOf(a)
  BY <1>1, WiringStays DEF Closes, TypeOK
<1>3. secret'[a] = FALSE
  BY Zenon DEF Closes, TypeOK
<1>4. OthersStay(a)
  BY <1>1 DEF Closes, TypeOK, OthersStay
<1>5. Holds(a)'
  BY <1>1, <1>2, <1>3 DEF Holds, Stages
<1>6. AttemptsHold'
  BY <1>4, <1>5, AttemptsKeep
<1>7. OwnersHold'
  <2>1. Engaged(a)' => calls = 1
    BY <1>2 DEF Engaged, Stages
  <2>2. Inside(a)' => calls = 1 /\ LaneOf(a) = "formal"
    BY <1>2 DEF Inside, Stages
  <2>3. Engaged(a)' => AdapterOf(a) \in used' /\ Engaged(a)
    BY <2>1 DEF OwnersHold, Closes
  <2> QED BY <1>4, <2>2, <2>3, OwnersKeep DEF Closes
<1>8. AdapterOf(a) \in Adapters
  BY WiringTypes
<1>9. CountsHold' /\ physical' \in [Adapters -> Nat]
  <2>1. CASE UNCHANGED physical
    BY <1>4, <2>1, CountsKeep DEF TypeOK
  <2>2. CASE physical' = [physical EXCEPT ![AdapterOf(a)] = @ + calls]
    <3>1. CASE calls = 0
      <4>1. physical' = physical
        BY <2>2, <3>1, <1>8 DEF TypeOK
      <4> QED BY <1>4, <4>1, CountsKeep DEF TypeOK
    <3>2. CASE calls = 1
      <4>1. physical[AdapterOf(a)] = 0
        <5> SUFFICES ASSUME physical[AdapterOf(a)] = 1 PROVE FALSE
          BY <1>8 DEF CountsHold
        <5>1. PICK c \in Attempts : AdapterOf(c) = AdapterOf(a) /\ at[c] = "done" /\ wire[c] = 1
          BY <1>8 DEF CountsHold
        <5>2. Engaged(c) /\ Engaged(a) /\ c # a
          BY <3>2, <5>1 DEF Engaged
        <5> QED BY <5>1, <5>2 DEF OwnersHold
      <4>2. physical'[AdapterOf(a)] = 1
        BY <1>8, <2>2, <3>2, <4>1 DEF TypeOK
      <4>3. \A d \in Adapters \ {AdapterOf(a)} : physical'[d] = physical[d]
        BY <2>2 DEF TypeOK
      <4>4. physical' \in [Adapters -> Nat]
        BY <1>8, <2>2, <3>2, <4>1 DEF TypeOK
      <4>5. ASSUME NEW d \in Adapters
            PROVE  /\ physical'[d] \in {0, 1}
                   /\ physical'[d] = 1 =>
                      \E c \in Attempts : AdapterOf(c)' = d /\ at'[c] = "done" /\ wire'[c] = 1
        <5>1. CASE d = AdapterOf(a)
          <6>1. AdapterOf(a)' = d /\ at'[a] = "done" /\ wire'[a] = 1
            BY <1>2, <3>2, <5>1, WiringStays DEF Closes
          <6> QED BY <4>2, <5>1, <6>1
        <5>2. CASE d # AdapterOf(a)
          <6>1. physical'[d] = physical[d] /\ physical[d] \in {0, 1}
            BY <4>3, <5>2 DEF CountsHold
          <6> SUFFICES ASSUME physical[d] = 1
                       PROVE  \E c \in Attempts : AdapterOf(c)' = d /\ at'[c] = "done" /\ wire'[c] = 1
            BY <6>1
          <6>2. PICK c \in Attempts : AdapterOf(c) = d /\ at[c] = "done" /\ wire[c] = 1
            BY DEF CountsHold
          <6>3. c # a /\ AdapterOf(c)' = AdapterOf(c)
            BY <6>2, WiringStays DEF Closes
          <6> QED BY <1>4, <6>2, <6>3 DEF OthersStay
        <5> QED BY <5>1, <5>2
      <4> QED BY <4>4, <4>5 DEF CountsHold
    <3> QED BY <3>1, <3>2
  <2> QED BY <2>1, <2>2 DEF Closes
<1>10. TypeOK'
  <2>1. /\ at' \in [Attempts -> Points] /\ wire' \in [Attempts -> Nat]
        /\ built' \in [Attempts -> Builds] /\ row' \in [Attempts -> Rows \cup {None}]
    BY <1>1 DEF TypeOK, Closes, Points, Builds
  <2>2. secret' \in [Attempts -> BOOLEAN]
    BY DEF TypeOK, Closes
  <2>3. \A c \in Attempts : (row'[c] # None) = (at'[c] = "done")
    <3>1. f # None
      BY NoneAssumption
    <3>2. (row'[a] # None) = (at'[a] = "done")
      BY <1>2, <3>1
    <3> QED BY <1>4, <3>2 DEF OthersStay, TypeOK
  <2> QED BY <1>9, <2>1, <2>2, <2>3 DEF TypeOK, Closes, Builds
<1> QED BY <1>6, <1>7, <1>9, <1>10

\* An exception, or an answer that the adapter does not audit, still closes.
LEMMA UnauditedSettles ==
    ASSUME NEW lane, NEW receipt, NEW calls, NEW start,
           receipt # None =>
               ReceiptValid(receipt) /\ (receipt.complete => receipt.started = start)
    PROVE  /\ Finished(lane, Unaudited) \in Rows
           /\ Settled(lane, [receipt |-> receipt, audit |-> None],
                      Finished(lane, Unaudited), calls, start)
BY UnauditedRow DEF Settled

\* CloseAudited never loses a slot to its own bookkeeping.
LEMMA AuditSettles ==
    ASSUME NEW lane, NEW receipt, NEW answer, NEW completed, NEW calls, NEW start,
           Fits(lane, receipt, answer, completed, calls),
           receipt # None => (receipt.complete => receipt.started = start)
    PROVE  LET u == Audit(OutcomeOf(answer, completed), completed, calls, receipt, answer)
               b == [receipt |-> receipt, audit |-> u]
               f == Finished(lane, Response(u))
           IN  /\ AuditValid(lane, u) /\ u.physical = calls
               /\ b \in Builds /\ f \in Rows
               /\ Settled(lane, b, f, calls, start)
<1> DEFINE u == Audit(OutcomeOf(answer, completed), completed, calls, receipt, answer)
           b == [receipt |-> receipt, audit |-> u]
           f == Finished(lane, Response(u))
<1>1. /\ u \in Audits /\ AuditValid(lane, u)
      /\ u.receipt = receipt /\ u.physical = calls
      /\ u.id = (u.outcome \in Identified) /\ u.content = (u.outcome \in Accepted)
  BY AuditIsValid
<1> HIDE DEF u
<1>2. f \in Rows
  BY <1>1, AuditedRow
<1>3. b \in Builds
  BY <1>1 DEF Builds, Fits
<1>4. b.receipt = receipt /\ b.audit = u
  OBVIOUS
<1>5. lane = "formal" => receipt.started >= Started
  BY DEF Fits
<1>6. receipt # None => ReceiptValid(receipt)
  BY DEF Fits
<1> HIDE DEF b, f
<1>7. u # None
  BY <1>1, NoneAssumption
<1>8. f = Finished(lane, Response(u))
  BY DEF f
<1>9. Settled(lane, b, f, calls, start)
  BY <1>1, <1>4, <1>5, <1>6, <1>7, <1>8 DEF Settled
<1> QED BY <1>1, <1>2, <1>3, <1>9 DEF b, f, u

LEMMA AuditedCloses ==
    ASSUME IInv, NEW a \in Attempts,
           NEW receipt, NEW answer, NEW completed, NEW calls,
           Fits(LaneOf(a), receipt, answer, completed, calls),
           receipt # None => (receipt.complete => receipt.started = began[a]),
           CloseAudited(a, receipt,
               Audit(OutcomeOf(answer, completed), completed, calls, receipt, answer)),
           UNCHANGED <<wiring, used, began>>,
           wire' = [wire EXCEPT ![a] = calls],
           secret' = [secret EXCEPT ![a] = FALSE]
    PROVE  Closes(a, calls)
<1> DEFINE u == Audit(OutcomeOf(answer, completed), completed, calls, receipt, answer)
           b == [receipt |-> receipt, audit |-> u]
           f == Finished(LaneOf(a), Response(u))
<1>1. /\ AuditValid(LaneOf(a), u) /\ u.physical = calls
      /\ b \in Builds /\ f \in Rows
      /\ Settled(LaneOf(a), b, f, calls, began[a])
  BY AuditSettles
<1>2. CloseAudited(a, receipt, u)
  OBVIOUS
<1> HIDE DEF u
<1>3. /\ built' = [built EXCEPT ![a] = b]
      /\ physical' = [physical EXCEPT ![AdapterOf(a)] = @ + calls]
      /\ at' = [at EXCEPT ![a] = "done"]
      /\ row' = [row EXCEPT ![a] = f]
  BY <1>1, <1>2 DEF CloseAudited, Close
<1> HIDE DEF b, f
<1> QED BY <1>1, <1>3 DEF Closes

LEMMA UnauditedCloses ==
    ASSUME IInv, NEW a \in Attempts, NEW receipt \in Receipts \cup {None}, NEW calls,
           receipt # None =>
               ReceiptValid(receipt) /\ (receipt.complete => receipt.started = began[a]),
           Close(a, Unaudited),
           built' = [built EXCEPT ![a] = [receipt |-> receipt, audit |-> None]],
           UNCHANGED <<wiring, used, began, physical>>,
           wire' = [wire EXCEPT ![a] = calls],
           secret' = [secret EXCEPT ![a] = FALSE]
    PROVE  Closes(a, calls)
<1> DEFINE b == [receipt |-> receipt, audit |-> None]
           f == Finished(LaneOf(a), Unaudited)
<1>1. b \in Builds
  BY DEF Builds
<1>2. f \in Rows /\ Settled(LaneOf(a), b, f, calls, began[a])
  BY UnauditedSettles
<1>3. /\ built' = [built EXCEPT ![a] = b] /\ row' = [row EXCEPT ![a] = f]
      /\ at' = [at EXCEPT ![a] = "done"]
  BY DEF Close
<1> HIDE DEF b, f
<1> QED BY <1>1, <1>2, <1>3 DEF Closes

\* The typed result of send closes the slot of a formal adapter.
LEMMA DeliverCloses ==
    ASSUME IInv, NEW a \in Attempts, LaneOf(a) = "formal",
           NEW receipt \in Receipts, ReceiptValid(receipt), NEW answer \in Answers \cup {None},
           receipt.complete = (answer # None),
           receipt.complete => /\ answer.http = receipt.http /\ receipt.calls.requests = 1
                               /\ receipt.started = began[a],
           Deliver(a, receipt, answer), UNCHANGED <<wiring, used, began>>,
           wire' = [wire EXCEPT ![a] = receipt.calls.requests]
    PROVE  Closes(a, receipt.calls.requests)
<1>1. receipt # None /\ receipt.calls.requests \in 0..1 /\ receipt.completed \in Moments
  BY NoneAssumption DEF Receipts, CallCounts
<1>2. secret' = [secret EXCEPT ![a] = FALSE]
  BY DEF Deliver
<1>3. CASE receipt.started >= Started
  <2>1. answer # None => receipt.calls.requests = 1
    <3>1. answer # None => receipt.complete
      BY Zenon
    <3> QED BY <3>1
  <2>2. ("formal" = "formal") = (receipt # None)
    BY <1>1
  <2>3. Fits(LaneOf(a), receipt, answer, receipt.completed, receipt.calls.requests)
    BY <1>1, <1>3, <2>1, <2>2, Zenon DEF Fits, Lanes
  <2>4. CloseAudited(a, receipt,
            Audit(OutcomeOf(answer, receipt.completed), receipt.completed,
                  receipt.calls.requests, receipt, answer))
    BY <1>3 DEF Deliver, OutcomeOf
  <2> QED BY <1>2, <2>3, <2>4, AuditedCloses
<1>4. CASE ~(receipt.started >= Started)
  <2>1. /\ built' = [built EXCEPT ![a] = [receipt |-> receipt, audit |-> None]]
        /\ Close(a, Unaudited) /\ UNCHANGED physical
    BY <1>4 DEF Deliver
  <2> QED BY <1>2, <2>1, UnauditedCloses
<1> QED BY <1>3, <1>4

-----------------------------------------------------------------------------
(* Each action keeps the invariant *)

\* A refused attempt makes no call.
LEMMA RefusalKeeps ==
    ASSUME IInv, NEW a \in Attempts, RefuseAttempt(a) \/ InvokeConsumed(a)
    PROVE  IInv'
<1>1. /\ at[a] = "idle" /\ Close(a, Unaudited)
      /\ UNCHANGED <<wiring, used, sent, leases, physical, began, secret, wire, built>>
  BY DEF RefuseAttempt, InvokeConsumed
<1>2. Holds(a)
  BY DEF IInv, AttemptsHold
<1>3. wire[a] = 0 /\ built[a] = Unbuilt
  BY <1>1, <1>2 DEF Holds
<1>4. secret[a] = FALSE
  BY <1>1, <1>2 DEF Holds, IInv, TypeOK
<1>5. /\ wire' = [wire EXCEPT ![a] = 0]
      /\ built' = [built EXCEPT ![a] = [receipt |-> None, audit |-> None]]
  BY <1>1, <1>3 DEF IInv, TypeOK, Unbuilt
<1>6. secret' = [secret EXCEPT ![a] = FALSE]
  BY <1>1, <1>4 DEF IInv, TypeOK
<1>7. Closes(a, 0)
  BY <1>1, <1>5, <1>6, UnauditedCloses
<1>8. OthersStay(a)
  BY <1>1 DEF IInv, TypeOK, Close, OthersStay
<1>9. LeasesHold'
  <2>1. at'[a] = "done"
    BY <1>1 DEF Close, IInv, TypeOK
  <2> QED BY <1>1, <1>8, <2>1, LeasesKeep
<1> QED BY <1>1, <1>7, <1>9, CloseKeeps DEF IInv, TypeOK

\* A step that moves a thread on and closes nothing.
Moves(a, point) ==
    /\ at' = [at EXCEPT ![a] = point]
    /\ UNCHANGED <<wiring, physical, built, row>>

LEMMA MoveKeeps ==
    ASSUME IInv, NEW a \in Attempts, at[a] # "done", NEW point \in Points, point # "done",
           Moves(a, point), OthersStay(a), Holds(a)',
           used \subseteq used', used' \subseteq Adapters,
           sent \subseteq sent', sent' \subseteq Transports,
           began' \in [Attempts -> Moments \cup {None}], wire' \in [Attempts -> Nat],
           secret' \in [Attempts -> BOOLEAN], leases' \in [Transports -> Nat],
           Engaged(a)' => AdapterOf(a) \in used' /\ (Engaged(a) \/ AdapterOf(a) \notin used),
           Inside(a)' => TransportOf(a) \in sent' /\ (Inside(a) \/ TransportOf(a) \notin sent),
           LeasesHold'
    PROVE  IInv'
<1>1. AttemptsHold'
  BY AttemptsKeep
<1>2. OwnersHold'
  BY OwnersKeep
<1>3. CountsHold'
  BY CountsKeep DEF Moves
<1>4. at' \in [Attempts -> Points]
  BY DEF Moves, IInv, TypeOK
<1>5. \A b \in Attempts : (row'[b] # None) = (at'[b] = "done")
  <2>1. (row'[a] # None) = (at'[a] = "done")
    BY DEF Moves, IInv, TypeOK
  <2> QED BY <2>1 DEF OthersStay, IInv, TypeOK
<1>6. TypeOK'
  BY <1>4, <1>5 DEF Moves, IInv, TypeOK
<1> QED BY <1>1, <1>2, <1>3, <1>6 DEF IInv

\* The slot is taken under the lock.
LEMMA InvokeKeeps ==
    ASSUME IInv, NEW a \in Attempts, Invoke(a)
    PROVE  IInv'
<1>1. /\ at[a] = "idle" /\ AdapterOf(a) \notin used /\ used' = used \cup {AdapterOf(a)}
      /\ Moves(a, "send") /\ UNCHANGED <<sent, leases, began, secret, wire>>
  BY DEF Invoke, Moves
<1>2. OthersStay(a) /\ at'[a] = "send"
  BY <1>1 DEF Moves, OthersStay, IInv, TypeOK
<1>3. Holds(a)
  BY DEF IInv, AttemptsHold
<1>4. Holds(a)'
  <2>1. ~secret[a]
    BY <1>1, <1>3 DEF Holds
  <2>2. ~secret'[a]
    BY <1>1, <2>1
  <2> QED BY <1>1, <1>2, <1>3, <2>2 DEF Holds, Moves, Stages
<1>5. ~Inside(a)'
  BY <1>1, <1>2, <1>3 DEF Inside, Holds, Stages
<1>6. AdapterOf(a) \in Adapters
  BY WiringTypes DEF IInv
<1>7. LeasesHold'
  BY <1>1, <1>2, LeasesKeep
<1>8. "send" \in Points
  BY DEF Points
<1> QED BY <1>1, <1>2, <1>4, <1>5, <1>6, <1>7, <1>8, MoveKeeps DEF IInv, TypeOK

\* The transport is entered once; its credential is still whole.
LEMMA EnterKeeps ==
    ASSUME IInv, NEW a \in Attempts, Enter(a)
    PROVE  IInv'
<1>1. /\ at[a] = "send" /\ LaneOf(a) = "formal" /\ TransportOf(a) \notin sent
      /\ sent' = sent \cup {TransportOf(a)} /\ Moves(a, "lease")
      /\ UNCHANGED <<used, leases, secret, wire>>
  BY DEF Enter, Moves
<1>2. PICK now \in 0..(Deadline - 1) : began' = [began EXCEPT ![a] = now]
  BY DEF Enter
<1>3. now \in Moments
  BY <1>2 DEF Moments
<1>4. /\ OthersStay(a) /\ at'[a] = "lease" /\ began'[a] = now
      /\ began' \in [Attempts -> Moments \cup {None}]
  BY <1>1, <1>2, <1>3 DEF Moves, OthersStay, IInv, TypeOK
<1>5. Holds(a)
  BY DEF IInv, AttemptsHold
<1>6. Holds(a)'
  <2>1. ~secret[a]
    BY <1>1, <1>5 DEF Holds
  <2>2. ~secret'[a]
    BY <1>1, <2>1
  <2>3. LaneOf(a)' = "formal"
    BY <1>1, WiringStays DEF Moves
  <2> QED BY <1>1, <1>3, <1>4, <1>5, <2>2, <2>3 DEF Holds, Moves
<1>7. Engaged(a) /\ AdapterOf(a) \in used
  BY <1>1 DEF Engaged, IInv, OwnersHold
<1>8. TransportOf(a) \in Transports
  BY WiringTypes DEF IInv
<1>9. LeasesHold'
  BY <1>1, <1>4, LeasesKeep
<1>10. "lease" \in Points
  BY DEF Points, Stages
<1> QED BY <1>1, <1>4, <1>6, <1>7, <1>8, <1>9, <1>10, MoveKeeps DEF IInv, TypeOK

\* Leases of two attempts are of two transports.
LEMMA LeaseTaken ==
    ASSUME IInv, NEW a \in Attempts, at[a] = "lease", OthersStay(a), at'[a] # "lease",
           leases' = [leases EXCEPT ![TransportOf(a)] = @ + 1], sent' = sent
    PROVE  LeasesHold' /\ leases' \in [Transports -> Nat]
<1>1. TransportOf(a) \in Transports /\ \A b \in Attempts : TransportOf(b)' = TransportOf(b)
  BY WiringTypes, WiringStays DEF IInv, OthersStay
<1>2. leases[TransportOf(a)] = 0
  BY DEF IInv, LeasesHold
<1>3. leases'[TransportOf(a)] = 1
  BY <1>1, <1>2 DEF IInv, TypeOK
<1>4. \A t \in Transports : t # TransportOf(a) => leases'[t] = leases[t]
  BY DEF IInv, TypeOK
<1>5. leases' \in [Transports -> Nat]
  BY <1>1, <1>2 DEF IInv, TypeOK
<1>6. Inside(a) /\ TransportOf(a) \in sent
  BY DEF IInv, AttemptsHold, Holds, OwnersHold, Inside, Stages
<1>7. ASSUME NEW b \in Attempts, at'[b] = "lease" PROVE leases'[TransportOf(b)] = 0
  <2>1. b # a /\ at[b] = "lease" /\ TransportOf(b) \in Transports
    BY <1>7, WiringTypes DEF OthersStay, IInv
  <2>2. Inside(b)
    BY <2>1 DEF IInv, AttemptsHold, Holds, Inside, Stages
  <2>3. TransportOf(b) # TransportOf(a)
    BY <1>6, <2>1, <2>2 DEF IInv, OwnersHold
  <2>4. leases[TransportOf(b)] = 0
    BY <2>1 DEF IInv, LeasesHold
  <2> QED BY <1>4, <2>1, <2>3, <2>4
<1>8. \A t \in Transports : leases'[t] \in {0, 1} /\ (leases'[t] = 1 => t \in sent')
  BY <1>3, <1>4, <1>6 DEF IInv, LeasesHold
<1> QED BY <1>1, <1>5, <1>7, <1>8 DEF LeasesHold

\* Within send a thread keeps its slot and its transport.
LEMMA StageOwns ==
    ASSUME IInv, NEW a \in Attempts, at[a] \in Stages
    PROVE  /\ Engaged(a) /\ Inside(a) /\ AdapterOf(a) \in used /\ TransportOf(a) \in sent
           /\ LaneOf(a) = "formal" /\ began[a] \in Moments /\ at[a] # "done" /\ Holds(a)
<1>1. Holds(a) /\ Engaged(a) /\ Inside(a)
  BY DEF IInv, AttemptsHold, Holds, Engaged, Inside
<1> QED BY <1>1 DEF Holds, IInv, OwnersHold, Stages

LEMMA TakeLeaseKeeps ==
    ASSUME IInv, NEW a \in Attempts, TakeLease(a)
    PROVE  IInv'
<1>1. /\ at[a] = "lease" /\ leases' = [leases EXCEPT ![TransportOf(a)] = @ + 1]
      /\ secret' = [secret EXCEPT ![a] = TRUE]
      /\ Moves(a, "connect") /\ UNCHANGED <<used, sent, began, wire>>
  BY DEF TakeLease, Moves
<1>2. OthersStay(a) /\ at'[a] = "connect" /\ secret' \in [Attempts -> BOOLEAN]
  BY <1>1 DEF Moves, OthersStay, IInv, TypeOK
<1>3. /\ Engaged(a) /\ Inside(a) /\ AdapterOf(a) \in used /\ TransportOf(a) \in sent
      /\ LaneOf(a) = "formal" /\ began[a] \in Moments /\ at[a] # "done" /\ Holds(a)
  BY <1>1, StageOwns DEF Stages
<1>4. Holds(a)'
  <2>1. LaneOf(a)' = "formal"
    BY <1>1, <1>3, WiringStays DEF Moves
  <2> QED BY <1>1, <1>2, <1>3, <2>1 DEF Holds, Moves
<1>5. LeasesHold' /\ leases' \in [Transports -> Nat]
  BY <1>1, <1>2, LeaseTaken
<1>6. "connect" \in Points
  BY DEF Points, Stages
<1> QED BY <1>1, <1>2, <1>3, <1>4, <1>5, <1>6, MoveKeeps DEF IInv, TypeOK

LEMMA StageKeeps ==
    ASSUME IInv, NEW a \in Attempts,
           Connect(a) \/ RequestCall(a) \/ GetResponse(a) \/ ReadHeaders(a)
    PROVE  IInv'
<1> DEFINE next == CASE at[a] = "connect" -> "request"
                     [] at[a] = "request" -> "getresponse"
                     [] at[a] = "getresponse" -> "headers"
                     [] OTHER -> "body"
<1>1. /\ at[a] \in {"connect", "request", "getresponse", "headers"}
      /\ Moves(a, next) /\ UNCHANGED <<used, sent, began, leases>>
      /\ at[a] = "request" => /\ wire' = [wire EXCEPT ![a] = @ + 1]
                              /\ secret' = [secret EXCEPT ![a] = FALSE]
      /\ at[a] # "request" => UNCHANGED <<wire, secret>>
  BY DEF Connect, RequestCall, GetResponse, ReadHeaders, Moves
<1>2. next \in Stages \ {"lease", "entry", "complete"} /\ next # "done" /\ next \in Points
  BY <1>1 DEF Stages, Points
<1>3. /\ Engaged(a) /\ Inside(a) /\ AdapterOf(a) \in used /\ TransportOf(a) \in sent
      /\ LaneOf(a) = "formal" /\ began[a] \in Moments /\ at[a] # "done" /\ Holds(a)
  BY <1>1, StageOwns DEF Stages
<1>4. /\ OthersStay(a) /\ at'[a] = next
      /\ secret' \in [Attempts -> BOOLEAN] /\ wire' \in [Attempts -> Nat]
  <2>1. CASE at[a] = "request"
    <3> HIDE DEF next
    <3>1. at'[a] = next /\ wire' \in [Attempts -> Nat]
      BY <1>1, <2>1 DEF Moves, IInv, TypeOK
    <3>2. secret' \in [Attempts -> BOOLEAN]
      BY <1>1, <2>1 DEF IInv, TypeOK
    <3>3. OthersStay(a)
      BY <1>1, <2>1 DEF Moves, OthersStay, IInv, TypeOK
    <3> QED BY <3>1, <3>2, <3>3
  <2>2. CASE at[a] # "request"
    BY <1>1, <2>2 DEF Moves, OthersStay, IInv, TypeOK
  <2> QED BY <2>1, <2>2
<1>5. Holds(a)'
  <2>1. LaneOf(a)' = "formal"
    BY <1>1, <1>3, WiringStays DEF Moves
  <2>2. /\ wire'[a] \in {0, 1}
        /\ next = "request" => wire'[a] = 0
        /\ next \in {"getresponse", "headers", "body"} => wire'[a] = 1
    BY <1>1, <1>3 DEF Holds, IInv, TypeOK
  <2>3. secret'[a] => next = "request"
    <3>1. CASE at[a] = "request"
      BY <1>1, <3>1 DEF IInv, TypeOK
    <3>2. CASE at[a] # "request"
      <4>1. secret[a] => at[a] = "connect"
        BY <1>3, <3>2 DEF Holds
      <4> QED BY <1>1, <3>2, <4>1
    <3> QED BY <3>1, <3>2
  <2> HIDE DEF next
  <2>4. row'[a] = None /\ built'[a] = Unbuilt /\ began'[a] = began[a]
    BY <1>1, <1>3 DEF Holds, Moves
  <2>5. next \in {"request", "getresponse", "headers", "body"}
    BY <1>1 DEF next
  <2> QED BY <1>3, <1>4, <2>1, <2>2, <2>3, <2>4, <2>5 DEF Holds
<1> HIDE DEF next
<1>6. LeasesHold'
  BY <1>1, <1>2, <1>4, LeasesKeep
<1> QED BY <1>1, <1>2, <1>3, <1>4, <1>5, <1>6, MoveKeeps DEF IInv, TypeOK

\* A mock transport is one call.
LEMMA MockSendKeeps ==
    ASSUME IInv, NEW a \in Attempts, MockSend(a)
    PROVE  IInv'
<1>1. /\ at[a] = "send" /\ LaneOf(a) # "formal" /\ wire' = [wire EXCEPT ![a] = @ + 1]
      /\ UNCHANGED <<wiring, used, sent, leases, began, secret>>
  BY DEF MockSend
<1>2. Holds(a) /\ Engaged(a) /\ LaneOf(a) \in Lanes
  BY <1>1, WiringTypes DEF IInv, AttemptsHold, Engaged
<1>3. wire' = [wire EXCEPT ![a] = 1]
  BY <1>1, <1>2 DEF Holds, IInv, TypeOK
<1>4. secret' = [secret EXCEPT ![a] = FALSE]
  <2>1. secret[a] = FALSE
    BY <1>1, <1>2 DEF Holds, IInv, TypeOK
  <2> QED BY <1>1, <2>1 DEF IInv, TypeOK
<1>5. Closes(a, 1)
  <2>1. CASE CloseAudited(a, None, Audit("TRANSPORT_ERROR", Started, 1, None, None))
    <3>1. Fits(LaneOf(a), None, None, Started, 1)
      BY <1>1, <1>2 DEF Fits, Moments
    <3>2. OutcomeOf(None, Started) = "TRANSPORT_ERROR"
      BY DEF OutcomeOf
    <3> QED BY <1>1, <1>3, <1>4, <2>1, <3>1, <3>2, AuditedCloses
  <2>2. ASSUME NEW answer \in ToldAnswers, NEW now \in Moments,
               CloseAudited(a, None, Audit(Verdict(answer, now), now, 1, None, answer))
        PROVE  Closes(a, 1)
    <3>1. answer \in Answers /\ answer # None
      BY NoneAssumption DEF ToldAnswers
    <3>2. Fits(LaneOf(a), None, answer, now, 1)
      BY <1>1, <1>2, <3>1 DEF Fits
    <3>3. OutcomeOf(answer, now) = Verdict(answer, now)
      BY <3>1 DEF OutcomeOf
    <3> QED BY <1>1, <1>3, <1>4, <2>2, <3>2, <3>3, AuditedCloses
  <2> QED BY <2>1, <2>2 DEF MockSend
<1>6. OthersStay(a) /\ at'[a] = "done"
  BY <1>1, <1>5 DEF Closes, OthersStay, IInv, TypeOK
<1>7. LeasesHold'
  BY <1>1, <1>6, LeasesKeep
<1> QED BY <1>1, <1>2, <1>5, <1>7, CloseKeeps DEF IInv, TypeOK

\* A transport that was entered before, or too late, calls nothing.
LEMMA EnterRefusedKeeps ==
    ASSUME IInv, NEW a \in Attempts, EnterRefused(a)
    PROVE  IInv'
<1>1. /\ at[a] = "send" /\ LaneOf(a) = "formal" /\ sent' = sent \cup {TransportOf(a)}
      /\ UNCHANGED <<wiring, used, leases, began, wire>>
  BY DEF EnterRefused
<1>2. PICK now \in Moments, later \in Moments, code \in CodesAt("entry") :
          Deliver(a, Receipt("entry", code, now, later, None), None)
  BY DEF EnterRefused, CodesAt
<1> DEFINE r == Receipt("entry", code, now, later, None)
<1>3. r \in Receipts /\ ReceiptValid(r) /\ r.complete = FALSE /\ r.calls.requests = 0
  <2>1. "entry" \in Stages /\ None \in {200, 500, None}
    BY DEF Stages
  <2>2. /\ r \in Receipts /\ ReceiptValid(r) /\ r.complete = ("entry" = "complete")
        /\ r.calls.requests = IF "entry" \in {"entry", "lease", "connect"} THEN 0 ELSE 1
    BY <1>2, <2>1, ReceiptIsValid
  <2> HIDE DEF r
  <2> QED BY <2>2
<1>4. Deliver(a, r, None)
  BY <1>2
<1> HIDE DEF r
<1>5. Holds(a)
  BY DEF IInv, AttemptsHold
<1>6. wire' = [wire EXCEPT ![a] = 0]
  BY <1>1, <1>5 DEF Holds, IInv, TypeOK
<1>7. r.complete = (None # None)
  BY <1>3
<1>8. Closes(a, 0)
  BY <1>1, <1>3, <1>4, <1>6, <1>7, DeliverCloses
<1>9. OthersStay(a) /\ at'[a] = "done"
  BY <1>8, <1>1 DEF Closes, OthersStay, IInv, TypeOK
<1>10. LeasesHold'
  BY <1>1, <1>9, LeasesKeep
<1>11. TransportOf(a) \in Transports
  BY WiringTypes DEF IInv
<1> QED BY <1>1, <1>8, <1>10, <1>11, CloseKeeps DEF IInv, TypeOK

\* Wherever send stops, its receipt tells the calls that were made.
LEMMA SendFailsKeeps ==
    ASSUME IInv, NEW a \in Attempts, SendFails(a)
    PROVE  IInv'
<1>1. /\ at[a] \in Stages \ {"entry", "complete"}
      /\ wire' = IF at[a] = "request" THEN [wire EXCEPT ![a] = @ + 1] ELSE wire
      /\ UNCHANGED <<wiring, used, sent, began>>
  BY DEF SendFails
<1>2. PICK code \in CodesAt(at[a]), later \in Moments, http \in HttpAt(at[a]) :
          /\ leases' = IF code = "INVALID_CREDENTIAL"
                       THEN [leases EXCEPT ![TransportOf(a)] = @ + 1] ELSE leases
          /\ Deliver(a, Receipt(at[a], code, began[a], later, http), None)
  BY DEF SendFails
<1>3. /\ Engaged(a) /\ Inside(a) /\ AdapterOf(a) \in used /\ TransportOf(a) \in sent
      /\ LaneOf(a) = "formal" /\ began[a] \in Moments /\ at[a] # "done" /\ Holds(a)
  BY <1>1, StageOwns
<1> DEFINE r == Receipt(at[a], code, began[a], later, http)
<1>4. http \in {200, 500, None}
  BY <1>2 DEF HttpAt
<1>5. /\ r \in Receipts /\ ReceiptValid(r) /\ r.complete = FALSE
      /\ r.calls.requests = IF at[a] \in {"entry", "lease", "connect"} THEN 0 ELSE 1
  <2>1. /\ r \in Receipts /\ ReceiptValid(r) /\ r.complete = (at[a] = "complete")
        /\ r.calls.requests = IF at[a] \in {"entry", "lease", "connect"} THEN 0 ELSE 1
    BY <1>1, <1>2, <1>3, <1>4, ReceiptIsValid
  <2> HIDE DEF r
  <2> QED BY <1>1, <2>1
<1>6. Deliver(a, r, None)
  BY <1>2
<1> HIDE DEF r
<1>7. wire' = [wire EXCEPT ![a] = r.calls.requests]
  <2>1. CASE at[a] = "request"
    BY <1>1, <1>3, <1>5, <2>1 DEF Holds, IInv, TypeOK
  <2>2. CASE at[a] # "request"
    <3>1. wire[a] = r.calls.requests
      BY <1>1, <1>3, <1>5, <2>2 DEF Holds, Stages
    <3> QED BY <1>1, <2>2, <3>1 DEF IInv, TypeOK
  <2> QED BY <2>1, <2>2
<1>8. r.complete = (None # None)
  BY <1>5
<1>9. Closes(a, r.calls.requests)
  BY <1>1, <1>3, <1>5, <1>6, <1>7, <1>8, DeliverCloses
<1>10. OthersStay(a) /\ at'[a] = "done"
  BY <1>9, <1>1 DEF Closes, OthersStay, IInv, TypeOK
<1>11. LeasesHold' /\ leases' \in [Transports -> Nat]
  <2>1. CASE code = "INVALID_CREDENTIAL"
    <3>1. at[a] = "lease"
      BY <1>1, <1>2, <2>1 DEF CodesAt, Stages
    <3> QED BY <1>1, <1>2, <1>10, <2>1, <3>1, LeaseTaken
  <2>2. CASE code # "INVALID_CREDENTIAL"
    BY <1>1, <1>2, <1>10, <2>2, LeasesKeep DEF IInv, TypeOK
  <2> QED BY <2>1, <2>2
<1>12. r.calls.requests \in {0, 1}
  BY <1>5
<1> QED BY <1>1, <1>3, <1>9, <1>11, <1>12, CloseKeeps DEF IInv, TypeOK

LEMMA ReadBodyKeeps ==
    ASSUME IInv, NEW a \in Attempts, ReadBody(a)
    PROVE  IInv'
<1>1. at[a] = "body" /\ UNCHANGED <<wiring, used, sent, leases, began, wire>>
  BY DEF ReadBody
<1>2. PICK answer \in ToldAnswers, later \in Moments :
          /\ answer.http # 0
          /\ Deliver(a, Receipt("complete", "NONE", began[a], later, answer.http), answer)
  BY DEF ReadBody
<1>3. /\ Engaged(a) /\ Inside(a) /\ AdapterOf(a) \in used /\ TransportOf(a) \in sent
      /\ LaneOf(a) = "formal" /\ began[a] \in Moments /\ at[a] # "done" /\ Holds(a)
  BY <1>1, StageOwns DEF Stages
<1> DEFINE r == Receipt("complete", "NONE", began[a], later, answer.http)
<1>4. answer \in Answers /\ answer # None /\ answer.http \in {200, 500} /\ answer.http # None
  BY <1>2, NoneAssumption DEF ToldAnswers, Answers
<1>5. "NONE" \in CodesAt("complete") /\ "complete" \in Stages
  BY DEF CodesAt, Stages
<1>6. /\ r \in Receipts /\ ReceiptValid(r) /\ r.complete = TRUE /\ r.http = answer.http
      /\ r.calls.requests = 1 /\ r.started = began[a]
  <2>1. /\ r \in Receipts /\ ReceiptValid(r) /\ r.complete = ("complete" = "complete")
        /\ r.http = answer.http /\ r.started = began[a]
        /\ r.calls.requests = IF "complete" \in {"entry", "lease", "connect"} THEN 0 ELSE 1
    BY <1>2, <1>3, <1>4, <1>5, ReceiptIsValid
  <2> HIDE DEF r
  <2> QED BY <2>1
<1>7. Deliver(a, r, answer)
  BY <1>2
<1> HIDE DEF r
<1>8. wire' = [wire EXCEPT ![a] = r.calls.requests]
  BY <1>1, <1>3, <1>6 DEF Holds, IInv, TypeOK
<1>9. r.complete = (answer # None)
  BY <1>4, <1>6
<1>10. Closes(a, 1)
  <2>1. Closes(a, r.calls.requests)
    BY <1>1, <1>3, <1>4, <1>6, <1>7, <1>8, <1>9, DeliverCloses
  <2> QED BY <1>6, <2>1
<1>11. OthersStay(a) /\ at'[a] = "done"
  BY <1>10, <1>1 DEF Closes, OthersStay, IInv, TypeOK
<1>12. LeasesHold'
  BY <1>1, <1>11, LeasesKeep
<1> QED BY <1>1, <1>3, <1>10, <1>12, CloseKeeps DEF IInv, TypeOK

LEMMA InvariantInit == Init => IInv
<1> SUFFICES ASSUME Init PROVE IInv
  OBVIOUS
<1>1. TypeOK
  BY DEF Init, TypeOK, Points
<1>2. AttemptsHold
  BY DEF Init, AttemptsHold, Holds, Unbuilt, Stages
<1>3. OwnersHold /\ LeasesHold
  BY DEF Init, OwnersHold, LeasesHold, Engaged, Inside, Stages
<1>4. CountsHold
  BY DEF Init, CountsHold
<1> QED BY <1>1, <1>2, <1>3, <1>4 DEF IInv

LEMMA InvariantStep == IInv /\ [Next]_vars => IInv'
<1> SUFFICES ASSUME IInv, [Next]_vars PROVE IInv'
  OBVIOUS
<1>1. CASE UNCHANGED vars
  BY <1>1 DEF vars, IInv, TypeOK, AttemptsHold, Holds, OwnersHold, Engaged, Inside, LeasesHold,
              CountsHold, AdapterOf, TransportOf, LaneOf
<1>2. ASSUME NEW a \in Attempts,
             \/ RefuseAttempt(a) \/ Invoke(a) \/ InvokeConsumed(a) \/ MockSend(a)
             \/ Enter(a) \/ EnterRefused(a) \/ TakeLease(a) \/ Connect(a) \/ RequestCall(a)
             \/ GetResponse(a) \/ ReadHeaders(a) \/ SendFails(a) \/ ReadBody(a)
      PROVE  IInv'
  BY <1>2, RefusalKeeps, InvokeKeeps, MockSendKeeps, EnterKeeps, EnterRefusedKeeps,
     TakeLeaseKeeps, StageKeeps, SendFailsKeeps, ReadBodyKeeps
<1> QED BY <1>1, <1>2 DEF Next

-----------------------------------------------------------------------------
(* The theorems *)

\* The invariant holds of every behaviour of every composition of attempts,
\* adapters and transports.
THEOREM InvariantHolds == Spec => []IInv
BY InvariantInit, InvariantStep, PTL DEF Spec

\* Type correctness: the code's rows, receipts and audits are made of closed
\* codes, and a thread that left run_attempt has its FINISHED row.
THEOREM TypeCorrect == Spec => []TypeOK
<1>1. IInv => TypeOK
  BY DEF IInv
<1> QED BY <1>1, InvariantHolds, PTL

LEMMA AtMostOne ==
    ASSUME NEW S, \A x, y \in S : x = y
    PROVE  Cardinality(S) <= 1 /\ (S # {} => Cardinality(S) = 1)
<1>1. CASE S = {}
  BY <1>1, FS_EmptySet
<1>2. CASE S # {}
  <2>1. PICK x \in S : TRUE
    BY <1>2
  <2>2. S = {x}
    BY <2>1
  <2>3. Cardinality({x}) = 1
    BY FS_Singleton
  <2> QED BY <2>2, <2>3
<1> QED BY <1>1, <1>2

\* Two threads never spend one slot or one lease: invoke consumes the slot under
\* its lock, send consumes the transport under its own, and the credential is
\* wiped in the finally of the request call.
THEOREM OneCallOneCredential == Spec => []CredentialServesOneCall
<1>1. IInv => CredentialServesOneCall
  <2> SUFFICES ASSUME IInv PROVE CredentialServesOneCall
    OBVIOUS
  <2> USE DEF IInv
  <2>1. \A a \in Attempts : wire[a] \in {0, 1} /\ (wire[a] > 0 <=> wire[a] = 1)
    BY DEF AttemptsHold, Holds
  <2>2. ASSUME NEW d \in Adapters
        PROVE  Cardinality({a \in Attempts : AdapterOf(a) = d /\ wire[a] > 0}) <= 1
    <3> DEFINE S == {a \in Attempts : AdapterOf(a) = d /\ wire[a] > 0}
    <3>1. \A x, y \in S : x = y
      BY <2>1 DEF OwnersHold, Engaged
    <3> HIDE DEF S
    <3>2. Cardinality(S) <= 1
      BY <3>1, AtMostOne
    <3> QED BY <3>2 DEF S
  <2>3. ASSUME NEW t \in Transports
        PROVE  Cardinality({a \in Attempts : TransportOf(a) = t /\ LaneOf(a) = "formal"
                                             /\ wire[a] > 0}) <= 1
    <3> DEFINE S == {a \in Attempts : TransportOf(a) = t /\ LaneOf(a) = "formal" /\ wire[a] > 0}
    <3>1. \A x, y \in S : x = y
      BY <2>1 DEF OwnersHold, Inside
    <3> HIDE DEF S
    <3>2. Cardinality(S) <= 1
      BY <3>1, AtMostOne
    <3> QED BY <3>2 DEF S
  <2>4. \A t \in Transports : leases[t] <= 1
    BY DEF LeasesHold
  <2>5. \A a \in Attempts : secret[a] => at[a] \in {"connect", "request"} /\ wire[a] = 0
    BY DEF AttemptsHold, Holds
  <2>6. \A a \in Attempts : wire[a] <= 1
    BY <2>1
  <2> QED BY <2>2, <2>3, <2>4, <2>5, <2>6 DEF CredentialServesOneCall
<1> QED BY <1>1, InvariantHolds, PTL

\* The audited count is the count of request calls: the receipt's counters are
\* set before the call they count, whatever it then does.
THEOREM EvidenceIsTrue == Spec => []EvidenceTellsTheWire
<1>1. IInv => EvidenceTellsTheWire
  <2> SUFFICES ASSUME IInv, NEW a \in Attempts, LaneOf(a) = "formal"
               PROVE  /\ row[a] # None => (row[a].evidence => built[a].audit.physical = wire[a])
                      /\ physical[AdapterOf(a)] <=
                            Cardinality({b \in Attempts : AdapterOf(b) = AdapterOf(a) /\ wire[b] = 1})
    BY DEF EvidenceTellsTheWire
  <2> USE DEF IInv
  <2>1. ASSUME row[a] # None, row[a].evidence PROVE built[a].audit.physical = wire[a]
    <3>1. Settled(LaneOf(a), built[a], row[a], wire[a], began[a])
      BY <2>1 DEF AttemptsHold, Holds
    <3>2. built[a].audit # None
      <4>1. ~Finished(LaneOf(a), Unaudited).evidence
        BY UnauditedRow
      <4> QED BY <2>1, <3>1, <4>1 DEF Settled
    <3> QED BY <3>1, <3>2 DEF Settled
  <2> DEFINE d == AdapterOf(a)
             S == {b \in Attempts : AdapterOf(b) = d /\ wire[b] = 1}
  <2>2. d \in Adapters
    BY WiringTypes
  <2>3. \A x, y \in S : x = y
    BY DEF OwnersHold, Engaged
  <2>4. physical[d] = 1 => S # {}
    BY <2>2 DEF CountsHold
  <2>5. physical[d] \in {0, 1}
    BY <2>2 DEF CountsHold
  <2>6. S = {} => Cardinality(S) = 0
    BY FS_EmptySet
  <2> HIDE DEF S, d
  <2>7. physical[d] <= Cardinality(S)
    <3>1. S # {} => Cardinality(S) = 1
      BY <2>3, AtMostOne
    <3> QED BY <2>4, <2>5, <2>6, <3>1
  <2> QED BY <2>1, <2>7 DEF S, d
<1> QED BY <1>1, InvariantHolds, PTL

\* What reaches execute_arm is a timely, whole answer of the requested model.
THEOREM AnswerIsEarned == Spec => []UsedAnswerIsEarned
<1>1. IInv => UsedAnswerIsEarned
  <2> SUFFICES ASSUME IInv, NEW a \in Attempts, row[a] # None, row[a].text
               PROVE  /\ ~row[a].late /\ row[a].completed \in Started..Deadline
                      /\ row[a].evidence
                      /\ built[a].audit.outcome = "SUCCESS" /\ built[a].audit.model = "requested"
                      /\ LaneOf(a) = "formal" =>
                            built[a].receipt.complete /\ wire[a] = 1 /\ began[a] >= Started
    BY DEF UsedAnswerIsEarned
  <2> USE DEF IInv
  <2>1. Settled(LaneOf(a), built[a], row[a], wire[a], began[a])
    BY DEF AttemptsHold, Holds
  <2>2. built[a].audit # None
    <3>1. ~Finished(LaneOf(a), Unaudited).text
      BY UnauditedRow
    <3> QED BY <2>1, <3>1 DEF Settled
  <2> DEFINE u == built[a].audit
             r == built[a].receipt
  <2>3. u \in Audits /\ r \in Receipts \cup {None}
    BY <2>2 DEF TypeOK
  <2>4. /\ row[a] = Finished(LaneOf(a), Response(u)) /\ AuditValid(LaneOf(a), u)
        /\ u.receipt = r /\ u.id = (u.outcome \in Identified)
        /\ u.content = (u.outcome \in Accepted) /\ u.physical = wire[a]
        /\ LaneOf(a) = "formal" => r.started >= Started
        /\ r # None => (r.complete => r.started = began[a])
    BY <2>1, <2>2 DEF Settled
  <2> HIDE DEF u, r
  <2>5. /\ ~row[a].late /\ row[a].completed = u.completed /\ row[a].evidence
        /\ u.completed \in Started..Deadline
        /\ u.outcome = "SUCCESS" /\ u.model = "requested"
    BY <2>3, <2>4, AuditedRow
  <2>6. ASSUME LaneOf(a) = "formal"
        PROVE  r.complete /\ wire[a] = 1 /\ began[a] >= Started
    <3>1. r # None /\ u.physical = 1
      BY <2>4, <2>5, <2>6 DEF AuditValid, EnvelopeHolds, Accepted
    <3>2. r.complete
      BY <2>4, <2>5, <3>1 DEF AuditValid
    <3> QED BY <2>4, <2>6, <3>1, <3>2
  <2> QED BY <2>5, <2>6 DEF u, r
<1> QED BY <1>1, InvariantHolds, PTL

\* Whatever the clock reads and wherever send stops, the constructors of the
\* receipt, the envelope and the audit accept what the code hands them.
THEOREM ConstructorsAccept == Spec => []EveryPathCloses
<1>1. IInv => EveryPathCloses
  <2> SUFFICES ASSUME IInv, NEW a \in Attempts
               PROVE  /\ built[a].receipt # None => ReceiptValid(built[a].receipt)
                      /\ built[a].audit # None => AuditValid(LaneOf(a), built[a].audit)
    BY DEF EveryPathCloses
  <2>1. CASE at[a] = "done"
    <3>1. Settled(LaneOf(a), built[a], row[a], wire[a], began[a])
      BY <2>1 DEF IInv, AttemptsHold, Holds
    <3> QED BY <3>1 DEF Settled
  <2>2. CASE at[a] # "done"
    BY <2>2 DEF IInv, AttemptsHold, Holds, Unbuilt
  <2> QED BY <2>1, <2>2
<1> QED BY <1>1, InvariantHolds, PTL

\* The runner keeps the evidence of every answer the two tables agree on.
THEOREM EvidenceIsKept == Spec => []AuditedAnswerKeepsEvidence
<1>1. IInv => AuditedAnswerKeepsEvidence
  <2> SUFFICES ASSUME IInv, NEW a \in Attempts,
                      row[a] # None, built[a].audit # None, LaneOf(a) # "bare",
                      built[a].audit.outcome \notin {"INVALID_RESPONSE", "MODEL_MISMATCH"}
               PROVE  row[a].evidence
    BY DEF AuditedAnswerKeepsEvidence
  <2>1. Settled(LaneOf(a), built[a], row[a], wire[a], began[a])
    BY DEF IInv, TypeOK, AttemptsHold, Holds
  <2>2. built[a].audit \in Audits
    BY DEF IInv, TypeOK
  <2> QED BY <2>1, <2>2, AuditedRow DEF Settled
<1> QED BY <1>1, InvariantHolds, PTL
=============================================================================
