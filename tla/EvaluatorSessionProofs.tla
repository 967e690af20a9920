----------------------- MODULE EvaluatorSessionProofs -----------------------
(***************************************************************************)
(* Machine-checked proofs about an evaluator session, for every stream,    *)
(* every set of policies and every number of deaths, timeouts, failed      *)
(* writes and requests, and for a client that sends frames out of turn.    *)
(***************************************************************************)
EXTENDS EvaluatorSession, TLAPS, FiniteSetTheorems, SequenceTheorems

USE SessionAssumption

-----------------------------------------------------------------------------
(* The inductive invariant *)

Accesses == [event: 0..(NumEvents - 1), checkpoint: Checkpoints \cup {NoCheckpoint}]

SessionTypeOK ==
    /\ journal \in Seq(JournalRecords) /\ head \in Nat /\ access \in Seq(Accesses)
    /\ torn \subseteq {"journal", "access"} /\ scoring \in 0..4
    /\ checkpoints \subseteq Checkpoints /\ phaseSealed \in BOOLEAN
    /\ epc \in EPCs /\ cont \in EPCs
    /\ req \in Requests /\ mode \in {"fresh", "recover", "replay"}
    /\ result \in Nat /\ revealed \in Nat
    /\ toServer \in Requests /\ toClient \in Responses /\ cut \in BOOLEAN
    /\ session \in {"unborn", "starting", "live", "lost"}
    /\ client \in [sequence: Nat, previousRequest: Nat, previousResponse: Nat,
                   pending: Requests, closed: BOOLEAN, seen: Nat]
    /\ waiting \in BOOLEAN
    /\ ids \in 0..MaxRequests /\ crashes \in Nat /\ timeouts \in Nat /\ faults \in Nat

\* Where the evaluator stands, a head that is being written counting as the
\* point it leads to.
At(points) == epc \in points \/ (epc = "head" /\ cont \in points)

Serving == {"run", "finalize", "finish"}

\* The journal holds a refusal or a violation.
Doomed == \E i \in DOMAIN journal : journal[i].phase = "ABORTED" \/ journal[i].operation = "PROTOCOL"

\* Event x left the store for checkpoint c.
ShownFor(x, c) == c # NoCheckpoint /\ x + 1 \in DOMAIN access /\ access[x + 1].checkpoint = c

\* The ACCESS ledger, the checkpoints it rests on and what the client has seen.
AccessHolds ==
    /\ Len(access) <= NumEvents
    /\ \A i \in DOMAIN access :
          /\ access[i].event = i - 1
          /\ IF i <= Context THEN access[i].checkpoint = NoCheckpoint
             ELSE CheckpointFor(access[i].checkpoint, i - 2)
    /\ \A c \in checkpoints : c.origin < client.seen
    /\ client.seen <= Len(access)
    /\ IF session = "live" THEN client.seen >= Context ELSE client.seen = 0 /\ checkpoints = {}

\* A request by its id; an id is drawn once.
Known(r) ==
    /\ r.id <= ids
    /\ r.operation \in Operations <=> r.id # 0
    /\ r.operation # "REVEAL" => r.checkpoint = NoCheckpoint
    /\ r.id # 0 /\ r.id = client.pending.id => r = client.pending

RequestsHold ==
    /\ Known(toServer) /\ Known(req) /\ Known(client.pending)
    /\ \A i \in DOMAIN journal : Known(journal[i].request)
    /\ client.previousRequest <= ids
    /\ IF client.pending.id = 0 THEN client.pending = NoRequest
       ELSE /\ client.pending.id > client.previousRequest
            /\ client.pending.sequence = client.sequence
            /\ client.pending.previous = client.previousRequest
            /\ (client.pending.operation = "BOOTSTRAP") <=> (session # "live")
    /\ session \in {"unborn", "starting"} => client.sequence = 0
    /\ waiting => session \in {"starting", "live"}

JournalHolds ==
    /\ \A i \in DOMAIN journal :
          /\ journal[i].phase = "INIT" <=> i = 1
          /\ journal[i].phase = "INIT" => journal[i].request = NoRequest
          /\ journal[i].operation = journal[i].request.operation \/ journal[i].operation = "PROTOCOL"
          /\ journal[i].phase = "COMPLETED" /\ journal[i].request.checkpoint # NoCheckpoint =>
                \E k \in DOMAIN access : access[k].checkpoint = journal[i].request.checkpoint
    /\ \A k \in DOMAIN access : access[k].checkpoint # NoCheckpoint =>
          /\ journal # <<>>
          /\ \/ access[k].checkpoint = Last.request.checkpoint
             \/ \E i \in Completed : access[k].checkpoint = journal[i].request.checkpoint
    /\ session = "live" => \E i \in Completed : journal[i].operation = "BOOTSTRAP"
    /\ epc \notin {"down", "journal"} => journal # <<>>

\* What the evaluator's memory says of the two ledgers at each point.
MemoryHolds ==
    /\ epc = "head" => cont \in {"access", "run", "reply", "refuse", "down", "protocol"}
    /\ epc = "bootstrap" \/ At(Serving \cup {"idle", "reply"}) => revealed = Len(access)
    /\ At(Serving \cup {"idle", "reply"}) => revealed >= Context
    /\ At(Serving \cup {"reply", "abort", "refuse"}) => req.id # 0
    /\ At(Serving) =>
          /\ Last.request = req
          /\ IF mode = "replay" THEN Last.phase = "COMPLETED" /\ req.operation = "REVEAL"
             ELSE Last.phase = "IN_FLIGHT" /\ req = client.pending
    /\ At({"reply"}) =>
          /\ Last.request = req /\ Last.phase = "COMPLETED"
          /\ IF mode = "replay" THEN epc = "reply" /\ req.operation = "REVEAL" ELSE req = client.pending
    /\ epc = "abort" =>
          /\ mode # "replay" /\ Last.request = req /\ req = client.pending
          /\ Last.phase \in {"IN_FLIGHT", "COMPLETED"}
    /\ At({"refuse"}) => Last.phase = "ABORTED" /\ Last.operation = req.operation
    /\ At({"protocol"}) => Last.phase # "ABORTED"
    /\ epc = "finalize" =>
          req.operation = "FINALIZE" /\ mode # "replay" /\ revealed = NumEvents /\ scoring < 4
    /\ epc = "finish" \/ At({"reply"}) =>
          /\ req.operation = "BOOTSTRAP" => result \in Context..Len(access)
          /\ req.operation = "REVEAL" => ShownFor(result, req.checkpoint)
    /\ (\E i \in Completed : journal[i].operation = "FINALIZE") =>
          /\ At({"down", "journal", "reply", "abort", "refuse"})
          /\ At({"reply"}) => req.operation = "FINALIZE"

\* The evaluator is at work on a frame, or on its way out after one.
Busy ==
    \/ At(Serving \cup {"protocol", "reply", "abort", "refuse"})
    \/ epc = "head" /\ cont = "down"

\* While it is, the pipe is empty and the client cannot send.
BusyHolds ==
    /\ Busy => toServer = NoRequest /\ toClient = NoResponse /\ (waiting \/ client.closed)
    /\ At(Booting) => ~waiting
    /\ epc = "head" /\ cont = "access" => session = "starting"

\* The pipe holds one frame at most, and only while the client cannot send.
PipeHolds ==
    /\ toServer # NoRequest => toClient = NoResponse
    /\ toServer # NoRequest \/ toClient # NoResponse => waiting \/ client.closed
    /\ toServer # NoRequest =>
          \/ toServer = client.pending
          \/ \E i \in DOMAIN journal : journal[i].request = toServer
          \/ toServer.sequence = client.sequence + 1 /\ toServer.previous = client.previousRequest
    /\ toClient # NoResponse => toClient.id \in 1..ids /\ toClient.status # "NONE"
    /\ toClient.status = "ERROR" => Refused
    /\ toClient.status = "OK" /\ toClient.id = client.pending.id =>
          /\ journal # <<>> /\ Last.phase = "COMPLETED" /\ Last.request = client.pending
          /\ client.pending.operation = "BOOTSTRAP" => toClient.result \in Context..Len(access)
          /\ client.pending.operation = "REVEAL" => ShownFor(toClient.result, client.pending.checkpoint)

\* Once refused, always: the evaluator is on its way out and stays out.
DoomHolds ==
    Doomed =>
        /\ Refused \/ (Last.phase = "IN_FLIGHT" /\ Last.operation = "PROTOCOL")
        /\ At({"down", "journal", "refuse", "protocol"})
        /\ waiting \/ client.closed
        /\ toClient.status # "OK"
        /\ Last.operation = "PROTOCOL" => toClient = NoResponse

\* The client is level with the ACCESS ledger, or one event behind for the
\* request it still holds.
Level == session = "live" => Len(access) = client.seen
Behind ==
    session = "live" /\ Len(access) # client.seen =>
        /\ Len(access) = client.seen + 1
        /\ client.pending.operation = "REVEAL"
        /\ client.pending.checkpoint = access[Len(access)].checkpoint

\* Where the exchange stands: the client's next request is not journalled, is
\* in flight, or is completed without the client knowing.
Between ==
    /\ journal # <<>> => Last.phase \in {"INIT", "COMPLETED"}
    /\ \A i \in DOMAIN journal : client.pending.id # 0 => journal[i].request.id # client.pending.id
    /\ ExpectedSequence = client.sequence /\ PreviousRequest = client.previousRequest
    /\ Level
InFlight ==
    /\ journal # <<>> /\ Last.phase = "IN_FLIGHT" /\ Last.request = client.pending /\ client.pending.id # 0
    /\ ExpectedSequence = client.sequence /\ PreviousRequest = client.previousRequest
    /\ Behind
Answered ==
    /\ journal # <<>> /\ Last.phase = "COMPLETED" /\ Last.request = client.pending /\ client.pending.id # 0
    /\ ExpectedSequence = client.sequence + 1
    /\ Behind
ExchangeHolds ==
    /\ ~Doomed => Between \/ InFlight \/ Answered
    /\ Refused \/ Behind
    /\ session = "live" => Len(access) <= client.seen + 1

IInv ==
    /\ SessionTypeOK /\ AccessHolds /\ RequestsHold /\ JournalHolds /\ MemoryHolds
    /\ BusyHolds /\ PipeHolds /\ DoomHolds /\ ExchangeHolds

\* What a client that follows _request adds.
OrderHolds ==
    /\ toServer # NoRequest => toServer = client.pending
    /\ toServer.operation = "BOOTSTRAP" => Completed = {}
    /\ ~At({"protocol"})
    /\ \A i \in DOMAIN journal : journal[i].operation # "PROTOCOL"

-----------------------------------------------------------------------------
(* The journal *)

\* Of a set of lines of the journal there is a last one.
LEMMA LastOf ==
    ASSUME journal \in Seq(JournalRecords), NEW S \in SUBSET (DOMAIN journal), S # {}
    PROVE  \E i \in S : \A j \in S : j <= i
<1> DEFINE n == Len(journal)
           gaps == {m \in Nat : n - m \in S}
<1>1. n \in Nat /\ S \subseteq 1..n
  OBVIOUS
<1>2. gaps \subseteq Nat /\ gaps # {}
  <2>1. PICK i \in S : TRUE
    OBVIOUS
  <2>2. n - i \in Nat /\ n - (n - i) = i
    BY <1>1, <2>1
  <2> QED BY <2>1, <2>2
<1>3. PICK m \in gaps : \A k \in gaps : ~(<<k, m>> \in OpToRel(<, Nat))
  <2> HIDE DEF gaps
  <2> QED BY <1>2, NatLessThanWellFounded, WFMin, Zenon
<1>4. \A k \in gaps : ~(k < m)
  BY <1>2, <1>3 DEF OpToRel
<1>5. \A j \in S : j <= n - m
  <2> TAKE j \in S
  <2>1. n - j \in Nat /\ n - (n - j) = j
    BY <1>1
  <2>2. n - j \in gaps
    BY <2>1
  <2>3. m \in Nat /\ ~(n - j < m)
    BY <1>2, <1>3, <1>4, <2>2
  <2> HIDE DEF gaps
  <2> QED BY <1>1, <2>1, <2>3
<1> QED BY <1>3, <1>5

\* Some COMPLETED line is the last one.
LEMMA LastCompletedExists ==
    ASSUME journal \in Seq(JournalRecords), Completed # {}
    PROVE  \E i \in Completed : \A j \in Completed : j <= i
<1>1. Completed \in SUBSET (DOMAIN journal)
  BY DEF Completed
<1> QED BY <1>1, LastOf

\* It is the one replies are chained to.
LEMMA LastCompletedIs ==
    ASSUME NEW i \in Completed, \A j \in Completed : j <= i, journal \in Seq(JournalRecords)
    PROVE  LastCompleted = journal[i] /\ PreviousRequest = journal[i].request.id
<1> DEFINE c == CHOOSE k \in Completed : \A j \in Completed : j <= k
<1>1. c \in Completed /\ \A j \in Completed : j <= c
  OBVIOUS
<1>2. Completed \subseteq 1..Len(journal) /\ Len(journal) \in Nat
  BY DEF Completed
<1>3. c = i
  <2> HIDE DEF c
  <2>1. c <= i /\ i <= c /\ c \in Int /\ i \in Int
    BY <1>1, <1>2
  <2> QED BY <2>1
<1> QED BY <1>3 DEF LastCompleted, PreviousRequest

\* expected_sequence counts finitely many lines.
LEMMA CompletedFinite ==
    ASSUME journal \in Seq(JournalRecords)
    PROVE  IsFiniteSet(Completed) /\ ExpectedSequence \in Nat
<1>1. Completed \in SUBSET (1..Len(journal)) /\ Len(journal) \in Nat
  BY DEF Completed
<1>2. IsFiniteSet(1..Len(journal))
  BY <1>1, FS_Interval
<1> QED BY <1>1, <1>2, FS_Subset, FS_CardinalityType DEF ExpectedSequence

\* The request the next one is chained to has an id.
LEMMA PreviousType ==
    ASSUME journal \in Seq(JournalRecords)
    PROVE  PreviousRequest \in Nat
<1>1. CASE Completed = {}
  BY <1>1 DEF PreviousRequest
<1>2. CASE Completed # {}
  <2>1. PICK i \in Completed : \A j \in Completed : j <= i
    BY <1>2, LastCompletedExists
  <2>2. journal[i] \in JournalRecords
    BY <2>1 DEF Completed
  <2> QED BY <2>1, <2>2, LastCompletedIs DEF JournalRecords, Requests
<1> QED BY <1>1, <1>2

\* What the journal says depends on nothing else.
LEMMA JournalStays ==
    ASSUME UNCHANGED journal
    PROVE  /\ Last' = Last /\ Completed' = Completed /\ LastCompleted' = LastCompleted
           /\ ExpectedSequence' = ExpectedSequence /\ PreviousRequest' = PreviousRequest
           /\ Doomed' <=> Doomed
           /\ Refused' <=> Refused
<1>1. Last' = Last /\ Completed' = Completed
  BY DEF Last, Completed
<1>2. LastCompleted' = LastCompleted
  BY <1>1 DEF LastCompleted
<1> QED BY <1>1, <1>2 DEF ExpectedSequence, PreviousRequest, Doomed, Refused

\* What one more line does to it.
LEMMA JournalGrows ==
    ASSUME journal \in Seq(JournalRecords), NEW x \in JournalRecords, journal' = Append(journal, x)
    PROVE  /\ journal' \in Seq(JournalRecords) /\ journal' # <<>>
           /\ DOMAIN journal' = DOMAIN journal \cup {Len(journal) + 1} /\ Len(journal) + 1 \notin DOMAIN journal
           /\ \A i \in DOMAIN journal : journal'[i] = journal[i]
           /\ journal'[Len(journal) + 1] = x /\ Last' = x
           /\ Completed' = IF x.phase = "COMPLETED" THEN Completed \cup {Len(journal) + 1} ELSE Completed
           /\ Doomed' <=> Doomed \/ x.phase = "ABORTED" \/ x.operation = "PROTOCOL"
           /\ Refused' <=> x.phase = "ABORTED"
           /\ ExpectedSequence' = IF x.phase = "COMPLETED" THEN ExpectedSequence + 1 ELSE ExpectedSequence
           /\ PreviousRequest' = IF x.phase = "COMPLETED" THEN x.request.id ELSE PreviousRequest
<1> DEFINE n == Len(journal) + 1
<1>1. /\ journal' \in Seq(JournalRecords) /\ journal' # <<>> /\ n \in Nat /\ Len(journal') = n
      /\ DOMAIN journal' = 1..n /\ DOMAIN journal = 1..(n - 1)
      /\ \A i \in DOMAIN journal : journal'[i] = journal[i]
      /\ journal'[n] = x
  OBVIOUS
<1>2. DOMAIN journal' = DOMAIN journal \cup {n} /\ n \notin DOMAIN journal
  BY <1>1
<1>3. Last' = x
  BY <1>1 DEF Last
<1>4. Completed' = IF x.phase = "COMPLETED" THEN Completed \cup {n} ELSE Completed
  BY <1>1, <1>2 DEF Completed
<1>5. Doomed' <=> Doomed \/ x.phase = "ABORTED" \/ x.operation = "PROTOCOL"
  BY <1>1, <1>2 DEF Doomed
<1>6. Refused' <=> x.phase = "ABORTED"
  BY <1>1, <1>3 DEF Refused
<1>7. n \notin Completed /\ Completed \subseteq 1..(n - 1)
  BY <1>1, <1>2 DEF Completed
<1>8. ExpectedSequence' = IF x.phase = "COMPLETED" THEN ExpectedSequence + 1 ELSE ExpectedSequence
  BY <1>4, <1>7, CompletedFinite, FS_AddElement DEF ExpectedSequence
<1>9. PreviousRequest' = IF x.phase = "COMPLETED" THEN x.request.id ELSE PreviousRequest
  <2> DEFINE c == CHOOSE k \in Completed' : \A j \in Completed' : j <= k
  <2>0. Completed' # {} => PreviousRequest' = journal'[c].request.id
    BY DEF PreviousRequest, LastCompleted
  <2>1. CASE x.phase = "COMPLETED"
    <3>1. n \in Completed' /\ \A j \in Completed' : j <= n
      BY <1>1, <1>4, <1>7, <2>1
    <3>2. c \in Completed' /\ \A j \in Completed' : j <= c
      BY <3>1
    <3>3. c = n
      <4> HIDE DEF c
      <4>1. \A k \in Completed' : k \in Int
        BY <1>1, <1>4, <1>7, <2>1
      <4> QED BY <1>1, <3>1, <3>2, <4>1
    <3> QED BY <1>1, <2>0, <2>1, <3>1, <3>3
  <2>2. CASE x.phase # "COMPLETED" /\ Completed = {}
    BY <1>4, <2>2 DEF PreviousRequest
  <2>3. CASE x.phase # "COMPLETED" /\ Completed # {}
    <3>1. PICK i \in Completed : \A j \in Completed : j <= i
      BY <2>3, LastCompletedExists
    <3>2. PreviousRequest = journal[i].request.id
      BY <3>1, LastCompletedIs
    <3>3. c \in Completed /\ \A j \in Completed : j <= c
      BY <1>4, <2>3, <3>1
    <3>4. c = i
      <4> HIDE DEF c
      <4>1. \A k \in Completed : k \in Int
        BY <1>1, <1>7
      <4> QED BY <3>1, <3>3, <4>1
    <3>5. journal'[i] = journal[i]
      BY <1>1, <3>1 DEF Completed
    <3> QED BY <1>4, <2>0, <2>3, <3>2, <3>4, <3>5
  <2> QED BY <2>1, <2>2, <2>3
<1> HIDE DEF n
<1> QED BY <1>1, <1>2, <1>3, <1>4, <1>5, <1>6, <1>8, <1>9 DEF n

-----------------------------------------------------------------------------
(* Types *)

\* The empty pipe is well typed.
LEMMA NoRequestType == NoRequest \in Requests /\ NoResponse \in Responses
BY DEF NoRequest, NoResponse, Requests, Responses

\* The four outcomes of an append to the journal.
LEMMA JournalAppendCases ==
    ASSUME SessionTypeOK, NEW x \in JournalRecords, NEW next \in EPCs, NEW onError \in EPCs,
           JournalAppend(x, next, onError)
    PROVE  /\ journal' \in Seq(JournalRecords) /\ torn' \subseteq {"journal", "access"}
           /\ epc' \in EPCs /\ cont' \in EPCs /\ faults' \in Nat
           /\ \/ journal' = Append(journal, x) /\ epc' = "head" /\ cont' = next
              \/ journal' = Append(journal, x) /\ epc' = onError /\ cont' = cont
              \/ journal' = journal /\ epc' = onError /\ cont' = cont
<1>1. "head" \in EPCs
  BY DEF EPCs
<1>2. Append(journal, x) \in Seq(JournalRecords)
  BY DEF SessionTypeOK
<1>3. PICK out \in {"ok", "fsync", "short"} :
        /\ faults' = IF out = "ok" THEN faults ELSE faults + 1
        /\ journal' = IF out = "short" THEN journal ELSE Append(journal, x)
        /\ torn' = IF out = "short" \/ (x.phase = "ABORTED" /\ Last.phase = "COMPLETED")
                   THEN torn \cup {"journal"} ELSE torn
        /\ IF out = "ok" THEN epc' = "head" /\ cont' = next
           ELSE epc' = onError /\ UNCHANGED cont
  BY DEF JournalAppend
<1> QED BY <1>1, <1>2, <1>3 DEF SessionTypeOK

\* And of one to the ACCESS ledger.
LEMMA AccessAppendCases ==
    ASSUME SessionTypeOK, NEW x \in Accesses, NEW next \in EPCs, NEW onError \in EPCs,
           AccessAppend(x, next, onError)
    PROVE  /\ access' \in Seq(Accesses) /\ torn' \subseteq {"journal", "access"}
           /\ epc' \in EPCs /\ faults' \in Nat
           /\ \/ access' = Append(access, x) /\ epc' \in {next, onError}
              \/ access' = access /\ epc' = onError
<1>1. Append(access, x) \in Seq(Accesses)
  BY DEF SessionTypeOK
<1>2. PICK out \in {"ok", "fsync", "short"} :
        /\ faults' = IF out = "ok" THEN faults ELSE faults + 1
        /\ access' = IF out = "short" THEN access ELSE Append(access, x)
        /\ torn' = IF out = "short" THEN torn \cup {"access"} ELSE torn
        /\ epc' = IF out = "ok" THEN next ELSE onError
  BY DEF AccessAppend
<1> QED BY <1>1, <1>2 DEF SessionTypeOK

\* The last line is a line.
LEMMA LastType ==
    ASSUME SessionTypeOK, journal # <<>>
    PROVE  Last \in JournalRecords /\ Len(journal) \in DOMAIN journal
BY DEF SessionTypeOK, Last

\* And so is what the evaluator makes of a request.
LEMMA EntryType ==
    ASSUME NEW phase \in {"INIT", "IN_FLIGHT", "COMPLETED", "ABORTED"}, NEW r \in Requests, NEW x \in Nat
    PROVE  Entry(phase, r, x) \in JournalRecords
BY DEF Entry, JournalRecords, Requests

\* Starting the evaluator keeps the types.
LEMMA BootType ==
    ASSUME SessionTypeOK, Launch \/ Restart \/ OpenAccess \/ Ready \/ WriteHead \/ OpenJournal
    PROVE  SessionTypeOK'
<1> USE DEF SessionTypeOK, disk, plane, locals, pipe, clientVars
<1>0. {"journal", "down", "bootstrap", "access", "idle", "head", "abort"} \subseteq EPCs
  BY DEF EPCs, Booting
<1>1. CASE Launch \/ Restart
  BY <1>0, <1>1 DEF Launch, Restart
<1>2. CASE OpenAccess
  BY <1>0, <1>2 DEF OpenAccess
<1>3. CASE Ready
  BY <1>0, <1>3, NoRequestType DEF Ready
<1>4. CASE WriteHead
  BY <1>0, <1>4 DEF WriteHead
<1>5. CASE OpenJournal
  <2> DEFINE x == [phase |-> "INIT", operation |-> "NONE", request |-> NoRequest, result |-> 0]
  <2>1. x \in JournalRecords
    BY NoRequestType DEF JournalRecords
  <2>2. UNCHANGED <<head, access, scoring, plane, locals, pipe, clientVars, crashes, timeouts>>
    BY <1>5 DEF OpenJournal
  <2>3. CASE JournalAppend(x, "access", "down")
    <3> HIDE DEF x
    <3> QED BY <1>0, <2>1, <2>2, <2>3, JournalAppendCases
  <2>4. CASE ~JournalAppend(x, "access", "down")
    BY <1>0, <1>5, <2>2, <2>4 DEF OpenJournal, Exit
  <2> QED BY <2>3, <2>4
<1> QED BY <1>1, <1>2, <1>3, <1>4, <1>5

\* So do its steps inside a request, but for those that write ACCESS records,
LEMMA LoopType ==
    ASSUME SessionTypeOK, MemoryHolds, journal # <<>> \/ epc \in {"down", "journal"},
           \/ Receive \/ ProtocolAbort \/ EndOfSession \/ Finish \/ Reply \/ Abort \/ Refuse
           \/ RunBootstrap \/ RunFinalize \/ ScoreStage \/ Crash \/ Kill
    PROVE  SessionTypeOK'
<1> USE DEF SessionTypeOK, disk, plane, locals, pipe, clientVars
<1>0. {"down", "idle", "head", "abort", "run", "protocol", "finish", "finalize", "reply", "refuse"} \subseteq EPCs
  BY DEF EPCs, Booting
<1>1. CASE Receive
  <2>1. toServer \in Requests /\ Entry("IN_FLIGHT", toServer, 0) \in JournalRecords
    BY EntryType
  <2>2. CASE JournalAppend(Entry("IN_FLIGHT", toServer, 0), "run", "down")
    <3>1. /\ journal' \in Seq(JournalRecords) /\ torn' \subseteq {"journal", "access"}
          /\ epc' \in EPCs /\ cont' \in EPCs /\ faults' \in Nat
      BY <1>0, <2>1, <2>2, JournalAppendCases
    <3> QED BY <1>1, <2>1, <3>1, NoRequestType DEF Receive
  <2>3. CASE ~JournalAppend(Entry("IN_FLIGHT", toServer, 0), "run", "down")
    BY <1>0, <1>1, <2>1, <2>3, NoRequestType DEF Receive
  <2> QED BY <2>2, <2>3
<1>2. CASE ProtocolAbort
  <2> DEFINE violation == [NoRequest EXCEPT !.sequence = ExpectedSequence, !.previous = PreviousRequest]
             x == IF Unresolved THEN [Last EXCEPT !.phase = "ABORTED"]
                  ELSE [phase |-> "IN_FLIGHT", operation |-> "PROTOCOL", request |-> violation, result |-> 0]
  <2>1. violation \in Requests
    BY NoRequestType, CompletedFinite, PreviousType DEF Requests, NoRequest
  <2>2. x \in JournalRecords
    BY <2>1, LastType DEF JournalRecords, Unresolved
  <2>3. \E next \in EPCs : JournalAppend(x, next, "down")
    BY <1>0, <1>2 DEF ProtocolAbort
  <2> HIDE DEF x
  <2> QED BY <1>0, <1>2, <2>2, <2>3, JournalAppendCases DEF ProtocolAbort
<1>3. CASE EndOfSession \/ Kill
  BY <1>0, <1>3 DEF EndOfSession, Kill, Exit
<1>4. CASE Finish
  <2>1. Entry("COMPLETED", req, result) \in JournalRecords
    BY EntryType
  <2>2. CASE JournalAppend(Entry("COMPLETED", req, result), "reply", "abort")
    <3>1. /\ journal' \in Seq(JournalRecords) /\ torn' \subseteq {"journal", "access"}
          /\ epc' \in EPCs /\ cont' \in EPCs /\ faults' \in Nat
      BY <1>0, <2>1, <2>2, JournalAppendCases
    <3> QED BY <1>4, <3>1 DEF Finish
  <2>3. CASE ~JournalAppend(Entry("COMPLETED", req, result), "reply", "abort")
    BY <1>0, <1>4, <2>3 DEF Finish
  <2> QED BY <2>2, <2>3
<1>5. ResponseBefore(req.sequence) \in Nat => Response("OK") \in Responses /\ Response("ERROR") \in Responses
  BY DEF Response, Responses, Requests
<1>6. ResponseBefore(req.sequence) \in Nat
  <2> DEFINE before == {i \in Completed : journal[i].request.sequence < req.sequence}
  <2>1. CASE before = {}
    BY <2>1 DEF ResponseBefore
  <2>2. CASE before # {}
    <3>1. PICK i \in before : \A j \in before : j <= i
      <4>1. before \in SUBSET (DOMAIN journal)
        BY DEF Completed
      <4> HIDE DEF before
      <4> QED BY <2>2, <4>1, LastOf
    <3>2. (CHOOSE k \in before : \A j \in before : j <= k) \in before
      BY <3>1
    <3>3. \A k \in before : journal[k].request.id \in Nat
      <4> TAKE k \in before
      <4>1. journal[k] \in JournalRecords
        BY DEF Completed
      <4>2. journal[k].request \in Requests
        BY <4>1 DEF JournalRecords
      <4> QED BY <4>2 DEF Requests
    <3> QED BY <2>2, <3>2, <3>3 DEF ResponseBefore
  <2> QED BY <2>1, <2>2
<1>7. CASE Reply
  BY <1>0, <1>5, <1>6, <1>7 DEF Reply, Reject
<1>8. CASE Refuse
  BY <1>0, <1>5, <1>6, <1>8 DEF Refuse, Exit
<1>9. CASE Abort
  <2>1. Entry("ABORTED", req, 0) \in JournalRecords
    BY EntryType
  <2>2. /\ journal' \in Seq(JournalRecords) /\ torn' \subseteq {"journal", "access"}
        /\ epc' \in EPCs /\ cont' \in EPCs /\ faults' \in Nat
    BY <1>0, <1>9, <2>1, JournalAppendCases DEF Abort
  <2> QED BY <1>9, <2>2 DEF Abort
<1>10. CASE RunBootstrap \/ RunFinalize
  <2>1. epc' \in EPCs /\ result' \in Nat
    BY <1>0, <1>10 DEF RunBootstrap, RunFinalize, Reject
  <2>2. UNCHANGED <<disk, plane, cont, req, mode, revealed, pipe, clientVars, crashes, timeouts, faults>>
    BY <1>10 DEF RunBootstrap, RunFinalize
  <2> QED BY <2>1, <2>2
<1>11. CASE ScoreStage
  <2>1. scoring \in 0..3
    BY <1>11 DEF ScoreStage, MemoryHolds
  <2> QED BY <1>0, <1>11, <2>1 DEF ScoreStage
<1>12. CASE Crash
  <2>1. torn' \in {torn, torn \cup {"journal"}, torn \cup {"access"}} /\ faults' \in Nat /\ crashes' \in Nat
    BY <1>12 DEF Crash
  <2>2. torn' \subseteq {"journal", "access"}
    BY <2>1
  <2>3. epc' \in EPCs /\ UNCHANGED cont
    BY <1>0, <1>12 DEF Crash, Exit
  <2>4. UNCHANGED <<journal, head, access, scoring, plane, locals, pipe, clientVars, timeouts>>
    BY <1>12 DEF Crash
  <2> QED BY <2>1, <2>2, <2>3, <2>4
<1> QED BY <1>1, <1>2, <1>3, <1>4, <1>7, <1>8, <1>9, <1>10, <1>11, <1>12

\* those that do,
LEMMA AccessType ==
    ASSUME SessionTypeOK, Bootstrap \/ RunReveal
    PROVE  SessionTypeOK'
<1> USE DEF SessionTypeOK, disk, plane, locals, pipe, clientVars
<1>0. {"down", "bootstrap", "abort", "finish"} \subseteq EPCs
  BY DEF EPCs, Booting
<1>1. CASE Bootstrap
  <2> DEFINE x == [event |-> revealed, checkpoint |-> NoCheckpoint]
  <2>1. x \in Accesses
    BY <1>1 DEF Bootstrap, Accesses
  <2>2. AccessAppend(x, "bootstrap", "down")
    BY <1>1 DEF Bootstrap
  <2> HIDE DEF x
  <2>3. /\ access' \in Seq(Accesses) /\ torn' \subseteq {"journal", "access"}
        /\ epc' \in EPCs /\ faults' \in Nat
    BY <1>0, <2>1, <2>2, AccessAppendCases
  <2> QED BY <1>1, <2>3 DEF Bootstrap
<1>2. CASE RunReveal
  <2> DEFINE c == req.checkpoint
             x == [event |-> revealed, checkpoint |-> c]
             down == IF mode = "replay" THEN "down" ELSE "abort"
  <2>0. UNCHANGED <<journal, head, scoring, plane, cont, req, mode, pipe, clientVars, crashes, timeouts>>
    BY <1>2 DEF RunReveal
  <2>1. ASSUME MayReveal(c), AccessAppend(x, "finish", down), result' = revealed, revealed' = revealed + 1
        PROVE  SessionTypeOK'
    <3>1. x \in Accesses
      BY <2>1 DEF MayReveal, CheckpointFor, Accesses
    <3>2. down \in EPCs
      BY <1>0
    <3> HIDE DEF x, down
    <3>3. /\ access' \in Seq(Accesses) /\ torn' \subseteq {"journal", "access"}
          /\ epc' \in EPCs /\ faults' \in Nat
      BY <1>0, <2>1, <3>1, <3>2, AccessAppendCases
    <3> QED BY <2>0, <2>1, <3>3
  <2>2. ASSUME NEW i \in UsedBy(c), result' = access[i].event, epc' = "finish",
               UNCHANGED <<access, torn, revealed, faults>>
        PROVE  SessionTypeOK'
    <3>1. access[i] \in Accesses
      BY <2>2 DEF UsedBy
    <3>2. result' \in Nat
      BY <2>2, <3>1 DEF Accesses
    <3> QED BY <1>0, <2>0, <2>2, <3>2
  <2>3. ASSUME Reject, UNCHANGED <<access, torn, result, revealed, faults>>
        PROVE  SessionTypeOK'
    BY <1>0, <2>0, <2>3 DEF Reject
  <2> QED BY <1>2, <2>1, <2>2, <2>3 DEF RunReveal
<1> QED BY <1>1, <1>2

\* a frame that is sent,
LEMMA RequestType ==
    ASSUME SessionTypeOK, NEW operation \in Operations, NEW c \in Checkpoints \cup {NoCheckpoint},
           Request(operation, c)
    PROVE  SessionTypeOK'
<1> USE DEF SessionTypeOK, disk, plane, locals, pipe, clientVars
<1> DEFINE new == [id |-> ids + 1, sequence |-> client.sequence, operation |-> operation,
                   checkpoint |-> c, previous |-> client.previousRequest]
           r == IF client.pending = NoRequest THEN new ELSE client.pending
<1>1. r \in Requests
  BY DEF Requests
<1>2. ids' \in 0..MaxRequests
  BY SMTT(40) DEF Request
<1>3. /\ \/ toServer' = r /\ waiting' = TRUE /\ client' = [client EXCEPT !.pending = r]
         \/ client' = [client EXCEPT !.pending = r, !.closed = TRUE] /\ UNCHANGED <<toServer, waiting>>
      /\ UNCHANGED <<disk, plane, epc, cont, locals, toClient, cut, session, crashes, timeouts, faults>>
  BY DEF Request
<1> HIDE DEF r
<1> QED BY <1>1, <1>2, <1>3

\* what the client reads or gives up on,
LEMMA ClientType ==
    ASSUME SessionTypeOK, Timeout \/ HangUp \/ StartFails \/ Accept \/ CloseClient
    PROVE  SessionTypeOK'
<1> USE DEF SessionTypeOK, disk, plane, locals, pipe, clientVars
<1>0. "down" \in EPCs /\ NoResponse \in Responses
  BY NoRequestType DEF EPCs
<1>1. CASE Timeout \/ HangUp \/ StartFails
  <2>1. epc' \in EPCs /\ session' \in {"unborn", "starting", "live", "lost"}
    BY <1>0, <1>1 DEF Timeout, HangUp, StartFails, Lost
  <2>2. /\ client' = client \/ client' = [client EXCEPT !.closed = TRUE]
        /\ waiting' = waiting \/ waiting' = FALSE
        /\ timeouts' = timeouts \/ timeouts' = timeouts + 1
    <3> HIDE DEF SessionTypeOK
    <3> QED BY <1>1 DEF Timeout, HangUp, StartFails, GivesUp
  <2>3. UNCHANGED <<disk, plane, cont, locals, pipe, ids, crashes, faults>>
    BY <1>1 DEF Timeout, HangUp, StartFails
  <2>4. client' \in [sequence: Nat, previousRequest: Nat, previousResponse: Nat,
                     pending: Requests, closed: BOOLEAN, seen: Nat]
    BY <2>2
  <2>5. timeouts' \in Nat
    BY <2>2, SMTT(40)
  <2>6. waiting' \in BOOLEAN
    BY <2>2, Zenon
  <2> QED BY <2>1, <2>3, <2>4, <2>5, <2>6
<1>2. CASE CloseClient
  BY <1>2 DEF CloseClient
<1>3. CASE Accept
  <2>1. toClient \in Responses /\ toClient.result \in Nat /\ toClient.id \in Nat
    BY DEF Responses
  <2>2. \A o : Learned(o, toClient.result) \in Nat
    BY <2>1, SMTT(40) DEF Learned
  <2>3. NoRequest \in Requests /\ client.pending \in Requests /\ client.pending.id \in Nat
    BY NoRequestType DEF Requests
  <2>4. client' \in [sequence: Nat, previousRequest: Nat, previousResponse: Nat,
                     pending: Requests, closed: BOOLEAN, seen: Nat]
    <3>1. CASE Genuine(toClient)
      <4> DEFINE shut == toClient.status # "OK" \/ client.pending.operation = "FINALIZE"
                         \/ NonCausal(client.pending.operation, toClient.result)
                 level == IF toClient.status = "OK" THEN Learned(client.pending.operation, toClient.result)
                          ELSE client.seen
      <4>1. client' = [sequence |-> client.sequence + 1, previousRequest |-> client.pending.id,
                       previousResponse |-> toClient.id, pending |-> NoRequest,
                       closed |-> shut, seen |-> level]
        BY <1>3, <3>1 DEF Accept
      <4>2. shut \in BOOLEAN /\ level \in Nat
        BY <2>2
      <4> HIDE DEF shut, level
      <4> QED BY <2>1, <2>3, <4>1, <4>2
    <3>2. CASE ~Genuine(toClient)
      BY <1>3, <3>2 DEF Accept, GivesUp
    <3> QED BY <3>1, <3>2
  <2>5. epc' \in EPCs /\ session' \in {"unborn", "starting", "live", "lost"}
    BY <1>0, <1>3 DEF Accept, Lost
  <2> QED BY <1>0, <1>3, <2>4, <2>5 DEF Accept
<1> QED BY <1>1, <1>2, <1>3

\* and the prediction plane.
LEMMA PlaneType ==
    ASSUME SessionTypeOK, AccessHolds, SealPhase \/ OutOfTurn \/ \E policy \in Policies : Predict(policy)
    PROVE  SessionTypeOK'
<1> USE DEF SessionTypeOK, disk, plane, locals, pipe, clientVars
<1>1. CASE SealPhase
  BY <1>1 DEF SealPhase
<1>2. CASE OutOfTurn
  <2>1. toServer' \in Requests
    <3> DEFINE skipping == [id |-> ids + 1, sequence |-> client.sequence + 1, operation |-> "REVEAL",
                            checkpoint |-> NoCheckpoint, previous |-> client.previousRequest]
    <3>1. skipping \in Requests
      BY DEF Requests, Operations
    <3>2. \A i \in DOMAIN journal : journal[i].request \in Requests
      <4> TAKE i \in DOMAIN journal
      <4>1. journal[i] \in JournalRecords
        OBVIOUS
      <4> QED BY <4>1 DEF JournalRecords
    <3>3. toServer' \in {journal[i].request : i \in DOMAIN journal} \cup {skipping}
      BY <1>2 DEF OutOfTurn
    <3> HIDE DEF skipping
    <3> QED BY <3>1, <3>2, <3>3
  <2> QED BY <1>2, <2>1 DEF OutOfTurn
<1>3. ASSUME NEW policy \in Policies, Predict(policy) PROVE SessionTypeOK'
  <2>1. client.seen - 1 \in 0..(NumEvents - 1)
    BY <1>3 DEF Predict, AccessHolds
  <2>2. checkpoints' \subseteq Checkpoints
    BY <1>3, <2>1 DEF Predict, Checkpoints
  <2> QED BY <1>3, <2>2 DEF Predict
<1> QED BY <1>1, <1>2, <1>3

-----------------------------------------------------------------------------
(* What a step leaves alone *)

\* The ACCESS ledger is judged by its records, the checkpoints and what was seen.
LEMMA AccessFrame ==
    ASSUME AccessHolds, UNCHANGED <<access, checkpoints>>, client'.seen = client.seen,
           session' = session \/ (session # "live" /\ session' # "live")
    PROVE  AccessHolds'
BY DEF AccessHolds, CheckpointFor

\* Requests are judged by where they are held.
LEMMA RequestsFrame ==
    ASSUME RequestsHold, UNCHANGED <<toServer, req, journal, ids>>,
           client'.pending = client.pending, client'.sequence = client.sequence,
           client'.previousRequest = client.previousRequest,
           session' = session \/ (session = "unborn" /\ session' = "starting"),
           waiting' => waiting
    PROVE  RequestsHold'
BY DEF RequestsHold, Known

\* The journal is judged by its lines and the ACCESS records.
LEMMA JournalFrame ==
    ASSUME JournalHolds, UNCHANGED <<journal, access>>,
           session' = session \/ session' # "live",
           epc' \notin {"down", "journal"} => journal # <<>>
    PROVE  JournalHolds'
BY JournalStays DEF JournalHolds

\* The exchange is judged by the two ledgers and what the client holds.
LEMMA ExchangeFrame ==
    ASSUME ExchangeHolds, UNCHANGED <<journal, access>>,
           client'.pending = client.pending, client'.sequence = client.sequence,
           client'.previousRequest = client.previousRequest, client'.seen = client.seen,
           session' = session \/ session' # "live"
    PROVE  ExchangeHolds'
BY JournalStays DEF ExchangeHolds, Between, InFlight, Answered, Level, Behind

\* The pipe stays true while nobody writes to it or to a ledger.
LEMMA PipeFrame ==
    ASSUME PipeHolds, UNCHANGED <<journal, access, toServer, toClient, ids>>,
           client'.pending = client.pending, client'.sequence = client.sequence,
           client'.previousRequest = client.previousRequest,
           toServer # NoRequest \/ toClient # NoResponse => waiting' \/ client'.closed
    PROVE  PipeHolds'
BY JournalStays DEF PipeHolds, ShownFor

\* A step of the evaluator that writes neither ledger and touches no pipe.
LEMMA EvaluatorMoves ==
    ASSUME IInv, SessionTypeOK', MemoryHolds',
           UNCHANGED <<journal, access, checkpoints, toServer, toClient, req, client, waiting, ids>>,
           session' = session \/ (session = "unborn" /\ session' = "starting"),
           Busy' => Busy, At(Booting)' => ~waiting,
           epc' = "head" /\ cont' = "access" => session' = "starting",
           epc' \notin {"down", "journal"} => journal # <<>>,
           Doomed => At({"down", "journal", "refuse", "protocol"})'
    PROVE  IInv'
<1>1. AccessHolds' /\ RequestsHold' /\ JournalHolds' /\ ExchangeHolds' /\ PipeHolds'
  BY AccessFrame, RequestsFrame, JournalFrame, ExchangeFrame, PipeFrame DEF IInv, PipeHolds
<1>2. BusyHolds'
  BY DEF IInv, BusyHolds
<1>3. DoomHolds'
  BY JournalStays DEF IInv, DoomHolds
<1> QED BY <1>1, <1>2, <1>3 DEF IInv

\* The evaluator is gone.
LEMMA EvaluatorLeaves ==
    ASSUME IInv, SessionTypeOK', epc' = "down", session' = session,
           UNCHANGED <<journal, access, checkpoints, toServer, toClient, req, client, waiting, ids>>
    PROVE  IInv'
<1>1. MemoryHolds'
  BY DEF MemoryHolds, At, Serving
<1>2. ~Busy' /\ ~At(Booting)' /\ At({"down", "journal", "refuse", "protocol"})'
  BY DEF Busy, At, Serving, Booting
<1> QED BY <1>1, <1>2, EvaluatorMoves

-----------------------------------------------------------------------------
(* Steps that only move the evaluator *)

\* The evaluator reads the end of the pipe, is killed, or dies, in a write or not.
LEMMA LeavingSteps ==
    ASSUME IInv, EndOfSession \/ Kill \/ Crash
    PROVE  IInv'
<1>1. SessionTypeOK'
  BY LoopType DEF IInv, JournalHolds
<1>2. epc' = "down" /\ UNCHANGED <<session, journal, access, checkpoints, toServer, toClient, req, client, waiting, ids>>
  BY DEF EndOfSession, Kill, Crash, Exit, disk, plane, locals, pipe, clientVars
<1> QED BY <1>1, <1>2, EvaluatorLeaves

\* start_isolated_evaluator and EvaluatorSupervisor.restart spawn it.
LEMMA StartingSteps ==
    ASSUME IInv, Launch \/ Restart
    PROVE  IInv'
<1>1. SessionTypeOK'
  BY BootType DEF IInv
<1>2. /\ epc' = "journal" /\ ~waiting
      /\ UNCHANGED <<journal, access, checkpoints, toServer, toClient, req, client, waiting, ids>>
      /\ session' = session \/ (session = "unborn" /\ session' = "starting")
  BY DEF IInv, RequestsHold, Launch, Restart, disk, plane, locals, pipe, clientVars
<1>3. MemoryHolds'
  BY <1>2 DEF MemoryHolds, At, Serving
<1>4. ~Busy' /\ At({"down", "journal", "refuse", "protocol"})'
  BY <1>2 DEF Busy, At, Serving
<1> QED BY <1>1, <1>2, <1>3, <1>4, EvaluatorMoves

\* The constructor of the journal, over an existing file.
LEMMA ReopenJournal ==
    ASSUME IInv, OpenJournal, journal # <<>>
    PROVE  IInv'
<1>1. SessionTypeOK'
  BY BootType DEF IInv
<1>2. /\ epc = "journal"
      /\ UNCHANGED <<journal, access, checkpoints, toServer, toClient, req, client, waiting, ids, session>>
  BY DEF OpenJournal, disk, plane, locals, pipe, clientVars
<1>3. CASE ~JournalRestarts
  <2>1. epc' = "down"
    BY <1>3 DEF OpenJournal, Exit
  <2> QED BY <1>1, <1>2, <2>1, EvaluatorLeaves
<1>4. CASE JournalRestarts
  <2>1. epc' = "access"
    BY <1>4 DEF OpenJournal
  <2>2. ~Doomed /\ \A i \in Completed : journal[i].operation # "FINALIZE"
    BY <1>4 DEF IInv, DoomHolds, Refused, JournalRestarts, Unresolved
  <2>3. MemoryHolds'
    BY <1>2, <2>1, <2>2, JournalStays DEF MemoryHolds, At, Serving
  <2>4. ~Busy' /\ ~waiting
    BY <1>2, <2>1 DEF Busy, At, Serving, IInv, BusyHolds, Booting
  <2> QED BY <1>1, <1>2, <2>1, <2>2, <2>3, <2>4, EvaluatorMoves
<1> QED BY <1>3, <1>4

\* BlindReplayService.__init__ reads the ACCESS ledger again.
LEMMA OpenAccessPreserves ==
    ASSUME IInv, OpenAccess
    PROVE  IInv'
<1>1. SessionTypeOK'
  BY BootType DEF IInv
<1>2. /\ epc = "access" /\ epc' \in {"down", "bootstrap"} /\ revealed' = Len(access)
      /\ UNCHANGED <<journal, access, checkpoints, toServer, toClient, req, client, waiting, ids, session>>
  BY DEF OpenAccess, disk, plane, locals, pipe, clientVars
<1>3. ~Doomed /\ journal # <<>> /\ \A i \in Completed : journal[i].operation # "FINALIZE"
  BY <1>2 DEF IInv, DoomHolds, MemoryHolds, JournalHolds, At
<1>4. MemoryHolds'
  BY <1>2, <1>3, JournalStays DEF MemoryHolds, At, Serving
<1>5. ~Busy' /\ ~waiting
  BY <1>2 DEF Busy, At, Serving, IInv, BusyHolds, Booting
<1> QED BY <1>1, <1>2, <1>3, <1>4, <1>5, EvaluatorMoves

\* _write_head, which may raise before or after the rename.
LEMMA WriteHeadPreserves ==
    ASSUME IInv, WriteHead
    PROVE  IInv'
<1>1. SessionTypeOK'
  BY BootType DEF IInv
<1>2. /\ epc = "head" /\ cont \in {"access", "run", "reply", "refuse", "down", "protocol"}
      /\ UNCHANGED <<journal, access, checkpoints, toServer, toClient, req, client, waiting, ids, session,
                     cont, mode, result, revealed, scoring>>
  BY DEF WriteHead, IInv, MemoryHolds, disk, plane, locals, pipe, clientVars
<1>3. CASE epc' = "down"
  BY <1>1, <1>2, <1>3, EvaluatorLeaves
<1>4. CASE epc' = cont /\ cont # "down"
  <2>1. MemoryHolds'
    BY <1>2, <1>4, JournalStays DEF IInv, MemoryHolds, At, Serving, ShownFor
  <2>2. Busy' => Busy
    BY <1>2, <1>4 DEF Busy, At, Serving
  <2>3. (At(Booting)' => ~waiting) /\ journal # <<>>
    BY <1>2, <1>4 DEF IInv, BusyHolds, At, Booting, JournalHolds
  <2>4. Doomed => At({"down", "journal", "refuse", "protocol"})'
    BY <1>2, <1>4 DEF IInv, DoomHolds, At
  <2> QED BY <1>1, <1>2, <1>4, <2>1, <2>2, <2>3, <2>4, EvaluatorMoves
<1>5. CASE epc' = "abort" /\ cont = "reply"
  <2>1. At({"reply"}) /\ ~Doomed /\ journal # <<>> /\ mode # "replay"
    BY <1>2, <1>5 DEF At, IInv, DoomHolds, MemoryHolds, JournalHolds
  <2>2. MemoryHolds'
    BY <1>2, <1>5, <2>1, JournalStays DEF IInv, MemoryHolds, At, Serving
  <2>3. Busy /\ ~At(Booting)'
    BY <1>2, <1>5 DEF Busy, At, Serving, Booting
  <2> QED BY <1>1, <1>2, <1>5, <2>1, <2>2, <2>3, EvaluatorMoves
<1> QED BY <1>3, <1>4, <1>5 DEF WriteHead

\* The evaluator goes on with the request it is serving.
LEMMA ServingMoves ==
    ASSUME IInv, SessionTypeOK', MemoryHolds', epc \in Serving \cup {"reply"},
           epc' \in Serving \cup {"reply", "abort"},
           UNCHANGED <<journal, access, checkpoints, toServer, toClient, req, client, waiting, ids, session>>
    PROVE  IInv'
<1>1. Busy /\ ~At(Booting)' /\ ~Doomed /\ journal # <<>> /\ epc' # "head"
  BY DEF Busy, At, Serving, Booting, IInv, DoomHolds, JournalHolds
<1> QED BY <1>1, EvaluatorMoves

\* The operation of a request: bootstrap, finalize and its stages, a replayed answer.
LEMMA ServingSteps ==
    ASSUME IInv, \/ RunBootstrap \/ RunFinalize \/ ScoreStage
                 \/ Finish /\ mode = "replay"
                 \/ Reply /\ cut
    PROVE  IInv'
<1>1. SessionTypeOK'
  BY LoopType DEF IInv, JournalHolds
<1>2. /\ UNCHANGED <<journal, access, checkpoints, toServer, toClient, req, client, waiting, ids, session,
                     mode, revealed>>
      /\ epc \in Serving \cup {"reply"}
  BY DEF RunBootstrap, RunFinalize, ScoreStage, Finish, Reply, disk, plane, locals, pipe, clientVars, Serving
<1>3. /\ Last' = Last /\ Completed' = Completed /\ journal # <<>>
      /\ epc # "reply" => \A i \in Completed : journal[i].operation # "FINALIZE"
      /\ revealed = Len(access) /\ revealed >= Context /\ req.id # 0 /\ Last.request = req
      /\ Len(access) \in Nat /\ result \in Nat
  BY <1>2, JournalStays DEF IInv, SessionTypeOK, JournalHolds, MemoryHolds, At, Serving
<1>4. CASE RunBootstrap
  <2>1. epc = "run" /\ epc' = "finish" /\ req.operation = "BOOTSTRAP" /\ result' = revealed
    BY <1>4 DEF RunBootstrap
  <2>2. MemoryHolds'
    BY <1>2, <1>3, <2>1 DEF IInv, MemoryHolds, At, Serving
  <2> QED BY <1>1, <1>2, <2>1, <2>2, ServingMoves DEF Serving
<1>5. CASE RunFinalize
  <2>1. epc = "run" /\ req.operation = "FINALIZE" /\ mode # "replay"
    BY <1>5 DEF RunFinalize, IInv, MemoryHolds, At, Serving
  <2>2. UNCHANGED scoring /\ (epc' = "abort" \/ (epc' = "finalize" /\ revealed = NumEvents /\ scoring = 0))
    <3>1. UNCHANGED scoring
      BY <1>5 DEF RunFinalize, disk
    <3>2. CASE MayScore
      BY <1>5, <3>1, <3>2 DEF RunFinalize, MayScore
    <3>3. CASE ~MayScore
      BY <1>5, <2>1, <3>1, <3>3 DEF RunFinalize, Reject
    <3> QED BY <3>2, <3>3
  <2>3. MemoryHolds'
    BY <1>2, <1>3, <2>1, <2>2 DEF IInv, MemoryHolds, At, Serving
  <2> QED BY <1>1, <1>2, <2>2, <2>3, ServingMoves DEF Serving
<1>6. CASE ScoreStage
  <2>1. epc = "finalize" /\ req.operation = "FINALIZE" /\ mode # "replay" /\ revealed = NumEvents
    BY <1>6 DEF ScoreStage, IInv, MemoryHolds
  <2>2. epc' \in {"abort", "finish"} \/ (epc' = "finalize" /\ scoring' < 4)
    <3>1. scoring \in 0..3
      BY <2>1 DEF IInv, MemoryHolds, SessionTypeOK
    <3> QED BY <1>6, <3>1 DEF ScoreStage
  <2>3. MemoryHolds'
    BY <1>2, <1>3, <2>1, <2>2 DEF IInv, MemoryHolds, At, Serving
  <2> QED BY <1>1, <1>2, <2>2, <2>3, ServingMoves DEF Serving
<1>7. CASE Finish /\ mode = "replay"
  <2>1. epc = "finish" /\ epc' \in {"reply", "down"} /\ UNCHANGED result
    BY <1>7 DEF Finish, locals
  <2>2. CASE epc' = "down"
    BY <1>1, <1>2, <2>2, EvaluatorLeaves
  <2>3. CASE epc' = "reply"
    <3>1. MemoryHolds'
      BY <1>2, <1>3, <1>7, <2>1, <2>3 DEF IInv, MemoryHolds, At, Serving, ShownFor
    <3> QED BY <1>1, <1>2, <2>3, <3>1, ServingMoves
  <2> QED BY <2>1, <2>2, <2>3
<1>8. CASE Reply /\ cut
  <2>1. epc = "reply" /\ epc' = (IF mode = "replay" THEN "down" ELSE "abort")
    BY <1>8 DEF Reply, Reject
  <2>2. CASE epc' = "down"
    BY <1>1, <1>2, <2>2, EvaluatorLeaves
  <2>3. CASE epc' = "abort"
    <3>1. MemoryHolds'
      BY <1>2, <1>3, <2>1, <2>3 DEF IInv, MemoryHolds, At, Serving
    <3> QED BY <1>1, <1>2, <2>3, <3>1, ServingMoves
  <2> QED BY <2>1, <2>2, <2>3
<1> QED BY <1>4, <1>5, <1>6, <1>7, <1>8

\* The prediction plane seals its phase.
LEMMA SealPhasePreserves ==
    ASSUME IInv, SealPhase
    PROVE  IInv'
<1>1. SessionTypeOK'
  BY PlaneType DEF IInv
<1>2. UNCHANGED <<journal, access, checkpoints, toServer, toClient, req, client, waiting, ids, session,
                  epc, cont, mode, result, revealed, scoring>>
  BY DEF SealPhase, disk, plane, locals, pipe, clientVars
<1>3. MemoryHolds'
  BY <1>2, JournalStays DEF IInv, MemoryHolds, At, ShownFor
<1>4. /\ (Busy' <=> Busy) /\ (At(Booting)' <=> At(Booting))
      /\ At({"down", "journal", "refuse", "protocol"})' <=> At({"down", "journal", "refuse", "protocol"})
  BY <1>2 DEF Busy, At
<1> QED BY <1>1, <1>2, <1>3, <1>4, EvaluatorMoves DEF IInv, BusyHolds, JournalHolds, DoomHolds

-----------------------------------------------------------------------------
(* Steps that write a line of the journal *)

\* A COMPLETED line at the end is the one replies are chained to.
LEMMA LastIsLatest ==
    ASSUME SessionTypeOK, journal # <<>>, Last.phase = "COMPLETED"
    PROVE  Completed # {} /\ LastCompleted = Last /\ PreviousRequest = Last.request.id
<1>1. Len(journal) \in Completed /\ \A j \in Completed : j <= Len(journal)
  BY LastType DEF SessionTypeOK, Completed, Last
<1> QED BY <1>1, LastCompletedIs DEF SessionTypeOK, Last

\* The last line is an INIT only in a new journal.
LEMMA LastIsInit ==
    ASSUME SessionTypeOK, JournalHolds, journal # <<>>, Last.phase = "INIT"
    PROVE  Completed = {} /\ Last.request = NoRequest
<1>1. Len(journal) = 1 /\ Len(journal) \in DOMAIN journal
  BY LastType DEF JournalHolds, Last
<1>2. DOMAIN journal = {1}
  BY <1>1 DEF SessionTypeOK
<1> QED BY <1>1, <1>2 DEF Completed, JournalHolds, Last

\* One more line keeps what the two ledgers say of each other.
LEMMA JournalLine ==
    ASSUME IInv, NEW x \in JournalRecords, journal' = Append(journal, x),
           UNCHANGED <<access, checkpoints, client, waiting, ids, session>>,
           Known(x.request), toServer' = toServer \/ toServer' = NoRequest, req' = req \/ req' = toServer,
           x.operation = x.request.operation \/ x.operation = "PROTOCOL",
           x.phase = "INIT" <=> journal = <<>>,
           x.phase = "INIT" => x.request = NoRequest,
           x.phase = "COMPLETED" /\ x.request.checkpoint # NoCheckpoint =>
               \E k \in DOMAIN access : access[k].checkpoint = x.request.checkpoint,
           journal # <<>> =>
               Last.phase \in {"INIT", "COMPLETED"} \/ x.request.checkpoint = Last.request.checkpoint
    PROVE  AccessHolds' /\ RequestsHold' /\ JournalHolds'
<1> DEFINE n == Len(journal) + 1
<1>0. journal \in Seq(JournalRecords)
  BY DEF IInv, SessionTypeOK
<1>1. /\ journal' # <<>> /\ DOMAIN journal' = DOMAIN journal \cup {n}
      /\ n \notin DOMAIN journal /\ (\A i \in DOMAIN journal : journal'[i] = journal[i])
      /\ journal'[n] = x /\ Last' = x
      /\ Completed' = IF x.phase = "COMPLETED" THEN Completed \cup {n} ELSE Completed
  BY <1>0, JournalGrows
<1>2. n \in Nat /\ (journal = <<>> <=> n = 1) /\ (journal # <<>> => 1 \in DOMAIN journal)
  BY <1>0
<1>3. journal # <<>> => Len(journal) \in DOMAIN journal /\ Last = journal[Len(journal)]
  BY <1>0 DEF Last
<1> HIDE DEF n
<1>4. AccessHolds'
  BY AccessFrame DEF IInv
<1>5. NoRequest.id = 0 /\ Known(NoRequest)
  BY DEF IInv, SessionTypeOK, Known, NoRequest, Operations
<1>6. RequestsHold'
  BY <1>1, <1>5 DEF IInv, RequestsHold, Known
<1>7. \A i \in DOMAIN journal' :
          /\ journal'[i].phase = "INIT" <=> i = 1
          /\ journal'[i].phase = "INIT" => journal'[i].request = NoRequest
          /\ journal'[i].operation = journal'[i].request.operation \/ journal'[i].operation = "PROTOCOL"
          /\ journal'[i].phase = "COMPLETED" /\ journal'[i].request.checkpoint # NoCheckpoint =>
                \E k \in DOMAIN access : access[k].checkpoint = journal'[i].request.checkpoint
  BY <1>1, <1>2 DEF IInv, JournalHolds
<1>8. \A k \in DOMAIN access : access[k].checkpoint # NoCheckpoint =>
          \/ access[k].checkpoint = x.request.checkpoint
          \/ \E i \in Completed' : access[k].checkpoint = journal'[i].request.checkpoint
  <2> SUFFICES ASSUME NEW k \in DOMAIN access, access[k].checkpoint # NoCheckpoint,
                      access[k].checkpoint # x.request.checkpoint
               PROVE  \E i \in Completed' : access[k].checkpoint = journal'[i].request.checkpoint
    OBVIOUS
  <2>1. /\ journal # <<>>
        /\ \/ access[k].checkpoint = Last.request.checkpoint
           \/ \E i \in Completed : access[k].checkpoint = journal[i].request.checkpoint
    BY DEF IInv, JournalHolds
  <2>2. \A i \in Completed : i \in Completed' /\ journal'[i] = journal[i]
    BY <1>1 DEF Completed
  <2>3. CASE \E i \in Completed : access[k].checkpoint = journal[i].request.checkpoint
    BY <2>2, <2>3
  <2>4. CASE access[k].checkpoint = Last.request.checkpoint
    <3>1. Last.phase # "INIT"
      BY <2>1, <2>4, <1>3 DEF IInv, JournalHolds, NoRequest
    <3>2. Len(journal) \in Completed /\ journal[Len(journal)] = Last
      BY <1>3, <2>1, <2>4, <3>1 DEF Completed
    <3> QED BY <2>2, <2>4, <3>2
  <2> QED BY <2>1, <2>3, <2>4
<1>9. session = "live" => \E i \in Completed' : journal'[i].operation = "BOOTSTRAP"
  <2>1. \A i \in Completed : i \in Completed' /\ journal'[i] = journal[i]
    BY <1>1 DEF Completed
  <2> QED BY <2>1 DEF IInv, JournalHolds
<1>10. JournalHolds'
  BY <1>1, <1>7, <1>8, <1>9 DEF JournalHolds
<1> QED BY <1>4, <1>6, <1>10

\* The frame has been taken from the pipe and no answer is in it.
LEMMA QuietPipe ==
    ASSUME toServer' = NoRequest, toClient' = NoResponse, waiting' \/ client'.closed, ~At(Booting)'
    PROVE  BusyHolds' /\ PipeHolds'
<1>1. toClient'.status = "NONE" /\ ~(epc' = "head" /\ cont' = "access")
  BY DEF NoResponse, At, Booting
<1> QED BY <1>1 DEF BusyHolds, PipeHolds

\* The INIT line of a new journal.
LEMMA NewJournal ==
    ASSUME IInv, OpenJournal, journal = <<>>
    PROVE  IInv'
<1>1. SessionTypeOK'
  BY BootType DEF IInv
<1>2. /\ epc = "journal" /\ session = "starting"
      /\ UNCHANGED <<access, checkpoints, toServer, toClient, req, client, waiting, ids, session>>
  BY DEF OpenJournal, plane, locals, pipe, clientVars
<1>3. PICK x : x = [phase |-> "INIT", operation |-> "NONE", request |-> NoRequest, result |-> 0]
  OBVIOUS
<1>4. x \in JournalRecords
  BY <1>3, NoRequestType DEF JournalRecords
<1>5. JournalAppend(x, "access", "down")
  BY <1>3 DEF OpenJournal
<1>6. /\ \/ journal' = Append(journal, x) /\ epc' = "head" /\ cont' = "access"
         \/ journal' = Append(journal, x) /\ epc' = "down"
         \/ journal' = journal /\ epc' = "down"
  BY <1>4, <1>5, JournalAppendCases DEF IInv, EPCs, Booting
<1>7. CASE journal' = journal
  <2>1. epc' = "down"
    BY <1>4, <1>6, <1>7 DEF IInv, SessionTypeOK
  <2> QED BY <1>1, <1>2, <1>7, <2>1, EvaluatorLeaves
<1>8. CASE journal' = Append(journal, x) /\ (epc' = "down" \/ (epc' = "head" /\ cont' = "access"))
  <2>1. /\ DOMAIN journal' = {1} /\ journal'[1] = x /\ journal' # <<>> /\ Last' = x
        /\ Completed' = Completed /\ ~Doomed' /\ ~Refused' /\ DOMAIN journal = {}
        /\ ExpectedSequence' = ExpectedSequence /\ PreviousRequest' = PreviousRequest
    <3>1. Len(journal) = 0 /\ DOMAIN journal = {} /\ ~Doomed
      BY DEF Doomed
    <3> QED BY <1>3, <1>4, <1>8, <3>1, JournalGrows DEF IInv, SessionTypeOK
  <2>2. Completed = {} /\ ~Refused /\ ~Doomed
    BY <2>1 DEF Completed, Refused, Doomed
  <2>3. Known(x.request)
    BY <1>3 DEF IInv, SessionTypeOK, Known, NoRequest, Operations
  <2>4. AccessHolds' /\ RequestsHold' /\ JournalHolds'
    BY <1>2, <1>3, <1>4, <1>8, <2>3, JournalLine, NoRequestType DEF NoRequest
  <2>5. MemoryHolds'
    BY <1>8, <2>1, <2>2 DEF MemoryHolds, At, Serving
  <2>6. BusyHolds'
    BY <1>2, <1>8 DEF IInv, BusyHolds, Busy, At, Serving, Booting
  <2>7. PipeHolds'
    <3>1. toClient.status # "ERROR" /\ ~(toClient.status = "OK" /\ toClient.id = client.pending.id)
      BY <2>2 DEF IInv, PipeHolds
    <3> QED BY <1>2, <2>1, <3>1 DEF IInv, PipeHolds
  <2>8. DoomHolds'
    BY <2>1 DEF DoomHolds
  <2>9. ExchangeHolds'
    <3>1. Between /\ Behind
      BY <2>2 DEF IInv, ExchangeHolds, InFlight, Answered
    <3>2. Between'
      BY <1>2, <1>3, <2>1, <3>1 DEF Between, Level, NoRequest
    <3>3. Behind'
      BY <1>2, <3>1 DEF Behind
    <3> QED BY <1>2, <3>2, <3>3 DEF IInv, ExchangeHolds
  <2> QED BY <1>1, <2>4, <2>5, <2>6, <2>7, <2>8, <2>9 DEF IInv
<1> QED BY <1>6, <1>7, <1>8

\* What an idle evaluator knows of the frame it takes from the pipe.
LEMMA FrameTaken ==
    ASSUME IInv, Receive
    PROVE  /\ epc = "idle" /\ toServer # NoRequest /\ toServer.id # 0 /\ toClient = NoResponse
           /\ waiting \/ client.closed
           /\ ~Doomed /\ journal # <<>> /\ (\A i \in Completed : journal[i].operation # "FINALIZE")
           /\ revealed = Len(access) /\ revealed >= Context
           /\ toServer' = NoRequest /\ req' = toServer
           /\ UNCHANGED <<access, checkpoints, toClient, client, waiting, ids, session, scoring, result, revealed>>
<1>1. epc = "idle" /\ toServer.operation \in Operations
  BY DEF Receive
<1>2. toServer # NoRequest
  BY <1>1 DEF NoRequest, Operations
<1>3. toServer.id # 0 /\ toClient = NoResponse /\ (waiting \/ client.closed)
  BY <1>1, <1>2 DEF IInv, RequestsHold, Known, PipeHolds
<1>4. ~Doomed /\ journal # <<>> /\ (\A i \in Completed : journal[i].operation # "FINALIZE")
  BY <1>1 DEF IInv, DoomHolds, JournalHolds, MemoryHolds, At
<1>5. revealed = Len(access) /\ revealed >= Context
  BY <1>1 DEF IInv, MemoryHolds, At
<1> QED BY <1>1, <1>2, <1>3, <1>4, <1>5 DEF Receive, plane, clientVars

\* A frame that is not journalled: a known request, or one out of order.
LEMMA ReceiveUnwritten ==
    ASSUME IInv, Receive, SessionTypeOK', MemoryHolds', journal' = journal,
           epc' \in {"run", "protocol", "down"}
    PROVE  IInv'
<1>1. ~At(Booting)' /\ epc' # "head"
  BY DEF At, Booting
<1>2. BusyHolds' /\ PipeHolds'
  BY <1>1, FrameTaken, QuietPipe
<1>3. AccessHolds' /\ JournalHolds' /\ ExchangeHolds'
  BY FrameTaken, AccessFrame, JournalFrame, ExchangeFrame DEF IInv
<1>4. Known(NoRequest)
  BY DEF IInv, SessionTypeOK, Known, NoRequest, Operations
<1>5. RequestsHold'
  BY <1>4, FrameTaken DEF IInv, RequestsHold, Known
<1>6. DoomHolds'
  BY FrameTaken, JournalStays DEF DoomHolds
<1> QED BY <1>2, <1>3, <1>5, <1>6 DEF IInv

\* A request to be served whose IN_FLIGHT line is new can only be the one the
\* client still holds: an old frame is in the journal, and one that skips a
\* number never meets both the number and the request the journal expects.
LEMMA FreshIsPending ==
    ASSUME IInv, Receive, InOrder(toServer), ~Recovering(toServer), ~Replaying(toServer)
    PROVE  toServer = client.pending /\ Between
<1>1. /\ ~Unresolved /\ toServer.sequence = ExpectedSequence /\ toServer.previous = PreviousRequest
      /\ \A i \in DOMAIN journal : journal[i].request.id # toServer.id
  BY DEF InOrder
<1>2. Between \/ Answered
  BY <1>1, FrameTaken DEF IInv, ExchangeHolds, InFlight, Unresolved
<1>3. CASE Answered
  <2>1. PreviousRequest = client.pending.id /\ client.pending.id > client.previousRequest
    BY <1>3, LastIsLatest DEF IInv, Answered, RequestsHold
  <2>2. toServer # client.pending
    BY <1>1, <1>3, LastType DEF IInv, Answered, Last
  <2>3. toServer.previous = client.previousRequest
    BY <1>1, <2>2, FrameTaken DEF IInv, PipeHolds
  <2>4. client.previousRequest \in Nat /\ client.pending.id \in Nat
    BY DEF IInv, SessionTypeOK, Requests
  <2> QED BY <1>1, <2>1, <2>3, <2>4
<1>4. CASE Between
  <2>1. client.sequence \in Nat
    BY DEF IInv, SessionTypeOK
  <2>2. toServer.sequence # client.sequence + 1
    BY <1>1, <1>4, <2>1 DEF Between
  <2> QED BY <1>1, <1>4, <2>2, FrameTaken DEF IInv, PipeHolds
<1> QED BY <1>2, <1>3, <1>4

\* _evaluator_main takes a frame: a known request, a new one, or a violation.
LEMMA ReceivePreserves ==
    ASSUME IInv, Receive
    PROVE  IInv'
<1>1. SessionTypeOK'
  BY LoopType, FrameTaken DEF IInv
<1>2. Last \in JournalRecords /\ Last.phase # "ABORTED"
  <2>1. Last \in JournalRecords /\ Len(journal) \in DOMAIN journal
    BY FrameTaken, LastType DEF IInv
  <2> QED BY <2>1, FrameTaken DEF Doomed, Last
<1>3. CASE InOrder(toServer) /\ (Recovering(toServer) \/ Replaying(toServer))
  <2>1. epc' = "run" /\ journal' = journal /\ mode' = (IF Recovering(toServer) THEN "recover" ELSE "replay")
    BY <1>3 DEF Receive
  <2>2. CASE Recovering(toServer)
    <3>1. Last.phase = "IN_FLIGHT" /\ Last.request = toServer
      BY <2>2 DEF Recovering, Unresolved
    <3>2. Last.request = client.pending
      BY <3>1, FrameTaken DEF IInv, ExchangeHolds, Between, InFlight, Answered
    <3>3. MemoryHolds'
      BY <2>1, <2>2, <3>1, <3>2, FrameTaken, JournalStays DEF MemoryHolds, At, Serving
    <3> QED BY <1>1, <2>1, <3>3, ReceiveUnwritten
  <2>3. CASE ~Recovering(toServer)
    <3>1. ~Unresolved /\ Replaying(toServer) /\ toServer.operation = "REVEAL"
      BY <1>3, <2>3 DEF InOrder
    <3>2. Last.phase \in {"INIT", "COMPLETED"}
      BY <3>1, FrameTaken DEF IInv, ExchangeHolds, Between, InFlight, Answered, Unresolved
    <3>3. Last.phase = "COMPLETED"
      BY <3>1, <3>2, FrameTaken, LastIsInit DEF IInv, Replaying
    <3>4. Last.request = toServer
      BY <3>1, <3>3, FrameTaken, LastIsLatest DEF IInv, Replaying
    <3>5. MemoryHolds'
      BY <2>1, <2>3, <3>1, <3>3, <3>4, FrameTaken, JournalStays DEF MemoryHolds, At, Serving
    <3> QED BY <1>1, <2>1, <3>5, ReceiveUnwritten
  <2> QED BY <2>2, <2>3
<1>4. CASE ~InOrder(toServer)
  <2>1. epc' = "protocol" /\ journal' = journal
    BY <1>4 DEF Receive
  <2>2. MemoryHolds'
    BY <1>2, <2>1, FrameTaken, JournalStays DEF MemoryHolds, At, Serving
  <2> QED BY <1>1, <2>1, <2>2, ReceiveUnwritten
<1>5. CASE InOrder(toServer) /\ ~Recovering(toServer) /\ ~Replaying(toServer)
  <2>1. toServer = client.pending /\ Between
    BY <1>5, FreshIsPending
  <2>2. PICK x : x = Entry("IN_FLIGHT", toServer, 0)
    OBVIOUS
  <2>3. x \in JournalRecords
    BY <2>2, EntryType DEF IInv, SessionTypeOK
  <2>4. x.phase = "IN_FLIGHT" /\ x.request = toServer /\ x.operation = toServer.operation
    BY <2>2 DEF Entry
  <2>5. JournalAppend(x, "run", "down") /\ mode' = "fresh"
    BY <1>5, <2>2 DEF Receive
  <2>6. \/ journal' = Append(journal, x) /\ epc' = "head" /\ cont' = "run"
        \/ journal' = Append(journal, x) /\ epc' = "down"
        \/ journal' = journal /\ epc' = "down"
    <3>1. "run" \in EPCs /\ "down" \in EPCs /\ SessionTypeOK
      BY DEF IInv, EPCs
    <3> QED BY <2>3, <2>5, <3>1, JournalAppendCases
  <2>7. CASE journal' = journal /\ epc' = "down"
    <3>1. MemoryHolds'
      BY <2>7 DEF MemoryHolds, At, Serving
    <3> QED BY <1>1, <2>7, <3>1, ReceiveUnwritten
  <2>8. CASE journal' = Append(journal, x) /\ (epc' = "down" \/ (epc' = "head" /\ cont' = "run"))
    <3>1. /\ journal' # <<>> /\ DOMAIN journal' = DOMAIN journal \cup {Len(journal) + 1}
          /\ (\A i \in DOMAIN journal : journal'[i] = journal[i])
          /\ Last' = x /\ Completed' = Completed
          /\ ExpectedSequence' = ExpectedSequence /\ PreviousRequest' = PreviousRequest
      BY <2>3, <2>4, <2>8, JournalGrows DEF IInv, SessionTypeOK
    <3>2. ~Doomed'
      BY <2>3, <2>4, <2>8, JournalGrows, FrameTaken DEF IInv, SessionTypeOK, Receive, Operations
    <3>3. Last.phase \in {"INIT", "COMPLETED"}
      BY <2>1, FrameTaken DEF Between
    <3>4. AccessHolds' /\ RequestsHold' /\ JournalHolds'
      BY <2>3, <2>4, <2>8, <3>3, FrameTaken, JournalLine DEF IInv, RequestsHold
    <3>5. MemoryHolds'
      <4>1. \A i \in Completed' : journal'[i].operation # "FINALIZE"
        BY <3>1, FrameTaken DEF Completed
      <4> QED BY <2>1, <2>4, <2>5, <2>8, <3>1, <4>1, FrameTaken DEF MemoryHolds, At, Serving
    <3>6. BusyHolds' /\ PipeHolds'
      BY <2>8, FrameTaken, QuietPipe DEF At, Booting
    <3>7. ExchangeHolds'
      <4>1. Behind'
        BY <2>1, FrameTaken DEF Between, Level, Behind
      <4>2. InFlight'
        BY <2>1, <2>4, <3>1, <4>1, FrameTaken DEF Between, InFlight
      <4> QED BY <4>1, <4>2, FrameTaken DEF IInv, ExchangeHolds
    <3> QED BY <1>1, <3>2, <3>4, <3>5, <3>6, <3>7 DEF IInv, DoomHolds
  <2> QED BY <2>6, <2>7, <2>8
<1> QED BY <1>3, <1>4, <1>5

\* The journal is closed for a frame out of turn, open request or not.
LEMMA ProtocolAbortPreserves ==
    ASSUME IInv, ProtocolAbort
    PROVE  IInv'
<1>1. /\ epc = "protocol" /\ journal # <<>>
      /\ UNCHANGED <<access, checkpoints, toServer, toClient, req, client, waiting, ids, session,
                     scoring, mode, result, revealed>>
  BY DEF ProtocolAbort, IInv, JournalHolds, plane, locals, pipe, clientVars
<1>2. SessionTypeOK'
  BY <1>1, LoopType DEF IInv
<1>3. /\ Last \in JournalRecords /\ Last.phase # "ABORTED" /\ Len(journal) \in DOMAIN journal
      /\ toServer = NoRequest /\ toClient = NoResponse /\ (waiting \/ client.closed)
      /\ (\A i \in Completed : journal[i].operation # "FINALIZE")
  BY <1>1, LastType DEF IInv, MemoryHolds, BusyHolds, Busy, At
<1>4. PICK violation : violation = [NoRequest EXCEPT !.sequence = ExpectedSequence, !.previous = PreviousRequest]
  OBVIOUS
<1>5. /\ violation \in Requests /\ violation.id = 0 /\ violation.operation = "NONE"
      /\ violation.checkpoint = NoCheckpoint
  BY <1>4, NoRequestType, CompletedFinite, PreviousType DEF IInv, SessionTypeOK, Requests, NoRequest
<1>6. PICK x : x = IF Unresolved THEN [Last EXCEPT !.phase = "ABORTED"]
                   ELSE [phase |-> "IN_FLIGHT", operation |-> "PROTOCOL", request |-> violation, result |-> 0]
  OBVIOUS
<1>7. x \in JournalRecords
  BY <1>3, <1>5, <1>6 DEF JournalRecords
<1>8. IF Unresolved
      THEN x.phase = "ABORTED" /\ x.request = Last.request /\ x.operation = Last.operation
      ELSE x.phase = "IN_FLIGHT" /\ x.request = violation /\ x.operation = "PROTOCOL"
  BY <1>3, <1>6 DEF JournalRecords
<1>9. IF Unresolved THEN JournalAppend(x, "down", "down") ELSE JournalAppend(x, "protocol", "down")
  BY <1>4, <1>6 DEF ProtocolAbort
<1>10. \/ journal' = Append(journal, x) /\ epc' = "head" /\ cont' = (IF Unresolved THEN "down" ELSE "protocol")
       \/ journal' = Append(journal, x) /\ epc' = "down"
       \/ journal' = journal /\ epc' = "down"
  <2>1. "down" \in EPCs /\ "protocol" \in EPCs /\ SessionTypeOK
    BY DEF IInv, EPCs
  <2>2. CASE Unresolved
    BY <1>7, <1>9, <2>1, <2>2, JournalAppendCases
  <2>3. CASE ~Unresolved
    BY <1>7, <1>9, <2>1, <2>3, JournalAppendCases
  <2> QED BY <2>2, <2>3
<1>11. CASE journal' = journal /\ epc' = "down"
  BY <1>1, <1>2, <1>11, EvaluatorLeaves
<1>12. CASE /\ journal' = Append(journal, x)
            /\ epc' = "down" \/ (epc' = "head" /\ cont' = (IF Unresolved THEN "down" ELSE "protocol"))
  <2>1. /\ journal' # <<>> /\ DOMAIN journal' = DOMAIN journal \cup {Len(journal) + 1}
        /\ (\A i \in DOMAIN journal : journal'[i] = journal[i])
        /\ Last' = x /\ Completed' = Completed
        /\ (Refused' <=> x.phase = "ABORTED") /\ Doomed'
    BY <1>7, <1>8, <1>12, JournalGrows DEF IInv, SessionTypeOK
  <2>2. Known(x.request)
    BY <1>3, <1>5, <1>8 DEF IInv, SessionTypeOK, RequestsHold, Known, Operations, Last
  <2>3. x.operation = x.request.operation \/ x.operation = "PROTOCOL"
    BY <1>3, <1>8 DEF IInv, JournalHolds, Last
  <2>4. Last.phase \in {"INIT", "COMPLETED"} \/ x.request.checkpoint = Last.request.checkpoint
    BY <1>1, <1>3, <1>8 DEF JournalRecords, Unresolved
  <2>5. AccessHolds' /\ RequestsHold' /\ JournalHolds'
    BY <1>1, <1>7, <1>8, <1>12, <2>2, <2>3, <2>4, JournalLine
  <2>6. \A i \in Completed' : journal'[i].operation # "FINALIZE"
    BY <1>3, <2>1 DEF Completed
  <2>7. MemoryHolds'
    <3>1. CASE Unresolved
      BY <1>12, <2>6, <3>1 DEF MemoryHolds, At, Serving
    <3>2. CASE ~Unresolved
      BY <1>8, <1>12, <2>1, <2>6, <3>2 DEF MemoryHolds, At, Serving
    <3> QED BY <3>1, <3>2
  <2>8. BusyHolds' /\ PipeHolds'
    BY <1>1, <1>3, <1>12, QuietPipe DEF At, Booting
  <2>9. DoomHolds'
    BY <1>1, <1>3, <1>8, <1>12, <2>1 DEF DoomHolds, At, NoResponse
  <2>10. ExchangeHolds'
    <3>1. CASE Unresolved
      BY <1>1, <1>8, <2>1, <3>1 DEF IInv, ExchangeHolds
    <3>2. CASE ~Unresolved
      <4>1. Behind
        BY <1>3 DEF IInv, ExchangeHolds, Refused
      <4>2. Behind'
        BY <1>1, <4>1 DEF Behind
      <4> QED BY <1>1, <2>1, <4>2 DEF IInv, ExchangeHolds
    <3> QED BY <3>1, <3>2
  <2> QED BY <1>2, <2>5, <2>7, <2>8, <2>9, <2>10 DEF IInv
<1> QED BY <1>10, <1>11, <1>12

\* COMPLETED is journalled before the reply.
LEMMA FinishPreserves ==
    ASSUME IInv, Finish, mode # "replay"
    PROVE  IInv'
<1>1. /\ epc = "finish" /\ journal # <<>> /\ ~Doomed
      /\ UNCHANGED <<access, checkpoints, toServer, toClient, req, client, waiting, ids, session,
                     scoring, mode, result, revealed>>
  BY DEF Finish, IInv, JournalHolds, DoomHolds, At, plane, locals, pipe, clientVars
<1>2. SessionTypeOK'
  BY <1>1, LoopType DEF IInv
<1>3. /\ Last.phase = "IN_FLIGHT" /\ Last.request = req /\ req = client.pending /\ req.id # 0
      /\ revealed = Len(access) /\ revealed >= Context
      /\ (\A i \in Completed : journal[i].operation # "FINALIZE")
      /\ req.operation = "BOOTSTRAP" => result \in Context..Len(access)
      /\ req.operation = "REVEAL" => ShownFor(result, req.checkpoint)
  BY <1>1 DEF IInv, MemoryHolds, At, Serving
<1>4. toServer = NoRequest /\ toClient = NoResponse /\ (waiting \/ client.closed)
  BY <1>1 DEF IInv, BusyHolds, Busy, At, Serving
<1>5. PICK x : x = Entry("COMPLETED", req, result)
  OBVIOUS
<1>6. x \in JournalRecords
  BY <1>5, EntryType DEF IInv, SessionTypeOK
<1>7. x.phase = "COMPLETED" /\ x.request = req /\ x.operation = req.operation
  BY <1>5 DEF Entry
<1>8. \/ journal' = Append(journal, x) /\ epc' = "head" /\ cont' = "reply"
      \/ journal' = Append(journal, x) /\ epc' = "abort"
      \/ journal' = journal /\ epc' = "abort"
  <2>1. "reply" \in EPCs /\ "abort" \in EPCs /\ SessionTypeOK
    BY DEF IInv, EPCs
  <2>2. JournalAppend(x, "reply", "abort")
    BY <1>5 DEF Finish
  <2> QED BY <1>6, <2>1, <2>2, JournalAppendCases
<1>9. CASE journal' = journal /\ epc' = "abort"
  <2>1. MemoryHolds'
    BY <1>1, <1>3, <1>9, JournalStays DEF MemoryHolds, At, Serving
  <2> QED BY <1>1, <1>2, <1>9, <2>1, ServingMoves DEF Serving
<1>10. CASE journal' = Append(journal, x) /\ (epc' = "abort" \/ (epc' = "head" /\ cont' = "reply"))
  <2> DEFINE n == Len(journal) + 1
  <2>1. /\ journal' # <<>> /\ DOMAIN journal' = DOMAIN journal \cup {n}
        /\ (\A i \in DOMAIN journal : journal'[i] = journal[i]) /\ journal'[n] = x
        /\ Last' = x /\ Completed' = Completed \cup {n}
        /\ ExpectedSequence' = ExpectedSequence + 1
    BY <1>6, <1>7, <1>10, JournalGrows DEF IInv, SessionTypeOK
  <2>2. ~Doomed'
    <3>1. req.operation # "PROTOCOL"
      BY DEF IInv, SessionTypeOK, Requests, Operations
    <3> QED BY <1>1, <1>6, <1>7, <1>10, <3>1, JournalGrows DEF IInv, SessionTypeOK
  <2> HIDE DEF n
  <2>3. x.request.checkpoint # NoCheckpoint => \E k \in DOMAIN access : access[k].checkpoint = x.request.checkpoint
    BY <1>3, <1>7 DEF IInv, RequestsHold, Known, ShownFor
  <2>4. AccessHolds' /\ RequestsHold' /\ JournalHolds'
    BY <1>1, <1>3, <1>6, <1>7, <1>10, <2>3, JournalLine DEF IInv, RequestsHold
  <2>5. \A i \in Completed' : journal'[i].operation = "FINALIZE" => req.operation = "FINALIZE"
    BY <1>3, <1>7, <2>1 DEF Completed
  <2>6. MemoryHolds'
    BY <1>1, <1>3, <1>7, <1>10, <2>1, <2>5 DEF MemoryHolds, At, Serving, ShownFor
  <2>7. BusyHolds' /\ PipeHolds'
    BY <1>1, <1>4, <1>10, QuietPipe DEF At, Booting
  <2>8. ExchangeHolds'
    <3>1. InFlight
      BY <1>1, <1>3 DEF IInv, ExchangeHolds, Between, Answered
    <3>2. Behind'
      BY <1>1, <3>1 DEF InFlight, Behind
    <3>3. Answered'
      BY <1>1, <1>3, <1>7, <2>1, <3>1, <3>2 DEF InFlight, Answered
    <3> QED BY <1>1, <3>2, <3>3 DEF IInv, ExchangeHolds
  <2> QED BY <1>2, <2>2, <2>4, <2>6, <2>7, <2>8 DEF IInv, DoomHolds
<1> QED BY <1>8, <1>9, <1>10

\* ABORTED is journalled before the refusal is sent.
LEMMA AbortPreserves ==
    ASSUME IInv, Abort
    PROVE  IInv'
<1>1. /\ epc = "abort" /\ journal # <<>>
      /\ UNCHANGED <<access, checkpoints, toServer, toClient, req, client, waiting, ids, session>>
  BY DEF Abort, IInv, JournalHolds, plane, locals, pipe, clientVars
<1>2. SessionTypeOK'
  BY <1>1, LoopType DEF IInv
<1>3. Last.request = req /\ req.id # 0
  BY <1>1 DEF IInv, MemoryHolds, At
<1>4. toServer = NoRequest /\ toClient = NoResponse /\ (waiting \/ client.closed)
  BY <1>1 DEF IInv, BusyHolds, Busy, At
<1>5. PICK x : x = Entry("ABORTED", req, 0)
  OBVIOUS
<1>6. x \in JournalRecords
  BY <1>5, EntryType DEF IInv, SessionTypeOK
<1>7. x.phase = "ABORTED" /\ x.request = req /\ x.operation = req.operation
  BY <1>5 DEF Entry
<1>8. \/ journal' = Append(journal, x) /\ epc' = "head" /\ cont' = "refuse"
      \/ journal' = Append(journal, x) /\ epc' = "down"
      \/ journal' = journal /\ epc' = "down"
  <2>1. "refuse" \in EPCs /\ "down" \in EPCs /\ SessionTypeOK
    BY DEF IInv, EPCs
  <2>2. JournalAppend(x, "refuse", "down")
    BY <1>5 DEF Abort
  <2> QED BY <1>6, <2>1, <2>2, JournalAppendCases
<1>9. CASE journal' = journal /\ epc' = "down"
  BY <1>1, <1>2, <1>9, EvaluatorLeaves
<1>10. CASE journal' = Append(journal, x) /\ (epc' = "down" \/ (epc' = "head" /\ cont' = "refuse"))
  <2>1. Last' = x /\ Refused' /\ Doomed'
    BY <1>6, <1>7, <1>10, JournalGrows DEF IInv, SessionTypeOK
  <2>2. AccessHolds' /\ RequestsHold' /\ JournalHolds'
    BY <1>1, <1>3, <1>6, <1>7, <1>10, JournalLine DEF IInv, RequestsHold
  <2>3. MemoryHolds'
    BY <1>1, <1>3, <1>7, <1>10, <2>1 DEF MemoryHolds, At, Serving
  <2>4. BusyHolds' /\ PipeHolds'
    BY <1>1, <1>4, <1>10, QuietPipe DEF At, Booting
  <2>5. DoomHolds'
    BY <1>1, <1>4, <1>10, <2>1 DEF DoomHolds, At, NoResponse
  <2>6. ExchangeHolds'
    BY <1>1, <2>1 DEF IInv, ExchangeHolds
  <2> QED BY <1>2, <2>2, <2>3, <2>4, <2>5, <2>6 DEF IInv
<1> QED BY <1>8, <1>9, <1>10

-----------------------------------------------------------------------------
(* Steps that answer, and the ready frame *)

\* The evaluator writes its answer, which the client reads next.
LEMMA AnswerSteps ==
    ASSUME IInv, (Reply /\ ~cut) \/ Refuse
    PROVE  IInv'
<1>1. /\ epc \in {"reply", "refuse"} /\ epc' \in {"down", "idle"} /\ journal # <<>>
      /\ UNCHANGED <<journal, access, checkpoints, toServer, req, client, waiting, ids, session,
                     scoring, mode, result, revealed>>
  BY DEF Reply, Refuse, Exit, IInv, JournalHolds, disk, plane, locals, pipe, clientVars
<1>2. SessionTypeOK'
  BY <1>1, LoopType DEF IInv
<1>3. toServer = NoRequest /\ toClient = NoResponse /\ (waiting \/ client.closed) /\ req.id # 0
  BY <1>1 DEF IInv, BusyHolds, Busy, At, MemoryHolds
<1>4. AccessHolds' /\ RequestsHold' /\ JournalHolds' /\ ExchangeHolds'
  BY <1>1, AccessFrame, RequestsFrame, JournalFrame, ExchangeFrame DEF IInv
<1>5. req.id \in 1..ids
  BY <1>3 DEF IInv, SessionTypeOK, RequestsHold, Known, Requests
<1>6. ~Busy' /\ ~At(Booting)' /\ epc' # "head"
  BY <1>1 DEF Busy, At, Serving, Booting
<1>7. BusyHolds'
  BY <1>6 DEF BusyHolds
<1>8. CASE Reply /\ ~cut
  <2>1. epc = "reply" /\ toClient' = Response("OK") /\ epc' = (IF req.operation = "FINALIZE" THEN "down" ELSE "idle")
    BY <1>8 DEF Reply
  <2>2. toClient'.id = req.id /\ toClient'.status = "OK" /\ toClient'.result = result
    BY <2>1 DEF Response
  <2>3. /\ Last.request = req /\ Last.phase = "COMPLETED" /\ ~Doomed
        /\ revealed = Len(access) /\ revealed >= Context
        /\ req.operation = "BOOTSTRAP" => result \in Context..Len(access)
        /\ req.operation = "REVEAL" => ShownFor(result, req.checkpoint)
    BY <2>1 DEF IInv, MemoryHolds, DoomHolds, At
  <2>4. req.id = client.pending.id => req = client.pending
    BY <1>3 DEF IInv, RequestsHold, Known
  <2>5. PipeHolds'
    BY <1>1, <1>3, <1>5, <2>2, <2>3, <2>4, JournalStays DEF PipeHolds, ShownFor
  <2>6. MemoryHolds'
    <3>1. (\E i \in Completed : journal[i].operation = "FINALIZE") => req.operation = "FINALIZE"
      BY <2>1 DEF IInv, MemoryHolds, At
    <3> QED BY <1>1, <2>1, <2>3, <3>1, JournalStays DEF MemoryHolds, At, Serving
  <2>7. DoomHolds'
    BY <1>1, <2>3, JournalStays DEF DoomHolds
  <2> QED BY <1>2, <1>4, <1>7, <2>5, <2>6, <2>7 DEF IInv
<1>9. CASE Refuse
  <2>1. epc = "refuse" /\ epc' = "down" /\ toClient' = (IF cut THEN toClient ELSE Response("ERROR"))
    BY <1>9 DEF Refuse, Exit
  <2>2. toClient' = NoResponse \/ (toClient'.id = req.id /\ toClient'.status = "ERROR")
    BY <1>3, <2>1 DEF Response
  <2>3. Refused /\ Last.phase = "ABORTED"
    BY <1>1, <2>1 DEF IInv, MemoryHolds, At, Refused
  <2>4. PipeHolds'
    BY <1>1, <1>3, <1>5, <2>2, <2>3, JournalStays DEF PipeHolds, NoResponse
  <2>5. MemoryHolds'
    BY <2>1 DEF MemoryHolds, At, Serving
  <2>6. Last.operation # "PROTOCOL"
    BY <2>1 DEF IInv, MemoryHolds, At, SessionTypeOK, Requests, Operations
  <2>7. DoomHolds'
    BY <1>1, <1>3, <2>1, <2>2, <2>3, <2>6, JournalStays DEF DoomHolds, At, NoResponse
  <2> QED BY <1>2, <1>4, <1>7, <2>4, <2>5, <2>7 DEF IInv
<1> QED BY <1>8, <1>9

\* The ready frame comes with a new pipe and reopens the client.
LEMMA ReadyPreserves ==
    ASSUME IInv, Ready
    PROVE  IInv'
<1>1. /\ epc = "bootstrap" /\ epc' = "idle" /\ revealed >= Context
      /\ toServer' = NoRequest /\ toClient' = NoResponse
      /\ UNCHANGED <<journal, access, checkpoints, req, waiting, ids, session, scoring, mode, result, revealed>>
  BY DEF Ready, disk, plane, locals, pipe, clientVars
<1>2. SessionTypeOK'
  BY BootType DEF IInv
<1>3. /\ client'.pending = client.pending /\ client'.sequence = client.sequence
      /\ client'.previousRequest = client.previousRequest /\ client'.seen = client.seen
  BY DEF Ready, IInv, SessionTypeOK
<1>4. /\ ~waiting /\ ~Doomed /\ journal # <<>> /\ (\A i \in Completed : journal[i].operation # "FINALIZE")
      /\ revealed = Len(access)
  BY <1>1 DEF IInv, BusyHolds, DoomHolds, MemoryHolds, JournalHolds, At, Booting
<1>5. AccessHolds' /\ JournalHolds' /\ ExchangeHolds'
  BY <1>1, <1>3, <1>4, AccessFrame, JournalFrame, ExchangeFrame DEF IInv
<1>6. RequestsHold'
  <2>1. Known(NoRequest)
    BY DEF IInv, SessionTypeOK, Known, NoRequest, Operations
  <2> QED BY <1>1, <1>3, <2>1 DEF IInv, RequestsHold, Known
<1>7. MemoryHolds'
  BY <1>1, <1>4, JournalStays DEF MemoryHolds, At, Serving
<1>8. BusyHolds'
  BY <1>1 DEF BusyHolds, Busy, At, Serving, Booting
<1>9. PipeHolds'
  BY <1>1 DEF PipeHolds, NoResponse
<1>10. DoomHolds'
  BY <1>1, <1>4, JournalStays DEF DoomHolds
<1> QED BY <1>2, <1>5, <1>6, <1>7, <1>8, <1>9, <1>10 DEF IInv

-----------------------------------------------------------------------------
(* Steps that write a line of the ACCESS ledger *)

\* What one more ACCESS record does.
LEMMA AccessGrows ==
    ASSUME access \in Seq(Accesses), NEW x \in Accesses, access' = Append(access, x)
    PROVE  /\ Len(access) \in Nat /\ Len(access') = Len(access) + 1
           /\ DOMAIN access = 1..Len(access) /\ DOMAIN access' = DOMAIN access \cup {Len(access) + 1}
           /\ \A i \in DOMAIN access : access'[i] = access[i]
           /\ access'[Len(access) + 1] = x
OBVIOUS

\* An event of the bootstrap prefix leaves the store before there is a client.
LEMMA BootstrapPreserves ==
    ASSUME IInv, Bootstrap
    PROVE  IInv'
<1>1. /\ epc = "bootstrap" /\ revealed < Context /\ revealed' = revealed + 1
      /\ UNCHANGED <<journal, checkpoints, toServer, toClient, req, client, waiting, ids, session, scoring>>
  BY DEF Bootstrap, plane, locals, pipe, clientVars
<1>2. SessionTypeOK'
  BY AccessType DEF IInv
<1>3. /\ ~waiting /\ ~Doomed /\ journal # <<>> /\ (\A i \in Completed : journal[i].operation # "FINALIZE")
      /\ revealed = Len(access)
  BY <1>1 DEF IInv, BusyHolds, DoomHolds, MemoryHolds, JournalHolds, At, Booting
<1>4. session # "live" /\ client.seen = 0 /\ checkpoints = {}
  BY <1>1, <1>3 DEF IInv, AccessHolds, SessionTypeOK
<1>5. PICK x : x = [event |-> revealed, checkpoint |-> NoCheckpoint]
  OBVIOUS
<1>6. x \in Accesses /\ x.event = revealed /\ x.checkpoint = NoCheckpoint
  BY <1>1, <1>5 DEF Accesses, IInv, SessionTypeOK
<1>7. \/ access' = Append(access, x) /\ epc' \in {"bootstrap", "down"}
      \/ access' = access /\ epc' = "down"
  <2>1. "bootstrap" \in EPCs /\ "down" \in EPCs /\ SessionTypeOK
    BY DEF IInv, EPCs, Booting
  <2>2. AccessAppend(x, "bootstrap", "down")
    BY <1>5 DEF Bootstrap
  <2> QED BY <1>6, <2>1, <2>2, AccessAppendCases
<1>8. CASE access' = access /\ epc' = "down"
  BY <1>1, <1>2, <1>8, EvaluatorLeaves
<1>9. CASE access' = Append(access, x) /\ epc' \in {"bootstrap", "down"}
  <2>1. /\ Len(access) \in Nat /\ Len(access') = Len(access) + 1
        /\ DOMAIN access = 1..Len(access) /\ DOMAIN access' = DOMAIN access \cup {Len(access) + 1}
        /\ (\A i \in DOMAIN access : access'[i] = access[i])
        /\ access'[Len(access) + 1] = x
    BY <1>6, <1>9, AccessGrows DEF IInv, SessionTypeOK
  <2>2. AccessHolds'
    BY <1>1, <1>3, <1>4, <1>6, <2>1 DEF IInv, AccessHolds, CheckpointFor
  <2>3. RequestsHold'
    BY <1>1, RequestsFrame DEF IInv
  <2>4. JournalHolds'
    <3>1. \A k \in DOMAIN access' : access'[k].checkpoint # NoCheckpoint =>
             k \in DOMAIN access /\ access'[k] = access[k]
      BY <1>6, <2>1
    <3>2. \A k \in DOMAIN access : k \in DOMAIN access' /\ access'[k] = access[k]
      BY <2>1
    <3> QED BY <1>1, <1>3, <3>1, <3>2, JournalStays DEF IInv, JournalHolds
  <2>5. MemoryHolds'
    BY <1>1, <1>3, <1>9, <2>1, JournalStays DEF MemoryHolds, At, Serving
  <2>6. BusyHolds'
    BY <1>1, <1>3, <1>9 DEF BusyHolds, Busy, At, Serving, Booting
  <2>7. PipeHolds'
    <3>1. \A y, c : ShownFor(y, c) => c # NoCheckpoint /\ y + 1 \in DOMAIN access' /\ access'[y + 1].checkpoint = c
      BY <2>1 DEF ShownFor
    <3>2. \A y : y \in Context..Len(access) => y \in Context..Len(access')
      BY <2>1
    <3> QED BY <1>1, <3>1, <3>2, JournalStays DEF IInv, PipeHolds, ShownFor
  <2>8. DoomHolds'
    BY <1>1, <1>3, JournalStays DEF DoomHolds
  <2>9. ExchangeHolds'
    BY <1>1, <1>4, JournalStays DEF IInv, ExchangeHolds, Between, InFlight, Answered, Level, Behind
  <2> QED BY <1>2, <2>2, <2>3, <2>4, <2>5, <2>6, <2>7, <2>8, <2>9 DEF IInv
<1> QED BY <1>7, <1>8, <1>9

\* An event leaves the store only for the request the client holds, and only
\* when the client has every event before it.
LEMMA RevealIsAsked ==
    ASSUME IInv, epc = "run", req.operation = "REVEAL", MayReveal(req.checkpoint)
    PROVE  /\ mode # "replay" /\ req = client.pending /\ InFlight /\ Last.request = req
           /\ session = "live" /\ client.seen = Len(access) /\ revealed = Len(access)
           /\ Context <= Len(access) /\ Len(access) < NumEvents
           /\ CheckpointFor(req.checkpoint, Len(access) - 1)
           /\ req.checkpoint \in Checkpoints /\ req.checkpoint # NoCheckpoint
<1>1. /\ revealed = Len(access) /\ revealed >= Context /\ Last.request = req /\ ~Doomed /\ journal # <<>>
      /\ IF mode = "replay" THEN Last.phase = "COMPLETED"
         ELSE Last.phase = "IN_FLIGHT" /\ req = client.pending
  BY DEF IInv, MemoryHolds, At, Serving, DoomHolds, JournalHolds
<1>2. /\ CheckpointFor(req.checkpoint, Len(access) - 1) /\ Len(access) < NumEvents
      /\ UsedBy(req.checkpoint) = {}
  BY <1>1 DEF MayReveal
<1>3. req.checkpoint \in Checkpoints
  BY <1>2 DEF CheckpointFor, IInv, SessionTypeOK
<1>4. req.checkpoint # NoCheckpoint
  BY <1>3 DEF Checkpoints
<1>5. mode # "replay"
  <2>1. SUFFICES ASSUME mode = "replay" PROVE FALSE
    OBVIOUS
  <2>2. Last.phase = "COMPLETED" /\ Len(journal) \in DOMAIN journal
    BY <1>1, <2>1, LastType DEF IInv
  <2>3. PICK k \in DOMAIN access : access[k].checkpoint = req.checkpoint
    BY <1>1, <1>4, <2>2 DEF IInv, JournalHolds, Last
  <2> QED BY <1>2, <1>4, <2>3 DEF UsedBy
<1>6. session = "live" /\ client.seen = Len(access)
  BY <1>1, <1>2, <1>3 DEF IInv, AccessHolds, CheckpointFor, SessionTypeOK, Checkpoints
<1>7. InFlight
  BY <1>1, <1>5 DEF IInv, ExchangeHolds, Between, Answered
<1> QED BY <1>1, <1>2, <1>3, <1>4, <1>5, <1>6, <1>7

\* reveal_next_after_checkpoint, again for a used checkpoint or for the next event.
LEMMA RunRevealPreserves ==
    ASSUME IInv, RunReveal
    PROVE  IInv'
<1> DEFINE c == req.checkpoint
           down == IF mode = "replay" THEN "down" ELSE "abort"
<1>1. /\ epc = "run" /\ req.operation = "REVEAL"
      /\ UNCHANGED <<journal, checkpoints, toServer, toClient, req, client, waiting, ids, session, scoring, mode>>
  BY DEF RunReveal, plane, locals, pipe, clientVars
<1>2. SessionTypeOK'
  BY AccessType DEF IInv
<1>3. /\ revealed = Len(access) /\ revealed >= Context /\ req.id # 0 /\ Last.request = req
      /\ IF mode = "replay" THEN Last.phase = "COMPLETED"
         ELSE Last.phase = "IN_FLIGHT" /\ req = client.pending
      /\ (\A i \in Completed : journal[i].operation # "FINALIZE")
  BY <1>1 DEF IInv, MemoryHolds, At, Serving
<1>4. ASSUME epc' = down, access' = access PROVE IInv'
  <2>1. CASE mode = "replay"
    BY <1>1, <1>2, <1>4, <2>1, EvaluatorLeaves
  <2>2. CASE mode # "replay"
    <3>1. MemoryHolds'
      BY <1>1, <1>3, <1>4, <2>2, JournalStays DEF MemoryHolds, At, Serving
    <3> QED BY <1>1, <1>2, <1>4, <2>2, <3>1, ServingMoves DEF Serving
  <2> QED BY <2>1, <2>2
<1>5. ASSUME NEW i \in UsedBy(c), result' = access[i].event, epc' = "finish", UNCHANGED <<access, revealed>>
      PROVE  IInv'
  <2>1. i \in DOMAIN access /\ access[i].checkpoint = c /\ c # NoCheckpoint
    BY <1>5 DEF UsedBy
  <2>2. result' = i - 1 /\ i \in Nat
    BY <1>5, <2>1, SMTT(40) DEF IInv, AccessHolds, SessionTypeOK
  <2>3. result' + 1 = i
    BY <2>2
  <2>4. c # NoCheckpoint /\ result' + 1 \in DOMAIN access /\ access[result' + 1].checkpoint = c
    BY <2>1, <2>3
  <2>5. MemoryHolds'
    BY <1>1, <1>3, <1>5, <2>4, JournalStays DEF MemoryHolds, At, Serving, ShownFor
  <2> QED BY <1>1, <1>2, <1>5, <2>5, ServingMoves DEF Serving
<1>6. ASSUME MayReveal(c), AccessAppend([event |-> revealed, checkpoint |-> c], "finish", down),
             result' = revealed, revealed' = revealed + 1
      PROVE  IInv'
  <2>1. /\ mode # "replay" /\ req = client.pending /\ InFlight
        /\ session = "live" /\ client.seen = Len(access)
        /\ Context <= Len(access) /\ Len(access) < NumEvents
        /\ CheckpointFor(c, Len(access) - 1)
        /\ c \in Checkpoints /\ c # NoCheckpoint
    BY <1>1, <1>6, RevealIsAsked
  <2>2. PICK x : x = [event |-> revealed, checkpoint |-> c]
    OBVIOUS
  <2>3. x \in Accesses /\ x.event = revealed /\ x.checkpoint = c
    <3>1. revealed \in Nat
      BY DEF IInv, SessionTypeOK
    <3>2. revealed = Len(access)
      BY <1>3
    <3>3. revealed < NumEvents
      BY <2>1, <3>2
    <3>4. NumEvents \in Nat
      BY SessionAssumption
    <3>5. revealed \in 0..(NumEvents - 1)
      BY <3>1, <3>3, <3>4
    <3> QED BY <2>1, <2>2, <3>5 DEF Accesses
  <2>4. \/ access' = Append(access, x) /\ epc' \in {"finish", "abort"}
        \/ access' = access /\ epc' = "abort"
    <3>1. "finish" \in EPCs /\ "abort" \in EPCs /\ SessionTypeOK /\ down = "abort"
      BY <2>1 DEF IInv, EPCs
    <3>2. AccessAppend(x, "finish", "abort")
      BY <1>6, <2>2, <3>1
    <3> QED BY <2>3, <3>1, <3>2, AccessAppendCases
  <2>5. CASE access' = access /\ epc' = "abort"
    BY <1>4, <2>1, <2>5
  <2>6. CASE access' = Append(access, x) /\ epc' \in {"finish", "abort"}
    <3>1. /\ Len(access) \in Nat /\ Len(access') = Len(access) + 1
          /\ DOMAIN access = 1..Len(access) /\ DOMAIN access' = DOMAIN access \cup {Len(access) + 1}
          /\ (\A i \in DOMAIN access : access'[i] = access[i])
          /\ access'[Len(access) + 1] = x
      BY <2>3, <2>6, AccessGrows DEF IInv, SessionTypeOK
    <3>2. AccessHolds'
      BY <1>1, <1>3, <2>1, <2>3, <3>1 DEF IInv, AccessHolds, CheckpointFor
    <3>3. RequestsHold'
      BY <1>1, RequestsFrame DEF IInv
    <3>4. /\ journal # <<>> /\ ~Doomed /\ toServer = NoRequest /\ toClient = NoResponse
          /\ (waiting \/ client.closed)
      BY <1>1 DEF IInv, DoomHolds, JournalHolds, BusyHolds, Busy, At, Serving
    <3>5. JournalHolds'
      <4>1. \A k \in DOMAIN access' :
               (k \in DOMAIN access /\ access'[k] = access[k]) \/ access'[k].checkpoint = Last.request.checkpoint
        BY <1>3, <2>3, <3>1
      <4>2. \A k \in DOMAIN access : k \in DOMAIN access' /\ access'[k] = access[k]
        BY <3>1
      <4> QED BY <1>1, <3>4, <4>1, <4>2, JournalStays DEF IInv, JournalHolds
    <3>6. MemoryHolds'
      <4>1. c # NoCheckpoint /\ result' + 1 \in DOMAIN access' /\ access'[result' + 1].checkpoint = c
        BY <1>3, <1>6, <2>1, <2>3, <3>1
      <4> QED BY <1>1, <1>3, <1>6, <2>1, <2>6, <3>1, <4>1, JournalStays DEF MemoryHolds, At, Serving, ShownFor
    <3>7. BusyHolds' /\ PipeHolds'
      BY <1>1, <2>6, <3>4, QuietPipe DEF At, Booting
    <3>8. DoomHolds'
      BY <1>1, <3>4, JournalStays DEF DoomHolds
    <3>9. ExchangeHolds'
      <4>1. Behind'
        BY <1>1, <2>1, <2>3, <3>1 DEF Behind
      <4>2. InFlight'
        BY <1>1, <2>1, <4>1, JournalStays DEF InFlight
      <4>3. client.seen \in Nat
        BY DEF IInv, SessionTypeOK
      <4> QED BY <1>1, <2>1, <3>1, <4>1, <4>2, <4>3 DEF ExchangeHolds
    <3> QED BY <1>2, <3>2, <3>3, <3>5, <3>6, <3>7, <3>8, <3>9 DEF IInv
  <2> QED BY <2>4, <2>5, <2>6
<1>7. ASSUME Reject, UNCHANGED access PROVE IInv'
  BY <1>4, <1>7 DEF Reject
<1> QED BY <1>5, <1>6, <1>7 DEF RunReveal

-----------------------------------------------------------------------------
(* Steps of the client *)

\* A client that can send, or that reads an answer, faces an evaluator that
\* waits for a frame or is gone.
LEMMA AtRest ==
    ASSUME IInv, epc \in {"idle", "down"}, epc' \in {epc, "down"}, UNCHANGED <<journal, access, revealed>>
    PROVE  MemoryHolds' /\ ~Busy' /\ ~At(Booting)' /\ BusyHolds'
<1>1. ~Busy' /\ ~At(Booting)' /\ epc' # "head"
  BY DEF Busy, At, Serving, Booting
<1>2. MemoryHolds'
  BY JournalStays DEF IInv, MemoryHolds, At, Serving
<1> QED BY <1>1, <1>2 DEF BusyHolds

\* A client that may send has an empty pipe and a session that is not refused.
LEMMA SenderFacesRest ==
    ASSUME IInv, Usable, session = "live" \/ epc = "idle"
    PROVE  /\ epc \in {"idle", "down"} /\ toServer = NoRequest /\ toClient = NoResponse /\ ~Doomed
           /\ ~waiting /\ ~client.closed
<1>1. ~client.closed /\ ~waiting /\ epc \notin Booting
  BY DEF Usable
<1>2. ~Busy /\ toServer = NoRequest /\ toClient = NoResponse /\ ~Doomed
  BY <1>1 DEF IInv, BusyHolds, PipeHolds, DoomHolds
<1>3. epc # "head"
  BY <1>2 DEF IInv, MemoryHolds, BusyHolds, Busy, At, Serving
<1>4. epc \in {"idle", "down"}
  BY <1>1, <1>2, <1>3 DEF IInv, SessionTypeOK, EPCs, Busy, At, Serving
<1> QED BY <1>1, <1>2, <1>4

\* A frame on its way: the request the client holds, or a new one.
LEMMA RequestPreserves ==
    ASSUME IInv, NEW operation \in Operations, NEW c \in Checkpoints \cup {NoCheckpoint},
           Request(operation, c), operation # "REVEAL" => c = NoCheckpoint,
           (operation = "BOOTSTRAP") <=> (session # "live"),
           session = "live" \/ (session = "starting" /\ epc = "idle")
    PROVE  IInv'
<1>1. PICK new : new = [id |-> ids + 1, sequence |-> client.sequence, operation |-> operation,
                        checkpoint |-> c, previous |-> client.previousRequest]
  OBVIOUS
<1>2. PICK r : r = IF client.pending = NoRequest THEN new ELSE client.pending
  OBVIOUS
<1>3. /\ Usable /\ r.operation = operation /\ r.checkpoint = c
      /\ ids' = IF client.pending = NoRequest THEN ids + 1 ELSE ids
      /\ UNCHANGED <<journal, access, checkpoints, epc, cont, req, toClient, session, scoring, mode, result, revealed>>
      /\ \/ toServer' = r /\ waiting' = TRUE /\ client' = [client EXCEPT !.pending = r]
         \/ UNCHANGED <<toServer, waiting>> /\ client' = [client EXCEPT !.pending = r, !.closed = TRUE]
  BY <1>1, <1>2 DEF Request, disk, plane, locals
<1>4. SessionTypeOK'
  BY RequestType DEF IInv
<1>5. /\ client'.pending = r /\ client'.sequence = client.sequence
      /\ client'.previousRequest = client.previousRequest /\ client'.seen = client.seen
      /\ client'.closed \/ (waiting' /\ toServer' = r)
  BY <1>3 DEF IInv, SessionTypeOK
<1>6. /\ epc \in {"idle", "down"} /\ toServer = NoRequest /\ toClient = NoResponse /\ ~Doomed
  BY <1>3, SenderFacesRest
<1>7. MemoryHolds' /\ BusyHolds'
  BY <1>3, <1>6, AtRest
<1>8. AccessHolds' /\ JournalHolds'
  BY <1>3, <1>5, AccessFrame, JournalFrame DEF IInv, JournalHolds
<1>9. DoomHolds'
  BY <1>3, <1>6, JournalStays DEF DoomHolds
<1>10. ids \in Nat /\ client.previousRequest \in Nat /\ client.previousRequest <= ids
  BY DEF IInv, SessionTypeOK, RequestsHold
<1>11. CASE client.pending = NoRequest
  <2>1. r = new /\ ids' = ids + 1 /\ client.pending.id = 0
    BY <1>2, <1>3, <1>11 DEF NoRequest
  <2>2. /\ r.id = ids + 1 /\ r.sequence = client.sequence /\ r.operation = operation
        /\ r.checkpoint = c /\ r.previous = client.previousRequest
    BY <1>1, <2>1
  <2>3. ASSUME NEW y \in Requests, Known(y)
        PROVE  y.id # r.id /\ Known(y)'
    <3>1. y.id \in Nat /\ y.id <= ids
      BY <2>3 DEF Requests, Known
    <3> QED BY <1>5, <1>10, <2>1, <2>2, <2>3, <3>1 DEF Known
  <2>4. /\ r.id <= ids' /\ r.operation \in Operations /\ r.id # 0
        /\ (r.operation # "REVEAL" => r.checkpoint = NoCheckpoint)
    BY <1>10, <2>1, <2>2
  <2>5. Known(r)'
    BY <1>5, <2>4 DEF Known
  <2>6. RequestsHold'
    <3>1. Known(toServer)' /\ Known(req)' /\ Known(client.pending)'
      <4>1. PICK y, z : y = toServer /\ z = req
        OBVIOUS
      <4>2. Known(y)' /\ Known(z)'
        BY <2>3, <4>1 DEF IInv, RequestsHold, SessionTypeOK
      <4>3. (toServer' = y \/ toServer' = r) /\ req' = z /\ client'.pending = r
        BY <1>3, <1>5, <4>1
      <4> QED BY <2>5, <4>2, <4>3 DEF Known
    <3>2. \A i \in DOMAIN journal : Known(journal[i].request)'
      <4> TAKE i \in DOMAIN journal
      <4>1. PICK y : y = journal[i].request
        OBVIOUS
      <4>2. y \in Requests
        <5>1. journal[i] \in JournalRecords
          BY DEF IInv, SessionTypeOK
        <5> QED BY <4>1, <5>1 DEF JournalRecords
      <4>3. Known(y)'
        BY <2>3, <4>1, <4>2 DEF IInv, RequestsHold
      <4> QED BY <1>3, <4>1, <4>3 DEF Known
    <3>3. r.id # 0 /\ r.id > client.previousRequest /\ client.previousRequest <= ids'
      BY <1>10, <2>1, <2>2
    <3> QED BY <1>3, <1>5, <2>2, <3>1, <3>2, <3>3 DEF IInv, RequestsHold
  <2>7. PipeHolds'
    BY <1>3, <1>5, <1>6, <2>4 DEF PipeHolds, NoResponse, NoRequest
  <2>8. ExchangeHolds'
    <3>1. Between
      BY <1>6, <2>1 DEF IInv, ExchangeHolds, InFlight, Answered
    <3>2. \A i \in DOMAIN journal : journal[i].request.id # r.id
      <4> TAKE i \in DOMAIN journal
      <4>1. journal[i].request \in Requests
        <5>1. journal[i] \in JournalRecords
          BY DEF IInv, SessionTypeOK
        <5> QED BY <5>1 DEF JournalRecords
      <4> QED BY <2>3, <4>1 DEF IInv, RequestsHold
    <3>3. Between'
      BY <1>3, <1>5, <3>1, <3>2, JournalStays DEF Between, Level
    <3>4. Behind'
      BY <1>3, <1>5, <3>1 DEF Between, Level, Behind
    <3> QED BY <1>3, <1>5, <3>3, <3>4 DEF IInv, ExchangeHolds
  <2> QED BY <1>4, <1>7, <1>8, <1>9, <2>6, <2>7, <2>8 DEF IInv
<1>12. CASE client.pending # NoRequest
  <2>1. r = client.pending /\ ids' = ids /\ client'.pending = client.pending
    BY <1>2, <1>3, <1>5, <1>12
  <2>2. ExchangeHolds'
    BY <1>3, <1>5, <2>1, ExchangeFrame DEF IInv
  <2>3. RequestsHold'
    <3>1. Known(toServer)' /\ Known(req)' /\ Known(client.pending)'
      BY <1>3, <1>5, <2>1 DEF IInv, RequestsHold, Known
    <3>2. \A i \in DOMAIN journal : Known(journal[i].request)'
      BY <1>3, <1>5, <2>1 DEF IInv, RequestsHold, Known
    <3> QED BY <1>3, <1>5, <2>1, <3>1, <3>2 DEF IInv, RequestsHold
  <2>4. PipeHolds'
    BY <1>3, <1>5, <1>6, <2>1 DEF PipeHolds, NoResponse
  <2> QED BY <1>4, <1>7, <1>8, <1>9, <2>2, <2>3, <2>4 DEF IInv
<1> QED BY <1>11, <1>12

\* The three requests a client makes.
LEMMA SendingSteps ==
    ASSUME IInv, SendBootstrap \/ SendFinalize \/ \E c \in checkpoints \cup {NoCheckpoint} : SendReveal(c)
    PROVE  IInv'
<1>1. CASE SendBootstrap
  BY <1>1, RequestPreserves DEF SendBootstrap, Operations
<1>2. CASE SendFinalize
  BY <1>2, RequestPreserves DEF SendFinalize, Operations
<1>3. ASSUME NEW c \in checkpoints \cup {NoCheckpoint}, SendReveal(c) PROVE IInv'
  <2>1. c \in Checkpoints \cup {NoCheckpoint}
    BY <1>3 DEF IInv, SessionTypeOK
  <2> QED BY <1>3, <2>1, RequestPreserves DEF SendReveal, Operations
<1> QED BY <1>1, <1>2, <1>3

\* The client gives up or hangs up; a failed start takes the session with it.
LEMMA ClientStops ==
    ASSUME IInv, SessionTypeOK',
           UNCHANGED <<journal, access, checkpoints, toServer, toClient, req, ids, cont, mode, result,
                       revealed, scoring>>,
           client'.pending = client.pending, client'.sequence = client.sequence,
           client'.previousRequest = client.previousRequest, client'.seen = client.seen,
           waiting \/ client.closed => waiting' \/ client'.closed, waiting' => waiting,
           \/ session' = session /\ epc' = epc
           \/ session = "starting" /\ session' = "lost" /\ epc' = "down" /\ ~waiting'
    PROVE  IInv'
<1>1. AccessHolds' /\ ExchangeHolds' /\ PipeHolds'
  BY AccessFrame, ExchangeFrame, PipeFrame DEF IInv, PipeHolds
<1>2. JournalHolds'
  BY JournalFrame DEF IInv, JournalHolds
<1>3. RequestsHold'
  <2>1. CASE session' = session
    BY <2>1, RequestsFrame DEF IInv
  <2>2. CASE session = "starting" /\ session' = "lost" /\ ~waiting'
    BY <2>2 DEF IInv, RequestsHold, Known
  <2> QED BY <2>1, <2>2
<1>4. CASE session' = session /\ epc' = epc
  <2>1. MemoryHolds'
    BY <1>4, JournalStays DEF IInv, MemoryHolds, At, ShownFor
  <2>2. (Busy' <=> Busy) /\ (At(Booting)' <=> At(Booting))
    BY <1>4 DEF Busy, At
  <2>3. BusyHolds'
    BY <1>4, <2>2 DEF IInv, BusyHolds
  <2>4. DoomHolds'
    BY <1>4, JournalStays DEF IInv, DoomHolds, At
  <2> QED BY <1>1, <1>2, <1>3, <2>1, <2>3, <2>4 DEF IInv
<1>5. CASE epc' = "down"
  <2>1. MemoryHolds' /\ BusyHolds'
    BY <1>5 DEF MemoryHolds, BusyHolds, Busy, At, Serving, Booting
  <2>2. DoomHolds'
    BY <1>5, JournalStays DEF IInv, DoomHolds, At
  <2> QED BY <1>1, <1>2, <1>3, <2>1, <2>2 DEF IInv
<1> QED BY <1>4, <1>5

\* A timeout, a broken pipe, a failed start, and EvaluatorClient.close.
LEMMA StoppingSteps ==
    ASSUME IInv, Timeout \/ HangUp \/ StartFails \/ CloseClient
    PROVE  IInv'
<1>1. SessionTypeOK'
  BY ClientType DEF IInv
<1>2. UNCHANGED <<journal, access, checkpoints, toServer, toClient, req, ids, cont, mode, result,
                  revealed, scoring>>
  BY DEF Timeout, HangUp, StartFails, CloseClient, disk, plane, locals, pipe
<1>3. client' = client \/ client' = [client EXCEPT !.closed = TRUE]
  BY DEF Timeout, HangUp, StartFails, CloseClient, GivesUp
<1>4. /\ client'.pending = client.pending /\ client'.sequence = client.sequence
      /\ client'.previousRequest = client.previousRequest /\ client'.seen = client.seen
  BY <1>3 DEF IInv, SessionTypeOK
<1>5. CASE CloseClient
  <2>1. session' = session /\ epc' = epc /\ waiting' = waiting /\ client'.closed
    BY <1>5 DEF CloseClient, IInv, SessionTypeOK
  <2> QED BY <1>1, <1>2, <1>4, <2>1, ClientStops
<1>6. CASE StartFails
  <2>1. session = "starting" /\ session' = "lost" /\ epc' = "down" /\ ~waiting /\ UNCHANGED <<waiting, client>>
    BY <1>6 DEF StartFails, Lost
  <2> QED BY <1>1, <1>2, <1>4, <2>1, ClientStops
<1>7. CASE Timeout \/ HangUp
  <2>1. /\ ~waiting'
        /\ client'.closed
        /\ \/ session' = session /\ epc' = epc
           \/ session = "starting" /\ session' = "lost" /\ epc' = "down"
    BY <1>7 DEF Timeout, HangUp, GivesUp, Lost, IInv, SessionTypeOK
  <2> QED BY <1>1, <1>2, <1>4, <2>1, ClientStops
<1> QED BY <1>5, <1>6, <1>7

\* A checkpoint is for the latest event the client has.
LEMMA PredictPreserves ==
    ASSUME IInv, NEW policy \in Policies, Predict(policy)
    PROVE  IInv'
<1>1. SessionTypeOK'
  BY PlaneType DEF IInv
<1>2. /\ session = "live"
      /\ UNCHANGED <<journal, access, toServer, toClient, req, client, waiting, ids, session,
                     epc, cont, mode, result, revealed, scoring>>
      /\ checkpoints' = checkpoints \cup {[origin |-> client.seen - 1, policy |-> policy]}
  BY DEF Predict, disk, plane, locals, pipe, clientVars
<1>3. AccessHolds'
  BY <1>2 DEF IInv, SessionTypeOK, AccessHolds, CheckpointFor
<1>4. RequestsHold' /\ JournalHolds' /\ ExchangeHolds' /\ PipeHolds'
  BY <1>2, RequestsFrame, JournalFrame, ExchangeFrame, PipeFrame DEF IInv, PipeHolds, JournalHolds
<1>5. MemoryHolds'
  BY <1>2, JournalStays DEF IInv, MemoryHolds, At, ShownFor
<1>6. (Busy' <=> Busy) /\ (At(Booting)' <=> At(Booting))
  BY <1>2 DEF Busy, At
<1>7. BusyHolds'
  BY <1>2, <1>6 DEF IInv, BusyHolds
<1>8. DoomHolds'
  BY <1>2, JournalStays DEF IInv, DoomHolds, At
<1> QED BY <1>1, <1>3, <1>4, <1>5, <1>7, <1>8 DEF IInv

\* A frame that bypasses _request changes nothing the client holds.
LEMMA OutOfTurnPreserves ==
    ASSUME IInv, OutOfTurn
    PROVE  IInv'
<1>1. SessionTypeOK'
  BY PlaneType DEF IInv
<1>2. PICK skipping : skipping = [id |-> ids + 1, sequence |-> client.sequence + 1, operation |-> "REVEAL",
                                  checkpoint |-> NoCheckpoint, previous |-> client.previousRequest]
  OBVIOUS
<1>3. /\ session = "live" /\ Usable /\ epc = "idle" /\ ids' = ids + 1 /\ waiting' = TRUE
      /\ toServer' \in ({journal[i].request : i \in DOMAIN journal} \ {NoRequest}) \cup {skipping}
      /\ UNCHANGED <<journal, access, checkpoints, toClient, req, client, session,
                     epc, cont, mode, result, revealed, scoring>>
  BY <1>2 DEF OutOfTurn, disk, plane, locals
<1>4. epc \in {"idle", "down"} /\ toServer = NoRequest /\ toClient = NoResponse /\ ~Doomed
  BY <1>3, SenderFacesRest
<1>5. MemoryHolds' /\ BusyHolds'
  BY <1>3, <1>4, AtRest
<1>6. AccessHolds' /\ JournalHolds' /\ ExchangeHolds'
  BY <1>3, AccessFrame, JournalFrame, ExchangeFrame DEF IInv, JournalHolds
<1>7. DoomHolds'
  BY <1>3, <1>4, JournalStays DEF DoomHolds
<1>8. \/ \E i \in DOMAIN journal : journal[i].request = toServer' /\ toServer' # NoRequest
      \/ toServer' = skipping
  BY <1>3
<1>9. ids \in Nat /\ client.previousRequest <= ids + 1 /\ client.pending.id # ids + 1
  BY SMTT(40) DEF IInv, SessionTypeOK, RequestsHold, Known, Requests
<1>10. ASSUME NEW y \in Requests, Known(y) PROVE Known(y)'
  <2>1. y.id \in Nat /\ y.id <= ids
    BY <1>10 DEF Requests, Known
  <2> QED BY <1>3, <1>9, <1>10, <2>1 DEF Known
<1>11. \A i \in DOMAIN journal : Known(journal[i].request)'
  <2> TAKE i \in DOMAIN journal
  <2>1. PICK y : y = journal[i].request
    OBVIOUS
  <2>2. y \in Requests
    <3>1. journal[i] \in JournalRecords
      BY DEF IInv, SessionTypeOK
    <3> QED BY <2>1, <3>1 DEF JournalRecords
  <2>3. Known(y)'
    BY <1>10, <2>1, <2>2 DEF IInv, RequestsHold
  <2> QED BY <1>3, <2>1, <2>3 DEF Known
<1>12. Known(skipping)'
  BY <1>2, <1>3, <1>9 DEF Known, Operations
<1>13. Known(toServer)'
  BY <1>3, <1>8, <1>11, <1>12 DEF Known
<1>14. Known(req)' /\ Known(client.pending)'
  <2>1. PICK y, z : y = req /\ z = client.pending
    OBVIOUS
  <2>2. Known(y)' /\ Known(z)'
    BY <1>10, <2>1 DEF IInv, RequestsHold, SessionTypeOK
  <2> QED BY <1>3, <2>1, <2>2 DEF Known
<1>15. RequestsHold'
  BY <1>3, <1>9, <1>11, <1>13, <1>14 DEF IInv, RequestsHold
<1>16. PipeHolds'
  BY <1>2, <1>3, <1>4, <1>8 DEF PipeHolds, NoResponse
<1> QED BY <1>1, <1>5, <1>6, <1>7, <1>15, <1>16 DEF IInv

\* A checkpoint is used once: its origin says where.
LEMMA ShownOnce ==
    ASSUME IInv, NEW i \in DOMAIN access, NEW j \in DOMAIN access,
           access[i].checkpoint = access[j].checkpoint, access[i].checkpoint # NoCheckpoint
    PROVE  i = j
<1>1. i \in Nat /\ j \in Nat
  BY DEF IInv, SessionTypeOK
<1>2. access[i].checkpoint.origin = i - 2 /\ access[j].checkpoint.origin = j - 2
  BY DEF IInv, AccessHolds, CheckpointFor
<1> QED BY <1>1, <1>2

\* An answer the client accepts brings it level with the ACCESS ledger.
LEMMA AcceptedAnswer ==
    ASSUME IInv, waiting, toClient.status = "OK", toClient.id = client.pending.id, toClient # NoResponse
    PROVE  /\ Answered /\ ~Doomed /\ Last.operation = client.pending.operation
           /\ PreviousRequest = client.pending.id
           /\ Learned(client.pending.operation, toClient.result) = Len(access)
           /\ Len(access) >= Context
           /\ session \in {"starting", "live"}
           /\ session = "starting" => client.pending.operation = "BOOTSTRAP" /\ Len(access) = Context
           /\ session = "live" => client.pending.operation \in {"REVEAL", "FINALIZE"}
<1>1. /\ toClient.id # 0 /\ journal # <<>> /\ Last.phase = "COMPLETED" /\ Last.request = client.pending
      /\ client.pending.operation = "BOOTSTRAP" => toClient.result \in Context..Len(access)
      /\ client.pending.operation = "REVEAL" => ShownFor(toClient.result, client.pending.checkpoint)
  BY DEF IInv, PipeHolds
<1>2. ~Doomed /\ client.pending.id # 0
  BY <1>1 DEF IInv, DoomHolds
<1>3. Len(journal) \in DOMAIN journal
  BY <1>1, LastType DEF IInv
<1>4. Answered
  BY <1>1, <1>2, <1>3 DEF IInv, ExchangeHolds, Between, InFlight, Last
<1>5. Last.operation = client.pending.operation
  BY <1>1, <1>2, <1>3 DEF IInv, JournalHolds, Doomed, Last
<1>6. PreviousRequest = client.pending.id
  BY <1>1, LastIsLatest DEF IInv
<1>7. session \in {"starting", "live"} /\ ((client.pending.operation = "BOOTSTRAP") <=> (session # "live"))
      /\ client.pending.operation \in Operations
  BY <1>2 DEF IInv, RequestsHold, Known
<1>8. Len(access) \in Nat /\ DOMAIN access = 1..Len(access) /\ client.seen \in Nat /\ toClient.result \in Nat
  BY DEF IInv, SessionTypeOK, Responses
<1>9. CASE session = "starting"
  <2>1. Len(access) <= Context
    <3>1. SUFFICES ASSUME Context + 1 \in DOMAIN access PROVE FALSE
      BY <1>8
    <3>2. CheckpointFor(access[Context + 1].checkpoint, Context - 1)
      BY <3>1 DEF IInv, AccessHolds
    <3> QED BY <1>9, <3>2 DEF IInv, AccessHolds, CheckpointFor
  <2>2. client.pending.operation = "BOOTSTRAP" /\ toClient.result \in Context..Len(access)
    BY <1>1, <1>7, <1>9
  <2>3. toClient.result = Len(access) /\ Len(access) = Context
    BY <1>8, <2>1, <2>2
  <2>4. Learned(client.pending.operation, toClient.result) = toClient.result
    BY <2>2 DEF Learned
  <2> QED BY <1>2, <1>4, <1>5, <1>6, <1>9, <2>2, <2>3, <2>4
<1>10. CASE session = "live"
  <2>1. client.seen >= Context /\ client.seen <= Len(access) /\ Behind
    BY <1>4, <1>10 DEF IInv, AccessHolds, Answered
  <2>2. client.pending.operation \in {"REVEAL", "FINALIZE"}
    BY <1>7, <1>10 DEF Operations
  <2>3. Learned(client.pending.operation, toClient.result) = Len(access)
    <3>1. CASE client.pending.operation = "FINALIZE"
      BY <1>10, <2>1, <3>1 DEF Learned, Behind
    <3>2. CASE client.pending.operation = "REVEAL"
      <4>1. toClient.result + 1 \in DOMAIN access /\ client.pending.checkpoint # NoCheckpoint
            /\ access[toClient.result + 1].checkpoint = client.pending.checkpoint
        BY <1>1, <3>2 DEF ShownFor
      <4>2. Learned(client.pending.operation, toClient.result)
               = IF toClient.result = client.seen THEN toClient.result + 1 ELSE client.seen
        BY <3>2 DEF Learned
      <4>3. CASE Len(access) = client.seen
        <5>1. toClient.result < client.seen
          BY <1>8, <4>1, <4>3
        <5> QED BY <1>8, <4>2, <4>3, <5>1
      <4>4. CASE Len(access) # client.seen
        <5>1. Len(access) = client.seen + 1 /\ client.pending.checkpoint = access[Len(access)].checkpoint
          BY <1>10, <2>1, <4>4 DEF Behind
        <5>2. Len(access) \in DOMAIN access
          BY <1>8, <5>1
        <5>3. toClient.result + 1 = Len(access)
          BY <4>1, <5>1, <5>2, ShownOnce
        <5> QED BY <1>8, <4>2, <5>1, <5>3
      <4> QED BY <4>3, <4>4
    <3> QED BY <2>2, <3>1, <3>2
  <2>4. Len(access) >= Context
    BY <1>8, <2>1
  <2> QED BY <1>2, <1>4, <1>5, <1>6, <1>10, <2>2, <2>3, <2>4
<1> QED BY <1>7, <1>9, <1>10

\* _receive_response: genuine or not, an answer or a refusal.
LEMMA AcceptPreserves ==
    ASSUME IInv, Accept
    PROVE  IInv'
<1>1. SessionTypeOK'
  BY ClientType DEF IInv
<1>2. /\ waiting /\ toClient # NoResponse /\ waiting' = FALSE /\ toClient' = NoResponse
      /\ UNCHANGED <<journal, access, checkpoints, toServer, req, ids, cont, mode, result, revealed, scoring>>
  BY DEF Accept, disk, plane, locals
<1>3. ~Busy /\ toServer = NoRequest /\ ~At(Booting) /\ toClient.status \in {"OK", "ERROR"} /\ toClient.id # 0
  BY <1>2 DEF IInv, BusyHolds, PipeHolds, SessionTypeOK, Responses
<1>4. epc \in {"idle", "down"}
  <2>1. epc # "head"
    BY <1>3 DEF IInv, MemoryHolds, Busy, At, Serving, Booting
  <2> QED BY <1>3, <2>1 DEF IInv, SessionTypeOK, EPCs, Busy, At, Serving
<1>5. epc' \in {epc, "down"}
  BY DEF Accept, Lost
<1>6. MemoryHolds' /\ BusyHolds'
  BY <1>2, <1>4, <1>5, AtRest
<1>7. PipeHolds'
  BY <1>2, <1>3 DEF PipeHolds, NoResponse
<1>8. CASE ~Genuine(toClient)
  <2>1. client' = [client EXCEPT !.closed = TRUE] /\ Lost
    BY <1>8 DEF Accept, GivesUp
  <2>2. /\ client'.pending = client.pending /\ client'.sequence = client.sequence
        /\ client'.previousRequest = client.previousRequest /\ client'.seen = client.seen /\ client'.closed
    BY <2>1 DEF IInv, SessionTypeOK
  <2>3. \/ session' = session
        \/ session = "starting" /\ session' = "lost"
    BY <2>1 DEF Lost
  <2>4. AccessHolds' /\ ExchangeHolds' /\ JournalHolds'
    BY <1>2, <1>4, <1>5, <2>2, <2>3, AccessFrame, ExchangeFrame, JournalFrame DEF IInv, JournalHolds
  <2>5. RequestsHold'
    BY <1>2, <2>2, <2>3 DEF IInv, RequestsHold, Known
  <2>6. DoomHolds'
    BY <1>2, <1>4, <1>5, <2>2, JournalStays DEF IInv, DoomHolds, At, NoResponse
  <2> QED BY <1>1, <1>6, <1>7, <2>4, <2>5, <2>6 DEF IInv
<1>9. CASE Genuine(toClient)
  <2>1. toClient.id = client.pending.id
    BY <1>9 DEF Genuine
  <2>2. /\ client'.pending = NoRequest /\ client'.sequence = client.sequence + 1
        /\ client'.previousRequest = client.pending.id
        /\ toClient.status # "OK" => client'.closed
        /\ client'.seen = IF toClient.status = "OK" THEN Learned(client.pending.operation, toClient.result)
                          ELSE client.seen
    <3> DEFINE shut == toClient.status # "OK" \/ client.pending.operation = "FINALIZE"
                       \/ NonCausal(client.pending.operation, toClient.result)
               level == IF toClient.status = "OK" THEN Learned(client.pending.operation, toClient.result)
                        ELSE client.seen
    <3>1. client' = [sequence |-> client.sequence + 1, previousRequest |-> client.pending.id,
                     previousResponse |-> toClient.id, pending |-> NoRequest,
                     closed |-> shut, seen |-> level]
      BY <1>9 DEF Accept
    <3>2. toClient.status # "OK" => shut
      OBVIOUS
    <3>3. level = IF toClient.status = "OK" THEN Learned(client.pending.operation, toClient.result)
                  ELSE client.seen
      OBVIOUS
    <3> HIDE DEF shut, level
    <3> QED BY <3>1, <3>2, <3>3
  <2>3. \/ session = "live" /\ session' = "live" /\ epc' = epc
        \/ session = "starting" /\ toClient.status = "OK" /\ session' = "live" /\ epc' = epc
        \/ session = "starting" /\ toClient.status # "OK" /\ session' = "lost" /\ epc' = "down"
    BY <1>2, <1>9 DEF Accept, Lost, IInv, RequestsHold
  <2>4. NoRequest.id = 0 /\ NoRequest.operation = "NONE"
    BY DEF NoRequest
  <2>5. RequestsHold'
    <3>1. client.pending.id <= ids /\ Known(client.pending)'
      BY <1>2, <2>2, <2>4 DEF IInv, RequestsHold, Known, SessionTypeOK, NoRequest, Operations
    <3>2. Known(toServer)' /\ Known(req)' /\ \A i \in DOMAIN journal : Known(journal[i].request)'
      BY <1>2, <2>2, <2>4 DEF IInv, RequestsHold, Known
    <3> QED BY <1>2, <2>2, <2>3, <2>4, <3>1, <3>2 DEF RequestsHold
  <2>6. CASE toClient.status = "ERROR"
    <3>1. Refused
      BY <2>6 DEF IInv, PipeHolds
    <3>2. client'.seen = client.seen /\ client'.closed
      BY <2>2, <2>6
    <3>3. session' = session \/ (session # "live" /\ session' # "live")
      BY <2>3, <2>6
    <3>4. AccessHolds' /\ JournalHolds'
      BY <1>2, <1>4, <1>5, <3>2, <3>3, AccessFrame, JournalFrame DEF IInv, JournalHolds
    <3>5. Refused' /\ Doomed
      BY <1>2, <3>1, JournalStays, LastType DEF IInv, Refused, Doomed, Last
    <3>6. DoomHolds'
      BY <1>2, <1>4, <1>5, <3>2, <3>5, JournalStays DEF IInv, DoomHolds, At, NoResponse
    <3>7. ExchangeHolds'
      BY <1>2, <3>2, <3>3, <3>5, JournalStays DEF IInv, ExchangeHolds
    <3> QED BY <1>1, <1>6, <1>7, <2>5, <3>4, <3>6, <3>7 DEF IInv
  <2>7. CASE toClient.status = "OK"
    <3>1. /\ Answered /\ ~Doomed /\ Last.operation = client.pending.operation
          /\ PreviousRequest = client.pending.id
          /\ client'.seen = Len(access) /\ Len(access) >= Context
          /\ session = "starting" => client.pending.operation = "BOOTSTRAP" /\ Len(access) = Context
      BY <1>2, <2>1, <2>2, <2>7, AcceptedAnswer
    <3>2. session' = "live"
      BY <2>3, <2>7
    <3>3. client.seen <= Len(access) /\ Len(access) \in Nat /\ client.seen \in Nat
      BY DEF IInv, AccessHolds, SessionTypeOK
    <3>4. AccessHolds'
      <4>1. \A c \in checkpoints : c.origin < client'.seen
        <5> TAKE c \in checkpoints
        <5>1. c.origin \in Nat /\ c.origin < client.seen
          BY DEF IInv, AccessHolds, SessionTypeOK, Checkpoints
        <5> QED BY <3>1, <3>3, <5>1
      <4> QED BY <1>2, <3>1, <3>2, <3>3, <4>1 DEF IInv, AccessHolds, CheckpointFor
    <3>5. JournalHolds'
      <4>1. Len(journal) \in Completed /\ journal[Len(journal)] = Last
        BY <3>1, LastType DEF IInv, Answered, Completed, Last
      <4>2. \E i \in Completed : journal[i].operation = "BOOTSTRAP"
        <5>1. CASE session = "live"
          BY <5>1 DEF IInv, JournalHolds
        <5>2. CASE session = "starting"
          BY <3>1, <4>1, <5>2
        <5> QED BY <2>3, <5>1, <5>2
      <4> QED BY <1>2, <3>1, <4>2, JournalStays DEF IInv, JournalHolds, Answered
    <3>6. DoomHolds'
      BY <1>2, <3>1, JournalStays DEF DoomHolds
    <3>7. ExchangeHolds'
      <4>1. Level' /\ Behind'
        BY <1>2, <3>1, <3>3 DEF Level, Behind
      <4>2. Between'
        BY <1>2, <2>2, <2>4, <3>1, <4>1, JournalStays DEF Between, Answered
      <4> QED BY <1>2, <3>1, <3>3, <4>1, <4>2 DEF ExchangeHolds
    <3> QED BY <1>1, <1>6, <1>7, <2>5, <3>4, <3>5, <3>6, <3>7 DEF IInv
  <2> QED BY <1>3, <2>6, <2>7
<1> QED BY <1>8, <1>9

-----------------------------------------------------------------------------
(* The invariant holds *)

\* A session that was never started.
LEMMA InvariantInit == Init => IInv
<1> SUFFICES ASSUME Init PROVE IInv
  OBVIOUS
<1>0. /\ DOMAIN journal = {} /\ DOMAIN access = {} /\ Len(access) = 0 /\ journal = <<>> /\ Completed = {}
      /\ ~Doomed /\ ~Refused /\ NoRequest.id = 0 /\ NoRequest.operation = "NONE" /\ NoResponse.status = "NONE"
  BY DEF Init, Completed, Doomed, Refused, NoRequest, NoResponse
<1>1. SessionTypeOK
  <2>1. client \in [sequence: Nat, previousRequest: Nat, previousResponse: Nat,
                    pending: Requests, closed: BOOLEAN, seen: Nat]
    BY NoRequestType DEF Init, NewClient
  <2>2. epc \in EPCs /\ cont \in EPCs
    BY DEF Init, EPCs
  <2>3. ids \in 0..MaxRequests
    BY DEF Init
  <2>4. journal \in Seq(JournalRecords) /\ access \in Seq(Accesses) /\ scoring \in 0..4 /\ head \in Nat
    BY DEF Init
  <2>5. phaseSealed \in BOOLEAN /\ cut \in BOOLEAN /\ waiting \in BOOLEAN
    BY Zenon DEF Init
  <2>6. /\ torn \subseteq {"journal", "access"} /\ checkpoints \subseteq Checkpoints
        /\ mode \in {"fresh", "recover", "replay"} /\ session \in {"unborn", "starting", "live", "lost"}
        /\ result \in Nat /\ revealed \in Nat /\ crashes \in Nat /\ timeouts \in Nat /\ faults \in Nat
        /\ req \in Requests /\ toServer \in Requests /\ toClient \in Responses
    BY NoRequestType DEF Init
  <2> QED BY <2>1, <2>2, <2>3, <2>4, <2>5, <2>6 DEF SessionTypeOK
<1>2. ExpectedSequence = 0 /\ PreviousRequest = 0
  BY <1>0, FS_EmptySet DEF ExpectedSequence, PreviousRequest
<1>3. /\ client.seen = 0 /\ client.pending = NoRequest /\ client.sequence = 0 /\ client.previousRequest = 0
      /\ epc = "down" /\ session = "unborn" /\ checkpoints = {} /\ ids = 0 /\ waiting = FALSE
      /\ toServer = NoRequest /\ toClient = NoResponse /\ req = NoRequest
  BY DEF Init, NewClient
<1>4. AccessHolds
  BY <1>0, <1>3 DEF AccessHolds
<1>5. RequestsHold
  BY <1>0, <1>3 DEF RequestsHold, Known, NoRequest, Operations
<1>6. JournalHolds
  BY <1>0, <1>3 DEF JournalHolds
<1>7. MemoryHolds /\ BusyHolds
  BY <1>0, <1>3 DEF MemoryHolds, BusyHolds, Busy, At, Serving, Booting
<1>8. PipeHolds /\ DoomHolds
  BY <1>0, <1>3 DEF PipeHolds, DoomHolds
<1>9. ExchangeHolds
  BY <1>0, <1>2, <1>3 DEF ExchangeHolds, Between, Level, Behind
<1> QED BY <1>1, <1>4, <1>5, <1>6, <1>7, <1>8, <1>9 DEF IInv

\* Every step of the evaluator keeps the invariant,
LEMMA EvaluatorPreserves ==
    ASSUME IInv, EvaluatorStep
    PROVE  IInv'
<1>1. CASE OpenJournal
  BY <1>1, NewJournal, ReopenJournal
<1>2. CASE OpenAccess \/ Bootstrap \/ Ready \/ WriteHead
  BY <1>2, OpenAccessPreserves, BootstrapPreserves, ReadyPreserves, WriteHeadPreserves
<1>3. CASE Receive \/ ProtocolAbort \/ EndOfSession
  BY <1>3, ReceivePreserves, ProtocolAbortPreserves, LeavingSteps
<1>4. CASE RunBootstrap \/ RunFinalize \/ ScoreStage \/ RunReveal
  BY <1>4, ServingSteps, RunRevealPreserves
<1>5. CASE Finish
  BY <1>5, ServingSteps, FinishPreserves
<1>6. CASE Reply \/ Refuse \/ Abort
  BY <1>6, ServingSteps, AnswerSteps, AbortPreserves
<1> QED BY <1>1, <1>2, <1>3, <1>4, <1>5, <1>6 DEF EvaluatorStep

\* as does no step at all,
LEMMA StutterPreserves ==
    ASSUME IInv, UNCHANGED vars
    PROVE  IInv'
<1>1. UNCHANGED <<journal, access, checkpoints, toServer, toClient, req, client, waiting, ids, session,
                  epc, cont, mode, result, revealed, scoring>>
  BY DEF vars, disk, plane, locals, pipe, clientVars
<1>2. SessionTypeOK'
  BY DEF vars, disk, plane, locals, pipe, clientVars, IInv, SessionTypeOK
<1> QED BY <1>1, <1>2, ClientStops

\* and every step of anybody.
LEMMA InvariantStep ==
    ASSUME IInv, [Next \/ OutOfTurn]_vars
    PROVE  IInv'
<1>1. CASE Launch \/ Restart \/ EvaluatorStep \/ Crash \/ Kill
  BY <1>1, StartingSteps, EvaluatorPreserves, LeavingSteps
<1>2. CASE SendBootstrap \/ SendFinalize \/ \E c \in checkpoints \cup {NoCheckpoint} : SendReveal(c)
  BY <1>2, SendingSteps
<1>3. CASE Timeout \/ HangUp \/ StartFails \/ Accept \/ CloseClient
  BY <1>3, StoppingSteps, AcceptPreserves
<1>4. CASE SealPhase \/ OutOfTurn \/ \E policy \in Policies : Predict(policy)
  BY <1>4, SealPhasePreserves, OutOfTurnPreserves, PredictPreserves
<1>5. CASE UNCHANGED vars
  BY <1>5, StutterPreserves
<1> QED BY <1>1, <1>2, <1>3, <1>4, <1>5 DEF Next

\* The session journal, the ACCESS ledger, the evaluator's memory, the pipe and the
\* client agree in every state, however often the evaluator dies or is restarted, the
\* client times out or bypasses _request, and whichever writes fail.
THEOREM InvariantHolds == UnrulySpec => []IInv
BY InvariantInit, InvariantStep, PTL DEF UnrulySpec

\* A client that follows _request is one that need not.
LEMMA OrderlyIsUnruly == Spec => UnrulySpec
BY PTL DEF Spec, UnrulySpec

\* Blindness of the replay: the evaluator is never more than one event ahead of the
\* client, and only for the request the client still holds or in a refused session.
THEOREM EventsStayBehindTheClient == UnrulySpec => []NoEventRunsAhead
<1>1. IInv => NoEventRunsAhead
  <2> SUFFICES ASSUME IInv, session = "live" PROVE NoEventRunsAhead
    BY DEF NoEventRunsAhead
  <2>1. /\ client.seen <= Len(access) /\ Len(access) <= client.seen + 1 /\ (Refused \/ Behind)
        /\ Len(access) \in Nat /\ client.seen \in Nat
    BY DEF IInv, AccessHolds, ExchangeHolds, SessionTypeOK
  <2> QED BY <2>1 DEF NoEventRunsAhead, Behind
<1> QED BY <1>1, InvariantHolds, PTL

\* _revealed_count stays within the stream, also after an append that raised.
CountHolds == revealed <= NumEvents

\* Every step keeps it so: the last event has no next one.
LEMMA CountBounded ==
    ASSUME IInv, [Next \/ OutOfTurn]_vars, CountHolds
    PROVE  CountHolds'
<1> USE DEF CountHolds
<1>1. CASE Bootstrap
  BY <1>1 DEF Bootstrap, IInv, SessionTypeOK
<1>2. CASE OpenAccess
  BY <1>2 DEF OpenAccess, IInv, AccessHolds
<1>3. CASE RunReveal
  BY <1>3 DEF RunReveal, MayReveal, IInv, SessionTypeOK
<1>4. CASE EvaluatorStep /\ ~Bootstrap /\ ~OpenAccess /\ ~RunReveal
  <2>1. UNCHANGED revealed
    BY <1>4 DEF EvaluatorStep, OpenJournal, Ready, WriteHead, Receive, ProtocolAbort, EndOfSession,
                RunBootstrap, RunFinalize, ScoreStage, Finish, Reply, Abort, Refuse, locals
  <2> QED BY <2>1
<1>5. CASE ~EvaluatorStep
  <2>1. UNCHANGED revealed
    BY <1>5 DEF Next, Launch, Restart, Crash, Kill, SendBootstrap, SendFinalize, SendReveal, Request, Timeout,
                HangUp, StartFails, Accept, CloseClient, SealPhase, Predict, OutOfTurn, locals, vars
  <2> QED BY <2>1
<1> QED BY <1>1, <1>2, <1>3, <1>4, <1>5

\* Every variable of a session keeps its type.
THEOREM TypeCorrect == UnrulySpec => []TypeOK
<1>1. Init => CountHolds
  BY DEF Init, CountHolds
<1>2. IInv /\ CountHolds => TypeOK
  <2> SUFFICES ASSUME IInv, CountHolds PROVE TypeOK
    OBVIOUS
  <2>1. client.seen <= NumEvents
    BY DEF IInv, AccessHolds, SessionTypeOK
  <2>2. client \in [sequence: Nat, previousRequest: Nat, previousResponse: Nat,
                    pending: Requests, closed: BOOLEAN, seen: 0..NumEvents]
    BY <2>1 DEF IInv, SessionTypeOK
  <2>3. \A i \in DOMAIN access : access[i] \in Accesses
    BY DEF IInv, SessionTypeOK
  <2>4. \A i \in DOMAIN journal : journal[i] \in JournalRecords
    BY DEF IInv, SessionTypeOK
  <2>5. revealed \in 0..NumEvents
    BY DEF IInv, SessionTypeOK, CountHolds
  <2> QED BY <2>2, <2>3, <2>4, <2>5 DEF IInv, SessionTypeOK, TypeOK, Accesses
<1> QED BY <1>1, <1>2, InvariantHolds, CountBounded, PTL DEF UnrulySpec

-----------------------------------------------------------------------------
(* What a step may do to what has been shown *)

\* Only these steps bring out an event, write a label or show the client more.
LEMMA ShownOnlyBy ==
    ASSUME IInv, [Next \/ OutOfTurn]_vars, ~Bootstrap, ~RunReveal
    PROVE  access' = access
<1>1. CASE EvaluatorStep
  BY <1>1 DEF EvaluatorStep, OpenJournal, OpenAccess, Ready, WriteHead, Receive, ProtocolAbort, EndOfSession,
              RunBootstrap, RunFinalize, ScoreStage, Finish, Reply, Abort, Refuse, disk
<1>2. CASE ~EvaluatorStep
  BY <1>2 DEF Next, Launch, Restart, Crash, Kill, SendBootstrap, SendFinalize, SendReveal, Request, Timeout,
              HangUp, StartFails, Accept, CloseClient, SealPhase, Predict, OutOfTurn, disk, vars
<1> QED BY <1>1, <1>2

\* Labels are written by seal_access_and_mature alone.
LEMMA ScoredOnlyBy ==
    ASSUME IInv, [Next \/ OutOfTurn]_vars, ~ScoreStage
    PROVE  scoring' = scoring
<1>1. CASE EvaluatorStep
  BY <1>1 DEF EvaluatorStep, OpenJournal, OpenAccess, Bootstrap, Ready, WriteHead, Receive, ProtocolAbort,
              EndOfSession, RunBootstrap, RunReveal, RunFinalize, Finish, Reply, Abort, Refuse, disk
<1>2. CASE ~EvaluatorStep
  BY <1>2 DEF Next, Launch, Restart, Crash, Kill, SendBootstrap, SendFinalize, SendReveal, Request, Timeout,
              HangUp, StartFails, Accept, CloseClient, SealPhase, Predict, OutOfTurn, disk, vars
<1> QED BY <1>1, <1>2

\* The prefix grows by an accepted response alone.
LEMMA SeenOnlyBy ==
    ASSUME IInv, [Next \/ OutOfTurn]_vars, ~Accept
    PROVE  client'.seen = client.seen
<1>1. CASE EvaluatorStep
  <2>1. client' = client \/ client' = [client EXCEPT !.closed = FALSE]
    BY <1>1 DEF EvaluatorStep, OpenJournal, OpenAccess, Bootstrap, Ready, WriteHead, Receive, ProtocolAbort,
                EndOfSession, RunBootstrap, RunReveal, RunFinalize, ScoreStage, Finish, Reply, Abort, Refuse,
                clientVars
  <2> QED BY <2>1 DEF IInv, SessionTypeOK
<1>2. ASSUME NEW operation, NEW c, Request(operation, c) PROVE client'.seen = client.seen
  <2>1. \E r : \/ client' = [client EXCEPT !.pending = r]
               \/ client' = [client EXCEPT !.pending = r, !.closed = TRUE]
    BY <1>2 DEF Request
  <2> QED BY <2>1 DEF IInv, SessionTypeOK
<1>3. CASE SendBootstrap \/ SendFinalize \/ \E c \in checkpoints \cup {NoCheckpoint} : SendReveal(c)
  BY <1>2, <1>3 DEF SendBootstrap, SendFinalize, SendReveal
<1>4. CASE \/ Launch \/ Restart \/ Crash \/ Kill \/ Timeout \/ HangUp \/ StartFails \/ CloseClient \/ SealPhase
           \/ (\E policy \in Policies : Predict(policy)) \/ OutOfTurn \/ UNCHANGED vars
  <2>1. client' = client \/ client' = [client EXCEPT !.closed = TRUE]
    BY <1>4 DEF Launch, Restart, Crash, Kill, Timeout, HangUp, StartFails, CloseClient, SealPhase, Predict,
                OutOfTurn, GivesUp, clientVars, vars
  <2> QED BY <2>1 DEF IInv, SessionTypeOK
<1> QED BY <1>1, <1>3, <1>4 DEF Next

\* Checkpoints are made by the prediction plane alone.
LEMMA CommittedOnlyBy ==
    ASSUME IInv, [Next \/ OutOfTurn]_vars, ~\E policy \in Policies : Predict(policy)
    PROVE  checkpoints' = checkpoints
<1>1. CASE EvaluatorStep
  BY <1>1 DEF EvaluatorStep, OpenJournal, OpenAccess, Bootstrap, Ready, WriteHead, Receive, ProtocolAbort,
              EndOfSession, RunBootstrap, RunReveal, RunFinalize, ScoreStage, Finish, Reply, Abort, Refuse, plane
<1>2. CASE ~EvaluatorStep
  BY <1>2 DEF Next, Launch, Restart, Crash, Kill, SendBootstrap, SendFinalize, SendReveal, Request, Timeout,
              HangUp, StartFails, Accept, CloseClient, SealPhase, OutOfTurn, plane, vars
<1> QED BY <1>1, <1>2

\* A session whose journal holds an ABORTED line or a protocol violation never reveals,
\* scores or shows anything again, whoever restarts it and whatever is sent to it.
THEOREM RefusedSessionsStayShut == UnrulySpec => RefusalIsFinal
<1>1. ASSUME IInv, [Next \/ OutOfTurn]_vars, Doomed
      PROVE  access' = access /\ scoring' = scoring /\ client'.seen = client.seen
  <2>1. At({"down", "journal", "refuse", "protocol"}) /\ toClient.status # "OK"
    BY <1>1 DEF IInv, DoomHolds
  <2>2. ~Bootstrap /\ ~RunReveal /\ ~ScoreStage
    BY <2>1 DEF At, Bootstrap, RunReveal, ScoreStage
  <2>3. Accept => client'.seen = client.seen
    <3>1. CASE Accept /\ Genuine(toClient)
      BY <2>1, <3>1 DEF Accept
    <3>2. CASE Accept /\ ~Genuine(toClient)
      <4>1. client' = [client EXCEPT !.closed = TRUE]
        BY <3>2 DEF Accept, GivesUp
      <4> QED BY <1>1, <4>1 DEF IInv, SessionTypeOK
    <3> QED BY <3>1, <3>2
  <2> QED BY <1>1, <2>2, <2>3, ShownOnlyBy, ScoredOnlyBy, SeenOnlyBy
<1>2. IInv /\ [Next \/ OutOfTurn]_vars =>
        [(\E i \in DOMAIN journal : journal[i].phase = "ABORTED" \/ journal[i].operation = "PROTOCOL")
            => access' = access /\ scoring' = scoring /\ client'.seen = client.seen]_vars
  BY <1>1 DEF Doomed
<1> QED BY <1>2, InvariantHolds, PTL DEF UnrulySpec, RefusalIsFinal

-----------------------------------------------------------------------------
(* The causal replay *)

RevealsNext ==
    Reveals!Next \/ UNCHANGED <<Len(access), client.seen, {c.origin : c \in checkpoints}, scoring >= 2>>

\* Every step of a session is one of the causal replay, or none.
LEMMA RevealsStep ==
    ASSUME IInv, [Next \/ OutOfTurn]_vars
    PROVE  RevealsNext
<1> DEFINE committed == {c.origin : c \in checkpoints}
<1>0. Len(access) \in Nat /\ client.seen \in Nat /\ scoring \in 0..4
  BY DEF IInv, SessionTypeOK
<1>1. CASE Bootstrap
  <2>1. client'.seen = client.seen /\ checkpoints' = checkpoints /\ scoring' = scoring
    BY <1>1 DEF Bootstrap, clientVars, plane
  <2>2. revealed = Len(access) /\ revealed < Context
    BY <1>1 DEF Bootstrap, IInv, MemoryHolds
  <2>3. Len(access') = Len(access) + 1 \/ access' = access
    <3>1. PICK x : x = [event |-> revealed, checkpoint |-> NoCheckpoint]
      OBVIOUS
    <3>2. x \in Accesses
      BY <1>0, <2>2, <3>1 DEF Accesses
    <3>3. access' = Append(access, x) \/ access' = access
      BY <1>1, <3>1 DEF Bootstrap, AccessAppend
    <3> QED BY <3>2, <3>3, AccessGrows DEF IInv, SessionTypeOK
  <2>4. CASE access' = access
    BY <2>1, <2>4 DEF RevealsNext
  <2>5. CASE Len(access') = Len(access) + 1
    <3>1. Reveals!Expose
      BY <2>1, <2>2, <2>5 DEF Reveals!Expose
    <3> QED BY <3>1 DEF RevealsNext, Reveals!Next
  <2> QED BY <2>3, <2>4, <2>5
<1>2. CASE RunReveal
  <2>1. client'.seen = client.seen /\ checkpoints' = checkpoints /\ scoring' = scoring
    BY <1>2 DEF RunReveal, clientVars, plane
  <2>2. CASE access' = access
    BY <2>1, <2>2 DEF RevealsNext
  <2>3. CASE access' # access
    <3>1. epc = "run" /\ req.operation = "REVEAL" /\ MayReveal(req.checkpoint)
      BY <1>2, <2>3 DEF RunReveal
    <3>2. /\ client.seen = Len(access) /\ revealed = Len(access) /\ Context <= Len(access)
          /\ Len(access) < NumEvents /\ CheckpointFor(req.checkpoint, Len(access) - 1)
          /\ req.checkpoint \in Checkpoints
      BY <3>1, RevealIsAsked
    <3>3. PICK x : x = [event |-> revealed, checkpoint |-> req.checkpoint]
      OBVIOUS
    <3>4. x \in Accesses
      BY <1>0, <3>2, <3>3 DEF Accesses
    <3>5. access' = Append(access, x)
      BY <1>2, <2>3, <3>3 DEF RunReveal, AccessAppend
    <3>6. Len(access') = Len(access) + 1
      BY <3>4, <3>5, AccessGrows DEF IInv, SessionTypeOK
    <3>7. Len(access) - 1 \in committed
      BY <3>2 DEF CheckpointFor
    <3>8. Reveals!Reveal
      BY <2>1, <3>2, <3>6, <3>7 DEF Reveals!Reveal
    <3> QED BY <3>8 DEF RevealsNext, Reveals!Next
  <2> QED BY <2>2, <2>3
<1>3. CASE ScoreStage
  <2>1. client'.seen = client.seen /\ checkpoints' = checkpoints /\ access' = access
    BY <1>3 DEF ScoreStage, clientVars, plane
  <2>2. CASE (scoring >= 2)' = (scoring >= 2)
    BY <2>1, <2>2 DEF RevealsNext
  <2>3. CASE (scoring >= 2)' # (scoring >= 2)
    <3>1. scoring' = scoring + 1
      BY <1>3, <2>3 DEF ScoreStage
    <3>2. (scoring >= 2)' = TRUE
      BY <1>0, <2>3, <3>1
    <3>3. /\ req.operation = "FINALIZE" /\ mode # "replay" /\ revealed = NumEvents
          /\ revealed = Len(access) /\ Last.phase = "IN_FLIGHT" /\ req = client.pending /\ req.id # 0
      BY <1>3 DEF ScoreStage, IInv, MemoryHolds, At, Serving
    <3>4. session = "live" /\ ~Refused
      BY <3>3 DEF IInv, RequestsHold, Refused
    <3>5. client.seen = NumEvents /\ Len(access) = NumEvents
      BY <3>3, <3>4 DEF IInv, ExchangeHolds, Behind
    <3>6. Reveals!Score
      BY <2>1, <3>2, <3>5 DEF Reveals!Score
    <3> QED BY <3>6 DEF RevealsNext, Reveals!Next
  <2> QED BY <2>2, <2>3
<1>4. CASE Accept
  <2>1. access' = access /\ checkpoints' = checkpoints /\ scoring' = scoring
    BY <1>4 DEF Accept, disk, plane
  <2>2. CASE client'.seen = client.seen
    BY <2>1, <2>2 DEF RevealsNext
  <2>3. CASE client'.seen # client.seen
    <3>1. /\ toClient.status = "OK" /\ toClient.id = client.pending.id /\ waiting /\ toClient # NoResponse
          /\ client'.seen = Learned(client.pending.operation, toClient.result)
      BY <1>4, <2>3, SMTT(40) DEF Accept, Genuine, GivesUp, IInv, SessionTypeOK
    <3>2. /\ client'.seen = Len(access) /\ Answered /\ session \in {"starting", "live"}
          /\ session = "starting" => Len(access) = Context
      BY <3>1, AcceptedAnswer
    <3>3. CASE session = "starting"
      <4>1. client.seen = 0
        BY <3>3 DEF IInv, AccessHolds
      <4>2. Reveals!Welcome
        BY <2>1, <3>2, <3>3, <4>1 DEF Reveals!Welcome
      <4> QED BY <4>2 DEF RevealsNext, Reveals!Next
    <3>4. CASE session = "live"
      <4>1. client.seen >= Context /\ Len(access) = client.seen + 1
        BY <2>3, <3>2, <3>4 DEF IInv, AccessHolds, Answered, Behind
      <4>2. client.seen < Len(access)
        BY <1>0, <4>1
      <4>3. Reveals!See
        BY <2>1, <3>2, <4>1, <4>2 DEF Reveals!See
      <4> QED BY <4>3 DEF RevealsNext, Reveals!Next
    <3> QED BY <3>2, <3>3, <3>4
  <2> QED BY <2>2, <2>3
<1>5. ASSUME NEW policy \in Policies, Predict(policy) PROVE RevealsNext
  <2>1. /\ client' = client /\ access' = access /\ scoring' = scoring /\ session = "live"
        /\ checkpoints' = checkpoints \cup {[origin |-> client.seen - 1, policy |-> policy]}
    BY <1>5 DEF Predict, disk, clientVars
  <2>2. {c.origin : c \in checkpoints'} = committed \cup {client.seen - 1}
    <3>1. PICK x : x = [origin |-> client.seen - 1, policy |-> policy]
      OBVIOUS
    <3>2. x.origin = client.seen - 1 /\ checkpoints' = checkpoints \cup {x}
      BY <2>1, <3>1
    <3>3. \A y : y \in {c.origin : c \in checkpoints'} <=> y \in committed \/ y = x.origin
      BY <3>2
    <3> QED BY <3>2, <3>3
  <2>3. client.seen > 0
    BY <1>0, <2>1 DEF IInv, AccessHolds
  <2>4. Reveals!Commit
    BY <2>1, <2>2, <2>3 DEF Reveals!Commit
  <2> QED BY <2>4 DEF RevealsNext, Reveals!Next
<1>6. CASE ~Bootstrap /\ ~RunReveal /\ ~ScoreStage /\ ~Accept /\ ~\E policy \in Policies : Predict(policy)
  <2>1. access' = access /\ scoring' = scoring /\ client'.seen = client.seen /\ checkpoints' = checkpoints
    BY <1>6, ShownOnlyBy, ScoredOnlyBy, SeenOnlyBy, CommittedOnlyBy
  <2> QED BY <2>1 DEF RevealsNext
<1> QED BY <1>1, <1>2, <1>3, <1>4, <1>5, <1>6

\* A session with processes, pipes, crashes, retries and frames out of turn shows what
\* the causal replay shows: an event only after a durable forecast from the event before,
\* and labels only when the client has seen the whole stream.
THEOREM SessionImplementsCausalReveal == UnrulySpec => ImplementsCausalReveal
<1>1. Init => Reveals!Init
  BY DEF Init, Reveals!Init, NewClient
<1>2. IInv /\ [Next \/ OutOfTurn]_vars => [Reveals!Next]_(Reveals!revealVars)
  BY RevealsStep DEF RevealsNext, Reveals!revealVars
<1> QED BY <1>1, <1>2, InvariantHolds, PTL DEF UnrulySpec, ImplementsCausalReveal, Reveals!Spec

-----------------------------------------------------------------------------
(* A client that follows _request *)

\* The request it holds is one the evaluator takes, whatever was lost.
LEMMA HeldRequestIsInOrder ==
    ASSUME IInv, OrderHolds, Receive
    PROVE  InOrder(toServer)
<1>1. toServer = client.pending /\ client.pending.id # 0 /\ toServer.operation \in Operations
  BY FrameTaken DEF OrderHolds, Receive
<1>2. /\ client.pending.sequence = client.sequence /\ client.pending.previous = client.previousRequest
      /\ client.pending.id > client.previousRequest
      /\ client.pending.operation # "BOOTSTRAP" => session = "live"
  BY <1>1 DEF IInv, RequestsHold
<1>3. /\ ~Doomed /\ journal # <<>> /\ (\A i \in Completed : journal[i].operation # "FINALIZE")
  BY FrameTaken
<1>4. Last \in JournalRecords /\ Len(journal) \in DOMAIN journal /\ Last = journal[Len(journal)]
  BY <1>3, LastType DEF IInv, Last
<1>5. client.pending.id \in Nat /\ client.previousRequest \in Nat
  BY DEF IInv, SessionTypeOK, Requests
<1>6. CASE Between
  <2>1. \A i \in DOMAIN journal : journal[i].request.id # client.pending.id
    BY <1>1, <1>6 DEF Between
  <2>2. ~Unresolved /\ ~Recovering(toServer)
    BY <1>3, <1>6 DEF Between, Unresolved, Recovering
  <2>3. ~Replaying(toServer)
    <3>1. SUFFICES ASSUME Completed # {}, LastCompleted.request = client.pending PROVE FALSE
      BY <1>1 DEF Replaying
    <3>2. PICK i \in Completed : \A j \in Completed : j <= i
      BY <3>1, LastCompletedExists DEF IInv, SessionTypeOK
    <3>3. LastCompleted = journal[i] /\ i \in DOMAIN journal
      BY <3>2, LastCompletedIs DEF IInv, SessionTypeOK, Completed
    <3> QED BY <2>1, <3>1, <3>3
  <2>4. toServer.sequence = ExpectedSequence /\ toServer.previous = PreviousRequest
    BY <1>1, <1>2, <1>6 DEF Between
  <2>5. IF toServer.operation = "BOOTSTRAP" THEN Completed = {}
        ELSE /\ \E i \in Completed : journal[i].operation = "BOOTSTRAP"
             /\ \A i \in Completed : journal[i].operation # "FINALIZE"
    BY <1>1, <1>2, <1>3 DEF OrderHolds, IInv, JournalHolds
  <2> QED BY <1>1, <2>1, <2>2, <2>3, <2>4, <2>5 DEF InOrder
<1>7. CASE InFlight
  <2>1. Recovering(toServer)
    BY <1>1, <1>7 DEF InFlight, Recovering, Unresolved
  <2>2. ~Replaying(toServer)
    BY <1>1, <1>2, <1>5, <1>7 DEF InFlight, Replaying, PreviousRequest
  <2> QED BY <2>1, <2>2 DEF InOrder
<1>8. CASE Answered
  <2>1. Replaying(toServer) /\ Completed # {}
    BY <1>1, <1>8, LastIsLatest DEF IInv, Answered, Replaying
  <2>2. ~Unresolved
    BY <1>8 DEF Answered, Unresolved
  <2>3. Len(journal) \in Completed
    BY <1>4, <1>8 DEF Answered, Completed
  <2>4. Last.operation = toServer.operation
    BY <1>1, <1>3, <1>4, <1>8 DEF Answered, IInv, JournalHolds, Doomed
  <2>5. toServer.operation = "REVEAL"
    BY <1>1, <1>3, <1>4, <2>1, <2>3, <2>4 DEF OrderHolds, Operations
  <2> QED BY <2>1, <2>2, <2>5 DEF InOrder
<1> QED BY <1>3, <1>6, <1>7, <1>8 DEF IInv, ExchangeHolds

\* A step that adds no line and sends no frame.
LEMMA OrderFrame ==
    ASSUME OrderHolds, UNCHANGED journal, ~At({"protocol"})',
           toServer' = NoRequest \/ (toServer' = toServer /\ client'.pending = client.pending)
    PROVE  OrderHolds'
BY JournalStays DEF OrderHolds, NoRequest

\* A step that adds one.
LEMMA OrderLine ==
    ASSUME IInv, OrderHolds, NEW x \in JournalRecords, x.operation # "PROTOCOL",
           journal' = journal \/ journal' = Append(journal, x), ~At({"protocol"})',
           \/ toServer' = NoRequest
           \/ toServer' = toServer /\ client'.pending = client.pending /\ x.phase # "COMPLETED"
    PROVE  OrderHolds'
<1>1. CASE journal' = journal
  BY <1>1, OrderFrame
<1>2. CASE journal' = Append(journal, x)
  <2>1. \A i \in DOMAIN journal' : journal'[i] = x \/ (i \in DOMAIN journal /\ journal'[i] = journal[i])
    BY <1>2, JournalGrows DEF IInv, SessionTypeOK
  <2>2. x.phase # "COMPLETED" => Completed' = Completed
    BY <1>2, JournalGrows DEF IInv, SessionTypeOK
  <2> QED BY <2>1, <2>2 DEF OrderHolds, NoRequest
<1> QED BY <1>1, <1>2

\* No step of the evaluator breaks the order of such a client,
LEMMA OrderEvaluator ==
    ASSUME IInv, OrderHolds, EvaluatorStep
    PROVE  OrderHolds'
<1>1. CASE OpenJournal
  <2>1. PICK x : x = [phase |-> "INIT", operation |-> "NONE", request |-> NoRequest, result |-> 0]
    OBVIOUS
  <2>2. x \in JournalRecords /\ x.phase = "INIT" /\ x.operation = "NONE"
    BY <2>1, NoRequestType DEF JournalRecords
  <2>3. journal' = journal \/ journal' = Append(journal, x)
    BY <1>1, <2>1 DEF OpenJournal, JournalAppend
  <2>4. ~At({"protocol"})' /\ UNCHANGED <<toServer, client>>
    BY <1>1 DEF OpenJournal, JournalAppend, Exit, At, pipe, clientVars
  <2> QED BY <2>2, <2>3, <2>4, OrderLine
<1>2. CASE OpenAccess \/ Bootstrap \/ WriteHead \/ EndOfSession
  <2>1. UNCHANGED <<journal, toServer, client>>
    BY <1>2 DEF OpenAccess, Bootstrap, WriteHead, EndOfSession, disk, pipe, clientVars
  <2>2. ~At({"protocol"})'
    <3>1. CASE OpenAccess \/ EndOfSession
      BY <3>1 DEF OpenAccess, EndOfSession, Exit, At
    <3>2. CASE Bootstrap
      BY <3>2 DEF Bootstrap, AccessAppend, At
    <3>3. CASE WriteHead
      <4>1. epc = "head" /\ UNCHANGED cont /\ epc' \in {cont, "abort", "down"}
        BY <3>3 DEF WriteHead
      <4> QED BY <4>1 DEF OrderHolds, At
    <3> QED BY <1>2, <3>1, <3>2, <3>3
  <2> QED BY <2>1, <2>2, OrderFrame
<1>3. CASE Ready
  BY <1>3, OrderFrame DEF Ready, disk, At
<1>4. CASE Receive
  <2>1. InOrder(toServer)
    BY <1>4, HeldRequestIsInOrder
  <2>2. PICK x : x = Entry("IN_FLIGHT", toServer, 0)
    OBVIOUS
  <2>3. x \in JournalRecords
    BY <2>2, EntryType DEF IInv, SessionTypeOK
  <2>4. x.operation # "PROTOCOL"
    BY <1>4, <2>2 DEF Entry, Receive, Operations
  <2>5. journal' = journal \/ journal' = Append(journal, x)
    BY <1>4, <2>2 DEF Receive, JournalAppend
  <2>6. ~At({"protocol"})'
    BY <1>4, <2>1 DEF Receive, JournalAppend, At
  <2> QED BY <1>4, <2>3, <2>4, <2>5, <2>6, FrameTaken, OrderLine
<1>5. CASE ProtocolAbort
  BY <1>5 DEF ProtocolAbort, OrderHolds, At
<1>6. CASE RunBootstrap \/ RunReveal \/ RunFinalize \/ ScoreStage
  <2>1. UNCHANGED <<journal, toServer, client>>
    BY <1>6 DEF RunBootstrap, RunReveal, RunFinalize, ScoreStage, disk, pipe, clientVars
  <2>2. ~At({"protocol"})'
    BY <1>6 DEF RunBootstrap, RunReveal, RunFinalize, ScoreStage, AccessAppend, Reject, At
  <2> QED BY <2>1, <2>2, OrderFrame
<1>7. CASE Reply \/ Refuse
  <2>1. UNCHANGED <<journal, toServer, client>>
    BY <1>7 DEF Reply, Refuse, disk, pipe, clientVars
  <2>2. ~At({"protocol"})'
    BY <1>7 DEF Reply, Refuse, Reject, Exit, At
  <2> QED BY <2>1, <2>2, OrderFrame
<1>8. CASE Finish \/ Abort
  <2>1. epc \in {"finish", "abort"} /\ toServer' = toServer
    BY <1>8 DEF Finish, Abort, pipe
  <2>2. toServer = NoRequest
    BY <2>1 DEF IInv, BusyHolds, Busy, At, Serving
  <2>3. \E x \in JournalRecords : x.operation # "PROTOCOL" /\ (journal' = journal \/ journal' = Append(journal, x))
    <3>1. req \in Requests /\ result \in Nat /\ req.operation # "PROTOCOL"
      BY DEF IInv, SessionTypeOK, Requests, Operations
    <3>2. Entry("COMPLETED", req, result) \in JournalRecords /\ Entry("ABORTED", req, 0) \in JournalRecords
      BY <3>1, EntryType
    <3>3. Entry("COMPLETED", req, result).operation # "PROTOCOL" /\ Entry("ABORTED", req, 0).operation # "PROTOCOL"
      BY <3>1 DEF Entry
    <3>4. \/ journal' = journal
          \/ journal' = Append(journal, Entry("COMPLETED", req, result))
          \/ journal' = Append(journal, Entry("ABORTED", req, 0))
      BY <1>8 DEF Finish, Abort, JournalAppend
    <3> QED BY <3>2, <3>3, <3>4
  <2>4. ~At({"protocol"})'
    BY <1>8 DEF Finish, Abort, JournalAppend, At
  <2> QED BY <2>1, <2>2, <2>3, <2>4, OrderLine
<1> QED BY <1>1, <1>2, <1>3, <1>4, <1>5, <1>6, <1>7, <1>8 DEF EvaluatorStep

\* nor does a request, new or sent again,
LEMMA OrderRequest ==
    ASSUME IInv, OrderHolds, NEW operation, NEW c, Request(operation, c),
           operation = "BOOTSTRAP" => session = "starting" /\ client.pending = NoRequest,
           session = "live" \/ epc = "idle"
    PROVE  OrderHolds'
<1>1. PICK new : new = [id |-> ids + 1, sequence |-> client.sequence, operation |-> operation,
                        checkpoint |-> c, previous |-> client.previousRequest]
  OBVIOUS
<1>2. PICK r : r = IF client.pending = NoRequest THEN new ELSE client.pending
  OBVIOUS
<1>3. /\ Usable /\ r.operation = operation /\ UNCHANGED <<journal, epc, cont>>
      /\ \/ toServer' = r /\ client' = [client EXCEPT !.pending = r]
         \/ toServer' = toServer
  BY <1>1, <1>2 DEF Request, disk
<1>4. toServer = NoRequest /\ ~Doomed
  BY <1>3, SenderFacesRest
<1>5. toServer' = NoRequest \/ (toServer' = r /\ client'.pending = r)
  BY <1>3, <1>4 DEF IInv, SessionTypeOK
<1>6. operation = "BOOTSTRAP" => Completed = {}
  <2> SUFFICES ASSUME operation = "BOOTSTRAP" PROVE Completed = {}
    OBVIOUS
  <2>1. client.sequence = 0 /\ client.pending.id = 0
    BY DEF IInv, RequestsHold, NoRequest
  <2>2. Between
    BY <1>4, <2>1 DEF IInv, ExchangeHolds, InFlight, Answered
  <2>3. Cardinality(Completed) = 0 /\ IsFiniteSet(Completed)
    BY <2>1, <2>2, CompletedFinite DEF Between, ExpectedSequence, IInv, SessionTypeOK
  <2> QED BY <2>3, FS_EmptySet
<1>7. ~At({"protocol"})'
  BY <1>3 DEF OrderHolds, At
<1> QED BY <1>3, <1>5, <1>6, <1>7, JournalStays DEF OrderHolds, NoRequest

\* nor any other step.
LEMMA OrderStep ==
    ASSUME IInv, OrderHolds, [Next]_vars
    PROVE  OrderHolds'
<1>1. CASE EvaluatorStep
  BY <1>1, OrderEvaluator
<1>2. CASE Launch \/ Restart \/ Crash \/ Kill
  <2>1. UNCHANGED <<journal, toServer, client>> /\ epc' \in {"journal", "down"}
    BY <1>2 DEF Launch, Restart, Crash, Kill, Exit, disk, pipe, clientVars
  <2> QED BY <2>1, OrderFrame DEF At
<1>3. CASE SendBootstrap
  BY <1>3, OrderRequest DEF SendBootstrap
<1>4. CASE SendFinalize \/ \E c \in checkpoints \cup {NoCheckpoint} : SendReveal(c)
  BY <1>4, OrderRequest DEF SendFinalize, SendReveal
<1>5. CASE Timeout \/ HangUp \/ StartFails \/ CloseClient
  <2>1. UNCHANGED <<journal, toServer, cont>> /\ epc' \in {epc, "down"}
    BY <1>5 DEF Timeout, HangUp, StartFails, CloseClient, Lost, disk, pipe
  <2>2. client' = client \/ client' = [client EXCEPT !.closed = TRUE]
    BY <1>5 DEF Timeout, HangUp, StartFails, CloseClient, GivesUp
  <2>3. client'.pending = client.pending
    BY <2>2 DEF IInv, SessionTypeOK
  <2>4. ~At({"protocol"})'
    BY <2>1 DEF OrderHolds, At
  <2> QED BY <2>1, <2>3, <2>4, OrderFrame
<1>6. CASE Accept
  <2>1. /\ UNCHANGED <<journal, toServer, cont>> /\ epc' \in {epc, "down"} /\ toClient # NoResponse
    BY <1>6 DEF Accept, Lost, disk
  <2>2. toServer = NoRequest
    BY <2>1 DEF IInv, PipeHolds
  <2>3. ~At({"protocol"})'
    BY <2>1 DEF OrderHolds, At
  <2> QED BY <2>1, <2>2, <2>3, OrderFrame
<1>7. CASE SealPhase \/ (\E policy \in Policies : Predict(policy)) \/ UNCHANGED vars
  <2>1. UNCHANGED <<journal, toServer, client, epc, cont>>
    BY <1>7 DEF SealPhase, Predict, vars, disk, pipe, clientVars
  <2>2. ~At({"protocol"})'
    BY <2>1 DEF OrderHolds, At
  <2> QED BY <2>1, <2>2, OrderFrame
<1> QED BY <1>1, <1>2, <1>3, <1>4, <1>5, <1>6, <1>7 DEF Next

\* The journal and the ACCESS ledger agree and pass verify_access_barrier in every state,
\* and a client that follows _request is never thrown out for a protocol violation,
\* whatever was lost, repeated or torn.
THEOREM LedgersAgree == Spec => []LedgersStayOrderly
<1>1. Init => OrderHolds
  BY DEF Init, OrderHolds, At, NoRequest
<1>2. Spec => []OrderHolds
  BY <1>1, OrderStep, OrderlyIsUnruly, InvariantHolds, PTL DEF Spec
<1>3. IInv /\ OrderHolds => LedgersStayOrderly
  <2> SUFFICES ASSUME IInv, OrderHolds PROVE LedgersStayOrderly
    OBVIOUS
  <2> DEFINE used == {access[i].checkpoint : i \in DOMAIN access} \ {NoCheckpoint}
             done == {journal[i].request.checkpoint : i \in Completed} \ {NoCheckpoint}
  <2>1. AccessBarrier
    <3> SUFFICES ASSUME NEW i \in DOMAIN access
                 PROVE  /\ access[i].event = i - 1
                        /\ IF i <= Context THEN access[i].checkpoint = NoCheckpoint
                           ELSE /\ CheckpointFor(access[i].checkpoint, i - 2)
                                /\ UsedBy(access[i].checkpoint) = {i}
      BY DEF AccessBarrier
    <3>1. /\ access[i].event = i - 1
          /\ IF i <= Context THEN access[i].checkpoint = NoCheckpoint
             ELSE CheckpointFor(access[i].checkpoint, i - 2)
      BY DEF IInv, AccessHolds
    <3>2. CASE i <= Context
      BY <3>1, <3>2
    <3>3. CASE ~(i <= Context)
      <4>1. access[i].checkpoint # NoCheckpoint
        BY <3>1, <3>3 DEF CheckpointFor, IInv, SessionTypeOK, Checkpoints
      <4>2. \A j \in DOMAIN access : access[j].checkpoint = access[i].checkpoint => j = i
        BY <4>1, ShownOnce
      <4>3. UsedBy(access[i].checkpoint) = {i}
        BY <4>1, <4>2 DEF UsedBy
      <4> QED BY <3>1, <3>3, <4>3
    <3> QED BY <3>2, <3>3
  <2>2. done \subseteq used
    <3> SUFFICES ASSUME NEW i \in Completed, journal[i].request.checkpoint # NoCheckpoint
                 PROVE  \E k \in DOMAIN access : access[k].checkpoint = journal[i].request.checkpoint
      OBVIOUS
    <3> QED BY DEF Completed, IInv, JournalHolds
  <2>3. journal # <<>> => used \subseteq done \cup {Last.request.checkpoint}
    BY DEF IInv, JournalHolds
  <2>4. \A i \in DOMAIN journal : journal[i].operation # "PROTOCOL"
    BY DEF OrderHolds
  <2> QED BY <2>1, <2>2, <2>3, <2>4 DEF LedgersStayOrderly
<1> QED BY <1>2, <1>3, OrderlyIsUnruly, InvariantHolds, PTL
=============================================================================
