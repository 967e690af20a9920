------------------------- MODULE Stress2ReplayProofs -------------------------
(***************************************************************************)
(* Machine-checked proofs about the Stress-2 baseline run, for every       *)
(* number of invocations, units and events, every request and every set of *)
(* faults.                                                                 *)
(*                                                                         *)
(* The first part says what FlattenSeq, with which the rows of an origin   *)
(* are put in a row, makes of a sequence of sequences.                     *)
(***************************************************************************)
EXTENDS Stress2Replay, TLAPS, WellFoundedInduction, NaturalsInduction

-----------------------------------------------------------------------------
(* Sequences *)

\* Induction over the naturals, as a statement about a set G.
LEMMA CountingUp ==
    ASSUME NEW G, 0 \in G, \A n \in Nat : n \in G => n + 1 \in G
    PROVE  \A n \in Nat : n \in G
<1> DEFINE Bad == Nat \ G
<1>1. SUFFICES ASSUME Bad # {} PROVE FALSE
  OBVIOUS
<1>2. PICK n \in Bad : \A m \in Bad : ~(<<m, n>> \in OpToRel(<, Nat))
  <2>1. Bad \subseteq Nat
    OBVIOUS
  <2> HIDE DEF Bad
  <2> QED BY <1>1, <2>1, NatLessThanWellFounded, WFMin, Zenon
<1>3. \A m \in Nat : m < n => m \in G
  BY <1>2 DEF OpToRel
<1>4. n # 0 /\ n - 1 \in Nat /\ n - 1 < n /\ (n - 1) + 1 = n
  <2>1. n \in Nat /\ n # 0
    OBVIOUS
  <2> QED BY <2>1
<1>5. n - 1 \in G
  BY <1>3, <1>4
<1> QED BY <1>4, <1>5

\* What is added at the end of a file, row by row or as a batch.
LEMMA Growth ==
    ASSUME NEW S, NEW s \in Seq(S), NEW t \in Seq(S)
    PROVE  /\ s \o t \in Seq(S) /\ Len(s \o t) = Len(s) + Len(t)
           /\ \A i \in DOMAIN s : i \in DOMAIN (s \o t) /\ (s \o t)[i] = s[i]
           /\ \A k \in 1..Len(t) : (s \o t)[Len(s) + k] = t[k]
           /\ ToSet(s \o t) = ToSet(s) \cup ToSet(t)
<1>1. /\ s \o t \in Seq(S) /\ Len(s \o t) = Len(s) + Len(t) /\ Len(s) \in Nat /\ Len(t) \in Nat
      /\ DOMAIN s = 1..Len(s) /\ DOMAIN t = 1..Len(t) /\ DOMAIN (s \o t) = 1..(Len(s) + Len(t))
  OBVIOUS
<1>2. \A i \in DOMAIN s : i \in DOMAIN (s \o t) /\ (s \o t)[i] = s[i]
  BY <1>1
<1>3. ASSUME NEW k \in 1..Len(t) PROVE Len(s) + k \in DOMAIN (s \o t) /\ (s \o t)[Len(s) + k] = t[k]
  <2>1. Len(s) + k \in 1..(Len(s) + Len(t)) /\ ~(Len(s) + k <= Len(s)) /\ (Len(s) + k) - Len(s) = k
    BY <1>1
  <2> QED BY <1>1, <2>1
<1>4. ASSUME NEW i \in DOMAIN (s \o t)
      PROVE  i \in DOMAIN s \/ \E k \in 1..Len(t) : i = Len(s) + k
  <2>1. CASE i <= Len(s)
    BY <1>1, <2>1
  <2>2. CASE ~(i <= Len(s))
    <3>1. i - Len(s) \in 1..Len(t) /\ i = Len(s) + (i - Len(s))
      BY <1>1, <2>2
    <3> QED BY <3>1
  <2> QED BY <2>1, <2>2
<1>5. ToSet(s \o t) \subseteq ToSet(s) \cup ToSet(t)
  <2> HIDE <1>1
  <2>1. ASSUME NEW i \in DOMAIN (s \o t) PROVE (s \o t)[i] \in ToSet(s) \cup ToSet(t)
    <3>1. CASE i \in DOMAIN s
      BY <1>2, <3>1 DEF ToSet
    <3>2. CASE \E k \in 1..Len(t) : i = Len(s) + k
      <4>1. PICK k \in 1..Len(t) : i = Len(s) + k
        BY <3>2
      <4>2. k \in DOMAIN t
        BY <1>1
      <4> QED BY <1>3, <4>1, <4>2 DEF ToSet
    <3> QED BY <1>4, <3>1, <3>2
  <2> QED BY <2>1 DEF ToSet
<1>6. ToSet(s) \cup ToSet(t) \subseteq ToSet(s \o t)
  BY <1>1, <1>2, <1>3 DEF ToSet
<1> QED BY <1>1, <1>2, <1>3, <1>5, <1>6

\* The same for one record.
LEMMA AppendGrowth ==
    ASSUME NEW S, NEW s \in Seq(S), NEW x \in S
    PROVE  /\ Append(s, x) \in Seq(S) /\ Len(Append(s, x)) = Len(s) + 1 /\ Len(s) \in Nat
           /\ DOMAIN s = 1..Len(s) /\ DOMAIN Append(s, x) = DOMAIN s \cup {Len(s) + 1}
           /\ \A i \in DOMAIN s : Append(s, x)[i] = s[i]
           /\ Append(s, x)[Len(s) + 1] = x
           /\ ToSet(Append(s, x)) = ToSet(s) \cup {x}
<1>1. /\ Append(s, x) \in Seq(S) /\ Len(Append(s, x)) = Len(s) + 1 /\ Len(s) \in Nat
      /\ DOMAIN s = 1..Len(s) /\ DOMAIN Append(s, x) = 1..(Len(s) + 1)
      /\ \A i \in DOMAIN s : Append(s, x)[i] = s[i]
      /\ Append(s, x)[Len(s) + 1] = x
  OBVIOUS
<1>2. DOMAIN Append(s, x) = DOMAIN s \cup {Len(s) + 1}
  BY <1>1
<1>3. ToSet(Append(s, x)) = ToSet(s) \cup {x}
  BY <1>1, <1>2, Zenon DEF ToSet
<1> QED BY <1>1, <1>2, <1>3

\* f is the recursive function behind FlattenSeq, on the first n sequences.
Flattens(f, seqs, n) ==
    f = [i \in 1..n |-> IF i = 1 THEN seqs[i] ELSE f[i - 1] \o seqs[i]]

\* Such a function exists,
LEMMA FlattenExists ==
    ASSUME NEW seqs, NEW n \in Nat
    PROVE  \E f : Flattens(f, seqs, n)
<1> DEFINE G == {k \in Nat : \E f : Flattens(f, seqs, k)}
<1>1. 0 \in G
  <2>1. 1..0 = {}
    OBVIOUS
  <2>2. Flattens([i \in {} |-> 0], seqs, 0)
    BY <2>1 DEF Flattens
  <2> QED BY <2>2
<1>2. ASSUME NEW k \in Nat, k \in G PROVE k + 1 \in G
  <2>1. PICK f : Flattens(f, seqs, k)
    BY <1>2
  <2> DEFINE g == [i \in 1..(k + 1) |-> IF i = 1 THEN seqs[i] ELSE f[i - 1] \o seqs[i]]
  <2>2. \A i \in 1..k : i \in 1..(k + 1) /\ g[i] = f[i]
    <3> TAKE i \in 1..k
    <3>1. i \in 1..(k + 1)
      OBVIOUS
    <3>2. f[i] = IF i = 1 THEN seqs[i] ELSE f[i - 1] \o seqs[i]
      BY <2>1, Zenon DEF Flattens
    <3>3. g[i] = IF i = 1 THEN seqs[i] ELSE f[i - 1] \o seqs[i]
      BY <3>1, Zenon
    <3> HIDE DEF g
    <3> QED BY <3>1, <3>2, <3>3, Zenon
  <2>3. \A i \in 1..(k + 1) : i # 1 => g[i - 1] = f[i - 1]
    <3> HIDE DEF g
    <3> TAKE i \in 1..(k + 1)
    <3>1. i # 1 => i - 1 \in 1..k
      OBVIOUS
    <3> QED BY <2>2, <3>1
  <2>4. g = [i \in 1..(k + 1) |-> IF i = 1 THEN seqs[i] ELSE g[i - 1] \o seqs[i]]
    BY <2>3
  <2>5. Flattens(g, seqs, k + 1)
    <3> HIDE DEF g
    <3> QED BY <2>4 DEF Flattens
  <2> HIDE DEF g
  <2> QED BY <2>5
<1> HIDE DEF G
<1>3. n \in G
  BY <1>1, <1>2, CountingUp
<1> QED BY <1>3 DEF G

\* and it collects the elements, in a sequence.
LEMMA FlattenCollects ==
    ASSUME NEW S, NEW seqs \in Seq(Seq(S)), NEW f, Flattens(f, seqs, Len(seqs))
    PROVE  \A k \in 1..Len(seqs) :
              f[k] \in Seq(S) /\ ToSet(f[k]) = UNION {ToSet(seqs[i]) : i \in 1..k}
<1> DEFINE Good(k) == f[k] \in Seq(S) /\ ToSet(f[k]) = UNION {ToSet(seqs[i]) : i \in 1..k}
           G == {k \in Nat : k \in 1..Len(seqs) => Good(k)}
<1>1. 0 \in G
  OBVIOUS
<1>2. ASSUME NEW k \in Nat, k \in G PROVE k + 1 \in G
  <2> SUFFICES ASSUME k + 1 \in 1..Len(seqs) PROVE Good(k + 1)
    OBVIOUS
  <2>1. seqs[k + 1] \in Seq(S)
    OBVIOUS
  <2>2. f[k + 1] = IF k + 1 = 1 THEN seqs[k + 1] ELSE f[(k + 1) - 1] \o seqs[k + 1]
    BY DEF Flattens
  <2>3. CASE k = 0
    <3>1. 1..(k + 1) = {k + 1}
      BY <2>3
    <3>2. f[k + 1] = seqs[k + 1]
      BY <2>2, <2>3
    <3>3. UNION {ToSet(seqs[i]) : i \in {k + 1}} = ToSet(seqs[k + 1])
      BY Zenon
    <3>4. UNION {ToSet(seqs[i]) : i \in 1..(k + 1)} = ToSet(seqs[k + 1])
      BY <3>1, <3>3, Zenon
    <3>5. f[k + 1] \in Seq(S)
      BY <2>1, <3>2
    <3> QED BY <3>2, <3>4, <3>5, Zenon
  <2>4. CASE k # 0
    <3>0. k \in 1..Len(seqs) /\ k + 1 # 1 /\ (k + 1) - 1 = k
      BY <2>4
    <3>1. k \in 1..Len(seqs) /\ f[k + 1] = f[k] \o seqs[k + 1]
      BY <2>2, <3>0, Zenon
    <3>2. Good(k)
      BY <1>2, <3>1
    <3>3. f[k + 1] \in Seq(S) /\ ToSet(f[k + 1]) = ToSet(f[k]) \cup ToSet(seqs[k + 1])
      BY <2>1, <3>1, <3>2, Growth
    <3>4. 1..(k + 1) = (1..k) \cup {k + 1}
      BY <2>4
    <3> HIDE DEF G
    <3> QED BY <3>2, <3>3, <3>4
  <2> QED BY <2>3, <2>4
<1>3. \A k \in Nat : k \in G
  <2> HIDE DEF G
  <2> QED BY <1>1, <1>2, CountingUp
<1> HIDE DEF Good
<1>4. \A k \in 1..Len(seqs) : Good(k)
  BY <1>3
<1> QED BY <1>4 DEF Good

\* FlattenSeq puts the elements of all its sequences in one.
LEMMA FlattenSeqSet ==
    ASSUME NEW S, NEW seqs \in Seq(Seq(S))
    PROVE  FlattenSeq(seqs) \in Seq(S) /\ ToSet(FlattenSeq(seqs)) = UNION {ToSet(seqs[i]) : i \in DOMAIN seqs}
<1>1. CASE Len(seqs) = 0
  <2>1. seqs = <<>> /\ FlattenSeq(seqs) = <<>>
    BY <1>1 DEF FlattenSeq
  <2>2. DOMAIN seqs = {}
    BY <2>1
  <2>3. <<>> \in Seq(S) /\ DOMAIN <<>> = {}
    OBVIOUS
  <2>4. ToSet(FlattenSeq(seqs)) = {}
    BY <2>1, <2>3, Zenon DEF ToSet
  <2> QED BY <2>1, <2>2, <2>3, <2>4, Zenon
<1>2. CASE Len(seqs) # 0
  <2> DEFINE n == Len(seqs)
             P(f) == f = [i \in 1..n |-> IF i = 1 THEN seqs[i] ELSE f[i - 1] \o seqs[i]]
             flatten == CHOOSE f : P(f)
  <2>1. FlattenSeq(seqs) = flatten[n]
    BY <1>2 DEF FlattenSeq
  <2>2. n \in Nat /\ n \in 1..n /\ DOMAIN seqs = 1..n
    BY <1>2
  <2>3. \E f : P(f)
    BY <2>2, FlattenExists DEF Flattens
  <2>4. P(flatten)
    <3> HIDE DEF P
    <3> QED BY <2>3
  <2>5. Flattens(flatten, seqs, n)
    <3> HIDE DEF flatten
    <3> QED BY <2>4 DEF Flattens
  <2> HIDE DEF flatten, P
  <2>6. flatten[n] \in Seq(S) /\ ToSet(flatten[n]) = UNION {ToSet(seqs[i]) : i \in 1..n}
    <3>1. \A k \in 1..n : flatten[k] \in Seq(S) /\ ToSet(flatten[k]) = UNION {ToSet(seqs[i]) : i \in 1..k}
      <4>1. Flattens(flatten, seqs, Len(seqs))
        BY <2>5
      <4> QED BY <4>1, FlattenCollects, ZenonT(40)
    <3> QED BY <2>2, <3>1, Zenon
  <2> QED BY <2>1, <2>2, <2>6, Zenon
<1> QED BY <1>1, <1>2

-----------------------------------------------------------------------------
(* The inductive invariant *)

\* The row that _predict_revealed_origin writes for a model and a horizon, and
\* the rows it writes for an origin, in whatever order.
RowOf(u, o, h, m) ==
    [unit |-> u, origin |-> o, horizon |-> h, model |-> m, status |-> PredictionStatus(u, o, h, m)]

RowSet(u, o) ==
    {RowOf(u, o, w[1], w[2]) :
        w \in {h \in ToSet(request.horizons) : Fits(o, h)} \X ToSet(request.models)}

\* The origins before origin x of unit u in the order of the replay, and what
\* the ledger holds of them.
Past(u, x) ==
    {w \in Units \X ((request.context - 1)..(N - 2)) : w[1] < u \/ (w[1] = u /\ w[2] < x)}

Covered(u, x) == UNION {RowSet(w[1], w[2]) : w \in Past(u, x)}

CheckpointRecords == [unit : Units, origin : 0..(N - 2), first : Nat, last : Nat]
AccessRecords == [unit : Units, event : 0..(N - 1), bootstrap : BOOLEAN, checkpoint : Nat]
Invocations == [at : Points, unit : 1..(LastUnit + 1), read : 0..N]

ReplayTypeOK ==
    /\ request \in [context : Contexts, horizons : Horizons, models : Models]
    /\ faults \subseteq Faults /\ created \in BOOLEAN
    /\ ledger \in Seq(Rows) /\ checkpoints \in Seq(CheckpointRecords) /\ access \in Seq(AccessRecords)
    /\ \A row \in ToSet(ledger) : row.origin + row.horizon < N
    /\ published \subseteq ToSet(Publishing)
    /\ proc \in [Procs -> Invocations]

Loop == {"unit", "reveal", "read", "predict", "commit"}
Closing == {"seal", "barrier", "mature"}
Scoring == {"tables", "summary", "manifest", "complete"}
Working == Loop \cup Closing \cup Scoring

\* Exclusive creation: the invocation that made the ledger is the only one
\* that gets past it.
OwnersHold ==
    /\ \A p, q \in Procs : proc[p].at \in Working /\ proc[q].at \in Working => p = q
    /\ ~created => ledger = <<>> /\ checkpoints = <<>> /\ published = {}

\* Where an invocation stands in the stream.
PlaceHolds(p) ==
    /\ proc[p].at \in {"check", "open"} => proc[p].unit = 1
    /\ proc[p].at \in {"check", "open", "unit"} => proc[p].read = 0
    /\ proc[p].at \in Loop \ {"unit"} =>
          proc[p].unit \in Units /\ request.context <= N /\ proc[p].read < N
    /\ proc[p].at \in {"predict", "commit"} => request.context <= proc[p].read
    /\ proc[p].at \in Working \ Loop => proc[p].unit = LastUnit + 1

\* The event that an invocation is about to read, and the ones it has read, are
\* on record.
OnRecord(p) ==
    \A e \in Nat : e < proc[p].read \/ (e = proc[p].read /\ proc[p].at = "read") =>
        \E a \in ToSet(access) : a.unit = proc[p].unit /\ a.event = e

KeyOf(row) == <<row.unit, row.origin, row.horizon, row.model>>

\* The keys of a part of the ledger.
Keys(first, last) == {KeyOf(ledger[k]) : k \in first .. last}

\* What the ledger holds while somebody works on it: the rows of the origins
\* predicted so far, the last of them perhaps without a checkpoint.
WriterHolds(p) ==
    /\ \A u \in 1..(LastUnit + 1), x \in Int :
          proc[p].unit = u /\ x = (IF proc[p].at = "predict" THEN proc[p].read - 1 ELSE proc[p].read)
             => ToSet(ledger) = Covered(u, x)
    /\ proc[p].at # "commit" => Committed = Len(ledger)
    /\ \A u \in Units, o \in Int :
          proc[p].at = "commit" /\ proc[p].unit = u /\ o = proc[p].read - 1
             => Keys(Committed + 1, Len(ledger)) = Planned(u, o)

PublicationHolds(p) ==
    /\ proc[p].at \in Loop \cup Closing \cup {"tables"} => published = {}
    /\ proc[p].at = "summary" => published = {"tables"}
    /\ proc[p].at = "manifest" => published = {"tables", "summary"}
    /\ proc[p].at = "complete" => published = {"tables", "summary", "manifest"}
    /\ proc[p].at \in Scoring => tables # <<>> /\ CausalBarrier

Holds(p) ==
    /\ PlaceHolds(p) /\ OnRecord(p) /\ PublicationHolds(p)
    /\ proc[p].at \in Working => created /\ Acceptable /\ WriterHolds(p)

\* A checkpoint bounds the planned predictions of its origin.
Bounds(cp) == cp.first >= 1 /\ cp.last <= Len(ledger) /\ Keys(cp.first, cp.last) = Planned(cp.unit, cp.origin)

CheckpointsHold ==
    /\ Committed \in Nat /\ Committed <= Len(ledger)
    /\ \A cp \in ToSet(checkpoints) : Bounds(cp)

\* Behind the context, every access has its checkpoint.
AccessHolds ==
    \A a \in ToSet(access) : a.event >= request.context =>
        \E cp \in ToSet(checkpoints) : cp.unit = a.unit /\ cp.origin = a.event - 1

IInv ==
    /\ ReplayTypeOK /\ OwnersHold /\ CheckpointsHold /\ AccessHolds
    /\ \A p \in Procs : Holds(p)
    /\ CompleteRunIsWhole /\ NoFailureIsAveragedAway

-----------------------------------------------------------------------------
(* The rows of an origin *)

\* What the type invariant says of a request.
LEMMA RequestType ==
    ASSUME ReplayTypeOK
    PROVE  /\ N \in Nat /\ LastUnit \in Nat /\ LastUnit >= 3
           /\ request.context \in Nat
           /\ request.horizons \in Seq(Nat) /\ request.horizons \in Horizons
           /\ request.models \in Seq(STRING) /\ request.models \in Models
BY ReplayAssumption DEF ReplayTypeOK

\* A request that is let pass asks for steps ahead and for names of models.
LEMMA RequestNames ==
    ASSUME ReplayTypeOK, Acceptable
    PROVE  /\ request.context >= 2
           /\ \A h \in ToSet(request.horizons) : h \in Steps /\ h \in Nat /\ h >= 1
           /\ 1 \in ToSet(request.horizons)
           /\ \A m \in ToSet(request.models) : m \in ModelNames
<1>1. /\ request.context >= 2 /\ 1 \in ToSet(request.horizons)
      /\ \A h \in ToSet(request.horizons) : h >= 1
  BY DEF Acceptable, AcceptableHorizons
<1>2. ASSUME NEW h \in ToSet(request.horizons) PROVE h \in Steps /\ h \in Nat
  <2>1. h \in Nat
    BY RequestType DEF ToSet
  <2>2. h # 0
    BY <1>1, <2>1
  <2>3. h \in UNION {ToSet(hs) : hs \in Horizons}
    BY RequestType
  <2>4. h \in Steps
    BY <2>2, <2>3 DEF Steps
  <2> QED BY <2>1, <2>4
<1>3. \A m \in ToSet(request.models) : m \in ModelNames
  BY RequestType DEF ModelNames
<1> QED BY <1>1, <1>2, <1>3

\* A row is typed, and says what was planned.
LEMMA RowType ==
    ASSUME ReplayTypeOK, Acceptable, NEW u \in Units, NEW o \in 0..(N - 2),
           NEW h \in ToSet(request.horizons), Fits(o, h), NEW m \in ToSet(request.models)
    PROVE  /\ RowOf(u, o, h, m) \in Rows /\ RowOf(u, o, h, m).origin + RowOf(u, o, h, m).horizon < N
           /\ RowOf(u, o, h, m) \in RowSet(u, o)
<1>1. PredictionStatus(u, o, h, m) \in {"OK", "config", "state", "predict"}
  BY DEF PredictionStatus
<1>2. h \in Steps /\ m \in ModelNames
  BY RequestNames
<1>3. RowOf(u, o, h, m) \in RowSet(u, o)
  <2> DEFINE fitting == {k \in ToSet(request.horizons) : Fits(o, k)}
  <2>0. h \in fitting
    OBVIOUS
  <2>1. PICK w \in fitting \X ToSet(request.models) : w[1] = h /\ w[2] = m
    <3> HIDE DEF fitting
    <3>1. <<h, m>> \in fitting \X ToSet(request.models) /\ <<h, m>>[1] = h /\ <<h, m>>[2] = m
      BY <2>0
    <3> QED BY <3>1
  <2>2. RowOf(u, o, h, m) = RowOf(u, o, w[1], w[2])
    BY <2>1
  <2> QED BY <2>2, Zenon DEF RowSet
<1> QED BY <1>1, <1>2, <1>3 DEF RowOf, Rows, Fits

\* _predict_revealed_origin writes exactly the planned rows.
LEMMA RowsOfSet ==
    ASSUME ReplayTypeOK, Acceptable, NEW u \in Units, NEW o \in 0..(N - 2)
    PROVE  RowsOf(u, o) \in Seq(Rows) /\ ToSet(RowsOf(u, o)) = RowSet(u, o)
<1> DEFINE hs == request.horizons
           ms == request.models
           batch(h) == IF ~Fits(o, h) THEN <<>> ELSE [j \in DOMAIN ms |-> RowOf(u, o, h, ms[j])]
           seqs == [i \in DOMAIN hs |-> batch(hs[i])]
<1>1. RowsOf(u, o) = FlattenSeq(seqs)
  BY DEF RowsOf, RowOf
<1>2. /\ Len(hs) \in Nat /\ DOMAIN hs = 1..Len(hs) /\ Len(ms) \in Nat /\ DOMAIN ms = 1..Len(ms)
  BY RequestType
<1>3. ASSUME NEW i \in DOMAIN hs
      PROVE  /\ batch(hs[i]) \in Seq(Rows)
             /\ ToSet(batch(hs[i])) = {RowOf(u, o, hs[i], m) : m \in IF Fits(o, hs[i]) THEN ToSet(ms) ELSE {}}
  <2>1. hs[i] \in ToSet(hs)
    BY DEF ToSet
  <2>2. CASE ~Fits(o, hs[i])
    <3>1. batch(hs[i]) = <<>>
      BY <2>2
    <3>2. <<>> \in Seq(Rows) /\ DOMAIN <<>> = {}
      OBVIOUS
    <3> HIDE DEF batch
    <3>3. ToSet(batch(hs[i])) = {}
      BY <3>1, <3>2, Zenon DEF ToSet
    <3> QED BY <2>2, <3>1, <3>2, <3>3, Zenon
  <2>3. CASE Fits(o, hs[i])
    <3>1. batch(hs[i]) = [j \in DOMAIN ms |-> RowOf(u, o, hs[i], ms[j])]
      BY <2>3
    <3>2. \A j \in DOMAIN ms : ms[j] \in ToSet(ms) /\ RowOf(u, o, hs[i], ms[j]) \in Rows
      BY <2>1, <2>3, RowType DEF ToSet
    <3>3. batch(hs[i]) \in Seq(Rows)
      <4>1. [j \in 1..Len(ms) |-> RowOf(u, o, hs[i], ms[j])] \in Seq(Rows)
        <5> DEFINE e(j) == RowOf(u, o, hs[i], ms[j])
        <5>1. \A j \in 1..Len(ms) : e(j) \in Rows
          BY <1>2, <3>2
        <5> HIDE DEF e
        <5>2. [j \in 1..Len(ms) |-> e(j)] \in Seq(Rows)
          BY <1>2, <5>1
        <5> QED BY <5>2 DEF e
      <4> HIDE DEF batch, hs, ms
      <4> QED BY <1>2, <3>1, <4>1
    <3>4. ToSet(batch(hs[i])) = {RowOf(u, o, hs[i], m) : m \in ToSet(ms)}
      <4> HIDE DEF batch, hs, ms
      <4> QED BY <3>1, Zenon DEF ToSet
    <3> HIDE DEF batch, hs, ms
    <3> QED BY <2>3, <3>3, <3>4, Zenon
  <2> QED BY <2>2, <2>3
<1> HIDE DEF batch
<1>4. seqs \in Seq(Seq(Rows)) /\ DOMAIN seqs = DOMAIN hs /\ \A i \in DOMAIN hs : seqs[i] = batch(hs[i])
  <2> HIDE DEF hs, ms
  <2>1. \A i \in 1..Len(hs) : batch(hs[i]) \in Seq(Rows)
    BY <1>2, <1>3
  <2> DEFINE e(i) == batch(hs[i])
  <2>2. [i \in 1..Len(hs) |-> e(i)] \in Seq(Seq(Rows))
    <3> HIDE DEF e
    <3>1. \A i \in 1..Len(hs) : e(i) \in Seq(Rows)
      BY <2>1 DEF e
    <3> QED BY <1>2, <3>1
  <2>3. seqs = [i \in 1..Len(hs) |-> e(i)]
    BY <1>2, Zenon
  <2> QED BY <1>2, <2>2, <2>3
<1>5. /\ FlattenSeq(seqs) \in Seq(Rows)
      /\ ToSet(FlattenSeq(seqs)) = UNION {ToSet(seqs[i]) : i \in DOMAIN seqs}
  <2> HIDE DEF seqs
  <2> QED BY <1>4, FlattenSeqSet
<1>6. UNION {ToSet(seqs[i]) : i \in DOMAIN seqs} = RowSet(u, o)
  <2> HIDE DEF seqs
  <2>1. ASSUME NEW i \in DOMAIN hs, NEW x \in ToSet(seqs[i]) PROVE x \in RowSet(u, o)
    <3>1. Fits(o, hs[i]) /\ \E m \in ToSet(ms) : x = RowOf(u, o, hs[i], m)
      BY <1>3, <1>4, <2>1, Zenon
    <3>2. hs[i] \in ToSet(hs)
      BY DEF ToSet
    <3> QED BY <3>1, <3>2, RowType
  <2>2. ASSUME NEW x \in RowSet(u, o) PROVE \E i \in DOMAIN hs : x \in ToSet(seqs[i])
    <3>1. PICK w \in {h \in ToSet(hs) : Fits(o, h)} \X ToSet(ms) : x = RowOf(u, o, w[1], w[2])
      BY <2>2, Zenon DEF RowSet
    <3>2. PICK i \in DOMAIN hs : hs[i] = w[1]
      BY <3>1 DEF ToSet
    <3>3. Fits(o, hs[i]) /\ w[2] \in ToSet(ms)
      BY <3>1, <3>2
    <3>4. x \in {RowOf(u, o, hs[i], m) : m \in IF Fits(o, hs[i]) THEN ToSet(ms) ELSE {}}
      BY <3>1, <3>2, <3>3, Zenon
    <3> QED BY <1>3, <1>4, <3>4, Zenon
  <2> HIDE DEF hs, ms
  <2> QED BY <1>4, <2>1, <2>2, Zenon
<1> QED BY <1>1, <1>5, <1>6, Zenon

\* The keys of the planned rows.
LEMMA RowSetKeys ==
    ASSUME ReplayTypeOK, Acceptable, NEW u \in Units, NEW o \in 0..(N - 2)
    PROVE  {KeyOf(row) : row \in RowSet(u, o)} = Planned(u, o)
<1>1. \A h \in ToSet(request.horizons) : Fits(o, h) <=> o + h <= N - 1
  BY RequestNames, RequestType DEF Fits
<1>2. ASSUME NEW row \in RowSet(u, o) PROVE KeyOf(row) \in Planned(u, o)
  <2>1. PICK w \in {h \in ToSet(request.horizons) : Fits(o, h)} \X ToSet(request.models) :
            row = RowOf(u, o, w[1], w[2])
    BY <1>2, Zenon DEF RowSet
  <2>2. KeyOf(row) = <<u, o, w[1], w[2]>>
    BY <2>1 DEF KeyOf, RowOf
  <2>3. w[1] \in {k \in ToSet(request.horizons) : o + k <= N - 1} /\ w[2] \in ToSet(request.models)
    BY <1>1, <2>1
  <2> QED BY <2>2, <2>3 DEF Planned
<1>3. ASSUME NEW k \in Planned(u, o) PROVE \E row \in RowSet(u, o) : KeyOf(row) = k
  <2>1. PICK h \in {j \in ToSet(request.horizons) : o + j <= N - 1}, m \in ToSet(request.models) :
            k = <<u, o, h, m>>
    BY <1>3 DEF Planned
  <2>2. RowOf(u, o, h, m) \in RowSet(u, o)
    BY <1>1, <2>1, RowType
  <2>3. KeyOf(RowOf(u, o, h, m)) = k
    BY <2>1 DEF KeyOf, RowOf
  <2> QED BY <2>2, <2>3
<1> QED BY <1>2, <1>3

-----------------------------------------------------------------------------
(* What a step leaves alone *)

\* Plans and rows are a matter of the request and the faults.
LEMMA PlansStay ==
    ASSUME UNCHANGED <<request, faults>>
    PROVE  /\ Acceptable' = Acceptable
           /\ \A u, o : Planned(u, o)' = Planned(u, o)
           /\ \A u, x : Covered(u, x)' = Covered(u, x)
<1>1. Acceptable' = Acceptable
  BY DEF Acceptable, AcceptableHorizons
<1>2. ASSUME NEW u, NEW o PROVE Planned(u, o)' = Planned(u, o)
  BY DEF Planned
<1>3. ASSUME NEW u, NEW o PROVE RowSet(u, o)' = RowSet(u, o)
  <2>1. \A h, m : RowOf(u, o, h, m)' = RowOf(u, o, h, m)
    BY DEF RowOf, PredictionStatus, Unprepared
  <2> QED BY <2>1 DEF RowSet
<1>4. ASSUME NEW u, NEW x PROVE Covered(u, x)' = Covered(u, x)
  <2>1. Past(u, x)' = Past(u, x)
    BY DEF Past
  <2> QED BY <1>3, <2>1 DEF Covered
<1> QED BY <1>1, <1>2, <1>4

\* The causal barrier reads the records and the seal.
LEMMA BarrierStays ==
    ASSUME UNCHANGED <<request, ledger, checkpoints, access, seal>>
    PROVE  CausalBarrier' = CausalBarrier
<1>1. SealHolds' = SealHolds
  BY DEF SealHolds
<1>2. Committed' = Committed /\ CheckpointsCover' = CheckpointsCover
  BY DEF CheckpointsCover, Committed, Before
<1>3. AccessIsCausal' = AccessIsCausal
  BY DEF AccessIsCausal
<1> QED BY <1>1, <1>2, <1>3 DEF CausalBarrier

\* The tables are made once.
LEMMA TablesStay ==
    ASSUME NoFailureIsAveragedAway, UNCHANGED <<request, faults, tables>>
    PROVE  NoFailureIsAveragedAway'
BY DEF NoFailureIsAveragedAway, Hits

\* An invocation keeps what holds of it while another one works.
LEMMA OthersHold ==
    ASSUME NEW q \in Procs, Holds(q), proc'[q] = proc[q], UNCHANGED request,
           \A a \in ToSet(access) : a \in ToSet(access'),
           \/ proc[q].at \notin Working
           \/ UNCHANGED <<faults, ledger, checkpoints, access, seal, tables, published>> /\ (created => created')
    PROVE  Holds(q)'
<1>1. PlaceHolds(q)'
  BY DEF Holds, PlaceHolds
<1>2. OnRecord(q)'
  BY DEF Holds, OnRecord
<1>3. CASE proc[q].at \notin Working
  BY <1>1, <1>2, <1>3 DEF Holds, PublicationHolds, Working, Loop, Closing, Scoring
<1>4. CASE UNCHANGED <<faults, ledger, checkpoints, access, seal, tables, published>> /\ (created => created')
  <2>1. PublicationHolds(q)'
    BY <1>4, BarrierStays DEF Holds, PublicationHolds
  <2>2. Committed' = Committed /\ \A i, j : Keys(i, j)' = Keys(i, j)
    BY <1>4 DEF Committed, Keys
  <2>3. (WriterHolds(q) => WriterHolds(q)') /\ Acceptable' = Acceptable
    BY <1>4, <2>2, PlansStay DEF WriterHolds
  <2> QED BY <1>1, <1>2, <1>4, <2>1, <2>3 DEF Holds
<1> QED BY <1>3, <1>4

records == <<ledger, checkpoints, access, seal, tables, published>>

\* A step of p, which works or leaves the records alone, keeps the invariant if
\* it keeps what is said of p and of the records.
LEMMA StepKeeps ==
    ASSUME IInv, NEW p \in Procs, NEW i \in Invocations, proc' = [proc EXCEPT ![p] = i],
           UNCHANGED <<request, faults>>, ReplayTypeOK', created => created',
           \A a \in ToSet(access) : a \in ToSet(access'),
           \/ proc[p].at \in Working
           \/ UNCHANGED records /\ (i.at \in Working => ~created),
           CheckpointsHold', AccessHolds', Holds(p)', CompleteRunIsWhole', NoFailureIsAveragedAway'
    PROVE  IInv'
<1>1. proc'[p] = i /\ \A q \in Procs : q # p => proc'[q] = proc[q]
  BY DEF IInv, ReplayTypeOK
<1>2. \A q \in Procs : Holds(q) /\ (proc[q].at \in Working => created)
  BY DEF IInv, Holds
<1>3. ASSUME NEW q \in Procs, q # p PROVE Holds(q)'
  <2>1. proc[p].at \in Working => proc[q].at \notin Working
    BY <1>3 DEF IInv, OwnersHold
  <2>2. UNCHANGED records => UNCHANGED <<ledger, checkpoints, access, seal, tables, published>>
    BY DEF records
  <2> QED BY <1>1, <1>2, <1>3, <2>1, <2>2, OthersHold
<1>4. \A q \in Procs : Holds(q)'
  BY <1>3
<1>5. OwnersHold'
  <2>1. ASSUME NEW q \in Procs, NEW r \in Procs, proc'[q].at \in Working, proc'[r].at \in Working PROVE q = r
    <3>1. CASE q # p /\ r # p
      BY <1>1, <2>1, <3>1 DEF IInv, OwnersHold
    <3>2. ASSUME NEW s \in Procs, s # p, proc'[s].at \in Working, proc'[p].at \in Working PROVE FALSE
      <4>1. proc[s].at \in Working /\ created
        BY <1>1, <1>2, <3>2
      <4>2. proc[p].at \notin Working
        BY <3>2, <4>1 DEF IInv, OwnersHold
      <4> QED BY <1>1, <3>2, <4>1, <4>2
    <3> QED BY <2>1, <3>1, <3>2
  <2>2. ~created' => ledger' = <<>> /\ checkpoints' = <<>> /\ published' = {}
    BY <1>2 DEF IInv, OwnersHold, records
  <2> QED BY <2>1, <2>2 DEF OwnersHold
<1> QED BY <1>4, <1>5 DEF IInv

\* The same for a step that only moves p on.
LEMMA MoveKeeps ==
    ASSUME IInv, NEW p \in Procs, NEW i \in Invocations, proc' = [proc EXCEPT ![p] = i],
           UNCHANGED <<request, faults>>, UNCHANGED records, created' \in BOOLEAN, created => created',
           proc[p].at \in Working \/ (i.at \in Working => ~created),
           Holds(p)'
    PROVE  IInv'
<1>1. UNCHANGED <<ledger, checkpoints, access, seal, tables, published>>
  BY DEF records
<1>2. ReplayTypeOK'
  BY <1>1 DEF IInv, ReplayTypeOK
<1>3. CheckpointsHold' /\ AccessHolds'
  <2>1. Committed' = Committed /\ \A j, k : Keys(j, k)' = Keys(j, k)
    BY <1>1 DEF Committed, Keys
  <2>2. \A cp : Bounds(cp) => Bounds(cp)'
    BY <1>1, <2>1, PlansStay DEF Bounds
  <2> QED BY <1>1, <2>1, <2>2 DEF IInv, CheckpointsHold, AccessHolds
<1>4. CompleteRunIsWhole'
  BY <1>1, BarrierStays DEF IInv, CompleteRunIsWhole
<1>5. NoFailureIsAveragedAway'
  BY <1>1, TablesStay DEF IInv
<1> QED BY <1>1, <1>2, <1>3, <1>4, <1>5, StepKeeps

\* Where Goto leads.
LEMMA GotoPoint ==
    ASSUME ReplayTypeOK, NEW p \in Procs, NEW x \in Points, Goto(p, x)
    PROVE  /\ [proc[p] EXCEPT !.at = x] \in Invocations
           /\ proc' = [proc EXCEPT ![p] = [proc[p] EXCEPT !.at = x]]
           /\ proc'[p].at = x /\ proc'[p].unit = proc[p].unit /\ proc'[p].read = proc[p].read
           /\ proc[p] \in Invocations
<1>1. proc \in [Procs -> Invocations] /\ proc[p] \in Invocations
  BY DEF ReplayTypeOK
<1>2. proc' = [proc EXCEPT ![p] = [proc[p] EXCEPT !.at = x]]
  BY DEF Goto
<1>3. [proc[p] EXCEPT !.at = x] \in Invocations
  BY <1>1 DEF Invocations
<1>4. proc'[p] = [proc[p] EXCEPT !.at = x]
  BY <1>1, <1>2
<1> QED BY <1>1, <1>2, <1>3, <1>4 DEF Invocations

\* An invocation that ends, or does not begin, leaves things as they are.
LEMMA Stops ==
    ASSUME IInv, NEW p \in Procs, NEW x \in Points, x \notin Working, Goto(p, x),
           x \in {"check", "open"} => proc[p].at = "check",
           UNCHANGED <<request, faults, created, ledger, checkpoints, access, seal, tables, published>>
    PROVE  IInv'
<1>1. ReplayTypeOK /\ Holds(p) /\ created \in BOOLEAN
  BY DEF IInv, ReplayTypeOK
<1>2. /\ proc' = [proc EXCEPT ![p] = [proc[p] EXCEPT !.at = x]]
      /\ [proc[p] EXCEPT !.at = x] \in Invocations /\ [proc[p] EXCEPT !.at = x].at = x
      /\ proc'[p].at = x /\ proc'[p].unit = proc[p].unit /\ proc'[p].read = proc[p].read
  BY <1>1, GotoPoint DEF Invocations
<1>3. Holds(p)'
  BY <1>1, <1>2 DEF Holds, PlaceHolds, OnRecord, PublicationHolds, Working, Loop, Closing, Scoring
<1>4. UNCHANGED records
  BY DEF records
<1> HIDE DEF IInv
<1> QED BY <1>1, <1>2, <1>3, <1>4, MoveKeeps

-----------------------------------------------------------------------------
(* The order of the replay *)

\* Nothing is past where the first unit begins,
LEMMA PastStart ==
    ASSUME ReplayTypeOK, Acceptable
    PROVE  Covered(1, 0) = {}
<1>1. /\ N \in Nat /\ request.context \in Nat /\ request.context >= 2 /\ LastUnit \in Nat
  BY RequestType, RequestNames
<1>2. Past(1, 0) = {}
  <2>1. ASSUME NEW w \in Past(1, 0) PROVE FALSE
    <3>1. w[1] \in Units /\ w[2] \in (request.context - 1)..(N - 2) /\ (w[1] < 1 \/ w[2] < 0)
      BY <2>1 DEF Past
    <3> QED BY <1>1, <3>1 DEF Units
  <2> QED BY <2>1
<1> QED BY <1>2 DEF Covered

\* while the context is revealed nothing is added,
LEMMA PastContext ==
    ASSUME ReplayTypeOK, NEW u, NEW x \in Int, NEW y \in Int,
           x <= request.context - 1, y <= request.context - 1
    PROVE  Covered(u, x) = Covered(u, y)
<1>1. N \in Nat /\ request.context \in Nat
  BY RequestType
<1>2. ASSUME NEW w \in Units \X ((request.context - 1)..(N - 2)) PROVE ~(w[2] < x) /\ ~(w[2] < y)
  <2>1. w[2] \in (request.context - 1)..(N - 2)
    OBVIOUS
  <2> QED BY <1>1, <2>1
<1>3. Past(u, x) = Past(u, y)
  BY <1>2 DEF Past
<1> QED BY <1>3 DEF Covered

\* then one origin after the other,
LEMMA PastNext ==
    ASSUME ReplayTypeOK, NEW u \in Units, NEW o \in (request.context - 1)..(N - 2)
    PROVE  Covered(u, o + 1) = Covered(u, o) \cup RowSet(u, o)
<1>1. /\ N \in Nat /\ request.context \in Nat /\ LastUnit \in Nat /\ o \in Int /\ u \in Int
  BY RequestType DEF Units
<1>2. ASSUME NEW w \in Units \X ((request.context - 1)..(N - 2))
      PROVE  (w[1] < u \/ (w[1] = u /\ w[2] < o + 1)) <=> ((w[1] < u \/ (w[1] = u /\ w[2] < o)) \/ w = <<u, o>>)
  <2>1. PICK v \in Units, k \in (request.context - 1)..(N - 2) : w = <<v, k>>
    OBVIOUS
  <2>2. v \in Int /\ k \in Int /\ w[1] = v /\ w[2] = k /\ (w = <<u, o>> <=> v = u /\ k = o)
    BY <1>1, <2>1 DEF Units
  <2> QED BY <1>1, <2>2
<1>3. <<u, o>> \in Units \X ((request.context - 1)..(N - 2)) /\ <<u, o>>[1] = u /\ <<u, o>>[2] = o
  OBVIOUS
<1>4. Past(u, o + 1) = Past(u, o) \cup {<<u, o>>}
  BY <1>2, <1>3 DEF Past
<1> QED BY <1>3, <1>4 DEF Covered

\* and behind the last origin the next unit begins.
LEMMA PastUnit ==
    ASSUME ReplayTypeOK, NEW u \in Units, NEW x \in Int, NEW y \in Int, x >= N - 1, y <= request.context - 1
    PROVE  Covered(u, x) = Covered(u + 1, y)
<1>1. /\ N \in Nat /\ request.context \in Nat /\ LastUnit \in Nat /\ u \in Int
  BY RequestType DEF Units
<1>2. ASSUME NEW w \in Units \X ((request.context - 1)..(N - 2))
      PROVE  (w[1] < u \/ (w[1] = u /\ w[2] < x)) <=> (w[1] < u + 1 \/ (w[1] = u + 1 /\ w[2] < y))
  <2>1. w[1] \in Int /\ w[2] \in (request.context - 1)..(N - 2)
    BY DEF Units
  <2>2. w[2] < x /\ ~(w[2] < y)
    BY <1>1, <2>1
  <2> QED BY <1>1, <2>1, <2>2
<1>3. Past(u, x) = Past(u + 1, y)
  BY <1>2 DEF Past
<1> QED BY <1>3 DEF Covered

-----------------------------------------------------------------------------
(* The steps *)

LEMMA CheckOutputPreserves == ASSUME IInv, NEW p \in Procs, CheckOutput(p) PROVE IInv'
BY Stops DEF CheckOutput, Points, Ends, Working, Loop, Closing, Scoring

\* A step within the loop or behind it that changes no record: what is said of
\* the writer is said of the same ledger.
LEMMA Turns ==
    ASSUME IInv, NEW p \in Procs, NEW x \in Points, Goto(p, x),
           UNCHANGED <<request, faults, created, ledger, checkpoints, access, seal, tables, published>>,
           proc[p].at \in Loop \cup Closing, proc[p].at \notin {"commit", "predict"},
           x \notin {"commit", "predict"},
           PlaceHolds(p)', OnRecord(p)', PublicationHolds(p)'
    PROVE  IInv'
<1>1. ReplayTypeOK /\ Holds(p) /\ proc[p].at \in Working
  BY DEF IInv, Working
<1>2. /\ proc' = [proc EXCEPT ![p] = [proc[p] EXCEPT !.at = x]]
      /\ [proc[p] EXCEPT !.at = x] \in Invocations
      /\ proc'[p].at = x /\ proc'[p].unit = proc[p].unit /\ proc'[p].read = proc[p].read
  BY <1>1, GotoPoint
<1>3. Committed' = Committed
  BY DEF Committed
<1>4. created' /\ Acceptable' /\ WriterHolds(p)'
  BY <1>1, <1>2, <1>3, PlansStay DEF Holds, WriterHolds
<1>5. Holds(p)'
  BY <1>4 DEF Holds
<1>6. UNCHANGED records
  BY DEF records
<1>7. created' \in BOOLEAN
  BY <1>1 DEF ReplayTypeOK
<1> QED BY <1>1, <1>2, <1>5, <1>6, <1>7, MoveKeeps

\* generate_nested_loco_predictions begins with an empty ledger of its own.
LEMMA OpenPreserves == ASSUME IInv, NEW p \in Procs, Open(p) PROVE IInv'
<1>1. ReplayTypeOK /\ Holds(p) /\ OwnersHold
  BY DEF IInv
<1>2. CASE ~Acceptable \/ created
  <2>1. Goto(p, "failed") /\ UNCHANGED created
    BY <1>2 DEF Open
  <2> QED BY <2>1, Stops DEF Open, Points, Ends, Working, Loop, Closing, Scoring
<1>3. CASE Acceptable /\ ~created
  <2>1. /\ Goto(p, "unit") /\ created' = TRUE /\ proc[p].at = "open" /\ proc[p].unit = 1 /\ proc[p].read = 0
        /\ UNCHANGED <<request, faults, ledger, checkpoints, access, seal, tables, published>>
        /\ ledger = <<>> /\ checkpoints = <<>> /\ published = {}
    BY <1>1, <1>3 DEF Open, Holds, PlaceHolds, OwnersHold
  <2>2. /\ proc' = [proc EXCEPT ![p] = [proc[p] EXCEPT !.at = "unit"]]
        /\ [proc[p] EXCEPT !.at = "unit"] \in Invocations
        /\ proc'[p].at = "unit" /\ proc'[p].unit = 1 /\ proc'[p].read = 0
    BY <1>1, <2>1, GotoPoint DEF Points
  <2>3. PlaceHolds(p)' /\ OnRecord(p)' /\ PublicationHolds(p)'
    BY <2>1, <2>2 DEF PlaceHolds, OnRecord, PublicationHolds, Loop, Closing, Scoring, Working
  <2>4. ToSet(ledger') = {} /\ Len(ledger') = 0 /\ Committed' = 0
    BY <2>1 DEF ToSet, Committed
  <2>5. WriterHolds(p)'
    BY <1>1, <1>3, <2>1, <2>2, <2>4, PastStart, PlansStay DEF WriterHolds
  <2>6. Holds(p)'
    BY <1>3, <2>1, <2>3, <2>5, PlansStay DEF Holds
  <2>7. UNCHANGED records
    BY <2>1 DEF records
  <2> QED BY <1>3, <2>1, <2>2, <2>6, <2>7, MoveKeeps
<1> QED BY <1>2, <1>3

\* The next fold, or the end of the replay.
LEMMA StartUnitPreserves == ASSUME IInv, NEW p \in Procs, StartUnit(p) PROVE IInv'
<1>1. /\ ReplayTypeOK /\ Holds(p) /\ proc[p].at = "unit" /\ proc[p].read = 0 /\ Acceptable
      /\ proc[p].unit \in 1..(LastUnit + 1) /\ published = {}
      /\ UNCHANGED <<request, faults, created, ledger, checkpoints, access, seal, tables, published>>
  BY DEF IInv, StartUnit, Holds, PlaceHolds, PublicationHolds, ReplayTypeOK, Invocations, Working, Loop
<1>2. PICK x : x = (IF proc[p].unit > LastUnit THEN "seal" ELSE IF N < request.context THEN "failed" ELSE "reveal")
  OBVIOUS
<1>3. Goto(p, x) /\ x \in Points
  BY <1>2 DEF StartUnit, Points, Ends
<1>4. proc'[p].at = x /\ proc'[p].unit = proc[p].unit /\ proc'[p].read = proc[p].read
  BY <1>1, <1>3, GotoPoint
<1>5. CASE x = "failed"
  BY <1>1, <1>3, <1>5, Stops DEF Working, Loop, Closing, Scoring
<1>6. CASE x # "failed"
  <2>1. PlaceHolds(p)'
    BY <1>1, <1>2, <1>4, <1>6, RequestType, RequestNames DEF PlaceHolds, Working, Loop, Closing, Scoring, Units
  <2>2. OnRecord(p)' /\ PublicationHolds(p)'
    BY <1>1, <1>2, <1>4, <1>6 DEF Holds, OnRecord, PublicationHolds, Loop, Closing, Scoring
  <2> QED BY <1>1, <1>2, <1>3, <1>6, <2>1, <2>2, Turns DEF Loop
<1> QED BY <1>5, <1>6

\* verify_causal_barrier.
LEMMA VerifyBarrierPreserves == ASSUME IInv, NEW p \in Procs, VerifyBarrier(p) PROVE IInv'
<1>1. /\ ReplayTypeOK /\ Holds(p) /\ proc[p].at = "barrier"
      /\ UNCHANGED <<request, faults, created, ledger, checkpoints, access, seal, tables, published>>
  BY DEF IInv, VerifyBarrier
<1>2. PICK x : x = (IF CausalBarrier THEN "mature" ELSE "failed")
  OBVIOUS
<1>3. Goto(p, x) /\ x \in Points
  BY <1>2 DEF VerifyBarrier, Points, Ends
<1>4. proc'[p].at = x /\ proc'[p].unit = proc[p].unit /\ proc'[p].read = proc[p].read
  BY <1>1, <1>3, GotoPoint
<1>5. CASE x = "failed"
  BY <1>1, <1>3, <1>5, Stops DEF Working, Loop, Closing, Scoring
<1>6. CASE x = "mature"
  <2>1. PlaceHolds(p)' /\ OnRecord(p)' /\ PublicationHolds(p)'
    BY <1>1, <1>4, <1>6 DEF Holds, PlaceHolds, OnRecord, PublicationHolds, Working, Loop, Closing, Scoring
  <2> QED BY <1>1, <1>3, <1>6, <2>1, Turns DEF Closing
<1> QED BY <1>2, <1>5, <1>6

\* Before the tables there is nothing published that a step could belie.
LEMMA LoopKeeps ==
    ASSUME IInv, NEW p \in Procs, NEW i \in Invocations, proc' = [proc EXCEPT ![p] = i],
           UNCHANGED <<request, faults, created, tables, published>>,
           proc[p].at \in Loop \cup Closing, ReplayTypeOK',
           \A a \in ToSet(access) : a \in ToSet(access'),
           CheckpointsHold', AccessHolds', Holds(p)'
    PROVE  IInv'
<1>1. Holds(p) /\ NoFailureIsAveragedAway
  BY DEF IInv
<1>2. CompleteRunIsWhole'
  BY <1>1 DEF Holds, PublicationHolds, CompleteRunIsWhole
<1>3. NoFailureIsAveragedAway'
  BY <1>1, TablesStay
<1>4. proc[p].at \in Working
  BY DEF Working
<1> QED BY <1>2, <1>3, <1>4, StepKeeps

\* The checkpoints are what they were while no file but the access log grows.
LEMMA CheckpointsFrame ==
    ASSUME CheckpointsHold, UNCHANGED <<request, faults, ledger, checkpoints>>
    PROVE  CheckpointsHold' /\ Committed' = Committed
<1>1. Committed' = Committed /\ \A j, k : Keys(j, k)' = Keys(j, k)
  BY DEF Committed, Keys
<1>2. \A cp : Bounds(cp) => Bounds(cp)'
  BY <1>1, PlansStay DEF Bounds
<1> QED BY <1>1, <1>2 DEF CheckpointsHold

\* What is said of the writer where no row is waiting for its checkpoint.
LEMMA WriterMoves ==
    ASSUME NEW p \in Procs, WriterHolds(p), UNCHANGED <<request, faults, ledger, checkpoints>>,
           proc[p].at # "commit", proc'[p].at # "commit",
           proc[p].unit \in 1..(LastUnit + 1),
           NEW x \in Int, x = (IF proc[p].at = "predict" THEN proc[p].read - 1 ELSE proc[p].read),
           \A y \in Int :
              y = (IF proc'[p].at = "predict" THEN proc'[p].read - 1 ELSE proc'[p].read)
                  => Covered(proc'[p].unit, y) = Covered(proc[p].unit, x)
    PROVE  WriterHolds(p)'
<1>1. ToSet(ledger) = Covered(proc[p].unit, x)
  BY DEF WriterHolds
<1>2. Committed' = Committed /\ Committed = Len(ledger)
  BY DEF WriterHolds, Committed
<1> QED BY <1>1, <1>2, PlansStay DEF WriterHolds

\* reveal_next authorizes the event behind the last checkpoint.
LEMMA AuthorizePreserves == ASSUME IInv, NEW p \in Procs, Authorize(p) PROVE IInv'
<1> DEFINE boot == proc[p].read < request.context
           cps == {i \in DOMAIN checkpoints :
                      checkpoints[i].unit = proc[p].unit /\ checkpoints[i].origin = Origin(p)}
           a == [unit |-> proc[p].unit, event |-> proc[p].read, bootstrap |-> boot,
                 checkpoint |-> IF boot THEN 0 ELSE CHOOSE i \in cps : TRUE]
<1>1. /\ ReplayTypeOK /\ Holds(p) /\ proc[p].at = "reveal" /\ CheckpointsHold /\ AccessHolds
      /\ UNCHANGED <<request, faults, created, ledger, checkpoints, seal, tables, published>>
  BY DEF IInv, Authorize
<1>2. CASE ~boot /\ cps = {}
  <2>1. Goto(p, "failed") /\ UNCHANGED access
    BY <1>2 DEF Authorize
  <2> QED BY <1>1, <2>1, Stops DEF Points, Ends, Working, Loop, Closing, Scoring
<1>3. CASE ~(~boot /\ cps = {})
  <2>1. access' = Append(access, a) /\ Goto(p, "read")
    BY <1>3 DEF Authorize
  <2>2. /\ proc' = [proc EXCEPT ![p] = [proc[p] EXCEPT !.at = "read"]]
        /\ [proc[p] EXCEPT !.at = "read"] \in Invocations /\ proc[p] \in Invocations
        /\ proc'[p].at = "read" /\ proc'[p].unit = proc[p].unit /\ proc'[p].read = proc[p].read
    BY <1>1, <2>1, GotoPoint DEF Points
  <2>3. PICK n : n = (IF boot THEN 0 ELSE CHOOSE i \in cps : TRUE)
    OBVIOUS
  <2>4. n \in Nat /\ (~boot => n \in cps)
    <3>1. ~boot => n \in cps
      BY <1>3, <2>3, Zenon
    <3>2. cps \subseteq Nat
      BY <1>1 DEF ReplayTypeOK
    <3> QED BY <2>3, <3>1, <3>2
  <2>5. /\ proc[p].unit \in Units /\ proc[p].read \in 0..(N - 1) /\ request.context \in Nat
        /\ proc[p].read \in Nat
    BY <1>1, <2>2, RequestType DEF Holds, PlaceHolds, Loop, Invocations
  <2>6. a \in AccessRecords /\ a.unit = proc[p].unit /\ a.event = proc[p].read
    <3>1. [unit |-> proc[p].unit, event |-> proc[p].read, bootstrap |-> boot, checkpoint |-> n] \in AccessRecords
      BY <2>4, <2>5 DEF AccessRecords
    <3> QED BY <2>3, <3>1
  <2> HIDE DEF a
  <2>7. access' \in Seq(AccessRecords) /\ ToSet(access') = ToSet(access) \cup {a}
    BY <1>1, <2>1, <2>6, AppendGrowth DEF ReplayTypeOK
  <2>8. ReplayTypeOK'
    BY <1>1, <2>2, <2>7 DEF ReplayTypeOK
  <2>9. AccessHolds'
    <3>1. a.event >= request.context => \E cp \in ToSet(checkpoints) : cp.unit = a.unit /\ cp.origin = a.event - 1
      <4>1. a.event >= request.context => ~boot
        BY <2>5, <2>6
      <4>2. ~boot => checkpoints[n] \in ToSet(checkpoints) /\ checkpoints[n].unit = a.unit
                     /\ checkpoints[n].origin = a.event - 1
        BY <2>4, <2>6 DEF ToSet, Origin
      <4> QED BY <4>1, <4>2
    <3> QED BY <1>1, <2>7, <3>1 DEF AccessHolds
  <2>10. OnRecord(p)'
    BY <1>1, <2>2, <2>6, <2>7 DEF Holds, OnRecord
  <2>11. PlaceHolds(p)' /\ PublicationHolds(p)'
    BY <1>1, <2>2 DEF Holds, PlaceHolds, PublicationHolds, Loop, Closing, Scoring, Working
  <2>12. WriterHolds(p) /\ created /\ Acceptable
    BY <1>1 DEF Holds, Working, Loop
  <2>13. WriterHolds(p)'
    BY <1>1, <2>2, <2>12, CheckpointsFrame, PlansStay DEF WriterHolds
  <2>14. Holds(p)'
    BY <1>1, <2>10, <2>11, <2>12, <2>13, PlansStay DEF Holds
  <2> HIDE DEF cps, boot
  <2> QED BY <1>1, <2>2, <2>7, <2>8, <2>9, <2>14, CheckpointsFrame, LoopKeeps DEF Loop
<1> QED BY <1>2, <1>3

\* The event is read, and the replay goes on to the next event, origin or unit.
LEMMA ReadEventPreserves == ASSUME IInv, NEW p \in Procs, ReadEvent(p) PROVE IInv'
<1> DEFINE read == proc[p].read + 1
           i == IF read < request.context THEN [proc[p] EXCEPT !.read = read, !.at = "reveal"]
                ELSE IF read <= N - 1 THEN [proc[p] EXCEPT !.read = read, !.at = "predict"]
                ELSE [at |-> "unit", unit |-> proc[p].unit + 1, read |-> 0]
<1>1. /\ ReplayTypeOK /\ Holds(p) /\ proc[p].at = "read" /\ CheckpointsHold /\ AccessHolds
      /\ UNCHANGED <<request, faults, created, ledger, checkpoints, access, seal, tables, published>>
      /\ proc[p].unit \in Units /\ request.context <= N /\ proc[p].read < N /\ Acceptable /\ created
      /\ WriterHolds(p) /\ published = {} /\ OnRecord(p)
  <2>1. /\ ReplayTypeOK /\ Holds(p) /\ proc[p].at = "read" /\ CheckpointsHold /\ AccessHolds
        /\ UNCHANGED <<request, faults, created, ledger, checkpoints, access, seal, tables, published>>
    BY DEF IInv, ReadEvent
  <2>2. PlaceHolds(p) /\ PublicationHolds(p) /\ OnRecord(p) /\ Acceptable /\ created /\ WriterHolds(p)
    BY <2>1 DEF Holds, Working, Loop
  <2> QED BY <2>1, <2>2 DEF PlaceHolds, PublicationHolds, Loop
<1>2. /\ proc[p] \in Invocations /\ proc \in [Procs -> Invocations] /\ proc[p].read \in Nat
      /\ N \in Nat /\ request.context \in Nat /\ request.context >= 2 /\ LastUnit \in Nat
      /\ proc[p].unit \in Int /\ proc[p].unit \in 1..(LastUnit + 1) /\ proc[p].unit <= LastUnit
  <2>1. proc[p] \in Invocations /\ proc \in [Procs -> Invocations]
    BY <1>1 DEF ReplayTypeOK
  <2>2. N \in Nat /\ request.context \in Nat /\ request.context >= 2 /\ LastUnit \in Nat
    BY <1>1, RequestType, RequestNames
  <2> QED BY <1>1, <2>1, <2>2 DEF Invocations, Units
<1>3. proc' = [proc EXCEPT ![p] = i]
  BY DEF ReadEvent, NextUnit
<1>4. i \in Invocations
  <2>1. "reveal" \in Points /\ "predict" \in Points /\ "unit" \in Points
    BY DEF Points
  <2>0. ASSUME NEW r \in 0..N, NEW x \in Points PROVE [proc[p] EXCEPT !.read = r, !.at = x] \in Invocations
    BY <1>2 DEF Invocations
  <2>5. read \in 0..N
    BY <1>1, <1>2
  <2>2. CASE read < request.context
    <3>1. i = [proc[p] EXCEPT !.read = read, !.at = "reveal"]
      BY <2>2
    <3> HIDE DEF i, read
    <3> QED BY <2>0, <2>5, <2>1, <3>1
  <2>3. CASE ~(read < request.context) /\ read <= N - 1
    <3>1. i = [proc[p] EXCEPT !.read = read, !.at = "predict"]
      BY <2>3
    <3> HIDE DEF i, read
    <3> QED BY <2>0, <2>5, <2>1, <3>1
  <2>4. CASE ~(read < request.context) /\ ~(read <= N - 1)
    <3>1. proc[p].unit + 1 \in 1..(LastUnit + 1) /\ 0 \in 0..N
      BY <1>2
    <3> QED BY <2>1, <2>4, <3>1 DEF Invocations
  <2> QED BY <2>2, <2>3, <2>4
<1>5. proc'[p] = i
  BY <1>2, <1>3
<1>6. /\ proc'[p].at = (IF read < request.context THEN "reveal" ELSE IF read <= N - 1 THEN "predict" ELSE "unit")
      /\ proc'[p].unit = (IF read < request.context \/ read <= N - 1 THEN proc[p].unit ELSE proc[p].unit + 1)
      /\ proc'[p].read = (IF read < request.context \/ read <= N - 1 THEN read ELSE 0)
  BY <1>2, <1>5 DEF Invocations
<1> HIDE DEF i
<1>7. PlaceHolds(p)' /\ PublicationHolds(p)'
  BY <1>1, <1>2, <1>6 DEF PlaceHolds, PublicationHolds, Working, Loop, Closing, Scoring
<1>8. OnRecord(p)'
  BY <1>1, <1>2, <1>6 DEF OnRecord
<1>9. WriterHolds(p)'
  <2>1. CASE read < request.context
    <3>1. Covered(proc[p].unit, read) = Covered(proc[p].unit, proc[p].read)
      BY <1>1, <1>2, <2>1, PastContext
    <3>2. proc'[p].at = "reveal" /\ proc'[p].unit = proc[p].unit /\ proc'[p].read = read
      BY <1>6, <2>1
    <3> QED BY <1>1, <1>2, <3>1, <3>2, WriterMoves
  <2>2. CASE ~(read < request.context) /\ read <= N - 1
    <3>1. proc'[p].at = "predict" /\ proc'[p].unit = proc[p].unit /\ proc'[p].read - 1 = proc[p].read
      BY <1>2, <1>6, <2>2
    <3> QED BY <1>1, <1>2, <3>1, WriterMoves
  <2>3. CASE ~(read < request.context) /\ ~(read <= N - 1)
    <3>1. proc'[p].at = "unit" /\ proc'[p].unit = proc[p].unit + 1 /\ proc'[p].read = 0
      BY <1>6, <2>3
    <3>2. Covered(proc[p].unit + 1, 0) = Covered(proc[p].unit, proc[p].read)
      BY <1>1, <1>2, <2>3, PastUnit
    <3> QED BY <1>1, <1>2, <3>1, <3>2, WriterMoves
  <2> QED BY <2>1, <2>2, <2>3
<1>10. Holds(p)'
  BY <1>1, <1>7, <1>8, <1>9, PlansStay DEF Holds
<1>11. UNCHANGED records /\ created' \in BOOLEAN
  BY <1>1 DEF records, ReplayTypeOK
<1>12. proc[p].at \in Working
  BY <1>1 DEF Working, Loop
<1> QED BY <1>1, <1>3, <1>4, <1>10, <1>11, <1>12, MoveKeeps

\* Rows at the end of the ledger leave the checkpointed ones alone.
LEMMA LedgerGrows ==
    ASSUME ReplayTypeOK, CheckpointsHold, NEW rows \in Seq(Rows), ledger' = ledger \o rows,
           UNCHANGED <<request, faults, checkpoints>>
    PROVE  CheckpointsHold' /\ Committed' = Committed
<1>1. /\ ledger' \in Seq(Rows) /\ Len(ledger') = Len(ledger) + Len(rows) /\ Len(ledger) \in Nat /\ Len(rows) \in Nat
      /\ DOMAIN ledger = 1..Len(ledger) /\ \A k \in DOMAIN ledger : ledger'[k] = ledger[k]
  BY Growth DEF ReplayTypeOK
<1>2. Committed' = Committed
  BY DEF Committed
<1>3. ASSUME NEW cp \in ToSet(checkpoints) PROVE Bounds(cp)'
  <2>0. Bounds(cp)
    BY DEF CheckpointsHold
  <2>5. PICK n \in DOMAIN checkpoints : cp = checkpoints[n]
    BY DEF ToSet
  <2>6. cp \in CheckpointRecords
    BY <2>5 DEF ReplayTypeOK
  <2>1. Bounds(cp) /\ cp.first \in Nat /\ cp.last \in Nat
    BY <2>0, <2>6 DEF CheckpointRecords
  <2>2. \A k \in cp.first .. cp.last : ledger'[k] = ledger[k]
    BY <1>1, <2>1 DEF Bounds
  <2>3. Keys(cp.first, cp.last)' = Keys(cp.first, cp.last)
    BY <2>2 DEF Keys
  <2>4. cp.last <= Len(ledger')
    BY <1>1, <2>1 DEF Bounds
  <2> QED BY <2>1, <2>3, <2>4, PlansStay DEF Bounds
<1> QED BY <1>1, <1>2, <1>3 DEF CheckpointsHold

\* The rows of an origin at the end of the ledger are its plan.
LEMMA TailIsPlan ==
    ASSUME ReplayTypeOK, Acceptable, UNCHANGED <<request, faults>>, NEW u \in Units, NEW o \in 0..(N - 2),
           ledger' = ledger \o RowsOf(u, o)
    PROVE  /\ ToSet(ledger') = ToSet(ledger) \cup RowSet(u, o)
           /\ {KeyOf(ledger'[k]) : k \in (Len(ledger) + 1)..Len(ledger')} = Planned(u, o)
           /\ ledger' \in Seq(Rows) /\ \A row \in ToSet(ledger') : row.origin + row.horizon < N
<1> DEFINE rows == RowsOf(u, o)
<1>1. rows \in Seq(Rows) /\ ToSet(rows) = RowSet(u, o)
  BY RowsOfSet
<1> HIDE DEF rows
<1>2. /\ ledger' \in Seq(Rows) /\ Len(ledger') = Len(ledger) + Len(rows) /\ Len(ledger) \in Nat /\ Len(rows) \in Nat
      /\ \A k \in 1..Len(rows) : ledger'[Len(ledger) + k] = rows[k]
      /\ ToSet(ledger') = ToSet(ledger) \cup ToSet(rows) /\ DOMAIN rows = 1..Len(rows)
  BY <1>1, Growth DEF ReplayTypeOK, rows
<1>3. ASSUME NEW k \in (Len(ledger) + 1)..Len(ledger') PROVE ledger'[k] \in ToSet(rows)
  <2>1. k - Len(ledger) \in 1..Len(rows) /\ Len(ledger) + (k - Len(ledger)) = k
    BY <1>2
  <2>2. ledger'[k] = rows[k - Len(ledger)]
    BY <1>2, <2>1
  <2> QED BY <1>2, <2>1, <2>2 DEF ToSet
<1>4. ASSUME NEW row \in ToSet(rows) PROVE \E k \in (Len(ledger) + 1)..Len(ledger') : ledger'[k] = row
  <2>1. PICK j \in 1..Len(rows) : rows[j] = row
    BY <1>2 DEF ToSet
  <2>2. Len(ledger) + j \in (Len(ledger) + 1)..Len(ledger')
    BY <1>2
  <2> QED BY <1>2, <2>1, <2>2
<1>5. {KeyOf(ledger'[k]) : k \in (Len(ledger) + 1)..Len(ledger')} = {KeyOf(row) : row \in RowSet(u, o)}
  BY <1>1, <1>3, <1>4
<1>7. ASSUME NEW row \in RowSet(u, o) PROVE row.origin + row.horizon < N
  <2>1. PICK w \in {h \in ToSet(request.horizons) : Fits(o, h)} \X ToSet(request.models) :
            row = RowOf(u, o, w[1], w[2])
    BY <1>7, Zenon DEF RowSet
  <2> QED BY <2>1, RowType
<1> QED BY <1>1, <1>2, <1>5, <1>7, RowSetKeys DEF ReplayTypeOK

\* An origin without rows is one without models: the ledger stays empty.
LEMMA NoModels ==
    ASSUME ReplayTypeOK, Acceptable, NEW u \in Units, NEW o \in 0..(N - 2), RowsOf(u, o) = <<>>
    PROVE  \A v, x : Covered(v, x) = {}
<1>1. ToSet(RowsOf(u, o)) = {}
  BY DEF ToSet
<1>2. Fits(o, 1) /\ 1 \in ToSet(request.horizons)
  BY RequestNames, RequestType DEF Fits
<1>3. ToSet(request.models) = {}
  <2>1. ASSUME NEW m \in ToSet(request.models) PROVE FALSE
    BY <1>1, <1>2, RowType, RowsOfSet
  <2> QED BY <2>1
<1>4. \A v, w : RowSet(v, w) = {}
  BY <1>3 DEF RowSet
<1> QED BY <1>4 DEF Covered

\* _predict_revealed_origin appends the rows of the origin.
LEMMA PredictPreserves == ASSUME IInv, NEW p \in Procs, Predict(p) PROVE IInv'
<1> DEFINE u == proc[p].unit
           o == proc[p].read - 1
           rows == RowsOf(u, o)
<1>1. /\ ReplayTypeOK /\ Holds(p) /\ proc[p].at = "predict" /\ CheckpointsHold /\ AccessHolds
      /\ UNCHANGED <<request, faults, created, checkpoints, access, seal, tables, published>>
      /\ u \in Units /\ request.context <= N /\ request.context <= proc[p].read /\ proc[p].read < N
      /\ Acceptable /\ created
      /\ WriterHolds(p) /\ published = {} /\ OnRecord(p)
  BY DEF IInv, Predict, Holds, PlaceHolds, PublicationHolds, Working, Loop
<1>2. /\ proc[p] \in Invocations /\ proc \in [Procs -> Invocations] /\ proc[p].read \in Nat
      /\ N \in Nat /\ request.context \in Nat /\ request.context >= 2 /\ LastUnit \in Nat
      /\ u \in Int /\ u \in 1..(LastUnit + 1) /\ u <= LastUnit
  BY <1>1, RequestType, RequestNames DEF ReplayTypeOK, Invocations, Units
<1>3. o \in 0..(N - 2) /\ o \in (request.context - 1)..(N - 2) /\ o \in Int /\ o + 1 = proc[p].read
  BY <1>1, <1>2
<1>4. rows \in Seq(Rows) /\ ledger' = ledger \o rows
  BY <1>1, <1>3, RowsOfSet DEF Predict, Origin
<1>5. /\ ToSet(ledger') = ToSet(ledger) \cup RowSet(u, o)
      /\ {KeyOf(ledger'[k]) : k \in (Len(ledger) + 1)..Len(ledger')} = Planned(u, o)
      /\ ledger' \in Seq(Rows) /\ \A row \in ToSet(ledger') : row.origin + row.horizon < N
  BY <1>1, <1>3, <1>4, TailIsPlan
<1>6. ToSet(ledger) = Covered(u, o) /\ Committed = Len(ledger)
  BY <1>1, <1>2, <1>3 DEF WriterHolds
<1>7. CheckpointsHold' /\ Committed' = Committed /\ AccessHolds'
  BY <1>1, <1>4, LedgerGrows DEF AccessHolds
<1>8. CASE rows # <<>>
  <2>1. Goto(p, "commit")
    BY <1>8 DEF Predict, Origin
  <2>2. /\ proc' = [proc EXCEPT ![p] = [proc[p] EXCEPT !.at = "commit"]]
        /\ [proc[p] EXCEPT !.at = "commit"] \in Invocations
        /\ proc'[p].at = "commit" /\ proc'[p].unit = u /\ proc'[p].read = proc[p].read
    BY <1>1, <2>1, GotoPoint DEF Points
  <2>3. PlaceHolds(p)' /\ PublicationHolds(p)'
    <3> HIDE DEF rows, o
    <3>1. PlaceHolds(p)'
      BY <1>1, <2>2 DEF PlaceHolds, Working, Loop, Closing, Scoring
    <3>2. PublicationHolds(p)'
      BY <1>1, <2>2 DEF PublicationHolds, Loop, Closing, Scoring
    <3> QED BY <3>1, <3>2
  <2>9. OnRecord(p)'
    BY <1>1, <2>2 DEF OnRecord
  <2>4. WriterHolds(p)'
    <3>1. ToSet(ledger') = Covered(u, proc[p].read)
      BY <1>1, <1>3, <1>5, <1>6, PastNext
    <3>2. {KeyOf(ledger'[k]) : k \in (Committed' + 1)..Len(ledger')} = Planned(u, o)
      BY <1>5, <1>6, <1>7
    <3> HIDE DEF u
    <3> QED BY <1>1, <2>2, <3>1, <3>2, PlansStay DEF WriterHolds, Keys
  <2>5. Holds(p)'
    BY <1>1, <2>3, <2>4, <2>9, PlansStay DEF Holds
  <2>6. ReplayTypeOK'
    BY <1>1, <1>5, <2>2 DEF ReplayTypeOK
  <2> HIDE DEF rows
  <2> QED BY <1>1, <1>7, <2>2, <2>5, <2>6, LoopKeeps DEF Loop
<1>9. CASE rows = <<>>
  <2> DEFINE i == [at |-> "unit", unit |-> u + 1, read |-> 0]
  <2>1. proc' = [proc EXCEPT ![p] = i]
    BY <1>9 DEF Predict, Origin, NextUnit
  <2>2. i \in Invocations
    <3>1. u + 1 \in 1..(LastUnit + 1) /\ 0 \in 0..N /\ "unit" \in Points
      BY <1>2 DEF Points
    <3> QED BY <3>1 DEF Invocations
  <2>3. proc'[p].at = "unit" /\ proc'[p].unit = u + 1 /\ proc'[p].read = 0
    BY <1>2, <2>1
  <2> HIDE DEF i
  <2>4. ledger' = ledger
    BY <1>1, <1>4, <1>9 DEF ReplayTypeOK
  <2>5. \A v, x : Covered(v, x) = {}
    BY <1>1, <1>3, <1>9, NoModels
  <2>6. WriterHolds(p)'
    BY <1>1, <1>6, <1>7, <2>3, <2>4, <2>5, PlansStay DEF WriterHolds
  <2>7. PlaceHolds(p)' /\ PublicationHolds(p)' /\ OnRecord(p)'
    BY <1>1, <2>3 DEF PlaceHolds, PublicationHolds, OnRecord, Working, Loop, Closing, Scoring
  <2>8. Holds(p)'
    BY <1>1, <2>6, <2>7, PlansStay DEF Holds
  <2>9. UNCHANGED records /\ created' \in BOOLEAN /\ proc[p].at \in Working
    BY <1>1, <2>4 DEF records, ReplayTypeOK, Working, Loop
  <2> HIDE DEF rows
  <2> QED BY <1>1, <2>1, <2>2, <2>8, <2>9, MoveKeeps
<1> QED BY <1>8, <1>9

\* append_origin binds the rows behind the last checkpoint.
LEMMA CommitPreserves == ASSUME IInv, NEW p \in Procs, Commit(p) PROVE IInv'
<1> DEFINE u == proc[p].unit
           o == proc[p].read - 1
           cp == [unit |-> u, origin |-> o, first |-> Committed + 1, last |-> Len(ledger)]
<1>1. /\ ReplayTypeOK /\ Holds(p) /\ proc[p].at = "commit" /\ CheckpointsHold /\ AccessHolds
      /\ UNCHANGED <<request, faults, created, ledger, access, seal, tables, published>>
      /\ u \in Units /\ request.context <= N /\ request.context <= proc[p].read /\ proc[p].read < N
      /\ Acceptable /\ created
      /\ WriterHolds(p) /\ published = {} /\ OnRecord(p)
      /\ Goto(p, "reveal") /\ checkpoints' = Append(checkpoints, cp)
  <2>1. /\ ReplayTypeOK /\ Holds(p) /\ proc[p].at = "commit" /\ CheckpointsHold /\ AccessHolds
        /\ UNCHANGED <<request, faults, created, ledger, access, seal, tables, published>>
        /\ Goto(p, "reveal") /\ checkpoints' = Append(checkpoints, cp)
    BY DEF IInv, Commit, Origin
  <2>2. PlaceHolds(p) /\ PublicationHolds(p) /\ OnRecord(p) /\ Acceptable /\ created /\ WriterHolds(p)
    BY <2>1 DEF Holds, Working, Loop
  <2> QED BY <2>1, <2>2 DEF PlaceHolds, PublicationHolds, Loop
<1>2. /\ proc[p] \in Invocations /\ proc[p].read \in Nat
      /\ N \in Nat /\ request.context \in Nat /\ request.context >= 2 /\ LastUnit \in Nat
      /\ u \in 1..(LastUnit + 1) /\ Committed \in Nat /\ Len(ledger) \in Nat
  <2>1. proc[p] \in Invocations
    BY <1>1 DEF ReplayTypeOK
  <2>2. N \in Nat /\ request.context \in Nat /\ request.context >= 2 /\ LastUnit \in Nat
    BY <1>1, RequestType, RequestNames
  <2>3. Committed \in Nat /\ Len(ledger) \in Nat
    BY <1>1 DEF ReplayTypeOK, CheckpointsHold
  <2>4. proc[p].read \in Nat /\ u \in 1..(LastUnit + 1)
    BY <2>1, <2>2 DEF Invocations
  <2> QED BY <2>1, <2>2, <2>3, <2>4
<1>3. o \in 0..(N - 2) /\ o \in Int
  <2>1. request.context <= proc[p].read /\ proc[p].read < N
    BY <1>1
  <2> HIDE <1>1
  <2> QED BY <1>2, <2>1
<1>4. cp \in CheckpointRecords
  BY <1>1, <1>2, <1>3 DEF CheckpointRecords
<1>5. cp.first = Committed + 1 /\ cp.last = Len(ledger) /\ cp.unit = u /\ cp.origin = o
  OBVIOUS
<1>6. Keys(Committed + 1, Len(ledger)) = Planned(u, o)
  BY <1>1, <1>3 DEF WriterHolds
<1> HIDE DEF cp
<1>7. /\ proc' = [proc EXCEPT ![p] = [proc[p] EXCEPT !.at = "reveal"]]
      /\ [proc[p] EXCEPT !.at = "reveal"] \in Invocations
      /\ proc'[p].at = "reveal" /\ proc'[p].unit = u /\ proc'[p].read = proc[p].read
  BY <1>1, GotoPoint DEF Points
<1>8. /\ checkpoints' \in Seq(CheckpointRecords) /\ Len(checkpoints') = Len(checkpoints) + 1 /\ Len(checkpoints) \in Nat
      /\ checkpoints'[Len(checkpoints) + 1] = cp /\ ToSet(checkpoints') = ToSet(checkpoints) \cup {cp}
  BY <1>1, <1>4, AppendGrowth DEF ReplayTypeOK
<1>9. Committed' = Len(ledger)
  <2>1. checkpoints' # <<>>
    BY <1>8
  <2> QED BY <1>5, <1>8, <2>1 DEF Committed
<1>10. CheckpointsHold'
  <2>1. \A j, k : Keys(j, k)' = Keys(j, k)
    BY <1>1 DEF Keys
  <2>2. \A c : Bounds(c) => Bounds(c)'
    BY <1>1, <2>1, PlansStay DEF Bounds
  <2>3. Bounds(cp)
    BY <1>2, <1>5, <1>6 DEF Bounds
  <2> QED BY <1>1, <1>2, <1>8, <1>9, <2>2, <2>3 DEF CheckpointsHold
<1>11. AccessHolds'
  BY <1>1, <1>8 DEF AccessHolds
<1>12. ReplayTypeOK'
  BY <1>1, <1>7, <1>8 DEF ReplayTypeOK
<1>13. PlaceHolds(p)' /\ PublicationHolds(p)'
  BY <1>1, <1>7 DEF PlaceHolds, PublicationHolds, Working, Loop, Closing, Scoring
<1>14. OnRecord(p)'
  BY <1>1, <1>7 DEF OnRecord
<1>15. WriterHolds(p)'
  BY <1>1, <1>7, <1>9, PlansStay DEF WriterHolds
<1>16. Holds(p)'
  BY <1>1, <1>13, <1>14, <1>15, PlansStay DEF Holds
<1> QED BY <1>1, <1>7, <1>10, <1>11, <1>12, <1>16, LoopKeeps DEF Loop

\* finalize.
LEMMA SealPreserves == ASSUME IInv, NEW p \in Procs, Seal(p) PROVE IInv'
<1>1. /\ ReplayTypeOK /\ Holds(p) /\ proc[p].at = "seal" /\ CheckpointsHold /\ AccessHolds
      /\ UNCHANGED <<request, faults, created, ledger, checkpoints, access, tables, published>>
      /\ proc[p].unit = LastUnit + 1
      /\ Acceptable /\ created
      /\ WriterHolds(p) /\ published = {} /\ OnRecord(p) /\ Goto(p, "barrier")
  BY DEF IInv, Seal, Holds, PlaceHolds, PublicationHolds, Working, Loop, Closing
<1>2. /\ proc' = [proc EXCEPT ![p] = [proc[p] EXCEPT !.at = "barrier"]]
      /\ [proc[p] EXCEPT !.at = "barrier"] \in Invocations
      /\ proc'[p].at = "barrier" /\ proc'[p].unit = proc[p].unit /\ proc'[p].read = proc[p].read
  BY <1>1, GotoPoint DEF Points
<1>3. CheckpointsHold' /\ Committed' = Committed
  BY <1>1, CheckpointsFrame
<1>4. AccessHolds' /\ ReplayTypeOK'
  BY <1>1, <1>2 DEF AccessHolds, ReplayTypeOK
<1>5. PlaceHolds(p)' /\ PublicationHolds(p)'
  BY <1>1, <1>2 DEF PlaceHolds, PublicationHolds, Working, Loop, Closing, Scoring
<1>6. OnRecord(p)'
  BY <1>1, <1>2 DEF OnRecord
<1>7. WriterHolds(p)'
  BY <1>1, <1>2, <1>3, PlansStay DEF WriterHolds
<1>8. Holds(p)'
  BY <1>1, <1>5, <1>6, <1>7, PlansStay DEF Holds
<1> QED BY <1>1, <1>2, <1>3, <1>4, <1>8, LoopKeeps DEF Closing

\* The tables, the summary, the manifest and last the marker.
LEMMA PublishPreserves == ASSUME IInv, NEW p \in Procs, Publish(p) PROVE IInv'
<1>1. /\ ReplayTypeOK /\ Holds(p) /\ CheckpointsHold /\ AccessHolds /\ NoFailureIsAveragedAway
      /\ UNCHANGED <<request, faults, created, ledger, checkpoints, access, seal, tables>>
  BY DEF IInv, Publish
<1>2. PICK x \in Scoring, y \in {"summary", "manifest", "complete", "done"} :
         /\ proc[p].at = x /\ published' = published \cup {x} /\ Goto(p, y)
         /\ <<x, y>> \in {<<"tables", "summary">>, <<"summary", "manifest">>,
                          <<"manifest", "complete">>, <<"complete", "done">>}
  <2>1. PICK n \in DOMAIN Publishing :
           /\ proc[p].at = Publishing[n] /\ published' = published \cup {Publishing[n]}
           /\ Goto(p, IF n = Len(Publishing) THEN "done" ELSE Publishing[n + 1])
    BY DEF Publish
  <2>2. /\ DOMAIN Publishing = 1..4 /\ Len(Publishing) = 4
        /\ Publishing[1] = "tables" /\ Publishing[2] = "summary" /\ Publishing[3] = "manifest" /\ Publishing[4] = "complete"
    BY DEF Publishing
  <2>3. n = 1 \/ n = 2 \/ n = 3 \/ n = 4
    BY <2>2
  <2>4. CASE n = 1
    BY <2>1, <2>2, <2>4 DEF Scoring
  <2>5. CASE n = 2
    BY <2>1, <2>2, <2>5 DEF Scoring
  <2>6. CASE n = 3
    BY <2>1, <2>2, <2>6 DEF Scoring
  <2>7. CASE n = 4
    BY <2>1, <2>2, <2>7 DEF Scoring
  <2> QED BY <2>3, <2>4, <2>5, <2>6, <2>7
<1>3. ToSet(Publishing) = Scoring
  <2>1. DOMAIN Publishing = 1..4
    BY DEF Publishing
  <2>2. 1..4 = {1, 2, 3, 4}
    OBVIOUS
  <2> QED BY <2>1, <2>2 DEF ToSet, Publishing, Scoring
<1>4. proc[p].at \in Working /\ Acceptable /\ created /\ WriterHolds(p) /\ CausalBarrier /\ tables # <<>>
      /\ proc[p].unit = LastUnit + 1 /\ PublicationHolds(p) /\ OnRecord(p)
  BY <1>1, <1>2 DEF Working, Holds, PublicationHolds, PlaceHolds, Loop, Scoring, Closing
<1>5. y \in Points
  BY <1>2 DEF Points, Ends
<1>6. /\ proc' = [proc EXCEPT ![p] = [proc[p] EXCEPT !.at = y]]
      /\ [proc[p] EXCEPT !.at = y] \in Invocations
      /\ proc'[p].at = y /\ proc'[p].unit = proc[p].unit /\ proc'[p].read = proc[p].read
  BY <1>1, <1>2, <1>5, GotoPoint
<1>7. CheckpointsHold' /\ Committed' = Committed /\ CausalBarrier'
  BY <1>1, <1>4, CheckpointsFrame, BarrierStays
<1>8. AccessHolds' /\ ReplayTypeOK'
  BY <1>1, <1>2, <1>3, <1>6 DEF AccessHolds, ReplayTypeOK
<1>9. PublicationHolds(p)'
  BY <1>1, <1>2, <1>4, <1>6, <1>7 DEF PublicationHolds, Loop, Closing, Scoring
<1>10. PlaceHolds(p)' /\ OnRecord(p)'
  BY <1>1, <1>2, <1>4, <1>6 DEF PlaceHolds, OnRecord, Working, Loop, Closing, Scoring
<1>11. WriterHolds(p)'
  BY <1>1, <1>2, <1>4, <1>6, <1>7, PlansStay DEF WriterHolds, Scoring
<1>12. Holds(p)'
  BY <1>1, <1>4, <1>9, <1>10, <1>11, PlansStay DEF Holds
<1>13. CompleteRunIsWhole'
  <2>1. "complete" \in published' => published' = Scoring
    BY <1>2, <1>4 DEF PublicationHolds, Loop, Closing, Scoring
  <2> QED BY <1>1, <1>3, <1>4, <1>7, <2>1 DEF CompleteRunIsWhole
<1>14. NoFailureIsAveragedAway'
  BY <1>1, TablesStay
<1> QED BY <1>1, <1>4, <1>6, <1>7, <1>8, <1>12, <1>13, <1>14, StepKeeps

\* A kill, with or without part of a batch on disk.
LEMMA KillPreserves == ASSUME IInv, NEW p \in Procs, Kill(p) PROVE IInv'
<1>1. /\ ReplayTypeOK /\ Holds(p) /\ CheckpointsHold /\ AccessHolds /\ Goto(p, "killed")
      /\ UNCHANGED <<request, faults, created, checkpoints, access, seal, tables, published>>
  BY DEF IInv, Kill
<1>2. CASE UNCHANGED ledger
  BY <1>1, <1>2, Stops DEF Points, Ends, Working, Loop, Closing, Scoring
<1>3. ASSUME proc[p].at = "predict", NEW rows \in Prefixes(RowsOf(proc[p].unit, Origin(p))) \ {<<>>},
             ledger' = ledger \o rows
      PROVE  IInv'
  <2> DEFINE u == proc[p].unit
             o == proc[p].read - 1
  <2>1. /\ u \in Units /\ request.context <= proc[p].read /\ proc[p].read < N
        /\ Acceptable /\ created /\ OnRecord(p)
    BY <1>1, <1>3 DEF Holds, PlaceHolds, PublicationHolds, Working, Loop
  <2>2. o \in 0..(N - 2)
    <3>1. proc[p].read \in Nat /\ N \in Nat /\ request.context \in Nat /\ request.context >= 2
      BY <1>1, <2>1, RequestType, RequestNames DEF ReplayTypeOK, Invocations
    <3> QED BY <2>1, <3>1
  <2>3. RowsOf(u, o) \in Seq(Rows) /\ ToSet(RowsOf(u, o)) = RowSet(u, o)
    BY <1>1, <2>1, <2>2, RowsOfSet
  <2>4. rows \in Seq(Rows) /\ ToSet(rows) \subseteq RowSet(u, o)
    <3>1. rows \in Prefixes(RowsOf(u, o))
      BY <1>3 DEF Origin
    <3> HIDE DEF u, o
    <3>2. PICK n \in 0..Len(RowsOf(u, o)) : rows = SubSeq(RowsOf(u, o), 1, n)
      BY <3>1 DEF Prefixes
    <3> QED BY <2>3, <3>2 DEF ToSet
  <2>5. /\ ledger' \in Seq(Rows) /\ ToSet(ledger') = ToSet(ledger) \cup ToSet(rows)
    BY <1>1, <1>3, <2>4, Growth DEF ReplayTypeOK
  <2>6. \A row \in ToSet(ledger') : row.origin + row.horizon < N
    <3>1. ASSUME NEW row \in RowSet(u, o) PROVE row.origin + row.horizon < N
      <4>1. PICK w \in {h \in ToSet(request.horizons) : Fits(o, h)} \X ToSet(request.models) :
                row = RowOf(u, o, w[1], w[2])
        BY <3>1, Zenon DEF RowSet
      <4> QED BY <1>1, <2>1, <2>2, <4>1, RowType
    <3> HIDE DEF u, o
    <3> QED BY <1>1, <2>4, <2>5, <3>1 DEF ReplayTypeOK
  <2>7. /\ proc' = [proc EXCEPT ![p] = [proc[p] EXCEPT !.at = "killed"]]
        /\ [proc[p] EXCEPT !.at = "killed"] \in Invocations
        /\ proc'[p].at = "killed" /\ proc'[p].unit = u /\ proc'[p].read = proc[p].read
    BY <1>1, GotoPoint DEF Points, Ends
  <2>8. CheckpointsHold' /\ AccessHolds'
    BY <1>1, <1>3, <2>4, LedgerGrows DEF AccessHolds
  <2>9. ReplayTypeOK'
    BY <1>1, <2>5, <2>6, <2>7 DEF ReplayTypeOK
  <2>10. OnRecord(p)'
    BY <1>1, <1>3, <2>1, <2>7 DEF OnRecord
  <2>11. PlaceHolds(p)' /\ PublicationHolds(p)' /\ proc'[p].at \notin Working
    BY <2>7 DEF PlaceHolds, PublicationHolds, Working, Loop, Closing, Scoring
  <2>12. Holds(p)'
    BY <2>10, <2>11 DEF Holds
  <2> HIDE DEF u, o
  <2> QED BY <1>1, <1>3, <2>7, <2>8, <2>9, <2>12, LoopKeeps DEF Loop
<1> QED BY <1>2, <1>3 DEF Kill

-----------------------------------------------------------------------------
(* The tables *)

FirstFits(h) == request.context - 1 + h < N

Origins == (request.context - 1)..(N - 2)

Sound(m, h) == \A f \in faults : ~Hits(f, m, h)

\* At the end of the replay the ledger holds the rows of every unit and origin.
LedgerIsWhole ==
    \A row : row \in ToSet(ledger) <=>
        \E u \in Units, o \in Origins, h \in ToSet(request.horizons), m \in ToSet(request.models) :
            Fits(o, h) /\ row = RowOf(u, o, h, m)

\* What the loop leaves behind is the whole plan.
LEMMA ReplayIsWhole ==
    ASSUME ReplayTypeOK, Acceptable, NEW x \in Int, ToSet(ledger) = Covered(LastUnit + 1, x)
    PROVE  LedgerIsWhole
<1>1. /\ N \in Nat /\ LastUnit \in Nat /\ request.context \in Nat /\ request.context >= 2
  BY RequestType, RequestNames
<1>2. ASSUME NEW row \in ToSet(ledger)
      PROVE  \E u \in Units, o \in Origins, h \in ToSet(request.horizons), m \in ToSet(request.models) :
                Fits(o, h) /\ row = RowOf(u, o, h, m)
  <2>1. PICK w \in Past(LastUnit + 1, x) : row \in RowSet(w[1], w[2])
    BY <1>2 DEF Covered
  <2>2. w[1] \in Units /\ w[2] \in Origins
    BY <2>1 DEF Past, Origins
  <2>3. PICK v \in {h \in ToSet(request.horizons) : Fits(w[2], h)} \X ToSet(request.models) :
            row = RowOf(w[1], w[2], v[1], v[2])
    BY <2>1, Zenon DEF RowSet
  <2>4. v[1] \in ToSet(request.horizons) /\ Fits(w[2], v[1]) /\ v[2] \in ToSet(request.models)
    BY <2>3
  <2> QED BY <2>2, <2>3, <2>4
<1>3. ASSUME NEW u \in Units, NEW o \in Origins, NEW h \in ToSet(request.horizons),
             NEW m \in ToSet(request.models), Fits(o, h)
      PROVE  RowOf(u, o, h, m) \in ToSet(ledger)
  <2>1. o \in 0..(N - 2)
    BY <1>1 DEF Origins
  <2>2. RowOf(u, o, h, m) \in RowSet(u, o)
    BY <1>3, <2>1, RowType
  <2>3. <<u, o>> \in Past(LastUnit + 1, x) /\ <<u, o>>[1] = u /\ <<u, o>>[2] = o
    <3>1. u < LastUnit + 1
      BY <1>1 DEF Units
    <3>2. <<u, o>> \in Units \X Origins /\ <<u, o>>[1] = u /\ <<u, o>>[2] = o
      OBVIOUS
    <3> QED BY <3>1, <3>2 DEF Past, Origins
  <2> QED BY <2>2, <2>3, Zenon DEF Covered
<1> QED BY <1>2, <1>3 DEF LedgerIsWhole

\* The rows of a model at a horizon for a unit.
LEMMA GroupRows ==
    ASSUME LedgerIsWhole, NEW u \in Units, NEW h \in ToSet(request.horizons), NEW m
    PROVE  /\ m \in ToSet(request.models) => \A row : row \in Group(m, h, u) <=>
                  \E o \in Origins : Fits(o, h) /\ row = RowOf(u, o, h, m)
           /\ m \notin ToSet(request.models) => Group(m, h, u) = {}
<1>1. ASSUME NEW row \in Group(m, h, u)
      PROVE  m \in ToSet(request.models) /\ \E o \in Origins : Fits(o, h) /\ row = RowOf(u, o, h, m)
  <2>1. row \in ToSet(ledger) /\ row.model = m /\ row.horizon = h /\ row.unit = u
    BY <1>1 DEF Group
  <2>2. PICK v \in Units, o \in Origins, k \in ToSet(request.horizons), n \in ToSet(request.models) :
            Fits(o, k) /\ row = RowOf(v, o, k, n)
    BY <2>1 DEF LedgerIsWhole
  <2>3. row.model = n /\ row.horizon = k /\ row.unit = v
    BY <2>2 DEF RowOf
  <2> QED BY <2>1, <2>2, <2>3
<1>2. ASSUME m \in ToSet(request.models), NEW o \in Origins, Fits(o, h)
      PROVE  RowOf(u, o, h, m) \in Group(m, h, u)
  <2>1. RowOf(u, o, h, m) \in ToSet(ledger)
    BY <1>2 DEF LedgerIsWhole
  <2>2. RowOf(u, o, h, m).model = m /\ RowOf(u, o, h, m).horizon = h /\ RowOf(u, o, h, m).unit = u
    BY DEF RowOf
  <2> QED BY <2>1, <2>2 DEF Group
<1> QED BY <1>1, <1>2

\* The origins that a horizon fits.
LEMMA OriginsFit ==
    ASSUME ReplayTypeOK, Acceptable, NEW h \in ToSet(request.horizons)
    PROVE  /\ \A o \in Origins : Fits(o, h) => FirstFits(h)
           /\ FirstFits(h) => request.context - 1 \in Origins /\ Fits(request.context - 1, h)
           /\ \A o \in 1..(N - 2) : o >= request.context - 1 /\ o + h < N => o \in Origins /\ Fits(o, h)
<1>1. /\ N \in Nat /\ request.context \in Nat /\ request.context >= 2 /\ h \in Nat /\ h >= 1
  BY RequestType, RequestNames
<1>2. ASSUME NEW o \in Origins, Fits(o, h) PROVE FirstFits(h)
  BY <1>1, <1>2 DEF Origins, Fits, FirstFits
<1>3. FirstFits(h) => request.context - 1 \in Origins /\ Fits(request.context - 1, h)
  BY <1>1 DEF Origins, Fits, FirstFits
<1>4. ASSUME NEW o \in 1..(N - 2), o >= request.context - 1, o + h < N PROVE o \in Origins /\ Fits(o, h)
  BY <1>1, <1>4 DEF Origins, Fits
<1> QED BY <1>2, <1>3, <1>4

\* When a row is scored.
LEMMA RowScored ==
    ASSUME NEW u, NEW o, NEW h, NEW m
    PROVE  ScoreStatus(RowOf(u, o, h, m)) = "OK" <=>
              /\ [kind |-> "maturity", unit |-> u, horizon |-> h, origin |-> o] \notin faults
              /\ [kind |-> "config", unit |-> u, horizon |-> h, model |-> m] \notin faults
              /\ [kind |-> "state", unit |-> u, horizon |-> h, model |-> m] \notin faults
              /\ [kind |-> "predict", unit |-> u, horizon |-> h, model |-> m, origin |-> o] \notin faults
<1>1. /\ RowOf(u, o, h, m).unit = u /\ RowOf(u, o, h, m).origin = o /\ RowOf(u, o, h, m).horizon = h
      /\ RowOf(u, o, h, m).status = PredictionStatus(u, o, h, m)
  BY DEF RowOf
<1>2. PredictionStatus(u, o, h, m) = "OK" <=>
          /\ [kind |-> "config", unit |-> u, horizon |-> h, model |-> m] \notin faults
          /\ [kind |-> "state", unit |-> u, horizon |-> h, model |-> m] \notin faults
          /\ [kind |-> "predict", unit |-> u, horizon |-> h, model |-> m, origin |-> o] \notin faults
  BY DEF PredictionStatus, Unprepared
<1>3. ScoreStatus(RowOf(u, o, h, m)) = "OK" <=>
          /\ [kind |-> "maturity", unit |-> u, horizon |-> h, origin |-> o] \notin faults
          /\ PredictionStatus(u, o, h, m) = "OK"
  BY <1>1 DEF ScoreStatus
<1> QED BY <1>2, <1>3

\* A unit has a metric exactly when no fault of its own touches it.
LEMMA MetricOK ==
    ASSUME ReplayTypeOK, Acceptable, LedgerIsWhole, NEW u \in Units,
           NEW h \in ToSet(request.horizons), NEW m \in ToSet(request.models), FirstFits(h)
    PROVE  MetricStatus(m, h, u) = "OK" <=> \A f \in faults : f.unit = u => ~Hits(f, m, h)
<1>1. MetricStatus(m, h, u) = "OK" <=>
          /\ \A o \in Origins : Fits(o, h) => ScoreStatus(RowOf(u, o, h, m)) = "OK"
          /\ [kind |-> "scale", unit |-> u] \notin faults
  <2>1. (\A row \in Group(m, h, u) : ScoreStatus(row) = "OK") <=>
            \A o \in Origins : Fits(o, h) => ScoreStatus(RowOf(u, o, h, m)) = "OK"
    BY GroupRows
  <2> QED BY <2>1 DEF MetricStatus
<1>2. ASSUME \A f \in faults : f.unit = u => ~Hits(f, m, h) PROVE MetricStatus(m, h, u) = "OK"
  <2>1. ASSUME NEW o \in Origins, Fits(o, h) PROVE ScoreStatus(RowOf(u, o, h, m)) = "OK"
    <3>1. o >= request.context - 1 /\ o + h < N
      BY <2>1, RequestType DEF Origins, Fits
    <3>2. [kind |-> "maturity", unit |-> u, horizon |-> h, origin |-> o] \notin faults
      BY <1>2, <3>1 DEF Hits
    <3>3. [kind |-> "config", unit |-> u, horizon |-> h, model |-> m] \notin faults
      BY <1>2 DEF Hits
    <3>4. [kind |-> "state", unit |-> u, horizon |-> h, model |-> m] \notin faults
      BY <1>2 DEF Hits
    <3>5. [kind |-> "predict", unit |-> u, horizon |-> h, model |-> m, origin |-> o] \notin faults
      BY <1>2, <3>1 DEF Hits
    <3> QED BY <3>2, <3>3, <3>4, <3>5, RowScored
  <2>2. [kind |-> "scale", unit |-> u] \notin faults
    BY <1>2 DEF Hits
  <2> QED BY <1>1, <2>1, <2>2
<1>3. ASSUME MetricStatus(m, h, u) = "OK", NEW f \in faults, f.unit = u, Hits(f, m, h) PROVE FALSE
  <2>1. request.context - 1 \in Origins /\ Fits(request.context - 1, h)
    BY OriginsFit
  <2>2. f \in Faults
    BY DEF ReplayTypeOK
  <2>3. CASE f \in [kind : {"config", "state"}, unit : Units, horizon : Steps, model : ModelNames]
    <3>1. f = [kind |-> f.kind, unit |-> u, horizon |-> h, model |-> m] /\ f.kind \in {"config", "state"}
      BY <1>3, <2>3 DEF Hits
    <3>2. ScoreStatus(RowOf(u, request.context - 1, h, m)) = "OK"
      BY <1>1, <1>3, <2>1
    <3>3. /\ [kind |-> "config", unit |-> u, horizon |-> h, model |-> m] \notin faults
          /\ [kind |-> "state", unit |-> u, horizon |-> h, model |-> m] \notin faults
      BY <3>2, RowScored
    <3>4. CASE f.kind = "config"
      BY <1>3, <3>1, <3>3, <3>4
    <3>5. CASE f.kind = "state"
      BY <1>3, <3>1, <3>3, <3>5
    <3> QED BY <3>1, <3>4, <3>5
  <2>4. CASE f \in [kind : {"predict"}, unit : Units, horizon : Steps, model : ModelNames, origin : 1..(N - 2)]
    <3>1. f = [kind |-> "predict", unit |-> u, horizon |-> h, model |-> m, origin |-> f.origin]
      BY <1>3, <2>4 DEF Hits
    <3>2. f.origin \in Origins /\ Fits(f.origin, h)
      BY <1>3, <2>4, OriginsFit DEF Hits
    <3> QED BY <1>1, <1>3, <3>1, <3>2, RowScored
  <2>5. CASE f \in [kind : {"maturity"}, unit : Units, horizon : Steps, origin : 1..(N - 2)]
    <3>1. f = [kind |-> "maturity", unit |-> u, horizon |-> h, origin |-> f.origin]
      BY <1>3, <2>5 DEF Hits
    <3>2. f.origin \in Origins /\ Fits(f.origin, h)
      BY <1>3, <2>5, OriginsFit DEF Hits
    <3> QED BY <1>1, <1>3, <3>1, <3>2, RowScored
  <2>6. CASE f \in [kind : {"scale"}, unit : Units]
    <3>1. f = [kind |-> "scale", unit |-> u]
      BY <1>3, <2>6
    <3> QED BY <1>1, <1>3, <3>1
  <2>7. CASE f \in [kind : {"zero"}, unit : Units, horizon : Steps]
    BY <1>3, <2>7 DEF Hits
  <2> QED BY <2>2, <2>3, <2>4, <2>5, <2>6, <2>7 DEF Faults
<1> QED BY <1>2, <1>3


\* Every unit is scored for a model and a horizon that was planned, and none for
\* another.
LEMMA UnitsScored ==
    ASSUME ReplayTypeOK, Acceptable, LedgerIsWhole, NEW h \in ToSet(request.horizons), NEW m
    PROVE  /\ m \in ToSet(request.models) /\ FirstFits(h) =>
                  ScoredUnits(m, h) = Units /\ \A u \in Units : Group(m, h, u) # {}
           /\ ~(m \in ToSet(request.models) /\ FirstFits(h)) =>
                  ScoredUnits(m, h) = {} /\ \A u \in Units : Group(m, h, u) = {}
<1>1. ASSUME NEW u \in Units, m \in ToSet(request.models), FirstFits(h) PROVE Group(m, h, u) # {}
  <2>1. request.context - 1 \in Origins /\ Fits(request.context - 1, h)
    BY <1>1, OriginsFit
  <2>2. RowOf(u, request.context - 1, h, m) \in Group(m, h, u)
    BY <1>1, <2>1, GroupRows
  <2> QED BY <2>2
<1>2. ASSUME NEW u \in Units, Group(m, h, u) # {} PROVE m \in ToSet(request.models) /\ FirstFits(h)
  <2>1. m \in ToSet(request.models)
    BY <1>2, GroupRows
  <2>2. PICK row : row \in Group(m, h, u)
    BY <1>2
  <2>3. PICK o \in Origins : Fits(o, h)
    BY <2>1, <2>2, GroupRows
  <2> QED BY <2>1, <2>3, OriginsFit
<1> QED BY <1>1, <1>2 DEF ScoredUnits

\* The tables have a line for what was planned.
LEMMA LinesArePlanned ==
    ASSUME ReplayTypeOK, Acceptable, LedgerIsWhole
    PROVE  Scored = ToSet(request.models) \X {h \in ToSet(request.horizons) : FirstFits(h)}
<1>1. LastUnit \in Nat /\ LastUnit >= 3
  BY RequestType
<1>2. Units # {}
  BY <1>1 DEF Units
<1>3. ASSUME NEW m \in ToSet(request.models), NEW h \in ToSet(request.horizons)
      PROVE  ScoredUnits(m, h) # {} <=> FirstFits(h)
  BY <1>2, UnitsScored
<1> QED BY <1>3 DEF Scored

\* A line is OK exactly when no fault touches it,
LEMMA StatusIsSound ==
    ASSUME ReplayTypeOK, Acceptable, LedgerIsWhole, NEW h \in ToSet(request.horizons),
           NEW m \in ToSet(request.models), FirstFits(h)
    PROVE  (\A u \in Units : MetricStatus(m, h, u) = "OK") <=> Sound(m, h)
<1>1. \A f \in faults : f.unit \in Units
  BY DEF ReplayTypeOK, Faults
<1>2. ASSUME NEW u \in Units PROVE MetricStatus(m, h, u) = "OK" <=> \A f \in faults : f.unit = u => ~Hits(f, m, h)
  BY MetricOK
<1> QED BY <1>1, <1>2 DEF Sound

NoZero(h) == ~\E f \in faults : f.kind = "zero" /\ f.horizon = h

\* and its comparison exactly when none touches last_value either.
LEMMA ComparisonIsSound ==
    ASSUME ReplayTypeOK, Acceptable, LedgerIsWhole, NEW h \in ToSet(request.horizons),
           NEW m \in ToSet(request.models), FirstFits(h)
    PROVE  (\A u \in Units : ComparisonStatus(m, h, u) = "OK") <=>
              Sound(m, h) /\ Sound(LastValue, h) /\ LastValue \in ToSet(request.models) /\ NoZero(h)
<1>1. \E u : u \in Units
  <2>1. LastUnit \in Nat /\ LastUnit >= 3
    BY RequestType
  <2> QED BY <2>1 DEF Units
<1>2. NoZero(h) <=> \A u \in Units : [kind |-> "zero", unit |-> u, horizon |-> h] \notin faults
  <2>1. ASSUME NEW f \in faults, f.kind = "zero", f.horizon = h
        PROVE  f.unit \in Units /\ f = [kind |-> "zero", unit |-> f.unit, horizon |-> h]
    <3>1. f \in Faults
      BY DEF ReplayTypeOK
    <3>2. f \in [kind : {"zero"}, unit : Units, horizon : Steps]
      BY <2>1, <3>1 DEF Faults
    <3> QED BY <2>1, <3>2
  <2>2. ASSUME NEW u \in Units, [kind |-> "zero", unit |-> u, horizon |-> h] \in faults PROVE ~NoZero(h)
    BY <2>2 DEF NoZero
  <2> QED BY <2>1, <2>2 DEF NoZero
<1>3. CASE LastValue \notin ToSet(request.models)
  <2>1. \A u \in Units : ComparisonStatus(m, h, u) # "OK"
    BY <1>3, UnitsScored DEF ComparisonStatus
  <2> QED BY <1>1, <1>3, <2>1
<1>4. CASE LastValue \in ToSet(request.models)
  <2>1. ASSUME NEW u \in Units
        PROVE  ComparisonStatus(m, h, u) = "OK" <=>
                  /\ MetricStatus(m, h, u) = "OK" /\ MetricStatus(LastValue, h, u) = "OK"
                  /\ [kind |-> "zero", unit |-> u, horizon |-> h] \notin faults
    <3>1. Group(LastValue, h, u) # {}
      BY <1>4, UnitsScored
    <3> QED BY <3>1 DEF ComparisonStatus
  <2>2. (\A u \in Units : MetricStatus(m, h, u) = "OK") <=> Sound(m, h)
    BY StatusIsSound
  <2>3. (\A u \in Units : MetricStatus(LastValue, h, u) = "OK") <=> Sound(LastValue, h)
    BY <1>4, StatusIsSound
  <2> QED BY <1>2, <1>4, <2>1, <2>2, <2>3, Zenon
<1> QED BY <1>3, <1>4

\* _score_predictions tells every failure.
LEMMA AggregateIsHonest ==
    ASSUME ReplayTypeOK, Acceptable, LedgerIsWhole, NEW h \in ToSet(request.horizons),
           NEW m \in ToSet(request.models), FirstFits(h)
    PROVE  /\ Aggregate(m, h).status = "OK" <=> Sound(m, h)
           /\ Aggregate(m, h).comparison = "OK" <=>
                 Sound(m, h) /\ Sound(LastValue, h) /\ LastValue \in ToSet(request.models) /\ NoZero(h)
<1>1. ScoredUnits(m, h) = Units
  BY UnitsScored
<1>2. (\A u \in Units : MetricStatus(m, h, u) = "OK") <=> Sound(m, h)
  BY StatusIsSound
<1>3. (\A u \in Units : ComparisonStatus(m, h, u) = "OK") <=>
          Sound(m, h) /\ Sound(LastValue, h) /\ LastValue \in ToSet(request.models) /\ NoZero(h)
  BY ComparisonIsSound
<1> DEFINE failed == \E u \in Units : MetricStatus(m, h, u) # "OK"
<1>4. Aggregate(m, h).status = (IF failed THEN "NA_planned_failure" ELSE "OK")
  BY <1>1 DEF Aggregate
<1>5. Aggregate(m, h).comparison =
          (IF failed THEN "NA_planned_failure"
           ELSE IF \A u \in Units : ComparisonStatus(m, h, u) = "OK" THEN "OK"
           ELSE "NA_incomplete_last_value_comparison")
  BY <1>1 DEF Aggregate
<1>6. Aggregate(m, h).status = "OK" <=> ~failed
  BY <1>4
<1>7. Aggregate(m, h).comparison = "OK" <=> ~failed /\ \A u \in Units : ComparisonStatus(m, h, u) = "OK"
  BY <1>5
<1> QED BY <1>2, <1>3, <1>6, <1>7

\* The tables that mature_sealed_predictions and _score_predictions make of a
\* whole ledger average no failure away.
LEMMA TablesAreHonest ==
    ASSUME ReplayTypeOK, Acceptable, LedgerIsWhole, UNCHANGED <<request, faults>>,
           tables' = <<[k \in Scored |-> Aggregate(k[1], k[2])]>>
    PROVE  NoFailureIsAveragedAway'
<1> DEFINE planned == ToSet(request.models) \X {h \in ToSet(request.horizons) : FirstFits(h)}
           lines == [k \in Scored |-> Aggregate(k[1], k[2])]
<1>1. tables' # <<>> /\ tables'[1] = lines
  OBVIOUS
<1>2. DOMAIN lines = planned
  BY LinesArePlanned
<1>3. ASSUME NEW k \in planned
      PROVE  /\ lines[k].status = "OK" <=> Sound(k[1], k[2])
             /\ lines[k].comparison = "OK" <=>
                   Sound(k[1], k[2]) /\ Sound(LastValue, k[2]) /\ LastValue \in ToSet(request.models) /\ NoZero(k[2])
  <2>1. k \in Scored /\ lines[k] = Aggregate(k[1], k[2])
    BY LinesArePlanned
  <2>2. k[1] \in ToSet(request.models) /\ k[2] \in ToSet(request.horizons) /\ FirstFits(k[2])
    OBVIOUS
  <2> HIDE DEF planned, lines
  <2> QED BY <2>1, <2>2, AggregateIsHonest
<1>4. DOMAIN tables'[1] = ToSet(request.models) \X {h \in ToSet(request.horizons) : request.context - 1 + h < N}
  BY <1>1, <1>2 DEF FirstFits
<1>5. \A k \in DOMAIN tables'[1] :
         /\ tables'[1][k].status = "OK" <=> \A f \in faults : ~Hits(f, k[1], k[2])
         /\ tables'[1][k].comparison = "OK" <=>
               /\ \A f \in faults : ~Hits(f, k[1], k[2])
               /\ \A f \in faults : ~Hits(f, LastValue, k[2])
               /\ LastValue \in ToSet(request.models)
               /\ ~\E f \in faults : f.kind = "zero" /\ f.horizon = k[2]
  <2> HIDE DEF planned, lines
  <2>1. tables'[1] = lines /\ DOMAIN tables'[1] = planned
    BY <1>1, <1>2
  <2>2. \A k \in planned :
           /\ lines[k].status = "OK" <=> \A f \in faults : ~Hits(f, k[1], k[2])
           /\ lines[k].comparison = "OK" <=>
                 /\ \A f \in faults : ~Hits(f, k[1], k[2])
                 /\ \A f \in faults : ~Hits(f, LastValue, k[2])
                 /\ LastValue \in ToSet(request.models)
                 /\ ~\E f \in faults : f.kind = "zero" /\ f.horizon = k[2]
    <3> TAKE k \in planned
    <3> USE DEF Sound, NoZero
    <3>1. lines[k].status = "OK" <=> \A f \in faults : ~Hits(f, k[1], k[2])
      BY <1>3, Zenon
    <3>2. lines[k].comparison = "OK" <=>
             /\ \A f \in faults : ~Hits(f, k[1], k[2])
             /\ \A f \in faults : ~Hits(f, LastValue, k[2])
             /\ LastValue \in ToSet(request.models)
             /\ ~\E f \in faults : f.kind = "zero" /\ f.horizon = k[2]
      BY <1>3, Zenon
    <3> QED BY <3>1, <3>2, Zenon
  <2> QED BY <2>1, <2>2, Zenon
<1>6. \A f, m, h : Hits(f, m, h)' = Hits(f, m, h)
  BY DEF Hits
<1>7. request' = request /\ faults' = faults
  OBVIOUS
<1> HIDE DEF lines, planned
<1>8. \A k \in DOMAIN tables'[1] :
         /\ tables'[1][k].status = "OK" <=> \A f \in faults' : ~Hits(f, k[1], k[2])'
         /\ tables'[1][k].comparison = "OK" <=>
               /\ \A f \in faults' : ~Hits(f, k[1], k[2])'
               /\ \A f \in faults' : ~Hits(f, LastValue, k[2])'
               /\ LastValue \in ToSet(request'.models)
               /\ ~\E f \in faults' : f.kind = "zero" /\ f.horizon = k[2]
  BY <1>5, <1>6, <1>7, ZenonT(40)
<1> QED BY <1>4, <1>7, <1>8, ZenonT(40) DEF NoFailureIsAveragedAway

\* main scores what the loop left behind, or fails.
LEMMA MaturePreserves == ASSUME IInv, NEW p \in Procs, Mature(p) PROVE IInv'
<1>1. /\ ReplayTypeOK /\ Holds(p) /\ CheckpointsHold /\ AccessHolds /\ proc[p].at = "mature"
      /\ UNCHANGED <<request, faults, created, ledger, checkpoints, access, seal, published>>
  BY DEF IInv, Mature
<1>2. CASE ~(CausalBarrier /\ CommonKeys)
  <2>1. UNCHANGED tables /\ Goto(p, "failed")
    BY <1>2 DEF Mature
  <2> QED BY <1>1, <2>1, Stops DEF Points, Ends, Working, Loop, Closing, Scoring
<1>3. CASE CausalBarrier /\ CommonKeys
  <2>1. tables' = <<[k \in Scored |-> Aggregate(k[1], k[2])]>> /\ Goto(p, "tables")
    BY <1>3 DEF Mature
  <2>2. /\ proc' = [proc EXCEPT ![p] = [proc[p] EXCEPT !.at = "tables"]]
        /\ [proc[p] EXCEPT !.at = "tables"] \in Invocations
        /\ proc'[p].at = "tables" /\ proc'[p].unit = proc[p].unit /\ proc'[p].read = proc[p].read
    BY <1>1, <2>1, GotoPoint DEF Points
  <2>3. /\ Acceptable /\ created /\ WriterHolds(p) /\ published = {} /\ proc[p].unit = LastUnit + 1
        /\ PlaceHolds(p) /\ OnRecord(p) /\ proc[p].at \in Working
    BY <1>1 DEF Holds, PlaceHolds, PublicationHolds, Working, Loop, Closing
  <2>4. LedgerIsWhole
    <3>1. proc[p].read \in Int /\ proc[p].unit \in 1..(LastUnit + 1)
      BY <1>1 DEF ReplayTypeOK, Invocations
    <3>2. ToSet(ledger) = Covered(LastUnit + 1, proc[p].read)
      BY <1>1, <2>3, <3>1 DEF WriterHolds
    <3> QED BY <1>1, <2>3, <3>1, <3>2, ReplayIsWhole
  <2>5. NoFailureIsAveragedAway'
    BY <1>1, <2>1, <2>3, <2>4, TablesAreHonest
  <2>6. CheckpointsHold' /\ Committed' = Committed /\ CausalBarrier'
    BY <1>1, <1>3, CheckpointsFrame, BarrierStays
  <2>7. AccessHolds' /\ ReplayTypeOK'
    BY <1>1, <2>2 DEF AccessHolds, ReplayTypeOK
  <2>8. PublicationHolds(p)'
    <3>1. tables' # <<>>
      BY <2>1
    <3> QED BY <1>1, <2>2, <2>3, <2>6, <3>1 DEF PublicationHolds, Loop, Closing, Scoring
  <2>9. PlaceHolds(p)' /\ OnRecord(p)'
    BY <1>1, <2>2, <2>3 DEF PlaceHolds, OnRecord, Working, Loop, Closing, Scoring
  <2>10. WriterHolds(p)'
    BY <1>1, <2>2, <2>3, <2>6, PlansStay DEF WriterHolds
  <2>11. Holds(p)'
    BY <1>1, <2>3, <2>8, <2>9, <2>10, PlansStay DEF Holds
  <2>12. CompleteRunIsWhole'
    BY <1>1, <2>3 DEF CompleteRunIsWhole
  <2> QED BY <1>1, <2>2, <2>3, <2>5, <2>6, <2>7, <2>11, <2>12, StepKeeps
<1> QED BY <1>2, <1>3

-----------------------------------------------------------------------------
(* The theorems *)

\* Before any invocation nothing is on disk.
LEMMA InitHolds == Init => IInv
<1> SUFFICES ASSUME Init PROVE IInv
  OBVIOUS
<1>1. /\ ledger = <<>> /\ checkpoints = <<>> /\ access = <<>> /\ tables = <<>> /\ published = {}
      /\ created = FALSE /\ proc = [p \in Procs |-> Start]
      /\ request \in [context : Contexts, horizons : Horizons, models : Models]
  BY DEF Init
<1>2. N \in Nat /\ LastUnit \in Nat
  BY ReplayAssumption
<1>3. faults \subseteq Faults
  <2>1. PICK fs \in [1..MaxFaults -> Faults], some \in SUBSET (1..MaxFaults) : faults = {fs[i] : i \in some}
    BY DEF Init
  <2> QED BY <2>1
<1>4. ToSet(ledger) = {} /\ ToSet(checkpoints) = {} /\ ToSet(access) = {} /\ Len(ledger) = 0 /\ Committed = 0
  BY <1>1 DEF ToSet, Committed
<1>5. Start \in Invocations
  BY <1>2 DEF Start, Invocations, Points
<1>6. \A p \in Procs : proc[p].at = "check" /\ proc[p].unit = 1 /\ proc[p].read = 0
  BY <1>1 DEF Start
<1>7. ReplayTypeOK
  <2>1. ledger \in Seq(Rows) /\ checkpoints \in Seq(CheckpointRecords) /\ access \in Seq(AccessRecords)
    BY <1>1
  <2>2. proc \in [Procs -> Invocations]
    BY <1>1, <1>5
  <2> QED BY <1>1, <1>3, <1>4, <2>1, <2>2 DEF ReplayTypeOK
<1>8. OwnersHold /\ CheckpointsHold /\ AccessHolds
  BY <1>1, <1>4, <1>6 DEF OwnersHold, CheckpointsHold, AccessHolds, Working, Loop, Closing, Scoring
<1>9. ASSUME NEW p \in Procs PROVE Holds(p)
  BY <1>1, <1>6 DEF Holds, PlaceHolds, OnRecord, PublicationHolds, Working, Loop, Closing, Scoring
<1>10. CompleteRunIsWhole /\ NoFailureIsAveragedAway
  BY <1>1 DEF CompleteRunIsWhole, NoFailureIsAveragedAway
<1> QED BY <1>7, <1>8, <1>9, <1>10 DEF IInv

\* A stuttering step.
LEMMA StutterPreserves == ASSUME IInv, UNCHANGED vars PROVE IInv'
<1>1. UNCHANGED <<request, faults, created, ledger, checkpoints, access, seal, tables, published, proc>>
  BY DEF vars
<1>2. ReplayTypeOK' /\ OwnersHold' /\ AccessHolds'
  BY <1>1 DEF IInv, ReplayTypeOK, OwnersHold, AccessHolds
<1>3. CheckpointsHold' /\ Committed' = Committed /\ CausalBarrier' = CausalBarrier
  BY <1>1, CheckpointsFrame, BarrierStays DEF IInv
<1>4. ASSUME NEW q \in Procs PROVE Holds(q)'
  BY <1>1, <1>4, OthersHold DEF IInv
<1>5. CompleteRunIsWhole' /\ NoFailureIsAveragedAway'
  BY <1>1, <1>3, TablesStay DEF IInv, CompleteRunIsWhole
<1> QED BY <1>2, <1>3, <1>4, <1>5 DEF IInv

\* Every step of every invocation, and every kill, keeps the invariant.
LEMMA NextPreserves == IInv /\ [Next]_vars => IInv'
<1> SUFFICES ASSUME IInv, [Next]_vars PROVE IInv'
  OBVIOUS
<1>1. CASE UNCHANGED vars
  BY <1>1, StutterPreserves
<1>2. ASSUME NEW p \in Procs, Step(p) PROVE IInv'
  BY <1>2, CheckOutputPreserves, OpenPreserves, StartUnitPreserves, AuthorizePreserves, ReadEventPreserves,
     PredictPreserves, CommitPreserves, SealPreserves, VerifyBarrierPreserves, MaturePreserves,
     PublishPreserves, Zenon DEF Step
<1>3. ASSUME NEW p \in Procs, Kill(p) PROVE IInv'
  BY <1>3, KillPreserves
<1> QED BY <1>1, <1>2, <1>3 DEF Next

\* The inductive invariant holds of the Stress-2 run, for any number of
\* invocations of main with one output directory, killed wherever they are.
THEOREM InvariantHolds == Spec => []IInv
<1> QED BY InitHolds, NextPreserves, PTL DEF Spec

\* Every record of the run is well typed, and no prediction row reaches past
\* the end of its unit's stream.
THEOREM TypeCorrect == Spec => []TypeOK
<1>1. IInv => TypeOK
  <2> SUFFICES ASSUME IInv PROVE TypeOK
    OBVIOUS
  <2>1. ReplayTypeOK
    BY DEF IInv
  <2>2. N \in Nat
    BY RequestType, <2>1
  <2>3. ASSUME NEW row \in ToSet(ledger) PROVE row \in Rows /\ row.origin + row.horizon \in 0..(N - 1)
    <3>1. row \in Rows /\ row.origin + row.horizon < N
      <4>1. ledger \in Seq(Rows) /\ row.origin + row.horizon < N
        BY <2>1, <2>3 DEF ReplayTypeOK
      <4>2. row \in Rows
        BY <2>3, <4>1 DEF ToSet
      <4> QED BY <4>1, <4>2
    <3>2. row.origin \in Nat /\ row.horizon \in Nat
      <4>1. row.origin \in 0..(N - 2) /\ row.horizon \in Steps
        BY <3>1 DEF Rows
      <4>2. Steps \subseteq Nat
        BY ReplayAssumption DEF Steps, ToSet
      <4>3. row.origin \in Nat
        BY <2>2, <4>1
      <4>4. row.horizon \in Nat
        BY <4>1, <4>2, Zenon
      <4> QED BY <4>3, <4>4
    <3> QED BY <2>2, <3>1, <3>2
  <2>4. \A cp \in ToSet(checkpoints) : cp.unit \in Units /\ cp.origin \in 0..(N - 2)
    <3>1. checkpoints \in Seq(CheckpointRecords)
      BY <2>1 DEF ReplayTypeOK
    <3>2. \A cp \in ToSet(checkpoints) : cp \in CheckpointRecords
      BY <3>1 DEF ToSet
    <3> QED BY <3>2 DEF CheckpointRecords
  <2>5. \A a \in ToSet(access) : a.unit \in Units /\ a.event \in 0..(N - 1)
    <3>1. access \in Seq(AccessRecords)
      BY <2>1 DEF ReplayTypeOK
    <3>2. \A a \in ToSet(access) : a \in AccessRecords
      BY <3>1 DEF ToSet
    <3> QED BY <3>2 DEF AccessRecords
  <2>6. ASSUME NEW p \in Procs
        PROVE  proc[p].at \in Points /\ proc[p].unit \in 1..(LastUnit + 1) /\ proc[p].read \in 0..N
    BY <2>1 DEF ReplayTypeOK, Invocations
  <2> QED BY <2>1, <2>3, <2>4, <2>5, <2>6 DEF TypeOK, ReplayTypeOK
<1> QED BY <1>1, InvariantHolds, PTL

\* No event behind the context is revealed before every planned prediction of
\* the origin before it, failed ones included, is durable within a checkpoint,
\* in every state and so after every kill; and nothing is read off the record.
THEOREM NothingIsPeekedAt == Spec => []NoPeeking
<1>1. IInv => NoPeeking
  <2> SUFFICES ASSUME IInv PROVE NoPeeking
    OBVIOUS
  <2>1. ReplayTypeOK /\ CheckpointsHold /\ AccessHolds
    BY DEF IInv
  <2>2. ASSUME NEW a \in ToSet(access), a.event >= request.context
        PROVE  \E cp \in ToSet(checkpoints) :
                  /\ cp.unit = a.unit /\ cp.origin = a.event - 1
                  /\ {<<ledger[k].unit, ledger[k].origin, ledger[k].horizon, ledger[k].model>> :
                         k \in cp.first .. cp.last} = Planned(a.unit, a.event - 1)
    <3>1. PICK cp \in ToSet(checkpoints) : cp.unit = a.unit /\ cp.origin = a.event - 1
      BY <2>1, <2>2 DEF AccessHolds
    <3>2. Keys(cp.first, cp.last) = Planned(a.unit, a.event - 1)
      BY <2>1, <3>1 DEF CheckpointsHold, Bounds
    <3> QED BY <3>1, <3>2 DEF Keys, KeyOf
  <2>3. ASSUME NEW p \in Procs, NEW e \in 0..(proc[p].read - 1)
        PROVE  \E a \in ToSet(access) : a.unit = proc[p].unit /\ a.event = e
    <3>1. e \in Nat /\ e < proc[p].read
      BY <2>1 DEF ReplayTypeOK, Invocations
    <3> QED BY <3>1 DEF IInv, Holds, OnRecord
  <2> QED BY <2>2, <2>3 DEF NoPeeking
<1> QED BY <1>1, InvariantHolds, PTL

\* COMPLETE is only written over a run that has everything: the sealed and
\* causally verified ledger, the tables, the summary and the manifest.
THEOREM CompleteIsWhole == Spec => []CompleteRunIsWhole
<1>1. IInv => CompleteRunIsWhole
  BY DEF IInv
<1> QED BY <1>1, InvariantHolds, PTL

\* The published tables have a line for every planned model and horizon, which
\* is OK exactly when nothing failed for any unit.
THEOREM FailuresStayVisible == Spec => []NoFailureIsAveragedAway
<1>1. IInv => NoFailureIsAveragedAway
  BY DEF IInv
<1> QED BY <1>1, InvariantHolds, PTL
=============================================================================
