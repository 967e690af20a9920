-------------------------- MODULE JSONLLedgerProofs --------------------------
(***************************************************************************)
(* Machine-checked proofs about one JSONL ledger, for every set of ids and *)
(* every number of lines, failed writes, crashes and power losses.         *)
(*                                                                         *)
(* What a chain of hashes tells of a file is a fact by induction over its  *)
(* lines.  Here it is carried by the invariant instead: every append       *)
(* extends it by the line it writes.                                       *)
(* The last part shows that the file is a DurableLedger to its user.       *)
(***************************************************************************)
EXTENDS JSONLLedger, TLAPS, SequenceTheorems, NaturalsInduction, WellFoundedInduction

USE LedgerAssumption

-----------------------------------------------------------------------------
(* The inductive invariant *)

\* A sequence, of whatever values it is made of.
IsSequence(s) == s \in Seq({s[k] : k \in DOMAIN s})

\* h begins with g.
Begins(g, h) == Len(g) <= Len(h) /\ \A k \in 1..Len(g) : h[k] = g[k]

\* What of a record its hash covers, beside the hash before it.
Content(r) == [event |-> r.event, id |-> r.id, ref |-> r.ref]

\* The first n lines are records, each after the one before it.
Chained(n) == \A i \in 1..n : /\ lines[i].ok
                              /\ lines[i].seq = i - 1
                              /\ lines[i].prev = PreviousHash(i)

\* s tells what the first n lines hold.
Tells(s, n) == Len(s) = n /\ \A k \in 1..n : s[k] = Content(lines[k])

FileHolds ==
    /\ IsSequence(lines) /\ synced \in 0..Len(lines)
    /\ exists \in BOOLEAN /\ torn \in BOOLEAN /\ open \in BOOLEAN
    /\ kind \in LedgerKinds /\ faults \in Nat /\ crashes \in Nat
    /\ ~exists => lines = <<>> /\ acked = {} /\ ~open
    /\ \A i \in DOMAIN lines :
          /\ lines[i].ok \in BOOLEAN
          /\ lines[i].ok => /\ IsSequence(lines[i].prev)
                            /\ lines[i].event \in Events(kind) /\ lines[i].id \in Ids

\* The hash at the end of a chain tells the whole chain.
HashesTell == \A n \in DOMAIN lines : Chained(n) => Tells(RecordHash(lines[n]), n)

\* Memory is a record of its six fields; an open ledger's tail is never ahead of
\* the file, and extends every record that an append returned.
MemoryHolds ==
    /\ mem = [sequence |-> mem.sequence, previous |-> mem.previous, started |-> mem.started,
              finished |-> mem.finished, keys |-> mem.keys, sealed |-> mem.sealed]
    /\ mem.sequence \in Nat /\ mem.sealed \in BOOLEAN
    /\ mem.finished \subseteq Ids /\ mem.keys \subseteq Ids
    /\ \A s \in mem.started : s[1] \in Ids
    /\ open => /\ mem.sequence <= Len(lines)
               /\ IsSequence(mem.previous) /\ Len(mem.previous) = mem.sequence
               /\ \A h \in acked : Begins(h, mem.previous)

\* A returned record is synced, and while the synced lines are a chain it is one
\* of them; of two, one extends the other.
AckedHold ==
    /\ \A h \in acked : /\ IsSequence(h) /\ Len(h) \in 1..synced
                        /\ Chained(synced) => RecordHash(lines[Len(h)]) = h
    /\ \A g, h \in acked : Len(g) <= Len(h) => Begins(g, h)

\* The sealed bytes are synced.
SealHolds ==
    /\ seal.state \in {"ABSENT", "TORN", "WRITTEN"}
    /\ seal.state = "ABSENT" => seal = NoSeal
    /\ seal.state = "WRITTEN" =>
          IsSequence(seal.bytes) /\ Len(seal.bytes) <= synced /\ Begins(seal.bytes, lines)

\* The holder's key sets are those of the file.
KeysTell ==
    /\ \A i \in DOMAIN lines :
          /\ lines[i].event = "STARTED" => <<lines[i].id, RecordHash(lines[i])>> \in mem.started
          /\ lines[i].event = "FINISHED" => lines[i].id \in mem.finished
          /\ lines[i].event = "ROW" => lines[i].id \in mem.keys
    /\ \A s \in mem.started : \E i \in DOMAIN lines :
          lines[i].event = "STARTED" /\ s = <<lines[i].id, RecordHash(lines[i])>>

\* Until a write fails the file verifies, its holder knows it, and the seal binds
\* the lines it was made over.
CleanHolds ==
    faults = 0 =>
        /\ ~torn /\ synced = Len(lines) /\ Chained(Len(lines)) /\ ReferencesHold
        /\ open => /\ mem.sequence = Len(lines)
                   /\ mem.previous = PreviousHash(Len(lines) + 1)
                   /\ KeysTell
        /\ seal.state = "WRITTEN" =>
              /\ seal.count = Len(seal.bytes)
              /\ seal.final = IF Len(seal.bytes) = 0 THEN Genesis
                              ELSE RecordHash(seal.bytes[Len(seal.bytes)])

IInv ==
    FileHolds /\ HashesTell /\ MemoryHolds /\ AckedHold /\ SealHolds /\ CleanHolds

-----------------------------------------------------------------------------
(* Sequences *)

LEMMA SequenceIs ==
    ASSUME NEW s, IsSequence(s)
    PROVE  Len(s) \in Nat /\ DOMAIN s = 1..Len(s)
BY DEF IsSequence

LEMMA AppendIs ==
    ASSUME NEW s, IsSequence(s), NEW e
    PROVE  /\ IsSequence(Append(s, e)) /\ Len(Append(s, e)) = Len(s) + 1
           /\ \A k \in 1..Len(s) : Append(s, e)[k] = s[k]
           /\ Append(s, e)[Len(s) + 1] = e
<1> DEFINE S == {s[k] : k \in DOMAIN s}
           T == S \cup {e}
           t == Append(s, e)
<1>1. s \in Seq(S)
  BY DEF IsSequence
<1>2. s \in Seq(T)
  <2>1. \A i \in 1..Len(s) : s[i] \in T
    BY <1>1
  <2> QED BY <1>1, <2>1, SeqDef, LenProperties
<1> HIDE DEF T, S
<1>3. e \in T
  BY DEF T
<1>4. /\ t \in Seq(T) /\ Len(t) = Len(s) + 1 /\ DOMAIN t = 1..(Len(s) + 1)
      /\ \A k \in 1..Len(s) : t[k] = s[k]
      /\ t[Len(s) + 1] = e
  BY <1>2, <1>3, AppendProperties
<1> HIDE DEF t
<1>5. t \in Seq({t[k] : k \in DOMAIN t})
  <2> DEFINE R == {t[k] : k \in DOMAIN t}
  <2>1. DOMAIN t = 1..Len(t) /\ Len(t) \in Nat
    BY <1>2, <1>4
  <2>2. t \in [1..Len(t) -> R]
    BY <1>4, <2>1
  <2> QED BY <2>1, <2>2, SeqDef
<1> QED BY <1>4, <1>5 DEF IsSequence, t

LEMMA EmptyIs == IsSequence(<<>>) /\ Len(<<>>) = 0
BY EmptySeq DEF IsSequence

LEMMA SequenceEqual ==
    ASSUME NEW s, IsSequence(s), NEW t, IsSequence(t), Len(s) = Len(t),
           \A k \in 1..Len(s) : s[k] = t[k]
    PROVE  s = t
<1> DEFINE S == {s[k] : k \in DOMAIN s}
<1>1. s \in Seq(S) /\ Len(s) \in Nat /\ DOMAIN s = 1..Len(s)
  BY SequenceIs DEF IsSequence
<1>2. DOMAIN t = 1..Len(s) /\ \A k \in 1..Len(s) : t[k] \in S
  BY <1>1, SequenceIs
<1>3. t \in Seq({t[k] : k \in DOMAIN t}) /\ {t[k] : k \in DOMAIN t} \subseteq S
  BY <1>2 DEF IsSequence
<1> HIDE DEF S
<1>4. t \in Seq(S)
  BY <1>3, SeqMonotonic
<1> QED BY <1>1, <1>4, SeqEqual

LEMMA PrefixIs ==
    ASSUME NEW s, IsSequence(s), NEW n \in 0..Len(s)
    PROVE  /\ IsSequence(SubSeq(s, 1, n)) /\ Len(SubSeq(s, 1, n)) = n
           /\ \A k \in 1..n : SubSeq(s, 1, n)[k] = s[k]
<1> DEFINE S == {s[k] : k \in DOMAIN s}
           t == SubSeq(s, 1, n)
<1>1. s \in Seq(S) /\ Len(s) \in Nat /\ DOMAIN s = 1..Len(s)
  BY SequenceIs DEF IsSequence
<1>2. n \in Int /\ 1 \in Int /\ \A i \in 1..n : s[i] \in S
  BY <1>1
<1> HIDE DEF S
<1>3. t \in Seq(S) /\ Len(t) = (IF 1 <= n THEN n - 1 + 1 ELSE 0)
      /\ \A i \in 1..(n - 1 + 1) : t[i] = s[1 + i - 1]
  BY <1>2, SubSeqProperties
<1> HIDE DEF t
<1>4. Len(t) = n /\ \A k \in 1..n : t[k] = s[k]
  BY <1>1, <1>3
<1>5. t \in Seq({t[k] : k \in DOMAIN t})
  <2> DEFINE R == {t[k] : k \in DOMAIN t}
  <2>1. DOMAIN t = 1..Len(t) /\ Len(t) \in Nat
    BY <1>3
  <2>2. t \in [1..Len(t) -> R]
    BY <1>3, <2>1, LenProperties
  <2> QED BY <2>1, <2>2, SeqDef
<1> QED BY <1>4, <1>5 DEF IsSequence, t

\* A sequence begins with another exactly when that is its first part.
LEMMA BeginsIs ==
    ASSUME NEW g, IsSequence(g), NEW h, IsSequence(h), Begins(g, h)
    PROVE  SubSeq(h, 1, Len(g)) = g
<1>1. Len(g) \in 0..Len(h)
  BY SequenceIs DEF Begins
<1>2. /\ IsSequence(SubSeq(h, 1, Len(g))) /\ Len(SubSeq(h, 1, Len(g))) = Len(g)
      /\ \A k \in 1..Len(g) : SubSeq(h, 1, Len(g))[k] = h[k]
  BY <1>1, PrefixIs
<1> QED BY <1>2, SequenceEqual DEF Begins

LEMMA HashIs ==
    ASSUME NEW r, IsSequence(r.prev)
    PROVE  /\ RecordHash(r) = Append(r.prev, Content(r))
           /\ IsSequence(RecordHash(r)) /\ Len(RecordHash(r)) = Len(r.prev) + 1
           /\ \A k \in 1..Len(r.prev) : RecordHash(r)[k] = r.prev[k]
           /\ RecordHash(r)[Len(r.prev) + 1] = Content(r)
<1>1. RecordHash(r) = Append(r.prev, Content(r))
  BY DEF RecordHash, Content
<1> QED BY <1>1, AppendIs

-----------------------------------------------------------------------------
(* Chains *)

LEMMA FileIs ==
    ASSUME IInv PROVE Len(lines) \in Nat /\ DOMAIN lines = 1..Len(lines)
BY SequenceIs DEF IInv, FileHolds

\* The hash after n chained lines tells them.
LEMMA ChainTells ==
    ASSUME IInv, NEW n \in 0..Len(lines), Chained(n)
    PROVE  IsSequence(PreviousHash(n + 1)) /\ Tells(PreviousHash(n + 1), n)
<1>1. CASE n = 0
  <2>1. PreviousHash(n + 1) = <<>>
    BY <1>1 DEF PreviousHash, Genesis
  <2> QED BY <1>1, <2>1, EmptyIs DEF Tells
<1>2. CASE n # 0
  <2>1. n \in DOMAIN lines /\ n \in 1..n
    BY <1>2, FileIs
  <2>2. PreviousHash(n + 1) = RecordHash(lines[n])
    BY <1>2, FileIs DEF PreviousHash
  <2>3. lines[n].ok
    BY <2>1 DEF Chained
  <2>4. IsSequence(lines[n].prev)
    BY <2>1, <2>3 DEF IInv, FileHolds
  <2>5. Tells(RecordHash(lines[n]), n)
    BY <2>1 DEF IInv, HashesTell
  <2> QED BY <2>2, <2>4, <2>5, HashIs
<1> QED BY <1>1, <1>2

LEMMA ChainShorter ==
    ASSUME NEW n \in Nat, NEW m \in 0..n, Chained(n) PROVE Chained(m)
<1>1. \A i \in 1..m : i \in 1..n
  OBVIOUS
<1> QED BY <1>1 DEF Chained

\* Lines that stay keep their chain.
LEMMA ChainStays ==
    ASSUME NEW n \in Nat, \A k \in 1..n : lines'[k] = lines[k]
    PROVE  /\ \A i \in 1..(n + 1) : PreviousHash(i)' = PreviousHash(i)
           /\ Chained(n)' <=> Chained(n)
           /\ \A s : Tells(s, n)' <=> Tells(s, n)
<1>1. \A i \in 1..(n + 1) : PreviousHash(i)' = PreviousHash(i)
  <2> SUFFICES ASSUME NEW i \in 1..(n + 1), i # 1 PROVE lines'[i - 1] = lines[i - 1]
    BY DEF PreviousHash, RecordHash
  <2>1. i - 1 \in 1..n
    OBVIOUS
  <2> QED BY <2>1
<1>2. Chained(n)' <=> Chained(n)
  <2>1. \A i \in 1..n : PreviousHash(i)' = PreviousHash(i)
    BY <1>1
  <2> QED BY <2>1 DEF Chained
<1>3. \A s : Tells(s, n)' <=> Tells(s, n)
  BY DEF Tells, Content
<1> QED BY <1>1, <1>2, <1>3

\* A file that verifies is chained; and the first two checks say no more.
LEMMA VerifiedIsChained ==
    ASSUME IInv
    PROVE  /\ Verifies => Chained(Len(lines))
           /\ ~torn /\ Chained(Len(lines)) /\ ReferencesHold => Verifies
BY FileIs DEF Verifies, Parses, ChainHolds, Chained

-----------------------------------------------------------------------------
(* A line is added *)

\* A line that a writer may add.
Writable(x) == /\ x.ok \in BOOLEAN
               /\ x.ok => IsSequence(x.prev) /\ x.event \in Events(kind) /\ x.id \in Ids

LEMMA LinesGrow ==
    ASSUME IInv, NEW x, Writable(x), lines' = Append(lines, x), kind' = kind
    PROVE  /\ IsSequence(lines') /\ Len(lines') = Len(lines) + 1
           /\ DOMAIN lines' = 1..(Len(lines) + 1)
           /\ \A k \in 1..Len(lines) : lines'[k] = lines[k]
           /\ lines'[Len(lines) + 1] = x
           /\ \A i \in DOMAIN lines' :
                 /\ lines'[i].ok \in BOOLEAN
                 /\ lines'[i].ok => /\ IsSequence(lines'[i].prev)
                                    /\ lines'[i].event \in Events(kind') /\ lines'[i].id \in Ids
<1>1. IsSequence(lines) /\ Len(lines) \in Nat /\ DOMAIN lines = 1..Len(lines)
  BY FileIs DEF IInv, FileHolds
<1>2. /\ IsSequence(lines') /\ Len(lines') = Len(lines) + 1
      /\ \A k \in 1..Len(lines) : lines'[k] = lines[k]
      /\ lines'[Len(lines) + 1] = x
  BY <1>1, AppendIs
<1>3. DOMAIN lines' = 1..(Len(lines) + 1)
  BY <1>2, SequenceIs
<1>4. ASSUME NEW i \in DOMAIN lines'
      PROVE  /\ lines'[i].ok \in BOOLEAN
             /\ lines'[i].ok => /\ IsSequence(lines'[i].prev)
                                /\ lines'[i].event \in Events(kind') /\ lines'[i].id \in Ids
  <2>1. CASE i = Len(lines) + 1
    BY <1>2, <2>1 DEF Writable
  <2>2. CASE i # Len(lines) + 1
    <3>1. i \in 1..Len(lines) /\ lines'[i] = lines[i]
      BY <1>1, <1>2, <1>3, <1>4, <2>2
    <3> QED BY <1>1, <3>1 DEF IInv, FileHolds
  <2> QED BY <2>1, <2>2
<1> QED BY <1>2, <1>3, <1>4

\* Whatever is written, the hash at the end of a chain goes on telling it.
LEMMA HashesGrow ==
    ASSUME IInv, NEW x, Writable(x), lines' = Append(lines, x), kind' = kind
    PROVE  HashesTell'
<1>1. /\ Len(lines) \in Nat /\ DOMAIN lines = 1..Len(lines)
      /\ DOMAIN lines' = 1..(Len(lines) + 1)
      /\ \A k \in 1..Len(lines) : lines'[k] = lines[k]
      /\ lines'[Len(lines) + 1] = x
  BY FileIs, LinesGrow
<1> SUFFICES ASSUME NEW n \in 1..(Len(lines) + 1), Chained(n)'
             PROVE  /\ Len(RecordHash(lines'[n])) = n
                    /\ \A k \in 1..n : RecordHash(lines'[n])[k] = Content(lines'[k])
  BY <1>1 DEF HashesTell, Tells
<1>2. CASE n \in 1..Len(lines)
  <2>1. \A k \in 1..n : lines'[k] = lines[k]
    BY <1>1, <1>2
  <2>2. n \in Nat
    BY <1>2
  <2>3. Chained(n)
    BY <2>1, <2>2, ChainStays
  <2>4. Tells(RecordHash(lines[n]), n)
    BY <1>1, <1>2, <2>3 DEF IInv, HashesTell
  <2>6. RecordHash(lines'[n]) = RecordHash(lines[n])
        /\ \A k \in 1..n : Content(lines'[k]) = Content(lines[k])
    BY <1>2, <2>1 DEF RecordHash, Content
  <2> QED BY <2>4, <2>6 DEF Tells
<1>3. CASE n = Len(lines) + 1
  <2>1. PICK m \in Nat : m = Len(lines)
    BY <1>1
  <2>2. Chained(m)
    <3>1. \A i \in 1..m : i \in 1..n
      BY <1>3, <2>1
    <3>2. Chained(m)'
      BY <3>1 DEF Chained
    <3> QED BY <1>1, <2>1, <3>2, ChainStays
  <2>3. IsSequence(PreviousHash(n)) /\ Tells(PreviousHash(n), m)
    BY <1>1, <1>3, <2>1, <2>2, ChainTells
  <2>4. x.ok /\ x.prev = PreviousHash(n)
    <3>1. n \in 1..n
      BY <1>1, <1>3
    <3>2. x.ok /\ x.prev = PreviousHash(n)'
      BY <1>1, <1>3, <3>1 DEF Chained
    <3>3. PreviousHash(n)' = PreviousHash(n)
      BY <1>1, <1>3, <2>1, ChainStays
    <3> QED BY <3>2, <3>3
  <2>5. /\ Len(RecordHash(x)) = m + 1
        /\ \A k \in 1..m : RecordHash(x)[k] = x.prev[k]
        /\ RecordHash(x)[m + 1] = Content(x)
    <3>1. IsSequence(x.prev) /\ Len(x.prev) = m
      BY <2>3, <2>4 DEF Tells
    <3> QED BY <3>1, HashIs
  <2>6. \A k \in 1..m : RecordHash(x)[k] = Content(lines'[k])
    BY <1>1, <2>1, <2>3, <2>4, <2>5 DEF Tells
  <2>7. \A k \in 1..n : RecordHash(x)[k] = Content(lines'[k])
    <3> SUFFICES ASSUME NEW k \in 1..n PROVE RecordHash(x)[k] = Content(lines'[k])
      OBVIOUS
    <3>1. CASE k = m + 1
      BY <1>1, <2>1, <2>5, <3>1
    <3>2. CASE k # m + 1
      <4>1. k \in 1..m
        BY <2>1, <1>3, <3>2
      <4> QED BY <2>6, <4>1
    <3> QED BY <3>1, <3>2
  <2>8. Len(RecordHash(x)) = n
    BY <1>3, <2>1, <2>5
  <2>9. lines'[n] = x
    BY <1>1, <1>3
  <2> QED BY <2>7, <2>8, <2>9
<1> QED BY <1>1, <1>2, <1>3

-----------------------------------------------------------------------------
(* The lines stay *)

LEMMA SameLines ==
    ASSUME IInv, UNCHANGED <<lines, kind, acked>>, synced' \in synced..Len(lines),
           exists' \in BOOLEAN, torn' \in BOOLEAN, open' \in BOOLEAN,
           faults' \in Nat, crashes' \in Nat,
           ~exists' => ~exists /\ ~open'
    PROVE  FileHolds' /\ HashesTell' /\ AckedHold'
<1>1. Len(lines) \in Nat /\ synced \in 0..Len(lines) /\ synced' \in 0..Len(lines)
  BY FileIs DEF IInv, FileHolds
<1>2. FileHolds'
  BY <1>1 DEF IInv, FileHolds
<1>3. \A n : Chained(n)' <=> Chained(n)
  BY DEF Chained, PreviousHash
<1>4. HashesTell'
  BY <1>3 DEF IInv, HashesTell, Tells
<1>5. AckedHold'
  <2>1. PICK n \in 0..Len(lines) : n = synced'
    BY <1>1
  <2>2. Chained(n) => Chained(synced)
    BY <1>1, <2>1, ChainShorter
  <2>3. ASSUME NEW h \in acked
        PROVE  /\ IsSequence(h) /\ Len(h) \in 1..n
               /\ Chained(n) => RecordHash(lines[Len(h)]) = h
    <3>1. /\ IsSequence(h) /\ Len(h) \in 1..synced
          /\ Chained(synced) => RecordHash(lines[Len(h)]) = h
      BY DEF IInv, AckedHold
    <3>2. Len(h) \in 1..n
      BY <1>1, <2>1, <3>1
    <3> QED BY <2>2, <3>1, <3>2
  <2>4. \A h \in acked : Chained(synced)' => Chained(n)
    BY <1>3, <2>1 DEF Chained, PreviousHash
  <2> QED BY <2>1, <2>3, <2>4 DEF IInv, AckedHold
<1> QED BY <1>2, <1>4, <1>5

\* Closed, a ledger holds nothing in memory.
LEMMA NoMemoryHolds ==
    ASSUME ~open', mem' = NoMemory PROVE MemoryHolds'
BY DEF MemoryHolds, NoMemory

\* The seal stays over lines that stay.
LEMMA SealStays ==
    ASSUME IInv, UNCHANGED seal, synced' \in Nat, synced <= synced',
           Len(lines') \in Nat, Len(lines') >= synced,
           \A k \in 1..synced : lines'[k] = lines[k]
    PROVE  SealHolds'
<1>1. synced \in Nat
  BY FileIs DEF IInv, FileHolds
<1>2. ASSUME seal.state = "WRITTEN"
      PROVE  Len(seal.bytes) <= synced' /\ Begins(seal.bytes, lines')
  <2>1. /\ Len(seal.bytes) \in Nat /\ Len(seal.bytes) <= synced
        /\ \A k \in 1..Len(seal.bytes) : lines[k] = seal.bytes[k]
    BY <1>2, SequenceIs DEF IInv, SealHolds, Begins
  <2>2. \A k \in 1..Len(seal.bytes) : k \in 1..synced
    BY <1>1, <2>1
  <2>3. \A k \in 1..Len(seal.bytes) : lines'[k] = seal.bytes[k]
    BY <2>1, <2>2
  <2>4. Len(seal.bytes) <= synced' /\ Len(seal.bytes) <= Len(lines')
    BY <1>1, <2>1
  <2> QED BY <2>3, <2>4 DEF Begins
<1> QED BY <1>2 DEF IInv, SealHolds, Begins

LEMMA CleanStays ==
    ASSUME IInv, UNCHANGED <<lines, kind, seal>>, faults' = 0 => faults = 0,
           faults' = 0 => torn' = torn /\ synced' = synced,
           open' => open /\ mem' = mem
    PROVE  CleanHolds'
<1> SUFFICES ASSUME faults' = 0 PROVE CleanHolds'
  BY DEF CleanHolds
<1>1. /\ torn' = torn /\ synced' = synced /\ ~torn /\ synced = Len(lines)
      /\ Chained(Len(lines)) /\ ReferencesHold
  BY DEF IInv, CleanHolds
<1>2. Chained(Len(lines))' /\ ReferencesHold'
  BY <1>1 DEF Chained, PreviousHash, ReferencesHold
<1>3. open' => /\ mem'.sequence = Len(lines')
               /\ (mem.previous = PreviousHash(Len(lines) + 1))'
               /\ KeysTell'
  BY DEF IInv, CleanHolds, KeysTell, PreviousHash
<1> QED BY <1>1, <1>2, <1>3 DEF IInv, CleanHolds

-----------------------------------------------------------------------------
(* Opening, closing, dying *)

LEMMA CreateKeeps == ASSUME IInv, Create PROVE IInv'
<1>1. /\ lines = <<>> /\ acked = {} /\ Len(lines) = 0
      /\ UNCHANGED <<kind, lines, torn, synced, seal, acked, faults, crashes>>
      /\ exists' = TRUE /\ open' = TRUE /\ mem' = NoMemory
  BY EmptyIs DEF IInv, FileHolds, Create
<1>2. synced \in 0..Len(lines) /\ synced = 0 /\ synced' \in synced..Len(lines)
  BY <1>1 DEF IInv, FileHolds
<1>3. FileHolds' /\ HashesTell' /\ AckedHold'
  <2>1. torn' \in BOOLEAN /\ faults' \in Nat /\ crashes' \in Nat
    BY <1>1 DEF IInv, FileHolds
  <2> QED BY <1>1, <1>2, <2>1, SameLines
<1>4. MemoryHolds'
  BY <1>1, EmptyIs DEF MemoryHolds, NoMemory, Genesis
<1>5. SealHolds'
  BY <1>1 DEF IInv, SealHolds, Begins
<1>6. CleanHolds'
  <2> SUFFICES ASSUME faults = 0 PROVE CleanHolds'
    BY <1>1 DEF CleanHolds
  <2>1. Chained(Len(lines))' /\ ReferencesHold'
    BY <1>1 DEF IInv, CleanHolds, Chained, PreviousHash, ReferencesHold
  <2>2. (mem.sequence = Len(lines))' /\ (mem.previous = PreviousHash(Len(lines) + 1))' /\ KeysTell'
    BY <1>1 DEF NoMemory, PreviousHash, KeysTell
  <2> QED BY <1>1, <2>1, <2>2 DEF IInv, CleanHolds
<1> QED BY <1>3, <1>4, <1>5, <1>6 DEF IInv

\* Resume knows the file it verified, and so every record ever returned.
LEMMA ResumeKeeps == ASSUME IInv, Resume PROVE IInv'
<1>1. /\ ~open /\ exists /\ Verifies /\ open' = TRUE /\ mem' = RestoredMemory
      /\ UNCHANGED <<kind, exists, lines, torn, synced, seal, acked, faults, crashes>>
  BY DEF Resume
<1>2. /\ Len(lines) \in Nat /\ DOMAIN lines = 1..Len(lines)
      /\ synced \in 0..Len(lines) /\ Chained(Len(lines))
  BY <1>1, FileIs, VerifiedIsChained DEF IInv, FileHolds
<1>3. FileHolds' /\ HashesTell' /\ AckedHold'
  <2>1. /\ torn' \in BOOLEAN /\ faults' \in Nat /\ crashes' \in Nat /\ exists' \in BOOLEAN
        /\ synced' \in synced..Len(lines)
    BY <1>1, <1>2 DEF IInv, FileHolds
  <2> QED BY <1>1, <2>1, SameLines
<1>4. /\ mem'.sequence = Len(lines) /\ mem'.previous = PreviousHash(Len(lines) + 1)
      /\ mem'.sealed = FALSE
      /\ mem'.started = {<<lines[i].id, RecordHash(lines[i])>> :
                            i \in {j \in DOMAIN lines : lines[j].event = "STARTED"}}
      /\ mem'.finished = {lines[i].id : i \in {j \in DOMAIN lines : lines[j].event = "FINISHED"}}
      /\ mem'.keys = {lines[i].id : i \in {j \in DOMAIN lines : lines[j].event = "ROW"}}
      /\ mem' = [sequence |-> mem'.sequence, previous |-> mem'.previous, started |-> mem'.started,
                 finished |-> mem'.finished, keys |-> mem'.keys, sealed |-> mem'.sealed]
  BY <1>1 DEF RestoredMemory
<1>5. MemoryHolds'
  <2>1. IsSequence(PreviousHash(Len(lines) + 1)) /\ Tells(PreviousHash(Len(lines) + 1), Len(lines))
    BY <1>2, ChainTells
  <2>2. ASSUME NEW h \in acked PROVE Begins(h, PreviousHash(Len(lines) + 1))
    <3>1. PICK n \in 1..Len(lines) : n = Len(h)
      BY <1>2 DEF IInv, AckedHold
    <3>2. Chained(synced) /\ Chained(n)
      BY <1>2, <3>1, ChainShorter
    <3>3. Tells(h, n)
      <4>1. RecordHash(lines[n]) = h
        BY <3>1, <3>2 DEF IInv, AckedHold
      <4> QED BY <1>2, <3>2, <4>1 DEF IInv, HashesTell
    <3> QED BY <1>2, <2>1, <3>1, <3>3 DEF Tells, Begins
  <2>3. \A i \in DOMAIN lines : lines[i].id \in Ids
    BY <1>2 DEF Chained, IInv, FileHolds
  <2>4. /\ mem'.finished \subseteq Ids /\ mem'.keys \subseteq Ids
        /\ \A s \in mem'.started : s[1] \in Ids
    BY <1>4, <2>3
  <2>5. /\ mem'.sequence <= Len(lines') /\ IsSequence(mem'.previous)
        /\ Len(mem'.previous) = mem'.sequence /\ \A h \in acked' : Begins(h, mem'.previous)
    BY <1>1, <1>2, <1>4, <2>1, <2>2 DEF Tells
  <2>6. mem'.sequence \in Nat /\ mem'.sealed \in BOOLEAN
    BY <1>2, <1>4
  <2>7. mem' = [sequence |-> mem'.sequence, previous |-> mem'.previous, started |-> mem'.started,
                finished |-> mem'.finished, keys |-> mem'.keys, sealed |-> mem'.sealed]
    BY <1>4
  <2> QED BY <2>4, <2>5, <2>6, <2>7 DEF MemoryHolds
<1>6. SealHolds'
  BY <1>1, <1>2, SealStays
<1>7. CleanHolds'
  <2> SUFFICES ASSUME faults = 0 PROVE CleanHolds'
    BY <1>1 DEF CleanHolds
  <2>1. Chained(Len(lines))' /\ ReferencesHold'
    BY <1>1 DEF IInv, CleanHolds, Chained, PreviousHash, ReferencesHold
  <2>2. (mem.sequence = Len(lines))' /\ (mem.previous = PreviousHash(Len(lines) + 1))'
    BY <1>1, <1>4 DEF PreviousHash
  <2>3. KeysTell'
    BY <1>1, <1>4 DEF KeysTell
  <2> QED BY <1>1, <2>1, <2>2, <2>3 DEF IInv, CleanHolds
<1> QED BY <1>3, <1>5, <1>6, <1>7 DEF IInv

LEMMA CloseKeeps == ASSUME IInv, Close \/ Crash PROVE IInv'
<1>1. /\ open' = FALSE /\ mem' = NoMemory
      /\ UNCHANGED <<kind, exists, lines, torn, seal, acked, faults>>
      /\ synced' \in {synced, Len(lines)} /\ crashes' \in {crashes, crashes + 1}
  BY DEF Close, Crash
<1>2. /\ Len(lines) \in Nat /\ synced \in 0..Len(lines) /\ crashes' \in Nat /\ faults' \in Nat
      /\ exists' \in BOOLEAN /\ torn' \in BOOLEAN
  BY <1>1, FileIs DEF IInv, FileHolds
<1>3. synced' \in synced..Len(lines)
  BY <1>1, <1>2
<1>4. FileHolds' /\ HashesTell' /\ AckedHold'
  BY <1>1, <1>2, <1>3, SameLines
<1>5. MemoryHolds'
  BY <1>1, NoMemoryHolds
<1>6. SealHolds'
  BY <1>1, <1>2, <1>3, SealStays
<1>7. faults' = 0 => synced' = synced
  BY <1>1 DEF IInv, CleanHolds
<1>8. CleanHolds'
  BY <1>1, <1>7, CleanStays
<1> QED BY <1>4, <1>5, <1>6, <1>8 DEF IInv

\* A power loss takes only what was never synced.
LEMMA PowerLossKeeps == ASSUME IInv, PowerLoss PROVE IInv'
<1>1. /\ exists /\ crashes' = crashes + 1 /\ open' = FALSE /\ mem' = NoMemory
      /\ UNCHANGED <<kind, exists, seal, acked, faults>>
  BY DEF PowerLoss
<1>2. PICK n \in synced..Len(lines) :
          /\ lines' = SubSeq(lines, 1, n)
          /\ torn' \in IF n < Len(lines) THEN BOOLEAN ELSE {torn, FALSE}
          /\ synced' = n
  BY DEF PowerLoss
<1>3. /\ Len(lines) \in Nat /\ DOMAIN lines = 1..Len(lines)
      /\ synced \in 0..Len(lines) /\ n \in 0..Len(lines) /\ n \in Nat /\ synced <= n
  BY <1>2, FileIs DEF IInv, FileHolds
<1>4. /\ IsSequence(lines') /\ Len(lines') = n /\ \A k \in 1..n : lines'[k] = lines[k]
  BY <1>2, <1>3, PrefixIs DEF IInv, FileHolds
<1>5. DOMAIN lines' = 1..n
  BY <1>4, SequenceIs
<1>6. FileHolds'
  <2>1. torn' \in BOOLEAN
    BY <1>2 DEF IInv, FileHolds
  <2>2. \A i \in DOMAIN lines' : i \in DOMAIN lines /\ lines'[i] = lines[i]
    BY <1>3, <1>4, <1>5
  <2>3. \A i \in DOMAIN lines' :
          /\ lines'[i].ok \in BOOLEAN
          /\ lines'[i].ok => /\ IsSequence(lines'[i].prev)
                             /\ lines'[i].event \in Events(kind) /\ lines'[i].id \in Ids
    BY <2>2 DEF IInv, FileHolds
  <2>4. synced' \in 0..Len(lines') /\ crashes' \in Nat
    BY <1>1, <1>2, <1>3, <1>4 DEF IInv, FileHolds
  <2> QED BY <1>1, <1>4, <2>1, <2>3, <2>4 DEF IInv, FileHolds
<1>7. HashesTell'
  <2> SUFFICES ASSUME NEW m \in 1..n, Chained(m)'
               PROVE  /\ Len(RecordHash(lines'[m])) = m
                      /\ \A k \in 1..m : RecordHash(lines'[m])[k] = Content(lines'[k])
    BY <1>5 DEF HashesTell, Tells
  <2>1. m \in Nat /\ m \in DOMAIN lines /\ \A k \in 1..m : lines'[k] = lines[k]
    BY <1>3, <1>4
  <2>2. Chained(m)
    BY <2>1, ChainStays
  <2>3. Tells(RecordHash(lines[m]), m)
    BY <2>1, <2>2 DEF IInv, HashesTell
  <2> QED BY <1>4, <2>1, <2>3 DEF Tells
<1>8. AckedHold'
  <2>1. PICK m \in Nat : m = synced
    BY <1>3
  <2>2. ASSUME Chained(n)' PROVE Chained(m)
    <3>1. Chained(n)
      BY <1>3, <1>4, <2>2, ChainStays
    <3> QED BY <1>3, <2>1, <3>1, ChainShorter
  <2>3. ASSUME NEW h \in acked
        PROVE  /\ IsSequence(h) /\ Len(h) \in 1..n
               /\ Chained(n)' => RecordHash(lines'[Len(h)]) = h
    <3>1. /\ IsSequence(h) /\ Len(h) \in 1..m
          /\ Chained(m) => RecordHash(lines[Len(h)]) = h
      BY <2>1 DEF IInv, AckedHold
    <3>2. Len(h) \in 1..n
      BY <1>3, <2>1, <3>1
    <3>3. lines'[Len(h)] = lines[Len(h)]
      BY <1>4, <3>2
    <3> QED BY <2>2, <3>1, <3>2, <3>3
  <2>4. Chained(synced)' => Chained(n)'
    BY <1>2 DEF Chained
  <2> QED BY <1>1, <1>2, <2>3, <2>4 DEF IInv, AckedHold
<1>9. MemoryHolds'
  BY <1>1, NoMemoryHolds
<1>10. SealHolds'
  <2>1. \A k \in 1..synced : lines'[k] = lines[k]
    BY <1>3, <1>4
  <2> QED BY <1>1, <1>2, <1>3, <1>4, <2>1, SealStays
<1>11. CleanHolds'
  <2> SUFFICES ASSUME faults' = 0 PROVE CleanHolds'
    BY DEF CleanHolds
  <2>1. synced = Len(lines) /\ ~torn
    BY <1>1 DEF IInv, CleanHolds
  <2>2. n = Len(lines)
    BY <1>2, <1>3, <2>1
  <2>3. lines' = lines
    BY <1>3, <1>4, <2>2, SequenceEqual DEF IInv, FileHolds
  <2>4. torn' = torn /\ synced' = synced
    <3>1. ~(n < Len(lines)) /\ synced' = synced
      BY <1>2, <1>3, <2>1, <2>2
    <3>2. torn' \in {torn, FALSE}
      BY <1>2, <3>1
    <3>3. torn = FALSE
      BY <2>1 DEF IInv, FileHolds
    <3> QED BY <3>1, <3>2, <3>3
  <2> QED BY <1>1, <2>3, <2>4, CleanStays
<1> QED BY <1>6, <1>7, <1>8, <1>9, <1>10, <1>11 DEF IInv

\* The seal binds synced bytes.
LEMMA SealKeeps == ASSUME IInv, NEW dies \in BOOLEAN, SealLedger(dies) PROVE IInv'
<1>1. /\ open /\ ~mem.sealed /\ seal.state = "ABSENT" /\ synced' = Len(lines)
      /\ UNCHANGED <<kind, exists, lines, torn, acked, faults>>
  BY DEF SealLedger
<1>2. \/ /\ crashes' = crashes + 1 /\ seal' = [seal EXCEPT !.state = "TORN"]
         /\ mem' = NoMemory /\ open' = FALSE
      \/ /\ seal' = [state |-> "WRITTEN", count |-> mem.sequence,
                     final |-> mem.previous, bytes |-> lines]
         /\ mem' = [mem EXCEPT !.sealed = TRUE]
         /\ UNCHANGED <<open, crashes>>
  BY DEF SealLedger
<1>3. /\ Len(lines) \in Nat /\ synced \in 0..Len(lines) /\ crashes' \in Nat /\ faults' \in Nat
      /\ exists' \in BOOLEAN /\ torn' \in BOOLEAN /\ open' \in BOOLEAN /\ exists
  <2>1. Len(lines) \in Nat /\ synced \in 0..Len(lines) /\ faults' \in Nat
    BY <1>1, FileIs DEF IInv, FileHolds
  <2>2. crashes' \in Nat
    BY <1>2 DEF IInv, FileHolds
  <2>3. exists' \in BOOLEAN /\ torn' \in BOOLEAN /\ exists
    BY <1>1, Zenon DEF IInv, FileHolds
  <2>4. open' \in BOOLEAN
    BY <1>2, Zenon DEF IInv, FileHolds
  <2> QED BY <2>1, <2>2, <2>3, <2>4
<1>4. synced' \in synced..Len(lines)
  BY <1>1, <1>3
<1>5. FileHolds' /\ HashesTell' /\ AckedHold'
  BY <1>1, <1>3, <1>4, SameLines
<1>6. faults' = 0 => synced' = synced
  BY <1>1 DEF IInv, CleanHolds
<1>7. CASE /\ seal' = [seal EXCEPT !.state = "TORN"] /\ mem' = NoMemory /\ open' = FALSE
  <2>1. seal = NoSeal
    BY <1>1 DEF IInv, SealHolds
  <2>2. seal'.state = "TORN"
    BY <1>7, <2>1 DEF NoSeal
  <2>3. MemoryHolds' /\ SealHolds'
    BY <1>7, <2>2, NoMemoryHolds DEF SealHolds
  <2>4. CleanHolds'
    <3> SUFFICES ASSUME faults' = 0 PROVE CleanHolds'
      BY DEF CleanHolds
    <3>1. Chained(Len(lines))' /\ ReferencesHold'
      BY <1>1 DEF IInv, CleanHolds, Chained, PreviousHash, ReferencesHold
    <3> QED BY <1>1, <1>6, <1>7, <2>2, <3>1 DEF IInv, CleanHolds
  <2> QED BY <1>5, <2>3, <2>4 DEF IInv
<1>8. CASE /\ seal' = [state |-> "WRITTEN", count |-> mem.sequence,
                       final |-> mem.previous, bytes |-> lines]
           /\ mem' = [mem EXCEPT !.sealed = TRUE]
           /\ open' = open
  <2>1. /\ seal'.state = "WRITTEN" /\ seal'.count = mem.sequence
        /\ seal'.final = mem.previous /\ seal'.bytes = lines
    BY <1>8
  <2>2. mem' = [sequence |-> mem.sequence, previous |-> mem.previous, started |-> mem.started,
                finished |-> mem.finished, keys |-> mem.keys, sealed |-> TRUE]
    BY <1>8 DEF IInv, MemoryHolds
  <2>3. /\ mem'.sequence = mem.sequence /\ mem'.previous = mem.previous
        /\ mem'.started = mem.started /\ mem'.finished = mem.finished
        /\ mem'.keys = mem.keys /\ mem'.sealed = TRUE
    BY <2>2
  <2>4. MemoryHolds'
    BY <1>1, <1>8, <2>2, <2>3 DEF IInv, MemoryHolds
  <2>5. SealHolds'
    <3>1. IsSequence(lines) /\ Begins(lines, lines)
      BY <1>3 DEF IInv, FileHolds, Begins
    <3> QED BY <1>1, <1>3, <2>1, <3>1 DEF SealHolds, Begins
  <2>6. CleanHolds'
    <3> SUFFICES ASSUME faults' = 0 PROVE CleanHolds'
      BY DEF CleanHolds
    <3>1. /\ ~torn /\ synced = Len(lines) /\ Chained(Len(lines)) /\ ReferencesHold
          /\ mem.sequence = Len(lines) /\ mem.previous = PreviousHash(Len(lines) + 1)
          /\ KeysTell
      BY <1>1 DEF IInv, CleanHolds
    <3>2. Chained(Len(lines))' /\ ReferencesHold'
      BY <1>1, <3>1 DEF Chained, PreviousHash, ReferencesHold
    <3>3. KeysTell' /\ (mem.previous = PreviousHash(Len(lines) + 1))'
      BY <1>1, <2>3, <3>1 DEF KeysTell, PreviousHash
    <3>4. seal'.final = IF Len(lines) = 0 THEN Genesis ELSE RecordHash(lines[Len(lines)])
      BY <1>3, <2>1, <3>1 DEF PreviousHash
    <3> QED BY <1>1, <2>1, <2>3, <3>1, <3>2, <3>3, <3>4 DEF CleanHolds
  <2> QED BY <1>5, <2>4, <2>5, <2>6 DEF IInv
<1> QED BY <1>2, <1>7, <1>8

-----------------------------------------------------------------------------
(* Appending *)

\* What a writer learns from the record it is about to write.
Learns(learned) ==
    /\ learned = [sequence |-> mem.sequence, previous |-> mem.previous,
                  started |-> learned.started, finished |-> learned.finished,
                  keys |-> learned.keys, sealed |-> mem.sealed]
    /\ learned.finished \subseteq Ids /\ learned.keys \subseteq Ids
    /\ \A s \in learned.started : s[1] \in Ids

\* A record that the file may take: neither a duplicate nor without its STARTED.
Fresh(event, id, ref) ==
    /\ kind # "PLAIN" => \A j \in DOMAIN lines : ~(lines[j].event = event /\ lines[j].id = id)
    /\ event = "FINISHED" => \E j \in DOMAIN lines :
          lines[j].event = "STARTED" /\ lines[j].id = id /\ ref = RecordHash(lines[j])

LearnsAll(event, id, hash, learned) ==
    /\ mem.started \subseteq learned.started /\ mem.finished \subseteq learned.finished
    /\ mem.keys \subseteq learned.keys
    /\ event = "STARTED" => <<id, hash>> \in learned.started
    /\ event = "FINISHED" => id \in learned.finished
    /\ event = "ROW" => id \in learned.keys
    /\ \A s \in learned.started \ mem.started : event = "STARTED" /\ s = <<id, hash>>

\* Nothing whole is written: only the fragment is new.
LEMMA FragmentKeeps ==
    ASSUME IInv, open, UNCHANGED <<kind, exists, seal, lines, synced, acked>>, torn' = TRUE,
           faults' = faults + 1, crashes' \in {crashes, crashes + 1},
           \/ open' = TRUE /\ mem' = mem
           \/ open' = FALSE /\ mem' = NoMemory
    PROVE  IInv'
<1>1. /\ Len(lines) \in Nat /\ synced \in 0..Len(lines) /\ synced' \in synced..Len(lines)
      /\ faults' \in Nat /\ faults' # 0 /\ crashes' \in Nat
  BY FileIs DEF IInv, FileHolds
<1>2. exists' \in BOOLEAN /\ torn' \in BOOLEAN /\ open' \in BOOLEAN /\ exists
  BY DEF IInv, FileHolds
<1>3. FileHolds' /\ HashesTell' /\ AckedHold'
  BY <1>1, <1>2, SameLines
<1>4. MemoryHolds'
  <2>1. CASE open' = TRUE /\ mem' = mem
    BY <2>1 DEF IInv, MemoryHolds
  <2>2. CASE open' = FALSE /\ mem' = NoMemory
    BY <2>2, NoMemoryHolds
  <2> QED BY <2>1, <2>2
<1>5. SealHolds'
  BY <1>1, SealStays
<1>6. CleanHolds'
  BY <1>1 DEF CleanHolds
<1> QED BY <1>3, <1>4, <1>5, <1>6 DEF IInv

\* The line is whole, and its append fails after it: memory stays behind.
LEMMA UnsyncedKeeps ==
    ASSUME IInv, open, NEW x, Writable(x), lines' = Append(lines, x), torn' = FALSE,
           UNCHANGED <<kind, exists, seal, synced, acked, mem, crashes>>,
           open' = TRUE, faults' = faults + 1
    PROVE  IInv'
<1>1. /\ IsSequence(lines') /\ Len(lines') = Len(lines) + 1
      /\ DOMAIN lines' = 1..(Len(lines) + 1)
      /\ \A k \in 1..Len(lines) : lines'[k] = lines[k]
      /\ lines'[Len(lines) + 1] = x
      /\ \A i \in DOMAIN lines' :
            /\ lines'[i].ok \in BOOLEAN
            /\ lines'[i].ok => /\ IsSequence(lines'[i].prev)
                               /\ lines'[i].event \in Events(kind') /\ lines'[i].id \in Ids
  BY LinesGrow
<1>2. /\ Len(lines) \in Nat /\ synced \in 0..Len(lines) /\ faults' \in Nat /\ faults' # 0
  BY FileIs DEF IInv, FileHolds
<1>3. exists
  BY DEF IInv, FileHolds
<1>4. FileHolds'
  <2>1. synced' \in 0..Len(lines')
    BY <1>1, <1>2
  <2>2. exists' \in BOOLEAN /\ torn' \in BOOLEAN /\ open' \in BOOLEAN /\ exists'
    BY <1>3
  <2> QED BY <1>1, <1>2, <2>1, <2>2 DEF IInv, FileHolds
<1>5. HashesTell'
  BY HashesGrow
<1>6. AckedHold'
  <2>1. PICK m \in Nat : m = synced
    BY <1>2
  <2>2. m \in 0..Len(lines) /\ \A k \in 1..m : lines'[k] = lines[k]
    BY <1>1, <1>2, <2>1
  <2>3. Chained(m)' <=> Chained(m)
    BY <2>2, ChainStays
  <2>4. Chained(synced)' => Chained(m)'
    BY <2>1 DEF Chained
  <2>5. ASSUME NEW h \in acked
        PROVE  /\ IsSequence(h) /\ Len(h) \in 1..m
               /\ Chained(m) => RecordHash(lines'[Len(h)]) = h
    <3>1. /\ IsSequence(h) /\ Len(h) \in 1..m
          /\ Chained(m) => RecordHash(lines[Len(h)]) = h
      BY <2>1 DEF IInv, AckedHold
    <3> QED BY <2>2, <3>1
  <2> QED BY <2>1, <2>3, <2>4, <2>5 DEF IInv, AckedHold
<1>7. MemoryHolds'
  <2>1. mem.sequence <= Len(lines')
    BY <1>1, <1>2 DEF IInv, MemoryHolds
  <2> QED BY <2>1 DEF IInv, MemoryHolds
<1>8. SealHolds'
  <2>1. \A k \in 1..synced : lines'[k] = lines[k]
    BY <1>1, <1>2
  <2> QED BY <1>1, <1>2, <2>1, SealStays
<1>9. CleanHolds'
  BY <1>2 DEF CleanHolds
<1> QED BY <1>4, <1>5, <1>6, <1>7, <1>8, <1>9 DEF IInv

\* The record of an append, and its successful end.
NewRecord(event, id, ref) ==
    [ok |-> TRUE, seq |-> mem.sequence, prev |-> mem.previous,
     event |-> event, id |-> id, ref |-> ref]

Returns(r, learned) ==
    /\ lines' = Append(lines, IF torn THEN Garbage ELSE r) /\ torn' = FALSE
    /\ synced' = Len(lines') /\ acked' = acked \cup {RecordHash(r)}
    /\ UNCHANGED <<kind, exists, seal, faults, crashes>> /\ open' = TRUE
    /\ mem' = [learned EXCEPT !.sequence = @ + 1, !.previous = RecordHash(r)]

\* A record that a writer with the file's tail adds is the next of the chain, and
\* the file takes it.
LEMMA RecordFits ==
    ASSUME IInv, NEW r, Writable(r), lines' = Append(lines, r), kind' = kind,
           NEW n \in Nat, n = Len(lines), Chained(n), ReferencesHold,
           r.ok = TRUE, r.seq = n, r.prev = PreviousHash(n + 1), Fresh(r.event, r.id, r.ref)
    PROVE  Chained(n + 1)' /\ PreviousHash(n + 2)' = RecordHash(r) /\ ReferencesHold'
<1>1. /\ DOMAIN lines = 1..n /\ DOMAIN lines' = 1..(n + 1) /\ lines'[n + 1] = r
      /\ \A k \in 1..n : lines'[k] = lines[k]
  BY LinesGrow, FileIs
<1>2. Chained(n + 1)' /\ PreviousHash(n + 2)' = RecordHash(r)
  <2>1. Chained(n)' /\ PreviousHash(n + 1)' = PreviousHash(n + 1)
    BY <1>1, ChainStays
  <2>2. /\ lines'[n + 1].ok /\ lines'[n + 1].seq = (n + 1) - 1
        /\ lines'[n + 1].prev = PreviousHash(n + 1)'
    BY <1>1, <2>1
  <2>3. \A i \in 1..(n + 1) : i \in 1..n \/ i = n + 1
    OBVIOUS
  <2>4. Chained(n + 1)'
    BY <2>1, <2>2, <2>3 DEF Chained
  <2>5. PreviousHash(n + 2)' = RecordHash(lines'[n + 1])
    <3>1. n + 2 # 1 /\ (n + 2) - 1 = n + 1
      OBVIOUS
    <3> QED BY <3>1 DEF PreviousHash
  <2> QED BY <1>1, <2>4, <2>5
<1>3. ASSUME NEW i \in 1..(n + 1)
      PROVE  /\ kind # "PLAIN" => \A j \in 1..(i - 1) :
                   ~(lines'[j].event = lines'[i].event /\ lines'[j].id = lines'[i].id)
             /\ lines'[i].event = "FINISHED" => \E j \in 1..(i - 1) :
                   /\ lines'[j].event = "STARTED" /\ lines'[j].id = lines'[i].id
                   /\ lines'[i].ref = RecordHash(lines'[j])
  <2>1. CASE i = n + 1
    <3>1. 1..(i - 1) = DOMAIN lines
      BY <1>1, <2>1
    <3> QED BY <1>1, <2>1, <3>1 DEF Fresh
  <2>2. CASE i # n + 1
    <3>1. i \in 1..n /\ i \in DOMAIN lines /\ \A j \in 1..(i - 1) : j \in 1..n
      BY <1>1, <2>2
    <3>2. lines'[i] = lines[i] /\ \A j \in 1..(i - 1) : lines'[j] = lines[j]
      BY <1>1, <3>1
    <3>3. /\ kind # "PLAIN" => \A j \in 1..(i - 1) :
                ~(lines[j].event = lines[i].event /\ lines[j].id = lines[i].id)
          /\ lines[i].event = "FINISHED" => \E j \in 1..(i - 1) :
                /\ lines[j].event = "STARTED" /\ lines[j].id = lines[i].id
                /\ lines[i].ref = RecordHash(lines[j])
      BY <3>1 DEF ReferencesHold
    <3> QED BY <3>2, <3>3
  <2> QED BY <2>1, <2>2
<1>4. ReferencesHold'
  <2>1. DOMAIN lines' = 1..(n + 1) /\ kind' = kind
    BY <1>1
  <2>2. ASSUME NEW i \in DOMAIN lines'
        PROVE  /\ kind' # "PLAIN" => \A j \in 1..(i - 1) :
                     ~(lines'[j].event = lines'[i].event /\ lines'[j].id = lines'[i].id)
               /\ lines'[i].event = "FINISHED" => \E j \in 1..(i - 1) :
                     /\ lines'[j].event = "STARTED" /\ lines'[j].id = lines'[i].id
                     /\ lines'[i].ref = RecordHash(lines'[j])
    <3>1. i \in 1..(n + 1)
      BY <2>1
    <3> QED BY <1>3, <2>1, <3>1
  <2> QED BY <2>2, Zenon DEF ReferencesHold
<1> QED BY <1>2, <1>4

\* And its key sets go on telling those of the file.
LEMMA KeysGrow ==
    ASSUME IInv, NEW r, Writable(r), lines' = Append(lines, r), kind' = kind, KeysTell,
           NEW learned, LearnsAll(r.event, r.id, RecordHash(r), learned),
           mem'.started = learned.started, mem'.finished = learned.finished, mem'.keys = learned.keys
    PROVE  KeysTell'
<1>1. PICK n \in Nat : n = Len(lines)
  BY FileIs
<1>2. /\ DOMAIN lines = 1..n /\ DOMAIN lines' = 1..(n + 1) /\ lines'[n + 1] = r
      /\ \A k \in 1..n : lines'[k] = lines[k]
  BY <1>1, LinesGrow, FileIs
<1>3. ASSUME NEW i \in DOMAIN lines'
      PROVE  /\ lines'[i].event = "STARTED" =>
                    <<lines'[i].id, RecordHash(lines'[i])>> \in mem'.started
             /\ lines'[i].event = "FINISHED" => lines'[i].id \in mem'.finished
             /\ lines'[i].event = "ROW" => lines'[i].id \in mem'.keys
  <2>1. CASE i = n + 1
    BY <1>2, <2>1 DEF LearnsAll
  <2>2. CASE i # n + 1
    <3>1. i \in DOMAIN lines /\ lines'[i] = lines[i]
      BY <1>1, <1>2, <1>3, <2>2
    <3> QED BY <3>1 DEF LearnsAll, KeysTell
  <2> QED BY <2>1, <2>2
<1>4. ASSUME NEW s \in mem'.started
      PROVE  \E i \in DOMAIN lines' :
                 lines'[i].event = "STARTED" /\ s = <<lines'[i].id, RecordHash(lines'[i])>>
  <2>1. CASE s \in mem.started
    <3>1. PICK i \in DOMAIN lines :
              lines[i].event = "STARTED" /\ s = <<lines[i].id, RecordHash(lines[i])>>
      BY <2>1 DEF KeysTell
    <3>2. i \in DOMAIN lines' /\ lines'[i] = lines[i]
      BY <1>1, <1>2
    <3> QED BY <3>1, <3>2
  <2>2. CASE s \notin mem.started
    <3>1. r.event = "STARTED" /\ s = <<r.id, RecordHash(r)>>
      BY <1>4, <2>2 DEF LearnsAll
    <3>2. n + 1 \in DOMAIN lines'
      BY <1>1, <1>2
    <3> QED BY <1>2, <3>1, <3>2
  <2> QED BY <2>1, <2>2
<1> QED BY <1>3, <1>4 DEF KeysTell

\* The append returns: its record extends every record returned before it.
LEMMA SyncedKeeps ==
    ASSUME IInv, open, NEW event \in Events(kind), NEW id \in Ids, NEW ref,
           NEW learned, Learns(learned),
           Returns(NewRecord(event, id, ref), learned),
           faults = 0 => /\ Fresh(event, id, ref)
                         /\ LearnsAll(event, id, RecordHash(NewRecord(event, id, ref)), learned)
    PROVE  IInv'
<1>0. PICK r : r = NewRecord(event, id, ref)
  OBVIOUS
<1>1. PICK x : x = IF torn THEN Garbage ELSE r
  OBVIOUS
<1>2. /\ r.ok = TRUE /\ r.seq = mem.sequence /\ r.prev = mem.previous /\ r.event = event
      /\ r.id = id /\ r.ref = ref
  BY <1>0 DEF NewRecord
<1>step. /\ lines' = Append(lines, x) /\ torn' = FALSE /\ synced' = Len(lines')
         /\ acked' = acked \cup {RecordHash(r)} /\ open' = TRUE
         /\ UNCHANGED <<kind, exists, seal, faults, crashes>>
  BY <1>0, <1>1 DEF Returns
<1>3. /\ mem.sequence \in Nat /\ mem.sequence <= Len(lines)
      /\ IsSequence(mem.previous) /\ Len(mem.previous) = mem.sequence
      /\ \A h \in acked : Begins(h, mem.previous)
  BY DEF IInv, MemoryHolds
<1>4. Writable(x)
  BY <1>1, <1>2, <1>3 DEF Writable, Garbage
<1>5. /\ IsSequence(lines') /\ Len(lines') = Len(lines) + 1
      /\ DOMAIN lines' = 1..(Len(lines) + 1)
      /\ \A k \in 1..Len(lines) : lines'[k] = lines[k]
      /\ lines'[Len(lines) + 1] = x
      /\ \A i \in DOMAIN lines' :
            /\ lines'[i].ok \in BOOLEAN
            /\ lines'[i].ok => /\ IsSequence(lines'[i].prev)
                               /\ lines'[i].event \in Events(kind') /\ lines'[i].id \in Ids
  BY <1>4, <1>step, LinesGrow
<1>6. PICK n \in Nat : n = Len(lines)
  BY FileIs
<1>7. /\ DOMAIN lines = 1..n /\ synced \in 0..n /\ synced' = n + 1 /\ exists
  BY <1>5, <1>6, <1>step, FileIs DEF IInv, FileHolds
<1>8. FileHolds'
  <2>1. synced' \in 0..Len(lines')
    BY <1>5, <1>6, <1>7
  <2>2. exists' \in BOOLEAN /\ torn' \in BOOLEAN /\ open' \in BOOLEAN /\ exists'
    BY <1>7, <1>step
  <2> QED BY <1>5, <1>step, <2>1, <2>2 DEF IInv, FileHolds
<1>9. HashesTell'
  BY <1>4, <1>step, HashesGrow
<1>10. PICK hash : hash = RecordHash(r)
  OBVIOUS
<1>11. /\ IsSequence(hash) /\ Len(hash) = mem.sequence + 1
       /\ \A k \in 1..mem.sequence : hash[k] = mem.previous[k]
  BY <1>2, <1>3, <1>10, HashIs
<1>12. \A h \in acked : IsSequence(h) /\ Len(h) \in Nat /\ Len(h) <= mem.sequence /\ Begins(h, hash)
  <2> SUFFICES ASSUME NEW h \in acked
               PROVE  IsSequence(h) /\ Len(h) \in Nat /\ Len(h) <= mem.sequence /\ Begins(h, hash)
    OBVIOUS
  <2>1. IsSequence(h) /\ Len(h) \in Nat
    BY SequenceIs DEF IInv, AckedHold
  <2>2. Len(h) <= mem.sequence /\ \A k \in 1..Len(h) : mem.previous[k] = h[k]
    BY <1>3 DEF Begins
  <2>3. \A k \in 1..Len(h) : k \in 1..mem.sequence
    BY <1>3, <2>1, <2>2
  <2>4. Len(h) <= Len(hash) /\ \A k \in 1..Len(h) : hash[k] = h[k]
    BY <1>3, <1>11, <2>1, <2>2, <2>3
  <2> QED BY <2>1, <2>2, <2>4 DEF Begins
<1>13. Chained(n + 1)' => x = r /\ Chained(n) /\ r.prev = PreviousHash(n + 1)
  <2> SUFFICES ASSUME Chained(n + 1)' PROVE x = r /\ Chained(n) /\ r.prev = PreviousHash(n + 1)
    OBVIOUS
  <2>1. n + 1 \in 1..(n + 1) /\ \A i \in 1..n : i \in 1..(n + 1)
    BY <1>6
  <2>2. x.ok /\ x.prev = PreviousHash(n + 1)'
    BY <1>5, <1>6, <2>1 DEF Chained
  <2>3. x = r
    BY <1>1, <2>2 DEF Garbage
  <2>4. Chained(n)'
    BY <2>1 DEF Chained
  <2> QED BY <1>5, <1>6, <2>1, <2>2, <2>3, <2>4, ChainStays
<1>14. AckedHold'
  <2>1. Chained(synced)' => Chained(n + 1)'
    BY <1>7 DEF Chained
  <2>2. ASSUME NEW h \in acked
        PROVE  /\ IsSequence(h) /\ Len(h) \in 1..(n + 1)
               /\ Chained(n + 1)' => RecordHash(lines'[Len(h)]) = h
    <3>1. /\ IsSequence(h) /\ Len(h) \in 1..synced
          /\ Chained(synced) => RecordHash(lines[Len(h)]) = h
      BY DEF IInv, AckedHold
    <3>2. Len(h) \in 1..n
      BY <1>7, <3>1
    <3>3. Chained(n) => Chained(synced)
      BY <1>7, ChainShorter
    <3>4. lines'[Len(h)] = lines[Len(h)]
      BY <1>5, <1>6, <3>2
    <3>5. Len(h) \in 1..(n + 1)
      BY <3>2
    <3> QED BY <1>13, <3>1, <3>3, <3>4, <3>5
  <2>3. /\ IsSequence(hash) /\ Len(hash) \in 1..(n + 1)
        /\ Chained(n + 1)' => RecordHash(lines'[Len(hash)]) = hash
    <3>1. Len(hash) \in 1..(n + 1)
      BY <1>3, <1>6, <1>11
    <3>2. ASSUME Chained(n + 1)' PROVE RecordHash(lines'[Len(hash)]) = hash
      <4>1. x = r /\ Chained(n) /\ r.prev = PreviousHash(n + 1)
        BY <1>13, <3>2
      <4>2. Tells(PreviousHash(n + 1), n)
        BY <1>6, <4>1, ChainTells
      <4>3. mem.sequence = n
        BY <1>2, <1>3, <4>1, <4>2 DEF Tells
      <4>4. lines'[Len(hash)] = r
        BY <1>5, <1>6, <1>11, <4>1, <4>3
      <4> QED BY <1>10, <4>4
    <3> QED BY <1>11, <3>1, <3>2
  <2>4. \A h \in acked' : /\ IsSequence(h) /\ Len(h) \in 1..synced'
                          /\ Chained(n + 1)' => RecordHash(lines'[Len(h)]) = h
    BY <1>7, <1>10, <1>step, <2>2, <2>3
  <2>5. ASSUME NEW g \in acked', NEW h \in acked', Len(g) <= Len(h) PROVE Begins(g, h)
    <3>1. CASE g \in acked /\ h \in acked
      BY <2>5, <3>1 DEF IInv, AckedHold
    <3>2. CASE h = hash /\ g \in acked
      BY <1>12, <3>2
    <3>3. CASE h = hash /\ g = hash
      BY <1>3, <1>11, <3>3 DEF Begins
    <3>4. CASE g = hash /\ h \in acked
      <4>1. FALSE
        BY <1>3, <1>11, <1>12, <2>5, <3>4
      <4> QED BY <4>1
    <3> QED BY <1>10, <1>step, <3>1, <3>2, <3>3, <3>4
  <2> QED BY <2>1, <2>4, <2>5 DEF AckedHold
<1>15. mem' = [sequence |-> mem.sequence + 1, previous |-> hash, started |-> learned.started,
               finished |-> learned.finished, keys |-> learned.keys, sealed |-> mem.sealed]
  <2>1. learned = [sequence |-> mem.sequence, previous |-> mem.previous,
                   started |-> learned.started, finished |-> learned.finished,
                   keys |-> learned.keys, sealed |-> mem.sealed]
    BY DEF Learns
  <2>2. mem' = [learned EXCEPT !.sequence = @ + 1, !.previous = hash]
    BY <1>0, <1>10 DEF Returns
  <2>3. PICK st, fi, ke : st = learned.started /\ fi = learned.finished /\ ke = learned.keys
    OBVIOUS
  <2>4. learned = [sequence |-> mem.sequence, previous |-> mem.previous, started |-> st,
                   finished |-> fi, keys |-> ke, sealed |-> mem.sealed]
    BY <2>1, <2>3
  <2>5. mem' = [sequence |-> mem.sequence + 1, previous |-> hash, started |-> st,
                finished |-> fi, keys |-> ke, sealed |-> mem.sealed]
    BY <2>2, <2>4
  <2> QED BY <2>3, <2>5
<1>16. /\ mem'.sequence = mem.sequence + 1 /\ mem'.previous = hash
       /\ mem'.started = learned.started /\ mem'.finished = learned.finished
       /\ mem'.keys = learned.keys /\ mem'.sealed = mem.sealed
  BY <1>15
<1>17. MemoryHolds'
  <2>1. mem'.sequence \in Nat /\ mem'.sequence <= Len(lines') /\ Len(mem'.previous) = mem'.sequence
    BY <1>3, <1>5, <1>6, <1>11, <1>16
  <2>2. \A h \in acked' : Begins(h, hash)
    <3>1. Begins(hash, hash)
      BY <1>3, <1>11 DEF Begins
    <3> QED BY <1>10, <1>12, <1>step, <3>1
  <2>3. mem'.sealed \in BOOLEAN
    BY <1>16 DEF IInv, MemoryHolds
  <2>4. /\ mem'.finished \subseteq Ids /\ mem'.keys \subseteq Ids
        /\ \A s \in mem'.started : s[1] \in Ids
    BY <1>16 DEF Learns
  <2> QED BY <1>11, <1>15, <1>16, <1>step, <2>1, <2>2, <2>3, <2>4 DEF MemoryHolds
<1>18. SealHolds'
  <2>1. \A k \in 1..synced : lines'[k] = lines[k]
    BY <1>5, <1>6, <1>7
  <2> QED BY <1>5, <1>6, <1>7, <1>step, <2>1, SealStays
<1>19. CleanHolds'
  <2> SUFFICES ASSUME faults = 0 PROVE CleanHolds'
    BY <1>step DEF CleanHolds
  <2>1. /\ ~torn /\ synced = n /\ Chained(n) /\ ReferencesHold
        /\ mem.sequence = n /\ mem.previous = PreviousHash(n + 1) /\ KeysTell
    BY <1>6 DEF IInv, CleanHolds
  <2>2. x = r
    BY <1>1, <2>1
  <2>3. Fresh(r.event, r.id, r.ref) /\ LearnsAll(r.event, r.id, RecordHash(r), learned)
    BY <1>0, <1>2
  <2>4. lines' = Append(lines, r) /\ Writable(r) /\ kind' = kind
    BY <1>4, <1>step, <2>2
  <2>5. Chained(n + 1)' /\ PreviousHash(n + 2)' = hash /\ ReferencesHold'
    BY <1>2, <1>6, <1>10, <2>1, <2>3, <2>4, RecordFits
  <2>6. KeysTell'
    BY <1>16, <2>1, <2>3, <2>4, KeysGrow
  <2>7. Len(lines') = n + 1 /\ Len(lines') + 1 = n + 2
    BY <1>5, <1>6
  <2>8. Chained(Len(lines))' /\ (mem.previous = PreviousHash(Len(lines) + 1))'
    <3>1. Chained(Len(lines))'
      BY <2>5, <2>7 DEF Chained
    <3>2. PreviousHash(Len(lines) + 1)' = PreviousHash(n + 2)'
      BY <2>7 DEF PreviousHash
    <3> QED BY <1>16, <2>5, <3>1, <3>2
  <2>9. mem'.sequence = Len(lines') /\ synced' = Len(lines')
    BY <1>16, <1>step, <2>1, <2>7
  <2> QED BY <1>step, <2>5, <2>6, <2>8, <2>9 DEF IInv, CleanHolds
<1> QED BY <1>8, <1>9, <1>14, <1>17, <1>18, <1>19 DEF IInv

\* _append, whatever becomes of the write.
LEMMA AppendLineKeeps ==
    ASSUME IInv, NEW event \in Events(kind), NEW id \in Ids, NEW ref, NEW out \in Outcomes,
           NEW learned, Learns(learned), AppendLine(event, id, ref, out, learned),
           faults = 0 => /\ Fresh(event, id, ref)
                         /\ LearnsAll(event, id, RecordHash(NewRecord(event, id, ref)), learned)
    PROVE  IInv'
<1>0. PICK r : r = NewRecord(event, id, ref)
  OBVIOUS
<1>1. /\ open /\ WriteLine(r, out) /\ UNCHANGED <<kind, exists, seal>>
      /\ mem' = CASE out = "ok" -> [learned EXCEPT !.sequence = @ + 1,
                                                   !.previous = RecordHash(r)]
                  [] out = "torn" -> NoMemory
                  [] OTHER -> mem
  BY <1>0 DEF AppendLine, NewRecord
<1>2. CASE out = "ok"
  <2>1. /\ lines' = Append(lines, IF torn THEN Garbage ELSE r) /\ torn' = FALSE
        /\ synced' = Len(lines') /\ acked' = acked \cup {RecordHash(r)}
        /\ faults' = faults /\ crashes' = crashes /\ open' = TRUE
    BY <1>1, <1>2 DEF WriteLine, SyncedAfter
  <2>2. mem' = [learned EXCEPT !.sequence = @ + 1, !.previous = RecordHash(r)]
    BY <1>1, <1>2
  <2>3. Returns(NewRecord(event, id, ref), learned)
    BY <1>0, <1>1, <2>1, <2>2 DEF Returns
  <2> QED BY <1>1, <2>3, SyncedKeeps
<1>3. CASE out = "fsync"
  <2>1. PICK x : x = IF torn THEN Garbage ELSE r
    OBVIOUS
  <2>2. /\ lines' = Append(lines, x) /\ torn' = FALSE /\ open' = TRUE
        /\ UNCHANGED <<synced, acked, crashes>> /\ faults' = faults + 1
    BY <1>1, <1>3, <2>1 DEF WriteLine, SyncedAfter
  <2>3. mem' = mem
    BY <1>1, <1>3
  <2>4. /\ r.ok = TRUE /\ IsSequence(r.prev) /\ r.event = event /\ r.id = id
    BY <1>0, <1>1 DEF NewRecord, IInv, MemoryHolds
  <2>5. Writable(x)
    BY <2>1, <2>4 DEF Writable, Garbage
  <2> QED BY <1>1, <2>2, <2>3, <2>5, UnsyncedKeeps
<1>4. CASE out \in {"short", "torn"}
  <2>1. /\ lines' = lines /\ torn' = TRUE /\ UNCHANGED <<synced, acked>>
        /\ faults' = faults + 1 /\ crashes' \in {crashes, crashes + 1} /\ open' = (out # "torn")
    BY <1>1, <1>4 DEF WriteLine, SyncedAfter
  <2>2. \/ open' = TRUE /\ mem' = mem
        \/ open' = FALSE /\ mem' = NoMemory
    BY <1>1, <1>4, <2>1
  <2> QED BY <1>1, <2>1, <2>2, FragmentKeeps
<1> QED BY <1>2, <1>3, <1>4 DEF Outcomes

\* The append of a record that a writer may write, and that the file may take if
\* the writer's key sets are the file's.
Appends(event, id, ref, out, learned) ==
    /\ Learns(learned) /\ AppendLine(event, id, ref, out, learned)
    /\ KeysTell => /\ Fresh(event, id, ref)
                   /\ LearnsAll(event, id, RecordHash(NewRecord(event, id, ref)), learned)

\* The writer's key sets decide what the file may take.
LEMMA AppendStartedAppends ==
    ASSUME IInv, NEW id \in Ids, NEW out \in Outcomes, AppendStarted(id, out)
    PROVE  \E event \in Events(kind) : \E ref, learned : Appends(event, id, ref, out, learned)
<1>1. PICK hash : hash = RecordHash(NewRecord("STARTED", id, Genesis))
  OBVIOUS
<1>2. hash = Append(mem.previous, [event |-> "STARTED", id |-> id, ref |-> Genesis])
  BY <1>1 DEF RecordHash, NewRecord
<1>3. PICK learned : learned = [mem EXCEPT !.started = @ \cup {<<id, hash>>}]
  OBVIOUS
<1>4. /\ kind = "ATTEMPT" /\ (\A s \in mem.started : s[1] # id)
      /\ AppendLine("STARTED", id, Genesis, out, learned)
  BY <1>2, <1>3 DEF AppendStarted
<1>5. learned = [sequence |-> mem.sequence, previous |-> mem.previous,
                 started |-> mem.started \cup {<<id, hash>>}, finished |-> mem.finished,
                 keys |-> mem.keys, sealed |-> mem.sealed]
  BY <1>3 DEF IInv, MemoryHolds
<1>6. /\ learned.started = mem.started \cup {<<id, hash>>}
      /\ learned.finished = mem.finished /\ learned.keys = mem.keys
  BY <1>5
<1>7. Learns(learned)
  <2>1. \A s \in learned.started : s[1] \in Ids
    BY <1>6 DEF IInv, MemoryHolds
  <2> QED BY <1>5, <1>6, <2>1 DEF Learns, IInv, MemoryHolds
<1>8. ASSUME KeysTell PROVE Fresh("STARTED", id, Genesis) /\ LearnsAll("STARTED", id, hash, learned)
  <2>2. KeysTell
    BY <1>8
  <2>3. \A j \in DOMAIN lines : ~(lines[j].event = "STARTED" /\ lines[j].id = id)
    BY <1>4, <2>2 DEF KeysTell
  <2>4. LearnsAll("STARTED", id, hash, learned)
    BY <1>6 DEF LearnsAll
  <2> QED BY <2>3, <2>4 DEF Fresh
<1>9. "STARTED" \in Events(kind)
  BY <1>4 DEF Events
<1>10. Appends("STARTED", id, Genesis, out, learned)
  BY <1>1, <1>4, <1>7, <1>8 DEF Appends
<1> QED BY <1>9, <1>10

LEMMA AppendFinishedAppends ==
    ASSUME IInv, NEW id \in Ids, NEW out \in Outcomes, AppendFinished(id, out)
    PROVE  \E event \in Events(kind) : \E ref, learned : Appends(event, id, ref, out, learned)
<1>1. PICK learned : learned = [mem EXCEPT !.finished = @ \cup {id}]
  OBVIOUS
<1>2. PICK s \in mem.started : /\ s[1] = id
                               /\ AppendLine("FINISHED", id, s[2], out, learned)
  BY <1>1 DEF AppendFinished
<1>3. kind = "ATTEMPT" /\ id \notin mem.finished
  BY DEF AppendFinished
<1>4. PICK hash : hash = RecordHash(NewRecord("FINISHED", id, s[2]))
  OBVIOUS
<1>5. learned = [sequence |-> mem.sequence, previous |-> mem.previous,
                 started |-> mem.started, finished |-> mem.finished \cup {id},
                 keys |-> mem.keys, sealed |-> mem.sealed]
  BY <1>1 DEF IInv, MemoryHolds
<1>6. /\ learned.started = mem.started
      /\ learned.finished = mem.finished \cup {id} /\ learned.keys = mem.keys
  BY <1>5
<1>7. Learns(learned)
  <2>1. learned.finished \subseteq Ids /\ learned.keys \subseteq Ids
        /\ \A z \in learned.started : z[1] \in Ids
    BY <1>6 DEF IInv, MemoryHolds
  <2> QED BY <1>5, <1>6, <2>1 DEF Learns
<1>8. ASSUME KeysTell PROVE Fresh("FINISHED", id, s[2]) /\ LearnsAll("FINISHED", id, hash, learned)
  <2>2. KeysTell
    BY <1>8
  <2>3. \A j \in DOMAIN lines : ~(lines[j].event = "FINISHED" /\ lines[j].id = id)
    BY <1>3, <2>2 DEF KeysTell
  <2>4. PICK j \in DOMAIN lines :
            lines[j].event = "STARTED" /\ s = <<lines[j].id, RecordHash(lines[j])>>
    BY <2>2 DEF KeysTell
  <2>5. lines[j].id = id /\ s[2] = RecordHash(lines[j])
    BY <1>2, <2>4
  <2>6. LearnsAll("FINISHED", id, hash, learned)
    BY <1>6 DEF LearnsAll
  <2> QED BY <2>3, <2>4, <2>5, <2>6 DEF Fresh
<1>9. "FINISHED" \in Events(kind)
  BY <1>3 DEF Events
<1>10. Appends("FINISHED", id, s[2], out, learned)
  BY <1>2, <1>4, <1>7, <1>8 DEF Appends
<1> QED BY <1>9, <1>10

LEMMA AppendRowAppends ==
    ASSUME IInv, NEW id \in Ids, NEW out \in Outcomes, AppendRow(id, out)
    PROVE  \E event \in Events(kind) : \E ref, learned : Appends(event, id, ref, out, learned)
<1>1. PICK learned : learned = [mem EXCEPT !.keys = @ \cup {id}]
  OBVIOUS
<1>2. /\ kind # "ATTEMPT" /\ (kind = "KEYED" => id \notin mem.keys)
      /\ AppendLine("ROW", id, Genesis, out, learned)
  BY <1>1 DEF AppendRow
<1>3. PICK hash : hash = RecordHash(NewRecord("ROW", id, Genesis))
  OBVIOUS
<1>4. learned = [sequence |-> mem.sequence, previous |-> mem.previous,
                 started |-> mem.started, finished |-> mem.finished,
                 keys |-> mem.keys \cup {id}, sealed |-> mem.sealed]
  BY <1>1 DEF IInv, MemoryHolds
<1>5. /\ learned.started = mem.started
      /\ learned.finished = mem.finished /\ learned.keys = mem.keys \cup {id}
  BY <1>4
<1>6. Learns(learned)
  <2>1. learned.finished \subseteq Ids /\ learned.keys \subseteq Ids
        /\ \A z \in learned.started : z[1] \in Ids
    BY <1>5 DEF IInv, MemoryHolds
  <2> QED BY <1>4, <1>5, <2>1 DEF Learns
<1>7. ASSUME KeysTell PROVE Fresh("ROW", id, Genesis) /\ LearnsAll("ROW", id, hash, learned)
  <2>2. KeysTell
    BY <1>7
  <2>3. kind # "PLAIN" => \A j \in DOMAIN lines : ~(lines[j].event = "ROW" /\ lines[j].id = id)
    <3>1. kind # "PLAIN" => id \notin mem.keys
      BY <1>2 DEF IInv, FileHolds, LedgerKinds
    <3> QED BY <2>2, <3>1 DEF KeysTell
  <2>4. LearnsAll("ROW", id, hash, learned)
    BY <1>5 DEF LearnsAll
  <2> QED BY <2>3, <2>4 DEF Fresh
<1>8. "ROW" \in Events(kind)
  BY <1>2 DEF Events
<1>9. Appends("ROW", id, Genesis, out, learned)
  BY <1>2, <1>3, <1>6, <1>7 DEF Appends
<1> QED BY <1>8, <1>9

\* While no write failed they are.
LEMMA AppendsKeep ==
    ASSUME IInv, NEW id \in Ids, NEW out \in Outcomes,
           AppendStarted(id, out) \/ AppendFinished(id, out) \/ AppendRow(id, out)
    PROVE  IInv'
<1>1. PICK event \in Events(kind) : \E ref, learned : Appends(event, id, ref, out, learned)
  BY AppendStartedAppends, AppendFinishedAppends, AppendRowAppends
<1>2. PICK ref, learned : Appends(event, id, ref, out, learned)
  BY <1>1
<1>3. faults = 0 => KeysTell
  BY <1>2 DEF Appends, AppendLine, IInv, CleanHolds
<1> QED BY <1>2, <1>3, AppendLineKeeps DEF Appends

-----------------------------------------------------------------------------
(* The theorems *)

LEMMA InvariantInit == Init => IInv
<1> SUFFICES ASSUME Init PROVE IInv
  OBVIOUS
<1> USE DEF Init
<1>1. Len(lines) = 0 /\ DOMAIN lines = {} /\ IsSequence(lines)
  <2>1. IsSequence(lines) /\ Len(lines) = 0
    BY EmptyIs
  <2>2. DOMAIN lines = 1..Len(lines)
    BY <2>1, SequenceIs
  <2> QED BY <2>1, <2>2
<1>2. FileHolds
  <2>1. synced \in 0..Len(lines) /\ faults \in Nat /\ crashes \in Nat
    BY <1>1
  <2>2. exists \in BOOLEAN /\ torn \in BOOLEAN /\ open \in BOOLEAN /\ ~open
    OBVIOUS
  <2>3. \A i \in DOMAIN lines :
          /\ lines[i].ok \in BOOLEAN
          /\ lines[i].ok => /\ IsSequence(lines[i].prev)
                            /\ lines[i].event \in Events(kind) /\ lines[i].id \in Ids
    BY <1>1
  <2> QED BY <1>1, <2>1, <2>2, <2>3 DEF FileHolds
<1>3. HashesTell
  BY <1>1 DEF HashesTell
<1>4. MemoryHolds
  BY DEF MemoryHolds, NoMemory
<1>5. AckedHold
  BY DEF AckedHold
<1>6. SealHolds
  BY DEF SealHolds, NoSeal
<1>7. CleanHolds
  <2>1. Chained(Len(lines)) /\ ReferencesHold
    BY <1>1 DEF Chained, ReferencesHold
  <2>2. seal.state # "WRITTEN"
    BY DEF NoSeal
  <2> QED BY <1>1, <2>1, <2>2 DEF CleanHolds
<1> QED BY <1>2, <1>3, <1>4, <1>5, <1>6, <1>7 DEF IInv

LEMMA InvariantStep == IInv /\ [Next]_vars => IInv'
<1> SUFFICES ASSUME IInv, [Next]_vars PROVE IInv'
  OBVIOUS
<1>1. CASE Create
  BY <1>1, CreateKeeps
<1>2. CASE Resume
  BY <1>2, ResumeKeeps
<1>3. CASE Close \/ Crash
  BY <1>3, CloseKeeps
<1>4. CASE PowerLoss
  BY <1>4, PowerLossKeeps
<1>5. CASE \E id \in Ids, out \in Outcomes :
            AppendStarted(id, out) \/ AppendFinished(id, out) \/ AppendRow(id, out)
  BY <1>5, AppendsKeep
<1>6. CASE \E dies \in BOOLEAN : SealLedger(dies)
  BY <1>6, SealKeeps
<1>7. CASE UNCHANGED vars
  <2>1. /\ FileHolds' = FileHolds /\ MemoryHolds' = MemoryHolds /\ SealHolds' = SealHolds
    BY <1>7 DEF vars, FileHolds, MemoryHolds, SealHolds
  <2>2. HashesTell' = HashesTell /\ AckedHold' = AckedHold
    BY <1>7 DEF vars, HashesTell, AckedHold, Chained, PreviousHash, Tells
  <2>3. CleanHolds' = CleanHolds
    BY <1>7 DEF vars, CleanHolds, KeysTell, ReferencesHold, Chained, PreviousHash
  <2> QED BY <2>1, <2>2, <2>3 DEF IInv
<1> QED BY <1>1, <1>2, <1>3, <1>4, <1>5, <1>6, <1>7 DEF Next

\* The inductive invariant holds: the file, its hashes, the holder's memory, the
\* returned records and the seal fit together after any call, fault or crash.
THEOREM InvariantHolds == Spec => []IInv
BY InvariantInit, InvariantStep, PTL DEF Spec

\* Every variable has its type: no power loss leaves more lines synced than the
\* file has, and every line that parses is of the ledger's kind.
THEOREM TypeCorrect == Spec => []TypeOK
<1>1. IInv => TypeOK
  BY DEF IInv, FileHolds, MemoryHolds, SealHolds, TypeOK
<1> QED BY <1>1, InvariantHolds, PTL

\* What _append returned for stands: a ledger that verify_ledger accepts holds
\* the record in its place, and no two returned records extend different
\* histories, across any number of writers, failed writes and power losses.
THEOREM ReturnedRecordsStand == Spec => []AckedRecordsStand
<1>1. ASSUME IInv PROVE AckedRecordsStand
  <2>1. ASSUME Verifies, NEW h \in acked
        PROVE  Len(h) \in DOMAIN lines /\ RecordHash(lines[Len(h)]) = h
    <3>1. Chained(Len(lines))
      BY <1>1, <2>1, VerifiedIsChained
    <3>2. /\ Len(lines) \in Nat /\ DOMAIN lines = 1..Len(lines) /\ synced \in 0..Len(lines)
      BY <1>1, FileIs DEF IInv, FileHolds
    <3>3. Chained(synced)
      BY <3>1, <3>2, ChainShorter
    <3>4. Len(h) \in 1..synced /\ RecordHash(lines[Len(h)]) = h
      BY <1>1, <2>1, <3>3 DEF IInv, AckedHold
    <3> QED BY <3>2, <3>4
  <2>2. ASSUME NEW g \in acked, NEW h \in acked, Len(g) <= Len(h)
        PROVE  SubSeq(h, 1, Len(g)) = g
    <3>1. IsSequence(g) /\ IsSequence(h) /\ Begins(g, h)
      BY <1>1, <2>2 DEF IInv, AckedHold
    <3> QED BY <3>1, BeginsIs
  <2> QED BY <2>1, <2>2 DEF AckedRecordsStand
<1> QED BY <1>1, InvariantHolds, PTL

\* What seal bound stands: the ledger begins with the sealed bytes after any
\* power loss; and while no write failed and nothing was appended since,
\* verify_ledger accepts the ledger with its seal.
THEOREM SealedBytesStand == Spec => []SealStands
<1>1. ASSUME IInv, seal.state = "WRITTEN"
      PROVE  /\ Len(seal.bytes) <= Len(lines)
             /\ SubSeq(lines, 1, Len(seal.bytes)) = seal.bytes
             /\ faults = 0 /\ Len(lines) = Len(seal.bytes) => SealVerifies
  <2>1. /\ IsSequence(seal.bytes) /\ Begins(seal.bytes, lines) /\ IsSequence(lines)
    BY <1>1 DEF IInv, SealHolds, FileHolds
  <2>2. Len(seal.bytes) <= Len(lines)
    BY <2>1 DEF Begins
  <2>3. SubSeq(lines, 1, Len(seal.bytes)) = seal.bytes
    BY <2>1, BeginsIs
  <2>4. ASSUME faults = 0, Len(lines) = Len(seal.bytes) PROVE SealVerifies
    <3>1. seal.bytes = lines
      BY <2>1, <2>4, SequenceEqual DEF Begins
    <3>2. /\ ~torn /\ Chained(Len(lines)) /\ ReferencesHold
          /\ seal.count = Len(seal.bytes)
          /\ seal.final = IF Len(seal.bytes) = 0 THEN Genesis
                          ELSE RecordHash(seal.bytes[Len(seal.bytes)])
      BY <1>1, <2>4 DEF IInv, CleanHolds
    <3>3. Verifies
      BY <1>1, <3>2, VerifiedIsChained
    <3>4. Len(lines) \in Nat
      BY <1>1, FileIs
    <3>5. seal.final = PreviousHash(Len(lines) + 1)
      BY <3>1, <3>2, <3>4 DEF PreviousHash
    <3> QED BY <1>1, <3>1, <3>2, <3>3, <3>5 DEF SealVerifies
  <2> QED BY <2>2, <2>3, <2>4
<1>2. IInv => SealStands
  BY <1>1 DEF SealStands
<1> QED BY <1>2, InvariantHolds, PTL

-----------------------------------------------------------------------------
(* The intact records *)

\* Induction over the naturals, as a statement about a set G.
LEMMA CountingUp ==
    ASSUME NEW G, 0 \in G, \A n \in Nat : n \in G => n + 1 \in G
    PROVE  \A n \in Nat : n \in G
<1> DEFINE Rest == Nat \ G
<1>1. SUFFICES ASSUME Rest # {} PROVE FALSE
  OBVIOUS
<1>2. PICK n \in Rest : \A m \in Rest : ~(<<m, n>> \in OpToRel(<, Nat))
  <2>1. Rest \subseteq Nat
    OBVIOUS
  <2> HIDE DEF Rest
  <2> QED BY <1>1, <2>1, NatLessThanWellFounded, WFMin, Zenon
<1>3. n \in Nat /\ n \notin G /\ \A m \in Nat : m < n => m \in G
  BY <1>2 DEF OpToRel
<1>4. n - 1 \in Nat /\ n - 1 < n /\ (n - 1) + 1 = n
  BY <1>3
<1> QED BY <1>3, <1>4

\* f collects the records among the first lines of a file.
Collects(f, file, n) ==
    /\ f[0] = <<>>
    /\ \A i \in 1..n : f[i] = IF file[i].ok THEN Append(f[i - 1], file[i]) ELSE f[i - 1]

\* The recursive function of IntactOf exists and does.
LEMMA IntactCollects ==
    ASSUME NEW file, IsSequence(file)
    PROVE  \E f : Collects(f, file, Len(file)) /\ IntactOf(file) = f[Len(file)]
<1> DEFINE Body(g, k) == [n \in 0..k |-> IF n = 0 THEN <<>>
                                         ELSE IF file[n].ok THEN Append(g[n - 1], file[n]) ELSE g[n - 1]]
           G == {k \in Nat : \E g : g = Body(g, k)}
<1>1. 0 \in G
  <2> DEFINE g == [n \in {0} |-> <<>>]
  <2>1. 0..0 = {0}
    OBVIOUS
  <2>2. g = Body(g, 0)
    BY <2>1
  <2> HIDE DEF g, Body
  <2> QED BY <2>2
<1>2. ASSUME NEW k \in Nat, k \in G PROVE k + 1 \in G
  <2>1. PICK g : g = Body(g, k)
    BY <1>2
  <2> DEFINE h == Body(g, k + 1)
  <2>2. \A n \in 0..k : n \in 0..(k + 1) /\ h[n] = g[n]
    <3> TAKE n \in 0..k
    <3>1. n \in 0..(k + 1)
      OBVIOUS
    <3>2. g[n] = Body(g, k)[n]
      BY <2>1, Zenon
    <3>3. Body(g, k)[n] = Body(g, k + 1)[n]
      BY <3>1, Zenon
    <3> QED BY <3>1, <3>2, <3>3, Zenon
  <2>3. \A n \in 0..(k + 1) : n # 0 => g[n - 1] = h[n - 1]
    <3> HIDE DEF h, Body
    <3> TAKE n \in 0..(k + 1)
    <3>1. n # 0 => n - 1 \in 0..k
      OBVIOUS
    <3> QED BY <2>2, <3>1
  <2>4. Body(g, k + 1) = Body(h, k + 1)
    <3> HIDE DEF h
    <3> QED BY <2>3
  <2>5. h = Body(h, k + 1)
    <3>1. h = Body(g, k + 1)
      OBVIOUS
    <3> HIDE DEF h, Body
    <3> QED BY <2>4, <3>1
  <2> HIDE DEF h, Body
  <2> QED BY <2>5
<1>3. Len(file) \in Nat
  BY SequenceIs
<1>4. Len(file) \in G
  <2> HIDE DEF G
  <2> QED BY <1>1, <1>2, <1>3, CountingUp
<1> DEFINE among == CHOOSE g : g = Body(g, Len(file))
<1>5. IntactOf(file) = among[Len(file)]
  BY DEF IntactOf
<1>6. among = Body(among, Len(file))
  <2>1. \E g : g = Body(g, Len(file))
    BY <1>4
  <2> HIDE DEF Body
  <2> QED BY <2>1
<1> HIDE DEF among
<1>7. Collects(among, file, Len(file))
  <2>1. \A n \in 0..Len(file) : among[n] = Body(among, Len(file))[n]
    BY <1>6, Zenon
  <2>2. \A n \in 1..Len(file) : n \in 0..Len(file) /\ n # 0
    BY <1>3
  <2>3. 0 \in 0..Len(file)
    BY <1>3
  <2> QED BY <2>1, <2>2, <2>3 DEF Collects
<1> QED BY <1>5, <1>7

\* Where two files agree, so do their records.
LEMMA CollectedAlike ==
    ASSUME NEW f, NEW file, NEW g, NEW other, NEW n \in Nat, Collects(f, file, n), Collects(g, other, n),
           \A i \in 1..n : file[i] = other[i]
    PROVE  \A i \in 0..n : f[i] = g[i]
<1> DEFINE G == {k \in Nat : k <= n => f[k] = g[k]}
<1>1. 0 \in G
  BY DEF Collects
<1>2. ASSUME NEW k \in Nat, k \in G PROVE k + 1 \in G
  <2> SUFFICES ASSUME k + 1 <= n PROVE f[k + 1] = g[k + 1]
    OBVIOUS
  <2>1. f[k] = g[k] /\ k + 1 \in 1..n /\ (k + 1) - 1 = k
    BY <1>2
  <2> QED BY <2>1 DEF Collects
<1>3. \A k \in Nat : k \in G
  <2> HIDE DEF G
  <2> QED BY <1>1, <1>2, CountingUp
<1> QED BY <1>3

\* Records are only added, and none is left out where all lines parse.
LEMMA CollectedInOrder ==
    ASSUME NEW f, NEW file, NEW n \in Nat, Collects(f, file, n)
    PROVE  \A k \in 0..n :
              /\ IsSequence(f[k]) /\ Len(f[k]) <= k
              /\ \A i \in 0..k : IsSequence(f[i]) /\ Begins(f[i], f[k])
              /\ (\A i \in 1..k : file[i].ok) => Len(f[k]) = k
<1> DEFINE Good(k) == /\ IsSequence(f[k]) /\ Len(f[k]) <= k
                      /\ \A i \in 0..k : IsSequence(f[i]) /\ Begins(f[i], f[k])
                      /\ (\A i \in 1..k : file[i].ok) => Len(f[k]) = k
           G == {k \in Nat : k <= n => Good(k)}
<1>1. 0 \in G
  <2>1. f[0] = <<>>
    BY DEF Collects
  <2>2. IsSequence(f[0]) /\ Len(f[0]) = 0
    BY <2>1, EmptyIs
  <2>3. \A i \in 0..0 : IsSequence(f[i]) /\ Begins(f[i], f[0])
    BY <2>2 DEF Begins
  <2>4. Good(0)
    BY <2>2, <2>3
  <2> QED BY <2>4
<1>2. ASSUME NEW k \in Nat, k \in G PROVE k + 1 \in G
  <2> SUFFICES ASSUME k + 1 <= n PROVE Good(k + 1)
    OBVIOUS
  <2>1. /\ IsSequence(f[k]) /\ Len(f[k]) <= k /\ \A i \in 0..k : IsSequence(f[i]) /\ Begins(f[i], f[k])
        /\ (\A i \in 1..k : file[i].ok) => Len(f[k]) = k
    BY <1>2
  <2>2. f[k + 1] = IF file[k + 1].ok THEN Append(f[k], file[k + 1]) ELSE f[k]
    <3>1. k + 1 \in 1..n /\ (k + 1) - 1 = k
      OBVIOUS
    <3> QED BY <3>1 DEF Collects
  <2>3. Len(f[k]) \in Nat
    BY <2>1, SequenceIs
  <2>4. /\ IsSequence(f[k + 1])
        /\ Len(f[k + 1]) = IF file[k + 1].ok THEN Len(f[k]) + 1 ELSE Len(f[k])
        /\ \A j \in 1..Len(f[k]) : f[k + 1][j] = f[k][j]
    <3>1. CASE file[k + 1].ok
      <4>1. f[k + 1] = Append(f[k], file[k + 1])
        BY <2>2, <3>1
      <4> QED BY <2>1, <3>1, <4>1, AppendIs
    <3>2. CASE ~file[k + 1].ok
      BY <2>1, <2>2, <3>2
    <3> QED BY <3>1, <3>2
  <2>5. ASSUME NEW i \in 0..(k + 1) PROVE IsSequence(f[i]) /\ Begins(f[i], f[k + 1])
    <3>1. CASE i = k + 1
      BY <2>3, <2>4, <3>1 DEF Begins
    <3>2. CASE i # k + 1
      <4>1. i \in 0..k
        BY <3>2
      <4>2. /\ IsSequence(f[i]) /\ Len(f[i]) \in Nat
            /\ Len(f[i]) <= Len(f[k]) /\ \A j \in 1..Len(f[i]) : f[k][j] = f[i][j]
        BY <2>1, <4>1, SequenceIs DEF Begins
      <4>3. \A j \in 1..Len(f[i]) : f[k + 1][j] = f[i][j]
        <5> TAKE j \in 1..Len(f[i])
        <5>1. j \in 1..Len(f[k])
          BY <2>3, <4>2
        <5> QED BY <2>4, <4>2, <5>1
      <4> QED BY <2>3, <2>4, <4>2, <4>3 DEF Begins
    <3> QED BY <3>1, <3>2
  <2>6. Len(f[k + 1]) <= k + 1
    BY <2>1, <2>3, <2>4
  <2>7. (\A i \in 1..(k + 1) : file[i].ok) => Len(f[k + 1]) = k + 1
    BY <2>1, <2>3, <2>4
  <2> QED BY <2>4, <2>5, <2>6, <2>7
<1>3. \A k \in Nat : k \in G
  <2> HIDE DEF G
  <2> QED BY <1>1, <1>2, CountingUp
<1> HIDE DEF Good
<1>4. \A k \in 0..n : Good(k)
  BY <1>3
<1> QED BY <1>4 DEF Good

\* What an append adds to the records,
LEMMA IntactGrows ==
    ASSUME IInv, NEW x, Writable(x), lines' = Append(lines, x), kind' = kind
    PROVE  Intact' = (IF x.ok THEN Append(Intact, x) ELSE Intact)
<1>1. PICK n \in Nat : n = Len(lines)
  BY FileIs
<1>2. /\ IsSequence(lines) /\ IsSequence(lines') /\ Len(lines') = n + 1 /\ lines'[n + 1] = x
      /\ \A k \in 1..n : lines'[k] = lines[k]
  BY <1>1, LinesGrow DEF IInv, FileHolds
<1>3. PICK f : Collects(f, lines, n) /\ Intact = f[n]
  BY <1>1, <1>2, IntactCollects DEF Intact
<1>4. PICK file : file = lines'
  OBVIOUS
<1>5. PICK g : Collects(g, file, n + 1) /\ IntactOf(file) = g[n + 1]
  BY <1>2, <1>4, IntactCollects
<1>6. Intact' = g[n + 1]
  BY <1>4, <1>5 DEF Intact
<1>7. g[n] = f[n]
  <2>1. Collects(g, file, n)
    BY <1>5 DEF Collects
  <2>2. \A i \in 1..n : lines[i] = file[i]
    BY <1>2, <1>4
  <2>3. n \in 0..n
    OBVIOUS
  <2> QED BY <1>3, <2>1, <2>2, <2>3, CollectedAlike
<1>8. g[n + 1] = IF x.ok THEN Append(g[n], x) ELSE g[n]
  <2>1. n + 1 \in 1..(n + 1) /\ (n + 1) - 1 = n /\ file[n + 1] = x
    BY <1>2, <1>4
  <2> QED BY <1>5, <2>1 DEF Collects
<1> QED BY <1>3, <1>6, <1>7, <1>8

\* and a power loss takes from them; nothing, if all lines parse, only if it
\* takes no line.
LEMMA IntactShrinks ==
    ASSUME IInv, NEW n \in 0..Len(lines), lines' = SubSeq(lines, 1, n)
    PROVE  /\ IsSequence(Intact) /\ IsSequence(Intact') /\ Begins(Intact', Intact)
           /\ (\A i \in DOMAIN lines : lines[i].ok) /\ Intact' = Intact => n = Len(lines)
<1>1. /\ Len(lines) \in Nat /\ n \in Nat /\ n <= Len(lines) /\ DOMAIN lines = 1..Len(lines)
      /\ IsSequence(lines) /\ IsSequence(lines') /\ Len(lines') = n
      /\ \A k \in 1..n : lines'[k] = lines[k]
  BY FileIs, PrefixIs DEF IInv, FileHolds
<1>2. PICK m \in Nat : m = Len(lines)
  BY <1>1
<1>3. PICK f : Collects(f, lines, m) /\ Intact = f[m]
  BY <1>1, <1>2, IntactCollects DEF Intact
<1>4. PICK file : file = lines'
  OBVIOUS
<1>5. PICK g : Collects(g, file, n) /\ IntactOf(file) = g[n]
  BY <1>1, <1>4, IntactCollects
<1>6. Intact' = g[n]
  BY <1>4, <1>5 DEF Intact
<1>7. n \in 0..m /\ m \in 0..m /\ n \in 0..n
  BY <1>1, <1>2
<1>8. g[n] = f[n]
  <2>1. Collects(f, lines, n)
    BY <1>1, <1>2, <1>3 DEF Collects
  <2>2. \A i \in 1..n : lines[i] = file[i]
    BY <1>1, <1>4
  <2> QED BY <1>1, <1>5, <1>7, <2>1, <2>2, CollectedAlike
<1>9. /\ IsSequence(f[m]) /\ IsSequence(f[n]) /\ Begins(f[n], f[m])
      /\ (\A i \in 1..m : lines[i].ok) => Len(f[m]) = m
      /\ (\A i \in 1..n : lines[i].ok) => Len(f[n]) = n
  BY <1>3, <1>7, CollectedInOrder
<1>10. ASSUME \A i \in DOMAIN lines : lines[i].ok, Intact' = Intact PROVE n = Len(lines)
  <2>1. (\A i \in 1..m : lines[i].ok) /\ (\A i \in 1..n : lines[i].ok)
    BY <1>1, <1>2, <1>10
  <2> QED BY <1>2, <1>3, <1>6, <1>8, <1>9, <1>10, <2>1
<1> QED BY <1>3, <1>6, <1>8, <1>9, <1>10

LEMMA IntactIs == ASSUME IInv PROVE IsSequence(Intact)
<1>1. IsSequence(lines) /\ Len(lines) \in Nat
  BY FileIs DEF IInv, FileHolds
<1>2. PICK f : Collects(f, lines, Len(lines)) /\ Intact = f[Len(lines)]
  BY <1>1, IntactCollects DEF Intact
<1>3. Len(lines) \in 0..Len(lines)
  BY <1>1
<1> QED BY <1>1, <1>2, <1>3, CollectedInOrder

-----------------------------------------------------------------------------
(* The refinement of DurableLedger *)

\* Faults or not, a holder whose tail is the file's knows the keys of a file
\* that verifies; so what it may write next, the file may take.
TailHolds ==
    /\ ~exists => ~torn
    /\ open /\ mem.sequence = Len(lines) /\ Verifies =>
          mem.previous = PreviousHash(Len(lines) + 1) /\ KeysTell

\* What of the file a user sees.
LEMMA SeenAlike ==
    ASSUME UNCHANGED <<kind, lines, torn>>
    PROVE  Intact' = Intact /\ (Verifies' <=> Verifies)
<1>1. Intact' = Intact
  BY DEF Intact
<1>2. Parses' <=> Parses
  BY DEF Parses
<1>3. ChainHolds' <=> ChainHolds
  BY DEF ChainHolds, PreviousHash
<1>4. ReferencesHold' <=> ReferencesHold
  BY DEF ReferencesHold
<1> QED BY <1>1, <1>2, <1>3, <1>4 DEF Verifies

\* A record verifies with the file it is added to exactly when that verified and
\* the writer's tail was the file's.
LEMMA RecordVerifies ==
    ASSUME IInv, TailHolds, open, ~torn, torn' = FALSE,
           NEW event \in Events(kind), NEW id \in Ids, NEW ref, NEW learned,
           NEW r, r = NewRecord(event, id, ref), lines' = Append(lines, r), kind' = kind,
           KeysTell => Fresh(event, id, ref) /\ LearnsAll(event, id, RecordHash(r), learned)
    PROVE  /\ Verifies' <=> Verifies /\ mem.sequence = Len(lines)
           /\ Verifies' => /\ PreviousHash(Len(lines) + 1)' = RecordHash(r)
                           /\ KeysTell /\ LearnsAll(event, id, RecordHash(r), learned)
<1>1. /\ r.ok = TRUE /\ r.seq = mem.sequence /\ r.prev = mem.previous /\ r.event = event
      /\ r.id = id /\ r.ref = ref
  BY DEF NewRecord
<1>2. Writable(r)
  BY <1>1 DEF Writable, IInv, MemoryHolds
<1>3. PICK n \in Nat : n = Len(lines)
  BY FileIs
<1>4. /\ DOMAIN lines = 1..n /\ DOMAIN lines' = 1..(n + 1) /\ Len(lines') = n + 1 /\ lines'[n + 1] = r
      /\ \A k \in 1..n : lines'[k] = lines[k]
  BY <1>2, <1>3, LinesGrow, FileIs
<1>5. ASSUME Verifies' PROVE Verifies /\ mem.sequence = n
  <2>1. Parses' /\ ChainHolds' /\ ReferencesHold'
    BY <1>5 DEF Verifies
  <2>2. \A i \in 1..n : i \in DOMAIN lines' /\ PreviousHash(i)' = PreviousHash(i)
    <3>1. \A i \in 1..(n + 1) : PreviousHash(i)' = PreviousHash(i)
      BY <1>4, ChainStays
    <3> QED BY <1>4, <3>1
  <2>3. mem.sequence = n
    <3>1. n + 1 \in DOMAIN lines' /\ (n + 1) - 1 = n
      BY <1>4
    <3> QED BY <1>1, <1>4, <2>1, <3>1 DEF ChainHolds
  <2>4. Parses
    BY <1>4, <2>1, <2>2 DEF Parses
  <2>5. ChainHolds
    BY <1>4, <2>1, <2>2 DEF ChainHolds
  <2>6. ReferencesHold
    <3>1. ASSUME NEW i \in DOMAIN lines
          PROVE  /\ kind # "PLAIN" => \A j \in 1..(i - 1) :
                       ~(lines[j].event = lines[i].event /\ lines[j].id = lines[i].id)
                 /\ lines[i].event = "FINISHED" => \E j \in 1..(i - 1) :
                       /\ lines[j].event = "STARTED" /\ lines[j].id = lines[i].id
                       /\ lines[i].ref = RecordHash(lines[j])
      <4>1. i \in DOMAIN lines' /\ lines'[i] = lines[i] /\ \A j \in 1..(i - 1) : lines'[j] = lines[j]
        BY <1>4
      <4>2. /\ kind # "PLAIN" => \A j \in 1..(i - 1) :
                  ~(lines'[j].event = lines'[i].event /\ lines'[j].id = lines'[i].id)
            /\ lines'[i].event = "FINISHED" => \E j \in 1..(i - 1) :
                  /\ lines'[j].event = "STARTED" /\ lines'[j].id = lines'[i].id
                  /\ lines'[i].ref = RecordHash(lines'[j])
        BY <2>1, <4>1 DEF ReferencesHold
      <4> QED BY <4>1, <4>2
    <3> QED BY <3>1 DEF ReferencesHold
  <2> QED BY <2>3, <2>4, <2>5, <2>6 DEF Verifies
<1>6. ASSUME Verifies, mem.sequence = n
      PROVE  /\ Verifies' /\ PreviousHash(Len(lines) + 1)' = RecordHash(r)
             /\ KeysTell /\ LearnsAll(event, id, RecordHash(r), learned)
  <2>1. mem.previous = PreviousHash(n + 1) /\ KeysTell
    BY <1>3, <1>6 DEF TailHolds
  <2>2. Chained(n) /\ ReferencesHold
    BY <1>3, <1>6, VerifiedIsChained DEF Verifies
  <2>3. Fresh(r.event, r.id, r.ref) /\ LearnsAll(event, id, RecordHash(r), learned)
    BY <1>1, <2>1
  <2>4. Chained(n + 1)' /\ PreviousHash(n + 2)' = RecordHash(r) /\ ReferencesHold'
    BY <1>1, <1>2, <1>3, <1>6, <2>1, <2>2, <2>3, RecordFits
  <2>5. Verifies'
    <3>1. \A i \in DOMAIN lines' : /\ lines'[i].ok
                                  /\ lines'[i].seq = i - 1
                                  /\ lines'[i].prev = PreviousHash(i)'
      BY <1>4, <2>4 DEF Chained
    <3>2. Parses'
      BY <3>1 DEF Parses
    <3>3. ChainHolds'
      BY <3>1 DEF ChainHolds
    <3> QED BY <2>4, <3>2, <3>3 DEF Verifies
  <2>6. PreviousHash(Len(lines) + 1)' = RecordHash(r)
    <3>1. Len(lines') + 1 = n + 2
      BY <1>4
    <3>2. PreviousHash(Len(lines) + 1)' = PreviousHash(n + 2)'
      BY <3>1 DEF PreviousHash
    <3> QED BY <2>4, <3>2
  <2> QED BY <2>1, <2>3, <2>5, <2>6
<1> QED BY <1>3, <1>5, <1>6

\* What a step must do to the file and the memory to be one of DurableLedger.
LEMMA TakeStep ==
    ASSUME UNCHANGED <<kind, lines, torn>>, ~open, open' = TRUE, Verifies,
           mem'.sequence = Len(lines')
    PROVE  Abstract!Take
<1>1. Intact' = Intact /\ Verifies'
  BY SeenAlike
<1> QED BY <1>1 DEF Abstract!Take

LEMMA DropStep ==
    ASSUME UNCHANGED <<kind, lines, torn>>, open, open' = FALSE
    PROVE  Abstract!Drop
<1>1. Intact' = Intact /\ (Verifies' <=> Verifies)
  BY SeenAlike
<1>2. ~open' /\ open'= FALSE
  OBVIOUS
<1> QED BY <1>1, <1>2 DEF Abstract!Drop

LEMMA StutterStep ==
    ASSUME UNCHANGED <<kind, lines, torn, open>>, mem'.sequence = mem.sequence
    PROVE  UNCHANGED Abstract!ledgerVars
<1>1. Intact' = Intact /\ (Verifies' <=> Verifies)
  BY SeenAlike
<1> QED BY <1>1 DEF Abstract!ledgerVars

LEMMA TearStep ==
    ASSUME open, open' \in BOOLEAN, ~Verifies', Intact' = Intact
    PROVE  Abstract!Tear
<1>1. (open' /\ mem'.sequence # Len(lines')) \in BOOLEAN
  OBVIOUS
<1>2. (~Verifies') = TRUE
  OBVIOUS
<1> QED BY <1>1, <1>2 DEF Abstract!Tear

LEMMA WriteStep ==
    ASSUME open, open' = open,
           Len(Intact') = Len(Intact) + 1, SubSeq(Intact', 1, Len(Intact)) = Intact,
           Verifies' <=> Verifies /\ mem.sequence = Len(lines),
           \/ mem'.sequence = Len(lines') <=> mem.sequence = Len(lines)
           \/ mem'.sequence # Len(lines')
    PROVE  Abstract!Write
<1>1. Abstract!Grown(Intact')
  BY DEF Abstract!Grown
<1>2. (~Verifies') = (~Verifies \/ (open /\ mem.sequence # Len(lines)))
  OBVIOUS
<1>3. (open' /\ mem'.sequence # Len(lines')) \in {open /\ mem.sequence # Len(lines), TRUE}
  OBVIOUS
<1> QED BY <1>1, <1>2, <1>3 DEF Abstract!Write

LEMMA LoseTailStep ==
    ASSUME open' = FALSE, Len(Intact') <= Len(Intact),
           Intact' = SubSeq(Intact, 1, Len(Intact')),
           Intact' = Intact /\ Verifies => Verifies'
    PROVE  Abstract!LoseTail
BY DEF Abstract!LoseTail

\* Who creates or resumes the ledger takes it, with the tail of the file.
LEMMA CreateTakes == ASSUME IInv, TailHolds, Create PROVE TailHolds' /\ Abstract!Take
<1>1. /\ lines = <<>> /\ Len(lines) = 0 /\ ~torn /\ ~open
      /\ UNCHANGED <<kind, lines, torn>>
      /\ exists' = TRUE /\ open' = TRUE /\ mem' = NoMemory
  BY EmptyIs DEF IInv, FileHolds, TailHolds, Create
<1>2. Verifies
  BY <1>1 DEF Verifies, Parses, ChainHolds, ReferencesHold
<1>3. /\ mem'.sequence = Len(lines') /\ (mem.previous = PreviousHash(Len(lines) + 1))'
      /\ KeysTell'
  BY <1>1 DEF NoMemory, PreviousHash, KeysTell
<1>4. Abstract!Take
  BY <1>1, <1>2, <1>3, TakeStep
<1> QED BY <1>1, <1>3, <1>4 DEF TailHolds

LEMMA ResumeTakes == ASSUME IInv, TailHolds, Resume PROVE TailHolds' /\ Abstract!Take
<1>1. /\ ~open /\ exists /\ exists' = exists /\ Verifies /\ open' = TRUE
      /\ mem' = RestoredMemory /\ UNCHANGED <<kind, lines, torn>>
  BY DEF Resume
<1>2. /\ mem'.sequence = Len(lines) /\ mem'.previous = PreviousHash(Len(lines) + 1)
      /\ mem'.started = {<<lines[i].id, RecordHash(lines[i])>> :
                            i \in {j \in DOMAIN lines : lines[j].event = "STARTED"}}
      /\ mem'.finished = {lines[i].id : i \in {j \in DOMAIN lines : lines[j].event = "FINISHED"}}
      /\ mem'.keys = {lines[i].id : i \in {j \in DOMAIN lines : lines[j].event = "ROW"}}
  BY <1>1 DEF RestoredMemory
<1>3. /\ mem'.sequence = Len(lines') /\ (mem.previous = PreviousHash(Len(lines) + 1))'
  BY <1>1, <1>2 DEF PreviousHash
<1>4. KeysTell'
  BY <1>1, <1>2 DEF KeysTell
<1>5. Abstract!Take
  BY <1>1, <1>3, TakeStep
<1> QED BY <1>1, <1>3, <1>4, <1>5 DEF TailHolds

\* Who closes it, or dies between two calls, drops it.
LEMMA CloseDrops ==
    ASSUME IInv, TailHolds, Close \/ Crash PROVE TailHolds' /\ Abstract!Drop
<1>1. open /\ open' = FALSE /\ UNCHANGED <<kind, lines, torn, exists>>
  BY DEF Close, Crash
<1>2. Abstract!Drop
  BY <1>1, DropStep
<1> QED BY <1>1, <1>2 DEF TailHolds

LEMMA SealDropsOrStutters ==
    ASSUME IInv, TailHolds, NEW dies \in BOOLEAN, SealLedger(dies)
    PROVE  TailHolds' /\ (Abstract!Drop \/ UNCHANGED Abstract!ledgerVars)
<1>1. /\ open /\ UNCHANGED <<kind, exists, lines, torn>>
      /\ \/ open' = FALSE
         \/ open' = open /\ mem' = [mem EXCEPT !.sealed = TRUE]
  BY DEF SealLedger
<1>2. CASE open' = FALSE
  <2>1. Abstract!Drop
    BY <1>1, <1>2, DropStep
  <2> QED BY <1>1, <1>2, <2>1 DEF TailHolds
<1>3. CASE open' = open /\ mem' = [mem EXCEPT !.sealed = TRUE]
  <2>1. /\ mem'.sequence = mem.sequence /\ mem'.previous = mem.previous
        /\ mem'.started = mem.started /\ mem'.finished = mem.finished /\ mem'.keys = mem.keys
    BY <1>3 DEF IInv, MemoryHolds
  <2>2. UNCHANGED Abstract!ledgerVars
    BY <1>1, <1>3, <2>1, StutterStep
  <2>3. Verifies' <=> Verifies
    BY <1>1, SeenAlike
  <2>4. PreviousHash(Len(lines) + 1)' = PreviousHash(Len(lines) + 1)
    BY <1>1 DEF PreviousHash
  <2>5. KeysTell => KeysTell'
    BY <1>1, <2>1 DEF KeysTell
  <2> QED BY <1>1, <1>3, <2>1, <2>2, <2>3, <2>4, <2>5 DEF TailHolds
<1> QED BY <1>1, <1>2, <1>3

LEMMA NothingStutters ==
    ASSUME IInv, TailHolds, UNCHANGED vars
    PROVE  TailHolds' /\ UNCHANGED Abstract!ledgerVars
<1>1. UNCHANGED <<kind, exists, lines, torn, open, mem>>
  BY DEF vars
<1>2. UNCHANGED Abstract!ledgerVars
  BY <1>1, StutterStep
<1>3. Verifies' <=> Verifies
  BY <1>1, SeenAlike
<1>4. PreviousHash(Len(lines) + 1)' = PreviousHash(Len(lines) + 1)
  BY <1>1 DEF PreviousHash
<1>5. KeysTell' <=> KeysTell
  BY <1>1 DEF KeysTell
<1> QED BY <1>1, <1>2, <1>3, <1>4, <1>5 DEF TailHolds

\* A power loss takes the end of what a user sees, and breaks the ledger only if
\* it takes a record.
LEMMA PowerLossLoses ==
    ASSUME IInv, TailHolds, PowerLoss PROVE TailHolds' /\ Abstract!LoseTail
<1>1. exists /\ exists' = exists /\ open' = FALSE /\ kind' = kind
  BY DEF PowerLoss
<1>2. PICK n \in synced..Len(lines) :
          /\ lines' = SubSeq(lines, 1, n)
          /\ torn' \in IF n < Len(lines) THEN BOOLEAN ELSE {torn, FALSE}
  BY DEF PowerLoss
<1>3. n \in 0..Len(lines) /\ IsSequence(lines) /\ Len(lines) \in Nat /\ torn \in BOOLEAN
  BY FileIs DEF IInv, FileHolds
<1>4. /\ IsSequence(Intact) /\ IsSequence(Intact') /\ Begins(Intact', Intact)
      /\ (\A i \in DOMAIN lines : lines[i].ok) /\ Intact' = Intact => n = Len(lines)
  BY <1>2, <1>3, IntactShrinks
<1>5. Len(Intact') <= Len(Intact) /\ SubSeq(Intact, 1, Len(Intact')) = Intact'
  <2>1. ASSUME NEW g, NEW h, IsSequence(g), IsSequence(h), Begins(g, h)
        PROVE  Len(g) <= Len(h) /\ SubSeq(h, 1, Len(g)) = g
    BY <2>1, BeginsIs DEF Begins
  <2> QED BY <1>4, <2>1
<1>6. ASSUME Intact' = Intact, Verifies PROVE Verifies'
  <2>1. ~torn /\ \A i \in DOMAIN lines : lines[i].ok
    BY <1>6 DEF Verifies, Parses
  <2>2. n = Len(lines)
    BY <1>4, <1>6, <2>1
  <2>3. torn' = torn
    <3>1. torn = FALSE
      BY <1>3, <2>1
    <3>2. ~(n < Len(lines))
      BY <1>3, <2>2
    <3>3. torn' \in {torn, FALSE}
      BY <1>2, <3>2
    <3> QED BY <3>1, <3>3
  <2>4. lines' = lines
    <3>1. /\ IsSequence(SubSeq(lines, 1, n)) /\ Len(SubSeq(lines, 1, n)) = n
          /\ \A k \in 1..n : SubSeq(lines, 1, n)[k] = lines[k]
      BY <1>3, PrefixIs
    <3> QED BY <1>2, <1>3, <2>2, <3>1, SequenceEqual
  <2> QED BY <1>1, <1>6, <2>3, <2>4, SeenAlike
<1>7. Abstract!LoseTail
  BY <1>1, <1>5, <1>6, LoseTailStep
<1> QED BY <1>1, <1>7 DEF TailHolds

\* A fragment breaks the ledger, and so does what is appended to one.
LEMMA FragmentTears ==
    ASSUME IInv, TailHolds, open, open' \in BOOLEAN, UNCHANGED <<kind, exists, lines>>, torn' = TRUE
    PROVE  TailHolds' /\ Abstract!Tear
<1>1. ~Verifies'
  BY DEF Verifies, Parses
<1>2. Intact' = Intact
  BY DEF Intact
<1>3. Abstract!Tear
  BY <1>1, <1>2, TearStep
<1>4. exists
  BY DEF IInv, FileHolds
<1> QED BY <1>1, <1>3, <1>4 DEF TailHolds

LEMMA GarbageTears ==
    ASSUME IInv, TailHolds, open, open' \in BOOLEAN, UNCHANGED <<kind, exists>>,
           lines' = Append(lines, Garbage)
    PROVE  TailHolds' /\ Abstract!Tear
<1>1. PICK x : x = Garbage
  OBVIOUS
<1>2. Writable(x) /\ x.ok = FALSE
  BY <1>1 DEF Garbage, Writable
<1>3. ~Verifies'
  <2>1. Len(lines) + 1 \in DOMAIN lines' /\ lines'[Len(lines) + 1] = x
    BY <1>1, <1>2, LinesGrow, FileIs
  <2> QED BY <1>2, <2>1 DEF Verifies, Parses
<1>4. Intact' = Intact
  BY <1>1, <1>2, IntactGrows
<1>5. Abstract!Tear
  BY <1>3, <1>4, TearStep
<1>6. exists
  BY DEF IInv, FileHolds
<1> QED BY <1>3, <1>5, <1>6 DEF TailHolds

\* A whole record on a whole file is a record more, of a broken ledger if the
\* writer's tail was not the file's; if the append fails its tail is not.
LEMMA RecordWrites ==
    ASSUME IInv, TailHolds, open, ~torn, torn' = FALSE, open' = TRUE, UNCHANGED <<kind, exists>>,
           NEW event \in Events(kind), NEW id \in Ids, NEW ref, NEW learned, Learns(learned),
           NEW r, r = NewRecord(event, id, ref), lines' = Append(lines, r),
           KeysTell => Fresh(event, id, ref) /\ LearnsAll(event, id, RecordHash(r), learned),
           \/ mem' = [learned EXCEPT !.sequence = @ + 1, !.previous = RecordHash(r)]
           \/ mem' = mem
    PROVE  TailHolds' /\ Abstract!Write
<1>1. r.ok = TRUE /\ r.event = event /\ r.id = id /\ r.prev = mem.previous
  BY DEF NewRecord
<1>2. Writable(r)
  BY <1>1 DEF Writable, IInv, MemoryHolds
<1>3. PICK n \in Nat : n = Len(lines)
  BY FileIs
<1>4. Len(lines') = n + 1 /\ mem.sequence \in Nat /\ mem.sequence <= n
  BY <1>2, <1>3, LinesGrow DEF IInv, MemoryHolds
<1>5. Intact' = Append(Intact, r) /\ IsSequence(Intact)
  BY <1>1, <1>2, IntactGrows, IntactIs
<1>6. Len(Intact') = Len(Intact) + 1 /\ SubSeq(Intact', 1, Len(Intact)) = Intact
  <2>1. ASSUME NEW s, NEW t, IsSequence(s), t = Append(s, r)
        PROVE  Len(t) = Len(s) + 1 /\ SubSeq(t, 1, Len(s)) = s
    <3>1. /\ IsSequence(t) /\ Len(t) = Len(s) + 1 /\ \A k \in 1..Len(s) : t[k] = s[k]
      BY <2>1, AppendIs
    <3>2. Begins(s, t)
      BY <2>1, <3>1, SequenceIs DEF Begins
    <3> QED BY <2>1, <3>1, <3>2, BeginsIs
  <2> QED BY <1>5, <2>1
<1>7. /\ Verifies' <=> Verifies /\ mem.sequence = Len(lines)
      /\ Verifies' => /\ PreviousHash(Len(lines) + 1)' = RecordHash(r)
                      /\ KeysTell /\ LearnsAll(event, id, RecordHash(r), learned)
  BY RecordVerifies
<1>8. exists
  BY DEF IInv, FileHolds
<1>9. CASE mem' = [learned EXCEPT !.sequence = @ + 1, !.previous = RecordHash(r)]
  <2>1. /\ mem'.sequence = mem.sequence + 1 /\ mem'.previous = RecordHash(r)
        /\ mem'.started = learned.started /\ mem'.finished = learned.finished
        /\ mem'.keys = learned.keys
    BY <1>9 DEF Learns
  <2>2. mem'.sequence = Len(lines') <=> mem.sequence = Len(lines)
    BY <1>3, <1>4, <2>1
  <2>3. Abstract!Write
    BY <1>6, <1>7, <2>2, WriteStep
  <2>4. Verifies' => KeysTell'
    BY <1>1, <1>2, <1>7, <2>1, KeysGrow
  <2> QED BY <1>7, <1>8, <2>1, <2>3, <2>4 DEF TailHolds
<1>10. CASE mem' = mem
  <2>1. mem'.sequence # Len(lines')
    BY <1>4, <1>10
  <2>2. Abstract!Write
    BY <1>6, <1>7, <2>1, WriteStep
  <2> QED BY <1>8, <2>1, <2>2 DEF TailHolds
<1> QED BY <1>9, <1>10

LEMMA AppendsWriteOrTear ==
    ASSUME IInv, TailHolds, NEW id \in Ids, NEW out \in Outcomes,
           AppendStarted(id, out) \/ AppendFinished(id, out) \/ AppendRow(id, out)
    PROVE  TailHolds' /\ (Abstract!Write \/ Abstract!Tear)
<1>1. PICK event \in Events(kind) : \E ref, learned : Appends(event, id, ref, out, learned)
  BY AppendStartedAppends, AppendFinishedAppends, AppendRowAppends
<1>2. PICK ref, learned : Appends(event, id, ref, out, learned)
  BY <1>1
<1>3. PICK r : r = NewRecord(event, id, ref)
  OBVIOUS
<1>4. /\ Learns(learned) /\ AppendLine(event, id, ref, out, learned)
      /\ KeysTell => Fresh(event, id, ref) /\ LearnsAll(event, id, RecordHash(r), learned)
  BY <1>2, <1>3 DEF Appends
<1>5. /\ open /\ WriteLine(r, out) /\ UNCHANGED <<kind, exists>>
      /\ mem' = CASE out = "ok" -> [learned EXCEPT !.sequence = @ + 1,
                                                   !.previous = RecordHash(r)]
                  [] out = "torn" -> NoMemory
                  [] OTHER -> mem
  BY <1>3, <1>4 DEF AppendLine, NewRecord
<1>6. CASE out \in {"ok", "fsync"}
  <2>1. /\ lines' = Append(lines, IF torn THEN Garbage ELSE r) /\ torn' = FALSE /\ open' = TRUE
    BY <1>5, <1>6 DEF WriteLine
  <2>2. \/ mem' = [learned EXCEPT !.sequence = @ + 1, !.previous = RecordHash(r)]
        \/ mem' = mem
    BY <1>5, <1>6
  <2>3. CASE torn
    BY <1>5, <2>1, <2>3, GarbageTears
  <2>4. CASE ~torn
    <3>1. lines' = Append(lines, r)
      BY <2>1, <2>4
    <3> QED BY <1>3, <1>4, <1>5, <2>1, <2>2, <2>4, <3>1, RecordWrites
  <2> QED BY <2>3, <2>4
<1>7. CASE out \in {"short", "torn"}
  <2>1. lines' = lines /\ torn' = TRUE /\ open' \in BOOLEAN
    BY <1>5, <1>7 DEF WriteLine
  <2> QED BY <1>5, <2>1, FragmentTears
<1> QED BY <1>6, <1>7 DEF Outcomes

LEMMA RefinementInit == Init => TailHolds /\ Abstract!Init
<1> SUFFICES ASSUME Init PROVE TailHolds /\ Abstract!Init
  OBVIOUS
<1>1. exists = FALSE /\ lines = <<>> /\ torn = FALSE /\ open = FALSE
  BY DEF Init
<1>2. IsSequence(lines) /\ Len(lines) = 0 /\ DOMAIN lines = {}
  BY <1>1, EmptyIs
<1>3. Intact = <<>>
  <2>1. PICK f : Collects(f, lines, Len(lines)) /\ IntactOf(lines) = f[Len(lines)]
    BY <1>2, IntactCollects
  <2> QED BY <1>2, <2>1 DEF Collects, Intact
<1>4. Verifies
  BY <1>1, <1>2 DEF Verifies, Parses, ChainHolds, ReferencesHold
<1> QED BY <1>1, <1>3, <1>4 DEF TailHolds, Abstract!Init

LEMMA RefinementStep ==
    IInv /\ TailHolds /\ [Next]_vars => TailHolds' /\ [Abstract!Next]_(Abstract!ledgerVars)
<1> SUFFICES ASSUME IInv, TailHolds, [Next]_vars
             PROVE  TailHolds' /\ [Abstract!Next]_(Abstract!ledgerVars)
  OBVIOUS
<1>1. CASE Create
  BY <1>1, CreateTakes DEF Abstract!Next
<1>2. CASE Resume
  BY <1>2, ResumeTakes DEF Abstract!Next
<1>3. CASE Close \/ Crash
  BY <1>3, CloseDrops DEF Abstract!Next
<1>4. CASE PowerLoss
  BY <1>4, PowerLossLoses DEF Abstract!Next
<1>5. ASSUME NEW id \in Ids, NEW out \in Outcomes,
             AppendStarted(id, out) \/ AppendFinished(id, out) \/ AppendRow(id, out)
      PROVE  TailHolds' /\ [Abstract!Next]_(Abstract!ledgerVars)
  BY <1>5, AppendsWriteOrTear DEF Abstract!Next
<1>6. ASSUME NEW dies \in BOOLEAN, SealLedger(dies)
      PROVE  TailHolds' /\ [Abstract!Next]_(Abstract!ledgerVars)
  BY <1>6, SealDropsOrStutters DEF Abstract!Next
<1>7. CASE UNCHANGED vars
  BY <1>7, NothingStutters
<1> QED BY <1>1, <1>2, <1>3, <1>4, <1>5, <1>6, <1>7 DEF Next

\* Lines, hashes, syncs and fragments amount to the ledger CAPRun composes: it
\* loses only an unsynced end, is taken only when it verifies, and is broken only
\* by a part of a record or by a writer whose append had failed.  (Whatever the
\* number of lines, failed writes, crashes and power losses.)
THEOREM RefinesDurableLedger == Spec => ImplementsDurableLedger
<1>1. Spec => [](IInv /\ TailHolds)
  <2>1. Init => IInv /\ TailHolds
    BY InvariantInit, RefinementInit
  <2>2. IInv /\ TailHolds /\ [Next]_vars => (IInv /\ TailHolds)'
    BY InvariantStep, RefinementStep
  <2> QED BY <2>1, <2>2, PTL DEF Spec
<1>2. Init => Abstract!Init
  BY RefinementInit
<1>3. IInv /\ TailHolds /\ [Next]_vars => [Abstract!Next]_(Abstract!ledgerVars)
  BY RefinementStep
<1> QED BY <1>1, <1>2, <1>3, PTL DEF Spec, ImplementsDurableLedger, Abstract!Spec
=============================================================================
