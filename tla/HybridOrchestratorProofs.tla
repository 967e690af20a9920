---------------------- MODULE HybridOrchestratorProofs ----------------------
(***************************************************************************)
(* Machine-checked proofs about the agent panel, for every ranking of      *)
(* candidates, every set of keys, requests and answers and every number of *)
(* retries.                                                                *)
(*                                                                         *)
(* The first part is about sums over finite sets, as MapThenSumSet defines *)
(* them: one that is nonzero at one place only, and one of integers.       *)
(***************************************************************************)
EXTENDS HybridOrchestrator, TLAPS, FiniteSetTheorems

-----------------------------------------------------------------------------
(* Sums over finite sets *)

Pick(s) == CHOOSE x \in s : TRUE

\* h is the recursive function behind MapThenSumSet, on the sets in D.
Adds(h, v, D) ==
    h = [s \in D |-> IF s = {} THEN 0 ELSE v[Pick(s)] + h[s \ {Pick(s)}]]

\* A set of subsets of a finite set has a least member under inclusion.
LEMMA MinimalSubset ==
    ASSUME NEW S, IsFiniteSet(S), NEW B \in SUBSET (SUBSET S), B # {}
    PROVE  \E s \in B : \A t \in B : t \subseteq s => t = s
<1>1. B \subseteq FiniteSubsetsOf(S)
  BY FS_FiniteSubsetsOfFinite
<1>2. IsWellFoundedOn(StrictSubsetOrdering(S), FiniteSubsetsOf(S))
  BY FS_StrictSubsetOrderingWellFounded
<1>3. PICK s \in B : \A t \in B : ~(<<t, s>> \in StrictSubsetOrdering(S))
  BY <1>1, <1>2, WFMin, Zenon
<1>4. ASSUME NEW t \in B, t \subseteq s PROVE t = s
  <2>1. t # s => <<t, s>> \in StrictSubsetOrdering(S)
    BY <1>4 DEF StrictSubsetOrdering
  <2> QED BY <1>3, <2>1
<1> QED BY <1>4

\* Induction over the subsets of a finite set, as a statement about a set G.
LEMMA SubsetInduction ==
    ASSUME NEW S, IsFiniteSet(S), NEW G,
           \A s \in SUBSET S : (\A t \in SUBSET s : t # s => t \in G) => s \in G
    PROVE  S \in G
<1> DEFINE Bad == (SUBSET S) \ G
<1>1. SUFFICES ASSUME Bad # {} PROVE FALSE
  OBVIOUS
<1>2. PICK s \in Bad : \A t \in Bad : t \subseteq s => t = s
  <2>1. Bad \in SUBSET (SUBSET S)
    OBVIOUS
  <2> HIDE DEF Bad
  <2> QED BY <1>1, <2>1, MinimalSubset
<1>3. \A t \in SUBSET s : t # s => t \in G
  BY <1>2
<1> QED BY <1>2, <1>3

\* Induction over the naturals, as a statement about a set G.
LEMMA CountingUp ==
    ASSUME NEW G, 0 \in G, \A n \in Nat : n \in G => n + 1 \in G
    PROVE  \A n \in Nat : n \in G
<1> DEFINE Bad == Nat \ G
<1>1. SUFFICES ASSUME Bad # {} PROVE FALSE
  OBVIOUS
<1>2. PICK n \in Bad : \A m \in Bad : ~(<<m, n>> \in OpToRel(<, Nat))
  <2>1. Bad \subseteq Nat
    OBVIOUS
  <2> HIDE DEF Bad
  <2> QED BY <1>1, <2>1, NatLessThanWellFounded, WFMin, Zenon
<1>3. \A m \in Nat : m < n => m \in G
  BY <1>2 DEF OpToRel
<1>4. n # 0 /\ n - 1 \in Nat /\ n - 1 < n /\ (n - 1) + 1 = n
  <2>1. n \in Nat /\ n # 0
    OBVIOUS
  <2> QED BY <2>1
<1>5. n - 1 \in G
  BY <1>3, <1>4
<1> QED BY <1>4, <1>5

\* The element a fold takes next.
LEMMA PickIn == ASSUME NEW s, s # {} PROVE Pick(s) \in s
BY DEF Pick

\* The recursive function behind a sum exists on the subsets of a finite set.
LEMMA SumExists ==
    ASSUME NEW S, IsFiniteSet(S), NEW v
    PROVE  \E h : Adds(h, v, SUBSET S)
<1> DEFINE Small(n) == {t \in SUBSET S : Cardinality(t) <= n}
           G == {n \in Nat : \E h : Adds(h, v, Small(n))}
<1>1. \A t \in SUBSET S : IsFiniteSet(t) /\ Cardinality(t) \in Nat /\ Cardinality(t) <= Cardinality(S)
  BY FS_Subset, FS_CardinalityType
<1>2. \A t \in SUBSET S : t # {} =>
          t \ {Pick(t)} \in SUBSET S /\ Cardinality(t \ {Pick(t)}) = Cardinality(t) - 1
  BY <1>1, PickIn, FS_RemoveElement
<1>3. 0 \in G
  <2> DEFINE h == [t \in Small(0) |-> 0]
  <2>1. \A t \in Small(0) : t = {}
    BY <1>1, FS_EmptySet
  <2>2. Adds(h, v, Small(0))
    BY <2>1 DEF Adds
  <2> QED BY <2>2
<1>4. ASSUME NEW n \in Nat, n \in G PROVE n + 1 \in G
  <2>1. PICK h : Adds(h, v, Small(n))
    BY <1>4
  <2> DEFINE g == [t \in Small(n + 1) |-> IF t = {} THEN 0 ELSE v[Pick(t)] + h[t \ {Pick(t)}]]
  <2>2. \A t \in Small(n + 1) : t # {} => t \ {Pick(t)} \in Small(n)
    BY <1>1, <1>2
  <2>3. \A t \in Small(n) : t \in Small(n + 1) /\ g[t] = h[t]
    <3> SUFFICES ASSUME NEW t \in Small(n) PROVE t \in Small(n + 1) /\ g[t] = h[t]
      OBVIOUS
    <3>1. t \in Small(n + 1)
      BY <1>1
    <3>2. h[t] = IF t = {} THEN 0 ELSE v[Pick(t)] + h[t \ {Pick(t)}]
      <4> HIDE DEF Small
      <4> QED BY <2>1 DEF Adds
    <3> QED BY <3>1, <3>2
  <2>4. Adds(g, v, Small(n + 1))
    <3>1. \A t \in Small(n + 1) : t # {} => g[t \ {Pick(t)}] = h[t \ {Pick(t)}]
      <4> HIDE DEF g, Small
      <4> QED BY <2>2, <2>3
    <3>2. g = [t \in Small(n + 1) |-> IF t = {} THEN 0 ELSE v[Pick(t)] + g[t \ {Pick(t)}]]
      <4> HIDE DEF Small
      <4> QED BY <3>1
    <3> HIDE DEF g, Small
    <3> QED BY <3>2 DEF Adds
  <2> HIDE DEF g, Small
  <2> QED BY <2>4
<1>5. Cardinality(S) \in G
  <2> HIDE DEF G
  <2> QED BY <1>3, <1>4, CountingUp, FS_CardinalityType
<1>6. Small(Cardinality(S)) = SUBSET S
  BY <1>1
<1> HIDE DEF Small
<1> QED BY <1>5, <1>6

\* Two such functions agree on the whole set.
LEMMA SumUnique ==
    ASSUME NEW S, IsFiniteSet(S), NEW v, NEW h, NEW g,
           Adds(h, v, SUBSET S), Adds(g, v, SUBSET S)
    PROVE  h[S] = g[S]
<1> DEFINE G == {s \in SUBSET S : h[s] = g[s]}
<1>1. ASSUME NEW s \in SUBSET S, \A t \in SUBSET s : t # s => t \in G PROVE s \in G
  <2>1. /\ h[s] = IF s = {} THEN 0 ELSE v[Pick(s)] + h[s \ {Pick(s)}]
        /\ g[s] = IF s = {} THEN 0 ELSE v[Pick(s)] + g[s \ {Pick(s)}]
    BY DEF Adds
  <2>2. s # {} => s \ {Pick(s)} \in G
    BY <1>1, PickIn
  <2> QED BY <2>1, <2>2
<1>2. S \in G
  <2> HIDE DEF G
  <2> QED BY <1>1, SubsetInduction
<1> QED BY <1>2

\* A sum of integers is an integer.
LEMMA SumIsInt ==
    ASSUME NEW S, IsFiniteSet(S), NEW v \in [S -> Int], NEW h, Adds(h, v, SUBSET S)
    PROVE  h[S] \in Int
<1> DEFINE G == {s \in SUBSET S : h[s] \in Int}
<1>1. ASSUME NEW s \in SUBSET S, \A t \in SUBSET s : t # s => t \in G PROVE s \in G
  <2>1. h[s] = IF s = {} THEN 0 ELSE v[Pick(s)] + h[s \ {Pick(s)}]
    BY DEF Adds
  <2>2. s # {} => s \ {Pick(s)} \in G /\ v[Pick(s)] \in Int
    BY <1>1, PickIn
  <2> QED BY <2>1, <2>2
<1>2. S \in G
  <2> HIDE DEF G
  <2> QED BY <1>1, SubsetInduction
<1> QED BY <1>2

SumProducts(w, u, S) == MapThenSumSet(LAMBDA m : w[m] * u[m], S)

SumColumn(e, m, S) == MapThenSumSet(LAMBDA k : e[k][m], S)

\* What a sum over S is, given any function that adds up along the subsets.
LEMMA SumOfProducts ==
    ASSUME NEW S, IsFiniteSet(S), NEW w, NEW u, NEW g,
           Adds(g, [m \in S |-> w[m] * u[m]], SUBSET S)
    PROVE  SumProducts(w, u, S) = g[S]
<1> DEFINE v == [m \in S |-> w[m] * u[m]]
           P(h) == h = [s \in SUBSET S |-> IF s = {} THEN 0
                                           ELSE w[Pick(s)] * u[Pick(s)] + h[s \ {Pick(s)}]]
<1>1. SumProducts(w, u, S) = (CHOOSE h : P(h))[S]
  BY DEF SumProducts, MapThenSumSet, MapThenFoldSet, Pick
<1>2. ASSUME NEW h PROVE P(h) <=> Adds(h, v, SUBSET S)
  <2>1. \A s \in SUBSET S : s # {} => v[Pick(s)] = w[Pick(s)] * u[Pick(s)]
    BY PickIn
  <2>2. [s \in SUBSET S |-> IF s = {} THEN 0 ELSE w[Pick(s)] * u[Pick(s)] + h[s \ {Pick(s)}]]
        = [s \in SUBSET S |-> IF s = {} THEN 0 ELSE v[Pick(s)] + h[s \ {Pick(s)}]]
    <3> HIDE DEF v
    <3> QED BY <2>1
  <2> HIDE DEF v
  <2> QED BY <2>2 DEF Adds
<1>3. P(CHOOSE h : P(h))
  <2>1. P(g)
    BY <1>2
  <2> HIDE DEF P
  <2> QED BY <2>1
<1>4. (CHOOSE h : P(h))[S] = g[S]
  <2> HIDE DEF P, v
  <2>1. Adds(CHOOSE h : P(h), v, SUBSET S)
    BY <1>2, <1>3
  <2>2. Adds(g, v, SUBSET S)
    BY DEF v
  <2> QED BY <2>1, <2>2, SumUnique
<1> QED BY <1>1, <1>4

\* A sum over one column of a table of integers is an integer.
LEMMA SumOfFunction ==
    ASSUME NEW S, IsFiniteSet(S), NEW e, NEW m, \A k \in S : e[k][m] \in Int
    PROVE  SumColumn(e, m, S) \in Int
<1> DEFINE v == [k \in S |-> e[k][m]]
           P(h) == h = [s \in SUBSET S |-> IF s = {} THEN 0
                                           ELSE e[Pick(s)][m] + h[s \ {Pick(s)}]]
<1>1. SumColumn(e, m, S) = (CHOOSE h : P(h))[S]
  BY DEF SumColumn, MapThenSumSet, MapThenFoldSet, Pick
<1>2. ASSUME NEW h PROVE P(h) <=> Adds(h, v, SUBSET S)
  <2>1. \A s \in SUBSET S : s # {} => v[Pick(s)] = e[Pick(s)][m]
    BY PickIn
  <2>2. [s \in SUBSET S |-> IF s = {} THEN 0 ELSE e[Pick(s)][m] + h[s \ {Pick(s)}]]
        = [s \in SUBSET S |-> IF s = {} THEN 0 ELSE v[Pick(s)] + h[s \ {Pick(s)}]]
    <3> HIDE DEF v
    <3> QED BY <2>1
  <2> HIDE DEF v
  <2> QED BY <2>2 DEF Adds
<1>3. P(CHOOSE h : P(h))
  <2>1. PICK g : Adds(g, v, SUBSET S)
    BY SumExists
  <2>2. P(g)
    BY <1>2, <2>1
  <2> HIDE DEF P
  <2> QED BY <2>2
<1>4. v \in [S -> Int]
  OBVIOUS
<1>5. (CHOOSE h : P(h))[S] \in Int
  <2> HIDE DEF P, v
  <2> QED BY <1>2, <1>3, <1>4, SumIsInt
<1> QED BY <1>1, <1>5

\* All the weight on one candidate: the sum is that candidate's.
LEMMA SumOfOneHot ==
    ASSUME NEW S, IsFiniteSet(S), NEW u \in [S -> Int], NEW c \in Int, NEW b \in S,
           NEW w, \A n \in S : w[n] = IF n = b THEN c ELSE 0
    PROVE  SumProducts(w, u, S) = c * u[b]
<1> DEFINE v == [m \in S |-> w[m] * u[m]]
           g == [s \in SUBSET S |-> IF b \in s THEN c * u[b] ELSE 0]
<1>1. c * u[b] \in Int /\ c * u[b] + 0 = c * u[b] /\ 0 + c * u[b] = c * u[b] /\ 0 + 0 = 0
  OBVIOUS
<1>2. \A m \in S : v[m] = IF m = b THEN c * u[b] ELSE 0
  OBVIOUS
<1>3. ASSUME NEW s \in SUBSET S
      PROVE  g[s] = IF s = {} THEN 0 ELSE v[Pick(s)] + g[s \ {Pick(s)}]
  <2>1. CASE s = {}
    BY <2>1
  <2>2. CASE s # {}
    <3>1. Pick(s) \in s /\ s \ {Pick(s)} \in SUBSET S
      BY <2>2, PickIn
    <3>2. b \in s \ {Pick(s)} <=> b \in s /\ b # Pick(s)
      OBVIOUS
    <3>3. g[s \ {Pick(s)}] = IF b \in s /\ b # Pick(s) THEN c * u[b] ELSE 0
      BY <3>1, <3>2
    <3>4. v[Pick(s)] = IF Pick(s) = b THEN c * u[b] ELSE 0
      <4> HIDE DEF v
      <4> QED BY <1>2, <3>1
    <3>5. g[s] = IF b \in s THEN c * u[b] ELSE 0
      OBVIOUS
    <3> HIDE DEF g, v
    <3> QED BY <1>1, <2>2, <3>1, <3>3, <3>4, <3>5
  <2> QED BY <2>1, <2>2
<1>4. Adds(g, v, SUBSET S)
  <2>1. g = [s \in SUBSET S |-> g[s]]
    OBVIOUS
  <2> HIDE DEF g, v
  <2> QED BY <1>3, <2>1 DEF Adds
<1>5. g[S] = c * u[b]
  OBVIOUS
<1>6. SumProducts(w, u, S) = g[S]
  <2> HIDE DEF g
  <2> QED BY <1>4, SumOfProducts
<1> QED BY <1>5, <1>6

\* A nonempty range of places has one with the least value.
LEMMA LeastExists ==
    ASSUME NEW n \in Nat \ {0}, NEW F \in [1..n -> Int]
    PROVE  \E i \in 1..n : \A j \in 1..n : F[i] <= F[j]
<1> DEFINE G == {m \in Nat : m \in 1..n => \E i \in 1..m : \A j \in 1..m : F[i] <= F[j]}
<1>1. 0 \in G
  OBVIOUS
<1>2. ASSUME NEW m \in Nat, m \in G PROVE m + 1 \in G
  <2> SUFFICES ASSUME m + 1 \in 1..n
               PROVE  \E i \in 1..(m + 1) : \A j \in 1..(m + 1) : F[i] <= F[j]
    OBVIOUS
  <2>0. F[m + 1] \in Int
    OBVIOUS
  <2>1. CASE m = 0
    BY <2>0, <2>1
  <2>2. CASE m # 0
    <3>1. PICK i \in 1..m : \A j \in 1..m : F[i] <= F[j]
      BY <1>2, <2>2
    <3>2. \A j \in 1..m : F[j] \in Int /\ j \in 1..(m + 1)
      OBVIOUS
    <3>3. \A j \in 1..(m + 1) : j \in 1..m \/ j = m + 1
      OBVIOUS
    <3>4. CASE F[i] <= F[m + 1]
      <4>1. \A j \in 1..(m + 1) : F[i] <= F[j]
        BY <3>1, <3>3, <3>4
      <4> QED BY <3>2, <4>1
    <3>5. CASE F[m + 1] <= F[i]
      <4>1. \A j \in 1..(m + 1) : F[m + 1] <= F[j]
        BY <2>0, <3>1, <3>2, <3>3, <3>5
      <4> QED BY <4>1
    <3> QED BY <2>0, <3>2, <3>4, <3>5
  <2> QED BY <2>1, <2>2
<1>3. n \in G
  <2> HIDE DEF G
  <2> QED BY <1>1, <1>2, CountingUp
<1> QED BY <1>3

\* Min of a nonempty set of naturals is one of them.
LEMMA MinIsLeast ==
    ASSUME NEW S \in SUBSET Nat, S # {}
    PROVE  Min(S) \in S
<1>1. PICK x \in S : \A y \in S : ~(<<y, x>> \in OpToRel(<, Nat))
  BY NatLessThanWellFounded, WFMin, Zenon
<1>2. \A y \in S : ~(y < x)
  BY <1>1 DEF OpToRel
<1>3. \A y \in S : x <= y
  BY <1>2
<1> QED BY <1>3 DEF Min

-----------------------------------------------------------------------------
(* The fallback *)

USE HybridAssumption

\* There are as many candidates as the ranking has places, at most.
LEMMA ModelsFinite == IsFiniteSet(Models)
<1>1. PICK n \in Nat \ {0} : DOMAIN Ranking = 1..n
  OBVIOUS
<1> DEFINE f == [i \in 1..n |-> Ranking[i]]
<1>2. f \in Surjection(1..n, Models)
  BY <1>1 DEF Models, Surjection
<1>3. IsFiniteSet(1..n)
  BY FS_Interval
<1> QED BY <1>2, <1>3, FS_Surjection

\* What from_mapping lets through.
LEMMA RequestType ==
    ASSUME request \in Requests
    PROVE  /\ \A k \in Keys : request.forecast[k] \in [Models -> Int]
           /\ \A k \in Keys, m \in Models : request.error[k][m] \in Int
           /\ request.disagreement \in Nat /\ request.ood \in Nat
OBVIOUS

\* The error a candidate is ranked by is an integer.
LEMMA MacroErrorType ==
    ASSUME request \in Requests, NEW m \in Models
    PROVE  MacroError(m) \in Int
<1>1. \A k \in Keys : request.error[k][m] \in Int
  BY RequestType
<1>2. MacroError(m) = SumColumn(request.error, m, Keys)
  BY DEF MacroError, SumColumn
<1> QED BY <1>1, <1>2, SumOfFunction

\* fallback_weights picks one candidate no other beats in training, and
\* convex_fuse returns that candidate's forecast.
LEMMA FallbackIsBest ==
    ASSUME request \in Requests
    PROVE  \E b \in Models :
              /\ \A m \in Models : MacroError(b) <= MacroError(m)
              /\ \A k \in Keys : Fused(FallbackWeights)[k] = One * request.forecast[k][b]
<1>1. PICK n \in Nat \ {0} : DOMAIN Ranking = 1..n
  OBVIOUS
<1> DEFINE F == [i \in 1..n |-> MacroError(Ranking[i])]
           best == {i \in DOMAIN Ranking :
                       \A j \in DOMAIN Ranking : MacroError(Ranking[i]) <= MacroError(Ranking[j])}
           b == Ranking[Min(best)]
<1>2. F \in [1..n -> Int]
  BY <1>1, MacroErrorType DEF Models
<1>3. best # {} /\ best \in SUBSET Nat
  <2>1. PICK i \in 1..n : \A j \in 1..n : F[i] <= F[j]
    <3> HIDE DEF F
    <3> QED BY <1>2, LeastExists
  <2>2. \A j \in 1..n : F[j] = MacroError(Ranking[j])
    OBVIOUS
  <2>3. i \in best
    <3> HIDE DEF F
    <3> QED BY <1>1, <2>1, <2>2
  <2>4. \A j \in best : j \in Nat
    BY <1>1
  <2> HIDE DEF best
  <2> QED BY <2>3, <2>4
<1>4. Min(best) \in best
  <2> HIDE DEF best
  <2> QED BY <1>3, MinIsLeast
<1>5. b \in Models /\ \A m \in Models : MacroError(b) <= MacroError(m)
  BY <1>4 DEF Models
<1>6. FallbackWeights = [m \in Models |-> IF m = b THEN One ELSE 0]
  BY DEF FallbackWeights
<1>7. ASSUME NEW k \in Keys PROVE Fused(FallbackWeights)[k] = One * request.forecast[k][b]
  <2> HIDE DEF b
  <2>1. Fused(FallbackWeights)[k] = SumProducts(FallbackWeights, request.forecast[k], Models)
    <3>1. Fused(FallbackWeights)
          = [j \in Keys |-> SumProducts(FallbackWeights, request.forecast[j], Models)]
      BY DEF Fused, SumProducts
    <3> QED BY <3>1
  <2>2. request.forecast[k] \in [Models -> Int] /\ One \in Int
    BY RequestType
  <2>3. SumProducts(FallbackWeights, request.forecast[k], Models) = One * request.forecast[k][b]
    <3>1. \A u \in [Models -> Int] : SumProducts(FallbackWeights, u, Models) = One * u[b]
      <4> HIDE HybridAssumption
      <4> QED BY <1>5, <1>6, <2>2, ModelsFinite, SumOfOneHot, SMTT(40)
    <3> QED BY <2>2, <3>1
  <2> QED BY <2>1, <2>3
<1> QED BY <1>5, <1>7

-----------------------------------------------------------------------------
(* The inductive invariant *)

KindNames ==
    Retryable \cup Raising
        \cup {"cli_failure", "invalid_json", "preview", "invalid_preview",
              "missing_content", "invalid_content", "not_mapping", "answer"}

Records == [status : Statuses \cup {"none"}, error : KindNames \cup {"none", "schema"}]

CallStates ==
    [at : {"idle", "asking", "closed", "raised"}, sees : Seq(Decisions), heard : Seq(KindNames),
     record : Records, decision : Decisions]

\* What _call and invoke leave behind.
Sound(c) ==
    /\ c.at = "idle" => c = Idle
    /\ c.at \in {"asking", "raised"} => c.record = NoRecord /\ c.decision = NoDecision
    /\ c.at = "closed" => c.record.status \in Statuses
    /\ c.decision # NoDecision => c.record.status = "OK"
    /\ Len(c.heard) <= Attempts
    /\ \A i \in 1..(Len(c.heard) - 1) : c.heard[i] \in Retryable
    /\ c.at = "asking" =>
          /\ Len(c.heard) < Attempts
          /\ \A i \in 1..Len(c.heard) : c.heard[i] \in Retryable

Accepted(r) == call[r].at = "closed" /\ ~Failed(r)

\* Who has been asked, and what the judge was shown, wherever run stands.
RunHolds ==
    /\ at = "run" => \A r \in Roles : call[r] = Idle
    /\ at = "analyst" =>
          /\ topology = "fixed_hierarchy"
          /\ call[Analyst].at # "idle" /\ call[Critic] = Idle /\ call[Judge] = Idle
    /\ at = "critic" =>
          /\ topology = "fixed_hierarchy"
          /\ Accepted(Analyst) /\ call[Critic].at # "idle" /\ call[Judge] = Idle
    /\ at = "pool" =>
          /\ topology = "parallel_debate"
          /\ call[Analyst].at # "idle" /\ call[Critic].at # "idle" /\ call[Judge] = Idle
    /\ at = "judge" =>
          /\ call[Judge].at # "idle"
          /\ IF topology \in {"fixed_hierarchy", "parallel_debate"}
             THEN Accepted(Analyst) /\ Accepted(Critic) /\ call[Judge].sees = Both
             ELSE call[Analyst] = Idle /\ call[Critic] = Idle /\ call[Judge].sees = <<>>
    /\ at # "returned" => result = NoResult
    /\ at = "returned" => result.status \in {"OK", "FALLBACK", "NUMERIC_ONLY"}

PanelTypeOK ==
    /\ request \in Requests /\ topology \in Topologies /\ mode \in Modes
    /\ at \in {"run", "analyst", "critic", "pool", "judge", "returned", "raised"}
    /\ call \in [Roles -> CallStates]

ResultHolds == ResultIsEarned /\ CallsAreAccounted /\ NothingOutlivesTheRun

IInv == PanelTypeOK /\ (\A r \in Roles : Sound(call[r])) /\ RunHolds /\ ResultHolds

LEMMA NoDecisionType == NoDecision \in Decisions
BY DEF Decisions

LEMMA IdleType == Idle \in CallStates /\ Idle.decision = NoDecision
<1>1. NoRecord \in Records
  BY DEF NoRecord, Records
<1>2. <<>> \in Seq(Decisions) /\ <<>> \in Seq(KindNames)
  OBVIOUS
<1> HIDE HybridAssumption
<1> QED BY <1>1, <1>2, NoDecisionType DEF CallStates, Idle

LEMMA AttemptsType == Attempts \in Nat /\ Attempts >= 1
BY DEF Attempts

LEMMA RoleNames == Roles = {Analyst, Critic, Judge} /\ Analyst # Critic /\ Critic # Judge /\ Analyst # Judge
BY DEF Roles, Analyst, Critic, Judge

LEMMA IdleSound == Sound(Idle)
<1>1. Len(Idle.heard) = 0 /\ Idle.at = "idle" /\ Idle.decision = NoDecision
  BY DEF Idle
<1> QED BY <1>1, AttemptsType DEF Sound

LEMMA PanelInit == Init => IInv
<1> SUFFICES ASSUME Init PROVE IInv
  OBVIOUS
<1>1. PanelTypeOK
  BY IdleType DEF Init, PanelTypeOK
<1>2. \A r \in Roles : call[r] = Idle /\ Sound(call[r])
  BY IdleSound DEF Init
<1>3. result = NoResult /\ result.status = "none" /\ at = "run"
  BY DEF Init, NoResult
<1>4. ResultHolds
  <2>1. ResultIsEarned
    BY <1>3 DEF ResultIsEarned
  <2>2. \A r \in Roles : Len(call[r].heard) = 0
    BY <1>2 DEF Idle
  <2>3. CallsAreAccounted
    BY <1>3, <2>2, AttemptsType DEF CallsAreAccounted
  <2>4. NothingOutlivesTheRun
    BY <1>2 DEF NothingOutlivesTheRun, Idle
  <2> QED BY <2>1, <2>3, <2>4 DEF ResultHolds
<1> QED BY <1>1, <1>2, <1>3, <1>4 DEF IInv, RunHolds

-----------------------------------------------------------------------------
(* The adapter *)

\* What one attempt may make of a call that is asking.
Answered(r, c) ==
    /\ c \in CallStates /\ Sound(c) /\ c.at # "idle" /\ c.sees = call[r].sees
    /\ call' = [call EXCEPT ![r] = c]

\* One more attempt in what a call has heard.
LEMMA HeardGrows ==
    ASSUME NEW s \in Seq(KindNames), NEW kind \in KindNames, Len(s) < Attempts,
           \A i \in 1..Len(s) : s[i] \in Retryable
    PROVE  /\ Append(s, kind) \in Seq(KindNames) /\ Len(Append(s, kind)) = Len(s) + 1
           /\ Len(Append(s, kind)) <= Attempts
           /\ \A i \in 1..(Len(Append(s, kind)) - 1) : Append(s, kind)[i] \in Retryable
           /\ kind \in Retryable =>
                 \A i \in 1..Len(Append(s, kind)) : Append(s, kind)[i] \in Retryable
<1> HIDE HybridAssumption
<1>1. Len(s) \in Nat /\ Len(Append(s, kind)) = Len(s) + 1 /\ Append(s, kind) \in Seq(KindNames)
  OBVIOUS
<1>2. \A i \in 1..(Len(s) + 1) : Append(s, kind)[i] = IF i = Len(s) + 1 THEN kind ELSE s[i]
  OBVIOUS
<1> QED BY <1>1, <1>2, AttemptsType

\* What each step of the adapter makes of its role's call, and that it is sound.
LEMMA AdapterAnswers ==
    ASSUME IInv, NEW r \in Roles, Adapter(r)
    PROVE  \E c : Answered(r, c)
<1>0. call \in [Roles -> CallStates] /\ call[r] \in CallStates /\ call[r].at = "asking"
  BY DEF IInv, PanelTypeOK, Adapter, Refuse, Retry, Break, CloseEmpty, CloseAnswer
<1>1. /\ call[r].sees \in Seq(Decisions) /\ call[r].heard \in Seq(KindNames)
      /\ call[r].record = NoRecord /\ call[r].decision = NoDecision
      /\ Len(call[r].heard) < Attempts /\ \A i \in 1..Len(call[r].heard) : call[r].heard[i] \in Retryable
      /\ \A i \in 1..(Len(call[r].heard) - 1) : call[r].heard[i] \in Retryable
      /\ Len(call[r].heard) <= Attempts
  BY <1>0 DEF IInv, Sound, CallStates
<1>2. NoRecord \in Records /\ NoDecision \in Decisions /\ NoRecord.status = "none"
  BY NoDecisionType DEF NoRecord, Records
<1>3. CASE Refuse(r)
  <2> DEFINE c == [call[r] EXCEPT !.at = "raised"]
  <2>1. call' = [call EXCEPT ![r] = c]
    BY <1>3 DEF Refuse
  <2>2. c \in CallStates /\ c.at = "raised" /\ c.sees = call[r].sees /\ c.heard = call[r].heard
        /\ c.record = NoRecord /\ c.decision = NoDecision
    BY <1>0, <1>1 DEF CallStates
  <2> HIDE DEF c
  <2>3. Sound(c)
    BY <1>1, <2>2 DEF Sound
  <2> QED BY <2>1, <2>2, <2>3 DEF Answered
<1>4. CASE Retry(r)
  <2>1. PICK kind \in Retryable : call' = [call EXCEPT ![r].heard = Heard(r, kind)]
    BY <1>4 DEF Retry
  <2> DEFINE c == [call[r] EXCEPT !.heard = Heard(r, kind)]
  <2>2. call' = [call EXCEPT ![r] = c]
    BY <2>1
  <2>3. kind \in KindNames /\ Len(call[r].heard) + 1 < Attempts
    BY <1>4 DEF KindNames, Retry
  <2>4. /\ Heard(r, kind) \in Seq(KindNames) /\ Len(Heard(r, kind)) < Attempts
        /\ Len(Heard(r, kind)) <= Attempts
        /\ \A i \in 1..Len(Heard(r, kind)) : Heard(r, kind)[i] \in Retryable
        /\ \A i \in 1..(Len(Heard(r, kind)) - 1) : Heard(r, kind)[i] \in Retryable
    BY <1>1, <2>1, <2>3, HeardGrows DEF Heard
  <2>5. c \in CallStates /\ c.at = "asking" /\ c.sees = call[r].sees /\ c.heard = Heard(r, kind)
        /\ c.record = NoRecord /\ c.decision = NoDecision
    BY <1>0, <1>1, <2>4 DEF CallStates
  <2> HIDE DEF c
  <2>6. Sound(c)
    BY <2>4, <2>5 DEF Sound
  <2> QED BY <2>2, <2>5, <2>6 DEF Answered
<1>5. CASE Break(r)
  <2>1. PICK kind \in Raising :
            call' = [call EXCEPT ![r].heard = Heard(r, kind), ![r].at = "raised"]
    BY <1>5 DEF Break
  <2> DEFINE c == [call[r] EXCEPT !.heard = Heard(r, kind), !.at = "raised"]
  <2>2. call' = [call EXCEPT ![r] = c]
    BY <1>0, <2>1
  <2>3. /\ Heard(r, kind) \in Seq(KindNames) /\ Len(Heard(r, kind)) <= Attempts
        /\ \A i \in 1..(Len(Heard(r, kind)) - 1) : Heard(r, kind)[i] \in Retryable
    BY <1>1, <2>1, HeardGrows DEF Heard, KindNames
  <2>4. c \in CallStates /\ c.at = "raised" /\ c.sees = call[r].sees /\ c.heard = Heard(r, kind)
        /\ c.record = NoRecord /\ c.decision = NoDecision
    BY <1>0, <1>1, <2>3 DEF CallStates
  <2> HIDE DEF c
  <2>5. Sound(c)
    BY <2>3, <2>4 DEF Sound
  <2> QED BY <2>2, <2>4, <2>5 DEF Answered
<1>6. CASE CloseEmpty(r)
  <2>1. PICK kind \in Kinds :
            call' = [call EXCEPT ![r].at = "closed", ![r].heard = Heard(r, kind),
                                 ![r].record = [status |-> ProviderStatus(kind), error |-> kind]]
    BY <1>6 DEF CloseEmpty
  <2> DEFINE rec == [status |-> ProviderStatus(kind), error |-> kind]
             c == [call[r] EXCEPT !.at = "closed", !.heard = Heard(r, kind), !.record = rec]
  <2>2. call' = [call EXCEPT ![r] = c]
    BY <1>0, <2>1
  <2>3. kind \in KindNames
    BY <2>1 DEF KindNames, Kinds, Raising
  <2>4. /\ Heard(r, kind) \in Seq(KindNames) /\ Len(Heard(r, kind)) <= Attempts
        /\ \A i \in 1..(Len(Heard(r, kind)) - 1) : Heard(r, kind)[i] \in Retryable
    BY <1>1, <2>3, HeardGrows DEF Heard
  <2>5. rec \in Records /\ rec.status \in Statuses
    BY <2>3 DEF ProviderStatus, Statuses, Records
  <2> HIDE DEF rec
  <2>6. c \in CallStates /\ c.at = "closed" /\ c.sees = call[r].sees /\ c.heard = Heard(r, kind)
        /\ c.record = rec /\ c.decision = NoDecision
    BY <1>0, <1>1, <2>4, <2>5 DEF CallStates
  <2> HIDE DEF c
  <2>7. Sound(c)
    BY <2>4, <2>5, <2>6 DEF Sound
  <2> QED BY <2>2, <2>6, <2>7 DEF Answered
<1>7. CASE CloseAnswer(r)
  <2> DEFINE closed == [call[r] EXCEPT !.at = "closed", !.heard = Heard(r, "answer")]
             good(raw) == [closed EXCEPT
                 !.record = [status |-> "OK", error |-> "none"],
                 !.decision = [abstain |-> raw.abstain, weights |-> raw.weights, risk |-> raw.risk]]
             bad == [closed EXCEPT !.record = [status |-> "INVALID_DECISION", error |-> "schema"]]
  <2>1. PICK raw \in Answers :
            call' = [call EXCEPT ![r] = IF Accepts(raw, r) THEN good(raw) ELSE bad]
    BY <1>7 DEF CloseAnswer
  <2>2. /\ Heard(r, "answer") \in Seq(KindNames) /\ Len(Heard(r, "answer")) <= Attempts
        /\ \A i \in 1..(Len(Heard(r, "answer")) - 1) : Heard(r, "answer")[i] \in Retryable
    BY <1>1, HeardGrows DEF Heard, KindNames
  <2>3. closed \in CallStates /\ closed.at = "closed" /\ closed.sees = call[r].sees
        /\ closed.heard = Heard(r, "answer") /\ closed.decision = NoDecision
    BY <1>0, <1>1, <2>2 DEF CallStates
  <2>4. CASE Accepts(raw, r)
    <3> DEFINE d == [abstain |-> raw.abstain, weights |-> raw.weights, risk |-> raw.risk]
               c == [closed EXCEPT !.record = [status |-> "OK", error |-> "none"], !.decision = d]
    <3>1. d \in Decisions
      <4>1. raw.weights \in [Models -> Int] /\ raw.abstain \in BOOLEAN
        OBVIOUS
      <4>2. raw.weights \in [Models -> 0..One] /\ raw.risk \in 0..One
        BY <2>4, <4>1 DEF Accepts
      <4> HIDE HybridAssumption
      <4> QED BY <4>1, <4>2 DEF Decisions
    <3>2. call' = [call EXCEPT ![r] = c]
      BY <2>1, <2>4
    <3> HIDE DEF closed, d
    <3>3. c \in CallStates /\ c.at = "closed" /\ c.sees = call[r].sees /\ c.heard = Heard(r, "answer")
          /\ c.record.status = "OK"
      <4>1. [status |-> "OK", error |-> "none"] \in Records
        BY DEF Records, Statuses
      <4> QED BY <2>3, <3>1, <4>1 DEF CallStates
    <3> HIDE DEF c
    <3>4. Sound(c)
      BY <2>2, <3>3 DEF Sound, Statuses
    <3> QED BY <3>2, <3>3, <3>4 DEF Answered
  <2>5. CASE ~Accepts(raw, r)
    <3> DEFINE c == [closed EXCEPT !.record = [status |-> "INVALID_DECISION", error |-> "schema"]]
    <3>1. call' = [call EXCEPT ![r] = c]
      BY <2>1, <2>5
    <3> HIDE DEF closed
    <3>2. c \in CallStates /\ c.at = "closed" /\ c.sees = call[r].sees /\ c.heard = Heard(r, "answer")
          /\ c.record.status = "INVALID_DECISION" /\ c.decision = NoDecision
      <4>1. [status |-> "INVALID_DECISION", error |-> "schema"] \in Records
        BY DEF Records, Statuses
      <4> QED BY <2>3, <4>1 DEF CallStates
    <3> HIDE DEF c
    <3>3. Sound(c)
      BY <2>2, <3>2 DEF Sound, Statuses
    <3> QED BY <3>1, <3>2, <3>3 DEF Answered
  <2> QED BY <2>4, <2>5
<1> QED BY <1>3, <1>4, <1>5, <1>6, <1>7 DEF Adapter

\* The adapter's step in the thread of one role, while run waits.
LEMMA AdapterPreserves ==
    ASSUME IInv, NEW r \in Roles, Adapter(r)
    PROVE  IInv'
<1>0. call \in [Roles -> CallStates] /\ call[r].at = "asking" /\ UNCHANGED <<request, topology, mode, at, result>>
  BY DEF IInv, PanelTypeOK, Adapter, Refuse, Retry, Break, CloseEmpty, CloseAnswer
<1>1. PICK c : Answered(r, c)
  BY AdapterAnswers
<1>2. /\ call' \in [Roles -> CallStates] /\ call'[r] = c
      /\ \A q \in Roles : q # r => call'[q] = call[q]
  BY <1>0, <1>1 DEF Answered
<1>3. \A q \in Roles : Sound(call'[q])
  BY <1>1, <1>2 DEF Answered, IInv
<1>4. at \notin {"run", "returned", "raised"} /\ result = NoResult /\ result.status = "none"
  <2>1. at \notin {"returned", "raised"}
    BY <1>0 DEF IInv, ResultHolds, NothingOutlivesTheRun, Ended
  <2>2. at # "run"
    BY <1>0 DEF IInv, RunHolds, Idle
  <2> QED BY <2>1, <2>2 DEF IInv, RunHolds, NoResult
<1>5. \A q \in Roles : /\ call'[q].at = "idle" <=> call[q].at = "idle"
                       /\ call[q].at # "asking" => call'[q] = call[q]
                       /\ call'[q].sees = call[q].sees
  BY <1>0, <1>1, <1>2 DEF Answered
<1>6. Idle.at = "idle" /\ \A q \in Roles : call[q].at = "idle" <=> call[q] = Idle
  BY DEF IInv, Sound, Idle
<1>7. RunHolds'
  <2>1. /\ \A q \in Roles : call[q] = Idle => call'[q] = Idle
        /\ \A q \in Roles : Accepted(q) => Accepted(q)' /\ call'[q] = call[q]
    BY <1>5, <1>6 DEF Accepted, Failed
  <2>2. CASE at = "analyst"
    BY <1>0, <1>4, <1>5, <2>1, <2>2, RoleNames DEF IInv, RunHolds
  <2>3. CASE at = "critic"
    BY <1>0, <1>4, <1>5, <2>1, <2>3, RoleNames DEF IInv, RunHolds
  <2>4. CASE at = "pool"
    BY <1>0, <1>4, <1>5, <2>1, <2>4, RoleNames DEF IInv, RunHolds
  <2>5. CASE at = "judge"
    <3>1. CASE topology \in {"fixed_hierarchy", "parallel_debate"}
      <4>1. Accepted(Analyst) /\ Accepted(Critic) /\ call[Judge].sees = Both /\ call[Judge].at # "idle"
        BY <2>5, <3>1 DEF IInv, RunHolds
      <4>2. Accepted(Analyst)' /\ Accepted(Critic)' /\ Both' = Both
        BY <2>1, <4>1, RoleNames DEF Both
      <4> QED BY <1>0, <1>4, <1>5, <2>5, <3>1, <4>1, <4>2, RoleNames DEF RunHolds
    <3>2. CASE topology \notin {"fixed_hierarchy", "parallel_debate"}
      BY <1>0, <1>4, <1>5, <2>1, <2>5, <3>2, RoleNames DEF IInv, RunHolds
    <3> QED BY <3>1, <3>2
  <2> QED BY <1>4, <2>2, <2>3, <2>4, <2>5 DEF IInv, PanelTypeOK
<1>8. ResultHolds'
  <2>1. result' = NoResult /\ result'.status = "none" /\ at' \notin {"returned", "raised"}
    BY <1>0, <1>4
  <2>2. ResultIsEarned'
    BY <2>1 DEF ResultIsEarned
  <2>3. CallsAreAccounted'
    BY <1>3, <2>1 DEF CallsAreAccounted, Sound, Retryable
  <2>4. NothingOutlivesTheRun'
    BY <2>1 DEF NothingOutlivesTheRun, Ended
  <2> QED BY <2>2, <2>3, <2>4 DEF ResultHolds
<1>9. PanelTypeOK'
  BY <1>0, <1>2 DEF IInv, PanelTypeOK
<1> QED BY <1>3, <1>7, <1>8, <1>9 DEF IInv

-----------------------------------------------------------------------------
(* run *)

\* A step of run that asks the roles in R and leaves the result open.
LEMMA AskPreserves ==
    ASSUME IInv, NEW R \in SUBSET Roles, NEW up \in Seq(Decisions),
           UNCHANGED <<request, topology, mode, result>>, result = NoResult,
           at' \in {"analyst", "critic", "pool", "judge"},
           call' = [r \in Roles |-> IF r \in R THEN [Idle EXCEPT !.at = "asking", !.sees = up] ELSE call[r]],
           RunHolds'
    PROVE  IInv'
<1> DEFINE a == [Idle EXCEPT !.at = "asking", !.sees = up]
<1>1. /\ a \in CallStates /\ a.at = "asking" /\ a.heard = <<>> /\ a.record = NoRecord
      /\ a.decision = NoDecision
  BY IdleType DEF CallStates, Idle
<1>2. Sound(a)
  <2> HIDE DEF a
  <2>1. Len(a.heard) = 0
    BY <1>1
  <2> QED BY <1>1, <2>1, AttemptsType DEF Sound
<1> HIDE DEF a
<1>3. call' \in [Roles -> CallStates] /\ \A r \in Roles : Sound(call'[r])
  BY <1>1, <1>2 DEF IInv, PanelTypeOK, a
<1>4. ResultHolds'
  <2>1. result' = NoResult /\ result'.status = "none" /\ at' \notin {"returned", "raised"}
    BY DEF NoResult
  <2>2. ResultIsEarned'
    BY <2>1 DEF ResultIsEarned
  <2>3. CallsAreAccounted'
    BY <1>3, <2>1 DEF CallsAreAccounted, Sound, Retryable
  <2>4. NothingOutlivesTheRun'
    BY <2>1 DEF NothingOutlivesTheRun, Ended
  <2> QED BY <2>2, <2>3, <2>4 DEF ResultHolds
<1> QED BY <1>3, <1>4 DEF IInv, PanelTypeOK

\* The calls of a result name every role that was asked, once and in order.
Listed(calls) ==
    /\ {calls[i].role : i \in DOMAIN calls} = {r \in Roles : call[r] # Idle}
    /\ Len(calls) = Cardinality({r \in Roles : call[r] # Idle})
    /\ \A i \in DOMAIN calls :
          /\ calls[i].status = call[calls[i].role].record.status
          /\ i > 1 => calls[i - 1].role # Judge

\* A list of calls without repetition that has every asked role has as many.
LEMMA ListedWhole ==
    ASSUME NEW n \in Nat, NEW roles \in [1..n -> Roles],
           \A i, j \in 1..n : roles[i] = roles[j] => i = j,
           \A i \in 1..n : i < n => roles[i] # Judge,
           {roles[i] : i \in 1..n} = {r \in Roles : call[r] # Idle}
    PROVE  Listed(CallsOf(roles))
<1> DEFINE asked == {r \in Roles : call[r] # Idle}
           calls == CallsOf(roles)
<1>1. /\ DOMAIN calls = 1..n
      /\ \A i \in 1..n : /\ calls[i].role = roles[i]
                         /\ calls[i].status = call[roles[i]].record.status
  BY DEF CallsOf, CallRecord
<1>2. Len(calls) = n
  BY DEF CallsOf
<1> HIDE DEF calls
<1>3. Cardinality(asked) = n
  <2> HIDE HybridAssumption
  <2>1. roles \in Bijection(1..n, asked)
    <3>1. roles \in [1..n -> asked]
      OBVIOUS
    <3>2. \A r \in asked : \E i \in 1..n : roles[i] = r
      OBVIOUS
    <3> HIDE DEF asked
    <3> QED BY <3>1, <3>2 DEF Bijection, Injection, Surjection, IsInjective
  <2>2. IsFiniteSet(1..n) /\ Cardinality(1..n) = n
    <3>1. n \in Int /\ 1 \in Int /\ (1 > n => n = 0)
      OBVIOUS
    <3> QED BY <3>1, FS_Interval
  <2> HIDE DEF asked
  <2> QED BY <2>1, <2>2, FS_Bijection DEF ExistsBijection
<1>4. {calls[i].role : i \in DOMAIN calls} = {roles[i] : i \in 1..n}
  BY <1>1
<1>5. \A i \in 1..n : i > 1 => i - 1 \in 1..n /\ i - 1 < n
  OBVIOUS
<1>6. \A i \in DOMAIN calls :
          /\ calls[i].status = call[calls[i].role].record.status
          /\ i > 1 => calls[i - 1].role # Judge
  BY <1>1, <1>5
<1> QED BY <1>2, <1>3, <1>4, <1>6 DEF Listed, calls

\* The lists run returns, of one, two and three roles, are whole.
LEMMA ListedRoles ==
    ASSUME IInv
    PROVE  /\ (\A r \in Roles : call[r] = Idle) => Listed(CallsOf(<<>>))
           /\ (\A r \in Roles : call[r] # Idle <=> r = Analyst) => Listed(CallsOf(<<Analyst>>))
           /\ (\A r \in Roles : call[r] # Idle <=> r = Judge) => Listed(CallsOf(<<Judge>>))
           /\ (\A r \in Roles : call[r] # Idle <=> r # Judge) => Listed(CallsOf(<<Analyst, Critic>>))
           /\ (\A r \in Roles : call[r] # Idle) => Listed(CallsOf(<<Analyst, Critic, Judge>>))
<1> HIDE HybridAssumption
<1> USE RoleNames
<1>1. ASSUME \A r \in Roles : call[r] = Idle
      PROVE  Listed(CallsOf(<<>>))
  <2>1. <<>> \in [1..0 -> Roles]
    OBVIOUS
  <2>2. {<<>>[i] : i \in 1..0} = {r \in Roles : call[r] # Idle}
    BY <1>1
  <2>3. \A i, j \in 1..0 : <<>>[i] = <<>>[j] => i = j
    OBVIOUS
  <2>4. \A i \in 1..0 : i < 0 => <<>>[i] # Judge
    OBVIOUS
  <2>5. PICK roles : roles = <<>>
    OBVIOUS
  <2> QED BY <2>1, <2>2, <2>3, <2>4, <2>5, ListedWhole
<1>2. ASSUME NEW q \in {Analyst, Judge}, \A r \in Roles : call[r] # Idle <=> r = q
      PROVE  Listed(CallsOf(<<q>>))
  <2>1. <<q>> \in [1..1 -> Roles]
    OBVIOUS
  <2>2. {<<q>>[i] : i \in 1..1} = {r \in Roles : call[r] # Idle}
    BY <1>2
  <2>3. \A i, j \in 1..1 : <<q>>[i] = <<q>>[j] => i = j
    OBVIOUS
  <2>4. \A i \in 1..1 : i < 1 => <<q>>[i] # Judge
    OBVIOUS
  <2>5. PICK roles : roles = <<q>>
    OBVIOUS
  <2> QED BY <2>1, <2>2, <2>3, <2>4, <2>5, ListedWhole
<1>3. ASSUME \A r \in Roles : call[r] # Idle <=> r # Judge
      PROVE  Listed(CallsOf(<<Analyst, Critic>>))
  <2>1. <<Analyst, Critic>> \in [1..2 -> Roles]
    OBVIOUS
  <2>2. {<<Analyst, Critic>>[i] : i \in 1..2} = {r \in Roles : call[r] # Idle}
    BY <1>3
  <2>3. \A i, j \in 1..2 : <<Analyst, Critic>>[i] = <<Analyst, Critic>>[j] => i = j
    OBVIOUS
  <2>4. \A i \in 1..2 : i < 2 => <<Analyst, Critic>>[i] # Judge
    OBVIOUS
  <2>5. PICK roles : roles = <<Analyst, Critic>>
    OBVIOUS
  <2> QED BY <2>1, <2>2, <2>3, <2>4, <2>5, ListedWhole
<1>4. ASSUME \A r \in Roles : call[r] # Idle
      PROVE  Listed(CallsOf(<<Analyst, Critic, Judge>>))
  <2>1. <<Analyst, Critic, Judge>> \in [1..3 -> Roles]
    OBVIOUS
  <2>2. {<<Analyst, Critic, Judge>>[i] : i \in 1..3} = {r \in Roles : call[r] # Idle}
    BY <1>4
  <2>3. \A i, j \in 1..3 : <<Analyst, Critic, Judge>>[i] = <<Analyst, Critic, Judge>>[j] => i = j
    OBVIOUS
  <2>4. \A i \in 1..3 : i < 3 => <<Analyst, Critic, Judge>>[i] # Judge
    OBVIOUS
  <2>5. PICK roles : roles = <<Analyst, Critic, Judge>>
    OBVIOUS
  <2> QED BY <2>1, <2>2, <2>3, <2>4, <2>5, ListedWhole
<1> QED BY <1>1, <1>2, <1>3, <1>4

\* run returns: nothing else changes.
LEMMA ReturnPreserves ==
    ASSUME IInv, UNCHANGED <<request, topology, mode, call>>, at' = "returned",
           result'.status \in {"OK", "FALLBACK", "NUMERIC_ONLY"},
           ResultIsEarned', Listed(result'.calls),
           \A r \in Roles : call[r].at # "asking"
    PROVE  IInv'
<1>1. RunHolds'
  BY DEF RunHolds
<1>2. CallsAreAccounted'
  <2>1. \A r \in Roles : Sound(call'[r])
    BY DEF IInv
  <2>2. Listed(result.calls)'
    BY DEF Listed
  <2> QED BY <2>1, <2>2 DEF CallsAreAccounted, Sound, Retryable, Listed
<1>3. NothingOutlivesTheRun'
  BY DEF NothingOutlivesTheRun
<1>4. PanelTypeOK' /\ \A r \in Roles : Sound(call'[r])
  BY DEF IInv, PanelTypeOK
<1> QED BY <1>1, <1>2, <1>3, <1>4 DEF IInv, ResultHolds

\* A request is not written during the run.
LEMMA MacroErrorStays ==
    ASSUME UNCHANGED request
    PROVE  \A m \in Models : MacroError(m)' = MacroError(m)
<1> TAKE m \in Models
<1>1. MacroError(m) = SumColumn(request.error, m, Keys)
  BY DEF MacroError, SumColumn
<1>2. MacroError(m)' = SumColumn(request'.error, m, Keys)
  BY DEF MacroError, SumColumn, MapThenSumSet, MapThenFoldSet
<1> QED BY <1>1, <1>2

\* The hull test of convex_fuse, of the request it is made against.
HullOf(req, forecast) ==
    \A k \in Keys :
        LET points == {req.forecast[k][m] : m \in Models}
        IN  forecast[k] \in (One * Min(points))..(One * Max(points))

\* The hull a forecast is tested against is the request's.
LEMMA HullStays ==
    /\ InHull(result.forecast) <=> HullOf(request, result.forecast)
    /\ InHull(result.forecast)' <=> HullOf(request', result'.forecast)
    /\ \A f : InHull(f) <=> HullOf(request, f)
<1> HIDE HybridAssumption
<1>1. InHull(result.forecast) <=> HullOf(request, result.forecast)
  BY DEF InHull, HullOf, Points
<1>2. InHull(result.forecast)' <=> HullOf(request', result'.forecast)
  BY DEF InHull, HullOf, Points
<1>3. \A f : InHull(f) <=> HullOf(request, f)
  BY DEF InHull, HullOf, Points
<1> QED BY <1>1, <1>2, <1>3

\* The forecast of a fallback is still the best candidate's in the next state.
LEMMA BestForecast ==
    ASSUME request \in Requests, UNCHANGED request, result'.forecast = Fused(FallbackWeights)
    PROVE  \E m \in Models :
              /\ \A n \in Models : MacroError(m)' <= MacroError(n)'
              /\ \A k \in Keys : result'.forecast[k] = One * request'.forecast[k][m]
<1>1. PICK b \in Models :
              /\ \A m \in Models : MacroError(b) <= MacroError(m)
              /\ \A k \in Keys : Fused(FallbackWeights)[k] = One * request.forecast[k][b]
  BY FallbackIsBest
<1>2. \A m \in Models : MacroError(m)' = MacroError(m)
  BY MacroErrorStays
<1> QED BY <1>1, <1>2

\* _fallback, with the calls made so far and the reason.
LEMMA FallbackPreserves ==
    ASSUME IInv, NEW roles, NEW reason, Fallback(roles, reason), UNCHANGED <<request, topology, mode>>,
           Listed(CallsOf(roles)), \A r \in Roles : call[r].at # "asking",
           \/ reason = "regime_agent_failure" /\ Failed(Analyst) /\ call[Critic] = Idle
           \/ /\ reason = "critic_agent_failure"
              /\ ~Failed(Analyst) /\ Failed(Critic) /\ call[Judge] = Idle
           \/ /\ reason = "parallel_debate_member_failure"
              /\ (Failed(Analyst) \/ Failed(Critic)) /\ call[Judge] = Idle
           \/ /\ reason = "judge_failure_or_abstention"
              /\ \A r \in RolesOf(topology) \ {Judge} : ~Failed(r)
              /\ Failed(Judge) \/ call[Judge].decision.abstain
    PROVE  IInv'
<1>1. /\ at' = "returned" /\ UNCHANGED call /\ result'.status = "FALLBACK"
      /\ result'.forecast = Fused(FallbackWeights) /\ result'.reason = reason
      /\ result'.calls = CallsOf(roles)
  BY DEF Fallback, Return
<1>2. ResultIsEarned'
  <2>1. ReasonIsTrue'
    <3>1. /\ UNCHANGED <<call, topology>> /\ result'.reason = reason
          /\ \A r \in Roles : Failed(r)' <=> Failed(r)
      BY <1>1 DEF Failed
    <3> QED BY <3>1, RoleNames DEF ReasonIsTrue, RolesOf
  <2>2. \E m \in Models :
              /\ \A n \in Models : MacroError(m)' <= MacroError(n)'
              /\ \A k \in Keys : result'.forecast[k] = One * request'.forecast[k][m]
    BY <1>1, BestForecast DEF IInv, PanelTypeOK
  <2> QED BY <1>1, <2>1, <2>2 DEF ResultIsEarned
<1> QED BY <1>1, <1>2, ReturnPreserves

\* run's first step, in each of the four topologies.
LEMMA FirstStep ==
    ASSUME IInv, NumericOnly \/ Single \/ Hierarchy \/ Parallel
    PROVE  IInv'
<1>0. at = "run" /\ result = NoResult /\ (\A r \in Roles : call[r] = Idle) /\ UNCHANGED <<request, topology, mode>>
      /\ call \in [Roles -> CallStates]
  BY DEF IInv, RunHolds, PanelTypeOK, NumericOnly, Single, Hierarchy, Parallel
<1>1. Idle.at = "idle" /\ <<>> \in Seq(Decisions)
  BY DEF Idle
<1>2. CASE NumericOnly
  <2>1. /\ at' = "returned" /\ UNCHANGED call /\ result'.status = "NUMERIC_ONLY"
        /\ result'.forecast = Fused(FallbackWeights) /\ result'.reason = "none" /\ result'.calls = <<>>
    BY <1>2 DEF NumericOnly, Return
  <2>2. \E m \in Models :
              /\ \A n \in Models : MacroError(m)' <= MacroError(n)'
              /\ \A k \in Keys : result'.forecast[k] = One * request'.forecast[k][m]
    BY <1>0, <2>1, BestForecast DEF IInv, PanelTypeOK
  <2>3. ResultIsEarned'
    BY <1>0, <2>1, <2>2 DEF ResultIsEarned, ReasonIsTrue
  <2>4. CallsOf(<<>>) = <<>>
    BY DEF CallsOf
  <2>5. Listed(result'.calls)
    BY <1>0, <2>1, <2>4, ListedRoles
  <2> QED BY <1>0, <1>1, <2>1, <2>3, <2>5, ReturnPreserves
<1>3. CASE Single
  <2>1. /\ at' = "judge" /\ UNCHANGED result /\ topology \notin {"fixed_hierarchy", "parallel_debate"}
        /\ call' = [r \in Roles |-> IF r \in {Judge} THEN [Idle EXCEPT !.at = "asking", !.sees = <<>>] ELSE call[r]]
    BY <1>0, <1>3 DEF Single, Ask, Asked
  <2>2. /\ call'[Judge].at = "asking" /\ call'[Judge].sees = <<>>
        /\ call'[Analyst] = Idle /\ call'[Critic] = Idle
    BY <1>0, <2>1, RoleNames DEF Idle
  <2>3. RunHolds'
    BY <1>0, <2>1, <2>2 DEF RunHolds
  <2> QED BY <1>0, <1>1, <2>1, <2>3, RoleNames, AskPreserves
<1>4. CASE Hierarchy
  <2>1. /\ at' = "analyst" /\ UNCHANGED result /\ topology = "fixed_hierarchy"
        /\ call' = [r \in Roles |-> IF r \in {Analyst} THEN [Idle EXCEPT !.at = "asking", !.sees = <<>>] ELSE call[r]]
    BY <1>0, <1>4 DEF Hierarchy, Ask, Asked
  <2>2. call'[Analyst].at = "asking" /\ call'[Judge] = Idle /\ call'[Critic] = Idle
    BY <1>0, <2>1, RoleNames DEF Idle
  <2>3. RunHolds'
    BY <1>0, <2>1, <2>2 DEF RunHolds
  <2> QED BY <1>0, <1>1, <2>1, <2>3, RoleNames, AskPreserves
<1>5. CASE Parallel
  <2>1. /\ at' = "pool" /\ UNCHANGED result /\ topology = "parallel_debate"
        /\ call' = [r \in Roles |-> IF r \in {Analyst, Critic} THEN [Idle EXCEPT !.at = "asking", !.sees = <<>>] ELSE call[r]]
    BY <1>0, <1>5, RoleNames DEF Parallel, Asked
  <2>2. call'[Analyst].at = "asking" /\ call'[Critic].at = "asking" /\ call'[Judge] = Idle
    BY <1>0, <2>1, RoleNames DEF Idle
  <2>3. RunHolds'
    BY <1>0, <2>1, <2>2 DEF RunHolds
  <2> QED BY <1>0, <1>1, <2>1, <2>3, RoleNames, AskPreserves
<1> QED BY <1>2, <1>3, <1>4, <1>5

\* run raises: nothing else changes.
LEMMA RaisePreserves ==
    ASSUME IInv, at' = "raised", UNCHANGED <<request, topology, mode, call, result>>, result = NoResult,
           \A r \in Roles : call[r].at # "asking"
    PROVE  IInv'
<1>1. PanelTypeOK' /\ \A r \in Roles : Sound(call'[r])
  BY DEF IInv, PanelTypeOK
<1>2. RunHolds'
  BY DEF RunHolds
<1>3. ResultHolds'
  <2>1. ResultIsEarned'
    BY DEF ResultIsEarned, NoResult
  <2>2. CallsAreAccounted'
    BY <1>1 DEF CallsAreAccounted, Sound, Retryable
  <2>3. NothingOutlivesTheRun'
    BY DEF NothingOutlivesTheRun
  <2> QED BY <2>1, <2>2, <2>3 DEF ResultHolds
<1> QED BY <1>1, <1>2, <1>3 DEF IInv

\* What invoke raises leaves run.
LEMMA PropagatePreserves ==
    ASSUME IInv, Propagate
    PROVE  IInv'
BY RaisePreserves DEF IInv, RunHolds, Propagate

\* The hierarchy, after its analyst.
LEMMA AfterAnalystPreserves ==
    ASSUME IInv, AfterAnalyst
    PROVE  IInv'
<1>0. /\ call \in [Roles -> CallStates] /\ call[Analyst].at = "closed" /\ at = "analyst"
      /\ topology = "fixed_hierarchy" /\ result = NoResult /\ UNCHANGED <<request, topology, mode>>
      /\ call[Critic] = Idle /\ call[Judge] = Idle
  BY DEF IInv, RunHolds, PanelTypeOK, AfterAnalyst
<1>1. Idle.at = "idle" /\ \A r \in Roles : (call[r] # Idle <=> r = Analyst) /\ call[r].at # "asking"
  BY <1>0, RoleNames DEF Idle
<1>2. CASE Failed(Analyst)
  <2>1. Fallback(<<Analyst>>, "regime_agent_failure") /\ Listed(CallsOf(<<Analyst>>))
    BY <1>1, <1>2, ListedRoles DEF AfterAnalyst
  <2> QED BY <1>0, <1>1, <1>2, <2>1, FallbackPreserves
<1>3. CASE ~Failed(Analyst)
  <2> DEFINE up == <<call[Analyst].decision>>
  <2>1. up \in Seq(Decisions)
    BY <1>0, RoleNames DEF CallStates
  <2>2. /\ at' = "critic" /\ UNCHANGED result
        /\ call' = [call EXCEPT ![Critic] = Asked(Critic, up)]
    BY <1>3 DEF AfterAnalyst, Ask
  <2> HIDE DEF up
  <2>3. call' = [r \in Roles |-> IF r \in {Critic} THEN [Idle EXCEPT !.at = "asking", !.sees = up] ELSE call[r]]
    BY <1>0, <2>2 DEF Asked
  <2>4. call'[Critic].at = "asking" /\ call'[Analyst] = call[Analyst] /\ call'[Judge] = Idle
    BY <1>0, <2>3, RoleNames DEF Idle
  <2>5. RunHolds'
    BY <1>0, <1>3, <2>2, <2>4 DEF RunHolds, Accepted, Failed
  <2> QED BY <1>0, <2>1, <2>2, <2>3, <2>5, RoleNames, AskPreserves
<1> QED BY <1>2, <1>3

\* The members' decisions are accepted: the judge is asked and shown them.
LEMMA AskJudgePreserves ==
    ASSUME IInv, Ask(Judge, Both, "judge"), UNCHANGED <<request, topology, mode>>, result = NoResult,
           topology \in {"fixed_hierarchy", "parallel_debate"}, Accepted(Analyst), Accepted(Critic)
    PROVE  IInv'
<1>0. call \in [Roles -> CallStates]
  BY DEF IInv, PanelTypeOK
<1>1. Both \in Seq(Decisions)
  BY <1>0, RoleNames DEF CallStates, Both
<1>2. /\ at' = "judge" /\ UNCHANGED result
      /\ call' = [r \in Roles |-> IF r \in {Judge} THEN [Idle EXCEPT !.at = "asking", !.sees = Both] ELSE call[r]]
  BY <1>0 DEF Ask, Asked
<1>3. /\ call'[Judge].at = "asking" /\ call'[Judge].sees = Both
      /\ call'[Analyst] = call[Analyst] /\ call'[Critic] = call[Critic]
  BY <1>2, RoleNames DEF Idle
<1>4. Both' = Both /\ Accepted(Analyst)' /\ Accepted(Critic)'
  BY <1>3 DEF Both, Accepted, Failed
<1>5. RunHolds'
  BY <1>2, <1>3, <1>4 DEF RunHolds
<1> QED BY <1>1, <1>2, <1>5, RoleNames, AskPreserves

\* The hierarchy, after its critic.
LEMMA AfterCriticPreserves ==
    ASSUME IInv, AfterCritic
    PROVE  IInv'
<1>0. /\ call[Critic].at = "closed" /\ Accepted(Analyst) /\ call[Judge] = Idle
      /\ topology = "fixed_hierarchy" /\ result = NoResult /\ UNCHANGED <<request, topology, mode>>
  BY DEF IInv, RunHolds, AfterCritic
<1>1. Idle.at = "idle" /\ \A r \in Roles : (call[r] # Idle <=> r # Judge) /\ call[r].at # "asking"
  BY <1>0, RoleNames DEF Idle, Accepted
<1>2. CASE Failed(Critic)
  <2>1. Fallback(<<Analyst, Critic>>, "critic_agent_failure") /\ Listed(CallsOf(<<Analyst, Critic>>))
    BY <1>1, <1>2, ListedRoles DEF AfterCritic
  <2> QED BY <1>0, <1>1, <1>2, <2>1, FallbackPreserves DEF Accepted
<1>3. CASE ~Failed(Critic)
  BY <1>0, <1>3, AskJudgePreserves DEF AfterCritic, Accepted
<1> QED BY <1>2, <1>3

\* The debate, after both members.
LEMMA AfterPoolPreserves ==
    ASSUME IInv, AfterPool
    PROVE  IInv'
<1>0. /\ call[Analyst].at = "closed" /\ call[Critic].at = "closed" /\ call[Judge] = Idle
      /\ topology = "parallel_debate" /\ result = NoResult /\ UNCHANGED <<request, topology, mode>>
  BY DEF IInv, RunHolds, AfterPool
<1>1. Idle.at = "idle" /\ \A r \in Roles : (call[r] # Idle <=> r # Judge) /\ call[r].at # "asking"
  BY <1>0, RoleNames DEF Idle
<1>2. CASE Failed(Analyst) \/ Failed(Critic)
  <2>1. Fallback(<<Analyst, Critic>>, "parallel_debate_member_failure") /\ Listed(CallsOf(<<Analyst, Critic>>))
    BY <1>1, <1>2, ListedRoles DEF AfterPool
  <2> QED BY <1>0, <1>1, <1>2, <2>1, FallbackPreserves
<1>3. CASE ~Failed(Analyst) /\ ~Failed(Critic)
  BY <1>0, <1>3, AskJudgePreserves DEF AfterPool, Accepted
<1> QED BY <1>2, <1>3

\* The greatest of three risks.
LEMMA MaxAbove ==
    ASSUME NEW a \in Int, NEW b \in Int, NEW c \in Int
    PROVE  a <= Max({a, b, c}) /\ b <= Max({a, b, c}) /\ c <= Max({a, b, c})
<1>1. \E x \in {a, b, c} : \A y \in {a, b, c} : x >= y
  OBVIOUS
<1>2. Max({a, b, c}) \in {a, b, c} /\ \A y \in {a, b, c} : Max({a, b, c}) >= y
  BY <1>1 DEF Max
<1>3. \A x \in {a, b, c} : x \in Int
  OBVIOUS
<1> QED BY <1>2, <1>3

\* The judge decided: its weights are used, or run raises.
LEMMA FusePreserves ==
    ASSUME IInv, NEW roles, Fuse(roles), UNCHANGED <<call, request, topology, mode>>,
           at = "judge", Accepted(Judge), ~call[Judge].decision.abstain, Listed(CallsOf(roles)),
           \/ topology \in {"fixed_hierarchy", "parallel_debate"} /\ roles = <<Analyst, Critic, Judge>>
           \/ topology \notin {"fixed_hierarchy", "parallel_debate"} /\ roles = <<Judge>>
    PROVE  IInv'
<1> DEFINE w == call[Judge].decision.weights
           risks == {call[roles[i]].decision.risk : i \in DOMAIN roles}
<1>0. call \in [Roles -> CallStates] /\ topology \in Topologies /\ result = NoResult
  BY DEF IInv, PanelTypeOK, RunHolds
<1>1. \A r \in Roles : Accepted(r) => call[r].decision.risk \in Int
  BY <1>0 DEF CallStates, Decisions, Accepted, Failed
<1>2. \A r \in Roles : call[r].at # "asking" /\ (r \in RolesOf(topology) => Accepted(r))
  BY <1>0, RoleNames DEF IInv, RunHolds, Accepted, Idle, RolesOf, Topologies
<1>3. \A r \in RolesOf(topology) : call[r].decision.risk <= Max(risks)
  <2>1. CASE topology \in {"fixed_hierarchy", "parallel_debate"}
    <3>1. risks = {call[Analyst].decision.risk, call[Critic].decision.risk, call[Judge].decision.risk}
      BY <2>1
    <3>2. RolesOf(topology) = Roles
      BY <2>1 DEF RolesOf
    <3>3. \A r \in Roles : call[r].decision.risk \in Int
      BY <1>1, <1>2, <3>2
    <3> DEFINE a == call[Analyst].decision.risk
               c == call[Critic].decision.risk
               j == call[Judge].decision.risk
    <3>4. a \in Int /\ c \in Int /\ j \in Int
      BY <3>3, RoleNames
    <3>5. a <= Max({a, c, j}) /\ c <= Max({a, c, j}) /\ j <= Max({a, c, j})
      BY <3>4, MaxAbove
    <3> QED BY <3>1, <3>2, <3>5 DEF Roles
  <2>2. CASE topology \notin {"fixed_hierarchy", "parallel_debate"}
    <3>1. risks = {call[Judge].decision.risk, call[Judge].decision.risk, call[Judge].decision.risk}
      BY <2>2
    <3>2. RolesOf(topology) = {Judge}
      BY <1>0, <2>2 DEF RolesOf, Topologies
    <3>3. call[Judge].decision.risk \in Int
      BY <1>1, RoleNames
    <3> HIDE HybridAssumption
    <3> QED BY <3>1, <3>2, <3>3, MaxAbove
  <2> QED BY <2>1, <2>2
<1>4. call[Judge].sees = IF RolesOf(topology) = Roles THEN Both ELSE <<>>
  BY <1>0, RoleNames DEF IInv, RunHolds, RolesOf, Topologies
<1>5. CASE InHull(Fused(w))
  <2>1. /\ at' = "returned" /\ result'.status = "OK" /\ result'.weights = w
        /\ result'.forecast = Fused(w) /\ result'.risk = Max(risks) /\ result'.calls = CallsOf(roles)
    BY <1>5 DEF Fuse, Return
  <2> HIDE DEF risks
  <2>2. InHull(result.forecast)'
    BY <1>5, <2>1, HullStays
  <2>3. \A r \in RolesOf(topology') : ~Failed(r)' /\ call'[r].decision.risk <= result'.risk
    BY <1>2, <1>3, <2>1, RoleNames DEF Accepted, Failed, RolesOf
  <2>4. Both' = Both
    BY DEF Both
  <2>5. ResultIsEarned'
    BY <1>4, <2>1, <2>2, <2>3, <2>4 DEF ResultIsEarned
  <2> QED BY <1>2, <2>1, <2>5, ReturnPreserves
<1>6. CASE ~InHull(Fused(w))
  <2>1. at' = "raised" /\ UNCHANGED result
    BY <1>6 DEF Fuse
  <2> QED BY <1>0, <1>2, <2>1, RaisePreserves
<1> QED BY <1>5, <1>6

\* After the judge: fusion, or the fallback.
LEMMA AfterJudgePreserves ==
    ASSUME IInv, AfterJudge
    PROVE  IInv'
<1>0. at = "judge" /\ call[Judge].at = "closed" /\ UNCHANGED <<request, topology, mode>> /\ Idle.at = "idle"
  BY DEF AfterJudge, Idle
<1>1. PICK roles :
          /\ \/ topology \in {"fixed_hierarchy", "parallel_debate"} /\ roles = <<Analyst, Critic, Judge>>
             \/ topology \notin {"fixed_hierarchy", "parallel_debate"} /\ roles = <<Judge>>
          /\ IF Failed(Judge) \/ call[Judge].decision.abstain
             THEN Fallback(roles, "judge_failure_or_abstention")
             ELSE Fuse(roles) /\ UNCHANGED call
  BY DEF AfterJudge
<1>2. Listed(CallsOf(roles)) /\ \A r \in Roles : call[r].at # "asking"
  <2>1. CASE topology \in {"fixed_hierarchy", "parallel_debate"}
    <3>1. \A r \in Roles : call[r] # Idle /\ call[r].at # "asking"
      BY <1>0, <2>1, RoleNames DEF IInv, RunHolds, Accepted
    <3> QED BY <1>1, <2>1, <3>1, ListedRoles
  <2>2. CASE topology \notin {"fixed_hierarchy", "parallel_debate"}
    <3>1. \A r \in Roles : (call[r] # Idle <=> r = Judge) /\ call[r].at # "asking"
      BY <1>0, <2>2, RoleNames DEF IInv, RunHolds
    <3> QED BY <1>1, <2>2, <3>1, ListedRoles
  <2> QED BY <2>1, <2>2
<1>3. CASE Failed(Judge) \/ call[Judge].decision.abstain
  <2>1. \A r \in RolesOf(topology) \ {Judge} : ~Failed(r)
    BY <1>0, RoleNames DEF IInv, PanelTypeOK, RunHolds, RolesOf, Topologies, Accepted
  <2> QED BY <1>0, <1>1, <1>2, <1>3, <2>1, FallbackPreserves
<1>4. CASE ~Failed(Judge) /\ ~call[Judge].decision.abstain
  BY <1>0, <1>1, <1>2, <1>4, FusePreserves DEF Accepted
<1> QED BY <1>3, <1>4

\* Every step keeps the invariant.
LEMMA NextPreserves == IInv /\ [Next]_vars => IInv'
<1>1. ASSUME IInv, Run PROVE IInv'
  BY <1>1, FirstStep, AfterAnalystPreserves, AfterCriticPreserves, AfterPoolPreserves,
     AfterJudgePreserves, PropagatePreserves DEF Run
<1>2. ASSUME IInv, NEW r \in Roles, Adapter(r) PROVE IInv'
  BY <1>2, AdapterPreserves
<1>3. ASSUME IInv, UNCHANGED vars PROVE IInv'
  <2>1. UNCHANGED <<request, topology, mode, at, call, result>>
    BY <1>3 DEF vars
  <2>2. PanelTypeOK' /\ (\A r \in Roles : Sound(call'[r])) /\ RunHolds' /\ CallsAreAccounted'
        /\ NothingOutlivesTheRun'
    BY <1>3, <2>1 DEF IInv, PanelTypeOK, RunHolds, ResultHolds, CallsAreAccounted,
       NothingOutlivesTheRun, Ended, Accepted, Failed, Both
  <2>3. InHull(result.forecast)' <=> InHull(result.forecast)
    BY <2>1, HullStays
  <2>4. \A m \in Models : MacroError(m)' = MacroError(m)
    BY <2>1, MacroErrorStays
  <2>5. ResultIsEarned
    BY <1>3 DEF IInv, ResultHolds
  <2>6. result.status = "OK" =>
          /\ \A r \in RolesOf(topology') : ~Failed(r)' /\ call'[r].decision.risk <= result'.risk
          /\ ~call'[Judge].decision.abstain /\ result'.weights = call'[Judge].decision.weights
          /\ call'[Judge].sees = IF RolesOf(topology') = Roles THEN Both' ELSE <<>>
    BY <2>1, <2>5 DEF ResultIsEarned, Failed, Both, RolesOf
  <2>7. result.status \in {"FALLBACK", "NUMERIC_ONLY"} =>
          \E m \in Models :
            /\ \A n \in Models : MacroError(m)' <= MacroError(n)'
            /\ \A k \in Keys : result'.forecast[k] = One * request'.forecast[k][m]
    BY <2>1, <2>4, <2>5 DEF ResultIsEarned
  <2>8. result.status \in {"FALLBACK", "NUMERIC_ONLY"} => ReasonIsTrue'
    BY <2>1, <2>5 DEF ResultIsEarned, ReasonIsTrue, Failed, RolesOf
  <2>9. ResultIsEarned'
    BY <2>1, <2>3, <2>5, <2>6, <2>7, <2>8 DEF ResultIsEarned
  <2> QED BY <2>2, <2>9 DEF IInv, ResultHolds
<1> QED BY <1>1, <1>2, <1>3 DEF Next

-----------------------------------------------------------------------------
(* The theorems *)

\* The invariant behind the theorems: what every call has heard and closed with,
\* who has been asked where run stands, and what a result rests on.
THEOREM InvariantHolds == Spec => []IInv
BY PanelInit, NextPreserves, PTL DEF Spec

\* Type correctness; a call closes with the decision its record speaks of.
THEOREM TypeCorrect == Spec => []TypeOK
<1>1. ASSUME IInv PROVE TypeOK
  <2>1. \A r \in Roles : call[r] \in CallStates /\ Sound(call[r])
    BY <1>1 DEF IInv, PanelTypeOK
  <2>2. NoRecord.status \notin Statuses /\ Idle.record = NoRecord
    BY DEF NoRecord, Statuses, Idle
  <2>3. ASSUME NEW r \in Roles
        PROVE  /\ call[r].at \in {"idle", "asking", "closed", "raised"}
               /\ call[r].decision \in Decisions
               /\ (call[r].at = "closed") <=> (call[r].record.status \in Statuses)
               /\ ~Failed(r) => call[r].record.status = "OK"
    BY <2>1, <2>2 DEF CallStates, Sound, Failed
  <2>4. (at = "returned") <=> (result # NoResult)
    BY <1>1 DEF IInv, RunHolds, NoResult
  <2> QED BY <1>1, <2>3, <2>4 DEF IInv, PanelTypeOK, TypeOK
<1> QED BY <1>1, InvariantHolds, PTL

\* HybridOrchestrator.run: an OK result rests on an accepted decision of every
\* role, whichever thread of the debate ended first; any other result is the
\* forecast of one candidate that no other beats in training (fallback_weights,
\* convex_fuse), for any number of candidates and keys.
THEOREM EveryResultIsEarned == Spec => []ResultIsEarned
<1>1. IInv => ResultIsEarned
  BY DEF IInv, ResultHolds
<1> QED BY <1>1, InvariantHolds, PTL

\* invoke retries only what never answered, and run lists every call it made.
THEOREM EveryCallIsAccounted == Spec => []CallsAreAccounted
<1>1. IInv => CallsAreAccounted
  BY DEF IInv, ResultHolds
<1> QED BY <1>1, InvariantHolds, PTL

\* No attempt is under way when run returns or raises (_parallel leaves its pool
\* only when both members ended).
THEOREM NoneOutlivesTheRun == Spec => []NothingOutlivesTheRun
<1>1. IInv => NothingOutlivesTheRun
  BY DEF IInv, ResultHolds
<1> QED BY <1>1, InvariantHolds, PTL
=============================================================================
