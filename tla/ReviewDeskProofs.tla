--------------------------- MODULE ReviewDeskProofs ---------------------------
(* Theorems about the detection worker's candidates and what people make of  *)
(* them, for any recordings, settings, reviewers, labels and failures: first about *)
(* the peak finder, then about the worker that calls it, then the review.    *)
EXTENDS ReviewDesk, FiniteSetTheorems, WellFoundedInduction, TLAPS

-----------------------------------------------------------------------------
(* Numbers and the peak finder.                                               *)

\* A function over a bounded set of numbers has a greatest value.
LEMMA GreatestExists ==
  ASSUME NEW n \in Nat, NEW C \in SUBSET (1..n), C # {}, NEW f \in [C -> Int]
  PROVE  \E u \in C : \A v \in C : f[v] <= f[u]
<1> DEFINE Part(k) == {u \in C : u <= k}
           Good(k) == \E u \in Part(k) : \A v \in Part(k) : f[v] <= f[u]
           Bad == {k \in Nat : Part(k) # {} /\ ~Good(k)}
<1>0. \A u \in C : u \in Nat /\ u <= n OBVIOUS
<1>1. Part(n) = C BY <1>0
<1>2. SUFFICES ASSUME n \in Bad PROVE FALSE
  BY <1>1
<1>3. PICK k \in Bad : \A j \in Bad : <<j, k>> \notin OpToRel(<, Nat)
  <2>1. Bad \subseteq Nat /\ Bad # {} BY <1>2
  <2> HIDE DEF Bad
  <2> QED BY <2>1, WFMin, NatLessThanWellFounded, Zenon
<1>4. k \in Nat /\ \A j \in Bad : ~(j < k) BY <1>3 DEF OpToRel
<1>5. k - 1 \in Nat
  <2>1. PICK u \in C : u <= k BY <1>3
  <2> QED BY <1>4, <2>1
<1>6. Part(k - 1) = {} \/ Good(k - 1)
  <2>1. k - 1 < k /\ k - 1 \in Nat BY <1>4, <1>5
  <2>2. k - 1 \notin Bad BY <1>4, <2>1
  <2> HIDE DEF Part, Good
  <2> QED BY <2>1, <2>2
<1>7. \A v \in C : v <= k <=> v <= k - 1 \/ v = k BY <1>4
<1>8. CASE k \notin C
  <2>1. Part(k) = Part(k - 1) BY <1>7, <1>8
  <2> QED BY <1>3, <1>6, <2>1
<1>9. CASE k \in C
  <2>1. Part(k) = Part(k - 1) \cup {k} BY <1>7, <1>9, <1>4
  <2>2. CASE Part(k - 1) = {}
    <3>1. Part(k) = {k} BY <2>1, <2>2
    <3>2. Good(k) BY <3>1, <1>9
    <3> QED BY <3>2, <1>3
  <2>3. CASE Good(k - 1)
    <3>1. PICK u \in Part(k - 1) : \A v \in Part(k - 1) : f[v] <= f[u] BY <2>3
    <3>2. u \in C /\ f[u] \in Int /\ f[k] \in Int /\ \A v \in C : f[v] \in Int BY <1>9, <3>1
    <3>3. CASE f[k] <= f[u]
      <4>1. u \in Part(k) /\ \A v \in Part(k) : f[v] <= f[u] BY <2>1, <3>1, <3>3
      <4> QED BY <4>1, <1>3
    <3>4. CASE ~(f[k] <= f[u])
      <4>1. k \in Part(k) BY <2>1
      <4>2. \A v \in Part(k) : f[v] <= f[k]
        <5> SUFFICES ASSUME NEW v \in Part(k) PROVE f[v] <= f[k] OBVIOUS
        <5>1. CASE v = k BY <5>1, <3>2
        <5>2. CASE v \in Part(k - 1)
          <6>1. f[v] <= f[u] /\ f[v] \in Int BY <3>1, <3>2, <5>2
          <6> HIDE DEF Part
          <6> QED BY <6>1, <3>2, <3>4
        <5> HIDE DEF Part
        <5> QED BY <2>1, <5>1, <5>2
      <4> QED BY <4>1, <4>2, <1>3
    <3> QED BY <3>3, <3>4
  <2> QED BY <1>6, <2>2, <2>3
<1> QED BY <1>8, <1>9

\* ... and a non-empty set of numbers a least element.
LEMMA LeastExists ==
  ASSUME NEW n \in Nat, NEW C \in SUBSET (1..n), C # {}
  PROVE  \E u \in C : \A v \in C : u <= v
<1> DEFINE f == [u \in C |-> 0 - u]
<1>1. f \in [C -> Int] OBVIOUS
<1>2. PICK u \in C : \A v \in C : f[v] <= f[u] BY <1>1, GreatestExists
<1>3. \A v \in C : u <= v BY <1>2
<1> QED BY <1>3

-----------------------------------------------------------------------------
(* The cooldown.                                                             *)

\* K is what a cooldown of c seconds leaves of the peaks M.
Leaves(K, M, c) == \A p \in M : p \in K <=> \A u \in M : u < p /\ p - u <= c => u \notin K

\* Which peaks a set keeps is settled from the earliest on.
LEMMA CoolingExists ==
  ASSUME NEW n \in Nat, NEW M \in SUBSET (1..n), NEW c \in Nat
  PROVE  \E K \in SUBSET M : Leaves(K, M, c)
<1> DEFINE Part(k) == {u \in M : u <= k}
           Keeps(K, k) == \A p \in Part(k) :
              p \in K <=> \A u \in M : u < p /\ p - u <= c => u \notin K
           Good(k) == \E K \in SUBSET Part(k) : Keeps(K, k)
           Bad == {k \in Nat : ~Good(k)}
<1>0. \A u \in M : u \in Nat /\ 0 < u /\ u <= n OBVIOUS
<1>1. Part(n) = M BY <1>0
<1>2. SUFFICES ASSUME n \in Bad PROVE FALSE BY <1>1 DEF Leaves
<1>3. PICK k \in Bad : \A j \in Bad : <<j, k>> \notin OpToRel(<, Nat)
  <2>1. Bad \subseteq Nat /\ Bad # {} BY <1>2
  <2> HIDE DEF Bad
  <2> QED BY <2>1, WFMin, NatLessThanWellFounded, Zenon
<1>4. k \in Nat /\ ~Good(k) /\ \A j \in Bad : ~(j < k) BY <1>3 DEF OpToRel
<1>5. k # 0
  <2>1. \A u \in M : ~(u <= 0) BY <1>0
  <2>3. Part(0) = {} BY <2>1
  <2>2. Good(0) BY <2>3
  <2> QED BY <2>2, <1>4
<1>6. k - 1 \in Nat /\ Good(k - 1) BY <1>4, <1>5
<1>7. PICK K \in SUBSET Part(k - 1) : Keeps(K, k - 1) BY <1>6
<1> DEFINE new == {p \in M : p = k /\ \A u \in M : u < p /\ p - u <= c => u \notin K}
           L == K \cup new
<1>8. \A v \in M : v \in Nat /\ (v <= k <=> v <= k - 1 \/ v = k) BY <1>4
<1>9. L \in SUBSET Part(k) BY <1>8, <1>7, <1>4
<1>10. \A u \in M : u < k => (u \in L <=> u \in K) BY <1>4
<1>11. ASSUME NEW p \in Part(k)
       PROVE  p \in L <=> \A u \in M : u < p /\ p - u <= c => u \notin L
  <2>1. p \in M /\ p \in Nat /\ p <= k BY <1>8
  <2>2. \A u \in M : u < p => u < k BY <2>1, <1>4, <1>8
  <2>3. (\A u \in M : u < p /\ p - u <= c => u \notin L)
        <=> (\A u \in M : u < p /\ p - u <= c => u \notin K)
    <3> HIDE DEF L
    <3> QED BY <2>2, <1>10
  <2>4. CASE p <= k - 1
    <3>1. p \in Part(k - 1) /\ p # k BY <2>1, <2>4, <1>4
    <3>2. p \in L <=> p \in K BY <3>1
    <3> HIDE DEF L
    <3> QED BY <3>1, <3>2, <1>7, <2>3
  <2>5. CASE p = k
    <3>1. p \notin K BY <1>7, <1>4, <2>5
    <3>2. p \in L <=> \A u \in M : u < p /\ p - u <= c => u \notin K
      BY <2>1, <2>5, <3>1
    <3> HIDE DEF L
    <3> QED BY <3>2, <2>3
  <2> QED BY <2>1, <2>4, <2>5, <1>8
<1>12. Keeps(L, k) BY <1>11
<1> HIDE DEF L, Keeps
<1> QED BY <1>4, <1>9, <1>12

\* A peak is kept exactly when none that was kept is too near before it.
LEMMA CooledFacts ==
  ASSUME NEW n \in Nat, NEW M \in SUBSET (1..n), NEW t, t.cooldown \in Nat
  PROVE  /\ Cooled(M, t) \subseteq M
         /\ \A p \in M : p \in Cooled(M, t)
              <=> \A u \in M : u < p /\ p - u <= t.cooldown => u \notin Cooled(M, t)
<1>1. PICK c \in Nat : c = t.cooldown OBVIOUS
<1>2. PICK K \in SUBSET M : \A p \in M :
        p \in K <=> \A u \in M : u < p /\ p - u <= c => u \notin K
  <2>1. \E K \in SUBSET M : Leaves(K, M, c) BY CoolingExists, Zenon
  <2> QED BY <2>1 DEF Leaves
<1> DEFINE Solves(f) ==
      f = [p \in M |-> \A u \in M : u < p /\ p - u <= t.cooldown => ~f[u]]
           kept == CHOOSE f : Solves(f)
           g == [p \in M |-> p \in K]
<1>3. \A p \in M : g[p] = (\A u \in M : u < p /\ p - u <= t.cooldown => ~g[u])
  <2> TAKE p \in M
  <2>1. g[p] = (p \in K) OBVIOUS
  <2>2. (\A u \in M : u < p /\ p - u <= t.cooldown => ~g[u])
        <=> (\A u \in M : u < p /\ p - u <= t.cooldown => u \notin K)
    OBVIOUS
  <2>3. (p \in K) <=> (\A u \in M : u < p /\ p - u <= t.cooldown => ~g[u]) BY <1>1, <1>2, <2>2
  <2> DEFINE all == \A u \in M : u < p /\ p - u <= t.cooldown => ~g[u]
  <2>4. all \in BOOLEAN OBVIOUS
  <2>5. (p \in K) \in BOOLEAN OBVIOUS
  <2>6. (p \in K) = all BY <2>3, <2>4, <2>5
  <2> HIDE DEF g, all
  <2>7. g[p] = all BY <2>1, <2>6, Zenon
  <2> QED BY <2>7 DEF all
<1>4. Solves(g) BY <1>3, Zenon
<1>5. Solves(kept)
  <2> HIDE DEF Solves
  <2> QED BY <1>4, Zenon
<1>6. \A p \in M : kept[p] = (\A u \in M : u < p /\ p - u <= t.cooldown => ~kept[u])
  <2> HIDE DEF kept
  <2>1. Solves(kept) BY <1>5
  <2> QED BY <2>1, Zenon
<1>7. Cooled(M, t) = {p \in M : kept[p]} BY DEF Cooled
<1>8. \A p \in M : p \in Cooled(M, t) <=> kept[p] BY <1>7, Zenon
<1> HIDE DEF kept
<1>9. Cooled(M, t) \subseteq M BY <1>7
<1> QED BY <1>6, <1>8, <1>9, Zenon

-----------------------------------------------------------------------------
(* Levels and baselines.                                                     *)

Telemetry(S, n) == n \in Nat /\ DOMAIN S \subseteq 1..n /\ \A u \in DOMAIN S : S[u] \in Int

TuningType ==
  [window : Nat \ {0}, min_samples : Nat \ {0}, rise : Nat, floor : Int, merge : Nat \ {0},
   cooldown : Nat]

LEMMA TrailingFinite ==
  ASSUME NEW n, NEW S, Telemetry(S, n), NEW W \in SUBSET DOMAIN S
  PROVE  IsFiniteSet(W) /\ Cardinality(W) \in Nat /\ (W = {} <=> Cardinality(W) = 0)
<1>1. n \in Nat /\ W \in SUBSET (1..n) BY DEF Telemetry
<1>2. IsFiniteSet(1..n) BY <1>1, FS_Interval
<1>3. IsFiniteSet(W) BY <1>1, <1>2, FS_Subset
<1> QED BY <1>3, FS_CardinalityType, FS_EmptySet

\* What TwiceMedian adds up.
AtMost(S, W, v) == Cardinality({u \in W : S[u] <= v})
AtLeast(S, W, v) == Cardinality({u \in W : S[u] >= v})
IsLower(S, W, v) ==
  /\ 2 * AtMost(S, W, v) >= Cardinality(W)
  /\ \A u \in W : 2 * AtMost(S, W, S[u]) >= Cardinality(W) => v <= S[u]
IsUpper(S, W, v) ==
  /\ 2 * AtLeast(S, W, v) >= Cardinality(W)
  /\ \A u \in W : 2 * AtLeast(S, W, S[u]) >= Cardinality(W) => v >= S[u]

LEMMA LowerExists ==
  ASSUME NEW n, NEW S, Telemetry(S, n), NEW W \in SUBSET DOMAIN S, W # {}
  PROVE  \E u \in W : IsLower(S, W, S[u])
<1>1. n \in Nat /\ W \in SUBSET (1..n) /\ \A u \in W : S[u] \in Int BY DEF Telemetry
<1>2. Cardinality(W) \in Nat BY TrailingFinite
<1> DEFINE V == {u \in W : 2 * AtMost(S, W, S[u]) >= Cardinality(W)}
           f == [u \in V |-> 0 - S[u]]
           g == [u \in W |-> S[u]]
<1>3. V # {}
  <2>1. g \in [W -> Int] BY <1>1
  <2>2. PICK u \in W : \A v \in W : g[v] <= g[u] BY <1>1, <2>1, GreatestExists
  <2>3. {v \in W : S[v] <= S[u]} = W BY <2>2
  <2>4. AtMost(S, W, S[u]) = Cardinality(W) BY <2>3 DEF AtMost
  <2>5. u \in V BY <2>4, <1>2
  <2> QED BY <2>5
<1>4. f \in [V -> Int] BY <1>1
<1>5. V \in SUBSET (1..n) BY <1>1
<1> HIDE DEF V
<1>6. PICK u \in V : \A v \in V : f[v] <= f[u] BY <1>1, <1>3, <1>4, <1>5, GreatestExists
<1>7. \A v \in V : S[u] <= S[v]
  <2>1. V \subseteq W BY DEF V
  <2> QED BY <1>1, <1>6, <2>1
<1> QED BY <1>6, <1>7 DEF IsLower, V

LEMMA UpperExists ==
  ASSUME NEW n, NEW S, Telemetry(S, n), NEW W \in SUBSET DOMAIN S, W # {}
  PROVE  \E u \in W : IsUpper(S, W, S[u])
<1>1. n \in Nat /\ W \in SUBSET (1..n) /\ \A u \in W : S[u] \in Int BY DEF Telemetry
<1>2. Cardinality(W) \in Nat BY TrailingFinite
<1> DEFINE V == {u \in W : 2 * AtLeast(S, W, S[u]) >= Cardinality(W)}
           f == [u \in V |-> S[u]]
           g == [u \in W |-> 0 - S[u]]
<1>3. V # {}
  <2>1. g \in [W -> Int] BY <1>1
  <2>2. PICK u \in W : \A v \in W : g[v] <= g[u] BY <1>1, <2>1, GreatestExists
  <2>3. \A v \in W : S[v] >= S[u] BY <1>1, <2>2
  <2>4. {v \in W : S[v] >= S[u]} = W BY <2>3
  <2>5. AtLeast(S, W, S[u]) = Cardinality(W) BY <2>4 DEF AtLeast
  <2>6. u \in V BY <2>5, <1>2
  <2> QED BY <2>6
<1>4. f \in [V -> Int] BY <1>1
<1>5. V \in SUBSET (1..n) BY <1>1
<1> HIDE DEF V
<1>6. PICK u \in V : \A v \in V : f[v] <= f[u] BY <1>1, <1>3, <1>4, <1>5, GreatestExists
<1>7. \A v \in V : S[u] >= S[v]
  <2>1. V \subseteq W BY DEF V
  <2> QED BY <1>1, <1>6, <2>1
<1> QED BY <1>6, <1>7 DEF IsUpper, V

\* The median of a baseline that is not empty is the sum of its two middle values.
LEMMA MedianFacts ==
  ASSUME NEW n, NEW S, Telemetry(S, n), NEW W \in SUBSET DOMAIN S, W # {}
  PROVE  \E a, b \in W : /\ TwiceMedian(S, W) = S[a] + S[b]
                         /\ IsLower(S, W, S[a]) /\ IsUpper(S, W, S[b])
<1> DEFINE V == {S[u] : u \in W}
           lower == CHOOSE v \in V : IsLower(S, W, v)
           upper == CHOOSE v \in V : IsUpper(S, W, v)
<1>1. \E v \in V : IsLower(S, W, v) BY LowerExists
<1>2. \E v \in V : IsUpper(S, W, v) BY UpperExists
<1>3. TwiceMedian(S, W) = lower + upper
  BY DEF TwiceMedian, IsLower, IsUpper, AtMost, AtLeast
<1>4. lower \in V /\ IsLower(S, W, lower)
  <2> HIDE DEF V
  <2> QED BY <1>1, Zenon
<1>5. upper \in V /\ IsUpper(S, W, upper)
  <2> HIDE DEF V
  <2> QED BY <1>2, Zenon
<1> HIDE DEF lower, upper
<1>6. PICK a \in W : lower = S[a] BY <1>4
<1>7. PICK b \in W : upper = S[b] BY <1>5
<1> QED BY <1>3, <1>4, <1>5, <1>6, <1>7

\* The median depends on the samples of the baseline only.
LEMMA SameMedian ==
  ASSUME NEW n, NEW S, Telemetry(S, n), NEW H, Telemetry(H, n),
         NEW W \in SUBSET DOMAIN S, W # {}, W \subseteq DOMAIN H, \A u \in W : S[u] = H[u]
  PROVE  TwiceMedian(S, W) = TwiceMedian(H, W)
<1>1. PICK a, b \in W : /\ TwiceMedian(S, W) = S[a] + S[b]
                        /\ IsLower(S, W, S[a]) /\ IsUpper(S, W, S[b])
  BY MedianFacts
<1>2. PICK c, d \in W : /\ TwiceMedian(H, W) = H[c] + H[d]
                        /\ IsLower(H, W, H[c]) /\ IsUpper(H, W, H[d])
  BY MedianFacts
<1>3. \A v : AtMost(S, W, v) = AtMost(H, W, v) /\ AtLeast(S, W, v) = AtLeast(H, W, v)
  <2> TAKE v
  <2>1. /\ {u \in W : S[u] <= v} = {u \in W : H[u] <= v}
        /\ {u \in W : S[u] >= v} = {u \in W : H[u] >= v}
    OBVIOUS
  <2> QED BY <2>1 DEF AtMost, AtLeast
<1>4. \A u \in W : S[u] = H[u] /\ S[u] \in Int BY DEF Telemetry
<1>5. S[a] <= H[c] /\ H[c] <= S[a] BY <1>1, <1>2, <1>3, <1>4 DEF IsLower
<1>6. S[b] >= H[d] /\ H[d] >= S[b] BY <1>1, <1>2, <1>3, <1>4 DEF IsUpper
<1> QED BY <1>1, <1>2, <1>4, <1>5, <1>6

-----------------------------------------------------------------------------
(* Crossings, clusters and their strongest.                                  *)

LEMMA CrossingFacts ==
  ASSUME NEW n, NEW S, Telemetry(S, n), NEW t \in TuningType
  PROVE  /\ Crossings(S, t) \in SUBSET (1..n) /\ Crossings(S, t) \subseteq DOMAIN S
         /\ \A u \in Crossings(S, t) : u \in Int /\ S[u] \in Int /\ TwiceRise(S, u, t) \in Int
<1>1. DOMAIN S \subseteq 1..n /\ n \in Nat /\ \A u \in DOMAIN S : S[u] \in Int BY DEF Telemetry
<1>2. Crossings(S, t) \subseteq DOMAIN S BY DEF Crossings
<1>3. ASSUME NEW u \in Crossings(S, t) PROVE TwiceRise(S, u, t) \in Int
  <2> DEFINE W == Trailing(S, u, t)
  <2>1. W \in SUBSET DOMAIN S BY DEF Trailing
  <2>2. Cardinality(W) >= t.min_samples /\ t.min_samples \in Nat \ {0}
    BY DEF Crossings, TuningType
  <2> HIDE DEF W
  <2>3. W # {} BY <2>1, <2>2, TrailingFinite
  <2>4. \E a, b \in W : TwiceMedian(S, W) = S[a] + S[b] BY <2>1, <2>3, MedianFacts
  <2>5. TwiceMedian(S, W) \in Int BY <1>1, <2>1, <2>4
  <2>6. S[u] \in Int BY <1>1, <1>2
  <2> QED BY <2>5, <2>6 DEF TwiceRise, W
<1>4. \A u \in Crossings(S, t) : u \in Int /\ S[u] \in Int BY <1>1, <1>2
<1> QED BY <1>1, <1>2, <1>3, <1>4

\* S and H hold the same samples from lo to hi.
Alike(S, H, lo, hi) ==
  \A u \in Int : lo <= u /\ u <= hi =>
    (u \in DOMAIN S <=> u \in DOMAIN H) /\ (u \in DOMAIN S => S[u] = H[u])

\* Whether a second is a crossing is decided by the samples of its window.
LEMMA SameCrossing ==
  ASSUME NEW n, NEW S, Telemetry(S, n), NEW H, Telemetry(H, n), NEW t \in TuningType,
         NEW lo \in Int, NEW hi \in Int, Alike(S, H, lo, hi),
         NEW u \in Int, lo <= u - t.window, u <= hi
  PROVE  /\ u \in Crossings(S, t) <=> u \in Crossings(H, t)
         /\ u \in Crossings(S, t) => S[u] = H[u] /\ TwiceRise(S, u, t) = TwiceRise(H, u, t)
<1>1. t.window \in Nat \ {0} /\ t.min_samples \in Nat \ {0} BY DEF TuningType
<1>2. u \in DOMAIN S <=> u \in DOMAIN H BY <1>1 DEF Alike
<1>3. u \in DOMAIN S => S[u] = H[u] BY <1>1 DEF Alike
<1>4. \A v \in Int : u - t.window <= v /\ v < u => lo <= v /\ v <= hi BY <1>1
<1>5. \A v \in DOMAIN S \cup DOMAIN H : v \in Int BY DEF Telemetry
<1> DEFINE W == Trailing(S, u, t)
<1>6. Trailing(H, u, t) = W BY <1>4, <1>5 DEF Trailing, Alike
<1>7. \A v \in W : S[v] = H[v] BY <1>4, <1>5 DEF Trailing, Alike
<1>8. W \in SUBSET DOMAIN S /\ W \subseteq DOMAIN H BY <1>6 DEF Trailing
<1>9. Cardinality(W) >= t.min_samples => W # {}
  <2> HIDE DEF W
  <2> QED BY <1>1, <1>8, TrailingFinite
<1>10. W # {} => TwiceMedian(S, W) = TwiceMedian(H, W)
  <2> HIDE DEF W
  <2> QED BY <1>7, <1>8, SameMedian
<1>11. u \in DOMAIN S /\ W # {} => TwiceRise(S, u, t) = TwiceRise(H, u, t)
  BY <1>3, <1>6, <1>10 DEF TwiceRise
<1> QED BY <1>2, <1>3, <1>6, <1>9, <1>11 DEF Crossings

\* The order in which max() compares the crossings of a cluster.
Beats(S, t, p, u) ==
  \/ TwiceRise(S, p, t) > TwiceRise(S, u, t)
  \/ TwiceRise(S, p, t) = TwiceRise(S, u, t) /\ S[p] > S[u]
  \/ TwiceRise(S, p, t) = TwiceRise(S, u, t) /\ S[p] = S[u] /\ p <= u

LEMMA BeatsOneWay ==
  ASSUME NEW n, NEW S, Telemetry(S, n), NEW t \in TuningType,
         NEW p \in Crossings(S, t), NEW u \in Crossings(S, t),
         Beats(S, t, p, u), Beats(S, t, u, p)
  PROVE  p = u
<1>1. /\ p \in Int /\ S[p] \in Int /\ TwiceRise(S, p, t) \in Int
      /\ u \in Int /\ S[u] \in Int /\ TwiceRise(S, u, t) \in Int
  BY CrossingFacts
<1> QED BY <1>1 DEF Beats

\* A cluster has a strongest crossing.
LEMMA StrongestFacts ==
  ASSUME NEW n, NEW S, Telemetry(S, n), NEW t \in TuningType,
         NEW C \in SUBSET Crossings(S, t), C # {}
  PROVE  Strongest(S, C, t) \in C /\ \A u \in C : Beats(S, t, Strongest(S, C, t), u)
<1>1. /\ n \in Nat /\ C \in SUBSET (1..n)
      /\ \A u \in C : u \in Int /\ S[u] \in Int /\ TwiceRise(S, u, t) \in Int
  BY CrossingFacts DEF Telemetry
<1> DEFINE rise == [u \in C |-> TwiceRise(S, u, t)]
<1>2. rise \in [C -> Int] BY <1>1
<1>3. PICK a \in C : \A v \in C : rise[v] <= rise[a] BY <1>1, <1>2, GreatestExists
<1> DEFINE A == {u \in C : rise[u] = rise[a]}
           level == [u \in A |-> S[u]]
<1>4. A \in SUBSET (1..n) /\ A # {} /\ level \in [A -> Int] BY <1>1
<1> HIDE DEF A
<1>5. PICK b \in A : \A v \in A : level[v] <= level[b] BY <1>1, <1>4, GreatestExists
<1> DEFINE B == {u \in A : level[u] = level[b]}
<1>6. B \in SUBSET (1..n) /\ B # {} BY <1>4
<1> HIDE DEF B
<1>7. PICK p \in B : \A v \in B : p <= v BY <1>1, <1>6, LeastExists
<1>8. p \in C /\ p \in A BY <1>7 DEF A, B
<1>9. \A u \in C : TwiceRise(S, u, t) <= TwiceRise(S, p, t)
  BY <1>3, <1>8 DEF A
<1>10. \A u \in C : TwiceRise(S, u, t) = TwiceRise(S, p, t) => u \in A
  BY <1>8 DEF A
<1>11. \A u \in A : S[u] <= S[p] BY <1>5, <1>7 DEF B
<1>12. \A u \in A : S[u] = S[p] => p <= u BY <1>5, <1>7, <1>8 DEF B
<1>13. \A u \in C : Beats(S, t, p, u)
  <2> SUFFICES ASSUME NEW u \in C PROVE Beats(S, t, p, u) OBVIOUS
  <2>1. /\ S[u] \in Int /\ TwiceRise(S, u, t) \in Int /\ S[p] \in Int /\ TwiceRise(S, p, t) \in Int
        /\ u \in Int /\ p \in Int
    BY <1>1, <1>8
  <2> HIDE DEF rise, level
  <2> QED BY <2>1, <1>9, <1>10, <1>11, <1>12 DEF Beats
<1>14. Strongest(S, C, t) = CHOOSE q \in C : \A u \in C : Beats(S, t, q, u)
  BY DEF Strongest, Beats
<1>15. \E q \in C : \A u \in C : Beats(S, t, q, u) BY <1>8, <1>13
<1> QED BY <1>14, <1>15

\* Two crossings that are not more than the merge window apart are in one cluster.
LEMMA SameCluster ==
  ASSUME NEW X \in SUBSET Int, NEW t \in TuningType, NEW o \in Openings(X, t),
         NEW q \in Cluster(X, o, t), NEW p \in X, Distance(p, q) <= t.merge
  PROVE  p \in Cluster(X, o, t)
<1>1. t.merge \in Nat BY DEF TuningType
<1>2. /\ q \in X /\ q \in Int /\ p \in Int /\ o \in X /\ o \in Int /\ o <= q
      /\ \A m \in Openings(X, t) : m <= q => m <= o
  BY DEF Cluster, Openings
<1>3. p - q <= t.merge /\ q - p <= t.merge BY <1>1, <1>2 DEF Distance
<1>4. p >= o
  <2> SUFFICES ASSUME p < o PROVE FALSE BY <1>2
  <2>1. o - p > t.merge BY DEF Openings
  <2> QED BY <1>1, <1>2, <1>3, <2>1
<1>5. ASSUME NEW m \in Openings(X, t), m <= p PROVE m <= o
  <2>1. m \in X /\ m \in Int /\ \A u \in X : u < m => m - u > t.merge BY DEF Openings
  <2> SUFFICES ASSUME ~(m <= q) PROVE FALSE BY <1>2
  <2>2. m - q > t.merge BY <1>2, <2>1
  <2> QED BY <1>1, <1>2, <1>3, <1>5, <2>1, <2>2
<1> QED BY <1>4, <1>5 DEF Cluster

\* A crossing is in one cluster only.
LEMMA OneCluster ==
  ASSUME NEW X \in SUBSET Int, NEW t, NEW o \in Openings(X, t), NEW m \in Openings(X, t),
         NEW u \in Cluster(X, o, t), u \in Cluster(X, m, t)
  PROVE  o = m
<1>1. o \in Int /\ m \in Int /\ o <= u /\ m <= u BY DEF Openings, Cluster
<1>2. m <= o /\ o <= m BY <1>1 DEF Cluster
<1> QED BY <1>1, <1>2

\* Every peak is the strongest crossing of a cluster.
LEMMA PeakFacts ==
  ASSUME NEW n, NEW S, Telemetry(S, n), NEW t \in TuningType
  PROVE  LET X == Crossings(S, t)
             M == {Strongest(S, Cluster(X, o, t), t) : o \in Openings(X, t)}
         IN  /\ M \in SUBSET (1..n) /\ AdaptivePeaksOf(S, t) \subseteq M
             /\ AdaptivePeaksOf(S, t) = Cooled(M, t)
             /\ \A p \in M : p \in X /\ \E o \in Openings(X, t) :
                  p \in Cluster(X, o, t) /\ \A u \in Cluster(X, o, t) : Beats(S, t, p, u)
<1> DEFINE X == Crossings(S, t)
           M == {Strongest(S, Cluster(X, o, t), t) : o \in Openings(X, t)}
<1>1. n \in Nat /\ X \in SUBSET (1..n) /\ X \in SUBSET Int BY CrossingFacts DEF Telemetry
<1>2. ASSUME NEW o \in Openings(X, t)
      PROVE  LET p == Strongest(S, Cluster(X, o, t), t) IN
             p \in Cluster(X, o, t) /\ p \in X /\ \A u \in Cluster(X, o, t) : Beats(S, t, p, u)
  <2>1. o \in Cluster(X, o, t) BY <1>1 DEF Openings, Cluster
  <2>2. Cluster(X, o, t) \in SUBSET X BY DEF Cluster
  <2> QED BY <2>1, <2>2, StrongestFacts
<1>3. AdaptivePeaksOf(S, t) = Cooled(M, t) BY DEF AdaptivePeaksOf
<1> HIDE DEF X
<1>4. M \in SUBSET (1..n) BY <1>1, <1>2
<1>5. \A p \in M : p \in X /\ \E o \in Openings(X, t) :
        p \in Cluster(X, o, t) /\ \A u \in Cluster(X, o, t) : Beats(S, t, p, u)
  BY <1>2
<1>6. t.cooldown \in Nat BY DEF TuningType
<1> HIDE DEF M
<1>7. Cooled(M, t) \subseteq M BY <1>1, <1>4, <1>6, CooledFacts
<1> QED BY <1>3, <1>4, <1>5, <1>7 DEF M, X

-----------------------------------------------------------------------------
(* A peak that stands alone, and the scans that see it.                      *)

\* LonePeaks, with the cluster named by its opening.
AloneIn(H, t, p, o) ==
  LET X == Crossings(H, t)
      C == Cluster(X, o, t)
  IN  /\ p \in AdaptivePeaksOf(H, t) /\ o \in Openings(X, t) /\ p \in C
      /\ \A u \in C : p - u <= t.cooldown /\ Distance(p, u) <= t.merge
      /\ \A u \in C, v \in X \ C : Distance(u, v) > t.cooldown + t.merge

LEMMA AloneFacts ==
  ASSUME NEW n, NEW H, Telemetry(H, n), NEW t \in TuningType, NEW p, NEW o, AloneIn(H, t, p, o)
  PROVE  /\ p \in Crossings(H, t) /\ p \in Int /\ o \in Int /\ o <= p
         /\ \A u \in Cluster(Crossings(H, t), o, t) : Beats(H, t, p, u)
<1> DEFINE X == Crossings(H, t)
<1>1. p \in AdaptivePeaksOf(H, t) /\ o \in Openings(X, t) /\ p \in Cluster(X, o, t)
  BY DEF AloneIn
<1>2. X \in SUBSET Int BY CrossingFacts
<1>3. PICK m \in Openings(X, t) : p \in Cluster(X, m, t) /\ \A u \in Cluster(X, m, t) : Beats(H, t, p, u)
  BY <1>1, PeakFacts
<1> HIDE DEF X
<1>4. m = o BY <1>1, <1>2, <1>3, OneCluster
<1> QED BY <1>1, <1>2, <1>3, <1>4 DEF Cluster, Openings, X

\* What a scan sees of a lone peak is no other peak near it: a peak that is found near
\* it, from the same samples, is the lone peak itself.
LEMMA NoOtherPeak ==
  ASSUME NEW n, NEW H, Telemetry(H, n), NEW S, Telemetry(S, n), NEW t \in TuningType,
         NEW p, NEW o, AloneIn(H, t, p, o),
         NEW q \in AdaptivePeaksOf(S, t), Distance(p, q) <= t.cooldown + t.merge,
         q \in Crossings(H, t), p \in Crossings(S, t),
         \A u \in {p, q} : S[u] = H[u] /\ TwiceRise(S, u, t) = TwiceRise(H, u, t)
  PROVE  q = p
<1> DEFINE X == Crossings(H, t)
           C == Cluster(X, o, t)
           Y == Crossings(S, t)
<1>1. p \in C /\ \A u \in C : Beats(H, t, p, u) BY AloneFacts DEF AloneIn
<1>2. Y \in SUBSET Int /\ p \in Int BY CrossingFacts, AloneFacts
<1>3. q \in C
  <2> SUFFICES ASSUME q \notin C PROVE FALSE OBVIOUS
  <2>1. Distance(p, q) > t.cooldown + t.merge BY <1>1 DEF AloneIn
  <2>2. Distance(p, q) \in Int /\ t.cooldown + t.merge \in Int
    <3>1. q \in Int BY CrossingFacts
    <3> QED BY <1>2, <3>1 DEF Distance, TuningType
  <2> QED BY <2>1, <2>2
<1>4. q \in Y /\ \E m \in Openings(Y, t) :
        q \in Cluster(Y, m, t) /\ \A u \in Cluster(Y, m, t) : Beats(S, t, q, u)
  BY PeakFacts
<1>5. PICK m \in Openings(Y, t) :
        q \in Cluster(Y, m, t) /\ \A u \in Cluster(Y, m, t) : Beats(S, t, q, u)
  BY <1>4
<1>6. Distance(p, q) <= t.merge BY <1>3 DEF AloneIn
<1> HIDE DEF X, C, Y
<1>7. p \in Cluster(Y, m, t) BY <1>2, <1>5, <1>6, SameCluster DEF Y
<1>8. Beats(S, t, q, p) BY <1>5, <1>7
<1>9. Beats(S, t, p, q) BY <1>1, <1>3 DEF Beats
<1> QED BY <1>4, <1>8, <1>9, BeatsOneWay DEF Y

\* A scan that has the lone peak's crossings and none it lacks from z on, where z lies
\* well before the peak, finds the peak.
LEMMA LonePeakFound ==
  ASSUME NEW n, NEW H, Telemetry(H, n), NEW S, Telemetry(S, n), NEW t \in TuningType,
         NEW p, NEW o, AloneIn(H, t, p, o),
         NEW z \in Int, z < p - t.cooldown - t.merge,
         \A u \in Crossings(S, t) :
           z <= u /\ u <= p + t.cooldown + 2 * t.merge => u \in Crossings(H, t),
         \A u \in Cluster(Crossings(H, t), o, t) :
           u \in Crossings(S, t) /\ S[u] = H[u] /\ TwiceRise(S, u, t) = TwiceRise(H, u, t)
  PROVE  p \in AdaptivePeaksOf(S, t)
<1> DEFINE X == Crossings(H, t)
           C == Cluster(X, o, t)
           Y == Crossings(S, t)
           D == Cluster(Y, o, t)
           M == {Strongest(S, Cluster(Y, m, t), t) : m \in Openings(Y, t)}
<1>1. /\ p \in C /\ p \in Int /\ o \in Int /\ o <= p /\ \A u \in C : Beats(H, t, p, u)
      /\ o \in Openings(X, t)
  BY AloneFacts DEF AloneIn
<1>2. X \in SUBSET Int /\ Y \in SUBSET Int /\ n \in Nat /\ Y \in SUBSET (1..n)
  BY CrossingFacts DEF Telemetry
<1>3. t.merge \in Nat \ {0} /\ t.cooldown \in Nat BY DEF TuningType
<1>4. o \in C BY <1>1, <1>2 DEF Openings, Cluster
<1>5. \A u \in C : p - u <= t.cooldown /\ p - u <= t.merge /\ u - p <= t.merge /\ o <= u /\ u \in Int
  <2> TAKE u \in C
  <2>1. p - u <= t.cooldown /\ Distance(p, u) <= t.merge BY DEF AloneIn
  <2>2. u \in Int /\ o <= u BY <1>2 DEF Cluster
  <2> HIDE DEF C
  <2> QED BY <1>1, <1>3, <2>1, <2>2 DEF Distance
<1>6. \A u \in C, v \in X \ C : u - v > t.cooldown + t.merge \/ v - u > t.cooldown + t.merge
  <2> TAKE u \in C, v \in X \ C
  <2>1. Distance(u, v) > t.cooldown + t.merge BY DEF AloneIn
  <2>2. u \in Int /\ v \in Int BY <1>2, <1>5
  <2> HIDE DEF C, X
  <2> QED BY <1>3, <2>1, <2>2 DEF Distance
<1>7. \A u \in Y : z <= u /\ u <= p + t.cooldown + 2 * t.merge => u \in X OBVIOUS
<1>8. C \subseteq Y OBVIOUS
<1>9. \A u \in C : S[u] = H[u] /\ TwiceRise(S, u, t) = TwiceRise(H, u, t) OBVIOUS
<1> HIDE DEF X, C, Y, D, M
\* Nothing that is seen before the cluster touches it.
<1>10. o \in Openings(Y, t)
  <2> SUFFICES ASSUME NEW v \in Y, v < o PROVE o - v > t.merge
    BY <1>4, <1>8 DEF Openings
  <2>1. v \in Int /\ v \notin C BY <1>2, <1>5, <1>1
  <2>2. CASE v < z BY <1>1, <1>3, <1>4, <1>5, <2>1, <2>2
  <2>3. CASE z <= v
    <3>1. v \in X \ C BY <1>1, <1>3, <1>7, <2>1, <2>3
    <3> QED BY <1>1, <1>3, <1>4, <1>6, <2>1, <3>1
  <2> QED BY <1>1, <2>1, <2>2, <2>3
\* Its cluster, as it is seen, is no larger.
<1>11. ASSUME NEW u \in Y, o <= u, u <= p PROVE u \in C
  <2> SUFFICES ASSUME u \notin C PROVE FALSE OBVIOUS
  <2>1. u \in Int BY <1>2
  <2>2. z <= u BY <1>1, <1>3, <1>4, <1>5, <1>11, <2>1
  <2>3. u \in X \ C BY <1>1, <1>3, <1>7, <1>11, <2>1, <2>2
  <2>4. p - u > t.cooldown + t.merge \/ u - p > t.cooldown + t.merge BY <1>1, <1>6, <2>3
  <2> QED BY <1>1, <1>3, <1>4, <1>5, <1>11, <2>1, <2>4
<1>12. D \subseteq C
  <2> SUFFICES ASSUME NEW u \in D, u \notin C PROVE FALSE OBVIOUS
  <2>1. /\ u \in Y /\ u \in Int /\ o <= u /\ \A m \in Openings(Y, t) : m <= u => m <= o
    BY <1>2 DEF D, Cluster
  <2>2. u > p BY <1>1, <1>11, <2>1
  <2> DEFINE E == {v \in Y : v > p /\ v \notin C}
  <2>3. E \in SUBSET (1..n) /\ E # {} BY <1>2, <2>1, <2>2
  <2> HIDE DEF E
  <2>4. PICK e \in E : \A v \in E : e <= v BY <1>2, <2>3, LeastExists
  <2>5. e \in Y /\ e \in Int /\ e > p /\ e \notin C BY <1>2, <2>4 DEF E
  <2>6. e <= u BY <2>1, <2>2, <2>4 DEF E
  <2>7. \A c \in C : c < e => e - c > t.merge
    <3> SUFFICES ASSUME NEW c \in C, c < e PROVE e - c > t.merge OBVIOUS
    <3>1. c \in Int /\ c - p <= t.merge BY <1>5
    <3>2. CASE e <= p + t.cooldown + 2 * t.merge
      <4>1. e \in X \ C BY <1>1, <1>3, <1>7, <2>5, <3>2
      <4>2. c - e > t.cooldown + t.merge \/ e - c > t.cooldown + t.merge BY <1>6, <4>1
      <4> QED BY <1>3, <2>5, <3>1, <4>2
    <3>3. CASE e > p + t.cooldown + 2 * t.merge BY <1>1, <1>3, <2>5, <3>1, <3>3
    <3> QED BY <1>1, <1>3, <2>5, <3>2, <3>3
  <2>8. e \in Openings(Y, t)
    <3> SUFFICES ASSUME NEW v \in Y, v < e PROVE e - v > t.merge BY <2>5 DEF Openings
    <3>1. v \in Int BY <1>2
    <3>2. CASE v \in C BY <2>7, <3>2
    <3>3. CASE v \notin C
      <4>1. v <= p
        <5> SUFFICES ASSUME v > p PROVE FALSE BY <1>1, <3>1
        <5>1. v \in E BY <3>3 DEF E
        <5> QED BY <2>4, <2>5, <3>1, <5>1
      <4>2. e - p > t.merge BY <1>1, <2>5, <2>7
      <4> QED BY <1>1, <1>3, <2>5, <3>1, <4>1, <4>2
    <3> QED BY <3>2, <3>3
  <2>9. e <= o BY <2>1, <2>6, <2>8
  <2> QED BY <1>1, <2>5, <2>9
<1>13. p \in D
  <2>1. p \in Y BY <1>1, <1>8
  <2> SUFFICES ASSUME NEW m \in Openings(Y, t), m <= p PROVE m <= o BY <1>1, <2>1 DEF D, Cluster
  <2>2. m \in Y /\ m \in Int /\ \A u \in Y : u < m => m - u > t.merge BY <1>2 DEF Openings
  <2> SUFFICES ASSUME ~(m <= o) PROVE FALSE OBVIOUS
  <2>3. m - o > t.merge BY <1>1, <1>4, <1>8, <2>2
  <2> QED BY <1>1, <1>3, <1>4, <1>5, <2>2, <2>3
\* So it is the peak of its cluster ...
<1>14. \A u \in D : Beats(S, t, p, u) BY <1>1, <1>9, <1>12 DEF Beats
<1>15. p = Strongest(S, D, t)
  <2>1. D \in SUBSET Y BY DEF D, Cluster
  <2>2. Strongest(S, D, t) \in D /\ \A u \in D : Beats(S, t, Strongest(S, D, t), u)
    BY <1>13, <2>1, StrongestFacts DEF Y
  <2> QED BY <1>13, <1>14, <2>1, <2>2, BeatsOneWay DEF Y
<1>16. p \in M BY <1>10, <1>15 DEF M, D
\* ... and none that could suppress it is near.
<1>17. ASSUME NEW u \in M, u < p, p - u <= t.cooldown PROVE FALSE
  <2>1. u \in Y /\ \E m \in Openings(Y, t) :
          u \in Cluster(Y, m, t) /\ \A v \in Cluster(Y, m, t) : Beats(S, t, u, v)
    BY PeakFacts DEF M, Y
  <2>2. u \in Int BY <1>2, <2>1
  <2>3. u \in X BY <1>1, <1>3, <1>7, <1>17, <2>1, <2>2
  <2>4. u \in C
    <3> SUFFICES ASSUME u \notin C PROVE FALSE OBVIOUS
    <3>1. p - u > t.cooldown + t.merge \/ u - p > t.cooldown + t.merge BY <1>1, <1>6, <2>3
    <3> QED BY <1>1, <1>3, <1>17, <2>2, <3>1
  <2>5. PICK m \in Openings(Y, t) :
          u \in Cluster(Y, m, t) /\ \A v \in Cluster(Y, m, t) : Beats(S, t, u, v)
    BY <2>1
  <2>6. Distance(p, u) <= t.merge BY <1>1, <1>5, <1>17, <2>2, <2>4 DEF Distance
  <2>7. p \in Cluster(Y, m, t) BY <1>1, <1>2, <1>8, <2>5, <2>6, SameCluster
  <2>8. Beats(S, t, u, p) /\ Beats(S, t, p, u) BY <1>1, <1>9, <2>4, <2>5, <2>7 DEF Beats
  <2>9. u = p BY <1>1, <1>8, <2>1, <2>8, BeatsOneWay DEF Y
  <2> QED BY <1>1, <1>17, <2>9
<1>18. M \in SUBSET (1..n) /\ AdaptivePeaksOf(S, t) = Cooled(M, t) BY PeakFacts DEF M, Y
<1>19. p \in Cooled(M, t) BY <1>2, <1>3, <1>16, <1>17, <1>18, CooledFacts
<1> QED BY <1>18, <1>19

-----------------------------------------------------------------------------
(* What the peak finder promises.                                            *)

\* Two peaks of one recording are more than the cooldown apart, and a cluster's
\* strongest crossing is left out only for a peak shortly before it (peaks.py,
\* adaptive_peaks).
THEOREM PeaksAreApart ==
  ASSUME NEW n, NEW S, Telemetry(S, n), NEW t \in TuningType
  PROVE  LET X == Crossings(S, t) IN
         /\ \A p, q \in AdaptivePeaksOf(S, t) : p # q => Distance(p, q) > t.cooldown
         /\ \A o \in Openings(X, t) :
              \E p \in AdaptivePeaksOf(S, t) :
                p <= Strongest(S, Cluster(X, o, t), t)
                /\ Strongest(S, Cluster(X, o, t), t) - p <= t.cooldown
<1> DEFINE X == Crossings(S, t)
           M == {Strongest(S, Cluster(X, o, t), t) : o \in Openings(X, t)}
           K == AdaptivePeaksOf(S, t)
<1>0. n \in Nat BY DEF Telemetry
<1>1. n \in Nat /\ M \in SUBSET (1..n) /\ K \subseteq M /\ K = Cooled(M, t)
  BY <1>0, PeakFacts, Zenon
<1>2. t.cooldown \in Nat BY DEF TuningType
<1> HIDE DEF M, K
<1>3. \A p \in M : p \in K <=> \A u \in M : u < p /\ p - u <= t.cooldown => u \notin K
  BY <1>1, <1>2, CooledFacts
<1>4. \A p \in M : p \in Int BY <1>1
<1>5. ASSUME NEW p \in K, NEW q \in K, p # q PROVE Distance(p, q) > t.cooldown
  <2>1. p \in M /\ q \in M /\ p \in Int /\ q \in Int BY <1>1, <1>4
  <2> QED BY <1>2, <1>3, <1>5, <2>1 DEF Distance
<1>6. ASSUME NEW q \in M PROVE \E p \in K : p <= q /\ q - p <= t.cooldown
  <2>1. CASE q \in K BY <1>2, <1>4, <2>1
  <2>2. CASE q \notin K
    <3>1. PICK u \in M : u < q /\ q - u <= t.cooldown /\ u \in K BY <1>3, <2>2
    <3> QED BY <1>4, <3>1
  <2> QED BY <2>1, <2>2
<1>7. \A o \in Openings(X, t) : Strongest(S, Cluster(X, o, t), t) \in M BY DEF M
<1> QED BY <1>5, <1>6, <1>7 DEF K

\* Of the inside peaks that are near enough, exactly one is correlated, whatever ties
\* there are; without one, none is (peaks.py, correlate_peak).
THEOREM OneInsidePeak ==
  ASSUME NEW n, NEW S, Telemetry(S, n), NEW t \in TuningType, NEW p \in Int, NEW window \in Nat
  PROVE  LET P == AdaptivePeaksOf(S, t)
             C == CorrelatePeak(p, S, P, t, window)
         IN  IF \E u \in P : Distance(p, u) <= window
             THEN \E u \in P : Distance(p, u) <= window /\ C = {u}
             ELSE C = {}
<1> DEFINE P == AdaptivePeaksOf(S, t)
           C == CorrelatePeak(p, S, P, t, window)
           N == {u \in P : Distance(p, u) <= window}
           Better(u, v) ==
             \/ Distance(p, u) < Distance(p, v)
             \/ /\ Distance(p, u) = Distance(p, v)
                /\ \/ TwiceRise(S, u, t) > TwiceRise(S, v, t)
                   \/ TwiceRise(S, u, t) = TwiceRise(S, v, t) /\ u <= v
<1>1. C = {u \in N : \A v \in N : Better(u, v)} BY DEF CorrelatePeak
<1>2. n \in Nat /\ P \in SUBSET (1..n) /\ \A u \in P : TwiceRise(S, u, t) \in Int
  BY PeakFacts, CrossingFacts DEF Telemetry
<1>3. \A u \in P : u \in Int /\ Distance(p, u) \in Int BY <1>2 DEF Distance
<1> HIDE DEF P, C
<1>4. CASE N = {}
  <2>1. C = {} BY <1>1, <1>4
  <2>2. ~\E u \in P : Distance(p, u) <= window BY <1>4
  <2> QED BY <2>1, <2>2 DEF P, C
<1>5. CASE N # {}
  <2> DEFINE near == [u \in N |-> 0 - Distance(p, u)]
  <2>0. \A u \in N : 0 - Distance(p, u) \in Int BY <1>3
  <2>1. N \in SUBSET (1..n) /\ near \in [N -> Int] BY <1>2, <2>0
  <2> HIDE DEF N
  <2>2. PICK a \in N : \A v \in N : near[v] <= near[a] BY <1>2, <1>5, <2>1, GreatestExists
  <2> DEFINE A == {u \in N : near[u] = near[a]}
             rise == [u \in A |-> TwiceRise(S, u, t)]
  <2>3. \A u \in N : u \in P BY DEF N
  <2>4. A \in SUBSET (1..n) /\ A # {} /\ rise \in [A -> Int] BY <1>2, <2>1, <2>3
  <2> HIDE DEF A
  <2>5. PICK b \in A : \A v \in A : rise[v] <= rise[b] BY <1>2, <2>4, GreatestExists
  <2> DEFINE B == {u \in A : rise[u] = rise[b]}
  <2>6. B \in SUBSET (1..n) /\ B # {} BY <2>4
  <2> HIDE DEF B
  <2>7. PICK c \in B : \A v \in B : c <= v BY <1>2, <2>6, LeastExists
  <2>8. c \in A /\ c \in N /\ c \in P BY <2>3, <2>7 DEF A, B
  <2>9. \A u \in N : Distance(p, c) <= Distance(p, u)
    <3> TAKE u \in N
    <3>1. near[u] <= near[c] BY <2>2, <2>8 DEF A
    <3> QED BY <1>3, <2>3, <2>8, <3>1
  <2>10. \A u \in N : Distance(p, u) = Distance(p, c) => u \in A BY <2>8 DEF A
  <2>11. \A u \in A : TwiceRise(S, u, t) <= TwiceRise(S, c, t) BY <2>5, <2>7, <2>8 DEF B
  <2>12. \A u \in A : TwiceRise(S, u, t) = TwiceRise(S, c, t) => c <= u
    BY <2>5, <2>7, <2>8 DEF B
  <2> HIDE DEF near, rise
  <2>13. ASSUME NEW u \in N PROVE Better(c, u)
    <3>1. /\ u \in Int /\ Distance(p, u) \in Int /\ TwiceRise(S, u, t) \in Int
          /\ c \in Int /\ Distance(p, c) \in Int /\ TwiceRise(S, c, t) \in Int
      BY <1>2, <1>3, <2>3, <2>8
    <3> QED BY <2>9, <2>10, <2>11, <2>12, <3>1
  <2>14. ASSUME NEW u \in N, Better(u, c) PROVE u = c
    <3>1. /\ u \in Int /\ Distance(p, u) \in Int /\ TwiceRise(S, u, t) \in Int
          /\ c \in Int /\ Distance(p, c) \in Int /\ TwiceRise(S, c, t) \in Int
      BY <1>2, <1>3, <2>3, <2>8
    <3>2. Better(c, u) BY <2>13
    <3> QED BY <2>14, <3>1, <3>2
  <2> HIDE DEF Better
  <2>15. C = {c} BY <1>1, <2>8, <2>13, <2>14
  <2>16. Distance(p, c) <= window BY <2>8 DEF N
  <2> QED BY <2>8, <2>15, <2>16 DEF P, C
<1> QED BY <1>4, <1>5 DEF P, C

-----------------------------------------------------------------------------
(* The worker.                                                                *)

USE DetectionAssumption, ReviewAssumption DEF DetectionAssumption, ReviewAssumption

-----------------------------------------------------------------------------
(* Numbers.                                                                  *)

\* A bounded set of numbers has a greatest element: the least of its upper bounds.
LEMMA LargestExists ==
  ASSUME NEW S \in SUBSET Nat, S # {}, NEW b \in Nat, \A s \in S : s <= b
  PROVE  Largest(S) \in S /\ \A s \in S : s <= Largest(S)
<1> DEFINE Upper == {u \in Nat : \A s \in S : s <= u}
<1>1. Upper \subseteq Nat /\ Upper # {} OBVIOUS
<1>2. PICK u \in Upper : \A v \in Upper : <<v, u>> \notin OpToRel(<, Nat)
  <2> HIDE DEF Upper
  <2> QED BY <1>1, WFMin, NatLessThanWellFounded, Zenon
<1>3. \A v \in Upper : ~(v < u) BY <1>1, <1>2, Zenon DEF OpToRel
<1>4. u \in S
  <2> SUFFICES ASSUME u \notin S PROVE FALSE OBVIOUS
  <2>1. PICK s \in S : TRUE OBVIOUS
  <2>2. u \in Nat /\ s \in Nat /\ s <= u /\ s # u OBVIOUS
  <2>3. u - 1 \in Nat /\ u - 1 < u BY <2>2
  <2>4. \A x \in S : x <= u - 1 OBVIOUS
  <2>5. u - 1 \in Upper BY <2>3, <2>4
  <2> QED BY <1>3, <2>3, <2>5
<1> QED BY <1>4 DEF Largest

LEMMA SettingsFacts ==
  ASSUME NEW s \in Settings
  PROVE  /\ s.after \in Nat /\ s.before \in Nat /\ s.before > 0 /\ s.after > 0
         /\ s.grace \in Nat
         /\ Holdback(s) \in Nat /\ s.after <= Holdback(s)
<1>0. s \in SettingsRow OBVIOUS
<1>1. /\ s.after \in Nat /\ s.before \in Nat /\ s.before > 0 /\ s.after > 0 /\ s.grace \in Nat
      /\ s.merge \in Nat /\ s.correlation \in Nat
  BY ONLY <1>0 DEF SettingsRow
<1>a. s.correlation + s.merge \in Nat BY ONLY <1>1
<1>4. s.after + s.correlation + s.merge \in Nat BY ONLY <1>1
<1> DEFINE S == {s.after, s.merge, s.correlation + s.merge}
<1>2. S \in SUBSET Nat /\ S # {} /\ s.after \in S BY ONLY <1>1, <1>a
<1>3. \A n \in S : n <= s.after + s.correlation + s.merge BY ONLY <1>1
<1> HIDE DEF S
<1>5. Largest(S) \in S /\ \A n \in S : n <= Largest(S) BY <1>2, <1>3, <1>4, LargestExists
<1> QED BY <1>1, <1>2, <1>5 DEF Holdback, S

-----------------------------------------------------------------------------
(* The worker.                                                               *)

\* A candidate's row; c.inside is what the peak finder says.
Shape(c) ==
  c \in [inside : {c.inside}, inserted : Nat, from : Int, to : Int, frames : SUBSET (Mic \X Nat),
         audio : {"pending", "linked", "missing"}, clip : SUBSET Clip,
         label : Label \cup {NoLabel}, dismissed : BOOLEAN]

\* A cycle that runs; c.picked is what its linking statement found.
CycleShape(c) ==
  /\ c \in [active : {TRUE}, at : {"link", "expire", "detect"}, now : Nat, settings : Settings,
             watermark : Int \cup {Never}, picked : {c.picked}, uploaded : SUBSET Clip]
  /\ \A p \in DOMAIN c.picked : c.picked[p] \in Clip

WorkerTypes ==
  /\ world \in World /\ now \in Nat /\ now <= world.last
  /\ settings \in Settings /\ watermark \in Int \cup {Never}
  /\ cycle = Idle \/ (CycleShape(cycle) /\ cycle.now <= now)

\* The frames of a candidate are of its window, and none lacks that was in time.
HoldsItsFrames(c) ==
  LET W == {f \in Mic \X (1..world.last) : c.from <= f[2] /\ f[2] < c.to} IN
  /\ c.frames \subseteq W
  /\ c.inserted - c.from <= world.retention =>
       \A f \in W : world.delay[f[1]][f[2]] <= Settle => f \in c.frames

\* What is known of a candidate from the moment it is inserted.
Whole(p) ==
  LET c == candidates[p] IN
  /\ p \in Int /\ Shape(c) /\ c.from < c.to
  /\ c.inserted <= now
  /\ HoldsItsFrames(c)

CandidatesOK == \A p \in DOMAIN candidates : Whole(p)

ClipsOK ==
  /\ clip \in [Clip -> {"absent", "announced", "uploaded", "deleted"}]
  /\ \A c \in Clip : clip[c] # "absent" => c \in DOMAIN world.clips

WorkerInv == WorkerTypes /\ CandidatesOK /\ ClipsOK

\* What a scan may read lies at least the holdback and the settling time in the past.
LEMMA CycleFacts ==
  ASSUME WorkerTypes, cycle.active
  PROVE  /\ CycleShape(cycle) /\ cycle.now \in Nat /\ cycle.now <= now
         /\ cycle.settings \in Settings /\ cycle.watermark \in Int \cup {Never}
         /\ Ceiling \in Int /\ Ceiling = cycle.now - Holdback(cycle.settings) - Settle
<1>1. cycle # Idle BY DEF Idle
<1>2. CycleShape(cycle) /\ cycle.now <= now BY <1>1 DEF WorkerTypes
<1>3. cycle.now \in Nat /\ cycle.settings \in Settings /\ cycle.watermark \in Int \cup {Never}
  BY <1>2 DEF CycleShape
<1>4. Holdback(cycle.settings) \in Nat BY <1>3, SettingsFacts
<1> QED BY <1>2, <1>3, <1>4 DEF Ceiling

LEMMA ScanFacts ==
  ASSUME WorkerTypes, cycle.active, ~NothingToScan
  PROVE  /\ ProcessingStart \in Int /\ ProcessingEnd \in Int /\ ProcessingEnd <= Ceiling
<1>1. cycle.watermark \in Int \cup {Never} /\ Ceiling \in Int BY CycleFacts
<1>2. ~Unseeded BY DEF NothingToScan
<1>3. ProcessingStart \in Int
  <2>1. CASE cycle.watermark # Never BY <1>1, <2>1 DEF ProcessingStart
  <2>2. CASE cycle.watermark = Never
    <3> DEFINE D == DOMAIN Samples("outside", 0, Ceiling)
    <3>1. D # {} BY <1>2, <2>2 DEF Unseeded
    <3>2. now \in Nat BY DEF WorkerTypes
    <3>3. D \in SUBSET Nat /\ \A t \in D : t <= now BY <3>2 DEF Samples
    <3> HIDE DEF D
    <3>4. Largest(D) \in Nat BY <3>1, <3>2, <3>3, LargestExists
    <3> QED BY <2>2, <3>4 DEF ProcessingStart, D
  <2> QED BY <2>1, <2>2
<1> HIDE DEF ProcessingStart
<1>4. ProcessingStart + MaxScan \in Int BY <1>3
<1> QED BY <1>1, <1>3, <1>4 DEF ProcessingEnd

\* The snapshot of a peak that is scanned holds every frame of its window.
LEMMA NewCandidate ==
  ASSUME WorkerInv, cycle.active, ~NothingToScan, NEW p \in Fresh(cycle.settings)
  PROVE  LET c == Candidate(p, cycle.settings) IN
         /\ p \in Int /\ p \notin DOMAIN candidates
         /\ Shape(c) /\ c.from < c.to /\ c.inserted <= now
         /\ HoldsItsFrames(c)
         /\ c.label = NoLabel /\ c.audio = "pending"
<1> DEFINE s == cycle.settings
           c == Candidate(p, s)
<1>0. WorkerTypes BY DEF WorkerInv
<1>1. /\ s \in Settings /\ cycle.now \in Nat /\ cycle.now <= now
      /\ Ceiling = cycle.now - Holdback(s) - Settle /\ Ceiling \in Int
  BY <1>0, CycleFacts
<1>2. /\ s.after \in Nat /\ s.before \in Nat /\ s.before > 0 /\ s.after > 0
      /\ Holdback(s) \in Nat /\ s.after <= Holdback(s)
  BY <1>1, SettingsFacts
<1>3. /\ ProcessingStart \in Int /\ ProcessingEnd \in Int /\ ProcessingEnd <= Ceiling
  BY <1>0, ScanFacts
<1>4. p \in (ProcessingStart + 1)..ProcessingEnd /\ p \notin DOMAIN candidates BY DEF Fresh
<1>5. p \in Int /\ p <= ProcessingEnd BY <1>3, <1>4
<1> HIDE DEF s
<1>6. now \in Nat /\ world \in World /\ now <= world.last BY <1>0 DEF WorkerTypes
<1>7. world.last \in Nat /\ world.retention \in Nat BY <1>6
<1>8. /\ c.inserted = now /\ c.from = p - s.before /\ c.to = p + s.after
      /\ c.frames = Frames(p - s.before, p + s.after)
      /\ c.label = "none" /\ c.audio = "pending" /\ c.dismissed = FALSE /\ c.clip = {}
  BY DEF Candidate
<1>9. p - s.before \in Int /\ p + s.after \in Int /\ p - s.before < p + s.after
  BY ONLY <1>2, <1>5
<1>10. Frames(p - s.before, p + s.after) \in SUBSET (Mic \X Nat)
  BY <1>6 DEF Frames
<1>11. Shape(c)
  BY <1>6, <1>9, <1>10 DEF Shape, Candidate, NoLabel
<1>12. p + s.after + Settle <= now
  <2>1. Settle \in Nat OBVIOUS
  <2>2. \A a, h, w, n, q, e \in Int : a <= h /\ q <= e /\ e <= n - h - w => q + a + w <= n
    OBVIOUS
  <2>3. /\ {s.after, Holdback(s), Settle, cycle.now, p, ProcessingEnd} \subseteq Int
        /\ ProcessingEnd <= cycle.now - Holdback(s) - Settle
    BY <1>1, <1>2, <1>3, <1>5, <2>1
  <2>4. p + s.after + Settle <= cycle.now BY <1>2, <1>5, <2>2, <2>3
  <2>5. p + s.after + Settle \in Int BY <1>2, <1>5, <2>1
  <2> QED BY <1>1, <1>6, <2>4, <2>5
<1> DEFINE a == p - s.before
           b == p + s.after
           W == {f \in Mic \X (1..world.last) : a <= f[2] /\ f[2] < b}
<1>13. Frames(a, b) \subseteq W
  <2>1. \A t \in 1..now : t \in 1..world.last BY <1>6, <1>7
  <2> QED BY <2>1 DEF Frames
<1>14. ASSUME now - a <= world.retention, NEW f \in W, world.delay[f[1]][f[2]] <= Settle
       PROVE  f \in Frames(a, b)
  <2> DEFINE t == f[2]
             d == world.delay[f[1]][t]
  <2>1. f \in Mic \X (1..world.last) /\ a <= t /\ t < b OBVIOUS
  <2>2. f[1] \in Mic /\ t \in 1..world.last /\ f = <<f[1], f[2]>> BY <2>1
  <2>3. t \in Int /\ t >= 1 BY <1>7, <2>2
  <2>4. d \in Nat
    <3>1. world.delay \in [Mic -> [1..world.last -> Nat]] BY <1>6
    <3>2. world.delay[f[1]] \in [1..world.last -> Nat] BY ONLY <2>2, <3>1
    <3> QED BY ONLY <2>2, <3>2
  <2>5. Settle \in Nat /\ d <= Settle BY <1>14
  <2>6. a \in Int /\ b \in Int BY <1>9
  <2>7. b + Settle <= now /\ now - a <= world.retention BY <1>12, <1>14
  <2> HIDE DEF a, b, d, t, W
  <2>8. t + d <= now /\ now - t <= world.retention /\ t \in 1..now
    BY ONLY <1>6, <1>7, <2>1, <2>3, <2>4, <2>5, <2>6, <2>7
  <2>9. f \in Mic \X (1..now) BY <2>2, <2>8 DEF t
  <2> QED BY <2>1, <2>8, <2>9 DEF Frames, Committed, t, d
<1>15. HoldsItsFrames(c)
  <2>1. c.from = a /\ c.to = b /\ c.frames = Frames(a, b) /\ c.inserted = now BY <1>8
  <2> HIDE DEF a, b, c
  <2> QED BY <1>13, <1>14, <2>1 DEF HoldsItsFrames
<1> QED BY <1>4, <1>5, <1>6, <1>8, <1>9, <1>11, <1>15 DEF NoLabel, s

-----------------------------------------------------------------------------
(* What a step does to the rows.                                             *)

SameSnapshot(c, d) ==
  d.from = c.from /\ d.to = c.to /\ d.inserted = c.inserted /\ d.frames = c.frames
  /\ d.inside = c.inside
SameVerdict(c, d) == d.label = c.label /\ d.dismissed = c.dismissed

\* A row is never removed, and what was linked stays so.
Carried ==
  \A p \in DOMAIN candidates :
    /\ p \in DOMAIN candidates' /\ Shape(candidates'[p])
    /\ SameSnapshot(candidates[p], candidates'[p])
    /\ candidates[p].audio = "linked" => candidates'[p].audio = "linked"

\* Nobody reviews anything in this step: what is new has no verdict.
Unreviewed ==
  \A p \in DOMAIN candidates' :
    IF p \in DOMAIN candidates THEN SameVerdict(candidates[p], candidates'[p])
    ELSE candidates'[p].label = NoLabel

LEMMA LinkedRow ==
  ASSUME NEW c, Shape(c), NEW k \in Clip, NEW d, d = [c EXCEPT !.audio = "linked", !.clip = {k}]
  PROVE  Shape(d) /\ SameSnapshot(c, d) /\ SameVerdict(c, d) /\ d.audio = "linked"
BY DEF Shape, SameSnapshot, SameVerdict

LEMMA RetiredRow ==
  ASSUME NEW c, Shape(c)
  PROVE  LET d == [c EXCEPT !.audio = "missing"] IN
         Shape(d) /\ SameSnapshot(c, d) /\ SameVerdict(c, d) /\ d.audio = "missing"
BY DEF Shape, SameSnapshot, SameVerdict

LEMMA UnhungRow ==
  ASSUME NEW c, Shape(c), NEW k
  PROVE  LET d == [c EXCEPT !.clip = @ \ {k}] IN
         Shape(d) /\ SameSnapshot(c, d) /\ SameVerdict(c, d) /\ d.audio = c.audio
BY DEF Shape, SameSnapshot, SameVerdict

LEMMA CandidatesCarried ==
  ASSUME WorkerTypes, CandidatesOK, world' = world, now' \in Nat, now <= now', Carried,
         \A p \in DOMAIN candidates' \ DOMAIN candidates : Whole(p)'
  PROVE  CandidatesOK'
<1> SUFFICES ASSUME NEW p \in DOMAIN candidates, p \in DOMAIN candidates' PROVE Whole(p)'
  BY DEF CandidatesOK
<1>1. Whole(p) BY DEF CandidatesOK
<1>2. Shape(candidates'[p]) /\ SameSnapshot(candidates[p], candidates'[p]) BY DEF Carried
<1>3. candidates[p].inserted \in Nat BY <1>1 DEF Whole, Shape
<1>4. candidates[p].inserted <= now' BY <1>1, <1>3 DEF WorkerTypes, Whole
<1> QED BY <1>1, <1>2, <1>4 DEF Whole, SameSnapshot, HoldsItsFrames

LEMMA RowsUntouched == CandidatesOK /\ UNCHANGED candidates => Carried /\ Unreviewed
BY DEF CandidatesOK, Whole, Carried, Unreviewed, SameSnapshot, SameVerdict

-----------------------------------------------------------------------------
(* The worker's steps.                                                       *)

LEMMA BeginCycleStep ==
  WorkerInv /\ BeginCycle => WorkerInv' /\ Carried /\ Unreviewed
<1> SUFFICES ASSUME WorkerInv, BeginCycle PROVE WorkerInv' /\ Carried /\ Unreviewed OBVIOUS
<1> DEFINE c == [active |-> TRUE, at |-> "link", now |-> now, settings |-> settings,
                 watermark |-> watermark, picked |-> <<>>,
                 uploaded |-> {k \in Clip : clip[k] = "uploaded"}]
<1>1. UNCHANGED <<world, now, settings, watermark, clip, candidates>> /\ cycle' = c
  BY DEF BeginCycle, CycleStarts
<1>2. Carried /\ Unreviewed BY <1>1, RowsUntouched DEF WorkerInv
<1>3. WorkerTypes'
  <2>1. CycleShape(c) /\ c.now = now BY DEF WorkerInv, WorkerTypes, CycleShape
  <2> HIDE DEF c
  <2> QED BY <1>1, <2>1 DEF WorkerInv, WorkerTypes
<1>4. CandidatesOK' BY <1>1, <1>2, CandidatesCarried DEF WorkerInv, WorkerTypes
<1>5. ClipsOK' BY <1>1 DEF WorkerInv, ClipsOK
<1> QED BY <1>2, <1>3, <1>4, <1>5 DEF WorkerInv

\* The linking statement: what it does not pick and might have has no clip.
LEMMA LinkFacts ==
  ASSUME WorkerTypes, LinkStatement
  PROVE  /\ CycleShape(cycle') /\ cycle'.now = cycle.now /\ cycle'.settings = cycle.settings
         /\ cycle'.uploaded = cycle.uploaded
         /\ \A p \in Swept(cycle.settings) \ DOMAIN cycle'.picked : Qualifying(p, cycle.settings) = {}
<1> DEFINE found == {p \in Swept(cycle.settings) : Qualifying(p, cycle.settings) # {}}
<1>1. PICK chosen \in [found -> Clip] : cycle' = [cycle EXCEPT !.at = "expire", !.picked = chosen]
  BY DEF LinkStatement
<1>2. CycleShape(cycle) BY CycleFacts DEF LinkStatement
<1>3. DOMAIN chosen = found /\ \A p \in DOMAIN chosen : chosen[p] \in Clip OBVIOUS
<1>4. \A p \in Swept(cycle.settings) \ found : Qualifying(p, cycle.settings) = {} OBVIOUS
<1> HIDE DEF found
<1> DEFINE d == [cycle EXCEPT !.at = "expire", !.picked = chosen]
<1>5. /\ CycleShape(d) /\ d.now = cycle.now /\ d.settings = cycle.settings
      /\ d.uploaded = cycle.uploaded /\ d.picked = chosen
  BY <1>2, <1>3 DEF CycleShape
<1>6. cycle' = d BY <1>1
<1> HIDE DEF d
<1> QED BY <1>3, <1>4, <1>5, <1>6

LEMMA LinkStep ==
  WorkerInv /\ LinkCandidates => WorkerInv' /\ Carried /\ Unreviewed
<1> SUFFICES ASSUME WorkerInv, LinkCandidates PROVE WorkerInv' /\ Carried /\ Unreviewed OBVIOUS
<1>1. UNCHANGED <<world, now, settings, watermark, clip, candidates>> /\ LinkStatement
  BY DEF LinkCandidates
<1>2. Carried /\ Unreviewed BY <1>1, RowsUntouched DEF WorkerInv
<1>3. WorkerTypes'
  <2>1. CycleShape(cycle') /\ cycle'.now = cycle.now BY <1>1, LinkFacts DEF WorkerInv
  <2>2. cycle.now <= now BY <1>1, CycleFacts DEF WorkerInv, LinkStatement
  <2> QED BY <1>1, <2>1, <2>2 DEF WorkerInv, WorkerTypes
<1>4. CandidatesOK' BY <1>1, <1>2, CandidatesCarried DEF WorkerInv, WorkerTypes
<1>5. ClipsOK' BY <1>1 DEF WorkerInv, ClipsOK
<1> QED BY <1>2, <1>3, <1>4, <1>5 DEF WorkerInv

\* The end of the linking pass: what it retires it had not picked.
LEMMA ExpireFacts ==
  ASSUME WorkerInv, ExpireCandidates
  PROVE  /\ DOMAIN candidates' = DOMAIN candidates /\ Carried /\ Unreviewed
         /\ \A p \in DOMAIN candidates :
              /\ candidates[p].audio # "missing" /\ candidates'[p].audio = "missing"
              => candidates[p].audio = "pending" /\ p \notin DOMAIN cycle.picked
<1> DEFINE late(p) == TooOld(p, cycle.settings)
<1>1. candidates' = [p \in DOMAIN candidates |->
        IF p \in DOMAIN cycle.picked
        THEN [candidates[p] EXCEPT !.audio = "linked", !.clip = {cycle.picked[p]}]
        ELSE IF late(p) THEN [candidates[p] EXCEPT !.audio = "missing"]
        ELSE candidates[p]]
  BY DEF ExpireCandidates
<1>2. DOMAIN candidates' = DOMAIN candidates BY <1>1
<1>3. \A p \in DOMAIN cycle.picked : cycle.picked[p] \in Clip
  BY CycleFacts DEF WorkerInv, ExpireCandidates, LinkingEnds, CycleShape
<1>4. ASSUME NEW p \in DOMAIN candidates
      PROVE  /\ Shape(candidates'[p]) /\ SameSnapshot(candidates[p], candidates'[p])
             /\ SameVerdict(candidates[p], candidates'[p])
             /\ candidates[p].audio = "linked" => candidates'[p].audio = "linked"
             /\ candidates'[p].audio = "missing" =>
                  \/ candidates[p].audio = "missing"
                  \/ candidates[p].audio = "pending" /\ p \notin DOMAIN cycle.picked
  <2>1. Shape(candidates[p]) BY DEF WorkerInv, CandidatesOK, Whole
  <2>2. CASE p \in DOMAIN cycle.picked
    <3> DEFINE d == [candidates[p] EXCEPT !.audio = "linked", !.clip = {cycle.picked[p]}]
    <3>1. candidates'[p] = d BY <1>1, <2>2
    <3>2. Shape(d) /\ SameSnapshot(candidates[p], d) /\ SameVerdict(candidates[p], d) /\ d.audio = "linked"
      BY <1>3, <2>1, <2>2, LinkedRow
    <3> HIDE DEF d
    <3> QED BY <3>1, <3>2
  <2>3. CASE p \notin DOMAIN cycle.picked /\ late(p)
    <3> DEFINE d == [candidates[p] EXCEPT !.audio = "missing"]
    <3>1. candidates'[p] = d BY <1>1, <2>3
    <3>2. Shape(d) /\ SameSnapshot(candidates[p], d) /\ SameVerdict(candidates[p], d) /\ d.audio = "missing"
      BY <2>1, RetiredRow
    <3>3. candidates[p].audio = "pending" BY <2>3 DEF TooOld
    <3> HIDE DEF d
    <3> QED BY <2>3, <3>1, <3>2, <3>3
  <2>4. CASE p \notin DOMAIN cycle.picked /\ ~late(p)
    <3>1. candidates'[p] = candidates[p] BY <1>1, <2>4
    <3> QED BY <2>1, <2>4, <3>1 DEF SameSnapshot, SameVerdict
  <2> QED BY <2>2, <2>3, <2>4
<1> HIDE DEF late
<1> QED BY <1>2, <1>4 DEF Carried, Unreviewed

LEMMA ExpireStep ==
  WorkerInv /\ ExpireCandidates => WorkerInv' /\ Carried /\ Unreviewed
<1> SUFFICES ASSUME WorkerInv, ExpireCandidates PROVE WorkerInv' /\ Carried /\ Unreviewed OBVIOUS
<1> DEFINE none == <<>>
           d == [cycle EXCEPT !.at = "detect", !.picked = none]
<1>1. /\ UNCHANGED <<world, now, settings, watermark, clip>> /\ cycle.active /\ cycle' = d
  BY DEF ExpireCandidates, LinkingEnds
<1>2. DOMAIN candidates' = DOMAIN candidates /\ Carried /\ Unreviewed BY ExpireFacts
<1>3. WorkerTypes'
  <2>1. CycleShape(cycle) /\ cycle.now <= now BY <1>1, CycleFacts DEF WorkerInv
  <2>2. \A p \in DOMAIN none : none[p] \in Clip OBVIOUS
  <2> HIDE DEF none
  <2>3. CycleShape(d) /\ d.now = cycle.now BY <2>1, <2>2 DEF CycleShape
  <2> HIDE DEF d
  <2> QED BY <1>1, <2>1, <2>3 DEF WorkerInv, WorkerTypes
<1>4. CandidatesOK' BY <1>1, <1>2, CandidatesCarried DEF WorkerInv, WorkerTypes
<1>5. ClipsOK' BY <1>1 DEF WorkerInv, ClipsOK
<1> QED BY <1>2, <1>3, <1>4, <1>5 DEF WorkerInv

LEMMA CycleEndStep ==
  WorkerInv /\ (Pause \/ Skip \/ CycleFails) => WorkerInv' /\ Carried /\ Unreviewed
<1> SUFFICES ASSUME WorkerInv, Pause \/ Skip \/ CycleFails PROVE WorkerInv' /\ Carried /\ Unreviewed
  OBVIOUS
<1>1. /\ UNCHANGED <<world, now, settings, clip, candidates>> /\ cycle.active /\ cycle' = Idle
      /\ watermark' = watermark \/ watermark' = Ceiling
  BY DEF Pause, Skip, CycleFails, CycleEnds
<1>2. Ceiling \in Int BY <1>1, CycleFacts DEF WorkerInv
<1>3. WorkerTypes' BY <1>1, <1>2 DEF WorkerInv, WorkerTypes
<1>4. Carried /\ Unreviewed BY <1>1, RowsUntouched DEF WorkerInv
<1>5. CandidatesOK' BY <1>1, <1>4, CandidatesCarried DEF WorkerInv, WorkerTypes
<1>6. ClipsOK' BY <1>1 DEF WorkerInv, ClipsOK
<1> QED BY <1>3, <1>4, <1>5, <1>6 DEF WorkerInv

LEMMA DetectStep ==
  WorkerInv /\ Detect => WorkerInv' /\ Carried /\ Unreviewed
<1> SUFFICES ASSUME WorkerInv, Detect PROVE WorkerInv' /\ Carried /\ Unreviewed OBVIOUS
<1> DEFINE s == cycle.settings
           fresh == Fresh(s)
<1>1. /\ cycle.active /\ ~NothingToScan /\ cycle' = Idle /\ watermark' = ProcessingEnd
      /\ UNCHANGED <<world, now, settings, clip>>
      /\ candidates' = [p \in DOMAIN candidates \cup fresh |->
                           IF p \in fresh THEN Candidate(p, s) ELSE candidates[p]]
  BY DEF Detect, CycleEnds, NewWatermark
<1>2. fresh \cap DOMAIN candidates = {} BY DEF Fresh
<1>3. ASSUME NEW p \in fresh
      PROVE  LET c == Candidate(p, s) IN
             /\ p \in Int /\ Shape(c) /\ c.from < c.to /\ c.inserted <= now /\ c.label = NoLabel
             /\ HoldsItsFrames(c)
  BY <1>1, NewCandidate
<1> HIDE DEF fresh, s
<1>4. /\ DOMAIN candidates' = DOMAIN candidates \cup fresh
      /\ \A p \in fresh : candidates'[p] = Candidate(p, s)
      /\ \A p \in DOMAIN candidates : candidates'[p] = candidates[p]
  BY <1>1, <1>2
<1>5. Carried BY <1>4 DEF WorkerInv, CandidatesOK, Whole, Carried, SameSnapshot
<1>6. Unreviewed BY <1>2, <1>3, <1>4 DEF Unreviewed, SameVerdict
<1>7. \A p \in DOMAIN candidates' \ DOMAIN candidates : Whole(p)'
  <2> SUFFICES ASSUME NEW p \in fresh PROVE Whole(p)' BY <1>4
  <2>1. candidates'[p] = Candidate(p, s) BY <1>4
  <2> QED BY <1>1, <1>3, <2>1 DEF Whole, HoldsItsFrames
<1>8. CandidatesOK' BY <1>1, <1>5, <1>7, CandidatesCarried DEF WorkerInv, WorkerTypes
<1>9. ProcessingEnd \in Int BY <1>1, ScanFacts DEF WorkerInv
<1>10. WorkerTypes' BY <1>1, <1>9 DEF WorkerInv, WorkerTypes
<1>11. ClipsOK' BY <1>1 DEF WorkerInv, ClipsOK
<1> QED BY <1>5, <1>6, <1>8, <1>10, <1>11 DEF WorkerInv

LEMMA SurroundingsStep ==
  ASSUME WorkerInv, UNCHANGED <<world, watermark, cycle, candidates>>, now' \in Nat, now <= now',
         now' <= world.last, settings' \in Settings, ClipsOK'
  PROVE  WorkerInv' /\ Carried /\ Unreviewed
<1>1. Carried /\ Unreviewed BY RowsUntouched DEF WorkerInv
<1>2. CandidatesOK' BY <1>1, CandidatesCarried DEF WorkerInv
<1>3. WorkerTypes'
  <2>1. CycleShape(cycle) => cycle.now \in Nat BY DEF CycleShape
  <2> QED BY <2>1 DEF WorkerInv, WorkerTypes
<1> QED BY <1>1, <1>2, <1>3 DEF WorkerInv

LEMMA AroundStep ==
  ASSUME WorkerInv,
         \/ Second \/ \E s \in world.settings : UpdateSettings(s)
         \/ \E x \in world.late : LateSample(x)
         \/ \E c \in Clip : ClipAnnounced(c) \/ ClipUploaded(c)
  PROVE  WorkerInv' /\ Carried /\ Unreviewed
<1>0. WorkerTypes /\ CandidatesOK /\ ClipsOK BY DEF WorkerInv
<1>1. now \in Nat /\ world.last \in Nat /\ now <= world.last /\ settings \in Settings
  BY <1>0 DEF WorkerTypes
<1>2. CASE Second
  <2>1. /\ now < world.last /\ now' = now + 1
        /\ UNCHANGED <<world, settings, watermark, cycle, candidates, clip>>
    BY <1>2 DEF Second
  <2>2. PICK n \in Nat : now = n BY <1>1
  <2>3. now' \in Nat /\ now <= now' /\ now' <= world.last BY <1>1, <2>1, <2>2
  <2>4. ClipsOK' BY <1>0, <2>1 DEF ClipsOK
  <2> QED BY <1>1, <2>1, <2>3, <2>4, SurroundingsStep
<1>3. ASSUME NEW s \in world.settings, UpdateSettings(s) PROVE WorkerInv' /\ Carried /\ Unreviewed
  <2>1. UNCHANGED <<world, now, watermark, cycle, candidates, clip>> /\ settings' = s
    BY <1>3 DEF UpdateSettings
  <2>2. s \in Settings BY <1>0 DEF WorkerTypes
  <2>3. ClipsOK' BY <1>0, <2>1 DEF ClipsOK
  <2> QED BY <1>1, <2>1, <2>2, <2>3, SurroundingsStep
<1>4. ASSUME NEW x \in world.late, LateSample(x) PROVE WorkerInv' /\ Carried /\ Unreviewed
  <2>1. UNCHANGED <<world, now, settings, watermark, cycle, candidates, clip>> BY <1>4 DEF LateSample
  <2>2. ClipsOK' BY <1>0, <2>1 DEF ClipsOK
  <2> QED BY <1>1, <2>1, <2>2, SurroundingsStep
<1>5. ASSUME NEW c \in Clip, ClipAnnounced(c) \/ ClipUploaded(c)
      PROVE  WorkerInv' /\ Carried /\ Unreviewed
  <2>1. /\ UNCHANGED <<world, now, settings, watermark, cycle, candidates>>
        /\ c \in DOMAIN world.clips \/ clip[c] # "absent"
        /\ \E x \in {"announced", "uploaded"} : clip' = [clip EXCEPT ![c] = x]
    BY <1>5 DEF ClipAnnounced, ClipUploaded
  <2>2. ClipsOK' BY <1>0, <2>1 DEF ClipsOK
  <2> QED BY <1>1, <2>1, <2>2, SurroundingsStep
<1> QED BY <1>2, <1>3, <1>4, <1>5

LEMMA ClipDeletedStep ==
  ASSUME WorkerInv, NEW c \in Clip, ClipDeleted(c)
  PROVE  WorkerInv' /\ Carried /\ Unreviewed
<1>1. /\ UNCHANGED <<world, now, settings, watermark, cycle>> /\ clip[c] # "absent"
      /\ clip' = [clip EXCEPT ![c] = "deleted"]
      /\ candidates' = [p \in DOMAIN candidates |-> [candidates[p] EXCEPT !.clip = @ \ {c}]]
  BY DEF ClipDeleted
<1>2. ASSUME NEW p \in DOMAIN candidates
      PROVE  /\ p \in DOMAIN candidates' /\ Shape(candidates'[p])
             /\ SameSnapshot(candidates[p], candidates'[p]) /\ SameVerdict(candidates[p], candidates'[p])
             /\ candidates'[p].audio = candidates[p].audio
  <2> DEFINE d == [candidates[p] EXCEPT !.clip = @ \ {c}]
  <2>1. p \in DOMAIN candidates' /\ candidates'[p] = d BY <1>1
  <2>2. Shape(candidates[p]) BY DEF WorkerInv, CandidatesOK, Whole
  <2>3. /\ Shape(d) /\ SameSnapshot(candidates[p], d) /\ SameVerdict(candidates[p], d)
        /\ d.audio = candidates[p].audio
    BY <2>2, UnhungRow
  <2> HIDE DEF d
  <2> QED BY <2>1, <2>3
<1>3. Carried BY <1>2 DEF Carried
<1>4. DOMAIN candidates' = DOMAIN candidates BY <1>1
<1>5. Unreviewed BY <1>2, <1>4 DEF Unreviewed
<1>6. CandidatesOK' BY <1>1, <1>3, <1>4, CandidatesCarried DEF WorkerInv, WorkerTypes
<1>7. WorkerTypes' BY <1>1 DEF WorkerInv, WorkerTypes
<1>8. ClipsOK' BY <1>1 DEF WorkerInv, ClipsOK
<1> QED BY <1>3, <1>5, <1>6, <1>7, <1>8 DEF WorkerInv

-----------------------------------------------------------------------------
(* What the worker finds.                                                    *)

HeardOutside == world.heard["outside"]

\* The inductive invariant of LoneEventsFound: who is a candidate was scanned, and with
\* the settings of that scan it is no neighbour of a lone peak.
FoundInv ==
  /\ scanned \subseteq Int \X Settings
  /\ \A x \in scanned :
       x[1] \in LonePeaks(x[2]) /\ ReadInTime(x[1], x[2]) => x[1] \in DOMAIN candidates
  /\ \A q \in DOMAIN candidates : \E x \in scanned :
       /\ x[1] = q
       /\ \A p \in LonePeaks(x[2]) :
            ReadInTime(p, x[2]) /\ Distance(p, q) <= x[2].cooldown + x[2].merge => p = q

LEMMA TuningTyped ==
  ASSUME NEW s \in Settings, NEW mic \in Mic
  PROVE  LET t == Tuning(s, mic) IN
         /\ t \in TuningType /\ t.window = s.window /\ t.merge = s.merge /\ t.cooldown = s.cooldown
         /\ s.window \in Nat /\ s.merge \in Nat /\ s.cooldown \in Nat /\ s.correlation \in Nat
         /\ s.merge > 0 /\ s.window > 0
<1>1. s \in SettingsRow OBVIOUS
<1>2. s.window \in Nat \ {0} /\ s.merge \in Nat \ {0} /\ s.cooldown \in Nat /\ s.correlation \in Nat
  BY ONLY <1>1 DEF SettingsRow
<1>3. s.min_samples \in Nat \ {0} /\ s.rise[mic] \in Nat /\ s.floor[mic] \in Int
  BY ONLY <1>1, mic \in Mic DEF SettingsRow
<1> QED BY ONLY <1>2, <1>3 DEF Tuning, TuningType

LEMMA HeardIsTelemetry ==
  ASSUME WorkerTypes, NEW mic \in Mic
  PROVE  /\ Telemetry(world.heard[mic], world.last)
         /\ DOMAIN world.heard[mic] = 1..world.last
<1>1. world.heard \in [Mic -> [1..world.last -> Int]] /\ world.last \in Nat
  BY DEF WorkerTypes
<1>2. world.heard[mic] \in [1..world.last -> Int] BY <1>1
<1> QED BY <1>1, <1>2 DEF Telemetry

LEMMA SamplesAreTelemetry ==
  ASSUME WorkerTypes, NEW mic \in Mic, NEW a, NEW b
  PROVE  Telemetry(Samples(mic, a, b), world.last)
<1>1. world.last \in Nat /\ now \in Nat /\ now <= world.last /\ world.heard[mic] \in [1..world.last -> Int]
  BY DEF WorkerTypes
<1>2. \A u \in 1..now : u \in 1..world.last BY <1>1
<1> QED BY <1>1, <1>2 DEF Samples, Telemetry

\* What a scan reads lies in the past.
LEMMA ScanReach ==
  ASSUME WorkerTypes, cycle.active, ~NothingToScan
  PROVE  ProcessingEnd + cycle.settings.merge <= now
<1> DEFINE s == cycle.settings
           S == {s.after, s.merge, s.correlation + s.merge}
<1>1. s \in Settings /\ Ceiling = cycle.now - Holdback(s) - Settle /\ cycle.now \in Nat /\ cycle.now <= now
  BY CycleFacts
<1>2. ProcessingEnd \in Int /\ ProcessingEnd <= Ceiling BY ScanFacts
<1>3. s.after \in Nat /\ s.merge \in Nat /\ s.correlation \in Nat BY <1>1 DEF SettingsRow
<1>4. s.merge <= Holdback(s) /\ Holdback(s) \in Nat
  <2>1. s.correlation + s.merge \in Nat /\ s.after + s.correlation + s.merge \in Nat BY ONLY <1>3
  <2>2. S \in SUBSET Nat /\ S # {} /\ s.merge \in S BY <1>3, <2>1
  <2>3. \A n \in S : n <= s.after + s.correlation + s.merge BY ONLY <1>3
  <2> HIDE DEF S
  <2>4. Largest(S) \in S /\ \A n \in S : n <= Largest(S) BY <2>1, <2>2, <2>3, LargestExists
  <2> QED BY <2>2, <2>4 DEF Holdback, S
<1>5. now \in Nat /\ Settle \in Nat BY DEF WorkerTypes
<1> HIDE DEF s
<1>6. \A e, h, w, n, k, m \in Int : e <= n - h - w /\ m <= h /\ w >= 0 /\ n <= k => e + m <= k
  OBVIOUS
<1>7. ProcessingEnd + s.merge <= now BY ONLY <1>1, <1>2, <1>3, <1>4, <1>5, <1>6
<1> QED BY <1>7 DEF s

LEMMA LonePeakShape ==
  ASSUME WorkerTypes, NEW s \in Settings, NEW p \in LonePeaks(s)
  PROVE  \E o \in Int : AloneIn(HeardOutside, Tuning(s, "outside"), p, o)
<1> DEFINE t == Tuning(s, "outside")
           X == Crossings(HeardOutside, t)
<1>1. t \in TuningType /\ t.merge = s.merge /\ t.cooldown = s.cooldown
  BY TuningTyped DEF Mic
<1>2. PICK o \in Openings(X, t) :
        /\ p \in AdaptivePeaksOf(HeardOutside, t) /\ p \in Cluster(X, o, t)
        /\ \A u \in Cluster(X, o, t) : p - u <= s.cooldown /\ Distance(p, u) <= s.merge
        /\ \A u \in Cluster(X, o, t) : Apart(u, X \ Cluster(X, o, t), s.cooldown + s.merge)
  BY DEF LonePeaks, HeardOutside
<1>3. o \in Int
  <2>1. X \in SUBSET Int BY <1>1, HeardIsTelemetry, CrossingFacts DEF HeardOutside, Mic
  <2> QED BY <2>1 DEF Openings
<1> HIDE DEF t
<1> QED BY <1>1, <1>2, <1>3 DEF AloneIn, Apart, t

\* Where a scan reads everything in time it reads what was heard.
LEMMA ScanAlike ==
  ASSUME WorkerTypes, Detect, NEW s, s = cycle.settings, NEW p \in Int, ReadInTime(p, s)',
         NEW lo \in Int, NEW hi \in Int,
         ProcessingStart - History(s) <= lo, p - 2 * History(s) <= lo,
         hi <= ProcessingEnd + s.merge, hi <= p + s.cooldown + 2 * s.merge
  PROVE  Alike(Samples("outside", ProcessingStart - History(s), ProcessingEnd + LookAhead(s)),
               HeardOutside, lo, hi)
<1> DEFINE a == ProcessingStart - History(s)
           b == ProcessingEnd + s.merge
           S == Samples("outside", a, b)
<1>1. cycle.active /\ ~NothingToScan BY DEF Detect, CycleEnds
<1>2. s \in Settings BY <1>1, CycleFacts
<1>3. s.window \in Nat /\ s.merge \in Nat /\ s.cooldown \in Nat BY <1>2, TuningTyped DEF Mic
<1>4. ProcessingStart \in Int /\ ProcessingEnd \in Int /\ b <= now
  BY <1>1, ScanFacts, ScanReach
<1>5. History(s) \in Int BY ONLY <1>3 DEF History
<1>6. a \in Int /\ b \in Int BY ONLY <1>3, <1>4, <1>5
<1>7. now \in Nat /\ world.last \in Nat /\ now <= world.last /\ DOMAIN HeardOutside = 1..world.last
  BY HeardIsTelemetry DEF WorkerTypes, Mic, HeardOutside
<1>8. overtaken' = overtaken \cup
        {x \in world.late \ arrived :
           x[2] <= ProcessingEnd + (IF x[1] = "outside" THEN s.merge ELSE s.merge + s.correlation)}
  BY DEF Detect
<1> HIDE DEF a, b
<1>9. ASSUME NEW u \in Int, lo <= u, u <= hi
      PROVE  (u \in DOMAIN S <=> u \in DOMAIN HeardOutside) /\ (u \in DOMAIN S => S[u] = HeardOutside[u])
  <2>0. lo \in Int /\ hi \in Int /\ u \in Int /\ a <= lo /\ hi <= b BY DEF a, b
  <2>1. a <= u /\ u <= b /\ u <= now BY ONLY <1>4, <1>6, <1>7, <1>9, <2>0
  <2>2. DOMAIN S = {t \in 1..now : a <= t /\ t <= b
                      /\ (<<"outside", t>> \in world.late => <<"outside", t>> \in arrived)}
        /\ (u \in DOMAIN S => S[u] = HeardOutside[u])
    BY DEF Samples, HeardOutside
  <2>3. <<"outside", u>> \in world.late => <<"outside", u>> \in arrived
    <3> SUFFICES ASSUME <<"outside", u>> \in world.late \ arrived PROVE FALSE OBVIOUS
    <3>1. <<"outside", u>> \in overtaken' BY <1>8, <2>1 DEF b
    <3>2. u < p - 2 * History(s) \/ u > p + s.cooldown + 2 * s.merge
      BY <3>1 DEF ReadInTime
    <3>3. /\ {p, lo, hi, u} \subseteq Int /\ p - 2 * History(s) <= lo
          /\ hi <= p + s.cooldown + 2 * s.merge
      OBVIOUS
    <3> QED BY ONLY <1>3, <1>5, <1>9, <3>2, <3>3
  <2>4. u \in 1..now <=> u \in 1..world.last BY <1>7, <2>1
  <2> QED BY <1>7, <2>1, <2>2, <2>3, <2>4
<1>10. S = Samples("outside", ProcessingStart - History(s), ProcessingEnd + LookAhead(s))
  BY DEF LookAhead, a, b
<1> HIDE DEF S
<1> QED BY <1>9, <1>10 DEF Alike

\* The scan that passes a lone peak inserts it.
LEMMA ScanFindsIt ==
  ASSUME WorkerTypes, Detect, NEW s, s = cycle.settings, NEW p \in LonePeaks(s), ReadInTime(p, s)',
         p \in (ProcessingStart + 1)..ProcessingEnd
  PROVE  p \in OutsidePeaks(s)
<1> DEFINE t == Tuning(s, "outside")
           S == Samples("outside", ProcessingStart - History(s), ProcessingEnd + LookAhead(s))
           W == s.window
           m == s.merge
           c == s.cooldown
           a == ProcessingStart - History(s)
           b == ProcessingEnd + m
           lo == IF a > p - 2 * History(s) THEN a ELSE p - 2 * History(s)
           hi == IF b < p + c + 2 * m THEN b ELSE p + c + 2 * m
           z == lo + W
<1>1. cycle.active /\ ~NothingToScan BY DEF Detect, CycleEnds
<1>2. s \in Settings BY <1>1, CycleFacts
<1>3. W \in Nat /\ m \in Nat /\ c \in Nat /\ m > 0 /\ W > 0 /\ t \in TuningType
      /\ t.window = W /\ t.merge = m /\ t.cooldown = c
  BY <1>2, TuningTyped DEF Mic
<1>4. ProcessingStart \in Int /\ ProcessingEnd \in Int BY <1>1, ScanFacts
<1>5. p \in Int /\ ProcessingStart < p /\ p <= ProcessingEnd BY <1>4
<1>6. History(s) = W + c + m BY DEF History
<1>7. lo \in Int /\ hi \in Int /\ a <= lo /\ p - 2 * History(s) <= lo /\ hi <= b /\ hi <= p + c + 2 * m
  BY ONLY <1>3, <1>4, <1>5, <1>6
<1>8. Alike(S, HeardOutside, lo, hi) BY <1>5, <1>7, ScanAlike
<1>9. Telemetry(S, world.last) /\ Telemetry(HeardOutside, world.last)
  BY SamplesAreTelemetry, HeardIsTelemetry DEF Mic, HeardOutside
<1>10. PICK o \in Int : AloneIn(HeardOutside, t, p, o) BY <1>2, LonePeakShape
<1>11. \A u \in DOMAIN S : u \in Int /\ u <= b
  <2>1. b \in Int /\ now \in Nat BY <1>3, <1>4 DEF WorkerTypes
  <2> QED BY <2>1 DEF Samples, LookAhead
<1>12. z \in Int /\ z < p - c - m
  BY ONLY <1>3, <1>4, <1>5, <1>6
<1> HIDE DEF S, t, lo, hi, z
<1>13. ASSUME NEW u \in Int, z <= u, u <= hi
       PROVE  /\ u \in Crossings(S, t) <=> u \in Crossings(HeardOutside, t)
              /\ u \in Crossings(S, t) => S[u] = HeardOutside[u] /\ TwiceRise(S, u, t) = TwiceRise(HeardOutside, u, t)
  <2>1. lo <= u - t.window BY ONLY <1>3, <1>7, <1>13 DEF z
  <2>2. lo \in Int /\ hi \in Int /\ t \in TuningType BY <1>3, <1>7
  <2> QED BY ONLY <1>8, <1>9, <1>13, <2>1, <2>2, SameCrossing
<1>14. \A u \in Crossings(S, t) : z <= u /\ u <= p + c + 2 * m => u \in Crossings(HeardOutside, t)
  <2> SUFFICES ASSUME NEW u \in Crossings(S, t), z <= u, u <= p + c + 2 * m
               PROVE  u \in Crossings(HeardOutside, t)
    OBVIOUS
  <2>1. u \in Int /\ u <= b BY <1>11 DEF Crossings
  <2>2. u <= hi BY <2>1 DEF hi
  <2> QED BY <1>13, <2>1, <2>2
<1>15. ASSUME NEW u \in Cluster(Crossings(HeardOutside, t), o, t)
       PROVE  u \in Crossings(S, t) /\ S[u] = HeardOutside[u] /\ TwiceRise(S, u, t) = TwiceRise(HeardOutside, u, t)
  <2>1. u \in Crossings(HeardOutside, t) BY DEF Cluster
  <2>2. u \in Int BY <1>3, <1>9, <2>1, CrossingFacts
  <2>3. p - u <= c /\ Distance(p, u) <= m BY <1>3, <1>10 DEF AloneIn
  <2>4. z <= u BY ONLY <1>3, <1>5, <1>12, <2>2, <2>3
  <2>5. u <= p + m BY ONLY <1>3, <1>5, <2>2, <2>3 DEF Distance
  <2>6. u <= hi BY ONLY <1>3, <1>4, <1>5, <2>2, <2>5 DEF hi
  <2> QED BY <1>13, <2>1, <2>2, <2>4, <2>6
<1>16. p \in AdaptivePeaksOf(S, t)
  BY <1>3, <1>9, <1>10, <1>12, <1>14, <1>15, LonePeakFound
<1> QED BY <1>16 DEF OutsidePeaks, S, t

\* A scan that passes a second near a lone peak inserts it only when it is that peak.
LEMMA ScanFindsNoOther ==
  ASSUME WorkerTypes, Detect, NEW s, s = cycle.settings, NEW p \in LonePeaks(s), ReadInTime(p, s)',
         NEW q \in OutsidePeaks(s), q \in (ProcessingStart + 1)..ProcessingEnd,
         Distance(p, q) <= s.cooldown + s.merge
  PROVE  q = p
<1> DEFINE t == Tuning(s, "outside")
           S == Samples("outside", ProcessingStart - History(s), ProcessingEnd + LookAhead(s))
           W == s.window
           m == s.merge
           c == s.cooldown
           a == ProcessingStart - History(s)
           b == ProcessingEnd + m
           lo == IF a > p - 2 * History(s) THEN a ELSE p - 2 * History(s)
           hi == IF b < p + c + 2 * m THEN b ELSE p + c + 2 * m
<1>1. cycle.active /\ ~NothingToScan BY DEF Detect, CycleEnds
<1>2. s \in Settings BY <1>1, CycleFacts
<1>3. W \in Nat /\ m \in Nat /\ c \in Nat /\ m > 0 /\ W > 0 /\ t \in TuningType
      /\ t.window = W /\ t.merge = m /\ t.cooldown = c
  BY <1>2, TuningTyped DEF Mic
<1>4. ProcessingStart \in Int /\ ProcessingEnd \in Int BY <1>1, ScanFacts
<1>5. q \in Int /\ ProcessingStart < q /\ q <= ProcessingEnd BY <1>4
<1>6. History(s) = W + c + m BY DEF History
<1>7. Telemetry(S, world.last) /\ Telemetry(HeardOutside, world.last)
  BY SamplesAreTelemetry, HeardIsTelemetry DEF Mic, HeardOutside
<1>8. PICK o \in Int : AloneIn(HeardOutside, t, p, o) BY <1>2, LonePeakShape
<1> HIDE DEF t
<1>9. p \in Int /\ p \in Crossings(HeardOutside, t) BY <1>3, <1>7, <1>8, AloneFacts
<1>10. p - q <= c + m /\ q - p <= c + m
  <2>1. Distance(p, q) <= c + m OBVIOUS
  <2> QED BY ONLY <1>3, <1>5, <1>9, <2>1 DEF Distance
<1>11. lo \in Int /\ hi \in Int /\ a <= lo /\ p - 2 * History(s) <= lo /\ hi <= b /\ hi <= p + c + 2 * m
  BY ONLY <1>3, <1>4, <1>6, <1>9
<1>12. Alike(S, HeardOutside, lo, hi) BY <1>9, <1>11, ScanAlike
<1>13. lo + W <= q /\ q <= hi
  BY ONLY <1>3, <1>4, <1>5, <1>6, <1>9, <1>10
<1>14. lo + W <= p
  BY ONLY <1>3, <1>4, <1>5, <1>6, <1>9, <1>10
<1> HIDE DEF S, lo, hi
<1>15. q \in AdaptivePeaksOf(S, t) BY DEF OutsidePeaks, S, t
<1>16. q \in Crossings(S, t) BY <1>3, <1>7, <1>15, PeakFacts
<1>17. ASSUME NEW u \in Int, lo + W <= u, u <= hi
       PROVE  /\ u \in Crossings(S, t) <=> u \in Crossings(HeardOutside, t)
              /\ u \in Crossings(S, t) => S[u] = HeardOutside[u] /\ TwiceRise(S, u, t) = TwiceRise(HeardOutside, u, t)
  <2>1. lo <= u - t.window BY ONLY <1>3, <1>11, <1>17
  <2>2. lo \in Int /\ hi \in Int /\ t \in TuningType BY <1>3, <1>11
  <2> QED BY ONLY <1>7, <1>12, <1>17, <2>1, <2>2, SameCrossing
<1>18. q \in Crossings(HeardOutside, t) BY <1>5, <1>13, <1>16, <1>17
\* The peak itself is within the look-ahead.
<1>19. q \in Cluster(Crossings(HeardOutside, t), o, t)
  <2> DEFINE C == Cluster(Crossings(HeardOutside, t), o, t)
  <2> SUFFICES ASSUME q \notin C PROVE FALSE OBVIOUS
  <2>1. p \in C /\ Distance(p, q) > c + m BY <1>3, <1>8, <1>18 DEF AloneIn
  <2>2. Distance(p, q) \in Int BY <1>5, <1>9 DEF Distance
  <2> HIDE DEF C
  <2> QED BY <1>3, <2>1, <2>2
<1>20. p <= q + m
  <2>1. Distance(p, q) <= m BY <1>3, <1>8, <1>19 DEF AloneIn
  <2> QED BY <1>3, <1>5, <1>9, <2>1 DEF Distance
<1>21. p <= hi BY ONLY <1>3, <1>4, <1>5, <1>9, <1>20 DEF hi
<1>22. p \in Crossings(S, t) BY <1>9, <1>14, <1>17, <1>21
<1>23. \A u \in {p, q} : S[u] = HeardOutside[u] /\ TwiceRise(S, u, t) = TwiceRise(HeardOutside, u, t)
  BY <1>5, <1>9, <1>13, <1>14, <1>16, <1>17, <1>21, <1>22
<1>24. Distance(p, q) <= t.cooldown + t.merge BY <1>3
<1> QED BY <1>3, <1>7, <1>8, <1>15, <1>18, <1>22, <1>23, <1>24, NoOtherPeak

LEMMA FoundDetect ==
  ASSUME WorkerTypes, FoundInv, Detect
  PROVE  FoundInv'
<1> DEFINE range == (ProcessingStart + 1)..ProcessingEnd
<1>1. PICK s : s = cycle.settings OBVIOUS
<1>2. cycle.active /\ ~NothingToScan BY DEF Detect, CycleEnds
<1>3. s \in Settings /\ ProcessingStart \in Int /\ ProcessingEnd \in Int
  BY <1>1, <1>2, CycleFacts, ScanFacts
<1>4. /\ world' = world /\ overtaken \subseteq overtaken'
      /\ scanned' = scanned \cup range \X {s}
      /\ DOMAIN candidates' = DOMAIN candidates \cup Fresh(s)
  BY <1>1 DEF Detect, NewWatermark
<1>5. \A p, x : ReadInTime(p, x)' => ReadInTime(p, x) BY <1>4 DEF ReadInTime
<1>6. \A x : LonePeaks(x)' = LonePeaks(x) BY <1>4 DEF LonePeaks
<1>7. range \subseteq Int BY <1>3
<1>8. Fresh(s) \subseteq OutsidePeaks(s) \cap range /\ OutsidePeaks(s) \cap range \subseteq DOMAIN candidates'
  BY <1>4 DEF Fresh
<1> HIDE DEF range
<1>9. scanned' \subseteq Int \X Settings BY <1>3, <1>4, <1>7 DEF FoundInv
<1>10. ASSUME NEW x \in scanned', x[1] \in LonePeaks(x[2])', ReadInTime(x[1], x[2])'
       PROVE  x[1] \in DOMAIN candidates'
  <2>1. CASE x \in scanned BY <1>4, <1>5, <1>6, <1>10, <2>1 DEF FoundInv
  <2>2. CASE x \in range \X {s}
    <3>1. x[1] \in range /\ x[2] = s BY <2>2
    <3>2. x[1] \in LonePeaks(s) /\ ReadInTime(x[1], s)' BY <1>6, <1>10, <3>1
    <3>3. x[1] \in OutsidePeaks(s) BY <1>1, <3>1, <3>2, ScanFindsIt DEF range
    <3> QED BY <1>8, <3>1, <3>3
  <2> QED BY <1>4, <2>1, <2>2
<1>11. ASSUME NEW q \in DOMAIN candidates'
       PROVE  \E x \in scanned' :
                /\ x[1] = q
                /\ \A p \in LonePeaks(x[2])' :
                     ReadInTime(p, x[2])' /\ Distance(p, q) <= x[2].cooldown + x[2].merge => p = q
  <2>1. CASE q \in DOMAIN candidates
    <3>1. PICK x \in scanned :
            /\ x[1] = q
            /\ \A p \in LonePeaks(x[2]) :
                 ReadInTime(p, x[2]) /\ Distance(p, q) <= x[2].cooldown + x[2].merge => p = q
      BY <2>1 DEF FoundInv
    <3>2. x \in scanned' BY <1>4
    <3> QED BY <1>5, <1>6, <3>1, <3>2
  <2>2. CASE q \in Fresh(s)
    <3> DEFINE x == <<q, s>>
    <3>1. q \in OutsidePeaks(s) /\ q \in range BY <1>8, <2>2
    <3>2. x \in scanned' /\ x[1] = q /\ x[2] = s BY <1>4, <3>1
    <3>3. ASSUME NEW p \in LonePeaks(s), ReadInTime(p, s)', Distance(p, q) <= s.cooldown + s.merge
          PROVE  p = q
      BY <1>1, <3>1, <3>3, ScanFindsNoOther DEF range
    <3> HIDE DEF x
    <3> QED BY <1>6, <3>2, <3>3
  <2> QED BY <1>4, <2>1, <2>2
<1> QED BY <1>9, <1>10, <1>11 DEF FoundInv

\* A candidate's inside peak, if it has one, is one, and as near to the outside peak as
\* the settings it was scanned with ask.
NearInside(p, s) ==
  \/ candidates[p].inside = {}
  \/ \E u \in Int : candidates[p].inside = {u} /\ Distance(p, u) <= s.correlation
InsideIsNear == \A p \in DOMAIN candidates : \E x \in scanned : x[1] = p /\ NearInside(p, x[2])

LEMMA InsideFacts ==
  ASSUME WorkerTypes, NEW s \in Settings, NEW p \in Int
  PROVE  \/ InsideOf(p, s) = {}
         \/ \E u \in Int : InsideOf(p, s) = {u} /\ Distance(p, u) <= s.correlation
<1> DEFINE t == Tuning(s, "inside")
           S == Samples("inside", ProcessingStart - History(s), ProcessingEnd + s.correlation + s.merge)
           P == AdaptivePeaksOf(S, t)
<1>1. t \in TuningType /\ s.correlation \in Nat BY TuningTyped DEF Mic
<1>2. Telemetry(S, world.last) BY SamplesAreTelemetry DEF Mic
<1> HIDE DEF t, S
<1>3. P \subseteq Int
  <2>1. \A q \in P : q \in Crossings(S, t) BY <1>1, <1>2, PeakFacts
  <2>2. \A q \in Crossings(S, t) : q \in Int BY <1>1, <1>2, CrossingFacts
  <2> QED BY <2>1, <2>2
<1>4. \/ CorrelatePeak(p, S, P, t, s.correlation) = {}
      \/ \E u \in P : Distance(p, u) <= s.correlation /\ CorrelatePeak(p, S, P, t, s.correlation) = {u}
  BY <1>1, <1>2, OneInsidePeak
<1> QED BY <1>3, <1>4 DEF InsideOf, S, t

LEMMA InsideDetect ==
  ASSUME WorkerInv, InsideIsNear, Detect
  PROVE  InsideIsNear'
<1>1. PICK s : s = cycle.settings OBVIOUS
<1>2. cycle.active /\ ~NothingToScan BY DEF Detect, CycleEnds
<1>3. s \in Settings /\ ProcessingStart \in Int /\ ProcessingEnd \in Int
  BY <1>1, <1>2, CycleFacts, ScanFacts DEF WorkerInv
<1>4. /\ scanned' = scanned \cup ((ProcessingStart + 1)..ProcessingEnd) \X {s}
      /\ candidates' = [p \in DOMAIN candidates \cup Fresh(s) |->
                           IF p \in Fresh(s) THEN Candidate(p, s) ELSE candidates[p]]
  BY <1>1 DEF Detect, NewWatermark
<1> SUFFICES ASSUME NEW p \in DOMAIN candidates'
             PROVE  \E x \in scanned' : x[1] = p /\ NearInside(p, x[2])'
  BY DEF InsideIsNear
<1>5. CASE p \in Fresh(s)
  <2>1. p \in (ProcessingStart + 1)..ProcessingEnd /\ p \in Int BY <1>3, <1>5 DEF Fresh
  <2>2. candidates'[p].inside = InsideOf(p, s) BY <1>4, <1>5 DEF Candidate
  <2>3. NearInside(p, s)' BY <1>3, <2>1, <2>2, InsideFacts DEF NearInside, WorkerInv
  <2> DEFINE x == <<p, s>>
  <2>4. x \in scanned' /\ x[1] = p /\ x[2] = s BY <1>4, <2>1
  <2> HIDE DEF x
  <2> QED BY <2>3, <2>4
<1>6. CASE p \notin Fresh(s)
  <2>1. p \in DOMAIN candidates /\ candidates'[p] = candidates[p] BY <1>4, <1>6
  <2>2. PICK x \in scanned : x[1] = p /\ NearInside(p, x[2]) BY <2>1 DEF InsideIsNear
  <2> QED BY <1>4, <2>1, <2>2 DEF NearInside
<1> QED BY <1>5, <1>6

LEMMA InsideCarried ==
  ASSUME InsideIsNear, Carried, UNCHANGED scanned, DOMAIN candidates' = DOMAIN candidates
  PROVE  InsideIsNear'
BY DEF InsideIsNear, NearInside, Carried, SameSnapshot

LEMMA FoundUntouched ==
  ASSUME FoundInv, UNCHANGED <<world, scanned, overtaken>>, DOMAIN candidates' = DOMAIN candidates
  PROVE  FoundInv'
BY DEF FoundInv, LonePeaks, ReadInTime, Apart

-----------------------------------------------------------------------------
(* The reviewers.                                                            *)

OpenPatch == [open : {TRUE}, peak : Int, body : Body, label : Label \cup {NoLabel}, dismissed : BOOLEAN]

PatchesOK ==
  /\ patch \in [Reviewer -> OpenPatch \cup {NoPatch}]
  /\ \A r \in Reviewer : patch[r].open =>
       /\ patch[r] \in OpenPatch /\ patch[r].peak \in DOMAIN candidates
       /\ Decides(patch[r].body) => candidates[patch[r].peak].audio = "linked"

LEMMA PatchesCarried ==
  ASSUME PatchesOK, Carried, UNCHANGED patch
  PROVE  PatchesOK'
BY DEF PatchesOK, Carried

LEMMA VerdictsCarried ==
  ASSUME VerdictIsOne, Unreviewed, UNCHANGED clashed
  PROVE  VerdictIsOne'
BY DEF VerdictIsOne, Unreviewed, SameVerdict

LEMMA ReadStep ==
  ASSUME WorkerInv, PatchesOK, NEW r \in world.reviewers, NEW p \in DOMAIN candidates,
         NEW b \in world.bodies, ReadCandidate(r, p, b)
  PROVE  PatchesOK'
<1> DEFINE q == [open |-> TRUE, peak |-> p, body |-> b, label |-> candidates[p].label,
                 dismissed |-> candidates[p].dismissed]
<1>1. /\ Labelable(p, b) /\ UNCHANGED candidates /\ patch' = [patch EXCEPT ![r] = q]
  BY DEF ReadCandidate, detectionVars
<1>2. r \in Reviewer /\ b \in Body BY DEF WorkerInv, WorkerTypes
<1>3. p \in Int /\ candidates[p].label \in Label \cup {NoLabel} /\ candidates[p].dismissed \in BOOLEAN
  BY DEF WorkerInv, CandidatesOK, Whole, Shape
<1>4. q \in OpenPatch /\ q.peak = p /\ q.body = b BY <1>2, <1>3 DEF OpenPatch
<1> HIDE DEF q
<1>5. patch' \in [Reviewer -> OpenPatch \cup {NoPatch}]
      /\ \A x \in Reviewer : patch'[x] = IF x = r THEN q ELSE patch[x]
  BY <1>1, <1>2, <1>4 DEF PatchesOK
<1>6. Decides(b) => candidates[p].audio = "linked" BY <1>1 DEF Labelable
<1> QED BY <1>1, <1>2, <1>4, <1>5, <1>6 DEF PatchesOK

\* One reviewer's decision on a row that nobody changed meanwhile is one verdict.
LEMMA OneVerdict ==
  ASSUME NEW l \in Label \cup {NoLabel}, NEW d \in BOOLEAN, NEW b \in Body,
         NEW row, row.label = l, row.dismissed = d
  PROVE  /\ LabelAfter(row, b) \in Label \cup {NoLabel} /\ DismissedAfter(row, b) \in BOOLEAN
         /\ LabelAfter(row, b) # NoLabel /\ DismissedAfter(row, b) => l # NoLabel /\ d
<1>1. b.label \in Label \cup {NoLabel, "unset"} /\ b.dismissed \in {"unset", "yes", "no"}
  BY DEF Body
<1>2. CASE b.dismissed = "yes" BY <1>1, <1>2 DEF LabelAfter, DismissedAfter
<1>3. CASE b.dismissed = "no" BY <1>1, <1>3 DEF LabelAfter, DismissedAfter
<1>4. CASE b.dismissed = "unset" BY <1>1, <1>4 DEF LabelAfter, DismissedAfter, Decides, NoLabel
<1> QED BY <1>1, <1>2, <1>3, <1>4

LEMMA CommitStep ==
  ASSUME WorkerInv, PatchesOK, VerdictIsOne, NEW r \in Reviewer, CommitPatch(r)
  PROVE  /\ WorkerInv' /\ Carried /\ DOMAIN candidates' = DOMAIN candidates /\ PatchesOK' /\ VerdictIsOne'
         /\ \A x \in DOMAIN candidates : candidates'[x].audio = candidates[x].audio
         /\ \A x \in DOMAIN candidates : x # patch[r].peak => candidates'[x] = candidates[x]
<1> DEFINE q == patch[r]
           p == q.peak
           after == Patched(p, q, q.body)
           stale == q.label # candidates[p].label \/ q.dismissed # candidates[p].dismissed
<1>1. /\ q.open
      /\ IF CheckHolds(after)
         THEN /\ candidates' = [candidates EXCEPT ![p] = after]
              /\ clashed' = IF stale THEN clashed \cup {p} ELSE clashed
         ELSE UNCHANGED <<candidates, clashed>>
      /\ patch' = [patch EXCEPT ![r] = NoPatch]
      /\ UNCHANGED <<world, now, settings, watermark, cycle, clip>>
  BY DEF CommitPatch
<1>2. q \in OpenPatch /\ p \in DOMAIN candidates BY <1>1 DEF PatchesOK
<1>3. q.label \in Label \cup {NoLabel} /\ q.dismissed \in BOOLEAN /\ q.body \in Body
  BY <1>2 DEF OpenPatch
<1>4. Shape(candidates[p]) BY <1>2 DEF WorkerInv, CandidatesOK, Whole
<1>5. candidates[p].label \in Label \cup {NoLabel} /\ candidates[p].dismissed \in BOOLEAN
  BY <1>4 DEF Shape
<1> DEFINE l == Written(LabelAfter(q, q.body), q.label, candidates[p].label)
           d == Written(DismissedAfter(q, q.body), q.dismissed, candidates[p].dismissed)
<1>6. /\ LabelAfter(q, q.body) \in Label \cup {NoLabel} /\ DismissedAfter(q, q.body) \in BOOLEAN
      /\ LabelAfter(q, q.body) # NoLabel /\ DismissedAfter(q, q.body) => q.label # NoLabel /\ q.dismissed
  BY <1>3, OneVerdict
<1>7. l \in Label \cup {NoLabel} /\ d \in BOOLEAN BY <1>5, <1>6 DEF Written
<1>8. ~stale => l = LabelAfter(q, q.body) /\ d = DismissedAfter(q, q.body) BY <1>6 DEF Written
<1>9. after = [candidates[p] EXCEPT !.label = l, !.dismissed = d] BY DEF Patched
<1> HIDE DEF q, p, l, d, after
<1>10. /\ Shape(after) /\ SameSnapshot(candidates[p], after) /\ after.audio = candidates[p].audio
       /\ after.label = l /\ after.dismissed = d
  <2> DEFINE c == candidates[p]
  <2>1. Shape(c) /\ after = [c EXCEPT !.label = l, !.dismissed = d] BY <1>4, <1>9
  <2> HIDE DEF c
  <2>2. /\ Shape(after) /\ SameSnapshot(c, after) /\ after.audio = c.audio
        /\ after.label = l /\ after.dismissed = d
    BY <1>7, <2>1 DEF Shape, SameSnapshot
  <2> QED BY <2>2 DEF c
<1>11. /\ DOMAIN candidates' = DOMAIN candidates
       /\ \A x \in DOMAIN candidates : x # p => candidates'[x] = candidates[x]
       /\ candidates'[p] = after \/ candidates'[p] = candidates[p]
  <2>1. candidates' = candidates \/ candidates' = [candidates EXCEPT ![p] = after] BY <1>1
  <2> QED BY <1>2, <2>1
<1>12. ASSUME NEW x \in DOMAIN candidates
       PROVE  /\ Shape(candidates'[x]) /\ SameSnapshot(candidates[x], candidates'[x])
              /\ candidates'[x].audio = candidates[x].audio
  <2>1. Shape(candidates[x]) BY DEF WorkerInv, CandidatesOK, Whole
  <2>2. CASE candidates'[x] = candidates[x] BY <2>1, <2>2 DEF SameSnapshot
  <2>3. CASE x = p /\ candidates'[x] = after BY <1>10, <2>3
  <2> QED BY <1>11, <2>2, <2>3
<1>13. Carried BY <1>11, <1>12 DEF Carried
<1>14. CandidatesOK' BY <1>1, <1>11, <1>13, CandidatesCarried DEF WorkerInv, WorkerTypes
<1>15. WorkerInv'
  <2>1. WorkerTypes' BY <1>1 DEF WorkerInv, WorkerTypes
  <2>2. ClipsOK' BY <1>1 DEF WorkerInv, ClipsOK
  <2> QED BY <1>14, <2>1, <2>2 DEF WorkerInv
<1>16. PatchesOK'
  <2>1. ~NoPatch.open BY DEF NoPatch
  <2>2. patch' \in [Reviewer -> OpenPatch \cup {NoPatch}]
        /\ \A x \in Reviewer : patch'[x] = IF x = r THEN NoPatch ELSE patch[x]
    BY <1>1 DEF PatchesOK
  <2> QED BY <1>13, <2>1, <2>2 DEF PatchesOK, Carried
<1>17. VerdictIsOne'
  <2> SUFFICES ASSUME NEW x \in DOMAIN candidates, candidates'[x].label # NoLabel, candidates'[x].dismissed
               PROVE  x \in clashed'
    BY <1>11 DEF VerdictIsOne
  <2>1. clashed \subseteq clashed' BY <1>1
  <2>2. CASE candidates'[x] = candidates[x] BY <2>1, <2>2 DEF VerdictIsOne
  <2>3. CASE x = p /\ candidates'[x] = after /\ candidates'[x] # candidates[x]
    <3>1. l # NoLabel /\ d BY <1>10, <2>3
    <3>2. clashed' = IF stale THEN clashed \cup {p} ELSE clashed BY <1>1, <2>3
    <3>3. CASE stale BY <2>3, <3>2, <3>3
    <3>4. CASE ~stale
      <4>1. q.label # NoLabel /\ q.dismissed BY <1>6, <1>8, <3>1, <3>4
      <4>2. candidates[p].label # NoLabel /\ candidates[p].dismissed BY <3>4, <4>1
      <4> QED BY <1>2, <2>1, <2>3, <4>2 DEF VerdictIsOne
    <3> QED BY <3>3, <3>4
  <2> QED BY <1>11, <2>2, <2>3
<1>18. \A x \in DOMAIN candidates : x # patch[r].peak => candidates'[x] = candidates[x]
  BY <1>11 DEF p, q
<1> QED BY <1>11, <1>12, <1>13, <1>15, <1>16, <1>17, <1>18

\* A PATCH that changes a row while a training set is extracted is written down.
LEMMA CommitTouches ==
  ASSUME NEW r \in Reviewer, CommitPatch(r)
  PROVE  \/ /\ manifest' = manifest
            /\ \/ manifest.stage = "none"
               \/ \A x \in DOMAIN candidates : candidates'[x] = candidates[x]
         \/ manifest' = [manifest EXCEPT !.touched = manifest.touched \cup {patch[r].peak}]
<1> DEFINE p == patch[r].peak
           after == Patched(p, patch[r], patch[r].body)
<1>1. \/ UNCHANGED <<candidates, manifest>>
      \/ /\ candidates' = [candidates EXCEPT ![p] = after]
         /\ manifest' = IF manifest.stage = "none" \/ after = candidates[p] THEN manifest
                        ELSE [manifest EXCEPT !.touched = manifest.touched \cup {p}]
  BY DEF CommitPatch
<1> HIDE DEF after
<1>2. ASSUME after = candidates[p], candidates' = [candidates EXCEPT ![p] = after],
             NEW x \in DOMAIN candidates
      PROVE  candidates'[x] = candidates[x]
  BY <1>2
<1> QED BY <1>1, <1>2

-----------------------------------------------------------------------------
(* Labels, annotations and the training set.                                 *)

LabelsOK ==
  /\ labels \subseteq Clip \X Label \X Nat
  /\ \A x \in labels : EventExists(x[1]) /\ x[3] <= now

Sound(r) == r.label \in Label /\ r.from < r.to
SoundRows(R, source) == \A r \in R : r.id[1] = source /\ Sound(r)

AnnotationsOK == \A a \in annotations : a.label \in Label /\ a.from < a.to

ManifestShape(m) ==
  m \in [stage : {"none", "annotations", "candidates", "fetch"}, events : {m.events},
         annotations : {m.annotations}, left : {m.left}, found : {m.found}, touched : {m.touched}]

\* What of an extraction its reviewed candidates do not say: the rows are sound.
RowsOK(m) ==
  /\ ManifestShape(m)
  /\ SoundRows(m.events, "event") /\ SoundRows(m.annotations, "annotation")
  /\ \A r \in m.left \cup m.found : Sound(r)

ManifestOK == RowsOK(manifest)

DatasetOK == \A r \in dataset : Sound(r)

DeskInv == LabelsOK /\ AnnotationsOK /\ ManifestOK /\ DatasetOK

LEMMA LabelsCarried ==
  ASSUME LabelsOK, UNCHANGED labels, now \in Nat, now' \in Nat, now <= now',
         \A c \in Clip : EventExists(c) => EventExists(c)'
  PROVE  LabelsOK'
<1> SUFFICES ASSUME NEW x \in labels PROVE EventExists(x[1])' /\ x[3] <= now' BY DEF LabelsOK
<1>1. x[1] \in Clip /\ x[3] \in Nat /\ EventExists(x[1]) /\ x[3] <= now BY DEF LabelsOK
<1> QED BY <1>1

LEMMA DetectionKeepsEvents ==
  ASSUME WorkerInv, DetectionStep
  PROVE  now' \in Nat /\ now <= now' /\ \A c \in Clip : EventExists(c) => EventExists(c)'
<1>1. now \in Nat BY DEF WorkerInv, WorkerTypes
<1>2. now' = now \/ now' = now + 1
  BY DEF DetectionStep, BeginCycle, LinkCandidates, ExpireCandidates, Pause, Skip, Detect, CycleFails,
         Second, UpdateSettings, LateSample, ClipAnnounced, ClipUploaded
<1>3. \/ UNCHANGED clip
      \/ \E c \in Clip, x \in {"announced", "uploaded"} : clip' = [clip EXCEPT ![c] = x]
  BY DEF DetectionStep, BeginCycle, LinkCandidates, ExpireCandidates, Pause, Skip, Detect, CycleFails,
         Second, UpdateSettings, LateSample, ClipAnnounced, ClipUploaded
<1>4. PICK n \in Nat : now = n BY <1>1
<1>5. now' \in Nat /\ now <= now' BY <1>2, <1>4
<1>6. \A c \in Clip : EventExists(c) => EventExists(c)'
  BY <1>3 DEF EventExists, WorkerInv, ClipsOK
<1> QED BY <1>5, <1>6

\* Of the labels of a clip one was given last.
LEMMA LatestExists ==
  ASSUME LabelsOK, now \in Nat, NEW x \in labels
  PROVE  \E y \in LatestLabels : y \in labels /\ y[1] = x[1]
<1> DEFINE Mine == {y \in labels : y[1] = x[1]}
           T == {y[3] : y \in Mine}
<1>1. T \in SUBSET Nat /\ x[3] \in T /\ \A t \in T : t <= now BY DEF LabelsOK
<1>2. Largest(T) \in T /\ \A t \in T : t <= Largest(T)
  <2> HIDE DEF T
  <2> QED BY <1>1, LargestExists
<1>3. PICK y \in Mine : y[3] = Largest(T) BY <1>2
<1>4. \A z \in labels : z[1] = y[1] => z[3] <= y[3] BY <1>2, <1>3
<1> QED BY <1>3, <1>4 DEF LatestLabels

LatestOf(c) == {x \in LatestLabels : x[1] = c}
Usable == {c \in Clip : LatestOf(c) # {} /\ world.clips[c].duration > 0}
RowOf(x) == Heading("event", x[1], x[2], world.clips[x[1]].ts,
                    world.clips[x[1]].ts + world.clips[x[1]].duration)

LEMMA EventRowFacts ==
  ASSUME WorkerInv, LabelsOK, NEW E \in EventRows
  PROVE  /\ SoundRows(E, "event")
         /\ \A x \in labels : world.clips[x[1]].duration > 0 =>
              \E r \in E :
                /\ r.id[2] = x[1]
                /\ \E y \in labels : y[1] = x[1] /\ y[2] = r.label /\ x[3] <= y[3]
                /\ \A q \in E : q.id = r.id => q = r
<1>1. PICK g \in [Usable -> LatestLabels] :
        (\A c \in Usable : g[c] \in LatestOf(c)) /\ E = {RowOf(g[c]) : c \in Usable}
  BY DEF EventRows, LatestOf, Usable, RowOf
<1>2. now \in Nat BY DEF WorkerInv, WorkerTypes
<1>3. \A c \in Usable : g[c] \in labels /\ g[c] \in LatestLabels /\ g[c][1] = c
  BY <1>1 DEF LatestOf, LatestLabels
<1>4. ASSUME NEW c \in Usable
      PROVE  /\ RowOf(g[c]).id = <<"event", c>> /\ RowOf(g[c]).label = g[c][2]
             /\ Sound(RowOf(g[c]))
  <2>1. /\ g[c][1] = c /\ g[c][2] \in Label /\ EventExists(c) /\ c \in Clip
        /\ world.clips[c].duration > 0
    BY <1>3 DEF LabelsOK, Usable
  <2>2. c \in DOMAIN world.clips BY <2>1 DEF EventExists, WorkerInv, ClipsOK
  <2>3. world.clips[c].ts \in Nat /\ world.clips[c].duration \in Nat
    BY <2>2 DEF WorkerInv, WorkerTypes
  <2>4. world.clips[c].ts < world.clips[c].ts + world.clips[c].duration BY <2>1, <2>3
  <2> QED BY <2>1, <2>4 DEF RowOf, Heading, Sound
<1>5. SoundRows(E, "event") BY <1>1, <1>4 DEF SoundRows
<1>6. ASSUME NEW x \in labels, world.clips[x[1]].duration > 0
      PROVE  \E r \in E :
               /\ r.id[2] = x[1]
               /\ \E y \in labels : y[1] = x[1] /\ y[2] = r.label /\ x[3] <= y[3]
               /\ \A q \in E : q.id = r.id => q = r
  <2> DEFINE c == x[1]
             r == RowOf(g[c])
  <2>1. c \in Clip BY DEF LabelsOK
  <2>2. c \in Usable BY <1>2, <1>6, <2>1, LatestExists DEF Usable, LatestOf
  <2>3. r \in E /\ r.id = <<"event", c>> /\ r.label = g[c][2] BY <1>1, <1>4, <2>2
  <2>4. g[c] \in labels /\ g[c][1] = x[1] /\ x[3] <= g[c][3] BY <1>3, <2>2 DEF LatestLabels
  <2>5. ASSUME NEW q \in E, q.id = r.id PROVE q = r
    <3>1. PICK d \in Usable : q = RowOf(g[d]) BY <1>1
    <3>2. <<"event", d>> = <<"event", c>> BY <1>4, <2>3, <2>5, <3>1
    <3> QED BY <3>1, <3>2
  <2> HIDE DEF r
  <2> QED BY <2>3, <2>4, <2>5
<1> QED BY <1>5, <1>6

LEMMA CandidateRowFacts ==
  ASSUME WorkerInv
  PROVE  SoundRows(CandidateRows, "candidate") /\ {r.id[2] : r \in CandidateRows} = Reviewed
<1> DEFINE row(p) == Heading("candidate", p, candidates[p].label, candidates[p].from, candidates[p].to)
<1>1. ASSUME NEW p \in Reviewed
      PROVE  row(p).id[1] = "candidate" /\ row(p).id[2] = p /\ Sound(row(p))
  <2>1. /\ candidates[p].label # NoLabel /\ candidates[p].label \in Label \cup {NoLabel}
        /\ candidates[p].from < candidates[p].to
    BY DEF Reviewed, WorkerInv, CandidatesOK, Whole, Shape
  <2> QED BY <2>1 DEF Sound, Heading
<1> HIDE DEF row
<1>2. CandidateRows = {row(p) : p \in Reviewed} BY DEF CandidateRows, row
<1> QED BY <1>1, <1>2 DEF SoundRows

LEMMA NoManifestOK == RowsOK(NoManifest)
BY DEF NoManifest, RowsOK, ManifestShape, SoundRows

LEMMA FirstManifest ==
  ASSUME NEW E, SoundRows(E, "event"),
         NEW m, m = [NoManifest EXCEPT !.stage = "annotations", !.events = E]
  PROVE  RowsOK(m) /\ m.events = E
<1>1. /\ m.events = E /\ m.stage = "annotations" /\ m.annotations = {} /\ m.left = {}
      /\ m.found = {} /\ ManifestShape(m)
  BY DEF NoManifest, ManifestShape
<1> QED BY <1>1 DEF RowsOK, SoundRows

LEMMA FetchManifest ==
  ASSUME NEW L, NEW T, \A r \in L : Sound(r),
         NEW m, m = [NoManifest EXCEPT !.stage = "fetch", !.touched = T, !.left = L]
  PROVE  RowsOK(m)
<1>1. /\ m.events = {} /\ m.stage = "fetch" /\ m.annotations = {} /\ m.left = L
      /\ m.found = {} /\ ManifestShape(m)
  BY DEF NoManifest, ManifestShape
<1> QED BY <1>1 DEF RowsOK, SoundRows

\* What the extraction reads of the events.
LEMMA ReadEventsStep ==
  ASSUME WorkerInv, DeskInv, ReadEvents
  PROVE  /\ DeskInv'
         /\ \A x \in labels : world.clips[x[1]].duration > 0 =>
              \E r \in manifest'.events :
                /\ r.id[2] = x[1]
                /\ \E y \in labels : y[1] = x[1] /\ y[2] = r.label /\ x[3] <= y[3]
                /\ \A q \in manifest'.events : q.id = r.id => q = r
<1>1. PICK E \in EventRows :
        manifest' = [NoManifest EXCEPT !.stage = "annotations", !.events = E]
  BY DEF ReadEvents
<1>2. UNCHANGED <<now, clip, labels, annotations, dataset>> BY DEF ReadEvents, detectionVars
<1>3. LabelsOK BY DEF DeskInv
<1>4. SoundRows(E, "event") BY <1>3, EventRowFacts
<1>5. RowsOK(manifest') /\ manifest'.events = E BY <1>1, <1>4, FirstManifest
<1>6. LabelsOK' /\ AnnotationsOK' /\ DatasetOK'
  BY <1>2 DEF DeskInv, LabelsOK, EventExists, AnnotationsOK, DatasetOK
<1> QED BY <1>3, <1>5, <1>6, EventRowFacts DEF DeskInv, ManifestOK

\* The other statements of the extraction.
LEMMA ExtractionStep ==
  ASSUME WorkerInv, DeskInv,
         ReadAnnotations \/ ReadCandidates \/ WriteCache \/ \E r \in manifest.left : FetchBands(r)
  PROVE  DeskInv'
<1>1. UNCHANGED <<now, clip, labels, annotations>>
  BY DEF ReadAnnotations, ReadCandidates, WriteCache, FetchBands, detectionVars
<1>2. LabelsOK' /\ AnnotationsOK' BY <1>1 DEF DeskInv, LabelsOK, EventExists, AnnotationsOK
<1>3. RowsOK(manifest) /\ DatasetOK /\ AnnotationsOK BY DEF DeskInv, ManifestOK
<1>4. CASE ReadAnnotations
  <2>1. manifest' = [manifest EXCEPT !.stage = "candidates", !.annotations = AnnotationRows]
        /\ UNCHANGED dataset
    BY <1>4 DEF ReadAnnotations
  <2>2. SoundRows(AnnotationRows, "annotation")
    BY <1>3 DEF SoundRows, AnnotationRows, Heading, Sound, AnnotationsOK
  <2>3. RowsOK(manifest') BY <1>3, <2>1, <2>2 DEF RowsOK, ManifestShape
  <2> QED BY <1>2, <1>3, <2>1, <2>3 DEF DeskInv, ManifestOK, DatasetOK
<1>5. CASE ReadCandidates
  <2>1. PICK K \in Capped(manifest.annotations, manifest.events) :
          manifest' = [NoManifest EXCEPT !.stage = "fetch", !.touched = manifest.touched,
                                         !.left = manifest.events \cup K \cup CandidateRows]
    BY <1>5 DEF ReadCandidates
  <2>2. K \subseteq manifest.annotations BY DEF Capped
  <2>3. \A r \in manifest.events \cup K \cup CandidateRows : Sound(r)
    BY <1>3, <2>2, CandidateRowFacts DEF RowsOK, SoundRows
  <2>4. RowsOK(manifest') BY <2>1, <2>3, FetchManifest
  <2>5. UNCHANGED dataset BY <1>5 DEF ReadCandidates
  <2> QED BY <1>2, <1>3, <2>4, <2>5 DEF DeskInv, ManifestOK, DatasetOK
<1>6. CASE WriteCache
  <2>1. manifest' = NoManifest /\ dataset' = manifest.found BY <1>6 DEF WriteCache
  <2>2. RowsOK(manifest') BY <2>1, NoManifestOK
  <2>3. DatasetOK' BY <1>3, <2>1 DEF DatasetOK, RowsOK
  <2> QED BY <1>2, <2>2, <2>3 DEF DeskInv, ManifestOK
<1>7. ASSUME NEW r \in manifest.left, FetchBands(r) PROVE DeskInv'
  <2>1. /\ manifest' = [manifest EXCEPT !.left = manifest.left \ {r},
              !.found = IF Bands(r) = {} THEN manifest.found ELSE manifest.found \cup {r}]
        /\ UNCHANGED dataset
    BY <1>7 DEF FetchBands
  <2>2. PICK F : F = IF Bands(r) = {} THEN manifest.found ELSE manifest.found \cup {r} OBVIOUS
  <2>3. F \subseteq manifest.found \cup {r} BY <2>2
  <2>4. RowsOK([manifest EXCEPT !.left = manifest.left \ {r}, !.found = F])
    BY <1>3, <2>3 DEF RowsOK, ManifestShape
  <2>5. RowsOK(manifest') BY <2>1, <2>2, <2>4
  <2> QED BY <1>2, <1>3, <2>1, <2>5 DEF DeskInv, ManifestOK, DatasetOK
<1> QED BY <1>4, <1>5, <1>6, <1>7

-----------------------------------------------------------------------------
(* The invariant.                                                            *)

DeskIInv == WorkerInv /\ PatchesOK /\ VerdictIsOne /\ DeskInv

AudioKept == \A p \in DOMAIN candidates : candidates'[p].audio = candidates[p].audio

LEMMA InitHolds == Init => DeskIInv
<1> SUFFICES ASSUME Init PROVE DeskIInv OBVIOUS
<1>1. /\ world \in World /\ now = 0 /\ settings \in world.settings /\ watermark = Never /\ cycle = Idle
      /\ candidates = <<>> /\ clip = [c \in Clip |-> "absent"]
      /\ patch = [r \in Reviewer |-> NoPatch] /\ labels = {} /\ annotations = {}
      /\ manifest = NoManifest /\ dataset = {}
  BY DEF Init, DetectionInit
<1>2. DOMAIN candidates = {} BY <1>1
<1>3. WorkerTypes BY <1>1 DEF WorkerTypes
<1>4. CandidatesOK /\ VerdictIsOne BY <1>2 DEF CandidatesOK, VerdictIsOne
<1>5. ClipsOK BY <1>1 DEF ClipsOK
<1>6. PatchesOK BY <1>1 DEF PatchesOK, NoPatch
<1>7. DeskInv BY <1>1, NoManifestOK DEF DeskInv, LabelsOK, AnnotationsOK, ManifestOK, DatasetOK
<1> QED BY <1>3, <1>4, <1>5, <1>6, <1>7 DEF DeskIInv, WorkerInv

\* The worker and the devices do not touch what people entered.
LEMMA DetectionStepHolds ==
  ASSUME DeskIInv, DetectionStep
  PROVE  DeskIInv' /\ (ExpireCandidates \/ AudioKept)
<1>1. WorkerInv /\ PatchesOK /\ VerdictIsOne /\ DeskInv BY DEF DeskIInv
<1>2. UNCHANGED <<patch, clashed, labels, annotations, manifest, dataset>>
  BY DEF DetectionStep, reviewVars
<1>3. WorkerInv' /\ Carried /\ Unreviewed
  BY <1>1, BeginCycleStep, LinkStep, ExpireStep, CycleEndStep, DetectStep, AroundStep DEF DetectionStep
<1>4. PatchesOK' BY <1>1, <1>2, <1>3, PatchesCarried
<1>5. VerdictIsOne' BY <1>1, <1>2, <1>3, VerdictsCarried
<1>6. DeskInv'
  <2>1. LabelsOK'
    BY <1>1, <1>2, DetectionKeepsEvents, LabelsCarried DEF DeskInv, WorkerInv, WorkerTypes
  <2>2. AnnotationsOK' /\ ManifestOK' /\ DatasetOK'
    BY <1>1, <1>2 DEF DeskInv, AnnotationsOK, ManifestOK, DatasetOK
  <2> QED BY <2>1, <2>2 DEF DeskInv
<1>7. ExpireCandidates \/ AudioKept
  <2>1. CASE Detect
    <3>1. candidates' = [p \in DOMAIN candidates \cup Fresh(cycle.settings) |->
                           IF p \in Fresh(cycle.settings) THEN Candidate(p, cycle.settings) ELSE candidates[p]]
      BY <2>1 DEF Detect
    <3>2. Fresh(cycle.settings) \cap DOMAIN candidates = {} BY DEF Fresh
    <3> QED BY <3>1, <3>2 DEF AudioKept
  <2>2. CASE ~Detect /\ ~ExpireCandidates
    <3>1. UNCHANGED candidates
      BY <2>2 DEF DetectionStep, BeginCycle, LinkCandidates, Pause, Skip, CycleFails, Second,
                  UpdateSettings, LateSample, ClipAnnounced, ClipUploaded
    <3> QED BY <3>1 DEF AudioKept
  <2> QED BY <2>1, <2>2
<1> QED BY <1>3, <1>4, <1>5, <1>6, <1>7 DEF DeskIInv

\* The desk's own steps leave the worker and its rows alone.
LEMMA WorkerUntouched ==
  ASSUME WorkerInv, PatchesOK, VerdictIsOne, UNCHANGED <<detectionVars, clashed>>
  PROVE  /\ WorkerInv' /\ VerdictIsOne' /\ AudioKept
         /\ UNCHANGED patch => PatchesOK'
<1>1. UNCHANGED <<world, now, settings, watermark, cycle, candidates, clip, clashed>> BY DEF detectionVars
<1>2. WorkerTypes' BY <1>1 DEF WorkerInv, WorkerTypes
<1>3. ClipsOK' BY <1>1 DEF WorkerInv, ClipsOK
<1>4. Carried /\ Unreviewed /\ AudioKept BY <1>1, RowsUntouched DEF WorkerInv, AudioKept
<1>5. CandidatesOK' BY <1>1, <1>4, CandidatesCarried DEF WorkerInv, WorkerTypes
<1>6. VerdictIsOne' BY <1>1, <1>4, VerdictsCarried
<1>7. UNCHANGED patch => PatchesOK' BY <1>4, PatchesCarried
<1> QED BY <1>2, <1>3, <1>4, <1>5, <1>6, <1>7 DEF WorkerInv

LEMMA ReviewStepHolds ==
  ASSUME DeskIInv,
         \/ \E r \in Reviewer : CommitPatch(r)
         \/ \E r \in world.reviewers, p \in DOMAIN candidates, b \in world.bodies : ReadCandidate(r, p, b)
  PROVE  DeskIInv' /\ AudioKept
<1>1. WorkerInv /\ PatchesOK /\ VerdictIsOne /\ DeskInv BY DEF DeskIInv
<1>2. UNCHANGED <<now, clip, labels, annotations, dataset>>
  BY DEF CommitPatch, ReadCandidate, detectionVars
<1>3. DeskInv'
  <2>1. RowsOK(manifest) BY <1>1 DEF DeskInv, ManifestOK
  <2>2. ASSUME NEW T PROVE RowsOK([manifest EXCEPT !.touched = T])
    BY <2>1 DEF RowsOK, ManifestShape
  <2>3. ASSUME NEW r \in Reviewer, CommitPatch(r) PROVE ManifestOK'
    <3>1. PICK T : T = manifest.touched \cup {patch[r].peak} OBVIOUS
    <3>2. manifest' = manifest \/ manifest' = [manifest EXCEPT !.touched = T]
      BY <2>3, <3>1, CommitTouches
    <3>3. RowsOK([manifest EXCEPT !.touched = T]) BY <2>2
    <3> HIDE DEF RowsOK
    <3>4. RowsOK(manifest') BY ONLY <2>1, <3>2, <3>3
    <3> QED BY <3>4 DEF ManifestOK
  <2>4. ASSUME NEW r, NEW q, NEW b, ReadCandidate(r, q, b) PROVE ManifestOK'
    BY <2>1, <2>4 DEF ReadCandidate, ManifestOK
  <2>5. ManifestOK' BY <2>3, <2>4
  <2> QED BY <1>1, <1>2, <2>5 DEF DeskInv, LabelsOK, EventExists, AnnotationsOK, DatasetOK
<1>4. ASSUME NEW r \in Reviewer, CommitPatch(r) PROVE DeskIInv' /\ AudioKept
  BY <1>1, <1>3, <1>4, CommitStep DEF DeskIInv, AudioKept
<1>5. ASSUME NEW r \in world.reviewers, NEW p \in DOMAIN candidates, NEW b \in world.bodies,
             ReadCandidate(r, p, b)
      PROVE  DeskIInv' /\ AudioKept
  <2>1. UNCHANGED <<detectionVars, clashed>> BY <1>5 DEF ReadCandidate
  <2>2. PatchesOK' BY <1>1, <1>5, ReadStep
  <2> QED BY <1>1, <1>3, <2>1, <2>2, WorkerUntouched DEF DeskIInv
<1> QED BY <1>4, <1>5

LEMMA DeleteEventHolds ==
  ASSUME DeskIInv, NEW c \in Clip, DeleteEvent(c)
  PROVE  DeskIInv' /\ AudioKept
<1>1. WorkerInv /\ PatchesOK /\ VerdictIsOne /\ DeskInv BY DEF DeskIInv
<1>2. /\ ClipDeleted(c) /\ labels' = {x \in labels : x[1] # c}
      /\ UNCHANGED <<patch, clashed, annotations, manifest, dataset>>
  BY DEF DeleteEvent
<1>3. WorkerInv' /\ Carried /\ Unreviewed BY <1>1, <1>2, ClipDeletedStep
<1>4. PatchesOK' /\ VerdictIsOne' BY <1>1, <1>2, <1>3, PatchesCarried, VerdictsCarried
<1>5. clip' = [clip EXCEPT ![c] = "deleted"] /\ UNCHANGED now BY <1>2 DEF ClipDeleted
<1>6. LabelsOK'
  <2>1. \A x \in labels' : x \in labels /\ x[1] # c /\ x[1] \in Clip /\ EventExists(x[1]) /\ x[3] <= now
    BY <1>1, <1>2 DEF DeskInv, LabelsOK
  <2>2. \A d \in Clip : d # c /\ EventExists(d) => EventExists(d)'
    BY <1>1, <1>5 DEF EventExists, WorkerInv, ClipsOK
  <2> QED BY <1>1, <1>5, <2>1, <2>2 DEF DeskInv, LabelsOK
<1>7. DeskInv' BY <1>1, <1>2, <1>6 DEF DeskInv, AnnotationsOK, ManifestOK, DatasetOK
<1>8. AudioKept
  <2> SUFFICES ASSUME NEW p \in DOMAIN candidates PROVE candidates'[p].audio = candidates[p].audio
    BY DEF AudioKept
  <2> DEFINE d == [candidates[p] EXCEPT !.clip = @ \ {c}]
  <2>1. candidates'[p] = d BY <1>2 DEF ClipDeleted
  <2>2. Shape(candidates[p]) BY <1>1 DEF WorkerInv, CandidatesOK, Whole
  <2>3. d.audio = candidates[p].audio BY <2>2, UnhungRow
  <2> HIDE DEF d
  <2> QED BY <2>1, <2>3
<1> QED BY <1>3, <1>4, <1>7, <1>8 DEF DeskIInv

LEMMA EntryHolds ==
  ASSUME DeskIInv,
         \/ \E c \in Clip, l \in Label : AddLabel(c, l)
         \/ \E g \in TimeRange, l \in Label : AddAnnotation(g, l)
         \/ \E a \in annotations : DeleteAnnotation(a)
         \/ ReadEvents \/ ReadAnnotations \/ ReadCandidates \/ WriteCache
         \/ \E r \in manifest.left : FetchBands(r)
  PROVE  DeskIInv' /\ AudioKept
<1>1. WorkerInv /\ PatchesOK /\ VerdictIsOne /\ DeskInv BY DEF DeskIInv
<1>2. UNCHANGED <<detectionVars, patch, clashed>>
  BY DEF AddLabel, AddAnnotation, DeleteAnnotation, ReadEvents, ReadAnnotations, ReadCandidates,
         FetchBands, WriteCache
<1>3. WorkerInv' /\ PatchesOK' /\ VerdictIsOne' /\ AudioKept BY <1>1, <1>2, WorkerUntouched
<1>4. UNCHANGED <<now, clip>> BY <1>2 DEF detectionVars
<1>5. LabelsOK /\ AnnotationsOK /\ ManifestOK /\ DatasetOK BY <1>1 DEF DeskInv
<1>6. ASSUME NEW c \in Clip, NEW l \in Label, AddLabel(c, l) PROVE DeskInv'
  <2>1. /\ EventExists(c) /\ labels' = labels \cup {<<c, l, now>>}
        /\ UNCHANGED <<annotations, manifest, dataset>>
    BY <1>6 DEF AddLabel
  <2>2. now \in Nat BY <1>1 DEF WorkerInv, WorkerTypes
  <2>3. LabelsOK' BY <1>4, <1>5, <2>1, <2>2 DEF LabelsOK, EventExists
  <2> QED BY <1>5, <2>1, <2>3 DEF DeskInv, AnnotationsOK, ManifestOK, DatasetOK
<1>7. ASSUME NEW g \in TimeRange, NEW l \in Label, AddAnnotation(g, l) PROVE DeskInv'
  <2>1. /\ annotations' = annotations \cup {[from |-> g.from, to |-> g.to, label |-> l, at |-> now]}
        /\ UNCHANGED <<labels, manifest, dataset>>
    BY <1>7 DEF AddAnnotation
  <2>2. AnnotationsOK' BY <1>5, <2>1 DEF AnnotationsOK
  <2> QED BY <1>4, <1>5, <2>1, <2>2 DEF DeskInv, LabelsOK, EventExists, ManifestOK, DatasetOK
<1>8. ASSUME NEW a \in annotations, DeleteAnnotation(a) PROVE DeskInv'
  <2>1. annotations' \subseteq annotations /\ UNCHANGED <<labels, manifest, dataset>>
    BY <1>8 DEF DeleteAnnotation
  <2>2. AnnotationsOK' BY <1>5, <2>1 DEF AnnotationsOK
  <2> QED BY <1>4, <1>5, <2>1, <2>2 DEF DeskInv, LabelsOK, EventExists, ManifestOK, DatasetOK
<1>9. CASE \/ ReadEvents \/ ReadAnnotations \/ ReadCandidates \/ WriteCache
           \/ \E r \in manifest.left : FetchBands(r)
  BY <1>1, <1>3, <1>9, ReadEventsStep, ExtractionStep DEF DeskIInv
<1>10. CASE \/ \E c \in Clip, l \in Label : AddLabel(c, l)
            \/ \E g \in TimeRange, l \in Label : AddAnnotation(g, l)
            \/ \E a \in annotations : DeleteAnnotation(a)
  BY <1>3, <1>6, <1>7, <1>8, <1>10 DEF DeskIInv
<1> QED BY <1>9, <1>10

LEMMA StepHolds ==
  ASSUME DeskIInv, [Next]_vars
  PROVE  DeskIInv' /\ (ExpireCandidates \/ AudioKept)
<1>1. CASE Next
  BY <1>1, DetectionStepHolds, ReviewStepHolds, DeleteEventHolds, EntryHolds DEF Next
<1>2. CASE UNCHANGED vars
  <2>1. UNCHANGED <<detectionVars, patch, clashed, labels, annotations, manifest, dataset, now, clip>>
    BY <1>2 DEF vars, reviewVars, detectionVars
  <2>2. WorkerInv' /\ PatchesOK' /\ VerdictIsOne' /\ AudioKept BY <2>1, WorkerUntouched DEF DeskIInv
  <2>3. DeskInv'
    BY <2>1 DEF DeskIInv, DeskInv, LabelsOK, EventExists, AnnotationsOK, ManifestOK, DatasetOK
  <2> QED BY <2>2, <2>3 DEF DeskIInv
<1> QED BY <1>1, <1>2

LEMMA DeskInvariant == Spec => []DeskIInv
<1>1. DeskIInv /\ [Next]_vars => DeskIInv' BY StepHolds
<1> QED BY <1>1, InitHolds, PTL DEF Spec

\* Only a scan adds candidates, and only it writes down what was scanned.
LEMMA ScanOrNot ==
  ASSUME DeskIInv, [Next]_vars
  PROVE  \/ Detect
         \/ /\ UNCHANGED <<world, scanned, overtaken>> /\ Carried
            /\ DOMAIN candidates' = DOMAIN candidates
<1> DEFINE Kept == /\ UNCHANGED <<world, scanned, overtaken>> /\ Carried
                   /\ DOMAIN candidates' = DOMAIN candidates
<1>0. WorkerInv /\ CandidatesOK /\ PatchesOK /\ VerdictIsOne BY DEF DeskIInv, WorkerInv
<1>1. CASE ExpireCandidates
  <2>1. UNCHANGED <<world, scanned, overtaken>> BY <1>1 DEF ExpireCandidates
  <2> QED BY <1>0, <1>1, <2>1, ExpireFacts
<1>2. CASE UNCHANGED <<world, scanned, overtaken, candidates>>
  <2>1. Carried BY <1>0, <1>2, RowsUntouched
  <2> QED BY <1>2, <2>1
<1>3. ASSUME NEW c \in Clip, ClipDeleted(c) PROVE Kept
  <2>1. UNCHANGED <<world, scanned, overtaken>> /\ DOMAIN candidates' = DOMAIN candidates
    BY <1>3 DEF ClipDeleted
  <2>2. Carried BY <1>0, <1>3, ClipDeletedStep
  <2> QED BY <2>1, <2>2
<1>4. ASSUME NEW q \in Reviewer, CommitPatch(q) PROVE Kept
  <2>1. UNCHANGED <<world, scanned, overtaken>> BY <1>4 DEF CommitPatch
  <2>2. Carried /\ DOMAIN candidates' = DOMAIN candidates BY <1>0, <1>4, CommitStep
  <2> QED BY <2>1, <2>2
<1>5. CASE DetectionStep
  <2>1. Detect \/ ExpireCandidates \/ UNCHANGED <<world, scanned, overtaken, candidates>>
    BY <1>5 DEF DetectionStep, BeginCycle, LinkCandidates, Pause, Skip, CycleFails, Second,
                UpdateSettings, LateSample, ClipAnnounced, ClipUploaded
  <2> QED BY <1>1, <1>2, <2>1
<1>6. CASE \/ \E q \in world.reviewers, p \in DOMAIN candidates, b \in world.bodies : ReadCandidate(q, p, b)
           \/ \E c \in Clip, l \in Label : AddLabel(c, l)
           \/ \E g \in TimeRange, l \in Label : AddAnnotation(g, l)
           \/ \E a \in annotations : DeleteAnnotation(a)
           \/ ReadEvents \/ ReadAnnotations \/ ReadCandidates \/ WriteCache
           \/ (\E r \in manifest.left : FetchBands(r)) \/ UNCHANGED vars
  <2>1. UNCHANGED detectionVars
    BY <1>6 DEF ReadCandidate, AddLabel, AddAnnotation, DeleteAnnotation, ReadEvents, ReadAnnotations,
                ReadCandidates, FetchBands, WriteCache, vars
  <2>2. UNCHANGED <<world, scanned, overtaken, candidates>> BY <2>1 DEF detectionVars
  <2> QED BY <1>2, <2>2
<1>7. CASE \E c \in Clip : DeleteEvent(c) BY <1>3, <1>7 DEF DeleteEvent
<1> QED BY <1>4, <1>5, <1>6, <1>7 DEF Next

LEMMA FoundInvariant == Spec => [](FoundInv /\ InsideIsNear)
<1>1. Init => FoundInv /\ InsideIsNear
  <2> SUFFICES ASSUME Init PROVE FoundInv /\ InsideIsNear OBVIOUS
  <2>1. scanned = {} /\ DOMAIN candidates = {} BY DEF Init, DetectionInit
  <2> QED BY <2>1 DEF FoundInv, InsideIsNear
<1>2. DeskIInv /\ FoundInv /\ InsideIsNear /\ [Next]_vars => (FoundInv /\ InsideIsNear)'
  <2> SUFFICES ASSUME DeskIInv, FoundInv, InsideIsNear, [Next]_vars PROVE FoundInv' /\ InsideIsNear'
    OBVIOUS
  <2>1. WorkerInv /\ WorkerTypes BY DEF DeskIInv, WorkerInv
  <2>2. CASE Detect BY <2>1, <2>2, FoundDetect, InsideDetect
  <2>3. CASE ~Detect BY <2>3, ScanOrNot, FoundUntouched, InsideCarried
  <2> QED BY <2>2, <2>3
<1> QED BY <1>1, <1>2, DeskInvariant, PTL DEF Spec

-----------------------------------------------------------------------------
(* What the linking pass knows when it retires.                              *)

\* Between the two statements: what was not picked and might have been has none of the
\* clips that had been uploaded when the cycle began.
HuntInv ==
  cycle.active =>
    /\ \A c \in cycle.uploaded : c \in Clip /\ clip[c] \in {"uploaded", "deleted"}
    /\ cycle.at = "expire" =>
         \A p \in DOMAIN candidates :
           /\ candidates[p].audio # "linked" /\ p >= RelinkSince(cycle.settings)
           /\ p \notin DOMAIN cycle.picked
           => Qualifying(p, cycle.settings) \cap cycle.uploaded = {}

\* Nobody but the worker touches its cycle, and a clip is uploaded once.
LEMMA CycleMoves ==
  ASSUME [Next]_vars
  PROVE  \/ BeginCycle \/ LinkCandidates \/ ExpireCandidates \/ cycle' = Idle
         \/ cycle' = cycle /\ ~Detect /\ ~ExpireCandidates
<1> DEFINE Goal == \/ BeginCycle \/ LinkCandidates \/ ExpireCandidates \/ cycle' = Idle
                   \/ cycle' = cycle /\ ~Detect /\ ~ExpireCandidates
<1>1. Detect => cycle' = Idle BY DEF Detect, CycleEnds
<1>2. CASE DetectionStep
  BY <1>1, <1>2 DEF DetectionStep, Pause, Skip, CycleFails, CycleEnds, Second, UpdateSettings,
                    LateSample, ClipAnnounced, ClipUploaded
<1>3. CASE UNCHANGED cycle BY <1>1, <1>3
<1>4. CASE ~DetectionStep
  <2>1. UNCHANGED cycle
    BY <1>4 DEF Next, CommitPatch, ReadCandidate, DeleteEvent, ClipDeleted, AddLabel, AddAnnotation,
                DeleteAnnotation, ReadEvents, ReadAnnotations, ReadCandidates, FetchBands,
                WriteCache, vars, detectionVars
  <2> QED BY <1>3, <2>1
<1> QED BY <1>2, <1>4

LEMMA ClipMoves ==
  ASSUME DeskIInv, [Next]_vars, NEW c \in Clip
  PROVE  /\ clip[c] \in {"uploaded", "deleted"} => clip'[c] \in {clip[c], "deleted"}
         /\ BeginCycle \/ LinkCandidates => clip' = clip
<1>1. \/ clip' = clip
      \/ \E d \in Clip : \/ clip[d] \in {"absent", "announced"} /\ \E x : clip' = [clip EXCEPT ![d] = x]
                         \/ clip' = [clip EXCEPT ![d] = "deleted"]
  BY DEF Next, DetectionStep, BeginCycle, LinkCandidates, ExpireCandidates, Pause, Skip, Detect,
         CycleFails, Second, UpdateSettings, LateSample, ClipAnnounced, ClipUploaded, CommitPatch,
         ReadCandidate, DeleteEvent, ClipDeleted, AddLabel, AddAnnotation, DeleteAnnotation,
         ReadEvents, ReadAnnotations, ReadCandidates, FetchBands, WriteCache, vars, detectionVars
<1>2. clip \in [Clip -> {"absent", "announced", "uploaded", "deleted"}]
  BY DEF DeskIInv, WorkerInv, ClipsOK
<1>3. BeginCycle \/ LinkCandidates => clip' = clip BY DEF BeginCycle, LinkCandidates
<1> QED BY <1>1, <1>2, <1>3

LEMMA HuntStep ==
  ASSUME DeskIInv, HuntInv, [Next]_vars
  PROVE  HuntInv'
<1>1. WorkerTypes BY DEF DeskIInv, WorkerInv
<1>2. CASE cycle' = Idle BY <1>2 DEF HuntInv, Idle
<1>3. CASE BeginCycle
  <2>1. /\ cycle'.uploaded = {c \in Clip : clip[c] = "uploaded"} /\ cycle'.at = "link"
        /\ UNCHANGED clip
    BY <1>3 DEF BeginCycle, CycleStarts
  <2> QED BY <2>1 DEF HuntInv
<1>4. CASE LinkCandidates
  <2>1. LinkStatement /\ UNCHANGED <<world, clip, candidates>> BY <1>4 DEF LinkCandidates
  <2>2. /\ cycle'.now = cycle.now /\ cycle'.settings = cycle.settings
        /\ cycle'.uploaded = cycle.uploaded
        /\ \A p \in Swept(cycle.settings) \ DOMAIN cycle'.picked : Qualifying(p, cycle.settings) = {}
    BY <1>1, <2>1, LinkFacts
  <2>3. \A x : Qualifying(x, cycle.settings)' = Qualifying(x, cycle.settings)
    BY <2>1, <2>2 DEF Qualifying, Overlaps
  <2>4. RelinkSince(cycle.settings)' = RelinkSince(cycle.settings) BY <2>2 DEF RelinkSince
  <2>5. cycle.active BY <2>1 DEF LinkStatement
  <2>6. ASSUME NEW p \in DOMAIN candidates', candidates'[p].audio # "linked",
               p >= RelinkSince(cycle.settings)', p \notin DOMAIN cycle'.picked
        PROVE  Qualifying(p, cycle.settings)' \cap cycle'.uploaded = {}
    <3>1. p \in Swept(cycle.settings) BY <2>1, <2>4, <2>6 DEF Swept
    <3> QED BY <2>2, <2>3, <2>6, <3>1
  <2> QED BY <2>1, <2>2, <2>5, <2>6 DEF HuntInv
<1>5. CASE ExpireCandidates
  <2>1. /\ cycle.active /\ cycle'.at = "detect" /\ cycle'.uploaded = cycle.uploaded /\ UNCHANGED clip
    <3>1. cycle.active /\ UNCHANGED clip /\ cycle' = [cycle EXCEPT !.at = "detect", !.picked = <<>>]
      BY <1>5 DEF ExpireCandidates, LinkingEnds
    <3>2. CycleShape(cycle) BY <1>1, <3>1, CycleFacts
    <3> QED BY <3>1, <3>2 DEF CycleShape
  <2> QED BY <2>1 DEF HuntInv
<1>6. CASE cycle' = cycle /\ ~Detect /\ ~ExpireCandidates
  <2> SUFFICES ASSUME cycle.active PROVE HuntInv' BY <1>6 DEF HuntInv
  <2>1. \A c \in cycle.uploaded :
          c \in Clip /\ clip[c] \in {"uploaded", "deleted"} /\ clip'[c] \in {clip[c], "deleted"}
    BY ClipMoves DEF HuntInv
  <2>2. UNCHANGED world /\ DOMAIN candidates' = DOMAIN candidates BY <1>6, ScanOrNot
  <2>3. \A p \in DOMAIN candidates : candidates'[p].audio = candidates[p].audio
    BY <1>6, StepHolds DEF AudioKept
  <2>4. \A p : Qualifying(p, cycle.settings)' \cap cycle.uploaded
               \subseteq Qualifying(p, cycle.settings) \cap cycle.uploaded
    BY <1>6, <2>1, <2>2 DEF Qualifying, Overlaps
  <2>5. RelinkSince(cycle.settings)' = RelinkSince(cycle.settings) BY <1>6 DEF RelinkSince
  <2>6. ASSUME NEW p \in DOMAIN candidates', cycle'.at = "expire", candidates'[p].audio # "linked",
               p >= RelinkSince(cycle.settings)', p \notin DOMAIN cycle'.picked
        PROVE  Qualifying(p, cycle.settings)' \cap cycle'.uploaded = {}
    <3>1. Qualifying(p, cycle.settings) \cap cycle.uploaded = {}
      BY <1>6, <2>2, <2>3, <2>5, <2>6 DEF HuntInv
    <3> QED BY <1>6, <2>4, <3>1
  <2> QED BY <1>6, <2>1, <2>6 DEF HuntInv
<1> QED BY <1>2, <1>3, <1>4, <1>5, <1>6, CycleMoves

LEMMA HuntInvariant == Spec => []HuntInv
<1>1. Init => HuntInv BY DEF Init, DetectionInit, HuntInv, Idle
<1> QED BY <1>1, HuntStep, DeskInvariant, PTL DEF Spec

-----------------------------------------------------------------------------
(* What the extraction holds of the candidates while it fetches.             *)

Stands(p) == candidates[p].label # NoLabel /\ ~candidates[p].dismissed

RowsOf(R, p) == {r \in R : r.id = <<"candidate", p>>}

\* A candidate nobody touched has its row, under its label, exactly if it stands and has
\* a snapshot or has not been looked at yet.
FetchInv ==
  manifest.stage = "fetch" =>
    \A p :
      /\ RowsOf(manifest.left \cup manifest.found, p) # {} => p \in DOMAIN candidates
      /\ RowsOf(manifest.found, p) # {} => Snapshot(p) # {}
      /\ p \in DOMAIN candidates \ manifest.touched =>
           /\ \A r \in RowsOf(manifest.left \cup manifest.found, p) :
                Stands(p) /\ r.label = candidates[p].label
           /\ Stands(p) /\ Snapshot(p) # {} => RowsOf(manifest.left \cup manifest.found, p) # {}

LEMMA ManifestMoves ==
  ASSUME Next
  PROVE  \/ ReadEvents \/ ReadAnnotations \/ ReadCandidates \/ WriteCache
         \/ \E r \in manifest.left : FetchBands(r)
         \/ \E r \in Reviewer : CommitPatch(r)
         \/ manifest' = manifest
BY DEF Next, DetectionStep, reviewVars, ReadCandidate, DeleteEvent, AddLabel, AddAnnotation,
       DeleteAnnotation

\* Who stands and what was recorded of it changes by a review only.
LEMMA VerdictMoves ==
  ASSUME DeskIInv, Next
  PROVE  Carried /\ (Unreviewed \/ \E r \in Reviewer : CommitPatch(r))
<1>0. WorkerInv /\ CandidatesOK /\ PatchesOK /\ VerdictIsOne BY DEF DeskIInv, WorkerInv
<1>1. CASE DetectionStep
  BY <1>0, <1>1, BeginCycleStep, LinkStep, ExpireStep, CycleEndStep, DetectStep, AroundStep
     DEF DetectionStep
<1>2. CASE \E r \in Reviewer : CommitPatch(r) BY <1>0, <1>2, CommitStep
<1>3. CASE \E c \in Clip : DeleteEvent(c) BY <1>0, <1>3, ClipDeletedStep DEF DeleteEvent
<1>4. CASE UNCHANGED candidates BY <1>0, <1>4, RowsUntouched
<1> QED BY <1>1, <1>2, <1>3, <1>4 DEF Next, ReadCandidate, AddLabel, AddAnnotation, DeleteAnnotation,
       ReadEvents, ReadAnnotations, ReadCandidates, FetchBands, WriteCache, detectionVars

LEMMA FetchStarts ==
  ASSUME DeskIInv, ReadCandidates
  PROVE  FetchInv'
<1>1. PICK K \in Capped(manifest.annotations, manifest.events) :
        manifest' = [NoManifest EXCEPT !.stage = "fetch", !.touched = manifest.touched,
                                       !.left = manifest.events \cup K \cup CandidateRows]
  BY DEF ReadCandidates
<1>2. UNCHANGED candidates BY DEF ReadCandidates, detectionVars
<1>3. K \subseteq manifest.annotations BY DEF Capped
<1>4. SoundRows(manifest.events, "event") /\ SoundRows(manifest.annotations, "annotation")
  BY DEF DeskIInv, DeskInv, ManifestOK, RowsOK
<1> DEFINE L == manifest.events \cup K \cup CandidateRows
<1>5. manifest'.left = L /\ manifest'.found = {} BY <1>1 DEF NoManifest
<1>6. \A p : RowsOf(L, p) = RowsOf(CandidateRows, p)
  <2>1. \A r \in manifest.events \cup K : r.id[1] # "candidate" BY <1>3, <1>4 DEF SoundRows
  <2> QED BY <2>1 DEF RowsOf
<1>7. \A p : RowsOf(CandidateRows, p) =
        IF p \in DOMAIN candidates /\ Stands(p)
        THEN {Heading("candidate", p, candidates[p].label, candidates[p].from, candidates[p].to)}
        ELSE {}
  BY DEF RowsOf, CandidateRows, Reviewed, Stands, Heading
<1> HIDE DEF L
<1>8. \A p : /\ RowsOf(L, p) # {} => p \in DOMAIN candidates
             /\ \A r \in RowsOf(L, p) : Stands(p) /\ r.label = candidates[p].label
             /\ p \in DOMAIN candidates /\ Stands(p) => RowsOf(L, p) # {}
  <2> TAKE p
  <2>1. CASE p \in DOMAIN candidates /\ Stands(p)
    <3> DEFINE h == Heading("candidate", p, candidates[p].label, candidates[p].from, candidates[p].to)
    <3>1. RowsOf(L, p) = {h} BY <1>6, <1>7, <2>1
    <3>2. h.label = candidates[p].label BY DEF Heading
    <3> HIDE DEF h
    <3> QED BY <2>1, <3>1, <3>2
  <2>2. CASE ~(p \in DOMAIN candidates /\ Stands(p))
    <3>1. RowsOf(L, p) = {} BY <1>6, <1>7, <2>2
    <3> QED BY <2>2, <3>1
  <2> QED BY <2>1, <2>2
<1>9. \A p : RowsOf({}, p) = {} BY DEF RowsOf
<1>10. L \cup {} = L OBVIOUS
<1> QED BY <1>2, <1>5, <1>8, <1>9, <1>10 DEF FetchInv, Stands, Snapshot

LEMMA FetchGoesOn ==
  ASSUME DeskIInv, FetchInv, NEW x \in manifest.left, FetchBands(x)
  PROVE  FetchInv'
<1> DEFINE F == IF Bands(x) = {} THEN manifest.found ELSE manifest.found \cup {x}
<1>1. manifest' = [manifest EXCEPT !.left = manifest.left \ {x}, !.found = F]
      /\ UNCHANGED candidates
  BY DEF FetchBands, detectionVars
<1>2. ManifestShape(manifest) BY DEF DeskIInv, DeskInv, ManifestOK, RowsOK
<1>3. /\ manifest'.left = manifest.left \ {x} /\ manifest'.found = F
      /\ manifest'.touched = manifest.touched /\ manifest'.stage = manifest.stage
  BY <1>1, <1>2 DEF ManifestShape
<1> SUFFICES ASSUME manifest.stage = "fetch", NEW p
             PROVE  LET R == manifest'.left \cup manifest'.found IN
                    /\ RowsOf(R, p) # {} => p \in DOMAIN candidates
                    /\ RowsOf(manifest'.found, p) # {} => Snapshot(p) # {}
                    /\ p \in DOMAIN candidates \ manifest'.touched =>
                         /\ \A r \in RowsOf(R, p) : Stands(p) /\ r.label = candidates[p].label
                         /\ Stands(p) /\ Snapshot(p) # {} => RowsOf(R, p) # {}
  BY <1>1, <1>3 DEF FetchInv, Stands, Snapshot
<1>4. x.id = <<"candidate", p>> => Bands(x) = Snapshot(p) BY DEF Bands, Snapshot
<1>5. RowsOf(manifest'.left \cup manifest'.found, p)
      \subseteq RowsOf(manifest.left \cup manifest.found, p)
  BY <1>3 DEF RowsOf
<1>6. \/ RowsOf(manifest'.found, p) \subseteq RowsOf(manifest.found, p)
      \/ x.id = <<"candidate", p>> /\ Bands(x) # {}
  BY <1>3 DEF RowsOf
<1>7. \/ RowsOf(manifest.left \cup manifest.found, p)
         \subseteq RowsOf(manifest'.left \cup manifest'.found, p)
      \/ x.id = <<"candidate", p>> /\ Bands(x) = {}
  BY <1>3 DEF RowsOf
<1> QED BY <1>3, <1>4, <1>5, <1>6, <1>7 DEF FetchInv

\* Whatever happens between two of its statements.
LEMMA FetchWaits ==
  ASSUME DeskIInv, FetchInv, Next, manifest.stage = "fetch",
         manifest' = manifest \/ \E r \in Reviewer : CommitPatch(r)
  PROVE  FetchInv'
<1>1. Carried BY VerdictMoves
<1>2. \A p \in DOMAIN candidates : p \in DOMAIN candidates' /\ Snapshot(p)' = Snapshot(p)
  BY <1>1 DEF Carried, SameSnapshot, Snapshot
<1>3. ManifestShape(manifest) BY DEF DeskIInv, DeskInv, ManifestOK, RowsOK
<1> DEFINE Same == \A p \in DOMAIN candidates' \ manifest'.touched :
                     IF p \in DOMAIN candidates THEN SameVerdict(candidates[p], candidates'[p])
                     ELSE candidates'[p].label = NoLabel
<1>4. /\ manifest'.left = manifest.left /\ manifest'.found = manifest.found
      /\ manifest'.stage = manifest.stage /\ manifest.touched \subseteq manifest'.touched
      /\ Same
  <2>1. CASE manifest' = manifest /\ Unreviewed BY <2>1 DEF Unreviewed
  <2>2. CASE \E r \in Reviewer : CommitPatch(r)
    <3>1. PICK r \in Reviewer : CommitPatch(r) BY <2>2
    <3>2. /\ DOMAIN candidates' = DOMAIN candidates
          /\ \A x \in DOMAIN candidates : x # patch[r].peak => candidates'[x] = candidates[x]
      BY <3>1, CommitStep DEF DeskIInv
    <3>3. CASE manifest' = manifest /\ \A x \in DOMAIN candidates : candidates'[x] = candidates[x]
      BY <3>2, <3>3 DEF SameVerdict
    <3>4. CASE manifest' = [manifest EXCEPT !.touched = manifest.touched \cup {patch[r].peak}]
      <4>1. /\ manifest'.left = manifest.left /\ manifest'.found = manifest.found
            /\ manifest'.stage = manifest.stage
            /\ manifest'.touched = manifest.touched \cup {patch[r].peak}
        BY <1>3, <3>4 DEF ManifestShape
      <4> QED BY <3>2, <4>1 DEF SameVerdict
    <3> QED BY <3>1, <3>3, <3>4, CommitTouches
  <2> QED BY <2>1, <2>2, VerdictMoves
<1> HIDE DEF Same
<1> SUFFICES ASSUME NEW p
             PROVE  LET R == manifest'.left \cup manifest'.found IN
                    /\ RowsOf(R, p) # {} => p \in DOMAIN candidates'
                    /\ RowsOf(manifest'.found, p) # {} => Snapshot(p)' # {}
                    /\ p \in DOMAIN candidates' \ manifest'.touched =>
                         /\ \A r \in RowsOf(R, p) : Stands(p)' /\ r.label = candidates'[p].label
                         /\ Stands(p)' /\ Snapshot(p)' # {} => RowsOf(R, p) # {}
  BY DEF FetchInv, RowsOf
<1> DEFINE R == manifest.left \cup manifest.found
<1>5. /\ RowsOf(R, p) # {} => p \in DOMAIN candidates
      /\ RowsOf(manifest.found, p) # {} => Snapshot(p) # {}
      /\ p \in DOMAIN candidates \ manifest.touched =>
           /\ \A r \in RowsOf(R, p) : Stands(p) /\ r.label = candidates[p].label
           /\ Stands(p) /\ Snapshot(p) # {} => RowsOf(R, p) # {}
  BY DEF FetchInv
<1>6. manifest'.left \cup manifest'.found = R BY <1>4
<1>7. RowsOf(manifest.found, p) \subseteq RowsOf(R, p) BY DEF RowsOf
<1> HIDE DEF R
<1>8. p \in DOMAIN candidates \ manifest'.touched =>
        (Stands(p)' <=> Stands(p)) /\ candidates'[p].label = candidates[p].label
  BY <1>2, <1>4 DEF Same, SameVerdict, Stands
<1>9. p \in DOMAIN candidates' \ manifest'.touched /\ p \notin DOMAIN candidates => ~Stands(p)'
  BY <1>4 DEF Same, Stands
<1> QED BY <1>2, <1>4, <1>5, <1>6, <1>7, <1>8, <1>9

LEMMA FetchInvariant == Spec => []FetchInv
<1>1. Init => FetchInv BY DEF Init, FetchInv, NoManifest
<1>2. DeskIInv /\ FetchInv /\ [Next]_vars => FetchInv'
  <2> SUFFICES ASSUME DeskIInv, FetchInv, [Next]_vars PROVE FetchInv' OBVIOUS
  <2>1. CASE ReadCandidates BY <2>1, FetchStarts
  <2>2. CASE \E r \in manifest.left : FetchBands(r) BY <2>2, FetchGoesOn
  <2>3. CASE manifest'.stage # "fetch" BY <2>3 DEF FetchInv
  <2>4. ASSUME ReadEvents \/ ReadAnnotations \/ WriteCache PROVE manifest'.stage # "fetch"
    <3>1. ManifestShape(manifest) BY DEF DeskIInv, DeskInv, ManifestOK, RowsOK
    <3>2. CASE ReadEvents BY <3>2 DEF ReadEvents, NoManifest
    <3>3. CASE ReadAnnotations BY <3>1, <3>3 DEF ReadAnnotations, ManifestShape
    <3>4. CASE WriteCache BY <3>4 DEF WriteCache, NoManifest
    <3> QED BY <2>4, <3>2, <3>3, <3>4
  <2>5. CASE Next /\ (manifest' = manifest \/ \E r \in Reviewer : CommitPatch(r))
    <3>1. CASE manifest.stage = "fetch" BY <2>5, <3>1, FetchWaits
    <3>2. CASE manifest.stage # "fetch"
      <4>1. ManifestShape(manifest) BY DEF DeskIInv, DeskInv, ManifestOK, RowsOK
      <4>2. manifest'.stage = manifest.stage BY <2>5, <4>1, CommitTouches DEF ManifestShape
      <4> QED BY <2>3, <3>2, <4>2
    <3> QED BY <3>1, <3>2
  <2>6. CASE UNCHANGED vars
    BY <2>6 DEF vars, detectionVars, reviewVars, FetchInv, RowsOf, Stands, Snapshot
  <2> QED BY <2>1, <2>2, <2>3, <2>4, <2>5, <2>6, ManifestMoves
<1> QED BY <1>1, <1>2, DeskInvariant, PTL DEF Spec

-----------------------------------------------------------------------------
(* Theorems.                                                                 *)

\* For any recordings, thresholds and windows, wherever the polling cycles begin and end,
\* however late or often they run and whatever settings come in between: a short event
\* that stands alone and was read in time has its candidate, and another candidate near
\* it comes from a scan with other settings only (worker.py, run_detection_cycle).
THEOREM LoneEventsAreFound == Spec => []LoneEventsFound
<1>1. FoundInv => LoneEventsFound
  <2> SUFFICES ASSUME FoundInv, NEW s, NEW p \in LonePeaks(s), <<p, s>> \in scanned, ReadInTime(p, s)
               PROVE  /\ p \in DOMAIN candidates
                      /\ \A q \in DOMAIN candidates \ {p} :
                           Distance(p, q) <= s.cooldown + s.merge => ScannedOtherwise(q, s)
    BY DEF LoneEventsFound
  <2>1. p \in DOMAIN candidates
    <3> DEFINE x == <<p, s>>
    <3>1. x \in scanned /\ x[1] = p /\ x[2] = s OBVIOUS
    <3> HIDE DEF x
    <3> QED BY <3>1 DEF FoundInv
  <2>2. ASSUME NEW q \in DOMAIN candidates \ {p}, Distance(p, q) <= s.cooldown + s.merge
        PROVE  ScannedOtherwise(q, s)
    <3>1. PICK x \in scanned :
            /\ x[1] = q
            /\ \A r \in LonePeaks(x[2]) :
                 ReadInTime(r, x[2]) /\ Distance(r, q) <= x[2].cooldown + x[2].merge => r = q
      BY DEF FoundInv
    <3>2. x[2] # s BY <2>2, <3>1
    <3> QED BY <3>1, <3>2 DEF ScannedOtherwise
  <2> QED BY <2>1, <2>2
<1> QED BY <1>1, FoundInvariant, PTL

\* A candidate is correlated with at most one inside peak, and with one that lies within
\* the correlation window of the settings it was scanned with, whatever has become of
\* the settings since and whatever is reviewed or linked (worker.py, correlate_peak).
THEOREM InsideStaysNear == Spec => []InsideIsNear
BY FoundInvariant, PTL

\* What was seen and heard of a peak when it was found is never replaced: neither a scan
\* that passes it again, nor a linking pass, a review or the deletion of its clip removes a
\* candidate or changes its window, its frames or its inside peak, and a candidate that
\* was linked is not retired (worker.py, ON CONFLICT DO NOTHING; audio.py, _EXPIRE_SQL).
EvidenceFixed ==
  \A p \in DOMAIN candidates :
    /\ p \in DOMAIN candidates'
    /\ SameSnapshot(candidates[p], candidates'[p])
    /\ candidates[p].audio = "linked" => candidates'[p].audio = "linked"

THEOREM EvidenceIsFixed == Spec => [][EvidenceFixed]_vars
<1>1. DeskIInv /\ [Next]_vars => [EvidenceFixed]_vars
  <2> SUFFICES ASSUME DeskIInv, [Next]_vars PROVE EvidenceFixed OBVIOUS
  <2>1. Carried
    <3>1. WorkerInv BY DEF DeskIInv
    <3>2. CASE Detect BY <3>1, <3>2, DetectStep
    <3>3. CASE ~Detect BY <3>3, ScanOrNot
    <3> QED BY <3>2, <3>3
  <2> QED BY <2>1 DEF Carried, EvidenceFixed
<1> QED BY <1>1, DeskInvariant, PTL DEF Spec

\* The candidates that one polling cycle inserts are more than its cooldown apart; what two
\* cycles insert may be nearer (worker.py, run_detection_cycle).
CycleApart ==
  \A p, q \in DOMAIN candidates' \ DOMAIN candidates :
    p # q => Distance(p, q) > cycle.settings.cooldown

THEOREM CycleKeepsApart == Spec => [][CycleApart]_vars
<1>1. DeskIInv /\ [Next]_vars => [CycleApart]_vars
  <2> SUFFICES ASSUME DeskIInv, [Next]_vars PROVE CycleApart OBVIOUS
  <2>1. CASE Detect
    <3> DEFINE s == cycle.settings
               t == Tuning(s, "outside")
               S == Samples("outside", ProcessingStart - History(s), ProcessingEnd + LookAhead(s))
    <3>1. WorkerTypes /\ cycle.active BY <2>1 DEF DeskIInv, WorkerInv, Detect, CycleEnds
    <3>2. s \in Settings BY <3>1, CycleFacts
    <3>3. t \in TuningType /\ t.cooldown = s.cooldown BY <3>2, TuningTyped DEF Mic
    <3>4. Telemetry(S, world.last) BY <3>1, SamplesAreTelemetry DEF Mic
    <3> HIDE DEF t, S
    <3>5. \A p, q \in AdaptivePeaksOf(S, t) : p # q => Distance(p, q) > t.cooldown
      BY <3>3, <3>4, PeaksAreApart, Zenon
    <3>6. \A p \in DOMAIN candidates' \ DOMAIN candidates : p \in AdaptivePeaksOf(S, t)
      <4>1. DOMAIN candidates' = DOMAIN candidates \cup Fresh(s) BY <2>1 DEF Detect
      <4>2. Fresh(s) \subseteq OutsidePeaks(s) BY DEF Fresh
      <4>3. OutsidePeaks(s) = AdaptivePeaksOf(S, t) BY DEF OutsidePeaks, S, t
      <4> QED BY <4>1, <4>2, <4>3
    <3> QED BY <3>3, <3>5, <3>6 DEF CycleApart
  <2>2. CASE ~Detect BY <2>2, ScanOrNot DEF CycleApart
  <2> QED BY <2>1, <2>2
<1> QED BY <1>1, DeskInvariant, PTL DEF Spec

\* For any reviewers and any order of reads, commits, linking passes and deletions of
\* clips, the database never refuses a label that the review had let through.
THEOREM ReviewIsAccepted == Spec => []ReviewNeverTrips
<1>1. DeskIInv => ReviewNeverTrips BY DEF DeskIInv, PatchesOK, ReviewNeverTrips
<1> QED BY <1>1, DeskInvariant, PTL

\* A candidate carries a label and a dismissal at once only if two reviewers decided on
\* it from one row.
THEOREM VerdictStaysOne == Spec => []VerdictIsOne
<1>1. DeskIInv => VerdictIsOne BY DEF DeskIInv
<1> QED BY <1>1, DeskInvariant, PTL

\* Whatever settings a cycle runs under, however late it comes within the retention of
\* the source table and however late single frames are or how many are lost: the snapshot
\* of a candidate holds every frame of its window that was committed in time.
THEOREM SnapshotStaysWhole == Spec => []SnapshotWhole
<1>1. DeskIInv => SnapshotWhole
  BY DEF DeskIInv, WorkerInv, CandidatesOK, Whole, HoldsItsFrames, InWindow, SnapshotWhole
<1> QED BY <1>1, DeskInvariant, PTL

\* Types of what the reviewers and the extraction produce: a label belongs to an event
\* that is there, and a training row has a label in use and a span of time.
THEOREM ReviewTypeCorrect == Spec => []ReviewTypeOK
<1>1. DeskIInv => ReviewTypeOK
  <2> SUFFICES ASSUME DeskIInv PROVE ReviewTypeOK OBVIOUS
  <2>1. \A r \in Reviewer : patch[r].open => patch[r].peak \in DOMAIN candidates
    BY DEF DeskIInv, PatchesOK
  <2>2. \A x \in labels : x[1] \in Clip /\ x[2] \in Label /\ EventExists(x[1])
    BY DEF DeskIInv, DeskInv, LabelsOK
  <2>3. \A r \in dataset : r.label \in Label /\ r.from < r.to
    BY DEF DeskIInv, DeskInv, DatasetOK, Sound
  <2>4. \A p \in DOMAIN candidates : candidates[p].label \in Label \cup {NoLabel}
    BY DEF DeskIInv, WorkerInv, CandidatesOK, Whole, Shape
  <2> QED BY <2>1, <2>2, <2>3, <2>4 DEF ReviewTypeOK
<1> QED BY <1>1, DeskInvariant, PTL

\* For any settings, also if they change or the worker fails between the statements, and
\* whatever is uploaded and deleted while they run: a candidate is given up only if none
\* of the clips that were there when the cycle began can be hung on it, if the cycle comes
\* within twice the grace.
THEOREM RetiredAfterHunt == Spec => RetiredWasHunted
<1> DEFINE Hunted ==
      \A p \in DOMAIN candidates :
        /\ candidates[p].audio # "missing" /\ candidates'[p].audio = "missing"
        /\ cycle.now - p <= 2 * cycle.settings.grace
        => Qualifying(p, cycle.settings) \cap cycle.uploaded = {}
<1>1. DeskIInv /\ HuntInv /\ [Next]_vars => [Hunted]_detectionVars
  <2> SUFFICES ASSUME DeskIInv, HuntInv, [Next]_vars PROVE Hunted OBVIOUS
  <2>1. CASE ExpireCandidates
    <3> SUFFICES ASSUME NEW p \in DOMAIN candidates, cycle.now - p <= 2 * cycle.settings.grace,
                        candidates[p].audio # "missing", candidates'[p].audio = "missing"
                 PROVE  Qualifying(p, cycle.settings) \cap cycle.uploaded = {}
      OBVIOUS
    <3>1. candidates[p].audio = "pending" /\ p \notin DOMAIN cycle.picked
      BY <2>1, ExpireFacts DEF DeskIInv
    <3>2. cycle.active /\ cycle.at = "expire" BY <2>1 DEF ExpireCandidates, LinkingEnds
    <3>3. p \in Int /\ cycle.now \in Nat /\ cycle.settings \in Settings
      BY <3>2, CycleFacts DEF DeskIInv, WorkerInv, CandidatesOK, Whole
    <3>4. PICK g \in Nat : g = cycle.settings.grace BY <3>3, SettingsFacts
    <3>5. p >= RelinkSince(cycle.settings)
      <4>1. PICK n \in Nat : n = cycle.now BY <3>3
      <4>2. p \in Int /\ n - p <= 2 * g BY <3>3, <3>4, <4>1
      <4>3. RelinkWindow \in Nat OBVIOUS
      <4>4. p >= n - (IF RelinkWindow > 2 * g THEN RelinkWindow ELSE 2 * g)
        BY ONLY <3>4, <4>1, <4>2, <4>3
      <4> QED BY <3>4, <4>1, <4>4 DEF RelinkSince
    <3> QED BY <3>1, <3>2, <3>5 DEF HuntInv
  <2>2. CASE AudioKept BY <2>2 DEF AudioKept
  <2> QED BY <2>1, <2>2, StepHolds
<1> HIDE DEF Hunted
<1>2. Spec => [][Hunted]_detectionVars BY <1>1, DeskInvariant, HuntInvariant, PTL DEF Spec
<1> QED BY <1>2 DEF RetiredWasHunted, Hunted

\* Whatever is inserted, reviewed, deleted or dropped by retention between the statements
\* of an extraction, in any order of its rows: the training set holds a candidate that
\* nobody reviewed meanwhile exactly if it stands and has a snapshot, under its label.
THEOREM VerdictsAreTrained == Spec => TrainedOnVerdicts
<1> DEFINE Trained ==
      manifest.stage = "fetch" /\ manifest'.stage = "none" =>
        \A p \in DOMAIN candidates \ manifest.touched :
          {r.label : r \in {x \in dataset' : x.id = <<"candidate", p>>}} =
            IF candidates[p].label # NoLabel /\ ~candidates[p].dismissed /\ Snapshot(p) # {}
            THEN {candidates[p].label} ELSE {}
<1>1. DeskIInv /\ FetchInv /\ [Next]_vars => [Trained]_vars
  <2> SUFFICES ASSUME DeskIInv, FetchInv, Next PROVE Trained OBVIOUS
  <2> SUFFICES ASSUME manifest.stage = "fetch", manifest'.stage = "none",
                      NEW p \in DOMAIN candidates \ manifest.touched
               PROVE  {r.label : r \in {x \in dataset' : x.id = <<"candidate", p>>}} =
                        IF Stands(p) /\ Snapshot(p) # {} THEN {candidates[p].label} ELSE {}
    BY DEF Stands
  <2>1. ManifestShape(manifest) BY DEF DeskIInv, DeskInv, ManifestOK, RowsOK
  <2>2. WriteCache
    <3>1. ~(manifest' = manifest) /\ ~ReadEvents /\ ~ReadAnnotations /\ ~ReadCandidates
      BY DEF ReadEvents, ReadAnnotations, ReadCandidates
    <3>2. \A r \in manifest.left : ~FetchBands(r) BY <2>1 DEF FetchBands, ManifestShape
    <3>3. \A r \in Reviewer : ~CommitPatch(r) BY <2>1, CommitTouches DEF ManifestShape
    <3> QED BY <3>1, <3>2, <3>3, ManifestMoves
  <2>3. manifest.left = {} /\ dataset' = manifest.found BY <2>2 DEF WriteCache
  <2> DEFINE Rows == RowsOf(manifest.found, p)
  <2>4. RowsOf(manifest.left \cup manifest.found, p) = Rows BY <2>3 DEF RowsOf
  <2>5. {x \in dataset' : x.id = <<"candidate", p>>} = Rows BY <2>3 DEF RowsOf
  <2> HIDE DEF Rows
  <2>6. /\ Rows # {} => Snapshot(p) # {}
        /\ \A r \in Rows : Stands(p) /\ r.label = candidates[p].label
        /\ Stands(p) /\ Snapshot(p) # {} => Rows # {}
    BY <2>4 DEF FetchInv, Rows
  <2>7. {r.label : r \in Rows} = IF Stands(p) /\ Snapshot(p) # {} THEN {candidates[p].label} ELSE {}
    BY <2>6
  <2> QED BY <2>5, <2>7
<1> QED BY <1>1, DeskInvariant, FetchInvariant, PTL DEF Spec, TrainedOnVerdicts

\* Whichever of several labels of one second the query puts first, an event trains one
\* row, and no label given earlier than another counts, of those that were there when the
\* events were read.
THEOREM LatestTrains == Spec => LatestLabelTrains
<1> DEFINE Latest ==
      manifest.stage = "none" /\ manifest'.stage # "none" =>
       \A x \in labels : world.clips[x[1]].duration > 0 =>
         \E r \in manifest'.events :
           /\ r.id[2] = x[1]
           /\ \E y \in labels : y[1] = x[1] /\ y[2] = r.label /\ x[3] <= y[3]
           /\ \A q \in manifest'.events : q.id = r.id => q = r
<1>1. DeskIInv /\ [Next]_vars => [Latest]_vars
  <2> SUFFICES ASSUME DeskIInv, Next, manifest.stage = "none", manifest'.stage # "none" PROVE Latest
    OBVIOUS
  <2>1. CASE ReadEvents BY <2>1, ReadEventsStep DEF DeskIInv
  <2>2. ~ReadAnnotations /\ ~ReadCandidates /\ ~WriteCache /\ ~(manifest' = manifest)
    BY DEF ReadAnnotations, ReadCandidates, WriteCache
  <2>3. ManifestShape(manifest) BY DEF DeskIInv, DeskInv, ManifestOK, RowsOK
  <2>4. \A r \in manifest.left : ~FetchBands(r) BY <2>3 DEF FetchBands, ManifestShape
  <2>5. \A r \in Reviewer : ~CommitPatch(r) BY <2>3, CommitTouches DEF ManifestShape
  <2> QED BY <2>1, <2>2, <2>4, <2>5, ManifestMoves
<1> HIDE DEF Latest
<1>2. Spec => [][Latest]_vars BY <1>1, DeskInvariant, PTL DEF Spec
<1> QED BY <1>2 DEF LatestLabelTrains, Latest
=============================================================================
