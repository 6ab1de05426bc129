---------------------------- MODULE RouterProofs ----------------------------
(***************************************************************************)
(* Proofs about Scoreboard and Router, for any number of servers, any      *)
(* domains, weights and configuration.                                     *)
(*                                                                         *)
(* The weights are normalised by their sum, so everything rests on what a  *)
(* sum is.  SumFunction adds up a function by taking away one element at a *)
(* time; the order in which it does so, Pick, is the induction of the      *)
(* first lemmas.                                                           *)
(***************************************************************************)
EXTENDS Router, FiniteSetTheorems, SequenceTheorems, TLAPS

-----------------------------------------------------------------------------
(* Sums.                                                                   *)

Pick(T) == CHOOSE x \in T : TRUE
Rest(T) == T \ {Pick(T)}

LEMMA RestIsLess ==
    ASSUME NEW S, IsFiniteSet(S), NEW T \in SUBSET S, T # {}
    PROVE  /\ Pick(T) \in T /\ Rest(T) \in SUBSET S /\ Rest(T) # T /\ Rest(T) \subseteq T
           /\ T = Rest(T) \cup {Pick(T)}
           /\ Cardinality(T) \in Nat /\ Cardinality(Rest(T)) = Cardinality(T) - 1
<1>1. Pick(T) \in T
  BY DEF Pick
<1>2. IsFiniteSet(T)
  BY FS_Subset
<1>3. Cardinality(Rest(T)) = Cardinality(T) - 1
  BY <1>1, <1>2, FS_RemoveElement DEF Rest
<1> QED
  BY <1>1, <1>2, <1>3, FS_CardinalityType DEF Rest

\* Whatever holds of the empty set, and of a set when it holds of its rest,
\* holds of every finite set.
LEMMA RestInduction ==
    ASSUME NEW S, IsFiniteSet(S), NEW G, {} \in G,
           \A T \in SUBSET S : T # {} /\ Rest(T) \in G => T \in G
    PROVE  \A T \in SUBSET S : T \in G
<1> DEFINE Bad == {T \in SUBSET S : T \notin G}
<1> SUFFICES ASSUME Bad # {} PROVE FALSE
  OBVIOUS
<1>1. IsWellFoundedOn(StrictSubsetOrdering(S), FiniteSubsetsOf(S))
  BY FS_StrictSubsetOrderingWellFounded
<1>2. Bad \subseteq FiniteSubsetsOf(S)
  BY FS_FiniteSubsetsOfFinite
<1>3. PICK T \in Bad : \A U \in Bad : <<U, T>> \notin StrictSubsetOrdering(S)
  <2> HIDE DEF Bad
  <2> QED
    BY <1>1, <1>2, WFMin
<1>4. T \in SUBSET S /\ T # {}
  BY <1>3
<1>5. Rest(T) \in SUBSET S /\ Rest(T) # T /\ Rest(T) \subseteq T
  BY <1>4, RestIsLess
<1>6. <<Rest(T), T>> \in StrictSubsetOrdering(S)
  BY <1>4, <1>5 DEF StrictSubsetOrdering
<1> QED
  BY <1>3, <1>4, <1>5, <1>6

\* g adds up w over T.
Adds(g, w, T) == g[T] = IF T = {} THEN 0 ELSE w[Pick(T)] + g[Rest(T)]

\* There is such a g: it is found for the small sets first.
LEMMA SumsExist ==
    ASSUME NEW S, IsFiniteSet(S), NEW w \in [S -> Int]
    PROVE  \E g \in [SUBSET S -> Int] : \A T \in SUBSET S : Adds(g, w, T)
<1> DEFINE UpTo(T) == \E g \in [SUBSET S -> Int] :
                         \A U \in SUBSET S : Cardinality(U) <= Cardinality(T) => Adds(g, w, U)
           G == {T \in SUBSET S : UpTo(T)}
<1>0. \A T \in SUBSET S : IsFiniteSet(T) /\ Cardinality(T) \in Nat
  BY FS_Subset, FS_CardinalityType
<1>1. {} \in G
  <2> DEFINE g == [U \in SUBSET S |-> 0]
  <2>1. ASSUME NEW U \in SUBSET S, Cardinality(U) <= Cardinality({}) PROVE Adds(g, w, U)
    <3>1. U = {}
      BY <1>0, <2>1, FS_EmptySet
    <3> QED
      BY <3>1 DEF Adds
  <2>2. g \in [SUBSET S -> Int]
    OBVIOUS
  <2> HIDE DEF g
  <2> QED
    BY <2>1, <2>2
<1>2. ASSUME NEW T \in SUBSET S, T # {}, Rest(T) \in G PROVE T \in G
  <2>1. PICK g \in [SUBSET S -> Int] :
               \A U \in SUBSET S : Cardinality(U) <= Cardinality(Rest(T)) => Adds(g, w, U)
    BY <1>2
  <2> DEFINE n == Cardinality(Rest(T))
             h == [U \in SUBSET S |-> IF Cardinality(U) <= n THEN g[U] ELSE w[Pick(U)] + g[Rest(U)]]
  <2>2. n \in Nat /\ Cardinality(T) = n + 1
    BY <1>0, <1>2, RestIsLess
  <2> HIDE DEF n
  <2>3. ASSUME NEW U \in SUBSET S, Cardinality(U) > n
        PROVE  /\ U # {} /\ Pick(U) \in S /\ Rest(U) \in SUBSET S
               /\ Cardinality(Rest(U)) = Cardinality(U) - 1
    <3>1. U # {}
      <4> SUFFICES ASSUME U = {} PROVE FALSE
        OBVIOUS
      <4>1. Cardinality(U) = 0
        BY FS_EmptySet
      <4>2. Cardinality(U) > n /\ n \in Nat
        BY <2>2, <2>3
      <4> QED
        BY <4>1, <4>2
    <3>2. /\ Pick(U) \in U /\ Rest(U) \in SUBSET S
          /\ Cardinality(Rest(U)) = Cardinality(U) - 1
      BY <3>1, RestIsLess
    <3> QED
      BY <3>1, <3>2
  <2>4. h \in [SUBSET S -> Int]
    BY <1>0, <2>2, <2>3
  <2>5. ASSUME NEW U \in SUBSET S, Cardinality(U) <= Cardinality(T) PROVE Adds(h, w, U)
    <3>1. CASE U = {}
      <4>1. Cardinality(U) <= n
        BY <2>2, <3>1, FS_EmptySet
      <4> QED
        BY <2>1, <3>1, <4>1 DEF Adds, n
    <3>2. CASE U # {}
      <4>1. Rest(U) \in SUBSET S /\ Cardinality(Rest(U)) = Cardinality(U) - 1
        BY <3>2, RestIsLess
      <4>2. Cardinality(Rest(U)) <= n /\ h[Rest(U)] = g[Rest(U)]
        BY <1>0, <2>2, <2>5, <4>1
      <4>3. h[U] = w[Pick(U)] + g[Rest(U)]
        BY <2>1, <3>2 DEF Adds, n
      <4> QED
        BY <3>2, <4>2, <4>3 DEF Adds
    <3> QED
      BY <3>1, <3>2
  <2> HIDE DEF h
  <2> QED
    BY <2>4, <2>5
<1> HIDE DEF G
<1>3. S \in G
  BY <1>1, <1>2, RestInduction
<1>4. \A U \in SUBSET S : Cardinality(U) <= Cardinality(S)
  BY FS_Subset
<1> QED
  BY <1>3, <1>4 DEF G

\* SumFunction is the end of such a chain.
LEMMA SumIsChain ==
    ASSUME NEW S, IsFiniteSet(S), NEW w \in [S -> Int]
    PROVE  \E g \in [SUBSET S -> Int] :
              /\ \A T \in SUBSET S : Adds(g, w, T)
              /\ SumFunction(w) = g[S]
<1> DEFINE Step(g) == [T \in SUBSET S |-> IF T = {} THEN 0 ELSE w[Pick(T)] + g[Rest(T)]]
           iter == CHOOSE g : g = Step(g)
<1>1. SumFunction(w) = iter[S]
  BY DEF SumFunction, SumFunctionOnSet, FoldFunctionOnSet, MapThenFoldSet, Pick, Rest
<1>2. \E g : g = Step(g)
  <2>1. PICK g \in [SUBSET S -> Int] : \A T \in SUBSET S : Adds(g, w, T)
    BY SumsExist
  <2>2. g = Step(g)
    BY <2>1 DEF Adds
  <2> QED
    BY <2>2
<1>3. iter = Step(iter)
  BY <1>2
<1> HIDE DEF iter
<1>4. \A T \in SUBSET S : Adds(iter, w, T)
  BY <1>3 DEF Adds
<1> DEFINE G == {T \in SUBSET S : iter[T] \in Int}
<1>5. {} \in G
  BY <1>4 DEF Adds
<1>6. ASSUME NEW T \in SUBSET S, T # {}, Rest(T) \in G PROVE T \in G
  <2>1. Pick(T) \in S
    BY <1>6, RestIsLess
  <2> QED
    BY <1>4, <1>6, <2>1 DEF Adds
<1>7. \A T \in SUBSET S : T \in G
  <2> HIDE DEF G
  <2> QED
    BY <1>5, <1>6, RestInduction
<1>8. DOMAIN iter = SUBSET S
  BY <1>3
<1>9. iter \in [SUBSET S -> Int]
  <2>1. iter = [T \in SUBSET S |-> iter[T]]
    BY <1>3
  <2> QED
    BY <1>7, <2>1
<1> QED
  BY <1>1, <1>4, <1>9

\* A sum of weights is a weight, and no less than each of its summands.
LEMMA SumOfWeights ==
    ASSUME NEW S, IsFiniteSet(S), NEW w \in [S -> Nat]
    PROVE  SumFunction(w) \in Nat /\ \A x \in S : w[x] <= SumFunction(w)
<1>0. w \in [S -> Int]
  OBVIOUS
<1>1. PICK g \in [SUBSET S -> Int] : (\A T \in SUBSET S : Adds(g, w, T)) /\ SumFunction(w) = g[S]
  BY <1>0, SumIsChain
<1> DEFINE G == {T \in SUBSET S : g[T] \in Nat /\ \A x \in T : w[x] <= g[T]}
<1>2. {} \in G
  BY <1>1 DEF Adds
<1>3. ASSUME NEW T \in SUBSET S, T # {}, Rest(T) \in G PROVE T \in G
  <2>1. Pick(T) \in S /\ T = Rest(T) \cup {Pick(T)} /\ w[Pick(T)] \in Nat
    BY <1>3, RestIsLess
  <2>2. g[T] = w[Pick(T)] + g[Rest(T)] /\ g[Rest(T)] \in Nat
    BY <1>1, <1>3 DEF Adds
  <2>3. ASSUME NEW x \in T PROVE w[x] <= g[T]
    <3>1. CASE x = Pick(T)
      BY <2>1, <2>2, <3>1
    <3>2. CASE x \in Rest(T)
      <4>1. w[x] <= g[Rest(T)] /\ w[x] \in Nat
        BY <1>3, <3>2
      <4> QED
        BY <2>1, <2>2, <4>1
    <3> QED
      BY <2>1, <3>1, <3>2
  <2> QED
    BY <2>1, <2>2, <2>3
<1>4. S \in G
  <2> HIDE DEF G
  <2> QED
    BY <1>2, <1>3, RestInduction
<1> QED
  BY <1>1, <1>4

\* Scaling every weight by Unit / total, rounded down: the sum scales too, up to
\* less than one unit per weight.
LEMMA SumOfShares ==
    ASSUME NEW S, IsFiniteSet(S), NEW w \in [S -> Nat], NEW total \in Nat \ {0}
    PROVE  LET v == [x \in S |-> (w[x] * Unit) \div total]
           IN  /\ SumFunction(v) * total <= SumFunction(w) * Unit
               /\ SumFunction(w) * Unit <= SumFunction(v) * total + Cardinality(S) * (total - 1)
<1> DEFINE v == [x \in S |-> (w[x] * Unit) \div total]
<1>0. Unit \in Nat
  BY UnitAssumption
<1>1. ASSUME NEW x \in S
      PROVE  /\ v[x] \in Nat /\ v[x] * total <= w[x] * Unit
             /\ w[x] * Unit <= v[x] * total + (total - 1)
  BY <1>0
<1>2. v \in [S -> Nat] /\ v \in [S -> Int] /\ w \in [S -> Int]
  BY <1>1
<1> HIDE DEF v
<1>3. PICK g \in [SUBSET S -> Int] : (\A T \in SUBSET S : Adds(g, w, T)) /\ SumFunction(w) = g[S]
  BY <1>2, SumIsChain
<1>4. PICK h \in [SUBSET S -> Int] : (\A T \in SUBSET S : Adds(h, v, T)) /\ SumFunction(v) = h[S]
  BY <1>2, SumIsChain
<1> DEFINE Scaled(T) == /\ h[T] * total <= g[T] * Unit
                        /\ g[T] * Unit <= h[T] * total + Cardinality(T) * (total - 1)
           G == {T \in SUBSET S : Scaled(T)}
<1>5. {} \in G
  <2>1. g[{}] = 0 /\ h[{}] = 0 /\ Cardinality({}) = 0
    BY <1>3, <1>4, FS_EmptySet DEF Adds
  <2> QED
    BY <1>0, <2>1
<1>6. ASSUME NEW T \in SUBSET S, T # {}, Rest(T) \in G PROVE T \in G
  <2>1. /\ Pick(T) \in S /\ Rest(T) \in SUBSET S
        /\ Cardinality(T) \in Nat /\ Cardinality(Rest(T)) = Cardinality(T) - 1
    BY <1>6, RestIsLess
  <2>2. g[T] = w[Pick(T)] + g[Rest(T)] /\ h[T] = v[Pick(T)] + h[Rest(T)]
    BY <1>3, <1>4, <1>6 DEF Adds
  <2>3. Scaled(Rest(T))
    BY <1>6
  <2> DEFINE a == w[Pick(T)]  b == v[Pick(T)]  c == g[Rest(T)]  d == h[Rest(T)]
             n == Cardinality(Rest(T))
  <2>4. /\ a \in Nat /\ b \in Nat /\ c \in Int /\ d \in Int /\ n \in Int
        /\ b * total <= a * Unit /\ a * Unit <= b * total + (total - 1)
        /\ d * total <= c * Unit /\ c * Unit <= d * total + n * (total - 1)
    BY <1>1, <1>2, <2>1, <2>3
  <2>5. g[T] = a + c /\ h[T] = b + d /\ Cardinality(T) = n + 1
    BY <2>1, <2>2
  <2> HIDE DEF a, b, c, d, n
  <2>6. /\ (a + c) * Unit = a * Unit + c * Unit /\ (b + d) * total = b * total + d * total
        /\ (n + 1) * (total - 1) = n * (total - 1) + (total - 1)
    BY <1>0, <2>4
  <2>7. Scaled(T)
    BY <1>0, <2>4, <2>5, <2>6
  <2> QED
    BY <2>7
<1>7. S \in G
  <2> HIDE DEF G
  <2> QED
    BY <1>5, <1>6, RestInduction
<1> QED
  BY <1>3, <1>4, <1>7 DEF v

-----------------------------------------------------------------------------
(* What one update does to two weights (Scoreboard).                       *)

LEMMA Parameters ==
    /\ Unit \in Nat /\ Unit > 0
    /\ Alpha \in Nat /\ Alpha <= Unit /\ Unit - Alpha \in Nat
    /\ MaxShift \in Nat /\ MaxShift <= Unit
    /\ DomainCap \in Nat /\ MinWeight \in Nat /\ MinWeight >= 1
BY UnitAssumption, ConfigAssumption

LEMMA MaxOfTwo ==
    ASSUME NEW a \in Int, NEW b \in Int
    PROVE  Max({a, b}) = IF a >= b THEN a ELSE b
BY DEF Max

LEMMA QuotientMonotone ==
    ASSUME NEW x \in Int, NEW y \in Int, x <= y, NEW d \in Nat, d > 0
    PROVE  x \div d \in Int /\ y \div d \in Int /\ x \div d <= y \div d
OBVIOUS

LEMMA ProductMonotone ==
    ASSUME NEW x \in Nat, NEW y \in Nat, x <= y, NEW d \in Nat
    PROVE  d * x \in Nat /\ d * y \in Nat /\ d * x <= d * y
OBVIOUS

\* The shift cap grows with the weight, but never faster than it.
LEMMA ShiftGrowsSlowly ==
    ASSUME NEW x \in Nat, NEW y \in Nat, x <= y
    PROVE  LET f == (MaxShift * x) \div Unit  g == (MaxShift * y) \div Unit
           IN  f \in Nat /\ g \in Nat /\ f <= g /\ g - f <= y - x
<1> DEFINE f == (MaxShift * x) \div Unit  g == (MaxShift * y) \div Unit  k == y - x
<1>1. MaxShift * x \in Nat /\ MaxShift * y \in Nat /\ MaxShift * x <= MaxShift * y
  BY Parameters, ProductMonotone
<1>2. f \in Int /\ g \in Int /\ f <= g /\ f >= 0
  BY <1>1, Parameters, QuotientMonotone
<1>3. k \in Nat /\ MaxShift * y = MaxShift * x + MaxShift * k
  BY Parameters
<1>4. MaxShift * k \in Nat /\ MaxShift * k <= Unit * k
  BY <1>3, Parameters
<1>5. Unit * g <= MaxShift * y /\ MaxShift * x < Unit * f + Unit
  BY <1>1, Parameters
<1> HIDE DEF f, g, k
<1>6. Unit * g < Unit * f + Unit + Unit * k
  BY <1>1, <1>2, <1>3, <1>4, <1>5, Parameters
<1>7. Unit * g < Unit * (f + 1 + k)
  BY <1>2, <1>3, <1>6, Parameters
<1>8. g < f + 1 + k
  BY <1>2, <1>3, <1>7, Parameters
<1>9. g - f <= k
  BY <1>2, <1>3, <1>8
<1> QED
  BY <1>2, <1>9 DEF f, g, k

LEMMA ClampMonotone ==
    ASSUME NEW x \in Int, NEW lo \in Int, NEW hi \in Int, lo <= hi,
           NEW y \in Int, NEW low \in Int, NEW high \in Int, low <= high,
           x <= y, lo <= low, hi <= high
    PROVE  /\ Clamp(x, lo, hi) \in Int /\ Clamp(y, low, high) \in Int
           /\ Clamp(x, lo, hi) <= Clamp(y, low, high)
BY DEF Clamp

\* The heavier, better predicted server ends up heavier.
LEMMA SmoothMonotone ==
    ASSUME NEW old \in 0 .. Unit, NEW raw \in 0 .. Unit,
           NEW old2 \in 0 .. Unit, NEW raw2 \in 0 .. Unit,
           old <= old2, raw <= raw2
    PROVE  /\ SmoothAndCap(old, raw) \in Nat /\ SmoothAndCap(old2, raw2) \in Nat
           /\ SmoothAndCap(old, raw) <= SmoothAndCap(old2, raw2)
<1> DEFINE sm(o, r) == (Alpha * r + (Unit - Alpha) * o) \div Unit
           top(o) == Max({o, MinWeight})
           delta(o) == (MaxShift * top(o)) \div Unit
<1>0. /\ old \in Nat /\ old2 \in Nat /\ raw \in Nat /\ raw2 \in Nat
  BY Parameters
<1>1. /\ Alpha * raw + (Unit - Alpha) * old \in Nat
      /\ Alpha * raw2 + (Unit - Alpha) * old2 \in Nat
      /\ Alpha * raw + (Unit - Alpha) * old <= Alpha * raw2 + (Unit - Alpha) * old2
  <2>1. Alpha * raw \in Nat /\ Alpha * raw2 \in Nat /\ Alpha * raw <= Alpha * raw2
    BY <1>0, Parameters, ProductMonotone
  <2>2. /\ (Unit - Alpha) * old \in Nat /\ (Unit - Alpha) * old2 \in Nat
        /\ (Unit - Alpha) * old <= (Unit - Alpha) * old2
    BY <1>0, Parameters, ProductMonotone
  <2> QED
    BY <2>1, <2>2
<1>2. sm(old, raw) \in Nat /\ sm(old2, raw2) \in Nat /\ sm(old, raw) <= sm(old2, raw2)
  BY <1>1, Parameters, QuotientMonotone
<1>3. /\ top(old) \in Nat /\ top(old2) \in Nat /\ top(old) <= top(old2)
      /\ top(old2) - top(old) <= old2 - old
  BY <1>0, Parameters, MaxOfTwo
<1>4. /\ delta(old) \in Nat /\ delta(old2) \in Nat /\ delta(old) <= delta(old2)
      /\ delta(old2) - delta(old) <= top(old2) - top(old)
  <2> HIDE DEF top
  <2> QED
    BY <1>3, ShiftGrowsSlowly
<1>5. /\ SmoothAndCap(old, raw) = Clamp(sm(old, raw), old - delta(old), old + delta(old))
      /\ SmoothAndCap(old2, raw2) = Clamp(sm(old2, raw2), old2 - delta(old2), old2 + delta(old2))
  BY DEF SmoothAndCap
<1> HIDE DEF sm, top, delta
<1>6. old - delta(old) <= old2 - delta(old2) /\ old + delta(old) <= old2 + delta(old2)
  BY <1>0, <1>3, <1>4
<1>7. /\ Clamp(sm(old, raw), old - delta(old), old + delta(old)) \in Nat
      /\ Clamp(sm(old2, raw2), old2 - delta(old2), old2 + delta(old2)) \in Nat
  BY <1>0, <1>2, <1>4 DEF Clamp
<1>8. Clamp(sm(old, raw), old - delta(old), old + delta(old))
        <= Clamp(sm(old2, raw2), old2 - delta(old2), old2 + delta(old2))
  <2> DEFINE x == sm(old, raw)  lo == old - delta(old)  hi == old + delta(old)
             y == sm(old2, raw2)  low == old2 - delta(old2)  high == old2 + delta(old2)
  <2>1. /\ x \in Int /\ lo \in Int /\ hi \in Int /\ lo <= hi
        /\ y \in Int /\ low \in Int /\ high \in Int /\ low <= high
        /\ x <= y /\ lo <= low /\ hi <= high
    BY <1>0, <1>2, <1>4, <1>6
  <2> HIDE DEF x, lo, hi, y, low, high
  <2>2. Clamp(x, lo, hi) <= Clamp(y, low, high)
    BY <2>1, ClampMonotone
  <2> QED
    BY <2>2 DEF x, lo, hi, y, low, high
<1> QED
  BY <1>5, <1>7, <1>8

-----------------------------------------------------------------------------
(* The whole of update_scores().                                           *)

Weights(D) == [D -> 0 .. Unit]
Amounts(D) == [D -> Nat]

LEMMA RescoredAmounts ==
    ASSUME NEW D, NEW w \in Weights(D), NEW E, NEW preds \in [E -> RawWeights]
    PROVE  Rescored(w, preds) \in Amounts(D \cup E)
<1>1. \A s \in E : preds[s] \in 0 .. Unit /\ preds[s] \in Nat
  <2>1. ASSUME NEW r \in RawWeights PROVE r \in 0 .. Unit /\ r \in Nat
    <3>1. r \in 1 .. Unit
      BY RawAssumption
    <3> QED
      BY <3>1, Parameters
  <2> QED
    BY <2>1
<1>2. \A s \in D : w[s] \in 0 .. Unit /\ w[s] \in Nat
  BY Parameters DEF Weights
<1>3. \A s \in D \cap E : SmoothAndCap(w[s], preds[s]) \in Nat
  <2> TAKE s \in D \cap E
  <2>1. w[s] \in 0 .. Unit /\ preds[s] \in 0 .. Unit /\ w[s] <= w[s] /\ preds[s] <= preds[s]
    BY <1>1, <1>2
  <2> QED
    BY <2>1, SmoothMonotone
<1> QED
  BY <1>1, <1>2, <1>3 DEF Rescored, Weights, Amounts

\* Every domain total that divides is positive.
LEMMA DomainTotals ==
    ASSUME NEW D, IsFiniteSet(D), NEW w \in Amounts(D)
    PROVE  /\ Total(w) \in Nat
           /\ \A d : DomainTotal(w, d) \in Nat
           /\ \A d : DomainTotal(w, d) * Unit > DomainCap * Total(w) => DomainTotal(w, d) > 0
<1>1. Total(w) \in Nat
  BY SumOfWeights DEF Amounts, Total
<1>2. ASSUME NEW d PROVE DomainTotal(w, d) \in Nat
  <2> DEFINE M == {s \in D : DomainOf(s) = d}
  <2>1. IsFiniteSet(M)
    BY FS_Subset
  <2>2. DomainTotal(w, d) = Total(Restrict(w, M))
    BY DEF DomainTotal, Amounts
  <2>3. Restrict(w, M) \in [M -> Nat]
    BY DEF Restrict, Amounts
  <2> HIDE DEF M
  <2> QED
    BY <2>1, <2>2, <2>3, SumOfWeights DEF Total
<1>3. ASSUME NEW d, DomainTotal(w, d) * Unit > DomainCap * Total(w) PROVE DomainTotal(w, d) > 0
  <2>1. DomainCap * Total(w) \in Nat
    BY <1>1, Parameters
  <2> QED
    BY <1>2, <1>3, <2>1, Parameters
<1> QED
  BY <1>1, <1>2, <1>3

\* One domain is scaled as a whole, so that its members keep their order.
LEMMA CappedAmounts ==
    ASSUME NEW D, IsFiniteSet(D), NEW w \in Amounts(D)
    PROVE  /\ CapDomains(w) \in Amounts(D)
           /\ \A a, b \in D : DomainOf(a) = DomainOf(b) /\ w[b] <= w[a]
                              => CapDomains(w)[b] <= CapDomains(w)[a]
<1> DEFINE cap == (DomainCap * Total(w)) \div Unit
           T(s) == DomainTotal(w, DomainOf(s))
           c == [s \in D |-> IF T(s) * Unit > DomainCap * Total(w) THEN (cap * w[s]) \div T(s)
                             ELSE w[s]]
<1>1. CapDomains(w) = c
  BY DEF CapDomains, Amounts
<1>2. /\ Total(w) \in Nat /\ DomainCap * Total(w) \in Nat
      /\ \A s \in D : T(s) \in Nat
      /\ \A s \in D : T(s) * Unit > DomainCap * Total(w) => T(s) > 0
  <2>1. Total(w) \in Nat /\ \A s \in D : T(s) \in Nat
    BY DomainTotals
  <2>2. DomainCap * Total(w) \in Nat
    BY <2>1, Parameters
  <2> QED
    BY <2>1, <2>2, DomainTotals
<1>3. cap \in Nat
  <2> DEFINE p == DomainCap * Total(w)
  <2>1. p \in Nat
    BY <1>2
  <2> HIDE DEF p
  <2>2. p \div Unit \in Nat
    BY <2>1, Parameters
  <2> QED
    BY <2>2 DEF p
<1>4. \A s \in D : w[s] \in Nat
  BY DEF Amounts
<1> HIDE DEF cap, T
<1>5. ASSUME NEW a \in D, NEW b \in D, w[b] <= w[a], T(a) = T(b)
      PROVE  c[b] \in Nat /\ c[a] \in Nat /\ c[b] <= c[a]
  <2>1. CASE T(a) * Unit > DomainCap * Total(w)
    <3>1. T(a) \in Nat /\ T(a) > 0
      BY <1>2, <2>1
    <3>2. cap * w[b] \in Nat /\ cap * w[a] \in Nat /\ cap * w[b] <= cap * w[a]
      BY <1>3, <1>4, <1>5, ProductMonotone
    <3>3. c[a] = (cap * w[a]) \div T(a) /\ c[b] = (cap * w[b]) \div T(a)
      BY <1>5, <2>1
    <3> DEFINE x == cap * w[b]  y == cap * w[a]
    <3> HIDE DEF x, y, c
    <3>4. x \in Nat /\ y \in Nat /\ x <= y /\ c[a] = y \div T(a) /\ c[b] = x \div T(a)
      BY <3>2, <3>3 DEF x, y
    <3> QED
      BY <3>1, <3>4, QuotientMonotone
  <2>2. CASE ~(T(a) * Unit > DomainCap * Total(w))
    BY <1>4, <1>5, <2>2
  <2> QED
    BY <2>1, <2>2
<1>6. \A s \in D : c[s] \in Nat
  <2> TAKE s \in D
  <2>1. w[s] <= w[s]
    BY <1>4
  <2> QED
    BY <1>5, <2>1
<1>7. c \in Amounts(D)
  BY <1>6 DEF Amounts
<1>8. \A a, b \in D : DomainOf(a) = DomainOf(b) => T(a) = T(b)
  BY DEF T
<1> HIDE DEF c
<1> QED
  BY <1>1, <1>5, <1>7, <1>8

LEMMA FlooredAmounts ==
    ASSUME NEW D, NEW w \in Amounts(D)
    PROVE  /\ RaiseToFloor(w) \in Amounts(D)
           /\ \A s \in D : RaiseToFloor(w)[s] >= 1
           /\ \A a, b \in D : w[b] <= w[a] => RaiseToFloor(w)[b] <= RaiseToFloor(w)[a]
<1>1. \A s \in D : w[s] \in Nat
  BY DEF Amounts
<1>2. \A s \in D : RaiseToFloor(w)[s] = IF w[s] >= MinWeight THEN w[s] ELSE MinWeight
  BY <1>1, Parameters, MaxOfTwo DEF RaiseToFloor, Amounts
<1>3. DOMAIN RaiseToFloor(w) = D /\ RaiseToFloor(w) = [s \in D |-> RaiseToFloor(w)[s]]
  BY DEF RaiseToFloor, Amounts
<1>4. \A s \in D : RaiseToFloor(w)[s] \in Nat
  BY <1>1, <1>2, Parameters
<1>5. RaiseToFloor(w) \in Amounts(D)
  BY <1>3, <1>4 DEF Amounts
<1> QED
  BY <1>1, <1>2, <1>5, Parameters

\* The sum of the weights is one, up to less than one unit per server.
SharesOfOne(w, D) == Total(w) \in Unit - Cardinality(D) + 1 .. Unit

LEMMA NormalizedWeights ==
    ASSUME NEW D, IsFiniteSet(D), D # {}, NEW w \in Amounts(D), \A s \in D : w[s] >= 1
    PROVE  /\ Normalize(w) \in Weights(D)
           /\ \A a, b \in D : w[b] <= w[a] => Normalize(w)[b] <= Normalize(w)[a]
           /\ SharesOfOne(Normalize(w), D)
<1> DEFINE total == Total(w)
           v == [s \in D |-> (w[s] * Unit) \div total]
<1>1. Normalize(w) = v
  BY DEF Normalize, Amounts
<1>2. total \in Nat /\ \A s \in D : w[s] \in Nat /\ w[s] <= total
  BY SumOfWeights DEF Total, Amounts
<1>3. total > 0
  BY <1>2
<1> HIDE DEF total
<1>4. ASSUME NEW a \in D, NEW b \in D, w[b] <= w[a] PROVE v[b] <= v[a]
  <2> DEFINE x == w[b] * Unit  y == w[a] * Unit
  <2>1. x \in Nat /\ y \in Nat /\ x <= y
    BY <1>2, <1>4, Parameters
  <2>2. v[b] = x \div total /\ v[a] = y \div total
    OBVIOUS
  <2> HIDE DEF x, y, v
  <2> QED
    BY <1>2, <1>3, <2>1, <2>2, QuotientMonotone
<1>5. ASSUME NEW s \in D PROVE v[s] \in 0 .. Unit
  <2> DEFINE x == w[s] * Unit
  <2>1. x \in Nat /\ x <= total * Unit
    BY <1>2, Parameters
  <2>2. v[s] = x \div total
    OBVIOUS
  <2> HIDE DEF x, v
  <2>3. x \div total \in Nat /\ total * (x \div total) <= x
    BY <1>2, <1>3, <2>1
  <2>4. total * (x \div total) <= total * Unit
    BY <1>2, <2>1, <2>3, Parameters
  <2>5. x \div total <= Unit
    BY <1>2, <1>3, <2>3, <2>4, Parameters
  <2> QED
    BY <2>2, <2>3, <2>5, Parameters
<1>6. v \in Weights(D)
  BY <1>5 DEF Weights
<1>7. SharesOfOne(v, D)
  <2> DEFINE n == Cardinality(D)  sum == SumFunction(v)
  <2>1. n \in Nat /\ n > 0
    BY FS_CardinalityType, FS_EmptySet
  <2>2. sum \in Nat
    <3>1. v \in [D -> Nat]
      BY <1>5
    <3> HIDE DEF v
    <3> QED
      BY <3>1, SumOfWeights
  <2>3. /\ sum * total <= total * Unit
        /\ total * Unit <= sum * total + n * (total - 1)
    BY <1>2, <1>3, SumOfShares DEF total, Total, Amounts
  <2> HIDE DEF n, sum, v
  <2>4. sum <= Unit
    BY <1>2, <1>3, <2>2, <2>3, Parameters
  <2>5. total * (Unit - n) < sum * total
    <3>1. n * (total - 1) = total * n - n
      BY <1>2, <2>1
    <3>2. total * (Unit - n) = total * Unit - total * n
      BY <1>2, <2>1, Parameters
    <3> DEFINE p == sum * total  q == total * n  r == total * Unit
    <3>3. p \in Int /\ q \in Int /\ r \in Int
      BY <1>2, <2>1, <2>2, Parameters
    <3> HIDE DEF p, q, r
    <3>4. r <= p + (q - n)
      BY <2>3, <3>1 DEF p, q, r
    <3>5. r - q < p
      BY <2>1, <3>3, <3>4
    <3> QED
      BY <3>2, <3>5 DEF p, q, r
  <2>6. Unit - n < sum
    BY <1>2, <1>3, <2>1, <2>2, <2>5, Parameters
  <2>7. sum \in Unit - n + 1 .. Unit
    BY <2>1, <2>2, <2>4, <2>6, Parameters
  <2> QED
    BY <2>7 DEF SharesOfOne, Total, n, sum
<1> HIDE DEF v
<1> QED
  BY <1>1, <1>4, <1>6, <1>7

\* update_scores() yields weights again, that sum to one, and keeps the order of
\* two servers of a domain.
LEMMA UpdatedWeights ==
    ASSUME NEW D, IsFiniteSet(D), D # {}, NEW w \in Weights(D),
           NEW E, IsFiniteSet(E), NEW preds \in [E -> RawWeights]
    PROVE  LET new == Normalize(RaiseToFloor(CapDomains(Rescored(w, preds))))
           IN  /\ new \in Weights(D \cup E) /\ SharesOfOne(new, D \cup E)
               /\ \A a, b \in D \cap E :
                     /\ DomainOf(a) = DomainOf(b)
                     /\ w[b] <= w[a] /\ preds[b] <= preds[a]
                     => new[b] <= new[a]
<1> DEFINE F == D \cup E
           r == Rescored(w, preds)  c == CapDomains(r)  f == RaiseToFloor(c)  new == Normalize(f)
<1>1. IsFiniteSet(F) /\ F # {}
  BY FS_Union
<1>2. r \in Amounts(F)
  BY RescoredAmounts
<1>3. ASSUME NEW a \in D \cap E, NEW b \in D \cap E, w[b] <= w[a], preds[b] <= preds[a]
      PROVE  r[b] <= r[a]
  <2>1. /\ w[a] \in 0 .. Unit /\ w[b] \in 0 .. Unit
        /\ preds[a] \in RawWeights /\ preds[b] \in RawWeights
    BY DEF Weights
  <2>2. preds[a] \in 1 .. Unit /\ preds[b] \in 1 .. Unit
    BY <2>1, RawAssumption
  <2>3. preds[a] \in 0 .. Unit /\ preds[b] \in 0 .. Unit
    BY <2>2, Parameters
  <2>4. r[a] = SmoothAndCap(w[a], preds[a]) /\ r[b] = SmoothAndCap(w[b], preds[b])
    BY DEF Rescored, Weights
  <2> HIDE DEF r
  <2> QED
    BY <1>3, <2>1, <2>3, <2>4, SmoothMonotone
<1> HIDE DEF r
<1>4. c \in Amounts(F) /\ \A a, b \in F : DomainOf(a) = DomainOf(b) /\ r[b] <= r[a] => c[b] <= c[a]
  <2> HIDE DEF F
  <2> QED
    BY <1>1, <1>2, CappedAmounts
<1> HIDE DEF c
<1>5. /\ f \in Amounts(F) /\ \A s \in F : f[s] >= 1
      /\ \A a, b \in F : c[b] <= c[a] => f[b] <= f[a]
  <2> HIDE DEF F
  <2> QED
    BY <1>4, FlooredAmounts
<1> HIDE DEF f
<1>6. /\ new \in Weights(F) /\ SharesOfOne(new, F)
      /\ \A a, b \in F : f[b] <= f[a] => new[b] <= new[a]
  <2> HIDE DEF F
  <2> QED
    BY <1>1, <1>5, NormalizedWeights
<1>7. ASSUME NEW a \in D \cap E, NEW b \in D \cap E, DomainOf(a) = DomainOf(b),
             w[b] <= w[a], preds[b] <= preds[a]
      PROVE  new[b] <= new[a]
  <2>1. r[b] <= r[a] /\ a \in F /\ b \in F
    BY <1>3, <1>7
  <2> HIDE DEF new, F
  <2> QED
    BY <1>4, <1>5, <1>6, <1>7, <2>1
<1> QED
  BY <1>6, <1>7 DEF r, c, f
-----------------------------------------------------------------------------
(* The invariant of the router.                                            *)

\* A sum of ones counts them.
LEMMA SumOfOnes ==
    ASSUME NEW S, IsFiniteSet(S)
    PROVE  SumFunction([s \in S |-> 1]) = Cardinality(S)
<1> DEFINE w == [s \in S |-> 1]
<1>1. w \in [S -> Int] /\ \A x \in S : w[x] = 1
  OBVIOUS
<1> HIDE DEF w
<1>2. PICK g \in [SUBSET S -> Int] : (\A T \in SUBSET S : Adds(g, w, T)) /\ SumFunction(w) = g[S]
  BY <1>1, SumIsChain
<1> DEFINE G == {T \in SUBSET S : g[T] = Cardinality(T)}
<1>3. {} \in G
  BY <1>2, FS_EmptySet DEF Adds
<1>4. ASSUME NEW T \in SUBSET S, T # {}, Rest(T) \in G PROVE T \in G
  <2>1. /\ Pick(T) \in S /\ Rest(T) \in SUBSET S
        /\ Cardinality(T) \in Nat /\ Cardinality(Rest(T)) = Cardinality(T) - 1
    BY <1>4, RestIsLess
  <2>2. g[T] = 1 + g[Rest(T)] /\ g[Rest(T)] = Cardinality(Rest(T))
    BY <1>1, <1>2, <1>4, <2>1 DEF Adds
  <2> QED
    BY <2>1, <2>2
<1>5. S \in G
  <2> HIDE DEF G
  <2> QED
    BY <1>3, <1>4, RestInduction
<1> QED
  BY <1>2, <1>5 DEF w

\* with_servers() hands out equal weights, as normalising equal amounts would.
LEMMA EqualWeights ==
    LET w == [s \in Registered |-> Unit \div Cardinality(Registered)]
    IN  w \in Weights(Registered) /\ SharesOfOne(w, Registered)
<1> DEFINE ones == [s \in Registered |-> 1]
<1>1. IsFiniteSet(Registered) /\ Registered # {}
  BY ServersAssumption, FS_Subset
<1>2. ones \in Amounts(Registered) /\ \A s \in Registered : ones[s] >= 1
  BY DEF Amounts
<1>3. Total(ones) = Cardinality(Registered)
  BY <1>1, SumOfOnes DEF Total
<1>4. Normalize(ones) = [s \in Registered |-> Unit \div Cardinality(Registered)]
  <2>1. \A s \in Registered : ones[s] * Unit = Unit
    BY Parameters
  <2>2. DOMAIN ones = Registered
    OBVIOUS
  <2> HIDE DEF ones
  <2> QED
    BY <1>3, <2>1, <2>2 DEF Normalize
<1> HIDE DEF ones
<1>5. Normalize(ones) \in Weights(Registered) /\ SharesOfOne(Normalize(ones), Registered)
  BY <1>1, <1>2, NormalizedWeights
<1> QED
  BY <1>4, <1>5

\* SetToSeq() lists every element once.
LEMMA InitialList ==
    /\ SetToSeq(Registered) \in Seq(Servers)
    /\ IsInjective(SetToSeq(Registered))
<1> DEFINE n == Cardinality(Registered)  q == SetToSeq(Registered)
<1>1. IsFiniteSet(Registered)
  BY ServersAssumption, FS_Subset
<1>2. n \in Nat /\ ExistsBijection(1 .. n, Registered)
  BY <1>1, FS_CardinalityType
<1>3. \E f \in [1 .. n -> Registered] : IsInjective(f)
  BY <1>2 DEF ExistsBijection, Bijection, Injection
<1>4. q \in [1 .. n -> Registered] /\ IsInjective(q)
  BY <1>3 DEF SetToSeq
<1> HIDE DEF n, q
<1>5. q \in [1 .. n -> Servers]
  BY <1>4, ServersAssumption
<1>6. q \in Seq(Servers)
  BY <1>2, <1>5, SeqDef
<1> QED
  BY <1>4, <1>6 DEF q

\* The list of backends names none twice.
ListOfServers(q) == q \in Seq(Servers) /\ IsInjective(q)

\* What the router never loses: the score map always holds weights that sum to one.
RouterInv ==
    /\ Registered \subseteq Known /\ Known \subseteq Servers
    /\ weight \in Weights(Known) /\ SumsToOne
    /\ DOMAIN predicted \subseteq Known
    /\ \A s \in DOMAIN predicted : predicted[s] \in RawWeights
    /\ ListOfServers(servers)
    /\ age \in [Known -> 0 .. TTL]
    /\ tried \subseteq Servers /\ measured \subseteq Registered \cap tried
    /\ calls \in 0 .. MaxCalls

LEMMA RouterInitial == RouterInit => RouterInv
<1> SUFFICES ASSUME RouterInit PROVE RouterInv
  OBVIOUS
<1>1. /\ weight = [s \in Registered |-> Unit \div Cardinality(Registered)]
      /\ predicted = [s \in {} |-> 0]
      /\ servers = SetToSeq(Registered) /\ age = [s \in Registered |-> 0]
      /\ tried = {} /\ measured = {} /\ calls = 0
  BY DEF RouterInit, Init
<1>2. Known = Registered
  BY <1>1 DEF Known
<1>3. weight \in Weights(Known) /\ SumsToOne
  BY <1>1, <1>2, EqualWeights DEF SumsToOne, SharesOfOne
<1>4. ListOfServers(servers)
  BY <1>1, InitialList DEF ListOfServers
<1>5. age \in [Known -> 0 .. TTL] /\ calls \in 0 .. MaxCalls
  BY <1>1, <1>2, TTLAssumption, CallsAssumption
<1>6. DOMAIN predicted = {}
  BY <1>1
<1> QED
  BY <1>1, <1>2, <1>3, <1>4, <1>5, <1>6, ServersAssumption DEF RouterInv

\* Predictions: raw weights for some of the servers.
Predictions(preds) == DOMAIN preds \subseteq Servers /\ preds \in [DOMAIN preds -> RawWeights]

\* An update of the scores, whatever asks for it.
LEMMA UpdateKeeps ==
    ASSUME RouterInv, NEW preds, Predictions(preds), Update(preds)
    PROVE  /\ Registered \subseteq Known' /\ Known' \subseteq Servers
           /\ weight' \in Weights(Known') /\ SumsToOne'
           /\ DOMAIN predicted' \subseteq Known'
           /\ \A s \in DOMAIN predicted' : predicted'[s] \in RawWeights
           /\ age' \in [Known' -> 0 .. TTL]
           /\ \A a, b \in Known \cap DOMAIN preds :
                 /\ DomainOf(a) = DomainOf(b)
                 /\ weight[b] <= weight[a] /\ preds[b] <= preds[a]
                 => weight'[b] <= weight'[a]
<1> DEFINE D == Known  E == DOMAIN preds
           new == Normalize(RaiseToFloor(CapDomains(Rescored(weight, preds))))
<1>1. /\ IsFiniteSet(Servers) /\ Registered # {}
      /\ Registered \subseteq D /\ D \subseteq Servers /\ E \subseteq Servers
  BY ServersAssumption DEF RouterInv, Predictions
<1>2. IsFiniteSet(D) /\ IsFiniteSet(E) /\ D # {}
  BY <1>1, FS_Subset
<1>3. weight \in Weights(D) /\ preds \in [E -> RawWeights]
  BY DEF RouterInv, Predictions
<1>4. weight' = new /\ predicted' = preds /\ age' = Stamped(preds)
  BY DEF Update, UpdateScores
<1> HIDE DEF D, E
<1>5. /\ new \in Weights(D \cup E) /\ SharesOfOne(new, D \cup E)
      /\ \A a, b \in D \cap E :
            /\ DomainOf(a) = DomainOf(b)
            /\ weight[b] <= weight[a] /\ preds[b] <= preds[a]
            => new[b] <= new[a]
  BY <1>2, <1>3, UpdatedWeights
<1> HIDE DEF new
<1>6. Known' = D \cup E
  BY <1>4, <1>5 DEF Known, Weights
<1>7. SumsToOne'
  BY <1>4, <1>5, <1>6 DEF SumsToOne, SharesOfOne
<1>8. age' \in [D \cup E -> 0 .. TTL]
  <2>1. age \in [D -> 0 .. TTL] /\ 0 \in 0 .. TTL
    BY TTLAssumption DEF RouterInv, D
  <2> QED
    BY <1>4, <2>1 DEF Stamped, D, E
<1>9. \A s \in E : preds[s] \in RawWeights
  BY <1>3
<1> QED
  BY <1>1, <1>4, <1>5, <1>6, <1>7, <1>8, <1>9 DEF D, E

\* The predictions of lb-proxy's loop, and those of a single server.
LEMMA PredictionsMade ==
    /\ \A preds \in SyncPredictions : Predictions(preds)
    /\ \A s \in Servers, raw \in RawWeights : Predictions([t \in {s} |-> raw])
BY ServersAssumption DEF Predictions, SyncPredictions

\* Taking one position out of the list.
LEMMA ListWithout ==
    ASSUME NEW q, ListOfServers(q), NEW i \in 1 .. Len(q)
    PROVE  ListOfServers(RemoveAt(q, i))
<1>1. q \in Seq(Servers) /\ Len(q) \in Nat
  BY DEF ListOfServers
<1> DEFINE n == Len(q)  l == SubSeq(q, 1, i - 1)  r == SubSeq(q, i + 1, n)
<1>2. /\ l \in Seq(Servers) /\ Len(l) = i - 1
      /\ \A k \in 1 .. i - 1 : l[k] = q[k]
  BY <1>1, SubSeqProperties
<1>3. /\ r \in Seq(Servers) /\ Len(r) = n - i
      /\ \A k \in 1 .. n - i : r[k] = q[i + k]
  BY <1>1, SubSeqProperties
<1>4. RemoveAt(q, i) = l \o r
  BY DEF RemoveAt
<1> HIDE DEF l, r
<1> DEFINE p == l \o r  old(k) == IF k < i THEN k ELSE k + 1
<1>5. /\ p \in Seq(Servers) /\ Len(p) = (i - 1) + (n - i)
      /\ \A k \in 1 .. (i - 1) + (n - i) : p[k] = IF k <= i - 1 THEN l[k] ELSE r[k - (i - 1)]
  <2>1. /\ l \o r \in Seq(Servers) /\ Len(l \o r) = Len(l) + Len(r)
        /\ \A k \in 1 .. Len(l) + Len(r) :
              (l \o r)[k] = IF k <= Len(l) THEN l[k] ELSE r[k - Len(l)]
    <3>1. l \in Seq(Servers) /\ r \in Seq(Servers)
      BY <1>2, <1>3
    <3> HIDE DEF n
    <3> QED
      BY <3>1, ConcatProperties, Zenon
  <2> HIDE DEF n
  <2> QED
    BY <1>2, <1>3, <2>1
<1>6. DOMAIN p = 1 .. n - 1
  BY <1>1, <1>5
<1> HIDE DEF p, n
<1>7. n \in Nat /\ i \in 1 .. n
  BY <1>1 DEF n
<1>8. ASSUME NEW k \in 1 .. n - 1 PROVE old(k) \in 1 .. n /\ p[k] = q[old(k)]
  <2>1. CASE k < i
    BY <1>2, <1>5, <1>7, <2>1
  <2>2. CASE k >= i
    <3>1. p[k] = r[k - (i - 1)] /\ k - (i - 1) \in 1 .. n - i /\ i + (k - (i - 1)) = k + 1
      BY <1>5, <1>7, <2>2
    <3> QED
      BY <1>3, <1>7, <2>2, <3>1
  <2> QED
    BY <1>7, <2>1, <2>2
<1>9. \A j, k \in 1 .. n : q[j] = q[k] => j = k
  BY <1>1 DEF ListOfServers, IsInjective, n
<1>10. IsInjective(p)
  <2> SUFFICES ASSUME NEW j \in 1 .. n - 1, NEW k \in 1 .. n - 1, p[j] = p[k] PROVE j = k
    BY <1>6 DEF IsInjective
  <2>1. old(j) = old(k)
    <3> HIDE DEF old
    <3> QED
      BY <1>8, <1>9
  <2> QED
    BY <1>7, <2>1
<1> QED
  BY <1>4, <1>5, <1>10 DEF ListOfServers, p

\* Putting a new server at its end.
LEMMA ListWith ==
    ASSUME NEW q, ListOfServers(q), NEW s \in Servers, s \notin ToSet(q)
    PROVE  ListOfServers(Append(q, s))
<1>1. q \in Seq(Servers) /\ Len(q) \in Nat /\ DOMAIN q = 1 .. Len(q)
  BY DEF ListOfServers
<1> DEFINE p == Append(q, s)  n == Len(q)
<1>2. /\ p \in Seq(Servers) /\ Len(p) = n + 1 /\ DOMAIN p = 1 .. n + 1
      /\ \A k \in 1 .. n : p[k] = q[k]
      /\ p[n + 1] = s
  BY <1>1, AppendProperties
<1>3. \A k \in 1 .. n : q[k] # s
  BY <1>1 DEF ToSet
<1>4. \A j, k \in 1 .. n : q[j] = q[k] => j = k
  BY <1>1 DEF ListOfServers, IsInjective
<1> HIDE DEF p
<1>5. ASSUME NEW j \in 1 .. n + 1, NEW k \in 1 .. n + 1, p[j] = p[k] PROVE j = k
  <2>1. CASE j = n + 1 /\ k = n + 1
    BY <2>1
  <2>2. CASE j \in 1 .. n /\ k \in 1 .. n
    BY <1>2, <1>4, <1>5, <2>2
  <2>3. CASE j \in 1 .. n /\ k = n + 1
    BY <1>2, <1>3, <1>5, <2>3
  <2>4. CASE j = n + 1 /\ k \in 1 .. n
    BY <1>2, <1>3, <1>5, <2>4
  <2> QED
    BY <1>1, <2>1, <2>2, <2>3, <2>4
<1>6. IsInjective(p)
  BY <1>2, <1>5 DEF IsInjective
<1> QED
  BY <1>2, <1>6 DEF ListOfServers, p

\* The invariant's part about the list, position by position.
LEMMA PoolPositions ==
    ASSUME RouterInv
    PROVE  /\ Len(servers) \in Nat
           /\ \A k \in Positions : servers[k] \in Pool
           /\ \A s \in Pool : \E k \in Positions : servers[k] = s
           /\ \A j, k \in Positions : servers[j] = servers[k] => j = k
BY DEF RouterInv, ListOfServers, IsInjective, Pool, ToSet, Positions

\* A draw ends at one of the servers.
LEMMA ChoiceInServers ==
    ASSUME RouterInv, NEW d \in Draws, NEW over \in Signals
    PROVE  Choice(d, over) \in Servers
<1>1. d[1] \in Positions /\ d[2] \in Positions
  BY DEF Draws
<1>2. Len(servers) \in Nat /\ \A k \in Positions : servers[k] \in Pool
  BY PoolPositions
<1>3. First(d) \in Pool /\ Second(d) \in Pool
  BY <1>1, <1>2 DEF First, Second, Positions
<1>4. Pool \subseteq Servers
  BY DEF RouterInv, ListOfServers, Pool, ToSet
<1> QED
  BY <1>3, <1>4 DEF Choice

\* Every step keeps the invariant.
LEMMA RouterStep ==
    ASSUME RouterInv, [RouterNext]_routerVars
    PROVE  RouterInv'
<1>1. CASE UNCHANGED routerVars
  BY <1>1 DEF RouterInv, routerVars, Known, SumsToOne
<1>2. CASE \E draw \in Draws, over \in Signals : Route(draw, over)
  <2>1. PICK draw \in Draws, over \in Signals : Route(draw, over)
    BY <1>2
  <2>2. Choice(draw, over) \in Servers
    BY ChoiceInServers
  <2> QED
    BY <2>1, <2>2 DEF Route, RouterInv, Known, SumsToOne
<1>10. CASE \E s \in Registered : RecordBackendHealth(s)
  BY <1>10 DEF RecordBackendHealth, RouterInv, Known, SumsToOne
<1>3. ASSUME NEW preds, Predictions(preds), Update(preds), calls' \in 0 .. MaxCalls
      PROVE  RouterInv'
  <2>1. servers' = servers /\ tried' = tried /\ measured' = measured
    BY <1>3 DEF Update
  <2>2. /\ ListOfServers(servers')
        /\ tried' \subseteq Servers /\ measured' \subseteq Registered \cap tried'
    BY <2>1 DEF RouterInv
  <2> QED
    BY <1>3, <2>2, UpdateKeeps DEF RouterInv
<1>4. CASE SyncScoreboard
  <2>1. PICK preds \in SyncPredictions : Update(preds)
    BY <1>4 DEF SyncScoreboard
  <2>2. calls' \in 0 .. MaxCalls
    BY <1>4 DEF SyncScoreboard, RouterInv
  <2> QED
    BY <1>3, <2>1, <2>2, PredictionsMade
<1>5. CASE Tick
  <2>1. UNCHANGED <<weight, predicted, servers, tried, measured, calls>> /\ Known' = Known
    BY <1>5 DEF Tick, Known
  <2>2. age' \in [Known -> 0 .. TTL]
    <3>1. \A s \in Known : age[s] \in 0 .. TTL
      BY DEF RouterInv
    <3>2. \A s \in Known : Min({age[s] + 1, TTL}) \in 0 .. TTL
      BY <3>1, TTLAssumption DEF Min
    <3> QED
      BY <1>5, <3>2 DEF Tick
  <2> QED
    BY <2>1, <2>2 DEF RouterInv, SumsToOne
<1>6. ASSUME NEW s \in Servers, LibraryCall PROVE calls' \in 0 .. MaxCalls
  BY <1>6, CallsAssumption DEF LibraryCall, RouterInv
<1>7. ASSUME NEW s \in Servers, UpdateSingleServer(s) PROVE RouterInv'
  <2>1. PICK raw \in RawWeights : Update([t \in {s} |-> raw])
    BY <1>7 DEF UpdateSingleServer
  <2>2. calls' \in 0 .. MaxCalls
    BY <1>6, <1>7 DEF UpdateSingleServer
  <2> QED
    BY <1>3, <2>1, <2>2, PredictionsMade
<1>8. ASSUME NEW s \in Servers, AddServer(s) PROVE RouterInv'
  <2>1. UNCHANGED <<weight, predicted, age, tried, measured>> /\ Known' = Known
    BY <1>8 DEF AddServer, Known
  <2>2. calls' \in 0 .. MaxCalls
    BY <1>6, <1>8 DEF AddServer
  <2>3. ListOfServers(servers')
    BY <1>8, ListWith DEF AddServer, Pool, RouterInv
  <2> QED
    BY <2>1, <2>2, <2>3 DEF RouterInv, SumsToOne
<1>9. ASSUME NEW s \in Servers, RemoveServer(s) PROVE RouterInv'
  <2>1. UNCHANGED <<weight, predicted, age, tried, measured>> /\ Known' = Known
    BY <1>9 DEF RemoveServer, Known
  <2>2. calls' \in 0 .. MaxCalls
    BY <1>6, <1>9 DEF RemoveServer
  <2>3. PICK i \in Positions : servers' = RemoveAt(servers, i)
    BY <1>9 DEF RemoveServer
  <2>4. ListOfServers(servers')
    BY <2>3, ListWithout DEF Positions, RouterInv
  <2> QED
    BY <2>1, <2>2, <2>4 DEF RouterInv, SumsToOne
<1> QED
  BY <1>1, <1>2, <1>4, <1>5, <1>7, <1>8, <1>9, <1>10 DEF RouterNext

\* The invariant implies the types.
LEMMA RouterInvTypes == RouterInv => RouterTypeOK
<1> SUFFICES ASSUME RouterInv PROVE RouterTypeOK
  OBVIOUS
<1>1. \A s \in Known : weight[s] \in 0 .. Unit
  BY DEF RouterInv, Weights
<1>2. TypeOK
  BY <1>1 DEF RouterInv, TypeOK
<1>3. IsInjective(servers) /\ Pool \subseteq Servers
  BY DEF RouterInv, ListOfServers, Pool, ToSet
<1> QED
  BY <1>2, <1>3 DEF RouterInv, RouterTypeOK

\* Whatever the loop predicts and whatever else the library is asked, scores,
\* ages and the list of backends keep their form: every known server has a weight
\* and an age, and the list names no server twice (scoreboard.rs, router.rs).
THEOREM RouterTypeCorrect == RouterSpec => []RouterTypeOK
<1>1. RouterInit => RouterInv
  BY RouterInitial
<1>2. RouterInv /\ [RouterNext]_routerVars => RouterInv'
  BY RouterStep
<1>3. RouterInv => RouterTypeOK
  BY RouterInvTypes
<1> QED
  BY <1>1, <1>2, <1>3, PTL DEF RouterSpec

\* After any number of updates, however they were smoothed, capped, floored and
\* rounded, and whichever servers they added, the weights sum to one up to less
\* than a unit per server (normalize_weights(), scoreboard.rs).
THEOREM WeightsSumToOne == RouterSpec => []SumsToOne
<1>1. RouterInit => RouterInv
  BY RouterInitial
<1>2. RouterInv /\ [RouterNext]_routerVars => RouterInv'
  BY RouterStep
<1>3. RouterInv => SumsToOne
  BY DEF RouterInv
<1> QED
  BY <1>1, <1>2, <1>3, PTL DEF RouterSpec

\* No update makes the server that weighed no less, and was predicted no worse,
\* weigh less than another one of its domain (update_scores()).
THEOREM RankingIsRespected == RouterSpec => RankingRespected
<1> DEFINE Respected ==
      \A a, b \in DOMAIN weight \cap DOMAIN predicted' :
         (/\ DomainOf(a) = DomainOf(b)
          /\ weight[a] >= weight[b]
          /\ predicted'[a] >= predicted'[b]) => weight'[a] >= weight'[b]
<1>1. RouterInit => RouterInv
  BY RouterInitial
<1>2. RouterInv /\ [RouterNext]_routerVars => RouterInv'
  BY RouterStep
<1>3. RouterInv /\ [RouterNext]_routerVars => [Respected]_vars
  <2> SUFFICES ASSUME RouterInv, [RouterNext]_routerVars, ~UNCHANGED vars PROVE Respected
    OBVIOUS
  <2>1. ASSUME NEW preds, Predictions(preds), Update(preds) PROVE Respected
    <3>1. predicted' = preds
      BY <2>1 DEF Update, UpdateScores
    <3>2. \A a, b \in Known \cap DOMAIN preds :
             /\ DomainOf(a) = DomainOf(b)
             /\ weight[b] <= weight[a] /\ preds[b] <= preds[a]
             => weight'[b] <= weight'[a]
      BY <2>1, UpdateKeeps
    <3>3. \A x, y : x >= y <=> y <= x
      OBVIOUS
    <3> QED
      BY <3>1, <3>2, <3>3 DEF Known
  <2>2. CASE SyncScoreboard
    BY <2>1, <2>2, PredictionsMade DEF SyncScoreboard
  <2>3. ASSUME NEW s \in Servers, UpdateSingleServer(s) PROVE Respected
    BY <2>1, <2>3, PredictionsMade DEF UpdateSingleServer
  <2>4. ASSUME UNCHANGED <<weight, predicted>> PROVE FALSE
    BY <2>4 DEF vars
  <2> QED
    BY <2>2, <2>3, <2>4
       DEF RouterNext, Route, RecordBackendHealth, Tick, AddServer, RemoveServer, routerVars
<1> QED
  BY <1>1, <1>2, <1>3, PTL DEF RouterSpec, RankingRespected

-----------------------------------------------------------------------------
(* The exploration floor.  It is put under the weights before they are     *)
(* normalised, so it holds of the score map only if normalisation does not *)
(* make them smaller: if floor and capped domain leave room for each other.*)

\* A sum may be taken in any order.
Chain(g, w, S) == g \in [SUBSET S -> Int] /\ \A T \in SUBSET S : Adds(g, w, T)

LEMMA AnyOrder ==
    ASSUME NEW S, IsFiniteSet(S), NEW w \in [S -> Int], NEW g, Chain(g, w, S)
    PROVE  \A T \in SUBSET S : \A x \in T : g[T] = w[x] + g[T \ {x}]
<1>0. g \in [SUBSET S -> Int] /\ \A T \in SUBSET S : Adds(g, w, T)
  BY DEF Chain
<1> DEFINE Good(T) == \A x \in T : g[T] = w[x] + g[T \ {x}]
           Bad == {T \in SUBSET S : ~Good(T)}
<1> SUFFICES ASSUME Bad # {} PROVE FALSE
  OBVIOUS
<1>1. IsWellFoundedOn(StrictSubsetOrdering(S), FiniteSubsetsOf(S))
  BY FS_StrictSubsetOrderingWellFounded
<1>2. Bad \subseteq FiniteSubsetsOf(S)
  BY FS_FiniteSubsetsOfFinite
<1>3. PICK T \in Bad : \A U \in Bad : <<U, T>> \notin StrictSubsetOrdering(S)
  <2> HIDE DEF Bad
  <2> QED
    BY <1>1, <1>2, WFMin
<1>4. T \in SUBSET S /\ ~Good(T)
  BY <1>3
<1>5. PICK x \in T : g[T] # w[x] + g[T \ {x}]
  BY <1>4
<1> DEFINE p == Pick(T)
<1>6. /\ p \in T /\ Rest(T) = T \ {p}
      /\ g[T] = w[p] + g[T \ {p}]
  BY <1>0, <1>4, <1>5, RestIsLess DEF Adds, Rest
<1> HIDE DEF p
<1>7. ASSUME NEW y \in T PROVE T \ {y} \in SUBSET S /\ Good(T \ {y})
  <2>1. T \ {y} \in SUBSET S /\ T \ {y} # T
    BY <1>4
  <2>2. <<T \ {y}, T>> \in StrictSubsetOrdering(S)
    BY <1>4, <2>1 DEF StrictSubsetOrdering
  <2> QED
    BY <1>3, <2>1, <2>2
<1>8. x # p
  BY <1>5, <1>6
<1>9. g[T \ {p}] = w[x] + g[(T \ {p}) \ {x}]
  BY <1>6, <1>7, <1>8
<1>10. g[T \ {x}] = w[p] + g[(T \ {x}) \ {p}]
  BY <1>6, <1>7, <1>8
<1>11. (T \ {p}) \ {x} = (T \ {x}) \ {p}
  OBVIOUS
<1>12. /\ w[x] \in Int /\ w[p] \in Int
       /\ g[(T \ {x}) \ {p}] \in Int
  <2>1. (T \ {x}) \ {p} \in SUBSET S
    BY <1>4
  <2> QED
    BY <1>0, <1>4, <1>6, <2>1
<1> DEFINE rest == g[(T \ {x}) \ {p}]  wx == w[x]  wp == w[p]
<1>13. g[T] = wp + (wx + rest) /\ g[T \ {x}] = wp + rest /\ g[T] # wx + g[T \ {x}]
  BY <1>5, <1>6, <1>9, <1>10, <1>11
<1>14. wx \in Int /\ wp \in Int /\ rest \in Int
  BY <1>12
<1> HIDE DEF rest, wx, wp
<1> QED
  BY <1>13, <1>14

\* One more summand.
LEMMA SumWith ==
    ASSUME NEW S, IsFiniteSet(S), NEW x, x \notin S, NEW w \in [S -> Nat], NEW u \in Nat
    PROVE  LET v == [s \in S \cup {x} |-> IF s \in S THEN w[s] ELSE u]
           IN  SumFunction(v) = SumFunction(w) + u
<1> DEFINE R == S \cup {x}
           v == [s \in R |-> IF s \in S THEN w[s] ELSE u]
<1>1. IsFiniteSet(R) /\ R \ {x} = S /\ S \in SUBSET R /\ R \in SUBSET R
  BY FS_AddElement
<1>2. v \in [R -> Int] /\ w \in [S -> Int] /\ v[x] = u /\ \A s \in S : v[s] = w[s]
  OBVIOUS
<1> HIDE DEF v, R
<1>3. PICK g \in [SUBSET R -> Int] : (\A T \in SUBSET R : Adds(g, v, T)) /\ SumFunction(v) = g[R]
  BY <1>1, <1>2, SumIsChain
<1>4. PICK h \in [SUBSET S -> Int] : (\A T \in SUBSET S : Adds(h, w, T)) /\ SumFunction(w) = h[S]
  BY <1>2, SumIsChain
<1>5. x \in R
  BY DEF R
<1>6. g[R] = u + g[S]
  <2>1. Chain(g, v, R)
    BY <1>3 DEF Chain
  <2>2. IsFiniteSet(R) /\ v \in [R -> Int]
    BY <1>1, <1>2
  <2>3. g[R] = v[x] + g[R \ {x}]
    BY <1>1, <1>5, <2>1, <2>2, AnyOrder
  <2> QED
    BY <1>1, <1>2, <2>3
<1> DEFINE G == {T \in SUBSET S : g[T] = h[T]}
<1>7. {} \in G
  BY <1>3, <1>4 DEF Adds
<1>8. ASSUME NEW T \in SUBSET S, T # {}, Rest(T) \in G PROVE T \in G
  <2>1. Pick(T) \in S /\ T \in SUBSET R
    BY <1>1, <1>8, RestIsLess
  <2>2. g[T] = v[Pick(T)] + g[Rest(T)] /\ h[T] = w[Pick(T)] + h[Rest(T)]
    BY <1>3, <1>4, <1>8, <2>1 DEF Adds
  <2> QED
    BY <1>2, <1>8, <2>1, <2>2
<1>9. S \in G
  <2> HIDE DEF G
  <2> QED
    BY <1>7, <1>8, RestInduction
<1>10. h[S] \in Int /\ u \in Int
  OBVIOUS
<1>11. SumFunction(v) = SumFunction(w) + u
  BY <1>3, <1>4, <1>6, <1>9, <1>10
<1> QED
  BY <1>11 DEF v, R

\* A bound on every summand is one on the sum.
LEMMA SumBound ==
    ASSUME NEW S, IsFiniteSet(S), NEW f \in [S -> Nat], NEW w \in [S -> Nat],
           NEW a \in Nat, NEW b \in Nat, NEW c \in Nat,
           \A x \in S : f[x] * a <= w[x] * b + c
    PROVE  SumFunction(f) * a <= SumFunction(w) * b + Cardinality(S) * c
<1>0. f \in [S -> Int] /\ w \in [S -> Int]
  OBVIOUS
<1>1. PICK g \in [SUBSET S -> Int] : (\A T \in SUBSET S : Adds(g, f, T)) /\ SumFunction(f) = g[S]
  BY <1>0, SumIsChain
<1>2. PICK h \in [SUBSET S -> Int] : (\A T \in SUBSET S : Adds(h, w, T)) /\ SumFunction(w) = h[S]
  BY <1>0, SumIsChain
<1> DEFINE Bounded(T) == g[T] * a <= h[T] * b + Cardinality(T) * c
           G == {T \in SUBSET S : Bounded(T)}
<1>3. {} \in G
  <2>1. g[{}] = 0 /\ h[{}] = 0 /\ Cardinality({}) = 0
    BY <1>1, <1>2, FS_EmptySet DEF Adds
  <2> QED
    BY <2>1
<1>4. ASSUME NEW T \in SUBSET S, T # {}, Rest(T) \in G PROVE T \in G
  <2>1. /\ Pick(T) \in S /\ Rest(T) \in SUBSET S
        /\ Cardinality(T) \in Nat /\ Cardinality(Rest(T)) = Cardinality(T) - 1
    BY <1>4, RestIsLess
  <2>2. g[T] = f[Pick(T)] + g[Rest(T)] /\ h[T] = w[Pick(T)] + h[Rest(T)]
    BY <1>1, <1>2, <1>4 DEF Adds
  <2> DEFINE p == f[Pick(T)]  q == w[Pick(T)]  r == g[Rest(T)]  s == h[Rest(T)]
             n == Cardinality(Rest(T))
  <2>3. /\ p \in Nat /\ q \in Nat /\ r \in Int /\ s \in Int /\ n \in Int
        /\ p * a <= q * b + c /\ r * a <= s * b + n * c
    BY <1>4, <2>1
  <2>4. g[T] = p + r /\ h[T] = q + s /\ Cardinality(T) = n + 1
    BY <2>1, <2>2
  <2> HIDE DEF p, q, r, s, n
  <2>5. /\ (p + r) * a = p * a + r * a /\ (q + s) * b = q * b + s * b
        /\ (n + 1) * c = n * c + c
    BY <2>3
  <2>6. /\ p * a \in Int /\ r * a \in Int /\ q * b \in Int /\ s * b \in Int /\ n * c \in Int
    BY <2>3
  <2>7. (p + r) * a <= (q + s) * b + (n + 1) * c
    <3> DEFINE pa == p * a  ra == r * a  qb == q * b  sb == s * b  nc == n * c
    <3>1. pa \in Int /\ ra \in Int /\ qb \in Int /\ sb \in Int /\ nc \in Int
      BY <2>6
    <3>2. pa <= qb + c /\ ra <= sb + nc
      BY <2>3
    <3> HIDE DEF pa, ra, qb, sb, nc
    <3>3. pa + ra <= (qb + sb) + (nc + c)
      BY <3>1, <3>2
    <3> QED
      BY <2>5, <3>3 DEF pa, ra, qb, sb, nc
  <2> QED
    BY <2>4, <2>7
<1>5. S \in G
  <2> HIDE DEF G
  <2> QED
    BY <1>3, <1>4, RestInduction
<1> QED
  BY <1>1, <1>2, <1>5

\* All the servers share one domain, as lb-proxy's do ...
OneDomain == \A s, t \in Servers : DomainOf(s) = DomainOf(t)

\* ... and k new servers at a time, the domain cap and a floor for all the servers
\* together do not exceed the weight 1.0.  With the default configuration that is
\* so for up to 17 servers as lb-proxy uses the scoreboard (k = 0).
Room(k) ==
    LET n == Cardinality(Servers)
    IN  DomainCap * (((1 + k) * Unit) * (Unit + MaxShift) + n * (MaxShift * MinWeight))
            + (Unit * Unit) * (n * MinWeight) <= (Unit * Unit) * Unit

\* One server's score after smoothing and shift cap.
LEMMA SmoothBound ==
    ASSUME NEW old \in 0 .. Unit, NEW raw \in 0 .. Unit
    PROVE  SmoothAndCap(old, raw) * Unit <= old * (Unit + MaxShift) + MaxShift * MinWeight
<1> DEFINE sm == (Alpha * raw + (Unit - Alpha) * old) \div Unit
           top == Max({old, MinWeight})
           delta == (MaxShift * top) \div Unit
<1>0. old \in Nat /\ raw \in Nat
  BY Parameters
<1>1. sm \in Int
  <2> DEFINE x == Alpha * raw + (Unit - Alpha) * old
  <2>1. x \in Int
    BY <1>0, Parameters
  <2> HIDE DEF x
  <2>2. x \div Unit \in Int
    BY <2>1, Parameters
  <2> QED
    BY <2>2 DEF x
<1>2. top \in Nat /\ top <= old + MinWeight
  BY <1>0, Parameters, MaxOfTwo
<1> HIDE DEF top
<1>3. delta \in Nat /\ delta * Unit <= MaxShift * top
  <2> DEFINE x == MaxShift * top
  <2>1. x \in Nat
    BY <1>2, Parameters
  <2> HIDE DEF x
  <2>2. x \div Unit \in Nat /\ (x \div Unit) * Unit <= x
    BY <2>1, Parameters
  <2> QED
    BY <2>2 DEF x
<1>4. MaxShift * top <= MaxShift * old + MaxShift * MinWeight
  <2>1. MaxShift * top <= MaxShift * (old + MinWeight)
    BY <1>0, <1>2, Parameters, ProductMonotone
  <2>2. MaxShift * (old + MinWeight) = MaxShift * old + MaxShift * MinWeight
    BY <1>0, Parameters
  <2> QED
    BY <2>1, <2>2
<1>5. SmoothAndCap(old, raw) = Clamp(sm, old - delta, old + delta)
  BY DEF SmoothAndCap, top
<1> HIDE DEF sm, delta
<1>6. /\ SmoothAndCap(old, raw) \in Int
      /\ SmoothAndCap(old, raw) <= old + delta
  BY <1>0, <1>1, <1>3, <1>5 DEF Clamp
<1> DEFINE r == SmoothAndCap(old, raw)  md == MaxShift * MinWeight  mo == MaxShift * old
           ou == old * Unit  du == delta * Unit
<1>7. r * Unit <= (old + delta) * Unit
  <2> HIDE DEF r
  <2> QED
    BY <1>0, <1>3, <1>6, Parameters DEF r
<1>8. (old + delta) * Unit = ou + du /\ old * (Unit + MaxShift) = ou + mo
  BY <1>0, <1>3, Parameters
<1>9. ou \in Int /\ du \in Int /\ mo \in Int /\ md \in Int /\ r * Unit \in Int
  BY <1>0, <1>3, <1>6, Parameters
<1> HIDE DEF r, md, mo, ou, du
<1>10. du <= mo + md
  <2>1. du <= MaxShift * top /\ MaxShift * top \in Int
    BY <1>2, <1>3, Parameters DEF du
  <2> QED
    BY <1>4, <1>9, <2>1 DEF mo, md
<1>11. r * Unit <= (ou + mo) + md
  BY <1>7, <1>8, <1>9, <1>10
<1> QED
  BY <1>8, <1>11 DEF r, md

\* The scores of one update, with k new servers, all together.
LEMMA RescoredSum ==
    ASSUME NEW D, IsFiniteSet(D), NEW w \in Weights(D), Total(w) <= Unit,
           NEW E, NEW preds \in [E -> RawWeights], NEW k \in {0, 1},
           E \subseteq D \/ (k = 1 /\ \E x : x \notin D /\ E = {x})
    PROVE  Total(Rescored(w, preds)) * Unit
             <= ((1 + k) * Unit) * (Unit + MaxShift)
                  + Cardinality(D \cup E) * (MaxShift * MinWeight)
<1> DEFINE F == D \cup E
           r == Rescored(w, preds)
           b == Unit + MaxShift
           c == MaxShift * MinWeight
           g == [s \in F |-> IF s \in D THEN w[s] ELSE Unit]
<1>0. b \in Nat /\ c \in Nat /\ c >= 0
  BY Parameters
<1>1. IsFiniteSet(F) /\ Cardinality(F) \in Nat
  <2>1. IsFiniteSet(E)
    BY FS_Subset, FS_Singleton
  <2> QED
    BY <2>1, FS_Union, FS_CardinalityType
<1>2. w \in [D -> Nat] /\ \A s \in D : w[s] \in 0 .. Unit /\ w[s] \in Nat
  BY Parameters DEF Weights
<1>3. g \in [F -> Nat] /\ (\A s \in D : g[s] = w[s]) /\ \A s \in F : s \notin D => g[s] = Unit
  BY <1>2, Parameters
<1>4. r \in [F -> Nat]
  BY RescoredAmounts DEF Amounts
<1>5. \A s \in E : preds[s] \in 0 .. Unit /\ preds[s] \in Nat /\ preds[s] <= Unit
  <2>1. ASSUME NEW p \in RawWeights PROVE p \in 0 .. Unit /\ p \in Nat /\ p <= Unit
    <3>1. p \in 1 .. Unit
      BY RawAssumption
    <3> QED
      BY <3>1, Parameters
  <2> QED
    BY <2>1
<1>6. ASSUME NEW s \in F PROVE r[s] * Unit <= g[s] * b + c
  <2>1. CASE s \in D /\ s \in E
    <3>1. r[s] = SmoothAndCap(w[s], preds[s]) /\ g[s] = w[s]
      BY <1>3, <2>1 DEF Rescored, Weights
    <3>2. SmoothAndCap(w[s], preds[s]) * Unit <= w[s] * b + c
      BY <1>2, <1>5, <2>1, SmoothBound
    <3> QED
      BY <3>1, <3>2
  <2>2. CASE s \in D /\ s \notin E
    <3>1. r[s] = w[s] /\ g[s] = w[s] /\ w[s] \in Nat
      BY <1>2, <1>3, <2>2 DEF Rescored, Weights
    <3>2. w[s] * b = w[s] * Unit + w[s] * MaxShift /\ w[s] * MaxShift \in Nat
          /\ w[s] * Unit \in Nat
      BY <3>1, Parameters
    <3> HIDE DEF r, g, b, c
    <3>3. w[s] * Unit <= w[s] * b + c
      <4> DEFINE p == w[s] * Unit  q == w[s] * MaxShift
      <4>1. p \in Nat /\ q \in Nat /\ w[s] * b = p + q
        BY <3>2
      <4> HIDE DEF p, q
      <4>2. p <= (p + q) + c
        BY <1>0, <4>1
      <4> QED
        BY <4>1, <4>2 DEF p
    <3> QED
      BY <3>1, <3>3
  <2>3. CASE s \notin D
    <3>1. r[s] = preds[s] /\ g[s] = Unit /\ s \in E
      BY <1>3, <2>3 DEF Rescored, Weights
    <3>2. preds[s] \in Nat /\ preds[s] <= Unit
      BY <1>5, <3>1
    <3>3. preds[s] * Unit \in Nat /\ preds[s] * Unit <= Unit * Unit
      BY <3>2, Parameters
    <3>4. Unit * b = Unit * Unit + Unit * MaxShift /\ Unit * Unit \in Nat /\ Unit * MaxShift \in Nat
      BY Parameters
    <3> HIDE DEF r, g, b, c
    <3>5. preds[s] * Unit <= Unit * b + c
      <4> DEFINE p == preds[s] * Unit  q == Unit * Unit  t == Unit * MaxShift
      <4>1. p \in Nat /\ q \in Nat /\ t \in Nat /\ Unit * b = q + t /\ p <= q
        BY <3>3, <3>4
      <4> HIDE DEF p, q, t
      <4>2. p <= (q + t) + c
        BY <1>0, <4>1
      <4> QED
        BY <4>1, <4>2 DEF p
    <3> QED
      BY <3>1, <3>5
  <2> QED
    BY <2>1, <2>2, <2>3
<1>7. SumFunction(g) \in Nat /\ SumFunction(g) <= (1 + k) * Unit
  <2>1. SumFunction(w) \in Nat /\ SumFunction(w) <= Unit
    BY <1>2, SumOfWeights DEF Total
  <2>2. CASE E \subseteq D
    <3>1. F = D /\ g = w
      BY <1>2, <1>3, <2>2
    <3>2. Unit <= (1 + k) * Unit
      BY Parameters
    <3> QED
      BY <2>1, <3>1, <3>2, Parameters
  <2>3. CASE k = 1 /\ \E x : x \notin D /\ E = {x}
    <3>1. PICK x : x \notin D /\ E = {x}
      BY <2>3
    <3>2. g = [s \in D \cup {x} |-> IF s \in D THEN w[s] ELSE Unit]
      BY <3>1
    <3>3. SumFunction(g) = SumFunction(w) + Unit
      <4> HIDE DEF g
      <4>1. x \notin D /\ w \in [D -> Nat] /\ Unit \in Nat
        BY <1>2, <3>1, Parameters
      <4>2. SumFunction([s \in D \cup {x} |-> IF s \in D THEN w[s] ELSE Unit])
              = SumFunction(w) + Unit
        BY <4>1, SumWith
      <4> QED
        BY <3>2, <4>2
    <3> QED
      BY <2>1, <2>3, <3>3, Parameters
  <2> QED
    BY <2>2, <2>3
<1> HIDE DEF r, g, F
<1>8. SumFunction(r) * Unit <= SumFunction(g) * b + Cardinality(F) * c
  <2> HIDE DEF b, c
  <2> QED
    BY <1>0, <1>1, <1>3, <1>4, <1>6, SumBound, Parameters
<1>9. SumFunction(g) * b <= ((1 + k) * Unit) * b
  <2> DEFINE y == (1 + k) * Unit  x == SumFunction(g)
  <2>1. y \in Nat /\ x \in Nat /\ x <= y
    BY <1>7, Parameters
  <2> HIDE DEF x, y, b
  <2>2. b * x <= b * y
    BY <1>0, <2>1, ProductMonotone
  <2> QED
    BY <1>0, <2>1, <2>2 DEF x, y
<1>10. SumFunction(r) \in Nat
  BY <1>1, <1>4, SumOfWeights
<1> DEFINE p == SumFunction(r) * Unit  q == SumFunction(g) * b  t == Cardinality(F) * c
           z == ((1 + k) * Unit) * b
<1>11. p \in Int /\ q \in Int /\ t \in Int /\ z \in Int
  BY <1>0, <1>1, <1>7, <1>10, Parameters
<1>12. p <= q + t /\ q <= z
  BY <1>8, <1>9
<1> HIDE DEF p, q, t, z, b, c
<1>13. p <= z + t
  BY <1>11, <1>12
<1> QED
  BY <1>13 DEF p, t, z, b, c, r, F, Total

\* A single domain above the cap is scaled down to it.
LEMMA CappedSum ==
    ASSUME NEW D, IsFiniteSet(D), NEW w \in Amounts(D),
           \A s, t \in D : DomainOf(s) = DomainOf(t)
    PROVE  Total(CapDomains(w)) * Unit <= DomainCap * Total(w)
<1> DEFINE total == Total(w)
           cap == (DomainCap * total) \div Unit
           c == CapDomains(w)
<1>1. total \in Nat /\ w \in [D -> Nat]
  BY SumOfWeights DEF Total, Amounts
<1>2. cap \in Nat /\ cap * Unit <= DomainCap * total
  <2> DEFINE x == DomainCap * total
  <2>1. x \in Nat
    BY <1>1, Parameters
  <2> HIDE DEF x
  <2>2. x \div Unit \in Nat /\ (x \div Unit) * Unit <= x
    BY <2>1, Parameters
  <2> QED
    BY <2>2 DEF x
<1>3. ASSUME NEW s \in D PROVE DomainTotal(w, DomainOf(s)) = total
  <2>1. {t \in D : DomainOf(t) = DomainOf(s)} = D
    OBVIOUS
  <2>2. Restrict(w, D) = w
    BY DEF Restrict, Amounts
  <2>3. DOMAIN w = D
    BY DEF Amounts
  <2> HIDE DEF total
  <2> QED
    BY <2>1, <2>2, <2>3 DEF DomainTotal, total
<1>4. c \in [D -> Nat] /\ SumFunction(c) \in Nat
  BY CappedAmounts, SumOfWeights DEF Amounts
<1>5. ASSUME NEW s \in D
      PROVE  c[s] = IF total * Unit > DomainCap * total THEN (cap * w[s]) \div total ELSE w[s]
  <2>1. DomainTotal(w, DomainOf(s)) = total
    BY <1>3
  <2>2. c[s] = IF DomainTotal(w, DomainOf(s)) * Unit > DomainCap * total
               THEN (cap * w[s]) \div DomainTotal(w, DomainOf(s)) ELSE w[s]
    BY DEF CapDomains, Amounts
  <2> QED
    BY <2>1, <2>2
<1> HIDE DEF c, total, cap
<1>6. CASE total * Unit > DomainCap * total
  <2>1. total > 0
    <3>1. DomainCap * total \in Nat
      BY <1>1, Parameters
    <3> QED
      BY <1>1, <1>6, <3>1, Parameters
  <2>2. ASSUME NEW s \in D PROVE c[s] * total <= w[s] * cap + 0
    <3> DEFINE x == cap * w[s]
    <3>1. x \in Nat /\ c[s] = x \div total /\ x = w[s] * cap
      BY <1>1, <1>2, <1>5, <1>6
    <3> HIDE DEF x
    <3>2. (x \div total) * total <= x
      BY <1>1, <2>1, <3>1
    <3> QED
      BY <3>1, <3>2
  <2>3. Cardinality(D) \in Nat
    BY FS_CardinalityType
  <2>4. SumFunction(c) * total <= SumFunction(w) * cap + Cardinality(D) * 0
    BY <1>1, <1>2, <1>4, <2>2, SumBound
  <2>5. SumFunction(w) = total
    BY DEF total, Total
  <2> DEFINE u == SumFunction(c)
  <2>6. u \in Nat /\ u * total <= total * cap
    BY <1>1, <1>2, <1>4, <2>3, <2>4, <2>5
  <2> HIDE DEF u
  <2>7. u <= cap
    BY <1>1, <1>2, <2>1, <2>6
  <2>8. u * Unit <= cap * Unit
    BY <1>2, <2>6, <2>7, Parameters
  <2>9. u * Unit <= DomainCap * total
    <3>1. u * Unit \in Int /\ cap * Unit \in Int /\ DomainCap * total \in Int
      BY <1>1, <1>2, <2>6, Parameters
    <3> QED
      BY <1>2, <2>8, <3>1
  <2> QED
    BY <2>9 DEF u, c, total, Total
<1>7. CASE ~(total * Unit > DomainCap * total)
  <2>1. c = w
    BY <1>1, <1>4, <1>5, <1>7
  <2>2. total * Unit <= DomainCap * total
    BY <1>1, <1>7, Parameters
  <2> QED
    BY <2>1, <2>2 DEF c, total
<1> QED
  BY <1>6, <1>7

\* The floor adds no more than itself, for each server.
LEMMA FlooredSum ==
    ASSUME NEW D, IsFiniteSet(D), NEW w \in Amounts(D)
    PROVE  /\ Total(RaiseToFloor(w)) <= Total(w) + Cardinality(D) * MinWeight
           /\ \A s \in D : RaiseToFloor(w)[s] >= MinWeight
<1> DEFINE f == RaiseToFloor(w)
<1>1. \A s \in D : w[s] \in Nat
  BY DEF Amounts
<1>2. \A s \in D : f[s] = IF w[s] >= MinWeight THEN w[s] ELSE MinWeight
  BY <1>1, Parameters, MaxOfTwo DEF RaiseToFloor, Amounts
<1>3. f \in [D -> Nat] /\ w \in [D -> Nat]
  BY FlooredAmounts DEF Amounts
<1> HIDE DEF f
<1>4. \A s \in D : f[s] * 1 <= w[s] * 1 + MinWeight
  BY <1>1, <1>2, Parameters
<1>5. SumFunction(f) * 1 <= SumFunction(w) * 1 + Cardinality(D) * MinWeight
  BY <1>3, <1>4, SumBound, Parameters
<1>6. SumFunction(f) \in Nat /\ SumFunction(w) \in Nat
  BY <1>3, SumOfWeights
<1>7. SumFunction(f) <= SumFunction(w) + Cardinality(D) * MinWeight
  BY <1>5, <1>6
<1>8. \A s \in D : f[s] >= MinWeight
  BY <1>1, <1>2, Parameters
<1> QED
  BY <1>7, <1>8 DEF f, Total

\* Weights that sum to no more than one are not made smaller.
LEMMA NormalizedFloor ==
    ASSUME NEW D, IsFiniteSet(D), NEW w \in Amounts(D), Total(w) <= Unit,
           \A s \in D : w[s] >= MinWeight
    PROVE  \A s \in D : Normalize(w)[s] >= MinWeight
<1> DEFINE total == Total(w)
<1>1. total \in Nat /\ total <= Unit /\ \A s \in D : w[s] \in Nat /\ w[s] <= total
  BY SumOfWeights DEF Total, Amounts
<1>2. \A s \in D : Normalize(w)[s] = (w[s] * Unit) \div total
  BY DEF Normalize, Amounts
<1> HIDE DEF total
<1>3. ASSUME NEW s \in D PROVE Normalize(w)[s] >= MinWeight
  <2> DEFINE x == w[s]
  <2>1. x \in Nat /\ x >= MinWeight /\ x >= 1 /\ total > 0 /\ Normalize(w)[s] = (x * Unit) \div total
    BY <1>1, <1>2, Parameters
  <2> HIDE DEF x
  <2>2. x * Unit >= x * total
    BY <1>1, <2>1, Parameters
  <2> DEFINE y == x * Unit  z == x * total
  <2>3. y \in Nat /\ z \in Nat /\ z <= y
    BY <1>1, <2>1, <2>2, Parameters
  <2>4. z \div total = x
    BY <1>1, <2>1
  <2> HIDE DEF y, z
  <2>5. y \div total \in Int /\ z \div total <= y \div total
    BY <1>1, <2>1, <2>3, QuotientMonotone
  <2> QED
    BY <2>1, <2>4, <2>5, Parameters DEF y
<1> QED
  BY <1>3

\* With room, an update leaves every weight at the floor or above it.
LEMMA UpdatedFloor ==
    ASSUME OneDomain, NEW k \in {0, 1}, Room(k),
           NEW D \in SUBSET Servers, NEW w \in Weights(D), Total(w) <= Unit,
           NEW E \in SUBSET Servers, NEW preds \in [E -> RawWeights],
           E \subseteq D \/ (k = 1 /\ \E x : x \notin D /\ E = {x})
    PROVE  \A s \in D \cup E :
             Normalize(RaiseToFloor(CapDomains(Rescored(w, preds))))[s] >= MinWeight
<1> DEFINE F == D \cup E
           r == Rescored(w, preds)  c == CapDomains(r)  f == RaiseToFloor(c)
           n == Cardinality(F)  N == Cardinality(Servers)
           a == ((1 + k) * Unit) * (Unit + MaxShift)  m == MaxShift * MinWeight
           tr == Total(r)  tc == Total(c)  tf == Total(f)
<1>1. IsFiniteSet(D) /\ IsFiniteSet(F) /\ n \in Nat /\ N \in Nat /\ n <= N
  <2>1. IsFiniteSet(Servers) /\ F \in SUBSET Servers
    BY ServersAssumption
  <2> HIDE DEF F
  <2>2. IsFiniteSet(F) /\ n \in Nat /\ N \in Nat /\ n <= N
    BY <2>1, FS_Subset, FS_CardinalityType
  <2>3. IsFiniteSet(D)
    BY <2>1, FS_Subset
  <2> QED
    BY <2>2, <2>3
<1>2. r \in Amounts(F)
  BY RescoredAmounts
<1>3. tr * Unit <= a + n * m
  BY <1>1, RescoredSum
<1> HIDE DEF r
<1>4. \A s, t \in F : DomainOf(s) = DomainOf(t)
  BY DEF OneDomain
<1> HIDE DEF F
<1>5. c \in Amounts(F) /\ tc * Unit <= DomainCap * tr
  BY <1>1, <1>2, <1>4, CappedAmounts, CappedSum
<1> HIDE DEF c
<1>6. /\ f \in Amounts(F) /\ tf <= tc + n * MinWeight
      /\ \A s \in F : f[s] >= MinWeight
  BY <1>1, <1>5, FlooredAmounts, FlooredSum
<1> HIDE DEF f
<1>7. tr \in Nat /\ tc \in Nat /\ tf \in Nat
  BY <1>1, <1>2, <1>5, <1>6, SumOfWeights DEF Total, Amounts
<1>8. DomainCap * (a + N * m) + (Unit * Unit) * (N * MinWeight) <= (Unit * Unit) * Unit
  BY DEF Room
<1>9. /\ a \in Nat /\ m \in Nat /\ n * m \in Nat /\ N * m \in Nat /\ n * m <= N * m
      /\ n * MinWeight \in Nat /\ N * MinWeight \in Nat /\ n * MinWeight <= N * MinWeight
  <2>1. a \in Nat /\ m \in Nat
    BY Parameters
  <2> HIDE DEF a, m, n, N
  <2> QED
    BY <1>1, <2>1, Parameters
<1> HIDE DEF a, m, n, N, tr, tc, tf
<1>10. tf <= Unit
  <2> DEFINE b == N * MinWeight  d == a + N * m
  <2>1. b \in Nat /\ d \in Nat /\ tr * Unit <= d /\ tf <= tc + b
    <3>1. tr * Unit \in Nat
      BY <1>7, Parameters
    <3> QED
      BY <1>3, <1>6, <1>7, <1>9, <3>1
  <2>2. DomainCap * d + (Unit * Unit) * b <= (Unit * Unit) * Unit
    BY <1>8
  <2> HIDE DEF b, d
  <2>3. /\ tc * Unit \in Nat /\ DomainCap * tr \in Nat /\ tr * Unit \in Nat
        /\ DomainCap * d \in Nat /\ Unit * Unit \in Nat
    BY <1>7, <2>1, Parameters
  <2>4. Unit * (tc * Unit) <= Unit * (DomainCap * tr)
    BY <1>5, <2>3, Parameters, ProductMonotone
  <2>5. DomainCap * (tr * Unit) <= DomainCap * d
    BY <2>1, <2>3, Parameters, ProductMonotone
  <2>6. (Unit * Unit) * tf <= (Unit * Unit) * (tc + b)
    <3> DEFINE u == Unit * Unit
    <3>1. u \in Nat /\ tc + b \in Nat
      BY <1>7, <2>1, <2>3
    <3> HIDE DEF u
    <3>2. u * tf <= u * (tc + b)
      BY <1>7, <2>1, <3>1, ProductMonotone
    <3> QED
      BY <3>2 DEF u
  <2>7. /\ (Unit * Unit) * (tc + b) = Unit * (tc * Unit) + (Unit * Unit) * b
        /\ Unit * (DomainCap * tr) = DomainCap * (tr * Unit)
    BY <1>7, <2>1, Parameters
  <2> DEFINE p == Unit * (tc * Unit)  q == DomainCap * (tr * Unit)  y == DomainCap * d
             v == (Unit * Unit) * b  z == (Unit * Unit) * Unit  x == (Unit * Unit) * tf
  <2>8. /\ p \in Int /\ q \in Int /\ y \in Int /\ v \in Int /\ z \in Int /\ x \in Int
        /\ p <= q /\ q <= y /\ x <= p + v /\ y + v <= z
    BY <1>7, <2>1, <2>2, <2>3, <2>4, <2>5, <2>6, <2>7, Parameters
  <2>9. x <= z
    <3> HIDE DEF p, q, y, v, z, x
    <3> QED
      BY <2>8
  <2> DEFINE u == Unit * Unit
  <2>10. u \in Nat /\ u > 0 /\ u * tf <= u * Unit
    BY <2>3, <2>9, Parameters
  <2> HIDE DEF u
  <2> QED
    BY <1>7, <2>10, Parameters
<1>11. \A s \in F : Normalize(f)[s] >= MinWeight
  BY <1>1, <1>6, <1>10, NormalizedFloor DEF tf
<1> QED
  BY <1>11 DEF F, r, c, f

\* The floor holds: with k = 1, always; with k = 0, as long as the scoreboard is used
\* as lb-proxy uses it, without servers that nobody registered.
FloorInv(k) ==
    (k = 1 \/ calls = 0) =>
        /\ k = 0 => Known = Registered
        /\ \A s \in Known : weight[s] >= MinWeight

LEMMA FloorInitial ==
    ASSUME NEW k \in {0, 1}, Room(k), RouterInit
    PROVE  FloorInv(k)
<1> DEFINE n == Cardinality(Registered)  N == Cardinality(Servers)
<1>1. n \in Nat /\ n > 0 /\ N \in Nat /\ n <= N
  <2>1. IsFiniteSet(Servers) /\ Registered \in SUBSET Servers /\ Registered # {}
    BY ServersAssumption
  <2> QED
    BY <2>1, FS_Subset, FS_CardinalityType, FS_EmptySet
<1>2. Known = Registered /\ \A s \in Known : weight[s] = Unit \div n
  BY DEF RouterInit, Init, Known
<1>3. DomainCap * (((1 + k) * Unit) * (Unit + MaxShift) + N * (MaxShift * MinWeight))
        + (Unit * Unit) * (N * MinWeight) <= (Unit * Unit) * Unit
  BY DEF Room
<1> HIDE DEF n, N
<1>4. N * MinWeight <= Unit
  <2> DEFINE u == Unit * Unit  b == N * MinWeight
             x == DomainCap * (((1 + k) * Unit) * (Unit + MaxShift) + N * (MaxShift * MinWeight))
  <2>1. u \in Nat /\ u > 0 /\ b \in Nat
    BY <1>1, Parameters
  <2>2. x \in Nat
    <3>1. ((1 + k) * Unit) * (Unit + MaxShift) \in Nat /\ N * (MaxShift * MinWeight) \in Nat
      BY <1>1, Parameters
    <3> QED
      BY <3>1, Parameters
  <2>3. x + u * b <= u * Unit
    BY <1>3
  <2> HIDE DEF u, b, x
  <2>4. u * b <= u * Unit
    <3> DEFINE y == u * b  z == u * Unit
    <3>1. y \in Int /\ z \in Int /\ x + y <= z
      BY <2>1, <2>3, Parameters
    <3> HIDE DEF y, z
    <3>2. y <= z
      BY <2>2, <3>1
    <3> QED
      BY <3>2 DEF y, z
  <2>5. b <= Unit
    BY <2>1, <2>4, Parameters
  <2> QED
    BY <2>5 DEF b
<1>5. MinWeight <= Unit \div n
  <2>1. n * MinWeight <= Unit
    BY <1>1, <1>4, Parameters
  <2> DEFINE y == n * MinWeight
  <2>2. y \in Int /\ y <= Unit /\ y \div n = MinWeight
    BY <1>1, <2>1, Parameters
  <2> HIDE DEF y
  <2>3. y \div n <= Unit \div n
    BY <1>1, <2>2, Parameters, QuotientMonotone
  <2> QED
    BY <2>2, <2>3
<1>6. Unit \div n \in Int
  BY <1>1, Parameters
<1> QED
  BY <1>2, <1>5, <1>6, Parameters DEF FloorInv

LEMMA FloorStep ==
    ASSUME OneDomain, NEW k \in {0, 1}, Room(k), RouterInv, FloorInv(k), [RouterNext]_routerVars
    PROVE  FloorInv(k)'
<1>1. ASSUME UNCHANGED weight, calls' = 0 => calls = 0 PROVE FloorInv(k)'
  <2>1. Known' = Known
    BY <1>1 DEF Known
  <2> QED
    BY <1>1, <2>1 DEF FloorInv
<1>2. calls \in Nat
  BY CallsAssumption DEF RouterInv
<1>3. LibraryCall => calls' # 0
  BY <1>2 DEF LibraryCall
<1>4. ASSUME NEW preds, Predictions(preds), Update(preds),
             \/ DOMAIN preds \subseteq Known
             \/ k = 1 /\ \E x : x \notin Known /\ DOMAIN preds = {x}
      PROVE  /\ \A s \in Known' : weight'[s] >= MinWeight
             /\ Known' = Known \cup DOMAIN preds
  <2> DEFINE D == Known  E == DOMAIN preds
             new == Normalize(RaiseToFloor(CapDomains(Rescored(weight, preds))))
  <2>1. /\ D \in SUBSET Servers /\ weight \in Weights(D) /\ Total(weight) <= Unit
        /\ E \in SUBSET Servers /\ preds \in [E -> RawWeights]
        /\ E \subseteq D \/ (k = 1 /\ \E x : x \notin D /\ E = {x})
        /\ IsFiniteSet(D) /\ IsFiniteSet(E) /\ D # {}
    <3>1. /\ D \in SUBSET Servers /\ weight \in Weights(D) /\ Registered \subseteq D
          /\ Total(weight) \in Unit - Cardinality(D) + 1 .. Unit
      BY DEF RouterInv, SumsToOne
    <3>2. E \in SUBSET Servers /\ preds \in [E -> RawWeights]
      BY <1>4 DEF Predictions
    <3>3. IsFiniteSet(Servers) /\ Registered # {}
      BY ServersAssumption
    <3>4. IsFiniteSet(D) /\ IsFiniteSet(E)
      BY <3>1, <3>2, <3>3, FS_Subset
    <3>5. Total(weight) <= Unit
      <4>1. Cardinality(D) \in Nat
        BY <3>4, FS_CardinalityType
      <4> HIDE DEF D
      <4> QED
        BY <3>1, <4>1, Parameters
    <3> QED
      BY <1>4, <3>1, <3>2, <3>3, <3>4, <3>5
  <2>2. weight' = new
    BY <1>4 DEF Update, UpdateScores
  <2> HIDE DEF D, E
  <2>3. \A s \in D \cup E : new[s] >= MinWeight
    BY <2>1, UpdatedFloor
  <2>4. new \in Weights(D \cup E)
    BY <2>1, UpdatedWeights
  <2> HIDE DEF new
  <2>5. Known' = D \cup E
    BY <2>2, <2>4 DEF Known, Weights
  <2> QED
    BY <2>2, <2>3, <2>5 DEF D, E
<1>5. CASE UNCHANGED routerVars
  BY <1>1, <1>5 DEF routerVars
<1>6. CASE \E draw \in Draws, over \in Signals : Route(draw, over)
  BY <1>1, <1>6 DEF Route
<1>11. CASE \E s \in Registered : RecordBackendHealth(s)
  BY <1>1, <1>11 DEF RecordBackendHealth
<1>7. CASE Tick
  BY <1>1, <1>7 DEF Tick
<1>8. ASSUME NEW s \in Servers, AddServer(s) \/ RemoveServer(s) PROVE FloorInv(k)'
  BY <1>1, <1>3, <1>8 DEF AddServer, RemoveServer
<1>9. CASE SyncScoreboard
  <2>1. PICK preds \in SyncPredictions : Update(preds)
    BY <1>9 DEF SyncScoreboard
  <2>2. calls' = calls /\ Predictions(preds) /\ DOMAIN preds = Registered
    BY <1>9, PredictionsMade DEF SyncScoreboard, SyncPredictions
  <2>3. Registered \subseteq Known
    BY DEF RouterInv
  <2>4. Known' = Known /\ \A s \in Known' : weight'[s] >= MinWeight
    BY <1>4, <2>1, <2>2, <2>3
  <2> QED
    BY <2>2, <2>4 DEF FloorInv
<1>10. ASSUME NEW s \in Servers, UpdateSingleServer(s) PROVE FloorInv(k)'
  <2>1. PICK raw \in RawWeights : Update([t \in {s} |-> raw])
    BY <1>10 DEF UpdateSingleServer
  <2>2. calls' # 0
    BY <1>3, <1>10 DEF UpdateSingleServer
  <2>3. CASE k = 0
    BY <2>2, <2>3 DEF FloorInv
  <2>4. CASE k = 1
    <3>1. Predictions([t \in {s} |-> raw]) /\ DOMAIN [t \in {s} |-> raw] = {s}
      BY PredictionsMade
    <3>2. \/ {s} \subseteq Known
          \/ k = 1 /\ \E x : x \notin Known /\ {s} = {x}
      BY <2>4
    <3>3. \A x \in Known' : weight'[x] >= MinWeight
      BY <1>4, <2>1, <3>1, <3>2
    <3> QED
      BY <2>4, <3>3 DEF FloorInv
  <2> QED
    BY <2>3, <2>4
<1> QED
  BY <1>5, <1>6, <1>7, <1>8, <1>9, <1>10, <1>11 DEF RouterNext

\* With room for a new server at a time, "minimum weight any server can have"
\* (types.rs) is right: no sequence of updates brings a weight below it.
THEOREM FloorIsKept ==
    ASSUME OneDomain, Room(1)
    PROVE  RouterSpec => []WeightsAreShares
<1>1. RouterInit => RouterInv /\ FloorInv(1)
  BY RouterInitial, FloorInitial
<1>2. RouterInv /\ FloorInv(1) /\ [RouterNext]_routerVars => RouterInv' /\ FloorInv(1)'
  BY RouterStep, FloorStep
<1>3. RouterInv /\ FloorInv(1) => WeightsAreShares
  BY DEF RouterInv, FloorInv, WeightsAreShares
<1> QED
  BY <1>1, <1>2, <1>3, PTL DEF RouterSpec

\* As lb-proxy uses the scoreboard there is room for more servers, as no server appears
\* that was not registered (proxy.rs of lb-proxy).
THEOREM ProxyFloorIsKept ==
    ASSUME OneDomain, Room(0)
    PROVE  RouterSpec => [](calls = 0 => \A s \in Known : weight[s] >= MinWeight)
<1>1. RouterInit => RouterInv /\ FloorInv(0)
  BY RouterInitial, FloorInitial
<1>2. RouterInv /\ FloorInv(0) /\ [RouterNext]_routerVars => RouterInv' /\ FloorInv(0)'
  BY RouterStep, FloorStep
<1>3. RouterInv /\ FloorInv(0) => (calls = 0 => \A s \in Known : weight[s] >= MinWeight)
  BY DEF FloorInv
<1> QED
  BY <1>1, <1>2, <1>3, PTL DEF RouterSpec

-----------------------------------------------------------------------------
(* Who wins the draws while no signal is over its threshold.               *)

LEMMA BaseWeights ==
    ASSUME RouterInv, NEW s \in Pool
    PROVE  BaseWeight(s) \in Nat
<1>1. Len(servers) \in Nat /\ Len(servers) > 0
  BY PoolPositions DEF Positions
<1>2. s \in Known => weight[s] \in 0 .. Unit
  BY DEF RouterInv, Weights
<1> DEFINE n == Len(servers)
<1> HIDE DEF n
<1>3. n \in Nat /\ n > 0 => Unit \div n \in Nat
  BY Parameters
<1> QED
  BY <1>1, <1>2, <1>3, Parameters DEF BaseWeight, n

\* Without signals, the penalties of two candidates are the same.
LEMMA QuietWeights ==
    ASSUME RouterInv, NEW a \in Pool, NEW b \in Pool
    PROVE  EffectiveWeight(a, Quiet) >= EffectiveWeight(b, Quiet)
             <=> BaseWeight(a) >= BaseWeight(b)
<1>1. MaxSignals - Quiet[a] = MaxSignals /\ MaxSignals - Quiet[b] = MaxSignals
  BY SignalsAssumption DEF Quiet
<1>2. /\ EffectiveWeight(a, Quiet) = BaseWeight(a) * 10^MaxSignals
      /\ EffectiveWeight(b, Quiet) = BaseWeight(b) * 10^MaxSignals
  BY <1>1 DEF EffectiveWeight
<1> DEFINE power(k) == 10^k  p == power(MaxSignals)
<1>3. power(1) = 10 /\ power(2) = 100 /\ power(3) = 1000
  OBVIOUS
<1>4. /\ EffectiveWeight(a, Quiet) = BaseWeight(a) * p
      /\ EffectiveWeight(b, Quiet) = BaseWeight(b) * p
  BY <1>2
<1> HIDE DEF power
<1>5. p = 10 \/ p = 100 \/ p = 1000
  <2>1. MaxSignals = 1 \/ MaxSignals = 2 \/ MaxSignals = 3
    BY SignalsAssumption
  <2> QED
    BY <1>3, <2>1
<1> HIDE DEF p
<1>6. BaseWeight(a) \in Nat /\ BaseWeight(b) \in Nat
  BY BaseWeights
<1> QED
  BY <1>4, <1>5, <1>6

\* The position of the second candidate of a draw.
SecondPosition(d) == IF d[2] = d[1] THEN (d[1] % Len(servers)) + 1 ELSE d[2]

LEMMA QuietChoice ==
    ASSUME RouterInv, NEW d \in Draws
    PROVE  /\ d[1] \in Positions /\ d[2] \in Positions /\ SecondPosition(d) \in Positions
           /\ First(d) = servers[d[1]] /\ Second(d) = servers[SecondPosition(d)]
           /\ Choice(d, Quiet) = IF BaseWeight(First(d)) >= BaseWeight(Second(d))
                                 THEN First(d) ELSE Second(d)
<1>1. d[1] \in Positions /\ d[2] \in Positions
  BY DEF Draws
<1>2. Len(servers) \in Nat /\ \A k \in Positions : servers[k] \in Pool
  BY PoolPositions
<1>3. SecondPosition(d) \in Positions
  BY <1>1, <1>2 DEF SecondPosition, Positions
<1>4. First(d) = servers[d[1]] /\ Second(d) = servers[SecondPosition(d)]
  BY DEF First, Second, SecondPosition
<1>5. First(d) \in Pool /\ Second(d) \in Pool
  BY <1>1, <1>2, <1>3, <1>4
<1> QED
  BY <1>1, <1>3, <1>4, <1>5, QuietWeights DEF Choice

LEMMA StaleUniform == RouterInv => StalePoolIsUniform
<1> SUFFICES ASSUME RouterInv, servers # <<>>, \A s \in Pool \cap Known : age[s] = TTL,
                    NEW s \in Pool
             PROVE  Share(s, Quiet) = Len(servers)
  BY DEF StalePoolIsUniform
<1> DEFINE n == Len(servers)
<1>1. PICK k \in Positions : servers[k] = s
  BY PoolPositions
<1>2. \A x \in Pool : BaseWeight(x) = Unit \div n
  BY TTLAssumption DEF BaseWeight
<1>3. \A d \in Draws : Choice(d, Quiet) = servers[d[1]]
  <2> TAKE d \in Draws
  <2>1. First(d) \in Pool /\ Second(d) \in Pool
    BY QuietChoice, PoolPositions
  <2>2. BaseWeight(First(d)) = BaseWeight(Second(d)) /\ BaseWeight(First(d)) \in Nat
    BY <1>2, <2>1, BaseWeights
  <2>3. BaseWeight(First(d)) >= BaseWeight(Second(d))
    BY <2>2
  <2> QED
    BY <2>3, QuietChoice
<1>4. {d \in Draws : Choice(d, Quiet) = s} = {k} \X Positions
  <2>1. \A d \in Draws : servers[d[1]] = s <=> d[1] = k
    BY <1>1, PoolPositions DEF Draws
  <2>2. {d \in Draws : Choice(d, Quiet) = s} = {d \in Draws : d[1] = k}
    BY <1>3, <2>1
  <2>3. {d \in Draws : d[1] = k} = {k} \X Positions
    BY <1>1 DEF Draws
  <2> QED
    BY <2>2, <2>3
<1>5. IsFiniteSet({k}) /\ Cardinality({k}) = 1
  BY FS_Singleton
<1>6. IsFiniteSet(Positions) /\ Cardinality(Positions) = n
  <2>1. n \in Nat
    BY PoolPositions
  <2>2. IsFiniteSet(1 .. n) /\ Cardinality(1 .. n) = n
    BY <2>1, FS_Interval
  <2> QED
    BY <2>2 DEF Positions
<1>7. Cardinality({k} \X Positions) = 1 * n
  BY <1>5, <1>6, FS_Product
<1>8. Share(s, Quiet) = 1 * n
  BY <1>4, <1>7, Zenon DEF Share
<1>9. n \in Nat
  BY PoolPositions
<1> QED
  BY <1>8, <1>9

\* Every draw that the lighter server b wins, at position j of the list, is turned
\* into one that the heavier server a wins, at position i, and no two into the same.
LEMMA HeavierMore == RouterInv => HeavierGetsMore
<1> SUFFICES ASSUME RouterInv, NEW a \in Pool, NEW b \in Pool, BaseWeight(a) > BaseWeight(b)
             PROVE  Share(a, Quiet) >= Share(b, Quiet)
  BY DEF HeavierGetsMore
<1>1. PICK i \in Positions : servers[i] = a
  BY PoolPositions
<1>2. PICK j \in Positions : servers[j] = b
  BY PoolPositions
<1> DEFINE W(k) == BaseWeight(servers[k])
           Won(s) == {d \in Draws : Choice(d, Quiet) = s}
           f == [d \in Won(b) |-> IF d[1] = j THEN <<i, d[2]>>
                                  ELSE IF d[2] = d[1] THEN <<j, i>>
                                  ELSE <<d[1], i>>]
<1>3. \A k \in Positions : W(k) \in Nat
  BY PoolPositions, BaseWeights
<1>4. W(i) > W(j) /\ i # j
  BY <1>1, <1>2, <1>3
<1>5. \A k, l \in Positions : servers[k] = servers[l] => k = l
  BY PoolPositions
<1>6. ASSUME NEW d \in Draws
      PROVE  /\ d[1] \in Positions /\ d[2] \in Positions /\ SecondPosition(d) \in Positions
             /\ Choice(d, Quiet) = IF W(d[1]) >= W(SecondPosition(d)) THEN servers[d[1]]
                                   ELSE servers[SecondPosition(d)]
  BY QuietChoice
<1> HIDE DEF W
<1>7. ASSUME NEW x \in Positions, NEW y \in Positions
      PROVE  /\ <<x, y>> \in Draws
             /\ x # y => SecondPosition(<<x, y>>) = y
  BY DEF Draws, SecondPosition
<1>8. ASSUME NEW x \in Positions, x # i, W(x) < W(i)
      PROVE  <<i, x>> \in Won(a) /\ <<x, i>> \in Won(a)
  <2>1. /\ <<i, x>> \in Draws /\ SecondPosition(<<i, x>>) = x
        /\ <<x, i>> \in Draws /\ SecondPosition(<<x, i>>) = i
    BY <1>7, <1>8
  <2>2. W(i) >= W(x) /\ ~(W(x) >= W(i))
    BY <1>3, <1>8
  <2>3. Choice(<<i, x>>, Quiet) = servers[i] /\ Choice(<<x, i>>, Quiet) = servers[i]
    BY <1>6, <2>1, <2>2
  <2> QED
    BY <1>1, <2>1, <2>3
<1>9. ASSUME NEW d \in Won(b)
      PROVE  \/ /\ d[1] = j /\ d[2] # i
             \/ /\ d[1] # j /\ d[1] # i /\ d[2] # d[1] /\ d[2] = j
                /\ W(d[1]) < W(i)
             \/ /\ d[1] # j /\ d[2] = d[1] /\ (d[1] % Len(servers)) + 1 = j
  <2>1. /\ d \in Draws /\ Choice(d, Quiet) = servers[j]
        /\ d[1] \in Positions /\ d[2] \in Positions /\ SecondPosition(d) \in Positions
    BY <1>2, <1>6
  <2>2. CASE d[1] = j
    <3>1. ASSUME d[2] = i PROVE FALSE
      <4>1. SecondPosition(d) = i
        BY <1>4, <2>2, <3>1 DEF SecondPosition
      <4>2. Choice(d, Quiet) = servers[i]
        <5>1. ~(W(d[1]) >= W(SecondPosition(d)))
          BY <1>3, <1>4, <2>2, <4>1
        <5> QED
          BY <1>6, <2>1, <4>1, <5>1
      <4> QED
        BY <1>4, <1>5, <2>1, <4>2
    <3> QED
      BY <2>2, <3>1
  <2>3. CASE d[1] # j
    <3>1. ~(W(d[1]) >= W(SecondPosition(d))) /\ SecondPosition(d) = j
      BY <1>5, <1>6, <2>1, <2>3
    <3>2. W(d[1]) < W(j) /\ W(d[1]) < W(i) /\ d[1] # i
      BY <1>3, <1>4, <2>1, <3>1
    <3> QED
      BY <2>3, <3>1, <3>2 DEF SecondPosition
  <2> QED
    BY <2>2, <2>3
<1>10. f \in [Won(b) -> Won(a)]
  <2> SUFFICES ASSUME NEW d \in Won(b) PROVE f[d] \in Won(a)
    OBVIOUS
  <2>1. d[1] \in Positions /\ d[2] \in Positions
    BY <1>6
  <2>2. W(j) < W(i) /\ j # i /\ W(j) \in Nat /\ W(i) \in Nat
    BY <1>3, <1>4
  <2>3. CASE d[1] = j /\ d[2] # i
    <3>1. <<i, d[2]>> \in Won(a)
      <4>1. CASE d[2] = j
        BY <1>8, <2>2, <4>1
      <4>2. CASE d[2] # j
        <5>1. SecondPosition(d) = d[2]
          BY <2>3, <4>2 DEF SecondPosition
        <5>2. W(j) >= W(d[2])
          <6>1. Choice(d, Quiet) = servers[j] /\ d \in Draws
            BY <1>2
          <6>2. ASSUME ~(W(j) >= W(d[2])) PROVE FALSE
            <7>1. Choice(d, Quiet) = servers[d[2]]
              BY <1>6, <2>3, <5>1, <6>1, <6>2
            <7> QED
              BY <1>5, <2>1, <4>2, <6>1, <7>1
          <6> QED
            BY <6>2
        <5>3. W(d[2]) < W(i)
          BY <1>3, <2>1, <2>2, <5>2
        <5> QED
          BY <1>8, <2>1, <2>3, <5>3
      <4> QED
        BY <4>1, <4>2
    <3>2. f[d] = <<i, d[2]>>
      BY <2>3
    <3> QED
      BY <3>1, <3>2
  <2>4. CASE d[1] # j /\ d[1] # i /\ d[2] # d[1] /\ d[2] = j /\ W(d[1]) < W(i)
    <3>1. <<d[1], i>> \in Won(a)
      BY <1>8, <2>1, <2>4
    <3>2. f[d] = <<d[1], i>>
      BY <2>4
    <3> QED
      BY <3>1, <3>2
  <2>5. CASE d[1] # j /\ d[2] = d[1]
    <3>1. <<j, i>> \in Won(a)
      BY <1>8, <2>2
    <3>2. f[d] = <<j, i>>
      BY <2>5
    <3> QED
      BY <3>1, <3>2
  <2> HIDE DEF f, Won
  <2> QED
    BY <1>9, <2>3, <2>4, <2>5
<1>11. ASSUME NEW d \in Won(b), NEW e \in Won(b), f[d] = f[e] PROVE d = e
  <2> DEFINE n == Len(servers)
  <2>1. /\ d = <<d[1], d[2]>> /\ d[1] \in 1 .. n /\ d[2] \in 1 .. n
        /\ e = <<e[1], e[2]>> /\ e[1] \in 1 .. n /\ e[2] \in 1 .. n
        /\ n \in Nat /\ i # j
    BY <1>4, PoolPositions DEF Draws, Positions
  <2>2. /\ f[d] = IF d[1] = j THEN <<i, d[2]>> ELSE IF d[2] = d[1] THEN <<j, i>> ELSE <<d[1], i>>
        /\ f[e] = IF e[1] = j THEN <<i, e[2]>> ELSE IF e[2] = e[1] THEN <<j, i>> ELSE <<e[1], i>>
    OBVIOUS
  <2>3. /\ \/ d[1] = j /\ d[2] # i
           \/ d[1] # j /\ d[1] # i /\ d[2] # d[1] /\ d[2] = j
           \/ d[1] # j /\ d[2] = d[1] /\ (d[1] % n) + 1 = j
        /\ \/ e[1] = j /\ e[2] # i
           \/ e[1] # j /\ e[1] # i /\ e[2] # e[1] /\ e[2] = j
           \/ e[1] # j /\ e[2] = e[1] /\ (e[1] % n) + 1 = j
    <3> HIDE DEF f, Won
    <3> QED
      BY <1>9
  <2> HIDE DEF f, Won, n
  <2>4. \A x, y \in 1 .. n : (x % n) + 1 = (y % n) + 1 => x = y
    <3> SUFFICES ASSUME NEW x \in 1 .. n, NEW y \in 1 .. n, (x % n) + 1 = (y % n) + 1
                 PROVE  x = y
      OBVIOUS
    <3>1. \A z \in 1 .. n : z % n = IF z = n THEN 0 ELSE z
      BY <2>1
    <3> QED
      BY <2>1, <3>1
  <2> DEFINE d1 == d[1]  d2 == d[2]  e1 == e[1]  e2 == e[2]
  <2>5. /\ \A x, y, u, v : <<x, y>> = <<u, v>> => x = u /\ y = v
        /\ d1 \in 1 .. n /\ d2 \in 1 .. n /\ e1 \in 1 .. n /\ e2 \in 1 .. n
    BY <2>1
  <2>6. (IF d1 = j THEN <<i, d2>> ELSE IF d2 = d1 THEN <<j, i>> ELSE <<d1, i>>)
          = IF e1 = j THEN <<i, e2>> ELSE IF e2 = e1 THEN <<j, i>> ELSE <<e1, i>>
    BY <1>11, <2>2
  <2>7. /\ \/ d1 = j /\ d2 # i
           \/ d1 # j /\ d1 # i /\ d2 # d1 /\ d2 = j
           \/ d1 # j /\ d2 = d1 /\ (d1 % n) + 1 = j
        /\ \/ e1 = j /\ e2 # i
           \/ e1 # j /\ e1 # i /\ e2 # e1 /\ e2 = j
           \/ e1 # j /\ e2 = e1 /\ (e1 % n) + 1 = j
    BY <2>3
  <2>8. d = <<d1, d2>> /\ e = <<e1, e2>>
    BY <2>1
  <2> HIDE DEF d1, d2, e1, e2
  <2>9. d1 = e1 /\ d2 = e2
    <3>1. CASE d1 = j /\ d2 # i
      BY <2>1, <2>5, <2>6, <2>7, <3>1
    <3>2. CASE d1 # j /\ d1 # i /\ d2 # d1 /\ d2 = j
      BY <2>1, <2>5, <2>6, <2>7, <3>2
    <3>3. CASE d1 # j /\ d2 = d1 /\ (d1 % n) + 1 = j
      <4>1. e1 # j /\ e2 = e1 /\ (e1 % n) + 1 = j
        BY <2>1, <2>5, <2>6, <2>7, <3>3
      <4> QED
        BY <2>4, <2>5, <3>3, <4>1
    <3> QED
      BY <2>7, <3>1, <3>2, <3>3
  <2> QED
    BY <2>8, <2>9
<1>12. f \in Injection(Won(b), Won(a))
  BY <1>10, <1>11 DEF Injection, IsInjective
<1>13. IsFiniteSet(Won(a)) /\ IsFiniteSet(Won(b))
  <2>1. IsFiniteSet(Positions)
    BY PoolPositions, FS_Interval DEF Positions
  <2>2. IsFiniteSet(Draws)
    BY <2>1, FS_Product DEF Draws
  <2> QED
    BY <2>2, FS_Subset
<1> HIDE DEF f, Won
<1>14. Cardinality(Won(b)) <= Cardinality(Won(a))
  BY <1>12, <1>13, FS_Injection
<1>15. Cardinality(Won(a)) \in Nat /\ Cardinality(Won(b)) \in Nat
  BY <1>13, FS_CardinalityType
<1>16. Cardinality(Won(a)) >= Cardinality(Won(b))
  BY <1>14, <1>15
<1> QED
  BY <1>16 DEF Share, Won

\* When no score is fresh, every backend wins the same number of draws, however
\* many backends there are and whatever the collision rule does (choose_server()).
THEOREM StaleScoresGiveUniformShares == RouterSpec => []StalePoolIsUniform
<1>1. RouterInit => RouterInv
  BY RouterInitial
<1>2. RouterInv /\ [RouterNext]_routerVars => RouterInv'
  BY RouterStep
<1>3. RouterInv => StalePoolIsUniform
  BY StaleUniform
<1> QED
  BY <1>1, <1>2, <1>3, PTL DEF RouterSpec

\* A backend that weighs more than another wins at least as many draws, wherever
\* the two stand in the list, although a collision of the random indices passes a
\* draw on to the neighbour (choose_server()).
THEOREM HeavierServersGetMore == RouterSpec => []HeavierGetsMore
<1>1. RouterInit => RouterInv
  BY RouterInitial
<1>2. RouterInv /\ [RouterNext]_routerVars => RouterInv'
  BY RouterStep
<1>3. RouterInv => HeavierGetsMore
  BY HeavierMore
<1> QED
  BY <1>1, <1>2, <1>3, PTL DEF RouterSpec

-----------------------------------------------------------------------------
(* The pool of lb-proxy, which makes no other calls of the library: its     *)
(* backends are the servers it registered, scored all at once.              *)

PoolInv ==
    calls = 0 => /\ Known = Registered /\ Pool = Registered
                 /\ \A s, t \in Registered : age[s] = age[t]

LEMMA PoolInitial == RouterInit => PoolInv
<1> SUFFICES ASSUME RouterInit PROVE PoolInv
  OBVIOUS
<1> DEFINE n == Cardinality(Registered)  q == SetToSeq(Registered)
<1>1. Known = Registered /\ servers = q /\ \A s, t \in Registered : age[s] = age[t]
  BY DEF RouterInit, Init, Known
<1>2. IsFiniteSet(Registered)
  BY ServersAssumption, FS_Subset
<1>3. n \in Nat /\ ExistsBijection(1 .. n, Registered)
  BY <1>2, FS_CardinalityType
<1>4. \E f \in [1 .. n -> Registered] : IsInjective(f)
  BY <1>3 DEF ExistsBijection, Bijection, Injection
<1>5. q \in [1 .. n -> Registered] /\ IsInjective(q)
  BY <1>4 DEF SetToSeq
<1>6. q \in Injection(1 .. n, Registered)
  BY <1>5 DEF Injection
<1>7. IsFiniteSet(1 .. n) /\ Cardinality(1 .. n) = n
  BY <1>3, FS_Interval
<1> HIDE DEF q, n
<1>8. q \in Surjection(1 .. n, Registered)
  BY <1>2, <1>6, <1>7, FS_Injection DEF n
<1>9. ToSet(q) = Registered
  BY <1>5, <1>8 DEF Surjection, ToSet
<1> QED
  BY <1>1, <1>9 DEF PoolInv, Pool

LEMMA PoolStep ==
    ASSUME RouterInv, PoolInv, [RouterNext]_routerVars
    PROVE  PoolInv'
<1>1. CASE calls' # 0
  BY <1>1 DEF PoolInv
<1>2. CASE calls' = 0
  <2>1. calls \in Nat
    BY CallsAssumption DEF RouterInv
  <2>2. ~LibraryCall
    BY <1>2, <2>1 DEF LibraryCall
  <2>3. CASE \/ UNCHANGED routerVars
             \/ \E draw \in Draws, over \in Signals : Route(draw, over)
             \/ \E s \in Registered : RecordBackendHealth(s)
    BY <2>3 DEF Route, RecordBackendHealth, PoolInv, Known, Pool, routerVars
  <2>4. CASE SyncScoreboard
    <3>1. PICK preds \in SyncPredictions : Update(preds) /\ calls = 0 /\ servers' = servers
      BY <1>2, <2>4 DEF SyncScoreboard, Update
    <3>2. Predictions(preds) /\ DOMAIN preds = Registered
      BY PredictionsMade DEF SyncPredictions
    <3>3. Known = Registered /\ Pool' = Registered
      BY <3>1 DEF PoolInv, Pool
    <3>4. age' = [s \in Registered |-> 0]
      BY <3>1, <3>2, <3>3 DEF Update, Stamped
    <3>5. Registered \subseteq Known' /\ age' \in [Known' -> 0 .. TTL]
      BY <3>1, <3>2, UpdateKeeps
    <3>6. Known' = Registered
      BY <3>4, <3>5
    <3> QED
      BY <3>3, <3>4, <3>6 DEF PoolInv
  <2>5. CASE Tick
    BY <2>5 DEF Tick, PoolInv, Known, Pool
  <2> QED
    BY <2>2, <2>3, <2>4, <2>5 DEF RouterNext, UpdateSingleServer, AddServer, RemoveServer
<1> QED
  BY <1>1, <1>2

\* All of them in one domain, as lb-proxy registers them.
RegisteredTogether == \A s, t \in Registered : Domain[s] = Domain[t]

\* While lb-proxy's loop is the only one to use the scoreboard, a backend that was
\* never measured weighs at least as much as every other.
NewcomersLead ==
    calls = 0 => \A s \in Registered \ measured, t \in Registered : weight[s] >= weight[t]

LEMMA LeadInitial == RouterInit => NewcomersLead
<1> DEFINE n == Cardinality(Registered)
<1>1. n \in Nat /\ n > 0
  <2>1. IsFiniteSet(Registered) /\ Registered # {}
    BY ServersAssumption, FS_Subset
  <2> QED
    BY <2>1, FS_CardinalityType, FS_EmptySet
<1>2. Unit \div n \in Int
  BY <1>1, Parameters
<1> HIDE DEF n
<1> QED
  BY <1>2 DEF RouterInit, Init, NewcomersLead, n

LEMMA LeadStep ==
    ASSUME RegisteredTogether, RouterInv, PoolInv, NewcomersLead, [RouterNext]_routerVars
    PROVE  NewcomersLead'
<1>1. CASE calls' # 0
  BY <1>1 DEF NewcomersLead
<1>2. CASE calls' = 0
  <2>1. calls \in Nat
    BY CallsAssumption DEF RouterInv
  <2>2. ~LibraryCall
    BY <1>2, <2>1 DEF LibraryCall
  <2>3. CASE UNCHANGED <<weight, calls>> /\ measured \subseteq measured'
    BY <2>3 DEF NewcomersLead
  <2>4. CASE SyncScoreboard
    <3>1. PICK preds \in SyncPredictions : Update(preds) /\ calls = 0 /\ measured' = measured
      BY <1>2, <2>4 DEF SyncScoreboard, Update
    <3>2. /\ Predictions(preds) /\ DOMAIN preds = Registered
          /\ \A s \in Registered \ measured : preds[s] = Unit
      BY PredictionsMade DEF SyncPredictions
    <3>3. Known = Registered
      BY <3>1 DEF PoolInv
    <3>4. \A a, b \in Registered :
             /\ weight[b] <= weight[a] /\ preds[b] <= preds[a]
             => weight'[b] <= weight'[a]
      <4>1. \A a, b \in Known \cap DOMAIN preds :
               /\ DomainOf(a) = DomainOf(b)
               /\ weight[b] <= weight[a] /\ preds[b] <= preds[a]
               => weight'[b] <= weight'[a]
        BY <3>1, <3>2, UpdateKeeps
      <4>2. \A a, b \in Registered : DomainOf(a) = DomainOf(b)
        BY DEF DomainOf, RegisteredTogether
      <4> QED
        BY <3>2, <3>3, <4>1, <4>2
    <3>5. ASSUME NEW s \in Registered \ measured, NEW t \in Registered
          PROVE  weight'[t] <= weight'[s]
      <4>1. preds[t] \in RawWeights /\ preds[s] = Unit
        BY <3>2 DEF Predictions
      <4>2. preds[t] \in 1 .. Unit
        BY <4>1, RawAssumption
      <4>3. preds[t] <= preds[s]
        BY <4>1, <4>2, Parameters
      <4>4. weight[s] >= weight[t]
        BY <3>1 DEF NewcomersLead
      <4>5. \A x, y : x >= y <=> y <= x
        OBVIOUS
      <4> QED
        BY <3>4, <4>3, <4>4, <4>5
    <3>6. \A x, y : x >= y <=> y <= x
      OBVIOUS
    <3> QED
      BY <3>1, <3>5, <3>6 DEF NewcomersLead
  <2> QED
    BY <2>2, <2>3, <2>4
       DEF RouterNext, Route, RecordBackendHealth, Tick, UpdateSingleServer, AddServer, RemoveServer, routerVars
<1> QED
  BY <1>1, <1>2

\* A backend that was never measured leads the pool, whatever the loop made of the
\* measurements of the others: sync_scoreboard() predicts it neutrally and no
\* stage of update_scores() takes the lead from it (proxy.rs, scoreboard.rs).
THEOREM NewcomersLeadThePool ==
    ASSUME RegisteredTogether
    PROVE  RouterSpec => []NewcomersLead
<1>1. RouterInit => RouterInv /\ PoolInv /\ NewcomersLead
  BY RouterInitial, PoolInitial, LeadInitial
<1>2. RouterInv /\ PoolInv /\ NewcomersLead /\ [RouterNext]_routerVars
        => RouterInv' /\ PoolInv' /\ NewcomersLead'
  BY RouterStep, PoolStep, LeadStep
<1> QED
  BY <1>1, <1>2, PTL DEF RouterSpec

\* Of two candidates, the one that weighs no less and has no more signals over
\* their thresholds keeps at least the weight of the other.
LEMMA PenaltyKeepsOrder ==
    ASSUME NEW x \in Nat, NEW y \in Nat, x >= y,
           NEW i \in 0 .. MaxSignals, NEW j \in 0 .. MaxSignals, i <= j
    PROVE  x * 10^(MaxSignals - i) >= y * 10^(MaxSignals - j)
<1> DEFINE power(k) == 10^k  p == power(MaxSignals - i)  q == power(MaxSignals - j)
<1>1. power(0) = 1 /\ power(1) = 10 /\ power(2) = 100 /\ power(3) = 1000
  OBVIOUS
<1>2. /\ MaxSignals - i \in 0 .. 3 /\ MaxSignals - j \in 0 .. 3
      /\ MaxSignals - i >= MaxSignals - j
  BY SignalsAssumption
<1> HIDE DEF power
<1>3. p \in {1, 10, 100, 1000} /\ q \in {1, 10, 100, 1000} /\ p >= q
  <2> DEFINE k == MaxSignals - i  l == MaxSignals - j
  <2>1. k \in 0 .. 3 /\ l \in 0 .. 3 /\ k >= l /\ p = power(k) /\ q = power(l)
    BY <1>2
  <2> HIDE DEF k, l, p, q
  <2>2. /\ k = 0 \/ k = 1 \/ k = 2 \/ k = 3
        /\ l = 0 \/ l = 1 \/ l = 2 \/ l = 3
    BY <2>1
  <2> QED
    BY <1>1, <2>1, <2>2
<1> HIDE DEF p, q
<1>4. x * p >= y * q
  <2>1. x * p \in Nat /\ y * p \in Nat /\ y * q \in Nat /\ x * p >= y * p
    BY <1>3
  <2>2. y * p >= y * q
    BY <1>3
  <2> QED
    BY <2>1, <2>2
<1> QED
  BY <1>4 DEF p, q, power

\* A backend without measurements wins every draw that has it first while it has
\* no more signals over their thresholds than the other candidate: it weighs no
\* less, and its score is as fresh as those of the others.
LEMMA LeaderWins ==
    ASSUME RouterInv, PoolInv, NewcomersLead, calls = 0, NEW s \in Registered \ measured,
           NEW draw \in Draws, NEW over \in Signals, First(draw) = s,
           over[s] <= over[Second(draw)]
    PROVE  Choice(draw, over) = s
<1> DEFINE t == Second(draw)
<1>1. /\ Known = Registered /\ Pool = Registered
      /\ \A u, v \in Registered : age[u] = age[v]
      /\ \A u \in Registered \ measured, v \in Registered : weight[u] >= weight[v]
  BY DEF PoolInv, NewcomersLead
<1>2. t \in Registered
  BY <1>1, QuietChoice, PoolPositions
<1>3. BaseWeight(s) >= BaseWeight(t)
  <2>1. age[s] = age[t] /\ weight[s] >= weight[t] /\ BaseWeight(t) \in Nat
    BY <1>1, <1>2, BaseWeights
  <2>2. \A x \in Nat : x >= x
    OBVIOUS
  <2> QED
    BY <1>1, <1>2, <2>1, <2>2 DEF BaseWeight
<1>4. BaseWeight(s) \in Nat /\ BaseWeight(t) \in Nat
  BY <1>1, <1>2, BaseWeights
<1>5. over[s] \in 0 .. MaxSignals /\ over[t] \in 0 .. MaxSignals
  BY <1>1, <1>2 DEF Signals
<1> HIDE DEF t
<1>6. EffectiveWeight(s, over) >= EffectiveWeight(t, over)
  BY <1>3, <1>4, <1>5, PenaltyKeepsOrder DEF EffectiveWeight, t
<1> QED
  BY <1>6 DEF Choice, t

\* The first draw that has a registered backend first sends it a request, if it never
\* got one: what NewcomerIsTried needs, apart from the fairness of the draws.  Such
\* a backend has no measurements and no signals either, so that it wins the draw
\* against any other one (choose_server(), router.rs).
THEOREM NewcomersAreTried ==
    ASSUME RegisteredTogether
    PROVE  RouterSpec => [][\A s \in Registered : RouteFirst(s) => s \in tried']_routerVars
<1> DEFINE Tried == \A s \in Registered : RouteFirst(s) => s \in tried'
<1>1. RouterInit => RouterInv /\ PoolInv
  BY RouterInitial, PoolInitial
<1>2. RouterInv /\ PoolInv /\ [RouterNext]_routerVars => RouterInv' /\ PoolInv'
  BY RouterStep, PoolStep
<1>3. RouterInv /\ PoolInv /\ NewcomersLead /\ [RouterNext]_routerVars => [Tried]_routerVars
  <2> SUFFICES ASSUME RouterInv, PoolInv, NewcomersLead, NEW s \in Registered, RouteFirst(s)
               PROVE  s \in tried'
    OBVIOUS
  <2>1. PICK draw \in Draws, over \in Signals : First(draw) = s /\ Route(draw, over) /\ calls = 0
    BY DEF RouteFirst
  <2>2. CASE s \in tried
    BY <2>1, <2>2 DEF Route
  <2>3. CASE s \notin tried
    <3>1. s \notin measured /\ Pool = Registered
      BY <2>1, <2>3 DEF RouterInv, PoolInv
    <3>2. over[s] = 0
      BY <2>1, <2>3, <3>1 DEF Route, Plausible
    <3>3. over[Second(draw)] \in Nat
      BY SignalsAssumption, QuietChoice, PoolPositions DEF Signals
    <3>4. over[s] <= over[Second(draw)]
      BY <3>2, <3>3
    <3>5. Choice(draw, over) = s
      BY <2>1, <3>1, <3>4, LeaderWins
    <3> QED
      BY <2>1, <3>5 DEF Route
  <2> QED
    BY <2>2, <2>3
<1> HIDE DEF Tried
<1>4. RouterSpec => [][Tried]_routerVars
  BY <1>1, <1>2, <1>3, NewcomersLeadThePool, PTL DEF RouterSpec
<1> QED
  BY <1>4 DEF Tried

-----------------------------------------------------------------------------
(* The lightest backend.                                                    *)

\* In a pool of several, the backend that weighs less than every other wins no
\* draw at all.
LightestGetsNothing ==
    Len(servers) > 1 =>
        \A s \in Pool : (\A t \in Pool \ {s} : BaseWeight(t) > BaseWeight(s)) => Share(s, Quiet) = 0

LEMMA LightestLoses == RouterInv => LightestGetsNothing
<1> SUFFICES ASSUME RouterInv, Len(servers) > 1, NEW s \in Pool,
                    \A t \in Pool \ {s} : BaseWeight(t) > BaseWeight(s)
             PROVE  Share(s, Quiet) = 0
  BY DEF LightestGetsNothing
<1>1. ASSUME NEW d \in Draws PROVE Choice(d, Quiet) # s
  <2>1. /\ d[1] \in Positions /\ d[2] \in Positions /\ SecondPosition(d) \in Positions
        /\ First(d) = servers[d[1]] /\ Second(d) = servers[SecondPosition(d)]
        /\ Choice(d, Quiet) = IF BaseWeight(First(d)) >= BaseWeight(Second(d))
                              THEN First(d) ELSE Second(d)
    BY QuietChoice
  <2>2. SecondPosition(d) # d[1]
    <3> DEFINE n == Len(servers)  i == d[1]
    <3>1. n \in Nat /\ n > 1 /\ i \in 1 .. n
      BY <2>1, PoolPositions DEF Positions
    <3> HIDE DEF n, i
    <3>2. (i % n) + 1 # i
      <4>1. CASE i = n
        BY <3>1, <4>1
      <4>2. CASE i < n
        BY <3>1, <4>2
      <4> QED
        BY <3>1, <4>1, <4>2
    <3> QED
      BY <3>2 DEF SecondPosition, n, i
  <2>3. First(d) \in Pool /\ Second(d) \in Pool /\ First(d) # Second(d)
    BY <2>1, <2>2, PoolPositions
  <2>4. BaseWeight(First(d)) \in Nat /\ BaseWeight(Second(d)) \in Nat
    BY <2>3, BaseWeights
  <2>5. CASE First(d) = s
    <3>1. BaseWeight(Second(d)) > BaseWeight(First(d))
      BY <2>3, <2>5
    <3> QED
      BY <2>1, <2>3, <2>4, <2>5, <3>1
  <2>6. CASE Second(d) = s
    <3>1. BaseWeight(First(d)) > BaseWeight(Second(d))
      BY <2>3, <2>6
    <3> QED
      BY <2>1, <2>3, <2>4, <2>6, <3>1
  <2> QED
    BY <2>1, <2>5, <2>6
<1>2. {d \in Draws : Choice(d, Quiet) = s} = {}
  BY <1>1
<1> QED
  BY <1>2, FS_EmptySet DEF Share

\* Two distinct candidates and a choice of the heavier: no minimum weight keeps
\* the lightest backend of a pool in traffic, although types.rs says of min_weight
\* that it lets "a trickle of health-probe traffic" through.
THEOREM LightestIsNotProbed == RouterSpec => []LightestGetsNothing
<1>1. RouterInit => RouterInv
  BY RouterInitial
<1>2. RouterInv /\ [RouterNext]_routerVars => RouterInv'
  BY RouterStep
<1>3. RouterInv => LightestGetsNothing
  BY LightestLoses
<1> QED
  BY <1>1, <1>2, <1>3, PTL DEF RouterSpec

-----------------------------------------------------------------------------
(* A pool of two backends.                                                  *)

LEMMA SumOfTwo ==
    ASSUME NEW s, NEW t, s # t, NEW w \in [{s, t} -> Nat]
    PROVE  SumFunction(w) = w[s] + w[t]
<1> DEFINE one == [z \in {s} |-> w[s]]
           two == [z \in {s} \cup {t} |-> IF z \in {s} THEN one[z] ELSE w[t]]
<1>1. IsFiniteSet({s})
  BY FS_Singleton
<1>2. w[s] \in Nat /\ w[t] \in Nat
  OBVIOUS
<1>3. Pick({s}) = s /\ Rest({s}) = {}
  BY DEF Pick, Rest
<1>4. SumFunction(one) = w[s]
  <2>1. one \in [{s} -> Int] /\ one[s] = w[s]
    BY <1>2
  <2> HIDE DEF one
  <2>2. PICK g \in [SUBSET {s} -> Int] : (\A T \in SUBSET {s} : Adds(g, one, T)) /\ SumFunction(one) = g[{s}]
    BY <1>1, <2>1, SumIsChain
  <2>3. g[{s}] = one[s] + g[{}] /\ g[{}] = 0
    BY <1>3, <2>2 DEF Adds
  <2> QED
    BY <1>2, <2>1, <2>2, <2>3
<1>5. one \in [{s} -> Nat] /\ one[s] = w[s] /\ t \notin {s}
  BY <1>2
<1> HIDE DEF one
<1>6. SumFunction(two) = SumFunction(one) + w[t]
  BY <1>1, <1>2, <1>5, SumWith
<1>7. two = w
  BY <1>5
<1> QED
  BY <1>4, <1>6, <1>7

\* One server's part of its domain's cap, up to the rounding of two quotients.
LEMMA CappedShare ==
    ASSUME NEW D, IsFiniteSet(D), NEW w \in Amounts(D), \A s, t \in D : DomainOf(s) = DomainOf(t),
           NEW s \in D
    PROVE  /\ CapDomains(w)[s] * Unit <= DomainCap * w[s]
           /\ DomainCap * w[s] <= CapDomains(w)[s] * Unit + 2 * Unit
<1> DEFINE T == Total(w)  cap == (DomainCap * T) \div Unit  x == w[s]  c == CapDomains(w)[s]
<1>1. T \in Nat /\ x \in Nat /\ x <= T
  BY SumOfWeights DEF Total, Amounts
<1>2. DomainTotal(w, DomainOf(s)) = T
  <2>1. {t \in D : DomainOf(t) = DomainOf(s)} = D /\ DOMAIN w = D /\ Restrict(w, D) = w
    BY DEF Restrict, Amounts
  <2> HIDE DEF T
  <2> QED
    BY <2>1 DEF DomainTotal, T
<1>3. c = IF T * Unit > DomainCap * T THEN (cap * x) \div T ELSE x
  BY <1>2 DEF CapDomains, Amounts
<1>4. DomainCap <= Unit
  BY ConfigAssumption, UnitAssumption
<1> HIDE DEF T, cap, x, c
<1>5. DomainCap * T \in Nat /\ T * Unit \in Nat /\ DomainCap * x \in Nat
  BY <1>1, Parameters
<1>6. CASE T * Unit > DomainCap * T
  <2>1. T > 0
    BY <1>1, <1>5, <1>6, Parameters
  <2>2. cap \in Nat /\ cap * Unit <= DomainCap * T /\ DomainCap * T < cap * Unit + Unit
    <3> DEFINE p == DomainCap * T
    <3>1. p \in Nat
      BY <1>5
    <3> HIDE DEF p
    <3>2. p \div Unit \in Nat /\ (p \div Unit) * Unit <= p /\ p < (p \div Unit) * Unit + Unit
      BY <3>1, Parameters
    <3> QED
      BY <3>2 DEF p, cap
  <2>3. c \in Nat /\ c * T <= cap * x /\ cap * x < c * T + T
    <3> DEFINE p == cap * x
    <3>1. p \in Nat /\ c = p \div T
      BY <1>1, <1>3, <1>6, <2>2
    <3> HIDE DEF p
    <3>2. p \div T \in Nat /\ (p \div T) * T <= p /\ p < (p \div T) * T + T
      BY <1>1, <2>1, <3>1
    <3> QED
      BY <3>1, <3>2 DEF p
  <2> DEFINE cu == c * Unit  dx == DomainCap * x
  <2>4. cu \in Nat /\ dx \in Nat /\ cap * Unit \in Nat
    BY <1>5, <2>2, <2>3, Parameters
  <2>5. cu * T <= dx * T
    <3>1. (c * T) * Unit <= (cap * x) * Unit
      <4> DEFINE p == c * T  q == cap * x
      <4>1. p \in Nat /\ q \in Nat /\ p <= q
        BY <1>1, <2>2, <2>3
      <4> HIDE DEF p, q
      <4>2. p * Unit <= q * Unit
        BY <4>1, Parameters
      <4> QED
        BY <4>2 DEF p, q
    <3>2. (cap * Unit) * x <= (DomainCap * T) * x
      <4> DEFINE p == cap * Unit  q == DomainCap * T
      <4>1. p \in Nat /\ q \in Nat /\ p <= q
        BY <1>5, <2>2, <2>4
      <4> HIDE DEF p, q
      <4>2. p * x <= q * x
        BY <1>1, <4>1
      <4> QED
        BY <4>2 DEF p, q
    <3>3. /\ cu * T = (c * T) * Unit /\ (cap * x) * Unit = (cap * Unit) * x
          /\ dx * T = (DomainCap * T) * x
      BY <1>1, <2>2, <2>3, Parameters
    <3>4. (c * T) * Unit \in Int /\ (cap * x) * Unit \in Int /\ (DomainCap * T) * x \in Int
      BY <1>1, <2>2, <2>3, Parameters
    <3> QED
      BY <3>1, <3>2, <3>3, <3>4
  <2>6. dx * T <= (cu + 2 * Unit) * T
    <3>1. (DomainCap * T) * x <= (cap * Unit + Unit) * x
      <4> DEFINE p == cap * Unit  q == DomainCap * T
      <4>1. p \in Nat /\ q \in Nat /\ q <= p + Unit
        BY <1>5, <2>2, <2>4, Parameters
      <4> HIDE DEF p, q
      <4>2. q * x <= (p + Unit) * x
        BY <1>1, <4>1, Parameters
      <4> QED
        BY <4>2 DEF p, q
    <3>2. (cap * x) * Unit <= (c * T + T) * Unit
      <4> DEFINE p == c * T  q == cap * x
      <4>1. p \in Nat /\ q \in Nat /\ q <= p + T
        BY <1>1, <2>2, <2>3
      <4> HIDE DEF p, q
      <4>2. q * Unit <= (p + T) * Unit
        BY <1>1, <4>1, Parameters
      <4> QED
        BY <4>2 DEF p, q
    <3>3. Unit * x <= Unit * T
      BY <1>1, Parameters, ProductMonotone
    <3>4. /\ (cap * Unit + Unit) * x = (cap * x) * Unit + Unit * x
          /\ (c * T + T) * Unit = (c * Unit) * T + Unit * T
          /\ dx * T = (DomainCap * T) * x
          /\ (cu + 2 * Unit) * T = (c * Unit) * T + Unit * T + Unit * T
      BY <1>1, <2>2, <2>3, Parameters
    <3>5. /\ (cap * x) * Unit \in Int /\ Unit * x \in Int /\ (c * Unit) * T \in Int /\ Unit * T \in Int
          /\ (DomainCap * T) * x \in Int
      BY <1>1, <2>2, <2>3, Parameters
    <3> QED
      BY <3>1, <3>2, <3>3, <3>4, <3>5
  <2> HIDE DEF cu, dx
  <2>7. cu <= dx
    BY <1>1, <2>1, <2>4, <2>5
  <2>8. dx <= cu + 2 * Unit
    <3> DEFINE z == cu + 2 * Unit
    <3>1. z \in Nat /\ dx * T <= z * T
      BY <2>4, <2>6, Parameters
    <3> HIDE DEF z
    <3>2. dx <= z
      BY <1>1, <2>1, <2>4, <3>1
    <3> QED
      BY <3>2 DEF z
  <2> QED
    BY <2>7, <2>8 DEF cu, dx, c, x
<1>7. CASE ~(T * Unit > DomainCap * T)
  <2>1. c = x /\ T * Unit <= DomainCap * T
    BY <1>3, <1>5, <1>7
  <2>2. x = 0 \/ DomainCap = Unit
    <3> SUFFICES ASSUME x # 0, DomainCap # Unit PROVE FALSE
      OBVIOUS
    <3>1. T > 0 /\ DomainCap < Unit
      BY <1>1, <1>4, Parameters
    <3>2. DomainCap * T < T * Unit
      BY <1>1, <3>1, Parameters
    <3> QED
      BY <1>5, <2>1, <3>2
  <2>3. c * Unit = DomainCap * x
    BY <1>1, <2>1, <2>2, Parameters
  <2>4. DomainCap * x <= DomainCap * x + 2 * Unit
    BY <1>5, Parameters
  <2> QED
    BY <1>5, <2>3, <2>4 DEF c, x
<1> QED
  BY <1>6, <1>7

\* L is a weight so large that the configuration never lets one of two backends
\* fall below it, if no raw weight is less than low: the hardest push, towards low at
\* L and towards Unit at the other, leaves their ratio where it was; and two weights
\* that are both at least L differ by less than a factor of ten.
Margin(L, low) ==
    /\ L \in 1 .. Unit /\ 2 * L <= Unit /\ Unit - L < 10 * L
    /\ low \in 1 .. Unit /\ \A raw \in RawWeights : low <= raw
    /\ L * (DomainCap * SmoothAndCap(Unit - L, Unit))
         <= (Unit - L) * (DomainCap * SmoothAndCap(L, low) - 2 * Unit)

LEMMA BalancedAmounts ==
    ASSUME NEW L, NEW low, Margin(L, low),
           NEW ra \in Nat, NEW rb \in Nat, SmoothAndCap(L, low) <= ra, rb <= SmoothAndCap(Unit - L, Unit),
           NEW ca \in Nat, NEW cb \in Nat,
           DomainCap * ra <= ca * Unit + 2 * Unit, cb * Unit <= DomainCap * rb
    PROVE  L * cb <= (Unit - L) * ca
<1> DEFINE m == Unit - L  rho == SmoothAndCap(L, low)  sigma == SmoothAndCap(m, Unit)
<1>1. L \in Nat /\ m \in Nat /\ L * (DomainCap * sigma) <= m * (DomainCap * rho - 2 * Unit)
  BY Parameters DEF Margin
<1>2. rho \in Nat /\ sigma \in Nat
  <2>1. /\ L \in 0 .. Unit /\ low \in 0 .. Unit /\ m \in 0 .. Unit /\ Unit \in 0 .. Unit
        /\ L <= L /\ low <= low /\ m <= m /\ Unit <= Unit
    BY Parameters DEF Margin
  <2> HIDE DEF m
  <2> QED
    BY <2>1, SmoothMonotone
<1>3. rho <= ra /\ rb <= sigma
  OBVIOUS
<1> HIDE DEF m, rho, sigma
<1> DEFINE dr == DomainCap * rho  da == DomainCap * ra  ds == DomainCap * sigma  db == DomainCap * rb
           ua == ca * Unit  ub == cb * Unit
<1>4. /\ dr \in Nat /\ da \in Nat /\ ds \in Nat /\ db \in Nat /\ ua \in Nat /\ ub \in Nat
      /\ dr <= da /\ db <= ds
  BY <1>2, <1>3, Parameters, ProductMonotone
<1>5. da <= ua + 2 * Unit /\ ub <= db /\ L * ds <= m * (dr - 2 * Unit)
  BY <1>1
<1>6. L * ub <= L * ds
  <2> HIDE DEF ub, ds, db
  <2>1. ub <= ds
    BY <1>4, <1>5
  <2> QED
    BY <1>1, <1>4, <2>1, ProductMonotone
<1>7. m * (dr - 2 * Unit) <= m * ua
  <2> DEFINE z == dr - 2 * Unit
  <2>1. z \in Int /\ z <= ua
    <3> HIDE DEF dr, da, ua
    <3> QED
      BY <1>4, <1>5, Parameters
  <2> HIDE DEF z, ua
  <2>2. m * z <= m * ua
    BY <1>1, <1>4, <2>1
  <2> QED
    BY <2>2 DEF z
<1>8. L * ub <= m * ua
  <2> DEFINE p == L * ub  q == L * ds  s == m * (dr - 2 * Unit)  t == m * ua
  <2>1. p \in Int /\ q \in Int /\ s \in Int /\ t \in Int
    <3> HIDE DEF ub, ds, dr, ua
    <3> QED
      BY <1>1, <1>4, Parameters
  <2>2. p <= q /\ q <= s /\ s <= t
    BY <1>5, <1>6, <1>7
  <2> HIDE DEF p, q, s, t
  <2>3. p <= t
    BY <2>1, <2>2
  <2> QED
    BY <2>3 DEF p, t
<1>9. L * ub = (L * cb) * Unit /\ m * ua = (m * ca) * Unit
  BY <1>1, Parameters
<1> DEFINE p == L * cb  q == m * ca
<1>10. p \in Nat /\ q \in Nat /\ p * Unit <= q * Unit
  BY <1>1, <1>8, <1>9
<1> HIDE DEF p, q
<1>11. p <= q
  BY <1>10, Parameters
<1> QED
  BY <1>11 DEF p, q, m

LEMMA BalancedUpdate ==
    ASSUME NEW a, NEW b, a # b, DomainOf(a) = DomainOf(b),
           NEW w \in Weights({a, b}), Total(w) <= Unit, NEW preds \in [{a, b} -> RawWeights],
           NEW L, NEW low, Margin(L, low), L <= w[a]
    PROVE  L <= Normalize(RaiseToFloor(CapDomains(Rescored(w, preds))))[a]
<1> DEFINE D == {a, b}  r == Rescored(w, preds)  c == CapDomains(r)  f == RaiseToFloor(c)
           m == Unit - L  new == Normalize(f)
<1>1. IsFiniteSet(D) /\ a \in D /\ b \in D /\ \A s, t \in D : DomainOf(s) = DomainOf(t)
  <2>1. IsFiniteSet({a}) /\ {a} \cup {b} = D
    BY FS_Singleton
  <2> QED
    BY <2>1, FS_AddElement
<1>2. /\ L \in Nat /\ L > 0 /\ L <= Unit /\ m \in Nat /\ L <= m /\ m \in 0 .. Unit
      /\ L \in 0 .. Unit /\ low \in 0 .. Unit /\ Unit \in 0 .. Unit
  BY Parameters DEF Margin
<1>3. w[a] \in 0 .. Unit /\ w[b] \in 0 .. Unit /\ w[b] <= m
  <2>1. w \in [D -> Nat] /\ w[a] \in 0 .. Unit /\ w[b] \in 0 .. Unit
    BY Parameters DEF Weights
  <2>2. Total(w) = w[a] + w[b]
    BY <2>1, SumOfTwo DEF Total
  <2> QED
    BY <1>2, <2>1, <2>2, Parameters
<1>4. /\ preds[a] \in 0 .. Unit /\ preds[b] \in 0 .. Unit /\ low <= preds[a] /\ preds[b] <= Unit
  <2>1. preds[a] \in RawWeights /\ preds[b] \in RawWeights
    OBVIOUS
  <2>2. preds[a] \in 1 .. Unit /\ preds[b] \in 1 .. Unit
    BY <2>1, RawAssumption
  <2> QED
    BY <2>1, <2>2, Parameters DEF Margin
<1>5. r \in Amounts(D)
  <2> D \cup D = D
    OBVIOUS
  <2> HIDE DEF D
  <2>1. w \in Weights(D) /\ preds \in [D -> RawWeights]
    BY DEF D
  <2>2. Rescored(w, preds) \in Amounts(D \cup D)
    BY <2>1, RescoredAmounts
  <2> QED
    BY <2>2
<1>6. r[a] = SmoothAndCap(w[a], preds[a]) /\ r[b] = SmoothAndCap(w[b], preds[b])
  BY DEF Rescored, Weights
<1> HIDE DEF r, m
<1>7. SmoothAndCap(L, low) <= r[a] /\ r[b] <= SmoothAndCap(m, Unit)
  BY <1>2, <1>3, <1>4, <1>6, SmoothMonotone
<1> HIDE DEF D
<1>8. c \in Amounts(D) /\ r[a] \in Nat /\ r[b] \in Nat
  BY <1>1, <1>5, CappedAmounts DEF Amounts
<1>9. /\ DomainCap * r[a] <= c[a] * Unit + 2 * Unit /\ c[b] * Unit <= DomainCap * r[b]
  BY <1>1, <1>5, CappedShare
<1> HIDE DEF c
<1>10. c[a] \in Nat /\ c[b] \in Nat
  BY <1>1, <1>8 DEF Amounts
<1>11. L * c[b] <= m * c[a]
  <2>1. r[b] <= SmoothAndCap(Unit - L, Unit)
    BY <1>7 DEF m
  <2> QED
    BY <1>7, <1>8, <1>9, <1>10, <2>1, BalancedAmounts DEF m
<1>12. /\ f[a] = IF c[a] >= MinWeight THEN c[a] ELSE MinWeight
       /\ f[b] = IF c[b] >= MinWeight THEN c[b] ELSE MinWeight
  BY <1>1, <1>8, <1>10, Parameters, MaxOfTwo DEF RaiseToFloor, Amounts
<1>13. f \in Amounts(D) /\ f[a] >= 1 /\ f[a] \in Nat /\ f[b] \in Nat
  BY <1>1, <1>8, FlooredAmounts DEF Amounts
<1> DEFINE x == f[a]  y == f[b]
<1>14. L * y <= m * x
  <2>1. CASE y <= x
    <3>1. x \in Nat /\ y \in Nat
      BY <1>13
    <3> HIDE DEF x, y
    <3>2. L * y <= L * x /\ L * x <= m * x /\ L * y \in Int /\ L * x \in Int /\ m * x \in Int
      BY <1>2, <2>1, <3>1
    <3> QED
      BY <3>2
  <2>2. CASE x < y
    <3>1. y = c[b] /\ c[a] <= x /\ x \in Nat
      BY <1>10, <1>12, <1>13, <2>2, Parameters
    <3> HIDE DEF x, y
    <3>2. m * c[a] <= m * x
      BY <1>2, <1>10, <3>1, ProductMonotone
    <3>3. L * c[b] \in Int /\ m * c[a] \in Int /\ m * x \in Int
      BY <1>2, <1>10, <3>1
    <3> QED
      BY <1>11, <3>1, <3>2, <3>3
  <2> QED
    BY <1>13, <2>1, <2>2
<1>15. Total(f) = x + y
  BY <1>13, SumOfTwo DEF Total, Amounts, D
<1>16. new[a] = (x * Unit) \div (x + y)
  BY <1>1, <1>13, <1>15 DEF Normalize, Amounts
<1>17. x \in Nat /\ y \in Nat /\ x >= 1
  BY <1>13
<1> HIDE DEF x, y, new
<1>18. L * (x + y) <= x * Unit
  <2>1. L * (x + y) = L * x + L * y /\ x * Unit = L * x + m * x
    BY <1>2, <1>17, Parameters DEF m
  <2>2. L * x \in Int /\ L * y \in Int /\ m * x \in Int
    BY <1>2, <1>17
  <2> QED
    BY <1>14, <2>1, <2>2
<1>19. L <= new[a]
  <2> DEFINE t == x + y  p == x * Unit
  <2>1. t \in Nat /\ t > 0 /\ p \in Nat /\ L * t <= p /\ new[a] = p \div t
    BY <1>16, <1>17, <1>18, Parameters
  <2> HIDE DEF t, p
  <2>2. (L * t) \div t = L /\ L * t \in Int
    BY <1>2, <2>1
  <2>3. (L * t) \div t <= p \div t
    BY <2>1, <2>2, QuotientMonotone
  <2> QED
    BY <2>1, <2>2, <2>3
<1> QED
  BY <1>19 DEF new, f, c, r

\* As long as lb-proxy's loop is the only one to update the weights, neither of two
\* backends falls below L.
Balanced(L) == calls = 0 => \A s, t \in Registered : s # t => L <= weight[s]

LEMMA BothRegistered ==
    ASSUME Cardinality(Registered) <= 2, NEW s \in Registered, NEW t \in Registered, s # t
    PROVE  Registered = {s, t} /\ Cardinality(Registered) = 2
<1>1. IsFiniteSet(Registered)
  BY ServersAssumption, FS_Subset
<1>2. IsFiniteSet({s, t}) /\ Cardinality({s, t}) = 2
  <2>1. IsFiniteSet({s}) /\ Cardinality({s}) = 1 /\ {s} \cup {t} = {s, t} /\ t \notin {s}
    BY FS_Singleton
  <2>2. IsFiniteSet({s} \cup {t}) /\ Cardinality({s} \cup {t}) = 1 + 1
    BY <2>1, FS_AddElement
  <2> QED
    BY <2>1, <2>2
<1>3. /\ Cardinality({s, t}) <= Cardinality(Registered)
      /\ Cardinality(Registered) = Cardinality({s, t}) => Registered = {s, t}
  BY <1>1, FS_Subset
<1>4. Cardinality(Registered) \in Nat
  BY <1>1, FS_CardinalityType
<1> QED
  BY <1>2, <1>3, <1>4

LEMMA BalancedInitial ==
    ASSUME Cardinality(Registered) <= 2, NEW L, NEW low, Margin(L, low), RouterInit
    PROVE  Balanced(L)
<1> SUFFICES ASSUME NEW s \in Registered, NEW t \in Registered, s # t
             PROVE  L <= weight[s]
  BY DEF Balanced
<1>1. weight[s] = Unit \div 2
  BY BothRegistered DEF RouterInit, Init
<1>2. L \in Nat /\ 2 * L <= Unit
  BY Parameters DEF Margin
<1> QED
  BY <1>1, <1>2, Parameters

LEMMA BalancedStep ==
    ASSUME RegisteredTogether, Cardinality(Registered) <= 2, NEW L, NEW low, Margin(L, low),
           RouterInv, PoolInv, Balanced(L), [RouterNext]_routerVars
    PROVE  Balanced(L)'
<1>1. CASE calls' # 0
  BY <1>1 DEF Balanced
<1>2. CASE calls' = 0
  <2>1. calls \in Nat
    BY CallsAssumption DEF RouterInv
  <2>2. ~LibraryCall
    BY <1>2, <2>1 DEF LibraryCall
  <2>3. CASE UNCHANGED <<weight, calls>>
    BY <2>3 DEF Balanced
  <2>4. CASE SyncScoreboard
    <3>1. PICK preds \in SyncPredictions : Update(preds) /\ calls = 0
      BY <1>2, <2>4 DEF SyncScoreboard
    <3>2. weight \in Weights(Registered) /\ Total(weight) <= Unit
      <4>1. Known = Registered /\ weight \in Weights(Known)
        BY <3>1 DEF PoolInv, RouterInv
      <4>2. Total(weight) \in Unit - Cardinality(Known) + 1 .. Unit
        BY DEF RouterInv, SumsToOne
      <4>3. Cardinality(Known) \in Nat
        BY <4>1, ServersAssumption, FS_Subset, FS_CardinalityType
      <4> QED
        BY <4>1, <4>2, <4>3, Parameters
    <3>3. ASSUME NEW s \in Registered, NEW t \in Registered, s # t PROVE L <= weight'[s]
      <4>1. Registered = {s, t} /\ DomainOf(s) = DomainOf(t)
        BY <3>3, BothRegistered DEF DomainOf, RegisteredTogether
      <4>2. preds \in [{s, t} -> RawWeights] /\ weight \in Weights({s, t})
        BY <3>2, <4>1 DEF SyncPredictions
      <4>3. L <= weight[s]
        BY <3>1, <3>3 DEF Balanced
      <4>4. L <= Normalize(RaiseToFloor(CapDomains(Rescored(weight, preds))))[s]
        BY <3>2, <3>3, <4>1, <4>2, <4>3, BalancedUpdate
      <4> QED
        BY <3>1, <4>4 DEF Update, UpdateScores
    <3> QED
      BY <3>3 DEF Balanced
  <2> QED
    BY <2>2, <2>3, <2>4
       DEF RouterNext, Route, RecordBackendHealth, Tick, UpdateSingleServer, AddServer, RemoveServer, routerVars
<1> QED
  BY <1>1, <1>2

\* A signal more outweighs less than a factor of ten.
LEMMA PenaltyDecides ==
    ASSUME NEW x \in Nat, NEW y \in Nat, x < 10 * y,
           NEW i \in 0 .. MaxSignals, NEW j \in 0 .. MaxSignals, j < i
    PROVE  /\ x * 10^(MaxSignals - i) \in Nat /\ y * 10^(MaxSignals - j) \in Nat
           /\ x * 10^(MaxSignals - i) < y * 10^(MaxSignals - j)
<1> DEFINE power(k) == 10^k  p == power(MaxSignals - i)  q == power(MaxSignals - j)
<1>1. power(0) = 1 /\ power(1) = 10 /\ power(2) = 100 /\ power(3) = 1000
  OBVIOUS
<1>2. /\ MaxSignals - i \in 0 .. 3 /\ MaxSignals - j \in 0 .. 3
      /\ MaxSignals - i < MaxSignals - j
  BY SignalsAssumption
<1> HIDE DEF power
<1>3. /\ p \in {1, 10, 100} /\ q \in {10, 100, 1000} /\ q >= 10 * p
  <2> DEFINE k == MaxSignals - i  l == MaxSignals - j
  <2>1. k \in 0 .. 3 /\ l \in 0 .. 3 /\ k < l /\ p = power(k) /\ q = power(l)
    BY <1>2
  <2> HIDE DEF k, l, p, q
  <2>2. /\ k = 0 \/ k = 1 \/ k = 2
        /\ l = 1 \/ l = 2 \/ l = 3
    BY <2>1
  <2> QED
    BY <1>1, <2>1, <2>2
<1> HIDE DEF p, q
<1>4. x * p \in Nat /\ y * q \in Nat /\ x * p < y * q
  <2>1. p \in Nat /\ q \in Nat /\ p >= 1
    BY <1>3
  <2>2. x * p < (10 * y) * p
    BY <1>3
  <2>3. (10 * y) * p <= y * q
    BY <1>3
  <2> QED
    BY <2>1, <2>2, <2>3
<1> QED
  BY <1>4 DEF p, q, power

LEMMA BalancedDecides ==
    ASSUME Cardinality(Registered) <= 2, NEW L, NEW low, Margin(L, low),
           RouterInv, PoolInv, Balanced(L)
    PROVE  OverrideDecides
<1> SUFFICES ASSUME calls = 0, NEW draw \in Draws, NEW over \in Signals,
                    NEW s \in {First(draw), Second(draw)}
             PROVE  over[Choice(draw, over)] <= over[s]
  BY DEF OverrideDecides
<1> DEFINE a == First(draw)  b == Second(draw)
<1>1. a \in Pool /\ b \in Pool
  BY QuietChoice, PoolPositions
<1>2. over[a] \in 0 .. MaxSignals /\ over[b] \in 0 .. MaxSignals
  BY <1>1 DEF Signals
<1>3. Choice(draw, over) = IF EffectiveWeight(a, over) >= EffectiveWeight(b, over) THEN a ELSE b
  BY DEF Choice
<1>4. CASE a = b
  BY <1>2, <1>3, <1>4
<1>5. CASE a # b
  <2>1. /\ Known = Registered /\ Pool = Registered
        /\ \A u, v \in Registered : age[u] = age[v]
    BY DEF PoolInv
  <2>2. Registered = {a, b}
    BY <1>1, <1>5, <2>1, BothRegistered
  <2>3. L \in Nat /\ L > 0 /\ L <= weight[a] /\ L <= weight[b] /\ Unit - L < 10 * L /\ 2 * L <= Unit
    <3>1. L <= weight[a] /\ L <= weight[b]
      BY <1>1, <1>5, <2>1 DEF Balanced
    <3> QED
      BY <3>1, Parameters DEF Margin
  <2>4. weight[a] \in Nat /\ weight[b] \in Nat /\ weight[a] + weight[b] <= Unit
    <3>1. weight \in Weights({a, b}) /\ Total(weight) \in Unit - Cardinality(Known) + 1 .. Unit
      BY <2>1, <2>2 DEF RouterInv, SumsToOne
    <3>2. weight \in [{a, b} -> Nat]
      BY <3>1, Parameters DEF Weights
    <3>3. Total(weight) = weight[a] + weight[b]
      BY <1>5, <3>2, SumOfTwo DEF Total
    <3>4. Cardinality(Known) \in Nat
      BY <2>1, ServersAssumption, FS_Subset, FS_CardinalityType
    <3> QED
      BY <3>1, <3>2, <3>3, <3>4, Parameters
  <2>5. Unit \div Len(servers) \in Nat /\ Unit \div Len(servers) > 0
    <3> DEFINE n == Len(servers)
    <3>1. /\ n \in Nat /\ n > 0 /\ \A k \in 1 .. n : servers[k] = a \/ servers[k] = b
          /\ \A i, k \in 1 .. n : servers[i] = servers[k] => i = k
      BY <1>1, <2>1, <2>2, PoolPositions DEF Positions
    <3> HIDE DEF n
    <3>2. n <= 2
      <4> SUFFICES ASSUME n > 2 PROVE FALSE
        BY <3>1
      <4>1. 1 \in 1 .. n /\ 2 \in 1 .. n /\ 3 \in 1 .. n
        BY <3>1
      <4>2. servers[1] # servers[2] /\ servers[1] # servers[3] /\ servers[2] # servers[3]
        BY <3>1, <4>1
      <4> QED
        BY <3>1, <4>1, <4>2
    <3>3. n = 1 \/ n = 2
      BY <3>1, <3>2
    <3>4. Unit >= 2
      BY <2>3, Parameters
    <3>5. Unit \div n \in Nat /\ Unit \div n > 0
      BY <3>3, <3>4, Parameters
    <3> QED
      BY <3>5 DEF n
  <2> DEFINE x == BaseWeight(a)  y == BaseWeight(b)
  <2>6. x \in Nat /\ y \in Nat /\ x < 10 * y /\ y < 10 * x
    <3>1. CASE age[a] < TTL
      <4>1. x = weight[a] /\ y = weight[b]
        BY <1>1, <2>1, <3>1 DEF BaseWeight
      <4> QED
        BY <2>3, <2>4, <4>1, Parameters
    <3>2. CASE ~(age[a] < TTL)
      <4>1. x = Unit \div Len(servers) /\ y = Unit \div Len(servers)
        <5>1. age[b] = age[a]
          BY <1>1, <2>1
        <5> QED
          BY <3>2, <5>1 DEF BaseWeight
      <4> QED
        BY <2>5, <4>1
    <3> QED
      BY <3>1, <3>2
  <2>7. /\ EffectiveWeight(a, over) = x * 10^(MaxSignals - over[a])
        /\ EffectiveWeight(b, over) = y * 10^(MaxSignals - over[b])
    BY DEF EffectiveWeight
  <2> HIDE DEF x, y
  <2>8. CASE over[b] < over[a]
    <3> DEFINE ea == EffectiveWeight(a, over)  eb == EffectiveWeight(b, over)
    <3>1. ea \in Nat /\ eb \in Nat /\ ea < eb
      BY <1>2, <2>6, <2>7, <2>8, PenaltyDecides
    <3> HIDE DEF ea, eb
    <3>2. ~(ea >= eb)
      BY <3>1
    <3>3. Choice(draw, over) = b
      BY <1>3, <3>2 DEF ea, eb
    <3> QED
      BY <1>2, <2>8, <3>3
  <2>9. CASE over[a] < over[b]
    <3> DEFINE ea == EffectiveWeight(a, over)  eb == EffectiveWeight(b, over)
    <3>1. ea \in Nat /\ eb \in Nat /\ eb < ea
      BY <1>2, <2>6, <2>7, <2>9, PenaltyDecides
    <3> HIDE DEF ea, eb
    <3>2. ea >= eb
      BY <3>1
    <3>3. Choice(draw, over) = a
      BY <1>3, <3>2 DEF ea, eb
    <3> QED
      BY <1>2, <2>9, <3>3
  <2>10. CASE over[a] = over[b]
    <3>1. Choice(draw, over) \in {a, b}
      BY <1>3
    <3> QED
      BY <1>2, <2>10, <3>1
  <2> QED
    BY <1>2, <2>8, <2>9, <2>10
<1> QED
  BY <1>4, <1>5

\* With two backends in one domain, and a Margin, the fast signals decide: no sequence
\* of lb-proxy's updates makes the weights differ by a factor of ten, so a request
\* never goes to the one that has more signals over their thresholds
\* (choose_server(), router.rs; update_scores(), scoreboard.rs).
THEOREM OverrideDecidesForTwo ==
    ASSUME RegisteredTogether, Cardinality(Registered) <= 2, NEW L, NEW low, Margin(L, low)
    PROVE  RouterSpec => []OverrideDecides
<1>1. RouterInit => RouterInv /\ PoolInv /\ Balanced(L)
  BY RouterInitial, PoolInitial, BalancedInitial
<1>2. RouterInv /\ PoolInv /\ Balanced(L) /\ [RouterNext]_routerVars
        => RouterInv' /\ PoolInv' /\ Balanced(L)'
  BY RouterStep, PoolStep, BalancedStep
<1>3. RouterInv /\ PoolInv /\ Balanced(L) => OverrideDecides
  BY BalancedDecides
<1> QED
  BY <1>1, <1>2, <1>3, PTL DEF RouterSpec

-----------------------------------------------------------------------------
(* Pools of any size.  In exact arithmetic no update makes two weights      *)
(* differ by more than their predictions can; with rounded quotients each   *)
(* stage may add a unit or two.                                             *)

\* The ratio of two quotients.
LEMMA RoundedRatio ==
    ASSUME NEW x \in Nat, NEW y \in Nat, NEW d \in Nat, d > 0,
           NEW p \in Nat, NEW q \in Nat, p > 0, y * q <= x * p
    PROVE  /\ x \div d \in Nat /\ y \div d \in Nat
           /\ (y \div d) * q <= (x \div d + 1) * p
<1> DEFINE u == x \div d  v == y \div d
<1>1. u \in Nat /\ v \in Nat /\ v * d <= y /\ x <= (u + 1) * d
  OBVIOUS
<1> HIDE DEF u, v
<1>2. (v * d) * q <= y * q
  <2> DEFINE z == v * d
  <2>1. z \in Nat /\ z <= y
    BY <1>1
  <2> HIDE DEF z
  <2>2. z * q <= y * q
    BY <2>1
  <2> QED
    BY <2>2 DEF z
<1>3. x * p <= ((u + 1) * d) * p
  <2> DEFINE z == (u + 1) * d
  <2>1. z \in Nat /\ x <= z
    BY <1>1
  <2> HIDE DEF z
  <2>2. x * p <= z * p
    BY <2>1
  <2> QED
    BY <2>2 DEF z
<1> DEFINE a == v * q  b == (u + 1) * p
<1>4. a \in Nat /\ b \in Nat /\ a * d = (v * d) * q /\ b * d = ((u + 1) * d) * p
  BY <1>1
<1>5. a * d <= b * d
  <2> DEFINE k == a * d  l == y * q  m == x * p  n == b * d
  <2>1. k \in Nat /\ l \in Nat /\ m \in Nat /\ n \in Nat /\ k <= l /\ l <= m /\ m <= n
    BY <1>1, <1>2, <1>3, <1>4
  <2> HIDE DEF k, l, m, n
  <2>2. k <= n
    BY <2>1
  <2> QED
    BY <2>2 DEF k, n
<1> HIDE DEF a, b
<1>6. a <= b
  BY <1>4, <1>5
<1> QED
  BY <1>1, <1>6 DEF u, v, a, b

LEMMA ProductGrows ==
    ASSUME NEW x \in Int, NEW y \in Int, x <= y, NEW d \in Nat
    PROVE  x * d \in Int /\ y * d \in Int /\ x * d <= y * d
OBVIOUS

\* q times the one is at most p times the other, but for e units.
Within(y, x, e, p, q) == y * q <= (x + e) * p

LEMMA ClampWithin ==
    ASSUME NEW x \in Int, NEW lo \in Int, NEW hi \in Int, lo <= hi,
           NEW y \in Int, NEW low \in Int, NEW high \in Int, low <= high,
           NEW p \in Nat, NEW q \in Nat,
           Within(y, x, 1, p, q), Within(low, lo, 1, p, q), Within(high, hi, 1, p, q)
    PROVE  Within(Clamp(y, low, high), Clamp(x, lo, hi), 1, p, q)
<1> DEFINE ax == (x + 1) * p  al == (lo + 1) * p  ah == (hi + 1) * p
           by == y * q  bl == low * q  bh == high * q
<1>1. /\ ax \in Int /\ al \in Int /\ ah \in Int /\ by \in Int /\ bl \in Int /\ bh \in Int
      /\ by <= ax /\ bl <= al /\ bh <= ah
  BY DEF Within
<1>2. /\ x <= hi => ax <= ah
      /\ hi <= x => ah <= ax
      /\ x <= lo => ax <= al
      /\ lo <= x => al <= ax
      /\ al <= ah
  BY ProductGrows
<1>3. /\ y <= high => by <= bh
      /\ high <= y => bh <= by
      /\ y <= low => by <= bl
      /\ low <= y => bl <= by
      /\ bl <= bh
  BY ProductGrows
<1>4. Clamp(x, lo, hi) = IF x < lo THEN lo ELSE IF x > hi THEN hi ELSE x
  BY DEF Clamp
<1>5. Clamp(y, low, high) = IF y < low THEN low ELSE IF y > high THEN high ELSE y
  BY DEF Clamp
<1>6. (Clamp(x, lo, hi) + 1) * p = IF x < lo THEN al ELSE IF x > hi THEN ah ELSE ax
  BY <1>4
<1>7. Clamp(y, low, high) * q = IF y < low THEN bl ELSE IF y > high THEN bh ELSE by
  BY <1>5
<1> HIDE DEF ax, al, ah, by, bl, bh
<1>8. (IF y < low THEN bl ELSE IF y > high THEN bh ELSE by)
        <= (IF x < lo THEN al ELSE IF x > hi THEN ah ELSE ax)
  BY <1>1, <1>2, <1>3
<1> QED
  BY <1>6, <1>7, <1>8 DEF Within

\* Smoothing and shift cap: the ratio stays below the larger of the one of the old
\* weights and the one of the raw weights.
LEMMA SmoothWithin ==
    ASSUME NEW old \in 0 .. Unit, NEW raw \in 0 .. Unit, NEW old2 \in 0 .. Unit, NEW raw2 \in 0 .. Unit,
           MinWeight <= old, MinWeight <= old2,
           NEW p \in Nat, NEW q \in Nat, q > 0, q <= p,
           old2 * q <= old * p, raw2 * q <= raw * p
    PROVE  /\ SmoothAndCap(old, raw) \in Nat /\ SmoothAndCap(old2, raw2) \in Nat
           /\ Within(SmoothAndCap(old2, raw2), SmoothAndCap(old, raw), 1, p, q)
           /\ (Unit - MaxShift) * old <= SmoothAndCap(old, raw) * Unit
<1> DEFINE keep == Unit - Alpha
           x == Alpha * raw + keep * old    x2 == Alpha * raw2 + keep * old2
           d == (MaxShift * old) \div Unit  d2 == (MaxShift * old2) \div Unit
           s == x \div Unit  s2 == x2 \div Unit
<1>1. /\ old \in Nat /\ raw \in Nat /\ old2 \in Nat /\ raw2 \in Nat /\ p > 0
      /\ keep \in Nat /\ Unit - MaxShift \in Nat
  BY Parameters
<1>2. /\ SmoothAndCap(old, raw) = Clamp(s, old - d, old + d)
      /\ SmoothAndCap(old2, raw2) = Clamp(s2, old2 - d2, old2 + d2)
  <2>1. Max({old, MinWeight}) = old /\ Max({old2, MinWeight}) = old2
    BY <1>1, Parameters, MaxOfTwo
  <2> QED
    BY <2>1 DEF SmoothAndCap
<1>3. /\ SmoothAndCap(old, raw) \in Nat /\ SmoothAndCap(old2, raw2) \in Nat
  <2>1. old <= old /\ raw <= raw /\ old2 <= old2 /\ raw2 <= raw2
    BY <1>1
  <2> QED
    BY <2>1, SmoothMonotone
<1> HIDE DEF keep
<1>4. x \in Nat /\ x2 \in Nat /\ x2 * q <= x * p
  <2> DEFINE k == Alpha * (raw2 * q)  l == Alpha * (raw * p)
             m == keep * (old2 * q)  n == keep * (old * p)
  <2>1. k \in Nat /\ l \in Nat /\ k <= l
    <3>1. raw2 * q \in Nat /\ raw * p \in Nat
      BY <1>1
    <3> QED
      BY <3>1, Parameters, ProductMonotone
  <2>2. m \in Nat /\ n \in Nat /\ m <= n
    <3>1. old2 * q \in Nat /\ old * p \in Nat
      BY <1>1
    <3> QED
      BY <1>1, <3>1, ProductMonotone
  <2>3. x2 * q = k + m /\ x * p = l + n /\ x \in Nat /\ x2 \in Nat
    BY <1>1, Parameters
  <2> HIDE DEF k, l, m, n
  <2> QED
    BY <2>1, <2>2, <2>3
<1> HIDE DEF x, x2
<1>5. s \in Nat /\ s2 \in Nat /\ Within(s2, s, 1, p, q)
  BY <1>1, <1>4, Parameters, RoundedRatio DEF Within
<1> DEFINE y == MaxShift * old  y2 == MaxShift * old2
<1>6. y \in Nat /\ y2 \in Nat /\ y2 * q <= y * p
  <2>1. old2 * q \in Nat /\ old * p \in Nat
    BY <1>1
  <2>2. MaxShift * (old2 * q) <= MaxShift * (old * p)
    BY <2>1, Parameters, ProductMonotone
  <2>3. y2 * q = MaxShift * (old2 * q) /\ y * p = MaxShift * (old * p)
    BY <1>1, Parameters
  <2> QED
    BY <1>1, <2>2, <2>3, Parameters
<1>7. /\ d \in Nat /\ d2 \in Nat /\ d2 * q <= (d + 1) * p
  <2> HIDE DEF y, y2
  <2>1. /\ y \div Unit \in Nat /\ y2 \div Unit \in Nat
        /\ (y2 \div Unit) * q <= (y \div Unit + 1) * p
    BY <1>1, <1>6, Parameters, RoundedRatio
  <2> QED
    BY <2>1 DEF y, y2
<1>8. d * Unit <= y /\ y2 < d2 * Unit + Unit
  <2> HIDE DEF y, y2
  <2>1. (y \div Unit) * Unit <= y /\ y2 < (y2 \div Unit) * Unit + Unit
    BY <1>6, Parameters
  <2> QED
    BY <2>1 DEF y, y2
<1> HIDE DEF s, s2, d, d2
<1>9. Within(old2 + d2, old + d, 1, p, q)
  <2>1. (old2 + d2) * q = old2 * q + d2 * q /\ ((old + d) + 1) * p = old * p + (d + 1) * p
    BY <1>1, <1>7
  <2>2. old2 * q \in Int /\ d2 * q \in Int /\ old * p \in Int /\ (d + 1) * p \in Int
    BY <1>1, <1>7
  <2> QED
    BY <1>7, <2>1, <2>2 DEF Within
<1> DEFINE rest == Unit - MaxShift  lo == old - d  lo2 == old2 - d2
<1>10. rest * old <= lo * Unit
  <2>1. lo * Unit = old * Unit - d * Unit /\ rest * old = old * Unit - y
    BY <1>1, <1>7, Parameters
  <2>2. old * Unit \in Int /\ d * Unit \in Int /\ y \in Int
    BY <1>1, <1>6, <1>7, Parameters
  <2> QED
    BY <1>8, <2>1, <2>2
<1>11. lo2 * Unit <= rest * old2 + Unit
  <2>1. lo2 * Unit = old2 * Unit - d2 * Unit /\ rest * old2 = old2 * Unit - y2
    BY <1>1, <1>7, Parameters
  <2>2. old2 * Unit \in Int /\ d2 * Unit \in Int /\ y2 \in Int
    BY <1>1, <1>6, <1>7, Parameters
  <2> HIDE DEF lo2, rest, y2
  <2> QED
    BY <1>8, <2>1, <2>2, Parameters
<1>12. rest \in Nat /\ lo \in Int /\ lo2 \in Int
  BY <1>1, <1>7
<1> HIDE DEF rest, lo, lo2, y, y2
<1>13. Within(lo2, lo, 1, p, q)
  <2> DEFINE a == lo2 * q  b == (lo + 1) * p
  <2>1. (lo2 * Unit) * q <= (rest * old2 + Unit) * q
    <3> DEFINE k == lo2 * Unit  l == rest * old2 + Unit
    <3>1. k \in Int /\ l \in Int /\ k <= l
      BY <1>1, <1>11, <1>12, Parameters
    <3> HIDE DEF k, l
    <3>2. k * q <= l * q
      BY <3>1, ProductGrows
    <3> QED
      BY <3>2 DEF k, l
  <2>2. rest * (old2 * q) <= rest * (old * p)
    <3>1. old2 * q \in Nat /\ old * p \in Nat
      BY <1>1
    <3> QED
      BY <1>12, <3>1, ProductMonotone
  <2>3. (rest * old) * p <= (lo * Unit) * p
    <3> DEFINE k == rest * old  l == lo * Unit
    <3>1. k \in Int /\ l \in Int /\ k <= l
      BY <1>1, <1>10, <1>12, Parameters
    <3> HIDE DEF k, l
    <3>2. k * p <= l * p
      BY <3>1, ProductGrows
    <3> QED
      BY <3>2 DEF k, l
  <2>4. Unit * q <= Unit * p
    BY Parameters, ProductMonotone
  <2>5. /\ a * Unit = (lo2 * Unit) * q
        /\ (rest * old2 + Unit) * q = rest * (old2 * q) + Unit * q
        /\ rest * (old * p) = (rest * old) * p
        /\ b * Unit = (lo * Unit) * p + Unit * p
    BY <1>1, <1>12, Parameters
  <2>6. /\ rest * (old2 * q) \in Int /\ (rest * old) * p \in Int /\ (lo * Unit) * p \in Int
        /\ Unit * p \in Int /\ Unit * q \in Int /\ a * Unit \in Int /\ a \in Int /\ b \in Int
    BY <1>1, <1>12, Parameters
  <2> HIDE DEF a, b
  <2>7. a * Unit <= b * Unit
    BY <2>1, <2>2, <2>3, <2>4, <2>5, <2>6
  <2>8. a <= b
    BY <2>6, <2>7, Parameters
  <2> QED
    BY <2>8 DEF a, b, Within
<1>14. Within(SmoothAndCap(old2, raw2), SmoothAndCap(old, raw), 1, p, q)
  <2> DEFINE hi == old + d  hi2 == old2 + d2
  <2>1. /\ s \in Int /\ s2 \in Int /\ hi \in Int /\ lo <= hi /\ hi2 \in Int /\ lo2 <= hi2
    BY <1>1, <1>5, <1>7 DEF lo, lo2
  <2>2. Within(hi2, hi, 1, p, q)
    BY <1>9
  <2>3. SmoothAndCap(old, raw) = Clamp(s, lo, hi) /\ SmoothAndCap(old2, raw2) = Clamp(s2, lo2, hi2)
    BY <1>2 DEF lo, lo2
  <2> HIDE DEF hi, hi2
  <2>4. Within(Clamp(s2, lo2, hi2), Clamp(s, lo, hi), 1, p, q)
    BY <1>5, <1>12, <1>13, <2>1, <2>2, ClampWithin
  <2> QED
    BY <2>3, <2>4
<1>15. lo <= SmoothAndCap(old, raw)
  <2> DEFINE hi == old + d
  <2>1. hi \in Int /\ s \in Int /\ lo \in Int /\ lo <= hi
    BY <1>1, <1>5, <1>7, <1>12 DEF lo
  <2>2. SmoothAndCap(old, raw) = Clamp(s, lo, hi)
    BY <1>2 DEF lo
  <2> HIDE DEF hi
  <2>3. lo <= Clamp(s, lo, hi)
    BY <2>1 DEF Clamp
  <2> QED
    BY <2>2, <2>3
<1>16. lo * Unit <= SmoothAndCap(old, raw) * Unit
  BY <1>3, <1>12, <1>15, Parameters, ProductGrows
<1>17. rest * old <= SmoothAndCap(old, raw) * Unit
  <2>1. rest * old \in Int /\ lo * Unit \in Int /\ SmoothAndCap(old, raw) * Unit \in Int
    BY <1>1, <1>3, <1>12, Parameters
  <2> QED
    BY <1>10, <1>16, <2>1
<1> QED
  BY <1>3, <1>14, <1>17 DEF rest

LEMMA CappedWithin ==
    ASSUME NEW D, IsFiniteSet(D), NEW w \in Amounts(D), \A s, t \in D : DomainOf(s) = DomainOf(t),
           NEW a \in D, NEW b \in D,
           NEW p \in Nat, NEW q \in Nat, Within(w[b], w[a], 1, p, q)
    PROVE  Within(CapDomains(w)[b], CapDomains(w)[a], 3, p, q)
<1> DEFINE ra == w[a]  rb == w[b]  ca == CapDomains(w)[a]  cb == CapDomains(w)[b]
<1>1. ra \in Nat /\ rb \in Nat /\ ca \in Nat /\ cb \in Nat
  BY CappedAmounts DEF Amounts
<1>2. cb * Unit <= DomainCap * rb /\ DomainCap * ra <= ca * Unit + 2 * Unit
  BY CappedShare
<1>3. rb * q <= (ra + 1) * p
  BY DEF Within
<1> HIDE DEF ra, rb, ca, cb
<1> DEFINE u == cb * Unit  v == DomainCap * rb  x == DomainCap * ra  y == ca * Unit + 2 * Unit
<1>4. u * q <= v * q /\ x * p <= y * p
  <2>1. u \in Int /\ v \in Int /\ x \in Int /\ y \in Int /\ u <= v /\ x <= y
    BY <1>1, <1>2, Parameters
  <2> HIDE DEF u, v, x, y
  <2> QED
    BY <2>1, ProductGrows
<1>5. DomainCap * (rb * q) <= DomainCap * ((ra + 1) * p)
  <2>1. rb * q \in Nat /\ (ra + 1) * p \in Nat
    BY <1>1
  <2> QED
    BY <1>3, <2>1, Parameters, ProductMonotone
<1>6. DomainCap * p <= Unit * p
  BY ConfigAssumption, Parameters, ProductGrows
<1> DEFINE l == cb * q  m == (ca + 3) * p
<1>7. /\ l * Unit = u * q /\ v * q = DomainCap * (rb * q)
      /\ DomainCap * ((ra + 1) * p) = x * p + DomainCap * p
      /\ m * Unit = y * p + Unit * p
  BY <1>1, Parameters
<1>8. /\ l \in Int /\ m \in Int /\ u * q \in Int /\ v * q \in Int /\ x * p \in Int /\ y * p \in Int
      /\ DomainCap * p \in Int /\ Unit * p \in Int
  <2>1. u \in Int /\ v \in Int /\ x \in Int /\ y \in Int
    BY <1>1, Parameters
  <2> HIDE DEF u, v, x, y
  <2> QED
    BY <1>1, <2>1, Parameters
<1>9. l * Unit <= m * Unit
  <2> DEFINE uq == u * q  vq == v * q  xp == x * p  yp == y * p  dp == DomainCap * p  up == Unit * p
             lu == l * Unit  mu == m * Unit
  <2>1. /\ lu = uq /\ mu = yp + up /\ uq <= vq /\ vq <= xp + dp /\ xp <= yp /\ dp <= up
        /\ uq \in Int /\ vq \in Int /\ xp \in Int /\ yp \in Int /\ dp \in Int /\ up \in Int
    BY <1>4, <1>5, <1>6, <1>7, <1>8
  <2> HIDE DEF uq, vq, xp, yp, dp, up, lu, mu
  <2>2. lu <= mu
    BY <2>1
  <2> QED
    BY <2>2 DEF lu, mu
<1> HIDE DEF l, m
<1>10. l <= m
  BY <1>8, <1>9, Parameters
<1> QED
  BY <1>10 DEF l, m, ca, cb, Within

LEMMA FlooredWithin ==
    ASSUME NEW D, NEW w \in Amounts(D), NEW a \in D, NEW b \in D,
           NEW p \in Nat, NEW q \in Nat, q <= p, Within(w[b], w[a], 3, p, q)
    PROVE  Within(RaiseToFloor(w)[b], RaiseToFloor(w)[a], 3, p, q)
<1> DEFINE ca == w[a]  cb == w[b]  fa == RaiseToFloor(w)[a]  fb == RaiseToFloor(w)[b]
<1>1. ca \in Nat /\ cb \in Nat /\ cb * q <= (ca + 3) * p
  BY DEF Amounts, Within
<1>2. /\ fa = IF ca >= MinWeight THEN ca ELSE MinWeight
      /\ fb = IF cb >= MinWeight THEN cb ELSE MinWeight
  BY <1>1, Parameters, MaxOfTwo DEF RaiseToFloor, Amounts
<1> HIDE DEF ca, cb, fa, fb
<1>3. fa \in Nat /\ fb \in Nat /\ ca <= fa /\ MinWeight <= fa
  BY <1>1, <1>2, Parameters
<1>4. fb * q <= (fa + 3) * p
  <2>1. CASE fb = cb
    <3> DEFINE x == ca + 3  y == fa + 3
    <3>1. x \in Int /\ y \in Int /\ x <= y
      BY <1>1, <1>3
    <3>2. x * p \in Int /\ y * p \in Int /\ x * p <= y * p
      <4> HIDE DEF x, y
      <4> QED
        BY <3>1, ProductGrows
    <3>3. fb * q \in Int /\ fb * q <= x * p
      BY <1>1, <2>1
    <3> HIDE DEF x
    <3> QED
      BY <3>2, <3>3
  <2>2. CASE fb = MinWeight
    <3> DEFINE y == fa + 3
    <3>1. y \in Nat /\ fb <= y
      BY <1>3, <2>2
    <3> HIDE DEF y
    <3>2. fb * q <= y * q
      BY <1>3, <3>1, ProductGrows
    <3>3. y * q <= y * p
      BY <3>1, ProductMonotone
    <3>4. fb * q \in Int /\ y * q \in Int /\ y * p \in Int
      BY <1>3, <3>1
    <3>5. fb * q <= y * p
      BY <3>2, <3>3, <3>4
    <3> QED
      BY <3>5 DEF y
  <2> QED
    BY <1>2, <2>1, <2>2
<1> QED
  BY <1>4 DEF fa, fb, Within

LEMMA NormalizedWithin ==
    ASSUME NEW D, IsFiniteSet(D), NEW w \in Amounts(D), NEW a \in D, NEW b \in D, w[a] >= 1,
           NEW p \in Nat, NEW q \in Nat, Within(w[b], w[a], 3, p, q),
           NEW e \in Nat, 3 * Unit <= e * Total(w)
    PROVE  Within(Normalize(w)[b], Normalize(w)[a], 1 + e, p, q)
<1> DEFINE T == Total(w)  fa == w[a]  fb == w[b]
<1>1. T \in Nat /\ fa \in Nat /\ fb \in Nat /\ fa <= T /\ fa >= 1 /\ T > 0
  <2>1. T \in Nat /\ \A s \in D : w[s] \in Nat /\ w[s] <= T
    BY SumOfWeights DEF Total, Amounts
  <2> HIDE DEF T
  <2> QED
    BY <2>1
<1>2. fb * q <= (fa + 3) * p /\ 3 * Unit <= e * T
  BY DEF Within
<1> DEFINE xa == fa * Unit  xb == fb * Unit  na == xa \div T  nb == xb \div T
<1>3. Normalize(w)[a] = na /\ Normalize(w)[b] = nb
  BY DEF Normalize, Amounts
<1> HIDE DEF T, fa, fb
<1>4. xa \in Nat /\ xb \in Nat
  BY <1>1, Parameters
<1>5. /\ na \in Nat /\ nb \in Nat /\ nb * T <= xb /\ xa <= (na + 1) * T
  <2> HIDE DEF xa, xb
  <2> QED
    BY <1>1, <1>4
<1> HIDE DEF na, nb
<1>6. (nb * T) * q <= xb * q
  <2> DEFINE y == nb * T
  <2>1. y \in Int /\ y <= xb
    BY <1>1, <1>5
  <2> HIDE DEF y, xb
  <2>2. y * q <= xb * q
    BY <1>4, <2>1, ProductGrows
  <2> QED
    BY <2>2 DEF y
<1>7. Unit * (fb * q) <= Unit * ((fa + 3) * p)
  <2>1. fb * q \in Nat /\ (fa + 3) * p \in Nat
    BY <1>1
  <2> QED
    BY <1>2, <2>1, Parameters, ProductMonotone
<1>8. xa * p <= ((na + 1) * T) * p
  <2> DEFINE y == (na + 1) * T
  <2>1. y \in Int /\ xa <= y
    BY <1>1, <1>5
  <2> HIDE DEF y, xa
  <2>2. xa * p <= y * p
    BY <1>4, <2>1, ProductGrows
  <2> QED
    BY <2>2 DEF y
<1>9. (3 * Unit) * p <= (e * T) * p
  <2> DEFINE y == e * T  z == 3 * Unit
  <2>1. y \in Int /\ z \in Int /\ z <= y
    BY <1>1, <1>2, Parameters
  <2> HIDE DEF y, z
  <2>2. z * p <= y * p
    BY <2>1, ProductGrows
  <2> QED
    BY <2>2 DEF y, z
<1> DEFINE l == nb * q  m == (na + (1 + e)) * p
<1>10. /\ l * T = (nb * T) * q /\ xb * q = Unit * (fb * q)
       /\ Unit * ((fa + 3) * p) = xa * p + (3 * Unit) * p
       /\ m * T = ((na + 1) * T) * p + (e * T) * p
  BY <1>1, <1>5, Parameters
<1>11. /\ (nb * T) * q \in Int /\ xb * q \in Int /\ xa * p \in Int /\ (3 * Unit) * p \in Int
       /\ ((na + 1) * T) * p \in Int /\ (e * T) * p \in Int /\ l \in Int /\ m \in Int
  BY <1>1, <1>4, <1>5, Parameters
<1>12. l * T <= m * T
  <2> DEFINE lt == l * T  mt == m * T  bt == (nb * T) * q  bq == xb * q  ap == xa * p
             zp == (3 * Unit) * p  at == ((na + 1) * T) * p  et == (e * T) * p
  <2>1. /\ lt = bt /\ mt = at + et /\ bt <= bq /\ bq <= ap + zp /\ ap <= at /\ zp <= et
        /\ bt \in Int /\ bq \in Int /\ ap \in Int /\ zp \in Int /\ at \in Int /\ et \in Int
    BY <1>6, <1>7, <1>8, <1>9, <1>10, <1>11
  <2> HIDE DEF lt, mt, bt, bq, ap, zp, at, et
  <2>2. lt <= mt
    BY <2>1
  <2> QED
    BY <2>2 DEF lt, mt
<1> HIDE DEF l, m
<1>13. l <= m
  BY <1>1, <1>11, <1>12
<1> QED
  BY <1>3, <1>13 DEF l, m, Within

LEMMA RawIsAmount == \A raw \in RawWeights : raw \in 0 .. Unit
<1> SUFFICES ASSUME NEW raw \in RawWeights PROVE raw \in 0 .. Unit
  OBVIOUS
<1>1. raw \in 1 .. Unit
  BY RawAssumption
<1> QED
  BY <1>1, Parameters

\* The weights of one update before normalisation, all together: the shift cap and the
\* domain cap leave a part of every weight.
LEMMA KeptTotal ==
    ASSUME NEW D, IsFiniteSet(D), \A s, t \in D : DomainOf(s) = DomainOf(t),
           NEW w \in Weights(D), \A s \in D : MinWeight <= w[s], NEW preds \in [D -> RawWeights]
    PROVE  LET f == RaiseToFloor(CapDomains(Rescored(w, preds)))
           IN  Total(w) * (DomainCap * (Unit - MaxShift))
                 <= Total(f) * (Unit * Unit) + Cardinality(D) * (2 * (Unit * Unit))
<1> DEFINE r == Rescored(w, preds)  c == CapDomains(r)  f == RaiseToFloor(c)
           rest == Unit - MaxShift  square == Unit * Unit
           k == DomainCap * rest  l == 2 * square
<1>1. /\ rest \in Nat /\ square \in Nat /\ k \in Nat /\ l \in Nat
  <2>1. rest \in Nat /\ square \in Nat
    BY Parameters
  <2> HIDE DEF rest, square
  <2> QED
    BY <2>1, Parameters
<1>2. r \in Amounts(D)
  <2>1. D \cup D = D
    OBVIOUS
  <2> QED
    BY <2>1, RescoredAmounts
<1>3. c \in Amounts(D)
  <2> HIDE DEF r
  <2> QED
    BY <1>2, CappedAmounts
<1>4. f \in Amounts(D) /\ w \in [D -> Nat] /\ f \in [D -> Nat]
  <2>1. f \in Amounts(D)
    <3> HIDE DEF c
    <3> QED
      BY <1>3, FlooredAmounts
  <2>2. w \in [D -> Nat]
    BY Parameters DEF Weights
  <2> HIDE DEF f
  <2> QED
    BY <2>1, <2>2 DEF Amounts
<1>5. ASSUME NEW s \in D PROVE w[s] * k <= f[s] * square + l
  <2> DEFINE x == w[s]  y == r[s]  z == c[s]  u == f[s]
  <2>1. x \in Nat /\ y \in Nat /\ z \in Nat /\ u \in Nat
    <3> HIDE DEF r, c, f
    <3> QED
      BY <1>2, <1>3, <1>4 DEF Amounts
  <2>2. rest * x <= y * Unit
    <3>1. x \in 0 .. Unit /\ preds[s] \in 0 .. Unit /\ MinWeight <= x
      BY RawIsAmount DEF Weights
    <3>2. y = SmoothAndCap(x, preds[s])
      BY DEF Rescored, Weights
    <3> HIDE DEF x, y
    <3> DEFINE g == preds[s]
    <3>3. /\ 1 \in Nat /\ 1 > 0 /\ 1 <= 1
          /\ x \in 0 .. Unit /\ g \in 0 .. Unit /\ x * 1 <= x * 1 /\ g * 1 <= g * 1
      BY <3>1, Parameters
    <3>4. (Unit - MaxShift) * x <= SmoothAndCap(x, g) * Unit
      <4> HIDE DEF g
      <4> QED
        BY <3>1, <3>3, SmoothWithin
    <3> QED
      BY <3>2, <3>4
  <2>3. DomainCap * y <= z * Unit + 2 * Unit
    <3> HIDE DEF r
    <3> QED
      BY <1>2, CappedShare
  <2>4. z <= u
    <3> HIDE DEF c
    <3>1. c[s] \in Nat /\ f[s] = Max({c[s], MinWeight})
      BY <1>3 DEF Amounts, RaiseToFloor
    <3> QED
      BY <3>1, Parameters, MaxOfTwo
  <2> HIDE DEF x, y, z, u
  <2>5. DomainCap * (rest * x) <= DomainCap * (y * Unit)
    <3>1. rest * x \in Nat /\ y * Unit \in Nat
      BY <1>1, <2>1, Parameters
    <3> QED
      BY <2>2, <3>1, Parameters, ProductMonotone
  <2>6. (DomainCap * y) * Unit <= (z * Unit + 2 * Unit) * Unit
    <3> DEFINE a == DomainCap * y  b == z * Unit + 2 * Unit
    <3>1. a \in Int /\ b \in Int /\ a <= b
      BY <2>1, <2>3, Parameters
    <3> HIDE DEF a, b
    <3>2. a * Unit <= b * Unit
      BY <3>1, Parameters, ProductGrows
    <3> QED
      BY <3>2 DEF a, b
  <2>7. z * square <= u * square
    BY <1>1, <2>1, <2>4, ProductGrows
  <2>8. /\ x * k = DomainCap * (rest * x)
        /\ DomainCap * (y * Unit) = (DomainCap * y) * Unit
        /\ (z * Unit + 2 * Unit) * Unit = z * square + l
    <3>1. x * k = DomainCap * (rest * x)
      <4> HIDE DEF rest
      <4> QED
        BY <1>1, <2>1, Parameters
    <3> QED
      BY <2>1, <3>1, Parameters
  <2> DEFINE a == x * k  b == DomainCap * (y * Unit)  d == z * square  g == u * square
  <2>9. a \in Int /\ b \in Int /\ d \in Int /\ g \in Int
    <3> HIDE DEF k, square
    <3> QED
      BY <1>1, <2>1, Parameters
  <2>10. a <= b /\ b <= d + l /\ d <= g
    BY <2>5, <2>6, <2>7, <2>8
  <2> HIDE DEF a, b, d, g, l
  <2>11. a <= g + l
    BY <1>1, <2>9, <2>10
  <2> QED
    BY <2>11 DEF a, g, x, u
<1> HIDE DEF f, k, square, l
<1>6. SumFunction(w) * k <= SumFunction(f) * square + Cardinality(D) * l
  BY <1>1, <1>4, <1>5, SumBound
<1> QED
  BY <1>6 DEF f, k, rest, square, l, Total

\* e units are enough for the rounding of one update, in a pool of n.
Slack(e) ==
    LET n == Cardinality(Registered)
    IN  (3 * Unit) * (Unit * Unit) + e * (n * (2 * (Unit * Unit)))
          <= e * ((Unit - n + 1) * (DomainCap * (Unit - MaxShift)))

LEMMA TotalWithSlack ==
    ASSUME NEW e \in Nat, Slack(e), NEW x \in Nat, NEW y \in Nat,
           Unit - Cardinality(Registered) + 1 <= x,
           x * (DomainCap * (Unit - MaxShift))
             <= y * (Unit * Unit) + Cardinality(Registered) * (2 * (Unit * Unit))
    PROVE  3 * Unit <= e * y
<1> DEFINE n == Cardinality(Registered)  square == Unit * Unit  k == DomainCap * (Unit - MaxShift)
           low == Unit - n + 1  l == n * (2 * square)
<1>1. n \in Nat /\ square \in Nat /\ square > 0 /\ k \in Nat
  <2>1. n \in Nat
    BY ServersAssumption, FS_Subset, FS_CardinalityType
  <2>2. Unit - MaxShift \in Nat
    BY Parameters
  <2> QED
    BY <2>1, <2>2, Parameters
<1>2. low <= x /\ x * k <= y * square + l /\ (3 * Unit) * square + e * l <= e * (low * k)
  BY DEF Slack
<1> HIDE DEF n, square, k
<1>3. low \in Int /\ l \in Nat
  BY <1>1, Parameters
<1> HIDE DEF low, l
<1> DEFINE lk == low * k  xk == x * k  ys == y * square
<1>4. lk \in Int /\ xk \in Int /\ ys \in Int /\ lk <= xk
  BY <1>1, <1>2, <1>3, ProductGrows
<1>5. xk <= ys + l /\ (3 * Unit) * square + e * l <= e * lk
  BY <1>2
<1> HIDE DEF lk, xk
<1>6. lk <= ys + l
  BY <1>3, <1>4, <1>5
<1> HIDE DEF ys
<1>7. lk * e <= (ys + l) * e
  BY <1>3, <1>4, <1>6, ProductGrows
<1> DEFINE t == (3 * Unit) * square  el == e * l  ey == e * ys  ek == e * lk
<1>8. t \in Int /\ el \in Int /\ ey \in Int /\ ek \in Int
  BY <1>1, <1>3, <1>4, Parameters
<1>9. t + el <= ek /\ ek <= ey + el
  <2>1. lk * e = e * lk /\ (ys + l) * e = e * ys + e * l
    BY <1>3, <1>4
  <2> QED
    BY <1>5, <1>7, <2>1
<1> HIDE DEF t, el, ey, ek
<1>10. t <= ey
  BY <1>8, <1>9
<1>11. t = (3 * Unit) * square /\ ey = (e * y) * square
  BY <1>1 DEF t, ey, ys
<1> DEFINE a == 3 * Unit  b == e * y
<1>12. a \in Int /\ b \in Int /\ a * square <= b * square
  BY <1>10, <1>11, Parameters
<1> HIDE DEF a, b
<1>13. a <= b
  BY <1>1, <1>12
<1> QED
  BY <1>13 DEF a, b

\* One update of all the registered servers.
LEMMA UpdatedWithin ==
    ASSUME \A s, t \in Registered : DomainOf(s) = DomainOf(t),
           NEW w \in Weights(Registered), Unit - Cardinality(Registered) + 1 <= Total(w),
           \A s \in Registered : MinWeight <= w[s],
           NEW preds \in [Registered -> RawWeights], NEW a \in Registered, NEW b \in Registered,
           NEW p \in Nat, NEW q \in Nat, q > 0, q <= p,
           w[b] * q <= w[a] * p, preds[b] * q <= preds[a] * p,
           NEW e \in Nat, Slack(e)
    PROVE  LET new == Normalize(RaiseToFloor(CapDomains(Rescored(w, preds))))
           IN  Within(new[b], new[a], 1 + e, p, q)
<1> DEFINE D == Registered  r == Rescored(w, preds)  c == CapDomains(r)  f == RaiseToFloor(c)
<1>1. IsFiniteSet(D) /\ Cardinality(D) \in Nat
  BY ServersAssumption, FS_Subset, FS_CardinalityType
<1>2. r \in Amounts(D)
  <2>1. D \cup D = D
    OBVIOUS
  <2> QED
    BY <2>1, RescoredAmounts
<1>3. Within(r[b], r[a], 1, p, q)
  <2> DEFINE old == w[a]  old2 == w[b]  raw == preds[a]  raw2 == preds[b]
  <2>1. /\ old \in 0 .. Unit /\ old2 \in 0 .. Unit /\ raw \in 0 .. Unit /\ raw2 \in 0 .. Unit
        /\ MinWeight <= old /\ MinWeight <= old2
        /\ old2 * q <= old * p /\ raw2 * q <= raw * p
    BY RawIsAmount DEF Weights
  <2>2. r[a] = SmoothAndCap(old, raw) /\ r[b] = SmoothAndCap(old2, raw2)
    BY DEF Rescored, Weights
  <2> HIDE DEF old, old2, raw, raw2, r
  <2>3. Within(SmoothAndCap(old2, raw2), SmoothAndCap(old, raw), 1, p, q)
    BY <2>1, SmoothWithin
  <2> QED
    BY <2>2, <2>3
<1>4. Total(w) * (DomainCap * (Unit - MaxShift))
        <= Total(f) * (Unit * Unit) + Cardinality(D) * (2 * (Unit * Unit))
  BY <1>1, KeptTotal
<1> HIDE DEF r
<1>5. c \in Amounts(D) /\ Within(c[b], c[a], 3, p, q)
  BY <1>1, <1>2, <1>3, CappedAmounts, CappedWithin
<1> HIDE DEF c
<1>6. f \in Amounts(D) /\ f[a] >= 1 /\ Within(f[b], f[a], 3, p, q)
  BY <1>5, FlooredAmounts, FlooredWithin
<1> HIDE DEF f
<1>7. Total(w) \in Nat /\ Total(f) \in Nat
  <2>1. w \in [D -> Nat] /\ f \in [D -> Nat]
    BY <1>6, Parameters DEF Weights, Amounts
  <2> QED
    BY <1>1, <2>1, SumOfWeights DEF Total
<1>8. 3 * Unit <= e * Total(f)
  <2> DEFINE x == Total(w)  y == Total(f)
  <2>1. x \in Nat /\ y \in Nat /\ Unit - Cardinality(Registered) + 1 <= x
    BY <1>7
  <2>2. x * (DomainCap * (Unit - MaxShift))
          <= y * (Unit * Unit) + Cardinality(Registered) * (2 * (Unit * Unit))
    BY <1>4
  <2> HIDE DEF x, y
  <2>3. 3 * Unit <= e * y
    BY <2>1, <2>2, TotalWithSlack
  <2> QED
    BY <2>3 DEF y
<1>9. Within(Normalize(f)[b], Normalize(f)[a], 1 + e, p, q)
  BY <1>1, <1>6, <1>8, NormalizedWithin
<1> QED
  BY <1>9 DEF f, c, r

\* Whatever the size of the pool, no update of lb-proxy's makes the weights of two
\* backends differ by a larger factor, p / q, than they did before and than their
\* predictions can, but for 1 + e units of rounding (update_scores(), scoreboard.rs):
\* smoothing, caps, floor and normalisation do not add up to a larger gap.
THEOREM UpdatesKeepRatios ==
    ASSUME OneDomain, Room(0), NEW e \in Nat, Slack(e),
           NEW p \in Nat, NEW q \in Nat, q > 0, q <= p,
           \A x, y \in RawWeights : x * q <= y * p
    PROVE  RouterSpec =>
             [][calls' = 0 =>
                  \A s, t \in Registered :
                     weight[t] * q <= weight[s] * p
                       => weight'[t] * q <= (weight'[s] + (1 + e)) * p]_routerVars
<1> DEFINE Kept == calls' = 0 =>
                     \A s, t \in Registered :
                        weight[t] * q <= weight[s] * p
                          => weight'[t] * q <= (weight'[s] + (1 + e)) * p
<1>1. RouterInit => RouterInv /\ FloorInv(0)
  BY RouterInitial, FloorInitial
<1>2. RouterInv /\ FloorInv(0) /\ [RouterNext]_routerVars => RouterInv' /\ FloorInv(0)'
  BY RouterStep, FloorStep
<1>3. RouterInv /\ FloorInv(0) /\ [RouterNext]_routerVars => [Kept]_routerVars
  <2> SUFFICES ASSUME RouterInv, FloorInv(0), [RouterNext]_routerVars, calls' = 0,
                      NEW s \in Registered, NEW t \in Registered, weight[t] * q <= weight[s] * p
               PROVE  weight'[t] * q <= (weight'[s] + (1 + e)) * p
    OBVIOUS
  <2>1. \A x \in Registered : weight[x] \in Nat
    BY Parameters DEF RouterInv, Weights
  <2>2. CASE weight' = weight
    <3> DEFINE x == weight[s]  y == weight[t]
    <3>1. x \in Nat /\ y \in Nat /\ y * q <= x * p
      BY <2>1
    <3> HIDE DEF x, y
    <3>2. x * p <= (x + (1 + e)) * p
      <4> DEFINE z == x + (1 + e)
      <4>1. z \in Int /\ x <= z
        BY <3>1
      <4> HIDE DEF z
      <4>2. x * p <= z * p
        BY <3>1, <4>1, ProductGrows
      <4> QED
        BY <4>2 DEF z
    <3>3. y * q <= (x + (1 + e)) * p
      <4>1. y * q \in Int /\ x * p \in Int /\ (x + (1 + e)) * p \in Int
        BY <3>1
      <4> QED
        BY <3>1, <3>2, <4>1
    <3> QED
      BY <2>2, <3>3 DEF x, y
  <2>3. CASE SyncScoreboard
    <3>1. PICK preds \in SyncPredictions : Update(preds)
      BY <2>3 DEF SyncScoreboard
    <3>2. calls = 0 /\ preds \in [Registered -> RawWeights]
      BY <2>3 DEF SyncScoreboard, SyncPredictions
    <3>3. /\ weight \in Weights(Registered) /\ Registered \subseteq Servers
          /\ Unit - Cardinality(Registered) + 1 <= Total(weight)
          /\ \A x \in Registered : MinWeight <= weight[x]
      <4>1. Known = Registered /\ \A x \in Known : weight[x] >= MinWeight
        BY <3>2 DEF FloorInv
      <4>2. weight \in Weights(Registered) /\ Total(weight) \in Unit - Cardinality(Registered) + 1 .. Unit
        BY <4>1 DEF RouterInv, SumsToOne
      <4>3. Cardinality(Registered) \in Nat
        BY ServersAssumption, FS_Subset, FS_CardinalityType
      <4> DEFINE n == Cardinality(Registered)
      <4>4. Unit - n + 1 <= Total(weight)
        <5> HIDE DEF n
        <5> QED
          BY <4>2, <4>3, Parameters DEF n
      <4>5. \A x \in Registered : MinWeight <= weight[x]
        BY <2>1, <4>1, Parameters
      <4> QED
        BY <4>2, <4>4, <4>5, ServersAssumption
    <3>4. \A x, y \in Registered : DomainOf(x) = DomainOf(y)
      BY <3>3 DEF OneDomain
    <3>5. preds[t] * q <= preds[s] * p
      BY <3>2
    <3>6. weight' = Normalize(RaiseToFloor(CapDomains(Rescored(weight, preds))))
      BY <3>1 DEF Update, UpdateScores
    <3>7. Within(weight'[t], weight'[s], 1 + e, p, q)
      BY <3>2, <3>3, <3>4, <3>5, <3>6, UpdatedWithin
    <3> QED
      BY <3>7 DEF Within
  <2>4. ASSUME NEW x \in Servers, UpdateSingleServer(x) \/ AddServer(x) \/ RemoveServer(x)
        PROVE  FALSE
    <3>1. calls \in Nat /\ calls' = calls + 1
      BY <2>4, CallsAssumption DEF RouterInv, UpdateSingleServer, AddServer, RemoveServer, LibraryCall
    <3> QED
      BY <3>1
  <2>5. CASE \/ UNCHANGED routerVars \/ Tick
             \/ \E draw \in Draws, over \in Signals : Route(draw, over)
             \/ \E x \in Registered : RecordBackendHealth(x)
    BY <2>2, <2>5 DEF routerVars, Tick, Route, RecordBackendHealth
  <2> QED
    BY <2>3, <2>4, <2>5 DEF RouterNext
<1> QED
  BY <1>1, <1>2, <1>3, PTL DEF RouterSpec
=============================================================================
