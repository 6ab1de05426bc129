----------------------------- MODULE Scoreboard -----------------------------
(***************************************************************************)
(* The weights of the backend pool (router-core/src/scoreboard.rs): every  *)
(* update_scores turns a set of predictions into a new score map by        *)
(* smoothing, a shift cap, the domain cap, the exploration floor and       *)
(* normalisation, in that order, and swaps the map in as a whole.          *)
(*                                                                         *)
(* A weight is an f64 in the code and a whole number of units of 1/Unit    *)
(* here, so every quotient is rounded down.  What a prediction contributes *)
(* is its raw weight, exp(-effective_risk) * exp(-health_score), of which  *)
(* RawWeights gives the values tried; risk, health and confidence are      *)
(* otherwise not looked at.  Router says when updates happen, and with     *)
(* which predictions.                                                      *)
(***************************************************************************)
EXTENDS Integers, FiniteSets, FiniteSetsExt, Functions

CONSTANTS
    Unit,         \* the weight 1.0
    Servers,      \* servers a prediction may be about
    Domain,       \* Domain[s]: failure domain a server is registered with
    Registered,   \* the servers with_servers() is given
    RawWeights,   \* raw weights of predictions
    Alpha,        \* smoothing_alpha after its clamp, in units
    MaxShift,     \* max_shift_fraction, in units
    DomainCap,    \* domain_capacity_fraction, in units
    MinWeight     \* min_weight, in units

ASSUME UnitAssumption == Unit \in Nat \ {0}
ASSUME ServersAssumption ==
    IsFiniteSet(Servers) /\ Registered \subseteq Servers /\ Registered # {}
ASSUME RawAssumption == RawWeights \subseteq 1 .. Unit
ASSUME ConfigAssumption == /\ {Alpha, MaxShift, DomainCap} \subseteq 1 .. Unit
                           /\ MinWeight \in 1 .. Unit

VARIABLES
    weight,       \* the score map: a function whose domain is the known servers
    predicted     \* history: the raw weights of the last update

vars == <<weight, predicted>>

Known == DOMAIN weight

TypeOK ==
    /\ Registered \subseteq Known /\ Known \subseteq Servers
    /\ \A s \in Known : weight[s] \in 0 .. Unit
    /\ DOMAIN predicted \subseteq Known
    /\ \A s \in DOMAIN predicted : predicted[s] \in RawWeights

\* with_servers(): equal weights.
Init ==
    /\ weight = [s \in Registered |-> Unit \div Cardinality(Registered)]
    /\ predicted = [s \in {} |-> 0]

Total(w) == SumFunction(w)

Clamp(x, lo, hi) == IF x < lo THEN lo ELSE IF x > hi THEN hi ELSE x

\* Invariants 1 and 2: smoothing towards the raw weight, at most a fraction of
\* the old weight away from it.  The mutated form takes risk for merit.
SmoothAndCapInverted(old, raw) ==
    LET smoothed == (Alpha * (Unit - raw) + (Unit - Alpha) * old) \div Unit
        delta == (MaxShift * Max({old, MinWeight})) \div Unit
    IN  Clamp(smoothed, old - delta, old + delta)
SmoothAndCap(old, raw) ==
    LET smoothed == (Alpha * raw + (Unit - Alpha) * old) \div Unit
        delta == (MaxShift * Max({old, MinWeight})) \div Unit
    IN  Clamp(smoothed, old - delta, old + delta)

\* A known server moves towards its prediction or keeps its score; a server
\* seen for the first time starts at its raw weight.
Rescored(w, preds) ==
    [s \in DOMAIN w \cup DOMAIN preds |->
        IF s \notin DOMAIN w THEN preds[s]
        ELSE IF s \in DOMAIN preds THEN SmoothAndCap(w[s], preds[s])
        ELSE w[s]]

\* A server that no one registered is filed under domain 0.
DomainOf(s) == IF s \in Registered THEN Domain[s] ELSE 0

DomainTotal(w, d) ==
    Total(Restrict(w, {s \in DOMAIN w : DomainOf(s) = d}))

\* Invariant 3: members of a domain above the cap are scaled down to it; all
\* the totals are taken before the first domain is scaled.
CapDomains(w) ==
    LET total == Total(w)
        cap == (DomainCap * total) \div Unit
        members == [d \in {DomainOf(s) : s \in DOMAIN w} |-> DomainTotal(w, d)]
    IN  [s \in DOMAIN w |->
            IF members[DomainOf(s)] * Unit > DomainCap * total
            THEN (cap * w[s]) \div members[DomainOf(s)]
            ELSE w[s]]

\* Invariant 4: the exploration floor.
RaiseToFloor(w) == [s \in DOMAIN w |-> Max({w[s], MinWeight})]

\* Invariant 5.  The mutated form leaves the weights as they are.
NormalizeNot(w) == w
Normalize(w) ==
    LET total == Total(w) IN [s \in DOMAIN w |-> (w[s] * Unit) \div total]

\* update_scores(): predictions for any of the servers.
UpdateScores(preds) ==
    /\ weight' = Normalize(RaiseToFloor(CapDomains(Rescored(weight, preds))))
    /\ predicted' = preds

-----------------------------------------------------------------------------
(* Properties.                                                             *)

\* "weights sum to 1.0", up to the rounding of one unit per server, whatever
\* sequence of predictions, missing predictions and new servers came before.
SumsToOne == Total(weight) \in Unit - Cardinality(Known) + 1 .. Unit

\* And min_weight is the "minimum weight any server can have" (types.rs):
\* normalisation comes last, and does not undo the floor of a capped domain.
WeightsAreShares ==
    /\ SumsToOne
    /\ \A s \in Known : weight[s] >= MinWeight

\* Smoothing, caps, floor and normalisation together keep the order: of two
\* servers of one domain, the one that weighed no less and was predicted no
\* worse weighs no less afterwards.
RankingRespected ==
    [][\A a, b \in DOMAIN weight \cap DOMAIN predicted' :
         (/\ DomainOf(a) = DomainOf(b)
          /\ weight[a] >= weight[b]
          /\ predicted'[a] >= predicted'[b]) => weight'[a] >= weight'[b]]_vars
=============================================================================
