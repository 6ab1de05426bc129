------------------------------- MODULE Router -------------------------------
(***************************************************************************)
(* Power-of-two-choices routing (router-core/src/router.rs) over the       *)
(* weights of the scoreboard, as lb-proxy uses it: a loop that now and     *)
(* then turns what it has measured into predictions, requests that are     *)
(* routed in between, and scores that go stale when the loop does not run. *)
(*                                                                         *)
(* A draw of the two random indices is a pair of positions in the list of  *)
(* servers.  Signals say how many of a server's fast health signals are    *)
(* over their thresholds.  Time is counted in ticks; of a score only its   *)
(* age matters, up to the staleness TTL.                                   *)
(***************************************************************************)
EXTENDS Scoreboard, Sequences, SequencesExt

CONSTANTS
    TTL,          \* staleness_ttl, in ticks
    MaxSignals,   \* how many signals may be over their threshold at once
    MaxCalls      \* bound: calls of the library that lb-proxy does not make

ASSUME TTLAssumption == TTL \in Nat \ {0}
ASSUME SignalsAssumption == MaxSignals \in 1 .. 3
ASSUME CallsAssumption == MaxCalls \in Nat
ASSUME NeutralAssumption == Unit \in RawWeights

VARIABLES
    servers,      \* the router's list of backends
    age,          \* ticks since a known server's score was refreshed, up to TTL
    tried,        \* servers a request was sent to
    measured,     \* backends with total_requests() > 0
    calls         \* history: calls so far that lb-proxy does not make

routerVars == <<weight, predicted, servers, age, tried, measured, calls>>

Pool == ToSet(servers)

RouterTypeOK ==
    /\ TypeOK
    /\ IsInjective(servers) /\ Pool \subseteq Servers
    /\ age \in [Known -> 0 .. TTL]
    /\ tried \subseteq Servers
    /\ measured \subseteq Registered \cap tried
    /\ calls \in 0 .. MaxCalls

RouterInit ==
    /\ Init
    /\ servers = SetToSeq(Registered)
    /\ age = [s \in Registered |-> 0]
    /\ tried = {}
    /\ measured = {}
    /\ calls = 0

-----------------------------------------------------------------------------
(* choose_server().                                                        *)

Positions == 1 .. Len(servers)
Draws == Positions \X Positions

\* fast_signals: for each backend, the number of signals over the threshold.
Signals == [Pool -> 0 .. MaxSignals]

\* A stale or missing score counts as an equal share.  The mutated form trusts a
\* score whatever its age.
BaseWeightAnyAge(s) ==
    IF s \in Known THEN weight[s] ELSE Unit \div Len(servers)
BaseWeight(s) ==
    IF s \in Known /\ age[s] < TTL THEN weight[s] ELSE Unit \div Len(servers)

\* Every signal over its threshold divides the weight by ten; weights are
\* scaled by 10^MaxSignals so that they stay whole.  The mutated form has no
\* penalty.
EffectiveWeightUnpenalised(s, over) == BaseWeight(s) * 10^MaxSignals
EffectiveWeight(s, over) == BaseWeight(s) * 10^(MaxSignals - over[s])

\* Two distinct candidates: a second index equal to the first moves on by one.
First(draw) == servers[draw[1]]
Second(draw) ==
    servers[IF draw[2] = draw[1] THEN (draw[1] % Len(servers)) + 1 ELSE draw[2]]

\* The candidate that is chosen.  The mutated form prefers the lighter one.
ChoiceLighter(draw, over) ==
    LET a == First(draw)  b == Second(draw)
    IN  IF EffectiveWeight(a, over) <= EffectiveWeight(b, over) THEN a ELSE b
Choice(draw, over) ==
    LET a == First(draw)  b == Second(draw)
    IN  IF EffectiveWeight(a, over) >= EffectiveWeight(b, over) THEN a ELSE b

\* Until a request is sent to it, a registered backend has nothing in flight and no
\* 5xx in its window, so that no signal is over.
Plausible(over) == \A s \in (Pool \cap Registered) \ tried : over[s] = 0

\* A request is routed and sent: health.begin().
Route(draw, over) ==
    /\ Plausible(over)
    /\ tried' = tried \cup {Choice(draw, over)}
    /\ UNCHANGED <<weight, predicted, servers, age, measured, calls>>

\* record_backend_health(): the head of an answer, or a failure to get one, makes
\* the backend measured.  A request that cannot be built, one whose client went
\* away and one that is never answered (there is no timeout) record nothing, so
\* that a backend may stay without measurements however often it is tried.
RecordBackendHealth(s) ==
    /\ s \in tried \cap Registered
    /\ measured' = measured \cup {s}
    /\ UNCHANGED <<weight, predicted, servers, age, tried, calls>>

-----------------------------------------------------------------------------
(* The slow loop, and other uses of the library.                           *)

\* update_scores() also stamps the scores it predicts; the others grow old.  The
\* mutated form leaves a server it sees for the first time without a stamp.
StampedKnownOnly(preds) ==
    [s \in Known |-> IF s \in DOMAIN preds THEN 0 ELSE age[s]]
Stamped(preds) ==
    [s \in Known \cup DOMAIN preds |-> IF s \in DOMAIN preds THEN 0 ELSE age[s]]

Update(preds) ==
    /\ UpdateScores(preds)
    /\ age' = Stamped(preds)
    /\ UNCHANGED <<servers, tried, measured>>

\* sync_scoreboard(): every registered backend is predicted, one that was never
\* measured neutrally.  The mutated form takes the zeroes of a backend without
\* measurements for measurements.
SyncPredictionsAlike == [Registered -> RawWeights]
SyncPredictions ==
    {preds \in [Registered -> RawWeights] :
        \A s \in Registered \ measured : preds[s] = Unit}
SyncScoreboard ==
    /\ \E preds \in SyncPredictions : Update(preds)
    /\ UNCHANGED calls

LibraryCall == calls < MaxCalls /\ calls' = calls + 1

\* update_single_server(): the others keep their scores; one that is not known
\* yet is added.
UpdateSingleServer(s) ==
    /\ LibraryCall
    /\ \E raw \in RawWeights : Update([t \in {s} |-> raw])

\* Time passes between two updates.
Tick ==
    /\ age' = [s \in Known |-> Min({age[s] + 1, TTL})]
    /\ age' # age
    /\ UNCHANGED <<weight, predicted, servers, tried, measured, calls>>

AddServer(s) ==
    /\ LibraryCall
    /\ s \notin Pool
    /\ servers' = Append(servers, s)
    /\ UNCHANGED <<weight, predicted, age, tried, measured>>

\* The list keeps no server twice, so that one position goes.
RemoveServer(s) ==
    /\ LibraryCall
    /\ \E i \in Positions : servers[i] = s /\ servers' = RemoveAt(servers, i)
    /\ UNCHANGED <<weight, predicted, age, tried, measured>>

RouterNext ==
    \/ \E draw \in Draws, over \in Signals : Route(draw, over)
    \/ \E s \in Registered : RecordBackendHealth(s)
    \/ SyncScoreboard
    \/ Tick
    \/ \E s \in Servers : UpdateSingleServer(s) \/ AddServer(s) \/ RemoveServer(s)

\* A request is routed with s as its first candidate.
RouteFirst(s) ==
    /\ calls = 0
    /\ \E draw \in Draws, over \in Signals : First(draw) = s /\ Route(draw, over)

\* It goes to s whatever the signals say.
RouteAnyway(s) ==
    /\ calls = 0
    /\ \E draw \in Draws :
         /\ First(draw) = s
         /\ \A over \in Signals : Plausible(over) => Choice(draw, over) = s
         /\ \E over \in Signals : Route(draw, over)

\* Requests keep coming and the generator gives every draw some time.  Nothing is
\* assumed about the signals, about answers, or once the library is used otherwise.
RouterSpec ==
    /\ RouterInit /\ [][RouterNext]_routerVars
    /\ \A s \in Registered : WF_routerVars(RouteAnyway(s))

-----------------------------------------------------------------------------
(* Properties.                                                             *)

\* A moment in which no signal is over its threshold.
Quiet == [s \in Pool |-> 0]

\* How many of the equally likely draws end at s.
Share(s, over) == Cardinality({draw \in Draws : Choice(draw, over) = s})

\* The fast signals override the predictions: whatever lb-proxy's updates did to
\* the weights, and however old they are, no request goes to a backend that has
\* more signals over their thresholds than the other candidate.  It is not the
\* penalty alone that makes this true: the weights of a pool never come to differ
\* by a factor of ten, the penalty of one signal.
OverrideDecides ==
    calls = 0 =>
        \A draw \in Draws, over \in Signals :
            \A s \in {First(draw), Second(draw)} :
                over[Choice(draw, over)] <= over[s]

\* "If both scores are stale, fall back to random uniform selection": when no
\* score is fresh, each backend gets the same share of the draws, whatever the
\* collision rule and the weights left behind by a dead loop.
StalePoolIsUniform ==
    (servers # <<>> /\ \A s \in Pool \cap Known : age[s] = TTL) =>
        \A s \in Pool : Share(s, Quiet) = Len(servers)

\* A backend that weighs more than another never gets less of the traffic,
\* although a collision of the indices favours neighbours in the list.
HeavierGetsMore ==
    LET share == [s \in Pool |-> Share(s, Quiet)]
    IN  \A a, b \in Pool : BaseWeight(a) > BaseWeight(b) => share[a] >= share[b]

\* Nobody is left out for want of measurements: a backend that was never measured is
\* predicted neutrally, so that it does not fall behind the others whatever they
\* measured, and a request is sent to it in the end.
NewcomerIsTried ==
    [](calls = 0) => \A s \in Registered : <>(s \in tried)

\* types.rs says of min_weight that it "ensures dead nodes still receive a trickle
\* of health-probe traffic": some draw ends at every backend.
EveryBackendIsProbed ==
    \A s \in Pool : Share(s, Quiet) > 0
=============================================================================
