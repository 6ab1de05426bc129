---------------------------- MODULE LbProxyProofs ----------------------------
(***************************************************************************)
(* The proxy's accounting for every pool and every number of requests: its *)
(* types, and that begin() is matched by exactly one decrement().          *)
(*                                                                         *)
(* InFlightExact is kept by a step because the step moves one request into *)
(* the owners of one backend, out of them, or neither (lemmas Takes, Gives *)
(* and Stays).  That the second finish() of a body gives nothing back needs*)
(* the invariant to know what TrackedBody.done says at each point.         *)
(***************************************************************************)
EXTENDS LbProxy, FiniteSetTheorems, TLAPS

\* The points at which a slot of the request's backend is taken, for now or for good.
Owning == Holding \cup {"abandoned"}

Owners(b) == {r \in Requests : sid[r] = b /\ pc[r] \in Owning}

SlotsExact == \A b \in Backends : in_flight[b] = Cardinality(Owners(b))

\* Whoever has passed the choice has a backend.
Chosen == \A r \in Requests :
    pc[r] \in Owning \cup {"begin", "failed"} => sid[r] \in Backends

\* finish() has run exactly for the bodies that have ended.
DoneWhenEnded == \A r \in Requests :
    /\ pc[r] = "drained" => done[r]
    /\ done[r] => pc[r] \in {"drained", "answered"}

Inv == TypeOK /\ SlotsExact /\ Chosen /\ DoneWhenEnded

-----------------------------------------------------------------------------
(* Slots.                                                                  *)

LEMMA OwnersFinite ==
    ASSUME NEW b
    PROVE  IsFiniteSet(Owners(b)) /\ Cardinality(Owners(b)) \in Nat
<1>1. Owners(b) \subseteq Requests
    BY DEF Owners
<1> QED BY <1>1, RequestsAssumption, FS_Subset, FS_CardinalityType

\* Owning with abandoned requests is what InFlightExact counts in two parts.
LEMMA OwnersInTwo ==
    ASSUME NEW b
    PROVE  Cardinality(Owners(b)) = Cardinality(Holders(b)) + Cardinality(Abandoned(b))
<1>1. /\ Owners(b) = Holders(b) \cup Abandoned(b)
      /\ Holders(b) \cap Abandoned(b) = {}
      /\ Holders(b) \subseteq Requests /\ Abandoned(b) \subseteq Requests
    BY DEF Owners, Owning, Holders, Abandoned, Holding
<1>2. IsFiniteSet(Holders(b)) /\ IsFiniteSet(Abandoned(b))
    BY <1>1, RequestsAssumption, FS_Subset
<1>3. /\ Cardinality(Holders(b)) \in Nat /\ Cardinality(Abandoned(b)) \in Nat
    BY <1>2, FS_CardinalityType
<1>4. Cardinality(Holders(b) \cap Abandoned(b)) = 0
    BY <1>1, FS_EmptySet
<1>5. Cardinality(Owners(b)) = Cardinality(Holders(b)) + Cardinality(Abandoned(b))
                               - Cardinality(Holders(b) \cap Abandoned(b))
    BY <1>1, <1>2, FS_Union
<1> QED BY <1>3, <1>4, <1>5

\* A request that keeps its slot, or has none before and after.
LEMMA Stays ==
    ASSUME Inv, NEW r \in Requests, NEW from, NEW to, Step(r, from, to),
           from \in Owning <=> to \in Owning,
           \/ sid' = sid
           \/ from \notin Owning /\ \E b : sid' = [sid EXCEPT ![r] = b],
           in_flight' = in_flight
    PROVE  SlotsExact'
<1>1. /\ pc[r] = from /\ pc'[r] = to
      /\ \A q \in Requests : q # r => pc'[q] = pc[q] /\ sid'[q] = sid[q]
      /\ from \in Owning => sid'[r] = sid[r]
    BY DEF Step, Inv, TypeOK
<1>2. \A b : Owners(b)' = Owners(b)
    BY <1>1 DEF Owners
<1> QED BY <1>2 DEF Inv, SlotsExact

\* begin()
LEMMA Takes ==
    ASSUME Inv, NEW r \in Requests, NEW from, NEW to, Step(r, from, to),
           from \notin Owning, to \in Owning, sid[r] \in Backends, sid' = sid,
           Add(sid[r], 1)
    PROVE  SlotsExact'
<1>1. /\ pc[r] = from /\ pc'[r] = to
      /\ \A q \in Requests : q # r => pc'[q] = pc[q]
    BY DEF Step, Inv, TypeOK
<1>2. /\ Owners(sid[r])' = Owners(sid[r]) \cup {r} /\ r \notin Owners(sid[r])
      /\ \A b : b # sid[r] => Owners(b)' = Owners(b)
    BY <1>1 DEF Owners
<1>3. Cardinality(Owners(sid[r])') = Cardinality(Owners(sid[r])) + 1
    BY <1>2, OwnersFinite, FS_AddElement
<1>4. /\ in_flight'[sid[r]] = in_flight[sid[r]] + 1
      /\ \A b \in Backends : b # sid[r] => in_flight'[b] = in_flight[b]
    BY DEF Add, Inv, TypeOK
<1> QED BY <1>2, <1>3, <1>4 DEF Inv, SlotsExact

\* decrement()
LEMMA Gives ==
    ASSUME Inv, NEW r \in Requests, NEW from, NEW to, Step(r, from, to),
           from \in Owning, to \notin Owning, sid[r] \in Backends, sid' = sid,
           Add(sid[r], -1)
    PROVE  SlotsExact'
<1>1. /\ pc[r] = from /\ pc'[r] = to
      /\ \A q \in Requests : q # r => pc'[q] = pc[q]
    BY DEF Step, Inv, TypeOK
<1>2. /\ Owners(sid[r])' = Owners(sid[r]) \ {r} /\ r \in Owners(sid[r])
      /\ \A b : b # sid[r] => Owners(b)' = Owners(b)
    BY <1>1 DEF Owners
<1>3. Cardinality(Owners(sid[r])') = Cardinality(Owners(sid[r])) - 1
    BY <1>2, OwnersFinite, FS_RemoveElement
<1>4. /\ in_flight'[sid[r]] = in_flight[sid[r]] - 1
      /\ \A b \in Backends : b # sid[r] => in_flight'[b] = in_flight[b]
    BY DEF Add, Inv, TypeOK
<1> QED BY <1>2, <1>3, <1>4 DEF Inv, SlotsExact

-----------------------------------------------------------------------------
(* The handler's steps.                                                    *)

LEMMA StepEffect ==
    ASSUME TypeOK, NEW r \in Requests, NEW from, NEW to \in Points, Step(r, from, to)
    PROVE  /\ pc' \in [Requests -> Points]
           /\ pc[r] = from /\ pc'[r] = to
           /\ \A q \in Requests : q # r => pc'[q] = pc[q]
BY DEF Step, TypeOK

\* A step that touches neither slots nor bodies.
LEMMA PlainStep ==
    ASSUME Inv, NEW r \in Requests, NEW from, NEW to \in Points, Step(r, from, to),
           from \in Owning <=> to \in Owning,
           to \in Owning \cup {"begin", "failed"} => from \in Owning \cup {"begin", "failed"},
           from # "drained", to # "drained", from # "answered",
           UNCHANGED <<server, sid, done, in_flight>>,
           recorded' \in [Backends -> Nat]
    PROVE  Inv'
<1>1. /\ algorithm' = algorithm /\ phase' = phase /\ rr_cursor' = rr_cursor
      /\ sid' = sid /\ done' = done /\ in_flight' = in_flight
    BY DEF server
<1>2. /\ pc' \in [Requests -> Points] /\ pc[r] = from /\ pc'[r] = to
      /\ \A q \in Requests : q # r => pc'[q] = pc[q]
    BY StepEffect DEF Inv
<1>3. TypeOK'
    BY <1>1, <1>2 DEF Inv, TypeOK
<1>4. SlotsExact'
    BY <1>1, Stays
<1>5. Chosen'
    BY <1>1, <1>2 DEF Inv, Chosen
<1>6. DoneWhenEnded'
    <2>1. ~done[r]
        BY <1>2 DEF Inv, DoneWhenEnded
    <2> QED BY <1>1, <1>2, <2>1 DEF Inv, DoneWhenEnded
<1> QED BY <1>3, <1>4, <1>5, <1>6 DEF Inv

\* A step that gives a slot back, other than finish().
LEMMA GivingStep ==
    ASSUME Inv, NEW r \in Requests, NEW from \in {"build", "awaiting"},
           NEW to \in {"answered", "failed"}, Step(r, from, to),
           Add(sid[r], -1), UNCHANGED <<server, sid, done, recorded>>
    PROVE  Inv'
<1>1. /\ algorithm' = algorithm /\ phase' = phase /\ rr_cursor' = rr_cursor
      /\ sid' = sid /\ done' = done /\ recorded' = recorded
    BY DEF server
<1>2. to \in Points /\ from \in Owning /\ to \notin Owning
    BY DEF Points, Handling, Owning, Holding
<1>3. /\ pc' \in [Requests -> Points] /\ pc[r] = from /\ pc'[r] = to
      /\ \A q \in Requests : q # r => pc'[q] = pc[q]
    BY <1>2, StepEffect DEF Inv
<1>4. sid[r] \in Backends
    BY <1>2, <1>3 DEF Inv, Chosen
<1>5. SlotsExact'
    BY <1>1, <1>2, <1>4, Gives
<1>6. in_flight' \in [Backends -> Int]
    BY <1>4 DEF Add, Inv, TypeOK
<1>7. TypeOK'
    BY <1>1, <1>3, <1>6 DEF Inv, TypeOK
<1>8. Chosen'
    BY <1>1, <1>3, <1>4 DEF Inv, Chosen
<1>9. DoneWhenEnded'
    <2>1. ~done[r] /\ to # "drained"
        BY <1>3 DEF Inv, DoneWhenEnded
    <2> QED BY <1>1, <1>3, <2>1 DEF Inv, DoneWhenEnded
<1> QED BY <1>5, <1>7, <1>8, <1>9 DEF Inv

LEMMA ChooseServerKeeps ==
    ASSUME Inv, NEW r \in Requests, ChooseServer(r)
    PROVE  Inv'
<1>1. /\ Step(r, "choose", "begin")
      /\ algorithm' = algorithm /\ phase' = phase /\ done' = done
      /\ in_flight' = in_flight /\ recorded' = recorded
      /\ rr_cursor' \in Nat
    BY DEF ChooseServer, health, Inv, TypeOK
<1>2. PICK b \in Backends : sid' = [sid EXCEPT ![r] = b]
    <2>1. RoundRobinIndex(rr_cursor) \in Backends
        BY PoolAssumption DEF RoundRobinIndex, Backends, Inv, TypeOK
    <2> QED BY <2>1 DEF ChooseServer
<1>3. /\ "begin" \in Points /\ "choose" \notin Owning /\ "begin" \notin Owning
    BY DEF Points, Handling, Owning, Holding
<1>4. /\ pc' \in [Requests -> Points] /\ pc[r] = "choose" /\ pc'[r] = "begin"
      /\ \A q \in Requests : q # r => pc'[q] = pc[q]
    BY <1>1, <1>3, StepEffect DEF Inv
<1>5. /\ sid' \in [Requests -> Backends \cup {NoBackend}] /\ sid'[r] = b
      /\ \A q \in Requests : q # r => sid'[q] = sid[q]
    BY <1>2 DEF Inv, TypeOK
<1>6. TypeOK'
    BY <1>1, <1>4, <1>5 DEF Inv, TypeOK
<1>7. SlotsExact'
    BY <1>1, <1>2, <1>3, Stays
<1>8. Chosen'
    BY <1>4, <1>5 DEF Inv, Chosen
<1>9. DoneWhenEnded'
    BY <1>1, <1>4 DEF Inv, DoneWhenEnded
<1> QED BY <1>6, <1>7, <1>8, <1>9 DEF Inv

LEMMA BeginKeeps ==
    ASSUME Inv, NEW r \in Requests, Begin(r)
    PROVE  Inv'
<1>1. /\ Step(r, "begin", "build") /\ Add(sid[r], 1)
      /\ algorithm' = algorithm /\ phase' = phase /\ rr_cursor' = rr_cursor
      /\ sid' = sid /\ done' = done /\ recorded' = recorded
    BY DEF Begin, server
<1>2. "build" \in Points /\ "begin" \notin Owning /\ "build" \in Owning
    BY DEF Points, Handling, Owning, Holding
<1>3. /\ pc' \in [Requests -> Points] /\ pc[r] = "begin" /\ pc'[r] = "build"
      /\ \A q \in Requests : q # r => pc'[q] = pc[q]
    BY <1>1, <1>2, StepEffect DEF Inv
<1>4. sid[r] \in Backends
    BY <1>3 DEF Inv, Chosen
<1>5. SlotsExact'
    BY <1>1, <1>2, <1>4, Takes
<1>6. in_flight' \in [Backends -> Int]
    BY <1>1, <1>4 DEF Add, Inv, TypeOK
<1>7. TypeOK'
    BY <1>1, <1>3, <1>6 DEF Inv, TypeOK
<1>8. Chosen'
    BY <1>1, <1>3, <1>4 DEF Inv, Chosen
<1>9. DoneWhenEnded'
    BY <1>1, <1>3 DEF Inv, DoneWhenEnded
<1> QED BY <1>5, <1>7, <1>8, <1>9 DEF Inv

\* finish() runs at the end of the body or when it is dropped before, and never twice.
LEMMA BodyKeeps ==
    ASSUME Inv, NEW r \in Requests, BodyEnds(r) \/ DropBody(r)
    PROVE  Inv'
<1>1. PICK from \in {"streaming", "drained"}, to \in {"drained", "answered"} :
          Step(r, from, to) /\ (to = "drained" => from = "streaming")
    BY DEF BodyEnds, DropBody
<1>2. /\ Finish(r)
      /\ algorithm' = algorithm /\ phase' = phase /\ rr_cursor' = rr_cursor
      /\ sid' = sid /\ recorded' = recorded
    BY DEF BodyEnds, DropBody, server
<1>3. /\ to \in Points /\ to \notin Owning
      /\ "streaming" \in Owning /\ "drained" \notin Owning
    BY DEF Points, Handling, Owning, Holding
<1>4. /\ pc' \in [Requests -> Points] /\ pc[r] = from /\ pc'[r] = to
      /\ \A q \in Requests : q # r => pc'[q] = pc[q]
    BY <1>1, <1>3, StepEffect DEF Inv
<1>5. Chosen'
    BY <1>2, <1>3, <1>4 DEF Inv, Chosen
<1>6. CASE from = "streaming"
    <2>1. ~done[r] /\ sid[r] \in Backends
        BY <1>3, <1>4, <1>6 DEF Inv, DoneWhenEnded, Chosen
    <2>2. Add(sid[r], -1) /\ done' = [done EXCEPT ![r] = TRUE]
        BY <1>2, <2>1 DEF Finish
    <2>3. SlotsExact'
        BY <1>1, <1>2, <1>3, <1>6, <2>1, <2>2, Gives
    <2>4. in_flight' \in [Backends -> Int] /\ done' \in [Requests -> BOOLEAN]
        BY <2>1, <2>2 DEF Add, Inv, TypeOK
    <2>5. TypeOK'
        BY <1>2, <1>4, <2>4 DEF Inv, TypeOK
    <2>6. DoneWhenEnded'
        BY <1>4, <2>2 DEF Inv, TypeOK, DoneWhenEnded
    <2> QED BY <1>5, <2>3, <2>5, <2>6 DEF Inv
<1>7. CASE from = "drained"
    <2>1. done[r] /\ to = "answered"
        BY <1>1, <1>4, <1>7 DEF Inv, DoneWhenEnded
    <2>2. in_flight' = in_flight /\ done' = done
        BY <1>2, <2>1 DEF Finish
    <2>3. SlotsExact'
        BY <1>1, <1>2, <1>3, <1>7, <2>2, Stays
    <2>4. TypeOK'
        BY <1>2, <1>4, <2>2 DEF Inv, TypeOK
    <2>5. DoneWhenEnded'
        BY <1>4, <2>1, <2>2 DEF Inv, DoneWhenEnded
    <2> QED BY <1>5, <2>3, <2>4, <2>5 DEF Inv
<1> QED BY <1>6, <1>7

LEMMA RecordKeeps ==
    ASSUME Inv, NEW r \in Requests, RecordAnswer(r) \/ RecordFailure(r)
    PROVE  Inv'
<1>1. PICK from \in {"record", "failed"}, to \in {"streaming", "answered"} :
          Step(r, from, to) /\ (from = "record" <=> to = "streaming")
    BY DEF RecordAnswer, RecordFailure
<1>2. /\ UNCHANGED <<server, sid, done, in_flight>>
      /\ recorded' = [recorded EXCEPT ![sid[r]] = @ + 1]
    BY DEF RecordAnswer, RecordFailure
<1>3. pc[r] = from /\ to \in Points /\ from \in Owning \cup {"begin", "failed"}
    BY <1>1 DEF Step, Points, Handling, Owning, Holding
<1>4. sid[r] \in Backends
    BY <1>3 DEF Inv, Chosen
<1>5. recorded' \in [Backends -> Nat]
    BY <1>2, <1>4 DEF Inv, TypeOK
<1>6. from \in Owning <=> to \in Owning
    BY <1>1 DEF Owning, Holding
<1> QED BY <1>1, <1>2, <1>3, <1>5, <1>6, PlainStep

LEMMA WaitingKeeps ==
    ASSUME Inv, NEW r \in Requests,
           Accept(r) \/ Probe(r) \/ SendUpstream(r) \/ UpstreamAnswers(r) \/ ClientAborts(r)
    PROVE  Inv'
<1>1. UNCHANGED <<server, sid, done, in_flight>> /\ recorded' = recorded
    BY DEF Accept, Probe, SendUpstream, UpstreamAnswers, ClientAborts, health
<1>2. recorded' \in [Backends -> Nat]
    BY <1>1 DEF Inv, TypeOK
<1>3. PICK from, to :
          /\ Step(r, from, to) /\ to \in Points
          /\ from \in Owning <=> to \in Owning
          /\ to \notin {"begin", "failed"}
          /\ from \notin {"drained", "answered"} /\ to # "drained"
    BY DEF Accept, Probe, SendUpstream, UpstreamAnswers, ClientAborts,
       Points, Handling, Owning, Holding
<1> QED BY <1>1, <1>2, <1>3, PlainStep

LEMMA FailuresKeep ==
    ASSUME Inv, NEW r \in Requests, BuildFails(r) \/ UpstreamFails(r)
    PROVE  Inv'
BY GivingStep DEF BuildFails, UpstreamFails

LEMMA ShutdownKeeps ==
    ASSUME Inv, Shutdown
    PROVE  Inv'
<1>1. /\ algorithm' = algorithm /\ pc' = pc /\ sid' = sid /\ done' = done
      /\ rr_cursor' = rr_cursor /\ in_flight' = in_flight /\ recorded' = recorded
      /\ phase' \in {"accepting", "draining", "drained", "timed_out"}
    BY DEF Shutdown, ShutdownSignal, Drained, DrainTimeout, health
<1>2. TypeOK' /\ Chosen' /\ DoneWhenEnded'
    BY <1>1 DEF Inv, TypeOK, Chosen, DoneWhenEnded
<1>3. \A b : Owners(b)' = Owners(b)
    BY <1>1 DEF Owners
<1>4. SlotsExact'
    BY <1>1, <1>3 DEF Inv, SlotsExact
<1> QED BY <1>2, <1>4 DEF Inv

-----------------------------------------------------------------------------
(* The theorems.                                                           *)

LEMMA InitOK ==
    ASSUME Init
    PROVE  Inv
<1>1. TypeOK
    BY DEF Init, TypeOK, Points
<1>2. \A r \in Requests : pc[r] = "new" /\ done[r] = FALSE
    BY DEF Init
<1>3. "new" \notin Owning
    BY DEF Owning, Holding
<1>4. \A b : Owners(b) = {}
    BY <1>2, <1>3 DEF Owners
<1>5. SlotsExact
    BY <1>4, FS_EmptySet DEF SlotsExact, Init
<1>6. Chosen /\ DoneWhenEnded
    BY <1>2, <1>3 DEF Chosen, DoneWhenEnded
<1> QED BY <1>1, <1>5, <1>6 DEF Inv

LEMMA NextKeeps ==
    ASSUME Inv, [Next]_vars
    PROVE  Inv'
<1>1. ASSUME NEW r \in Requests, Handle(r) \/ Environment(r) PROVE Inv'
    BY <1>1, ChooseServerKeeps, BeginKeeps, BodyKeeps, RecordKeeps, WaitingKeeps, FailuresKeep
    DEF Handle, Environment
<1>2. CASE UNCHANGED vars
    <2>1. TypeOK' /\ Chosen' /\ DoneWhenEnded'
        BY <1>2 DEF vars, Inv, TypeOK, Chosen, DoneWhenEnded
    <2>2. in_flight' = in_flight /\ \A b : Owners(b)' = Owners(b)
        BY <1>2 DEF vars, Owners
    <2>3. SlotsExact'
        BY <2>2 DEF Inv, SlotsExact
    <2> QED BY <2>1, <2>3 DEF Inv
<1> QED BY <1>1, <1>2, ShutdownKeeps DEF Next

\* Slots, choices and finished bodies agree with where every handler stands.
THEOREM ProxyInvariant == Spec => []Inv
<1> QED BY InitOK, NextKeeps, PTL DEF Spec

\* Every variable keeps its type; in particular the cursor always names a backend.
THEOREM ProxyTypes == Spec => []TypeOK
<1>1. Inv => TypeOK
    BY DEF Inv
<1> QED BY <1>1, ProxyInvariant, PTL

\* begin() is matched by exactly one decrement() (handle, TrackedBody), but for handlers
\* dropped while they wait.
THEOREM SlotsAreExact == Spec => []InFlightExact
<1>1. Inv => InFlightExact
    BY OwnersInTwo DEF Inv, SlotsExact, InFlightExact
<1> QED BY <1>1, ProxyInvariant, PTL

-----------------------------------------------------------------------------
(* The drain.                                                              *)

\* A drain that completes (run_until, without DRAIN_TIMEOUT) has cut off no connection,
\* and the only slots still taken are those of handlers that were dropped while they
\* waited for their backend.
DrainCutsNothingOff ==
    phase = "drained" =>
        /\ AllConnectionsFinished
        /\ \A b \in Backends : in_flight[b] = Cardinality(Abandoned(b))

LEMMA DrainKeeps ==
    ASSUME Inv, phase = "drained" => AllConnectionsFinished, [Next]_vars
    PROVE  phase' = "drained" => AllConnectionsFinished'
<1>1. ASSUME UNCHANGED <<phase, pc>>
      PROVE  phase' = "drained" => AllConnectionsFinished'
    BY <1>1 DEF AllConnectionsFinished
<1>2. ASSUME NEW r \in Requests, Handle(r) \/ Environment(r) PROVE phase' # "drained"
  <2>1. PICK from \in Points, to \in Points : Step(r, from, to)
      BY <1>2 DEF Handle, Environment, Probe, ChooseServer, Begin, BuildFails, SendUpstream,
                  RecordAnswer, RecordFailure, Accept, UpstreamAnswers, UpstreamFails, BodyEnds,
                  DropBody, ClientAborts, Points, Handling
  <2>2. phase \in {"accepting", "draining"}
      BY <2>1 DEF Step, Running
  <2>3. phase' = phase
      BY <1>2 DEF Handle, Environment, Probe, ChooseServer, Begin, BuildFails, SendUpstream,
                  RecordAnswer, RecordFailure, Accept, UpstreamAnswers, UpstreamFails, BodyEnds,
                  DropBody, ClientAborts, server
  <2> QED BY <2>2, <2>3
<1>3. CASE Shutdown
    BY <1>3 DEF Shutdown, ShutdownSignal, Drained, DrainTimeout, AllConnectionsFinished
<1>4. CASE UNCHANGED vars
    BY <1>1, <1>4 DEF vars
<1> QED BY <1>2, <1>3, <1>4 DEF Next

\* Nothing that run_until accepted is lost when the drain completes, and nothing but
\* dropped handlers keeps a slot (GracefulShutdown, TrackedBody).
THEOREM DrainIsComplete == Spec => []DrainCutsNothingOff
<1> DEFINE Finished == phase = "drained" => AllConnectionsFinished
<1>1. Init => Finished
    BY DEF Init
<1>2. Inv /\ Finished /\ [Next]_vars => Finished'
    BY DrainKeeps
<1>3. Inv /\ Finished => DrainCutsNothingOff
  <2> SUFFICES ASSUME Inv, phase = "drained", AllConnectionsFinished, NEW b \in Backends
               PROVE  in_flight[b] = Cardinality(Abandoned(b))
      BY DEF DrainCutsNothingOff
  <2>1. Owners(b) = Abandoned(b)
      BY DEF AllConnectionsFinished, Handling, Owners, Owning, Holding, Abandoned
  <2> QED BY <2>1 DEF Inv, SlotsExact
<1> QED BY <1>1, <1>2, <1>3, ProxyInvariant, PTL DEF Spec
=============================================================================
