------------------------------ MODULE LbProxy ------------------------------
(***************************************************************************)
(* The reverse proxy (lb-proxy/src/proxy.rs): the accept loop with its     *)
(* graceful shutdown, the request handler, the in-flight count of every    *)
(* backend, and the tracked response body that gives the slot back.  Each  *)
(* request runs on a connection of its own; the handler's steps interleave *)
(* with those of the other requests, because the runtime is multi-threaded.*)
(*                                                                         *)
(* Which backend the power-of-two-choices router returns depends on random *)
(* candidates and on weights that change behind the request's back, so it  *)
(* is any backend here.  Method, headers and body are left out.            *)
(***************************************************************************)
EXTENDS Integers, FiniteSets

CONSTANTS
    N,          \* size of the backend pool
    Requests    \* client connections, each carrying one request

\* Config::from_env refuses an empty pool.
ASSUME PoolAssumption == N \in Nat \ {0}
ASSUME RequestsAssumption == IsFiniteSet(Requests)

VARIABLES
    algorithm,   \* the configured RoutingAlgorithm; never changes
    phase,       \* run_until: "accepting", "draining", "drained", "timed_out"
    pc,          \* pc[r]: where the handler of request r stands
    sid,         \* sid[r]: the backend chosen for r
    done,        \* done[r]: TrackedBody.done of r's response
    rr_cursor,   \* round-robin cursor
    in_flight,   \* in_flight[b]: ServerHealth.in_flight
    recorded     \* recorded[b]: ServerHealth.total_requests

server == <<algorithm, phase, rr_cursor>>
health == <<in_flight, recorded>>
vars == <<algorithm, phase, pc, sid, done, rr_cursor, in_flight, recorded>>

Backends == 0 .. N - 1
NoBackend == -1

\* The points at which a handler or its response body is alive.
Handling == {"choose", "begin", "build", "awaiting", "record", "failed",
             "streaming", "drained"}

\* The points at which a request owns one of its backend's in-flight slots:
\* between begin() and the one decrement() its path leads to.
Holding == {"build", "awaiting", "record", "streaming"}

\* "abandoned": the connection went away while handle() awaited the backend,
\* so the handler's future was dropped and neither arm of the match ran.
Points == Handling \cup {"new", "answered", "abandoned"}

TypeOK ==
    /\ algorithm \in {"p2c", "round_robin"}
    /\ phase \in {"accepting", "draining", "drained", "timed_out"}
    /\ pc \in [Requests -> Points]
    /\ sid \in [Requests -> Backends \cup {NoBackend}]
    /\ done \in [Requests -> BOOLEAN]
    /\ rr_cursor \in Nat
    /\ in_flight \in [Backends -> Int]
    /\ recorded \in [Backends -> Nat]

Init ==
    /\ algorithm \in {"p2c", "round_robin"}
    /\ phase = "accepting"
    /\ pc = [r \in Requests |-> "new"]
    /\ sid = [r \in Requests |-> NoBackend]
    /\ done = [r \in Requests |-> FALSE]
    /\ rr_cursor = 0
    /\ in_flight = [b \in Backends |-> 0]
    /\ recorded = [b \in Backends |-> 0]

Running == phase \in {"accepting", "draining"}

\* Request r moves from one point of the handler to another.
Step(r, from, to) ==
    /\ Running
    /\ pc[r] = from
    /\ pc' = [pc EXCEPT ![r] = to]

-----------------------------------------------------------------------------
(* The handler.                                                            *)

\* listener.accept(); the select is biased towards shutdown, so a connection
\* that arrives with the signal stays in the listen queue.
Accept(r) ==
    /\ phase = "accepting"
    /\ Step(r, "new", "choose")
    /\ UNCHANGED <<server, sid, done, health>>

\* GET /health and GET /metrics are answered without a backend.
Probe(r) ==
    /\ Step(r, "choose", "answered")
    /\ UNCHANGED <<server, sid, done, health>>

\* The backend under the cursor.  The mutated form forgets to wrap at the end
\* of the pool.
RoundRobinIndexUnwrapped(c) == c
RoundRobinIndex(c) == c % N

\* The routing decision, and server_health(), which finds every backend.
ChooseServer(r) ==
    /\ Step(r, "choose", "begin")
    /\ \/ /\ algorithm = "p2c"
          /\ \E b \in Backends : sid' = [sid EXCEPT ![r] = b]
          /\ UNCHANGED rr_cursor
       \/ /\ algorithm = "round_robin"
          /\ sid' = [sid EXCEPT ![r] = RoundRobinIndex(rr_cursor)]
          /\ rr_cursor' = rr_cursor + 1
    /\ UNCHANGED <<algorithm, phase, done, health>>

Add(b, n) == in_flight' = [in_flight EXCEPT ![b] = @ + n]

\* health.begin()
Begin(r) ==
    /\ Step(r, "begin", "build")
    /\ Add(sid[r], 1)
    /\ UNCHANGED <<server, sid, done, recorded>>

\* The outbound request could not be built: decrement() and a 502.  The
\* mutated form returns without decrement().
BuildFailsKeepingSlot(r) ==
    /\ Step(r, "build", "answered")
    /\ UNCHANGED <<server, sid, done, health>>
BuildFails(r) ==
    /\ Step(r, "build", "answered")
    /\ Add(sid[r], -1)
    /\ UNCHANGED <<server, sid, done, recorded>>

\* client.request(out_req).await
SendUpstream(r) ==
    /\ Step(r, "build", "awaiting")
    /\ UNCHANGED <<server, sid, done, health>>

\* The backend's response head arrives.
UpstreamAnswers(r) ==
    /\ Step(r, "awaiting", "record")
    /\ UNCHANGED <<server, sid, done, health>>

\* record_backend_health(), then the body is wrapped in a TrackedBody.
RecordAnswer(r) ==
    /\ Step(r, "record", "streaming")
    /\ recorded' = [recorded EXCEPT ![sid[r]] = @ + 1]
    /\ UNCHANGED <<server, sid, done, in_flight>>

\* The call failed: the slot goes back first, then the failure is recorded.
UpstreamFails(r) ==
    /\ Step(r, "awaiting", "failed")
    /\ Add(sid[r], -1)
    /\ UNCHANGED <<server, sid, done, recorded>>

RecordFailure(r) ==
    /\ Step(r, "failed", "answered")
    /\ recorded' = [recorded EXCEPT ![sid[r]] = @ + 1]
    /\ UNCHANGED <<server, sid, done, in_flight>>

\* TrackedBody.finish: only the first call runs on_done.  The mutated form has
\* lost its done flag.
FinishAlways(r) ==
    /\ Add(sid[r], -1)
    /\ done' = [done EXCEPT ![r] = TRUE]
Finish(r) ==
    IF done[r] THEN UNCHANGED <<in_flight, done>>
    ELSE /\ Add(sid[r], -1)
         /\ done' = [done EXCEPT ![r] = TRUE]

\* poll_frame returns Ready(None) or an error frame.
BodyEnds(r) ==
    /\ Step(r, "streaming", "drained")
    /\ Finish(r)
    /\ UNCHANGED <<server, sid, recorded>>

\* The body is dropped: after its end, or with the client's connection while
\* it was still streaming.
DropBody(r) ==
    /\ \E from \in {"streaming", "drained"} : Step(r, from, "answered")
    /\ Finish(r)
    /\ UNCHANGED <<server, sid, recorded>>

\* The client's connection goes away while handle() awaits the backend: hyper
\* drops the connection and with it the handler's future.  Nothing that would
\* decrement in_flight is alive at that point.
ClientAborts(r) ==
    /\ Step(r, "awaiting", "abandoned")
    /\ UNCHANGED <<server, sid, done, health>>

-----------------------------------------------------------------------------
(* Shutdown.                                                               *)

\* SIGTERM or Ctrl-C ends the accept loop.
ShutdownSignal ==
    /\ phase = "accepting"
    /\ phase' = "draining"
    /\ UNCHANGED <<algorithm, pc, sid, done, rr_cursor, health>>

\* GracefulShutdown waits for every connection it watches.
AllConnectionsFinished == \A r \in Requests : pc[r] \notin Handling

\* graceful.shutdown() resolves.  In the mutated form the accept loop does not
\* hand its connections to graceful.watch().
DrainedUnwatched ==
    /\ phase = "draining"
    /\ phase' = "drained"
    /\ UNCHANGED <<algorithm, pc, sid, done, rr_cursor, health>>
Drained ==
    /\ phase = "draining"
    /\ AllConnectionsFinished
    /\ phase' = "drained"
    /\ UNCHANGED <<algorithm, pc, sid, done, rr_cursor, health>>

\* DRAIN_TIMEOUT passes with connections still in flight.  The mutated form
\* waits for the backends without a limit.
DrainTimeoutUnbounded ==
    /\ phase = "draining"
    /\ AllConnectionsFinished
    /\ phase' = "timed_out"
    /\ UNCHANGED <<algorithm, pc, sid, done, rr_cursor, health>>
DrainTimeout ==
    /\ phase = "draining"
    /\ ~AllConnectionsFinished
    /\ phase' = "timed_out"
    /\ UNCHANGED <<algorithm, pc, sid, done, rr_cursor, health>>

-----------------------------------------------------------------------------

Handle(r) ==
    \/ Probe(r) \/ ChooseServer(r) \/ Begin(r)
    \/ BuildFails(r) \/ SendUpstream(r)
    \/ RecordAnswer(r) \/ RecordFailure(r)

Environment(r) ==
    \/ Accept(r) \/ UpstreamAnswers(r) \/ UpstreamFails(r)
    \/ BodyEnds(r) \/ DropBody(r) \/ ClientAborts(r)

Shutdown == ShutdownSignal \/ Drained \/ DrainTimeout

Next == (\E r \in Requests : Handle(r) \/ Environment(r)) \/ Shutdown

Spec == Init /\ [][Next]_vars

\* The runtime polls a handler that is not waiting, the drain and its timer.
\* Clients and backends owe nothing: the outbound call has no timeout.
Fairness ==
    /\ \A r \in Requests : WF_vars(Handle(r))
    /\ WF_vars(Drained)
    /\ WF_vars(DrainTimeout)

FairSpec == Spec /\ Fairness

-----------------------------------------------------------------------------
(* Properties.                                                             *)

Over(r) == pc[r] \in {"answered", "abandoned"}

\* Requests that own a slot of backend b.
Holders(b) == {r \in Requests : sid[r] = b /\ pc[r] \in Holding}

\* Requests of backend b whose handler was dropped while it waited.
Abandoned(b) == {r \in Requests : sid[r] = b /\ pc[r] = "abandoned"}

\* Whatever way a request ends (502, full body, error frame, body dropped in
\* the middle), begin() is matched by exactly one decrement(): a backend's
\* in_flight is the number of requests that own one of its slots.  The one
\* exception is a handler dropped while it awaits the backend.
InFlightExact ==
    \A b \in Backends :
        in_flight[b] = Cardinality(Holders(b)) + Cardinality(Abandoned(b))

\* lb-proxy/src/tests.rs states that an aborting client gives its slot back:
\* once every request is over, no backend has requests in flight.
InFlightReleased ==
    (\A r \in Requests : pc[r] = "new" \/ Over(r)) =>
        \A b \in Backends : in_flight[b] = 0

\* A shutdown signal ends the process although backends may never answer.
ShutdownTerminates ==
    phase = "draining" ~> phase \in {"drained", "timed_out"}

\* Backends answer or refuse every call, and clients read or drop every body.
PeersRespond ==
    \A r \in Requests :
        /\ WF_vars(UpstreamAnswers(r) \/ UpstreamFails(r))
        /\ WF_vars(DropBody(r))

\* With such peers a shutdown cuts off no request it has accepted, at whatever
\* point the signal finds it, unless DRAIN_TIMEOUT passes first.
AcceptedIsServed ==
    PeersRespond =>
        \A r \in Requests :
            pc[r] \in Handling ~> (Over(r) \/ phase = "timed_out")
=============================================================================
