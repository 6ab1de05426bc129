------------------------------ MODULE Shutdown ------------------------------
(***************************************************************************)
(* A backend pod from listening to exit: the requests on its sockets with  *)
(* the in-flight gauge (shared/metrics/registry.ts), its Kafka consumer,   *)
(* which crashes and restarts, the hold-expiry jobs of its worker, and its *)
(* graceful shutdown (shutdown.ts): the signal handler with its force-exit *)
(* budget, the five teardown steps in their order, and the reaper that     *)
(* closes keep-alive sockets as their responses finish.                    *)
(***************************************************************************)
EXTENDS Integers, Sequences, FiniteSets

CONSTANTS
    Conns,   \* client connections, each may carry several requests
    Jobs     \* hold-expiry jobs this pod's worker may take

ASSUME ConnsAssumption == IsFiniteSet(Conns)

VARIABLES
    sock,        \* sock[c]: "none", "idle", "busy" (response unfinished), "closed"
    handlers,    \* connections whose request handler is running
    closable,    \* ... whose request is still to emit its close event
    counted,     \* ... whose request's inFlightAccountedFor is false
    gauge,       \* http_requests_in_flight
    listening,   \* the http server accepts connections
    reaping,     \* the drain reaper's draining flag
    job,         \* job[j]: "waiting", "active", "done"
    taking,      \* the worker fetches jobs
    producer,    \* the Kafka producer is connected
    consumer,    \* the CDC consumer: "connected", "crashed", "stopped"
    missed,      \* history: stopCdcConsumer() found its flag down
    pool,        \* the PostgreSQL pool is open
    step,        \* teardown step in progress; 0 before the signal
    failed,      \* teardown steps that threw
    exit         \* "running", or the exit code: "0", "1"

http == <<sock, handlers, closable, counted, gauge, listening>>
kafka == <<producer, consumer, missed>>
worker == <<job, taking>>
shutdown == <<reaping, step, failed, exit>>
vars == <<http, kafka, worker, pool, shutdown>>

\* gracefulShutdown's steps.  The mutated form closes the pool before the worker.
StepsPoolFirst == <<"http-server", "kafka-producer", "kafka-cdc-consumer",
                    "postgres-pool", "hold-expiry-worker">>
Steps == <<"http-server", "kafka-producer", "kafka-cdc-consumer",
           "hold-expiry-worker", "postgres-pool">>
StepNames == {Steps[i] : i \in 1 .. Len(Steps)}

TypeOK ==
    /\ sock \in [Conns -> {"none", "idle", "busy", "closed"}]
    /\ handlers \subseteq Conns /\ closable \subseteq Conns /\ counted \subseteq Conns
    /\ gauge \in Int
    /\ listening \in BOOLEAN /\ reaping \in BOOLEAN
    /\ job \in [Jobs -> {"waiting", "active", "done"}]
    /\ taking \in BOOLEAN /\ pool \in BOOLEAN
    /\ producer \in BOOLEAN /\ missed \in BOOLEAN
    /\ consumer \in {"connected", "crashed", "stopped"}
    /\ step \in 0 .. Len(Steps) + 1
    /\ failed \subseteq StepNames
    /\ exit \in {"running", "0", "1"}

\* start() has come to its end: the producer and the consumer are connected, the
\* worker runs, the signal handlers are installed, and the server listens.
Init ==
    /\ sock = [c \in Conns |-> "none"]
    /\ handlers = {} /\ closable = {} /\ counted = {}
    /\ gauge = 0
    /\ listening = TRUE
    /\ reaping = FALSE
    /\ job = [j \in Jobs |-> "waiting"]
    /\ taking = TRUE
    /\ producer = TRUE /\ consumer = "connected" /\ missed = FALSE
    /\ pool = TRUE
    /\ step = 0
    /\ failed = {}
    /\ exit = "running"

Alive == exit = "running"

-----------------------------------------------------------------------------
(* Work.                                                                   *)

Connect(c) ==
    /\ Alive /\ listening
    /\ sock[c] = "none"
    /\ sock' = [sock EXCEPT ![c] = "idle"]
    /\ UNCHANGED <<handlers, closable, counted, gauge, listening>>
    /\ UNCHANGED <<kafka, worker, pool, shutdown>>

\* A request on a new or a kept-alive socket; the onRequest hook.
Request(c) ==
    /\ Alive
    /\ sock[c] = "idle" /\ c \notin closable
    /\ sock' = [sock EXCEPT ![c] = "busy"]
    /\ handlers' = handlers \cup {c}
    /\ closable' = closable \cup {c}
    /\ counted' = counted \cup {c}
    /\ gauge' = gauge + 1
    /\ UNCHANGED <<listening, kafka, worker, pool, shutdown>>

\* The hook's close listener and the onResponse hook: whichever comes first
\* takes the request out of the gauge.  The mutated form does not ask.
AccountAlways(c) ==
    /\ counted' = counted \ {c}
    /\ gauge' = gauge - 1
Account(c) ==
    /\ counted' = counted \ {c}
    /\ gauge' = IF c \in counted THEN gauge - 1 ELSE gauge

\* The request's close event: its client has gone, or its response is finished,
\* or, for a request with a body, the body has been read.
RequestCloses(c) ==
    /\ Alive
    /\ c \in closable
    /\ closable' = closable \ {c}
    /\ Account(c)
    /\ UNCHANGED <<sock, handlers, listening, kafka, worker, pool, shutdown>>

\* closeIdleConnections() skips sockets with an unfinished response.
CloseIdleConnections(s) ==
    [c \in Conns |-> IF s[c] = "idle" THEN "closed" ELSE s[c]]

\* The reaper's listener on a response's finish event.  The mutated form has no
\* reaper: close() alone reaps idle sockets, once.
ReapOnFinishNever(s) == s
ReapOnFinish(s) == IF reaping THEN CloseIdleConnections(s) ELSE s

\* The response is flushed and its socket idle; the onResponse hook.
Respond(c) ==
    /\ Alive
    /\ sock[c] = "busy"
    /\ sock' = ReapOnFinish([sock EXCEPT ![c] = "idle"])
    /\ handlers' = handlers \ {c}
    /\ Account(c)
    /\ UNCHANGED <<closable, listening, kafka, worker, pool, shutdown>>

\* A client may hang up at any time; the handler of its request runs on.
ClientCloses(c) ==
    /\ Alive
    /\ sock[c] \in {"idle", "busy"}
    /\ sock' = [sock EXCEPT ![c] = "closed"]
    /\ UNCHANGED <<handlers, closable, counted, gauge, listening>>
    /\ UNCHANGED <<kafka, worker, pool, shutdown>>

\* A handler ends whose client has gone: there is no finish event, and the
\* onResponse hook does not run.
OrphanEnds(c) ==
    /\ Alive
    /\ c \in handlers /\ sock[c] = "closed"
    /\ handlers' = handlers \ {c}
    /\ UNCHANGED <<sock, closable, counted, gauge, listening>>
    /\ UNCHANGED <<kafka, worker, pool, shutdown>>

\* kafkajs: the consumer crashes, and connects again unless it was disconnected.
ConsumerCrashes ==
    /\ Alive
    /\ consumer = "connected"
    /\ consumer' = "crashed"
    /\ UNCHANGED <<http, producer, missed, worker, pool, shutdown>>

ConsumerRestarts ==
    /\ Alive
    /\ consumer = "crashed"
    /\ consumer' = "connected"
    /\ UNCHANGED <<http, producer, missed, worker, pool, shutdown>>

TakeJob(j) ==
    /\ Alive /\ taking
    /\ job[j] = "waiting"
    /\ job' = [job EXCEPT ![j] = "active"]
    /\ UNCHANGED <<http, kafka, taking, pool, shutdown>>

FinishJob(j) ==
    /\ Alive
    /\ job[j] = "active"
    /\ job' = [job EXCEPT ![j] = "done"]
    /\ UNCHANGED <<http, kafka, taking, pool, shutdown>>

-----------------------------------------------------------------------------
(* Teardown.                                                               *)

\* The first signal starts the drain: beginDrain, app.close() (which reaches
\* the http server only after Fastify's preClose hooks), closeIdleConnections.
FirstSignal ==
    /\ Alive /\ step = 0
    /\ step' = 1
    /\ reaping' = TRUE
    /\ sock' = CloseIdleConnections(sock)
    /\ UNCHANGED <<handlers, closable, counted, gauge, listening>>
    /\ UNCHANGED <<kafka, worker, pool, failed, exit>>

\* server.close(): no new connections, idle ones reaped once.
ServerClose ==
    /\ Alive /\ step > 0 /\ listening
    /\ listening' = FALSE
    /\ sock' = CloseIdleConnections(sock)
    /\ UNCHANGED <<handlers, closable, counted, gauge>>
    /\ UNCHANGED <<kafka, worker, pool, shutdown>>

At(name) == Alive /\ step \in 1 .. Len(Steps) /\ Steps[step] = name
NextStep == step' = step + 1 /\ UNCHANGED <<reaping, failed, exit>>

\* app.close() resolves: not listening, and no socket left.
ServerClosed == ~listening /\ \A c \in Conns : sock[c] \in {"none", "closed"}

CloseServer ==
    /\ At("http-server") /\ ServerClosed
    /\ NextStep
    /\ UNCHANGED <<http, kafka, worker, pool>>

DisconnectProducer ==
    /\ At("kafka-producer")
    /\ producer' = FALSE
    /\ NextStep
    /\ UNCHANGED <<http, consumer, missed, worker, pool>>

\* A consumer that has crashed is left alone: its flag is down until it has
\* connected again.
StopCdcConsumer ==
    /\ At("kafka-cdc-consumer")
    /\ consumer' = IF consumer = "connected" THEN "stopped" ELSE consumer
    /\ missed' = (consumer # "connected")
    /\ NextStep
    /\ UNCHANGED <<http, producer, worker, pool>>

\* Worker#close(): fetch no more jobs ...
StopTaking ==
    /\ At("hold-expiry-worker") /\ taking
    /\ taking' = FALSE
    /\ UNCHANGED <<http, kafka, job, pool, shutdown>>

\* ... and wait for the active ones.
StopHoldExpiryWorker ==
    /\ At("hold-expiry-worker")
    /\ ~taking /\ \A j \in Jobs : job[j] # "active"
    /\ NextStep
    /\ UNCHANGED <<http, kafka, worker, pool>>

CloseDb ==
    /\ At("postgres-pool")
    /\ pool' = FALSE
    /\ NextStep
    /\ UNCHANGED <<http, kafka, worker>>

\* A step throws: logged, and the sequence goes on.  The mutated forms count the
\* step twice, and give up.
StepThrowsTwice ==
    /\ Alive /\ step \in 1 .. Len(Steps)
    /\ failed' = failed \cup {Steps[step]}
    /\ step' = step + 2
    /\ UNCHANGED <<http, kafka, worker, pool, reaping, exit>>
StepThrowsAndStops ==
    /\ Alive /\ step \in 1 .. Len(Steps)
    /\ failed' = failed \cup {Steps[step]}
    /\ step' = Len(Steps) + 1
    /\ UNCHANGED <<http, kafka, worker, pool, reaping, exit>>
StepThrows ==
    /\ Alive /\ step \in 1 .. Len(Steps)
    /\ failed' = failed \cup {Steps[step]}
    /\ step' = step + 1
    /\ UNCHANGED <<http, kafka, worker, pool, reaping, exit>>

Exit(code) ==
    /\ exit' = code
    /\ UNCHANGED <<http, kafka, worker, pool, reaping, step, failed>>

\* The drain completed.
DrainComplete == Alive /\ step = Len(Steps) + 1 /\ Exit("0")

\* The force timer's budget is spent.
ForceExit == Alive /\ step > 0 /\ Exit("1")

\* A second signal while draining.
SecondSignal == Alive /\ step > 0 /\ Exit("1")

-----------------------------------------------------------------------------

Work ==
    \/ \E c \in Conns : \/ Connect(c) \/ Request(c) \/ RequestCloses(c) \/ Respond(c)
                       \/ ClientCloses(c) \/ OrphanEnds(c)
    \/ ConsumerCrashes \/ ConsumerRestarts
    \/ \E j \in Jobs : TakeJob(j) \/ FinishJob(j)

Teardown ==
    \/ ServerClose \/ CloseServer \/ DisconnectProducer \/ StopCdcConsumer
    \/ StopTaking \/ StopHoldExpiryWorker \/ CloseDb \/ DrainComplete

Next == Work \/ FirstSignal \/ Teardown \/ StepThrows \/ SecondSignal \/ ForceExit

Spec == Init /\ [][Next]_vars

\* Handlers, jobs and external calls return; clients owe nothing, and the
\* force timer is not counted on.
DrainSpec ==
    /\ Spec
    /\ WF_vars(Teardown)
    /\ \A c \in Conns : WF_vars(Respond(c))
    /\ \A j \in Jobs : WF_vars(FinishJob(j))

-----------------------------------------------------------------------------
(* Properties.                                                             *)

Active == \E j \in Jobs : job[j] = "active"

\* Requests whose client still waits for the response.
Busy == \E c \in Conns : sock[c] = "busy"

\* What work needs outlives it: unless the step that waits for them threw, no
\* request with a waiting client runs without the producer or the pool, and no
\* hold-expiry job without the pool.  A handler that does is one whose client has gone.
ResourcesOutliveWork ==
    Alive =>
        /\ (~producer \/ ~pool) /\ "http-server" \notin failed => ~Busy
        /\ ~pool /\ "hold-expiry-worker" \notin failed => ~Active

\* "A failure in one step must not skip the rest": exit code 0 means that
\* every step without an error has really closed its subsystem, except that a
\* consumer that had just crashed may connect again.
ExitZeroIsComplete ==
    exit = "0" =>
        /\ "http-server" \notin failed => ServerClosed
        /\ "kafka-producer" \notin failed => ~producer
        /\ "kafka-cdc-consumer" \notin failed => consumer = "stopped" \/ missed
        /\ "hold-expiry-worker" \notin failed => ~taking /\ ~Active
        /\ "postgres-pool" \notin failed => ~pool

\* The in-flight gauge neither leaks nor runs below: it counts every request that is
\* neither answered nor closed, and none that is closed, whichever comes first.
GaugeIsExact ==
    /\ Cardinality(handlers \cap closable) <= gauge
    /\ gauge <= Cardinality(closable)

\* Keep-alive clients that never close their sockets cannot hold up the drain,
\* whatever requests were in flight or arrived around the signal.
KeepAliveCannotHang == step > 0 ~> ~Alive
=============================================================================
