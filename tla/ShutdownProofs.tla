--------------------------- MODULE ShutdownProofs ---------------------------
(***************************************************************************)
(* For any number of connections and jobs: the types of Shutdown, that     *)
(* the producer and the pool outlive the work that needs them, what exit   *)
(* code 0 stands for, and that the in-flight gauge neither leaks nor       *)
(* undercounts.                                                            *)
(***************************************************************************)
EXTENDS Shutdown, FiniteSetTheorems, TLAPS

\* The teardown is behind its step n, which did not throw.
Behind(n) == step > n /\ Steps[n] \notin failed

\* What a step without an error has closed stays closed: this is what makes the
\* properties of the teardown inductive.
StaysClosed ==
    /\ Behind(1) => ServerClosed
    /\ Behind(2) => ~producer
    /\ Behind(3) => consumer = "stopped" \/ missed
    /\ Behind(4) => ~taking /\ ~Active
    /\ Behind(5) => ~pool

\* Nothing is closed before its step, and the exit comes last.
OpenUntilThen ==
    /\ ~producer => step > 2
    /\ ~pool => step > 5
    /\ exit = "0" => step > 5

\* What makes GaugeIsExact inductive: the flag inFlightAccountedFor says who is in
\* the gauge.
GaugeFollowsFlag ==
    /\ handlers \cap closable \subseteq counted
    /\ counted \subseteq closable
    /\ gauge = Cardinality(counted)

Inv == TypeOK /\ StaysClosed /\ OpenUntilThen /\ GaugeFollowsFlag

\* TypeOK by the groups of variables.
HttpTypes ==
    /\ sock \in [Conns -> {"none", "idle", "busy", "closed"}]
    /\ handlers \subseteq Conns /\ closable \subseteq Conns /\ counted \subseteq Conns
    /\ gauge \in Int /\ listening \in BOOLEAN
KafkaTypes ==
    /\ producer \in BOOLEAN /\ missed \in BOOLEAN
    /\ consumer \in {"connected", "crashed", "stopped"}
WorkerTypes == job \in [Jobs -> {"waiting", "active", "done"}] /\ taking \in BOOLEAN
TeardownTypes ==
    /\ reaping \in BOOLEAN /\ step \in 0 .. Len(Steps) + 1
    /\ failed \subseteq StepNames /\ exit \in {"running", "0", "1"}

LEMMA TypeParts ==
    /\ TypeOK <=> /\ HttpTypes /\ KafkaTypes /\ WorkerTypes
                 /\ TeardownTypes /\ pool \in BOOLEAN
    /\ TypeOK' <=> /\ HttpTypes' /\ KafkaTypes' /\ WorkerTypes'
                  /\ TeardownTypes' /\ pool' \in BOOLEAN
  BY DEF TypeOK, HttpTypes, KafkaTypes, WorkerTypes, TeardownTypes

\* What a step leaves alone keeps its types.
LEMMA KeptTypes ==
    ASSUME TypeOK
    PROVE  /\ UNCHANGED http => HttpTypes'
           /\ UNCHANGED kafka => KafkaTypes'
           /\ UNCHANGED worker => WorkerTypes'
           /\ UNCHANGED shutdown => TeardownTypes'
           /\ UNCHANGED pool => pool' \in BOOLEAN
  BY DEF TypeOK, HttpTypes, KafkaTypes, WorkerTypes, TeardownTypes, http, kafka, worker,
         shutdown

LEMMA StepsInOrder ==
    /\ Len(Steps) = 5
    /\ Steps[1] = "http-server" /\ Steps[2] = "kafka-producer"
    /\ Steps[3] = "kafka-cdc-consumer" /\ Steps[4] = "hold-expiry-worker"
    /\ Steps[5] = "postgres-pool"
  BY DEF Steps

\* The step at which an action of the teardown happens.
LEMMA AtItsStep ==
    ASSUME TypeOK
    PROVE  /\ At("http-server") => step = 1
           /\ At("kafka-producer") => step = 2
           /\ At("kafka-cdc-consumer") => step = 3
           /\ At("hold-expiry-worker") => step = 4
           /\ At("postgres-pool") => step = 5
  BY StepsInOrder DEF At, TypeOK

LEMMA ReapTypes ==
    ASSUME NEW s \in [Conns -> {"none", "idle", "busy", "closed"}]
    PROVE  /\ CloseIdleConnections(s) \in [Conns -> {"none", "idle", "busy", "closed"}]
           /\ ReapOnFinish(s) \in [Conns -> {"none", "idle", "busy", "closed"}]
  BY DEF CloseIdleConnections, ReapOnFinish

\* Once the server is closed, no action opens a socket again.
LEMMA ClosedForGood ==
    ASSUME TypeOK, ServerClosed, Next
    PROVE  ServerClosed'
  <1>1. \A c \in Conns : ~Connect(c) /\ ~Request(c) /\ ~Respond(c) /\ ~ClientCloses(c)
    BY DEF ServerClosed, Connect, Request, Respond, ClientCloses
  <1>2. CASE listening' = listening /\ sock' = sock
    BY <1>2 DEF ServerClosed
  <1>3. CASE FirstSignal
    BY <1>3 DEF FirstSignal, CloseIdleConnections, ServerClosed
  <1>4. CASE ServerClose
    BY <1>4 DEF ServerClose, ServerClosed
  <1> QED
    BY <1>1, <1>2, <1>3, <1>4
    DEF Next, Work, Teardown, RequestCloses, OrphanEnds, ConsumerCrashes, ConsumerRestarts,
        TakeJob, FinishJob, CloseServer, DisconnectProducer, StopCdcConsumer, StopTaking,
        StopHoldExpiryWorker, CloseDb, DrainComplete, StepThrows, SecondSignal, ForceExit,
        Exit, http

LEMMA InitInv == Init => Inv
  <1> SUFFICES ASSUME Init PROVE Inv
    OBVIOUS
  <1>1. TypeOK
    <2>1. listening \in BOOLEAN /\ reaping \in BOOLEAN
      BY DEF Init
    <2>2. HttpTypes
      <3>1. sock \in [Conns -> {"none", "idle", "busy", "closed"}] /\ gauge \in Int
        BY DEF Init
      <3> QED BY <2>1, <3>1 DEF Init, HttpTypes
    <2>3. KafkaTypes /\ WorkerTypes /\ pool \in BOOLEAN
      BY DEF Init, KafkaTypes, WorkerTypes
    <2>4. TeardownTypes
      <3>1. step \in 0 .. Len(Steps) + 1
        BY StepsInOrder DEF Init
      <3> QED BY <2>1, <3>1 DEF Init, TeardownTypes
    <2> QED BY <2>2, <2>3, <2>4, TypeParts
  <1>2. StaysClosed /\ OpenUntilThen
    BY DEF Init, StaysClosed, OpenUntilThen, Behind
  <1>3. GaugeFollowsFlag
    BY FS_EmptySet DEF Init, GaugeFollowsFlag
  <1> QED BY <1>1, <1>2, <1>3 DEF Inv

\* The actions by what they are about.
AboutHttp ==
    \/ \E c \in Conns : \/ Connect(c) \/ Request(c) \/ RequestCloses(c) \/ Respond(c)
                       \/ ClientCloses(c) \/ OrphanEnds(c)
    \/ ServerClose
AboutConsumer == ConsumerCrashes \/ ConsumerRestarts
AboutJobs == StopTaking \/ \E j \in Jobs : TakeJob(j) \/ FinishJob(j)
Advance ==
    \/ CloseServer \/ DisconnectProducer \/ StopCdcConsumer \/ StopHoldExpiryWorker
    \/ CloseDb \/ StepThrows
End == DrainComplete \/ SecondSignal \/ ForceExit

LEMMA NextCases ==
    ASSUME Next
    PROVE  AboutHttp \/ AboutConsumer \/ AboutJobs \/ FirstSignal \/ Advance \/ End
  BY DEF Next, Work, Teardown, AboutHttp, AboutConsumer, AboutJobs, Advance, End

LEMMA TypeStep ==
    ASSUME TypeOK, Next
    PROVE  TypeOK'
  <1> USE TypeParts, KeptTypes
  <1>1. CASE AboutHttp
    <2>1. UNCHANGED <<kafka, worker, pool, shutdown>>
      BY <1>1
      DEF AboutHttp, Connect, Request, RequestCloses, Respond, ClientCloses, OrphanEnds,
          ServerClose
    <2>2. ASSUME NEW c \in Conns,
                 \/ Connect(c) \/ Request(c) \/ RequestCloses(c) \/ Respond(c)
                 \/ ClientCloses(c) \/ OrphanEnds(c)
          PROVE  HttpTypes'
      <3>1. sock' \in [Conns -> {"none", "idle", "busy", "closed"}]
        <4>1. sock \in [Conns -> {"none", "idle", "busy", "closed"}]
          BY DEF TypeOK
        <4>2. CASE Respond(c)
          BY <4>1, <4>2, ReapTypes DEF Respond
        <4> QED
          BY <2>2, <4>1, <4>2 DEF Connect, Request, RequestCloses, ClientCloses, OrphanEnds
      <3>2. handlers' \subseteq Conns /\ closable' \subseteq Conns /\ counted' \subseteq Conns
        BY <2>2
        DEF TypeOK, Connect, Request, RequestCloses, Respond, ClientCloses, OrphanEnds,
            Account
      <3>3. gauge' \in Int /\ listening' \in BOOLEAN
        BY <2>2
        DEF TypeOK, Connect, Request, RequestCloses, Respond, ClientCloses, OrphanEnds,
            Account
      <3> QED BY <3>1, <3>2, <3>3 DEF HttpTypes
    <2>3. ServerClose => HttpTypes'
      BY ReapTypes DEF TypeOK, ServerClose, HttpTypes
    <2> QED BY <1>1, <2>1, <2>2, <2>3 DEF AboutHttp
  <1>2. CASE AboutConsumer
    <2>1. KafkaTypes' /\ UNCHANGED <<http, worker, pool, shutdown>>
      BY <1>2 DEF AboutConsumer, ConsumerCrashes, ConsumerRestarts, TypeOK, KafkaTypes
    <2> QED BY <2>1
  <1>3. CASE AboutJobs
    <2>1. UNCHANGED <<http, kafka, pool, shutdown>>
      BY <1>3 DEF AboutJobs, StopTaking, TakeJob, FinishJob
    <2>2. WorkerTypes'
      BY <1>3 DEF AboutJobs, StopTaking, TakeJob, FinishJob, TypeOK, WorkerTypes
    <2> QED BY <2>1, <2>2
  <1>4. CASE FirstSignal
    <2>1. HttpTypes' /\ UNCHANGED <<kafka, worker, pool>>
      BY <1>4, ReapTypes DEF FirstSignal, TypeOK, HttpTypes
    <2>2. TeardownTypes'
      BY <1>4, StepsInOrder DEF FirstSignal, TypeOK, TeardownTypes
    <2> QED BY <2>1, <2>2
  <1>5. CASE Advance
    <2>1. step \in 1 .. Len(Steps) /\ step' = step + 1 /\ UNCHANGED <<reaping, exit>>
      BY <1>5
      DEF Advance, CloseServer, DisconnectProducer, StopCdcConsumer, StopHoldExpiryWorker,
          CloseDb, StepThrows, At, NextStep
    <2>2. failed' = failed \/ failed' = failed \cup {Steps[step]}
      BY <1>5
      DEF Advance, CloseServer, DisconnectProducer, StopCdcConsumer, StopHoldExpiryWorker,
          CloseDb, StepThrows, NextStep
    <2>3. TeardownTypes'
      BY <2>1, <2>2, StepsInOrder DEF TypeOK, TeardownTypes, StepNames
    <2>4. UNCHANGED <<http, worker>> /\ KafkaTypes' /\ pool' \in BOOLEAN
      BY <1>5
      DEF Advance, CloseServer, DisconnectProducer, StopCdcConsumer, StopHoldExpiryWorker,
          CloseDb, StepThrows, TypeOK, KafkaTypes, kafka
    <2> QED BY <2>3, <2>4
  <1>6. CASE End
    <2>1. UNCHANGED <<http, kafka, worker, pool>>
      BY <1>6 DEF End, DrainComplete, SecondSignal, ForceExit, Exit
    <2>2. TeardownTypes'
      BY <1>6 DEF End, DrainComplete, SecondSignal, ForceExit, Exit, TypeOK, TeardownTypes
    <2> QED BY <2>1, <2>2
  <1> QED BY <1>1, <1>2, <1>3, <1>4, <1>5, <1>6, NextCases

LEMMA StaysClosedStep ==
    ASSUME TypeOK, StaysClosed, OpenUntilThen, Next
    PROVE  StaysClosed'
  <1>0. step \in 0 .. 6
    BY StepsInOrder DEF TypeOK
  <1>1. CASE AboutHttp \/ End
    <2>1. UNCHANGED <<kafka, worker, pool, step, failed>>
      BY <1>1
      DEF AboutHttp, End, Connect, Request, RequestCloses, Respond, ClientCloses, OrphanEnds,
          ServerClose, DrainComplete, SecondSignal, ForceExit, Exit, shutdown
    <2>2. ServerClosed => ServerClosed'
      BY ClosedForGood
    <2> QED BY <2>1, <2>2 DEF StaysClosed, Behind, Active, kafka, worker
  <1>2. CASE AboutConsumer
    BY <1>2
    DEF AboutConsumer, ConsumerCrashes, ConsumerRestarts, StaysClosed, Behind, Active,
        ServerClosed, http, worker, shutdown
  <1>3. CASE AboutJobs
    <2>1. UNCHANGED <<http, kafka, pool, step, failed>>
      BY <1>3 DEF AboutJobs, StopTaking, TakeJob, FinishJob, shutdown
    <2>2. (~taking /\ ~Active) => (~taking /\ ~Active)'
      BY <1>3 DEF AboutJobs, StopTaking, TakeJob, FinishJob, Active, TypeOK
    <2> QED BY <2>1, <2>2 DEF StaysClosed, Behind, ServerClosed, http, kafka
  <1>4. CASE FirstSignal
    BY <1>4 DEF FirstSignal, StaysClosed, Behind
  <1>5. CASE CloseServer
    <2>1. step = 1 /\ ServerClosed /\ step' = 2 /\ UNCHANGED <<http, failed>>
      BY <1>5, AtItsStep DEF CloseServer, NextStep
    <2>2. ServerClosed'
      BY <2>1 DEF ServerClosed, http
    <2> QED BY <2>1, <2>2 DEF StaysClosed, Behind
  <1>6. CASE DisconnectProducer
    <2>1. step = 2 /\ step' = 3 /\ ~producer' /\ UNCHANGED <<http, failed>>
      BY <1>6, AtItsStep DEF DisconnectProducer, NextStep
    <2> QED BY <2>1 DEF StaysClosed, Behind, ServerClosed, http
  <1>7. CASE StopCdcConsumer
    <2>1. step = 3 /\ step' = 4 /\ UNCHANGED <<http, producer, failed>>
      BY <1>7, AtItsStep DEF StopCdcConsumer, NextStep
    <2>2. consumer' = "stopped" \/ missed'
      BY <1>7 DEF StopCdcConsumer
    <2> QED BY <2>1, <2>2 DEF StaysClosed, Behind, ServerClosed, http
  <1>8. CASE StopHoldExpiryWorker
    <2>1. step = 4 /\ step' = 5 /\ UNCHANGED <<http, kafka, worker, failed>>
      BY <1>8, AtItsStep DEF StopHoldExpiryWorker, NextStep
    <2>2. (~taking /\ ~Active)'
      BY <1>8, <2>1 DEF StopHoldExpiryWorker, Active, worker
    <2> QED BY <2>1, <2>2 DEF StaysClosed, Behind, ServerClosed, http, kafka
  <1>9. CASE CloseDb
    <2>1. /\ step = 5 /\ step' = 6 /\ ~pool'
          /\ UNCHANGED <<http, kafka, worker, failed>>
      BY <1>9, AtItsStep DEF CloseDb, NextStep
    <2> QED BY <2>1 DEF StaysClosed, Behind, ServerClosed, Active, http, kafka, worker
  <1>10. CASE StepThrows
    <2>1. /\ step \in 1 .. 5 /\ step' = step + 1 /\ failed' = failed \cup {Steps[step]}
          /\ UNCHANGED <<http, kafka, worker, pool>>
      BY <1>10, StepsInOrder DEF StepThrows
    <2>2. \A n \in 1 .. 5 : Behind(n)' => Behind(n)
      BY <2>1 DEF Behind
    <2> QED BY <2>1, <2>2 DEF StaysClosed, ServerClosed, Active, http, kafka, worker
  <1> QED
    BY <1>1, <1>2, <1>3, <1>4, <1>5, <1>6, <1>7, <1>8, <1>9, <1>10, NextCases DEF Advance

LEMMA OpenUntilThenStep ==
    ASSUME TypeOK, OpenUntilThen, Next
    PROVE  OpenUntilThen'
  <1>0. step \in 0 .. 6 /\ Len(Steps) = 5
    BY StepsInOrder DEF TypeOK
  <1>1. CASE AboutHttp \/ AboutConsumer \/ AboutJobs
    BY <1>1
    DEF AboutHttp, AboutConsumer, AboutJobs, Connect, Request, RequestCloses, Respond,
        ClientCloses, OrphanEnds, ServerClose, ConsumerCrashes, ConsumerRestarts,
        StopTaking, TakeJob, FinishJob, OpenUntilThen, kafka, shutdown
  <1>2. CASE FirstSignal
    BY <1>0, <1>2 DEF FirstSignal, OpenUntilThen, kafka
  <1>3. CASE Advance
    <2>1. step' = step + 1 /\ exit' = exit
      BY <1>3
      DEF Advance, CloseServer, DisconnectProducer, StopCdcConsumer, StopHoldExpiryWorker,
          CloseDb, StepThrows, NextStep
    <2>2. (~producer' => ~producer \/ step = 2) /\ (~pool' => ~pool \/ step = 5)
      BY <1>3, AtItsStep
      DEF Advance, CloseServer, DisconnectProducer, StopCdcConsumer, StopHoldExpiryWorker,
          CloseDb, StepThrows, kafka
    <2> QED BY <1>0, <2>1, <2>2 DEF OpenUntilThen
  <1>4. CASE End
    BY <1>0, <1>4
    DEF End, DrainComplete, SecondSignal, ForceExit, Exit, OpenUntilThen, kafka
  <1> QED BY <1>1, <1>2, <1>3, <1>4, NextCases

LEMMA CountedIsFinite ==
    ASSUME TypeOK
    PROVE  IsFiniteSet(counted) /\ IsFiniteSet(closable)
  BY ConnsAssumption, FS_Subset DEF TypeOK

\* Account() takes a request out of the gauge if it is in there.
LEMMA AccountEffect ==
    ASSUME TypeOK, GaugeFollowsFlag, NEW c \in Conns, Account(c)
    PROVE  counted' = counted \ {c} /\ gauge' = Cardinality(counted')
  <1>1. IsFiniteSet(counted)
    BY CountedIsFinite
  <1> QED BY <1>1, FS_RemoveElement DEF Account, GaugeFollowsFlag

LEMMA GaugeStep ==
    ASSUME TypeOK, GaugeFollowsFlag, Next
    PROVE  GaugeFollowsFlag'
  <1>1. ASSUME NEW c \in Conns, Request(c) PROVE GaugeFollowsFlag'
    <2>1. /\ c \notin counted /\ counted' = counted \cup {c} /\ gauge' = gauge + 1
          /\ handlers' = handlers \cup {c} /\ closable' = closable \cup {c}
      BY <1>1 DEF Request, GaugeFollowsFlag
    <2>2. gauge' = Cardinality(counted')
      BY <2>1, CountedIsFinite, FS_AddElement DEF GaugeFollowsFlag
    <2> QED BY <2>1, <2>2 DEF GaugeFollowsFlag
  <1>2. ASSUME NEW c \in Conns, RequestCloses(c) PROVE GaugeFollowsFlag'
    <2>1. Account(c) /\ closable' = closable \ {c} /\ handlers' = handlers
      BY <1>2 DEF RequestCloses
    <2> QED BY <2>1, AccountEffect DEF GaugeFollowsFlag
  <1>3. ASSUME NEW c \in Conns, Respond(c) PROVE GaugeFollowsFlag'
    <2>1. Account(c) /\ handlers' = handlers \ {c} /\ closable' = closable
      BY <1>3 DEF Respond
    <2> QED BY <2>1, AccountEffect DEF GaugeFollowsFlag
  <1>4. CASE UNCHANGED <<closable, counted, gauge>> /\ handlers' \subseteq handlers
    BY <1>4 DEF GaugeFollowsFlag
  <1>5. ASSUME NEW c \in Conns, Connect(c) \/ ClientCloses(c) \/ OrphanEnds(c)
        PROVE  UNCHANGED <<closable, counted, gauge>> /\ handlers' \subseteq handlers
    BY <1>5 DEF Connect, ClientCloses, OrphanEnds
  <1>6. ASSUME ServerClose \/ AboutConsumer \/ AboutJobs \/ FirstSignal \/ Advance \/ End
        PROVE  UNCHANGED <<closable, counted, gauge>> /\ handlers' \subseteq handlers
    BY <1>6
    DEF ServerClose, AboutConsumer, AboutJobs, Advance, End, ConsumerCrashes,
        ConsumerRestarts, StopTaking, TakeJob, FinishJob, FirstSignal, CloseServer,
        DisconnectProducer, StopCdcConsumer, StopHoldExpiryWorker, CloseDb, StepThrows,
        DrainComplete, SecondSignal, ForceExit, Exit, http
  <1> QED BY <1>1, <1>2, <1>3, <1>4, <1>5, <1>6, NextCases DEF AboutHttp

\* The invariant of the pod: what is behind is closed, what is ahead is open.
THEOREM ShutdownInvariant == Spec => []Inv
  <1>1. Inv /\ [Next]_vars => Inv'
    <2> SUFFICES ASSUME Inv, [Next]_vars PROVE Inv'
      OBVIOUS
    <2>1. CASE Next
      BY <2>1, TypeStep, StaysClosedStep, OpenUntilThenStep, GaugeStep DEF Inv
    <2>2. CASE UNCHANGED vars
      BY <2>2
      DEF vars, Inv, TypeOK, StaysClosed, OpenUntilThen, GaugeFollowsFlag, Behind,
          ServerClosed, Active, http, kafka, worker, shutdown
    <2> QED BY <2>1, <2>2
  <1> QED BY InitInv, <1>1, PTL DEF Spec

\* Every variable of the pod keeps its type.
THEOREM ShutdownTypes == Spec => []TypeOK
  <1>1. Inv => TypeOK
    BY DEF Inv
  <1> QED BY <1>1, ShutdownInvariant, PTL

\* The order of the teardown steps keeps the producer and the pool for the work that
\* needs them.
THEOREM WorkKeepsItsResources == Spec => []ResourcesOutliveWork
  <1>1. Inv => ResourcesOutliveWork
    <2> SUFFICES ASSUME Inv, Alive PROVE ResourcesOutliveWork
      BY DEF ResourcesOutliveWork
    <2>1. step \in 0 .. 6
      BY StepsInOrder DEF Inv, TypeOK
    <2>2. ASSUME ~producer \/ ~pool, "http-server" \notin failed PROVE ~Busy
      <3>1. Behind(1)
        BY <2>1, <2>2, StepsInOrder DEF Inv, OpenUntilThen, Behind
      <3> QED BY <3>1 DEF Inv, StaysClosed, ServerClosed, Busy
    <2>3. ASSUME ~pool, "hold-expiry-worker" \notin failed PROVE ~Active
      BY <2>1, <2>3, StepsInOrder DEF Inv, OpenUntilThen, StaysClosed, Behind
    <2> QED BY <2>2, <2>3 DEF ResourcesOutliveWork
  <1> QED BY <1>1, ShutdownInvariant, PTL

\* Exit code 0 of a drained pod tells the truth about its subsystems.
THEOREM ExitZeroTellsTheTruth == Spec => []ExitZeroIsComplete
  <1>1. Inv => ExitZeroIsComplete
    <2> SUFFICES ASSUME Inv, exit = "0" PROVE ExitZeroIsComplete
      BY DEF ExitZeroIsComplete
    <2>1. step \in 0 .. 6 /\ step > 5
      BY StepsInOrder DEF Inv, TypeOK, OpenUntilThen
    <2> QED
      BY <2>1, StepsInOrder DEF Inv, StaysClosed, Behind, ExitZeroIsComplete
  <1> QED BY <1>1, ShutdownInvariant, PTL

\* The two hooks and the close listener keep the in-flight gauge exact.
THEOREM GaugeStaysExact == Spec => []GaugeIsExact
  <1>1. Inv => GaugeIsExact
    <2> SUFFICES ASSUME Inv PROVE GaugeIsExact
      OBVIOUS
    <2>1. IsFiniteSet(counted) /\ IsFiniteSet(closable)
      BY CountedIsFinite DEF Inv
    <2>2. Cardinality(handlers \cap closable) <= Cardinality(counted)
      BY <2>1, FS_Subset DEF Inv, GaugeFollowsFlag
    <2>3. Cardinality(counted) <= Cardinality(closable)
      BY <2>1, FS_Subset DEF Inv, GaugeFollowsFlag
    <2> QED BY <2>2, <2>3 DEF Inv, GaugeFollowsFlag, GaugeIsExact
  <1> QED BY <1>1, ShutdownInvariant, PTL

-----------------------------------------------------------------------------
(* Keep-alive sockets during the drain.                                    *)

\* Once the server is closed the reaper is on, and it has found every idle socket.
Reaped ==
    /\ step > 0 => reaping
    /\ ~listening => step > 0 /\ \A c \in Conns : sock[c] # "idle"

\* An idle socket is closed by every reaping, so that none is left after one.
LEMMA NoneIdle ==
    ASSUME NEW s, NEW c \in Conns
    PROVE  CloseIdleConnections(s)[c] # "idle"
  BY DEF CloseIdleConnections

LEMMA ReapedStep ==
    ASSUME TypeOK, Reaped, Next
    PROVE  Reaped'
  <1>0. step \in Nat /\ reaping \in BOOLEAN /\ listening \in BOOLEAN
    BY DEF TypeOK
  <1>1. ASSUME UNCHANGED <<reaping, step, listening>>,
               ~listening => \A c \in Conns : sock'[c] # "idle"
        PROVE  Reaped'
    BY <1>1 DEF Reaped
  <1>2. ASSUME NEW c \in Conns, Connect(c) PROVE Reaped'
    BY <1>1, <1>2 DEF Connect, shutdown
  <1>3. ASSUME NEW c \in Conns, Respond(c) PROVE Reaped'
    <2>1. UNCHANGED <<reaping, step, listening>>
      BY <1>3 DEF Respond, shutdown
    <2>2. ASSUME ~listening, NEW d \in Conns PROVE sock'[d] # "idle"
      <3>1. reaping
        BY <2>2 DEF Reaped
      <3>2. sock' = CloseIdleConnections([sock EXCEPT ![c] = "idle"])
        BY <1>3, <3>1 DEF Respond, ReapOnFinish
      <3> QED BY <3>2, NoneIdle
    <2> QED BY <1>1, <2>1, <2>2
  <1>4. ASSUME NEW c \in Conns, Request(c) \/ ClientCloses(c) PROVE Reaped'
    <2>1. PICK to \in {"busy", "closed"} : sock' = [sock EXCEPT ![c] = to]
      BY <1>4 DEF Request, ClientCloses
    <2>2. UNCHANGED <<reaping, step, listening>>
      BY <1>4 DEF Request, ClientCloses, shutdown
    <2>3. ~listening => \A d \in Conns : sock'[d] # "idle"
      BY <2>1 DEF Reaped, TypeOK
    <2> QED BY <1>1, <2>2, <2>3
  <1>5. ASSUME NEW c \in Conns, RequestCloses(c) \/ OrphanEnds(c) PROVE Reaped'
    BY <1>1, <1>5 DEF RequestCloses, OrphanEnds, shutdown, Reaped
  <1>6. CASE ServerClose
    <2>1. \A c \in Conns : sock'[c] # "idle"
      BY <1>6, NoneIdle DEF ServerClose
    <2>2. step > 0 /\ UNCHANGED <<reaping, step>>
      BY <1>6 DEF ServerClose, shutdown
    <2> QED BY <2>1, <2>2 DEF Reaped
  <1>7. CASE FirstSignal
    <2>1. \A c \in Conns : sock'[c] # "idle"
      BY <1>7, NoneIdle DEF FirstSignal
    <2>2. step' = 1 /\ reaping' = TRUE
      BY <1>7 DEF FirstSignal
    <2> QED BY <2>1, <2>2 DEF Reaped
  <1>8. CASE AboutConsumer \/ AboutJobs \/ End
    BY <1>1, <1>8
    DEF AboutConsumer, AboutJobs, End, ConsumerCrashes, ConsumerRestarts, StopTaking, TakeJob,
        FinishJob, DrainComplete, SecondSignal, ForceExit, Exit, http, shutdown, Reaped
  <1>9. CASE Advance
    <2>1. step' = step + 1 /\ UNCHANGED <<reaping, listening, sock>>
      BY <1>9
      DEF Advance, CloseServer, DisconnectProducer, StopCdcConsumer, StopHoldExpiryWorker,
          CloseDb, StepThrows, NextStep, http
    <2>2. step > 0
      BY <1>9
      DEF Advance, CloseServer, DisconnectProducer, StopCdcConsumer, StopHoldExpiryWorker,
          CloseDb, StepThrows, At
    <2> QED BY <1>0, <2>1, <2>2 DEF Reaped
  <1> QED
    BY <1>2, <1>3, <1>4, <1>5, <1>6, <1>7, <1>8, <1>9, NextCases DEF AboutHttp

LEMMA ReapedAlways == Spec => []Reaped
  <1>1. Init => Reaped
    BY DEF Init, Reaped
  <1>2. TypeOK /\ Reaped /\ [Next]_vars => Reaped'
    <2>1. CASE UNCHANGED vars
      BY <2>1 DEF vars, http, shutdown, Reaped
    <2> QED BY <2>1, ReapedStep
  <1> QED BY <1>1, <1>2, ShutdownTypes, PTL DEF Spec

\* Once the server is closed, no keep-alive socket is idle, however its last response
\* interleaved with the signal and with close(): the drain waits for responses that are
\* being written, and for nothing else (drainReaperFor, shutdown.ts).
NoIdleSocketLeft == ~listening => \A c \in Conns : sock[c] # "idle"

\* The reaper's listener and the two closings together miss no socket (shutdown.ts).
THEOREM ReaperMissesNoSocket == Spec => []NoIdleSocketLeft
  <1>1. Reaped => NoIdleSocketLeft
    BY DEF Reaped, NoIdleSocketLeft
  <1> QED BY <1>1, ReapedAlways, PTL

\* From then on a socket only ever goes from busy to closed, so that every socket has at
\* most one step to go: this is why keep-alive clients cannot hold up the drain.
SocketsOnlyClose ==
    [][~listening => \A c \in Conns : sock'[c] # sock[c] => sock[c] = "busy" /\ sock'[c] = "closed"]_vars

\* With the server closed, no socket opens, and none takes another request.
THEOREM ClosingSocketsOnlyClose == Spec => SocketsOnlyClose
  <1> DEFINE OnlyClose == ~listening => \A c \in Conns :
                            sock'[c] # sock[c] => sock[c] = "busy" /\ sock'[c] = "closed"
  <1>1. TypeOK /\ Reaped /\ Next => OnlyClose
    <2> SUFFICES ASSUME TypeOK, Reaped, Next, ~listening, NEW c \in Conns, sock'[c] # sock[c]
                 PROVE  sock[c] = "busy" /\ sock'[c] = "closed"
      OBVIOUS
    <2>0. \A d \in Conns : sock[d] # "idle"
      BY DEF Reaped
    <2>1. step > 0 /\ reaping
      BY DEF Reaped
    <2>2. ASSUME NEW d \in Conns, Respond(d) PROVE sock[c] = "busy" /\ sock'[c] = "closed"
      <3>1. sock' = CloseIdleConnections([sock EXCEPT ![d] = "idle"]) /\ sock[d] = "busy"
        BY <2>1, <2>2 DEF Respond, ReapOnFinish
      <3>2. c = d
        BY <2>0, <3>1 DEF CloseIdleConnections, TypeOK
      <3>3. sock'[c] = "closed"
        BY <3>1, <3>2 DEF CloseIdleConnections, TypeOK
      <3> QED BY <3>1, <3>2, <3>3
    <2>3. ASSUME NEW d \in Conns, ClientCloses(d) PROVE sock[c] = "busy" /\ sock'[c] = "closed"
      <3>1. sock' = [sock EXCEPT ![d] = "closed"] /\ sock[d] = "busy"
        BY <2>0, <2>3 DEF ClientCloses
      <3> QED BY <3>1 DEF TypeOK
    <2>4. \A d \in Conns : ~Connect(d) /\ ~Request(d)
      BY <2>0 DEF Connect, Request
    <2>5. ~FirstSignal /\ ~ServerClose
      BY <2>1 DEF FirstSignal, ServerClose
    <2>6. ASSUME sock' = sock PROVE FALSE
      BY <2>6
    <2>7. \A d \in Conns : ~RequestCloses(d) /\ ~OrphanEnds(d)
      BY <2>6 DEF RequestCloses, OrphanEnds
    <2>8. ~AboutConsumer /\ ~AboutJobs /\ ~End
      BY <2>6
      DEF AboutConsumer, AboutJobs, End, ConsumerCrashes, ConsumerRestarts, StopTaking, TakeJob,
          FinishJob, DrainComplete, SecondSignal, ForceExit, Exit, http
    <2>9. ~Advance
      BY <2>6
      DEF Advance, CloseServer, DisconnectProducer, StopCdcConsumer, StopHoldExpiryWorker,
          CloseDb, StepThrows, http
    <2> QED
      BY <2>2, <2>3, <2>4, <2>5, <2>7, <2>8, <2>9, NextCases DEF AboutHttp
  <1>2. TypeOK /\ Reaped /\ [Next]_vars => [OnlyClose]_vars
    BY <1>1
  <1> QED
    BY <1>2, ShutdownTypes, ReapedAlways, PTL DEF Spec, SocketsOnlyClose
=============================================================================
