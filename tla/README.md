# A TLA+ model of the Scalable Booking System

This directory holds TLA+ specifications of the booking system in this
repository, TLC configurations that model-check them, and TLAPS proofs about
them. Paths below are relative to the repository root (`src/` in
`PROJECT.json`); `PROJECT.json` maps every definition to the lines it models,
lists the runs, the mutants each property is known to catch, the hazards the
properties are aimed at, and the theorems.

    tlc -workers 2 -config BookingRaces.cfg MCBooking      # any run of PROJECT.json
    tlapm BookingProofs.tla                                # any *Proofs module

## 1. The system

Event ticketing: a React front end, a Rust load balancer (`lb-proxy`, whose
weights and choices come from the library `router-core`), N Node.js backend
pods, one PostgreSQL database, Redis (BullMQ queue, caches, rate limits) and
Kafka (booking events; change data capture by Debezium).

| Component | State it keeps | Operations | Talks to |
|---|---|---|---|
| Booking use cases (`backend/src/modules/booking`) | rows of `seats`, `bookings` | reserve, confirm, cancel | PostgreSQL transactions; the hold-expiry queue; the Kafka producer |
| Hold expiry (`backend/src/infrastructure/queue`, `expire-hold.usecase.ts`) | BullMQ jobs in Redis | schedule, run, retry, remove | the two tables |
| Event producer (`infrastructure/kafka/producer.ts`) | a connected flag | connect, publish, disconnect | Kafka |
| Live seat updates (`cdc-consumer.ts`, `seat-broadcaster.ts`, `live.controller.ts`, `useLiveSeats.ts`, `SeatPickerPage.tsx`) | rooms of sockets; the page's seat map | consume a change, broadcast, subscribe, reconnect, fetch | Kafka, Redis, WebSockets |
| Catalog (`modules/catalog`) | none (reads) | list events, list seats | PostgreSQL |
| Authentication (`modules/auth`, `shared/auth`) | rows of `users` | register, login, verify token | PostgreSQL |
| Rate limiter (`shared/middleware/rateLimiter.ts`) | a counter per client address in Redis | INCR, EXPIRE | Redis |
| Metrics, HTTP plumbing (`shared`) | counters and gauges | hooks around each request | scraped |
| Backend shutdown (`backend/src/shutdown.ts`, `index.ts`) | open sockets, worker, pool, teardown step | signal, five teardown steps, force exit | everything above |
| Proxy (`lb-proxy/src/proxy.rs`, `main.rs`) | in-flight count per backend, round-robin cursor, connections | accept, choose, forward, finish, drain | clients, backends, router-core |
| Health registry (`lb-proxy/src/health.rs`) | two sliding windows, latency average, counter | record, error_rate, snapshot | the handlers; the health loop |
| Scoreboard (`router-core/src/scoreboard.rs`) | a weight per backend | update_scores | the health loop; the router |
| Router (`router-core/src/router.rs`) | the list of backends | choose_server | scoreboard, health |
| Front-end session and booking pages (`frontend/src`) | the session in React state and localStorage; one page's bookings, flags and handlers under way | log in and out, navigate, load, confirm, release, cancel | the API |
| Front-end catalog pages | none (reads) | browse | the API |

What is hard about it: several pods, each with concurrent requests and a
worker, share rows through READ COMMITTED transactions; the steps after a commit
(scheduling the hold's expiry, publishing) can be lost; jobs are delivered more
than once; the proxy's handlers run on many threads and their futures can be
dropped at an `await`; health data is read in pieces; the scoreboard's five
invariants are applied one after the other; a shutdown overlaps with all of it;
and a browser's calls are answered when their page is gone, shows something else,
or belongs to somebody else by now.

What makes each part correct:

- *booking*: a seat is never sold twice, never blocked for nobody, and both
  tables always agree; every transition is the owner's; answers and events are
  truthful; a hold that is not confirmed comes back.
- *proxy*: every request returns the slot it took exactly once; shutdown ends
  and cuts off nothing it accepted.
- *health registry*: no completion is lost from a window, no latency from the
  average, which stays among the latencies it was made of.
- *scoreboard and router*: weights sum to one and keep the floor and the
  ranking; live signals beat predictions; old predictions are not trusted; every
  backend gets its chance.
- *live seats*: a page that has heard everything shows the database.
- *rate limiter and authentication*: nobody is locked out for good; answers
  about an account are true.
- *shutdown*: no waiting client is cut off, what work needs is closed last, idle
  clients cannot hold it up, and exit code 0 is the truth.
- *metrics*: the in-flight gauge neither leaks nor runs below.
- *pages*: nobody sees a ticket that was not paid or a booking of somebody else; an
  order whose answers were lost is read again; no button stays dead.

## 2. Modules

| Module | Models | Kind |
|---|---|---|
| `SeatLedger` | what the booking core promises about seats | abstract specification |
| `Booking` | the use cases, the queue, the worker | detailed specification, refines `SeatLedger` |
| `BookingProofs` | | theorems about `Booking`, its refinement of `SeatLedger` included |
| `LbProxy` | the proxy's request path and drain | specification |
| `LbProxyProofs` | | theorems about `LbProxy` |
| `ServerHealth` | one backend's `ServerHealth` | specification |
| `ServerHealthProofs` | | theorems about `ServerHealth` |
| `Scoreboard` | the weights: `update_scores` | operators and one action, extended by `Router` |
| `Router` | `choose_server` in its loop of routing, measuring and re-weighting | specification, composes `Scoreboard`, the health loop and the router |
| `RouterProofs` | | theorems about `Scoreboard` and `Router` |
| `Shutdown` | a pod from listening to exit: requests and the in-flight gauge, consumer, jobs, `gracefulShutdown`, drain reaper | specification |
| `ShutdownProofs` | | theorems about `Shutdown` |
| `LiveSeats` | change topic, pods' consumers, sockets, the seat-picker page | specification |
| `LiveSeatsProofs` | | theorems about `LiveSeats` |
| `Gate` | the rate limiter, registration and login | specification |
| `GateProofs` | | theorems about `Gate` |
| `Pages` | one browser tab: session, protected routes, the pages that show, confirm and cancel bookings | specification |
| `PagesProofs` | | theorems about `Pages` |
| `MC...` | symmetry sets and constants for TLC | |

A definition whose name is a mapped one with a suffix (`ReserveWhereUnguarded`,
`FinishAlways`, ...) is a mutated form of it: a plausible bug, used by no
specification, that shows that a property can fail.

### Booking

State: the committed rows (`seats`, `bookings`), the row locks, one program
counter per request (`req`), the BullMQ jobs (`job`), what each worker is doing
(`work`), and the copies of each event that Kafka was sent (`published`). History:
`unscheduled`, bookings whose scheduling was lost, and `exhausted`, bookings whose
job used up its attempts.

Each statement of a use case is an action. A transaction's first `UPDATE` takes
the row's lock (`ReserveSeatRow`, `ConfirmBookingRow`, `CancelBookingRow`,
`ExpireBookingRow`); its effect is private until the last statement, which
commits (`InsertBooking`, `ConfirmSeatRow`, `CancelSeatRow`, `ExpireSeatRow`).
The last statement and COMMIT are one step, since nobody can see the state
between them. An `UPDATE` whose WHERE clause fails on the committed row matches
nothing; one that matches a locked row waits and looks again, which is what READ
COMMITTED does. `Die` and `WorkerCrash` happen between any two steps and roll
back what is open. After the commit come `ScheduleHoldExpiry`, `GetJob`,
`RemoveJob` and `PublishBookingEvent`, each of which may fail and is then
swallowed, as in the code. `TakeJob`, `FailAttempt`, `StallJob` are BullMQ:
retries up to `attempts`, a stalled job delivered again while its first worker
still runs it. A job out of attempts joins the failed ones, of which the newest
`KeepFailed` are kept (`removeOnFail`); it may drive out an older one (`Requeue`).
`CompleteJob` is a step after the expiry's COMMIT: a worker that dies in between
leaves a job that will be delivered again, for a booking that is settled.

The Kafka producer is not idempotent and its client retries: a message whose
acknowledgement is lost is sent again. `Publish` is one such send, up to
`MaxSends` for a call, and `PublishBookingEvent` ends the call, however it went. A
copy that was sent may reach the topic at once, later, even after the call has
failed or the pod has died, or never; `published` counts them all, and what is
claimed of an event is claimed from the first send on.

A delayed job may fire at any moment, so every property holds whatever
`HOLD_DURATION_MS` is. Error classes, HTTP status codes and read-only handlers
are left out; a seat or booking that is not found, or not owned, ends a request
without a change.

### LbProxy

One program counter per request follows `handle()`: choose a backend, `begin()`,
build the outbound request, await the backend, record, stream the body through
`TrackedBody`. `ClientAborts` is hyper dropping the handler's future at its
await. `ShutdownSignal`, `Drained` and `DrainTimeout` are the accept loop's
`select!`, `graceful.shutdown()` and its timeout. The power-of-two-choices router
may return any backend: its candidates are random and its weights change
concurrently. The cursor is unbounded here; in the code it is a `usize` that
wraps after 2^64 requests.

### ServerHealth

Every critical section of `record()`, `error_rate()` and `five_xx_count()` is an
action, and so are the load and the compare-and-swap of the latency average.
`now` is read before the locks are taken, so a slow recorder pushes an instant
older than its neighbours. The float `0.9 * old + 0.1 * new` is, in the code too,
integer arithmetic on nanoseconds. `pushed`, `pushed_5xx` and `observed` are
history, never read by an action.

All atomic accesses of the code are `Ordering::Relaxed`. Of a single atomic they
change nothing that is claimed: every write of the average is a read-modify-write,
which acts on the latest value, and a load that returns an older one only makes its
exchange fail. Of two atomics at once nothing is claimed, since nothing orders them:
`sync_scoreboard` may see a `total_requests` above zero with the average still
empty, and predicts such a backend without any risk from latency for a round.

### Scoreboard and Router

`update_scores` is a composition of its steps: `Rescored` (smoothing and shift
cap), `CapDomains`, `RaiseToFloor`, `Normalize`. Weights are f64 in the code;
here they are whole numbers of `1/Unit`, each quotient rounded down. A
prediction is the raw weight it leads to. The configuration is the default
`ScoreboardConfig`, scaled. `predicted` is history.

`Router` closes the loop. `Route` is a request: a draw is the pair of positions
that the generator produced, `Choice` the candidate it leads to, which was `tried`
then. That is all that is certain: a request that cannot be built, one whose client
goes away and one that the backend never answers record nothing. So `measured` is set
by another action, `RecordBackendHealth`, which may come late or not at all.
`SyncScoreboard` is one round of `health_loop`: a prediction for every registered
backend, the neutral one for a backend without measurements. `Tick` lets scores grow old, up to the TTL. Signals
are how many of a backend's three fast signals are over their thresholds, any
value at any time, except that a backend without a request has none over.
`UpdateSingleServer`, `AddServer` and `RemoveServer` are calls
of the library that lb-proxy does not make; `calls` bounds them, and the
properties that hold of lb-proxy's own use say `calls = 0`.

### Shutdown

Connections with their sockets and handlers, the worker's jobs, the CDC consumer,
and the teardown as a position in `Steps`. `FirstSignal` is the synchronous part of
`gracefulShutdown` up to its first await; Fastify reaches `server.close()` only
later (`ServerClose`), so new connections may still arrive in between. A client
that hangs up leaves its handler running (`OrphanEnds`). Every step may throw.

The in-flight gauge of the metrics hooks is part of the request: `Request` counts
it, and `Respond` (the `onResponse` hook) and `RequestCloses` (the close listener)
both end in `Account`, which consults the flag `inFlightAccountedFor` (`counted`).
The two come in either order, or the response not at all. The consumer crashes and
kafkajs connects it again (`ConsumerCrashes`, `ConsumerRestarts`); `StopCdcConsumer`
does nothing while its flag is down. `missed` is history: that this happened.

Every connection that is not idle carries a request with a response: sockets that were
upgraded (live updates) and connections on which no request was ever sent are outside
the model, and so is what `close()` and the reaper do to them.

The model starts when `start()` has come to its end. Between the installation of
the signal handlers and `listen()` there is a window of the boot that it leaves out.

### LiveSeats

`topic` is the log of committed seat changes; each pod consumes it at its own
`offset`, because every pod is a consumer group. `Broadcast` puts the change's
position on the `channel` of the page's socket, if it is at that pod. The socket leads
straight to a pod, any of them (`Connect`): lb-proxy strips the headers of an upgrade
(`proxy.rs:281-296`) and serves its connections without upgrades (`proxy.rs:361`). The page
applies what arrives to its `view` (`HandleLiveUpdate`), fetches the list of
seats in two steps (`ReadSnapshot`, `FetchReturns`), picks, reserves seat by seat
and either refetches (`ReservedNothing`) or goes to the checkout. Faults are
restarts (consumption resumes at an earlier committed offset), dropped sockets,
failed messages and failed fetches. `covered` and `skipped`, and `at` and
`covered` of a fetch, are history: whether everything the view lacks is still on
its way to it. A dropped socket, a message that failed in a pod and an update that
arrives before the first fetch returns are excused by these, not prevented. The cache key that the consumer deletes is never written by the
code, so there is no cache here. The limit of eight selected seats is left out.

### Gate

One actor per request. The rate limiter's `INCR` and `EXPIRE NX` are two
commands (`Incr`, `Expire`), between which other requests, the end of the window
and failures come. A time to live is a number of ticks; `TimePasses` takes one off, and
the key goes with the last. `Expire` sets it only where there is none. `registerUser` looks the address up (`FindUser`), hashes, and
inserts (`CreateUser`); the unique index decides. `loginUser` is one `SELECT`. A
password stands for its hash. All counts above the limit are one value, since
the code only compares with the limit. `lost` is history, and so is `knew`,
whether a request's password was the account's when it came.

### Pages

One tab, its session (`user`), the location it shows (`page`), what the page shows
of each booking (`view`), whether its buttons are disabled (`busy`), and the
handlers that wait for answers (`call`). A handler is a load, a confirmation, a
cancellation or a login; it remembers the token it was sent with (`by`), the
location it came from (`from`), the answers still missing (`todo`) and those it has
(`got`). `Promise.all` and `Promise.allSettled` go on when `todo` is empty (`Lands`).

Everything that ends in a navigation goes through `Go`, which does what the router
and React do: `ProtectedRoute` sends a tab without a session to the login page; a
page of another kind is mounted anew, with fresh state, and the handlers of the
former one lose theirs (`Detached`) but still navigate when they end; a page of the
same kind keeps its state and loads again if its parameters differ. `Reload` and
typed locations start from what other tabs left in localStorage.

Calls are answered one booking at a time (`Serve`), or fail (`Fail`). A call that fails
may have done its deed, may never do it, or leaves its handler running in the backend
(`RunsOn`): a confirmation then commits at any later moment (`LateConfirm`), also
after the page has asked again and was answered. The backend is one step per call, because `Booking` shows that its use
cases are atomic. `Elsewhere` is the expiry worker and the same users in other tabs.
The queries `getBooking` and `listBookings` are `OwnedBy`, `Reply` and `ServeList`.
`late` is the set of bookings with such a confirmation outstanding. `paid`, `doubt` and
`switched` are history; `paid` tells a booking confirmed by a checkout of this tab
("here") from one that was confirmed after its call had failed and that the page has not
read since ("late"), and from one confirmed in another tab or page ("elsewhere"). A page
that reads a late one knows it, and has to show it, so that it counts as "here" then. Cancelled and expired are one status,
since no page tells them apart; countdowns, error texts and layout are left out, and
so are the pages that show no booking, which are the one page "public". Of the
browser's history only what matters is kept: going back to a page that was left
while a button's handler of it is under way.

## 3. Runs

| Run | Shows | Instance |
|---|---|---|
| `booking_races` | tables agree; the second statement of a transaction finds its seat matching and unlocked; 409s quote final states; a pending hold has a job unless its scheduling was lost or the job gave up; `Booking` implements `SeatLedger` | 1 seat, 2 bookings, 2 requests, 2 workers, 1 attempt, 1 stall, 1 failed job kept |
| `booking_liveness` | a hold whose job is in the queue is settled; events are truthful and come from one call | 1 seat, 1 booking, 2 requests, 2 workers, 2 attempts, 1 stall, 2 sends |
| `lb_requests` | each `begin()` has exactly one `decrement()` (except an aborted await); shutdown terminates; accepted requests are served | 2 backends, 3 requests, both algorithms |
| `health` | no completion inside the window and no latency is lost; the average lies among its samples | 2 recorders, 1 reader, 3 records, clock to 2 |
| `routing` | sum, floor and ranking after every sequence of updates; signals override predictions; a dead loop leaves uniform routing; heavier backends get no less; newcomers are tried | 2 registered backends and a late one |
| `shutdown_drain` | producer and pool outlive the work that needs them; exit 0 is complete; the in-flight gauge is exact; keep-alive clients cannot hold up the drain | 2 connections, 2 jobs |
| `live_seats` | a page whose snapshot and socket cover every change shows the database when it is quiet | 1 seat, 2 pods, 3 changes, 2 faults, 2 fetches |
| `pages` | a ticket is only shown for what was confirmed; pages show the user's own bookings; an order is read again after a lost answer; disabled buttons have a reason | 2 users of a tab, 2 bookings, 2 handlers at a time |
| `gate` | no counter without a time to live; nobody locked out for good; answers about accounts are true | 1 client, 1 address, 2 passwords, 2 requests, a window of 2 ticks |

Each property has a mutant: a plausible bug in a mapped definition that the same
run then reports.

Some of the properties deserve a word. `CoveredPageIsCurrent` says that a page goes
stale in four ways only: it fetched before its socket was open, an update newer
than the snapshot arrived before it, the socket dropped, or a pod failed on a
message. `NoSampleLost` says that each window is what was pushed to it, in order,
less entries at the front that have expired. `OverrideDecides` says that no request goes
to a backend with more bad signals than the other candidate. It holds although a
signal only divides the weight by ten, because weights of a pool stay within a
factor of ten: raw weights lie between `exp(-2)` and 1, and smoothing, the shift
cap and normalisation keep the ratio. It is checked on two backends; with three,
the rounding of the coarse units itself drifts past the factor ten.

`OnlyOwnBookings` and `OrderIsReread` have exceptions, which the history variables
state. `switched`: a login answer that comes late changes the user under a page of the
same kind, which keeps what it shows until it loads again; `BookingsListPage` loads
only when it is mounted, and so shows the former user's list until the tab leaves it.
TLC does not reach such a state (`OneLogin`), so that for what may follow one only the
theorem speaks. `doubt`: a load of the page failed, or two were under way together,
whose answers may come in the wrong order. `paid = "late"`: the backend confirmed a
booking whose call had failed, after the page had asked again and was answered.

### Disagreements between the code and its documentation

These runs are expected to end in a violation; `findings` in `PROJECT.json`
quotes the lines.

| Run | The documentation says | The code does |
|---|---|---|
| `lb_abort_leak` | an aborting client releases its slot (`tests.rs`) | the future is dropped at the await and `in_flight` stays one too high |
| `router_probe_doc` | the exploration floor gives every server a trickle of traffic (`types.rs`) | of two distinct candidates the heavier always wins, so no draw ends at the lightest |
| `live_seats_doc` | a change is on screen the instant the pipeline observes it (`useLiveSeats.ts`) | an update that arrives before the first fetch returns is dropped, and the snapshot may be older |

Observations that have no run of their own:

- An event may be on its topic several times: `producer.ts` creates a producer without
  `idempotent`, and `kafka.ts` lets the client retry ten times. `EventsMatchHistory`
  bounds the copies by the sends of one call.
- The "lightweight DLQ" of failed expiry jobs keeps 200 of them. Beyond these, a hold may
  be left pending with no job at all, not even a failed one (`exhausted`).
- A backend that accepts connections and never answers is not measured: there is no
  timeout on the upstream request, and `record()` comes after it. It keeps its neutral
  prediction and leads the pool (`NewcomersLead`) until its in-flight count, its one
  signal, reaches the threshold; a client that gives up leaves that count raised
  (`lb_abort_leak`).
- Through lb-proxy no live socket opens, so that a page behind it shows what it
  fetched, and nobody tells it that updates do not come.
- `MultiCheckoutPage` reads its bookings once after a failed confirmation. If the backend
  confirms one afterwards, the page offers it for payment; the backend refuses (`late`).
- A hold that is not confirmed is reclaimed by its job only. When the pod dies, or
  Redis refuses, between the commit and `scheduleHoldExpiry`, nothing takes it back
  (`unscheduled` in `PendingHoldIsGuarded`), although `env.ts` promises it.

- `error_rate()` reads its numerator and its denominator under different locks;
  the quotient can exceed 1 until `update_scores` clamps it.
- Normalisation comes after the shift cap and the domain cap and undoes both: with
  several failure domains, one can end above its cap. lb-proxy registers its whole
  pool under one domain, where the cap scales all alike.
- `total_requests` misses requests that fail to build or whose client aborts,
  although the comment in `proxy.rs` calls it the selection count.
- Shutdown waits for sockets: the handler of a client that hung up may outlive the
  drain (`OrphanEnds`).
- `confidence` is never read by the router, although `types.rs` says that low
  confidence biases towards round robin.
- `registerUser` looks for the code `23505` on the error itself; recent versions of
  drizzle-orm wrap the driver's error and keep it as `cause`, which would turn the
  409 into a 500. The library is not part of this repository, so `CreateUser`
  allows both answers.
- `stopCdcConsumer` does nothing while the consumer is crashed or connecting again, so
  kafkajs may connect it while the rest is torn down; the comment above the function
  expects the flag to be down only if the consumer never connected.
- `http_requests_in_flight` counts requests whose close event has not come. It leaves
  out handlers whose client has gone, and on recent versions of Node, where a request
  closes when its body has been read, it may leave out requests still being served.
- The login page leads back to the path of the page that asked for it, without the
  query: `/checkout?ids=...` comes back empty (`PathOf`).
- Two loads of one checkout page may answer in the wrong order, and the page then
  offers what is confirmed for confirmation; the backend refuses (`doubt`).
- `CheckoutPage` does not load again after a lost answer, as `MultiCheckoutPage` does
  (`Reloads`); `handleReleaseAll` ignores every failure (`ReleasedLands`); `TicketPage`
  has no handler for a failed load, and says "Loading" for good.
- After a lost answer, a registration that is repeated is told "already
  registered", although the account is the caller's own.

### Bounds

- *Booking.* Every conflict is between the transactions on one seat row or one
  booking row, so one seat with two bookings has them all: reserve against
  reserve, confirm against cancel, confirm or cancel against expiry, and an old
  booking's expiry against a new booking's hold. A slot of `Requests` is reused
  after its response, so the number of requests over time is not bounded, only
  how many are in flight. `BookingIds` bounds the committed reservations
  (`IdLeft`). `MaxAttempts` is 1 or 2 instead of 3: the first and the last attempt
  behave as they do for 3. Two workers and one stall make a double delivery, in both
  runs. `KeepFailed` is 1 instead of 200: with two bookings a failed job drives out
  another. `MaxSends` is 2 where events are the question, 0 where they are not, since
  no action reads `published`. The second run has one booking, which is what its
  properties speak of. The theorems have none of these bounds.
- *LbProxy.* Three requests on two backends put two on one backend while
  another is taken; a request's slot is its own, so more of them add nothing new.
- *ServerHealth.* `MaxTime` 2 with `Window` 1 puts instants before, at and after
  the window's edge; three records are needed for a push behind a newer one.
- *Scoreboard and Router.* `Unit` is 100, which makes the reachable weights few
  enough to explore every sequence of updates; the raw weights are the extremes
  `exp(-2)` and `exp(0)`. Three servers include one that is predicted or added but
  not registered. `TTL` 1 tells fresh from stale; one signal suffices to override.
  `MaxCalls` bounds the library calls that lb-proxy does not make to two: a server
  may come and go, or come and be predicted.
- *LiveSeats.* One seat, because updates of different seats do not touch each
  other; four entries of the topic (`MaxChanges`, the initial snapshot included)
  let a status come back to what it was; two faults allow a restart and a dropped
  socket, two fetches a refetch that overtakes the first.
- *Gate.* A window of two requests with two slots: one below, one at and one above
  the limit. Slots are reused, so requests over time are not bounded. A window of
  two ticks can be under way when an `EXPIRE` comes. Two passwords
  make a right and a wrong one. The theorems have none of these bounds.
- *Pages.* Two bookings: the least for an order of which one part succeeds and another
  fails. Two handlers at a time: a late answer overtakes a later call. One user owns
  the bookings, the other is a stranger who uses the same tab, or types a location.
  Slots are reused, so calls over time are not bounded. `OneOrphan` and `OneLogin`
  keep TLC to one handler at a time whose page is gone, and to one login under way:
  the late answer that meets a newer page or session needs no more. The theorems have
  none of these bounds.
- *Shutdown.* Two connections show one busy and one idle at any step, and one that
  arrives between the signal and `server.close()`.

### Fairness

- *Booking.* A statement returns or fails, so requests and workers go on.
  PostgreSQL queues the waiters of a row lock, hence strong fairness for the
  statements that may wait. A due job is taken by some worker, and a job whose
  worker is gone is found stalled (BullMQ checks periodically). Clients owe
  nothing: no request has to come, and none has to be confirmed.
- *LbProxy.* The runtime polls handlers that are not waiting, and the drain's
  timer fires. Backends and clients owe nothing; only `AcceptedIsServed` assumes,
  in its premise, that they respond.
- *Shutdown.* Handlers, jobs and the external calls of the teardown return.
  Clients never have to hang up, and the force timer is deliberately not counted
  on: with it the property would say nothing about the reaper.
- *Router.* `RouteAnyway`: a draw that would send a request to a backend whatever the
  signals say, and goes on to be possible, is made some time (weak fairness). That needs
  requests that keep coming and a generator that gives every draw, as long as the library
  is used as lb-proxy does. Nothing is assumed about the signals, so that no backend has
  to be overloaded, or quiet, for another one's benefit. The health loop owes nothing, and
  nobody has to answer or to record.
- *Gate.* Time passes (`TimePasses`): a time to live runs out unless it is set again for
  ever, which is what `NX` excludes. Of the requests of a client that come between
  `INCR` and `EXPIRE` again and again, not all are cut off just there (strong
  fairness of `Expire`). Clients owe nothing: that they come back is a premise of
  `NobodyIsLockedOut`.
- *LiveSeats* and *Pages* need none: what they state are invariants.

Deadlock is checked in the booking, routing, gate and pages runs, where the system never
stops; the others may legitimately end (the process exits, the bounded number of
requests or records is used up).

## 4. Proofs

*Booking.* `SeatMatchesBookings` is not inductive: whether a commit keeps it
depends on what the transaction locked in an earlier statement. `Inv` in
`BookingProofs` adds, for every program point, the lock the transaction holds and
what the locked row must still look like (`Knows`, `WorkerKnows`), and splits the
agreement of the tables into four facts about single rows (`RowsFilled`,
`SeatFollowsBooking`, `OneActivePerSeat`, `SeatIsBacked`). The argument for a step
has two halves. The actor's own knowledge is what its guard just read. Everybody
else's survives because rows only move forward (`Forward`) and nobody touches a
row that another process has locked (`RespectsLocksOf`); `KnowsFrame` and
`WorkerKnowsFrame` say so once for all actions. `CommitKeepsData` is the heart: a
commit that holds the booking's lock, on a seat whose status follows that
booking, keeps the four facts. From `Inv` follow, for any number of seats,
users, bookings, requests and workers: `BookingTypes`, `NoDoubleBooking`
(`SeatMatchesBookings`),
`ConflictsAreFinal` (`ConflictIsFinal`), `LifecycleHolds` (`BookingLifecycle`) and
`OwnersDecide` (`OwnerDecides`), which no run repeats, and
`BookingImplementsLedger` (`ImplementsLedger`: every commit is one `Hold`, `Sell`
or `Release` of the ledger, everything else a stutter). What the ledger is good for is
proved of the ledger alone, from its three actions (`LedgerPromises`: one claim for a
seat, which changes hands only by way of being free; no booking comes back to a seat it
lost), and Booking inherits it (`SeatsChangeHands`).

`Inv` says which locks a transaction has, not that nobody else has one. The other half
is `LocksOwned`: every locked row belongs to a request or worker between its two
statements, and is the row that this transaction is about; every way to end a
transaction, a crash included, unlocks what it had (`LocksGivenUp`). From the two
together follows `SeatStatementsSucceed` (`SeatStatementSucceeds`): whoever has locked
a booking finds its seat in the status it expects, so that the "state drift" throws
are dead code; and a locked seat belongs to a reservation, which found it available,
so that nobody waits for a seat while holding a booking. That is why a reservation
may lock the seat first and the other transactions the booking first.

What follows a commit comes last. Whether a publish is truthful
depends on a commit several steps earlier, so `EventInv` gives every request between
the two a debt (`Owes`): it made the booking reach that point, it alone owes that
event, and every copy sent so far is one of its own sends (`DebtsAreTrue`). A debt
arises only where the booking reaches a point for the first time (`DebtStep`), which is
what the WHERE clauses ensure, and points that are reached stay reached; no copy was
sent before. This proves `EventsAreTrue` (`EventsMatchHistory`), and with it
`HoldsAreGuarded` (`PendingHoldIsGuarded`): the only request that removes a job owes
the event of a cancelled booking, the only worker that completes one has seen its
booking settled, and an evicted job is one of more than `KeepFailed` that gave up.

The assumptions are those of `BookingAssumption`: positive attempts, a positive number
of failed jobs that are kept, natural bounds on sends and stalls; requests and
workers are different things, `None` is none of them. Finiteness of the sets is
not assumed, except by the guard `IdLeft`, about which the proofs need nothing.

*ServerHealth.* `AveragesAreOfSamples` (`AverageWithinSamples`): once there is a sample,
the average lies between the smallest, rounded down to tens, and the largest, for any
latencies of at least 10 ns, so that integer division neither lets it drift below them nor decays it back to
the sentinel. The invariant carries the same for each recorder's loaded copy, which was
an average of earlier samples. It speaks of one atomic and the history of its
exchanges only (see above). `HealthTypeCorrect`
(`TypeOK`), `WindowsLoseNothing` (`NoSampleLost`) and `AverageLosesNothing`
(`EmaLosesNothing`) hold for any number of recorders and readers and any window.
For the windows the invariant adds that a recorder's `now` is never ahead of the
clock: whatever `prune()` drops with it has expired for everybody, although the
instants in a window are not sorted. For the average it is a fold over the samples
so far, extended by one at each exchange; that the fold is the only function with
this property is itself proved. Latencies are at least 10 ns (`LatencyAssumption`);
a smaller one would be averaged in as zero.

*Scoreboard and Router.* For any finite set of servers, any domains, raw weights and
configuration that `ConfigAssumption` admits:

- `RouterTypeCorrect` (`RouterTypeOK`), `WeightsSumToOne` (`SumsToOne`) and
  `RankingIsRespected` (`RankingRespected`). Every stage of `update_scores` keeps the
  order of two servers that share a domain: rounded division is monotone. A total of
  weights is a sum that takes one server away at a time; the lemmas say that it does
  not depend on the order, and that shares of a total, each rounded down, add up to
  the whole but for less than one unit for each server.
- `FloorIsKept` (`WeightsAreShares`) and `ProxyFloorIsKept`. Normalisation divides by
  a sum that may exceed 1.0 and could push a weight that was just raised to the floor
  below it again. Smoothing and the shift cap bound how far the sum can grow in one
  round (`SmoothBound`), the domain cap brings it down, and raising adds at most one
  floor for each server. If the two together stay within 1.0 (`Room`), no weight ends
  below the floor. The theorems have two hypotheses: the servers share one domain
  (`OneDomain`), as all of lb-proxy's do, and there is `Room(k)`, where `k = 1` allows
  for a server that nobody registered. With the default configuration `Room(0)`
  holds up to 17 servers, which is the case of lb-proxy (`ProxyFloorIsKept`: as long
  as `calls = 0`), and `Room(1)` up to three; the instance of the run `routing`
  satisfies `Room(1)`.
- `StaleScoresGiveUniformShares` (`StalePoolIsUniform`) and `HeavierServersGetMore`
  (`HeavierGetsMore`). Draws are pairs of positions in the list, so shares are
  cardinalities of sets of draws. With all scores stale every draw falls to its first
  position, so that a server wins as many draws as there are second positions. If one
  server is heavier than another, an injective map turns each draw that the lighter
  wins into one that the heavier wins, the collisions of the indices included
  (`HeavierMore`).
- `NewcomersLeadThePool` and `NewcomersAreTried`, the safety half of
  `NewcomerIsTried`, for pools of any size whose members share a domain
  (`RegisteredTogether`). As long as lb-proxy's loop is the only user, the pool and
  the score map have the same members and the same age (`PoolInv`), and a backend
  that was never measured weighs at least as much as every other (`NewcomersLead`):
  its neutral prediction is the best there is, and no stage of an update turns two
  servers of a domain round. A backend that was never tried has no signals either, so
  it wins the first draw that names it first, whatever the signals of the others.
- `LightestIsNotProbed` (`LightestGetsNothing`): what the run `router_probe_doc` shows
  of one pool is so of all. A backend that weighs less than each of the others wins no
  draw, whatever the floor.
- `OverrideDecidesForTwo` (`OverrideDecides`), for two backends in one domain. What is
  inductive is that no weight falls below some `L` (`Balanced`); `Margin(L, low)` is the
  condition on the configuration that makes it so: the hardest push, the worst raw weight
  `low` on a weight of `L` and the best on the other, leaves the ratio where it was, and
  two weights of at least `L` differ by less than ten. The default configuration has
  such an `L` if the units are fine (91 of 1000 units, 910 of 10000); 100 units, as in
  the run `routing`, are too coarse for one bound that survives every rounding, and TLC
  shows the property there.
- `UpdatesKeepRatios`, for one domain, any pool size and `Room(0)`: if a factor `p / q`
  bounds both the old weights of two servers and what any two predictions can differ by,
  it bounds the new ones but for `1 + e` units. Smoothing, the shift cap, the domain cap,
  the floor and normalisation take their turn in the proof (`SmoothWithin` to
  `NormalizedWithin`). `Slack(e)` asks that `e` units make up for the rounding; with
  the default configuration, three servers and 1000 units, `e = 9` does.

*LiveSeats.* `LiveTypeCorrect` (`TypeOK`) and `CoveredPagesAreCurrent`
(`CoveredPageIsCurrent`), for any finite set of seats, any pods and fetches, and any
bounds on changes and faults. The property speaks of quiet states only. `LiveInv`
(`CoverIsComplete`) says what holds on the way there: as long as the socket is open
and no message was skipped, the messages under way are the last ones that the pod
has consumed, without a gap and in order. So one number, `Handled`, splits the topic
into what the page has been told and what it will still be told. A covered map, the
page's or the snapshot of a fetch, can differ from the database only in seats that
change again in the second part, which is empty when everything is quiet. Applying
an older change over a newer snapshot is harmless for the same reason: a newer change
of that seat is still to come.

*Gate.* `GateTypes` (`TypeOK`), `CountersExpire` (`CounterExpires`) and
`AnswersHold` (`AnswersAreTrue`) for any number of clients, addresses, passwords
and requests. `CounterExpires` is inductive with the types: the excuse for a
counter without a time to live is a request between its two commands, and that
request's next step removes the counter's need for one or records the loss.
`AnswersAreTrue` is not: what a token proves was read when the request came.
`Faithful` adds that answers come last and that a password that was right stays
right, because accounts are only ever created (`About`, `RightPassword`). The
only assumptions are a positive limit and a `None` that is no password.

*LbProxy.* `ProxyTypes` (`TypeOK`) and `SlotsAreExact` (`InFlightExact`) for any
number of backends and any finite set of requests. Each step moves one request into
the owners of one backend, out of them, or neither (`Takes`, `Gives`, `Stays`), and
counts accordingly. What makes it inductive is that whoever is past the choice has a
backend (`Chosen`), and that `TrackedBody.done` says at every point whether the slot
was given back (`DoneWhenEnded`), so that the second `finish()` gives nothing.
`DrainIsComplete` (`DrainCutsNothingOff`) joins the two halves of the module: when the
drain completes, no accepted connection is unfinished, and the slots that are still
taken are those of the handlers that were dropped.

*Shutdown.* `ShutdownTypes` (`TypeOK`), `WorkKeepsItsResources`
(`ResourcesOutliveWork`), `ExitZeroTellsTheTruth` (`ExitZeroIsComplete`) and
`GaugeStaysExact` (`GaugeIsExact`), for any finite set of connections and any jobs.
`StaysClosed` says for each step behind the teardown what it closed, and that stays
closed: a server that does not listen and has no socket gets none. `OpenUntilThen`
says the converse, that nothing is closed before its step. For the gauge the
invariant is that it counts the requests whose flag is down (`GaugeFollowsFlag`).
`ReaperMissesNoSocket` (`NoIdleSocketLeft`) and `ClosingSocketsOnlyClose`
(`SocketsOnlyClose`) are the safety half of `KeepAliveCannotHang`. A response that
finishes after the signal finds the reaper on, `close()` finds what became idle or
connected before it, and nothing connects later (`Reaped`); so every socket that is
left is busy, and its next step is its last.

*Pages.* `TabTypes` (`TypeOK`), `TicketsArePaid` (`TicketIsPaid`), `BookingsArePrivate`
(`OnlyOwnBookings`), `ButtonsComeBack` (`DisabledForAReason`) and `OrdersAreReread`
(`OrderIsReread`), for any users,
bookings and handlers. The invariant says of every handler what its answers prove
(`Truth`), that it still reaches only pages of the kind that started it
(`Attachment`), and whose session it runs in (`Session`). Since almost every action
ends in a navigation, most of the proof is the lemma `GoKeeps`. `OrderIsReread` needs a
second invariant, `OrderInv`: while an order is under way no other button of the page
is (`ButtonsAlone`), a booking that was paid never goes back to be confirmed
(`UnpaidFirst`), and a page that shows a paid booking as pending is still waiting for
the order or loading again, with an answer that is not the old one
(`ShownOrLoading`, `LoadOrConfirming`, and one load at a time, `LoadsAlone`). A
confirmation that outlives its call counts as the order's own as soon as the page has
read it; only those that the backend commits after that answer are excepted. The proof assumes that every
booking has an owner (`OwnerAssumption`) and that nobody is called `None`.

*Data.* Where a proof needs induction over finite sets (sums of weights, folds over
samples), it is done by a minimal counterexample: strict inclusion of finite subsets is
well founded, and a counterexample of least size has a smaller one
(`RestInduction` in `RouterProofs`).

*Only model-checked.*

- All liveness: `ScheduledHoldIsSettled`, `ShutdownTerminates`, `AcceptedIsServed`,
  `KeepAliveCannotHang`, `NewcomerIsTried`, `NobodyIsLockedOut`. The prover
  does not handle fairness and ENABLED.
  The safety halves of four of them are proved: `NewcomersAreTried`,
  `ClosingSocketsOnlyClose`, `DrainIsComplete`, and `HoldsAreGuarded`.
- `OverrideDecides` for configurations without a `Margin`, and for three or more
  backends. There `UpdatesKeepRatios` bounds each update, but where the shift cap binds
  for all servers the units it leaves may add up over many updates, and pass the factor
  of ten. That is the model's rounding; the code's floats err by 10^-16.
- `WeightsAreShares` for configurations without room, or with several domains, where
  the floor can fail: normalisation has the last word.

## 5. Not modelled

Catalog queries (single reads; the list of seats is `ReadSnapshot` of `LiveSeats`),
security headers and configuration (no state), password hashing and the contents of
tokens (library calls), the metrics registry apart from the in-flight gauge, the
seed, migration and benchmark scripts, deployment files and load tests. In `LbProxy`
the router's choice is any backend; in `Scoreboard`, risk, health memory and
confidence are folded into the raw weight. Of the front end, the pages that show no
booking, except for the seat picker, which is in `LiveSeats`. The pool of database
connections is not modelled: that all of them wait for each other is not possible,
since a transaction needs one connection and nobody waits for a second while holding
it.

## 6. What is left

- `LbProxy` composed with `Router`: what a leaked in-flight count does to the penalty
  of a backend, and whether anything heals it.
- In a pool of ten or more equal servers the +10% shift cap binds even for the worst
  raw weight, so that predictions may stop telling servers apart: an instance of
  `Scoreboard` with coarser dynamics that can reach it.
- The boot of a pod: a signal between the installation of the handlers and `listen()`.
- Theorems: `OverrideDecides` for three or more backends, in a model of the weights whose
  rounding does not add up; that the floor fails without room, for which `Room` is only
  a sufficient condition.
