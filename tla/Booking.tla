------------------------------ MODULE Booking -------------------------------
(***************************************************************************)
(* The booking core of the backend: reserve, confirm and cancel requests,  *)
(* and the hold-expiry worker, over one PostgreSQL database (READ          *)
(* COMMITTED), one BullMQ queue and one Kafka topic.                       *)
(*                                                                         *)
(* A transaction is modelled statement by statement.  `seats' and          *)
(* `bookings' are the COMMITTED rows; a transaction's first UPDATE takes   *)
(* the row's lock and its new value stays private until the last statement *)
(* commits (the last statement and COMMIT are one step: nobody can observe *)
(* the state between them).  An UPDATE ... WHERE whose predicate fails on  *)
(* the committed row matches zero rows at once; one whose predicate holds  *)
(* on a locked row waits and is re-evaluated, as READ COMMITTED does.      *)
(***************************************************************************)
EXTENDS Naturals, FiniteSets

CONSTANTS Seats,        \* seat ids
          Users,        \* user ids
          BookingIds,   \* booking ids; as many reservations as can commit
          Requests,     \* HTTP requests in flight, over all backend pods
          Workers,      \* hold-expiry workers, one per backend pod
          MaxAttempts,  \* BullMQ `attempts' of a hold-expiry job (3 in the code)
          MaxStalls,    \* BullMQ maxStalledCount (library default 1)
          KeepFailed,   \* BullMQ `removeOnFail.count' (200 in the code)
          MaxSends,     \* times the Kafka client sends one message (1 + 10 retries)
          None

ASSUME BookingAssumption ==
    /\ MaxAttempts \in Nat \ {0}
    /\ MaxStalls \in Nat
    /\ KeepFailed \in Nat \ {0}
    /\ MaxSends \in Nat
    /\ Requests \cap Workers = {}
    /\ None \notin Seats \cup Users \cup BookingIds \cup Requests \cup Workers

VARIABLES seats,        \* committed seats rows
          bookings,     \* committed bookings rows
          seatLock,     \* row locks on seats: the transaction that holds each
          bookingLock,  \* row locks on bookings
          req,          \* each request's progress
          job,          \* hold-expiry-<id> jobs in Redis
          work,         \* what each worker is processing
          published,    \* copies of an event sent to Kafka, per booking and event
          unscheduled,  \* history: reservations whose scheduling was lost
          exhausted     \* history: jobs that used up their attempts or stalls

dbVars == <<seats, bookings, seatLock, bookingLock>>
queueVars == <<job, work, exhausted>>
vars == <<seats, bookings, seatLock, bookingLock, req, job, work, published, unscheduled, exhausted>>

-----------------------------------------------------------------------------
SeatStatus == {"available", "held", "booked"}
\* "absent" is a row that has not been inserted.
BookingStatus == {"absent", "pending", "confirmed", "cancelled", "expired"}
Events == {"created", "confirmed", "cancelled"}
Procs == Requests \cup Workers

RequestPC == {"idle", "reserve_update", "reserve_insert", "reserve_schedule",
              "confirm_booking", "confirm_seat", "confirm_reread",
              "cancel_booking", "cancel_seat", "cancel_reread",
              "get_job", "remove_job", "publish"}
Ops == {"none", "reserve", "confirm", "cancel"}

Idle == [pc |-> "idle", op |-> "none", user |-> None, seat |-> None, booking |-> None, sends |-> 0]
NoJob == [state |-> "none", worker |-> None, attempts |-> 0, stalls |-> 0]
NoWork == [pc |-> "idle", booking |-> None]

SeatRows == [status : SeatStatus, version : Nat]
BookingRows == [status : BookingStatus, seat : Seats \cup {None}, user : Users \cup {None}]
RequestStates == [pc : RequestPC, op : Ops, user : Users \cup {None}, seat : Seats \cup {None},
                  booking : BookingIds \cup {None}, sends : 0..MaxSends]
JobStates == [state : {"none", "delayed", "active", "failed"}, worker : Workers \cup {None},
              attempts : 0..MaxAttempts, stalls : 0..(MaxStalls + 1)]
Tasks == [pc : {"idle", "expire_booking", "release_seat", "complete_job"}, booking : BookingIds \cup {None}]

\* Type invariant: rows, locks, requests, jobs and workers are well formed, and
\* a job is never attempted or requeued more often than its options allow.
TypeOK ==
    /\ seats \in [Seats -> SeatRows]
    /\ bookings \in [BookingIds -> BookingRows]
    /\ seatLock \in [Seats -> Procs \cup {None}]
    /\ bookingLock \in [BookingIds -> Procs \cup {None}]
    /\ req \in [Requests -> RequestStates]
    /\ job \in [BookingIds -> JobStates]
    /\ work \in [Workers -> Tasks]
    /\ published \in [BookingIds -> [Events -> Nat]]
    /\ unscheduled \in SUBSET BookingIds
    /\ exhausted \in SUBSET BookingIds

Init ==
    /\ seats = [s \in Seats |-> [status |-> "available", version |-> 0]]
    /\ bookings = [b \in BookingIds |-> [status |-> "absent", seat |-> None, user |-> None]]
    /\ seatLock = [s \in Seats |-> None]
    /\ bookingLock = [b \in BookingIds |-> None]
    /\ req = [r \in Requests |-> Idle]
    /\ job = [b \in BookingIds |-> NoJob]
    /\ work = [w \in Workers |-> NoWork]
    /\ published = [b \in BookingIds |-> [e \in Events |-> 0]]
    /\ unscheduled = {}
    /\ exhausted = {}

-----------------------------------------------------------------------------
(* The WHERE clauses of the UPDATE statements: they, not the reads that     *)
(* precede them, decide every race.                                         *)
ReserveWhereUnguarded(s) == TRUE
ReserveWhere(s) == seats[s].status = "available"

ConfirmSeatWhere(s) == seats[s].status = "held"

ReleaseWhere(s) == seats[s].status = "held"

ReleaseHeldOrBookedWhereHeldOnly(s) == seats[s].status = "held"
ReleaseHeldOrBookedWhere(s) == seats[s].status \in {"held", "booked"}

ConfirmWhere(b) == bookings[b].status = "pending"

CancelWherePendingOnly(b) == bookings[b].status = "pending"
CancelWhere(b) == bookings[b].status \in {"pending", "confirmed"}

ExpireWhereUnguarded(b) == bookings[b].status \in {"pending", "confirmed"}
ExpireWhere(b) == bookings[b].status = "pending"

(* UPDATE seats SET status = ..., version = version + 1                     *)
SeatRow(s, status) == [status |-> status, version |-> seats[s].version + 1]

(* A booking row may be changed by the user it belongs to.                  *)
OwnedBy(b, u) == bookings[b].status # "absent" /\ bookings[b].user = u

\* The handler is done (2xx, 4xx or 5xx) and the request is gone.
Respond(r) == req' = [req EXCEPT ![r] = Idle]

Goto(r, pc) == req' = [req EXCEPT ![r].pc = pc]

-----------------------------------------------------------------------------
(* reserveSeat                                                              *)

\* Bound: a reservation starts only if an id is left for it to insert.
IdLeft == Cardinality({r \in Requests : req[r].pc \in {"reserve_update", "reserve_insert"}})
            < Cardinality({b \in BookingIds : bookings[b].status = "absent"})

Begin(r, op, u, s, b, pc) ==
    req' = [req EXCEPT ![r] = [pc |-> pc, op |-> op, user |-> u, seat |-> s, booking |-> b,
                                   sends |-> 0]]

\* findSeatById found the seat; an unknown one is a 404 that changes nothing.
StartReserve(r, u, s) ==
    /\ req[r].pc = "idle"
    /\ IdLeft
    /\ Begin(r, "reserve", u, s, None, "reserve_update")
    /\ UNCHANGED <<dbVars, queueVars, published, unscheduled>>

\* BEGIN; UPDATE seats SET status = 'held' WHERE id AND status = 'available'.
ReserveSeatRow(r) ==
    LET s == req[r].seat IN
    /\ req[r].pc = "reserve_update"
    /\ \/ /\ ReserveWhere(s)
          /\ seatLock[s] = None
          /\ seatLock' = [seatLock EXCEPT ![s] = r]
          /\ Goto(r, "reserve_insert")
       \/ /\ ~ReserveWhere(s)
          /\ Respond(r)
          /\ UNCHANGED seatLock
    /\ UNCHANGED <<seats, bookings, bookingLock, queueVars, published, unscheduled>>

\* INSERT INTO bookings; COMMIT: the held seat and the pending row appear together.
InsertBooking(r, b) ==
    LET s == req[r].seat IN
    /\ req[r].pc = "reserve_insert"
    /\ bookings[b].status = "absent"
    /\ seats' = [seats EXCEPT ![s] = SeatRow(s, "held")]
    /\ bookings' = [bookings EXCEPT ![b] = [status |-> "pending", seat |-> s, user |-> req[r].user]]
    /\ seatLock' = [seatLock EXCEPT ![s] = None]
    /\ req' = [req EXCEPT ![r].pc = "reserve_schedule", ![r].booking = b]
    /\ UNCHANGED <<bookingLock, queueVars, published, unscheduled>>

\* scheduleHoldExpiry after the commit; a failure is logged and swallowed.
ScheduleHoldExpiry(r) ==
    LET b == req[r].booking IN
    /\ req[r].pc = "reserve_schedule"
    /\ \/ /\ job' = [job EXCEPT ![b] = IF @.state = "none" THEN [NoJob EXCEPT !.state = "delayed"] ELSE @]
          /\ UNCHANGED unscheduled
       \/ /\ unscheduled' = unscheduled \cup {b}
          /\ UNCHANGED job
    /\ Goto(r, "publish")
    /\ UNCHANGED <<dbVars, work, published, exhausted>>

-----------------------------------------------------------------------------
(* confirmBooking and cancelBooking                                         *)

\* The ownership read, outside the transaction: only the owner gets past it,
\* anybody else gets a 404 that changes nothing.
StartConfirm(r, u, b) ==
    /\ req[r].pc = "idle"
    /\ OwnedBy(b, u)
    /\ Begin(r, "confirm", u, None, b, "confirm_booking")
    /\ UNCHANGED <<dbVars, queueVars, published, unscheduled>>

StartCancel(r, u, b) ==
    /\ req[r].pc = "idle"
    /\ OwnedBy(b, u)
    /\ Begin(r, "cancel", u, None, b, "cancel_booking")
    /\ UNCHANGED <<dbVars, queueVars, published, unscheduled>>

\* BEGIN; UPDATE bookings SET status = ... WHERE id AND status ...
\* by request or worker p; `matches' is the WHERE clause on the committed row.
LockBookingRow(p, b, matches) ==
    /\ matches
    /\ bookingLock[b] = None
    /\ bookingLock' = [bookingLock EXCEPT ![b] = p]

\* UPDATE seats ...; COMMIT: the new booking status and the new seat status
\* become visible together and the row locks go.
CommitBoth(b, status, seatStatus) ==
    LET s == bookings[b].seat IN
    /\ seatLock[s] = None
    /\ bookings' = [bookings EXCEPT ![b].status = status]
    /\ seats' = [seats EXCEPT ![s] = SeatRow(s, seatStatus)]
    /\ bookingLock' = [bookingLock EXCEPT ![b] = None]

\* The seat UPDATE matched no row: throw, so the transaction rolls back.
StateDrift(r, b) ==
    /\ bookingLock' = [bookingLock EXCEPT ![b] = None]
    /\ Respond(r)
    /\ UNCHANGED <<seats, bookings>>

ConfirmBookingRow(r) ==
    LET b == req[r].booking IN
    /\ req[r].pc = "confirm_booking"
    /\ \/ /\ LockBookingRow(r, b, ConfirmWhere(b))
          /\ Goto(r, "confirm_seat")
       \/ /\ ~ConfirmWhere(b)
          /\ Goto(r, "confirm_reread")
          /\ UNCHANGED bookingLock
    /\ UNCHANGED <<seats, bookings, seatLock, queueVars, published, unscheduled>>

ConfirmSeatRow(r) ==
    LET b == req[r].booking
        s == bookings[b].seat IN
    /\ req[r].pc = "confirm_seat"
    /\ \/ ConfirmSeatWhere(s) /\ CommitBoth(b, "confirmed", "booked") /\ Goto(r, "publish")
       \/ ~ConfirmSeatWhere(s) /\ StateDrift(r, b)
    /\ UNCHANGED <<seatLock, queueVars, published, unscheduled>>

CancelBookingRow(r) ==
    LET b == req[r].booking IN
    /\ req[r].pc = "cancel_booking"
    /\ \/ /\ LockBookingRow(r, b, CancelWhere(b))
          /\ Goto(r, "cancel_seat")
       \/ /\ ~CancelWhere(b)
          /\ Goto(r, "cancel_reread")
          /\ UNCHANGED bookingLock
    /\ UNCHANGED <<seats, bookings, seatLock, queueVars, published, unscheduled>>

CancelSeatRow(r) ==
    LET b == req[r].booking
        s == bookings[b].seat IN
    /\ req[r].pc = "cancel_seat"
    /\ \/ ReleaseHeldOrBookedWhere(s) /\ CommitBoth(b, "cancelled", "available") /\ Goto(r, "get_job")
       \/ ~ReleaseHeldOrBookedWhere(s) /\ StateDrift(r, b)
    /\ UNCHANGED <<seatLock, queueVars, published, unscheduled>>

RereadWithoutThrow(r) ==
    /\ req[r].pc \in {"confirm_reread", "cancel_reread"}
    /\ Goto(r, "publish")
    /\ UNCHANGED <<dbVars, queueVars, published, unscheduled>>

\* Zero rows matched: re-read the row and answer 409 with the status seen now.
Reread(r) ==
    /\ req[r].pc \in {"confirm_reread", "cancel_reread"}
    /\ Respond(r)
    /\ UNCHANGED <<dbVars, queueVars, published, unscheduled>>

\* cancelBooking's best-effort cleanup: holdExpiryQueue.getJob(...).
GetJob(r) ==
    LET b == req[r].booking IN
    /\ req[r].pc = "get_job"
    /\ \/ job[b].state # "none" /\ Goto(r, "remove_job")
       \/ Goto(r, "publish")      \* no such job, or Redis failed
    /\ UNCHANGED <<dbVars, queueVars, published, unscheduled>>

\* job.remove(): throws, and is ignored, while a worker holds the job.
RemoveJob(r) ==
    LET b == req[r].booking IN
    /\ req[r].pc = "remove_job"
    /\ \/ job[b].state # "active" /\ job' = [job EXCEPT ![b] = NoJob]
       \/ UNCHANGED job
    /\ Goto(r, "publish")
    /\ UNCHANGED <<dbVars, work, published, unscheduled, exhausted>>

EventOf(op) == IF op = "reserve" THEN "created" ELSE IF op = "confirm" THEN "confirmed" ELSE "cancelled"

\* publishBookingEvent(): the Kafka client sends the message, and sends it again
\* (the producer is not idempotent) when no acknowledgement comes back.  A copy
\* that was sent reaches the topic at once, later (even after the client gave up
\* or the pod died) or never: `published' counts the copies the topic may hold.
Publish(r) ==
    LET b == req[r].booking IN
    /\ req[r].pc = "publish"
    /\ req[r].sends < MaxSends
    /\ req' = [req EXCEPT ![r].sends = @ + 1]
    /\ published' = [published EXCEPT ![b][EventOf(req[r].op)] = @ + 1]
    /\ UNCHANGED <<dbVars, queueVars, unscheduled>>

\* The send is acknowledged or fails; a failure is swallowed, the client gets 2xx.
PublishBookingEvent(r) ==
    /\ req[r].pc = "publish"
    /\ Respond(r)
    /\ UNCHANGED <<dbVars, queueVars, published, unscheduled>>

\* The locks a transaction holds when its connection goes away.
Released(lock, p) == [x \in DOMAIN lock |-> IF lock[x] = p THEN None ELSE lock[x]]

\* The pod crashes, the connection drops or a statement fails: the open
\* transaction rolls back, the steps after the commit never run.
Die(r) ==
    /\ req[r].pc # "idle"
    /\ seatLock' = Released(seatLock, r)
    /\ bookingLock' = Released(bookingLock, r)
    /\ unscheduled' = IF req[r].pc = "reserve_schedule" THEN unscheduled \cup {req[r].booking}
                                                        ELSE unscheduled
    /\ Respond(r)
    /\ UNCHANGED <<seats, bookings, queueVars, published>>

-----------------------------------------------------------------------------
(* The hold-expiry queue and worker                                         *)

\* The delay (or the retry backoff) is over and a worker takes the job.
TakeJob(w, b) ==
    /\ work[w].pc = "idle"
    /\ job[b].state = "delayed"
    /\ job' = [job EXCEPT ![b].state = "active", ![b].worker = w]
    /\ work' = [work EXCEPT ![w] = [pc |-> "expire_booking", booking |-> b]]
    /\ UNCHANGED <<dbVars, req, published, unscheduled, exhausted>>

HoldsJob(w, b) == job[b].state = "active" /\ job[b].worker = w

\* expireHold: UPDATE bookings SET status = 'expired' WHERE status = 'pending'.
ExpireBookingRow(w) ==
    LET b == work[w].booking IN
    /\ work[w].pc = "expire_booking"
    /\ \/ /\ LockBookingRow(w, b, ExpireWhere(b))
          /\ work' = [work EXCEPT ![w].pc = "release_seat"]
       \/ /\ ~ExpireWhere(b)
          /\ work' = [work EXCEPT ![w].pc = "complete_job"]
          /\ UNCHANGED bookingLock
    /\ UNCHANGED <<seats, bookings, seatLock, req, job, published, unscheduled, exhausted>>

\* releaseSeatRow and COMMIT.  A seat that is not 'held' is silently left
\* alone: expireHold does not look at the result.
ExpireSeatRow(w) ==
    LET b == work[w].booking
        s == bookings[b].seat IN
    /\ work[w].pc = "release_seat"
    /\ \/ ReleaseWhere(s) /\ CommitBoth(b, "expired", "available")
       \/ /\ ~ReleaseWhere(s)
          /\ bookings' = [bookings EXCEPT ![b].status = "expired"]
          /\ bookingLock' = [bookingLock EXCEPT ![b] = None]
          /\ UNCHANGED seats
    /\ work' = [work EXCEPT ![w].pc = "complete_job"]
    /\ UNCHANGED <<seatLock, req, job, published, unscheduled, exhausted>>

\* The processor returned: removeOnComplete.  A worker that lost the job's lock
\* in the meantime changes nothing.
CompleteJob(w) ==
    LET b == work[w].booking IN
    /\ work[w].pc = "complete_job"
    /\ job' = [job EXCEPT ![b] = IF HoldsJob(w, b) THEN NoJob ELSE @]
    /\ work' = [work EXCEPT ![w] = NoWork]
    /\ UNCHANGED <<dbVars, req, published, unscheduled, exhausted>>

\* expireHold throws: BullMQ retries with backoff, up to MaxAttempts in all,
\* then parks the job among the failed ones ("seat may be stuck held").
RetryOrFailForgetful(j) == NoJob
RetryOrFailOnceMore(j) ==
    [state |-> IF j.attempts + 1 > MaxAttempts THEN "failed" ELSE "delayed",
     worker |-> None, attempts |-> j.attempts + 1, stalls |-> j.stalls]
RetryOrFail(j) ==
    [state |-> IF j.attempts + 1 >= MaxAttempts THEN "failed" ELSE "delayed",
     worker |-> None, attempts |-> j.attempts + 1, stalls |-> j.stalls]

\* The failed jobs, of which the newest KeepFailed are kept (removeOnFail).
Failed == {b \in BookingIds : job[b].state = "failed"}

RequeueRemoveOnFail(b, j) ==
    /\ job' = [job EXCEPT ![b] = IF j.state = "failed" THEN NoJob ELSE j]
    /\ exhausted' = IF j.state = "failed" THEN exhausted \cup {b} ELSE exhausted

\* Job b goes back to the queue as j, or joins the failed ones for good; there it
\* may drive out an older one (the oldest: which one that is is left open here).
Requeue(b, j) ==
    \/ /\ j.state # "failed"
       /\ job' = [job EXCEPT ![b] = j]
       /\ UNCHANGED exhausted
    \/ /\ j.state = "failed"
       /\ exhausted' = exhausted \cup {b}
       /\ \/ /\ Cardinality(Failed) < KeepFailed
             /\ job' = [job EXCEPT ![b] = j]
          \/ /\ Cardinality(Failed) >= KeepFailed
             /\ \E old \in Failed : job' = [job EXCEPT ![b] = j, ![old] = NoJob]

FailAttempt(w) ==
    LET b == work[w].booking IN
    /\ work[w].pc # "idle"
    /\ bookingLock' = Released(bookingLock, w)
    /\ \/ HoldsJob(w, b) /\ Requeue(b, RetryOrFail(job[b]))
       \/ ~HoldsJob(w, b) /\ UNCHANGED <<job, exhausted>>
    /\ work' = [work EXCEPT ![w] = NoWork]
    /\ UNCHANGED <<seats, bookings, seatLock, req, published, unscheduled>>

\* The worker's pod dies in mid-job; the job stays active until it is seen to stall.
WorkerCrash(w) ==
    /\ work[w].pc # "idle"
    /\ bookingLock' = Released(bookingLock, w)
    /\ work' = [work EXCEPT ![w] = NoWork]
    /\ UNCHANGED <<seats, bookings, seatLock, req, job, published, unscheduled, exhausted>>

\* BullMQ finds an active job whose lock was not renewed (its worker died, or
\* is merely slow and still running) and requeues it, MaxStalls times at most.
Stalled(j) ==
    [state |-> IF j.stalls + 1 > MaxStalls THEN "failed" ELSE "delayed",
     worker |-> None, attempts |-> j.attempts, stalls |-> j.stalls + 1]

StallJob(b) ==
    /\ job[b].state = "active"
    /\ Requeue(b, Stalled(job[b]))
    /\ UNCHANGED <<dbVars, req, work, published, unscheduled>>

-----------------------------------------------------------------------------
RequestStep(r) ==
    \/ ReserveSeatRow(r)
    \/ \E b \in BookingIds : InsertBooking(r, b)
    \/ ScheduleHoldExpiry(r)
    \/ ConfirmBookingRow(r) \/ ConfirmSeatRow(r)
    \/ CancelBookingRow(r) \/ CancelSeatRow(r)
    \/ Reread(r)
    \/ GetJob(r) \/ RemoveJob(r)
    \/ Publish(r) \/ PublishBookingEvent(r)

Client(r) ==
    \/ \E u \in Users, s \in Seats : StartReserve(r, u, s)
    \/ \E u \in Users, b \in BookingIds : StartConfirm(r, u, b) \/ StartCancel(r, u, b)

WorkerStep(w) == ExpireBookingRow(w) \/ ExpireSeatRow(w) \/ CompleteJob(w)

Next ==
    \/ \E r \in Requests : Client(r) \/ RequestStep(r) \/ Die(r)
    \/ \E w \in Workers : WorkerStep(w) \/ FailAttempt(w) \/ WorkerCrash(w)
    \/ \E w \in Workers, b \in BookingIds : TakeJob(w, b)
    \/ \E b \in BookingIds : StallJob(b)

Spec == Init /\ [][Next]_vars

\* A request in flight and a worker in mid-job go on (statements return or
\* fail); PostgreSQL queues waiters on a row lock, hence strong fairness for
\* the statements that may wait; a due job is taken by some worker; a job
\* abandoned by its worker is eventually found stalled.  Clients owe nothing.
Fairness ==
    /\ \A r \in Requests : SF_vars(RequestStep(r))
    /\ \A w \in Workers : SF_vars(WorkerStep(w))
    /\ \A b \in BookingIds : SF_vars(\E w \in Workers : TakeJob(w, b))
    /\ \A b \in BookingIds :
         WF_vars(StallJob(b) /\ ~\E w \in Workers : work[w].booking = b /\ HoldsJob(w, b))

FairSpec == Spec /\ Fairness
-----------------------------------------------------------------------------
(* Properties                                                               *)

ActiveBookings(s) == {b \in BookingIds : /\ bookings[b].seat = s
                                         /\ bookings[b].status \in {"pending", "confirmed"}}

\* No double booking, no stuck seat: at every moment the committed seat row
\* agrees with the committed bookings rows.  An available seat has no active
\* booking, a held seat exactly one, which is pending, a booked seat exactly
\* one, which is confirmed.  (reserveSeat, confirmBooking, cancelBooking and
\* expireHold each update the two tables in one transaction for this.)
SeatMatchesBookings ==
    \A s \in Seats :
        /\ seats[s].status = "available" => ActiveBookings(s) = {}
        /\ seats[s].status = "held" =>
             \E b \in BookingIds : ActiveBookings(s) = {b} /\ bookings[b].status = "pending"
        /\ seats[s].status = "booked" =>
             \E b \in BookingIds : ActiveBookings(s) = {b} /\ bookings[b].status = "confirmed"

\* A transaction whose booking UPDATE won its race goes through: its seat UPDATE
\* finds a row that matches, so that the "state drift" throws of confirmBooking and
\* cancelBooking are dead code and expireHold, which ignores the result, misses
\* nothing; and no other transaction has that row locked, so that nobody waits for
\* a lock while holding one and row locks cannot deadlock, although reserveSeat
\* starts with the seat and the others with the booking.
SeatStatementSucceeds ==
    /\ \A r \in Requests :
         LET s == bookings[req[r].booking].seat IN
         /\ req[r].pc = "confirm_seat" => ConfirmSeatWhere(s) /\ seatLock[s] = None
         /\ req[r].pc = "cancel_seat" => ReleaseHeldOrBookedWhere(s) /\ seatLock[s] = None
    /\ \A w \in Workers :
         LET s == bookings[work[w].booking].seat IN
         work[w].pc = "release_seat" => ReleaseWhere(s) /\ seatLock[s] = None

\* The status a 409 quotes is re-read after the transaction gave up, so
\* another request may have changed the row in between; all the same,
\* BookingNotConfirmableError never quotes 'pending' and
\* BookingNotCancellableError quotes only 'cancelled' or 'expired'.
ConflictIsFinal ==
    \A r \in Requests :
        LET quoted == bookings[req[r].booking].status IN
        /\ req[r].pc = "confirm_reread" => quoted \in {"confirmed", "cancelled", "expired"}
        /\ req[r].pc = "cancel_reread" => quoted \in {"cancelled", "expired"}

\* A hold is stuck in two ways only.  A pending booking has a live job, or its
\* reserve request is about to schedule one; or that scheduling was lost
\* (scheduleHoldExpiry failed or the pod died); or the job used up its attempts,
\* and then it is still on record among the failed ones (the "lightweight DLQ"),
\* unless more than KeepFailed jobs have failed and removeOnFail dropped it.
PendingHoldIsGuarded ==
    \A b \in BookingIds : bookings[b].status = "pending" =>
        \/ job[b].state \in {"delayed", "active"}
        \/ \E r \in Requests : req[r].pc = "reserve_schedule" /\ req[r].booking = b
        \/ b \in unscheduled
        \/ b \in exhausted /\ (b \in Failed \/ Cardinality(exhausted) > KeepFailed)

\* Kafka tells the truth, and one call tells it: an event is sent only when it is
\* true of the booking, and stays true however late it arrives ('confirmed' only of
\* a booking that was confirmed, 'cancelled' only of one that is cancelled); and
\* however many requests raced for it, only one of them sends it, so that the topic
\* holds it more than once only by that one call's own retries.
EventsMatchHistory ==
    \A b \in BookingIds :
        /\ \A e \in Events : published[b][e] <= MaxSends
        /\ published[b]["created"] > 0 => bookings[b].status # "absent"
        /\ published[b]["confirmed"] > 0 => bookings[b].status \in {"confirmed", "cancelled"}
        /\ published[b]["cancelled"] > 0 => bookings[b].status = "cancelled"

NextStatus == {<<"absent", "pending">>, <<"pending", "confirmed">>, <<"pending", "cancelled">>,
               <<"pending", "expired">>, <<"confirmed", "cancelled">>}

\* A committed booking only moves along pending -> confirmed -> cancelled or
\* from pending to cancelled or expired; 'cancelled' and 'expired' are final and
\* a late hold-expiry job never takes a confirmed booking back.
LifecycleStep ==
    \A b \in BookingIds : bookings'[b].status # bookings[b].status =>
        <<bookings[b].status, bookings'[b].status>> \in NextStatus

BookingLifecycle == [][LifecycleStep]_vars

\* A booking is confirmed or cancelled only by a request of the user who owns
\* it, although ownership is read outside the transaction that changes the row.
OwnerStep ==
    \A b \in BookingIds :
        bookings'[b].status # bookings[b].status /\ bookings'[b].status \in {"confirmed", "cancelled"} =>
            \E r \in Requests : req[r].booking = b /\ req[r].user = bookings[b].user

OwnerDecides == [][OwnerStep]_vars

\* The booking core implements the seat ledger.
Ledger == INSTANCE SeatLedger WITH
    holding <- [s \in Seats |-> {b \in ActiveBookings(s) : bookings[b].status = "pending"}],
    sold <- [s \in Seats |-> {b \in ActiveBookings(s) : bookings[b].status = "confirmed"}],
    issued <- {b \in BookingIds : bookings[b].status # "absent"}

ImplementsLedger == Ledger!Spec

\* A hold whose job reached the queue is reclaimed (or the booking confirmed or
\* cancelled) unless the job uses up its attempts: retries, stalls, duplicate
\* processing and worker crashes never lose it.
ScheduledHoldIsSettled ==
    \A b \in BookingIds :
        (bookings[b].status = "pending" /\ job[b].state \in {"delayed", "active"})
            ~> (bookings[b].status # "pending" \/ b \in exhausted)
=============================================================================
