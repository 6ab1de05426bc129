--------------------------- MODULE BookingProofs ----------------------------
(***************************************************************************)
(* Proofs about Booking for any number of seats, users, bookings, requests *)
(* and workers: the rows and locks, the seat ledger that Booking           *)
(* implements, and the events and jobs that follow a commit.               *)
(*                                                                         *)
(* SeatMatchesBookings is not inductive: whether a commit keeps it depends *)
(* on what the committing transaction locked in an earlier statement.  The *)
(* invariant Inv below adds, for every program point, the row locks the    *)
(* transaction holds and what the locked row must still look like.         *)
(***************************************************************************)
EXTENDS Booking, FiniteSetTheorems, TLAPS

Active(b) == bookings[b].status \in {"pending", "confirmed"}

\* An inserted row names a seat and a user.
RowsFilled == \A b \in BookingIds : bookings[b].status # "absent" =>
                 bookings[b].seat \in Seats /\ bookings[b].user \in Users

\* SeatMatchesBookings, booking by booking: the seat follows its booking ...
SeatFollowsBooking ==
    \A b \in BookingIds :
        /\ bookings[b].status = "pending" => seats[bookings[b].seat].status = "held"
        /\ bookings[b].status = "confirmed" => seats[bookings[b].seat].status = "booked"

\* ... a seat has at most one active booking ...
OneActivePerSeat ==
    \A b, c \in BookingIds : Active(b) /\ Active(c) /\ bookings[b].seat = bookings[c].seat => b = c

\* ... and a seat is never held or booked for nobody.
SeatIsBacked ==
    \A s \in Seats :
        /\ seats[s].status = "held" =>
             \E b \in BookingIds : bookings[b].status = "pending" /\ bookings[b].seat = s
        /\ seats[s].status = "booked" =>
             \E b \in BookingIds : bookings[b].status = "confirmed" /\ bookings[b].seat = s

\* What request r at each program point knows of the database.
Knows(r) ==
    /\ req[r].pc \in {"reserve_update", "reserve_insert"} =>
         req[r].seat \in Seats /\ req[r].user \in Users
    /\ req[r].pc = "reserve_insert" =>
         seatLock[req[r].seat] = r /\ seats[req[r].seat].status = "available"
    /\ req[r].pc \notin {"idle", "reserve_update", "reserve_insert"} =>
         req[r].booking \in BookingIds /\ bookings[req[r].booking].status # "absent"
    /\ req[r].pc \in {"confirm_booking", "confirm_seat", "cancel_booking", "cancel_seat"} =>
         bookings[req[r].booking].user = req[r].user
    /\ req[r].pc = "confirm_seat" =>
         bookingLock[req[r].booking] = r /\ bookings[req[r].booking].status = "pending"
    /\ req[r].pc = "cancel_seat" =>
         bookingLock[req[r].booking] = r /\ Active(req[r].booking)
    /\ req[r].pc = "confirm_reread" =>
         bookings[req[r].booking].status \in {"confirmed", "cancelled", "expired"}
    /\ req[r].pc = "cancel_reread" =>
         bookings[req[r].booking].status \in {"cancelled", "expired"}

\* What worker w at each program point knows of the database.
WorkerKnows(w) ==
    /\ work[w].pc # "idle" =>
         work[w].booking \in BookingIds /\ bookings[work[w].booking].status # "absent"
    /\ work[w].pc = "release_seat" =>
         bookingLock[work[w].booking] = w /\ bookings[work[w].booking].status = "pending"
    /\ work[w].pc = "complete_job" => bookings[work[w].booking].status # "pending"

\* Jobs exist only for inserted bookings, and only a live job has retries left.
JobsSound ==
    \A b \in BookingIds :
        /\ job[b].state # "none" => bookings[b].status # "absent"
        /\ job[b].state \in {"delayed", "active"} =>
             job[b].attempts < MaxAttempts /\ job[b].stalls <= MaxStalls

DataInv == RowsFilled /\ SeatFollowsBooking /\ OneActivePerSeat /\ SeatIsBacked

Inv == /\ TypeOK
       /\ DataInv
       /\ \A r \in Requests : Knows(r)
       /\ \A w \in Workers : WorkerKnows(w)
       /\ JobsSound

-----------------------------------------------------------------------------
(* The two facts about a step from which every other process's knowledge    *)
(* survives it: rows only move forward, and nobody touches a row that q has *)
(* locked.                                                                  *)

Forward ==
    \A b \in BookingIds :
        /\ bookings'[b].status # bookings[b].status =>
             <<bookings[b].status, bookings'[b].status>> \in NextStatus
        /\ bookings[b].status # "absent" =>
             bookings'[b].user = bookings[b].user /\ bookings'[b].seat = bookings[b].seat

RespectsLocksOf(q) ==
    /\ \A b \in BookingIds : bookingLock[b] = q /\ bookings[b].status # "absent" =>
                                bookingLock'[b] = q /\ bookings'[b] = bookings[b]
    /\ \A s \in Seats : seatLock[s] = q => seatLock'[s] = q /\ seats'[s] = seats[s]

\* A request that did not move keeps its knowledge.
LEMMA KnowsFrame ==
    ASSUME TypeOK, NEW q \in Requests, Knows(q), req'[q] = req[q], Forward, RespectsLocksOf(q)
    PROVE  Knows(q)'
<1> DEFINE b == req[q].booking
<1>1. CASE b \in BookingIds
  <2>1. /\ bookings'[b].status # bookings[b].status =>
             <<bookings[b].status, bookings'[b].status>> \in NextStatus
        /\ bookings[b].status # "absent" => bookings'[b].user = bookings[b].user
    BY <1>1 DEF Forward
  <2>2. bookings[b].status # "absent" => bookings'[b].status # "absent"
    BY <2>1 DEF NextStatus
  <2>3. bookings[b].status \in {"confirmed", "cancelled", "expired"} =>
          bookings'[b].status \in {"confirmed", "cancelled", "expired"}
    BY <2>1 DEF NextStatus
  <2>4. bookings[b].status \in {"cancelled", "expired"} =>
          bookings'[b].status \in {"cancelled", "expired"}
    BY <2>1 DEF NextStatus
  <2>5. bookingLock[b] = q /\ bookings[b].status # "absent" =>
          bookingLock'[b] = q /\ bookings'[b] = bookings[b]
    BY <1>1 DEF RespectsLocksOf
  <2>6. \A s \in Seats : seatLock[s] = q => seatLock'[s] = q /\ seats'[s] = seats[s]
    BY DEF RespectsLocksOf
  <2>7. QED
    BY <1>1, <2>1, <2>2, <2>3, <2>4, <2>5, <2>6 DEF Knows, Active
<1>2. CASE b \notin BookingIds
  BY <1>2 DEF Knows, RespectsLocksOf
<1>3. QED
  BY <1>1, <1>2

\* A worker that did not move keeps its knowledge.
LEMMA WorkerKnowsFrame ==
    ASSUME TypeOK, NEW w \in Workers, WorkerKnows(w), work'[w] = work[w], Forward, RespectsLocksOf(w)
    PROVE  WorkerKnows(w)'
<1> DEFINE b == work[w].booking
<1>1. CASE b \in BookingIds
  <2>1. bookings[b].status # "absent" => bookings'[b].status # "absent"
    BY <1>1 DEF Forward, NextStatus
  <2>2. bookingLock[b] = w /\ bookings[b].status # "absent" =>
          bookingLock'[b] = w /\ bookings'[b] = bookings[b]
    BY <1>1 DEF RespectsLocksOf
  <2>3. bookings[b].status \notin {"absent", "pending"} => bookings'[b].status # "pending"
    BY <1>1 DEF Forward, NextStatus
  <2>4. QED
    BY <1>1, <2>1, <2>2, <2>3 DEF WorkerKnows
<1>2. CASE b \notin BookingIds
  BY <1>2 DEF WorkerKnows
<1>3. QED
  BY <1>1, <1>2

\* Jobs stay attached to inserted rows as long as rows move forward.
LEMMA JobsFrame ==
    ASSUME JobsSound, Forward, UNCHANGED job
    PROVE  JobsSound'
BY DEF JobsSound, Forward, NextStatus

\* A step that leaves the committed rows alone.
LEMMA QuietRows ==
    ASSUME DataInv, UNCHANGED <<seats, bookings>>
    PROVE  DataInv' /\ Forward
BY DEF DataInv, RowsFilled, SeatFollowsBooking, OneActivePerSeat, SeatIsBacked, Active, Forward

\* Putting a request's step together.
LEMMA RequestStepInv ==
    ASSUME Inv, NEW r \in Requests,
           TypeOK', DataInv', Forward, Knows(r)', JobsSound', UNCHANGED work,
           \A q \in Requests \ {r} : req'[q] = req[q],
           \A q \in Procs \ {r} : RespectsLocksOf(q)
    PROVE  Inv'
<1>1. ASSUME NEW q \in Requests PROVE Knows(q)'
  <2>1. CASE q = r
    BY <2>1
  <2>2. CASE q # r
    BY <2>2, KnowsFrame DEF Inv, Procs
  <2>3. QED
    BY <2>1, <2>2
<1>2. ASSUME NEW w \in Workers PROVE WorkerKnows(w)'
  BY WorkerKnowsFrame, BookingAssumption DEF Inv, Procs
<1>3. QED
  BY <1>1, <1>2 DEF Inv

\* Putting a worker's step together.
LEMMA WorkerStepInv ==
    ASSUME Inv, NEW w \in Workers,
           TypeOK', DataInv', Forward, WorkerKnows(w)', JobsSound', UNCHANGED req,
           \A v \in Workers \ {w} : work'[v] = work[v],
           \A q \in Procs \ {w} : RespectsLocksOf(q)
    PROVE  Inv'
<1>1. ASSUME NEW v \in Workers PROVE WorkerKnows(v)'
  <2>1. CASE v = w
    BY <2>1
  <2>2. CASE v # w
    BY <2>2, WorkerKnowsFrame DEF Inv, Procs
  <2>3. QED
    BY <2>1, <2>2
<1>2. ASSUME NEW q \in Requests PROVE Knows(q)'
  BY KnowsFrame, BookingAssumption DEF Inv, Procs
<1>3. QED
  BY <1>1, <1>2 DEF Inv

-----------------------------------------------------------------------------
(* The initial state.                                                       *)
LEMMA InitInv == Init => Inv
<1> SUFFICES ASSUME Init PROVE Inv
  OBVIOUS
<1> USE BookingAssumption DEF Init
<1>1. TypeOK
  BY DEF TypeOK, SeatRows, BookingRows, RequestStates, JobStates, Tasks, SeatStatus,
         BookingStatus, Events, Procs, RequestPC, Ops, Idle, NoJob, NoWork
<1>2. DataInv
  BY DEF DataInv, RowsFilled, SeatFollowsBooking, OneActivePerSeat, SeatIsBacked, Active
<1>3. \A r \in Requests : Knows(r)
  BY DEF Knows, Idle
<1>4. \A w \in Workers : WorkerKnows(w)
  BY DEF WorkerKnows, NoWork
<1>5. JobsSound
  BY DEF JobsSound, NoJob
<1>6. QED
  BY <1>1, <1>2, <1>3, <1>4, <1>5 DEF Inv

-----------------------------------------------------------------------------
(* What the building blocks of the actions do.                              *)

\* A request moves to another program point and nothing else changes in `req'.
LEMMA GotoEffect ==
    ASSUME TypeOK, NEW r \in Requests, NEW pc \in RequestPC, Goto(r, pc)
    PROVE  /\ req' \in [Requests -> RequestStates]
           /\ \A q \in Requests \ {r} : req'[q] = req[q]
           /\ req'[r].pc = pc /\ req'[r].op = req[r].op /\ req'[r].user = req[r].user
           /\ req'[r].seat = req[r].seat /\ req'[r].booking = req[r].booking
           /\ req'[r].sends = req[r].sends
<1>1. req[r] \in RequestStates
  BY DEF TypeOK
<1> DEFINE new == [req[r] EXCEPT !.pc = pc]
<1>2. /\ new \in RequestStates /\ new.pc = pc /\ new.op = req[r].op
      /\ new.user = req[r].user /\ new.seat = req[r].seat /\ new.booking = req[r].booking
      /\ new.sends = req[r].sends
  BY <1>1 DEF RequestStates
<1>3. req' = [req EXCEPT ![r] = new]
  BY DEF Goto
<1> HIDE DEF new
<1>4. QED
  BY <1>2, <1>3 DEF TypeOK

\* A request that is answered is idle again.
LEMMA RespondEffect ==
    ASSUME TypeOK, NEW r \in Requests, Respond(r)
    PROVE  /\ req' \in [Requests -> RequestStates]
           /\ \A q \in Requests \ {r} : req'[q] = req[q]
           /\ req'[r].pc = "idle" /\ req'[r].sends = 0
           /\ Knows(r)'
<1>1. Idle \in RequestStates /\ Idle.pc = "idle" /\ Idle.sends = 0
  BY BookingAssumption DEF Idle, RequestStates, RequestPC, Ops
<1>2. /\ req' \in [Requests -> RequestStates]
      /\ \A q \in Requests \ {r} : req'[q] = req[q]
      /\ req'[r] = Idle
  BY <1>1 DEF Respond, TypeOK
<1>3. req'[r].pc = "idle" /\ req'[r].sends = 0
  BY <1>1, <1>2
<1>4. QED
  BY <1>2, <1>3 DEF Knows

\* A commit of CommitBoth changes one booking's status and its seat's status.
LEMMA CommitEffect ==
    ASSUME TypeOK, NEW b \in BookingIds, bookings[b].seat \in Seats,
           NEW status \in BookingStatus, NEW seatStatus \in SeatStatus,
           CommitBoth(b, status, seatStatus)
    PROVE  /\ bookings' \in [BookingIds -> BookingRows]
           /\ seats' \in [Seats -> SeatRows]
           /\ bookingLock' \in [BookingIds -> Procs \cup {None}]
           /\ \A c \in BookingIds : /\ c # b => bookings'[c] = bookings[c]
                                    /\ bookings'[c].seat = bookings[c].seat
                                    /\ bookings'[c].user = bookings[c].user
                                    /\ c # b => bookingLock'[c] = bookingLock[c]
           /\ bookings'[b].status = status
           /\ \A s \in Seats : s # bookings[b].seat => seats'[s] = seats[s]
           /\ seats'[bookings[b].seat].status = seatStatus
<1> DEFINE s == bookings[b].seat
           row == [bookings[b] EXCEPT !.status = status]
<1>1. bookings[b] \in BookingRows /\ seats[s] \in SeatRows
  BY DEF TypeOK
<1>2. row \in BookingRows /\ row.status = status /\ row.seat = bookings[b].seat /\ row.user = bookings[b].user
  BY <1>1 DEF BookingRows
<1>3. SeatRow(s, seatStatus) \in SeatRows /\ SeatRow(s, seatStatus).status = seatStatus
  BY <1>1 DEF SeatRow, SeatRows
<1>4. /\ bookings' = [bookings EXCEPT ![b] = row]
      /\ seats' = [seats EXCEPT ![s] = SeatRow(s, seatStatus)]
      /\ bookingLock' = [bookingLock EXCEPT ![b] = None]
  BY DEF CommitBoth
<1> HIDE DEF row, s
<1>5. s \in Seats
  BY DEF s
<1>6. /\ bookings' \in [BookingIds -> BookingRows]
      /\ seats' \in [Seats -> SeatRows]
      /\ bookingLock' \in [BookingIds -> Procs \cup {None}]
  BY <1>2, <1>3, <1>4, <1>5 DEF TypeOK
<1>7. \A c \in BookingIds : /\ c # b => bookings'[c] = bookings[c]
                            /\ bookings'[c].seat = bookings[c].seat
                            /\ bookings'[c].user = bookings[c].user
                            /\ c # b => bookingLock'[c] = bookingLock[c]
  BY <1>2, <1>4 DEF TypeOK
<1>8. bookings'[b].status = status
  BY <1>2, <1>4 DEF TypeOK
<1>9. (\A t \in Seats : t # s => seats'[t] = seats[t]) /\ seats'[s].status = seatStatus
  BY <1>3, <1>4, <1>5 DEF TypeOK
<1>10. QED
  BY <1>6, <1>7, <1>8, <1>9 DEF s

\* A commit that ends an active booking or confirms a pending one keeps the
\* two tables in step, moves rows forward and touches no row locked by others.
LEMMA CommitKeepsData ==
    ASSUME Inv, NEW p \in Procs, NEW b \in BookingIds, bookingLock[b] = p, UNCHANGED seatLock,
           NEW status \in BookingStatus, NEW seatStatus \in SeatStatus,
           \/ bookings[b].status = "pending" /\ status = "confirmed" /\ seatStatus = "booked"
           \/ Active(b) /\ status = "cancelled" /\ seatStatus = "available"
           \/ bookings[b].status = "pending" /\ status = "expired" /\ seatStatus = "available",
           CommitBoth(b, status, seatStatus)
    PROVE  DataInv' /\ Forward /\ \A q \in Procs \ {p} : RespectsLocksOf(q)
<1> DEFINE s == bookings[b].seat
<1>1. Active(b) /\ bookings[b].status # "absent" /\ s \in Seats
  BY DEF Inv, DataInv, RowsFilled, Active
<1>2. /\ \A c \in BookingIds : /\ c # b => bookings'[c] = bookings[c]
                               /\ bookings'[c].seat = bookings[c].seat
                               /\ bookings'[c].user = bookings[c].user
                               /\ c # b => bookingLock'[c] = bookingLock[c]
      /\ bookings'[b].status = status
      /\ \A t \in Seats : t # s => seats'[t] = seats[t]
      /\ seats'[s].status = seatStatus
  BY <1>1, CommitEffect DEF Inv
<1>3. Forward
  BY <1>1, <1>2 DEF Forward, NextStatus, Active
<1>4. ASSUME NEW q \in Procs \ {p} PROVE RespectsLocksOf(q)
  <2>1. \A c \in BookingIds : bookingLock[c] = q => c # b
    BY <1>4
  <2>2. \A t \in Seats : seatLock[t] = q => t # s
    BY <1>4, BookingAssumption DEF CommitBoth, Procs
  <2>3. QED
    BY <2>1, <2>2, <1>2 DEF RespectsLocksOf
<1>5. RowsFilled'
  BY <1>1, <1>2 DEF Inv, DataInv, RowsFilled
<1>6. \A c \in BookingIds : c # b /\ Active(c) => bookings[c].seat # s
  BY <1>1 DEF Inv, DataInv, OneActivePerSeat
<1>7. SeatFollowsBooking'
  <2>1. ASSUME NEW c \in BookingIds
        PROVE  /\ bookings'[c].status = "pending" => seats'[bookings'[c].seat].status = "held"
               /\ bookings'[c].status = "confirmed" => seats'[bookings'[c].seat].status = "booked"
    <3>1. CASE c = b
      BY <3>1, <1>1, <1>2 DEF Active
    <3>2. CASE c # b
      <4>1. bookings'[c] = bookings[c]
        BY <3>2, <1>2
      <4>2. CASE Active(c)
        <5>1. bookings[c].seat \in Seats /\ bookings[c].seat # s
          BY <4>2, <3>2, <1>6 DEF Active, Inv, DataInv, RowsFilled
        <5>2. seats'[bookings[c].seat] = seats[bookings[c].seat]
          BY <5>1, <1>2
        <5>3. QED
          BY <4>1, <5>2 DEF Inv, DataInv, SeatFollowsBooking
      <4>3. CASE ~Active(c)
        BY <4>1, <4>3 DEF Active
      <4>4. QED
        BY <4>2, <4>3
    <3>3. QED
      BY <3>1, <3>2
  <2>2. QED
    BY <2>1 DEF SeatFollowsBooking
<1>8. OneActivePerSeat'
  BY <1>1, <1>2 DEF Inv, DataInv, OneActivePerSeat, Active
<1>9. SeatIsBacked'
  <2>1. ASSUME NEW t \in Seats
        PROVE  /\ seats'[t].status = "held" =>
                    \E c \in BookingIds : bookings'[c].status = "pending" /\ bookings'[c].seat = t
               /\ seats'[t].status = "booked" =>
                    \E c \in BookingIds : bookings'[c].status = "confirmed" /\ bookings'[c].seat = t
    <3>1. CASE t = s
      BY <3>1, <1>2
    <3>2. CASE t # s
      <4>1. seats'[t] = seats[t]
        BY <3>2, <1>2
      <4>2. \A c \in BookingIds : bookings[c].seat = t => bookings'[c] = bookings[c]
        BY <3>2, <1>2
      <4>3. QED
        BY <4>1, <4>2 DEF Inv, DataInv, SeatIsBacked
    <3>3. QED
      BY <3>1, <3>2
  <2>2. QED
    BY <2>1 DEF SeatIsBacked
<1>10. QED
  BY <1>3, <1>4, <1>5, <1>7, <1>8, <1>9 DEF DataInv

-----------------------------------------------------------------------------
(* One lemma per action.                                                    *)

\* A step that changes no row, no lock and no job: only request r moves.
LEMMA QuietRequest ==
    ASSUME Inv, NEW r \in Requests, UNCHANGED <<dbVars, queueVars>>, published' \in [BookingIds -> [Events -> Nat]],
           UNCHANGED unscheduled,
           req' \in [Requests -> RequestStates], \A q \in Requests \ {r} : req'[q] = req[q], Knows(r)'
    PROVE  Inv' /\ Forward
<1>1. TypeOK'
  BY DEF Inv, TypeOK, dbVars, queueVars
<1>2. DataInv' /\ Forward
  BY QuietRows DEF Inv, dbVars
<1>3. JobsSound'
  BY <1>2, JobsFrame DEF Inv, queueVars
<1>4. \A q \in Procs \ {r} : RespectsLocksOf(q)
  BY DEF RespectsLocksOf, dbVars
<1>5. QED
  BY <1>1, <1>2, <1>3, <1>4, RequestStepInv DEF queueVars

LEMMA StartReserveInv ==
    ASSUME Inv, NEW r \in Requests, NEW u \in Users, NEW s \in Seats, StartReserve(r, u, s)
    PROVE  Inv' /\ Forward
<1> DEFINE new == [pc |-> "reserve_update", op |-> "reserve", user |-> u, seat |-> s, booking |-> None,
                  sends |-> 0]
<1>1. new \in RequestStates /\ new.pc = "reserve_update" /\ new.user = u /\ new.seat = s
  BY BookingAssumption DEF RequestStates, RequestPC, Ops
<1>2. req' = [req EXCEPT ![r] = new] /\ UNCHANGED <<dbVars, queueVars, published, unscheduled>>
  BY DEF StartReserve, Begin
<1> HIDE DEF new
<1>3. /\ req' \in [Requests -> RequestStates] /\ req'[r] = new
      /\ \A q \in Requests \ {r} : req'[q] = req[q]
  BY <1>1, <1>2 DEF Inv, TypeOK
<1>4. Knows(r)'
  BY <1>1, <1>3 DEF Knows
<1>5. QED
  BY <1>2, <1>3, <1>4, QuietRequest DEF Inv, TypeOK

\* StartConfirm and StartCancel differ only in where they go.
LEMMA StartChangeInv ==
    ASSUME Inv, NEW r \in Requests, NEW u \in Users, NEW b \in BookingIds,
           StartConfirm(r, u, b) \/ StartCancel(r, u, b)
    PROVE  Inv' /\ Forward
<1> DEFINE new(op, pc) == [pc |-> pc, op |-> op, user |-> u, seat |-> None, booking |-> b,
                          sends |-> 0]
<1>1. ASSUME NEW op \in Ops, NEW pc \in {"confirm_booking", "cancel_booking"},
             req' = [req EXCEPT ![r] = new(op, pc)], OwnedBy(b, u),
             UNCHANGED <<dbVars, queueVars, published, unscheduled>>
      PROVE  Inv' /\ Forward
  <2>1. /\ new(op, pc) \in RequestStates /\ new(op, pc).pc = pc
        /\ new(op, pc).user = u /\ new(op, pc).booking = b
    BY BookingAssumption DEF RequestStates, RequestPC, Ops
  <2> HIDE DEF new
  <2>2. /\ req' \in [Requests -> RequestStates] /\ req'[r] = new(op, pc)
        /\ \A q \in Requests \ {r} : req'[q] = req[q]
    BY <1>1, <2>1 DEF Inv, TypeOK
  <2>3. bookings[b].status # "absent" /\ bookings[b].user = u /\ bookings' = bookings
    BY <1>1 DEF OwnedBy, dbVars
  <2>4. Knows(r)'
    BY <2>1, <2>2, <2>3 DEF Knows
  <2>5. QED
    BY <1>1, <2>2, <2>4, QuietRequest DEF Inv, TypeOK
<1>2. CASE StartConfirm(r, u, b)
  BY <1>1, <1>2 DEF StartConfirm, Begin, Ops
<1>3. CASE StartCancel(r, u, b)
  BY <1>1, <1>3 DEF StartCancel, Begin, Ops
<1>4. QED
  BY <1>2, <1>3

LEMMA ReserveSeatRowInv ==
    ASSUME Inv, NEW r \in Requests, ReserveSeatRow(r)
    PROVE  Inv' /\ Forward
<1> DEFINE s == req[r].seat
<1>1. /\ req[r].pc = "reserve_update" /\ s \in Seats /\ req[r].user \in Users
      /\ UNCHANGED <<seats, bookings, bookingLock, job, work, exhausted, published, unscheduled>>
  BY DEF ReserveSeatRow, queueVars, Inv, Knows
<1>2. DataInv' /\ Forward
  BY <1>1, QuietRows DEF Inv
<1>3. JobsSound'
  BY <1>1, <1>2, JobsFrame DEF Inv
<1>4. CASE /\ seats[s].status = "available" /\ seatLock[s] = None
           /\ seatLock' = [seatLock EXCEPT ![s] = r] /\ Goto(r, "reserve_insert")
  <2>1. /\ req' \in [Requests -> RequestStates]
        /\ \A q \in Requests \ {r} : req'[q] = req[q]
        /\ req'[r].pc = "reserve_insert" /\ req'[r].seat = s /\ req'[r].user = req[r].user
    BY <1>4, GotoEffect DEF Inv, RequestPC
  <2>2. TypeOK'
    BY <1>1, <1>4, <2>1 DEF Inv, TypeOK, Procs
  <2>3. seatLock'[s] = r
    BY <1>1, <1>4 DEF Inv, TypeOK
  <2>4. Knows(r)'
    BY <1>1, <1>4, <2>1, <2>3 DEF Knows
  <2>5. \A q \in Procs \ {r} : RespectsLocksOf(q)
    BY <1>1, <1>4, BookingAssumption DEF RespectsLocksOf, Inv, TypeOK, Procs
  <2>6. QED
    BY <1>1, <1>2, <1>3, <2>1, <2>2, <2>4, <2>5, RequestStepInv
<1>5. CASE Respond(r) /\ UNCHANGED seatLock
  BY <1>1, <1>5, RespondEffect, QuietRequest DEF Inv, TypeOK, dbVars, queueVars
<1>6. QED
  BY <1>4, <1>5 DEF ReserveSeatRow, ReserveWhere

LEMMA InsertBookingInv ==
    ASSUME Inv, NEW r \in Requests, NEW b \in BookingIds, InsertBooking(r, b)
    PROVE  Inv' /\ Forward
<1> DEFINE s == req[r].seat
           row == [status |-> "pending", seat |-> s, user |-> req[r].user]
           new == [req[r] EXCEPT !.pc = "reserve_schedule", !.booking = b]
<1>1. /\ s \in Seats /\ req[r].user \in Users /\ seatLock[s] = r /\ seats[s].status = "available"
      /\ bookings[b].status = "absent"
      /\ UNCHANGED <<bookingLock, job, work, exhausted, published, unscheduled>>
  BY DEF InsertBooking, queueVars, Inv, Knows
<1>2. row \in BookingRows /\ row.status = "pending" /\ row.seat = s /\ row.user \in Users
  BY <1>1 DEF BookingRows, BookingStatus
<1>3. SeatRow(s, "held") \in SeatRows /\ SeatRow(s, "held").status = "held"
  BY <1>1 DEF SeatRow, SeatRows, SeatStatus, Inv, TypeOK
<1>4. new \in RequestStates /\ new.pc = "reserve_schedule" /\ new.booking = b
  BY DEF Inv, TypeOK, RequestStates, RequestPC
<1>5. /\ bookings' = [bookings EXCEPT ![b] = row]
      /\ seats' = [seats EXCEPT ![s] = SeatRow(s, "held")]
      /\ seatLock' = [seatLock EXCEPT ![s] = None]
      /\ req' = [req EXCEPT ![r] = new]
  BY DEF InsertBooking
<1> HIDE DEF row, new, s
<1>6. TypeOK'
  BY <1>1, <1>2, <1>3, <1>4, <1>5 DEF Inv, TypeOK
<1>7. /\ \A c \in BookingIds : c # b => bookings'[c] = bookings[c]
      /\ bookings'[b] = row
      /\ \A t \in Seats : t # s => seats'[t] = seats[t] /\ seatLock'[t] = seatLock[t]
      /\ seats'[s].status = "held"
      /\ \A q \in Requests \ {r} : req'[q] = req[q]
      /\ req'[r] = new
  BY <1>1, <1>3, <1>5 DEF Inv, TypeOK
<1>8. Forward
  BY <1>1, <1>2, <1>7 DEF Forward, NextStatus
<1>9. \A c \in BookingIds : Active(c) => bookings[c].seat # s
  BY <1>1 DEF Inv, DataInv, SeatFollowsBooking, Active
<1>10. RowsFilled'
  BY <1>1, <1>2, <1>7 DEF Inv, DataInv, RowsFilled
<1>11. SeatFollowsBooking'
  BY <1>1, <1>2, <1>7, <1>9 DEF Inv, DataInv, RowsFilled, SeatFollowsBooking, Active
<1>12. OneActivePerSeat'
  BY <1>2, <1>7, <1>9 DEF Inv, DataInv, OneActivePerSeat, Active
<1>13. SeatIsBacked'
  BY <1>1, <1>2, <1>7 DEF Inv, DataInv, SeatIsBacked
<1>14. JobsSound'
  BY <1>1, <1>8, JobsFrame DEF Inv
<1>15. Knows(r)'
  BY <1>2, <1>4, <1>7 DEF Knows
<1>16. \A q \in Procs \ {r} : RespectsLocksOf(q)
  BY <1>1, <1>7 DEF RespectsLocksOf
<1>17. QED
  BY <1>1, <1>6, <1>7, <1>8, <1>10, <1>11, <1>12, <1>13, <1>14, <1>15, <1>16, RequestStepInv DEF DataInv

LEMMA ScheduleHoldExpiryInv ==
    ASSUME Inv, NEW r \in Requests, ScheduleHoldExpiry(r)
    PROVE  Inv' /\ Forward
<1> DEFINE b == req[r].booking
           new == IF job[b].state = "none" THEN [NoJob EXCEPT !.state = "delayed"] ELSE job[b]
<1>1. /\ req[r].pc = "reserve_schedule" /\ b \in BookingIds /\ bookings[b].status # "absent"
      /\ UNCHANGED <<seats, bookings, seatLock, bookingLock, work, published, exhausted>>
      /\ Goto(r, "publish")
  BY DEF ScheduleHoldExpiry, dbVars, Inv, Knows
<1>2. DataInv' /\ Forward
  BY <1>1, QuietRows DEF Inv
<1>3. /\ req' \in [Requests -> RequestStates]
      /\ \A q \in Requests \ {r} : req'[q] = req[q]
      /\ req'[r].pc = "publish" /\ req'[r].booking = b
  BY <1>1, GotoEffect DEF Inv, RequestPC
<1>4. Knows(r)'
  BY <1>1, <1>3 DEF Knows
<1>5. \A q \in Procs \ {r} : RespectsLocksOf(q)
  BY <1>1 DEF RespectsLocksOf
<1>6. /\ unscheduled' \in SUBSET BookingIds
      /\ job' = job \/ job' = [job EXCEPT ![b] = new]
  BY <1>1 DEF ScheduleHoldExpiry, Inv, TypeOK
<1>7. /\ new \in JobStates
      /\ new.state \in {"delayed", "active"} => new.attempts < MaxAttempts /\ new.stalls <= MaxStalls
  <2>1. CASE job[b].state = "none"
    <3>1. new = [state |-> "delayed", worker |-> None, attempts |-> 0, stalls |-> 0]
      BY <2>1 DEF NoJob
    <3>2. QED
      BY <3>1, BookingAssumption DEF JobStates
  <2>2. CASE job[b].state # "none"
    BY <1>1, <2>2 DEF Inv, TypeOK, JobsSound
  <2>3. QED
    BY <2>1, <2>2
<1> HIDE DEF new, b
<1>8. TypeOK'
  BY <1>1, <1>3, <1>6, <1>7 DEF Inv, TypeOK
<1>9. JobsSound'
  BY <1>1, <1>6, <1>7 DEF Inv, TypeOK, JobsSound
<1>10. QED
  BY <1>1, <1>2, <1>3, <1>4, <1>5, <1>8, <1>9, RequestStepInv

\* A transaction's first statement on a bookings row takes a free lock.
LEMMA LockEffect ==
    ASSUME TypeOK, NEW p \in Procs, NEW b \in BookingIds, NEW matches,
           LockBookingRow(p, b, matches), UNCHANGED <<seats, bookings, seatLock>>
    PROVE  /\ bookingLock' \in [BookingIds -> Procs \cup {None}]
           /\ bookingLock'[b] = p
           /\ \A q \in Procs \ {p} : RespectsLocksOf(q)
BY BookingAssumption DEF LockBookingRow, TypeOK, RespectsLocksOf, Procs

LEMMA ConfirmBookingRowInv ==
    ASSUME Inv, NEW r \in Requests, ConfirmBookingRow(r)
    PROVE  Inv' /\ Forward
<1> DEFINE b == req[r].booking
<1>1. /\ req[r].pc = "confirm_booking" /\ b \in BookingIds /\ bookings[b].status # "absent"
      /\ bookings[b].user = req[r].user /\ bookings[b].status \in BookingStatus
      /\ UNCHANGED <<seats, bookings, seatLock, job, work, exhausted, published, unscheduled>>
  BY DEF ConfirmBookingRow, queueVars, Inv, Knows, TypeOK, BookingRows
<1>2. DataInv' /\ Forward
  BY <1>1, QuietRows DEF Inv
<1>3. JobsSound'
  BY <1>1, <1>2, JobsFrame DEF Inv
<1>4. CASE LockBookingRow(r, b, ConfirmWhere(b)) /\ Goto(r, "confirm_seat")
  <2>1. /\ req' \in [Requests -> RequestStates]
        /\ \A q \in Requests \ {r} : req'[q] = req[q]
        /\ req'[r].pc = "confirm_seat" /\ req'[r].booking = b /\ req'[r].user = req[r].user
    BY <1>4, GotoEffect DEF Inv, RequestPC
  <2>2. /\ bookingLock' \in [BookingIds -> Procs \cup {None}] /\ bookingLock'[b] = r
        /\ \A q \in Procs \ {r} : RespectsLocksOf(q)
    BY <1>1, <1>4, LockEffect DEF Inv, Procs, ConfirmWhere
  <2>3. TypeOK'
    BY <1>1, <2>1, <2>2 DEF Inv, TypeOK
  <2>4. Knows(r)'
    BY <1>1, <1>4, <2>1, <2>2 DEF Knows, LockBookingRow, ConfirmWhere
  <2>5. QED
    BY <1>1, <1>2, <1>3, <2>1, <2>2, <2>3, <2>4, RequestStepInv
<1>5. CASE ~ConfirmWhere(b) /\ Goto(r, "confirm_reread") /\ UNCHANGED bookingLock
  <2>1. /\ req' \in [Requests -> RequestStates]
        /\ \A q \in Requests \ {r} : req'[q] = req[q]
        /\ req'[r].pc = "confirm_reread" /\ req'[r].booking = b
    BY <1>5, GotoEffect DEF Inv, RequestPC
  <2>2. Knows(r)'
    BY <1>1, <1>5, <2>1 DEF Knows, ConfirmWhere, BookingStatus
  <2>3. QED
    BY <1>1, <1>5, <2>1, <2>2, QuietRequest DEF Inv, TypeOK, dbVars, queueVars
<1>6. QED
  BY <1>4, <1>5 DEF ConfirmBookingRow

LEMMA CancelBookingRowInv ==
    ASSUME Inv, NEW r \in Requests, CancelBookingRow(r)
    PROVE  Inv' /\ Forward
<1> DEFINE b == req[r].booking
<1>1. /\ req[r].pc = "cancel_booking" /\ b \in BookingIds /\ bookings[b].status # "absent"
      /\ bookings[b].user = req[r].user /\ bookings[b].status \in BookingStatus
      /\ UNCHANGED <<seats, bookings, seatLock, job, work, exhausted, published, unscheduled>>
  BY DEF CancelBookingRow, queueVars, Inv, Knows, TypeOK, BookingRows
<1>2. DataInv' /\ Forward
  BY <1>1, QuietRows DEF Inv
<1>3. JobsSound'
  BY <1>1, <1>2, JobsFrame DEF Inv
<1>4. CASE LockBookingRow(r, b, CancelWhere(b)) /\ Goto(r, "cancel_seat")
  <2>1. /\ req' \in [Requests -> RequestStates]
        /\ \A q \in Requests \ {r} : req'[q] = req[q]
        /\ req'[r].pc = "cancel_seat" /\ req'[r].booking = b /\ req'[r].user = req[r].user
    BY <1>4, GotoEffect DEF Inv, RequestPC
  <2>2. /\ bookingLock' \in [BookingIds -> Procs \cup {None}] /\ bookingLock'[b] = r
        /\ \A q \in Procs \ {r} : RespectsLocksOf(q)
    BY <1>1, <1>4, LockEffect DEF Inv, Procs, CancelWhere
  <2>3. TypeOK'
    BY <1>1, <2>1, <2>2 DEF Inv, TypeOK
  <2>4. Knows(r)'
    BY <1>1, <1>4, <2>1, <2>2 DEF Knows, LockBookingRow, CancelWhere, Active
  <2>5. QED
    BY <1>1, <1>2, <1>3, <2>1, <2>2, <2>3, <2>4, RequestStepInv
<1>5. CASE ~CancelWhere(b) /\ Goto(r, "cancel_reread") /\ UNCHANGED bookingLock
  <2>1. /\ req' \in [Requests -> RequestStates]
        /\ \A q \in Requests \ {r} : req'[q] = req[q]
        /\ req'[r].pc = "cancel_reread" /\ req'[r].booking = b
    BY <1>5, GotoEffect DEF Inv, RequestPC
  <2>2. Knows(r)'
    BY <1>1, <1>5, <2>1 DEF Knows, CancelWhere, BookingStatus
  <2>3. QED
    BY <1>1, <1>5, <2>1, <2>2, QuietRequest DEF Inv, TypeOK, dbVars, queueVars
<1>6. QED
  BY <1>4, <1>5 DEF CancelBookingRow

LEMMA ConfirmSeatRowInv ==
    ASSUME Inv, NEW r \in Requests, ConfirmSeatRow(r)
    PROVE  Inv' /\ Forward
<1> DEFINE b == req[r].booking
           s == bookings[b].seat
<1>1. /\ req[r].pc = "confirm_seat" /\ b \in BookingIds /\ bookings[b].status = "pending"
      /\ bookingLock[b] = r /\ s \in Seats
      /\ UNCHANGED <<seatLock, job, work, exhausted, published, unscheduled>>
  BY DEF ConfirmSeatRow, queueVars, Inv, Knows, DataInv, RowsFilled
<1>2. ConfirmSeatWhere(s)
  BY <1>1 DEF ConfirmSeatWhere, Inv, DataInv, SeatFollowsBooking
<1>3. CommitBoth(b, "confirmed", "booked") /\ Goto(r, "publish")
  BY <1>2 DEF ConfirmSeatRow
<1>4. DataInv' /\ Forward /\ \A q \in Procs \ {r} : RespectsLocksOf(q)
  BY <1>1, <1>3, CommitKeepsData DEF Procs, BookingStatus, SeatStatus
<1>5. /\ bookings' \in [BookingIds -> BookingRows] /\ seats' \in [Seats -> SeatRows]
      /\ bookingLock' \in [BookingIds -> Procs \cup {None}] /\ bookings'[b].status = "confirmed"
  BY <1>1, <1>3, CommitEffect DEF Inv, BookingStatus, SeatStatus
<1>6. /\ req' \in [Requests -> RequestStates]
      /\ \A q \in Requests \ {r} : req'[q] = req[q]
      /\ req'[r].pc = "publish" /\ req'[r].booking = b
  BY <1>3, GotoEffect DEF Inv, RequestPC
<1>7. TypeOK'
  BY <1>1, <1>5, <1>6 DEF Inv, TypeOK
<1>8. Knows(r)'
  BY <1>1, <1>5, <1>6 DEF Knows
<1>9. JobsSound'
  BY <1>1, <1>4, JobsFrame DEF Inv
<1>10. QED
  BY <1>1, <1>4, <1>6, <1>7, <1>8, <1>9, RequestStepInv

LEMMA CancelSeatRowInv ==
    ASSUME Inv, NEW r \in Requests, CancelSeatRow(r)
    PROVE  Inv' /\ Forward
<1> DEFINE b == req[r].booking
           s == bookings[b].seat
<1>1. /\ req[r].pc = "cancel_seat" /\ b \in BookingIds /\ Active(b)
      /\ bookingLock[b] = r /\ s \in Seats
      /\ UNCHANGED <<seatLock, job, work, exhausted, published, unscheduled>>
  BY DEF CancelSeatRow, queueVars, Inv, Knows, DataInv, RowsFilled, Active
<1>2. ReleaseHeldOrBookedWhere(s)
  BY <1>1 DEF ReleaseHeldOrBookedWhere, Inv, DataInv, SeatFollowsBooking, Active
<1>3. CommitBoth(b, "cancelled", "available") /\ Goto(r, "get_job")
  BY <1>2 DEF CancelSeatRow
<1>4. DataInv' /\ Forward /\ \A q \in Procs \ {r} : RespectsLocksOf(q)
  BY <1>1, <1>3, CommitKeepsData DEF Procs, BookingStatus, SeatStatus
<1>5. /\ bookings' \in [BookingIds -> BookingRows] /\ seats' \in [Seats -> SeatRows]
      /\ bookingLock' \in [BookingIds -> Procs \cup {None}] /\ bookings'[b].status = "cancelled"
  BY <1>1, <1>3, CommitEffect DEF Inv, BookingStatus, SeatStatus
<1>6. /\ req' \in [Requests -> RequestStates]
      /\ \A q \in Requests \ {r} : req'[q] = req[q]
      /\ req'[r].pc = "get_job" /\ req'[r].booking = b
  BY <1>3, GotoEffect DEF Inv, RequestPC
<1>7. TypeOK'
  BY <1>1, <1>5, <1>6 DEF Inv, TypeOK
<1>8. Knows(r)'
  BY <1>1, <1>5, <1>6 DEF Knows
<1>9. JobsSound'
  BY <1>1, <1>4, JobsFrame DEF Inv
<1>10. QED
  BY <1>1, <1>4, <1>6, <1>7, <1>8, <1>9, RequestStepInv

LEMMA RereadInv ==
    ASSUME Inv, NEW r \in Requests, Reread(r)
    PROVE  Inv' /\ Forward
BY RespondEffect, QuietRequest DEF Reread, Inv, TypeOK

LEMMA GetJobInv ==
    ASSUME Inv, NEW r \in Requests, GetJob(r)
    PROVE  Inv' /\ Forward
<1>1. /\ req[r].pc = "get_job" /\ req[r].booking \in BookingIds
      /\ bookings[req[r].booking].status # "absent"
      /\ UNCHANGED <<dbVars, queueVars, published, unscheduled>>
  BY DEF GetJob, Inv, Knows
<1>2. ASSUME NEW pc \in {"remove_job", "publish"}, Goto(r, pc) PROVE Inv' /\ Forward
  <2>1. /\ req' \in [Requests -> RequestStates]
        /\ \A q \in Requests \ {r} : req'[q] = req[q]
        /\ req'[r].pc = pc /\ req'[r].booking = req[r].booking
    BY <1>2, GotoEffect DEF Inv, RequestPC
  <2>2. Knows(r)'
    BY <1>1, <2>1 DEF Knows, dbVars
  <2>3. QED
    BY <1>1, <2>1, <2>2, QuietRequest DEF Inv, TypeOK
<1>3. QED
  BY <1>2 DEF GetJob

LEMMA RemoveJobInv ==
    ASSUME Inv, NEW r \in Requests, RemoveJob(r)
    PROVE  Inv' /\ Forward
<1> DEFINE b == req[r].booking
<1>1. /\ req[r].pc = "remove_job" /\ b \in BookingIds /\ bookings[b].status # "absent"
      /\ UNCHANGED <<seats, bookings, seatLock, bookingLock, work, published, unscheduled, exhausted>>
      /\ Goto(r, "publish")
      /\ job' = job \/ job' = [job EXCEPT ![b] = NoJob]
  BY DEF RemoveJob, dbVars, Inv, Knows
<1>2. DataInv' /\ Forward
  BY <1>1, QuietRows DEF Inv
<1>3. /\ req' \in [Requests -> RequestStates]
      /\ \A q \in Requests \ {r} : req'[q] = req[q]
      /\ req'[r].pc = "publish" /\ req'[r].booking = b
  BY <1>1, GotoEffect DEF Inv, RequestPC
<1>4. Knows(r)'
  BY <1>1, <1>3 DEF Knows
<1>5. \A q \in Procs \ {r} : RespectsLocksOf(q)
  BY <1>1 DEF RespectsLocksOf
<1>6. NoJob \in JobStates /\ NoJob.state = "none"
  BY BookingAssumption DEF NoJob, JobStates
<1>7. TypeOK'
  BY <1>1, <1>3, <1>6 DEF Inv, TypeOK
<1>8. JobsSound'
  BY <1>1, <1>6 DEF Inv, TypeOK, JobsSound
<1>9. QED
  BY <1>1, <1>2, <1>3, <1>4, <1>5, <1>7, <1>8, RequestStepInv

\* A send of the Kafka client changes one counter and the sender's own count.
LEMMA PublishEffect ==
    ASSUME Inv, NEW r \in Requests, Publish(r)
    PROVE  LET b == req[r].booking
               e == EventOf(req[r].op) IN
           /\ b \in BookingIds /\ e \in Events /\ req[r].sends \in Nat /\ req[r].sends < MaxSends
           /\ req' \in [Requests -> RequestStates]
           /\ \A q \in Requests \ {r} : req'[q] = req[q]
           /\ req'[r].pc = "publish" /\ req'[r].op = req[r].op /\ req'[r].booking = b
           /\ req'[r].sends = req[r].sends + 1
           /\ published' \in [BookingIds -> [Events -> Nat]]
           /\ published'[b][e] = published[b][e] + 1
           /\ \A c \in BookingIds, f \in Events : c # b \/ f # e => published'[c][f] = published[c][f]
<1> DEFINE b == req[r].booking
           e == EventOf(req[r].op)
           new == [req[r] EXCEPT !.sends = @ + 1]
           counts == [published[b] EXCEPT ![e] = @ + 1]
<1>1. /\ b \in BookingIds /\ req[r].pc = "publish" /\ req[r].sends < MaxSends
      /\ req[r] \in RequestStates
  BY DEF Publish, Inv, Knows, TypeOK
<1>2. req[r].sends \in Nat /\ req[r].sends + 1 \in 0..MaxSends
  BY <1>1, BookingAssumption DEF RequestStates
<1>3. /\ new \in RequestStates /\ new.pc = "publish" /\ new.op = req[r].op /\ new.booking = b
      /\ new.sends = req[r].sends + 1
  BY <1>1, <1>2 DEF RequestStates
<1>4. e \in Events
  BY DEF EventOf, Events
<1>5. req' = [req EXCEPT ![r] = new] /\ published' = [published EXCEPT ![b][e] = @ + 1]
  BY DEF Publish
<1> HIDE DEF b, e, new
<1>6. /\ req' \in [Requests -> RequestStates] /\ req'[r] = new
      /\ \A q \in Requests \ {r} : req'[q] = req[q]
  BY <1>3, <1>5 DEF Inv, TypeOK
<1>7. published \in [BookingIds -> [Events -> Nat]] /\ published[b] \in [Events -> Nat]
  BY <1>1 DEF Inv, TypeOK
<1>8. counts \in [Events -> Nat] /\ counts[e] = published[b][e] + 1
      /\ \A f \in Events : f # e => counts[f] = published[b][f]
  BY <1>4, <1>7
<1>9. published' = [published EXCEPT ![b] = counts]
  BY <1>5
<1> HIDE DEF counts
<1>10. /\ published' \in [BookingIds -> [Events -> Nat]] /\ published'[b] = counts
       /\ \A c \in BookingIds : c # b => published'[c] = published[c]
  BY <1>1, <1>7, <1>8, <1>9
<1>11. \A c \in BookingIds, f \in Events : c # b \/ f # e => published'[c][f] = published[c][f]
  BY <1>8, <1>10
<1>12. QED
  BY <1>1, <1>2, <1>3, <1>4, <1>6, <1>8, <1>10, <1>11 DEF b, e

LEMMA PublishInv ==
    ASSUME Inv, NEW r \in Requests, Publish(r) \/ PublishBookingEvent(r)
    PROVE  Inv' /\ Forward
<1>1. CASE Publish(r)
  <2>1. /\ req' \in [Requests -> RequestStates]
        /\ \A q \in Requests \ {r} : req'[q] = req[q]
        /\ req'[r].pc = "publish" /\ req'[r].booking = req[r].booking
        /\ published' \in [BookingIds -> [Events -> Nat]]
    BY <1>1, PublishEffect
  <2>2. /\ UNCHANGED <<dbVars, queueVars, unscheduled>>
        /\ req[r].booking \in BookingIds /\ bookings[req[r].booking].status # "absent"
    BY <1>1 DEF Publish, Inv, Knows
  <2>3. Knows(r)'
    BY <2>1, <2>2 DEF Knows, dbVars
  <2>4. QED
    BY <2>1, <2>2, <2>3, QuietRequest
<1>2. CASE PublishBookingEvent(r)
  <2>1. Respond(r) /\ UNCHANGED <<dbVars, queueVars, published, unscheduled>>
    BY <1>2 DEF PublishBookingEvent
  <2>2. published' \in [BookingIds -> [Events -> Nat]]
    BY <2>1 DEF Inv, TypeOK
  <2>3. QED
    BY <2>1, <2>2, RespondEffect, QuietRequest DEF Inv
<1>3. QED
  BY <1>1, <1>2

\* A connection that goes away releases its own locks and nobody else's.
LEMMA ReleasedEffect ==
    ASSUME TypeOK, NEW p \in Procs
    PROVE  /\ Released(seatLock, p) \in [Seats -> Procs \cup {None}]
           /\ Released(bookingLock, p) \in [BookingIds -> Procs \cup {None}]
           /\ \A s \in Seats : seatLock[s] # p => Released(seatLock, p)[s] = seatLock[s]
           /\ \A b \in BookingIds : bookingLock[b] # p => Released(bookingLock, p)[b] = bookingLock[b]
BY DEF Released, TypeOK

LEMMA DieInv ==
    ASSUME Inv, NEW r \in Requests, Die(r)
    PROVE  Inv' /\ Forward
<1>1. /\ req[r].pc # "idle"
      /\ seatLock' = Released(seatLock, r) /\ bookingLock' = Released(bookingLock, r)
      /\ Respond(r)
      /\ UNCHANGED <<seats, bookings, job, work, published, exhausted>>
  BY DEF Die, queueVars
<1>2. DataInv' /\ Forward
  BY <1>1, QuietRows DEF Inv
<1>3. unscheduled' \in SUBSET BookingIds
  BY DEF Die, Inv, TypeOK, Knows
<1>4. /\ req' \in [Requests -> RequestStates]
      /\ \A q \in Requests \ {r} : req'[q] = req[q]
      /\ Knows(r)'
  BY <1>1, RespondEffect DEF Inv
<1>5. TypeOK'
  BY <1>1, <1>3, <1>4, ReleasedEffect DEF Inv, TypeOK, Procs
<1>6. \A q \in Procs \ {r} : RespectsLocksOf(q)
  BY <1>1, ReleasedEffect DEF Inv, Procs, RespectsLocksOf
<1>7. JobsSound'
  BY <1>1, <1>2, JobsFrame DEF Inv
<1>8. QED
  BY <1>1, <1>2, <1>4, <1>5, <1>6, <1>7, RequestStepInv

-----------------------------------------------------------------------------
(* The worker and the queue.                                                *)

\* A worker that is done with its job knows nothing.
LEMMA NoWorkEffect ==
    ASSUME TypeOK, NEW w \in Workers, work' = [work EXCEPT ![w] = NoWork]
    PROVE  /\ work' \in [Workers -> Tasks]
           /\ \A v \in Workers \ {w} : work'[v] = work[v]
           /\ WorkerKnows(w)'
<1>1. NoWork \in Tasks /\ NoWork.pc = "idle"
  BY DEF NoWork, Tasks
<1>2. QED
  BY <1>1 DEF TypeOK, WorkerKnows

\* Replacing one job of an inserted booking by a well-formed one.
LEMMA JobChange ==
    ASSUME Inv, Forward, NEW b \in BookingIds, bookings[b].status # "absent", NEW new \in JobStates,
           new.state \in {"delayed", "active"} => new.attempts < MaxAttempts /\ new.stalls <= MaxStalls,
           job' = [job EXCEPT ![b] = new]
    PROVE  job' \in [BookingIds -> JobStates] /\ JobsSound'
<1>1. job' \in [BookingIds -> JobStates]
  BY DEF Inv, TypeOK
<1>2. \A c \in BookingIds : bookings[c].status # "absent" => bookings'[c].status # "absent"
  BY DEF Forward, NextStatus
<1>3. job'[b] = new /\ \A c \in BookingIds : c # b => job'[c] = job[c]
  BY DEF Inv, TypeOK
<1>4. QED
  BY <1>1, <1>2, <1>3 DEF Inv, JobsSound

\* Requeueing a live job changes it, and at most drops an older failed one.
LEMMA RequeueEffect ==
    ASSUME Inv, Forward, NEW b \in BookingIds, job[b].state = "active", NEW new \in JobStates,
           new.state \in {"delayed", "failed"},
           new.state = "delayed" => new.attempts < MaxAttempts /\ new.stalls <= MaxStalls,
           Requeue(b, new)
    PROVE  /\ job' \in [BookingIds -> JobStates] /\ JobsSound'
           /\ exhausted' \in SUBSET BookingIds
           /\ exhausted' = IF new.state = "failed" THEN exhausted \cup {b} ELSE exhausted
           /\ job'[b] = new
           /\ \A c \in BookingIds \ {b} :
                \/ job'[c] = job[c]
                \/ /\ c \in Failed /\ job'[c] = NoJob
                   /\ new.state = "failed" /\ Cardinality(Failed) >= KeepFailed
<1>0. bookings[b].status # "absent" /\ job \in [BookingIds -> JobStates] /\ exhausted \in SUBSET BookingIds
  BY DEF Inv, JobsSound, TypeOK
<1>1. NoJob \in JobStates /\ NoJob.state = "none"
  BY BookingAssumption DEF NoJob, JobStates
<1>2. CASE /\ job' = [job EXCEPT ![b] = new]
           /\ exhausted' = IF new.state = "failed" THEN exhausted \cup {b} ELSE exhausted
  <2>1. job' \in [BookingIds -> JobStates] /\ JobsSound'
    BY <1>0, <1>2, JobChange
  <2>2. job'[b] = new /\ \A c \in BookingIds \ {b} : job'[c] = job[c]
    BY <1>0, <1>2
  <2>3. QED
    BY <1>0, <1>2, <2>1, <2>2
<1>3. CASE /\ new.state = "failed" /\ exhausted' = exhausted \cup {b}
           /\ Cardinality(Failed) >= KeepFailed
           /\ \E old \in Failed : job' = [job EXCEPT ![b] = new, ![old] = NoJob]
  <2>1. PICK old \in Failed : job' = [job EXCEPT ![b] = new, ![old] = NoJob]
    BY <1>3
  <2>2. old \in BookingIds /\ old # b
    BY DEF Failed
  <2>3. \A c \in BookingIds : job'[c] = IF c = old THEN NoJob ELSE IF c = b THEN new ELSE job[c]
    BY <1>0, <2>1, <2>2
  <2>4. job' \in [BookingIds -> JobStates]
    BY <1>0, <1>1, <2>1, <2>2
  <2>5. \A c \in BookingIds : bookings[c].status # "absent" => bookings'[c].status # "absent"
    BY DEF Forward, NextStatus
  <2>6. JobsSound'
    BY <1>0, <1>1, <1>3, <2>3, <2>5 DEF Inv, JobsSound
  <2>7. QED
    BY <1>0, <1>3, <2>2, <2>3, <2>4, <2>6
<1>4. QED
  BY <1>2, <1>3 DEF Requeue

LEMMA TakeJobInv ==
    ASSUME Inv, NEW w \in Workers, NEW b \in BookingIds, TakeJob(w, b)
    PROVE  Inv' /\ Forward
<1> DEFINE new == [job[b] EXCEPT !.state = "active", !.worker = w]
           task == [pc |-> "expire_booking", booking |-> b]
<1>1. /\ job[b].state = "delayed" /\ bookings[b].status # "absent" /\ job[b] \in JobStates
      /\ job[b].attempts < MaxAttempts /\ job[b].stalls <= MaxStalls
      /\ UNCHANGED <<seats, bookings, seatLock, bookingLock, req, published, unscheduled, exhausted>>
  BY DEF TakeJob, dbVars, Inv, JobsSound, TypeOK
<1>2. DataInv' /\ Forward
  BY <1>1, QuietRows DEF Inv
<1>3. new \in JobStates /\ new.attempts = job[b].attempts /\ new.stalls = job[b].stalls
  BY <1>1 DEF JobStates
<1>4. task \in Tasks /\ task.pc = "expire_booking" /\ task.booking = b
  BY DEF Tasks
<1>5. job' = [job EXCEPT ![b] = new] /\ work' = [work EXCEPT ![w] = task]
  BY DEF TakeJob
<1> HIDE DEF new, task
<1>6. job' \in [BookingIds -> JobStates] /\ JobsSound'
  BY <1>1, <1>2, <1>3, <1>5, JobChange
<1>7. /\ work' \in [Workers -> Tasks] /\ work'[w] = task
      /\ \A v \in Workers \ {w} : work'[v] = work[v]
  BY <1>4, <1>5 DEF Inv, TypeOK
<1>8. WorkerKnows(w)'
  BY <1>1, <1>4, <1>7 DEF WorkerKnows
<1>9. TypeOK'
  BY <1>1, <1>6, <1>7 DEF Inv, TypeOK
<1>10. \A q \in Procs \ {w} : RespectsLocksOf(q)
  BY <1>1 DEF RespectsLocksOf
<1>11. QED
  BY <1>1, <1>2, <1>6, <1>7, <1>8, <1>9, <1>10, WorkerStepInv

LEMMA ExpireBookingRowInv ==
    ASSUME Inv, NEW w \in Workers, ExpireBookingRow(w)
    PROVE  Inv' /\ Forward
<1> DEFINE b == work[w].booking
<1>1. /\ work[w].pc = "expire_booking" /\ b \in BookingIds /\ bookings[b].status # "absent"
      /\ UNCHANGED <<seats, bookings, seatLock, req, published, unscheduled, exhausted>>
  BY DEF ExpireBookingRow, Inv, WorkerKnows
<1>2. DataInv' /\ Forward
  BY <1>1, QuietRows DEF Inv
<1>3. CASE /\ LockBookingRow(w, b, ExpireWhere(b))
           /\ work' = [work EXCEPT ![w].pc = "release_seat"] /\ UNCHANGED job
  <2> DEFINE task == [work[w] EXCEPT !.pc = "release_seat"]
  <2>1. task \in Tasks /\ task.pc = "release_seat" /\ task.booking = b
    BY DEF Tasks, Inv, TypeOK
  <2>2. work' = [work EXCEPT ![w] = task]
    BY <1>3
  <2> HIDE DEF task
  <2>3. /\ work' \in [Workers -> Tasks] /\ work'[w] = task
        /\ \A v \in Workers \ {w} : work'[v] = work[v]
    BY <2>1, <2>2 DEF Inv, TypeOK
  <2>4. /\ bookingLock' \in [BookingIds -> Procs \cup {None}] /\ bookingLock'[b] = w
        /\ \A q \in Procs \ {w} : RespectsLocksOf(q)
    BY <1>1, <1>3, LockEffect DEF Inv, Procs
  <2>5. TypeOK'
    BY <1>1, <1>3, <2>3, <2>4 DEF Inv, TypeOK
  <2>6. WorkerKnows(w)'
    BY <1>1, <1>3, <2>1, <2>3, <2>4 DEF WorkerKnows, LockBookingRow, ExpireWhere
  <2>7. JobsSound'
    BY <1>2, <1>3, JobsFrame DEF Inv
  <2>8. QED
    BY <1>1, <1>2, <2>3, <2>4, <2>5, <2>6, <2>7, WorkerStepInv
<1>4. CASE /\ ~ExpireWhere(b) /\ UNCHANGED <<bookingLock, job>>
           /\ work' = [work EXCEPT ![w].pc = "complete_job"]
  <2> DEFINE task == [work[w] EXCEPT !.pc = "complete_job"]
  <2>1. task \in Tasks /\ task.pc = "complete_job" /\ task.booking = b
    BY DEF Tasks, Inv, TypeOK
  <2>2. work' = [work EXCEPT ![w] = task]
    BY <1>4
  <2> HIDE DEF task
  <2>3. /\ work' \in [Workers -> Tasks] /\ work'[w] = task
        /\ \A v \in Workers \ {w} : work'[v] = work[v]
    BY <2>1, <2>2 DEF Inv, TypeOK
  <2>4. TypeOK'
    BY <1>1, <1>4, <2>3 DEF Inv, TypeOK
  <2>5. WorkerKnows(w)'
    BY <1>1, <1>4, <2>1, <2>3 DEF WorkerKnows, ExpireWhere
  <2>6. JobsSound' /\ \A q \in Procs \ {w} : RespectsLocksOf(q)
    BY <1>1, <1>2, <1>4, JobsFrame DEF Inv, RespectsLocksOf
  <2>7. QED
    BY <1>1, <1>2, <2>3, <2>4, <2>5, <2>6, WorkerStepInv
<1>5. QED
  BY <1>3, <1>4 DEF ExpireBookingRow

LEMMA ExpireSeatRowInv ==
    ASSUME Inv, NEW w \in Workers, ExpireSeatRow(w)
    PROVE  Inv' /\ Forward
<1> DEFINE b == work[w].booking
           s == bookings[b].seat
           task == [work[w] EXCEPT !.pc = "complete_job"]
<1>1. /\ work[w].pc = "release_seat" /\ b \in BookingIds /\ bookings[b].status = "pending"
      /\ bookingLock[b] = w /\ s \in Seats
      /\ UNCHANGED <<seatLock, req, job, published, unscheduled, exhausted>>
  BY DEF ExpireSeatRow, Inv, WorkerKnows, DataInv, RowsFilled
<1>2. ReleaseWhere(s)
  BY <1>1 DEF ReleaseWhere, Inv, DataInv, SeatFollowsBooking
<1>3. CommitBoth(b, "expired", "available") /\ work' = [work EXCEPT ![w] = task]
  BY <1>2 DEF ExpireSeatRow
<1>4. DataInv' /\ Forward /\ \A q \in Procs \ {w} : RespectsLocksOf(q)
  BY <1>1, <1>3, CommitKeepsData DEF Procs, BookingStatus, SeatStatus
<1>5. /\ bookings' \in [BookingIds -> BookingRows] /\ seats' \in [Seats -> SeatRows]
      /\ bookingLock' \in [BookingIds -> Procs \cup {None}] /\ bookings'[b].status = "expired"
  BY <1>1, <1>3, CommitEffect DEF Inv, BookingStatus, SeatStatus
<1>6. task \in Tasks /\ task.pc = "complete_job" /\ task.booking = b
  BY DEF Tasks, Inv, TypeOK
<1> HIDE DEF task
<1>7. /\ work' \in [Workers -> Tasks] /\ work'[w] = task
      /\ \A v \in Workers \ {w} : work'[v] = work[v]
  BY <1>3, <1>6 DEF Inv, TypeOK
<1>8. WorkerKnows(w)'
  BY <1>1, <1>5, <1>6, <1>7 DEF WorkerKnows
<1>9. JobsSound'
  BY <1>1, <1>4, JobsFrame DEF Inv
<1>10. TypeOK'
  BY <1>1, <1>5, <1>7 DEF Inv, TypeOK
<1>11. QED
  BY <1>1, <1>4, <1>7, <1>8, <1>9, <1>10, WorkerStepInv

LEMMA CompleteJobInv ==
    ASSUME Inv, NEW w \in Workers, CompleteJob(w)
    PROVE  Inv' /\ Forward
<1> DEFINE b == work[w].booking
           new == IF HoldsJob(w, b) THEN NoJob ELSE job[b]
<1>1. /\ b \in BookingIds /\ bookings[b].status # "absent"
      /\ UNCHANGED <<seats, bookings, seatLock, bookingLock, req, published, unscheduled, exhausted>>
  BY DEF CompleteJob, dbVars, Inv, WorkerKnows
<1>2. DataInv' /\ Forward
  BY <1>1, QuietRows DEF Inv
<1>3. /\ new \in JobStates
      /\ new.state \in {"delayed", "active"} => new.attempts < MaxAttempts /\ new.stalls <= MaxStalls
  BY <1>1, BookingAssumption DEF NoJob, JobStates, Inv, TypeOK, JobsSound
<1>4. job' = [job EXCEPT ![b] = new] /\ work' = [work EXCEPT ![w] = NoWork]
  BY DEF CompleteJob
<1> HIDE DEF new
<1>5. job' \in [BookingIds -> JobStates] /\ JobsSound'
  BY <1>1, <1>2, <1>3, <1>4, JobChange
<1>6. /\ work' \in [Workers -> Tasks]
      /\ \A v \in Workers \ {w} : work'[v] = work[v]
      /\ WorkerKnows(w)'
  BY <1>4, NoWorkEffect DEF Inv
<1>7. TypeOK'
  BY <1>1, <1>5, <1>6 DEF Inv, TypeOK
<1>8. \A q \in Procs \ {w} : RespectsLocksOf(q)
  BY <1>1 DEF RespectsLocksOf
<1>9. QED
  BY <1>1, <1>2, <1>5, <1>6, <1>7, <1>8, WorkerStepInv

\* Retrying or giving up keeps a live job within its attempts.
LEMMA RetryEffect ==
    ASSUME NEW j \in JobStates, j.attempts < MaxAttempts, j.stalls <= MaxStalls
    PROVE  /\ RetryOrFail(j) \in JobStates
           /\ RetryOrFail(j).state \in {"delayed", "failed"}
           /\ RetryOrFail(j).state = "delayed" =>
                RetryOrFail(j).attempts < MaxAttempts /\ RetryOrFail(j).stalls <= MaxStalls
<1> DEFINE k == RetryOrFail(j)
<1>1. /\ k.worker = None /\ k.attempts = j.attempts + 1 /\ k.stalls = j.stalls
      /\ k.state = IF j.attempts + 1 >= MaxAttempts THEN "failed" ELSE "delayed"
  BY DEF RetryOrFail
<1>2. k \in JobStates
  BY BookingAssumption DEF RetryOrFail, JobStates
<1>3. QED
  BY <1>1, <1>2, BookingAssumption DEF JobStates

LEMMA FailAttemptInv ==
    ASSUME Inv, NEW w \in Workers, FailAttempt(w)
    PROVE  Inv' /\ Forward
<1> DEFINE b == work[w].booking
           new == RetryOrFail(job[b])
<1>1. /\ b \in BookingIds /\ bookings[b].status # "absent" /\ job[b] \in JobStates
      /\ bookingLock' = Released(bookingLock, w)
      /\ work' = [work EXCEPT ![w] = NoWork]
      /\ UNCHANGED <<seats, bookings, seatLock, req, published, unscheduled>>
  BY DEF FailAttempt, Inv, WorkerKnows, TypeOK
<1>2. DataInv' /\ Forward
  BY <1>1, QuietRows DEF Inv
<1>3. job' \in [BookingIds -> JobStates] /\ JobsSound' /\ exhausted' \in SUBSET BookingIds
  <2>1. CASE HoldsJob(w, b) /\ Requeue(b, new)
    <3>1. job[b].state = "active" /\ job[b].attempts < MaxAttempts /\ job[b].stalls <= MaxStalls
      BY <1>1, <2>1 DEF HoldsJob, Inv, JobsSound
    <3>2. /\ new \in JobStates /\ new.state \in {"delayed", "failed"}
          /\ new.state = "delayed" => new.attempts < MaxAttempts /\ new.stalls <= MaxStalls
      BY <1>1, <3>1, RetryEffect
    <3> HIDE DEF new
    <3>3. QED
      BY <1>1, <1>2, <2>1, <3>1, <3>2, RequeueEffect
  <2>2. CASE UNCHANGED <<job, exhausted>>
    BY <1>2, <2>2, JobsFrame DEF Inv, TypeOK
  <2>3. QED
    BY <2>1, <2>2 DEF FailAttempt
<1>6. /\ work' \in [Workers -> Tasks]
      /\ \A v \in Workers \ {w} : work'[v] = work[v]
      /\ WorkerKnows(w)'
  BY <1>1, NoWorkEffect DEF Inv
<1>7. TypeOK'
  BY <1>1, <1>3, <1>6, ReleasedEffect DEF Inv, TypeOK, Procs
<1>8. \A q \in Procs \ {w} : RespectsLocksOf(q)
  BY <1>1, ReleasedEffect DEF Inv, Procs, RespectsLocksOf
<1>9. QED
  BY <1>1, <1>2, <1>3, <1>6, <1>7, <1>8, WorkerStepInv

LEMMA WorkerCrashInv ==
    ASSUME Inv, NEW w \in Workers, WorkerCrash(w)
    PROVE  Inv' /\ Forward
<1>1. /\ bookingLock' = Released(bookingLock, w) /\ work' = [work EXCEPT ![w] = NoWork]
      /\ UNCHANGED <<seats, bookings, seatLock, req, job, published, unscheduled, exhausted>>
  BY DEF WorkerCrash
<1>2. DataInv' /\ Forward
  BY <1>1, QuietRows DEF Inv
<1>3. JobsSound'
  BY <1>1, <1>2, JobsFrame DEF Inv
<1>4. /\ work' \in [Workers -> Tasks]
      /\ \A v \in Workers \ {w} : work'[v] = work[v]
      /\ WorkerKnows(w)'
  BY <1>1, NoWorkEffect DEF Inv
<1>5. TypeOK'
  BY <1>1, <1>4, ReleasedEffect DEF Inv, TypeOK, Procs
<1>6. \A q \in Procs \ {w} : RespectsLocksOf(q)
  BY <1>1, ReleasedEffect DEF Inv, Procs, RespectsLocksOf
<1>7. QED
  BY <1>1, <1>2, <1>3, <1>4, <1>5, <1>6, WorkerStepInv

\* Stalling keeps a live job within its stalls.
LEMMA StallEffect ==
    ASSUME NEW j \in JobStates, j.attempts < MaxAttempts, j.stalls <= MaxStalls
    PROVE  /\ Stalled(j) \in JobStates
           /\ Stalled(j).state \in {"delayed", "failed"}
           /\ Stalled(j).state = "delayed" =>
                Stalled(j).attempts < MaxAttempts /\ Stalled(j).stalls <= MaxStalls
<1> DEFINE k == Stalled(j)
<1>1. /\ k.attempts = j.attempts /\ k.stalls = j.stalls + 1
      /\ k.state = IF j.stalls + 1 > MaxStalls THEN "failed" ELSE "delayed"
  BY DEF Stalled
<1>2. k \in JobStates
  BY BookingAssumption DEF Stalled, JobStates
<1>3. QED
  BY <1>1, <1>2, BookingAssumption DEF JobStates

LEMMA StallJobInv ==
    ASSUME Inv, NEW b \in BookingIds, StallJob(b)
    PROVE  Inv' /\ Forward
<1> DEFINE new == Stalled(job[b])
<1>1. /\ job[b].state = "active" /\ bookings[b].status # "absent" /\ job[b] \in JobStates
      /\ job[b].attempts < MaxAttempts /\ job[b].stalls <= MaxStalls
      /\ UNCHANGED <<seats, bookings, seatLock, bookingLock, req, work, published, unscheduled>>
  BY DEF StallJob, dbVars, Inv, JobsSound, TypeOK
<1>2. DataInv' /\ Forward
  BY <1>1, QuietRows DEF Inv
<1>5. /\ new \in JobStates /\ new.state \in {"delayed", "failed"}
      /\ new.state = "delayed" => new.attempts < MaxAttempts /\ new.stalls <= MaxStalls
  BY <1>1, StallEffect
<1>6. Requeue(b, new)
  BY DEF StallJob
<1> HIDE DEF new
<1>7. job' \in [BookingIds -> JobStates] /\ JobsSound' /\ exhausted' \in SUBSET BookingIds
  BY <1>1, <1>2, <1>5, <1>6, RequeueEffect
<1>8. TypeOK'
  BY <1>1, <1>7 DEF Inv, TypeOK
<1>9. \A q \in Procs : RespectsLocksOf(q)
  BY <1>1 DEF RespectsLocksOf
<1>10. \A q \in Requests : Knows(q)'
  BY <1>1, <1>2, <1>9, KnowsFrame DEF Inv, Procs
<1>11. \A w \in Workers : WorkerKnows(w)'
  BY <1>1, <1>2, <1>9, WorkerKnowsFrame DEF Inv, Procs
<1>12. QED
  BY <1>2, <1>7, <1>8, <1>10, <1>11 DEF Inv

-----------------------------------------------------------------------------
(* The theorems.                                                            *)

\* Every step keeps the invariant and moves rows forward.
LEMMA NextInv == Inv /\ [Next]_vars => Inv' /\ Forward
<1> SUFFICES ASSUME Inv, [Next]_vars PROVE Inv' /\ Forward
  OBVIOUS
<1>1. ASSUME NEW r \in Requests, Client(r) PROVE Inv' /\ Forward
  BY <1>1, StartReserveInv, StartChangeInv DEF Client
<1>2. ASSUME NEW r \in Requests, RequestStep(r) PROVE Inv' /\ Forward
  BY <1>2, ReserveSeatRowInv, InsertBookingInv, ScheduleHoldExpiryInv, ConfirmBookingRowInv,
     ConfirmSeatRowInv, CancelBookingRowInv, CancelSeatRowInv, RereadInv, GetJobInv,
     RemoveJobInv, PublishInv DEF RequestStep
<1>3. ASSUME NEW r \in Requests, Die(r) PROVE Inv' /\ Forward
  BY <1>3, DieInv
<1>4. ASSUME NEW w \in Workers, WorkerStep(w) \/ FailAttempt(w) \/ WorkerCrash(w)
      PROVE  Inv' /\ Forward
  BY <1>4, ExpireBookingRowInv, ExpireSeatRowInv, CompleteJobInv, FailAttemptInv, WorkerCrashInv DEF WorkerStep
<1>5. ASSUME NEW w \in Workers, NEW b \in BookingIds, TakeJob(w, b) PROVE Inv' /\ Forward
  BY <1>5, TakeJobInv
<1>6. ASSUME NEW b \in BookingIds, StallJob(b) PROVE Inv' /\ Forward
  BY <1>6, StallJobInv
<1>7. CASE UNCHANGED vars
  <2>1. Forward
    BY <1>7 DEF vars, Forward
  <2>2. TypeOK'
    BY <1>7 DEF vars, Inv, TypeOK
  <2>3. DataInv'
    BY <1>7, QuietRows DEF vars, Inv
  <2>4. \A q \in Procs : RespectsLocksOf(q)
    BY <1>7 DEF vars, RespectsLocksOf
  <2>5. (\A q \in Requests : Knows(q)') /\ (\A w \in Workers : WorkerKnows(w)')
    BY <1>7, <2>1, <2>4, KnowsFrame, WorkerKnowsFrame DEF vars, Inv, Procs
  <2>6. JobsSound'
    BY <1>7, <2>1, JobsFrame DEF vars, Inv
  <2>7. QED
    BY <2>1, <2>2, <2>3, <2>5, <2>6 DEF Inv
<1>8. QED
  BY <1>1, <1>2, <1>3, <1>4, <1>5, <1>6, <1>7 DEF Next

\* The inductive invariant holds in every reachable state.
THEOREM BookingInvariant == Spec => []Inv
<1>1. Init => Inv
  BY InitInv
<1>2. Inv /\ [Next]_vars => Inv'
  BY NextInv
<1>3. QED
  BY <1>1, <1>2, PTL DEF Spec

\* Rows, locks, requests, jobs and workers stay well formed, and no job is
\* attempted or requeued more often than its options allow.
THEOREM BookingTypes == Spec => []TypeOK
<1>1. Inv => TypeOK
  BY DEF Inv
<1>2. QED
  BY <1>1, BookingInvariant, PTL

\* No double booking and no stuck seat, for any number of seats, bookings,
\* concurrent requests and workers: the committed seat row always agrees with
\* the committed bookings rows.
THEOREM NoDoubleBooking == Spec => []SeatMatchesBookings
<1>1. Inv => SeatMatchesBookings
  <2> SUFFICES ASSUME Inv, NEW s \in Seats
               PROVE  /\ seats[s].status = "available" => ActiveBookings(s) = {}
                      /\ seats[s].status = "held" =>
                           \E b \in BookingIds : ActiveBookings(s) = {b} /\ bookings[b].status = "pending"
                      /\ seats[s].status = "booked" =>
                           \E b \in BookingIds : ActiveBookings(s) = {b} /\ bookings[b].status = "confirmed"
    BY DEF SeatMatchesBookings
  <2>1. seats[s].status = "available" => ActiveBookings(s) = {}
    BY DEF Inv, DataInv, SeatFollowsBooking, ActiveBookings
  <2>2. ASSUME NEW b \in BookingIds, bookings[b].seat = s, Active(b)
        PROVE  ActiveBookings(s) = {b}
    BY <2>2 DEF Inv, DataInv, OneActivePerSeat, ActiveBookings, Active
  <2>3. seats[s].status = "held" =>
          \E b \in BookingIds : ActiveBookings(s) = {b} /\ bookings[b].status = "pending"
    BY <2>2 DEF Inv, DataInv, SeatIsBacked, Active
  <2>4. seats[s].status = "booked" =>
          \E b \in BookingIds : ActiveBookings(s) = {b} /\ bookings[b].status = "confirmed"
    BY <2>2 DEF Inv, DataInv, SeatIsBacked, Active
  <2>5. QED
    BY <2>1, <2>3, <2>4
<1>2. QED
  BY <1>1, BookingInvariant, PTL

-----------------------------------------------------------------------------
(* Row locks.                                                               *)

\* A row lock belongs to a transaction that is under way: a seat's to a
\* reservation of that seat about to insert, a booking's to the confirmation,
\* cancellation or expiry of that booking that has yet to update the seat.
LocksOwned ==
    /\ \A s \in Seats : seatLock[s] # None =>
         \E r \in Requests :
            seatLock[s] = r /\ req[r].pc = "reserve_insert" /\ req[r].seat = s
    /\ \A b \in BookingIds : bookingLock[b] # None =>
         \/ \E r \in Requests : /\ bookingLock[b] = r /\ req[r].booking = b
                               /\ req[r].pc \in {"confirm_seat", "cancel_seat"}
         \/ \E w \in Workers : /\ bookingLock[b] = w /\ work[w].booking = b
                              /\ work[w].pc = "release_seat"

\* Whoever has a lock keeps it, and stays where it is, when somebody else moves.
LEMMA LocksFrame ==
    ASSUME LocksOwned, NEW p,
           \A r \in Requests \ {p} : req'[r] = req[r],
           \A w \in Workers \ {p} : work'[w] = work[w],
           \A s \in Seats : seatLock'[s] # None =>
               \/ seatLock'[s] = seatLock[s] /\ seatLock[s] # p
               \/ /\ p \in Requests /\ seatLock'[s] = p
                  /\ req'[p].pc = "reserve_insert" /\ req'[p].seat = s,
           \A b \in BookingIds : bookingLock'[b] # None =>
               \/ bookingLock'[b] = bookingLock[b] /\ bookingLock[b] # p
               \/ /\ p \in Requests /\ bookingLock'[b] = p /\ req'[p].booking = b
                  /\ req'[p].pc \in {"confirm_seat", "cancel_seat"}
               \/ /\ p \in Workers /\ bookingLock'[b] = p /\ work'[p].booking = b
                  /\ work'[p].pc = "release_seat"
    PROVE  LocksOwned'
BY DEF LocksOwned

\* A request between transactions has no locks, nor has a worker.
LEMMA NoLocksHeld ==
    ASSUME LocksOwned
    PROVE  /\ \A r \in Requests :
                /\ req[r].pc # "reserve_insert" => \A s \in Seats : seatLock[s] # r
                /\ req[r].pc \notin {"confirm_seat", "cancel_seat"} =>
                     \A b \in BookingIds : bookingLock[b] # r
                /\ \A s \in Seats : seatLock[s] = r => req[r].seat = s
                /\ \A b \in BookingIds : bookingLock[b] = r => req[r].booking = b
           /\ \A w \in Workers :
                /\ \A s \in Seats : seatLock[s] # w
                /\ work[w].pc # "release_seat" => \A b \in BookingIds : bookingLock[b] # w
                /\ \A b \in BookingIds : bookingLock[b] = w => work[w].booking = b
BY BookingAssumption DEF LocksOwned

\* A step that touches no lock, of a request that has none.
LEMMA LocksOfRequest ==
    ASSUME Inv, LocksOwned, NEW r \in Requests, UNCHANGED <<seatLock, bookingLock, work>>,
           \A q \in Requests \ {r} : req'[q] = req[q],
           req[r].pc \notin {"reserve_insert", "confirm_seat", "cancel_seat"}
    PROVE  LocksOwned'
<1>1. /\ \A s \in Seats : seatLock[s] # r
      /\ \A b \in BookingIds : bookingLock[b] # r
  BY NoLocksHeld
<1>2. QED
  BY <1>1, LocksFrame

\* A step that touches no lock, of a worker that has none.
LEMMA LocksOfWorker ==
    ASSUME Inv, LocksOwned, NEW w \in Workers, UNCHANGED <<seatLock, bookingLock, req>>,
           \A v \in Workers \ {w} : work'[v] = work[v],
           work[w].pc # "release_seat"
    PROVE  LocksOwned'
<1>1. /\ \A s \in Seats : seatLock[s] # w
      /\ \A b \in BookingIds : bookingLock[b] # w
  BY NoLocksHeld
<1>2. QED
  BY <1>1, LocksFrame

\* The end of a transaction, committed or not: p gives up every lock it has.
LEMMA LocksGivenUp ==
    ASSUME Inv, LocksOwned, NEW p \in Procs,
           \A r \in Requests \ {p} : req'[r] = req[r],
           \A w \in Workers \ {p} : work'[w] = work[w],
           \A s \in Seats : seatLock'[s] = seatLock[s] \/ seatLock'[s] = None,
           \A b \in BookingIds : bookingLock'[b] = bookingLock[b] \/ bookingLock'[b] = None,
           \A s \in Seats : seatLock[s] = p => seatLock'[s] = None,
           \A b \in BookingIds : bookingLock[b] = p => bookingLock'[b] = None
    PROVE  LocksOwned'
BY LocksFrame, BookingAssumption DEF Procs

\* The second statement of a transaction on booking b ends it, whichever way it goes.
LEMMA LocksAfterCommit ==
    ASSUME Inv, LocksOwned, NEW p \in Procs, NEW b \in BookingIds,
           \A r \in Requests \ {p} : req'[r] = req[r],
           \A w \in Workers \ {p} : work'[w] = work[w],
           \A s \in Seats : seatLock[s] # p,
           \A c \in BookingIds : bookingLock[c] = p => c = b,
           seatLock' = seatLock,
           bookingLock' = [bookingLock EXCEPT ![b] = None]
    PROVE  LocksOwned'
<1>1. \A c \in BookingIds : bookingLock'[c] = IF c = b THEN None ELSE bookingLock[c]
  BY DEF Inv, TypeOK
<1>2. QED
  BY <1>1, LocksGivenUp

\* The requests' steps that begin, continue or end a transaction.
LEMMA LocksReserve ==
    ASSUME Inv, LocksOwned, NEW r \in Requests, ReserveSeatRow(r)
    PROVE  LocksOwned'
<1> DEFINE s == req[r].seat
<1>1. req[r].pc = "reserve_update" /\ s \in Seats /\ UNCHANGED <<bookingLock, work>>
  BY DEF ReserveSeatRow, queueVars, Inv, Knows
<1>2. CASE seatLock[s] = None /\ seatLock' = [seatLock EXCEPT ![s] = r] /\ Goto(r, "reserve_insert")
  <2>1. /\ \A q \in Requests \ {r} : req'[q] = req[q]
        /\ req'[r].pc = "reserve_insert" /\ req'[r].seat = s
    BY <1>2, GotoEffect DEF Inv, RequestPC
  <2>2. \A t \in Seats : seatLock'[t] = IF t = s THEN r ELSE seatLock[t]
    BY <1>2 DEF Inv, TypeOK
  <2>3. /\ \A t \in Seats : seatLock[t] # r
        /\ \A b \in BookingIds : bookingLock[b] # r
    BY <1>1, NoLocksHeld
  <2>4. QED
    BY <1>1, <2>1, <2>2, <2>3, LocksFrame
<1>3. CASE Respond(r) /\ UNCHANGED seatLock
  <2>1. \A q \in Requests \ {r} : req'[q] = req[q]
    BY <1>3, RespondEffect DEF Inv
  <2>2. QED
    BY <1>1, <1>3, <2>1, LocksOfRequest
<1>4. QED
  BY <1>2, <1>3 DEF ReserveSeatRow

LEMMA LocksInsert ==
    ASSUME Inv, LocksOwned, NEW r \in Requests, NEW b \in BookingIds, InsertBooking(r, b)
    PROVE  LocksOwned'
<1> DEFINE s == req[r].seat
           new == [req[r] EXCEPT !.pc = "reserve_schedule", !.booking = b]
<1>1. req[r].pc = "reserve_insert" /\ s \in Seats /\ UNCHANGED <<bookingLock, work>>
  BY DEF InsertBooking, queueVars, Inv, Knows
<1>2. req' = [req EXCEPT ![r] = new]
  BY DEF InsertBooking
<1>3. \A q \in Requests \ {r} : req'[q] = req[q]
  BY <1>2 DEF Inv, TypeOK
<1>4. \A t \in Seats : seatLock'[t] = IF t = s THEN None ELSE seatLock[t]
  BY DEF InsertBooking, Inv, TypeOK
<1>5. /\ \A t \in Seats : seatLock[t] = r => t = s
      /\ \A c \in BookingIds : bookingLock[c] # r
  BY <1>1, NoLocksHeld
<1>6. QED
  BY <1>1, <1>3, <1>4, <1>5, LocksGivenUp DEF Procs

\* Confirmation and cancellation lock the booking row the same way.
LEMMA LocksBookingRow ==
    ASSUME Inv, LocksOwned, NEW r \in Requests,
           ConfirmBookingRow(r) \/ CancelBookingRow(r)
    PROVE  LocksOwned'
<1> DEFINE b == req[r].booking
<1>1. /\ req[r].pc \in {"confirm_booking", "cancel_booking"}
      /\ b \in BookingIds /\ UNCHANGED <<seatLock, work>>
  BY DEF ConfirmBookingRow, CancelBookingRow, queueVars, Inv, Knows
<1>2. CASE \E pc \in {"confirm_seat", "cancel_seat"} :
             bookingLock' = [bookingLock EXCEPT ![b] = r] /\ Goto(r, pc)
  <2>1. PICK pc \in {"confirm_seat", "cancel_seat"} :
            bookingLock' = [bookingLock EXCEPT ![b] = r] /\ Goto(r, pc)
    BY <1>2
  <2>2. /\ \A q \in Requests \ {r} : req'[q] = req[q]
        /\ req'[r].pc = pc /\ req'[r].booking = b
    BY <2>1, GotoEffect DEF Inv, RequestPC
  <2>3. \A c \in BookingIds : bookingLock'[c] = IF c = b THEN r ELSE bookingLock[c]
    BY <2>1 DEF Inv, TypeOK
  <2>4. /\ \A s \in Seats : seatLock[s] # r
        /\ \A c \in BookingIds : bookingLock[c] # r
    BY <1>1, NoLocksHeld
  <2>5. QED
    BY <1>1, <2>1, <2>2, <2>3, <2>4, LocksFrame
<1>3. CASE \E pc \in {"confirm_reread", "cancel_reread"} : Goto(r, pc) /\ UNCHANGED bookingLock
  <2>1. \A q \in Requests \ {r} : req'[q] = req[q]
    BY <1>3, GotoEffect DEF Inv, RequestPC
  <2>2. QED
    BY <1>1, <1>3, <2>1, LocksOfRequest
<1>4. QED
  BY <1>2, <1>3 DEF ConfirmBookingRow, CancelBookingRow, LockBookingRow

LEMMA LocksSeatRow ==
    ASSUME Inv, LocksOwned, NEW r \in Requests, ConfirmSeatRow(r) \/ CancelSeatRow(r)
    PROVE  LocksOwned'
<1> DEFINE b == req[r].booking
<1>1. /\ req[r].pc \in {"confirm_seat", "cancel_seat"}
      /\ b \in BookingIds /\ UNCHANGED <<seatLock, work>>
      /\ bookingLock' = [bookingLock EXCEPT ![b] = None]
  BY DEF ConfirmSeatRow, CancelSeatRow, CommitBoth, StateDrift, queueVars, Inv, Knows
<1>2. \A q \in Requests \ {r} : req'[q] = req[q]
  BY GotoEffect, RespondEffect DEF ConfirmSeatRow, CancelSeatRow, StateDrift, Inv, RequestPC
<1>3. /\ \A s \in Seats : seatLock[s] # r
      /\ \A c \in BookingIds : bookingLock[c] = r => c = b
  BY <1>1, NoLocksHeld
<1>4. QED
  BY <1>1, <1>2, <1>3, LocksAfterCommit DEF Procs

LEMMA LocksDie ==
    ASSUME Inv, LocksOwned, NEW r \in Requests, Die(r)
    PROVE  LocksOwned'
<1>1. /\ \A q \in Requests \ {r} : req'[q] = req[q]
      /\ UNCHANGED work
  BY RespondEffect DEF Die, Inv, queueVars
<1>2. /\ \A s \in Seats : seatLock'[s] = IF seatLock[s] = r THEN None ELSE seatLock[s]
      /\ \A b \in BookingIds : bookingLock'[b] = IF bookingLock[b] = r THEN None ELSE bookingLock[b]
  BY DEF Die, Released, Inv, TypeOK
<1>3. QED
  BY <1>1, <1>2, LocksGivenUp DEF Procs

\* The worker's statements and its failures.
LEMMA LocksExpireBooking ==
    ASSUME Inv, LocksOwned, NEW w \in Workers, ExpireBookingRow(w)
    PROVE  LocksOwned'
<1> DEFINE b == work[w].booking
<1>1. work[w].pc = "expire_booking" /\ b \in BookingIds /\ UNCHANGED <<seatLock, req>>
  BY DEF ExpireBookingRow, Inv, WorkerKnows
<1>2. CASE bookingLock' = [bookingLock EXCEPT ![b] = w] /\ work' = [work EXCEPT ![w].pc = "release_seat"]
  <2>1. work[w] \in Tasks
    BY DEF Inv, TypeOK
  <2>2. /\ \A v \in Workers \ {w} : work'[v] = work[v]
        /\ work'[w].pc = "release_seat" /\ work'[w].booking = b
    BY <1>2, <2>1 DEF Inv, TypeOK, Tasks
  <2>3. \A c \in BookingIds : bookingLock'[c] = IF c = b THEN w ELSE bookingLock[c]
    BY <1>2 DEF Inv, TypeOK
  <2>4. /\ \A s \in Seats : seatLock[s] # w
        /\ \A c \in BookingIds : bookingLock[c] # w
    BY <1>1, NoLocksHeld
  <2>5. QED
    BY <1>1, <2>2, <2>3, <2>4, LocksFrame
<1>3. CASE work' = [work EXCEPT ![w].pc = "complete_job"] /\ UNCHANGED bookingLock
  <2>1. \A v \in Workers \ {w} : work'[v] = work[v]
    BY <1>3 DEF Inv, TypeOK
  <2>2. QED
    BY <1>1, <1>3, <2>1, LocksOfWorker
<1>4. QED
  BY <1>2, <1>3 DEF ExpireBookingRow, LockBookingRow

LEMMA LocksExpireSeat ==
    ASSUME Inv, LocksOwned, NEW w \in Workers, ExpireSeatRow(w)
    PROVE  LocksOwned'
<1> DEFINE b == work[w].booking
<1>1. /\ work[w].pc = "release_seat" /\ b \in BookingIds /\ UNCHANGED <<seatLock, req>>
      /\ bookingLock' = [bookingLock EXCEPT ![b] = None]
      /\ work' = [work EXCEPT ![w].pc = "complete_job"]
  BY DEF ExpireSeatRow, CommitBoth, Inv, WorkerKnows
<1>2. \A v \in Workers \ {w} : work'[v] = work[v]
  BY <1>1 DEF Inv, TypeOK
<1>3. /\ \A s \in Seats : seatLock[s] # w
      /\ \A c \in BookingIds : bookingLock[c] = w => c = b
  BY NoLocksHeld
<1>4. QED
  BY <1>1, <1>2, <1>3, LocksAfterCommit DEF Procs

LEMMA LocksComplete ==
    ASSUME Inv, LocksOwned, NEW w \in Workers, CompleteJob(w)
    PROVE  LocksOwned'
<1>1. work[w].pc = "complete_job" /\ UNCHANGED <<seatLock, bookingLock, req>>
  BY DEF CompleteJob, dbVars
<1>2. \A v \in Workers \ {w} : work'[v] = work[v]
  BY DEF CompleteJob, Inv, TypeOK
<1>3. QED
  BY <1>1, <1>2, LocksOfWorker

LEMMA LocksWorkerFails ==
    ASSUME Inv, LocksOwned, NEW w \in Workers, FailAttempt(w) \/ WorkerCrash(w)
    PROVE  LocksOwned'
<1>1. /\ UNCHANGED <<seatLock, req>>
      /\ bookingLock' = Released(bookingLock, w)
      /\ work' = [work EXCEPT ![w] = NoWork]
  BY DEF FailAttempt, WorkerCrash
<1>2. \A v \in Workers \ {w} : work'[v] = work[v]
  BY <1>1 DEF Inv, TypeOK
<1>3. \A b \in BookingIds : bookingLock'[b] = IF bookingLock[b] = w THEN None ELSE bookingLock[b]
  BY <1>1 DEF Released, Inv, TypeOK
<1>4. \A s \in Seats : seatLock[s] # w
  BY NoLocksHeld
<1>5. QED
  BY <1>1, <1>2, <1>3, <1>4, LocksGivenUp DEF Procs

\* The steps of a request outside its transactions.
LEMMA LocksBetween ==
    ASSUME Inv, LocksOwned, NEW r \in Requests,
           \/ Client(r) \/ ScheduleHoldExpiry(r) \/ Reread(r) \/ GetJob(r) \/ RemoveJob(r)
           \/ Publish(r) \/ PublishBookingEvent(r)
    PROVE  LocksOwned'
<1>1. /\ req[r].pc \in {"idle", "reserve_schedule", "confirm_reread", "cancel_reread", "get_job",
                        "remove_job", "publish"}
      /\ UNCHANGED <<seatLock, bookingLock, work>>
  BY DEF Client, StartReserve, StartConfirm, StartCancel, ScheduleHoldExpiry, Reread, GetJob,
         RemoveJob, Publish, PublishBookingEvent, dbVars, queueVars
<1>2. \A q \in Requests \ {r} : req'[q] = req[q]
  BY DEF Client, StartReserve, StartConfirm, StartCancel, ScheduleHoldExpiry, Reread, GetJob,
         RemoveJob, Publish, PublishBookingEvent, Begin, Goto, Respond, Inv, TypeOK
<1>3. QED
  BY <1>1, <1>2, LocksOfRequest

\* No step leaves a lock behind.
LEMMA LocksStep == Inv /\ LocksOwned /\ [Next]_vars => LocksOwned'
<1> SUFFICES ASSUME Inv, LocksOwned, [Next]_vars PROVE LocksOwned'
  OBVIOUS
<1>1. ASSUME NEW r \in Requests, Client(r) \/ RequestStep(r) \/ Die(r) PROVE LocksOwned'
  BY <1>1, LocksReserve, LocksInsert, LocksBookingRow, LocksSeatRow, LocksDie, LocksBetween
  DEF RequestStep
<1>2. ASSUME NEW w \in Workers, WorkerStep(w) \/ FailAttempt(w) \/ WorkerCrash(w) PROVE LocksOwned'
  BY <1>2, LocksExpireBooking, LocksExpireSeat, LocksComplete, LocksWorkerFails DEF WorkerStep
<1>3. ASSUME NEW w \in Workers, NEW b \in BookingIds, TakeJob(w, b) PROVE LocksOwned'
  <2>1. UNCHANGED <<seatLock, bookingLock, req>> /\ work[w].pc = "idle"
    BY <1>3 DEF TakeJob, dbVars
  <2>2. \A v \in Workers \ {w} : work'[v] = work[v]
    BY <1>3 DEF TakeJob, Inv, TypeOK
  <2>3. QED
    BY <2>1, <2>2, LocksOfWorker
<1>4. ASSUME UNCHANGED <<seatLock, bookingLock, req, work>> PROVE LocksOwned'
  BY <1>4 DEF LocksOwned
<1>5. ASSUME NEW b \in BookingIds, StallJob(b) PROVE LocksOwned'
  BY <1>5, <1>4 DEF StallJob, dbVars
<1>6. ASSUME UNCHANGED vars PROVE LocksOwned'
  BY <1>6, <1>4 DEF vars
<1>7. QED
  BY <1>1, <1>2, <1>3, <1>5, <1>6 DEF Next

\* No row lock outlives its transaction, whatever crashes: a locked row always has a
\* request or a worker between its two statements to unlock it, and it is the row
\* that this transaction is about.
THEOREM LocksBelongToTransactions == Spec => []LocksOwned
<1>1. Init => LocksOwned
  BY DEF Init, LocksOwned
<1>2. Inv /\ LocksOwned /\ [Next]_vars => LocksOwned'
  BY LocksStep
<1>3. QED
  BY <1>1, <1>2, BookingInvariant, PTL DEF Spec

\* A transaction whose booking UPDATE won goes through: its seat UPDATE matches, so
\* the state-drift throws are dead code and expireHold misses nothing, and finds
\* the seat unlocked, so row locks never deadlock.
THEOREM SeatStatementsSucceed == Spec => []SeatStatementSucceeds
<1>1. Inv /\ LocksOwned => SeatStatementSucceeds
  <2> SUFFICES ASSUME Inv, LocksOwned PROVE SeatStatementSucceeds
    OBVIOUS
  <2>1. ASSUME NEW b \in BookingIds, Active(b)
        PROVE  /\ bookings[b].seat \in Seats
               /\ bookings[b].status = "pending" => seats[bookings[b].seat].status = "held"
               /\ seats[bookings[b].seat].status \in {"held", "booked"}
               /\ seatLock[bookings[b].seat] = None
    <3> DEFINE s == bookings[b].seat
    <3>1. /\ s \in Seats
          /\ bookings[b].status = "pending" => seats[s].status = "held"
          /\ seats[s].status \in {"held", "booked"}
      BY <2>1 DEF Active, Inv, DataInv, RowsFilled, SeatFollowsBooking
    <3>2. ASSUME seatLock[s] # None PROVE FALSE
      <4>1. PICK r \in Requests : req[r].pc = "reserve_insert" /\ req[r].seat = s
        BY <3>1, <3>2 DEF LocksOwned
      <4>2. seats[s].status = "available"
        BY <4>1 DEF Inv, Knows
      <4>3. QED
        BY <3>1, <4>2
    <3>3. QED
      BY <3>1, <3>2
  <2>2. ASSUME NEW r \in Requests
        PROVE  LET s == bookings[req[r].booking].seat IN
               /\ req[r].pc = "confirm_seat" => ConfirmSeatWhere(s) /\ seatLock[s] = None
               /\ req[r].pc = "cancel_seat" => ReleaseHeldOrBookedWhere(s) /\ seatLock[s] = None
    <3>1. /\ req[r].pc \in {"confirm_seat", "cancel_seat"} =>
               req[r].booking \in BookingIds /\ Active(req[r].booking)
          /\ req[r].pc = "confirm_seat" => bookings[req[r].booking].status = "pending"
      BY DEF Inv, Knows, Active
    <3>2. QED
      BY <2>1, <3>1 DEF ConfirmSeatWhere, ReleaseHeldOrBookedWhere
  <2>3. ASSUME NEW w \in Workers
        PROVE  LET s == bookings[work[w].booking].seat IN
               work[w].pc = "release_seat" => ReleaseWhere(s) /\ seatLock[s] = None
    <3>1. work[w].pc = "release_seat" =>
            work[w].booking \in BookingIds /\ bookings[work[w].booking].status = "pending"
      BY DEF Inv, WorkerKnows
    <3>2. QED
      BY <2>1, <3>1 DEF ReleaseWhere, Active
  <2>4. QED
    BY <2>2, <2>3 DEF SeatStatementSucceeds
<1>2. QED
  BY <1>1, BookingInvariant, LocksBelongToTransactions, PTL

\* A 409 never quotes a status from which the call could have succeeded.
THEOREM ConflictsAreFinal == Spec => []ConflictIsFinal
<1>1. Inv => ConflictIsFinal
  BY DEF Inv, Knows, ConflictIsFinal
<1>2. QED
  BY <1>1, BookingInvariant, PTL

\* Bookings only move along the lifecycle; cancelled and expired are final.
THEOREM LifecycleHolds == Spec => BookingLifecycle
<1>1. Inv /\ [Next]_vars => [LifecycleStep]_vars
  BY NextInv DEF Forward, LifecycleStep
<1>2. QED
  BY <1>1, BookingInvariant, PTL DEF Spec, BookingLifecycle

-----------------------------------------------------------------------------
(***************************************************************************)
(* Booking implements SeatLedger, for every value of the constants.        *)
(*                                                                         *)
(* Only four actions change committed rows.  Each is one ledger step:      *)
(* InsertBooking is Hold, ConfirmSeatRow is Sell, CancelSeatRow and        *)
(* ExpireSeatRow are Release.  Everything else (reads, locks, jobs,        *)
(* events, crashes) is a stutter of the ledger.  That a Hold finds the     *)
(* seat unclaimed is where the invariant Inv is needed: the code looks at  *)
(* the seat's status, the ledger at the bookings.                          *)
(***************************************************************************)

Holding == [s \in Seats |-> {b \in ActiveBookings(s) : bookings[b].status = "pending"}]
Sold == [s \in Seats |-> {b \in ActiveBookings(s) : bookings[b].status = "confirmed"}]
Issued == {b \in BookingIds : bookings[b].status # "absent"}

\* The mapped sets, booking by booking, before and after a step.
LEMMA LedgerMembers ==
    ASSUME NEW s \in Seats
    PROVE  /\ Holding[s] \in SUBSET BookingIds /\ Sold[s] \in SUBSET BookingIds
           /\ Holding'[s] \in SUBSET BookingIds /\ Sold'[s] \in SUBSET BookingIds
           /\ \A b \in BookingIds :
                /\ b \in Holding[s] <=> bookings[b].seat = s /\ bookings[b].status = "pending"
                /\ b \in Sold[s] <=> bookings[b].seat = s /\ bookings[b].status = "confirmed"
                /\ b \in Holding'[s] <=> bookings'[b].seat = s /\ bookings'[b].status = "pending"
                /\ b \in Sold'[s] <=> bookings'[b].seat = s /\ bookings'[b].status = "confirmed"
BY DEF Holding, Sold, ActiveBookings

\* Two sets of booking ids with the same members are the same set.
LEMMA SameMembers ==
    ASSUME NEW A \in SUBSET BookingIds, NEW B \in SUBSET BookingIds,
           \A c \in BookingIds : c \in A <=> c \in B
    PROVE  A = B
OBVIOUS

\* Committed rows unchanged: the ledger stutters.
LEMMA QuietLedger ==
    ASSUME bookings' = bookings
    PROVE  Holding' = Holding /\ Sold' = Sold /\ Issued' = Issued
BY DEF Holding, Sold, Issued, ActiveBookings

\* A reservation's commit is Hold.
LEMMA InsertIsHold ==
    ASSUME Inv, NEW r \in Requests, NEW b \in BookingIds, InsertBooking(r, b)
    PROVE  \E s \in Seats : /\ Holding[s] \cup Sold[s] = {}
                            /\ b \notin Issued
                            /\ Holding' = [Holding EXCEPT ![s] = {b}]
                            /\ Issued' = Issued \cup {b}
                            /\ Sold' = Sold
<1> DEFINE s == req[r].seat
           row == [status |-> "pending", seat |-> s, user |-> req[r].user]
<1>1. s \in Seats /\ seats[s].status = "available" /\ bookings[b].status = "absent"
  BY DEF InsertBooking, Inv, Knows
<1>2. row.status = "pending" /\ row.seat = s
  OBVIOUS
<1>3. bookings' = [bookings EXCEPT ![b] = row]
  BY DEF InsertBooking
<1> HIDE DEF row, s
<1>4. (\A c \in BookingIds : c # b => bookings'[c] = bookings[c]) /\ bookings'[b] = row
  BY <1>3 DEF Inv, TypeOK
<1>5. \A c \in BookingIds : bookings[c].seat = s => bookings[c].status \notin {"pending", "confirmed"}
  BY <1>1 DEF Inv, DataInv, SeatFollowsBooking
<1>6. Holding[s] = {} /\ Sold[s] = {}
  BY <1>1, <1>5, LedgerMembers
<1>7. b \notin Issued
  BY <1>1 DEF Issued
<1>8. ASSUME NEW t \in Seats PROVE Holding'[t] = IF t = s THEN {b} ELSE Holding[t]
  <2>1. CASE t = s
    BY <2>1, <1>2, <1>4, <1>5, LedgerMembers
  <2>2. CASE t # s
    <3>1. \A c \in BookingIds : c \in Holding'[t] <=> c \in Holding[t]
      BY <2>2, <1>1, <1>2, <1>4, LedgerMembers
    <3>2. Holding'[t] \in SUBSET BookingIds /\ Holding[t] \in SUBSET BookingIds
      BY LedgerMembers
    <3>3. Holding'[t] = Holding[t]
      BY <3>1, <3>2, SameMembers
    <3>4. QED
      BY <2>2, <3>3
  <2>3. QED
    BY <2>1, <2>2
<1>9. ASSUME NEW t \in Seats PROVE Sold'[t] = Sold[t]
  <2>1. \A c \in BookingIds : c \in Sold'[t] <=> c \in Sold[t]
    BY <1>1, <1>2, <1>4, LedgerMembers
  <2>2. Sold'[t] \in SUBSET BookingIds /\ Sold[t] \in SUBSET BookingIds
    BY LedgerMembers
  <2>3. QED
    BY <2>1, <2>2, SameMembers
<1>10. Issued' = Issued \cup {b}
  BY <1>2, <1>4 DEF Issued
<1>11. Holding' = [Holding EXCEPT ![s] = {b}]
  BY <1>8 DEF Holding
<1>12. Sold' = Sold
  BY <1>9 DEF Sold
<1>13. QED
  BY <1>1, <1>6, <1>7, <1>10, <1>11, <1>12

\* A commit of CommitBoth by the holder of the row is Sell or Release.
LEMMA CommitIsSellOrRelease ==
    ASSUME Inv, NEW b \in BookingIds, Active(b), NEW status \in BookingStatus,
           NEW seatStatus \in SeatStatus, CommitBoth(b, status, seatStatus),
           status # "absent", status # "pending", status = "confirmed" => bookings[b].status = "pending"
    PROVE  \E s \in Seats :
             /\ b \in Holding[s] \cup Sold[s]
             /\ status = "confirmed" => b \in Holding[s]
             /\ Holding' = [Holding EXCEPT ![s] = @ \ {b}]
             /\ Sold' = [Sold EXCEPT ![s] = IF status = "confirmed" THEN @ \cup {b} ELSE @ \ {b}]
             /\ Issued' = Issued
<1> DEFINE s == bookings[b].seat
<1>1. s \in Seats
  BY DEF Inv, DataInv, RowsFilled, Active
<1>2. /\ \A c \in BookingIds : c # b => bookings'[c] = bookings[c]
      /\ bookings'[b].status = status /\ bookings'[b].seat = s
  BY <1>1, CommitEffect DEF Inv
<1>3. b \in Holding[s] \cup Sold[s] /\ (status = "confirmed" => b \in Holding[s])
  BY <1>1, LedgerMembers DEF Active
<1>4. ASSUME NEW t \in Seats
      PROVE  Holding'[t] = IF t = s THEN Holding[t] \ {b} ELSE Holding[t]
  <2>1. \A c \in BookingIds : c \in Holding'[t] <=> c \in Holding[t] /\ (t = s => c # b)
    BY <1>1, <1>2, LedgerMembers
  <2>2. CASE t = s
    <3>1. \A c \in BookingIds : c \in Holding'[t] <=> c \in Holding[t] \ {b}
      BY <2>1, <2>2
    <3>2. QED
      BY <2>2, <3>1, LedgerMembers, SameMembers
  <2>3. CASE t # s
    <3>1. Holding'[t] \in SUBSET BookingIds /\ Holding[t] \in SUBSET BookingIds
      BY LedgerMembers
    <3>2. \A c \in BookingIds : c \in Holding'[t] <=> c \in Holding[t]
      BY <2>1, <2>3
    <3>3. Holding'[t] = Holding[t]
      BY <3>1, <3>2, SameMembers
    <3>4. QED
      BY <2>3, <3>3
  <2>4. QED
    BY <2>2, <2>3
<1>5. ASSUME NEW t \in Seats
      PROVE  Sold'[t] = IF t = s THEN (IF status = "confirmed" THEN Sold[t] \cup {b} ELSE Sold[t] \ {b})
                        ELSE Sold[t]
  <2>1. CASE t # s
    <3>1. \A c \in BookingIds : c \in Sold'[t] <=> c \in Sold[t]
      BY <2>1, <1>1, <1>2, LedgerMembers
    <3>2. Sold'[t] \in SUBSET BookingIds /\ Sold[t] \in SUBSET BookingIds
      BY LedgerMembers
    <3>3. Sold'[t] = Sold[t]
      BY <3>1, <3>2, SameMembers
    <3>4. QED
      BY <2>1, <3>3
  <2>2. CASE t = s /\ status = "confirmed"
    <3>1. \A c \in BookingIds : c \in Sold'[t] <=> c \in Sold[t] \/ c = b
      BY <2>2, <1>1, <1>2, LedgerMembers
    <3>2. QED
      BY <2>2, <3>1, LedgerMembers
  <2>3. CASE t = s /\ status # "confirmed"
    <3>1. \A c \in BookingIds : c \in Sold'[t] <=> c \in Sold[t] /\ c # b
      BY <2>3, <1>1, <1>2, LedgerMembers
    <3>2. QED
      BY <2>3, <3>1, LedgerMembers
  <2>4. QED
    BY <2>1, <2>2, <2>3
<1>6. Issued' = Issued
  BY <1>2 DEF Issued, Active
<1>7. Holding' = [Holding EXCEPT ![s] = @ \ {b}]
  BY <1>4, <1>1 DEF Holding
<1>8. Sold' = [Sold EXCEPT ![s] = IF status = "confirmed" THEN @ \cup {b} ELSE @ \ {b}]
  <2> DEFINE f == [Sold EXCEPT ![s] = IF status = "confirmed" THEN @ \cup {b} ELSE @ \ {b}]
  <2>1. \A t \in Seats : Sold'[t] = f[t]
    BY <1>5, <1>1 DEF Sold
  <2>2. QED
    BY <2>1 DEF Sold
<1>9. QED
  BY <1>1, <1>3, <1>6, <1>7, <1>8

\* Confirming is Sell.
LEMMA ConfirmIsSell ==
    ASSUME Inv, NEW b \in BookingIds, bookings[b].status = "pending", CommitBoth(b, "confirmed", "booked")
    PROVE  \E s \in Seats : /\ b \in Holding[s]
                            /\ Holding' = [Holding EXCEPT ![s] = @ \ {b}]
                            /\ Sold' = [Sold EXCEPT ![s] = @ \cup {b}]
                            /\ Issued' = Issued
<1>1. Active(b) /\ "confirmed" \in BookingStatus /\ "booked" \in SeatStatus
  BY DEF Active, BookingStatus, SeatStatus
<1>2. QED
  BY <1>1, CommitIsSellOrRelease

\* Cancelling and expiring are Release.
LEMMA EndIsRelease ==
    ASSUME Inv, NEW b \in BookingIds, Active(b), NEW status \in {"cancelled", "expired"},
           CommitBoth(b, status, "available")
    PROVE  \E s \in Seats : /\ b \in Holding[s] \cup Sold[s]
                            /\ Holding' = [Holding EXCEPT ![s] = @ \ {b}]
                            /\ Sold' = [Sold EXCEPT ![s] = @ \ {b}]
                            /\ Issued' = Issued
<1>1. status \in BookingStatus /\ status # "confirmed" /\ status # "absent" /\ status # "pending"
      /\ "available" \in SeatStatus
  BY DEF BookingStatus, SeatStatus
<1>2. QED
  BY <1>1, CommitIsSellOrRelease

\* Every step that is not one of the four commits leaves the rows alone.
LEMMA OnlyFourCommits ==
    ASSUME [Next]_vars
    PROVE  \/ bookings' = bookings
           \/ \E r \in Requests, b \in BookingIds : InsertBooking(r, b)
           \/ \E r \in Requests : ConfirmSeatRow(r) \/ CancelSeatRow(r)
           \/ \E w \in Workers : ExpireSeatRow(w)
<1>1. ASSUME NEW r \in Requests, Client(r) \/ RequestStep(r) \/ Die(r)
      PROVE  \/ bookings' = bookings
             \/ \E b \in BookingIds : InsertBooking(r, b)
             \/ ConfirmSeatRow(r) \/ CancelSeatRow(r)
  BY <1>1 DEF Client, RequestStep, Die, StartReserve, StartConfirm, StartCancel, ReserveSeatRow,
              ScheduleHoldExpiry, ConfirmBookingRow, CancelBookingRow, Reread, GetJob, RemoveJob,
              Publish, PublishBookingEvent, dbVars
<1>2. ASSUME NEW w \in Workers, WorkerStep(w) \/ FailAttempt(w) \/ WorkerCrash(w)
      PROVE  bookings' = bookings \/ ExpireSeatRow(w)
  BY <1>2 DEF WorkerStep, FailAttempt, WorkerCrash, ExpireBookingRow, CompleteJob, dbVars
<1>3. ASSUME NEW w \in Workers, NEW b \in BookingIds, TakeJob(w, b) PROVE bookings' = bookings
  BY <1>3 DEF TakeJob, dbVars
<1>4. ASSUME NEW b \in BookingIds, StallJob(b) PROVE bookings' = bookings
  BY <1>4 DEF StallJob, dbVars
<1>5. CASE UNCHANGED vars
  BY <1>5 DEF vars
<1>6. QED
  BY <1>1, <1>2, <1>3, <1>4, <1>5 DEF Next

\* The mapped ledger step, written with the mapping's names.
LEMMA LedgerStep ==
    ASSUME Inv, [Next]_vars
    PROVE  [Ledger!Next]_(Ledger!ledgerVars)
<1> USE DEF Holding, Sold, Issued
<1>1. CASE bookings' = bookings
  BY <1>1, QuietLedger DEF Ledger!ledgerVars
<1>2. ASSUME NEW r \in Requests, NEW b \in BookingIds, InsertBooking(r, b)
      PROVE  Ledger!Next
  <2>1. \E s \in Seats : Ledger!Hold(s, b)
    BY <1>2, InsertIsHold DEF Ledger!Hold, Ledger!Claims
  <2>2. QED
    BY <2>1 DEF Ledger!Next
<1>3. ASSUME NEW r \in Requests, ConfirmSeatRow(r)
      PROVE  Ledger!Next
  <2>0. PICK b \in BookingIds : b = req[r].booking
    BY <1>3 DEF ConfirmSeatRow, Inv, Knows
  <2>1. bookings[b].status = "pending" /\ ConfirmSeatWhere(bookings[b].seat)
    BY <1>3, <2>0 DEF ConfirmSeatRow, Inv, Knows, DataInv, SeatFollowsBooking, ConfirmSeatWhere
  <2>2. CommitBoth(b, "confirmed", "booked")
    BY <1>3, <2>0, <2>1 DEF ConfirmSeatRow
  <2>3. \E s \in Seats : Ledger!Sell(s, b)
    BY <2>1, <2>2, ConfirmIsSell DEF Ledger!Sell
  <2>4. QED
    BY <2>3 DEF Ledger!Next
<1>4. ASSUME NEW r \in Requests, CancelSeatRow(r)
      PROVE  Ledger!Next
  <2>0. PICK b \in BookingIds : b = req[r].booking
    BY <1>4 DEF CancelSeatRow, Inv, Knows
  <2>1. Active(b) /\ ReleaseHeldOrBookedWhere(bookings[b].seat)
    BY <1>4, <2>0 DEF CancelSeatRow, Inv, Knows, DataInv, SeatFollowsBooking, ReleaseHeldOrBookedWhere, Active
  <2>2. CommitBoth(b, "cancelled", "available")
    BY <1>4, <2>0, <2>1 DEF CancelSeatRow
  <2>3. \E s \in Seats : Ledger!Release(s, b)
    BY <2>1, <2>2, EndIsRelease DEF Ledger!Release, Ledger!Claims
  <2>4. QED
    BY <2>3 DEF Ledger!Next
<1>5. ASSUME NEW w \in Workers, ExpireSeatRow(w)
      PROVE  Ledger!Next
  <2>0. PICK b \in BookingIds : b = work[w].booking
    BY <1>5 DEF ExpireSeatRow, Inv, WorkerKnows
  <2>1. bookings[b].status = "pending" /\ ReleaseWhere(bookings[b].seat)
    BY <1>5, <2>0 DEF ExpireSeatRow, Inv, WorkerKnows, DataInv, SeatFollowsBooking, ReleaseWhere
  <2>2. CommitBoth(b, "expired", "available")
    BY <1>5, <2>0, <2>1 DEF ExpireSeatRow
  <2>3. \E s \in Seats : Ledger!Release(s, b)
    BY <2>1, <2>2, EndIsRelease DEF Ledger!Release, Ledger!Claims, Active
  <2>4. QED
    BY <2>3 DEF Ledger!Next
<1>6. QED
  BY <1>1, <1>2, <1>3, <1>4, <1>5, OnlyFourCommits

\* The booking core implements the seat ledger: reserve, confirm, cancel and
\* expire, interleaved and interrupted in any way, look to an observer of the
\* seats like one Hold, Sell or Release at a time.
THEOREM BookingImplementsLedger == Spec => ImplementsLedger
<1>1. Init => Ledger!Init
  BY DEF Init, Ledger!Init, ActiveBookings
<1>2. Inv /\ [Next]_vars => [Ledger!Next]_(Ledger!ledgerVars)
  BY LedgerStep
<1>3. QED
  BY <1>1, <1>2, BookingInvariant, PTL DEF Spec, ImplementsLedger, Ledger!Spec

-----------------------------------------------------------------------------
(* What the ledger promises, proved of the ledger alone and inherited.     *)

\* The ledger's variables, as Booking implements them.
LedgerHolding == [s \in Seats |-> {b \in ActiveBookings(s) : bookings[b].status = "pending"}]
LedgerSold == [s \in Seats |-> {b \in ActiveBookings(s) : bookings[b].status = "confirmed"}]
LedgerIssued == {b \in BookingIds : bookings[b].status # "absent"}

LEMMA LedgerSteps ==
    ASSUME NEW s \in Seats, NEW b \in BookingIds
    PROVE  /\ \A t \in Seats : Ledger!Claims(t) = LedgerHolding[t] \cup LedgerSold[t]
           /\ \A t \in Seats : Ledger!Claims(t)' = LedgerHolding'[t] \cup LedgerSold'[t]
           /\ Ledger!Hold(s, b) =>
                /\ LedgerHolding[s] \cup LedgerSold[s] = {} /\ b \notin LedgerIssued
                /\ LedgerHolding' = [LedgerHolding EXCEPT ![s] = {b}] /\ LedgerSold' = LedgerSold
                /\ LedgerIssued' = LedgerIssued \cup {b}
           /\ Ledger!Sell(s, b) =>
                /\ b \in LedgerHolding[s] /\ LedgerIssued' = LedgerIssued
                /\ LedgerHolding' = [LedgerHolding EXCEPT ![s] = @ \ {b}]
                /\ LedgerSold' = [LedgerSold EXCEPT ![s] = @ \cup {b}]
           /\ Ledger!Release(s, b) =>
                /\ b \in LedgerHolding[s] \cup LedgerSold[s] /\ LedgerIssued' = LedgerIssued
                /\ LedgerHolding' = [LedgerHolding EXCEPT ![s] = @ \ {b}]
                /\ LedgerSold' = [LedgerSold EXCEPT ![s] = @ \ {b}]
BY DEF Ledger!Claims, Ledger!Hold, Ledger!Sell, Ledger!Release,
       LedgerHolding, LedgerSold, LedgerIssued

\* One claim for a seat, by a booking that exists, which holds or owns the seat.
LedgerInv ==
    \A s \in Seats :
        /\ Ledger!Claims(s) \subseteq LedgerIssued
        /\ \A a, b \in Ledger!Claims(s) : a = b
        /\ LedgerHolding[s] \cap LedgerSold[s] = {}

\* A seat goes from one booking to another only by way of being free, and an id that
\* was given out makes no claim again once its claim has ended.
LedgerHandover ==
    /\ \A s \in Seats : \/ Ledger!Claims(s) = {} \/ Ledger!Claims(s)' = {}
                        \/ Ledger!Claims(s)' = Ledger!Claims(s)
    /\ \A b \in LedgerIssued : \A s \in Seats :
           b \in Ledger!Claims(s)' => b \in Ledger!Claims(s)

LEMMA LedgerKeeps ==
    ASSUME LedgerInv, NEW s \in Seats, NEW b \in BookingIds,
           Ledger!Hold(s, b) \/ Ledger!Sell(s, b) \/ Ledger!Release(s, b)
    PROVE  LedgerInv' /\ LedgerHandover
<1> DEFINE h == LedgerHolding  o == LedgerSold  i == LedgerIssued
           h2 == LedgerHolding'  o2 == LedgerSold'  i2 == LedgerIssued'
<1>1. /\ \A t \in Seats : Ledger!Claims(t) = h[t] \cup o[t]
      /\ \A t \in Seats : Ledger!Claims(t)' = h2[t] \cup o2[t]
  BY LedgerSteps
<1>2. DOMAIN h = Seats /\ DOMAIN o = Seats
  BY DEF LedgerHolding, LedgerSold
<1>3. \A t \in Seats :
         /\ h[t] \cup o[t] \subseteq i /\ h[t] \cap o[t] = {}
         /\ \A x, y \in h[t] \cup o[t] : x = y
  BY <1>1 DEF LedgerInv
<1>4. \/ /\ h[s] \cup o[s] = {} /\ b \notin i /\ h2 = [h EXCEPT ![s] = {b}] /\ o2 = o /\ i2 = i \cup {b}
      \/ /\ b \in h[s] /\ i2 = i /\ h2 = [h EXCEPT ![s] = @ \ {b}] /\ o2 = [o EXCEPT ![s] = @ \cup {b}]
      \/ /\ b \in h[s] \cup o[s] /\ i2 = i
         /\ h2 = [h EXCEPT ![s] = @ \ {b}] /\ o2 = [o EXCEPT ![s] = @ \ {b}]
  BY LedgerSteps
<1> HIDE DEF h, o, i, h2, o2, i2
<1>5. \A t \in Seats : t # s => h2[t] = h[t] /\ o2[t] = o[t]
  BY <1>2, <1>4
<1>6. \/ h[s] = {} /\ o[s] = {} /\ b \notin i /\ h2[s] = {b} /\ o2[s] = {} /\ i2 = i \cup {b}
      \/ h[s] = {b} /\ o[s] = {} /\ h2[s] = {} /\ o2[s] = {b} /\ i2 = i
      \/ h[s] \cup o[s] = {b} /\ h2[s] = {} /\ o2[s] = {} /\ i2 = i
  BY <1>2, <1>3, <1>4
<1>7. \A t \in Seats :
         /\ h2[t] \cup o2[t] \subseteq i2 /\ h2[t] \cap o2[t] = {}
         /\ \A x, y \in h2[t] \cup o2[t] : x = y
         /\ h[t] \cup o[t] = {} \/ h2[t] \cup o2[t] = {} \/ h2[t] \cup o2[t] = h[t] \cup o[t]
         /\ \A x \in i : x \in h2[t] \cup o2[t] => x \in h[t] \cup o[t]
  <2> TAKE t \in Seats
  <2>1. CASE t = s
    BY <1>3, <1>6, <2>1
  <2>2. CASE t # s
    BY <1>3, <1>5, <1>6, <2>2
  <2> QED
    BY <2>1, <2>2
<1>8. LedgerInv'
  <2>1. \A t \in Seats :
           /\ Ledger!Claims(t)' \subseteq i2 /\ h2[t] \cap o2[t] = {}
           /\ \A x, y \in Ledger!Claims(t)' : x = y
    BY <1>1, <1>7
  <2> QED
    BY <2>1 DEF LedgerInv, h2, o2, i2
<1>9. LedgerHandover
  <2>1. \A t \in Seats : \/ Ledger!Claims(t) = {} \/ Ledger!Claims(t)' = {}
                        \/ Ledger!Claims(t)' = Ledger!Claims(t)
    <3> TAKE t \in Seats
    <3> DEFINE c == Ledger!Claims(t)  c2 == Ledger!Claims(t)'  u == h[t] \cup o[t]  u2 == h2[t] \cup o2[t]
    <3>1. c = u /\ c2 = u2
      BY <1>1
    <3>2. u = {} \/ u2 = {} \/ u2 = u
      BY <1>7
    <3> HIDE DEF c, c2, u, u2
    <3>3. c = {} \/ c2 = {} \/ c2 = c
      BY <3>1, <3>2
    <3> QED
      BY <3>3 DEF c, c2
  <2>2. \A x \in i : \A t \in Seats : x \in Ledger!Claims(t)' => x \in Ledger!Claims(t)
    BY <1>1, <1>7
  <2> QED
    BY <2>1, <2>2 DEF LedgerHandover, i
<1> QED
  BY <1>8, <1>9

\* A seat passes from one booking to the next only after it was released.
SeatsChangeHandsFree == [][LedgerHandover]_(Ledger!ledgerVars)

\* The ledger's own promises: a seat has at most one claim, it changes hands only by way
\* of being free, and no booking comes back to a seat it lost.
THEOREM LedgerPromises == ImplementsLedger => []LedgerInv /\ SeatsChangeHandsFree
<1>1. Ledger!Init => LedgerInv
  BY DEF Ledger!Init, Ledger!Claims, LedgerInv, LedgerHolding, LedgerSold
<1>2. LedgerInv /\ [Ledger!Next]_(Ledger!ledgerVars) => LedgerInv' /\ [LedgerHandover]_(Ledger!ledgerVars)
  <2> SUFFICES ASSUME LedgerInv, [Ledger!Next]_(Ledger!ledgerVars)
               PROVE  LedgerInv' /\ [LedgerHandover]_(Ledger!ledgerVars)
    OBVIOUS
  <2>1. CASE Ledger!Next
    BY <2>1, LedgerKeeps DEF Ledger!Next
  <2>2. CASE UNCHANGED Ledger!ledgerVars
    <3>1. LedgerHolding' = LedgerHolding /\ LedgerSold' = LedgerSold /\ LedgerIssued' = LedgerIssued
      BY <2>2 DEF Ledger!ledgerVars, LedgerHolding, LedgerSold, LedgerIssued
    <3>2. \A t \in Seats : Ledger!Claims(t)' = Ledger!Claims(t)
      BY <2>2 DEF Ledger!ledgerVars, Ledger!Claims
    <3> QED
      BY <2>2, <3>1, <3>2 DEF LedgerInv
  <2> QED
    BY <2>1, <2>2
<1> QED
  BY <1>1, <1>2, PTL DEF ImplementsLedger, Ledger!Spec, SeatsChangeHandsFree

\* They hold of reserve, confirm, cancel and expireHold, however their statements
\* interleave: this is what the refinement is for.
THEOREM SeatsChangeHands == Spec => []LedgerInv /\ SeatsChangeHandsFree
BY BookingImplementsLedger, LedgerPromises, PTL

-----------------------------------------------------------------------------
\* Whoever confirms or cancels a booking owns it, although the ownership read
\* and the transaction that acts on it are separate steps.
THEOREM OwnersDecide == Spec => OwnerDecides
<1>1. Inv /\ [Next]_vars => OwnerStep
  <2> SUFFICES ASSUME Inv, [Next]_vars, NEW c \in BookingIds, bookings'[c].status # bookings[c].status,
                      bookings'[c].status \in {"confirmed", "cancelled"}
               PROVE  \E r \in Requests : req[r].booking = c /\ req[r].user = bookings[c].user
    BY DEF OwnerStep
  <2>1. ASSUME NEW r \in Requests, NEW b \in BookingIds, InsertBooking(r, b) PROVE FALSE
    <3> DEFINE row == [status |-> "pending", seat |-> req[r].seat, user |-> req[r].user]
    <3>1. row.status = "pending" /\ bookings' = [bookings EXCEPT ![b] = row]
      BY <2>1 DEF InsertBooking
    <3> HIDE DEF row
    <3>2. QED
      BY <3>1 DEF Inv, TypeOK
  <2>2. ASSUME NEW b \in BookingIds, NEW status \in BookingStatus, NEW seatStatus \in SeatStatus,
               bookings[b].seat \in Seats, CommitBoth(b, status, seatStatus)
        PROVE  c = b /\ status \in {"confirmed", "cancelled"}
    BY <2>2, CommitEffect DEF Inv
  <2>3. ASSUME NEW r \in Requests, ConfirmSeatRow(r)
        PROVE  req[r].booking = c /\ req[r].user = bookings[c].user
    <3>0. PICK b \in BookingIds : b = req[r].booking
      BY <2>3 DEF ConfirmSeatRow, Inv, Knows
    <3>1. /\ b = req[r].booking /\ bookings[b].user = req[r].user
          /\ bookings[b].seat \in Seats
          /\ CommitBoth(b, "confirmed", "booked")
      BY <2>3, <3>0 DEF ConfirmSeatRow, Inv, Knows, DataInv, RowsFilled, SeatFollowsBooking, ConfirmSeatWhere
    <3>2. QED
      BY <2>2, <3>1 DEF BookingStatus, SeatStatus
  <2>4. ASSUME NEW r \in Requests, CancelSeatRow(r)
        PROVE  req[r].booking = c /\ req[r].user = bookings[c].user
    <3>0. PICK b \in BookingIds : b = req[r].booking
      BY <2>4 DEF CancelSeatRow, Inv, Knows
    <3>1. /\ b = req[r].booking /\ bookings[b].user = req[r].user
          /\ bookings[b].seat \in Seats
          /\ CommitBoth(b, "cancelled", "available")
      BY <2>4, <3>0 DEF CancelSeatRow, Inv, Knows, DataInv, RowsFilled, SeatFollowsBooking,
                  ReleaseHeldOrBookedWhere, Active
    <3>2. QED
      BY <2>2, <3>1 DEF BookingStatus, SeatStatus
  <2>5. ASSUME NEW w \in Workers, ExpireSeatRow(w) PROVE FALSE
    <3>0. PICK b \in BookingIds : b = work[w].booking
      BY <2>5 DEF ExpireSeatRow, Inv, WorkerKnows
    <3>1. /\ b = work[w].booking /\ bookings[b].seat \in Seats
          /\ CommitBoth(b, "expired", "available")
      BY <2>5, <3>0 DEF ExpireSeatRow, Inv, WorkerKnows, DataInv, RowsFilled, SeatFollowsBooking, ReleaseWhere
    <3>2. QED
      BY <2>2, <3>1 DEF BookingStatus, SeatStatus
  <2>6. QED
    BY <2>1, <2>3, <2>4, <2>5, OnlyFourCommits
<1>2. QED
  BY <1>1, BookingInvariant, PTL DEF Spec, OwnerDecides

-----------------------------------------------------------------------------
(***************************************************************************)
(* Proofs about what follows the commit in Booking: the events published   *)
(* to Kafka and the hold-expiry job, for any number of seats, users,       *)
(* bookings, requests and workers.                                         *)
(*                                                                         *)
(* EventsMatchHistory is not inductive: whether a publish is truthful      *)
(* depends on the commit its request made several steps earlier.  EventInv *)
(* adds the debt of every request between its commit and its answer: a     *)
(* request that owes an event made the booking reach that point, nobody    *)
(* else owes the same event, and every copy sent so far is its own.        *)
(***************************************************************************)

\* A program point belongs to one use case.
OpFits(r) ==
    /\ req[r].pc \in {"reserve_update", "reserve_insert", "reserve_schedule"} => req[r].op = "reserve"
    /\ req[r].pc \in {"confirm_booking", "confirm_seat", "confirm_reread"} => req[r].op = "confirm"
    /\ req[r].pc \in {"cancel_booking", "cancel_seat", "cancel_reread", "get_job", "remove_job"} =>
         req[r].op = "cancel"
    /\ req[r].pc # "publish" => req[r].sends = 0

\* Request r has committed and is still to publish, or publishing, event e of booking b.
AfterCommit == {"reserve_schedule", "get_job", "remove_job", "publish"}
Owes(r, b, e) == req[r].pc \in AfterCommit /\ req[r].booking = b /\ EventOf(req[r].op) = e

\* Booking b has been through what event e tells.
Reached(b, e) ==
    /\ bookings[b].status # "absent"
    /\ e = "confirmed" => bookings[b].status \in {"confirmed", "cancelled"}
    /\ e = "cancelled" => bookings[b].status = "cancelled"

ToldByOne(b, e) ==
    /\ published[b][e] <= MaxSends
    /\ published[b][e] > 0 => Reached(b, e)
    /\ \A r \in Requests : Owes(r, b, e) => Reached(b, e) /\ published[b][e] = req[r].sends
    /\ \A q, r \in Requests : Owes(q, b, e) /\ Owes(r, b, e) => q = r

EventInv == /\ \A r \in Requests : OpFits(r)
            /\ \A b \in BookingIds, e \in Events : ToldByOne(b, e)

-----------------------------------------------------------------------------
(* The events.                                                              *)

\* What has been reached stays reached, for rows only move forward.
LEMMA ReachedStays ==
    ASSUME Forward, NEW b \in BookingIds, NEW e \in Events, Reached(b, e)
    PROVE  Reached(b, e)'
BY DEF Forward, NextStatus, Reached

\* A step in which only request r moves and nothing is published keeps
\* EventInv if every debt it creates is for a point the booking reaches in it.
LEMMA DebtStep ==
    ASSUME Inv, EventInv, Forward, NEW r \in Requests, OpFits(r)', UNCHANGED published,
           \A q \in Requests \ {r} : req'[q] = req[q],
           \A b \in BookingIds, e \in Events :
               Owes(r, b, e)' => \/ Owes(r, b, e) /\ req'[r].sends = req[r].sends
                                 \/ ~Reached(b, e) /\ Reached(b, e)' /\ req'[r].sends = 0
    PROVE  EventInv'
<1>1. \A q \in Requests : OpFits(q)'
  BY DEF EventInv, OpFits
<1>2. ASSUME NEW b \in BookingIds, NEW e \in Events PROVE ToldByOne(b, e)'
  <2>1. /\ published[b][e] \in Nat /\ published'[b][e] = published[b][e]
        /\ ToldByOne(b, e) /\ (Reached(b, e) => Reached(b, e)')
    BY ReachedStays DEF EventInv, Inv, TypeOK
  <2>2. \A q \in Requests \ {r} : Owes(q, b, e)' <=> Owes(q, b, e)
    BY DEF Owes
  <2>3. CASE Owes(r, b, e)' /\ ~Owes(r, b, e)
    <3>1. ~Reached(b, e) /\ Reached(b, e)' /\ req'[r].sends = 0
      BY <2>3
    <3>2. published[b][e] = 0 /\ \A q \in Requests : ~Owes(q, b, e)
      BY <2>1, <3>1 DEF ToldByOne
    <3>3. \A q \in Requests : Owes(q, b, e)' => q = r
      BY <2>2, <3>2
    <3>4. QED
      BY <2>1, <3>1, <3>2, <3>3 DEF ToldByOne
  <2>4. CASE Owes(r, b, e)' => Owes(r, b, e)
    <3>1. \A q \in Requests : Owes(q, b, e)' => Owes(q, b, e) /\ req'[q].sends = req[q].sends
      <4>1. Owes(r, b, e)' => req'[r].sends = req[r].sends
        BY <2>1, <2>4 DEF ToldByOne
      <4>2. QED
        BY <2>2, <2>4, <4>1
    <3>2. QED
      BY <2>1, <3>1 DEF ToldByOne
  <2>5. QED
    BY <2>3, <2>4
<1>3. QED
  BY <1>1, <1>2 DEF EventInv

\* Being answered creates no debt.
LEMMA AnsweredOwesNothing ==
    ASSUME Inv, EventInv, Forward, NEW r \in Requests, Respond(r), UNCHANGED published
    PROVE  EventInv'
<1>1. /\ req'[r].pc = "idle" /\ req'[r].sends = 0
      /\ \A q \in Requests \ {r} : req'[q] = req[q]
  BY RespondEffect DEF Inv
<1>2. OpFits(r)' /\ \A b \in BookingIds, e \in Events : ~Owes(r, b, e)'
  BY <1>1 DEF OpFits, Owes, AfterCommit
<1>3. QED
  BY <1>1, <1>2, DebtStep

\* Neither does a step from one program point of a use case to another before
\* the commit or after it.
LEMMA MoveOwesNothingNew ==
    ASSUME Inv, EventInv, Forward, NEW r \in Requests, NEW pc \in RequestPC, Goto(r, pc), UNCHANGED published,
           pc \in AfterCommit => req[r].pc \in AfterCommit, req[r].pc # "publish",
           pc \in {"reserve_insert", "reserve_schedule"} => req[r].op = "reserve",
           pc \in {"confirm_seat", "confirm_reread"} => req[r].op = "confirm",
           pc \in {"cancel_seat", "cancel_reread", "get_job", "remove_job"} => req[r].op = "cancel",
           pc \notin {"reserve_update", "confirm_booking", "cancel_booking"}
    PROVE  EventInv'
<1>1. /\ req'[r].pc = pc /\ req'[r].op = req[r].op /\ req'[r].booking = req[r].booking
      /\ req'[r].sends = req[r].sends
      /\ \A q \in Requests \ {r} : req'[q] = req[q]
  BY GotoEffect DEF Inv
<1>2. OpFits(r)'
  BY <1>1 DEF OpFits, EventInv
<1>3. \A b \in BookingIds, e \in Events :
        Owes(r, b, e)' => Owes(r, b, e) /\ req'[r].sends = req[r].sends
  BY <1>1 DEF Owes
<1>4. QED
  BY <1>1, <1>2, <1>3, DebtStep

LEMMA StartKeepsEvents ==
    ASSUME Inv, EventInv, Forward, NEW r \in Requests, Client(r)
    PROVE  EventInv'
<1>1. ASSUME NEW op, NEW u, NEW s, NEW b, NEW pc, Begin(r, op, u, s, b, pc), UNCHANGED published,
             <<op, pc>> \in {<<"reserve", "reserve_update">>, <<"confirm", "confirm_booking">>,
                             <<"cancel", "cancel_booking">>}
      PROVE  EventInv'
  <2>1. /\ req'[r].pc = pc /\ req'[r].op = op /\ req'[r].sends = 0
        /\ \A q \in Requests \ {r} : req'[q] = req[q]
    BY <1>1 DEF Begin, Inv, TypeOK
  <2>2. OpFits(r)' /\ \A c \in BookingIds, e \in Events : ~Owes(r, c, e)'
    BY <1>1, <2>1 DEF OpFits, Owes, AfterCommit
  <2>3. QED
    BY <1>1, <2>1, <2>2, DebtStep
<1>2. ASSUME NEW u \in Users, NEW s \in Seats, StartReserve(r, u, s) PROVE EventInv'
  BY <1>1, <1>2 DEF StartReserve
<1>3. ASSUME NEW u \in Users, NEW b \in BookingIds, StartConfirm(r, u, b) PROVE EventInv'
  BY <1>1, <1>3 DEF StartConfirm
<1>4. ASSUME NEW u \in Users, NEW b \in BookingIds, StartCancel(r, u, b) PROVE EventInv'
  BY <1>1, <1>4 DEF StartCancel
<1>5. QED
  BY <1>2, <1>3, <1>4 DEF Client

\* The commit of a reservation: the row was absent.
LEMMA InsertKeepsEvents ==
    ASSUME Inv, EventInv, Forward, NEW r \in Requests, NEW b \in BookingIds, InsertBooking(r, b)
    PROVE  EventInv'
<1>1. /\ req[r].pc = "reserve_insert" /\ req[r].op = "reserve" /\ req[r].sends = 0
      /\ bookings[b].status = "absent"
  BY DEF InsertBooking, EventInv, OpFits
<1>2. /\ req'[r].pc = "reserve_schedule" /\ req'[r].booking = b /\ req'[r].op = "reserve"
      /\ req'[r].sends = 0
      /\ \A q \in Requests \ {r} : req'[q] = req[q]
  BY <1>1 DEF InsertBooking, Inv, TypeOK, RequestStates
<1>3. bookings'[b].status = "pending"
  BY DEF InsertBooking, Inv, TypeOK
<1>4. OpFits(r)'
  BY <1>2 DEF OpFits
<1>5. \A c \in BookingIds, e \in Events : Owes(r, c, e)' => c = b /\ e = "created"
  BY <1>2 DEF Owes, EventOf
<1>6. ~Reached(b, "created") /\ Reached(b, "created")'
  BY <1>1, <1>3 DEF Reached
<1>7. QED
  BY <1>2, <1>4, <1>5, <1>6, DebtStep DEF InsertBooking

\* The commit of a confirmation: the locked row was pending.
LEMMA ConfirmKeepsEvents ==
    ASSUME Inv, EventInv, Forward, NEW r \in Requests, ConfirmSeatRow(r)
    PROVE  EventInv'
<1> DEFINE b == req[r].booking
<1>1. /\ req[r].pc = "confirm_seat" /\ req[r].op = "confirm" /\ req[r].sends = 0 /\ b \in BookingIds
      /\ bookings[b].status = "pending" /\ bookings[b].seat \in Seats /\ UNCHANGED published
  BY DEF ConfirmSeatRow, EventInv, OpFits, Inv, Knows, DataInv, RowsFilled
<1>2. CASE CommitBoth(b, "confirmed", "booked") /\ Goto(r, "publish")
  <2>1. bookings'[b].status = "confirmed"
    BY <1>1, <1>2, CommitEffect DEF Inv, BookingStatus, SeatStatus
  <2>2. /\ req'[r].pc = "publish" /\ req'[r].booking = b /\ req'[r].op = "confirm" /\ req'[r].sends = 0
        /\ \A q \in Requests \ {r} : req'[q] = req[q]
    BY <1>1, <1>2, GotoEffect DEF Inv, RequestPC
  <2>3. OpFits(r)'
    BY <2>2 DEF OpFits
  <2>4. \A c \in BookingIds, e \in Events : Owes(r, c, e)' => c = b /\ e = "confirmed"
    BY <2>2 DEF Owes, EventOf
  <2>5. ~Reached(b, "confirmed") /\ Reached(b, "confirmed")'
    BY <1>1, <2>1, <2>2 DEF Reached
  <2>6. QED
    BY <1>1, <2>2, <2>3, <2>4, <2>5, DebtStep
<1>3. CASE StateDrift(r, b)
  BY <1>1, <1>3, AnsweredOwesNothing DEF StateDrift
<1>4. QED
  BY <1>2, <1>3 DEF ConfirmSeatRow

\* The commit of a cancellation: the locked row was pending or confirmed.
LEMMA CancelKeepsEvents ==
    ASSUME Inv, EventInv, Forward, NEW r \in Requests, CancelSeatRow(r)
    PROVE  EventInv'
<1> DEFINE b == req[r].booking
<1>1. /\ req[r].pc = "cancel_seat" /\ req[r].op = "cancel" /\ req[r].sends = 0 /\ b \in BookingIds
      /\ Active(b) /\ bookings[b].seat \in Seats /\ UNCHANGED published
  BY DEF CancelSeatRow, EventInv, OpFits, Inv, Knows, DataInv, RowsFilled, Active
<1>2. CASE CommitBoth(b, "cancelled", "available") /\ Goto(r, "get_job")
  <2>1. bookings'[b].status = "cancelled"
    BY <1>1, <1>2, CommitEffect DEF Inv, BookingStatus, SeatStatus
  <2>2. /\ req'[r].pc = "get_job" /\ req'[r].booking = b /\ req'[r].op = "cancel" /\ req'[r].sends = 0
        /\ \A q \in Requests \ {r} : req'[q] = req[q]
    BY <1>1, <1>2, GotoEffect DEF Inv, RequestPC
  <2>3. OpFits(r)'
    BY <2>2 DEF OpFits
  <2>4. \A c \in BookingIds, e \in Events : Owes(r, c, e)' => c = b /\ e = "cancelled"
    BY <2>2 DEF Owes, EventOf
  <2>5. ~Reached(b, "cancelled") /\ Reached(b, "cancelled")'
    BY <1>1, <2>1, <2>2 DEF Reached, Active
  <2>6. QED
    BY <1>1, <2>2, <2>3, <2>4, <2>5, DebtStep
<1>3. CASE StateDrift(r, b)
  BY <1>1, <1>3, AnsweredOwesNothing DEF StateDrift
<1>4. QED
  BY <1>2, <1>3 DEF CancelSeatRow

\* A send is counted once on the topic and once by its sender, the only one that owes it.
LEMMA PublishKeepsEvents ==
    ASSUME Inv, EventInv, Forward, NEW r \in Requests, Publish(r)
    PROVE  EventInv'
<1> DEFINE b == req[r].booking
           e == EventOf(req[r].op)
<1>1. /\ b \in BookingIds /\ e \in Events /\ req[r].sends \in Nat /\ req[r].sends < MaxSends
      /\ \A q \in Requests \ {r} : req'[q] = req[q]
      /\ req'[r].pc = "publish" /\ req'[r].op = req[r].op /\ req'[r].booking = b
      /\ req'[r].sends = req[r].sends + 1
      /\ published'[b][e] = published[b][e] + 1
      /\ \A c \in BookingIds, f \in Events : c # b \/ f # e => published'[c][f] = published[c][f]
  BY PublishEffect
<1>2. req[r].pc = "publish" /\ Owes(r, b, e)
  BY DEF Publish, Owes, AfterCommit
<1>3. \A q \in Requests : OpFits(q)'
  BY <1>1 DEF EventInv, OpFits
<1>4. \A q \in Requests, c \in BookingIds, f \in Events : Owes(q, c, f)' <=> Owes(q, c, f)
  BY <1>1, <1>2 DEF Owes, AfterCommit
<1>5. \A c \in BookingIds, f \in Events : Owes(r, c, f) => c = b /\ f = e
  BY DEF Owes
<1> HIDE DEF b, e
<1>6. /\ published[b][e] = req[r].sends /\ Reached(b, e)
      /\ \A q \in Requests : Owes(q, b, e) => q = r
  BY <1>1, <1>2 DEF EventInv, ToldByOne
<1>7. ASSUME NEW c \in BookingIds, NEW f \in Events PROVE ToldByOne(c, f)'
  <2>1. ToldByOne(c, f) /\ (Reached(c, f) => Reached(c, f)')
    BY ReachedStays DEF EventInv
  <2>2. CASE c = b /\ f = e
    <3>1. /\ published'[c][f] = req'[r].sends /\ published'[c][f] <= MaxSends
      BY <1>1, <1>6, <2>2, BookingAssumption
    <3>2. Reached(c, f)' /\ \A q \in Requests : Owes(q, c, f)' => q = r
      BY <1>4, <1>6, <2>1, <2>2
    <3>3. QED
      BY <3>1, <3>2 DEF ToldByOne
  <2>3. CASE c # b \/ f # e
    <3>1. \A q \in Requests : Owes(q, c, f)' => q # r /\ Owes(q, c, f)
      BY <1>4, <1>5, <2>3
    <3>2. published'[c][f] = published[c][f]
      BY <1>1, <2>3
    <3>3. QED
      BY <1>1, <2>1, <3>1, <3>2 DEF ToldByOne
  <2>4. QED
    BY <2>2, <2>3
<1>8. QED
  BY <1>3, <1>7 DEF EventInv

\* The other steps of a request.
LEMMA RequestKeepsEvents ==
    ASSUME Inv, EventInv, Forward, NEW r \in Requests, RequestStep(r)
    PROVE  EventInv'
<1>1. OpFits(r)
  BY DEF EventInv
<1>2. CASE ReserveSeatRow(r)
  BY <1>1, <1>2, MoveOwesNothingNew, AnsweredOwesNothing DEF ReserveSeatRow, OpFits, RequestPC, AfterCommit
<1>3. CASE ScheduleHoldExpiry(r)
  BY <1>1, <1>3, MoveOwesNothingNew DEF ScheduleHoldExpiry, OpFits, RequestPC, AfterCommit
<1>4. CASE ConfirmBookingRow(r)
  BY <1>1, <1>4, MoveOwesNothingNew DEF ConfirmBookingRow, OpFits, RequestPC, AfterCommit
<1>5. CASE CancelBookingRow(r)
  BY <1>1, <1>5, MoveOwesNothingNew DEF CancelBookingRow, OpFits, RequestPC, AfterCommit
<1>6. CASE Reread(r)
  BY <1>6, AnsweredOwesNothing DEF Reread
<1>7. CASE GetJob(r)
  BY <1>1, <1>7, MoveOwesNothingNew DEF GetJob, OpFits, RequestPC, AfterCommit
<1>8. CASE RemoveJob(r)
  BY <1>1, <1>8, MoveOwesNothingNew DEF RemoveJob, OpFits, RequestPC, AfterCommit
<1>9. CASE PublishBookingEvent(r)
  BY <1>9, AnsweredOwesNothing DEF PublishBookingEvent
<1>10. QED
  BY <1>2, <1>3, <1>4, <1>5, <1>6, <1>7, <1>8, <1>9, InsertKeepsEvents, ConfirmKeepsEvents,
     CancelKeepsEvents, PublishKeepsEvents DEF RequestStep

\* A step that neither moves a request nor publishes.
LEMMA BystanderKeepsEvents ==
    ASSUME Inv, EventInv, Forward, UNCHANGED <<req, published>>
    PROVE  EventInv'
<1>1. \A r \in Requests : OpFits(r)'
  BY DEF EventInv, OpFits
<1>2. ASSUME NEW b \in BookingIds, NEW e \in Events PROVE ToldByOne(b, e)'
  <2>1. ToldByOne(b, e) /\ (Reached(b, e) => Reached(b, e)')
    BY ReachedStays DEF EventInv
  <2>2. \A r \in Requests : Owes(r, b, e)' <=> Owes(r, b, e)
    BY DEF Owes
  <2>3. QED
    BY <2>1, <2>2 DEF ToldByOne
<1>3. QED
  BY <1>1, <1>2 DEF EventInv

LEMMA NextKeepsEvents == Inv /\ EventInv /\ [Next]_vars => EventInv'
<1> SUFFICES ASSUME Inv, EventInv, [Next]_vars PROVE EventInv'
  OBVIOUS
<1>1. Forward
  BY NextInv
<1>2. ASSUME NEW r \in Requests, Client(r) \/ RequestStep(r) \/ Die(r) PROVE EventInv'
  BY <1>1, <1>2, StartKeepsEvents, RequestKeepsEvents, AnsweredOwesNothing DEF Die
<1>3. ASSUME NEW w \in Workers, WorkerStep(w) \/ FailAttempt(w) \/ WorkerCrash(w) PROVE EventInv'
  BY <1>1, <1>3, BystanderKeepsEvents DEF WorkerStep, ExpireBookingRow, ExpireSeatRow, CompleteJob,
                                       FailAttempt, WorkerCrash
<1>4. ASSUME NEW w \in Workers, NEW b \in BookingIds, TakeJob(w, b) PROVE EventInv'
  BY <1>1, <1>4, BystanderKeepsEvents DEF TakeJob
<1>5. ASSUME NEW b \in BookingIds, StallJob(b) PROVE EventInv'
  BY <1>1, <1>5, BystanderKeepsEvents DEF StallJob
<1>6. CASE UNCHANGED vars
  BY <1>1, <1>6, BystanderKeepsEvents DEF vars
<1>7. QED
  BY <1>2, <1>3, <1>4, <1>5, <1>6 DEF Next

LEMMA InitEvents == Init => EventInv
BY BookingAssumption DEF Init, EventInv, OpFits, ToldByOne, Owes, AfterCommit, Idle

-----------------------------------------------------------------------------
(* The hold-expiry job.                                                     *)

\* Request r is about to schedule the job of booking b.
Awaits(r, b) == req[r].pc = "reserve_schedule" /\ req[r].booking = b

Live(b) == job[b].state \in {"delayed", "active"}

\* The job of booking b gave up, and is on record or was driven out by later failures.
OnRecord(b) == b \in exhausted /\ (b \in Failed \/ Cardinality(exhausted) > KeepFailed)

Covered(b) == Live(b) \/ (\E r \in Requests : Awaits(r, b)) \/ b \in unscheduled \/ OnRecord(b)

\* A job is among the failed ones only after it used up its attempts or stalls.
RecordInv == IsFiniteSet(exhausted) /\ Failed \subseteq exhausted

NoNewHold == \A b \in BookingIds : bookings'[b].status = "pending" => bookings[b].status = "pending"

LEMMA GuardIsCover == PendingHoldIsGuarded <=> \A b \in BookingIds : bookings[b].status = "pending" => Covered(b)
BY DEF PendingHoldIsGuarded, Covered, Live, OnRecord, Awaits

LEMMA CoverIsGuard ==
    PendingHoldIsGuarded' <=> \A b \in BookingIds : bookings'[b].status = "pending" => Covered(b)'
BY DEF PendingHoldIsGuarded, Covered, Live, OnRecord, Awaits

\* A request that is not about to schedule a job moves.
LEMMA MoveKeepsCover ==
    ASSUME PendingHoldIsGuarded, NEW r \in Requests, req[r].pc # "reserve_schedule", NoNewHold,
           \A q \in Requests \ {r} : req'[q] = req[q], UNCHANGED <<job, unscheduled, exhausted>>
    PROVE  PendingHoldIsGuarded'
<1>1. \A q \in Requests, b \in BookingIds : Awaits(q, b) => Awaits(q, b)'
  BY DEF Awaits
<1>2. \A b \in BookingIds : Covered(b) => Covered(b)'
  BY <1>1 DEF Covered, Live, OnRecord, Failed
<1>3. QED
  BY <1>2, CoverIsGuard, GuardIsCover DEF NoNewHold

\* The queue moves, and takes only jobs away whose booking is settled or on record.
LEMMA QueueKeepsCover ==
    ASSUME PendingHoldIsGuarded, NoNewHold, UNCHANGED <<req, unscheduled>>,
           \A b \in BookingIds : bookings'[b].status = "pending" /\ (Live(b) \/ OnRecord(b)) =>
                                   Live(b)' \/ OnRecord(b)'
    PROVE  PendingHoldIsGuarded'
<1>1. ASSUME NEW b \in BookingIds, bookings'[b].status = "pending" PROVE Covered(b)'
  <2>1. Covered(b)
    BY <1>1, GuardIsCover DEF NoNewHold
  <2>2. QED
    BY <1>1, <2>1 DEF Covered, Awaits
<1>2. QED
  BY <1>1, CoverIsGuard

\* A job that is left alone stays what it was to its booking.
LEMMA SameJobSameCover ==
    ASSUME NEW b \in BookingIds, job'[b] = job[b], UNCHANGED exhausted
    PROVE  (Live(b)' <=> Live(b)) /\ (OnRecord(b)' <=> OnRecord(b))
BY DEF Live, OnRecord, Failed

\* A step that adds no failed job and forgets none that gave up.
LEMMA QuietRecord ==
    ASSUME RecordInv, UNCHANGED exhausted,
           \A b \in BookingIds : job'[b] = job[b] \/ job'[b].state # "failed"
    PROVE  RecordInv'
BY DEF RecordInv, Failed

\* A requeued job goes on or is on record, and what it drives out leaves more
\* than KeepFailed jobs behind that gave up.
LEMMA RequeueKeepsRecord ==
    ASSUME Inv, Forward, RecordInv, NEW b \in BookingIds, job[b].state = "active", NEW new \in JobStates,
           new.state \in {"delayed", "failed"},
           new.state = "delayed" => new.attempts < MaxAttempts /\ new.stalls <= MaxStalls,
           Requeue(b, new)
    PROVE  RecordInv' /\ \A c \in BookingIds : Live(c) \/ OnRecord(c) => Live(c)' \/ OnRecord(c)'
<1>1. /\ exhausted' = IF new.state = "failed" THEN exhausted \cup {b} ELSE exhausted
      /\ job'[b] = new
      /\ \A c \in BookingIds \ {b} :
            \/ job'[c] = job[c]
            \/ /\ c \in Failed /\ job'[c] = NoJob
               /\ new.state = "failed" /\ Cardinality(Failed) >= KeepFailed
  BY RequeueEffect
<1>2. IsFiniteSet(exhausted) /\ Failed \subseteq exhausted
  BY DEF RecordInv
<1>3. IsFiniteSet(exhausted') /\ exhausted \subseteq exhausted'
  <2>1. IsFiniteSet(exhausted \cup {b})
    BY <1>2, FS_AddElement
  <2>2. QED
    BY <1>1, <1>2, <2>1
<1>4. Failed' \subseteq exhausted'
  <2>1. ASSUME NEW c \in BookingIds, job'[c].state = "failed" PROVE c \in exhausted'
    <3>1. CASE c = b
      BY <1>1, <2>1, <3>1
    <3>2. CASE c # b
      <4>1. job[c].state = "failed"
        BY <1>1, <2>1, <3>2 DEF Failed, NoJob
      <4>2. QED
        BY <1>2, <1>3, <4>1 DEF Failed
    <3>3. QED
      BY <3>1, <3>2
  <2>2. QED
    BY <2>1 DEF Failed
<1>5. Cardinality(exhausted) \in Nat /\ Cardinality(exhausted') \in Nat
      /\ Cardinality(exhausted) <= Cardinality(exhausted')
  BY <1>2, <1>3, FS_CardinalityType, FS_Subset
<1>6. ASSUME Cardinality(Failed) >= KeepFailed, new.state = "failed"
      PROVE  Cardinality(exhausted') > KeepFailed
  <2>1. b \notin Failed /\ IsFiniteSet(Failed)
    BY <1>2, FS_Subset DEF Failed
  <2>2. /\ IsFiniteSet(Failed \cup {b}) /\ Cardinality(Failed \cup {b}) = Cardinality(Failed) + 1
    BY <2>1, FS_AddElement
  <2>3. Failed \cup {b} \subseteq exhausted'
    BY <1>1, <1>2, <1>6
  <2>4. Cardinality(Failed \cup {b}) <= Cardinality(exhausted')
    BY <1>3, <2>3, FS_Subset
  <2>5. Cardinality(Failed) \in Nat /\ KeepFailed \in Nat
    BY <2>1, FS_CardinalityType, BookingAssumption
  <2>6. QED
    BY <1>5, <1>6, <2>2, <2>4, <2>5
<1>7. ASSUME NEW c \in BookingIds, Live(c) \/ OnRecord(c) PROVE Live(c)' \/ OnRecord(c)'
  <2>1. CASE c = b
    BY <1>1, <2>1 DEF Live, OnRecord, Failed
  <2>2. CASE c # b /\ job'[c] = job[c]
    <3>1. Live(c) => Live(c)'
      BY <2>2 DEF Live
    <3>2. OnRecord(c) => OnRecord(c)'
      BY <1>3, <1>5, <2>2, BookingAssumption DEF OnRecord, Failed
    <3>3. QED
      BY <1>7, <3>1, <3>2
  <2>3. CASE /\ c \in Failed /\ new.state = "failed" /\ Cardinality(Failed) >= KeepFailed
    BY <1>2, <1>3, <1>6, <2>3 DEF OnRecord
  <2>4. QED
    BY <1>1, <2>1, <2>2, <2>3
<1>8. QED
  BY <1>3, <1>4, <1>7 DEF RecordInv

\* Committing confirmed, cancelled or expired rows makes no new hold.
LEMMA CommitMakesNoHold ==
    ASSUME Inv, NEW b \in BookingIds, bookings[b].seat \in Seats,
           NEW status \in BookingStatus \ {"pending"}, NEW seatStatus \in SeatStatus,
           CommitBoth(b, status, seatStatus)
    PROVE  NoNewHold /\ bookings'[b].status # "pending"
BY CommitEffect DEF Inv, NoNewHold

LEMMA RequestKeepsCover ==
    ASSUME Inv, EventInv, RecordInv, PendingHoldIsGuarded, NEW r \in Requests, RequestStep(r)
    PROVE  PendingHoldIsGuarded'
<1>1. ASSUME NEW pc \in RequestPC, Goto(r, pc) PROVE \A q \in Requests \ {r} : req'[q] = req[q]
  BY <1>1, GotoEffect DEF Inv
<1>2. Respond(r) => \A q \in Requests \ {r} : req'[q] = req[q]
  BY RespondEffect DEF Inv
<1>3. UNCHANGED bookings => NoNewHold
  BY DEF NoNewHold
<1>4. CASE ReserveSeatRow(r)
  BY <1>1, <1>2, <1>3, <1>4, MoveKeepsCover DEF ReserveSeatRow, RequestPC, queueVars
<1>5. CASE ConfirmBookingRow(r)
  BY <1>1, <1>3, <1>5, MoveKeepsCover DEF ConfirmBookingRow, RequestPC, queueVars
<1>6. CASE CancelBookingRow(r)
  BY <1>1, <1>3, <1>6, MoveKeepsCover DEF CancelBookingRow, RequestPC, queueVars
<1>7. CASE Reread(r) \/ PublishBookingEvent(r)
  BY <1>2, <1>3, <1>7, MoveKeepsCover DEF Reread, PublishBookingEvent, queueVars, dbVars
<1>8. CASE GetJob(r)
  BY <1>1, <1>3, <1>8, MoveKeepsCover DEF GetJob, RequestPC, queueVars, dbVars
<1>9. CASE ConfirmSeatRow(r)
  <2>1. /\ req[r].pc = "confirm_seat" /\ req[r].booking \in BookingIds
        /\ bookings[req[r].booking].seat \in Seats /\ UNCHANGED <<job, unscheduled, exhausted>>
    BY <1>9 DEF ConfirmSeatRow, queueVars, Inv, Knows, DataInv, RowsFilled
  <2>2. CASE CommitBoth(req[r].booking, "confirmed", "booked") /\ Goto(r, "publish")
    <3>1. NoNewHold
      BY <2>1, <2>2, CommitMakesNoHold DEF BookingStatus, SeatStatus
    <3>2. QED
      BY <1>1, <2>1, <2>2, <3>1, MoveKeepsCover DEF RequestPC
  <2>3. CASE StateDrift(r, req[r].booking)
    BY <1>2, <1>3, <2>1, <2>3, MoveKeepsCover DEF StateDrift
  <2>4. QED
    BY <1>9, <2>2, <2>3 DEF ConfirmSeatRow
<1>10. CASE CancelSeatRow(r)
  <2>1. /\ req[r].pc = "cancel_seat" /\ req[r].booking \in BookingIds
        /\ bookings[req[r].booking].seat \in Seats /\ UNCHANGED <<job, unscheduled, exhausted>>
    BY <1>10 DEF CancelSeatRow, queueVars, Inv, Knows, DataInv, RowsFilled, Active
  <2>2. CASE CommitBoth(req[r].booking, "cancelled", "available") /\ Goto(r, "get_job")
    <3>1. NoNewHold
      BY <2>1, <2>2, CommitMakesNoHold DEF BookingStatus, SeatStatus
    <3>2. QED
      BY <1>1, <2>1, <2>2, <3>1, MoveKeepsCover DEF RequestPC
  <2>3. CASE StateDrift(r, req[r].booking)
    BY <1>2, <1>3, <2>1, <2>3, MoveKeepsCover DEF StateDrift
  <2>4. QED
    BY <1>10, <2>2, <2>3 DEF CancelSeatRow
<1>11. ASSUME NEW b \in BookingIds, InsertBooking(r, b) PROVE PendingHoldIsGuarded'
  <2>1. /\ req[r].pc = "reserve_insert" /\ UNCHANGED <<job, unscheduled, exhausted>>
        /\ req'[r].pc = "reserve_schedule" /\ req'[r].booking = b
        /\ \A q \in Requests \ {r} : req'[q] = req[q]
    BY <1>11 DEF InsertBooking, queueVars, Inv, TypeOK, RequestStates
  <2>2. \A c \in BookingIds : c # b => bookings'[c] = bookings[c]
    BY <1>11 DEF InsertBooking, Inv, TypeOK
  <2>3. ASSUME NEW c \in BookingIds, bookings'[c].status = "pending" PROVE Covered(c)'
    <3>1. CASE c = b
      BY <2>1, <3>1 DEF Covered, Awaits
    <3>2. CASE c # b
      <4>1. Covered(c)
        BY <2>2, <2>3, <3>2, GuardIsCover
      <4>2. \A q \in Requests : Awaits(q, c) => Awaits(q, c)'
        BY <2>1 DEF Awaits
      <4>3. QED
        BY <2>1, <4>1, <4>2 DEF Covered, Live, OnRecord, Failed
    <3>3. QED
      BY <3>1, <3>2
  <2>4. QED
    BY <2>3, CoverIsGuard
<1>12. CASE ScheduleHoldExpiry(r)
  <2>1. PICK b \in BookingIds : b = req[r].booking
    BY <1>12 DEF ScheduleHoldExpiry, Inv, Knows
  <2>2. /\ UNCHANGED <<bookings, exhausted>> /\ Covered(b)'
        /\ \A c \in BookingIds \ {b} : job'[c] = job[c] /\ (c \in unscheduled => c \in unscheduled')
    <3>0. UNCHANGED <<bookings, exhausted>> /\ job[b] \in JobStates
      BY <1>12 DEF ScheduleHoldExpiry, dbVars, Inv, TypeOK
    <3>1. CASE job' = [job EXCEPT ![b] = IF @.state = "none" THEN [NoJob EXCEPT !.state = "delayed"] ELSE @]
               /\ UNCHANGED unscheduled
      <4>1. /\ job'[b] = IF job[b].state = "none" THEN [NoJob EXCEPT !.state = "delayed"] ELSE job[b]
            /\ \A c \in BookingIds \ {b} : job'[c] = job[c]
        BY <3>1 DEF Inv, TypeOK
      <4>2. CASE job'[b].state = "failed"
        <5>1. job'[b] = job[b]
          BY <4>1, <4>2 DEF NoJob
        <5>2. b \in exhausted /\ b \in Failed'
          BY <4>2, <5>1 DEF RecordInv, Failed
        <5>3. QED
          BY <3>0, <3>1, <4>1, <5>2 DEF Covered, OnRecord
      <4>3. CASE job'[b].state # "failed"
        <5>1. job'[b].state \in {"delayed", "active"}
          BY <3>0, <4>1, <4>3 DEF JobStates, NoJob
        <5>2. QED
          BY <3>0, <3>1, <4>1, <5>1 DEF Covered, Live
      <4>4. QED
        BY <4>2, <4>3
    <3>2. CASE unscheduled' = unscheduled \cup {b} /\ UNCHANGED job
      BY <3>0, <3>2 DEF Covered
    <3>3. QED
      BY <1>12, <2>1, <3>1, <3>2 DEF ScheduleHoldExpiry
  <2>3. \A q \in Requests \ {r} : req'[q] = req[q]
    BY <1>1, <1>12 DEF ScheduleHoldExpiry, RequestPC
  <2>4. \A c \in BookingIds \ {b}, q \in Requests : Awaits(q, c) => Awaits(q, c)'
    BY <2>1, <2>3 DEF Awaits
  <2>5. \A c \in BookingIds \ {b} : Covered(c) => Covered(c)'
    BY <2>2, <2>4, SameJobSameCover DEF Covered
  <2>6. \A c \in BookingIds : bookings'[c].status = "pending" => Covered(c)'
    BY <2>2, <2>5, GuardIsCover
  <2>7. QED
    BY <2>6, CoverIsGuard
\* Only a cancelled booking's job is removed: the request owes its event.
<1>13. CASE RemoveJob(r)
  <2>1. PICK b \in BookingIds : b = req[r].booking
    BY <1>13 DEF RemoveJob, Inv, Knows
  <2>2. Owes(r, b, "cancelled")
    BY <1>13, <2>1 DEF RemoveJob, EventInv, OpFits, Owes, AfterCommit, EventOf
  <2>3. bookings[b].status = "cancelled"
    BY <2>2 DEF EventInv, ToldByOne, Reached, Events
  <2>4. /\ req[r].pc = "remove_job" /\ UNCHANGED <<bookings, unscheduled, exhausted>>
        /\ \A c \in BookingIds \ {b} : job'[c] = job[c]
    BY <1>13, <2>1 DEF RemoveJob, dbVars, Inv, TypeOK
  <2>5. \A q \in Requests \ {r} : req'[q] = req[q]
    BY <1>1, <1>13 DEF RemoveJob, RequestPC
  <2>6. \A c \in BookingIds, q \in Requests : Awaits(q, c) => Awaits(q, c)'
    BY <2>4, <2>5 DEF Awaits
  <2>7. \A c \in BookingIds \ {b} : Covered(c) => Covered(c)'
    BY <2>4, <2>6, SameJobSameCover DEF Covered
  <2>8. \A c \in BookingIds : bookings'[c].status = "pending" => Covered(c)'
    BY <2>3, <2>4, <2>7, GuardIsCover
  <2>9. QED
    BY <2>8, CoverIsGuard
<1>14. CASE Publish(r)
  BY <1>3, <1>14, PublishEffect, MoveKeepsCover DEF Publish, queueVars, dbVars
<1>15. QED
  BY <1>4, <1>5, <1>6, <1>7, <1>8, <1>9, <1>10, <1>11, <1>12, <1>13, <1>14 DEF RequestStep

LEMMA ClientKeepsCover ==
    ASSUME Inv, PendingHoldIsGuarded, NEW r \in Requests, Client(r)
    PROVE  PendingHoldIsGuarded'
<1>1. /\ req[r].pc = "idle" /\ UNCHANGED <<bookings, job, unscheduled, exhausted>>
      /\ \A q \in Requests \ {r} : req'[q] = req[q]
  BY DEF Client, StartReserve, StartConfirm, StartCancel, Begin, dbVars, queueVars, Inv, TypeOK
<1>2. QED
  BY <1>1, MoveKeepsCover DEF NoNewHold

\* A request that dies before it scheduled the job leaves a mark.
LEMMA DieKeepsCover ==
    ASSUME Inv, PendingHoldIsGuarded, NEW r \in Requests, Die(r)
    PROVE  PendingHoldIsGuarded'
<1>1. /\ UNCHANGED <<bookings, job, exhausted>>
      /\ unscheduled' = IF req[r].pc = "reserve_schedule" THEN unscheduled \cup {req[r].booking}
                                                          ELSE unscheduled
      /\ \A q \in Requests \ {r} : req'[q] = req[q]
  BY RespondEffect DEF Die, queueVars, Inv
<1>2. \A b \in BookingIds, q \in Requests : Awaits(q, b) => Awaits(q, b)' \/ b \in unscheduled'
  BY <1>1 DEF Awaits
<1>3. \A b \in BookingIds : Covered(b) => Covered(b)'
  BY <1>1, <1>2, SameJobSameCover DEF Covered
<1>4. \A b \in BookingIds : bookings'[b].status = "pending" => Covered(b)'
  BY <1>1, <1>3, GuardIsCover
<1>5. QED
  BY <1>4, CoverIsGuard

\* A worker's step that leaves the jobs alone or takes one away that is settled.
LEMMA WorkerKeepsCover ==
    ASSUME Inv, PendingHoldIsGuarded, NEW w \in Workers, WorkerStep(w) \/ WorkerCrash(w)
    PROVE  PendingHoldIsGuarded'
<1>1. UNCHANGED <<req, unscheduled, exhausted>>
  BY DEF WorkerStep, ExpireBookingRow, ExpireSeatRow, CompleteJob, WorkerCrash
<1>2. ASSUME UNCHANGED job, NoNewHold PROVE PendingHoldIsGuarded'
  BY <1>1, <1>2, SameJobSameCover, QueueKeepsCover
<1>3. CASE ExpireBookingRow(w) \/ WorkerCrash(w)
  BY <1>2, <1>3 DEF ExpireBookingRow, WorkerCrash, NoNewHold
<1>4. CASE ExpireSeatRow(w)
  <2>1. PICK b \in BookingIds : b = work[w].booking
    BY <1>4 DEF ExpireSeatRow, Inv, WorkerKnows
  <2>2. bookings[b].seat \in Seats
    BY <1>4, <2>1 DEF ExpireSeatRow, Inv, WorkerKnows, DataInv, RowsFilled
  <2>3. CASE CommitBoth(b, "expired", "available")
    BY <1>2, <1>4, <2>2, <2>3, CommitMakesNoHold DEF ExpireSeatRow, BookingStatus, SeatStatus
  <2>4. CASE bookings' = [bookings EXCEPT ![b].status = "expired"]
    <3>1. NoNewHold
      BY <2>4 DEF NoNewHold, Inv, TypeOK, BookingRows
    <3>2. QED
      BY <1>2, <1>4, <3>1 DEF ExpireSeatRow
  <2>5. QED
    BY <1>4, <2>1, <2>3, <2>4 DEF ExpireSeatRow
<1>5. CASE CompleteJob(w)
  <2>1. PICK b \in BookingIds : b = work[w].booking
    BY <1>5 DEF CompleteJob, Inv, WorkerKnows
  <2>2. bookings[b].status # "pending" /\ UNCHANGED bookings
    BY <1>5, <2>1 DEF CompleteJob, dbVars, Inv, WorkerKnows
  <2>3. \A c \in BookingIds : c # b => job'[c] = job[c]
    BY <1>5, <2>1 DEF CompleteJob, Inv, TypeOK
  <2>4. QED
    BY <1>1, <2>2, <2>3, SameJobSameCover, QueueKeepsCover DEF NoNewHold
<1>6. QED
  BY <1>3, <1>4, <1>5 DEF WorkerStep

\* An attempt that fails and a job that is found stalled requeue a live job.
LEMMA RequeueKeepsCover ==
    ASSUME Inv, Forward, RecordInv, PendingHoldIsGuarded,
           \/ \E w \in Workers : FailAttempt(w)
           \/ \E b \in BookingIds : StallJob(b)
    PROVE  RecordInv' /\ PendingHoldIsGuarded'
<1>1. UNCHANGED <<req, unscheduled, bookings>>
  BY DEF FailAttempt, StallJob, dbVars
<1>2. ASSUME RecordInv', \A c \in BookingIds : Live(c) \/ OnRecord(c) => Live(c)' \/ OnRecord(c)'
      PROVE  RecordInv' /\ PendingHoldIsGuarded'
  BY <1>1, <1>2, QueueKeepsCover DEF NoNewHold
<1>3. ASSUME NEW b \in BookingIds, job[b].state = "active",
             Requeue(b, RetryOrFail(job[b])) \/ Requeue(b, Stalled(job[b]))
      PROVE  RecordInv' /\ PendingHoldIsGuarded'
  <2>1. job[b] \in JobStates /\ job[b].attempts < MaxAttempts /\ job[b].stalls <= MaxStalls
    BY <1>3 DEF Inv, TypeOK, JobsSound
  <2>2. CASE Requeue(b, RetryOrFail(job[b]))
    <3> DEFINE new == RetryOrFail(job[b])
    <3>1. /\ new \in JobStates /\ new.state \in {"delayed", "failed"}
          /\ new.state = "delayed" => new.attempts < MaxAttempts /\ new.stalls <= MaxStalls
          /\ Requeue(b, new)
      BY <2>1, <2>2, RetryEffect
    <3> HIDE DEF new
    <3>2. QED
      BY <1>2, <1>3, <3>1, RequeueKeepsRecord
  <2>3. CASE Requeue(b, Stalled(job[b]))
    <3> DEFINE new == Stalled(job[b])
    <3>1. /\ new \in JobStates /\ new.state \in {"delayed", "failed"}
          /\ new.state = "delayed" => new.attempts < MaxAttempts /\ new.stalls <= MaxStalls
          /\ Requeue(b, new)
      BY <2>1, <2>3, StallEffect
    <3> HIDE DEF new
    <3>2. QED
      BY <1>2, <1>3, <3>1, RequeueKeepsRecord
  <2>4. QED
    BY <1>3, <2>2, <2>3
<1>4. ASSUME NEW w \in Workers, FailAttempt(w) PROVE RecordInv' /\ PendingHoldIsGuarded'
  <2>1. PICK b \in BookingIds : b = work[w].booking
    BY <1>4 DEF FailAttempt, Inv, WorkerKnows
  <2>2. CASE HoldsJob(w, b) /\ Requeue(b, RetryOrFail(job[b]))
    BY <1>3, <2>2 DEF HoldsJob
  <2>3. CASE UNCHANGED <<job, exhausted>>
    BY <1>2, <2>3, SameJobSameCover, QuietRecord
  <2>4. QED
    BY <1>4, <2>1, <2>2, <2>3 DEF FailAttempt
<1>5. ASSUME NEW b \in BookingIds, StallJob(b) PROVE RecordInv' /\ PendingHoldIsGuarded'
  BY <1>3, <1>5 DEF StallJob
<1>6. QED
  BY <1>4, <1>5

\* The other steps add no failed job.
LEMMA NextKeepsRecord ==
    ASSUME Inv, RecordInv, [Next]_vars,
           ~\E w \in Workers : FailAttempt(w), ~\E b \in BookingIds : StallJob(b)
    PROVE  RecordInv'
<1>0. ASSUME UNCHANGED <<job, exhausted>> PROVE RecordInv'
  BY <1>0, QuietRecord
<1>1. ASSUME NEW r \in Requests, Client(r) \/ Die(r) PROVE RecordInv'
  BY <1>0, <1>1 DEF Client, Die, StartReserve, StartConfirm, StartCancel, queueVars
<1>2. ASSUME NEW r \in Requests, ScheduleHoldExpiry(r) PROVE RecordInv'
  <2>1. PICK b \in BookingIds : b = req[r].booking
    BY <1>2 DEF ScheduleHoldExpiry, Inv, Knows
  <2>2. \A c \in BookingIds : job'[c] = job[c] \/ job'[c].state # "failed"
    BY <1>2, <2>1 DEF ScheduleHoldExpiry, NoJob, Inv, TypeOK
  <2>3. QED
    BY <1>2, <2>2, QuietRecord DEF ScheduleHoldExpiry
<1>3. ASSUME NEW r \in Requests, RemoveJob(r) PROVE RecordInv'
  <2>1. \A c \in BookingIds : job'[c] = job[c] \/ job'[c].state # "failed"
    BY <1>3 DEF RemoveJob, NoJob, Inv, TypeOK
  <2>2. QED
    BY <1>3, <2>1, QuietRecord DEF RemoveJob
<1>4. ASSUME NEW r \in Requests, RequestStep(r), ~ScheduleHoldExpiry(r), ~RemoveJob(r) PROVE RecordInv'
  BY <1>0, <1>4 DEF RequestStep, ReserveSeatRow, InsertBooking, ConfirmBookingRow, ConfirmSeatRow,
     CancelBookingRow, CancelSeatRow, Reread, GetJob, Publish, PublishBookingEvent, queueVars
<1>5. ASSUME NEW w \in Workers, ExpireBookingRow(w) \/ ExpireSeatRow(w) \/ WorkerCrash(w) PROVE RecordInv'
  BY <1>0, <1>5 DEF ExpireBookingRow, ExpireSeatRow, WorkerCrash
<1>6. ASSUME NEW w \in Workers, CompleteJob(w) PROVE RecordInv'
  <2>1. \A c \in BookingIds : job'[c] = job[c] \/ job'[c].state # "failed"
    BY <1>6 DEF CompleteJob, NoJob, Inv, TypeOK
  <2>2. QED
    BY <1>6, <2>1, QuietRecord DEF CompleteJob
<1>7. ASSUME NEW w \in Workers, NEW b \in BookingIds, TakeJob(w, b) PROVE RecordInv'
  <2>1. \A c \in BookingIds : job'[c] = job[c] \/ job'[c].state # "failed"
    BY <1>7 DEF TakeJob, Inv, TypeOK, JobStates
  <2>2. QED
    BY <1>7, <2>1, QuietRecord DEF TakeJob
<1>8. CASE UNCHANGED vars
  BY <1>0, <1>8 DEF vars
<1>9. QED
  BY <1>1, <1>2, <1>3, <1>4, <1>5, <1>6, <1>7, <1>8 DEF Next, WorkerStep

\* Every step leaves a pending booking with a live job, or explains why it has none.
LEMMA NextKeepsCover ==
    Inv /\ EventInv /\ RecordInv /\ PendingHoldIsGuarded /\ [Next]_vars => RecordInv' /\ PendingHoldIsGuarded'
<1> SUFFICES ASSUME Inv, EventInv, RecordInv, PendingHoldIsGuarded, [Next]_vars
             PROVE  RecordInv' /\ PendingHoldIsGuarded'
  OBVIOUS
<1>0. Forward
  BY NextInv
<1>1. ASSUME NEW r \in Requests, Client(r) \/ RequestStep(r) \/ Die(r) PROVE PendingHoldIsGuarded'
  BY <1>1, ClientKeepsCover, RequestKeepsCover, DieKeepsCover
<1>2. ASSUME NEW w \in Workers, NEW b \in BookingIds, TakeJob(w, b) PROVE PendingHoldIsGuarded'
  <2>1. /\ job[b].state = "delayed" /\ job'[b].state = "active"
        /\ \A c \in BookingIds : c # b => job'[c] = job[c]
        /\ UNCHANGED <<bookings, req, unscheduled, exhausted>>
    BY <1>2 DEF TakeJob, dbVars, Inv, TypeOK, JobStates
  <2>2. \A c \in BookingIds : Live(c) \/ OnRecord(c) => Live(c)' \/ OnRecord(c)'
    BY <2>1, SameJobSameCover DEF Live
  <2>3. QED
    BY <2>1, <2>2, QueueKeepsCover DEF NoNewHold
<1>3. ASSUME UNCHANGED vars PROVE PendingHoldIsGuarded'
  <2>1. UNCHANGED <<bookings, req, job, unscheduled, exhausted>>
    BY <1>3 DEF vars
  <2>2. \A c \in BookingIds : Live(c) \/ OnRecord(c) => Live(c)' \/ OnRecord(c)'
    BY <2>1, SameJobSameCover
  <2>3. NoNewHold
    BY <2>1 DEF NoNewHold
  <2>4. QED
    BY <2>1, <2>2, <2>3, QueueKeepsCover
<1>4. CASE (\E w \in Workers : FailAttempt(w)) \/ (\E b \in BookingIds : StallJob(b))
  BY <1>0, <1>4, RequeueKeepsCover
<1>5. CASE ~(\E w \in Workers : FailAttempt(w)) /\ ~(\E b \in BookingIds : StallJob(b))
  <2>1. RecordInv'
    BY <1>5, NextKeepsRecord
  <2>2. PendingHoldIsGuarded'
    BY <1>1, <1>2, <1>3, <1>5, WorkerKeepsCover DEF Next
  <2>3. QED
    BY <2>1, <2>2
<1>6. QED
  BY <1>4, <1>5

-----------------------------------------------------------------------------
(* The theorems.                                                            *)

\* Between its commit and its answer a request owes one event, alone and
\* truthfully, and every copy of it that was sent so far is one of its own sends.
THEOREM DebtsAreTrue == Spec => []EventInv
<1>1. Inv /\ EventInv /\ [Next]_vars => EventInv'
  BY NextKeepsEvents
<1>2. QED
  BY <1>1, InitEvents, BookingInvariant, PTL DEF Spec

\* Kafka tells the truth for any number of racing requests and client retries:
\* an event is sent only of a booking that went through it, and by one call
\* only, so that its copies are at most the sends of one publishBookingEvent.
THEOREM EventsAreTrue == Spec => []EventsMatchHistory
<1>1. EventInv => EventsMatchHistory
  BY DEF EventInv, ToldByOne, Reached, EventsMatchHistory, Events
<1>2. QED
  BY <1>1, DebtsAreTrue, PTL

\* A pending booking has a live job or a request that is about to schedule one;
\* or that scheduling was lost; or its job gave up, and is on record among the
\* failed ones unless more than KeepFailed jobs did.  Neither a retry, a stall,
\* a worker's crash nor the clean-up of a cancellation takes its job otherwise.
THEOREM HoldsAreGuarded == Spec => []PendingHoldIsGuarded
<1>1. Init => RecordInv /\ PendingHoldIsGuarded
  <2>1. IsFiniteSet({})
    BY FS_EmptySet
  <2>2. QED
    BY <2>1 DEF Init, RecordInv, Failed, NoJob, PendingHoldIsGuarded
<1>2. Inv /\ EventInv /\ (RecordInv /\ PendingHoldIsGuarded) /\ [Next]_vars
        => (RecordInv /\ PendingHoldIsGuarded)'
  BY NextKeepsCover
<1>3. QED
  BY <1>1, <1>2, BookingInvariant, DebtsAreTrue, PTL DEF Spec
=============================================================================
