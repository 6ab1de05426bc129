----------------------------- MODULE SeatLedger -----------------------------
(***************************************************************************)
(* What the booking backend promises about seats, with no transactions,    *)
(* locks, jobs or requests in sight.                                       *)
(*                                                                         *)
(* A seat is claimed by at most one booking.  A claim starts as a hold on  *)
(* a free seat, may become a sale to the SAME booking, and ends when the   *)
(* seat is released.  A booking id makes at most one claim in its life.    *)
(* Booking.tla is shown to implement this specification.                   *)
(***************************************************************************)
CONSTANTS Seats,       \* the seats of the catalogue
          BookingIds   \* the ids a booking row may get

VARIABLES holding,     \* holding[s]: bookings that hold seat s (status 'pending')
          sold,        \* sold[s]: bookings that own seat s (status 'confirmed')
          issued       \* booking ids that have been handed out

ledgerVars == <<holding, sold, issued>>

Claims(s) == holding[s] \cup sold[s]

Init == /\ holding = [s \in Seats |-> {}]
        /\ sold = [s \in Seats |-> {}]
        /\ issued = {}

\* A free seat is held for a booking that never existed before.
Hold(s, b) == /\ Claims(s) = {}
              /\ b \notin issued
              /\ holding' = [holding EXCEPT ![s] = {b}]
              /\ issued' = issued \cup {b}
              /\ UNCHANGED sold

\* The holder, and nobody else, becomes the owner.
Sell(s, b) == /\ b \in holding[s]
              /\ holding' = [holding EXCEPT ![s] = @ \ {b}]
              /\ sold' = [sold EXCEPT ![s] = @ \cup {b}]
              /\ UNCHANGED issued

\* A hold or a sale ends and the seat is free again.
Release(s, b) == /\ b \in Claims(s)
                 /\ holding' = [holding EXCEPT ![s] = @ \ {b}]
                 /\ sold' = [sold EXCEPT ![s] = @ \ {b}]
                 /\ UNCHANGED issued

Next == \E s \in Seats, b \in BookingIds : Hold(s, b) \/ Sell(s, b) \/ Release(s, b)

Spec == Init /\ [][Next]_ledgerVars
=============================================================================
