----------------------------- MODULE MCBooking ------------------------------
(* Instances of Booking for TLC.                                            *)
EXTENDS Booking, TLC

\* Seats, users, bookings, requests and workers are interchangeable; used by
\* the runs without liveness properties only.
Interchangeable == Permutations(Seats) \cup Permutations(Users) \cup Permutations(BookingIds)
                     \cup Permutations(Requests) \cup Permutations(Workers)
=============================================================================
