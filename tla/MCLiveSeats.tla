---------------------------- MODULE MCLiveSeats ----------------------------
(* Instances of LiveSeats for TLC: pods and fetches are interchangeable.   *)
EXTENDS LiveSeats, TLC

LiveSymmetry == Permutations(Pods) \cup Permutations(Fetches)
=============================================================================
