------------------------------ MODULE MCPages ------------------------------
(* The instance of Pages for TLC: one user owns all the bookings there are, *)
(* so that bookings are interchangeable, and so are slots.                  *)
EXTENDS Pages, Naturals, TLC

CONSTANT buyer

MCOwner == [b \in Bookings |-> buyer]

\* Bounds: one handler at a time outlives its page, and one login is under way.
OneOrphan == Cardinality({k \in Slots : call[k].kind # "none" /\ ~call[k].attached}) <= 1
OneLogin == Cardinality({k \in Slots : call[k].kind = "login"}) <= 1

TabSymmetry == Permutations(Bookings) \cup Permutations(Slots)
=============================================================================
