----------------------------- MODULE MCLbProxy -----------------------------
(* Instances of LbProxy for TLC: requests are interchangeable.             *)
EXTENDS LbProxy, TLC

RequestSymmetry == Permutations(Requests)
=============================================================================
