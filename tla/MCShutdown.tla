----------------------------- MODULE MCShutdown -----------------------------
(* Instances of Shutdown for TLC: connections and jobs are interchangeable. *)
EXTENDS Shutdown, TLC

WorkSymmetry == Permutations(Conns) \cup Permutations(Jobs)
=============================================================================
