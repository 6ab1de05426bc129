--------------------------- MODULE MCServerHealth ---------------------------
(* Instances of ServerHealth for TLC: recorders are interchangeable.       *)
EXTENDS ServerHealth, TLC

RecorderSymmetry == Permutations(Recorders)
=============================================================================
