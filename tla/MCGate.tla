------------------------------- MODULE MCGate -------------------------------
(* The instance of Gate for TLC: its constants are model values.            *)
EXTENDS Gate
=============================================================================
