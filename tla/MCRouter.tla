------------------------------ MODULE MCRouter ------------------------------
(* Instances of Router for TLC: the default ScoreboardConfig, scaled, and   *)
(* the extreme raw weights exp(-2) and exp(0).                              *)
EXTENDS Router

Two == {1, 2}
Three == {1, 2, 3}

\* lb-proxy registers its whole pool under one domain.
OneDomain == [s \in Two |-> 0]

=============================================================================
