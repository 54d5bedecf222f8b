--------------------------- MODULE MCGasCityBridge ---------------------------
(* An instance of GasCityBridge for TLC: three workers, two answers, and   *)
(* one process of each kind.                                               *)
EXTENDS GasCityBridge, TLC

CONSTANTS w, c, s, b1, b2, yes, no, maybe

Symmetric == Permutations({b1, b2}) \cup Permutations({yes, no})
=============================================================================
