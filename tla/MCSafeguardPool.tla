-------------------------- MODULE MCSafeguardPool --------------------------
(* Instances of SafeguardPool for TLC. *)
EXTENDS SafeguardPool

CONSTANTS safeguard1, safeguard2, s1, s2, s3, s4
=============================================================================
