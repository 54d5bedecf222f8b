--------------------------- MODULE MCGroqProvider ---------------------------
(* Instances of GroqProvider for TLC. *)
EXTENDS GroqProvider

CONSTANTS judge1, polecat1
=============================================================================
