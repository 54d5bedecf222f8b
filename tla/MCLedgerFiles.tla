---------------------------- MODULE MCLedgerFiles ----------------------------
(* Instances of LedgerFiles for TLC. *)
EXTENDS LedgerFiles, TLC

CONSTANTS a1, a2, a3, a4, shell, town

Alike == Permutations({a1, a2, a3})
OneOfShell == [a \in Call |-> IF a = a4 THEN shell ELSE town]
=============================================================================
