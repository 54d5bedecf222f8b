----------------------------- MODULE MCConvoySeq -----------------------------
(* Instances of ConvoySeq for TLC. *)
EXTENDS ConvoySeq

CONSTANTS c1, c2, c3, c4, c5, town

(* Single sends and one broadcast of one process. *)
OneTown == {<<c1>>, <<c2>>, <<c3, c4>>, <<c5>>}
InTown  == [g \in OneTown |-> town]
=============================================================================
