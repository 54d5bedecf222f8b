----------------------------- MODULE BeadPipeline -----------------------------
(***************************************************************************)
(* What NOS Town promises about the order of work (HARDENING.md section    *)
(* 2.3): a bead is worked on only when every bead it needs has succeeded,  *)
(* and it succeeds only by being worked on or by taking over the result of *)
(* an identical bead.  Mailboxes, poll cycles, polecat slots, locks and    *)
(* restarts are invisible at this level; WorkerRuntime implements it.      *)
(***************************************************************************)
CONSTANTS Bead,       \* the beads of the plan
          Needs,      \* Needs[b]: the beads b depends on
          Task        \* Task[b]: what b asks for; equal tasks share results

VARIABLES succeeded,  \* beads for which a SUCCESS was ever recorded
          underway    \* beads some polecat is working on

vars == <<succeeded, underway>>

Ready(b) == Needs[b] \subseteq succeeded

Init == succeeded = {} /\ underway = {}

Begin(b) ==
  /\ Ready(b)
  /\ underway' = underway \cup {b}
  /\ UNCHANGED succeeded

(* A second polecat may still be working on b when the first reports. *)
Succeed(b) ==
  /\ b \in underway
  /\ succeeded' = succeeded \cup {b}
  /\ underway' \in {underway, underway \ {b}}

Reuse(b) ==
  /\ Ready(b)
  /\ \E o \in succeeded \ {b} : Task[o] = Task[b] /\ Needs[o] = Needs[b]
  /\ succeeded' = succeeded \cup {b}
  /\ UNCHANGED underway

(* Failure, rejection or a crash: work ends without a success. *)
Abandon ==
  /\ underway' \in SUBSET underway
  /\ UNCHANGED succeeded

Next == Abandon \/ \E b \in Bead : Begin(b) \/ Succeed(b) \/ Reuse(b)

Spec == Init /\ [][Next]_vars

-----------------------------------------------------------------------------

(* Whatever succeeded had all its predecessors succeed before it. *)
SuccessIsCausal == \A b \in succeeded : Needs[b] \subseteq succeeded
=============================================================================
