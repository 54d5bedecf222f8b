------------------------------- MODULE Convoys -------------------------------
(***************************************************************************)
(* The convoy envelope and the checks a mailbox makes before it hands a    *)
(* convoy to a role (src/convoys/verify.ts).  A sender id such as          *)
(* "mayor_01" is represented by its role, which is all the checks use of   *)
(* it.  Convoys the runtime writes for itself carry a literal instead of a *)
(* signature ('ed25519:internal', 'ed25519:requeued').                     *)
(***************************************************************************)

CONSTANT KeyHolders      \* senders whose public key loadPublicKey finds

Sender == {"mayor", "polecat", "witness", "safeguard", "historian", "runtime"}

ConvoyType == {"BEAD_DISPATCH", "SWARM_ABORT", "LOCKDOWN_BROADCAST",
               "PATCH_READY", "REVIEW_VERDICT", "SECURITY_VIOLATION", "CONVOY_BLOCKED"}

ASSUME KeyHoldersAssumption == KeyHolders \subseteq Sender

-----------------------------------------------------------------------------

(* Which role may emit which type, restricted to the types above. *)
AUTHZ_MATRIX ==
  [mayor     |-> {"BEAD_DISPATCH", "SWARM_ABORT", "LOCKDOWN_BROADCAST"},
   polecat   |-> {"PATCH_READY"},
   witness   |-> {"REVIEW_VERDICT"},
   safeguard |-> {"SECURITY_VIOLATION"},
   historian |-> {}]

validateAuthz(sender, type) ==
  /\ sender \in DOMAIN AUTHZ_MATRIX
  /\ type \in AUTHZ_MATRIX[sender]

(* Only buildSignedConvoy produces a signature that verifies. *)
verifyConvoy(convoy) == convoy.signed

validateConvoy(convoy) ==
  /\ validateAuthz(convoy.sender, convoy.type)
  /\ verifyConvoy(convoy)
=============================================================================
