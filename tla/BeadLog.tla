------------------------------- MODULE BeadLog -------------------------------
(***************************************************************************)
(* What a ledger promises the process it belongs to (HARDENING.md section  *)
(* 2.1): one append-only log.  An append happens at one moment between the *)
(* call and its answer, or never; only an append that happened is          *)
(* acknowledged, only one that did not and never will is refused; and a    *)
(* read returns the log as it is at one moment, whole and in order.        *)
(* Files, segments, manifest and lock are invisible at this level;         *)
(* LedgerFiles implements it.                                              *)
(***************************************************************************)
EXTENDS Sequences, Functions

CONSTANT Call      \* calls of appendBead, each with a record of its own

VARIABLES log,      \* the records appended, in order
          acked,    \* calls that returned
          refused,  \* calls that threw
          returned  \* what the last read returned

vars == <<log, acked, refused, returned>>

Init == log = <<>> /\ acked = {} /\ refused = {} /\ returned = <<>>

AppendRecord(a) ==
  /\ a \notin Range(log) \cup refused
  /\ log' = Append(log, a)
  /\ UNCHANGED <<acked, refused, returned>>

Acknowledge(a) ==
  /\ a \in Range(log) \ acked
  /\ acked' = acked \cup {a}
  /\ UNCHANGED <<log, refused, returned>>

Refuse(a) ==
  /\ a \notin Range(log) \cup refused
  /\ refused' = refused \cup {a}
  /\ UNCHANGED <<log, acked, returned>>

Read ==
  /\ returned' = log
  /\ UNCHANGED <<log, acked, refused>>

Next == Read \/ \E a \in Call : AppendRecord(a) \/ Acknowledge(a) \/ Refuse(a)

Spec == Init /\ [][Next]_vars
=============================================================================
