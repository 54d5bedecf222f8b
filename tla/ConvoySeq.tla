------------------------------ MODULE ConvoySeq ------------------------------
(***************************************************************************)
(* The sequence numbers of one sender: ConvoyBus.getNextSeq, send and      *)
(* restoreSeqCounters (src/convoys/bus.ts) and swarmBroadcast              *)
(* (src/swarm/tools.ts).  Each bus keeps a counter in memory and a triple  *)
(* in the knowledge graph, which all buses share.  A caller draws a        *)
(* number, awaits the signature of its convoy and sends it.                *)
(***************************************************************************)
EXTENDS Naturals, Sequences, FiniteSets

CONSTANTS Bus,           \* bus instances of this sender, one per process
          Call,          \* the convoys callers build
          Group,         \* calls started together: sequences of calls
          BusOf,         \* BusOf[g]: the bus of group g
          MaxRestarts,   \* bound: restarts of a process
          MaxHalf        \* bound: an invalidate whose add never happens

Calls(g) == {g[i] : i \in DOMAIN g}

ASSUME BusAssumption ==
  /\ Group \subseteq Seq(Call) \ {<<>>} /\ BusOf \in [Group -> Bus]
  /\ \A c \in Call : \E g \in Group : c \in Calls(g)
  /\ \A g, h \in Group : g # h => Calls(g) \cap Calls(h) = {}

VARIABLES
  counter,    \* counter[b]: seqCounters of the sender
  kg,         \* the valid convoy_seq triples, oldest first
  started,    \* groups whose calls were made
  pc, seq,    \* pc[c], seq[c]: where call c is, the number it drew
  session,    \* session[b]: restarts of b's process so far
  drawn,      \* the numbers drawn before the last restart, per bus
  sent,       \* the convoys in mailboxes, in order
  half

vars == <<counter, kg, started, pc, seq, session, drawn, sent, half>>

Home(c) == BusOf[CHOOSE g \in Group : c \in Calls(g)]

Init ==
  /\ counter = [b \in Bus |-> 0]
  /\ kg = <<>> /\ started = {}
  /\ pc = [c \in Call |-> "idle"] /\ seq = [c \in Call |-> 0]
  /\ session = [b \in Bus |-> 0] /\ drawn = [b \in Bus |-> {}]
  /\ sent = <<>> /\ half = 0

-----------------------------------------------------------------------------
(* getNextSeq and send replace the triple with two statements, both        *)
(* synchronous: nothing of the same process runs in between.               *)

Replacing(c) == pc[c] \in {"drawing", "sending"}
Turn(b) == \A c \in Call : Replacing(c) => Home(c) # b

(* Mutant of Draw: the counter itself is handed out. *)
DrawCurrent(g) ==
  /\ g \in Group \ started /\ Turn(BusOf[g])
  /\ started' = started \cup {g}
  /\ pc' = [c \in Call |-> IF c \in Calls(g) THEN "drawing" ELSE pc[c]]
  /\ seq' = [c \in Call |-> IF c \in Calls(g)
                            THEN counter[BusOf[g]] + (CHOOSE i \in DOMAIN g : g[i] = c) - 1
                            ELSE seq[c]]
  /\ kg' = <<>>
  /\ UNCHANGED <<counter, session, drawn, sent, half>>

(* getNextSeq does not move the counter; swarmBroadcast calls it for every *)
(* recipient and adds the recipient's index.                               *)
Draw(g) ==
  /\ g \in Group \ started /\ Turn(BusOf[g])
  /\ started' = started \cup {g}
  /\ pc' = [c \in Call |-> IF c \in Calls(g) THEN "drawing" ELSE pc[c]]
  /\ seq' = [c \in Call |-> IF c \in Calls(g)
                            THEN counter[BusOf[g]] + (CHOOSE i \in DOMAIN g : g[i] = c)
                            ELSE seq[c]]
  /\ kg' = <<>>
  /\ UNCHANGED <<counter, session, drawn, sent, half>>

Drawing(g) == \A c \in Calls(g) : pc[c] = "drawing"
Signing(g) == [c \in Call |-> IF c \in Calls(g) THEN "signing" ELSE pc[c]]

StoreDrawn(g) ==
  /\ g \in started /\ Drawing(g)
  /\ pc' = Signing(g)
  /\ kg' = Append(kg, counter[BusOf[g]] + 1)
  /\ UNCHANGED <<counter, started, seq, session, drawn, sent, half>>

(* send: the gate moves the counter, before the triple and the mailbox. *)
Send(c) ==
  /\ pc[c] = "signing" /\ Turn(Home(c)) /\ seq[c] > counter[Home(c)]
  /\ counter' = [counter EXCEPT ![Home(c)] = seq[c]]
  /\ kg' = <<>>
  /\ pc' = [pc EXCEPT ![c] = "sending"]
  /\ UNCHANGED <<started, seq, session, drawn, sent, half>>

Refuse(c) ==
  /\ pc[c] = "signing" /\ Turn(Home(c)) /\ seq[c] <= counter[Home(c)]
  /\ pc' = [pc EXCEPT ![c] = "refused"]
  /\ UNCHANGED <<counter, kg, started, seq, session, drawn, sent, half>>

(* After the triple: the convoy is written to the mailbox. *)
Delivered(c) ==
  /\ pc' = [pc EXCEPT ![c] = "sent"]
  /\ sent' = Append(sent, [bus |-> Home(c), session |-> session[Home(c)], seq |-> seq[c]])

(* Or send throws: a BEAD_DISPATCH without plan_checkpoint_id, a mailbox   *)
(* that cannot be written.  The number is used up, and no convoy has it.   *)
Thrown(c) ==
  /\ pc' = [pc EXCEPT ![c] = "threw"]
  /\ UNCHANGED sent

(* Mutant of StoreSent: the triple keeps the number before this one. *)
StorePrevious(c) ==
  /\ pc[c] = "sending"
  /\ kg' = Append(kg, seq[c] - 1)
  /\ Delivered(c) \/ Thrown(c)
  /\ UNCHANGED <<counter, started, seq, session, drawn, half>>

StoreSent(c) ==
  /\ pc[c] = "sending"
  /\ kg' = Append(kg, seq[c])
  /\ Delivered(c) \/ Thrown(c)
  /\ UNCHANGED <<counter, started, seq, session, drawn, half>>

(* The graph refuses the second statement: not fatal. *)
StoreFails ==
  /\ half < MaxHalf /\ half' = half + 1
  /\ \/ \E g \in started : Drawing(g) /\ pc' = Signing(g) /\ UNCHANGED sent
     \/ \E c \in Call : pc[c] = "sending" /\ (Delivered(c) \/ Thrown(c))
  /\ UNCHANGED <<counter, kg, started, seq, session, drawn>>

(* The process of b ends, between the two statements or at an await, and a *)
(* new one reads the graph: newest first, so that the oldest triple wins.  *)
restoreSeqCounters(b) ==
  counter' = [counter EXCEPT ![b] = IF kg = <<>> THEN 0 ELSE Head(kg)]

Gone(b) == {c \in Call : pc[c] \in {"drawing", "signing", "sending"} /\ Home(c) = b}

Restart(b) ==
  /\ session[b] < MaxRestarts
  /\ half' = IF Turn(b) THEN half ELSE half + 1
  /\ half' <= MaxHalf
  /\ session' = [session EXCEPT ![b] = @ + 1]
  /\ restoreSeqCounters(b)
  /\ drawn' = [drawn EXCEPT ![b] = @ \cup {seq[c] : c \in Gone(b)}]
  /\ pc' = [c \in Call |-> IF c \in Gone(b) THEN "gone" ELSE pc[c]]
  /\ UNCHANGED <<kg, started, seq, sent>>

Next ==
  \/ \E g \in Group : Draw(g) \/ StoreDrawn(g)
  \/ \E c \in Call : Send(c) \/ Refuse(c) \/ StoreSent(c)
  \/ StoreFails
  \/ \E b \in Bus : Restart(b)

Spec == Init /\ [][Next]_vars

-----------------------------------------------------------------------------

TypeOK ==
  /\ counter \in [Bus -> Nat] /\ kg \in Seq(Nat)
  /\ started \subseteq Group
  /\ pc \in [Call -> {"idle", "drawing", "signing", "sending", "sent", "threw", "refused",
                      "gone"}]
  /\ seq \in [Call -> Nat]
  /\ \A c \in Call : pc[c] # "idle" => seq[c] > 0
  /\ session \in [Bus -> Nat] /\ drawn \in [Bus -> SUBSET Nat]
  /\ sent \in Seq([bus : Bus, session : Nat, seq : Nat])
  /\ half \in Nat

(* HARDENING.md 3.2, "Sequence counters are never reset": the numbers in   *)
(* the mailboxes grow, across the restarts of the sender's process, as     *)
(* long as no triple was removed without the new one being stored.         *)
Growing == \A i, j \in DOMAIN sent : i < j => sent[i].seq < sent[j].seq
NeverReused == half = 0 => Growing

(* send blames a replay (bus.ts:139).  What is behind a refusal is another *)
(* call of the process that passed the gate with an equal or later number: *)
(* of the calls that share a number one gets past it, although that one    *)
(* may then throw and leave no convoy with it.                             *)
RefusedForAnother ==
  \A c \in Call : pc[c] = "refused" =>
    \E d \in Call \ {c} : Home(d) = Home(c) /\ pc[d] \in {"sent", "threw"} /\ seq[d] >= seq[c]

=============================================================================
