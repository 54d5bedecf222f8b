--------------------------- MODULE ConvoySeq_proofs ---------------------------
(***************************************************************************)
(* A sender with one process reuses no sequence number, for any number of  *)
(* calls, broadcasts and restarts, until a failing write or a restart      *)
(* between the two statements loses the triple.  The invariant: outside    *)
(* that window the graph holds a number the counter does not exceed; in it *)
(* the graph is empty and only one group or call is at work.  And, for any *)
(* number of processes that share the triple: a number is only refused for *)
(* another call of the process, which passed the gate with it or after it. *)
(***************************************************************************)
EXTENDS ConvoySeq, SequenceTheorems, TLAPS

town == CHOOSE b : b \in Bus
OneProcess == Bus = {town}

Pc == {"idle", "drawing", "signing", "sending", "sent", "threw", "refused", "gone"}

Types ==
  /\ counter \in [Bus -> Nat] /\ kg \in Seq(Nat)
  /\ started \subseteq Group
  /\ pc \in [Call -> Pc] /\ seq \in [Call -> Nat]
  /\ session \in [Bus -> Nat]
  /\ sent \in Seq([bus : Bus, session : Nat, seq : Nat])
  /\ half = 0

Kept == IF kg = <<>> THEN 0 ELSE Head(kg)

(* Replacing calls belong together. *)
OneReplaces ==
  \A c, d \in Call : Replacing(c) /\ Replacing(d) =>
    \/ c = d
    \/ \E g \in Group : Drawing(g) /\ c \in Calls(g) /\ d \in Calls(g)

SentUpTo(n) == \A i \in DOMAIN sent : sent[i].seq <= n

SeqInv ==
  /\ Types
  /\ OneReplaces
  /\ IF \E c \in Call : Replacing(c) THEN kg = <<>> ELSE Kept >= counter[town]
  /\ \A c \in Call : pc[c] = "sending" =>
       seq[c] = counter[town] /\ \A i \in DOMAIN sent : sent[i].seq < seq[c]
  /\ SentUpTo(counter[town])
  /\ Growing

LEMMA HomeIsTown == ASSUME OneProcess, NEW c \in Call PROVE Home(c) = town
<1>1. PICK g \in Group : c \in Calls(g)
  BY BusAssumption
<1>2. (CHOOSE h \in Group : c \in Calls(h)) \in Group
  BY <1>1
<1>3. BusOf[CHOOSE h \in Group : c \in Calls(h)] \in Bus
  BY <1>2, BusAssumption
<1> QED BY <1>3 DEF OneProcess, Home

LEMMA TurnOfTown == ASSUME OneProcess PROVE Turn(town) <=> \A c \in Call : ~Replacing(c)
BY HomeIsTown DEF Turn

LEMMA IndexOfCall ==
  ASSUME NEW g \in Group, NEW c \in Calls(g)
  PROVE  (CHOOSE i \in DOMAIN g : g[i] = c) \in Nat \ {0}
<1> DEFINE index == CHOOSE i \in DOMAIN g : g[i] = c
<1>1. index \in DOMAIN g
  BY DEF Calls
<1> HIDE DEF index
<1>2. g \in Seq(Call)
  BY BusAssumption
<1>3. index \in 1 .. Len(g) /\ Len(g) \in Nat
  BY <1>1, <1>2
<1>4. index \in Nat \ {0}
  BY <1>3
<1> QED BY <1>4 DEF index

LEMMA SentTypes ==
  ASSUME Types
  PROVE  /\ DOMAIN sent = 1 .. Len(sent) /\ Len(sent) \in Nat
         /\ \A i \in DOMAIN sent : sent[i].seq \in Nat
<1>1. sent \in Seq([bus : Bus, session : Nat, seq : Nat])
  BY DEF Types
<1>2. DOMAIN sent = 1 .. Len(sent) /\ Len(sent) \in Nat
  BY <1>1
<1>3. \A i \in 1 .. Len(sent) : sent[i] \in [bus : Bus, session : Nat, seq : Nat]
  BY <1>1, ElementOfSeq
<1> QED BY <1>2, <1>3

LEMMA InitSeqInv == ASSUME OneProcess PROVE Init => SeqInv
BY DEF OneProcess, Init, SeqInv, Types, Pc, Kept, OneReplaces, Replacing, SentUpTo, Growing

LEMMA DrawSeqInv ==
  ASSUME OneProcess, SeqInv, NEW g \in Group, Draw(g)
  PROVE  SeqInv'
<1>1. BusOf[g] = town
  BY BusAssumption DEF OneProcess
<1>2. \A c \in Call : ~Replacing(c)
  BY <1>1, TurnOfTown DEF Draw
<1>3. seq' \in [Call -> Nat]
  <2> DEFINE index(c) == CHOOSE i \in DOMAIN g : g[i] = c
  <2>1. \A c \in Calls(g) : index(c) \in Nat
    BY IndexOfCall
  <2>2. seq' = [c \in Call |-> IF c \in Calls(g) THEN counter[BusOf[g]] + index(c) ELSE seq[c]]
    BY DEF Draw
  <2> HIDE DEF index
  <2>3. counter[BusOf[g]] \in Nat
    BY <1>1 DEF OneProcess, SeqInv, Types
  <2> QED BY <2>1, <2>2, <2>3 DEF SeqInv, Types
<1>4. \A c \in Call : pc'[c] = IF c \in Calls(g) THEN "drawing" ELSE pc[c]
  BY DEF Draw
<1>5. Types'
  <2>1. pc' \in [Call -> Pc]
    BY DEF Draw, SeqInv, Types, Pc
  <2>2. kg' \in Seq(Nat)
    BY DEF Draw
  <2> QED BY <1>3, <2>1, <2>2 DEF Draw, SeqInv, Types
<1>6. PICK first \in Calls(g) : first \in Call
  BY BusAssumption DEF Calls
<1>7. Replacing(first)'
  BY <1>4, <1>6 DEF Replacing
<1>8. \A c \in Call : Replacing(c)' => c \in Calls(g) /\ pc'[c] = "drawing"
  BY <1>2, <1>4 DEF Replacing
<1>9. Calls(g) \subseteq Call
  BY BusAssumption DEF Calls
<1>10. OneReplaces'
  <2>1. \A c \in Calls(g) : pc'[c] = "drawing"
    BY <1>4, <1>9
  <2>2. Drawing(g)'
    BY <2>1 DEF Drawing
  <2> QED BY <1>8, <2>2 DEF OneReplaces
<1>11. kg' = <<>> /\ counter' = counter /\ sent' = sent
  BY DEF Draw
<1>12. \A c \in Call : pc'[c] # "sending"
  BY <1>2, <1>4 DEF Replacing
<1> QED
  BY <1>5, <1>6, <1>7, <1>10, <1>11, <1>12 DEF SeqInv, SentUpTo, Growing

LEMMA StoreDrawnSeqInv ==
  ASSUME OneProcess, SeqInv, NEW g \in Group, StoreDrawn(g)
  PROVE  SeqInv'
<1>1. BusOf[g] = town /\ Calls(g) \subseteq Call
  BY BusAssumption DEF OneProcess, Calls
<1>2. PICK first \in Calls(g) : first \in Call
  BY BusAssumption DEF Calls
<1>3. Replacing(first) /\ pc[first] = "drawing"
  BY <1>2 DEF StoreDrawn, Drawing, Replacing
<1>4. \A c \in Call : Replacing(c) => c \in Calls(g)
  BY <1>2, <1>3, BusAssumption DEF SeqInv, OneReplaces
<1>5. \A c \in Call : pc'[c] = IF c \in Calls(g) THEN "signing" ELSE pc[c]
  BY DEF StoreDrawn, Signing
<1>6. \A c \in Call : ~Replacing(c)'
  BY <1>4, <1>5 DEF Replacing
<1>7. kg = <<>>
  BY <1>2, <1>3 DEF SeqInv
<1>8. counter[town] \in Nat
  BY DEF OneProcess, SeqInv, Types
<1>9. kg' = <<counter[town] + 1>>
  BY <1>1, <1>7 DEF StoreDrawn
<1>10. Kept' >= counter[town]
  BY <1>8, <1>9 DEF Kept
<1>11. Types'
  <2>1. pc' \in [Call -> Pc]
    BY DEF StoreDrawn, Signing, SeqInv, Types, Pc
  <2>2. kg' \in Seq(Nat)
    BY <1>8, <1>9
  <2> QED BY <2>1, <2>2 DEF StoreDrawn, SeqInv, Types
<1>12. counter' = counter /\ sent' = sent
  BY DEF StoreDrawn
<1> QED
  BY <1>6, <1>10, <1>11, <1>12 DEF SeqInv, OneReplaces, Replacing, SentUpTo, Growing

LEMMA SendSeqInv ==
  ASSUME OneProcess, SeqInv, NEW c \in Call, Send(c)
  PROVE  SeqInv'
<1>1. Home(c) = town
  BY HomeIsTown
<1>2. \A d \in Call : ~Replacing(d)
  BY <1>1, TurnOfTown DEF Send
<1>3. \A d \in Call : pc'[d] = IF d = c THEN "sending" ELSE pc[d]
  BY DEF Send, SeqInv, Types
<1>4. counter[town] \in Nat /\ seq[c] \in Nat /\ seq[c] > counter[town]
  BY <1>1 DEF OneProcess, Send, SeqInv, Types
<1>5. counter' \in [Bus -> Nat] /\ counter'[town] = seq[c]
  BY <1>1, <1>4 DEF OneProcess, Send, SeqInv, Types
<1>6. seq' = seq /\ sent' = sent /\ kg' = <<>>
  BY DEF Send
<1>7. \A i \in DOMAIN sent : sent[i].seq \in Nat
  BY SentTypes DEF SeqInv
<1>8. \A i \in DOMAIN sent : sent[i].seq < seq[c]
  BY <1>4, <1>7 DEF SeqInv, SentUpTo
<1>9. Types'
  BY <1>5, <1>6 DEF Send, SeqInv, Types, Pc
<1>10. \A d \in Call : Replacing(d)' <=> d = c
  BY <1>2, <1>3 DEF Replacing
<1>11. OneReplaces'
  BY <1>10 DEF OneReplaces
<1>12. \A d \in Call : pc'[d] = "sending" => d = c
  BY <1>10 DEF Replacing
<1>13. SentUpTo(counter[town])'
  BY <1>4, <1>5, <1>6, <1>7, <1>8 DEF SentUpTo
<1> QED
  BY <1>5, <1>6, <1>8, <1>9, <1>10, <1>11, <1>12, <1>13 DEF SeqInv, Growing

(* The convoy in the mailbox has the counter's number, the largest. *)
LEMMA DeliveredGrows ==
  ASSUME OneProcess, SeqInv, NEW c \in Call, pc[c] = "sending", Delivered(c),
         UNCHANGED <<counter, seq>>
  PROVE  /\ sent' \in Seq([bus : Bus, session : Nat, seq : Nat])
         /\ Growing' /\ SentUpTo(counter[town])'
<1> DEFINE new == [bus |-> town, session |-> session[town], seq |-> seq[c]]
<1>1. seq[c] = counter[town] /\ seq[c] \in Nat
  BY DEF SeqInv, Types
<1>2. sent' = Append(sent, new)
  BY HomeIsTown DEF Delivered
<1>3. new \in [bus : Bus, session : Nat, seq : Nat] /\ new.seq = seq[c]
  BY <1>1 DEF OneProcess, SeqInv, Types
<1> HIDE DEF new
<1>4. sent \in Seq([bus : Bus, session : Nat, seq : Nat])
  BY DEF SeqInv, Types
<1>5. /\ DOMAIN sent' = 1 .. Len(sent) + 1
      /\ \A i \in 1 .. Len(sent) : sent'[i] = sent[i]
      /\ sent'[Len(sent) + 1] = new
  BY <1>2, <1>3, <1>4
<1>6. \A i \in 1 .. Len(sent) : sent[i].seq < seq[c] /\ sent[i].seq \in Nat
  BY SentTypes DEF SeqInv
<1>7. Growing'
  <2>1. \A i, j \in 1 .. Len(sent) : i < j => sent[i].seq < sent[j].seq
    BY <1>4 DEF SeqInv, Growing
  <2>2. SUFFICES ASSUME NEW i \in 1 .. Len(sent) + 1, NEW j \in 1 .. Len(sent) + 1, i < j
                 PROVE  sent'[i].seq < sent'[j].seq
    BY <1>5 DEF Growing
  <2>3. i \in 1 .. Len(sent) /\ (j \in 1 .. Len(sent) \/ j = Len(sent) + 1)
    BY <1>4, <2>2
  <2> QED BY <1>3, <1>5, <1>6, <2>1, <2>2, <2>3
<1>8. \A i \in 1 .. Len(sent) + 1 : sent'[i].seq <= seq[c]
  <2>1. SUFFICES ASSUME NEW i \in 1 .. Len(sent) + 1 PROVE sent'[i].seq <= seq[c]
    OBVIOUS
  <2>2. i \in 1 .. Len(sent) \/ i = Len(sent) + 1
    BY <1>4
  <2> QED BY <1>1, <1>3, <1>5, <1>6, <2>2
<1>9. SentUpTo(counter[town])'
  BY <1>1, <1>5, <1>8 DEF SentUpTo
<1> QED BY <1>2, <1>3, <1>4, <1>7, <1>9

LEMMA StoreSentSeqInv ==
  ASSUME OneProcess, SeqInv, NEW c \in Call, StoreSent(c)
  PROVE  SeqInv'
<1>1. Home(c) = town /\ Replacing(c) /\ pc[c] = "sending"
  BY HomeIsTown DEF StoreSent, Replacing
<1>2. \A d \in Call : Replacing(d) => d = c
  BY <1>1 DEF SeqInv, OneReplaces, Drawing
<1>3. \E to \in {"sent", "threw"} : \A d \in Call : pc'[d] = IF d = c THEN to ELSE pc[d]
  BY DEF StoreSent, Delivered, Thrown, SeqInv, Types
<1>4. \A d \in Call : ~Replacing(d)'
  BY <1>2, <1>3 DEF Replacing
<1>5. kg = <<>> /\ seq[c] = counter[town] /\ seq[c] \in Nat
  BY <1>1 DEF SeqInv, Types
<1>6. kg' = <<seq[c]>>
  BY <1>5 DEF StoreSent
<1>7. counter' = counter /\ seq' = seq
  BY DEF StoreSent
<1>8. \A i \in DOMAIN sent : sent[i].seq < seq[c] /\ sent[i].seq \in Nat
  BY <1>1, SentTypes DEF SeqInv
<1>9. /\ sent' \in Seq([bus : Bus, session : Nat, seq : Nat])
      /\ Growing' /\ SentUpTo(counter[town])'
  <2>1. CASE Thrown(c)
    <3>1. sent' = sent
      BY <2>1 DEF Thrown
    <3>2. SentUpTo(counter[town])'
      BY <3>1, <1>5, <1>7, <1>8 DEF SentUpTo
    <3> QED BY <3>1, <3>2 DEF SeqInv, Types, Growing
  <2>2. CASE Delivered(c)
    BY <2>2, <1>1, <1>5, <1>7, DeliveredGrows
  <2> QED BY <2>1, <2>2 DEF StoreSent
<1>10. Types'
  <2>1. pc' \in [Call -> Pc]
    BY DEF StoreSent, Delivered, Thrown, SeqInv, Types, Pc
  <2> QED BY <1>5, <1>6, <1>9, <2>1 DEF StoreSent, SeqInv, Types
<1>11. Kept' >= counter'[town]
  BY <1>5, <1>6, <1>7 DEF Kept
<1>12. \A d \in Call : pc'[d] # "sending"
  BY <1>4 DEF Replacing
<1> QED
  BY <1>4, <1>9, <1>10, <1>11, <1>12 DEF SeqInv, OneReplaces

LEMMA RefuseSeqInv ==
  ASSUME OneProcess, SeqInv, NEW c \in Call, Refuse(c)
  PROVE  SeqInv'
<1>1. \A d \in Call : pc'[d] = IF d = c THEN "refused" ELSE pc[d]
  BY DEF Refuse, SeqInv, Types
<1>2. \A d \in Call : ~Replacing(d)
  BY HomeIsTown, TurnOfTown DEF Refuse
<1>3. \A d \in Call : ~Replacing(d)' /\ pc'[d] # "sending"
  BY <1>1, <1>2 DEF Replacing
<1>4. Types'
  BY DEF Refuse, SeqInv, Types, Pc
<1>5. UNCHANGED <<counter, kg, sent>>
  BY DEF Refuse
<1>6. Kept' >= counter'[town]
  BY <1>2, <1>5 DEF SeqInv, Kept
<1> QED
  BY <1>3, <1>4, <1>5, <1>6 DEF SeqInv, OneReplaces, SentUpTo, Growing

LEMMA RestartSeqInv ==
  ASSUME OneProcess, SeqInv, Restart(town), half' = 0
  PROVE  SeqInv'
<1>1. Turn(town)
  BY DEF OneProcess, Restart, SeqInv, Types
<1>2. \A c \in Call : ~Replacing(c)
  BY <1>1, TurnOfTown
<1>3. Kept >= counter[town] /\ Kept \in Nat /\ counter[town] \in Nat
  BY <1>2 DEF OneProcess, SeqInv, Types, Kept
<1>4. counter' \in [Bus -> Nat] /\ counter'[town] = Kept
  BY <1>3 DEF OneProcess, Restart, restoreSeqCounters, Kept, SeqInv, Types
<1>5. UNCHANGED <<kg, sent, seq>>
  BY DEF Restart
<1>6. \A c \in Call : pc'[c] = IF c \in Gone(town) THEN "gone" ELSE pc[c]
  BY DEF Restart
<1>7. \A c \in Call : ~Replacing(c)' /\ pc'[c] # "sending"
  BY <1>2, <1>6 DEF Replacing
<1>8. Types'
  <2>1. pc' \in [Call -> Pc]
    BY DEF Restart, SeqInv, Types, Pc
  <2>2. session' \in [Bus -> Nat]
    BY DEF OneProcess, Restart, SeqInv, Types
  <2> QED BY <1>4, <2>1, <2>2 DEF Restart, SeqInv, Types
<1>9. \A i \in DOMAIN sent : sent[i].seq \in Nat
  BY SentTypes DEF SeqInv
<1>10. SentUpTo(counter[town])'
  BY <1>3, <1>4, <1>5, <1>9 DEF SeqInv, SentUpTo
<1>11. Kept' >= counter'[town]
  BY <1>3, <1>4, <1>5 DEF Kept
<1> QED
  BY <1>5, <1>7, <1>8, <1>10, <1>11 DEF SeqInv, OneReplaces, Growing

(* What holds once a triple was lost: nothing but that it was lost.        *)
UnlessLost == half \in Nat /\ (half = 0 => SeqInv)

LEMMA StepUnlessLost == ASSUME OneProcess PROVE UnlessLost /\ [Next]_vars => UnlessLost'
<1> SUFFICES ASSUME UnlessLost, [Next]_vars PROVE UnlessLost'
  OBVIOUS
<1>1. half' \in Nat /\ (half' = 0 => half = 0 /\ ~StoreFails)
  <2>1. CASE UNCHANGED vars \/ \E b \in Bus : Restart(b)
    BY <2>1 DEF UnlessLost, vars, Restart, StoreFails
  <2>2. CASE StoreFails
    BY <2>2 DEF UnlessLost, StoreFails
  <2>3. CASE \E g \in Group : Draw(g) \/ StoreDrawn(g)
    BY <2>3 DEF UnlessLost, Draw, StoreDrawn, StoreFails
  <2>4. CASE \E c \in Call : Send(c) \/ Refuse(c) \/ StoreSent(c)
    BY <2>4 DEF UnlessLost, Send, Refuse, StoreSent, StoreFails
  <2> QED BY <2>1, <2>2, <2>3, <2>4 DEF Next
<1>2. SUFFICES ASSUME half' = 0 PROVE SeqInv'
  BY <1>1 DEF UnlessLost
<1>3. SeqInv /\ ~StoreFails
  BY <1>1, <1>2 DEF UnlessLost
<1>4. CASE UNCHANGED vars
  BY <1>3, <1>4 DEF vars, SeqInv, Types, OneReplaces, Replacing, Drawing, Kept, SentUpTo, Growing
<1>5. \A b \in Bus : b = town
  BY DEF OneProcess
<1> QED
  BY <1>2, <1>3, <1>4, <1>5, DrawSeqInv, StoreDrawnSeqInv, SendSeqInv, StoreSentSeqInv,
     RefuseSeqInv, RestartSeqInv DEF Next

(* The sequence numbers in the mailboxes grow, across any number of        *)
(* restarts of one process, until a triple is lost.                        *)
THEOREM NumbersGrow == ASSUME OneProcess PROVE Spec => []NeverReused
<1>1. Init => UnlessLost
  BY InitSeqInv DEF UnlessLost, SeqInv, Types
<1>2. UnlessLost => NeverReused
  BY DEF UnlessLost, SeqInv, NeverReused
<1> QED BY <1>1, <1>2, StepUnlessLost, PTL DEF Spec

-----------------------------------------------------------------------------
(* A refusal has its cause, for any number of processes and whatever the   *)
(* graph lost.  A call draws a number above its counter, and only another  *)
(* call of the same process in the same session moves that counter: so a   *)
(* number the counter has reached is that of a call past the gate, or is   *)
(* smaller.  A restart, which may set the counter to anything, ends the    *)
(* calls of its process that still wait for the gate.                      *)

Behind(c, states) ==
  \E d \in Call : Home(d) = Home(c) /\ pc[d] \in states /\ seq[d] >= seq[c]

Answered(c) == Behind(c, {"sent", "threw"})
Overtaken(c) == Behind(c, {"sending", "sent", "threw"})

Fields ==
  /\ counter \in [Bus -> Nat] /\ kg \in Seq(Nat)
  /\ pc \in [Call -> Pc] /\ seq \in [Call -> Nat]

(* The calls of a group are made together. *)
Fresh == \A g \in Group \ started : \A c \in Calls(g) : pc[c] = "idle"

Caused ==
  /\ \A c \in Call : pc[c] \in {"drawing", "signing"} /\ seq[c] <= counter[Home(c)] => Overtaken(c)
  /\ \A c \in Call : pc[c] = "refused" => Answered(c)

CauseInv == Fields /\ Fresh /\ Caused

(* The groups are disjoint: the bus of a call is its group's. *)
LEMMA HomeOfGroup ==
  ASSUME NEW g \in Group, NEW c \in Calls(g) PROVE Home(c) = BusOf[g] /\ c \in Call
<1>1. c \in Call
  BY BusAssumption DEF Calls
<1>2. (CHOOSE h \in Group : c \in Calls(h)) = g
  BY BusAssumption
<1> QED BY <1>1, <1>2 DEF Home

LEMMA HomeIsBus == ASSUME NEW c \in Call PROVE Home(c) \in Bus
<1>1. PICK g \in Group : c \in Calls(g)
  BY BusAssumption
<1> QED BY <1>1, HomeOfGroup, BusAssumption

(* Calls past the gate stay there, with their numbers, unless one is       *)
(* stopped while its triple is replaced.                                   *)
LEMMA OvertakenStays ==
  ASSUME \A d \in Call : pc[d] \in {"sent", "threw"} => pc'[d] = pc[d] /\ seq'[d] = seq[d],
         NEW c \in Call, seq'[c] = seq[c]
  PROVE  /\ Answered(c) => Answered(c)'
         /\ Overtaken(c) /\ (\A d \in Call : pc[d] = "sending" /\ Home(d) = Home(c) =>
                               pc'[d] \in {"sending", "sent", "threw"} /\ seq'[d] = seq[d])
              => Overtaken(c)'
BY DEF Answered, Overtaken, Behind, Home

(* Drawing: the new numbers are above the counter. *)
LEMMA DrawCause ==
  ASSUME CauseInv, NEW g \in Group, Draw(g) PROVE Fields' /\ Caused'
<1> DEFINE index(c) == CHOOSE i \in DOMAIN g : g[i] = c
<1>1. \A c \in Calls(g) : index(c) \in Nat \ {0}
  BY IndexOfCall
<1>2. seq' = [c \in Call |-> IF c \in Calls(g) THEN counter[BusOf[g]] + index(c) ELSE seq[c]]
  BY DEF Draw
<1> HIDE DEF index
<1>3. counter[BusOf[g]] \in Nat
  BY BusAssumption DEF CauseInv, Fields
<1>4. Fields'
  <2>1. seq' \in [Call -> Nat]
    BY <1>1, <1>2, <1>3 DEF CauseInv, Fields
  <2>2. pc' \in [Call -> Pc]
    BY DEF Draw, CauseInv, Fields, Pc
  <2>3. kg' \in Seq(Nat)
    BY DEF Draw
  <2> QED BY <2>1, <2>2, <2>3 DEF Draw, CauseInv, Fields
<1>5. \A c \in Call : pc'[c] = IF c \in Calls(g) THEN "drawing" ELSE pc[c]
  BY DEF Draw
<1>6. \A c \in Calls(g) : pc[c] = "idle"
  BY DEF Draw, CauseInv, Fresh
<1>7. counter' = counter
  BY DEF Draw
<1>8. \A d \in Call : pc[d] \in {"sending", "sent", "threw"} => pc'[d] = pc[d] /\ seq'[d] = seq[d]
  BY <1>2, <1>5, <1>6
<1>9. ASSUME NEW c \in Call, c \notin Calls(g)
      PROVE  seq'[c] = seq[c] /\ (Answered(c) => Answered(c)') /\ (Overtaken(c) => Overtaken(c)')
  <2>1. seq'[c] = seq[c]
    BY <1>2, <1>9
  <2> QED BY <2>1, <1>8, OvertakenStays
<1>10. ASSUME NEW c \in Call, pc'[c] \in {"drawing", "signing"}, seq'[c] <= counter'[Home(c)]
       PROVE  Overtaken(c)'
  <2>1. c \notin Calls(g)
    <3>1. ASSUME c \in Calls(g) PROVE FALSE
      <4>1. Home(c) = BusOf[g]
        BY <3>1, HomeOfGroup
      <4>2. seq'[c] = counter[BusOf[g]] + index(c) /\ index(c) \in Nat \ {0}
        BY <3>1, <1>1, <1>2
      <4> QED BY <1>3, <1>7, <1>10, <4>1, <4>2
    <3> QED BY <3>1
  <2> QED BY <1>5, <1>7, <1>9, <1>10, <2>1 DEF CauseInv, Caused
<1>11. ASSUME NEW c \in Call, pc'[c] = "refused" PROVE Answered(c)'
  BY <1>5, <1>9, <1>11 DEF CauseInv, Caused
<1> QED BY <1>4, <1>10, <1>11 DEF Caused, Home

(* Between the statements of a draw nothing moves. *)
LEMMA SigningCause ==
  ASSUME CauseInv, NEW g, Drawing(g), pc' = Signing(g), UNCHANGED <<counter, seq>>
  PROVE  Caused'
<1>1. \A c \in Call : pc'[c] = IF c \in Calls(g) THEN "signing" ELSE pc[c]
  BY DEF Signing
<1>2. \A c \in Calls(g) : pc[c] = "drawing"
  BY DEF Drawing
<1>3. \A c \in Call : (Answered(c) => Answered(c)') /\ (Overtaken(c) => Overtaken(c)')
  BY <1>1, <1>2, OvertakenStays
<1> QED BY <1>1, <1>2, <1>3 DEF CauseInv, Caused, Home

(* The gate: whoever passes overtakes those it leaves behind. *)
LEMMA SendCause ==
  ASSUME CauseInv, NEW d \in Call, Send(d) PROVE Fields' /\ Caused'
<1>1. \A c \in Call : pc'[c] = IF c = d THEN "sending" ELSE pc[c]
  BY DEF Send, CauseInv, Fields
<1>2. counter' = [counter EXCEPT ![Home(d)] = seq[d]] /\ seq' = seq
  BY DEF Send
<1>3. Fields'
  <2>1. pc' \in [Call -> Pc] /\ counter' \in [Bus -> Nat]
    BY <1>2 DEF Send, CauseInv, Fields, Pc
  <2> QED BY <2>1 DEF Send, CauseInv, Fields
<1>4. \A c \in Call : (Answered(c) => Answered(c)') /\ (Overtaken(c) => Overtaken(c)')
  BY <1>1, <1>2, OvertakenStays DEF Send
<1>5. ASSUME NEW c \in Call, pc'[c] \in {"drawing", "signing"}, seq'[c] <= counter'[Home(c)]
      PROVE  Overtaken(c)'
  <2>1. c # d /\ pc[c] \in {"drawing", "signing"}
    BY <1>1, <1>5
  <2>2. CASE Home(c) = Home(d)
    <3>1. counter'[Home(c)] = seq[d] /\ seq[d] \in Nat /\ seq[c] \in Nat
      BY <1>2, <2>2, HomeIsBus DEF CauseInv, Fields
    <3>2. pc'[d] = "sending" /\ Home(d) = Home(c) /\ seq'[d] >= seq'[c]
      BY <1>1, <1>2, <1>5, <2>2, <3>1
    <3> QED BY <3>2 DEF Overtaken, Behind, Home
  <2>3. CASE Home(c) # Home(d)
    <3>1. counter'[Home(c)] = counter[Home(c)]
      BY <1>2, <2>3, HomeIsBus DEF CauseInv, Fields
    <3> QED BY <1>2, <1>4, <1>5, <2>1, <3>1 DEF CauseInv, Caused
  <2> QED BY <2>2, <2>3
<1>6. ASSUME NEW c \in Call, pc'[c] = "refused" PROVE Answered(c)'
  BY <1>1, <1>4, <1>6 DEF CauseInv, Caused
<1> QED BY <1>3, <1>5, <1>6 DEF Caused, Home

(* Nobody is being stored on its bus: who is refused was answered. *)
LEMMA RefuseCause ==
  ASSUME CauseInv, NEW d \in Call, Refuse(d) PROVE Caused'
<1>1. \A c \in Call : pc'[c] = IF c = d THEN "refused" ELSE pc[c]
  BY DEF Refuse, CauseInv, Fields
<1>2. counter' = counter /\ seq' = seq /\ pc[d] = "signing"
  BY DEF Refuse
<1>3. Answered(d)
  <2>1. Overtaken(d)
    BY DEF Refuse, CauseInv, Caused
  <2> QED BY <2>1 DEF Refuse, Turn, Replacing, Overtaken, Answered, Behind
<1>4. \A c \in Call : (Answered(c) => Answered(c)') /\ (Overtaken(c) => Overtaken(c)')
  BY <1>1, <1>2, OvertakenStays
<1> QED BY <1>1, <1>2, <1>3, <1>4 DEF CauseInv, Caused, Home

(* The triple stored, with the convoy or without: the call is past it. *)
LEMMA StoredCause ==
  ASSUME CauseInv, NEW d \in Call, pc[d] = "sending", Delivered(d) \/ Thrown(d),
         UNCHANGED <<counter, seq>>
  PROVE  pc' \in [Call -> Pc] /\ Caused'
<1>1. PICK to \in {"sent", "threw"} : \A c \in Call : pc'[c] = IF c = d THEN to ELSE pc[c]
  BY DEF Delivered, Thrown, CauseInv, Fields
<1>2. pc' \in [Call -> Pc]
  BY DEF Delivered, Thrown, CauseInv, Fields, Pc
<1>3. \A c \in Call : (Answered(c) => Answered(c)') /\ (Overtaken(c) => Overtaken(c)')
  BY <1>1, OvertakenStays
<1> QED BY <1>1, <1>2, <1>3 DEF CauseInv, Caused, Home

(* A restart ends the calls whose counter it moves, and their rivals. *)
LEMMA RestartCause ==
  ASSUME CauseInv, NEW b \in Bus, Restart(b) PROVE Fields' /\ Caused'
<1>1. \A c \in Call : pc'[c] = IF c \in Gone(b) THEN "gone" ELSE pc[c]
  BY DEF Restart
<1>2. seq' = seq /\ kg' = kg
  BY DEF Restart
<1>3. counter' \in [Bus -> Nat] /\ \A a \in Bus \ {b} : counter'[a] = counter[a]
  <2>1. (IF kg = <<>> THEN 0 ELSE Head(kg)) \in Nat
    BY DEF CauseInv, Fields
  <2> QED BY <2>1 DEF Restart, restoreSeqCounters, CauseInv, Fields
<1>4. Fields'
  <2>1. pc' \in [Call -> Pc]
    BY DEF Restart, CauseInv, Fields, Pc
  <2> QED BY <1>2, <1>3, <2>1 DEF CauseInv, Fields
<1>5. \A c \in Call : Answered(c) => Answered(c)'
  BY <1>1, <1>2, OvertakenStays DEF Gone
<1>6. ASSUME NEW c \in Call, pc'[c] \in {"drawing", "signing"}, seq'[c] <= counter'[Home(c)]
      PROVE  Overtaken(c)'
  <2>1. c \notin Gone(b) /\ pc[c] = pc'[c]
    BY <1>1, <1>6
  <2>2. Home(c) \in Bus \ {b}
    BY <1>6, <2>1, HomeIsBus DEF Gone
  <2>3. Overtaken(c)
    BY <1>2, <1>3, <1>6, <2>1, <2>2 DEF CauseInv, Caused
  <2>4. \A d \in Call : pc[d] = "sending" /\ Home(d) = Home(c) => d \notin Gone(b)
    BY <2>2 DEF Gone
  <2>5. \A d \in Call : pc[d] \in {"sent", "threw"} => pc'[d] = pc[d] /\ seq'[d] = seq[d]
    BY <1>1, <1>2 DEF Gone
  <2> QED BY <1>1, <1>2, <2>3, <2>4, <2>5, OvertakenStays
<1>7. ASSUME NEW c \in Call, pc'[c] = "refused" PROVE Answered(c)'
  BY <1>1, <1>5, <1>7 DEF CauseInv, Caused
<1> QED BY <1>4, <1>6, <1>7 DEF Caused, Home

(* Only Draw takes calls out of "idle". *)
LEMMA FreshStep == ASSUME CauseInv, [Next]_vars PROVE Fresh'
<1>1. ASSUME NEW g \in Group, Draw(g) PROVE Fresh'
  <2>1. started' = started \cup {g}
    BY <1>1 DEF Draw
  <2>2. \A c \in Call : pc'[c] = IF c \in Calls(g) THEN "drawing" ELSE pc[c]
    BY <1>1 DEF Draw
  <2>3. ASSUME NEW h \in Group \ started', NEW c \in Calls(h) PROVE pc'[c] = "idle"
    <3>1. h \in Group \ started /\ h # g
      BY <2>1, <2>3
    <3>2. c \notin Calls(g)
      BY <3>1, BusAssumption
    <3> QED BY <2>2, <3>1, <3>2, HomeOfGroup DEF CauseInv, Fresh
  <2> QED BY <2>3 DEF Fresh
<1>2. ASSUME started' = started, \A c \in Call : pc[c] = "idle" => pc'[c] = "idle"
      PROVE  Fresh'
  BY <1>2, HomeOfGroup DEF CauseInv, Fresh
<1>3. CASE \E g \in Group : StoreDrawn(g)
  BY <1>2, <1>3 DEF StoreDrawn, Signing, Drawing
<1>4. CASE \E c \in Call : Send(c) \/ Refuse(c)
  BY <1>2, <1>4 DEF Send, Refuse, CauseInv, Fields
<1>5. CASE \E c \in Call : StoreSent(c)
  BY <1>2, <1>5 DEF StoreSent, Delivered, Thrown, CauseInv, Fields
<1>6. CASE StoreFails
  BY <1>2, <1>6 DEF StoreFails, Signing, Drawing, Delivered, Thrown, CauseInv, Fields
<1>7. CASE \E b \in Bus : Restart(b)
  BY <1>2, <1>7 DEF Restart, Gone
<1>8. CASE UNCHANGED vars
  BY <1>2, <1>8 DEF vars
<1> QED BY <1>1, <1>3, <1>4, <1>5, <1>6, <1>7, <1>8 DEF Next

LEMMA CauseStep == CauseInv /\ [Next]_vars => CauseInv'
<1> SUFFICES ASSUME CauseInv, [Next]_vars PROVE Fields' /\ Caused'
  BY FreshStep DEF CauseInv
<1>1. ASSUME NEW g \in Group, StoreDrawn(g) PROVE Fields' /\ Caused'
  <2>1. Drawing(g) /\ pc' = Signing(g) /\ UNCHANGED <<counter, seq>>
    BY <1>1 DEF StoreDrawn
  <2>2. counter[BusOf[g]] + 1 \in Nat
    BY BusAssumption DEF CauseInv, Fields
  <2>3. pc' \in [Call -> Pc] /\ kg' \in Seq(Nat)
    BY <1>1, <2>2 DEF StoreDrawn, Signing, CauseInv, Fields, Pc
  <2> QED BY <2>1, <2>3, SigningCause DEF CauseInv, Fields
<1>2. ASSUME NEW c \in Call, StoreSent(c) PROVE Fields' /\ Caused'
  <2>1. /\ pc[c] = "sending" /\ (Delivered(c) \/ Thrown(c))
        /\ UNCHANGED <<counter, seq>> /\ kg' = Append(kg, seq[c])
    BY <1>2 DEF StoreSent
  <2>2. kg' \in Seq(Nat)
    BY <2>1 DEF CauseInv, Fields
  <2> QED BY <2>1, <2>2, StoredCause DEF CauseInv, Fields
<1>3. ASSUME StoreFails PROVE Fields' /\ Caused'
  <2>1. UNCHANGED <<counter, seq, kg>>
    BY <1>3 DEF StoreFails
  <2>2. CASE \E g \in started : Drawing(g) /\ pc' = Signing(g)
    <3>1. PICK g \in started : Drawing(g) /\ pc' = Signing(g)
      BY <2>2
    <3>2. pc' \in [Call -> Pc]
      BY <3>1 DEF Signing, CauseInv, Fields, Pc
    <3> QED BY <2>1, <3>1, <3>2, SigningCause DEF CauseInv, Fields
  <2>3. CASE \E c \in Call : pc[c] = "sending" /\ (Delivered(c) \/ Thrown(c))
    BY <2>1, <2>3, StoredCause DEF CauseInv, Fields
  <2> QED BY <1>3, <2>2, <2>3 DEF StoreFails
<1>4. ASSUME NEW c \in Call, Refuse(c) PROVE Fields' /\ Caused'
  <2>1. Fields'
    BY <1>4 DEF Refuse, CauseInv, Fields, Pc
  <2> QED BY <1>4, <2>1, RefuseCause
<1>5. CASE UNCHANGED vars
  BY <1>5 DEF vars, CauseInv, Fields, Caused, Overtaken, Answered, Behind, Home
<1> QED
  BY <1>1, <1>2, <1>3, <1>4, <1>5, DrawCause, SendCause, RestartCause DEF Next

(* Of the calls that drew a number, one that is refused was overtaken:     *)
(* another call of its process passed the gate of ConvoyBus.send with an   *)
(* equal or a later number, whether its convoy was delivered or send threw *)
(* after the gate; for any number of processes, broadcasts, restarts and   *)
(* lost triples.                                                           *)
THEOREM RefusalsHaveCause == Spec => []RefusedForAnother
<1>1. Init => CauseInv
  <2> SUFFICES ASSUME Init PROVE CauseInv
    OBVIOUS
  <2>1. \A c \in Call : pc[c] = "idle"
    BY DEF Init
  <2>2. Fields
    BY DEF Init, Fields, Pc
  <2>3. Fresh
    BY <2>1, HomeOfGroup DEF Fresh
  <2> QED BY <2>1, <2>2, <2>3 DEF CauseInv, Caused
<1>2. CauseInv => RefusedForAnother
  <2>1. ASSUME CauseInv, NEW c \in Call, pc[c] = "refused"
        PROVE  \E d \in Call \ {c} :
                 Home(d) = Home(c) /\ pc[d] \in {"sent", "threw"} /\ seq[d] >= seq[c]
    BY <2>1 DEF CauseInv, Caused, Answered, Behind
  <2> QED BY <2>1 DEF RefusedForAnother
<1> QED BY <1>1, <1>2, CauseStep, PTL DEF Spec
=============================================================================
