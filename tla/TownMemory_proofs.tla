-------------------------- MODULE TownMemory_proofs --------------------------
(***************************************************************************)
(* Proofs about KnowledgeGraph and TownMemory.  The lemmas keep the        *)
(* invariant of the graph along each statement; the theorems then only     *)
(* need that every step of the town is such a statement or leaves the      *)
(* graph alone.  The last part is about the Historian's runs and what the  *)
(* router makes of their rows.                                             *)
(***************************************************************************)
EXTENDS TownMemory, FiniteSetTheorems, TLAPS

(* No row and no date of a writer is of a later day, rows outside the      *)
(* critical relations are never ended, and the rivals of a writer are the  *)
(* other rows of the key of its row, which is critical.                    *)
Dated ==
  /\ \A i \in DOMAIN triples : triples[i].from <= day
  /\ \A p \in Process : writing[p].asof <= day
KeptUnlessCritical == \A i \in DOMAIN triples : Critical(i) \/ Standing(i)
Writer(p) ==
  IF writing[p].pc = "idle" THEN writing[p].rivals = {}
  ELSE /\ writing[p].id \in DOMAIN triples /\ Critical(writing[p].id)
       /\ \A k \in writing[p].rivals :
            k \in DOMAIN triples /\ k # writing[p].id /\ SameKey(k, writing[p].id)
(* Of any two rows of a critical key, whatever their objects and dates.    *)
RivalsResolved ==
  \A j \in DOMAIN triples : \A i \in 1 .. (j - 1) :
    Critical(i) /\ SameKey(i, j) /\ Standing(i) /\ Standing(j) =>
      Unsettled(i, j) \/ (Rank(i) = Rank(j) /\ triples[i].pending)
KGInv ==
  /\ KGTypeOK /\ Dated /\ KeptUnlessCritical /\ \A p \in Process : Writer(p)
  /\ StrongestStands /\ RivalsResolved

(* A rank is a natural number. *)
LEMMA RankType == ASSUME KGTypeOK, NEW i \in DOMAIN triples
                  PROVE  Rank(i) \in Nat /\ triples[i] \in Row
<1>1. triples[i] \in Row
  BY DEF KGTypeOK
<1>2. triples[i].agent \in DOMAIN ROLE_PRECEDENCE
  BY <1>1 DEF Row
<1> QED BY <1>1, <1>2 DEF Rank, ROLE_PRECEDENCE

(* The empty table. *)
LEMMA InitKGInv == ASSUME DayAssumption, KGInit PROVE KGInv
<1>1. KGTypeOK
  BY DayAssumption DEF DayAssumption, KGInit, KGTypeOK, Idle
<1> QED
  BY <1>1, DayAssumption
     DEF DayAssumption, KGInit, KGInv, Idle, Dated, KeptUnlessCritical, Writer, StrongestStands,
         RivalsResolved

(* The INSERT of addTriple. *)
LEMMA InsertKeeps ==
  ASSUME KGInv, NEW p \in Process, NEW row \in Row, Unwritten(row), addTriple(p, row)
  PROVE  KGInv'
<1> DEFINE n == Len(triples) + 1
<1>1. /\ triples \in Seq(Row) /\ n \in Nat /\ n = Len(triples) + 1
      /\ DOMAIN triples = 1 .. (n - 1) /\ DOMAIN triples' = 1 .. n
      /\ triples' \in Seq(Row) /\ triples'[n] = row
      /\ \A i \in 1 .. (n - 1) : triples'[i] = triples[i] /\ i # n
  BY DEF KGInv, KGTypeOK, addTriple
<1>2. KGTypeOK'
  <2>1. orphans' \subseteq DOMAIN triples' /\ day' \in 1 .. MaxDay
    BY <1>1 DEF KGInv, KGTypeOK, addTriple
  <2>2. writing' \in [Process -> [pc : {"idle", "inserted", "settling"}, id : Nat,
                                  rivals : SUBSET Nat, asof : 0 .. MaxDay]]
    BY <1>1, DayAssumption DEF DayAssumption, KGInv, KGTypeOK, addTriple, Idle
  <2> QED BY <1>1, <2>1, <2>2 DEF KGTypeOK
<1>3. Dated'
  <2>1. \A i \in DOMAIN triples' : triples'[i].from <= day
    BY <1>1 DEF KGInv, Dated, Unwritten
  <2>2. \A q \in Process : writing'[q].asof <= day
    BY DEF KGInv, KGTypeOK, Dated, addTriple, Idle
  <2> QED BY <2>1, <2>2 DEF Dated, addTriple
<1>4. KeptUnlessCritical'
  BY <1>1 DEF KGInv, KeptUnlessCritical, Critical, Standing, Unwritten
<1>5. ASSUME NEW q \in Process PROVE Writer(q)'
  <2>1. CASE q = p
    BY <2>1, <1>1 DEF KGInv, KGTypeOK, Writer, addTriple, Idle, Critical
  <2>2. CASE q # p
    <3>1. writing'[q] = writing[q] /\ Writer(q)
      BY <2>2 DEF KGInv, KGTypeOK, addTriple
    <3> QED BY <3>1, <1>1 DEF Writer, Critical, SameKey
  <2> QED BY <2>1, <2>2
<1>6. StrongestStands'
  <2> SUFFICES ASSUME NEW i \in 1 .. n, Critical(i)'
               PROVE  \E j \in DOMAIN triples' : (SameKey(i, j) /\ Rank(j) >= Rank(i) /\ Standing(j))'
    BY <1>1 DEF StrongestStands
  <2>1. CASE i = n
    <3> row.agent \in DOMAIN ROLE_PRECEDENCE
      BY DEF Row
    <3>1. ROLE_PRECEDENCE[row.agent] \in Nat
      BY DEF ROLE_PRECEDENCE
    <3>2. (SameKey(i, i) /\ Rank(i) >= Rank(i) /\ Standing(i))'
      BY <2>1, <3>1, <1>1 DEF SameKey, Rank, Standing, Unwritten
    <3> QED BY <2>1, <3>2, <1>1
  <2>2. CASE i # n
    <3>1. i \in DOMAIN triples /\ Critical(i)
      BY <2>2, <1>1 DEF Critical
    <3>2. PICK j \in DOMAIN triples : SameKey(i, j) /\ Rank(j) >= Rank(i) /\ Standing(j)
      BY <3>1 DEF KGInv, StrongestStands
    <3> QED BY <3>1, <3>2, <1>1 DEF SameKey, Rank, Standing
  <2> QED BY <2>1, <2>2
<1>7. RivalsResolved'
  <2> SUFFICES ASSUME NEW j \in 1 .. n, NEW i \in 1 .. (j - 1),
                      (Critical(i) /\ SameKey(i, j) /\ Standing(i) /\ Standing(j))'
               PROVE  (Unsettled(i, j) \/ (Rank(i) = Rank(j) /\ triples[i].pending))'
    BY <1>1 DEF RivalsResolved
  <2>1. CASE j = n
    <3>1. writing'[p].pc = "inserted" /\ writing'[p].id = n
      BY <2>1, <1>1 DEF KGInv, KGTypeOK, addTriple, Idle, Critical, SameKey
    <3> QED BY <2>1, <3>1 DEF Unsettled
  <2>2. CASE j # n
    <3>1. /\ j \in DOMAIN triples /\ i \in 1 .. (j - 1)
          /\ Critical(i) /\ SameKey(i, j) /\ Standing(i) /\ Standing(j)
      BY <2>2, <1>1 DEF Critical, SameKey, Standing
    <3>2. Unsettled(i, j) \/ (Rank(i) = Rank(j) /\ triples[i].pending)
      BY <3>1 DEF KGInv, RivalsResolved
    <3>3. ASSUME NEW q \in Process, writing[q].id = j,
                 writing[q].pc = "inserted" \/ i \in writing[q].rivals
          PROVE  Unsettled(i, j)'
      <4>1. q # p
        BY <3>3 DEF KGInv, Writer, addTriple
      <4> QED BY <3>3, <4>1 DEF KGInv, KGTypeOK, addTriple, Unsettled
    <3>4. j \in orphans => Unsettled(i, j)'
      BY DEF addTriple, Unsettled
    <3> QED BY <3>1, <3>2, <3>3, <3>4, <1>1 DEF Unsettled, Rank
  <2> QED BY <2>1, <2>2
<1> QED BY <1>2, <1>3, <1>4, <1>5, <1>6, <1>7 DEF KGInv

(* The SELECT of resolveCriticalConflicts. *)
LEMMA SelectKeeps ==
  ASSUME KGInv, NEW p \in Process, selectConflicts(p)
  PROVE  KGInv'
<1> DEFINE id == writing[p].id
           rivals == {k \in DOMAIN triples : SameKey(k, id) /\ k # id /\ Active(k)}
<1>1. /\ triples' = triples /\ day' = day /\ orphans' = orphans
      /\ writing[p].pc = "inserted"
      /\ writing' = [writing EXCEPT ![p] =
           IF rivals = {} THEN Idle
           ELSE [pc |-> "settling", id |-> id, rivals |-> rivals, asof |-> day]]
  BY DEF selectConflicts
<1>2. /\ id \in DOMAIN triples /\ Critical(id) /\ id \in Nat /\ day \in 0 .. MaxDay
      /\ DOMAIN triples \subseteq Nat
  BY <1>1, DayAssumption DEF DayAssumption, KGInv, KGTypeOK, Writer
<1>3. rivals \in SUBSET Nat
  BY <1>2
<1> HIDE DEF rivals
<1>4. KGTypeOK'
  BY <1>1, <1>2, <1>3, DayAssumption DEF DayAssumption, KGInv, KGTypeOK, Idle
<1>5. Dated'
  BY <1>1, <1>2, DayAssumption DEF DayAssumption, KGInv, KGTypeOK, Dated, Idle
<1>6. KeptUnlessCritical' /\ StrongestStands'
  BY <1>1 DEF KGInv, KeptUnlessCritical, StrongestStands, Critical, Standing, SameKey, Rank
<1>7. ASSUME NEW q \in Process PROVE Writer(q)'
  <2>1. CASE q = p
    <3>1. \A k \in rivals : k \in DOMAIN triples /\ k # id /\ SameKey(k, id)
      BY DEF rivals
    <3>2. CASE rivals = {}
      BY <2>1, <3>2, <1>1 DEF KGInv, KGTypeOK, Writer, Idle
    <3>3. CASE rivals # {}
      BY <2>1, <3>1, <3>3, <1>1, <1>2 DEF KGInv, KGTypeOK, Writer, Critical, SameKey
    <3> QED BY <3>2, <3>3
  <2>2. CASE q # p
    BY <2>2, <1>1 DEF KGInv, KGTypeOK, Writer, Critical, SameKey
  <2> QED BY <2>1, <2>2
<1>8. RivalsResolved'
  <2> SUFFICES ASSUME NEW j \in DOMAIN triples, NEW i \in 1 .. (j - 1),
                      Critical(i), SameKey(i, j), Standing(i), Standing(j)
               PROVE  Unsettled(i, j)' \/ (Rank(i) = Rank(j) /\ triples[i].pending)
    BY <1>1 DEF RivalsResolved, Critical, SameKey, Standing, Rank
  <2>1. Unsettled(i, j) \/ (Rank(i) = Rank(j) /\ triples[i].pending)
    BY DEF KGInv, RivalsResolved
  <2>2. ASSUME NEW q \in Process, writing[q].id = j,
               writing[q].pc = "inserted" \/ i \in writing[q].rivals
        PROVE  Unsettled(i, j)'
    <3>1. CASE q = p
      <4>1. i \in DOMAIN triples /\ i # j /\ Active(i)
        BY DEF KGInv, KGTypeOK, Dated, Active, Standing
      <4>2. i \in rivals
        BY <4>1, <3>1, <2>2 DEF rivals
      <4>3. writing'[p].id = j /\ i \in writing'[p].rivals
        BY <4>2, <3>1, <2>2, <1>1 DEF KGInv, KGTypeOK
      <4> QED BY <4>3 DEF Unsettled
    <3>2. CASE q # p
      BY <2>2, <3>2, <1>1 DEF KGInv, KGTypeOK, Unsettled
    <3> QED BY <3>1, <3>2
  <2>3. j \in orphans => Unsettled(i, j)'
    BY <1>1 DEF Unsettled
  <2> QED BY <2>1, <2>2, <2>3 DEF Unsettled
<1> QED BY <1>4, <1>5, <1>6, <1>7, <1>8 DEF KGInv

(* A writer dies between two statements. *)
LEMMA DieKeeps ==
  ASSUME KGInv, NEW p \in Process, die(p)
  PROVE  KGInv'
<1>1. KGTypeOK' /\ Dated'
  <2>1. orphans' \subseteq DOMAIN triples
    BY DEF KGInv, KGTypeOK, Writer, die
  <2> QED BY <2>1, DayAssumption DEF DayAssumption, KGInv, KGTypeOK, Dated, die, Idle
<1>2. KeptUnlessCritical' /\ StrongestStands'
  BY DEF KGInv, KeptUnlessCritical, StrongestStands, Critical, Standing, SameKey, Rank, die
<1>3. ASSUME NEW q \in Process PROVE Writer(q)'
  <2>1. CASE q = p
    BY <2>1 DEF KGInv, KGTypeOK, Writer, die, Idle
  <2>2. CASE q # p
    BY <2>2 DEF KGInv, KGTypeOK, Writer, die, Critical, SameKey
  <2> QED BY <2>1, <2>2
<1>4. RivalsResolved'
  <2> SUFFICES ASSUME NEW j \in DOMAIN triples, NEW i \in 1 .. (j - 1), Unsettled(i, j)
               PROVE  Unsettled(i, j)'
    BY DEF KGInv, RivalsResolved, Critical, SameKey, Standing, Rank, die
  <2>1. ASSUME NEW q \in Process, writing[q].id = j,
               writing[q].pc = "inserted" \/ i \in writing[q].rivals
        PROVE  Unsettled(i, j)'
    <3>1. CASE q = p
      <4>1. writing[q].pc # "idle"
        BY <2>1 DEF KGInv, Writer
      <4>2. j \in orphans'
        BY <2>1, <3>1, <4>1 DEF die
      <4> QED BY <4>2 DEF Unsettled
    <3>2. CASE q # p
      BY <2>1, <3>2 DEF KGInv, KGTypeOK, Unsettled, die
    <3> QED BY <3>1, <3>2
  <2>2. j \in orphans => Unsettled(i, j)'
    BY DEF Unsettled, die
  <2> QED BY <2>1, <2>2 DEF Unsettled
<1> QED BY <1>1, <1>2, <1>3, <1>4 DEF KGInv

(* The next day changes no row. *)
LEMMA TomorrowKeeps == ASSUME KGInv, tomorrow PROVE KGInv'
<1>1. day' = day + 1 /\ day < MaxDay /\ UNCHANGED <<triples, writing, orphans>>
  BY DEF tomorrow
<1>2. KGTypeOK'
  BY <1>1, DayAssumption DEF DayAssumption, KGInv, KGTypeOK
<1>3. Dated'
  <2> SUFFICES /\ \A i \in DOMAIN triples : triples[i].from <= day + 1
               /\ \A p \in Process : writing[p].asof <= day + 1
    BY <1>1 DEF Dated
  <2>1. \A i \in DOMAIN triples : triples[i].from \in 0 .. MaxDay
    <3> SUFFICES ASSUME NEW i \in DOMAIN triples PROVE triples[i].from \in 0 .. MaxDay
      OBVIOUS
    <3>1. triples[i] \in Row
      BY DEF KGInv, KGTypeOK
    <3> QED BY <3>1 DEF Row
  <2>2. \A p \in Process : writing[p].asof \in 0 .. MaxDay
    BY DEF KGInv, KGTypeOK
  <2> QED BY <2>1, <2>2, DayAssumption DEF DayAssumption, KGInv, KGTypeOK, Dated
<1>4. KeptUnlessCritical' /\ StrongestStands' /\ \A p \in Process : Writer(p)'
  BY <1>1 DEF KGInv, KeptUnlessCritical, StrongestStands, Writer, Critical, Standing, SameKey, Rank
<1>5. RivalsResolved'
  BY <1>1 DEF KGInv, RivalsResolved, Unsettled, Critical, Standing, SameKey, Rank
<1> QED BY <1>2, <1>3, <1>4, <1>5 DEF KGInv

(* One turn of its loop.  What ends is weaker than a row that has its own  *)
(* strongest one, which is another row than the one that ends.             *)
LEMMA SettleKeeps ==
  ASSUME KGInv, NEW p \in Process, NEW k \in writing[p].rivals, settleConflict(p, k)
  PROVE  KGInv'
<1> SUFFICES ASSUME NEW new, NEW asof, new = writing[p].id, asof = writing[p].asof
             PROVE  KGInv'
  OBVIOUS
<1> DEFINE Ends(e) == triples' = [triples EXCEPT ![e] = [triples[e] EXCEPT !.to = asof]]
           Flags == triples' = [triples EXCEPT ![k] = [triples[k] EXCEPT !.pending = TRUE]]
<1>1. /\ writing[p].pc = "settling"
      /\ new \in DOMAIN triples /\ k \in DOMAIN triples /\ k # new
      /\ SameKey(k, new) /\ Critical(new) /\ Critical(k)
      /\ Rank(new) \in Nat /\ Rank(k) \in Nat
      /\ asof \in 0 .. MaxDay
  <2>1. writing[p].pc = "settling" /\ asof \in 0 .. MaxDay
    BY DEF settleConflict, KGInv, KGTypeOK
  <2>2. new \in DOMAIN triples /\ Critical(new) /\ k \in DOMAIN triples /\ k # new
        /\ SameKey(k, new)
    BY <2>1 DEF KGInv, Writer
  <2> QED BY <2>1, <2>2, RankType DEF KGInv, Critical, SameKey
<1>2. \/ Rank(new) > Rank(k) /\ Ends(k)
      \/ Rank(k) > Rank(new) /\ Ends(new)
      \/ Rank(k) = Rank(new) /\ Flags
  BY <1>1 DEF settleConflict
<1>3. /\ triples' \in Seq(Row) /\ DOMAIN triples' = DOMAIN triples
      /\ \A i \in DOMAIN triples :
           /\ triples'[i].subject = triples[i].subject
           /\ triples'[i].relation = triples[i].relation
           /\ triples'[i].agent = triples[i].agent
           /\ triples'[i].from = triples[i].from
           /\ triples'[i].to = Never => triples[i].to = Never
           /\ triples[i].pending => triples'[i].pending
  <2>1. triples \in Seq(Row) /\ \A i \in DOMAIN triples : triples[i] \in Row
    BY DEF KGInv, KGTypeOK
  <2>2. ASSUME NEW e \in DOMAIN triples, Ends(e) PROVE <1>3
    <3>1. triples[e] \in Row /\ asof # Never
      BY <1>1, <2>1, DayAssumption DEF DayAssumption, Never
    <3>2. [triples[e] EXCEPT !.to = asof] \in Row
      BY <1>1, <3>1 DEF Row
    <3> DEFINE ended == [triples[e] EXCEPT !.to = asof]
    <3>3. /\ ended.subject = triples[e].subject /\ ended.relation = triples[e].relation
          /\ ended.agent = triples[e].agent /\ ended.from = triples[e].from
          /\ ended.to = asof /\ ended.pending = triples[e].pending
      BY <3>1 DEF Row
    <3> HIDE DEF ended
    <3>4. /\ triples' \in Seq(Row) /\ DOMAIN triples' = DOMAIN triples
          /\ \A i \in DOMAIN triples : triples'[i] = IF i = e THEN ended ELSE triples[i]
      BY <2>1, <2>2, <3>2 DEF ended
    <3> QED BY <3>1, <3>3, <3>4
  <2>3. ASSUME Flags PROVE <1>3
    <3>1. triples[k] \in Row
      BY <1>1, <2>1
    <3>2. [triples[k] EXCEPT !.pending = TRUE] \in Row
      BY <3>1 DEF Row
    <3> DEFINE flagged == [triples[k] EXCEPT !.pending = TRUE]
    <3>3. /\ flagged.subject = triples[k].subject /\ flagged.relation = triples[k].relation
          /\ flagged.agent = triples[k].agent /\ flagged.from = triples[k].from
          /\ flagged.to = triples[k].to /\ flagged.pending
      BY <3>1 DEF Row
    <3> HIDE DEF flagged
    <3>4. /\ triples' \in Seq(Row) /\ DOMAIN triples' = DOMAIN triples
          /\ \A i \in DOMAIN triples : triples'[i] = IF i = k THEN flagged ELSE triples[i]
      BY <2>1, <2>3, <1>1, <3>2 DEF flagged
    <3> QED BY <3>3, <3>4
  <2> QED BY <1>1, <1>2, <2>2, <2>3
<1>4. \A i, j \in DOMAIN triples :
        /\ Critical(i)' <=> Critical(i)
        /\ SameKey(i, j)' <=> SameKey(i, j)
        /\ Rank(i)' = Rank(i)
        /\ Standing(i)' => Standing(i)
  BY <1>3 DEF Critical, SameKey, Rank, Standing
<1>5. /\ Rank(new) > Rank(k) => ~Standing(k)'
      /\ Rank(k) > Rank(new) => ~Standing(new)'
      /\ Rank(k) = Rank(new) => triples'[k].pending
  <2>1. triples[k] \in Row /\ triples[new] \in Row /\ asof # Never
    BY <1>1, DayAssumption DEF KGInv, KGTypeOK, DayAssumption, Never
  <2>2. /\ [triples[k] EXCEPT !.to = asof].to = asof
        /\ [triples[new] EXCEPT !.to = asof].to = asof
        /\ [triples[k] EXCEPT !.pending = TRUE].pending = TRUE
    BY <2>1 DEF Row
  <2>3. CASE Rank(new) > Rank(k)
    <3>1. triples'[k] = [triples[k] EXCEPT !.to = asof]
      BY <1>1, <1>2, <2>3 DEF KGInv, KGTypeOK
    <3> QED BY <1>1, <2>1, <2>2, <2>3, <3>1 DEF Standing
  <2>4. CASE Rank(k) > Rank(new)
    <3>1. triples'[new] = [triples[new] EXCEPT !.to = asof]
      BY <1>1, <1>2, <2>4 DEF KGInv, KGTypeOK
    <3> QED BY <1>1, <2>1, <2>2, <2>4, <3>1 DEF Standing
  <2>5. CASE Rank(k) = Rank(new)
    <3> HIDE DEF Flags
    <3>0. Flags
      BY <1>1, <1>2, <2>5
    <3> triples \in Seq(Row)
      BY DEF KGInv, KGTypeOK
    <3>1. triples'[k] = [triples[k] EXCEPT !.pending = TRUE]
      BY <3>0, <1>1 DEF Flags
    <3>2. triples'[k].pending = TRUE
      BY <2>2, <3>1
    <3>3. ~(Rank(new) > Rank(k)) /\ ~(Rank(k) > Rank(new))
      BY <1>1, <2>5
    <3> QED BY <3>2, <3>3, Zenon
  <2> QED BY <1>1, <2>3, <2>4, <2>5
<1>6. \A i \in DOMAIN triples : Standing(i) /\ ~Standing(i)' =>
        \/ i = k /\ Rank(new) > Rank(k)
        \/ i = new /\ Rank(k) > Rank(new)
  <2>1. triples[k] \in Row /\ [triples[k] EXCEPT !.pending = TRUE].to = triples[k].to
    <3>1. triples[k] \in Row
      BY <1>1 DEF KGInv, KGTypeOK
    <3> QED BY <3>1 DEF Row
  <2> QED BY <1>1, <1>2, <2>1 DEF KGInv, KGTypeOK, Standing
<1>7. /\ day' = day /\ orphans' = orphans
      /\ \A q \in Process : q # p => writing'[q] = writing[q]
      /\ writing'[p] = IF writing[p].rivals = {k} THEN Idle
                       ELSE [pc |-> "settling", id |-> new,
                             rivals |-> writing[p].rivals \ {k}, asof |-> asof]
  BY DEF settleConflict, KGInv, KGTypeOK
<1>8. KGTypeOK'
  <2>1. writing' \in [Process -> [pc : {"idle", "inserted", "settling"}, id : Nat,
                                  rivals : SUBSET Nat, asof : 0 .. MaxDay]]
    BY <1>1, DayAssumption DEF DayAssumption, settleConflict, KGInv, KGTypeOK, Idle
  <2> QED BY <1>3, <1>7, <2>1 DEF KGInv, KGTypeOK
<1>9. Dated'
  <2> SUFFICES ASSUME NEW q \in Process PROVE writing'[q].asof <= day
    BY <1>3, <1>7 DEF KGInv, Dated
  <2>1. day \in Nat /\ day >= 0 /\ asof <= day /\ writing[q].asof <= day
    BY DayAssumption DEF DayAssumption, KGInv, KGTypeOK, Dated
  <2> QED BY <2>1, <1>7 DEF Idle
<1>10. KeptUnlessCritical'
  BY <1>1, <1>3, <1>4, <1>6 DEF KGInv, KeptUnlessCritical
<1>11. ASSUME NEW q \in Process PROVE Writer(q)'
  <2>1. CASE q = p
    <3>1. \A i \in writing[p].rivals :
            i \in DOMAIN triples /\ i # new /\ SameKey(i, new)
      BY <1>1 DEF KGInv, Writer
    <3>2. CASE writing[p].rivals = {k}
      BY <2>1, <3>2, <1>7 DEF Writer, Idle
    <3>3. CASE writing[p].rivals # {k}
      BY <2>1, <3>1, <3>3, <1>1, <1>3, <1>7 DEF Writer, Critical, SameKey
    <3> QED BY <3>2, <3>3
  <2>2. CASE q # p
    <3>1. writing'[q] = writing[q] /\ Writer(q)
      BY <2>2, <1>7 DEF KGInv
    <3> QED BY <3>1, <1>3 DEF Writer, Critical, SameKey
  <2> QED BY <2>1, <2>2
<1>12. StrongestStands'
  <2> SUFFICES ASSUME NEW i \in DOMAIN triples, Critical(i)
               PROVE  \E j \in DOMAIN triples :
                        SameKey(i, j) /\ Rank(j) >= Rank(i) /\ Standing(j)'
    BY <1>3, <1>4 DEF StrongestStands
  <2>1. PICK j \in DOMAIN triples : SameKey(i, j) /\ Rank(j) >= Rank(i) /\ Standing(j)
    BY DEF KGInv, StrongestStands
  <2>2. Rank(i) \in Nat /\ Rank(j) \in Nat
    BY RankType DEF KGInv
  <2>3. CASE Standing(j)'
    BY <2>1, <2>3
  <2>4. CASE j = k /\ Rank(new) > Rank(k)
    <3>1. PICK s \in DOMAIN triples : SameKey(new, s) /\ Rank(s) >= Rank(new) /\ Standing(s)
      BY <1>1 DEF KGInv, StrongestStands
    <3>2. Rank(s) \in Nat /\ s # k
      BY <1>1, <2>4, <3>1, RankType DEF KGInv
    <3>3. Standing(s)' /\ SameKey(i, s) /\ Rank(s) >= Rank(i)
      BY <1>1, <1>6, <2>1, <2>2, <2>4, <3>1, <3>2 DEF SameKey
    <3> QED BY <3>3
  <2>5. CASE j = new /\ Rank(k) > Rank(new)
    <3>1. PICK s \in DOMAIN triples : SameKey(k, s) /\ Rank(s) >= Rank(k) /\ Standing(s)
      BY <1>1 DEF KGInv, StrongestStands
    <3>2. Rank(s) \in Nat /\ s # new
      BY <1>1, <2>5, <3>1, RankType DEF KGInv
    <3>3. Standing(s)' /\ SameKey(i, s) /\ Rank(s) >= Rank(i)
      BY <1>1, <1>6, <2>1, <2>2, <2>5, <3>1, <3>2 DEF SameKey
    <3> QED BY <3>3
  <2> QED BY <1>6, <2>1, <2>3, <2>4, <2>5
<1>13. RivalsResolved'
  <2> SUFFICES ASSUME NEW j \in DOMAIN triples, NEW i \in 1 .. (j - 1),
                      Critical(i), SameKey(i, j), Standing(i)', Standing(j)'
               PROVE  Unsettled(i, j)' \/ (Rank(i) = Rank(j) /\ triples'[i].pending)
    <3>1. \A j \in DOMAIN triples : \A i \in 1 .. (j - 1) : i \in DOMAIN triples
      BY DEF KGInv, KGTypeOK
    <3> QED BY <3>1, <1>3, <1>4 DEF RivalsResolved
  <2>1. i \in DOMAIN triples
    BY DEF KGInv, KGTypeOK
  <2>2. Unsettled(i, j) \/ (Rank(i) = Rank(j) /\ triples[i].pending)
    BY <2>1, <1>4 DEF KGInv, RivalsResolved
  <2>3. ASSUME NEW q \in Process, writing[q].id = j,
               writing[q].pc = "inserted" \/ i \in writing[q].rivals
        PROVE  Unsettled(i, j)' \/ (Rank(i) = Rank(j) /\ triples'[i].pending)
    <3>1. CASE q # p
      BY <2>3, <3>1, <1>7 DEF Unsettled
    <3>2. CASE q = p /\ i # k
      <4>1. i \in writing'[p].rivals /\ writing'[p].id = j
        BY <2>3, <3>2, <1>1, <1>7
      <4> QED BY <4>1 DEF Unsettled
    <3>3. CASE q = p /\ i = k
      BY <2>3, <3>3, <1>1, <1>5
    <3> QED BY <3>1, <3>2, <3>3
  <2>4. j \in orphans => Unsettled(i, j)'
    BY <1>7 DEF Unsettled
  <2>5. triples[i].pending => triples'[i].pending
    BY <2>1, <1>3
  <2> QED BY <2>2, <2>3, <2>4, <2>5 DEF Unsettled
<1> QED BY <1>8, <1>9, <1>10, <1>11, <1>12, <1>13 DEF KGInv

(* No statement changes what a row says of whom. *)
LEMMA RowsKept ==
  ASSUME KGInv,
         NEW p \in Process,
         \/ \E row \in Row : addTriple(p, row)
         \/ selectConflicts(p)
         \/ \E k \in writing[p].rivals : settleConflict(p, k)
         \/ die(p) \/ tomorrow
  PROVE  /\ Len(triples) <= Len(triples')
         /\ \A i \in 1 .. Len(triples) :
              /\ triples'[i].relation = triples[i].relation
              /\ triples'[i].object = triples[i].object
              /\ triples'[i].task = triples[i].task
<1> triples \in Seq(Row) /\ Len(triples) \in Nat /\ DOMAIN triples = 1 .. Len(triples)
  BY DEF KGInv, KGTypeOK
<1>1. CASE \E row \in Row : addTriple(p, row)
  BY <1>1 DEF addTriple
<1>2. CASE selectConflicts(p) \/ die(p) \/ tomorrow
  BY <1>2 DEF selectConflicts, die, tomorrow
<1>3. CASE \E k \in writing[p].rivals : settleConflict(p, k)
  <2>1. PICK k \in writing[p].rivals : settleConflict(p, k)
    BY <1>3
  <2>2. \E e \in Nat, v \in {Never} \cup 0 .. MaxDay :
          \/ triples' = [triples EXCEPT ![e] = [triples[e] EXCEPT !.to = v]]
          \/ triples' = [triples EXCEPT ![e] = [triples[e] EXCEPT !.pending = TRUE]]
    <3>1. writing[p].id \in Nat /\ k \in Nat /\ writing[p].asof \in 0 .. MaxDay
      BY DEF KGInv, KGTypeOK
    <3>2. \/ triples' = [triples EXCEPT ![k] = [triples[k] EXCEPT !.to = writing[p].asof]]
          \/ triples' = [triples EXCEPT ![writing[p].id] =
                           [triples[writing[p].id] EXCEPT !.to = writing[p].asof]]
          \/ triples' = [triples EXCEPT ![k] = [triples[k] EXCEPT !.pending = TRUE]]
      BY <2>1 DEF settleConflict
    <3> QED BY <3>1, <3>2
  <2>3. PICK e \in Nat, v \in {Never} \cup 0 .. MaxDay :
          \/ triples' = [triples EXCEPT ![e] = [triples[e] EXCEPT !.to = v]]
          \/ triples' = [triples EXCEPT ![e] = [triples[e] EXCEPT !.pending = TRUE]]
    BY <2>2
  <2>4. Len(triples') = Len(triples)
    BY <2>3
  <2>5. ASSUME NEW i \in 1 .. Len(triples)
        PROVE  /\ triples'[i].relation = triples[i].relation
               /\ triples'[i].object = triples[i].object
               /\ triples'[i].task = triples[i].task
    <3>1. triples[i] \in Row
      OBVIOUS
    <3>2. \/ triples'[i] = triples[i]
          \/ triples'[i] = [triples[i] EXCEPT !.to = v]
          \/ triples'[i] = [triples[i] EXCEPT !.pending = TRUE]
      BY <2>3
    <3> QED BY <3>1, <3>2 DEF Row
  <2> QED BY <2>4, <2>5
<1> QED BY <1>1, <1>2, <1>3

-----------------------------------------------------------------------------
(* What processes still have to write are new rows, of today or before;    *)
(* only the Safeguard writes lockdowns; and a plan remembers a place in    *)
(* the graph as it is.                                                     *)
Todo ==
  /\ todo \in [Process -> SUBSET Row]
  /\ \A p \in Process : \A row \in todo[p] : Unwritten(row) /\ row.relation # "triggered_by"
Reasons == \A i \in DOMAIN triples :
             triples[i].relation = "triggered_by" => triples[i].object = "reason"
Since == plan.since \in Nat /\ plan.since <= Len(triples)
Inv ==
  /\ KGInv /\ Todo /\ best \in [Run -> [Task -> Model]]
  /\ Reasons /\ Since /\ LockdownBlocksPlaybook

(* A statement keeps what the town relies on, whoever executes it. *)
LEMMA StatementKeeps ==
  ASSUME Inv, NEW p \in Process,
         \/ \E row \in Row :
              /\ Unwritten(row) /\ (row.relation = "triggered_by" => row.object = "reason")
              /\ addTriple(p, row)
         \/ selectConflicts(p)
         \/ \E k \in writing[p].rivals : settleConflict(p, k)
         \/ die(p) \/ tomorrow,
         plan' \in {plan, NoPlan}
  PROVE  /\ KGInv' /\ Reasons' /\ Since' /\ LockdownBlocksPlaybook'
         /\ day \in Nat /\ day' \in Nat /\ day <= day'
<1>1. KGInv'
  BY InsertKeeps, SelectKeeps, SettleKeeps, DieKeeps, TomorrowKeeps DEF Inv
<1>2. day \in Nat /\ day' \in Nat /\ day <= day'
  BY DayAssumption
     DEF DayAssumption, Inv, KGInv, KGTypeOK, addTriple, selectConflicts, settleConflict, die,
         tomorrow
<1>3. /\ Len(triples) <= Len(triples')
      /\ \A i \in 1 .. Len(triples) : /\ triples'[i].relation = triples[i].relation
                                      /\ triples'[i].object = triples[i].object
                                      /\ triples'[i].task = triples[i].task
  BY RowsKept DEF Inv
<1>4. /\ triples \in Seq(Row) /\ triples' \in Seq(Row)
      /\ Len(triples) \in Nat /\ DOMAIN triples = 1 .. Len(triples)
      /\ Len(triples') \in Nat /\ DOMAIN triples' = 1 .. Len(triples')
  BY <1>1 DEF Inv, KGInv, KGTypeOK
<1>5. Reasons'
  <2>1. CASE \E row \in Row :
               /\ Unwritten(row) /\ (row.relation = "triggered_by" => row.object = "reason")
               /\ addTriple(p, row)
    BY <2>1, <1>4 DEF Inv, Reasons, addTriple
  <2>2. CASE Len(triples') = Len(triples)
    BY <2>2, <1>3, <1>4 DEF Inv, Reasons
  <2>3. ASSUME NEW k \in writing[p].rivals, settleConflict(p, k)
        PROVE  Len(triples') = Len(triples)
    BY <2>3, <1>4 DEF settleConflict
  <2>4. selectConflicts(p) \/ die(p) \/ tomorrow => Len(triples') = Len(triples)
    BY DEF selectConflicts, die, tomorrow
  <2> QED BY <2>1, <2>2, <2>3, <2>4
<1>6. Since' /\ LockdownBlocksPlaybook'
  <2>1. CASE plan' = NoPlan
    BY <2>1, <1>4 DEF NoPlan, Since, LockdownBlocksPlaybook
  <2>2. CASE plan' = plan
    BY <2>2, <1>3, <1>4 DEF Inv, Since, LockdownBlocksPlaybook
  <2> QED BY <2>1, <2>2
<1> QED BY <1>1, <1>2, <1>5, <1>6

(* A step that leaves the graph alone leaves its invariant alone. *)
LEMMA ReadingKeeps ==
  ASSUME Inv, UNCHANGED kgvars
  PROVE  /\ KGInv' /\ Reasons'
         /\ UNCHANGED <<todo, best, plan>> => Inv'
<1> USE DEF kgvars, Inv, KGInv, Reasons, KGTypeOK, Dated, KeptUnlessCritical, Writer,
            StrongestStands, RivalsResolved, Unsettled, Critical, SameKey, Rank, Standing
<1>1. KGInv' /\ Reasons'
  OBVIOUS
<1>2. UNCHANGED <<todo, best, plan>> => Todo' /\ Since' /\ LockdownBlocksPlaybook'
  BY DEF Todo, Unwritten, Since, LockdownBlocksPlaybook
<1> QED BY <1>1, <1>2

(* Every action of the town. *)
LEMMA TownStep ==
  ASSUME DayAssumption, MemoryAssumption, Inv, [Next]_vars
  PROVE  Inv'
<1> USE MemoryAssumption DEF MemoryAssumption
<1>0. KGTypeOK /\ Todo /\ best \in [Run -> [Task -> Model]] /\ Since /\ day \in Nat
  BY DayAssumption DEF DayAssumption, Inv, KGInv, KGTypeOK
<1>r. {"historian", "safeguard", "other"} \subseteq DOMAIN ROLE_PRECEDENCE
  BY DEF ROLE_PRECEDENCE
<1>n. /\ \A x \in {"has_playbook", "locked_to", "demoted_from", "preferred_for", "triggered_by"} :
           x \in Relation
      /\ \A x \in {0, day} : x \in 0 .. MaxDay /\ x <= day
  BY <1>0, DayAssumption DEF DayAssumption, KGTypeOK, Relation, CRITICAL_RELATIONS
(* Later days keep the rows to write new. *)
<1>1. ASSUME day' \in Nat, day <= day', todo' = todo PROVE Todo'
  <2>1. ASSUME NEW p \in Process, NEW row \in todo[p] PROVE row.from <= day'
    <3>1. row \in Row /\ row.from <= day
      BY <1>0 DEF Todo, Unwritten
    <3>2. row.from \in Nat
      BY <3>1, DayAssumption DEF DayAssumption, Row
    <3> QED BY <1>0, <1>1, <3>1, <3>2
  <2> QED BY <1>0, <1>1, <2>1 DEF Todo, Unwritten
(* A stage of a run leaves new rows of today. *)
<1>2. ASSUME NEW r \in Run, NEW from, NEW to, NEW rows \in SUBSET Row, Stage(r, from, to, rows),
             \A row \in rows : Unwritten(row) /\ row.relation # "triggered_by"
      PROVE  Inv'
  <2>1. /\ KGInv' /\ Reasons' /\ Since' /\ LockdownBlocksPlaybook'
        /\ best' \in [Run -> [Task -> Model]] /\ day' = day
    BY <1>0, <1>2, ReadingKeeps
       DEF Stage, Inv, Since, LockdownBlocksPlaybook, kgvars
  <2>2. Todo'
    BY <1>0, <1>2 DEF Stage, Todo, Unwritten, kgvars
  <2> QED BY <2>1, <2>2 DEF Inv
(* What the Historian says of a model is such a row. *)
<1>3. ASSUME NEW subject \in Model, NEW relation \in Relation \ {"triggered_by"},
             NEW object \in Task \cup {Rig, "reason"}
      PROVE  LET row == ByHistorian(subject, relation, object)
             IN  row \in Row /\ Unwritten(row) /\ row.relation # "triggered_by"
  <2>1. LET row == NewRow(subject, relation, object, "historian", day, NoTask, NoModel, FALSE)
        IN  row \in Row /\ Unwritten(row) /\ row.relation = relation
    BY <1>r, <1>n DEF NewRow, Row, Unwritten
  <2> QED BY <2>1 DEF ByHistorian
<1>4. ASSUME NEW p \in Process, Write(p) PROVE Inv'
  <2>1. /\ \/ \E row \in Row :
                /\ Unwritten(row) /\ (row.relation = "triggered_by" => row.object = "reason")
                /\ addTriple(p, row)
           \/ selectConflicts(p)
           \/ \E k \in writing[p].rivals : settleConflict(p, k)
        /\ plan' = plan /\ best' = best /\ day' = day
    BY <1>0, <1>4 DEF Write, Todo, addTriple, selectConflicts, settleConflict
  <2>2. KGInv' /\ Reasons' /\ Since' /\ LockdownBlocksPlaybook'
    BY <2>1, StatementKeeps
  <2>3. Todo'
    <3>1. todo' \in [Process -> SUBSET Row] /\ \A q \in Process : todo'[q] \subseteq todo[q]
      BY <1>0, <1>4 DEF Write, Todo
    <3> QED BY <1>0, <2>1, <3>1 DEF Todo, Unwritten
  <2> QED BY <1>0, <2>1, <2>2, <2>3 DEF Inv
<1>5. ASSUME NEW p \in Process, Crash(p) PROVE Inv'
  <2>1. die(p) /\ plan' \in {plan, NoPlan} /\ best' = best /\ day' = day
        /\ todo' = [todo EXCEPT ![p] = {}]
    BY <1>5 DEF Crash, die
  <2>2. KGInv' /\ Reasons' /\ Since' /\ LockdownBlocksPlaybook'
    BY <2>1, StatementKeeps
  <2>3. Todo'
    BY <1>0, <2>1 DEF Todo, Unwritten
  <2> QED BY <1>0, <2>1, <2>2, <2>3 DEF Inv
<1>6. ASSUME NEW r \in Run, runNightly(r) PROVE Inv'
  <2>1. /\ UNCHANGED kgvars /\ todo' = todo /\ plan' = plan
        /\ best' \in [Run -> [Task -> Model]]
    BY <1>0, <1>6 DEF runNightly
  <2> QED BY <1>0, <2>1, ReadingKeeps
          DEF Inv, Todo, Since, LockdownBlocksPlaybook, Unwritten, kgvars
<1>7. ASSUME NEW r \in Run, NEW tasks \in SUBSET Task,
             NEW row \in {PlaybookRow(r, t) : t \in tasks}
      PROVE  row \in Row /\ Unwritten(row) /\ row.relation # "triggered_by"
  <2>1. PICK t \in tasks : row = PlaybookRow(r, t)
    BY <1>7
  <2> DEFINE fresh == /\ 10 * patterns(r)[t].success > 9 * Total(patterns(r)[t])
                      /\ Total(patterns(r)[t]) >= 20
  <2>2. fresh \in BOOLEAN /\ best[r][t] \in Model /\ t \in Task
    BY <1>0
  <2>3. row = NewRow(Rig, "has_playbook", t, "historian", day, t, best[r][t], fresh)
    BY <2>1 DEF PlaybookRow
  <2> HIDE DEF fresh
  <2>4. row \in Row /\ Unwritten(row) /\ row.relation = "has_playbook"
    BY <1>r, <1>n, <2>2, <2>3 DEF NewRow, Row, Unwritten
  <2> QED BY <2>4
<1>8. ASSUME NEW r \in Run,
             \/ generatePlaybooks(r) \/ createBatch(r)
             \/ pollBatch(r) \/ generatePlaybooksBatch(r)
      PROVE Inv'
  <2>1. PlaybookTasks(r) \subseteq Task
    BY DEF PlaybookTasks
  <2>2. ASSUME NEW from, generatePlaybook(r, from)
        PROVE  Inv'
    <3>1. PICK made \in SUBSET PlaybookTasks(r) :
            Stage(r, from, "playbooks", {PlaybookRow(r, t) : t \in made})
      BY <2>2, Zenon DEF generatePlaybook
    <3> DEFINE rows == {PlaybookRow(r, t) : t \in made}
    <3>2. \A row \in rows : row \in Row /\ Unwritten(row) /\ row.relation # "triggered_by"
      BY <2>1, <1>7
    <3>3. Stage(r, from, "playbooks", rows)
      BY <3>1
    <3> HIDE DEF rows
    <3> QED BY <3>2, <3>3, <1>2
  <2>3. CASE generatePlaybooks(r)
    BY <2>3, <2>2, Zenon DEF generatePlaybooks
  <2>4. CASE createBatch(r)
    <3>1. Stage(r, "synthesizing", "batch", {})
      BY <2>4, Zenon DEF createBatch
    <3> QED BY <3>1, <1>2
  <2>5. CASE pollBatch(r)
    BY <2>5, ReadingKeeps DEF pollBatch
  <2>6. CASE generatePlaybooksBatch(r)
    BY <2>6, <2>2, Zenon DEF generatePlaybooksBatch
  <2> QED BY <1>8, <2>3, <2>4, <2>5, <2>6
<1>9. ASSUME NEW r \in Run, updateRoutingKG(r) PROVE Inv'
  <2> DEFINE rows == {ByHistorian(best[r][t], "locked_to", t) : t \in LockedTasks(r)}
                     \cup {ByHistorian(best[r][t], "demoted_from", t) : t \in DemotedTasks(r)}
  <2>1. LockedTasks(r) \subseteq Task /\ DemotedTasks(r) \subseteq Task
    BY DEF LockedTasks, DemotedTasks
  <2>2. \A t \in Task : best[r][t] \in Model
    BY <1>0
  <2>3. \A row \in rows : row \in Row /\ Unwritten(row) /\ row.relation # "triggered_by"
    BY <2>1, <2>2, <1>3 DEF Relation, CRITICAL_RELATIONS
  <2>4. Stage(r, "playbooks", "routing", rows)
    BY <1>9 DEF updateRoutingKG
  <2> HIDE DEF rows
  <2> QED BY <2>3, <2>4, <1>2
<1>10. ASSUME NEW r \in Run, autoValidatePromotedModels(r) PROVE Inv'
  <2>1. PICK poor \in SUBSET {m \in Model : queryTriples(m, "locked_to") # {} /\ Reviewed(r, m)} :
          Stage(r, "routing", "validating",
                UNION {{ByHistorian(m, "demoted_from", triples[i].object) :
                          i \in queryTriples(m, "locked_to")} : m \in poor})
    BY <1>10 DEF autoValidatePromotedModels
  <2> DEFINE rows == UNION {{ByHistorian(m, "demoted_from", triples[i].object) :
                               i \in queryTriples(m, "locked_to")} : m \in poor}
  <2>2. \A m \in poor : \A i \in queryTriples(m, "locked_to") :
          m \in Model /\ triples[i].object \in Task \cup {Rig, "reason"}
    <3> SUFFICES ASSUME NEW m \in poor, NEW i \in queryTriples(m, "locked_to")
                 PROVE  triples[i].object \in Task \cup {Rig, "reason"}
      OBVIOUS
    <3>1. triples[i] \in Row
      BY <1>0 DEF queryTriples, KGTypeOK
    <3> QED BY <3>1 DEF Row
  <2>3. \A row \in rows : row \in Row /\ Unwritten(row) /\ row.relation # "triggered_by"
    BY <2>2, <1>3 DEF Relation, CRITICAL_RELATIONS
  <2> HIDE DEF rows
  <2> QED BY <2>1, <2>3, <1>2 DEF rows
<1>11. ASSUME NEW r \in Run, updateRigPreferences(r) PROVE Inv'
  <2>1. PICK liked \in SUBSET Model :
          Stage(r, "validating", "preferring",
                {ByHistorian(m, "preferred_for", Rig) : m \in liked})
    <3>1. \E liked \in SUBSET Model :
            Stage(r, "validating", "preferring",
                  {ByHistorian(m, "preferred_for", Rig) : m \in liked})
      BY <1>11, Zenon DEF updateRigPreferences
    <3> QED BY <3>1
  <2> DEFINE rows == {ByHistorian(m, "preferred_for", Rig) : m \in liked}
  <2>2. \A row \in rows : row \in Row /\ Unwritten(row) /\ row.relation # "triggered_by"
    BY <1>3 DEF Relation
  <2> HIDE DEF rows
  <2> QED BY <2>1, <2>2, <1>2 DEF rows
<1>12. ASSUME NEW row \in Row, Unwritten(row),
              row.relation = "triggered_by" => row.object = "reason",
              addTriple(Town, row), UNCHANGED <<todo, best, plan>>
       PROVE  Inv'
  <2>1. KGInv' /\ Reasons' /\ Since' /\ LockdownBlocksPlaybook' /\ day' = day
    BY <1>12, StatementKeeps DEF addTriple
  <2> QED BY <1>0, <1>1, <1>12, <2>1 DEF Inv
<1>13. ASSUME NEW t \in Task \cup {NoTask}, emitLockdown(t) PROVE Inv'
  <2> DEFINE row == NewRow("lockdown", "triggered_by", "reason", "safeguard", day, t,
                           NoModel, FALSE)
  <2>1. row \in Row /\ Unwritten(row) /\ row.object = "reason"
    BY <1>r, <1>n DEF NewRow, Row, Unwritten
  <2>2. addTriple(Town, row) /\ UNCHANGED <<todo, best, plan>>
    BY <1>13 DEF emitLockdown
  <2> HIDE DEF row
  <2> QED BY <2>1, <2>2, <1>12
<1>14. ASSUME NEW a \in Added, handleMcpTool(a) PROVE Inv'
  <2> DEFINE row == NewRow(a[2], a[3], a[4], a[1], day, NoTask, NoModel, FALSE)
  <2>1. /\ a[2] \in Model /\ a[3] \in {"locked_to", "demoted_from"}
        /\ a[4] \in Task /\ a[1] \in DOMAIN ROLE_PRECEDENCE
    OBVIOUS
  <2>2. row \in Row /\ Unwritten(row) /\ row.relation # "triggered_by"
    <3>1. row \in Row /\ Unwritten(row) /\ row.relation = a[3]
      BY <1>n, <2>1 DEF NewRow, Row, Unwritten
    <3> QED BY <2>1, <3>1
  <2>3. addTriple(Town, row) /\ UNCHANGED <<todo, best, plan>>
    BY <1>14 DEF handleMcpTool
  <2> HIDE DEF row
  <2> QED BY <2>2, <2>3, <1>12
<1>15. ASSUME NEW t \in Task, lookUp(t) PROVE Inv'
  <2>1. UNCHANGED kgvars /\ todo' = todo /\ best' = best /\ day' = day
    BY <1>15 DEF lookUp, kgvars
  <2>2. Since' /\ LockdownBlocksPlaybook'
    BY <1>0, <1>15 DEF lookUp, Since, LockdownBlocksPlaybook, KGTypeOK, kgvars
  <2> QED BY <1>0, <1>1, <2>1, <2>2, ReadingKeeps DEF Inv
(* The rows of a lockdown are all active: none is of a later day, and none *)
(* has been ended.                                                         *)
<1>16. ASSUME isPlaybookFresh PROVE Inv'
  <2>1. UNCHANGED kgvars /\ todo' = todo /\ best' = best /\ day' = day /\ triples' = triples
    BY <1>16 DEF isPlaybookFresh, kgvars
  <2>2. /\ plan'.since = plan.since /\ plan'.task = plan.task
        /\ plan'.hit # 0 => ~hasActiveLockdown(plan.task)
    BY <1>16 DEF isPlaybookFresh
  <2>3. ASSUME NEW i \in 1 .. plan.since, triples[i].relation = "triggered_by",
               triples[i].task \in {plan.task, NoTask}
        PROVE  hasActiveLockdown(plan.task)
    <3>1. i \in DOMAIN triples
      BY <1>0 DEF Since, KGTypeOK
    <3>2. Active(i)
      BY <2>3, <3>1
         DEF Inv, KGInv, Dated, KeptUnlessCritical, Critical, CRITICAL_RELATIONS, Standing, Active
    <3>3. i \in queryEntity("reason", "triggered_by")
      BY <2>3, <3>1, <3>2 DEF Inv, Reasons, queryEntity
    <3> QED BY <2>3, <3>3 DEF hasActiveLockdown
  <2>4. Since' /\ LockdownBlocksPlaybook'
    BY <1>0, <2>1, <2>2, <2>3 DEF Since, LockdownBlocksPlaybook
  <2> QED BY <1>0, <1>1, <2>1, <2>4, ReadingKeeps DEF Inv
<1>17. ASSUME decomposed PROVE Inv'
  <2>1. UNCHANGED kgvars /\ todo' = todo /\ best' = best /\ plan' = NoPlan /\ day' = day
    BY <1>17 DEF decomposed, kgvars
  <2>2. Since' /\ LockdownBlocksPlaybook'
    BY <1>0, <2>1 DEF Since, LockdownBlocksPlaybook, NoPlan, KGTypeOK, kgvars
  <2> QED BY <1>0, <1>1, <2>1, <2>2, ReadingKeeps DEF Inv
<1>18. ASSUME Midnight PROVE Inv'
  <2>1. tomorrow /\ UNCHANGED <<todo, best, plan>>
    BY <1>18 DEF Midnight
  <2>2. KGInv' /\ Reasons' /\ Since' /\ LockdownBlocksPlaybook' /\ day' \in Nat /\ day <= day'
    BY <2>1, StatementKeeps DEF tomorrow
  <2> QED BY <1>0, <1>1, <2>1, <2>2 DEF Inv
<1>19. ASSUME writeBootstrapTriples PROVE Inv'
  <2> DEFINE rows == {NewRow(e[1], "locked_to", e[2], "other", 0, NoTask, NoModel, FALSE) :
                        e \in Table}
  <2>1. \A e \in Table : e[1] \in Model /\ e[2] \in Task
    OBVIOUS
  <2>2. \A row \in rows : row \in Row /\ Unwritten(row) /\ row.relation # "triggered_by"
    <3> SUFFICES ASSUME NEW e \in Table, NEW row,
                        row = NewRow(e[1], "locked_to", e[2], "other", 0, NoTask, NoModel, FALSE)
                 PROVE  row \in Row /\ Unwritten(row) /\ row.relation = "locked_to"
      OBVIOUS
    <3> QED BY <1>r, <1>n, <2>1 DEF NewRow, Row, Unwritten
  <2>3. UNCHANGED kgvars /\ best' = best /\ plan' = plan /\ todo' = [todo EXCEPT ![Boot] = rows]
        /\ day' = day
    BY <1>19 DEF writeBootstrapTriples, kgvars
  <2> HIDE DEF rows
  <2>4. Todo'
    BY <1>0, <2>2, <2>3 DEF Todo, Unwritten
  <2>5. Since' /\ LockdownBlocksPlaybook'
    BY <1>0, <2>3 DEF Inv, Since, LockdownBlocksPlaybook, kgvars
  <2> QED BY <1>0, <2>3, <2>4, <2>5, ReadingKeeps DEF Inv
<1>20. CASE UNCHANGED vars
  BY <1>20, ReadingKeeps DEF vars, townvars
<1> QED
  BY <1>4, <1>5, <1>6, <1>8, <1>9, <1>10, <1>11, <1>13, <1>14, <1>15, <1>16, <1>17, <1>18,
     <1>19, <1>20
  DEF Next

(* What is empty keeps all of it. *)
LEMMA TownInit == ASSUME DayAssumption, MemoryAssumption, Init PROVE Inv
<1>1. KGInv
  BY InitKGInv DEF Init
<1>2. Todo /\ best \in [Run -> [Task -> Model]] /\ Reasons /\ Since /\ LockdownBlocksPlaybook
  BY DEF MemoryAssumption, Init, KGInit, Todo, Reasons, Since, LockdownBlocksPlaybook, NoPlan
<1> QED BY <1>1, <1>2 DEF Inv

(* The inductive invariant: Inv above, whatever Historians, hooks, scripts *)
(* and the Safeguard write, and wherever they die.                         *)
THEOREM TownInv == Spec => []Inv
<1>1. Init => Inv
  BY TownInit, DayAssumption, MemoryAssumption
<1>2. Inv /\ [Next]_vars => Inv'
  BY TownStep, DayAssumption, MemoryAssumption
<1> QED BY <1>1, <1>2, PTL DEF Spec

(* For any number of processes, runs, hooks, models and task types, and    *)
(* wherever writers die, each critical row has one of its key that stands  *)
(* and is no weaker (resolveCriticalConflicts).                            *)
THEOREM StrongestAlwaysStands == Spec => []StrongestStands
<1>1. Inv => StrongestStands
  BY DEF Inv, KGInv
<1> QED BY <1>1, TownInv, PTL

(* Critical rows that contradict one another stand together only while a   *)
(* writer has not settled them, or died before, or as equals, of which the *)
(* older is flagged unless its date differs (resolveCriticalConflicts).    *)
THEOREM ContradictionsSettled == Spec => []NoContradictionStands
<1>1. Inv => NoContradictionStands
  BY DEF Inv, KGInv, RivalsResolved, NoContradictionStands, Contradict
<1> QED BY <1>1, TownInv, PTL

(* A playbook forbidden by an earlier lockdown never reaches a plan. *)
THEOREM LockdownAlwaysBlocks == Spec => []LockdownBlocksPlaybook
<1>1. Inv => LockdownBlocksPlaybook
  BY DEF Inv
<1> QED BY <1>1, TownInv, PTL

-----------------------------------------------------------------------------
(***************************************************************************)
(* The Historian's last word.  Rulings are its locks and demotions.  Runs  *)
(* are numbered in the order in which they start; while one rules that no  *)
(* other overlapped, nobody else has rulings to write, those it has still  *)
(* to write are newer than all in the table, and those it has written are  *)
(* the newest of their task type and never end.                            *)
(***************************************************************************)

Early == {"synthesizing", "batch", "playbooks"}
Late == {"routing", "validating", "preferring"}
Started == {r \in Run : run[r].pc # "idle"}
Ruling(row) == row.agent = "historian" /\ row.relation \in {"locked_to", "demoted_from"}

(* A run that goes on beside one that was alone at its start began later.  *)
Numbered ==
  /\ run \in [Run -> [pc : {"idle", "dead"} \cup Early \cup Late, seen : Int, polls : Int,
                      nth : Nat, alone : BOOLEAN]]
  /\ age \in Int /\ IsFiniteSet(Started)
  /\ \A r \in Run : /\ run[r].pc = "idle" => run[r].nth = 0
                    /\ run[r].nth <= Cardinality(Started)
  /\ \A r, q \in Run :
       /\ run[r].alone /\ run[r].pc \in Early \cup Late /\ q # r
       /\ run[q].pc \in (Early \cup Late) \ {"preferring"}
       => run[q].nth > run[r].nth

(* Rulings are written by the host of a run, and never end: nobody         *)
(* outranks the Historian.                                                 *)
Ruled ==
  /\ \A p \in Process : \A row \in todo[p] :
       /\ row.agent = "historian" => row.from >= 1
       /\ Ruling(row) => \E o \in Run : host[o] = p /\ run[o].pc \in Early \cup Late
  /\ \A i \in DOMAIN triples :
       triples[i].agent = "historian" => Standing(i) /\ triples[i].from >= 1

Rules(r) ==
  /\ run[r].alone /\ run[r].pc \in Early \cup Late
  /\ \A q \in Run : run[q].nth > run[r].nth => run[q].pc \in Early

(* What may be waiting while r rules: its routes, or what it revokes.      *)
Waits(r, p, row) ==
  /\ p = host[r]
  /\ \/ /\ run[r].pc = "routing" /\ row.subject = best[r][row.object]
        /\ \A i \in DOMAIN triples : Ruling(triples[i]) => triples[i].from <= row.from
        /\ \A other \in todo[p] : Ruling(other) => other.from = row.from
     \/ run[r].pc = "validating" /\ row.relation = "demoted_from" /\ ~NeverLocked(row.object)

About(row, relation, t) ==
  row.agent = "historian" /\ row.relation = relation /\ row.object = t
(* The newest ruling of that kind on t is r's.                             *)
Stands(r, relation, t) ==
  \E j \in DOMAIN triples :
    /\ About(triples[j], relation, t) /\ triples[j].subject = best[r][t]
    /\ \A i \in DOMAIN triples :
         About(triples[i], relation, t) => i <= j /\ triples[i].from <= triples[j].from
Said(r, relation, t) ==
  \/ run[r].pc = "routing" /\ \E row \in todo[host[r]] : About(row, relation, t)
  \/ Stands(r, relation, t)

WordOf(r) ==
  Rules(r) =>
    /\ \A p \in Process : \A row \in todo[p] : Ruling(row) => Waits(r, p, row)
    /\ run[r].pc \in Late =>
         \A t \in Task :
           /\ t \in LockedTasks(r) => Said(r, "locked_to", t)
           /\ t \in DemotedTasks(r) /\ NeverLocked(t) => Said(r, "demoted_from", t)

WordInv == Inv /\ Numbered /\ Ruled /\ \A r \in Run : WordOf(r)

(* Rows are only added; what a row says of whom, and since when, stays.    *)
RowKept(i) ==
  /\ triples'[i].agent = triples[i].agent /\ triples'[i].subject = triples[i].subject
  /\ triples'[i].relation = triples[i].relation /\ triples'[i].object = triples[i].object
  /\ triples'[i].from = triples[i].from
Kept == DOMAIN triples \subseteq DOMAIN triples' /\ \A i \in DOMAIN triples : RowKept(i)

(* A run's tasks are those of the ledger it has read.                      *)
Rereads(r) ==
  LockedTasks(r)' = LockedTasks(r) /\ DemotedTasks(r)' = DemotedTasks(r)
LEMMA TasksStay ==
  ASSUME NEW r, ledger' = ledger, run'[r].seen = run[r].seen
  PROVE  Rereads(r)
<1>1. patterns(r)' = patterns(r)
  BY DEF patterns
<1> QED BY <1>1 DEF LockedTasks, DemotedTasks, Rereads

(* The word of a run stays when no ruling is added, and none is dropped    *)
(* that it has still to write.                                             *)
LEMMA WordKept ==
  ASSUME NEW r \in Run, Rules(r), WordOf(r), Kept, Rereads(r),
         \A i \in DOMAIN triples' \ DOMAIN triples : ~Ruling(triples'[i]),
         \A p \in Process : \A row \in todo'[p] : Ruling(row) => row \in todo[p],
         run[r].pc = "routing" =>
           \A row \in todo[host[r]] : Ruling(row) => row \in todo'[host[r]],
         run'[r].pc = run[r].pc, best'[r] = best[r]
  PROVE  WordOf(r)'
<1>1. \A t : NeverLocked(t)' => NeverLocked(t)
  BY DEF NeverLocked, Kept, RowKept
<1>2. \A i \in DOMAIN triples' : Ruling(triples'[i]) =>
        i \in DOMAIN triples /\ Ruling(triples[i]) /\ RowKept(i)
  BY DEF Kept, RowKept, Ruling
<1>3. ASSUME NEW p \in Process, NEW row \in todo'[p], Ruling(row)
      PROVE  Waits(r, p, row)'
  <2>1. Waits(r, p, row) /\ row \in todo[p]
    BY <1>3 DEF WordOf
  <2>2. \A i \in DOMAIN triples :
          RowKept(i) /\ triples[i].from <= row.from => triples'[i].from <= row.from
    BY DEF RowKept
  <2> QED BY <1>1, <1>2, <2>1, <2>2 DEF Waits
<1>4. ASSUME NEW relation \in {"locked_to", "demoted_from"}, NEW t \in Task,
             Said(r, relation, t)
      PROVE  Said(r, relation, t)'
  <2>1. ASSUME run[r].pc = "routing", NEW row \in todo[host[r]], About(row, relation, t)
        PROVE  Said(r, relation, t)'
    <3>1. row \in todo'[host[r]]
      BY <2>1 DEF About, Ruling
    <3> QED BY <2>1, <3>1 DEF Said
  <2>2. CASE Stands(r, relation, t)
    <3>1. PICK j \in DOMAIN triples :
            /\ About(triples[j], relation, t) /\ triples[j].subject = best[r][t]
            /\ \A i \in DOMAIN triples :
                 About(triples[i], relation, t) => i <= j /\ triples[i].from <= triples[j].from
      BY <2>2 DEF Stands
    <3>2. j \in DOMAIN triples' /\ RowKept(j)
      BY DEF Kept
    <3>3. ASSUME NEW i \in DOMAIN triples', About(triples'[i], relation, t)
          PROVE  i <= j /\ triples'[i].from <= triples'[j].from
      <4>1. i \in DOMAIN triples /\ RowKept(i) /\ About(triples[i], relation, t)
        BY <1>2, <3>3 DEF About, Ruling, RowKept
      <4> QED BY <3>1, <3>2, <4>1 DEF RowKept
    <3>4. About(triples'[j], relation, t) /\ triples'[j].subject = best'[r][t]
      BY <3>1, <3>2 DEF About, RowKept
    <3> QED BY <3>2, <3>3, <3>4 DEF Said, Stands
  <2> QED BY <1>4, <2>1, <2>2 DEF Said
<1>5. ASSUME run'[r].pc \in Late, NEW t \in Task
      PROVE  /\ t \in LockedTasks(r)' => Said(r, "locked_to", t)'
             /\ t \in DemotedTasks(r)' /\ NeverLocked(t)' => Said(r, "demoted_from", t)'
  BY <1>1, <1>4, <1>5 DEF WordOf, Rereads
<1> QED BY <1>3, <1>5 DEF WordOf

(* An insertion adds its row behind the others.                            *)
LEMMA InsertAdds ==
  ASSUME KGTypeOK, NEW p, NEW row \in Row, addTriple(p, row)
  PROVE  /\ Kept /\ DOMAIN triples' = DOMAIN triples \cup {Len(triples) + 1}
         /\ triples'[Len(triples) + 1] = row /\ Len(triples) + 1 \notin DOMAIN triples
         /\ DOMAIN triples \subseteq Nat /\ Len(triples) \in Nat
         /\ \A i \in DOMAIN triples : triples'[i] = triples[i] /\ i < Len(triples) + 1
<1>1. triples \in Seq(Row) /\ triples' = Append(triples, row)
  BY DEF KGTypeOK, addTriple
<1> QED BY <1>1 DEF Kept, RowKept

(* No other statement adds a row, or ends one of the Historian's: those    *)
(* outrank nobody less than themselves.                                    *)
LEMMA OthersAddNone ==
  ASSUME KGInv, NEW p \in Process,
         \/ selectConflicts(p)
         \/ \E k \in writing[p].rivals : settleConflict(p, k)
         \/ die(p) \/ tomorrow
  PROVE  /\ Kept /\ DOMAIN triples' = DOMAIN triples
         /\ \A i \in DOMAIN triples :
              triples[i].agent = "historian" /\ Standing(i) => Standing(i)'
<1>1. CASE triples' = triples
  BY <1>1 DEF Kept, RowKept, Standing
<1>2. ASSUME NEW k \in writing[p].rivals, settleConflict(p, k)
      PROVE  /\ Kept /\ DOMAIN triples' = DOMAIN triples
             /\ \A i \in DOMAIN triples :
                  triples[i].agent = "historian" /\ Standing(i) => Standing(i)'
  <2> DEFINE new == writing[p].id
  <2>1. new \in DOMAIN triples /\ k \in DOMAIN triples /\ triples \in Seq(Row)
    BY <1>2 DEF settleConflict, KGInv, KGTypeOK, Writer
  <2>2. \/ Rank(new) > Rank(k) /\ triples' = [triples EXCEPT ![k].to = writing[p].asof]
        \/ Rank(k) > Rank(new) /\ triples' = [triples EXCEPT ![new].to = writing[p].asof]
        \/ triples' = [triples EXCEPT ![k].pending = TRUE]
    BY <1>2 DEF settleConflict
  <2>3. \A i \in DOMAIN triples : triples[i] \in Row
    BY <2>1
  <2>4. ASSUME NEW i \in DOMAIN triples, NEW j \in DOMAIN triples, Rank(j) > Rank(i)
        PROVE  triples[i].agent # "historian"
    <3>1. triples[j].agent \in DOMAIN ROLE_PRECEDENCE
      BY <2>3 DEF Row
    <3> QED BY <2>4, <3>1 DEF Rank, ROLE_PRECEDENCE
  <2> HIDE DEF new
  <2>5. DOMAIN triples' = DOMAIN triples
    BY <2>2
  <2>6. ASSUME NEW i \in DOMAIN triples
        PROVE  /\ RowKept(i)
               /\ triples[i].agent = "historian" => triples'[i].to = triples[i].to
    <3>1. triples[i] \in Row
      BY <2>3
    <3>2. CASE Rank(new) > Rank(k) /\ triples' = [triples EXCEPT ![k].to = writing[p].asof]
      <4>1. CASE i = k
        <5>1. triples'[i] = [triples[i] EXCEPT !.to = writing[p].asof]
          BY <3>2, <4>1
        <5> QED BY <2>1, <2>4, <3>1, <3>2, <4>1, <5>1 DEF RowKept, Row
      <4>2. CASE i # k
        BY <3>2, <4>2 DEF RowKept
      <4> QED BY <4>1, <4>2
    <3>3. CASE Rank(k) > Rank(new) /\ triples' = [triples EXCEPT ![new].to = writing[p].asof]
      <4>1. CASE i = new
        <5>1. triples'[i] = [triples[i] EXCEPT !.to = writing[p].asof]
          BY <3>3, <4>1
        <5> QED BY <2>1, <2>4, <3>1, <3>3, <4>1, <5>1 DEF RowKept, Row
      <4>2. CASE i # new
        BY <3>3, <4>2 DEF RowKept
      <4> QED BY <4>1, <4>2
    <3>4. CASE triples' = [triples EXCEPT ![k].pending = TRUE]
      <4>1. triples'[i] = triples[i] \/ triples'[i] = [triples[i] EXCEPT !.pending = TRUE]
        BY <3>4
      <4> QED BY <3>1, <4>1 DEF RowKept, Row
    <3> QED BY <2>2, <3>2, <3>3, <3>4
  <2> QED BY <2>5, <2>6 DEF Kept, Standing
<1>3. selectConflicts(p) \/ die(p) \/ tomorrow => triples' = triples
  BY DEF selectConflicts, die, tomorrow
<1> QED BY <1>1, <1>2, <1>3

(* A run that rules writes one of its rulings.                             *)
LEMMA WordWritten ==
  ASSUME NEW r \in Run, Inv, Rules(r), WordOf(r), Rereads(r),
         NEW p \in Process, NEW row \in todo[p], Ruling(row), addTriple(p, row),
         todo' = [todo EXCEPT ![p] = @ \ {row}],
         run'[r].pc = run[r].pc, best'[r] = best[r]
  PROVE  WordOf(r)'
<1> DEFINE n == Len(triples) + 1
<1>0. /\ todo \in [Process -> SUBSET Row] /\ row \in Row /\ KGTypeOK /\ host[r] \in Process
      /\ MaxDay \in Nat
  BY MemoryAssumption, DayAssumption DEF MemoryAssumption, DayAssumption, Inv, Todo, KGInv
<1>1. Kept /\ DOMAIN triples' = DOMAIN triples \cup {n} /\ triples'[n] = row
  BY <1>0, InsertAdds
<1>2. /\ n \notin DOMAIN triples /\ n \in Nat /\ DOMAIN triples \subseteq Nat
      /\ \A i \in DOMAIN triples : triples'[i] = triples[i] /\ i < n
  BY <1>0, InsertAdds
<1> HIDE DEF n
<1>3. Waits(r, p, row) /\ p = host[r]
  BY DEF WordOf, Waits
<1>4. /\ todo'[p] = todo[p] \ {row}
      /\ \A q \in Process : todo'[q] \subseteq todo[q]
  BY <1>0
<1>5. \A t : NeverLocked(t)' => NeverLocked(t)
  BY <1>1 DEF NeverLocked, Kept, RowKept
<1>6. \A x \in Row : x.from \in Int
  BY <1>0 DEF Row
<1>7. ASSUME NEW q \in Process, NEW other \in todo'[q], Ruling(other)
      PROVE  Waits(r, q, other)'
  <2>1. Waits(r, q, other) /\ other \in todo[q] /\ other \in Row /\ q = p
    BY <1>0, <1>3, <1>4, <1>7 DEF WordOf, Waits
  <2>2. CASE run[r].pc = "routing"
    <3>1. other.from = row.from
      BY <1>3, <2>1, <2>2 DEF Waits
    <3>2. \A i \in DOMAIN triples' : Ruling(triples'[i]) => triples'[i].from <= other.from
      BY <1>0, <1>1, <1>2, <1>6, <2>1, <2>2, <3>1 DEF Waits
    <3>3. \A x \in todo'[q] : Ruling(x) => x.from = other.from
      BY <1>4, <2>1, <2>2 DEF Waits
    <3> QED BY <2>1, <2>2, <3>2, <3>3 DEF Waits
  <2>3. CASE run[r].pc # "routing"
    BY <1>5, <2>1, <2>3 DEF Waits
  <2> QED BY <2>2, <2>3
<1>8. ASSUME NEW relation \in {"locked_to", "demoted_from"}, NEW t \in Task,
             Said(r, relation, t), relation = "demoted_from" => NeverLocked(t)
      PROVE  Said(r, relation, t)'
  <2>1. CASE About(row, relation, t)
    <3>1. run[r].pc = "routing"
      BY <1>3, <1>8, <2>1 DEF Waits, About
    <3>2. triples'[n].subject = best'[r][t]
      BY <1>1, <1>3, <2>1, <3>1 DEF Waits, About
    <3>3. \A i \in DOMAIN triples' :
            About(triples'[i], relation, t) => i <= n /\ triples'[i].from <= triples'[n].from
      <4>1. \A i \in DOMAIN triples : Ruling(triples[i]) => triples[i].from <= row.from
        BY <1>3, <3>1 DEF Waits
      <4> QED BY <1>0, <1>1, <1>2, <1>6, <4>1 DEF About, Ruling
    <3> QED BY <1>1, <2>1, <3>2, <3>3 DEF Said, Stands
  <2>2. CASE ~About(row, relation, t)
    <3>1. ASSUME run[r].pc = "routing", NEW x \in todo[host[r]], About(x, relation, t)
          PROVE  Said(r, relation, t)'
      <4>1. x \in todo'[host[r]]
        BY <1>3, <1>4, <2>2, <3>1
      <4> QED BY <3>1, <4>1 DEF Said
    <3>2. CASE Stands(r, relation, t)
      <4>1. PICK j \in DOMAIN triples :
              /\ About(triples[j], relation, t) /\ triples[j].subject = best[r][t]
              /\ \A i \in DOMAIN triples :
                   About(triples[i], relation, t) => i <= j /\ triples[i].from <= triples[j].from
        BY <3>2 DEF Stands
      <4>2. \A i \in DOMAIN triples' :
              About(triples'[i], relation, t) => i \in DOMAIN triples
        BY <1>1, <2>2
      <4>3. /\ j \in DOMAIN triples'
            /\ About(triples'[j], relation, t) /\ triples'[j].subject = best'[r][t]
            /\ \A i \in DOMAIN triples' :
                 About(triples'[i], relation, t) => i <= j /\ triples'[i].from <= triples'[j].from
        BY <1>1, <1>2, <4>1, <4>2
      <4> QED BY <4>3 DEF Said, Stands
    <3> QED BY <1>8, <3>1, <3>2 DEF Said
  <2> QED BY <2>1, <2>2
<1>9. ASSUME run'[r].pc \in Late, NEW t \in Task
      PROVE  /\ t \in LockedTasks(r)' => Said(r, "locked_to", t)'
             /\ t \in DemotedTasks(r)' /\ NeverLocked(t)' => Said(r, "demoted_from", t)'
  BY <1>5, <1>8, <1>9 DEF WordOf, Rereads
<1> QED BY <1>7, <1>9 DEF WordOf

(* What the stages of a run write.                                         *)
Writes(r, from, to, rows) ==
  \/ /\ from \in {"synthesizing", "batch"} /\ to \in {"batch", "playbooks"}
     /\ \A row \in rows : ~Ruling(row)
  \/ /\ from = "playbooks" /\ to = "routing"
     /\ \A row \in rows : row.subject = best[r][row.object]
     /\ \A t \in LockedTasks(r) : \E row \in rows : About(row, "locked_to", t)
     /\ \A t \in DemotedTasks(r) : \E row \in rows : About(row, "demoted_from", t)
  \/ /\ from = "routing" /\ to = "validating"
     /\ \A row \in rows : row.relation = "demoted_from" /\ ~NeverLocked(row.object)
  \/ /\ from = "validating" /\ to = "preferring"
     /\ \A row \in rows : ~Ruling(row)

(* A stage of the run that rules.  It has nothing left to write of the one *)
(* before, so what it said of a task type stands.                          *)
LEMMA OwnStage ==
  ASSUME NEW r \in Run, Inv, Rules(r), WordOf(r), Rereads(r),
         NEW from, NEW to, NEW rows \in SUBSET Row,
         Stage(r, from, to, rows), Writes(r, from, to, rows), run'[r].pc = to,
         \A row \in rows : row.from = day
  PROVE  WordOf(r)'
<1>0. /\ todo \in [Process -> SUBSET Row] /\ host[r] \in Process
      /\ run[r].pc = from /\ todo[host[r]] = {} /\ todo' = [todo EXCEPT ![host[r]] = rows]
      /\ triples' = triples /\ best' = best
  BY MemoryAssumption DEF MemoryAssumption, Inv, Todo, Stage, Free, kgvars
<1>1. ASSUME NEW p \in Process, NEW row \in todo'[p], Ruling(row)
      PROVE  p = host[r] /\ row \in rows
  BY <1>0, <1>1 DEF WordOf, Waits
<1>2. \A relation, t : Said(r, relation, t) => Stands(r, relation, t)
  BY <1>0 DEF Said
<1>3. \A relation, t : Stands(r, relation, t)' <=> Stands(r, relation, t)
  BY <1>0 DEF Stands
<1>4. \A t : NeverLocked(t)' <=> NeverLocked(t)
  BY <1>0 DEF NeverLocked
<1>5. CASE from \in {"synthesizing", "batch"} /\ to \in {"batch", "playbooks"}
  <2>1. \A row \in rows : ~Ruling(row)
    BY <1>5 DEF Writes
  <2> QED BY <1>1, <1>5, <2>1 DEF WordOf, Late
<1>6. CASE from = "playbooks" /\ to = "routing"
  <2>1. /\ \A row \in rows : row.subject = best[r][row.object]
        /\ \A t \in LockedTasks(r) : \E row \in rows : About(row, "locked_to", t)
        /\ \A t \in DemotedTasks(r) : \E row \in rows : About(row, "demoted_from", t)
    BY <1>6 DEF Writes
  <2>2. todo'[host[r]] = rows
    BY <1>0
  <2>3. \A i \in DOMAIN triples : triples[i].from <= day
    BY DEF Inv, KGInv, Dated
  <2>4. ASSUME NEW p \in Process, NEW row \in todo'[p], Ruling(row)
        PROVE  Waits(r, p, row)'
    BY <1>0, <1>1, <1>6, <2>1, <2>2, <2>3, <2>4 DEF Waits
  <2>5. ASSUME NEW t \in Task
        PROVE  /\ t \in LockedTasks(r)' => Said(r, "locked_to", t)'
               /\ t \in DemotedTasks(r)' /\ NeverLocked(t)' => Said(r, "demoted_from", t)'
    BY <1>6, <2>1, <2>2 DEF Said, Rereads
  <2> QED BY <2>4, <2>5 DEF WordOf
<1>7. ASSUME run[r].pc \in Late, NEW t \in Task
      PROVE  /\ t \in LockedTasks(r)' => Said(r, "locked_to", t)'
             /\ t \in DemotedTasks(r)' /\ NeverLocked(t)' => Said(r, "demoted_from", t)'
  BY <1>2, <1>3, <1>4, <1>7 DEF WordOf, Said, Rereads
<1>8. CASE from = "routing" /\ to = "validating"
  <2>1. \A row \in rows : row.relation = "demoted_from" /\ ~NeverLocked(row.object)
    BY <1>8 DEF Writes
  <2>2. ASSUME NEW p \in Process, NEW row \in todo'[p], Ruling(row)
        PROVE  Waits(r, p, row)'
    BY <1>1, <1>4, <1>8, <2>1, <2>2 DEF Waits
  <2> QED BY <1>0, <1>7, <1>8, <2>2 DEF WordOf, Late
<1>9. CASE from = "validating" /\ to = "preferring"
  <2>1. \A row \in rows : ~Ruling(row)
    BY <1>9 DEF Writes
  <2> QED BY <1>0, <1>1, <1>7, <1>9, <2>1 DEF WordOf, Late
<1> QED BY <1>5, <1>6, <1>8, <1>9 DEF Writes

(* A stage of any run: one that goes on beside the run that rules began    *)
(* later, and has not come to its routes.                                  *)
LEMMA StageKeeps ==
  ASSUME WordInv, NEW x \in Run, NEW from, NEW to, NEW rows \in SUBSET Row,
         Stage(x, from, to, rows), Writes(x, from, to, rows),
         \A row \in rows : row.from = day
  PROVE  Numbered' /\ Ruled' /\ \A r \in Run : WordOf(r)'
<1>0. /\ todo \in [Process -> SUBSET Row] /\ host \in [Run -> Process]
      /\ run[x].pc = from /\ todo[host[x]] = {} /\ todo' = [todo EXCEPT ![host[x]] = rows]
      /\ run' = [run EXCEPT ![x].pc = to]
      /\ triples' = triples /\ best' = best /\ ledger' = ledger /\ age' = age /\ day \in 1 .. MaxDay
  BY MemoryAssumption DEF MemoryAssumption, WordInv, Inv, KGInv, KGTypeOK, Todo, Stage, Free, kgvars
<1>1. /\ from \in (Early \cup Late) \ {"preferring"} /\ to \in Early \cup Late
      /\ to \in Early => from \in Early /\ \A row \in rows : ~Ruling(row)
  BY DEF Writes, Early, Late
<1>2. run \in [Run -> [pc : {"idle", "dead"} \cup Early \cup Late, seen : Int, polls : Int,
                       nth : Nat, alone : BOOLEAN]]
  BY DEF WordInv, Numbered
<1>3. /\ run'[x].pc = to
      /\ \A r \in Run : /\ r # x => run'[r].pc = run[r].pc
                        /\ run'[r].nth = run[r].nth /\ run'[r].alone = run[r].alone
                        /\ run'[r].seen = run[r].seen
      /\ run' \in [Run -> [pc : {"idle", "dead"} \cup Early \cup Late, seen : Int, polls : Int,
                           nth : Nat, alone : BOOLEAN]]
  BY <1>0, <1>1, <1>2
<1>4. Started' = Started
  BY <1>0, <1>1, <1>3 DEF Started, Early, Late
<1>5. Numbered'
  BY <1>0, <1>1, <1>3, <1>4 DEF WordInv, Numbered, Early, Late
<1>6. Ruled'
  <2>1. ASSUME NEW p \in Process, NEW row \in todo'[p]
        PROVE  /\ row.agent = "historian" => row.from >= 1
               /\ Ruling(row) => \E o \in Run : host[o] = p /\ run'[o].pc \in Early \cup Late
    <3>1. CASE p = host[x]
      BY <1>0, <1>1, <1>3, <2>1, <3>1
    <3>2. CASE p # host[x]
      <4>1. row \in todo[p]
        BY <1>0, <3>2
      <4> QED BY <1>0, <1>1, <1>3, <4>1 DEF WordInv, Ruled
    <3> QED BY <3>1, <3>2
  <2>2. \A i \in DOMAIN triples' :
          triples'[i].agent = "historian" => Standing(i)' /\ triples'[i].from >= 1
    BY <1>0 DEF WordInv, Ruled, Standing
  <2> QED BY <2>1, <2>2 DEF Ruled
<1>7. ASSUME NEW r \in Run, Rules(r)' PROVE WordOf(r)'
  <2>1. Rereads(r)
    BY <1>0, <1>3, TasksStay
  <2>2. CASE r = x
    <3>1. Rules(r)
      BY <1>0, <1>1, <1>3, <1>7, <2>2 DEF Rules
    <3>2. WordOf(r) /\ Inv
      BY DEF WordInv
    <3> QED BY <1>0, <1>3, <2>1, <2>2, <3>1, <3>2, OwnStage
  <2>3. CASE r # x
    <3>1. run[x].nth > run[r].nth
      BY <1>0, <1>1, <1>3, <1>7, <2>3 DEF WordInv, Numbered, Rules
    <3>2. to \in Early
      BY <1>3, <1>7, <3>1 DEF Rules
    <3>3. Rules(r)
      BY <1>0, <1>1, <1>3, <1>7, <2>3, <3>2 DEF Rules
    <3>4. \A p \in Process : \A row \in todo'[p] : Ruling(row) => row \in todo[p]
      BY <1>0, <1>1, <3>2
    <3>5. \A row \in todo[host[r]] : row \in todo'[host[r]]
      BY <1>0
    <3>6. Kept /\ WordOf(r) /\ run'[r].pc = run[r].pc /\ best'[r] = best[r] /\ triples' = triples
      BY <1>0, <1>3, <2>3 DEF Kept, RowKept, WordInv
    <3> QED BY <2>1, <3>3, <3>4, <3>5, <3>6, WordKept
  <2> QED BY <2>2, <2>3
<1>8. \A r \in Run : WordOf(r)'
  BY <1>7 DEF WordOf
<1> QED BY <1>5, <1>6, <1>8

(* Steps that leave the runs as they are.                                  *)
RunsStay ==
  /\ run' \in [Run -> [pc : {"idle", "dead"} \cup Early \cup Late, seen : Int, polls : Int,
                       nth : Nat, alone : BOOLEAN]]
  /\ \A r \in Run : /\ run'[r].pc = run[r].pc /\ run'[r].nth = run[r].nth
                    /\ run'[r].alone = run[r].alone /\ run'[r].seen = run[r].seen
  /\ best' = best /\ ledger' = ledger /\ age' = age

LEMMA RunsStayNumbered ==
  ASSUME WordInv, RunsStay
  PROVE  /\ Numbered' /\ \A r \in Run : Rereads(r) /\ (Rules(r)' <=> Rules(r))
<1>1. Started' = Started
  BY DEF RunsStay, Started
<1>2. Numbered'
  BY <1>1 DEF RunsStay, WordInv, Numbered
<1>3. \A r \in Run : Rereads(r)
  BY TasksStay DEF RunsStay
<1> QED BY <1>2, <1>3 DEF RunsStay, Rules

(* No row is added, and the Historian gets nothing to write.               *)
LEMMA NothingAdded ==
  ASSUME WordInv, RunsStay, Kept, DOMAIN triples' = DOMAIN triples,
         \A i \in DOMAIN triples :
           triples[i].agent = "historian" /\ Standing(i) => Standing(i)',
         \A p \in Process : \A row \in todo'[p] : row \in todo[p] \/ row.agent # "historian",
         \A p \in Process : todo[p] \subseteq todo'[p]
  PROVE  Numbered' /\ Ruled' /\ \A r \in Run : WordOf(r)'
<1>1. Numbered' /\ \A r \in Run : Rereads(r) /\ (Rules(r)' <=> Rules(r))
  BY RunsStayNumbered
<1>2. Ruled'
  <2>1. ASSUME NEW p \in Process, NEW row \in todo'[p], row.agent = "historian"
        PROVE  /\ row.from >= 1
               /\ Ruling(row) => \E o \in Run : host[o] = p /\ run'[o].pc \in Early \cup Late
    BY <2>1 DEF WordInv, Ruled, RunsStay
  <2>2. \A i \in DOMAIN triples' :
          triples'[i].agent = "historian" => Standing(i)' /\ triples'[i].from >= 1
    BY DEF WordInv, Ruled, Kept, RowKept
  <2> QED BY <2>1, <2>2 DEF Ruled, Ruling
<1>3. ASSUME NEW r \in Run, Rules(r)' PROVE WordOf(r)'
  <2>1. /\ Rules(r) /\ Rereads(r) /\ WordOf(r)
        /\ run'[r].pc = run[r].pc /\ best'[r] = best[r] /\ host[r] \in Process
    BY <1>1, <1>3, MemoryAssumption DEF MemoryAssumption, WordInv, RunsStay
  <2>2. \A p \in Process : \A row \in todo'[p] : Ruling(row) => row \in todo[p]
    BY DEF Ruling
  <2>3. \A row \in todo[host[r]] : Ruling(row) => row \in todo'[host[r]]
    BY <2>1
  <2> QED BY <2>1, <2>2, <2>3, WordKept
<1>4. \A r \in Run : WordOf(r)'
  BY <1>3 DEF WordOf
<1> QED BY <1>1, <1>2, <1>4

(* A row is added: by anybody else, or one that a run has to write.        *)
LEMMA OneAdded ==
  ASSUME WordInv, RunsStay, NEW p \in Process, NEW row \in Row,
         row.to = Never, addTriple(p, row),
         \/ row.agent # "historian" /\ todo' = todo
         \/ row \in todo[p] /\ todo' = [todo EXCEPT ![p] = @ \ {row}]
  PROVE  Numbered' /\ Ruled' /\ \A r \in Run : WordOf(r)'
<1>0. Inv /\ KGTypeOK /\ todo \in [Process -> SUBSET Row] /\ host \in [Run -> Process]
  BY MemoryAssumption DEF MemoryAssumption, WordInv, Inv, Todo, KGInv
<1>1. Numbered' /\ \A r \in Run : Rereads(r) /\ (Rules(r)' <=> Rules(r))
  BY RunsStayNumbered
<1>2. /\ Kept /\ DOMAIN triples' = DOMAIN triples \cup {Len(triples) + 1}
      /\ triples'[Len(triples) + 1] = row
      /\ \A i \in DOMAIN triples : triples'[i] = triples[i]
  BY <1>0, InsertAdds
<1>3. \A q \in Process : todo'[q] \subseteq todo[q]
  BY <1>0
<1>4. Ruled'
  <2>1. \A q \in Process : \A x \in todo'[q] :
          /\ x.agent = "historian" => x.from >= 1
          /\ Ruling(x) => \E o \in Run : host[o] = q /\ run'[o].pc \in Early \cup Late
    BY <1>3 DEF WordInv, Ruled, RunsStay
  <2>2. row.agent = "historian" => row.from >= 1
    BY DEF WordInv, Ruled
  <2>3. \A i \in DOMAIN triples' :
          triples'[i].agent = "historian" => Standing(i)' /\ triples'[i].from >= 1
    BY <1>2, <2>2 DEF WordInv, Ruled, Standing
  <2> QED BY <2>1, <2>3 DEF Ruled
<1>5. ASSUME NEW r \in Run, Rules(r)' PROVE WordOf(r)'
  <2>1. /\ Rules(r) /\ Rereads(r) /\ WordOf(r)
        /\ run'[r].pc = run[r].pc /\ best'[r] = best[r] /\ host[r] \in Process
    BY <1>0, <1>1, <1>5 DEF WordInv, RunsStay
  <2>2. CASE Ruling(row)
    <3>1. row \in todo[p] /\ todo' = [todo EXCEPT ![p] = @ \ {row}]
      BY <2>2 DEF Ruling
    <3> QED BY <1>0, <2>1, <2>2, <3>1, WordWritten
  <2>3. CASE ~Ruling(row)
    <3>1. \A i \in DOMAIN triples' \ DOMAIN triples : ~Ruling(triples'[i])
      BY <1>2, <2>3
    <3>2. \A x \in todo[host[r]] : Ruling(x) => x \in todo'[host[r]]
      BY <1>0, <2>1, <2>3
    <3> QED BY <1>2, <1>3, <2>1, <3>1, <3>2, WordKept
  <2> QED BY <2>2, <2>3
<1>6. \A r \in Run : WordOf(r)'
  BY <1>5 DEF WordOf
<1> QED BY <1>1, <1>4, <1>6

(* A process ends, and the runs it is host of with it.                     *)
LEMMA CrashKeeps ==
  ASSUME WordInv, NEW p \in Process, Crash(p)
  PROVE  Numbered' /\ Ruled' /\ \A r \in Run : WordOf(r)'
<1>0. /\ todo \in [Process -> SUBSET Row] /\ host \in [Run -> Process]
      /\ triples' = triples /\ todo' = [todo EXCEPT ![p] = {}]
      /\ best' = best /\ ledger' = ledger /\ age' = age
      /\ run' = [r \in Run |-> IF host[r] = p /\ Underway(r)
                               THEN [run[r] EXCEPT !.pc = "dead"] ELSE run[r]]
  BY MemoryAssumption DEF MemoryAssumption, WordInv, Inv, Todo, Crash, die
<1>1. run \in [Run -> [pc : {"idle", "dead"} \cup Early \cup Late, seen : Int, polls : Int,
                       nth : Nat, alone : BOOLEAN]]
  BY DEF WordInv, Numbered
<1>2. ASSUME NEW r \in Run
      PROVE  /\ run'[r] \in [pc : {"idle", "dead"} \cup Early \cup Late, seen : Int, polls : Int,
                             nth : Nat, alone : BOOLEAN]
             /\ run'[r].nth = run[r].nth /\ run'[r].alone = run[r].alone
             /\ run'[r].seen = run[r].seen
             /\ IF host[r] = p /\ Underway(r) THEN run'[r].pc = "dead" /\ run[r].pc # "idle"
                                              ELSE run'[r].pc = run[r].pc
  <2>1. run[r] \in [pc : {"idle", "dead"} \cup Early \cup Late, seen : Int, polls : Int,
                    nth : Nat, alone : BOOLEAN]
    BY <1>1
  <2>2. CASE host[r] = p /\ Underway(r)
    <3>1. run'[r] = [run[r] EXCEPT !.pc = "dead"]
      BY <1>0, <2>2
    <3>2. run[r].pc # "idle"
      BY <2>2 DEF Underway
    <3> QED BY <2>1, <2>2, <3>1, <3>2
  <2>3. CASE ~(host[r] = p /\ Underway(r))
    <3>1. run'[r] = run[r]
      BY <1>0, <2>3
    <3> QED BY <2>1, <2>3, <3>1
  <2> QED BY <2>2, <2>3
<1>3. Started' = Started
  BY <1>2 DEF Started
<1>4. run' \in [Run -> [pc : {"idle", "dead"} \cup Early \cup Late, seen : Int, polls : Int,
                        nth : Nat, alone : BOOLEAN]]
  BY <1>0, <1>2
<1>5. Numbered'
  BY <1>0, <1>2, <1>3, <1>4 DEF WordInv, Numbered, Early, Late
<1>6. Ruled'
  <2>1. ASSUME NEW q \in Process, NEW row \in todo'[q]
        PROVE  /\ row.agent = "historian" => row.from >= 1
               /\ Ruling(row) => \E o \in Run : host[o] = q /\ run'[o].pc \in Early \cup Late
    <3>1. q # p /\ row \in todo[q]
      BY <1>0, <2>1
    <3> QED BY <1>0, <1>2, <3>1 DEF WordInv, Ruled
  <2>2. \A i \in DOMAIN triples' :
          triples'[i].agent = "historian" => Standing(i)' /\ triples'[i].from >= 1
    BY <1>0 DEF WordInv, Ruled, Standing
  <2> QED BY <2>1, <2>2 DEF Ruled
<1>7. ASSUME NEW r \in Run, Rules(r)' PROVE WordOf(r)'
  <2>1. run'[r].pc = run[r].pc /\ ~(host[r] = p /\ Underway(r))
    BY <1>2, <1>7 DEF Rules, Early, Late
  <2>2. Rules(r)
    BY <1>2, <1>7, <2>1 DEF Rules, Early, Late
  <2>3. run[r].pc = "routing" => host[r] # p
    BY <2>1 DEF Underway
  <2>4. Rereads(r) /\ WordOf(r) /\ Kept /\ best'[r] = best[r] /\ triples' = triples
    BY <1>0, <1>2, TasksStay DEF WordInv, Kept, RowKept
  <2>5. /\ \A q \in Process : \A row \in todo'[q] : Ruling(row) => row \in todo[q]
        /\ run[r].pc = "routing" =>
             \A row \in todo[host[r]] : Ruling(row) => row \in todo'[host[r]]
    BY <1>0, <2>3
  <2> QED BY <2>1, <2>2, <2>4, <2>5, WordKept
<1>8. \A r \in Run : WordOf(r)'
  BY <1>7 DEF WordOf
<1> QED BY <1>5, <1>6, <1>8

(* A run starts: alone, and then nobody has a ruling left to write; or     *)
(* beside others, none of which is alone any longer.                       *)
LEMMA NightKeeps ==
  ASSUME WordInv, NEW x \in Run, runNightly(x)
  PROVE  Numbered' /\ Ruled' /\ \A r \in Run : WordOf(r)'
<1> DEFINE alone == ~\E o \in Run : Underway(o)
           new == [pc |-> "synthesizing", seen |-> age', polls |-> 0,
                   nth |-> 1 + Cardinality(Started), alone |-> alone]
<1>0. /\ todo \in [Process -> SUBSET Row] /\ host \in [Run -> Process]
      /\ best \in [Run -> [Task -> Model]]
      /\ triples' = triples /\ todo' = todo /\ ledger' = ledger
      /\ run[x].pc = "idle" /\ age' \in age .. Len(ledger)
  BY MemoryAssumption DEF MemoryAssumption, WordInv, Inv, Todo, runNightly, kgvars
<1>1. /\ run \in [Run -> [pc : {"idle", "dead"} \cup Early \cup Late, seen : Int, polls : Int,
                          nth : Nat, alone : BOOLEAN]]
      /\ age \in Int /\ IsFiniteSet(Started) /\ Cardinality(Started) \in Nat
  BY FS_CardinalityType DEF WordInv, Numbered
<1>2. \A r \in Run : r # x => best'[r] = best[r]
  BY <1>0 DEF runNightly
<1>3. run' = [q \in Run |-> IF q = x THEN new
                            ELSE IF Underway(q) THEN [run[q] EXCEPT !.alone = FALSE] ELSE run[q]]
  BY DEF runNightly, Started
<1>4. age' \in Int
  BY <1>0, <1>1
<1>5. alone \in BOOLEAN
  OBVIOUS
<1>6. \A o \in Run : alone => ~Underway(o)
  OBVIOUS
<1> HIDE DEF alone
<1>7. new \in [pc : {"idle", "dead"} \cup Early \cup Late, seen : Int, polls : Int,
               nth : Nat, alone : BOOLEAN]
      /\ new.pc = "synthesizing" /\ new.nth = 1 + Cardinality(Started) /\ new.alone = alone
  BY <1>1, <1>4, <1>5 DEF Early
<1> HIDE DEF new
<1>8. run'[x] = new
  BY <1>3
<1>9. ASSUME NEW r \in Run, r # x
      PROVE  /\ run'[r] \in [pc : {"idle", "dead"} \cup Early \cup Late, seen : Int, polls : Int,
                             nth : Nat, alone : BOOLEAN]
             /\ run'[r].pc = run[r].pc /\ run'[r].nth = run[r].nth /\ run'[r].seen = run[r].seen
             /\ run'[r].alone => run[r].alone /\ ~Underway(r)
  <2>1. run[r] \in [pc : {"idle", "dead"} \cup Early \cup Late, seen : Int, polls : Int,
                    nth : Nat, alone : BOOLEAN]
    BY <1>1
  <2>2. CASE Underway(r)
    <3>1. run'[r] = [run[r] EXCEPT !.alone = FALSE]
      BY <1>3, <1>9, <2>2
    <3> QED BY <2>1, <3>1
  <2>3. CASE ~Underway(r)
    <3>1. run'[r] = run[r]
      BY <1>3, <1>9, <2>3
    <3> QED BY <2>1, <2>3, <3>1
  <2> QED BY <2>2, <2>3
<1>10. run' \in [Run -> [pc : {"idle", "dead"} \cup Early \cup Late, seen : Int, polls : Int,
                         nth : Nat, alone : BOOLEAN]]
  BY <1>3, <1>7, <1>8, <1>9
<1>11. Started' = Started \cup {x} /\ x \notin Started
  BY <1>0, <1>7, <1>8, <1>9 DEF Started
<1>12. IsFiniteSet(Started') /\ Cardinality(Started') = Cardinality(Started) + 1
  BY <1>1, <1>11, FS_AddElement
<1>13. \A r \in Run : /\ run[r].pc = "idle" => run[r].nth = 0
                      /\ run[r].nth <= Cardinality(Started)
  BY DEF WordInv, Numbered
<1>14. ASSUME NEW r \in Run, NEW q \in Run, run'[r].alone, run'[r].pc \in Early \cup Late, q # r,
              run'[q].pc \in (Early \cup Late) \ {"preferring"}
       PROVE  run'[q].nth > run'[r].nth
  <2>1. CASE r = x
    <3>1. ~Underway(q) /\ run[q].pc \in (Early \cup Late) \ {"preferring"}
      BY <1>6, <1>7, <1>8, <1>9, <1>14, <2>1
    <3> QED BY <3>1 DEF Underway, Early, Late
  <2>2. CASE q = x /\ r # x
    BY <1>1, <1>7, <1>8, <1>9, <1>13, <2>2
  <2>3. CASE q # x /\ r # x
    BY <1>9, <1>14, <2>3 DEF WordInv, Numbered
  <2> QED BY <1>14, <2>1, <2>2, <2>3
<1>15. ASSUME NEW r \in Run
       PROVE  /\ run'[r].pc = "idle" => run'[r].nth = 0
              /\ run'[r].nth <= Cardinality(Started')
  BY <1>1, <1>7, <1>8, <1>9, <1>12, <1>13
<1>16. Numbered'
  BY <1>4, <1>10, <1>12, <1>14, <1>15 DEF Numbered
<1>17. Ruled'
  <2>1. ASSUME NEW p \in Process, NEW row \in todo'[p]
        PROVE  /\ row.agent = "historian" => row.from >= 1
               /\ Ruling(row) => \E o \in Run : host[o] = p /\ run'[o].pc \in Early \cup Late
    BY <1>0, <1>9, <2>1 DEF WordInv, Ruled, Early, Late
  <2>2. \A i \in DOMAIN triples' :
          triples'[i].agent = "historian" => Standing(i)' /\ triples'[i].from >= 1
    BY <1>0 DEF WordInv, Ruled, Standing
  <2> QED BY <2>1, <2>2 DEF Ruled
<1>18. ASSUME NEW r \in Run, Rules(r)' PROVE WordOf(r)'
  <2>1. CASE r = x
    <3>1. ASSUME NEW p \in Process, NEW row \in todo[p], Ruling(row) PROVE FALSE
      <4>1. PICK o \in Run : host[o] = p /\ run[o].pc \in Early \cup Late
        BY <3>1 DEF WordInv, Ruled
      <4>2. Underway(o)
        BY <3>1, <4>1 DEF Underway, Free, Early, Late
      <4> QED BY <1>6, <1>7, <1>8, <1>18, <2>1, <4>2 DEF Rules
    <3> QED BY <1>0, <1>7, <1>8, <2>1, <3>1 DEF WordOf, Late
  <2>2. CASE r # x
    <3>1. Rules(r)
      <4>1. run[r].alone /\ run[r].pc \in Early \cup Late
        BY <1>9, <1>18, <2>2 DEF Rules
      <4>2. ASSUME NEW q \in Run, run[q].nth > run[r].nth PROVE run[q].pc \in Early
        <5>1. q # x
          BY <1>0, <1>1, <1>13, <4>2
        <5> QED BY <1>9, <1>18, <2>2, <4>2, <5>1 DEF Rules
      <4> QED BY <4>1, <4>2 DEF Rules
    <3>2. /\ Rereads(r) /\ WordOf(r) /\ Kept /\ triples' = triples
          /\ run'[r].pc = run[r].pc /\ best'[r] = best[r]
      BY <1>0, <1>2, <1>9, <2>2, TasksStay DEF WordInv, Kept, RowKept
    <3> QED BY <1>0, <3>1, <3>2, WordKept
  <2> QED BY <2>1, <2>2
<1>19. \A r \in Run : WordOf(r)'
  BY <1>18 DEF WordOf
<1> QED BY <1>16, <1>17, <1>19

(* What the Historian says of a model is a row, of today.                  *)
LEMMA HistorianRow ==
  ASSUME Inv, NEW subject \in Model, NEW relation \in Relation,
         NEW object \in Task \cup {Rig, "reason"}
  PROVE  LET row == ByHistorian(subject, relation, object)
         IN  /\ row \in Row /\ row.from = day /\ row.agent = "historian"
             /\ row.subject = subject /\ row.relation = relation /\ row.object = object
<1>1. "historian" \in DOMAIN ROLE_PRECEDENCE /\ day \in 0 .. MaxDay
  BY DayAssumption DEF DayAssumption, Inv, KGInv, KGTypeOK, ROLE_PRECEDENCE
<1> QED BY <1>1 DEF ByHistorian, NewRow, Row

LEMMA PlaybooksKeep ==
  ASSUME WordInv, NEW r \in Run,
         \/ generatePlaybooks(r) \/ createBatch(r) \/ pollBatch(r) \/ generatePlaybooksBatch(r)
  PROVE  Numbered' /\ Ruled' /\ \A x \in Run : WordOf(x)'
<1>0. PlaybookTasks(r) \subseteq Task /\ Inv /\ day \in 0 .. MaxDay /\ best \in [Run -> [Task -> Model]]
  BY DayAssumption DEF DayAssumption, PlaybookTasks, WordInv, Inv, KGInv, KGTypeOK
<1>1. ASSUME NEW t \in Task
      PROVE  LET row == PlaybookRow(r, t) IN row \in Row /\ row.from = day /\ ~Ruling(row)
  <2> DEFINE fresh == /\ 10 * patterns(r)[t].success > 9 * Total(patterns(r)[t])
                      /\ Total(patterns(r)[t]) >= 20
  <2>1. /\ fresh \in BOOLEAN /\ best[r][t] \in Model /\ "historian" \in DOMAIN ROLE_PRECEDENCE
        /\ "has_playbook" \in Relation
    BY <1>0 DEF ROLE_PRECEDENCE, Relation
  <2>2. PlaybookRow(r, t)
          = NewRow(Rig, "has_playbook", t, "historian", day, t, best[r][t], fresh)
    BY DEF PlaybookRow
  <2> HIDE DEF fresh
  <2> QED BY <1>0, <2>1, <2>2 DEF NewRow, Row, Ruling
<1>2. ASSUME NEW from \in {"synthesizing", "batch"}, generatePlaybook(r, from)
      PROVE  Numbered' /\ Ruled' /\ \A x \in Run : WordOf(x)'
  <2>1. PICK made \in SUBSET PlaybookTasks(r) :
          Stage(r, from, "playbooks", {PlaybookRow(r, t) : t \in made})
    BY <1>2, Zenon DEF generatePlaybook
  <2> DEFINE rows == {PlaybookRow(r, t) : t \in made}
  <2>2. \A row \in rows : row \in Row /\ row.from = day /\ ~Ruling(row)
    BY <1>0, <1>1
  <2>3. Stage(r, from, "playbooks", rows)
    BY <2>1
  <2> HIDE DEF rows
  <2>4. Writes(r, from, "playbooks", rows) /\ rows \in SUBSET Row
    BY <1>2, <2>2 DEF Writes
  <2> QED BY <2>2, <2>3, <2>4, StageKeeps
<1>3. CASE generatePlaybooks(r)
  BY <1>2, <1>3, Zenon DEF generatePlaybooks
<1>4. CASE generatePlaybooksBatch(r)
  BY <1>2, <1>4, Zenon DEF generatePlaybooksBatch
<1>5. CASE createBatch(r)
  <2>1. Stage(r, "synthesizing", "batch", {})
    BY <1>5, Zenon DEF createBatch
  <2>2. Writes(r, "synthesizing", "batch", {})
    BY DEF Writes
  <2> QED BY <2>1, <2>2, StageKeeps
<1>6. CASE pollBatch(r)
  <2>1. run \in [Run -> [pc : {"idle", "dead"} \cup Early \cup Late, seen : Int, polls : Int,
                         nth : Nat, alone : BOOLEAN]]
    BY DEF WordInv, Numbered
  <2>2. /\ run' = [run EXCEPT ![r].polls = @ + 1]
        /\ UNCHANGED <<triples, ledger, age, todo, best>>
    BY <1>6 DEF pollBatch, kgvars
  <2>3. run[r].polls + 1 \in Int
    BY <2>1
  <2>4. RunsStay
    BY <2>1, <2>2, <2>3 DEF RunsStay
  <2>5. Kept /\ \A i \in DOMAIN triples : Standing(i)' <=> Standing(i)
    BY <2>2 DEF Kept, RowKept, Standing
  <2> QED BY <2>2, <2>4, <2>5, NothingAdded
<1> QED BY <1>3, <1>4, <1>5, <1>6

LEMMA RulingsKeep ==
  ASSUME WordInv, NEW r \in Run,
         updateRoutingKG(r) \/ autoValidatePromotedModels(r) \/ updateRigPreferences(r)
  PROVE  Numbered' /\ Ruled' /\ \A x \in Run : WordOf(x)'
<1>0. Inv /\ KGTypeOK /\ best \in [Run -> [Task -> Model]]
  BY DEF WordInv, Inv, KGInv
<1>r. {"locked_to", "demoted_from", "preferred_for"} \subseteq Relation
  BY DEF Relation, CRITICAL_RELATIONS
<1>1. CASE updateRoutingKG(r)
  <2> DEFINE locks == {ByHistorian(best[r][t], "locked_to", t) : t \in LockedTasks(r)}
             demotions == {ByHistorian(best[r][t], "demoted_from", t) : t \in DemotedTasks(r)}
             rows == locks \cup demotions
  <2>1. LockedTasks(r) \subseteq Task /\ DemotedTasks(r) \subseteq Task
    BY DEF LockedTasks, DemotedTasks
  <2>2. ASSUME NEW relation \in {"locked_to", "demoted_from"}, NEW t \in Task
        PROVE  LET row == ByHistorian(best[r][t], relation, t)
               IN  /\ row \in Row /\ row.from = day /\ row.agent = "historian"
                   /\ row.subject = best[r][t] /\ row.relation = relation /\ row.object = t
    <3>1. best[r][t] \in Model /\ relation \in Relation
      BY <1>0, <1>r
    <3> QED BY <1>0, <3>1, HistorianRow
  <2>3. \A row \in rows : row \in Row /\ row.from = day /\ row.subject = best[r][row.object]
    BY <2>1, <2>2
  <2>4. /\ \A t \in LockedTasks(r) : \E row \in rows : About(row, "locked_to", t)
        /\ \A t \in DemotedTasks(r) : \E row \in rows : About(row, "demoted_from", t)
    BY <2>1, <2>2 DEF About
  <2>5. Stage(r, "playbooks", "routing", rows)
    BY <1>1 DEF updateRoutingKG
  <2> HIDE DEF locks, demotions, rows
  <2>6. Writes(r, "playbooks", "routing", rows) /\ rows \in SUBSET Row
    BY <2>3, <2>4 DEF Writes
  <2> QED BY <2>3, <2>5, <2>6, StageKeeps
<1>2. CASE autoValidatePromotedModels(r)
  <2>1. PICK poor \in SUBSET {m \in Model : queryTriples(m, "locked_to") # {} /\ Reviewed(r, m)} :
          Stage(r, "routing", "validating",
                UNION {{ByHistorian(m, "demoted_from", triples[i].object) :
                          i \in queryTriples(m, "locked_to")} : m \in poor})
    BY <1>2 DEF autoValidatePromotedModels
  <2> DEFINE rows == UNION {{ByHistorian(m, "demoted_from", triples[i].object) :
                               i \in queryTriples(m, "locked_to")} : m \in poor}
  <2>2. ASSUME NEW m \in poor, NEW i \in queryTriples(m, "locked_to")
        PROVE  LET row == ByHistorian(m, "demoted_from", triples[i].object)
               IN  /\ row \in Row /\ row.from = day
                   /\ row.relation = "demoted_from" /\ ~NeverLocked(row.object)
    <3>1. i \in DOMAIN triples /\ triples[i].relation = "locked_to" /\ triples[i] \in Row /\ m \in Model
      BY <1>0 DEF queryTriples, KGTypeOK
    <3>2. triples[i].object \in Task \cup {Rig, "reason"} /\ ~NeverLocked(triples[i].object)
      BY <3>1 DEF Row, NeverLocked
    <3> QED BY <1>0, <1>r, <3>1, <3>2, HistorianRow
  <2>3. \A row \in rows : /\ row \in Row /\ row.from = day
                          /\ row.relation = "demoted_from" /\ ~NeverLocked(row.object)
    BY <2>2
  <2>4. Stage(r, "routing", "validating", rows)
    BY <2>1
  <2> HIDE DEF rows
  <2>5. Writes(r, "routing", "validating", rows) /\ rows \in SUBSET Row
    BY <2>3 DEF Writes
  <2> QED BY <2>3, <2>4, <2>5, StageKeeps
<1>3. CASE updateRigPreferences(r)
  <2>1. PICK liked \in SUBSET Model :
          Stage(r, "validating", "preferring",
                {ByHistorian(m, "preferred_for", Rig) : m \in liked})
    <3>1. \E liked \in SUBSET Model :
            Stage(r, "validating", "preferring",
                  {ByHistorian(m, "preferred_for", Rig) : m \in liked})
      BY <1>3, Zenon DEF updateRigPreferences
    <3> QED BY <3>1
  <2> DEFINE rows == {ByHistorian(m, "preferred_for", Rig) : m \in liked}
  <2>2. \A row \in rows : row \in Row /\ row.from = day /\ ~Ruling(row)
    BY <1>0, <1>r, HistorianRow DEF Ruling
  <2>3. Stage(r, "validating", "preferring", rows)
    BY <2>1
  <2> HIDE DEF rows
  <2>4. Writes(r, "validating", "preferring", rows) /\ rows \in SUBSET Row
    BY <2>2 DEF Writes
  <2> QED BY <2>2, <2>3, <2>4, StageKeeps
<1> QED BY <1>1, <1>2, <1>3

LEMMA WordStep == ASSUME WordInv, [Next]_vars PROVE WordInv'
<1>0. Inv /\ KGInv /\ KGTypeOK /\ Todo /\ Inv'
  BY TownStep, DayAssumption, MemoryAssumption DEF WordInv, Inv, KGInv
<1>1. run \in [Run -> [pc : {"idle", "dead"} \cup Early \cup Late, seen : Int, polls : Int,
                       nth : Nat, alone : BOOLEAN]]
  BY DEF WordInv, Numbered
<1>2. UNCHANGED <<run, best, ledger, age>> => RunsStay
  BY <1>1 DEF RunsStay
<1>3. ASSUME UNCHANGED <<triples, run, best, ledger, age>>,
             \A p \in Process : \A row \in todo'[p] : row \in todo[p] \/ row.agent # "historian",
             \A p \in Process : todo[p] \subseteq todo'[p]
      PROVE  Numbered' /\ Ruled' /\ \A r \in Run : WordOf(r)'
  <2>1. Kept /\ DOMAIN triples' = DOMAIN triples
        /\ \A i \in DOMAIN triples : Standing(i)' <=> Standing(i)
    BY <1>3 DEF Kept, RowKept, Standing
  <2> QED BY <1>2, <1>3, <2>1, NothingAdded
<1>4. ASSUME NEW p \in Process, todo' = todo, UNCHANGED <<run, best, ledger, age>>,
             \/ selectConflicts(p)
             \/ \E k \in writing[p].rivals : settleConflict(p, k)
             \/ die(p) \/ tomorrow
      PROVE  Numbered' /\ Ruled' /\ \A r \in Run : WordOf(r)'
  <2>1. /\ Kept /\ DOMAIN triples' = DOMAIN triples
        /\ \A i \in DOMAIN triples :
             triples[i].agent = "historian" /\ Standing(i) => Standing(i)'
    BY <1>0, <1>4, OthersAddNone
  <2> QED BY <1>2, <1>4, <2>1, NothingAdded
<1>5. ASSUME NEW p \in Process, Write(p)
      PROVE  Numbered' /\ Ruled' /\ \A r \in Run : WordOf(r)'
  <2>1. UNCHANGED <<run, best, ledger, age>>
    BY <1>5 DEF Write
  <2>2. ASSUME NEW row \in todo[p], addTriple(p, row), todo' = [todo EXCEPT ![p] = @ \ {row}]
        PROVE  Numbered' /\ Ruled' /\ \A r \in Run : WordOf(r)'
    <3>1. row \in Row /\ row.to = Never
      BY <1>0 DEF Todo, Unwritten
    <3> QED BY <1>2, <2>1, <2>2, <3>1, OneAdded
  <2> QED BY <1>4, <1>5, <2>1, <2>2 DEF Write
<1>6. ASSUME NEW row \in Row, row.to = Never, row.agent # "historian", addTriple(Town, row),
             UNCHANGED <<todo, run, best, ledger, age>>
      PROVE  Numbered' /\ Ruled' /\ \A r \in Run : WordOf(r)'
  BY <1>2, <1>6, MemoryAssumption, OneAdded DEF MemoryAssumption
<1>d. day \in 0 .. MaxDay /\ 0 \in 0 .. MaxDay
  BY <1>0, DayAssumption DEF DayAssumption, KGTypeOK
<1>7. ASSUME NEW t \in Task \cup {NoTask}, emitLockdown(t)
      PROVE  Numbered' /\ Ruled' /\ \A r \in Run : WordOf(r)'
  <2> DEFINE row == NewRow("lockdown", "triggered_by", "reason", "safeguard", day, t,
                           NoModel, FALSE)
  <2>1. row \in Row /\ row.to = Never /\ row.agent = "safeguard"
    BY <1>d DEF NewRow, Row, Relation, ROLE_PRECEDENCE
  <2>2. addTriple(Town, row) /\ UNCHANGED <<todo, run, best, ledger, age>>
    BY <1>7 DEF emitLockdown
  <2> HIDE DEF row
  <2> QED BY <1>6, <2>1, <2>2
<1>8. ASSUME NEW a \in Added, handleMcpTool(a)
      PROVE  Numbered' /\ Ruled' /\ \A r \in Run : WordOf(r)'
  <2> DEFINE row == NewRow(a[2], a[3], a[4], a[1], day, NoTask, NoModel, FALSE)
  <2>1. /\ a[2] \in Model /\ a[3] \in {"locked_to", "demoted_from"}
        /\ a[4] \in Task /\ a[1] \in DOMAIN ROLE_PRECEDENCE /\ a[1] # "historian"
    BY MemoryAssumption DEF MemoryAssumption
  <2>2. row \in Row /\ row.to = Never /\ row.agent # "historian"
    BY <1>d, <2>1 DEF NewRow, Row, Relation, CRITICAL_RELATIONS
  <2>3. addTriple(Town, row) /\ UNCHANGED <<todo, run, best, ledger, age>>
    BY <1>8 DEF handleMcpTool
  <2> HIDE DEF row
  <2> QED BY <1>6, <2>2, <2>3
<1>9. ASSUME writeBootstrapTriples
      PROVE  Numbered' /\ Ruled' /\ \A r \in Run : WordOf(r)'
  <2> DEFINE rows == {NewRow(e[1], "locked_to", e[2], "other", 0, NoTask, NoModel, FALSE) :
                        e \in Table}
  <2>1. UNCHANGED <<triples, run, best, ledger, age>> /\ todo' = [todo EXCEPT ![Boot] = rows]
        /\ todo[Boot] = {}
    BY <1>9 DEF writeBootstrapTriples, Free, kgvars
  <2>2. \A row \in rows : row.agent # "historian"
    BY DEF NewRow
  <2> HIDE DEF rows
  <2>3. \A p \in Process : p # Boot => todo'[p] = todo[p]
    BY <1>0, <2>1 DEF Todo
  <2>4. todo'[Boot] = rows
    BY <1>0, <2>1, MemoryAssumption DEF MemoryAssumption, Todo
  <2> QED BY <1>3, <2>1, <2>2, <2>3, <2>4
<1>10. ASSUME Midnight PROVE Numbered' /\ Ruled' /\ \A r \in Run : WordOf(r)'
  BY <1>4, <1>10, MemoryAssumption DEF Midnight, MemoryAssumption
<1>11. ASSUME (\E t \in Task : lookUp(t)) \/ isPlaybookFresh \/ decomposed \/ UNCHANGED vars
       PROVE  Numbered' /\ Ruled' /\ \A r \in Run : WordOf(r)'
  <2>1. UNCHANGED <<triples, run, best, ledger, age, todo>>
    BY <1>11 DEF lookUp, isPlaybookFresh, decomposed, vars, townvars, kgvars
  <2> QED BY <1>3, <2>1
<1>12. Numbered' /\ Ruled' /\ \A r \in Run : WordOf(r)'
  BY <1>5, <1>7, <1>8, <1>9, <1>10, <1>11, CrashKeeps, NightKeeps, PlaybooksKeep, RulingsKeep
  DEF Next
<1> QED BY <1>0, <1>12 DEF WordInv

LEMMA WordInit == ASSUME Init PROVE WordInv
<1>1. Inv
  BY TownInit, DayAssumption, MemoryAssumption
<1>2. Started = {} /\ triples = <<>> /\ \A p \in Process : todo[p] = {}
  BY DEF Init, KGInit, Started, NoRun
<1>3. run \in [Run -> [pc : {"idle", "dead"} \cup Early \cup Late, seen : Int, polls : Int,
                       nth : Nat, alone : BOOLEAN]]
      /\ \A r \in Run : run[r].pc = "idle" /\ run[r].nth = 0
  BY DEF Init, NoRun
<1>4. IsFiniteSet(Started) /\ Cardinality(Started) = 0 /\ age \in Int
  BY <1>2, FS_EmptySet DEF Init
<1>5. Numbered
  BY <1>3, <1>4 DEF Numbered, Early, Late
<1>6. Ruled
  BY <1>2 DEF Ruled
<1>7. \A r \in Run : WordOf(r)
  BY <1>3 DEF WordOf, Rules, Early, Late
<1> QED BY <1>1, <1>5, <1>6, <1>7 DEF WordInv

(* The queries return the newest row first: the one that is later than all *)
(* others.                                                                 *)
LEMMA NewestIs ==
  ASSUME KGTypeOK, NEW S \in SUBSET DOMAIN triples, NEW j \in S,
         \A i \in S \ {j} : Later(j, i)
  PROVE  Newest(S) = j
<1>1. \A i \in S : triples[i].from \in Int /\ i \in Nat
  <2>1. \A i \in DOMAIN triples : triples[i] \in Row /\ i \in Nat
    BY DEF KGTypeOK
  <2>2. \A row \in Row : row.from \in Int
    BY DayAssumption DEF DayAssumption, Row
  <2> QED BY <2>1, <2>2
<1>2. ASSUME NEW i \in S, \A k \in S \ {i} : Later(i, k) PROVE i = j
  <2> SUFFICES ASSUME i # j PROVE FALSE
    OBVIOUS
  <2>1. Later(i, j) /\ Later(j, i)
    BY <1>2
  <2> QED BY <1>1, <2>1 DEF Later
<1> QED BY <1>2 DEF Newest

(* Where no hook has spoken, a ruling that stands is what the router's     *)
(* query returns: the Historian's rows never end, and seeded ones are old. *)
LEMMA RulingIsFound ==
  ASSUME WordInv, NEW r \in Run, NEW t \in Task, NEW relation \in {"locked_to", "demoted_from"},
         Stands(r, relation, t),
         \A i \in DOMAIN triples :
           triples[i].object = t => triples[i].agent = "historian" \/ triples[i].from = 0
  PROVE  /\ queryEntity(t, relation) # {}
         /\ triples[Newest(queryEntity(t, relation))].subject = best[r][t]
<1>0. KGTypeOK /\ \A i \in DOMAIN triples : triples[i].from <= day /\ triples[i].from \in Int /\ i \in Nat
  <2>1. \A i \in DOMAIN triples : triples[i] \in Row /\ triples[i].from <= day /\ i \in Nat
    BY DEF WordInv, Inv, KGInv, KGTypeOK, Dated
  <2>2. \A row \in Row : row.from \in Int
    BY DayAssumption DEF DayAssumption, Row
  <2> QED BY <2>1, <2>2 DEF WordInv, Inv, KGInv
<1>1. PICK j \in DOMAIN triples :
        /\ About(triples[j], relation, t) /\ triples[j].subject = best[r][t]
        /\ \A i \in DOMAIN triples :
             About(triples[i], relation, t) => i <= j /\ triples[i].from <= triples[j].from
  BY DEF Stands
<1>2. Standing(j) /\ triples[j].from >= 1
  BY <1>1 DEF About, WordInv, Ruled
<1>3. j \in queryEntity(t, relation)
  BY <1>0, <1>1, <1>2 DEF queryEntity, Active, Standing, About
<1>4. ASSUME NEW i \in queryEntity(t, relation) \ {j} PROVE Later(j, i)
  <2>1. i \in DOMAIN triples /\ triples[i].object = t /\ triples[i].relation = relation
    BY DEF queryEntity
  <2>2. CASE triples[i].agent = "historian"
    BY <1>0, <1>1, <1>4, <2>1, <2>2 DEF About, Later
  <2>3. CASE triples[i].agent # "historian"
    BY <1>0, <1>2, <2>1, <2>3 DEF Later
  <2> QED BY <2>2, <2>3
<1>5. queryEntity(t, relation) \in SUBSET DOMAIN triples
  BY DEF queryEntity
<1>6. Newest(queryEntity(t, relation)) = j
  BY <1>0, <1>3, <1>4, <1>5, NewestIs
<1> QED BY <1>1, <1>3, <1>6

(* The router follows the last word of the Historian (historian.ts:296-352, *)
(* dispatch.ts:65-121), for any number of runs, processes and writers,      *)
(* whatever was seeded or superseded and wherever they die.                 *)
THEOREM WordIsFollowed == Spec => []RoutesByEvidence
<1>1. WordInv => RoutesByEvidence
  <2> SUFFICES ASSUME WordInv, NEW r \in Run, NEW t \in Task, LastWord(r, t)
               PROVE  /\ t \in LockedTasks(r) => dispatch(t, plan.hit) = {best[r][t]}
                      /\ /\ t \in DemotedTasks(r) /\ NeverLocked(t) /\ best[r][t] # Fallback
                         => best[r][t] \notin dispatch(t, 0)
    BY DEF RoutesByEvidence
  <2>1. Rules(r) /\ run[r].pc \in Late
    BY DEF LastWord, Rules, Early, Late
  <2>2. \A relation : Said(r, relation, t) => Stands(r, relation, t)
    BY DEF LastWord, Said, Free
  <2>3. \A i \in DOMAIN triples :
          triples[i].object = t => triples[i].agent = "historian" \/ triples[i].from = 0
    BY DEF LastWord
  <2>4. ASSUME t \in LockedTasks(r) PROVE dispatch(t, plan.hit) = {best[r][t]}
    <3>1. Stands(r, "locked_to", t)
      BY <2>1, <2>2, <2>4 DEF WordInv, WordOf
    <3>2. /\ queryEntity(t, "locked_to") # {}
          /\ triples[Newest(queryEntity(t, "locked_to"))].subject = best[r][t]
      BY <2>3, <3>1, RulingIsFound
    <3> QED BY <3>2 DEF dispatch
  <2>5. ASSUME t \in DemotedTasks(r), NeverLocked(t), best[r][t] # Fallback
        PROVE  best[r][t] \notin dispatch(t, 0)
    <3>1. Stands(r, "demoted_from", t)
      BY <2>1, <2>2, <2>5 DEF WordInv, WordOf
    <3>2. /\ queryEntity(t, "demoted_from") # {}
          /\ triples[Newest(queryEntity(t, "demoted_from"))].subject = best[r][t]
      BY <2>3, <3>1, RulingIsFound
    <3>3. queryEntity(t, "locked_to") = {}
      BY <2>5 DEF queryEntity, NeverLocked
    <3> QED BY <2>5, <3>2, <3>3 DEF dispatch
  <2> QED BY <2>4, <2>5
<1>2. Init => WordInv
  BY WordInit
<1>3. WordInv /\ [Next]_vars => WordInv'
  BY WordStep
<1> QED BY <1>1, <1>2, <1>3, PTL DEF Spec
=============================================================================
