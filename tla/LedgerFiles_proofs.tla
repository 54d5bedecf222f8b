-------------------------- MODULE LedgerFiles_proofs --------------------------
(***************************************************************************)
(* The lock of LedgerFiles excludes, for any number of processes, appends, *)
(* crashes and torn writes.  The invariant is inductive with the type of   *)
(* pc: the only step that takes the lock from somebody takes it from the   *)
(* dead, and the dead are not inside.                                      *)
(*                                                                         *)
(* What a read returns follows from what the files hold: every line in a   *)
(* file is of one place of the history of appends (log), and files, the    *)
(* segments of the manifest and what a reader has collected are in the     *)
(* order of these places.  While one process works alone, the files also   *)
(* hold all that was appended, so that a read returns the log: LedgerFiles *)
(* then implements BeadLog.  Records and the concatenation of segments are *)
(* recursive; what they compute is proved by an induction over sets of     *)
(* numbers.                                                                *)
(***************************************************************************)
EXTENDS LedgerFiles, WellFoundedInduction, TLAPS

PcOK ==
  pc \in [Call -> {"start", "creating", "locking", "stat", "renamed", "listing", "listed",
                   "append", "releasing", "throwing", "done", "failed", "dead"}]

LockInv == PcOK /\ OneInside

LEMMA InitLockInv == Init => LockInv
BY DEF Init, LockInv, PcOK, OneInside, Inside

(* A step of a that stays within the locked section, or outside it, keeps  *)
(* the lock where it is.                                                   *)
LEMMA Moves ==
  ASSUME LockInv, NEW a \in Call, NEW to,
         to \in {"start", "creating", "locking", "stat", "renamed", "listing", "listed",
                 "append", "releasing", "throwing", "done", "failed", "dead"},
         pc' = [pc EXCEPT ![a] = to],
         lock' = lock,
         to \in {"stat", "renamed", "listing", "listed", "append", "releasing", "throwing"}
           => lock = a
  PROVE  LockInv'
BY DEF LockInv, PcOK, OneInside, Inside

LEMMA StepLockInv == LockInv /\ [Next]_vars => LockInv'
<1> SUFFICES ASSUME LockInv, [Next]_vars PROVE LockInv'
  OBVIOUS
<1>1. ASSUME NEW a \in Call, Exists(a) \/ Missing(a) \/ Create(a) PROVE LockInv'
  BY <1>1, Moves DEF Exists, Missing, Create, Goto
<1>2. ASSUME NEW a \in Call, LockTimeout(a) PROVE LockInv'
  BY <1>2, Moves DEF LockTimeout, Goto
<1>3. ASSUME NEW a \in Call, Lock(a) PROVE LockInv'
  <2>1. pc' = [pc EXCEPT ![a] = "stat"] /\ lock' = a
    BY <1>3 DEF Lock, Goto
  <2>2. ASSUME NEW b \in Call, Inside(b) PROVE FALSE
    <3>1. lock = b /\ lock # nobody
      BY <2>2, ProcessAssumption DEF LockInv, OneInside
    <3>2. pc[b] = "dead"
      BY <1>3, <3>1 DEF Lock
    <3> QED BY <2>2, <3>2 DEF Inside
  <2> QED BY <2>1, <2>2 DEF LockInv, PcOK, OneInside, Inside
<1>4. ASSUME NEW a \in Call, Fits(a) \/ StatThrows(a) \/ Rename(a) PROVE LockInv'
  <2>1. Inside(a) /\ lock = a /\ lock' = lock
    BY <1>4 DEF Fits, StatThrows, Rename, Goto, Inside, LockInv, OneInside
  <2> QED BY <1>4, <2>1, Moves DEF Fits, StatThrows, Rename, Goto
<1>5. ASSUME NEW a \in Call, TruncateManifest(a) \/ WriteManifest(a) \/ Recreate(a)
      PROVE LockInv'
  <2>1. Inside(a) /\ lock = a /\ lock' = lock
    BY <1>5 DEF TruncateManifest, WriteManifest, Recreate, Goto, Inside, LockInv, OneInside
  <2> QED BY <1>5, <2>1, Moves DEF TruncateManifest, WriteManifest, Recreate, Goto
<1>6. ASSUME NEW a \in Call, AppendLine(a) \/ AppendTears(a) PROVE LockInv'
  <2>1. Inside(a) /\ lock = a /\ lock' = lock
    BY <1>6 DEF AppendLine, AppendTears, Goto, Inside, LockInv, OneInside
  <2> QED BY <1>6, <2>1, Moves DEF AppendLine, AppendTears, Goto
<1>7. ASSUME NEW a \in Call, Release(a) PROVE LockInv'
  BY <1>7 DEF Release, Goto, LockInv, PcOK, OneInside, Inside
<1>8. ASSUME NEW p \in Process, Crash(p) PROVE LockInv'
  BY <1>8 DEF Crash, LockInv, PcOK, OneInside, Inside
<1>9. CASE ReadSegments \/ ReadCurrent \/ UNCHANGED vars
  BY <1>9 DEF ReadSegments, ReadCurrent, vars, LockInv, PcOK, OneInside, Inside
<1> QED
  BY <1>1, <1>2, <1>3, <1>4, <1>5, <1>6, <1>7, <1>8, <1>9 DEF Next, AppendStep

(* The lock is with nobody else. *)
HeldInv ==
  /\ LockInv /\ lock \in Call \cup {nobody}
  /\ lock # nobody => Inside(lock) \/ pc[lock] = "dead"

LEMMA InitHeldInv == Init => HeldInv
BY InitLockInv DEF Init, HeldInv

(* A call gets the lock and goes inside in one step, stays inside with it, *)
(* and leaves both in one step.                                            *)
LEMMA StepHeldInv == HeldInv /\ [Next]_vars => HeldInv'
<1> SUFFICES ASSUME HeldInv, [Next]_vars PROVE HeldInv'
  OBVIOUS
<1>1. LockInv' /\ PcOK /\ OneInside /\ lock \in Call \cup {nobody}
  BY StepLockInv DEF HeldInv, LockInv
<1>2. lock # nobody => Inside(lock) \/ pc[lock] = "dead"
  BY DEF HeldInv
<1>3. ASSUME NEW a \in Call, Exists(a) \/ Missing(a) \/ Create(a) \/ LockTimeout(a)
      PROVE  HeldInv'
  <2>1. /\ pc[a] \in {"start", "creating", "locking"} /\ lock' = lock
        /\ \A b \in Call \ {a} : pc'[b] = pc[b]
    BY <1>1, <1>3 DEF Exists, Missing, Create, LockTimeout, Goto, PcOK
  <2>2. lock # a
    BY <1>2, <2>1, ProcessAssumption DEF Inside
  <2> QED BY <1>1, <1>2, <2>1, <2>2 DEF HeldInv, Inside
<1>4. ASSUME NEW a \in Call, Lock(a) PROVE HeldInv'
  <2>1. pc'[a] = "stat" /\ lock' = a
    BY <1>1, <1>4 DEF Lock, Goto, PcOK
  <2> QED BY <1>1, <2>1 DEF HeldInv, Inside
<1>5. ASSUME NEW a \in Call,
             \/ Fits(a) \/ StatThrows(a) \/ Rename(a) \/ TruncateManifest(a) \/ WriteManifest(a)
             \/ Recreate(a) \/ AppendLine(a) \/ AppendTears(a)
      PROVE  HeldInv'
  <2>1. /\ Inside(a)' /\ lock' = lock /\ \A b \in Call \ {a} : pc'[b] = pc[b]
    BY <1>1, <1>5 DEF Fits, StatThrows, Rename, TruncateManifest, WriteManifest, Recreate,
                      AppendLine, AppendTears, Goto, PcOK, Inside
  <2> QED BY <1>1, <1>2, <2>1 DEF HeldInv, Inside
<1>6. ASSUME NEW a \in Call, Release(a) PROVE HeldInv'
  <2>1. Inside(a) /\ lock' = IF lock = a THEN nobody ELSE lock
    BY <1>6 DEF Release, Goto, Inside
  <2>2. lock' = nobody
    BY <1>1, <2>1 DEF OneInside
  <2> QED BY <1>1, <2>2 DEF HeldInv
<1>7. ASSUME NEW p \in Process, Crash(p) PROVE HeldInv'
  <2>1. lock' = lock /\ \A b \in Call : pc'[b] = pc[b] \/ pc'[b] = "dead"
    BY <1>7 DEF Crash
  <2> QED BY <1>1, <1>2, <2>1 DEF HeldInv, Inside
<1>8. CASE ReadSegments \/ ReadCurrent \/ UNCHANGED vars
  BY <1>1, <1>2, <1>8 DEF ReadSegments, ReadCurrent, vars, HeldInv, Inside
<1> QED
  BY <1>3, <1>4, <1>5, <1>6, <1>7, <1>8 DEF Next, AppendStep

(* For every number of processes, appends and crashes: the rollover and    *)
(* the append of one call are never mixed with another's, and no call that *)
(* was answered still has the lock, whether it appended, threw or timed    *)
(* out.                                                                    *)
THEOREM LockExcludes == Spec => []LockIsExact
<1>1. HeldInv => LockIsExact
  BY DEF HeldInv, LockInv, LockIsExact
<1> QED BY InitHeldInv, StepHeldInv, <1>1, PTL DEF Spec

-----------------------------------------------------------------------------
(***************************************************************************)
(* What readBeads computes.  Both loops are recursive functions, and the   *)
(* facts about them are proved by induction on the number of lines, or of  *)
(* segments, read so far.  An induction is stated for a SET of numbers,    *)
(* which the provers can instantiate; it comes from the well-foundedness   *)
(* of the order of the naturals.                                           *)
(***************************************************************************)

Holds(x, s) == \E i \in 1..Len(s) : s[i] = x

(* The records of s come in an order R allows. *)
InOrder(s, R) ==
  \A i, j \in 1..Len(s) : i < j /\ s[i] \in Call /\ s[j] \in Call => <<s[i], s[j]>> \in R

(* Induction over the naturals. *)
LEMMA Induction ==
  ASSUME NEW S, 0 \in S, \A n \in Nat : n \in S => n + 1 \in S
  PROVE  \A n \in Nat : n \in S
<1> DEFINE R == {ss \in Nat \X Nat : ss[1] < ss[2]}
           T == {n \in Nat : n \notin S}
<1>1. IsWellFoundedOn(R, Nat)
  BY NatLessThanWellFounded DEF OpToRel
<1>2. \A x, y \in Nat : <<x, y>> \in R <=> x < y
  OBVIOUS
<1> HIDE DEF R
<1> SUFFICES ASSUME T # {} PROVE FALSE
  OBVIOUS
<1>3. T \subseteq Nat
  OBVIOUS
<1>4. PICK m \in T : \A n \in T : ~ (<<n, m>> \in R)
  <2> HIDE DEF T
  <2> QED BY <1>1, <1>3, WFMin
<1>5. m \in Nat /\ m # 0 /\ m \notin S
  OBVIOUS
<1>6. m - 1 \in Nat /\ m - 1 < m
  BY <1>5
<1>7. m - 1 \in S
  BY <1>2, <1>4, <1>5, <1>6
<1>8. (m - 1) + 1 \in S
  BY <1>6, <1>7
<1> QED BY <1>5, <1>8

(* The records kept of the first lines of a file, line by line. *)
LEMMA KeptExists ==
  ASSUME NEW lines, Len(lines) \in Nat
  PROVE  \E kept : kept = [i \in 0..Len(lines) |->
           IF i = 0 THEN <<>>
           ELSE IF lines[i] \in Call THEN Append(kept[i - 1], lines[i]) ELSE kept[i - 1]]
<1> DEFINE Step(kept, i) ==
      IF i = 0 THEN <<>>
      ELSE IF lines[i] \in Call THEN Append(kept[i - 1], lines[i]) ELSE kept[i - 1]
<1> DEFINE S == {n \in Nat : \E kept : kept = [i \in 0..n |-> Step(kept, i)]}
<1>1. 0 \in S
  <2> DEFINE f == [i \in 0..0 |-> <<>>]
  <2>1. \A i \in 0..0 : i = 0
    OBVIOUS
  <2>2. f = [i \in 0..0 |-> Step(f, i)]
    BY <2>1
  <2> QED BY <2>2
<1>2. ASSUME NEW n \in Nat, n \in S PROVE n + 1 \in S
  <2>1. PICK f : f = [i \in 0..n |-> Step(f, i)]
    BY <1>2
  <2> DEFINE g == [i \in 0 .. n + 1 |-> IF i = n + 1 THEN Step(f, i) ELSE f[i]]
  <2>2. \A i \in 0 .. n + 1 : i # 0 => i - 1 \in 0..n /\ g[i - 1] = f[i - 1]
    OBVIOUS
  <2>3. \A i \in 0 .. n + 1 : Step(g, i) = Step(f, i)
    BY <2>2
  <2>4. \A i \in 0..n : f[i] = Step(f, i)
    BY <2>1
  <2> HIDE DEF Step
  <2>5. \A i \in 0 .. n + 1 : g[i] = Step(g, i)
    <3> SUFFICES ASSUME NEW i \in 0 .. n + 1 PROVE g[i] = Step(g, i)
      OBVIOUS
    <3>1. CASE i = n + 1
      BY <2>3, <3>1
    <3>2. CASE i # n + 1
      <4>1. i \in 0..n /\ g[i] = f[i]
        BY <3>2
      <4> QED BY <2>3, <2>4, <4>1
    <3> QED BY <3>1, <3>2
  <2>6. g = [i \in 0 .. n + 1 |-> Step(g, i)]
    BY <2>5
  <2> HIDE DEF g
  <2> QED BY <2>6
<1> HIDE DEF S
<1>3. Len(lines) \in S
  BY <1>1, <1>2, Induction
<1> QED BY <1>3 DEF S

LEMMA KeptByLine ==
  ASSUME NEW lines \in Seq(Line)
  PROVE  \E kept : /\ Records(lines) = kept[Len(lines)] /\ kept[0] = <<>>
                   /\ \A i \in 1..Len(lines) :
                        kept[i] = IF lines[i] \in Call THEN Append(kept[i - 1], lines[i])
                                                       ELSE kept[i - 1]
<1> DEFINE Kept(kept) == kept = [i \in 0..Len(lines) |->
      IF i = 0 THEN <<>>
      ELSE IF lines[i] \in Call THEN Append(kept[i - 1], lines[i]) ELSE kept[i - 1]]
<1> DEFINE f == CHOOSE kept : Kept(kept)
<1>1. Len(lines) \in Nat
  OBVIOUS
<1>2. Kept(f)
  BY <1>1, KeptExists
<1>3. Records(lines) = f[Len(lines)]
  BY DEF Records
<1> HIDE DEF f
<1>4. f[0] = <<>>
  BY <1>1, <1>2
<1>5. ASSUME NEW i \in 1..Len(lines)
      PROVE  f[i] = IF lines[i] \in Call THEN Append(f[i - 1], lines[i]) ELSE f[i - 1]
  <2> DEFINE Step(k) == IF k = 0 THEN <<>>
                        ELSE IF lines[k] \in Call THEN Append(f[k - 1], lines[k]) ELSE f[k - 1]
  <2>1. f = [k \in 0..Len(lines) |-> Step(k)]
    BY <1>2
  <2>2. i \in 0..Len(lines) /\ i # 0
    BY <1>1
  <2> HIDE DEF Step
  <2>3. f[i] = Step(i)
    BY <2>1, <2>2
  <2> QED BY <2>2, <2>3 DEF Step
<1> QED BY <1>3, <1>4, <1>5

(* A record added to records in order, after all of them. *)
LEMMA AddedInOrder ==
  ASSUME NEW s \in Seq(Call), NEW x \in Call, NEW R, InOrder(s, R),
         \A y \in Call : Holds(y, s) => <<y, x>> \in R
  PROVE  /\ Append(s, x) \in Seq(Call) /\ InOrder(Append(s, x), R)
         /\ \A y : Holds(y, Append(s, x)) <=> Holds(y, s) \/ y = x
<1> DEFINE t == Append(s, x)
<1>1. /\ t \in Seq(Call) /\ Len(t) = Len(s) + 1 /\ Len(s) \in Nat /\ t[Len(s) + 1] = x
      /\ \A i \in 1..Len(s) : t[i] = s[i] /\ s[i] \in Call
  OBVIOUS
<1> HIDE DEF t
<1>2. \A y : Holds(y, t) <=> Holds(y, s) \/ y = x
  BY <1>1 DEF Holds
<1>3. ASSUME NEW i \in 1..Len(t), NEW j \in 1..Len(t), i < j
      PROVE  <<t[i], t[j]>> \in R
  <2>1. i \in 1..Len(s) /\ t[i] = s[i]
    BY <1>1, <1>3
  <2>2. CASE j \in 1..Len(s)
    BY <1>1, <1>3, <2>1, <2>2 DEF InOrder
  <2>3. CASE j = Len(s) + 1
    BY <1>1, <2>1, <2>3 DEF Holds
  <2> QED BY <1>1, <2>2, <2>3
<1> QED BY <1>1, <1>2, <1>3 DEF InOrder, t

(* A read of a file returns the records of its lines, in their order. *)
LEMMA RecordsInOrder ==
  ASSUME NEW lines \in Seq(Line), NEW R, InOrder(lines, R)
  PROVE  /\ Records(lines) \in Seq(Call) /\ InOrder(Records(lines), R)
         /\ \A x \in Call : Holds(x, Records(lines)) <=> Holds(x, lines)
<1>1. PICK kept : /\ Records(lines) = kept[Len(lines)] /\ kept[0] = <<>>
                  /\ \A i \in 1..Len(lines) :
                       kept[i] = IF lines[i] \in Call THEN Append(kept[i - 1], lines[i])
                                                      ELSE kept[i - 1]
  BY KeptByLine
<1> DEFINE Good(n) == /\ kept[n] \in Seq(Call) /\ InOrder(kept[n], R)
                      /\ \A x \in Call : Holds(x, kept[n]) <=> \E i \in 1..n : lines[i] = x
           S == {n \in Nat : n <= Len(lines) => Good(n)}
<1>2. Len(lines) \in Nat
  OBVIOUS
<1>3. 0 \in S
  <2>1. <<>> \in Seq(Call) /\ Len(<<>>) = 0
    OBVIOUS
  <2>2. InOrder(<<>>, R) /\ \A x : ~Holds(x, <<>>)
    BY <2>1 DEF InOrder, Holds
  <2>3. \A i \in 1..0 : FALSE
    OBVIOUS
  <2> QED BY <1>1, <2>1, <2>2, <2>3
<1>4. ASSUME NEW n \in Nat, n \in S PROVE n + 1 \in S
  <2> SUFFICES ASSUME n + 1 <= Len(lines) PROVE Good(n + 1)
    OBVIOUS
  <2>1. Good(n)
    BY <1>2, <1>4
  <2>2. n + 1 \in 1..Len(lines) /\ (n + 1) - 1 = n
    BY <1>2
  <2>3. kept[n + 1] = IF lines[n + 1] \in Call THEN Append(kept[n], lines[n + 1]) ELSE kept[n]
    BY <1>1, <2>2
  <2>4. \A x : (\E i \in 1 .. n + 1 : lines[i] = x)
               <=> (\E i \in 1..n : lines[i] = x) \/ lines[n + 1] = x
    OBVIOUS
  <2>5. CASE lines[n + 1] \in Call
    <3>1. \A y \in Call : Holds(y, kept[n]) => <<y, lines[n + 1]>> \in R
      <4> SUFFICES ASSUME NEW y \in Call, Holds(y, kept[n]) PROVE <<y, lines[n + 1]>> \in R
        OBVIOUS
      <4>1. PICK i \in 1..n : lines[i] = y
        BY <2>1
      <4>2. i \in 1..Len(lines) /\ i < n + 1
        BY <1>2, <2>2
      <4> QED BY <2>2, <2>5, <4>1, <4>2 DEF InOrder
    <3>2. kept[n + 1] = Append(kept[n], lines[n + 1])
      BY <2>3, <2>5
    <3>3. /\ Append(kept[n], lines[n + 1]) \in Seq(Call)
          /\ InOrder(Append(kept[n], lines[n + 1]), R)
          /\ \A y : Holds(y, Append(kept[n], lines[n + 1])) <=> Holds(y, kept[n]) \/ y = lines[n + 1]
      BY <2>1, <2>5, <3>1, AddedInOrder
    <3> QED BY <2>1, <2>4, <3>2, <3>3
  <2>6. CASE lines[n + 1] \notin Call
    BY <2>1, <2>3, <2>4, <2>6
  <2> QED BY <2>5, <2>6
<1> HIDE DEF S
<1>5. Len(lines) \in S
  BY <1>2, <1>3, <1>4, Induction
<1>6. Good(Len(lines))
  BY <1>2, <1>5 DEF S
<1> QED BY <1>1, <1>6 DEF Holds

(* The segments read up to each one. *)
LEMMA FlatExists ==
  ASSUME NEW ss, Len(ss) \in Nat
  PROVE  \E flat : flat = [i \in 1..Len(ss) |-> IF i = 1 THEN ss[i] ELSE flat[i - 1] \o ss[i]]
<1> DEFINE Step(flat, i) == IF i = 1 THEN ss[i] ELSE flat[i - 1] \o ss[i]
           S == {n \in Nat : \E flat : flat = [i \in 1..n |-> Step(flat, i)]}
<1>1. 0 \in S
  <2> DEFINE f == [i \in 1..0 |-> <<>>]
  <2>1. \A i \in 1..0 : FALSE
    OBVIOUS
  <2>2. f = [i \in 1..0 |-> Step(f, i)]
    BY <2>1
  <2> QED BY <2>2
<1>2. ASSUME NEW n \in Nat, n \in S PROVE n + 1 \in S
  <2>1. PICK f : f = [i \in 1..n |-> Step(f, i)]
    BY <1>2
  <2> DEFINE g == [i \in 1 .. n + 1 |-> IF i = n + 1 THEN Step(f, i) ELSE f[i]]
  <2>2. \A i \in 1 .. n + 1 : i # 1 => i - 1 \in 1..n /\ g[i - 1] = f[i - 1]
    OBVIOUS
  <2>3. \A i \in 1 .. n + 1 : Step(g, i) = Step(f, i)
    BY <2>2
  <2>4. \A i \in 1..n : f[i] = Step(f, i)
    BY <2>1
  <2> HIDE DEF Step
  <2>5. \A i \in 1 .. n + 1 : g[i] = Step(g, i)
    <3> SUFFICES ASSUME NEW i \in 1 .. n + 1 PROVE g[i] = Step(g, i)
      OBVIOUS
    <3>1. CASE i = n + 1
      BY <2>3, <3>1
    <3>2. CASE i # n + 1
      <4>1. i \in 1..n /\ g[i] = f[i]
        BY <3>2
      <4> QED BY <2>3, <2>4, <4>1
    <3> QED BY <3>1, <3>2
  <2>6. g = [i \in 1 .. n + 1 |-> Step(g, i)]
    BY <2>5
  <2> HIDE DEF g
  <2> QED BY <2>6
<1> HIDE DEF S
<1>3. Len(ss) \in S
  BY <1>1, <1>2, Induction
<1> QED BY <1>3 DEF S

LEMMA FlatBySegment ==
  ASSUME NEW ss \in Seq(Seq(Call)), ss # <<>>
  PROVE  \E flat : /\ FlattenSeq(ss) = flat[Len(ss)] /\ flat[1] = ss[1]
                   /\ \A i \in 2..Len(ss) : flat[i] = flat[i - 1] \o ss[i]
<1> DEFINE Flat(flat) ==
      flat = [i \in 1..Len(ss) |-> IF i = 1 THEN ss[i] ELSE flat[i - 1] \o ss[i]]
<1> DEFINE f == CHOOSE flat : Flat(flat)
<1>1. Len(ss) \in Nat /\ Len(ss) # 0
  OBVIOUS
<1>2. Flat(f)
  BY <1>1, FlatExists
<1>3. FlattenSeq(ss) = f[Len(ss)]
  BY <1>1 DEF FlattenSeq
<1> HIDE DEF f
<1>4. ASSUME NEW i \in 1..Len(ss)
      PROVE  f[i] = IF i = 1 THEN ss[i] ELSE f[i - 1] \o ss[i]
  <2> DEFINE Step(k) == IF k = 1 THEN ss[k] ELSE f[k - 1] \o ss[k]
  <2>1. f = [k \in 1..Len(ss) |-> Step(k)]
    BY <1>2
  <2> HIDE DEF Step
  <2>2. f[i] = Step(i)
    BY <2>1
  <2> QED BY <2>2 DEF Step
<1> HIDE DEF Flat
<1>5. f[1] = ss[1]
  BY <1>1, <1>4
<1>6. \A i \in 2..Len(ss) : f[i] = f[i - 1] \o ss[i]
  <2> SUFFICES ASSUME NEW i \in 2..Len(ss) PROVE f[i] = f[i - 1] \o ss[i]
    OBVIOUS
  <2>1. i \in 1..Len(ss) /\ i # 1
    BY <1>1
  <2> QED BY <1>4, <2>1
<1> QED BY <1>3, <1>5, <1>6

(* Records read after others, all of them later. *)
LEMMA JoinedInOrder ==
  ASSUME NEW s \in Seq(Call), NEW t \in Seq(Call), NEW R, InOrder(s, R), InOrder(t, R),
         \A x, y \in Call : Holds(x, s) /\ Holds(y, t) => <<x, y>> \in R
  PROVE  /\ s \o t \in Seq(Call) /\ InOrder(s \o t, R)
         /\ \A x : Holds(x, s \o t) <=> Holds(x, s) \/ Holds(x, t)
<1> DEFINE u == s \o t
<1>1. /\ u \in Seq(Call) /\ Len(u) = Len(s) + Len(t) /\ Len(s) \in Nat /\ Len(t) \in Nat
      /\ \A i \in 1..Len(s) : u[i] = s[i] /\ s[i] \in Call
      /\ \A i \in 1..Len(t) : t[i] \in Call
  OBVIOUS
<1>2. \A i \in 1..Len(u) : i > Len(s) => i - Len(s) \in 1..Len(t) /\ u[i] = t[i - Len(s)]
  BY <1>1
<1>3. \A i \in 1..Len(t) : i + Len(s) \in 1..Len(u) /\ u[i + Len(s)] = t[i]
  <2> SUFFICES ASSUME NEW i \in 1..Len(t)
               PROVE i + Len(s) \in 1..Len(u) /\ u[i + Len(s)] = t[i]
    OBVIOUS
  <2>1. i + Len(s) \in 1..Len(u) /\ i + Len(s) > Len(s) /\ (i + Len(s)) - Len(s) = i
    BY <1>1
  <2> QED BY <1>2, <2>1
<1> HIDE DEF u
<1>4. ASSUME NEW x PROVE Holds(x, u) <=> Holds(x, s) \/ Holds(x, t)
  <2>1. ASSUME Holds(x, u) PROVE Holds(x, s) \/ Holds(x, t)
    <3>1. PICK i \in 1..Len(u) : u[i] = x
      BY <2>1 DEF Holds
    <3>2. CASE i <= Len(s)
      <4>1. i \in 1..Len(s)
        BY <1>1, <3>2
      <4> QED BY <1>1, <3>1, <4>1 DEF Holds
    <3>3. CASE i > Len(s)
      BY <1>2, <3>1, <3>3 DEF Holds
    <3> QED BY <1>1, <3>2, <3>3
  <2>2. ASSUME Holds(x, s) PROVE Holds(x, u)
    <3>1. PICK i \in 1..Len(s) : s[i] = x
      BY <2>2 DEF Holds
    <3>2. i \in 1..Len(u)
      BY <1>1
    <3> QED BY <1>1, <3>1, <3>2 DEF Holds
  <2>3. ASSUME Holds(x, t) PROVE Holds(x, u)
    BY <1>3, <2>3 DEF Holds
  <2> QED BY <2>1, <2>2, <2>3
<1>5. ASSUME NEW i \in 1..Len(u), NEW j \in 1..Len(u), i < j
      PROVE  <<u[i], u[j]>> \in R
  <2>1. CASE j <= Len(s)
    <3>1. i \in 1..Len(s) /\ j \in 1..Len(s)
      BY <1>1, <1>5, <2>1
    <3> QED BY <1>1, <1>5, <3>1 DEF InOrder
  <2>2. CASE i > Len(s)
    <3>1. /\ i - Len(s) \in 1..Len(t) /\ j - Len(s) \in 1..Len(t)
          /\ i - Len(s) < j - Len(s) /\ u[i] = t[i - Len(s)] /\ u[j] = t[j - Len(s)]
      BY <1>1, <1>2, <1>5, <2>2
    <3> QED BY <1>1, <3>1 DEF InOrder
  <2>3. CASE i <= Len(s) /\ j > Len(s)
    <3>1. i \in 1..Len(s) /\ j - Len(s) \in 1..Len(t) /\ u[i] = s[i] /\ u[j] = t[j - Len(s)]
      BY <1>1, <1>2, <2>3
    <3> QED BY <1>1, <3>1 DEF Holds
  <2> QED BY <1>1, <2>1, <2>2, <2>3
<1> QED BY <1>1, <1>4, <1>5 DEF InOrder, u

(* Segments read one after another, each later than those before it. *)
LEMMA SegmentsInOrder ==
  ASSUME NEW ss \in Seq(Seq(Call)), NEW R, \A i \in 1..Len(ss) : InOrder(ss[i], R),
         \A i, j \in 1..Len(ss), x, y \in Call :
           i < j /\ Holds(x, ss[i]) /\ Holds(y, ss[j]) => <<x, y>> \in R
  PROVE  /\ FlattenSeq(ss) \in Seq(Call) /\ InOrder(FlattenSeq(ss), R)
         /\ \A x \in Call : Holds(x, FlattenSeq(ss)) <=> \E i \in 1..Len(ss) : Holds(x, ss[i])
<1>1. CASE ss = <<>>
  <2>1. Len(ss) = 0 /\ ss \in Seq(Call) /\ \A i \in 1..Len(ss) : FALSE
    BY <1>1
  <2>2. FlattenSeq(ss) = ss
    BY <2>1 DEF FlattenSeq
  <2> QED BY <2>1, <2>2 DEF InOrder, Holds
<1>2. CASE ss # <<>>
  <2>1. PICK flat : /\ FlattenSeq(ss) = flat[Len(ss)] /\ flat[1] = ss[1]
                    /\ \A i \in 2..Len(ss) : flat[i] = flat[i - 1] \o ss[i]
    BY <1>2, FlatBySegment
  <2> DEFINE Good(n) == /\ flat[n] \in Seq(Call) /\ InOrder(flat[n], R)
                        /\ \A x \in Call : Holds(x, flat[n]) <=> \E i \in 1..n : Holds(x, ss[i])
             S == {n \in Nat : n + 1 <= Len(ss) => Good(n + 1)}
  <2>2. Len(ss) \in Nat /\ Len(ss) >= 1 /\ \A i \in 1..Len(ss) : ss[i] \in Seq(Call)
    BY <1>2
  <2>3. 0 \in S
    <3>1. 0 + 1 = 1 /\ 1 \in 1..Len(ss) /\ \A i \in 1..1 : i = 1
      BY <2>2
    <3>2. Good(1)
      BY <2>1, <2>2, <3>1
    <3> HIDE DEF Good
    <3> QED BY <3>1, <3>2
  <2>4. ASSUME NEW n \in Nat, n \in S PROVE n + 1 \in S
    <3> DEFINE k == n + 1
    <3> SUFFICES ASSUME k + 1 <= Len(ss) PROVE Good(k + 1)
      OBVIOUS
    <3>1. k \in Nat /\ k >= 1 /\ k + 1 \in 2..Len(ss) /\ k + 1 \in 1..Len(ss) /\ (k + 1) - 1 = k
      BY <2>2
    <3>2. Good(k)
      BY <2>2, <2>4, <3>1
    <3> HIDE DEF k
    <3>3. flat[k + 1] = flat[k] \o ss[k + 1] /\ ss[k + 1] \in Seq(Call)
      BY <2>1, <2>2, <3>1
    <3>4. \A x, y \in Call : Holds(x, flat[k]) /\ Holds(y, ss[k + 1]) => <<x, y>> \in R
      <4> SUFFICES ASSUME NEW x \in Call, NEW y \in Call, Holds(x, flat[k]), Holds(y, ss[k + 1])
                   PROVE <<x, y>> \in R
        OBVIOUS
      <4>1. PICK i \in 1..k : Holds(x, ss[i])
        BY <3>2
      <4>2. i \in 1..Len(ss) /\ i < k + 1
        BY <2>2, <3>1
      <4> QED BY <3>1, <4>1, <4>2
    <3>5. /\ flat[k] \o ss[k + 1] \in Seq(Call) /\ InOrder(flat[k] \o ss[k + 1], R)
          /\ \A x : Holds(x, flat[k] \o ss[k + 1]) <=> Holds(x, flat[k]) \/ Holds(x, ss[k + 1])
      BY <3>1, <3>2, <3>3, <3>4, JoinedInOrder
    <3>6. \A x : (\E i \in 1 .. k + 1 : Holds(x, ss[i]))
                 <=> (\E i \in 1..k : Holds(x, ss[i])) \/ Holds(x, ss[k + 1])
      BY <3>1
    <3> QED BY <3>2, <3>3, <3>5, <3>6
  <2> HIDE DEF S, Good
  <2>5. Len(ss) - 1 \in Nat /\ (Len(ss) - 1) + 1 = Len(ss)
    BY <2>2
  <2>6. Len(ss) - 1 \in S
    BY <2>3, <2>4, <2>5, Induction
  <2>7. Good(Len(ss))
    BY <2>2, <2>5, <2>6 DEF S
  <2> QED BY <2>1, <2>7 DEF Good
<1> QED BY <1>1, <1>2

-----------------------------------------------------------------------------
(***************************************************************************)
(* The order of a read.  The lines stand in the files in the order of the  *)
(* appends: a segment was written before those after it and before the     *)
(* current file, whatever was cut off or torn in between.  The manifest    *)
(* lists segments in rising order, because only the holder of the lock     *)
(* adds one, the one it has just made.  A reader takes no lock: what holds *)
(* between its two steps is that all it has read is in the archive, which  *)
(* nobody changes, so that the current file it opens later is later still. *)
(***************************************************************************)

After == {p \in Call \X Call :
            \E k, l \in 1..Len(log) : k < l /\ log[k] = p[1] /\ log[l] = p[2]}

Archived(x) == \E i \in 1..Len(archive) : Holds(x, archive[i])

Rising(m) == \A i, j \in 1..Len(m) : i < j => m[i] < m[j]

FilesOK ==
  /\ current = absent \/ current \in Seq(Line)
  /\ archive \in Seq(Seq(Line)) /\ manifest \in Seq(Nat) /\ listing \in [Call -> Seq(Nat)]
  /\ log \in Seq(Call) /\ result \in Seq(Call)

LogInv ==
  /\ \A k, l \in 1..Len(log) : log[k] = log[l] => k = l
  /\ \A k \in 1..Len(log) : pc[log[k]] \in {"releasing", "done", "dead"}

LineInv ==
  /\ \A x \in Call : Holds(x, Lines) \/ Archived(x) => Holds(x, log)
  /\ InOrder(Lines, After)
  /\ \A i \in 1..Len(archive) : InOrder(archive[i], After)
  /\ \A i, j \in 1..Len(archive), x, y \in Call :
       i < j /\ Holds(x, archive[i]) /\ Holds(y, archive[j]) => <<x, y>> \in After
  /\ \A x, y \in Call : Archived(x) /\ Holds(y, Lines) => <<x, y>> \in After

ManifestInv ==
  /\ Rising(manifest) /\ \A k \in 1..Len(manifest) : manifest[k] \in 1..Len(archive)
  /\ \A a \in Call : pc[a] = "renamed" =>
       1 <= Len(archive) /\ \A k \in 1..Len(manifest) : manifest[k] < Len(archive)
  /\ \A a \in Call : pc[a] = "listing" =>
       Rising(listing[a]) /\ \A k \in 1..Len(listing[a]) : listing[a][k] \in 1..Len(archive)

ReadInv ==
  /\ InOrder(result, After)
  /\ reader = "current" => \A k \in 1..Len(result) : Archived(result[k])

OrderInv == LockInv /\ FilesOK /\ LogInv /\ LineInv /\ ManifestInv /\ ReadInv

(* A step of the log: it stays, or takes a record at its end. *)
LEMMA LogGrows ==
  ASSUME log \in Seq(Call), NEW a \in Call, log' = Append(log, a)
  PROVE  /\ After \subseteq After' /\ \A x : Holds(x, log') <=> Holds(x, log) \/ x = a
         /\ \A x \in Call : Holds(x, log) => <<x, a>> \in After'
<1>1. /\ Len(log) \in Nat /\ Len(log') = Len(log) + 1 /\ log'[Len(log) + 1] = a
      /\ \A i \in 1..Len(log) : log'[i] = log[i]
  OBVIOUS
<1>2. \A i \in 1..Len(log) : i \in 1..Len(log')
  BY <1>1
<1>3. After \subseteq After'
  BY <1>1, <1>2 DEF After
<1>4. \A x : Holds(x, log') <=> Holds(x, log) \/ x = a
  BY <1>1 DEF Holds
<1>5. ASSUME NEW x \in Call, Holds(x, log) PROVE <<x, a>> \in After'
  <2>1. PICK k \in 1..Len(log) : log[k] = x
    BY <1>5 DEF Holds
  <2>2. k \in 1..Len(log') /\ Len(log) + 1 \in 1..Len(log') /\ k < Len(log) + 1
    BY <1>1
  <2>3. log'[k] = x /\ log'[Len(log) + 1] = a
    BY <1>1, <2>1
  <2> QED BY <2>2, <2>3 DEF After
<1> QED BY <1>3, <1>4, <1>5

LEMMA LogStays == ASSUME log' = log PROVE After' = After
BY DEF After

(* Where the lines of the current file are. *)
LEMMA LinesType ==
  ASSUME FilesOK
  PROVE  Lines \in Seq(Line) /\ Len(Lines) \in Nat /\ (current # absent => Lines = current)
<1>1. <<>> \in Seq(Line)
  OBVIOUS
<1> QED BY <1>1 DEF FilesOK, Lines

(* No file operation of an append but its last puts a record anywhere: the *)
(* current file keeps a part of its records, in their places.              *)
LEMMA LinesCut ==
  ASSUME LineInv, archive' = archive, After \subseteq After',
         \A x \in Call : Holds(x, log) => Holds(x, log'),
         \A j \in 1..Len(Lines') : Lines'[j] \in Call => j \in 1..Len(Lines) /\ Lines'[j] = Lines[j]
  PROVE  LineInv'
<1>1. \A x \in Call : Holds(x, Lines') => Holds(x, Lines)
  BY DEF Holds
<1>2. \A x : Archived(x)' <=> Archived(x)
  BY DEF Archived
<1>3. \A x \in Call : Holds(x, Lines') \/ Archived(x)' => Holds(x, log')
  BY <1>1, <1>2 DEF LineInv
<1>4. InOrder(Lines', After')
  BY DEF LineInv, InOrder
<1>5. \A i \in 1..Len(archive) : InOrder(archive[i], After')
  BY DEF LineInv, InOrder
<1>6. \A i, j \in 1..Len(archive), x, y \in Call :
        i < j /\ Holds(x, archive[i]) /\ Holds(y, archive[j]) => <<x, y>> \in After'
  BY DEF LineInv
<1>7. \A x, y \in Call : Archived(x)' /\ Holds(y, Lines') => <<x, y>> \in After'
  BY <1>1, <1>2 DEF LineInv
<1> QED BY <1>3, <1>4, <1>5, <1>6, <1>7 DEF LineInv

(* A sequence without its last element. *)
LEMMA FrontOf ==
  ASSUME NEW S, NEW s \in Seq(S), s # <<>>
  PROVE  /\ Front(s) \in Seq(S) /\ Len(Front(s)) = Len(s) - 1
         /\ \A j \in 1 .. Len(s) - 1 : Front(s)[j] = s[j]
<1> DEFINE n == Len(s) - 1
           f == SubSeq(s, 1, n)
<1>1. Len(s) \in Nat /\ n \in Nat /\ n + 1 = Len(s)
  OBVIOUS
<1>2. Front(s) = f
  BY DEF Front
<1> HIDE DEF n
<1>3. f \in Seq(S)
  BY <1>1
<1>4. Len(f) = n
  BY <1>1
<1>5. \A j \in 1..n : f[j] = s[j]
  BY <1>1
<1> QED BY <1>2, <1>3, <1>4, <1>5 DEF n

(* The record of an append goes after all others, unless it is lost in a   *)
(* torn line.                                                              *)
LEMMA LineAdded ==
  ASSUME OrderInv, NEW a \in Call, AppendLine(a)
  PROVE  LineInv'
<1>0. /\ FilesOK /\ LineInv /\ Lines \in Seq(Line) /\ Len(Lines) \in Nat /\ log \in Seq(Call)
      /\ archive' = archive /\ log' = Append(log, a)
  BY LinesType DEF OrderInv, FilesOK, AppendLine
<1>1. /\ After \subseteq After' /\ \A x : Holds(x, log') <=> Holds(x, log) \/ x = a
      /\ \A x \in Call : Holds(x, log) => <<x, a>> \in After'
  BY <1>0, LogGrows
<1>2. CASE EndsTorn
  <2> DEFINE s == Append(Front(Lines), Garbage)
  <2>1. Lines # <<>> /\ Len(Lines) > 0
    BY <1>0, <1>2 DEF EndsTorn
  <2>2. /\ s \in Seq(Line) /\ Len(s) = Len(Lines) /\ s[Len(Lines)] = Garbage
        /\ \A j \in 1 .. Len(Lines) - 1 : s[j] = Lines[j]
    <3> DEFINE cut == Front(Lines)
    <3>1. /\ cut \in Seq(Line) /\ Len(cut) = Len(Lines) - 1
          /\ \A j \in 1 .. Len(Lines) - 1 : cut[j] = Lines[j]
      BY <1>0, <2>1, FrontOf
    <3>2. Garbage \in Line
      BY DEF Line
    <3>3. s = Append(cut, Garbage)
      OBVIOUS
    <3> HIDE DEF cut, s
    <3>4. Len(cut) \in Nat /\ Len(cut) + 1 = Len(Lines)
      BY <1>0, <3>1
    <3>5. s \in Seq(Line) /\ Len(s) = Len(cut) + 1 /\ s[Len(cut) + 1] = Garbage
          /\ \A j \in 1..Len(cut) : s[j] = cut[j]
      BY <3>1, <3>2, <3>3
    <3> QED BY <3>1, <3>4, <3>5
  <2>3. current' = s
    BY <1>2 DEF AppendLine
  <2> HIDE DEF s
  <2>4. Lines' = s
    BY <2>2, <2>3, ProcessAssumption DEF Lines
  <2>5. \A j \in 1..Len(Lines') : Lines'[j] \in Call => j \in 1..Len(Lines) /\ Lines'[j] = Lines[j]
    <3> SUFFICES ASSUME NEW j \in 1..Len(s), s[j] \in Call PROVE s[j] = Lines[j]
      BY <2>2, <2>4
    <3>1. j # Len(Lines)
      BY <2>2, ProcessAssumption
    <3>2. j \in 1 .. Len(Lines) - 1
      BY <1>0, <2>2, <3>1
    <3> QED BY <2>2, <3>2
  <2> QED BY <1>0, <1>1, <2>5, LinesCut
<1>3. CASE ~EndsTorn
  <2> DEFINE s == Append(Lines, a)
  <2>1. /\ s \in Seq(Line) /\ Len(s) = Len(Lines) + 1 /\ s[Len(Lines) + 1] = a
        /\ \A j \in 1..Len(Lines) : s[j] = Lines[j]
    BY <1>0 DEF Line
  <2>2. current' = s
    BY <1>3 DEF AppendLine
  <2> HIDE DEF s
  <2>3. Lines' = s
    BY <2>1, <2>2, ProcessAssumption DEF Lines
  <2>4. \A x : Holds(x, s) <=> Holds(x, Lines) \/ x = a
    BY <1>0, <2>1 DEF Holds
  <2>5. \A x : Archived(x)' <=> Archived(x)
    BY <1>0 DEF Archived
  <2>6. \A x \in Call : Holds(x, s) \/ Archived(x)' => Holds(x, log')
    BY <1>0, <1>1, <2>4, <2>5 DEF LineInv
  <2>7. InOrder(s, After')
    <3>1. ASSUME NEW i \in 1..Len(s), NEW j \in 1..Len(s), i < j, s[i] \in Call, s[j] \in Call
          PROVE  <<s[i], s[j]>> \in After'
      <4>1. i \in 1..Len(Lines) /\ s[i] = Lines[i]
        BY <1>0, <2>1, <3>1
      <4>2. CASE j \in 1..Len(Lines)
        <5>1. <<s[i], s[j]>> \in After
          BY <1>0, <2>1, <3>1, <4>1, <4>2 DEF LineInv, InOrder
        <5> QED BY <1>1, <5>1
      <4>3. CASE j = Len(Lines) + 1
        <5>1. Holds(s[i], Lines) /\ s[j] = a
          BY <2>1, <4>1, <4>3 DEF Holds
        <5> QED BY <1>0, <1>1, <3>1, <5>1 DEF LineInv
      <4> QED BY <1>0, <2>1, <4>2, <4>3
    <3> QED BY <3>1 DEF InOrder
  <2>8. \A i \in 1..Len(archive) : InOrder(archive[i], After')
    BY <1>0, <1>1 DEF LineInv, InOrder
  <2>9. \A i, j \in 1..Len(archive), x, y \in Call :
          i < j /\ Holds(x, archive[i]) /\ Holds(y, archive[j]) => <<x, y>> \in After'
    BY <1>0, <1>1 DEF LineInv
  <2>10. \A x, y \in Call : Archived(x)' /\ Holds(y, s) => <<x, y>> \in After'
    BY <1>0, <1>1, <2>4, <2>5 DEF LineInv
  <2> QED BY <1>0, <2>3, <2>6, <2>7, <2>8, <2>9, <2>10 DEF LineInv
<1> QED BY <1>2, <1>3

(* A rollover makes the current file the last segment. *)
LEMMA LinesArchived ==
  ASSUME OrderInv, NEW a \in Call, Rename(a)
  PROVE  LineInv' /\ Lines' = <<>> /\ \A x : Archived(x)' <=> Archived(x) \/ Holds(x, Lines)
<1>0. /\ FilesOK /\ LineInv /\ Lines \in Seq(Line) /\ Lines = current
      /\ archive \in Seq(Seq(Line)) /\ Len(archive) \in Nat
      /\ archive' = Append(archive, Lines) /\ current' = absent /\ log' = log
  BY LinesType DEF OrderInv, FilesOK, Rename
<1>1. After' = After /\ Lines' = <<>>
  BY <1>0, LogStays DEF Lines
<1>2. /\ Len(archive') = Len(archive) + 1 /\ archive'[Len(archive) + 1] = Lines
      /\ \A i \in 1..Len(archive) : archive'[i] = archive[i]
  BY <1>0
<1>3. \A x : Archived(x)' <=> Archived(x) \/ Holds(x, Lines)
  BY <1>0, <1>2 DEF Archived
<1>4. Len(<<>>) = 0 /\ (\A x : ~Holds(x, <<>>)) /\ InOrder(<<>>, After)
  BY DEF Holds, InOrder
<1>5. \A x \in Call : Archived(x)' => Holds(x, log)
  BY <1>0, <1>3 DEF LineInv
<1>6. ASSUME NEW i \in 1..Len(archive') PROVE InOrder(archive'[i], After)
  BY <1>0, <1>2 DEF LineInv
<1>7. ASSUME NEW i \in 1..Len(archive'), NEW j \in 1..Len(archive'), NEW x \in Call, NEW y \in Call,
             i < j, Holds(x, archive'[i]), Holds(y, archive'[j])
      PROVE  <<x, y>> \in After
  <2>1. i \in 1..Len(archive) /\ archive'[i] = archive[i]
    BY <1>0, <1>2, <1>7
  <2>2. CASE j \in 1..Len(archive)
    BY <1>0, <1>2, <1>7, <2>1, <2>2 DEF LineInv
  <2>3. CASE j = Len(archive) + 1
    <3>1. Archived(x) /\ Holds(y, Lines)
      BY <1>2, <1>7, <2>1, <2>3 DEF Archived
    <3> QED BY <1>0, <3>1 DEF LineInv
  <2> QED BY <1>0, <1>2, <2>2, <2>3
<1>8. LineInv'
  BY <1>0, <1>1, <1>4, <1>5, <1>6, <1>7 DEF LineInv
<1> QED BY <1>1, <1>3, <1>8

(* The calls whose record is in the log have written it. *)
Written(b) == pc[b] \in {"releasing", "done", "dead"}

(* A step that adds no record, lists no segment and changes nothing a      *)
(* reader has read.                                                        *)
LEMMA QuietStep ==
  ASSUME OrderInv, LockInv',
         archive' = archive, manifest' = manifest, listing' = listing, log' = log,
         current' = absent \/ current' \in Seq(Line),
         \A j \in 1..Len(Lines') : Lines'[j] \in Call => j \in 1..Len(Lines) /\ Lines'[j] = Lines[j],
         (result' = result /\ reader' = reader) \/ (result' = <<>> /\ reader' = "idle"),
         \A b \in Call : Written(b) => Written(b)',
         \A b \in Call : pc'[b] \in {"renamed", "listing"} => pc[b] = pc'[b]
  PROVE  OrderInv'
<1>0. FilesOK /\ LogInv /\ LineInv /\ ManifestInv /\ ReadInv /\ After' = After
  BY LogStays DEF OrderInv
<1>1. FilesOK'
  <2>1. <<>> \in Seq(Call)
    OBVIOUS
  <2> QED BY <1>0, <2>1 DEF FilesOK
<1>2. LogInv'
  <2>1. \A k \in 1..Len(log) : log[k] \in Call /\ Written(log[k])
    BY <1>0 DEF FilesOK, LogInv, Written
  <2>2. \A k \in 1..Len(log) : Written(log[k])'
    BY <2>1
  <2> QED BY <1>0, <2>2 DEF LogInv, Written
<1>3. LineInv'
  BY <1>0, LinesCut
<1>4. ManifestInv'
  BY <1>0 DEF ManifestInv
<1>5. ReadInv'
  <2>1. \A x : Archived(x)' <=> Archived(x)
    BY DEF Archived
  <2>2. CASE result' = result /\ reader' = reader
    BY <1>0, <2>1, <2>2 DEF ReadInv
  <2>3. CASE result' = <<>> /\ reader' = "idle"
    <3>1. Len(<<>>) = 0 /\ InOrder(<<>>, After)
      BY DEF InOrder
    <3> QED BY <1>0, <2>3, <3>1 DEF ReadInv
  <2> QED BY <2>2, <2>3
<1> QED BY <1>1, <1>2, <1>3, <1>4, <1>5 DEF OrderInv

(* Where a call's own program counter goes, the others stay. *)
LEMMA PcMoves ==
  ASSUME PcOK, NEW a \in Call, NEW to, pc' = [pc EXCEPT ![a] = to],
         ~Written(a) \/ to \in {"releasing", "done", "dead"}
  PROVE  /\ pc'[a] = to /\ \A b \in Call \ {a} : pc'[b] = pc[b]
         /\ \A b \in Call : Written(b) => Written(b)'
BY DEF PcOK, Written

(* What an append does before and after its file operations. *)
LEMMA AppendQuiet ==
  ASSUME OrderInv, LockInv', NEW a \in Call,
         \/ Exists(a) \/ Missing(a) \/ Lock(a) \/ LockTimeout(a) \/ Fits(a) \/ StatThrows(a)
         \/ Release(a) \/ Create(a) \/ Recreate(a) \/ AppendTears(a)
  PROVE  OrderInv'
<1>0. /\ PcOK /\ FilesOK /\ Lines \in Seq(Line) /\ Len(Lines) \in Nat
      /\ (current # absent => Lines = current)
  BY LinesType DEF OrderInv, LockInv
<1>1. PICK to : /\ pc' = [pc EXCEPT ![a] = to] /\ to \notin {"renamed", "listing"}
                /\ (~Written(a) \/ to \in {"releasing", "done", "dead"})
  BY DEF Exists, Missing, Lock, LockTimeout, Fits, StatThrows, Release, Create, Recreate,
         AppendTears, Goto, Written
<1>2. /\ \A b \in Call : Written(b) => Written(b)'
      /\ \A b \in Call : pc'[b] \in {"renamed", "listing"} => pc[b] = pc'[b]
  BY <1>0, <1>1, PcMoves
<1>3. /\ archive' = archive /\ manifest' = manifest /\ listing' = listing /\ log' = log
      /\ result' = result /\ reader' = reader
  BY DEF Exists, Missing, Lock, LockTimeout, Fits, StatThrows, Release, Create, Recreate,
         AppendTears, files, read
<1>4. /\ current' = absent \/ current' \in Seq(Line)
      /\ \A j \in 1..Len(Lines') : Lines'[j] \in Call => j \in 1..Len(Lines) /\ Lines'[j] = Lines[j]
  <2>1. CASE current' = current
    BY <1>0, <2>1 DEF FilesOK, Lines
  <2>2. CASE current' = <<>>
    <3>1. <<>> \in Seq(Line) /\ Len(<<>>) = 0 /\ Lines' = <<>>
      BY <2>2 DEF Lines
    <3> QED BY <2>2, <3>1
  <2>3. CASE current' = Lines
    <3>1. Lines' = Lines
      BY <1>0, <2>3, ProcessAssumption DEF Lines
    <3> QED BY <1>0, <2>3, <3>1
  <2>4. CASE current' = Append(Lines, TornLine)
    <3> DEFINE s == Append(Lines, TornLine)
    <3>1. TornLine \in Line /\ TornLine \notin Call
      BY ProcessAssumption DEF Line
    <3>2. /\ s \in Seq(Line) /\ Len(s) = Len(Lines) + 1 /\ s[Len(Lines) + 1] = TornLine
          /\ \A j \in 1..Len(Lines) : s[j] = Lines[j]
      BY <1>0, <3>1
    <3> HIDE DEF s
    <3>3. Lines' = s
      BY <2>4, <3>2, ProcessAssumption DEF Lines, s
    <3>4. current' \in Seq(Line)
      BY <2>4, <3>2 DEF s
    <3>5. ASSUME NEW j \in 1..Len(s), s[j] \in Call PROVE j \in 1..Len(Lines) /\ s[j] = Lines[j]
      <4>1. j # Len(Lines) + 1
        BY <3>1, <3>2, <3>5
      <4>2. j \in 1..Len(Lines)
        BY <1>0, <3>2, <4>1
      <4> QED BY <3>2, <4>2
    <3> QED BY <3>3, <3>4, <3>5
  <2>5. \/ current' = current \/ current' = <<>> \/ current' = Lines
        \/ current' = Append(Lines, TornLine)
    BY DEF Exists, Missing, Lock, LockTimeout, Fits, StatThrows, Release, Create, Recreate,
           AppendTears, files
  <2> QED BY <2>1, <2>2, <2>3, <2>4, <2>5
<1> QED BY <1>2, <1>3, <1>4, QuietStep

LEMMA CrashQuiet ==
  ASSUME OrderInv, LockInv', NEW p \in Process, Crash(p) PROVE OrderInv'
<1>1. PcOK /\ FilesOK
  BY DEF OrderInv, LockInv
<1>2. /\ \A b \in Call : Written(b) => Written(b)'
      /\ \A b \in Call : pc'[b] \in {"renamed", "listing"} => pc[b] = pc'[b]
  BY DEF Crash, Written
<1>3. /\ archive' = archive /\ manifest' = manifest /\ listing' = listing /\ log' = log
      /\ current' = current
      /\ (result' = result /\ reader' = reader) \/ (result' = <<>> /\ reader' = "idle")
  BY DEF Crash, files, read
<1>4. /\ current' = absent \/ current' \in Seq(Line)
      /\ \A j \in 1..Len(Lines') : Lines'[j] \in Call => j \in 1..Len(Lines) /\ Lines'[j] = Lines[j]
  BY <1>1, <1>3 DEF FilesOK, Lines
<1> QED BY <1>2, <1>3, <1>4, QuietStep

(* The rollover.  No other call is inside while a is, so that none is on   *)
(* its way to list a segment.                                              *)
LEMMA RolloverStep ==
  ASSUME OrderInv, LockInv', NEW a \in Call,
         Rename(a) \/ TruncateManifest(a) \/ WriteManifest(a)
  PROVE  OrderInv'
<1>0. /\ PcOK /\ OneInside /\ FilesOK /\ LogInv /\ LineInv /\ ManifestInv /\ ReadInv
      /\ Len(archive) \in Nat /\ Lines \in Seq(Line) /\ archive \in Seq(Seq(Line))
      /\ manifest \in Seq(Nat) /\ listing \in [Call -> Seq(Nat)]
  BY LinesType DEF OrderInv, LockInv, FilesOK
<1>1. PICK to : /\ pc' = [pc EXCEPT ![a] = to] /\ ~Written(a)
                /\ (Rename(a) => to = "renamed")
                /\ (TruncateManifest(a) => to = "listing" /\ pc[a] = "renamed")
                /\ (WriteManifest(a) => to = "listed" /\ pc[a] = "listing")
  BY DEF Rename, TruncateManifest, WriteManifest, Goto, Written
<1>2. /\ pc'[a] = to /\ \A b \in Call \ {a} : pc'[b] = pc[b]
      /\ \A b \in Call : Written(b) => Written(b)'
  BY <1>0, <1>1, PcMoves
<1>3. log' = log /\ result' = result /\ reader' = reader /\ After' = After
  BY LogStays DEF Rename, TruncateManifest, WriteManifest, files, read
<1>4. \A b \in Call \ {a} : pc[b] \notin {"renamed", "listing"}
  BY <1>0 DEF Rename, TruncateManifest, WriteManifest, Goto, OneInside, Inside
<1>5. LogInv'
  <2>1. \A k \in 1..Len(log) : log[k] \in Call /\ Written(log[k])
    BY <1>0 DEF FilesOK, LogInv, Written
  <2>2. \A k \in 1..Len(log) : Written(log[k])'
    BY <1>2, <1>3, <2>1
  <2> QED BY <1>0, <1>3, <2>2 DEF LogInv, Written
<1>6. CASE Rename(a)
  <2>1. /\ LineInv' /\ archive' = Append(archive, Lines) /\ manifest' = manifest
        /\ listing' = listing /\ current' = absent
        /\ \A x : Archived(x) => Archived(x)'
    BY <1>0, <1>6, LinesArchived, LinesType DEF Rename
  <2>2. Len(archive') = Len(archive) + 1 /\ archive' \in Seq(Seq(Line))
    BY <1>0, <2>1
  <2>3. FilesOK'
    BY <1>0, <1>3, <2>1, <2>2 DEF FilesOK
  <2>4. ManifestInv'
    <3>1. \A k \in 1..Len(manifest) : manifest[k] \in 1..Len(archive') /\ manifest[k] < Len(archive')
      BY <1>0, <2>2 DEF ManifestInv
    <3>2. \A b \in Call : pc'[b] # "listing"
      BY <1>1, <1>2, <1>4, <1>6
    <3>3. 1 <= Len(archive')
      BY <1>0, <2>2
    <3> QED BY <1>0, <2>1, <3>1, <3>2, <3>3 DEF ManifestInv
  <2>5. ReadInv'
    BY <1>0, <1>3, <2>1 DEF ReadInv
  <2> QED BY <1>5, <2>1, <2>3, <2>4, <2>5 DEF OrderInv
<1>7. CASE TruncateManifest(a) \/ WriteManifest(a)
  <2>1. archive' = archive /\ current' = current
    BY <1>7 DEF TruncateManifest, WriteManifest
  <2>2. LineInv' /\ \A x : Archived(x)' <=> Archived(x)
    BY <1>0, <1>3, <2>1 DEF LineInv, Lines, Archived
  <2>3. ReadInv'
    BY <1>0, <1>3, <2>2 DEF ReadInv
  <2>4. CASE TruncateManifest(a)
    <3> DEFINE m == Append(manifest, Len(archive))
    <3>1. /\ m \in Seq(Nat) /\ Len(m) = Len(manifest) + 1 /\ Len(manifest) \in Nat
          /\ m[Len(manifest) + 1] = Len(archive) /\ \A k \in 1..Len(manifest) : m[k] = manifest[k]
      BY <1>0
    <3>2. manifest' = <<>> /\ listing' = [listing EXCEPT ![a] = m] /\ pc[a] = "renamed"
      BY <1>1, <2>4 DEF TruncateManifest
    <3> HIDE DEF m
    <3>3. /\ 1 <= Len(archive)
          /\ \A k \in 1..Len(manifest) : manifest[k] \in 1..Len(archive) /\ manifest[k] < Len(archive)
      BY <1>0, <3>2 DEF ManifestInv
    <3>4. \A k \in 1..Len(m) : m[k] \in 1..Len(archive)
      <4> SUFFICES ASSUME NEW k \in 1..Len(m) PROVE m[k] \in 1..Len(archive)
        OBVIOUS
      <4>1. k \in 1..Len(manifest) \/ k = Len(manifest) + 1
        BY <3>1
      <4>2. Len(archive) \in 1..Len(archive)
        BY <1>0, <3>3
      <4> QED BY <3>1, <3>3, <4>1, <4>2
    <3>5. Rising(m)
      <4> SUFFICES ASSUME NEW i \in 1..Len(m), NEW j \in 1..Len(m), i < j PROVE m[i] < m[j]
        BY DEF Rising
      <4>1. i \in 1..Len(manifest)
        BY <3>1
      <4>2. CASE j \in 1..Len(manifest)
        BY <1>0, <3>1, <4>1, <4>2 DEF ManifestInv, Rising
      <4>3. CASE j = Len(manifest) + 1
        BY <3>1, <3>3, <4>1, <4>3
      <4> QED BY <3>1, <4>2, <4>3
    <3>6. <<>> \in Seq(Nat) /\ Len(<<>>) = 0 /\ Rising(<<>>)
      BY DEF Rising
    <3>7. listing' \in [Call -> Seq(Nat)] /\ listing'[a] = m
      BY <1>0, <3>1, <3>2
    <3>8. FilesOK'
      BY <1>0, <1>3, <2>1, <3>2, <3>6, <3>7 DEF FilesOK
    <3>9. \A b \in Call : pc'[b] # "renamed"
      BY <1>1, <1>2, <1>4, <2>4
    <3>10. \A b \in Call : pc'[b] = "listing" => b = a
      BY <1>2, <1>4
    <3>11. ManifestInv'
      BY <2>1, <3>2, <3>4, <3>5, <3>6, <3>7, <3>9, <3>10 DEF ManifestInv
    <3> QED BY <1>5, <2>2, <2>3, <3>8, <3>11 DEF OrderInv
  <2>5. CASE WriteManifest(a)
    <3>1. manifest' = listing[a] /\ listing' = listing /\ pc[a] = "listing"
      BY <1>1, <2>5 DEF WriteManifest
    <3>2. FilesOK'
      BY <1>0, <1>3, <2>1, <3>1 DEF FilesOK
    <3>3. \A b \in Call : pc'[b] \notin {"renamed", "listing"}
      BY <1>1, <1>2, <1>4, <2>5
    <3>4. Rising(listing[a]) /\ \A k \in 1..Len(listing[a]) : listing[a][k] \in 1..Len(archive)
      BY <1>0, <3>1 DEF ManifestInv
    <3>5. ManifestInv'
      BY <2>1, <3>1, <3>3, <3>4 DEF ManifestInv
    <3> QED BY <1>5, <2>2, <2>3, <3>2, <3>5 DEF OrderInv
  <2> QED BY <1>7, <2>4, <2>5
<1> QED BY <1>6, <1>7

(* The append itself.  Its record is new to the log: a call writes once. *)
LEMMA AppendedStep ==
  ASSUME OrderInv, LockInv', NEW a \in Call, AppendLine(a) PROVE OrderInv'
<1>0. /\ PcOK /\ FilesOK /\ LogInv /\ LineInv /\ ManifestInv /\ ReadInv
      /\ Lines \in Seq(Line) /\ log \in Seq(Call) /\ Len(log) \in Nat
  BY LinesType DEF OrderInv, LockInv, FilesOK
<1>1. /\ pc' = [pc EXCEPT ![a] = "releasing"] /\ pc[a] = "append" /\ log' = Append(log, a)
      /\ archive' = archive /\ manifest' = manifest /\ listing' = listing
      /\ result' = result /\ reader' = reader
  BY DEF AppendLine, Goto, read
<1>2. /\ pc'[a] = "releasing" /\ \A b \in Call \ {a} : pc'[b] = pc[b]
      /\ \A b \in Call : Written(b) => Written(b)'
  BY <1>0, <1>1, PcMoves
<1>3. After \subseteq After'
  BY <1>0, <1>1, LogGrows
<1>4. /\ Len(log') = Len(log) + 1 /\ log'[Len(log) + 1] = a
      /\ \A k \in 1..Len(log) : log'[k] = log[k] /\ log[k] \in Call /\ log[k] # a
  <2>1. /\ Len(log') = Len(log) + 1 /\ log'[Len(log) + 1] = a
        /\ \A k \in 1..Len(log) : log'[k] = log[k] /\ log[k] \in Call
    BY <1>0, <1>1
  <2>2. \A k \in 1..Len(log) : log[k] # a
    BY <1>0, <1>1 DEF LogInv
  <2> QED BY <2>1, <2>2
<1>5. LogInv'
  <2>1. ASSUME NEW k \in 1..Len(log'), NEW l \in 1..Len(log'), log'[k] = log'[l] PROVE k = l
    <3>1. CASE k \in 1..Len(log) /\ l \in 1..Len(log)
      BY <1>0, <1>4, <2>1, <3>1 DEF LogInv
    <3>2. CASE k = Len(log) + 1 \/ l = Len(log) + 1
      BY <1>0, <1>4, <2>1, <3>2
    <3> QED BY <1>0, <1>4, <3>1, <3>2
  <2>2. ASSUME NEW k \in 1..Len(log') PROVE pc'[log'[k]] \in {"releasing", "done", "dead"}
    <3>1. CASE k \in 1..Len(log)
      BY <1>0, <1>2, <1>4, <3>1 DEF LogInv
    <3>2. CASE k = Len(log) + 1
      BY <1>2, <1>4, <3>2
    <3> QED BY <1>0, <1>4, <3>1, <3>2
  <2> QED BY <2>1, <2>2 DEF LogInv
<1>6. LineInv'
  BY LineAdded
<1>7. FilesOK'
  <2>1. current' \in Seq(Line)
    <3>1. a \in Line /\ Garbage \in Line
      BY DEF Line
    <3>2. CASE EndsTorn
      <4>1. Front(Lines) \in Seq(Line)
        BY <1>0, <3>2, FrontOf DEF EndsTorn
      <4> QED BY <3>1, <3>2, <4>1 DEF AppendLine
    <3>3. CASE ~EndsTorn
      BY <1>0, <3>1, <3>3 DEF AppendLine
    <3> QED BY <3>2, <3>3
  <2>2. log' \in Seq(Call)
    BY <1>0, <1>1
  <2> QED BY <1>0, <1>1, <2>1, <2>2 DEF FilesOK
<1>8. ManifestInv'
  BY <1>0, <1>1, <1>2 DEF ManifestInv
<1>9. ReadInv'
  <2>1. \A x : Archived(x)' <=> Archived(x)
    BY <1>1 DEF Archived
  <2> QED BY <1>0, <1>1, <1>3, <2>1 DEF ReadInv, InOrder
<1> QED BY <1>5, <1>6, <1>7, <1>8, <1>9 DEF OrderInv

(* What the first step of a read returns. *)
LEMMA SegmentsRead ==
  ASSUME OrderInv, ReadSegments
  PROVE  /\ result' \in Seq(Call) /\ InOrder(result', After)
         /\ \A x \in Call : Holds(x, result')
              <=> \E k \in 1..Len(manifest) : Holds(x, archive[manifest[k]])
<1> DEFINE n == Len(manifest)
           ss == [i \in DOMAIN manifest |-> Records(archive[manifest[i]])]
<1>0. /\ archive \in Seq(Seq(Line)) /\ manifest \in Seq(Nat) /\ n \in Nat
      /\ DOMAIN manifest = 1..n /\ LineInv /\ ManifestInv
  BY DEF OrderInv, FilesOK
<1>1. \A i \in 1..n : /\ manifest[i] \in 1..Len(archive) /\ archive[manifest[i]] \in Seq(Line)
                      /\ InOrder(archive[manifest[i]], After)
  BY <1>0 DEF ManifestInv, LineInv
<1>2. \A i \in 1..n :
        /\ Records(archive[manifest[i]]) \in Seq(Call)
        /\ InOrder(Records(archive[manifest[i]]), After)
        /\ \A x \in Call :
             Holds(x, Records(archive[manifest[i]])) <=> Holds(x, archive[manifest[i]])
  BY <1>1, RecordsInOrder
<1>3. \A i \in 1..n : ss[i] = Records(archive[manifest[i]])
  BY <1>0
<1>4. ss \in Seq(Seq(Call)) /\ Len(ss) = n
  <2>1. ss \in [1..n -> Seq(Call)]
    BY <1>0, <1>2
  <2> HIDE DEF ss, n
  <2>2. ss \in Seq(Seq(Call)) /\ DOMAIN ss = 1..n
    BY <1>0, <2>1
  <2>3. Len(ss) \in Nat /\ DOMAIN ss = 1..Len(ss)
    BY <2>2
  <2> QED BY <1>0, <2>2, <2>3
<1>5. result' = FlattenSeq(ss)
  BY DEF ReadSegments
<1> HIDE DEF ss, n
<1>6. \A i \in 1..Len(ss) : InOrder(ss[i], After)
  BY <1>2, <1>3, <1>4
<1>7. ASSUME NEW i \in 1..Len(ss), NEW j \in 1..Len(ss), NEW x \in Call, NEW y \in Call,
             i < j, Holds(x, ss[i]), Holds(y, ss[j])
      PROVE  <<x, y>> \in After
  <2>1. Holds(x, archive[manifest[i]]) /\ Holds(y, archive[manifest[j]])
    BY <1>2, <1>3, <1>4, <1>7
  <2>2. manifest[i] < manifest[j] /\ manifest[i] \in 1..Len(archive) /\ manifest[j] \in 1..Len(archive)
    BY <1>0, <1>1, <1>4, <1>7 DEF ManifestInv, Rising, n
  <2> QED BY <1>0, <2>1, <2>2 DEF LineInv
<1>8. /\ FlattenSeq(ss) \in Seq(Call) /\ InOrder(FlattenSeq(ss), After)
      /\ \A x \in Call : Holds(x, FlattenSeq(ss)) <=> \E i \in 1..Len(ss) : Holds(x, ss[i])
  BY <1>4, <1>6, <1>7, SegmentsInOrder
<1>9. \A x \in Call : (\E i \in 1..Len(ss) : Holds(x, ss[i]))
                      <=> \E k \in 1..n : Holds(x, archive[manifest[k]])
  BY <1>2, <1>3, <1>4
<1> QED BY <1>5, <1>8, <1>9 DEF n

LEMMA ReadStep ==
  ASSUME OrderInv, LockInv', ReadSegments \/ ReadCurrent PROVE OrderInv'
<1>0. /\ FilesOK /\ LogInv /\ LineInv /\ ManifestInv /\ ReadInv
      /\ Lines \in Seq(Line) /\ result \in Seq(Call) /\ archive \in Seq(Seq(Line))
  BY LinesType DEF OrderInv, FilesOK
<1>1. /\ current' = current /\ archive' = archive /\ manifest' = manifest /\ pc' = pc
      /\ listing' = listing /\ log' = log /\ After' = After
  BY LogStays DEF ReadSegments, ReadCurrent, files
<1>2. LogInv' /\ LineInv' /\ ManifestInv' /\ \A x : Archived(x)' <=> Archived(x)
  BY <1>0, <1>1 DEF LogInv, LineInv, ManifestInv, Lines, Archived
<1>3. CASE ReadSegments
  <2>1. /\ result' \in Seq(Call) /\ InOrder(result', After)
        /\ \A x \in Call : Holds(x, result')
             <=> \E k \in 1..Len(manifest) : Holds(x, archive[manifest[k]])
    BY <1>3, SegmentsRead
  <2>2. ASSUME NEW k \in 1..Len(result') PROVE Archived(result'[k])
    <3>1. result'[k] \in Call /\ Holds(result'[k], result')
      BY <2>1 DEF Holds
    <3>2. PICK l \in 1..Len(manifest) : Holds(result'[k], archive[manifest[l]])
      BY <2>1, <3>1
    <3>3. manifest[l] \in 1..Len(archive)
      BY <1>0 DEF ManifestInv
    <3> QED BY <3>2, <3>3 DEF Archived
  <2>3. FilesOK'
    BY <1>0, <1>1, <2>1 DEF FilesOK
  <2>4. ReadInv'
    BY <1>1, <2>1, <2>2 DEF ReadInv, Archived
  <2> QED BY <1>2, <2>3, <2>4 DEF OrderInv
<1>4. CASE ReadCurrent
  <2>1. reader = "current" /\ reader' = "idle" /\ result' = result \o Records(Lines)
    BY <1>4 DEF ReadCurrent
  <2>2. /\ Records(Lines) \in Seq(Call) /\ InOrder(Records(Lines), After)
        /\ \A x \in Call : Holds(x, Records(Lines)) <=> Holds(x, Lines)
    BY <1>0, RecordsInOrder DEF LineInv
  <2>3. \A x, y \in Call : Holds(x, result) /\ Holds(y, Records(Lines)) => <<x, y>> \in After
    <3>1. \A x \in Call : Holds(x, result) => Archived(x)
      BY <1>0, <2>1 DEF ReadInv, Holds
    <3> QED BY <1>0, <2>2, <3>1 DEF LineInv
  <2>4. InOrder(result, After)
    BY <1>0 DEF ReadInv
  <2>5. result' \in Seq(Call) /\ InOrder(result', After)
    BY <1>0, <2>1, <2>2, <2>3, <2>4, JoinedInOrder
  <2>6. FilesOK'
    BY <1>0, <1>1, <2>5 DEF FilesOK
  <2>7. ReadInv'
    BY <1>1, <2>1, <2>5 DEF ReadInv
  <2> QED BY <1>2, <2>6, <2>7 DEF OrderInv
<1> QED BY <1>3, <1>4

LEMMA OrderInit == Init => OrderInv
<1> SUFFICES ASSUME Init PROVE OrderInv
  OBVIOUS
<1>1. /\ <<>> \in Seq(Line) /\ <<>> \in Seq(Seq(Line)) /\ <<>> \in Seq(Nat) /\ <<>> \in Seq(Call)
      /\ Len(<<>>) = 0
  OBVIOUS
<1>2. /\ Lines = <<>> /\ archive = <<>> /\ manifest = <<>> /\ log = <<>> /\ result = <<>>
      /\ reader = "idle" /\ listing = [a \in Call |-> <<>>] /\ pc = [a \in Call |-> "start"]
      /\ (current = absent \/ current = <<>>)
  BY DEF Init, Lines
<1>3. FilesOK
  BY <1>1, <1>2 DEF FilesOK
<1>4. LogInv /\ ReadInv
  BY <1>1, <1>2 DEF LogInv, ReadInv, InOrder
<1>5. LineInv
  <2>1. \A x : ~Holds(x, Lines) /\ ~Archived(x)
    BY <1>1, <1>2 DEF Holds, Archived
  <2> QED BY <1>1, <1>2, <2>1 DEF LineInv, InOrder
<1>6. ManifestInv
  BY <1>1, <1>2 DEF ManifestInv, Rising
<1> QED BY <1>3, <1>4, <1>5, <1>6, InitLockInv DEF OrderInv

LEMMA OrderStep == OrderInv /\ [Next]_vars => OrderInv'
<1> SUFFICES ASSUME OrderInv, [Next]_vars PROVE OrderInv'
  OBVIOUS
<1>0. LockInv'
  BY StepLockInv DEF OrderInv
<1>1. ASSUME NEW a \in Call, AppendStep(a) PROVE OrderInv'
  <2>1. CASE \/ Exists(a) \/ Missing(a) \/ Lock(a) \/ LockTimeout(a) \/ Fits(a) \/ StatThrows(a)
             \/ Release(a) \/ Create(a) \/ Recreate(a) \/ AppendTears(a)
    BY <1>0, <2>1, AppendQuiet
  <2>2. CASE Rename(a) \/ TruncateManifest(a) \/ WriteManifest(a)
    BY <1>0, <2>2, RolloverStep
  <2>3. CASE AppendLine(a)
    BY <1>0, <2>3, AppendedStep
  <2> QED BY <1>1, <2>1, <2>2, <2>3 DEF AppendStep
<1>2. ASSUME NEW p \in Process, Crash(p) PROVE OrderInv'
  BY <1>0, <1>2, CrashQuiet
<1>3. CASE ReadSegments \/ ReadCurrent
  BY <1>0, <1>3, ReadStep
<1>4. CASE UNCHANGED vars
  <2>1. FilesOK' /\ LogInv' /\ After' = After
    BY <1>4, LogStays DEF OrderInv, vars, files, read, FilesOK, LogInv
  <2>2. LineInv'
    BY <1>4, <2>1 DEF OrderInv, vars, files, LineInv, Lines, Archived
  <2>3. ManifestInv'
    BY <1>4 DEF OrderInv, vars, files, ManifestInv
  <2>4. ReadInv'
    BY <1>4, <2>1 DEF OrderInv, vars, files, read, ReadInv, Archived
  <2> QED BY <1>0, <2>1, <2>2, <2>3, <2>4 DEF OrderInv
<1> QED BY <1>1, <1>2, <1>3, <1>4 DEF Next

(* Whatever rollovers, crashes, torn writes and files truncated by another *)
(* process lose, a read returns what it returns in the order of the        *)
(* appends and each record once, so that the last record of a bead that is *)
(* returned is the newest of those returned.                               *)
THEOREM ReadsAreOrdered == Spec => []ReadInOrder
<1>1. OrderInv => ReadInOrder
  <2> SUFFICES ASSUME OrderInv PROVE ReadInOrder
    OBVIOUS
  <2>1. /\ DOMAIN result = 1..Len(result) /\ DOMAIN log = 1..Len(log) /\ Len(result) \in Nat
        /\ \A i \in 1..Len(result) : result[i] \in Call
    BY DEF OrderInv, FilesOK
  <2>2. \A i, j \in DOMAIN result : i < j => <<result[i], result[j]>> \in After
    BY <2>1 DEF OrderInv, ReadInv, InOrder
  <2>3. \A i, j \in DOMAIN result : i < j =>
          \E k, l \in DOMAIN log : k < l /\ log[k] = result[i] /\ log[l] = result[j]
    <3> SUFFICES ASSUME NEW i \in DOMAIN result, NEW j \in DOMAIN result, i < j
                 PROVE \E k, l \in DOMAIN log : k < l /\ log[k] = result[i] /\ log[l] = result[j]
      OBVIOUS
    <3>1. <<result[i], result[j]>> \in After
      BY <2>2
    <3> QED BY <2>1, <3>1 DEF After
  <2>4. \A i, j \in DOMAIN result : i < j => result[i] # result[j]
    <3> SUFFICES ASSUME NEW i \in DOMAIN result, NEW j \in DOMAIN result, i < j,
                        result[i] = result[j] PROVE FALSE
      OBVIOUS
    <3>1. PICK k \in DOMAIN log, l \in DOMAIN log :
            k < l /\ log[k] = result[i] /\ log[l] = result[j]
      BY <2>3
    <3>2. k \in Nat /\ l \in Nat /\ k = l
      BY <2>1, <3>1 DEF OrderInv, LogInv
    <3> QED BY <3>1, <3>2
  <2>5. IsInjective(result)
    BY <2>1, <2>4 DEF IsInjective
  <2> QED BY <2>3, <2>5 DEF ReadInOrder
<1> QED BY <1>1, OrderInit, OrderStep, PTL DEF Spec

-----------------------------------------------------------------------------
(***************************************************************************)
(* What a read returns when one process has the directory to itself.  Its  *)
(* synchronous code runs in one piece, so that nobody reads or writes      *)
(* while the current file is away, a record that was written stays in the  *)
(* current file or in a segment, and each segment is in the manifest       *)
(* whenever a read may begin.                                              *)
(***************************************************************************)

AwayWhenMoved ==
  \A a \in Call : pc[a] \in {"creating", "renamed", "listing", "listed"} => current = absent

Stored ==
  /\ \A i \in 1..Len(Lines) : Lines[i] \in Call
  /\ \A a \in Call : pc[a] \in {"releasing", "done"} => Holds(a, Lines) \/ Archived(a)

Listed ==
  /\ \A a \in Call : pc[a] = "renamed" =>
       \A i \in 1..Len(archive) : i = Len(archive) \/ Holds(i, manifest)
  /\ \A a \in Call : pc[a] = "listing" => \A i \in 1..Len(archive) : Holds(i, listing[a])
  /\ (\A a \in Call : pc[a] \notin {"renamed", "listing"}) =>
       \A i \in 1..Len(archive) : Holds(i, manifest)

AloneInv == AwayWhenMoved /\ Stored /\ Listed

KeptInv == OrderInv /\ crashes \in Nat /\ torn \in Nat /\ (Alone => AloneInv)

(* An append of the process that is alone runs while no other does. *)
LEMMA AloneTurn ==
  ASSUME KeptInv, NEW a \in Call, AppendStep(a), Alone'
  PROVE  /\ Alone /\ reader = "idle" /\ torn' = torn
         /\ reader' = reader /\ result' = result
         /\ \A b \in Call \ {a} : ~Synchronous(b) /\ pc'[b] = pc[b]
<1>1. PICK from, to : Goto(a, from, to) /\ to # "start"
  BY DEF AppendStep, Exists, Missing, Lock, LockTimeout, Fits, StatThrows, Release, Create,
         Recreate, AppendTears, AppendLine, Rename, TruncateManifest, WriteManifest
<1>2. /\ crashes' = crashes /\ (torn' = torn \/ torn' = torn + 1)
      /\ reader' = reader /\ result' = result
  BY DEF AppendStep, Exists, Missing, Lock, LockTimeout, Fits, StatThrows, Release, Create,
         Recreate, AppendTears, AppendLine, Rename, TruncateManifest, WriteManifest, read
<1>3. crashes = 0 /\ torn = 0 /\ torn' = torn
  BY <1>2 DEF KeptInv, Alone
<1>4. PcOK
  BY DEF KeptInv, OrderInv, LockInv
<1>5. pc'[a] = to /\ \A b \in Call \ {a} : pc'[b] = pc[b]
  BY <1>1, <1>4 DEF PcOK, Goto
<1>6. ProcessOf[a] = Reader /\ \A b \in Call \ {a} : pc[b] # "start" => ProcessOf[b] = Reader
  BY <1>1, <1>5 DEF Alone
<1>7. Alone
  BY <1>3, <1>6 DEF Alone
<1>8. reader = "idle" /\ \A b \in Call \ {a} : ProcessOf[b] = Reader => ~Synchronous(b)
  BY <1>1, <1>6 DEF Goto, Turn
<1>9. \A b \in Call \ {a} : ~Synchronous(b)
  BY <1>6, <1>8 DEF Synchronous
<1> QED BY <1>2, <1>3, <1>5, <1>7, <1>8, <1>9

(* Then no other call is between two file operations, before or after.     *)
LEMMA AloneOthers ==
  ASSUME KeptInv, NEW a \in Call, AppendStep(a), Alone'
  PROVE  /\ AloneInv
         /\ \A b \in Call \ {a} :
              /\ pc[b] \notin {"creating", "renamed", "listing", "listed"}
              /\ pc'[b] \notin {"creating", "renamed", "listing", "listed"}
<1>1. /\ Alone /\ reader = "idle" /\ reader' = reader
      /\ result' = result /\ \A b \in Call \ {a} : ~Synchronous(b) /\ pc'[b] = pc[b]
  BY AloneTurn
<1>2. AloneInv
  BY <1>1 DEF KeptInv
<1>3. \A b \in Call \ {a} :
        /\ pc[b] \notin {"creating", "renamed", "listing", "listed"}
        /\ pc'[b] \notin {"creating", "renamed", "listing", "listed"}
  BY <1>1 DEF Synchronous
<1> QED BY <1>2, <1>3

(* The steps of an append that leave its records where they are. *)
LEMMA AloneQuiet ==
  ASSUME KeptInv, NEW a \in Call, AppendStep(a), Alone',
         \/ Exists(a) \/ Missing(a) \/ Lock(a) \/ LockTimeout(a) \/ Fits(a) \/ StatThrows(a)
         \/ Release(a) \/ Create(a) \/ Recreate(a)
  PROVE  AloneInv'
<1>0. /\ PcOK /\ FilesOK
      /\ AloneInv
      /\ \A b \in Call \ {a} :
           /\ pc[b] \notin {"creating", "renamed", "listing", "listed"}
           /\ pc'[b] \notin {"creating", "renamed", "listing", "listed"}
           /\ pc'[b] = pc[b]
  BY AloneOthers, AloneTurn DEF KeptInv, OrderInv, LockInv
<1>1. /\ pc[a] \notin {"renamed", "listing"} /\ pc'[a] \notin {"renamed", "listing", "listed"}
      /\ (pc'[a] = "creating" => current = absent /\ current' = current)
      /\ (pc'[a] \in {"releasing", "done"} => pc[a] = "releasing")
      /\ archive' = archive /\ manifest' = manifest /\ listing' = listing
      /\ (current' = current \/ (current' = <<>> /\ pc[a] \in {"creating", "listed"}))
  BY <1>0 DEF PcOK, Exists, Missing, Lock, LockTimeout, Fits, StatThrows, Release, Create,
              Recreate, Goto, files
<1>2. Lines' = Lines
  <2>1. CASE current' = current
    BY <2>1 DEF Lines
  <2>2. CASE current' = <<>> /\ pc[a] \in {"creating", "listed"}
    <3>1. current = absent
      BY <1>0, <2>2 DEF AloneInv, AwayWhenMoved
    <3> QED BY <2>2, <3>1 DEF Lines
  <2> QED BY <1>1, <2>1, <2>2
<1>3. AwayWhenMoved'
  BY <1>0, <1>1 DEF AwayWhenMoved
<1>4. Stored'
  <2>1. \A x : Archived(x)' <=> Archived(x)
    BY <1>1 DEF Archived
  <2>2. \A b \in Call : pc'[b] \in {"releasing", "done"} => pc[b] \in {"releasing", "done"}
    BY <1>0, <1>1
  <2> QED BY <1>0, <1>2, <2>1, <2>2 DEF AloneInv, Stored
<1>5. Listed'
  <2>1. \A b \in Call : /\ pc[b] \notin {"renamed", "listing"}
                        /\ pc'[b] \notin {"renamed", "listing"}
    BY <1>0, <1>1
  <2> QED BY <1>0, <1>1, <2>1 DEF AloneInv, Listed
<1> QED BY <1>0, <1>3, <1>4, <1>5 DEF AloneInv

(* A rollover moves the records into a segment and lists it. *)
LEMMA AloneRollover ==
  ASSUME KeptInv, NEW a \in Call, AppendStep(a), Alone',
         Rename(a) \/ TruncateManifest(a) \/ WriteManifest(a)
  PROVE  AloneInv'
<1>0. /\ OrderInv /\ PcOK /\ FilesOK
      /\ AloneInv
      /\ \A b \in Call \ {a} :
           /\ pc[b] \notin {"creating", "renamed", "listing", "listed"}
           /\ pc'[b] \notin {"creating", "renamed", "listing", "listed"}
           /\ pc'[b] = pc[b]
  BY AloneOthers, AloneTurn DEF KeptInv, OrderInv, LockInv
<1>1. /\ Len(archive) \in Nat /\ archive \in Seq(Seq(Line)) /\ manifest \in Seq(Nat)
      /\ Len(manifest) \in Nat /\ listing \in [Call -> Seq(Nat)]
      /\ Lines \in Seq(Line) /\ (current # absent => Lines = current)
  BY <1>0, LinesType DEF FilesOK
<1>2. CASE Rename(a)
  <2>1. /\ pc[a] = "stat" /\ pc'[a] = "renamed" /\ current' = absent /\ manifest' = manifest
        /\ archive' = Append(archive, Lines)
    BY <1>0, <1>1, <1>2 DEF Rename, Goto, PcOK
  <2>2. Lines' = <<>> /\ \A x : Archived(x)' <=> Archived(x) \/ Holds(x, Lines)
    BY <1>0, <1>2, LinesArchived
  <2>3. AwayWhenMoved'
    BY <2>1 DEF AwayWhenMoved
  <2>4. Stored'
    <3>1. Len(<<>>) = 0
      OBVIOUS
    <3>2. \A b \in Call : pc'[b] \in {"releasing", "done"} => Archived(b)'
      BY <1>0, <2>1, <2>2 DEF AloneInv, Stored
    <3> QED BY <2>2, <3>1, <3>2 DEF Stored
  <2>5. Listed'
    <3>1. \A i \in 1..Len(archive) : Holds(i, manifest)
      BY <1>0, <2>1 DEF AloneInv, Listed
    <3>2. Len(archive') = Len(archive) + 1
      BY <1>1, <2>1
    <3>3. \A i \in 1..Len(archive') : i = Len(archive') \/ Holds(i, manifest)
      BY <1>1, <3>1, <3>2
    <3>4. \A b \in Call : pc'[b] # "listing"
      BY <1>0, <2>1
    <3> QED BY <2>1, <3>3, <3>4 DEF Listed
  <2> QED BY <1>0, <2>3, <2>4, <2>5 DEF AloneInv
<1>3. CASE TruncateManifest(a) \/ WriteManifest(a)
  <2>1. /\ archive' = archive /\ current' = current /\ Lines' = Lines
        /\ pc[a] \in {"renamed", "listing"} /\ pc'[a] \in {"listing", "listed"}
    BY <1>0, <1>3 DEF TruncateManifest, WriteManifest, Goto, PcOK, Lines
  <2>2. AwayWhenMoved'
    BY <1>0, <2>1 DEF AloneInv, AwayWhenMoved
  <2>3. Stored'
    <3>1. \A x : Archived(x)' <=> Archived(x)
      BY <2>1 DEF Archived
    <3>2. \A b \in Call : pc'[b] \in {"releasing", "done"} => pc[b] \in {"releasing", "done"}
      BY <1>0, <2>1
    <3> QED BY <1>0, <2>1, <3>1, <3>2 DEF AloneInv, Stored
  <2>4. CASE TruncateManifest(a)
    <3> DEFINE m == Append(manifest, Len(archive))
    <3>1. pc[a] = "renamed" /\ pc'[a] = "listing" /\ listing'[a] = m
      BY <1>0, <1>1, <2>4 DEF TruncateManifest, Goto, PcOK
    <3>2. /\ Len(m) = Len(manifest) + 1 /\ m[Len(manifest) + 1] = Len(archive)
          /\ \A k \in 1..Len(manifest) : m[k] = manifest[k]
      BY <1>1
    <3> HIDE DEF m
    <3>3. \A i : Holds(i, manifest) \/ i = Len(archive) => Holds(i, m)
      <4>1. /\ Len(manifest) + 1 \in 1..Len(m)
            /\ \A k \in 1..Len(manifest) : k \in 1..Len(m)
        BY <1>1, <3>2
      <4>2. Holds(Len(archive), m)
        BY <3>2, <4>1 DEF Holds
      <4>3. ASSUME NEW i, Holds(i, manifest) PROVE Holds(i, m)
        <5>1. PICK k \in 1..Len(manifest) : manifest[k] = i
          BY <4>3 DEF Holds
        <5> QED BY <3>2, <4>1, <5>1 DEF Holds
      <4> QED BY <4>2, <4>3
    <3>4. \A i \in 1..Len(archive) : Holds(i, m)
      BY <1>0, <3>1, <3>3 DEF AloneInv, Listed
    <3>5. \A b \in Call : pc'[b] # "renamed" /\ (pc'[b] = "listing" => b = a)
      BY <1>0, <3>1
    <3>6. Listed'
      BY <2>1, <3>1, <3>4, <3>5 DEF Listed
    <3> QED BY <1>0, <2>2, <2>3, <3>6 DEF AloneInv
  <2>5. CASE WriteManifest(a)
    <3>1. pc[a] = "listing" /\ pc'[a] = "listed" /\ manifest' = listing[a]
      BY <1>0, <2>5 DEF WriteManifest, Goto, PcOK
    <3>2. \A i \in 1..Len(archive) : Holds(i, listing[a])
      BY <1>0, <3>1 DEF AloneInv, Listed
    <3>3. \A b \in Call : pc'[b] \notin {"renamed", "listing"}
      BY <1>0, <3>1
    <3>4. Listed'
      BY <2>1, <3>1, <3>2, <3>3 DEF Listed
    <3> QED BY <1>0, <2>2, <2>3, <3>4 DEF AloneInv
  <2> QED BY <1>3, <2>4, <2>5
<1> QED BY <1>2, <1>3

(* An append finds whole lines and adds its own. *)
LEMMA AloneAppended ==
  ASSUME KeptInv, NEW a \in Call, AppendStep(a), Alone', AppendLine(a)
  PROVE  AloneInv'
<1>0. /\ PcOK /\ FilesOK /\ Lines \in Seq(Line) /\ Len(Lines) \in Nat
      /\ AloneInv
      /\ \A b \in Call \ {a} :
           /\ pc[b] \notin {"creating", "renamed", "listing", "listed"}
           /\ pc'[b] \notin {"creating", "renamed", "listing", "listed"}
           /\ pc'[b] = pc[b]
  BY AloneOthers, AloneTurn, LinesType DEF KeptInv, OrderInv, LockInv
<1>1. /\ pc[a] = "append" /\ pc'[a] = "releasing" /\ archive' = archive /\ manifest' = manifest
  BY <1>0 DEF AppendLine, Goto, PcOK
<1>2. ~EndsTorn
  <2> SUFFICES ASSUME EndsTorn PROVE FALSE
    OBVIOUS
  <2>1. Lines # <<>> /\ Lines[Len(Lines)] = TornLine
    BY DEF EndsTorn, Last
  <2>2. Len(Lines) \in 1..Len(Lines)
    BY <1>0, <2>1
  <2> QED BY <1>0, <2>1, <2>2, ProcessAssumption DEF AloneInv, Stored
<1> DEFINE s == Append(Lines, a)
<1>3. /\ s \in Seq(Line) /\ Len(s) = Len(Lines) + 1 /\ s[Len(Lines) + 1] = a
      /\ \A i \in 1..Len(Lines) : s[i] = Lines[i]
  BY <1>0 DEF Line
<1>4. current' = s
  BY <1>2 DEF AppendLine
<1> HIDE DEF s
<1>5. Lines' = s
  BY <1>3, <1>4, ProcessAssumption DEF Lines
<1>6. \A x : (Holds(x, s) <=> Holds(x, Lines) \/ x = a) /\ (Archived(x)' <=> Archived(x))
  BY <1>0, <1>1, <1>3 DEF Holds, Archived
<1>7. Stored'
  <2>1. \A i \in 1..Len(s) : s[i] \in Call
    BY <1>0, <1>3 DEF AloneInv, Stored
  <2>2. \A b \in Call : pc'[b] \in {"releasing", "done"} => Holds(b, s) \/ Archived(b)'
    BY <1>0, <1>1, <1>6 DEF AloneInv, Stored
  <2> QED BY <1>5, <2>1, <2>2 DEF Stored
<1>8. AwayWhenMoved'
  BY <1>0, <1>1 DEF AwayWhenMoved
<1>9. Listed'
  <2>1. \A b \in Call : /\ pc[b] \notin {"renamed", "listing"}
                        /\ pc'[b] \notin {"renamed", "listing"}
    BY <1>0, <1>1
  <2> QED BY <1>0, <1>1, <2>1 DEF AloneInv, Listed
<1> QED BY <1>0, <1>7, <1>8, <1>9 DEF AloneInv

(* A read changes no file.                                                 *)
LEMMA AloneRead ==
  ASSUME KeptInv, ReadSegments \/ ReadCurrent, Alone'
  PROVE  AloneInv'
<1>1. /\ pc' = pc /\ current' = current /\ archive' = archive /\ manifest' = manifest
      /\ listing' = listing /\ crashes' = crashes /\ torn' = torn
  BY DEF ReadSegments, ReadCurrent, files
<1>2. Alone
  BY <1>1 DEF Alone
<1>3. AloneInv /\ Lines' = Lines /\ \A x : Archived(x)' <=> Archived(x)
  BY <1>1, <1>2 DEF KeptInv, Lines, Archived
<1> QED BY <1>1, <1>3 DEF AloneInv, AwayWhenMoved, Stored, Listed

LEMMA KeptInit == Init => KeptInv
<1> SUFFICES ASSUME Init PROVE KeptInv
  OBVIOUS
<1>1. /\ Lines = <<>> /\ archive = <<>> /\ Len(<<>>) = 0 /\ reader = "idle"
      /\ pc = [a \in Call |-> "start"] /\ crashes = 0 /\ torn = 0
  BY DEF Init, Lines
<1>2. \A a \in Call : pc[a] = "start"
  BY <1>1
<1>3. AwayWhenMoved /\ Stored /\ Listed
  BY <1>1, <1>2 DEF AwayWhenMoved, Stored, Listed
<1> QED BY <1>1, <1>3, OrderInit DEF KeptInv, AloneInv

LEMMA KeptStep == KeptInv /\ [Next]_vars => KeptInv'
<1> SUFFICES ASSUME KeptInv, [Next]_vars PROVE KeptInv'
  OBVIOUS
<1>0. OrderInv'
  BY OrderStep DEF KeptInv
<1>1. crashes \in Nat /\ torn \in Nat
  BY DEF KeptInv
<1>2. ASSUME NEW a \in Call, AppendStep(a) PROVE KeptInv'
  <2>1. crashes' = crashes /\ (torn' = torn \/ torn' = torn + 1)
    BY <1>2 DEF AppendStep, Exists, Missing, Lock, LockTimeout, Fits, StatThrows, Release, Create,
                Recreate, AppendTears, AppendLine, Rename, TruncateManifest, WriteManifest
  <2>2. ASSUME Alone' PROVE AloneInv'
    <3>1. CASE \/ Exists(a) \/ Missing(a) \/ Lock(a) \/ LockTimeout(a) \/ Fits(a) \/ StatThrows(a)
               \/ Release(a) \/ Create(a) \/ Recreate(a)
      BY <1>2, <2>2, <3>1, AloneQuiet
    <3>2. CASE Rename(a) \/ TruncateManifest(a) \/ WriteManifest(a)
      BY <1>2, <2>2, <3>2, AloneRollover
    <3>3. CASE AppendLine(a)
      BY <1>2, <2>2, <3>3, AloneAppended
    <3>4. CASE AppendTears(a)
      <4>1. torn' = torn + 1 /\ torn' = torn
        BY <1>2, <2>2, <3>4, AloneTurn DEF AppendTears
      <4> QED BY <1>1, <4>1
    <3> QED BY <1>2, <3>1, <3>2, <3>3, <3>4 DEF AppendStep
  <2> QED BY <1>0, <1>1, <2>1, <2>2 DEF KeptInv
<1>3. ASSUME NEW p \in Process, Crash(p) PROVE KeptInv'
  <2>1. crashes' = crashes + 1 /\ torn' = torn
    BY <1>3 DEF Crash
  <2> QED BY <1>0, <1>1, <2>1 DEF KeptInv, Alone
<1>4. CASE ReadSegments \/ ReadCurrent
  <2>1. crashes' = crashes /\ torn' = torn
    BY <1>4 DEF ReadSegments, ReadCurrent
  <2> QED BY <1>0, <1>1, <1>4, <2>1, AloneRead DEF KeptInv
<1>5. CASE UNCHANGED vars
  <2>1. Alone' => Alone
    BY <1>5 DEF vars, Alone
  <2>2. Lines' = Lines /\ \A x : Archived(x)' <=> Archived(x)
    BY <1>5 DEF vars, files, Lines, Archived
  <2>3. AloneInv => AloneInv'
    BY <1>5, <2>2 DEF vars, files, read, AloneInv, AwayWhenMoved, Stored, Listed
  <2> QED BY <1>0, <1>1, <1>5, <2>1, <2>3 DEF KeptInv, vars
<1> QED BY <1>2, <1>3, <1>4, <1>5 DEF Next

-----------------------------------------------------------------------------
(***************************************************************************)
(* The log of a process alone (BeadLog).  What a read returns holds the    *)
(* records of the log, nothing else, and in the order of the log: it is    *)
(* the log, because an order without ties leaves one way to write them     *)
(* down.                                                                   *)
(***************************************************************************)

Asymmetric(R) == \A p \in R : <<p[2], p[1]>> \notin R

(* Of two lists of the same records in the same order, the one begins with *)
(* the other.                                                              *)
LEMMA BeginsWith ==
  ASSUME NEW R, Asymmetric(R), NEW s \in Seq(Call), NEW t \in Seq(Call),
         InOrder(s, R), InOrder(t, R), \A x \in Call : Holds(x, s) <=> Holds(x, t)
  PROVE  \A i \in 1..Len(s) : i \in 1..Len(t) /\ s[i] = t[i]
<1> DEFINE Same(i) == i \in 1..Len(t) /\ s[i] = t[i]
           S == {n \in Nat : \A i \in 1..Len(s) : i <= n => Same(i)}
<1>1. /\ Len(s) \in Nat /\ Len(t) \in Nat
      /\ \A i \in 1..Len(s) : s[i] \in Call /\ Holds(s[i], s)
      /\ \A i \in 1..Len(t) : t[i] \in Call /\ Holds(t[i], t)
  BY DEF Holds
<1>2. \A x, y : <<x, y>> \in R => <<y, x>> \notin R
  <2> SUFFICES ASSUME NEW x, NEW y, <<x, y>> \in R PROVE <<y, x>> \notin R
    OBVIOUS
  <2>1. <<x, y>>[1] = x /\ <<x, y>>[2] = y
    OBVIOUS
  <2> QED BY <2>1 DEF Asymmetric
<1>3. \A i, j \in 1..Len(s) : i < j => <<s[i], s[j]>> \in R
  BY <1>1 DEF InOrder
<1>4. \A i, j \in 1..Len(t) : i < j => <<t[i], t[j]>> \in R
  BY <1>1 DEF InOrder
<1>5. 0 \in S
  OBVIOUS
<1>6. ASSUME NEW n \in Nat, n \in S PROVE n + 1 \in S
  <2> DEFINE m == n + 1
  <2>0. m \in Nat /\ m >= 1 /\ \A i \in Nat : i < m <=> i <= n
    OBVIOUS
  <2>1. \A i \in 1..Len(s) : i < m => Same(i)
    BY <1>6, <2>0
  <2> HIDE DEF m
  <2>2. ASSUME m \in 1..Len(s) PROVE Same(m)
    <3>1. PICK k \in 1..Len(t) : t[k] = s[m]
      BY <1>1, <2>2 DEF Holds
    <3>2. ~(k < m)
      <4> SUFFICES ASSUME k < m PROVE FALSE
        OBVIOUS
      <4>1. k \in 1..Len(s)
        BY <1>1, <2>0, <2>2
      <4>2. s[k] = s[m] /\ <<s[k], s[m]>> \in R
        BY <1>3, <2>1, <2>2, <3>1, <4>1
      <4> QED BY <1>2, <4>2
    <3>3. m \in 1..Len(t)
      BY <1>1, <2>0, <3>2
    <3>4. ~(m < k)
      <4> SUFFICES ASSUME m < k PROVE FALSE
        OBVIOUS
      <4>1. <<t[m], s[m]>> \in R
        BY <1>4, <3>1, <3>3
      <4>2. PICK j \in 1..Len(s) : s[j] = t[m]
        BY <1>1, <3>3 DEF Holds
      <4>3. CASE j < m
        <5>1. j \in 1..Len(t) /\ t[j] = t[m] /\ <<t[j], t[m]>> \in R
          BY <1>4, <2>1, <3>3, <4>2, <4>3
        <5> QED BY <1>2, <5>1
      <4>4. CASE j = m
        BY <1>2, <4>1, <4>2, <4>4
      <4>5. CASE m < j
        <5>1. <<s[m], t[m]>> \in R
          BY <1>3, <2>2, <4>2, <4>5
        <5> QED BY <1>2, <4>1, <5>1
      <4> QED BY <1>1, <2>0, <4>3, <4>4, <4>5
    <3>5. k = m
      BY <1>1, <2>0, <3>2, <3>4
    <3> QED BY <3>1, <3>3, <3>5
  <2>3. ASSUME NEW i \in 1..Len(s), i <= m PROVE Same(i)
    <3>1. CASE i < m
      BY <2>1, <3>1
    <3>2. CASE i = m
      <4> HIDE DEF Same
      <4> QED BY <2>2, <3>2
    <3> QED BY <1>1, <2>0, <2>3, <3>1, <3>2
  <2> QED BY <2>0, <2>3 DEF m
<1> HIDE DEF S
<1>7. Len(s) \in S
  BY <1>1, <1>5, <1>6, Induction
<1> QED BY <1>1, <1>7 DEF S

LEMMA OneOrder ==
  ASSUME NEW R, Asymmetric(R), NEW s \in Seq(Call), NEW t \in Seq(Call),
         InOrder(s, R), InOrder(t, R), \A x \in Call : Holds(x, s) <=> Holds(x, t)
  PROVE  s = t
<1>1. \A i \in 1..Len(s) : i \in 1..Len(t) /\ s[i] = t[i]
  BY BeginsWith
<1>2. \A i \in 1..Len(t) : i \in 1..Len(s) /\ t[i] = s[i]
  BY BeginsWith
<1>3. Len(s) \in Nat /\ Len(t) \in Nat
  OBVIOUS
<1>4. Len(s) = Len(t)
  <2>1. Len(s) > 0 => Len(s) \in 1..Len(t)
    BY <1>1, <1>3
  <2>2. Len(t) > 0 => Len(t) \in 1..Len(s)
    BY <1>2, <1>3
  <2> QED BY <1>3, <2>1, <2>2
<1> QED BY <1>1, <1>4

(* No record is in the log twice, so its order has no ties. *)
LEMMA LogInOrder ==
  ASSUME FilesOK, LogInv
  PROVE  Asymmetric(After) /\ InOrder(log, After)
<1>1. log \in Seq(Call) /\ Len(log) \in Nat /\ \A k, l \in 1..Len(log) : log[k] = log[l] => k = l
  BY DEF FilesOK, LogInv
<1>2. ASSUME NEW p \in After, <<p[2], p[1]>> \in After PROVE FALSE
  <2>1. PICK k, l \in 1..Len(log) : k < l /\ log[k] = p[1] /\ log[l] = p[2]
    BY DEF After
  <2>2. PICK m, n \in 1..Len(log) : m < n /\ log[m] = p[2] /\ log[n] = p[1]
    BY <1>2 DEF After
  <2>3. m = l /\ n = k
    BY <1>1, <2>1, <2>2
  <2> QED BY <1>1, <2>1, <2>2, <2>3
<1>3. ASSUME NEW i \in 1..Len(log), NEW j \in 1..Len(log), i < j
      PROVE  <<log[i], log[j]>> \in After
  <2>1. log[i] \in Call /\ log[j] \in Call
    BY <1>1
  <2> QED BY <1>3, <2>1 DEF After
<1> QED BY <1>2, <1>3 DEF Asymmetric, InOrder

(* Who appended a record has not died while nobody crashed. *)
NobodyDied == crashes = 0 => \A a \in Call : pc[a] # "dead"

SoleInv == KeptInv /\ NobodyDied

LEMMA SoleInit == Init => SoleInv
<1> SUFFICES ASSUME Init PROVE SoleInv
  OBVIOUS
<1>1. \A a \in Call : pc[a] = "start"
  BY DEF Init
<1> QED BY <1>1, KeptInit DEF SoleInv, NobodyDied

LEMMA SoleStep == SoleInv /\ [Next]_vars => SoleInv'
<1> SUFFICES ASSUME SoleInv, [Next]_vars PROVE SoleInv'
  OBVIOUS
<1>1. KeptInv' /\ PcOK /\ crashes \in Nat
  BY KeptStep DEF SoleInv, KeptInv, OrderInv, LockInv
<1>2. ASSUME NEW a \in Call, AppendStep(a) PROVE NobodyDied'
  <2>1. PICK from, to : Goto(a, from, to) /\ to # "dead"
    BY <1>2 DEF AppendStep, Exists, Missing, Lock, LockTimeout, Fits, StatThrows, Release, Create,
                Recreate, AppendTears, AppendLine, Rename, TruncateManifest, WriteManifest
  <2>2. crashes' = crashes
    BY <1>2 DEF AppendStep, Exists, Missing, Lock, LockTimeout, Fits, StatThrows, Release, Create,
                Recreate, AppendTears, AppendLine, Rename, TruncateManifest, WriteManifest
  <2> QED BY <1>1, <2>1, <2>2 DEF SoleInv, NobodyDied, Goto, PcOK
<1>3. ASSUME NEW p \in Process, Crash(p) PROVE NobodyDied'
  BY <1>1, <1>3 DEF Crash, NobodyDied
<1>4. CASE ReadSegments \/ ReadCurrent \/ UNCHANGED vars
  BY <1>1, <1>4 DEF ReadSegments, ReadCurrent, vars, SoleInv, NobodyDied
<1> QED BY <1>1, <1>2, <1>3, <1>4 DEF SoleInv, Next

(* The files hold the log. *)
LEMMA FilesHoldLog ==
  ASSUME SoleInv, Alone
  PROVE  \A x \in Call : Holds(x, log) <=> Archived(x) \/ Holds(x, Lines)
<1>1. LogInv /\ LineInv /\ Stored /\ \A a \in Call : pc[a] # "dead"
  BY DEF SoleInv, KeptInv, OrderInv, AloneInv, NobodyDied, Alone
<1>2. ASSUME NEW x \in Call, Holds(x, log) PROVE Archived(x) \/ Holds(x, Lines)
  <2>1. pc[x] \in {"releasing", "done"}
    BY <1>1, <1>2 DEF LogInv, Holds
  <2> QED BY <1>1, <2>1 DEF Stored
<1> QED BY <1>1, <1>2 DEF LineInv

(* A read that begins when nobody is between two file operations returns   *)
(* the log.                                                                *)
LEMMA LogIsRead ==
  ASSUME SoleInv, Alone, ReadSegments
  PROVE  result' \o Records(Lines) = log
<1>1. /\ OrderInv /\ FilesOK /\ LogInv /\ LineInv /\ Lines \in Seq(Line) /\ log \in Seq(Call)
      /\ Listed
  BY LinesType DEF SoleInv, KeptInv, OrderInv, FilesOK, AloneInv
<1>2. \A a \in Call : ~Synchronous(a)
  BY DEF ReadSegments, Alone, Synchronous
<1>3. \A i \in 1..Len(archive) : Holds(i, manifest)
  BY <1>1, <1>2 DEF Listed, Synchronous
<1>4. /\ result' \in Seq(Call) /\ InOrder(result', After)
      /\ \A x \in Call : Holds(x, result')
           <=> \E k \in 1..Len(manifest) : Holds(x, archive[manifest[k]])
  BY <1>1, SegmentsRead
<1>5. ASSUME NEW x \in Call PROVE Holds(x, result') <=> Archived(x)
  <2>1. ASSUME Archived(x) PROVE Holds(x, result')
    <3>1. PICK i \in 1..Len(archive) : Holds(x, archive[i])
      BY <2>1 DEF Archived
    <3>2. PICK k \in 1..Len(manifest) : manifest[k] = i
      BY <1>3 DEF Holds
    <3> QED BY <1>4, <3>1, <3>2
  <2>2. ASSUME Holds(x, result') PROVE Archived(x)
    <3>1. PICK k \in 1..Len(manifest) : Holds(x, archive[manifest[k]])
      BY <1>4, <2>2
    <3>2. manifest[k] \in 1..Len(archive)
      BY <1>1 DEF OrderInv, ManifestInv
    <3> QED BY <3>1, <3>2 DEF Archived
  <2> QED BY <2>1, <2>2
<1> DEFINE r == result'
           c == Records(Lines)
<1>6. /\ c \in Seq(Call) /\ InOrder(c, After)
      /\ \A x \in Call : Holds(x, c) <=> Holds(x, Lines)
  BY <1>1, RecordsInOrder DEF LineInv
<1>7. \A x, y \in Call : Holds(x, r) /\ Holds(y, c) => <<x, y>> \in After
  BY <1>1, <1>5, <1>6 DEF LineInv
<1> HIDE DEF r, c
<1>8. r \in Seq(Call) /\ InOrder(r, After)
  BY <1>4 DEF r
<1>9. /\ r \o c \in Seq(Call) /\ InOrder(r \o c, After)
      /\ \A x : Holds(x, r \o c) <=> Holds(x, r) \/ Holds(x, c)
  BY <1>6, <1>7, <1>8, JoinedInOrder
<1>10. \A x \in Call : Holds(x, r \o c) <=> Holds(x, log)
  <2>1. \A x \in Call : Holds(x, r) <=> Archived(x)
    BY <1>5 DEF r
  <2> QED BY <1>6, <1>9, <2>1, FilesHoldLog
<1>11. Asymmetric(After) /\ InOrder(log, After)
  BY <1>1, LogInOrder
<1>12. r \o c = log
  <2> DEFINE u == r \o c
  <2>1. u \in Seq(Call) /\ InOrder(u, After) /\ \A x \in Call : Holds(x, u) <=> Holds(x, log)
    BY <1>9, <1>10
  <2> HIDE DEF u
  <2>2. u = log
    BY <1>1, <1>11, <2>1, OneOrder
  <2> QED BY <2>2 DEF u
<1> QED BY <1>12 DEF r, c

(* What BeadLog sees. *)
logVars == <<log, Acked, Failed, Returned>>

LEMMA RangeHolds == ASSUME FilesOK PROVE \A x : x \in BLog!Range(log) <=> Holds(x, log)
<1>1. DOMAIN log = 1..Len(log)
  BY DEF FilesOK
<1> QED BY <1>1 DEF BLog!Range, Holds

(* An append is one step of the log, its answer another, and all else it   *)
(* does is invisible.                                                      *)
LEMMA AppendImplements ==
  ASSUME SoleInv, NEW a \in Call, AppendStep(a), Alone'
  PROVE  BLog!Next \/ UNCHANGED logVars
<1>1. /\ Alone /\ reader = "idle" /\ reader' = "idle" /\ result' = result
      /\ \A b \in Call \ {a} : pc'[b] = pc[b]
  BY AloneTurn DEF SoleInv
<1>2. Returned' = Returned
  BY <1>1 DEF Returned
<1>3. PcOK /\ FilesOK /\ LogInv
  BY DEF SoleInv, KeptInv, OrderInv, LockInv
<1>4. \A x : x \in BLog!Range(log) <=> Holds(x, log)
  BY <1>3, RangeHolds
<1>5. CASE AppendLine(a)
  <2>1. pc[a] = "append" /\ pc'[a] = "releasing" /\ log' = Append(log, a)
    BY <1>3, <1>5 DEF AppendLine, Goto, PcOK
  <2>2. Acked' = Acked /\ Failed' = Failed /\ a \notin Failed
    BY <1>1, <2>1 DEF Acked, Failed
  <2>3. ~Holds(a, log)
    BY <1>3, <2>1 DEF LogInv, Holds
  <2>4. BLog!AppendRecord(a)
    BY <1>2, <1>4, <2>1, <2>2, <2>3 DEF BLog!AppendRecord
  <2> QED BY <2>4 DEF BLog!Next
<1>6. CASE Release(a)
  <2>1. log' = log
    BY <1>6 DEF Release
  <2>2. CASE pc[a] = "releasing"
    <3>1. pc'[a] = "done"
      BY <1>3, <1>6, <2>2 DEF Release, Goto, PcOK
    <3>2. Acked' = Acked \cup {a} /\ a \notin Acked /\ Failed' = Failed
      BY <1>1, <2>2, <3>1 DEF Acked, Failed
    <3>3. Holds(a, log)
      <4>1. Archived(a) \/ Holds(a, Lines)
        BY <1>1, <2>2 DEF SoleInv, KeptInv, AloneInv, Stored
      <4> QED BY <1>1, <4>1, FilesHoldLog
    <3>4. BLog!Acknowledge(a)
      BY <1>2, <1>4, <2>1, <3>2, <3>3 DEF BLog!Acknowledge
    <3> QED BY <3>4 DEF BLog!Next
  <2>3. CASE pc[a] # "releasing"
    <3>1. pc[a] = "throwing" /\ pc'[a] = "failed"
      BY <1>3, <1>6, <2>3 DEF Release, Goto, PcOK
    <3>2. Failed' = Failed \cup {a} /\ a \notin Failed /\ Acked' = Acked
      BY <1>1, <3>1 DEF Acked, Failed
    <3>3. ~Holds(a, log)
      BY <1>3, <3>1 DEF LogInv, Holds
    <3>4. BLog!Refuse(a)
      BY <1>2, <1>4, <2>1, <3>2, <3>3 DEF BLog!Refuse
    <3> QED BY <3>4 DEF BLog!Next
  <2> QED BY <2>2, <2>3
<1>7. CASE LockTimeout(a)
  <2>1. pc[a] = "locking" /\ pc'[a] = "failed" /\ log' = log
    BY <1>3, <1>7 DEF LockTimeout, Goto, PcOK
  <2>2. Failed' = Failed \cup {a} /\ a \notin Failed /\ Acked' = Acked
    BY <1>1, <2>1 DEF Acked, Failed
  <2>3. ~Holds(a, log)
    BY <1>3, <2>1 DEF LogInv, Holds
  <2>4. BLog!Refuse(a)
    BY <1>2, <1>4, <2>1, <2>2, <2>3 DEF BLog!Refuse
  <2> QED BY <2>4 DEF BLog!Next
<1>8. CASE \/ Exists(a) \/ Missing(a) \/ Create(a) \/ Lock(a) \/ Fits(a) \/ StatThrows(a)
           \/ Rename(a) \/ TruncateManifest(a) \/ WriteManifest(a) \/ Recreate(a) \/ AppendTears(a)
  <2>1. /\ pc[a] \notin {"done", "failed"} /\ pc'[a] \notin {"done", "failed"} /\ log' = log
    BY <1>3, <1>8 DEF Exists, Missing, Create, Lock, Fits, StatThrows, Rename, TruncateManifest,
                      WriteManifest, Recreate, AppendTears, Goto, PcOK
  <2>2. Acked' = Acked /\ Failed' = Failed
    BY <1>1, <2>1 DEF Acked, Failed
  <2> QED BY <1>2, <2>1, <2>2 DEF logVars
<1> QED BY <1>5, <1>6, <1>7, <1>8 DEF AppendStep

LEMMA StepImplements ==
  ASSUME SoleInv, [Next]_vars
  PROVE  [Alone' => BLog!Next]_logVars
<1> SUFFICES ASSUME Alone' PROVE BLog!Next \/ UNCHANGED logVars
  OBVIOUS
<1>1. ASSUME NEW a \in Call, AppendStep(a) PROVE BLog!Next \/ UNCHANGED logVars
  BY <1>1, AppendImplements
<1>2. ASSUME NEW p \in Process, Crash(p) PROVE FALSE
  <2>1. crashes' = crashes + 1 /\ crashes' = 0 /\ crashes \in Nat
    BY <1>2 DEF Crash, Alone, SoleInv, KeptInv
  <2> QED BY <2>1
<1>3. CASE ReadSegments
  <2>1. /\ pc' = pc /\ log' = log /\ current' = current /\ reader' = "current"
        /\ crashes' = crashes /\ torn' = torn
    BY <1>3 DEF ReadSegments, files
  <2>2. Alone
    BY <2>1 DEF Alone
  <2>3. Records(Lines)' = Records(Lines)
    BY <2>1 DEF Lines, Records
  <2>4. Returned' = log
    BY <1>3, <2>1, <2>2, <2>3, LogIsRead DEF Returned
  <2>5. Acked' = Acked /\ Failed' = Failed
    BY <2>1 DEF Acked, Failed
  <2> QED BY <2>1, <2>4, <2>5 DEF BLog!Next, BLog!Read
<1>4. CASE ReadCurrent
  <2>1. /\ pc' = pc /\ log' = log /\ reader = "current" /\ reader' = "idle"
        /\ result' = result \o Records(Lines)
    BY <1>4 DEF ReadCurrent
  <2>2. Returned' = Returned
    BY <2>1 DEF Returned
  <2> QED BY <2>1, <2>2 DEF logVars, Acked, Failed
<1>5. CASE UNCHANGED vars
  BY <1>5 DEF vars, files, read, logVars, Acked, Failed, Returned, Lines, Records
<1> QED BY <1>1, <1>2, <1>3, <1>4, <1>5 DEF Next

(* For any number of appends, rollovers and reads, whatever the calls of   *)
(* one process do at the lock: the process has an append-only log, whose   *)
(* reads are atomic.                                                       *)
THEOREM AloneIsLog == Spec => ImplementsLog
<1>1. Init => BLog!Init
  BY DEF Init, BLog!Init, Acked, Failed, Returned
<1>2. SoleInv /\ [Next]_vars => [Alone' => BLog!Next]_<<log, Acked, Failed, Returned>>
  BY StepImplements DEF logVars
<1> QED BY SoleInit, SoleStep, <1>1, <1>2, PTL DEF Spec, ImplementsLog
=============================================================================
