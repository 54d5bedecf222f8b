------------------------ MODULE SafeguardPool_proofs ------------------------
(***************************************************************************)
(* No worker and no scan of a SafeguardPool is ever lost, for any number   *)
(* of either.  The code moves workers between a list and the closures of   *)
(* running scans; the invariant says that together they hold each worker   *)
(* once, and that the queue holds each waiting scan once.  The queue is    *)
(* sorted by priority and call, so what leaves it is first in that order.  *)
(***************************************************************************)
EXTENDS SafeguardPool, FiniteSetTheorems, TLAPS

Entry == [pc : {"idle", "queued", "scanning", "scanned", "rejected"},
          priority : Nat, failCount : Nat, worker : Worker \cup {NoWorker}, call : Nat]

(* The free workers w and the entries e hold each worker once. *)
Conserved(w, e) ==
  /\ w \in Seq(Worker) /\ e \in [Scan -> Entry]
  /\ \A i, j \in 1..Len(w) : w[i] = w[j] => i = j
  /\ \A s \in Scan : e[s].pc = "scanning" =>
       e[s].worker \in Worker /\ \A i \in 1..Len(w) : w[i] # e[s].worker
  /\ \A s, t \in Scan :
       e[s].pc = "scanning" /\ e[t].pc = "scanning" /\ e[s].worker = e[t].worker => s = t
  /\ \A v \in Worker :
       (\E i \in 1..Len(w) : w[i] = v) \/ (\E s \in Scan : e[s].pc = "scanning" /\ e[s].worker = v)

(* The queue q holds each waiting entry of e once. *)
Waiting(q, e) ==
  /\ q \in Seq(Scan)
  /\ \A i, j \in 1..Len(q) : q[i] = q[j] => i = j
  /\ \A s \in Scan : e[s].pc = "queued" <=> \E i \in 1..Len(q) : q[i] = s

PoolInv ==
  /\ Conserved(availableWorkers, scan) /\ Waiting(queue, scan) /\ calls \in Nat
  /\ availableWorkers = <<>> \/ queue = <<>>

-----------------------------------------------------------------------------
(* The three ways a worker changes hands. *)

(* The worker of a scan that ends is free. *)
LEMMA Release ==
  ASSUME NEW w, NEW e, NEW s \in Scan, NEW r \in Entry,
         Conserved(w, e), e[s].pc = "scanning", r.pc # "scanning"
  PROVE  Conserved(Append(w, e[s].worker), [e EXCEPT ![s] = r])
<1> DEFINE v == Append(w, e[s].worker)
           f == [e EXCEPT ![s] = r]
<1>1. /\ v \in Seq(Worker) /\ Len(v) = Len(w) + 1 /\ Len(w) \in Nat
      /\ \A i \in 1..Len(w) : v[i] = w[i]
      /\ v[Len(w) + 1] = e[s].worker
  BY DEF Conserved
<1>2. f \in [Scan -> Entry] /\ f[s] = r /\ \A t \in Scan \ {s} : f[t] = e[t]
  BY DEF Conserved
<1>3. \A i, j \in 1..Len(v) : v[i] = v[j] => i = j
  BY <1>1 DEF Conserved
<1>4. \A t \in Scan : f[t].pc = "scanning" =>
        f[t].worker \in Worker /\ \A i \in 1..Len(v) : v[i] # f[t].worker
  BY <1>1, <1>2 DEF Conserved
<1>5. \A t, u \in Scan :
        f[t].pc = "scanning" /\ f[u].pc = "scanning" /\ f[t].worker = f[u].worker => t = u
  BY <1>2 DEF Conserved
<1>6. ASSUME NEW x \in Worker
      PROVE (\E i \in 1..Len(v) : v[i] = x)
            \/ (\E t \in Scan : f[t].pc = "scanning" /\ f[t].worker = x)
  <2>1. CASE \E i \in 1..Len(w) : w[i] = x
    BY <1>1, <2>1
  <2>2. CASE \E t \in Scan : e[t].pc = "scanning" /\ e[t].worker = x
    <3>1. PICK t \in Scan : e[t].pc = "scanning" /\ e[t].worker = x
      BY <2>2
    <3>2. CASE t = s
      BY <1>1, <3>1, <3>2
    <3>3. CASE t # s
      BY <1>2, <3>1, <3>3
    <3> QED BY <3>2, <3>3
  <2> QED BY <2>1, <2>2 DEF Conserved
<1> QED BY <1>1, <1>2, <1>3, <1>4, <1>5, <1>6 DEF Conserved

(* A scan takes the first free worker. *)
LEMMA Take ==
  ASSUME NEW w, NEW e, NEW s \in Scan, NEW r \in Entry,
         Conserved(w, e), w # <<>>, e[s].pc # "scanning",
         r.pc = "scanning", r.worker = Head(w)
  PROVE  Conserved(Tail(w), [e EXCEPT ![s] = r])
<1> DEFINE v == Tail(w)
           f == [e EXCEPT ![s] = r]
<1>1. /\ v \in Seq(Worker) /\ Len(w) = Len(v) + 1 /\ Len(v) \in Nat
      /\ \A i \in 1..Len(v) : v[i] = w[i + 1]
      /\ Head(w) = w[1] /\ w[1] \in Worker
  BY DEF Conserved
<1>2. f \in [Scan -> Entry] /\ f[s] = r /\ \A t \in Scan \ {s} : f[t] = e[t]
  BY DEF Conserved
<1>3. \A i, j \in 1..Len(v) : v[i] = v[j] => i = j
  <2> SUFFICES ASSUME NEW i \in 1..Len(v), NEW j \in 1..Len(v), v[i] = v[j] PROVE i = j
    OBVIOUS
  <2>1. i + 1 \in 1..Len(w) /\ j + 1 \in 1..Len(w) /\ w[i + 1] = w[j + 1]
    BY <1>1
  <2>2. i + 1 = j + 1
    BY <2>1 DEF Conserved
  <2> QED BY <2>2
<1>4. \A i \in 1..Len(v) : v[i] # r.worker
  <2> SUFFICES ASSUME NEW i \in 1..Len(v), w[i + 1] = w[1] PROVE FALSE
    BY <1>1
  <2>1. i + 1 \in 1..Len(w) /\ 1 \in 1..Len(w)
    BY <1>1
  <2>2. i + 1 = 1
    BY <2>1 DEF Conserved
  <2> QED BY <2>2
<1>5. \A t \in Scan : f[t].pc = "scanning" =>
        f[t].worker \in Worker /\ \A i \in 1..Len(v) : v[i] # f[t].worker
  <2>1. \A t \in Scan \ {s}, i \in 1..Len(v) : e[t].pc = "scanning" => w[i + 1] # e[t].worker
    <3> SUFFICES ASSUME NEW t \in Scan, NEW i \in 1..Len(v), e[t].pc = "scanning"
                 PROVE w[i + 1] # e[t].worker
      OBVIOUS
    <3>1. i + 1 \in 1..Len(w)
      BY <1>1
    <3> QED BY <3>1 DEF Conserved
  <2>2. ASSUME NEW t \in Scan, f[t].pc = "scanning", t # s
        PROVE f[t].worker \in Worker /\ \A i \in 1..Len(v) : v[i] # f[t].worker
    BY <1>1, <1>2, <2>1, <2>2 DEF Conserved
  <2> QED BY <1>1, <1>2, <1>4, <2>2
<1>6. \A t \in Scan \ {s} : e[t].pc = "scanning" => e[t].worker # w[1]
  <2>1. 1 \in 1..Len(w)
    BY <1>1
  <2> QED BY <2>1 DEF Conserved
<1>7. \A t, u \in Scan :
        f[t].pc = "scanning" /\ f[u].pc = "scanning" /\ f[t].worker = f[u].worker => t = u
  BY <1>1, <1>2, <1>6 DEF Conserved
<1>8. ASSUME NEW x \in Worker
      PROVE (\E i \in 1..Len(v) : v[i] = x)
            \/ (\E t \in Scan : f[t].pc = "scanning" /\ f[t].worker = x)
  <2>1. CASE x = w[1]
    BY <1>1, <1>2, <2>1
  <2>2. CASE x # w[1] /\ \E i \in 1..Len(w) : w[i] = x
    <3>1. PICK i \in 1..Len(w) : w[i] = x
      BY <2>2
    <3>2. i - 1 \in 1..Len(v)
      BY <1>1, <2>2, <3>1
    <3>3. v[i - 1] = x
      BY <1>1, <3>1, <3>2
    <3> QED BY <3>2, <3>3
  <2>3. CASE \E t \in Scan : e[t].pc = "scanning" /\ e[t].worker = x
    <3>1. PICK t \in Scan : e[t].pc = "scanning" /\ e[t].worker = x
      BY <2>3
    <3> QED BY <1>2, <3>1
  <2> QED BY <2>1, <2>2, <2>3 DEF Conserved
<1> QED BY <1>1, <1>2, <1>3, <1>5, <1>7, <1>8 DEF Conserved

(* Free workers take the first waiting scans. *)
LEMMA Dispatching ==
  ASSUME NEW w, NEW q, NEW e, Conserved(w, e), Waiting(q, e), dispatch(w, q, e)
  PROVE  /\ Conserved(availableWorkers', scan') /\ Waiting(queue', scan')
         /\ availableWorkers' = <<>> \/ queue' = <<>>
<1> DEFINE n == IF Len(w) < Len(q) THEN Len(w) ELSE Len(q)
           v == availableWorkers'
           p == queue'
           f == scan'
<1>1. Len(w) \in Nat /\ Len(q) \in Nat /\ n \in Nat /\ n <= Len(w) /\ n <= Len(q)
  BY DEF Conserved, Waiting
<1>2. /\ v = SubSeq(w, n + 1, Len(w)) /\ p = SubSeq(q, n + 1, Len(q))
      /\ f = [s \in Scan |-> IF \E i \in 1..n : q[i] = s
                              THEN Run(e[s], w[CHOOSE i \in 1..n : q[i] = s]) ELSE e[s]]
  BY DEF dispatch
<1> HIDE DEF n, v, p, f
<1>3. /\ v \in Seq(Worker) /\ Len(v) = Len(w) - n /\ \A i \in 1..Len(v) : v[i] = w[i + n]
      /\ p \in Seq(Scan) /\ Len(p) = Len(q) - n /\ \A i \in 1..Len(p) : p[i] = q[i + n]
  BY <1>1, <1>2 DEF Conserved, Waiting
<1>4. v = <<>> \/ p = <<>>
  <2>1. Len(v) = 0 \/ Len(p) = 0
    BY <1>1, <1>3 DEF n
  <2> QED BY <1>3, <2>1
<1>5. \A i \in 1..n : w[i] \in Worker /\ q[i] \in Scan
  BY <1>1 DEF Conserved, Waiting
<1>6. ASSUME NEW i \in 1..n
      PROVE /\ f[q[i]] = Run(e[q[i]], w[i]) /\ f[q[i]] \in Entry
            /\ f[q[i]].pc = "scanning" /\ f[q[i]].worker = w[i]
            /\ e[q[i]].pc = "queued"
  <2> DEFINE k == CHOOSE j \in 1..n : q[j] = q[i]
  <2>1. k \in 1..n /\ q[k] = q[i]
    OBVIOUS
  <2>2. k = i
    BY <1>1, <2>1 DEF Waiting
  <2>3. f[q[i]] = Run(e[q[i]], w[i])
    BY <1>2, <1>5, <2>2
  <2>4. e[q[i]] \in Entry /\ e[q[i]].pc = "queued"
    BY <1>1, <1>5 DEF Conserved, Waiting
  <2> QED BY <1>5, <2>3, <2>4 DEF Run, Entry
<1>7. ASSUME NEW s \in Scan, \A i \in 1..n : q[i] # s
      PROVE f[s] = e[s]
  BY <1>2, <1>7
<1>8. f \in [Scan -> Entry]
  <2>1. ASSUME NEW s \in Scan PROVE f[s] \in Entry
    BY <1>6, <1>7 DEF Conserved
  <2> QED BY <1>2, <2>1
<1>9. \A i, j \in 1..Len(v) : v[i] = v[j] => i = j
  <2> SUFFICES ASSUME NEW i \in 1..Len(v), NEW j \in 1..Len(v), w[i + n] = w[j + n] PROVE i = j
    BY <1>3
  <2>1. i + n \in 1..Len(w) /\ j + n \in 1..Len(w)
    BY <1>1, <1>3
  <2>2. i + n = j + n
    BY <2>1 DEF Conserved
  <2> QED BY <1>1, <2>2
(* The scans that run now: those that did, and those just taken. *)
<1>10. ASSUME NEW s \in Scan, f[s].pc = "scanning"
       PROVE \/ e[s].pc = "scanning" /\ f[s] = e[s] /\ \A i \in 1..n : q[i] # s
             \/ \E i \in 1..n : q[i] = s /\ f[s].worker = w[i]
  BY <1>6, <1>7, <1>10
<1>11. ASSUME NEW s \in Scan, f[s].pc = "scanning"
       PROVE f[s].worker \in Worker /\ \A i \in 1..Len(v) : v[i] # f[s].worker
  <2>1. \A i \in 1..Len(v) : i + n \in 1..Len(w)
    BY <1>1, <1>3
  <2>2. CASE e[s].pc = "scanning" /\ f[s] = e[s]
    <3>1. e[s].worker \in Worker /\ \A i \in 1..Len(w) : w[i] # e[s].worker
      BY <2>2 DEF Conserved
    <3>2. \A i \in 1..Len(v) : w[i + n] # e[s].worker
      BY <2>1, <3>1
    <3> QED BY <1>3, <2>2, <3>1, <3>2
  <2>3. CASE \E i \in 1..n : q[i] = s /\ f[s].worker = w[i]
    <3>1. PICK i \in 1..n : f[s].worker = w[i]
      BY <2>3
    <3>2. ASSUME NEW j \in 1..Len(v), w[j + n] = w[i] PROVE FALSE
      <4>1. j + n = i
        BY <1>1, <2>1, <3>2 DEF Conserved
      <4> QED BY <1>1, <4>1
    <3> QED BY <1>3, <1>5, <3>1, <3>2
  <2> QED BY <1>10, <1>11, <2>2, <2>3
<1>12. ASSUME NEW s \in Scan, NEW t \in Scan,
              f[s].pc = "scanning", f[t].pc = "scanning", f[s].worker = f[t].worker
       PROVE s = t
  <2>1. \A i \in 1..n : i \in 1..Len(w)
    BY <1>1
  <2>2. \A r \in Scan, i \in 1..n : e[r].pc = "scanning" => w[i] # e[r].worker
    BY <2>1 DEF Conserved
  <2>3. \A i, j \in 1..n : w[i] = w[j] => i = j
    BY <2>1 DEF Conserved
  <2>4. \A r, u \in Scan :
          e[r].pc = "scanning" /\ e[u].pc = "scanning" /\ e[r].worker = e[u].worker => r = u
    BY DEF Conserved
  <2> QED BY <1>10, <1>12, <2>2, <2>3, <2>4
<1>13. ASSUME NEW x \in Worker
       PROVE (\E i \in 1..Len(v) : v[i] = x)
             \/ (\E s \in Scan : f[s].pc = "scanning" /\ f[s].worker = x)
  <2>1. CASE \E i \in 1..Len(w) : w[i] = x
    <3>1. PICK i \in 1..Len(w) : w[i] = x
      BY <2>1
    <3>2. CASE i \in 1..n
      BY <1>5, <1>6, <3>1, <3>2
    <3>3. CASE i \notin 1..n
      <4>1. i - n \in 1..Len(v)
        BY <1>1, <1>3, <3>3
      <4>2. v[i - n] = x
        BY <1>1, <1>3, <3>1, <4>1
      <4> QED BY <4>1, <4>2
    <3> QED BY <3>2, <3>3
  <2>2. CASE \E s \in Scan : e[s].pc = "scanning" /\ e[s].worker = x
    <3>1. PICK s \in Scan : e[s].pc = "scanning" /\ e[s].worker = x
      BY <2>2
    <3>2. \A i \in 1..n : q[i] # s
      BY <1>6, <3>1
    <3> QED BY <1>7, <3>1, <3>2
  <2> QED BY <2>1, <2>2 DEF Conserved
<1>14. \A i, j \in 1..Len(p) : p[i] = p[j] => i = j
  <2> SUFFICES ASSUME NEW i \in 1..Len(p), NEW j \in 1..Len(p), q[i + n] = q[j + n] PROVE i = j
    BY <1>3
  <2>1. i + n \in 1..Len(q) /\ j + n \in 1..Len(q)
    BY <1>1, <1>3
  <2>2. i + n = j + n
    BY <2>1 DEF Waiting
  <2> QED BY <1>1, <2>2
<1>15. ASSUME NEW s \in Scan
       PROVE f[s].pc = "queued" <=> \E i \in 1..Len(p) : p[i] = s
  <2>1. ASSUME f[s].pc = "queued" PROVE \E i \in 1..Len(p) : p[i] = s
    <3>1. \A i \in 1..n : q[i] # s
      BY <1>6, <2>1
    <3>2. PICK i \in 1..Len(q) : q[i] = s
      BY <1>7, <2>1, <3>1 DEF Waiting
    <3>3. i - n \in 1..Len(p)
      BY <1>1, <1>3, <3>1, <3>2
    <3>4. p[i - n] = s
      BY <1>1, <1>3, <3>2, <3>3
    <3> QED BY <3>3, <3>4
  <2>2. ASSUME NEW i \in 1..Len(p), p[i] = s PROVE f[s].pc = "queued"
    <3>1. i + n \in 1..Len(q) /\ q[i + n] = s
      BY <1>1, <1>3, <2>2
    <3>2. \A j \in 1..n : q[j] # s
      <4> SUFFICES ASSUME NEW j \in 1..n, q[j] = s PROVE FALSE
        OBVIOUS
      <4>1. j \in 1..Len(q)
        BY <1>1
      <4>2. j = i + n
        BY <3>1, <4>1 DEF Waiting
      <4> QED BY <1>1, <4>2
    <3>3. e[s].pc = "queued"
      BY <3>1 DEF Waiting
    <3> QED BY <1>7, <3>2, <3>3
  <2> QED BY <2>1, <2>2
<1>16. Conserved(v, f)
  BY <1>3, <1>8, <1>9, <1>11, <1>12, <1>13 DEF Conserved
<1>17. Waiting(p, f)
  BY <1>3, <1>14, <1>15 DEF Waiting
<1> QED BY <1>4, <1>16, <1>17 DEF v, p, f

-----------------------------------------------------------------------------

(* The place of a new entry is one of the queue's, or just after it. *)
LEMMA PlaceInQueue ==
  ASSUME queue \in Seq(Scan), NEW priority
  PROVE  Place(priority) \in 1 .. Len(queue) + 1
<1> DEFINE S == {i \in DOMAIN queue : scan[queue[i]].priority >= priority}
<1>1. Len(queue) \in Nat /\ DOMAIN queue = 1..Len(queue) /\ S \subseteq 1..Len(queue)
  OBVIOUS
<1>2. IsFiniteSet(1..Len(queue)) /\ Cardinality(1..Len(queue)) = Len(queue)
  BY <1>1, FS_Interval
<1>3. IsFiniteSet(S) /\ Cardinality(S) \in Nat /\ Cardinality(S) <= Len(queue)
  BY <1>1, <1>2, FS_Subset, FS_CardinalityType
<1> QED BY <1>1, <1>3 DEF Place

(* What an insertion into the queue yields. *)
LEMMA Inserted ==
  ASSUME NEW q \in Seq(Scan), NEW s \in Scan, NEW k \in 1 .. Len(q) + 1
  PROVE  /\ InsertAt(q, k, s) \in Seq(Scan) /\ Len(InsertAt(q, k, s)) = Len(q) + 1
         /\ \A i \in 1..Len(InsertAt(q, k, s)) :
              InsertAt(q, k, s)[i] = IF i < k THEN q[i] ELSE IF i = k THEN s ELSE q[i - 1]
<1> DEFINE p == InsertAt(q, k, s)
           a == SubSeq(q, 1, k - 1)
           b == SubSeq(q, k, Len(q))
           c == a \o <<s>>
<1>0. Len(q) \in Nat
  OBVIOUS
<1>1. /\ a \in Seq(Scan) /\ Len(a) = k - 1 /\ \A i \in 1 .. k - 1 : a[i] = q[i]
  BY <1>0
<1>2. /\ b \in Seq(Scan) /\ Len(b) = Len(q) - k + 1
      /\ \A i \in 1 .. Len(q) - k + 1 : b[i] = q[i + k - 1]
  BY <1>0
<1>3. p = c \o b
  BY DEF InsertAt
<1> HIDE DEF a, b, p
<1>4. /\ c \in Seq(Scan) /\ Len(c) = k
      /\ \A i \in 1 .. k - 1 : c[i] = q[i]
      /\ c[k] = s
  BY <1>1
<1> HIDE DEF c
<1>5. p \in Seq(Scan) /\ Len(p) = Len(q) + 1
  <2>1. c \in Seq(Scan) /\ b \in Seq(Scan) /\ Len(c) + Len(b) = Len(q) + 1
    BY <1>0, <1>2, <1>4
  <2>2. c \o b \in Seq(Scan) /\ Len(c \o b) = Len(c) + Len(b)
    BY <2>1
  <2> QED BY <1>3, <2>1, <2>2
<1>6. \A i \in 1..k : p[i] = c[i]
  BY <1>2, <1>3, <1>4
<1>7. \A i \in k + 1 .. Len(q) + 1 : p[i] = b[i - k]
  BY <1>0, <1>2, <1>3, <1>4
<1>8. \A i \in k + 1 .. Len(q) + 1 : b[i - k] = q[i - 1]
  <2> SUFFICES ASSUME NEW i \in k + 1 .. Len(q) + 1 PROVE b[i - k] = q[i - 1]
    OBVIOUS
  <2>1. i - k \in 1 .. Len(q) - k + 1 /\ (i - k) + k - 1 = i - 1
    BY <1>0
  <2> QED BY <1>2, <2>1
<1> QED BY <1>0, <1>4, <1>5, <1>6, <1>7, <1>8 DEF p

(* A scan that is new to the queue is in it once after its insertion.      *)
LEMMA Inserting ==
  ASSUME NEW q, NEW e, NEW s \in Scan, NEW r \in Entry, NEW k \in 1 .. Len(q) + 1,
         Waiting(q, e), e \in [Scan -> Entry], e[s].pc # "queued", r.pc = "queued"
  PROVE  Waiting(InsertAt(q, k, s), [e EXCEPT ![s] = r])
<1> DEFINE p == InsertAt(q, k, s)
           f == [e EXCEPT ![s] = r]
<1>1. Len(q) \in Nat /\ q \in Seq(Scan)
  BY DEF Waiting
<1>2. /\ p \in Seq(Scan) /\ Len(p) = Len(q) + 1
      /\ \A i \in 1..Len(p) : p[i] = IF i < k THEN q[i] ELSE IF i = k THEN s ELSE q[i - 1]
  BY <1>1, Inserted
<1> HIDE DEF p
<1>3. \A i \in 1..Len(q) : q[i] # s
  BY DEF Waiting
<1>4. \A i, j \in 1..Len(p) : p[i] = p[j] => i = j
  <2> SUFFICES ASSUME NEW i \in 1..Len(p), NEW j \in 1..Len(p), p[i] = p[j] PROVE i = j
    OBVIOUS
  <2>1. \A x \in 1..Len(p) : (x < k => x \in 1..Len(q)) /\ (x > k => x - 1 \in 1..Len(q))
    BY <1>1, <1>2
  <2>2. \A x, y \in 1..Len(q) : q[x] = q[y] => x = y
    BY DEF Waiting
  <2>3. \A x \in 1..Len(p) : (x < k => p[x] = q[x]) /\ (x > k => p[x] = q[x - 1]) /\ (x = k => p[x] = s)
    BY <1>1, <1>2
  <2>4. \A x \in 1..Len(p) : p[x] = s => x = k
    <3> SUFFICES ASSUME NEW x \in 1..Len(p), x # k PROVE p[x] # s
      OBVIOUS
    <3>1. x < k \/ x > k
      BY <1>1, <1>2
    <3> QED BY <1>3, <2>1, <2>3, <3>1
  <2>5. CASE i = k \/ j = k
    BY <2>3, <2>4, <2>5
  <2>6. CASE i < k /\ j < k
    BY <2>1, <2>2, <2>3, <2>6
  <2>7. CASE i > k /\ j > k
    <3>1. q[i - 1] = q[j - 1] /\ i - 1 \in 1..Len(q) /\ j - 1 \in 1..Len(q)
      BY <2>1, <2>3, <2>7
    <3>2. i - 1 = j - 1
      BY <2>2, <3>1
    <3> QED BY <1>1, <1>2, <3>2
  <2>8. CASE i < k /\ j > k
    <3>1. q[i] = q[j - 1] /\ i \in 1..Len(q) /\ j - 1 \in 1..Len(q)
      BY <2>1, <2>3, <2>8
    <3>2. i = j - 1
      BY <2>2, <3>1
    <3> QED BY <1>1, <1>2, <2>8, <3>2
  <2>9. CASE i > k /\ j < k
    <3>1. q[i - 1] = q[j] /\ i - 1 \in 1..Len(q) /\ j \in 1..Len(q)
      BY <2>1, <2>3, <2>9
    <3>2. i - 1 = j
      BY <2>2, <3>1
    <3> QED BY <1>1, <1>2, <2>9, <3>2
  <2> QED BY <1>1, <1>2, <2>5, <2>6, <2>7, <2>8, <2>9
<1>5. ASSUME NEW t \in Scan
      PROVE f[t].pc = "queued" <=> \E i \in 1..Len(p) : p[i] = t
  <2>1. CASE t = s
    <3>1. k \in 1..Len(p) /\ p[k] = s
      BY <1>1, <1>2
    <3> QED BY <2>1, <3>1
  <2>2. CASE t # s
    <3>1. f[t].pc = "queued" <=> \E i \in 1..Len(q) : q[i] = t
      BY <2>2 DEF Waiting
    <3>2. ASSUME NEW i \in 1..Len(q), q[i] = t PROVE \E j \in 1..Len(p) : p[j] = t
      <4>1. CASE i < k
        <5>1. i \in 1..Len(p)
          BY <1>1, <1>2
        <5>2. p[i] = q[i]
          BY <1>2, <4>1, <5>1
        <5> QED BY <3>2, <5>1, <5>2
      <4>2. CASE i >= k
        <5>1. i + 1 \in 1..Len(p) /\ i + 1 > k /\ (i + 1) - 1 = i
          BY <1>1, <1>2, <4>2
        <5>2. p[i + 1] = q[(i + 1) - 1]
          BY <1>2, <5>1
        <5> QED BY <3>2, <5>1, <5>2
      <4>3. i < k \/ i >= k
        BY <1>1
      <4> QED BY <4>1, <4>2, <4>3
    <3>3. ASSUME NEW j \in 1..Len(p), p[j] = t PROVE \E i \in 1..Len(q) : q[i] = t
      <4>1. CASE j < k
        <5>1. j \in 1..Len(q)
          BY <1>1, <1>2, <4>1
        <5>2. p[j] = q[j]
          BY <1>2, <4>1
        <5> QED BY <3>3, <5>1, <5>2
      <4>2. CASE j > k
        <5>1. j - 1 \in 1..Len(q)
          BY <1>1, <1>2, <4>2
        <5>2. p[j] = q[j - 1]
          BY <1>2, <4>2
        <5> QED BY <3>3, <5>1, <5>2
      <4>3. CASE j = k
        BY <1>2, <2>2, <3>3, <4>3
      <4>4. j < k \/ j > k \/ j = k
        BY <1>1, <1>2
      <4> QED BY <4>1, <4>2, <4>3, <4>4
    <3> QED BY <3>1, <3>2, <3>3
  <2> QED BY <2>1, <2>2
<1> QED BY <1>2, <1>4, <1>5 DEF Waiting, p

(* An entry that neither waits nor runs, before and after, leaves no trace *)
(* in the workers or in the queue.                                         *)
LEMMA Untouched ==
  ASSUME NEW w, NEW e, NEW s \in Scan, NEW r \in Entry, Conserved(w, e),
         e[s].pc # "scanning", r.pc # "scanning"
  PROVE  Conserved(w, [e EXCEPT ![s] = r])
<1> DEFINE f == [e EXCEPT ![s] = r]
<1>1. f \in [Scan -> Entry] /\ f[s] = r /\ \A t \in Scan \ {s} : f[t] = e[t]
  BY DEF Conserved
<1>2. \A t \in Scan : f[t].pc = "scanning" <=> e[t].pc = "scanning" /\ t # s
  BY <1>1
<1>3. \A t \in Scan : e[t].pc = "scanning" => f[t] = e[t]
  BY <1>1
<1> HIDE DEF f
<1> QED BY <1>1, <1>2, <1>3 DEF Conserved, f

LEMMA NotWaiting ==
  ASSUME NEW q, NEW e, NEW s \in Scan, NEW r \in Entry, Waiting(q, e), e \in [Scan -> Entry],
         e[s].pc # "queued", r.pc # "queued"
  PROVE  Waiting(q, [e EXCEPT ![s] = r])
BY DEF Waiting

-----------------------------------------------------------------------------

(* The end of a scan frees its worker and no more. *)
LEMMA Ends ==
  ASSUME PoolInv, NEW s \in Scan, NEW r \in Entry,
         scan[s].pc = "scanning", r.pc \in {"scanned", "rejected"}
  PROVE  /\ Conserved(Append(availableWorkers, scan[s].worker), [scan EXCEPT ![s] = r])
         /\ Waiting(queue, [scan EXCEPT ![s] = r])
<1>1. Conserved(availableWorkers, scan) /\ Waiting(queue, scan) /\ scan \in [Scan -> Entry]
  BY DEF PoolInv, Conserved
<1>2. Conserved(Append(availableWorkers, scan[s].worker), [scan EXCEPT ![s] = r])
  BY <1>1, Release
<1>3. Waiting(queue, [scan EXCEPT ![s] = r])
  BY <1>1, NotWaiting
<1> QED BY <1>2, <1>3

LEMMA PoolStep ==
  ASSUME PoolInv, [Next]_vars PROVE PoolInv'
<1> USE PoolAssumption
<1>0. /\ Conserved(availableWorkers, scan) /\ Waiting(queue, scan)
      /\ scan \in [Scan -> Entry] /\ calls \in Nat
  BY DEF PoolInv, Conserved
<1>1. ASSUME NEW s \in Scan, NEW p \in Priorities, enqueueAndDispatch(s, p) PROVE PoolInv'
  <2> DEFINE r == [scan[s] EXCEPT !.pc = "queued", !.priority = p, !.call = calls + 1]
             q == InsertAt(queue, Place(p), s)
             e == [scan EXCEPT ![s] = r]
  <2>0. scan[s] \in Entry /\ p \in Nat /\ calls + 1 \in Nat
    BY <1>0
  <2>1. scan[s].pc = "idle" /\ r \in Entry /\ r.pc = "queued"
    <3>1. scan[s].pc = "idle"
      BY <1>1 DEF enqueueAndDispatch
    <3> QED BY <2>0, <3>1 DEF Entry
  <2>2. Conserved(availableWorkers, e)
    BY <1>0, <2>1, Untouched
  <2>3. Place(p) \in 1 .. Len(queue) + 1
    BY <1>0, PlaceInQueue DEF Waiting
  <2>4. Waiting(q, e)
    BY <1>0, <2>1, <2>3, Inserting
  <2>5. dispatch(availableWorkers, q, e) /\ calls' = calls + 1
    BY <1>1 DEF enqueueAndDispatch
  <2> HIDE DEF q, e, r
  <2> QED BY <1>0, <2>2, <2>4, <2>5, Dispatching DEF PoolInv
<1>2. ASSUME NEW s \in Scan, Scanned(s) PROVE PoolInv'
  <2> DEFINE r == Settled(scan[s], "scanned")
  <2>1. scan[s].pc = "scanning" /\ r \in Entry /\ r.pc = "scanned"
    BY <1>0, <1>2 DEF Scanned, Settled, Entry
  <2>2. dispatch(Append(availableWorkers, scan[s].worker), queue, [scan EXCEPT ![s] = r])
        /\ calls' = calls
    BY <1>2 DEF Scanned
  <2> HIDE DEF r
  <2> QED BY <1>0, <2>1, <2>2, Ends, Dispatching DEF PoolInv
<1>3. ASSUME NEW s \in Scan, Failed(s) PROVE PoolInv'
  <2> DEFINE free == Append(availableWorkers, scan[s].worker)
             entry == [scan[s] EXCEPT !.failCount = @ + 1]
             out == Settled(entry, "rejected")
             again == Run(entry, Head(free))
             e == [scan EXCEPT ![s] = out]
  <2>1. scan[s].pc = "scanning" /\ entry \in Entry /\ out \in Entry /\ out.pc = "rejected"
    <3>1. scan[s].pc = "scanning" /\ scan[s].worker \in Worker
      BY <1>0, <1>3 DEF Failed, Conserved
    <3>2. scan[s] \in Entry
      BY <1>0
    <3>3. entry \in Entry
      BY <3>2 DEF Entry
    <3>4. out \in Entry /\ out.pc = "rejected"
      BY <3>3 DEF Settled, Entry
    <3> QED BY <3>1, <3>3, <3>4
  <2>2. Conserved(free, e) /\ Waiting(queue, e)
    BY <2>1, Ends
  <2>3. calls' = calls
    BY <1>3 DEF Failed
  <2>4. CASE dispatch(free, queue, e)
    BY <1>0, <2>2, <2>3, <2>4, Dispatching DEF PoolInv
  <2>5. CASE dispatch(Tail(free), queue, [scan EXCEPT ![s] = again])
    <3>1. free # <<>> /\ Head(free) \in Worker
      <4>1. scan[s].worker \in Worker /\ availableWorkers \in Seq(Worker)
        BY <1>0, <2>1 DEF Conserved
      <4>2. free \in Seq(Worker) /\ Len(free) > 0
        BY <4>1
      <4> QED BY <4>2
    <3>2. again \in Entry /\ again.pc = "scanning" /\ again.worker = Head(free)
      BY <2>1, <3>1 DEF Run, Entry
    <3>3. e \in [Scan -> Entry] /\ e[s] = out
      BY <1>0, <2>1
    <3> HIDE DEF free, again, out
    <3>4. [e EXCEPT ![s] = again] = [scan EXCEPT ![s] = again]
      BY <1>0
    <3> HIDE DEF e
    <3>5. Conserved(Tail(free), [e EXCEPT ![s] = again])
      BY <2>1, <2>2, <3>1, <3>2, <3>3, Take
    <3>6. Waiting(queue, [e EXCEPT ![s] = again])
      BY <2>1, <2>2, <3>2, <3>3, NotWaiting
    <3> QED BY <1>0, <2>3, <2>5, <3>4, <3>5, <3>6, Dispatching DEF PoolInv
  <2> QED BY <1>3, <2>4, <2>5 DEF Failed
<1>4. CASE UNCHANGED vars
  BY <1>4 DEF vars, PoolInv, Conserved, Waiting
<1> QED BY <1>1, <1>2, <1>3, <1>4 DEF Next

LEMMA PoolInit == Init => PoolInv
<1> SUFFICES ASSUME Init PROVE PoolInv
  OBVIOUS
<1> USE PoolAssumption
<1>1. availableWorkers \in Seq(Worker) /\ ToSet(availableWorkers) = Worker
      /\ IsInjective(availableWorkers)
  <2> DEFINE D == 1..Cardinality(Worker)
             w == availableWorkers
  <2>1. w \in [D -> Worker] /\ \A i, j \in D : i # j => w[i] # w[j]
    BY DEF Init, SetToSeqs
  <2>2. Cardinality(Worker) \in Nat /\ IsFiniteSet(D) /\ Cardinality(D) = Cardinality(Worker)
    BY FS_CardinalityType, FS_Interval
  <2>3. w \in Injection(D, Worker)
    BY <2>1 DEF Injection, IsInjective
  <2>4. w \in Surjection(D, Worker)
    BY <2>2, <2>3, FS_Injection
  <2>5. \A v \in Worker : \E i \in D : w[i] = v
    BY <2>4 DEF Surjection
  <2>6. w \in Seq(Worker) /\ DOMAIN w = D
    BY <2>1, <2>2
  <2> QED BY <2>1, <2>5, <2>6 DEF ToSet, IsInjective
<1>2. scan \in [Scan -> Entry] /\ \A s \in Scan : scan[s].pc = "idle"
  BY DEF Init, Entry
<1>3. Conserved(availableWorkers, scan)
  BY <1>1, <1>2 DEF Conserved, ToSet, IsInjective
<1>4. Waiting(queue, scan)
  BY <1>2 DEF Init, Waiting
<1> QED BY <1>3, <1>4 DEF Init, PoolInv

(* Whatever throws, each worker is free once or runs one scan: the pool    *)
(* never shrinks, and no worker has two scans.                             *)
THEOREM NoWorkerLost == Spec => []WorkersConserved
<1>1. PoolInv => WorkersConserved
  <2> SUFFICES ASSUME PoolInv PROVE WorkersConserved
    OBVIOUS
  <2>1. Conserved(availableWorkers, scan)
    BY DEF PoolInv
  <2> QED BY <2>1 DEF Conserved, WorkersConserved, Scanning, ToSet, IsInjective
<1> QED BY <1>1, PoolInit, PoolStep, PTL DEF Spec

(* A scan waits only while every worker is busy, and a waiting scan is     *)
(* never dropped from the queue.                                           *)
THEOREM NoScanForgotten == Spec => []NoneWaitsInVain
<1>1. PoolInv => NoneWaitsInVain
  BY DEF PoolInv, Waiting, NoneWaitsInVain, Queued, ToSet, IsInjective
<1> QED BY <1>1, PoolInit, PoolStep, PTL DEF Spec

-----------------------------------------------------------------------------
(***************************************************************************)
(* The order of the queue.  A new entry goes after those of its priority   *)
(* or above, which is where the scan for its place stops only because the  *)
(* queue is sorted already: so that the queue stays sorted, and that a     *)
(* call is newer than all that wait, have to be proved together.           *)
(***************************************************************************)

Before(a, b) ==
  \/ a.priority > b.priority
  \/ a.priority = b.priority /\ a.call < b.call

Sorted(q, e) == \A i, j \in 1..Len(q) : i < j => Before(e[q[i]], e[q[j]])

OrderInv ==
  /\ PoolInv
  /\ Sorted(queue, scan)
  /\ \A s \in Scan : scan[s].call <= calls

(* A set of positions that holds all those before any of its own is the    *)
(* first positions.                                                        *)
LEMMA FirstPositions ==
  ASSUME NEW n \in Nat, NEW S \in SUBSET (1..n),
         \A i \in S, j \in 1..n : j < i => j \in S
  PROVE  Cardinality(S) \in Nat /\ S = 1..Cardinality(S)
<1> DEFINE c == Cardinality(S)
<1>1. IsFiniteSet(1..n) /\ IsFiniteSet(S) /\ c \in Nat
  <2>1. IsFiniteSet(1..n) /\ S \subseteq 1..n
    BY FS_Interval
  <2>2. IsFiniteSet(S)
    BY <2>1, FS_Subset
  <2> QED BY <2>1, <2>2, FS_CardinalityType
<1>2. ASSUME NEW i \in S PROVE i \in 1..c
  <2>1. i \in 1..n /\ 1..i \subseteq S
    OBVIOUS
  <2>2. Cardinality(1..i) = i
    BY <2>1, FS_Interval
  <2>3. Cardinality(1..i) <= c
    BY <1>1, <2>1, FS_Subset
  <2> QED BY <1>1, <2>1, <2>2, <2>3
<1>3. IsFiniteSet(1..c) /\ Cardinality(1..c) = c
  BY <1>1, FS_Interval
<1>4. S = 1..c
  BY <1>1, <1>2, <1>3, FS_Subset
<1> QED BY <1>1, <1>4

(* In a sorted queue, the place of a new entry is after exactly those of   *)
(* its priority or above.                                                  *)
LEMMA PlaceParts ==
  ASSUME queue \in Seq(Scan), scan \in [Scan -> Entry], Sorted(queue, scan), NEW p \in Nat
  PROVE  \A i \in 1..Len(queue) : i < Place(p) <=> scan[queue[i]].priority >= p
<1> DEFINE S == {i \in DOMAIN queue : scan[queue[i]].priority >= p}
<1>1. /\ Len(queue) \in Nat /\ DOMAIN queue = 1..Len(queue) /\ S \in SUBSET (1..Len(queue))
      /\ \A i \in 1..Len(queue) : scan[queue[i]].priority \in Nat
  BY DEF Entry
<1>2. ASSUME NEW i \in S, NEW j \in 1..Len(queue), j < i PROVE j \in S
  <2>1. Before(scan[queue[j]], scan[queue[i]]) /\ i \in 1..Len(queue)
    BY <1>1, <1>2 DEF Sorted
  <2>2. scan[queue[j]].priority >= scan[queue[i]].priority
    BY <1>1, <2>1 DEF Before
  <2> QED BY <1>1, <2>1, <2>2
<1>3. Cardinality(S) \in Nat /\ S = 1..Cardinality(S)
  <2> HIDE DEF S
  <2> QED BY <1>1, <1>2, FirstPositions
<1>4. Place(p) = 1 + Cardinality(S)
  BY DEF Place
<1>5. \A i \in 1..Len(queue) : i \in S <=> scan[queue[i]].priority >= p
  BY <1>1
<1> HIDE DEF S
<1> QED BY <1>1, <1>3, <1>4, <1>5

(* A new entry, the newest of all, is inserted where the order asks.       *)
LEMMA InsertSorted ==
  ASSUME NEW q, NEW e, NEW s \in Scan, NEW r \in Entry, NEW k \in 1 .. Len(q) + 1,
         Waiting(q, e), e \in [Scan -> Entry], e[s].pc # "queued", Sorted(q, e),
         \A i \in 1..Len(q) : i < k <=> e[q[i]].priority >= r.priority,
         \A t \in Scan : e[t].call < r.call
  PROVE  Sorted(InsertAt(q, k, s), [e EXCEPT ![s] = r])
<1> DEFINE p == InsertAt(q, k, s)
           f == [e EXCEPT ![s] = r]
<1>1. Len(q) \in Nat /\ q \in Seq(Scan) /\ \A i \in 1..Len(q) : q[i] \in Scan /\ q[i] # s
  BY DEF Waiting
<1>2. /\ p \in Seq(Scan) /\ Len(p) = Len(q) + 1
      /\ \A i \in 1..Len(p) : p[i] = IF i < k THEN q[i] ELSE IF i = k THEN s ELSE q[i - 1]
  BY <1>1, Inserted
<1>3. f[s] = r /\ \A i \in 1..Len(q) : f[q[i]] = e[q[i]]
  BY <1>1
<1>4. /\ r.priority \in Nat /\ r.call \in Nat
      /\ \A i \in 1..Len(q) : e[q[i]].priority \in Nat /\ e[q[i]].call \in Nat
  BY <1>1 DEF Entry
<1> HIDE DEF p, f
<1>5. \A i \in 1..Len(q) : i < k => Before(e[q[i]], r)
  BY <1>1, <1>4 DEF Before
<1>6. \A i \in 1..Len(q) : ~ (i < k) => Before(r, e[q[i]])
  BY <1>1, <1>4 DEF Before
<1>7. ASSUME NEW i \in 1..Len(p), NEW j \in 1..Len(p), i < j
      PROVE  Before(f[p[i]], f[p[j]])
  <2>1. CASE j < k
    <3>1. i \in 1..Len(q) /\ j \in 1..Len(q) /\ p[i] = q[i] /\ p[j] = q[j]
      BY <1>1, <1>2, <1>7, <2>1
    <3> QED BY <1>3, <1>7, <3>1 DEF Sorted
  <2>2. CASE j = k
    <3>1. i \in 1..Len(q) /\ i < k /\ p[i] = q[i] /\ p[j] = s
      BY <1>1, <1>2, <1>7, <2>2
    <3> QED BY <1>3, <1>5, <3>1
  <2>3. CASE j > k
    <3>1. j - 1 \in 1..Len(q) /\ p[j] = q[j - 1] /\ ~ (j - 1 < k)
      BY <1>1, <1>2, <1>7, <2>3
    <3>2. CASE i = k
      <4>1. p[i] = s
        BY <1>2, <3>2
      <4> QED BY <1>3, <1>6, <3>1, <4>1
    <3>3. CASE i < k
      <4>1. i \in 1..Len(q) /\ p[i] = q[i] /\ i < j - 1
        BY <1>1, <1>2, <2>3, <3>3
      <4> QED BY <1>3, <3>1, <4>1 DEF Sorted
    <3>4. CASE i > k
      <4>1. i - 1 \in 1..Len(q) /\ p[i] = q[i - 1] /\ i - 1 < j - 1
        BY <1>1, <1>2, <1>7, <3>4
      <4> QED BY <1>3, <3>1, <4>1 DEF Sorted
    <3> QED BY <1>1, <1>2, <3>2, <3>3, <3>4
  <2> QED BY <1>1, <1>2, <2>1, <2>2, <2>3
<1> QED BY <1>7 DEF Sorted, p, f

(* Those that free workers take come before those that go on waiting.      *)
LEMMA TakenInOrder ==
  ASSUME NEW w, NEW q, NEW e, Conserved(w, e), Waiting(q, e), Sorted(q, e), dispatch(w, q, e)
  PROVE  /\ Sorted(queue', scan')
         /\ \A s \in Scan : scan'[s].call = e[s].call
         /\ \A s, t \in Scan :
              e[s].pc = "queued" /\ scan'[s].pc # "queued" /\ scan'[t].pc = "queued"
                => Before(e[s], e[t])
<1> DEFINE n == IF Len(w) < Len(q) THEN Len(w) ELSE Len(q)
           p == queue'
           f == scan'
<1>1. Len(w) \in Nat /\ Len(q) \in Nat /\ n \in Nat /\ n <= Len(q)
  BY DEF Conserved, Waiting
<1>2. /\ p = SubSeq(q, n + 1, Len(q))
      /\ f = [s \in Scan |-> IF \E i \in 1..n : q[i] = s
                              THEN Run(e[s], w[CHOOSE i \in 1..n : q[i] = s]) ELSE e[s]]
  BY DEF dispatch
<1>3. Waiting(p, f)
  BY Dispatching
<1> HIDE DEF n, p, f
<1>4. p \in Seq(Scan) /\ Len(p) = Len(q) - n /\ \A i \in 1..Len(p) : p[i] = q[i + n]
  BY <1>1, <1>2 DEF Waiting
<1>5. \A s \in Scan : f[s].call = e[s].call /\ f[s].priority = e[s].priority
  <2> SUFFICES ASSUME NEW s \in Scan
               PROVE f[s].call = e[s].call /\ f[s].priority = e[s].priority
    OBVIOUS
  <2>1. e[s] \in Entry /\ \A v : Run(e[s], v).call = e[s].call
                                 /\ Run(e[s], v).priority = e[s].priority
    BY DEF Conserved, Run, Entry
  <2> QED BY <1>2, <2>1
<1>6. \A i \in 1..Len(p) : i + n \in 1..Len(q) /\ p[i] \in Scan
  BY <1>1, <1>4
<1>7. Sorted(p, f)
  <2> SUFFICES ASSUME NEW i \in 1..Len(p), NEW j \in 1..Len(p), i < j
               PROVE Before(f[p[i]], f[p[j]])
    BY DEF Sorted
  <2>1. i + n < j + n
    BY <1>1, <1>4
  <2>2. Before(e[q[i + n]], e[q[j + n]])
    BY <1>6, <2>1 DEF Sorted
  <2>3. Before(e[p[i]], e[p[j]])
    BY <1>4, <2>2
  <2> QED BY <1>5, <1>6, <2>3 DEF Before
<1>8. ASSUME NEW s \in Scan, NEW t \in Scan,
             e[s].pc = "queued", f[s].pc # "queued", f[t].pc = "queued"
      PROVE  Before(e[s], e[t])
  <2>1. PICK i \in 1..Len(q) : q[i] = s
    BY <1>8 DEF Waiting
  <2>2. PICK j \in 1..Len(p) : p[j] = t
    BY <1>3, <1>8 DEF Waiting
  <2>3. i <= n
    <3> SUFFICES ASSUME i > n PROVE FALSE
      BY <1>1, <2>1
    <3>1. i - n \in 1..Len(p) /\ (i - n) + n = i
      BY <1>1, <1>4, <2>1
    <3>2. p[i - n] = s
      BY <1>4, <2>1, <3>1
    <3>3. f[s].pc = "queued"
      BY <1>3, <3>1, <3>2 DEF Waiting
    <3> QED BY <1>8, <3>3
  <2>4. j + n \in 1..Len(q) /\ q[j + n] = t /\ i < j + n
    BY <1>1, <1>4, <1>6, <2>2, <2>3
  <2> QED BY <2>1, <2>4 DEF Sorted
<1> QED BY <1>5, <1>7, <1>8 DEF p, f

(* The order before a step is that of the entries the step leaves alone.   *)
LEMMA OrderAfter ==
  ASSUME OrderInv, NEW w, NEW q, NEW e, NEW s \in Scan, NEW r \in Entry,
         e[s] = r, \A t \in Scan \ {s} : e[t] = scan[t], scan[s].pc # "queued", r.call <= calls', calls' \in Nat,
         calls <= calls', Conserved(w, e), Waiting(q, e), Sorted(q, e), dispatch(w, q, e),
         PoolInv'
  PROVE  /\ OrderInv'
         /\ \A a, b \in Queued :
              scan'[a].pc # "queued" /\ scan'[b].pc = "queued" => Precedes(a, b)
<1>1. scan \in [Scan -> Entry] /\ calls \in Nat
  BY DEF OrderInv, PoolInv, Conserved
<1>3. /\ Sorted(queue', scan')
      /\ \A t \in Scan : scan'[t].call = e[t].call
      /\ \A a, b \in Scan :
           e[a].pc = "queued" /\ scan'[a].pc # "queued" /\ scan'[b].pc = "queued"
             => Before(e[a], e[b])
  BY TakenInOrder
<1>4. \A t \in Scan : e[t].call <= calls'
  <2> SUFFICES ASSUME NEW t \in Scan \ {s} PROVE e[t].call <= calls'
    OBVIOUS
  <2>1. scan[t].call <= calls /\ scan[t].call \in Nat
    BY <1>1 DEF OrderInv, Entry
  <2> QED BY <1>1, <2>1
<1>5. OrderInv'
  BY <1>3, <1>4 DEF OrderInv
<1>6. ASSUME NEW a \in Queued, NEW b \in Queued, scan'[a].pc # "queued", scan'[b].pc = "queued"
      PROVE  Precedes(a, b)
  <2>1. a \in Scan \ {s} /\ b \in Scan \ {s} /\ scan[a].pc = "queued"
    BY DEF Queued
  <2>2. Before(scan[a], scan[b])
    BY <1>3, <1>6, <2>1
  <2> QED BY <2>2 DEF Before, Precedes
<1> QED BY <1>5, <1>6

LEMMA OrderStep ==
  ASSUME OrderInv, [Next]_vars
  PROVE  /\ OrderInv'
         /\ \A a, b \in Queued :
              scan'[a].pc # "queued" /\ scan'[b].pc = "queued" => Precedes(a, b)
<1> USE PoolAssumption
<1>0. /\ PoolInv /\ Conserved(availableWorkers, scan) /\ Waiting(queue, scan)
      /\ scan \in [Scan -> Entry] /\ calls \in Nat /\ queue \in Seq(Scan)
      /\ Sorted(queue, scan) /\ \A t \in Scan : scan[t].call <= calls
  BY DEF OrderInv, PoolInv, Conserved, Waiting
<1>i. PoolInv'
  BY <1>0, PoolStep
<1>q. ASSUME NEW s \in Scan, NEW r \in Entry, scan[s].pc # "queued"
      PROVE  Sorted(queue, [scan EXCEPT ![s] = r])
  <2>1. \A i \in 1..Len(queue) : queue[i] \in Scan /\ queue[i] # s
    BY <1>0, <1>q DEF Waiting
  <2> QED BY <1>0, <2>1 DEF Sorted
<1>1. ASSUME NEW s \in Scan, NEW p \in Priorities, enqueueAndDispatch(s, p)
      PROVE  /\ OrderInv'
             /\ \A a, b \in Queued :
                  scan'[a].pc # "queued" /\ scan'[b].pc = "queued" => Precedes(a, b)
  <2> DEFINE r == [scan[s] EXCEPT !.pc = "queued", !.priority = p, !.call = calls + 1]
             q == InsertAt(queue, Place(p), s)
             e == [scan EXCEPT ![s] = r]
  <2>0. scan[s] \in Entry /\ p \in Nat /\ calls + 1 \in Nat
    BY <1>0
  <2>1. scan[s].pc = "idle"
    BY <1>1 DEF enqueueAndDispatch
  <2>2. r \in Entry /\ r.pc = "queued" /\ r.call = calls + 1 /\ r.priority = p
    BY <2>0 DEF Entry
  <2>3. dispatch(availableWorkers, q, e) /\ calls' = calls + 1
    BY <1>1 DEF enqueueAndDispatch
  <2>4. Place(p) \in 1 .. Len(queue) + 1
    BY <1>0, PlaceInQueue
  <2>5. \A i \in 1..Len(queue) : i < Place(p) <=> scan[queue[i]].priority >= p
    BY <1>0, <2>0, PlaceParts
  <2>6. \A t \in Scan : scan[t].call < calls + 1
    <3> SUFFICES ASSUME NEW t \in Scan PROVE scan[t].call < calls + 1
      OBVIOUS
    <3>1. scan[t].call \in Nat /\ scan[t].call <= calls
      BY <1>0 DEF Entry
    <3> QED BY <1>0, <3>1
  <2> HIDE DEF r
  <2>7. Conserved(availableWorkers, e)
    BY <1>0, <2>1, <2>2, Untouched
  <2>8. Waiting(q, e)
    BY <1>0, <2>1, <2>2, <2>4, Inserting
  <2>9. Sorted(q, e)
    BY <1>0, <2>1, <2>2, <2>4, <2>5, <2>6, InsertSorted
  <2>10. r.call <= calls' /\ calls' \in Nat /\ calls <= calls' /\ scan[s].pc # "queued"
    BY <1>0, <2>1, <2>2, <2>3
  <2>11. e[s] = r /\ \A t \in Scan \ {s} : e[t] = scan[t]
    BY <1>0
  <2> HIDE DEF q, e
  <2> QED BY <1>i, <2>2, <2>3, <2>7, <2>8, <2>9, <2>10, <2>11, OrderAfter
<1>2. ASSUME NEW s \in Scan, Scanned(s)
      PROVE  /\ OrderInv'
             /\ \A a, b \in Queued :
                  scan'[a].pc # "queued" /\ scan'[b].pc = "queued" => Precedes(a, b)
  <2> DEFINE r == Settled(scan[s], "scanned")
             free == Append(availableWorkers, scan[s].worker)
             e == [scan EXCEPT ![s] = r]
  <2>1. scan[s].pc = "scanning" /\ r \in Entry /\ r.pc = "scanned" /\ r.call = scan[s].call
    BY <1>0, <1>2 DEF Scanned, Settled, Entry
  <2>2. dispatch(free, queue, e) /\ calls' = calls
    BY <1>2 DEF Scanned
  <2> HIDE DEF r
  <2>3. Conserved(free, e) /\ Waiting(queue, e)
    BY <1>0, <2>1, Ends
  <2>4. Sorted(queue, e)
    BY <1>q, <2>1
  <2>5. r.call <= calls' /\ calls' \in Nat /\ calls <= calls' /\ scan[s].pc # "queued"
    BY <1>0, <2>1, <2>2
  <2>6. e[s] = r /\ \A t \in Scan \ {s} : e[t] = scan[t]
    BY <1>0
  <2> HIDE DEF free, e
  <2> QED BY <1>i, <2>1, <2>2, <2>3, <2>4, <2>5, <2>6, OrderAfter
<1>3. ASSUME NEW s \in Scan, Failed(s)
      PROVE  /\ OrderInv'
             /\ \A a, b \in Queued :
                  scan'[a].pc # "queued" /\ scan'[b].pc = "queued" => Precedes(a, b)
  <2> DEFINE free == Append(availableWorkers, scan[s].worker)
             entry == [scan[s] EXCEPT !.failCount = @ + 1]
             out == Settled(entry, "rejected")
             again == Run(entry, Head(free))
             e == [scan EXCEPT ![s] = out]
             g == [scan EXCEPT ![s] = again]
  <2>1. scan[s].pc = "scanning" /\ scan[s].worker \in Worker /\ scan[s] \in Entry
    BY <1>0, <1>3 DEF Failed, Conserved
  <2>2. /\ entry \in Entry /\ entry.call = scan[s].call
        /\ out \in Entry /\ out.pc = "rejected" /\ out.call = scan[s].call
    <3>1. entry \in Entry /\ entry.call = scan[s].call
      BY <2>1 DEF Entry
    <3> QED BY <3>1 DEF Settled, Entry
  <2>3. Conserved(free, e) /\ Waiting(queue, e)
    BY <1>0, <2>1, <2>2, Ends
  <2>4. calls' = calls
    BY <1>3 DEF Failed
  <2>5. scan[s].call <= calls' /\ calls' \in Nat /\ calls <= calls' /\ scan[s].pc # "queued"
    BY <1>0, <2>1, <2>4
  <2>6. CASE dispatch(free, queue, e)
    <3> HIDE DEF free, out
    <3>1. Sorted(queue, e)
      BY <1>q, <2>1, <2>2
    <3>2. e[s] = out /\ \A t \in Scan \ {s} : e[t] = scan[t]
      BY <1>0
    <3>3. out.call <= calls'
      BY <2>2, <2>5
    <3> HIDE DEF e
    <3> QED BY <1>i, <2>2, <2>3, <2>5, <2>6, <3>1, <3>2, <3>3, OrderAfter
  <2>7. CASE dispatch(Tail(free), queue, g)
    <3>1. free # <<>> /\ Head(free) \in Worker
      <4>1. free \in Seq(Worker) /\ Len(free) > 0
        BY <1>0, <2>1 DEF Conserved
      <4> QED BY <4>1
    <3>2. again \in Entry /\ again.pc = "scanning" /\ again.worker = Head(free)
          /\ again.call = scan[s].call
      BY <2>2, <3>1 DEF Run, Entry
    <3>3. e \in [Scan -> Entry] /\ e[s] = out /\ [e EXCEPT ![s] = again] = g
      BY <1>0, <2>2
    <3> HIDE DEF free, again, out, e
    <3>4. Conserved(Tail(free), g) /\ Waiting(queue, g)
      <4>1. Conserved(Tail(free), [e EXCEPT ![s] = again])
        BY <2>2, <2>3, <3>1, <3>2, <3>3, Take
      <4>2. Waiting(queue, [e EXCEPT ![s] = again])
        BY <2>2, <2>3, <3>2, <3>3, NotWaiting
      <4> QED BY <3>3, <4>1, <4>2
    <3>5. Sorted(queue, g)
      BY <1>q, <2>1, <3>2
    <3>6. again.call <= calls'
      BY <2>5, <3>2
    <3>7. g[s] = again /\ \A t \in Scan \ {s} : g[t] = scan[t]
      BY <1>0
    <3> HIDE DEF g
    <3> QED BY <1>i, <2>5, <2>7, <3>2, <3>4, <3>5, <3>6, <3>7, OrderAfter
  <2> QED BY <1>3, <2>6, <2>7 DEF Failed
<1>4. ASSUME UNCHANGED vars
      PROVE  /\ OrderInv'
             /\ \A a, b \in Queued :
                  scan'[a].pc # "queued" /\ scan'[b].pc = "queued" => Precedes(a, b)
  <2>1. OrderInv'
    BY <1>0, <1>i, <1>4 DEF vars, OrderInv, Sorted
  <2>2. \A a \in Queued : scan'[a].pc = "queued"
    BY <1>4 DEF vars, Queued
  <2> QED BY <2>1, <2>2
<1> QED BY <1>1, <1>2, <1>3, <1>4 DEF Next

(* Of two waiting scans the one a worker takes first has the higher        *)
(* priority, or the same and was called first: the results of critical     *)
(* beads overtake, and nothing else does.                                  *)
THEOREM OrderKept == Spec => LeaveInOrder
<1>1. Init => OrderInv
  <2> SUFFICES ASSUME Init PROVE OrderInv
    OBVIOUS
  <2>1. PoolInv
    BY PoolInit
  <2>2. queue = <<>> /\ calls = 0 /\ \A s \in Scan : scan[s].call = 0
    BY DEF Init
  <2>3. Len(queue) = 0 /\ \A i \in 1..Len(queue) : FALSE
    BY <2>2
  <2>4. Sorted(queue, scan)
    BY <2>3 DEF Sorted
  <2> QED BY <2>1, <2>2, <2>4 DEF OrderInv
<1>2. OrderInv /\ [Next]_vars
        => OrderInv' /\ [\A s, t \in Queued :
                          scan'[s].pc # "queued" /\ scan'[t].pc = "queued" => Precedes(s, t)]_vars
  BY OrderStep
<1> QED BY <1>1, <1>2, PTL DEF Spec, LeaveInOrder
=============================================================================
