---------------------------- MODULE IngestProofs ----------------------------
(***************************************************************************)
(* What holds of the change data capture for any log, tables, capacity of  *)
(* the channel, lead of nextLSN and number of stops.                       *)
(*                                                                         *)
(* None of the properties is inductive.  What the topic gets next is in    *)
(* the write in progress and in the channel: the pipe.  The invariant says *)
(* that the pipe is in the order of the log and after what was written,    *)
(* and that each row Run has emitted is in it, in the topic or failed.     *)
(* The loss of Postgres adds how far the slot's position may be ahead of   *)
(* Run, a row less while Run still has to emit one, because then it does   *)
(* not answer the server.                                                  *)
(*                                                                         *)
(* The predicates below take the states' parts as arguments, so that the   *)
(* lemmas about them speak of no variable: n is how many events each entry *)
(* of the log gives.                                                       *)
(***************************************************************************)
EXTENDS Ingest, FiniteSetTheorems, WellFoundedInduction, SequenceTheorems, TLAPS

\* How many events each entry of the log gives.
Counts == [i \in DOMAIN Log |-> Mapped(Log[i])]

\* The events of the entries after a and up to b.
RowsOf(n, a, b) == {x \in Int \X Int : x[1] \in a + 1 .. b /\ x[2] \in 1 .. n[x[1]]}

\* Run has sent x on the channel.
Emitted(n, r, l, x) == x[1] < r \/ (x[1] = r /\ x[2] <= n[r] - l)

\* What is in the pipe p comes after the last event written, in the order of
\* the log, and Run has emitted it.
PipeOrdered(n, a, r, l, p, x) ==
    /\ \A i \in DOMAIN p : p[i] # Heartbeat =>
          p[i] \in RowsOf(n, a, r) /\ Emitted(n, r, l, p[i]) /\ Before(x, p[i])
    /\ \A i, j \in DOMAIN p : i < j /\ p[i] # Heartbeat /\ p[j] # Heartbeat => Before(p[i], p[j])
    /\ x = None \/ (x \in RowsOf(n, a, r) /\ Emitted(n, r, l, x))

\* Each event that Run has emitted is in the pipe, or its write failed, or it
\* is in the topic and not after the last one.
PipeComplete(n, a, r, l, p, x, pub, fail) ==
    \A y \in RowsOf(n, a, r) : Emitted(n, r, l, y) =>
        \/ y \in fail
        \/ y \in pub /\ ~Before(x, y)
        \/ \E i \in DOMAIN p : p[i] = y

Pipe == writing \o out

Phases ==
    /\ first = NoSlot => ~up
    /\ kind = "postgres" => (first = NoSlot <=> confirmed = NoSlot)
    /\ ~up => out = <<>> /\ writing = <<>> /\ left = 0
    /\ read = from \/ read <= written

Ordered == up =>
    /\ PipeOrdered(Counts, from, read, left, Pipe, last)
    /\ PipeComplete(Counts, from, read, left, Pipe, last, published, failed)

\* What a Run that begins at b has lost of the rows since the first.
LostBefore(n, f, b, pub, fail) == RowsOf(n, f, b) \ (pub \cup fail)

PerStop == Capacity + (IF Lead > 1 THEN Lead ELSE 1)

SlotBehind == kind = "postgres" /\ up =>
    /\ nextLSN <= read + Lead
    /\ Begin <= from \/ confirmed <= read + Lead - (IF left > 0 THEN 1 ELSE 0)

LossInv == kind = "postgres" /\ first # NoSlot =>
    Cardinality(LostBefore(Counts, first, IF up THEN from ELSE Begin, published, failed))
        <= stops * PerStop

\* TypeOK in terms of the rows.
Typed ==
    /\ kind \in Kinds
    /\ written \in Commits /\ first \in NoSlot..written /\ confirmed \in NoSlot..Len(Log)
    /\ up \in BOOLEAN /\ stream \in BOOLEAN /\ (stream => up)
    /\ from \in 0..Len(Log) /\ read \in from..Len(Log) /\ nextLSN \in 0..Len(Log)
    /\ left \in 0 .. (IF read > from THEN Counts[read] ELSE 0)
    /\ out \in Seq(RowsOf(Counts, 0, written) \cup {Heartbeat}) /\ Len(out) <= Capacity
    /\ writing \in {<<>>} \cup {<<m>> : m \in RowsOf(Counts, 0, written) \cup {Heartbeat}}
    /\ published \subseteq RowsOf(Counts, 0, written) /\ failed \subseteq RowsOf(Counts, 0, written)
    /\ last \in {None} \cup published
    /\ stops \in 0..MaxStops

IInv == Typed /\ Phases /\ Ordered /\ SlotBehind /\ LossInv
-----------------------------------------------------------------------------
\* A set of numbers that is bounded has a last one.  The elements are counted
\* from the bound by the sets of the numbers after them.
LEMMA LastIs ==
    ASSUME NEW S, S # {}, NEW b \in Int, \A i \in S : i \in Int /\ 0 <= i /\ i <= b
    PROVE  Last(S) \in S /\ \A j \in S : j <= Last(S)
  <1> DEFINE after(i) == i .. b
             U == 0 .. b
             R == StrictSubsetOrdering(U)
             T == {after(i) : i \in S}
  <1>1. IsFiniteSet(U)
    <2>1. 0 \in Int
      OBVIOUS
    <2>. QED
      BY <2>1, FS_Interval
  <1>2. IsWellFoundedOn(R, SUBSET U)
    <2>. HIDE DEF U
    <2>. QED
      BY <1>1, FS_FiniteSubsetsOfFinite, FS_StrictSubsetOrderingWellFounded
  <1>3. T \subseteq SUBSET U /\ T # {}
    OBVIOUS
  <1>4. \E x \in T : \A y \in T : <<y, x>> \notin R
    <2>. HIDE DEF T, R, U
    <2>. QED
      BY <1>2, <1>3, WFMin
  <1>5. PICK i \in S : \A j \in S : <<after(j), after(i)>> \notin R
    BY <1>4
  <1>6. ASSUME NEW j \in S
        PROVE  j <= i
    <2>. SUFFICES ASSUME j > i PROVE FALSE
      OBVIOUS
    <2>1. after(j) \subseteq after(i) /\ i \in after(i) /\ i \notin after(j)
      OBVIOUS
    <2>2. after(j) \in SUBSET U /\ after(i) \in SUBSET U
      OBVIOUS
    <2>3. <<after(j), after(i)>> \in R
      <3>. HIDE DEF after, U
      <3>. QED
        BY <2>1, <2>2 DEF StrictSubsetOrdering
    <2>. QED
      BY <2>3, <1>5
  <1>. QED
    BY <1>6 DEF Last

\* The larger of two numbers.
LEMMA LastOfTwo ==
    ASSUME NEW a \in Int, NEW b \in Int
    PROVE  Last({a, b}) = IF a >= b THEN a ELSE b
  <1>1. PICK c \in {a, b} : c = IF a >= b THEN a ELSE b
    OBVIOUS
  <1>2. \A j \in {a, b} : j <= c
    BY <1>1
  <1>3. \A i \in {a, b} : (\A j \in {a, b} : j <= i) => i = c
    BY <1>1
  <1>4. Last({a, b}) = c
    BY <1>2, <1>3 DEF Last
  <1>. QED
    BY <1>1, <1>4

\* Each entry gives some events, of Postgres one or none, and none if it ends a
\* transaction.
LEMMA CountsType ==
    ASSUME kind \in Kinds
    PROVE  /\ Len(Log) \in Nat /\ DOMAIN Log = 1 .. Len(Log)
           /\ Counts \in [1 .. Len(Log) -> Nat]
           /\ kind = "postgres" => \A i \in 1 .. Len(Log) : Counts[i] <= 1
           /\ \A i \in Commits : i \in 0 .. Len(Log) /\ (i # 0 => Counts[i] = 0)
           /\ 0 \in Commits
  <1>1. Log \in Seq(Entry)
    BY IngestAssumption DEF Log
  <1>2. Len(Log) \in Nat /\ DOMAIN Log = 1 .. Len(Log)
    BY <1>1
  <1>3. ASSUME NEW i \in 1 .. Len(Log)
        PROVE  /\ Mapped(Log[i]) \in Nat
               /\ kind = "postgres" => Mapped(Log[i]) <= 1
               /\ Log[i].op = "commit" => Mapped(Log[i]) = 0
    <2>1. PICK e \in Entry : e = Log[i]
      BY <1>1
    <2>2. e.images \in Nat
      BY DEF Entry
    <2>3. kind = "postgres" => e.images <= 1
      BY <1>2, <2>1, IngestAssumption DEF Log
    <2>4. e.images \div 2 \in Nat
      BY <2>2
    <2>. QED
      BY <2>1, <2>2, <2>3, <2>4 DEF Mapped
  <1>4. Counts \in [1 .. Len(Log) -> Nat] /\ \A i \in 1 .. Len(Log) : Counts[i] = Mapped(Log[i])
    BY <1>2, <1>3 DEF Counts
  <1>5. ASSUME NEW i \in Commits
        PROVE  i \in 0 .. Len(Log) /\ (i # 0 => Counts[i] = 0)
    BY <1>2, <1>3, <1>4 DEF Commits
  <1>. QED
    BY <1>2, <1>3, <1>4, <1>5 DEF Commits

\* The events due are the rows.
LEMMA DueIsRows ==
    ASSUME kind \in Kinds, NEW a \in Nat, NEW b \in Int, b <= Len(Log)
    PROVE  Due(a, b) = RowsOf(Counts, a, b)
  <1>1. \A i \in (a + 1) .. b : i \in 1 .. Len(Log) /\ Counts[i] = Mapped(Log[i])
    BY CountsType DEF Counts
  <1>2. ASSUME NEW x
        PROVE  x \in Due(a, b) <=> \E i \in (a + 1) .. b : x \in {i} \X (1 .. Counts[i])
    BY <1>1 DEF Due
  <1>3. ASSUME NEW x
        PROVE  x \in RowsOf(Counts, a, b) <=> \E i \in (a + 1) .. b : x \in {i} \X (1 .. Counts[i])
    BY DEF RowsOf
  <1>. QED
    BY <1>2, <1>3
-----------------------------------------------------------------------------
\* A row is a pair of numbers and no heartbeat.
LEMMA RowsArePairs ==
    ASSUME NEW n, NEW a \in Nat, NEW b \in Int, NEW x \in RowsOf(n, a, b)
    PROVE  /\ x \in Nat \X Nat /\ x # Heartbeat
           /\ x[1] \in Int /\ x[2] \in Int
           /\ a < x[1] /\ x[1] <= b /\ 1 <= x[2] /\ x[2] <= n[x[1]]
  <1>1. /\ x \in Int \X Int /\ x[1] \in a + 1 .. b /\ x[2] \in 1 .. n[x[1]]
        /\ x[1] \in Int /\ x[2] \in Int
    BY DEF RowsOf
  <1>2. x = <<x[1], x[2]>> /\ x[1] \in Nat /\ x[2] \in Nat
    BY <1>1
  <1>3. x \in Nat \X Nat
    BY <1>2
  <1>. QED
    BY <1>1, <1>3, IngestAssumption

\* A pair of an entry after a and up to b and of an event of it is a row.
LEMMA PairIsRow ==
    ASSUME NEW n, NEW a \in Int, NEW b \in Int, NEW i \in Int, a < i, i <= b,
           NEW j \in Int, 1 <= j, j <= n[i]
    PROVE  <<i, j>> \in RowsOf(n, a, b)
  BY DEF RowsOf

\* The order of the rows is strict and total.
LEMMA RowOrder ==
    ASSUME NEW x \in Int \X Int, NEW y \in Int \X Int, NEW z \in Int \X Int
    PROVE  /\ ~Before(x, x)
           /\ Before(x, y) /\ Before(y, z) => Before(x, z)
           /\ Before(x, y) => ~Before(y, x)
           /\ ~Before(x, y) /\ Before(x, z) => Before(y, z)
           /\ x = y \/ Before(x, y) \/ Before(y, x)
  BY DEF Before

\* When Run has sent every event of an entry it goes on to the next, of which
\* it has sent none.
LEMMA PipeReceives ==
    ASSUME NEW top \in Nat, NEW n \in [1 .. top -> Nat], NEW a \in Nat, NEW r \in a .. top,
           r < top, NEW p, NEW x, NEW pub, NEW fail,
           PipeOrdered(n, a, r, 0, p, x), PipeComplete(n, a, r, 0, p, x, pub, fail)
    PROVE  /\ PipeOrdered(n, a, r + 1, n[r + 1], p, x)
           /\ PipeComplete(n, a, r + 1, n[r + 1], p, x, pub, fail)
  <1>1. ASSUME NEW y \in RowsOf(n, a, r)
        PROVE  y \in RowsOf(n, a, r + 1) /\ Emitted(n, r + 1, n[r + 1], y) /\ Emitted(n, r, 0, y)
    <2>1. y[1] \in Int /\ y[2] \in Int /\ y[1] <= r /\ y[2] <= n[y[1]] /\ y \in Int \X Int
      BY RowsArePairs DEF RowsOf
    <2>2. y \in RowsOf(n, a, r + 1)
      BY DEF RowsOf
    <2>3. y[1] = r => n[r] - 0 = n[y[1]]
      BY <2>1, RowsArePairs
    <2>. QED
      BY <2>1, <2>2, <2>3 DEF Emitted
  <1>2. ASSUME NEW y \in RowsOf(n, a, r + 1), Emitted(n, r + 1, n[r + 1], y)
        PROVE  y \in RowsOf(n, a, r)
    <2>1. y \in Int \X Int /\ y[1] \in a + 1 .. r + 1 /\ y[2] \in 1 .. n[y[1]]
      BY DEF RowsOf
    <2>2. y[1] # r + 1
      <3>1. r + 1 \in 1 .. top
        OBVIOUS
      <3>2. n[r + 1] \in Nat
        BY <3>1
      <3>3. y[1] = r + 1 => y[2] \in Int /\ 1 <= y[2] /\ y[2] <= n[r + 1] - n[r + 1]
        BY <2>1, <1>2 DEF Emitted
      <3>. QED
        BY <3>2, <3>3
    <2>3. a \in Int /\ r \in Int
      OBVIOUS
    <2>4. \A j \in a + 1 .. r + 1 : j # r + 1 => j \in a + 1 .. r
      BY ONLY <2>3
    <2>5. y[1] \in a + 1 .. r
      BY <2>1, <2>2, <2>4, ZenonT(60)
    <2>. QED
      BY <2>1, <2>5 DEF RowsOf
  <1>. QED
    BY <1>1, <1>2 DEF PipeOrdered, PipeComplete

\* A sequence with one more element.
LEMMA AppendIs ==
    ASSUME NEW V, NEW p \in Seq(V), NEW e
    PROVE  \E k \in Nat : /\ DOMAIN p = 1 .. k
                          /\ DOMAIN Append(p, e) = 1 .. k + 1
                          /\ \A i \in 1 .. k : Append(p, e)[i] = p[i]
                          /\ Append(p, e)[k + 1] = e
  <1>1. PICK S : S = V \cup {e}
    OBVIOUS
  <1>2. p \in Seq(S) /\ e \in S
    BY <1>1
  <1>3. PICK q \in Seq(S) : q = Append(p, e)
    BY <1>2, AppendProperties
  <1>4. /\ Len(q) = Len(p) + 1 /\ \A i \in 1 .. Len(p) : q[i] = p[i]
        /\ q[Len(p) + 1] = e
    BY <1>2, <1>3, AppendProperties
  <1>5. Len(p) \in Nat /\ DOMAIN p = 1 .. Len(p) /\ DOMAIN q = 1 .. Len(q)
    OBVIOUS
  <1>. QED
    BY <1>3, <1>4, <1>5

\* Run sends the next event of its entry, which is after all that it has sent.
LEMMA PipeEmits ==
    ASSUME NEW top \in Nat, NEW n \in [1 .. top -> Nat], NEW a \in Nat, NEW r \in a + 1 .. top,
           NEW l \in 1 .. n[r], NEW V, NEW p \in Seq(V), NEW x, NEW pub, NEW fail,
           PipeOrdered(n, a, r, l, p, x), PipeComplete(n, a, r, l, p, x, pub, fail),
           NEW e, e = <<r, n[r] - l + 1>>
    PROVE  /\ e \in RowsOf(n, a, r) /\ e # Heartbeat
           /\ PipeOrdered(n, a, r, l - 1, Append(p, e), x)
           /\ PipeComplete(n, a, r, l - 1, Append(p, e), x, pub, fail)
  <1>1. e \in RowsOf(n, a, r) /\ e[1] = r /\ e[2] = n[r] - l + 1
    <2>1. n[r] \in Nat /\ l \in Int /\ 1 <= l /\ l <= n[r] /\ r \in Int /\ a < r
      OBVIOUS
    <2>2. PICK j \in Int : j = n[r] - l + 1 /\ 1 <= j /\ j <= n[r]
      BY <2>1
    <2>3. <<r, j>> \in RowsOf(n, a, r)
      BY <2>1, <2>2, PairIsRow
    <2>. QED
      BY <2>2, <2>3
  <1>2. ASSUME NEW y \in RowsOf(n, a, r)
        PROVE  /\ Emitted(n, r, l - 1, y) <=> Emitted(n, r, l, y) \/ y = e
               /\ Emitted(n, r, l, y) => Before(y, e)
    <2>1. y = <<y[1], y[2]>> /\ y[1] \in Int /\ y[2] \in Int /\ y[1] <= r /\ n[r] \in Nat
      BY RowsArePairs
    <2>. QED
      BY <1>1, <2>1 DEF Emitted, Before
  <1>3. PICK q : q = Append(p, e)
    OBVIOUS
  <1>4. PICK k \in Nat : /\ DOMAIN p = 1 .. k /\ DOMAIN q = 1 .. k + 1
                         /\ \A i \in 1 .. k : q[i] = p[i]
                         /\ q[k + 1] = e
    BY ONLY <1>3, p \in Seq(V), AppendIs
  <1>5. /\ DOMAIN q = 1 .. k + 1
        /\ \A i \in DOMAIN q : (i \in DOMAIN p /\ q[i] = p[i]) \/ (i = k + 1 /\ q[i] = e)
        /\ \A i \in DOMAIN p : i \in DOMAIN q /\ q[i] = p[i] /\ i < k + 1
        /\ q[k + 1] = e /\ k + 1 \in DOMAIN q
    <2>1. /\ \A i \in 1 .. k + 1 : i \in 1 .. k \/ i = k + 1
          /\ \A i \in 1 .. k : i \in 1 .. k + 1 /\ i < k + 1
          /\ k + 1 \in 1 .. k + 1
      OBVIOUS
    <2>. QED
      BY ONLY <2>1, <1>4
  <1>6. e # Heartbeat /\ Emitted(n, r, l - 1, e)
    <2>1. Emitted(n, r, l - 1, e)
      BY <1>1, <1>2
    <2>2. \A y \in RowsOf(n, a, r) : y # Heartbeat
      BY RowsArePairs
    <2>. QED
      BY <2>1, <2>2, <1>1
  <1>7. Before(x, e)
    <2>1. CASE x = None
      <3>1. x[1] = 0 /\ r > 0
        BY <2>1 DEF None
      <3>. QED
        BY <1>1, <3>1 DEF Before
    <2>2. CASE x \in RowsOf(n, a, r) /\ Emitted(n, r, l, x)
      BY <2>2, <1>2
    <2>. QED
      BY <2>1, <2>2 DEF PipeOrdered
  <1>8. PipeOrdered(n, a, r, l - 1, q, x)
    <2>1. ASSUME NEW i \in DOMAIN q, q[i] # Heartbeat
          PROVE  q[i] \in RowsOf(n, a, r) /\ Emitted(n, r, l - 1, q[i]) /\ Before(x, q[i])
      BY <2>1, <1>1, <1>2, <1>5, <1>6, <1>7 DEF PipeOrdered
    <2>2. ASSUME NEW i \in DOMAIN q, NEW j \in DOMAIN q, i < j, q[i] # Heartbeat, q[j] # Heartbeat
          PROVE  Before(q[i], q[j])
      <3>1. i \in DOMAIN p /\ q[i] = p[i]
        BY <2>2, <1>4, <1>5
      <3>2. CASE j \in DOMAIN p
        BY <2>2, <3>1, <3>2, <1>5 DEF PipeOrdered
      <3>3. CASE j = k + 1
        <4>1. q[i] \in RowsOf(n, a, r) /\ Emitted(n, r, l, q[i]) /\ q[j] = e
          BY <2>2, <3>1, <3>3, <1>5 DEF PipeOrdered
        <4>. QED
          BY <4>1, <1>2
      <3>. QED
        BY <3>2, <3>3, <1>5
    <2>3. x = None \/ (x \in RowsOf(n, a, r) /\ Emitted(n, r, l - 1, x))
      BY <1>2 DEF PipeOrdered
    <2>. QED
      BY <2>1, <2>2, <2>3 DEF PipeOrdered
  <1>9. PipeComplete(n, a, r, l - 1, q, x, pub, fail)
    <2>. SUFFICES ASSUME NEW y \in RowsOf(n, a, r), Emitted(n, r, l - 1, y)
                  PROVE  \/ y \in fail
                         \/ y \in pub /\ ~Before(x, y)
                         \/ \E i \in DOMAIN q : q[i] = y
      BY DEF PipeComplete
    <2>1. CASE y = e
      BY <2>1, <1>5
    <2>2. CASE Emitted(n, r, l, y)
      BY <2>2, <1>5 DEF PipeComplete
    <2>. QED
      BY <2>1, <2>2, <1>2
  <1>. QED
    BY <1>1, <1>3, <1>6, <1>8, <1>9

\* A heartbeat in the pipe is not one of its events.
LEMMA PipeBeats ==
    ASSUME NEW n, NEW a \in Nat, NEW r, NEW l, NEW V, NEW p \in Seq(V), NEW x, NEW pub, NEW fail,
           PipeOrdered(n, a, r, l, p, x), PipeComplete(n, a, r, l, p, x, pub, fail)
    PROVE  /\ PipeOrdered(n, a, r, l, Append(p, Heartbeat), x)
           /\ PipeComplete(n, a, r, l, Append(p, Heartbeat), x, pub, fail)
  <1>1. PICK q : q = Append(p, Heartbeat)
    OBVIOUS
  <1>2. PICK k \in Nat : /\ DOMAIN p = 1 .. k /\ DOMAIN q = 1 .. k + 1
                         /\ \A i \in 1 .. k : q[i] = p[i]
                         /\ q[k + 1] = Heartbeat
    BY <1>1, AppendIs
  <1>3. /\ \A i \in DOMAIN q : q[i] # Heartbeat => i \in DOMAIN p /\ q[i] = p[i]
        /\ \A i \in DOMAIN p : i \in DOMAIN q /\ q[i] = p[i]
    <2>1. \A i \in 1 .. k + 1 : i \in 1 .. k \/ i = k + 1
      OBVIOUS
    <2>. QED
      BY <2>1, <1>2
  <1>4. PipeOrdered(n, a, r, l, q, x)
    BY <1>3 DEF PipeOrdered
  <1>5. PipeComplete(n, a, r, l, q, x, pub, fail)
    BY <1>3 DEF PipeComplete
  <1>. QED
    BY <1>1, <1>4, <1>5

\* y is the first of p, and q is the rest.
IsFirst(y, p, q) == \E k \in Nat : /\ DOMAIN p = 1 .. k + 1 /\ DOMAIN q = 1 .. k
                                  /\ p[1] = y /\ \A i \in 1 .. k : q[i] = p[i + 1]

\* The topic, what failed and the last event written, before and after y.
IsDealtWith(y, x, pub, fail, x2, pub2, fail2) ==
    /\ pub \subseteq pub2 /\ fail \subseteq fail2
    /\ \/ x2 = x /\ (y = Heartbeat \/ y \in fail2)
       \/ x2 = y /\ y # Heartbeat /\ y \in pub2

\* main takes the first event of the pipe: a heartbeat, one that it writes, or
\* one whose write fails.
LEMMA PipeAdvances ==
    ASSUME NEW n, NEW a \in Nat, NEW r \in Int, NEW l, NEW x, NEW pub, NEW fail,
           NEW p, NEW q, NEW y, IsFirst(y, p, q),
           PipeOrdered(n, a, r, l, p, x), PipeComplete(n, a, r, l, p, x, pub, fail),
           NEW x2, NEW pub2, NEW fail2, IsDealtWith(y, x, pub, fail, x2, pub2, fail2)
    PROVE  /\ PipeOrdered(n, a, r, l, q, x2)
           /\ PipeComplete(n, a, r, l, q, x2, pub2, fail2)
  <1>k. PICK k \in Nat : /\ DOMAIN p = 1 .. k + 1 /\ DOMAIN q = 1 .. k
                         /\ p[1] = y /\ \A i \in 1 .. k : q[i] = p[i + 1]
    BY DEF IsFirst
  <1>d. /\ pub \subseteq pub2 /\ fail \subseteq fail2
        /\ \/ x2 = x /\ (y = Heartbeat \/ y \in fail2)
           \/ x2 = y /\ y # Heartbeat /\ y \in pub2
    BY DEF IsDealtWith
  <1>1. /\ 1 \in DOMAIN p
        /\ \A i \in DOMAIN q : i \in Int /\ i + 1 \in DOMAIN p /\ 1 < i + 1 /\ q[i] = p[i + 1]
        /\ \A i \in DOMAIN p : i # 1 => \E j \in DOMAIN q : q[j] = p[i]
    <2>1. \A i \in 1 .. k + 1 : i # 1 => i - 1 \in 1 .. k /\ (i - 1) + 1 = i
      OBVIOUS
    <2>2. ASSUME NEW i \in DOMAIN p, i # 1
          PROVE  \E j \in DOMAIN q : q[j] = p[i]
      <3>1. i - 1 \in DOMAIN q /\ q[i - 1] = p[(i - 1) + 1] /\ (i - 1) + 1 = i
        BY <2>1, <2>2, <1>k
      <3>. QED
        BY <3>1
    <2>. QED
      BY <2>2, <1>k
  <1>2. \A z \in RowsOf(n, a, r) : z \in Int \X Int
    BY DEF RowsOf
  <1>3. y # Heartbeat => y \in RowsOf(n, a, r) /\ Emitted(n, r, l, y) /\ Before(x, y)
    BY <1>1, <1>k DEF PipeOrdered
  <1>4. x \in Int \X Int
    BY <1>2 DEF PipeOrdered, None
  <1>5. PipeOrdered(n, a, r, l, q, x2)
    <2>1. ASSUME NEW i \in DOMAIN q, q[i] # Heartbeat
          PROVE  q[i] \in RowsOf(n, a, r) /\ Emitted(n, r, l, q[i]) /\ Before(x2, q[i])
      <3>1. q[i] \in RowsOf(n, a, r) /\ Emitted(n, r, l, q[i]) /\ Before(x, q[i])
        BY <2>1, <1>1 DEF PipeOrdered
      <3>2. y # Heartbeat => Before(y, q[i])
        BY <2>1, <1>1, <1>k DEF PipeOrdered
      <3>. QED
        BY <3>1, <3>2, <1>d
    <2>2. ASSUME NEW i \in DOMAIN q, NEW j \in DOMAIN q, i < j, q[i] # Heartbeat, q[j] # Heartbeat
          PROVE  Before(q[i], q[j])
      <3>1. i + 1 < j + 1 /\ i + 1 \in DOMAIN p /\ j + 1 \in DOMAIN p /\ q[i] = p[i + 1] /\ q[j] = p[j + 1]
        BY <2>2, <1>1
      <3>. QED
        BY <3>1, <2>2 DEF PipeOrdered
    <2>3. x2 = None \/ (x2 \in RowsOf(n, a, r) /\ Emitted(n, r, l, x2))
      BY <1>3, <1>d DEF PipeOrdered
    <2>. QED
      BY <2>1, <2>2, <2>3 DEF PipeOrdered
  <1>6. PipeComplete(n, a, r, l, q, x2, pub2, fail2)
    <2>. SUFFICES ASSUME NEW z \in RowsOf(n, a, r), Emitted(n, r, l, z)
                  PROVE  \/ z \in fail2
                         \/ z \in pub2 /\ ~Before(x2, z)
                         \/ \E i \in DOMAIN q : q[i] = z
      BY DEF PipeComplete
    <2>1. CASE z \in pub /\ ~Before(x, z)
      <3>1. CASE x2 = x
        BY <2>1, <3>1, <1>d
      <3>2. CASE x2 = y /\ y # Heartbeat
        BY <2>1, <3>2, <1>d, <1>2, <1>3, <1>4, RowOrder
      <3>. QED
        BY <3>1, <3>2, <1>d
    <2>2. CASE \E i \in DOMAIN p : p[i] = z
      <3>1. CASE z = y
        <4>1. y # Heartbeat /\ ~Before(y, y)
          <5>1. \A v \in RowsOf(n, a, r) : v # Heartbeat
            BY RowsArePairs
          <5>. QED
            BY <5>1, <3>1, <1>2, RowOrder
        <4>. QED
          BY <3>1, <4>1, <1>d
      <3>2. CASE z # y
        BY <2>2, <3>2, <1>1, <1>k
      <3>. QED
        BY <3>1, <3>2
    <2>3. CASE z \in fail
      BY <2>3, <1>d
    <2>. QED
      BY <2>1, <2>2, <2>3 DEF PipeComplete
  <1>. QED
    BY <1>5, <1>6

\* A sequence of one.
LEMMA OneIs ==
    ASSUME NEW V, NEW m \in V
    PROVE  <<m>> \in Seq(V) /\ Len(<<m>>) = 1 /\ <<m>>[1] = m
  OBVIOUS

\* The pipe is the write in progress and then the channel.
LEMMA PipeParts ==
    ASSUME NEW V, NEW w \in {<<>>} \cup {<<m>> : m \in V}, NEW o \in Seq(V)
    PROVE  /\ w \o o \in Seq(V)
           /\ w = <<>> => w \o o = o
           /\ w # <<>> => /\ w[1] \in V /\ w = <<w[1]>>
                          /\ DOMAIN (w \o o) = 1 .. Len(o) + 1
                          /\ (w \o o)[1] = w[1]
                          /\ \A i \in 1 .. Len(o) : o[i] = (w \o o)[i + 1]
           /\ w \in Seq(V) /\ Len(w) <= 1 /\ Len(w \o o) <= Len(o) + 1
  <1>1. w \in Seq(V) /\ Len(w) \in {0, 1} /\ (w = <<>> <=> Len(w) = 0)
        /\ (w # <<>> => w[1] \in V /\ w = <<w[1]>>)
    <2>1. CASE w = <<>>
      BY <2>1, EmptySeq
    <2>2. CASE w # <<>>
      <3>1. PICK m \in V : w = <<m>>
        BY <2>2
      <3>. QED
        BY <2>2, <3>1, OneIs
    <2>. QED
      BY <2>1, <2>2
  <1>2. PICK p \in Seq(V) : p = w \o o
    BY <1>1, ConcatProperties
  <1>3. /\ Len(p) = Len(w) + Len(o)
        /\ \A i \in 1 .. Len(w) + Len(o) : p[i] = IF i <= Len(w) THEN w[i] ELSE o[i - Len(w)]
    BY <1>1, <1>2, ConcatProperties
  <1>4. Len(o) \in Nat /\ DOMAIN p = 1 .. Len(p)
    OBVIOUS
  <1>5. w = <<>> => p = o
    BY <1>2, ConcatEmptySeq
  <1>6. w # <<>> => /\ DOMAIN p = 1 .. Len(o) + 1 /\ p[1] = w[1]
                    /\ \A i \in 1 .. Len(o) : o[i] = p[i + 1]
    <2>. SUFFICES ASSUME Len(w) = 1
                  PROVE  /\ DOMAIN p = 1 .. Len(o) + 1 /\ p[1] = w[1]
                         /\ \A i \in 1 .. Len(o) : o[i] = p[i + 1]
      BY <1>1
    <2>1. DOMAIN p = 1 .. Len(o) + 1 /\ p[1] = w[1]
      BY <1>3, <1>4
    <2>2. ASSUME NEW i \in 1 .. Len(o)
          PROVE  o[i] = p[i + 1]
      <3>1. i + 1 \in 1 .. 1 + Len(o) /\ ~(i + 1 <= 1) /\ (i + 1) - 1 = i
        BY <1>4
      <3>2. p[i + 1] = o[(i + 1) - 1]
        BY <3>1, <1>3
      <3>. QED
        BY <3>1, <3>2
    <2>. QED
      BY <2>1, <2>2
  <1>. QED
    BY <1>1, <1>2, <1>3, <1>4, <1>5, <1>6

\* What is sent on the channel is the last of the pipe, and taking an event from
\* the channel leaves the pipe as it is.
LEMMA PipeMoves ==
    ASSUME NEW V, NEW w \in {<<>>} \cup {<<m>> : m \in V}, NEW o \in Seq(V)
    PROVE  /\ \A e \in V : w \o Append(o, e) = Append(w \o o, e)
           /\ o # <<>> => <<Head(o)>> \o Tail(o) = o
  <1>1. w \in Seq(V) /\ w \o o \in Seq(V)
    BY PipeParts
  <1>2. ASSUME NEW e \in V
        PROVE  w \o Append(o, e) = Append(w \o o, e)
    <2>1. <<e>> \in Seq(V)
      OBVIOUS
    <2>2. w \o (o \o <<e>>) = (w \o o) \o <<e>>
      BY <1>1, <2>1, ConcatAssociative
    <2>. QED
      BY <1>1, <2>2, AppendIsConcat
  <1>3. ASSUME o # <<>>
        PROVE  <<Head(o)>> \o Tail(o) = o
    <2>1. PICK h \in V, t \in Seq(V) : h = Head(o) /\ t = Tail(o)
      BY <1>3, HeadTailProperties
    <2>2. Len(t) = Len(o) - 1 /\ \A i \in 1 .. Len(t) : t[i] = o[i + 1]
      BY <1>3, <2>1, HeadTailProperties
    <2>3. Len(o) \in Nat /\ Len(o) > 0 /\ h = o[1]
      BY <1>3, <2>1
    <2>4. PICK u \in Seq(V) : u = <<h>>
      BY OneIs
    <2>5. Len(u) = 1 /\ u[1] = h
      BY <2>4, OneIs
    <2>6. PICK p \in Seq(V) : p = u \o t
      BY ConcatProperties
    <2>7. /\ Len(p) = Len(o)
          /\ \A i \in 1 .. 1 + Len(t) : p[i] = IF i <= 1 THEN u[i] ELSE t[i - 1]
      <3>1. /\ Len(p) = Len(u) + Len(t)
            /\ \A i \in 1 .. Len(u) + Len(t) : p[i] = IF i <= Len(u) THEN u[i] ELSE t[i - Len(u)]
        BY <2>6, ConcatProperties
      <3>2. \A i \in 1 .. 1 + Len(t) : p[i] = IF i <= 1 THEN u[i] ELSE t[i - 1]
        BY ONLY <3>1, <2>5
      <3>3. Len(p) = 1 + Len(t)
        BY ONLY <3>1, <2>5
      <3>. QED
        BY <3>2, <3>3, <2>2, <2>3, SMTT(40)
    <2>8. ASSUME NEW i \in 1 .. Len(o)
          PROVE  p[i] = o[i]
      <3>1. CASE i = 1
        BY <3>1, <2>2, <2>3, <2>5, <2>7
      <3>2. CASE i # 1
        <4>1. i - 1 \in 1 .. Len(t) /\ (i - 1) + 1 = i /\ ~(i <= 1) /\ i \in 1 .. 1 + Len(t)
          BY <3>2, <2>2, <2>3
        <4>2. p[i] = t[i - 1] /\ t[i - 1] = o[(i - 1) + 1]
          BY <4>1, <2>2, <2>7
        <4>. QED
          BY <4>1, <4>2
      <3>. QED
        BY <3>1, <3>2
    <2>9. p = o
      BY <2>7, <2>8, SeqEqual
    <2>. QED
      BY <2>1, <2>4, <2>6, <2>9
  <1>. QED
    BY <1>2, <1>3
-----------------------------------------------------------------------------
\* The events due are the rows, so TypeOK is Typed.
LEMMA TypedIs == TypeOK <=> Typed
  <1>1. ASSUME kind \in Kinds, written \in Commits
        PROVE  Events = RowsOf(Counts, 0, written)
    <2>1. 0 \in Nat /\ written \in Int /\ written <= Len(Log)
      BY <1>1, CountsType
    <2>. QED
      BY <2>1, <1>1, DueIsRows DEF Events
  <1>2. ASSUME kind \in Kinds, from \in 0..Len(Log), read \in from..Len(Log)
        PROVE  (IF read > from THEN Mapped(Log[read]) ELSE 0) = (IF read > from THEN Counts[read] ELSE 0)
    <2>1. read > from => read \in DOMAIN Log
      BY <1>2, CountsType
    <2>. QED
      BY <2>1 DEF Counts
  <1>. QED
    BY <1>1, <1>2 DEF TypeOK, Typed

\* And so it is after a step.
LEMMA TypedIsNext == TypeOK' <=> Typed'
  BY TypedIs, PTL

\* The log is the same after a step.
LEMMA Steady ==
    ASSUME UNCHANGED kind
    PROVE  Log' = Log /\ Counts' = Counts /\ Commits' = Commits
  <1>1. Log' = Log
    BY DEF Log
  <1>2. \A i \in DOMAIN Log : Mapped(Log[i])' = Mapped(Log[i])
    BY <1>1 DEF Mapped
  <1>3. Counts' = Counts
    BY <1>1, <1>2 DEF Counts
  <1>. QED
    BY <1>1, <1>3 DEF Commits

\* Rows of a longer log.
LEMMA MoreRows ==
    ASSUME NEW n, NEW a \in Int, NEW b \in Int, NEW c \in Int, b <= c
    PROVE  RowsOf(n, a, b) \subseteq RowsOf(n, a, c)
  BY DEF RowsOf

\* A Run begins in the log, at the end of a transaction if the slot has a
\* position.
LEMMA BeginIs ==
    ASSUME Typed, Phases
    PROVE  /\ Begin \in 0 .. Len(Log)
           /\ first = NoSlot => Begin \in 0 .. written
           /\ kind = "postgres" => Begin \in Commits
           /\ kind = "postgres" /\ confirmed # NoSlot => Begin <= confirmed
           /\ kind = "postgres" /\ confirmed = NoSlot => Begin = written
  <1>1. /\ kind \in {"mysql", "mysql-from", "postgres"} /\ kind \in Kinds
        /\ written \in 0 .. Len(Log) /\ written \in Commits /\ Len(Log) \in Nat
        /\ confirmed \in -1 .. Len(Log)
        /\ 0 \in Commits /\ \A i \in Commits : i \in Int /\ 0 <= i /\ i <= Len(Log)
    BY CountsType, IngestAssumption DEF Typed, NoSlot
  <1>2. CASE kind = "mysql-from"
    BY <1>1, <1>2 DEF Begin
  <1>3. CASE kind = "postgres" /\ confirmed # NoSlot
    <2> DEFINE S == {i \in Commits : i <= confirmed}
    <2>1. Begin = Last(S)
      BY <1>3 DEF Begin
    <2>2. S # {} /\ Len(Log) \in Int /\ \A i \in S : i \in Int /\ 0 <= i /\ i <= Len(Log)
      BY <1>1, <1>3 DEF NoSlot
    <2>3. Last(S) \in S
      <3>. HIDE DEF S
      <3>. QED
        BY <2>2, LastIs
    <2>4. Begin \in Commits /\ Begin <= confirmed
      BY <2>1, <2>3
    <2>5. first # NoSlot
      BY <1>3 DEF Phases
    <2>. QED
      BY <2>4, <2>5, <1>1, <1>3
  <1>4. CASE kind # "mysql-from" /\ ~(kind = "postgres" /\ confirmed # NoSlot)
    <2>1. Begin = written
      BY <1>4, Zenon DEF Begin
    <2>. QED
      BY <2>1, <1>1, <1>4 DEF Typed
  <1>. QED
    BY <1>2, <1>3, <1>4

\* The numbers of a state.
LEMMA Numbers ==
    ASSUME Typed, Phases
    PROVE  /\ Len(Log) \in Nat /\ DOMAIN Log = 1 .. Len(Log)
           /\ Counts \in [1 .. Len(Log) -> Nat]
           /\ written \in 0 .. Len(Log) /\ from \in 0 .. Len(Log) /\ read \in from .. Len(Log)
           /\ left \in Nat
           /\ left > 0 => /\ up /\ from < read /\ read <= written /\ read \in 1 .. Len(Log)
                          /\ left \in 1 .. Counts[read]
                          /\ Mapped(Log[read]) = Counts[read]
           /\ read > from => read <= written
           /\ Capacity \in Nat \ {0} /\ Lead \in Nat /\ stops \in Nat
  <1>1. /\ Len(Log) \in Nat /\ DOMAIN Log = 1 .. Len(Log)
        /\ Counts \in [1 .. Len(Log) -> Nat]
        /\ written \in 0 .. Len(Log)
    BY CountsType DEF Typed
  <1>2. from \in 0 .. Len(Log) /\ read \in from .. Len(Log)
    BY DEF Typed
  <1>3. read > from => read \in 1 .. Len(Log) /\ Counts[read] \in Nat /\ Mapped(Log[read]) = Counts[read]
    <2>1. read > from => read \in 1 .. Len(Log)
      BY <1>1, <1>2
    <2>. QED
      BY <2>1, <1>1 DEF Counts
  <1>4. left \in 0 .. (IF read > from THEN Counts[read] ELSE 0)
    BY DEF Typed
  <1>5. left \in Nat /\ (left > 0 => from < read /\ left \in 1 .. Counts[read])
    BY <1>2, <1>3, <1>4
  <1>6. (read > from => read <= written) /\ (left > 0 => up)
    BY <1>1, <1>2, <1>5 DEF Phases
  <1>7. stops \in Nat /\ Capacity \in Nat \ {0} /\ Lead \in Nat
    BY IngestAssumption DEF Typed
  <1>. QED
    BY <1>1, <1>2, <1>3, <1>5, <1>6, <1>7

\* The event that Run sends next is a row.
LEMMA EventIs ==
    ASSUME Typed, Phases, left > 0
    PROVE  /\ Event = <<read, Counts[read] - left + 1>>
           /\ Event \in RowsOf(Counts, 0, written)
  <1>1. Event = <<read, Counts[read] - left + 1>>
    BY Numbers DEF Event
  <1>2. PICK j \in Int : j = Counts[read] - left + 1 /\ 1 <= j /\ j <= Counts[read]
    <2>1. Counts[read] \in Nat /\ left \in Int /\ 1 <= left /\ left <= Counts[read]
      BY Numbers
    <2>. QED
      BY <2>1
  <1>3. read \in Int /\ 0 < read /\ read <= written /\ written \in Int /\ 0 \in Int
    BY Numbers
  <1>4. <<read, j>> \in RowsOf(Counts, 0, written)
    BY <1>2, <1>3, PairIsRow
  <1>. QED
    BY <1>1, <1>2, <1>4

\* Any step leaves the log as it is and does not shorten it.
LEMMA LogStays ==
    ASSUME Typed, Phases, [Next]_ingestVars
    PROVE  /\ UNCHANGED kind /\ written' \in Commits /\ written <= written'
           /\ written' \in 0 .. Len(Log)
  <1>1. UNCHANGED kind /\ (UNCHANGED written \/ Change)
    BY DEF Next, ingestVars, sourceVars, Change, Start, Receive, Emit, Beat, StreamBreaks,
           Keepalive, Take, WriteOk, WriteFails, Stop
  <1>2. written \in Commits /\ written \in 0 .. Len(Log)
    BY Numbers DEF Typed
  <1>3. \A i \in Commits : i \in 0 .. Len(Log)
    BY CountsType DEF Typed
  <1>4. ASSUME Change
        PROVE  written' \in Commits /\ written' > written /\ written' \in 0 .. Len(Log)
    BY <1>3, <1>4 DEF Change
  <1>5. ASSUME UNCHANGED written
        PROVE  written' \in Commits /\ written <= written' /\ written' \in 0 .. Len(Log)
    BY <1>2, <1>5
  <1>6. written \in Int /\ \A i \in 0 .. Len(Log) : i \in Int
    BY <1>2
  <1>. QED
    BY <1>1, <1>4, <1>5, <1>6

\* The rows written so far stay so.
LEMMA RowsStay ==
    ASSUME Typed, Phases, [Next]_ingestVars
    PROVE  /\ RowsOf(Counts', 0, written') = RowsOf(Counts, 0, written')
           /\ RowsOf(Counts, 0, written) \subseteq RowsOf(Counts, 0, written')
           /\ Counts' = Counts /\ Log' = Log /\ Commits' = Commits
  <1>1. 0 \in Int /\ written \in Int /\ written' \in Int /\ written <= written' /\ kind' = kind
    BY LogStays, Numbers
  <1>. QED
    BY <1>1, Steady, MoreRows

\* Every step of Run, main, the heartbeat and the source keeps the types.
LEMMA TypedNext ==
    ASSUME Typed, Phases, [Next]_ingestVars
    PROVE  Typed'
  <1>1. PICK W : W = RowsOf(Counts, 0, written)
    OBVIOUS
  <1>2. PICK W2 : W2 = RowsOf(Counts', 0, written')
    OBVIOUS
  <1>3. W \subseteq W2 /\ Counts' = Counts /\ Log' = Log /\ Commits' = Commits
        /\ kind' = kind /\ written' \in Commits /\ written <= written'
        /\ written \in Int /\ written' \in 0 .. Len(Log) /\ Len(Log) \in Nat
    BY <1>1, <1>2, RowsStay, LogStays, Numbers
  <1>4. \/ Change \/ Start \/ Receive \/ Emit \/ Beat \/ StreamBreaks \/ Keepalive
        \/ Take \/ WriteOk \/ WriteFails \/ Stop \/ UNCHANGED ingestVars
    BY DEF Next
  <1>5. first' \in NoSlot..written' /\ confirmed' \in NoSlot..Len(Log)
    <2>1. first \in NoSlot..written /\ confirmed \in NoSlot..Len(Log) /\ nextLSN \in 0..Len(Log)
      BY DEF Typed
    <2>2. CASE Start
      <3>1. /\ first' = IF first = NoSlot THEN Begin ELSE first
            /\ confirmed' = IF kind = "postgres" /\ confirmed = NoSlot THEN Begin ELSE confirmed
            /\ written' = written
        BY <2>2 DEF Start
      <3>. QED
        BY <2>1, <3>1, <1>3, BeginIs DEF NoSlot
    <2>3. CASE Keepalive
      <3>1. Last({confirmed, nextLSN}) = IF confirmed >= nextLSN THEN confirmed ELSE nextLSN
        BY <2>1, <1>3, LastOfTwo DEF NoSlot
      <3>2. confirmed' = Last({confirmed, nextLSN}) /\ first' = first /\ written' = written
        BY <2>3 DEF Keepalive, runVars
      <3>. QED
        BY <2>1, <3>1, <3>2, <1>3 DEF NoSlot
    <2>4. CASE ~Start /\ ~Keepalive
      <3>1. first' = first /\ confirmed' = confirmed
        BY <1>4, <2>4 DEF Change, Receive, Emit, Beat, StreamBreaks, Take, WriteOk, WriteFails, Stop,
              ingestVars, sourceVars, runVars
      <3>. QED
        BY <2>1, <3>1, <1>3 DEF NoSlot
    <2>. QED
      BY <2>2, <2>3, <2>4
  <1>6. /\ up' \in BOOLEAN /\ stream' \in BOOLEAN /\ (stream' => up')
        /\ from' \in 0..Len(Log) /\ read' \in from'..Len(Log) /\ nextLSN' \in 0..Len(Log)
        /\ left' \in 0 .. (IF read' > from' THEN Counts[read'] ELSE 0)
    <2>1. /\ up \in BOOLEAN /\ stream \in BOOLEAN /\ (stream => up)
          /\ from \in 0..Len(Log) /\ read \in from..Len(Log) /\ nextLSN \in 0..Len(Log)
          /\ left \in 0 .. (IF read > from THEN Counts[read] ELSE 0)
      BY DEF Typed
    <2>2. /\ read > from => Counts[read] \in Nat
          /\ read < written => read + 1 \in DOMAIN Log /\ Mapped(Log[read + 1]) = Counts[read + 1]
                               /\ Counts[read + 1] \in Nat
      <3>1. read > from => Counts[read] \in Nat
        BY Numbers
      <3>2. read < written => read + 1 \in 1 .. Len(Log)
        BY Numbers
      <3>3. DOMAIN Log = 1 .. Len(Log) /\ Counts \in [1 .. Len(Log) -> Nat]
        BY Numbers
      <3>. QED
        BY <3>1, <3>2, <3>3 DEF Counts
    <2>3. CASE Start
      <3>1. up' = TRUE /\ stream' = TRUE /\ from' = Begin /\ read' = Begin /\ left' = 0 /\ nextLSN' = 0
        BY <2>3 DEF Start
      <3>. QED
        BY <3>1, <1>3, BeginIs
    <2>4. CASE Receive
      <3>1. up' = up /\ stream' = stream /\ from' = from /\ read' = read + 1 /\ read < written
        BY <2>4 DEF Receive
      <3>2. left' = Counts[read + 1]
        BY <2>4, <2>2 DEF Receive
      <3>3. Last({Len(Log), read + 1}) = Len(Log)
        <4>1. Len(Log) \in Int /\ read + 1 \in Int /\ Len(Log) >= read + 1
          BY <3>1, <2>1, <1>3, Numbers
        <4>. QED
          BY <4>1, LastOfTwo
      <3>4. nextLSN' \in 0 .. Len(Log)
        BY <2>4, <3>3, <2>1, <1>3 DEF Receive
      <3>5. read + 1 > from /\ read + 1 \in from .. Len(Log) /\ Counts[read + 1] \in Nat
        BY <3>1, <2>1, <2>2, <1>3, Numbers
      <3>. QED
        BY <3>1, <3>2, <3>4, <3>5, <2>1
    <2>5. CASE Emit
      <3>1. up' = up /\ stream' = stream /\ from' = from /\ read' = read /\ nextLSN' = nextLSN
            /\ left > 0 /\ left' = left - 1
        BY <2>5 DEF Emit
      <3>2. read > from /\ Counts[read] \in Nat /\ left - 1 \in 0 .. Counts[read]
        BY <3>1, <2>2, Numbers
      <3>. QED
        BY <2>1, <3>1, <3>2
    <2>6. CASE Stop
      <3>1. up' = FALSE /\ stream' = FALSE /\ from' = from /\ read' = read /\ nextLSN' = nextLSN /\ left' = 0
        BY <2>6 DEF Stop
      <3>2. 0 \in 0 .. (IF read > from THEN Counts[read] ELSE 0)
        BY <2>2
      <3>. QED
        BY <2>1, <3>1, <3>2
    <2>7. CASE StreamBreaks
      BY <2>1, <2>7 DEF StreamBreaks
    <2>8. CASE ~Start /\ ~Receive /\ ~Emit /\ ~StreamBreaks /\ ~Stop
      <3>1. UNCHANGED runVars
        BY <1>4, <2>8 DEF Change, Keepalive, Beat, Take, WriteOk, WriteFails, ingestVars
      <3>. QED
        BY <2>1, <3>1 DEF runVars
    <2>. QED
      BY <2>3, <2>4, <2>5, <2>6, <2>7, <2>8
  <1>7. PICK V, V2 : V = W \cup {Heartbeat} /\ V2 = W2 \cup {Heartbeat}
    OBVIOUS
  <1>8. /\ V \subseteq V2
        /\ out \in Seq(V) /\ Len(out) <= Capacity /\ Capacity \in Nat \ {0}
        /\ writing \in {<<>>} \cup {<<m>> : m \in V}
    BY <1>1, <1>3, <1>7, Numbers DEF Typed
  <1>9. /\ out' \in Seq(V2) /\ Len(out') <= Capacity
        /\ writing' \in {<<>>} \cup {<<m>> : m \in V2}
    <2>1. /\ out' \in Seq(V) /\ Len(out') <= Capacity
          /\ writing' \in {<<>>} \cup {<<m>> : m \in V}
      <3>1. ASSUME NEW e \in V, Len(out) < Capacity, out' = Append(out, e)
            PROVE  out' \in Seq(V) /\ Len(out') <= Capacity
        BY <3>1, <1>8, AppendProperties
      <3>2. CASE Emit
        <4>1. Event \in V
          BY <3>2, <1>1, <1>7, EventIs DEF Emit
        <4>2. Len(out) < Capacity /\ out' = Append(out, Event) /\ writing' = writing
          BY <3>2 DEF Emit
        <4>. QED
          BY <4>1, <4>2, <3>1, <1>8
      <3>3. CASE Beat
        <4>1. Len(out) < Capacity /\ out' = Append(out, Heartbeat) /\ writing' = writing
          BY <3>3 DEF Beat
        <4>. QED
          BY <4>1, <3>1, <1>7, <1>8
      <3>4. CASE Take
        <4>1. out # <<>> /\ out' = Tail(out) /\ writing' = <<Head(out)>>
          BY <3>4 DEF Take
        <4>2. Head(out) \in V /\ Tail(out) \in Seq(V) /\ Len(Tail(out)) = Len(out) - 1
          BY <4>1, <1>8, HeadTailProperties
        <4>3. Len(out) \in Nat
          BY <1>8
        <4>. QED
          BY <4>1, <4>2, <4>3, <1>8
      <3>5. CASE Stop
        <4>1. out' = <<>> /\ writing' = <<>>
          BY <3>5 DEF Stop
        <4>. QED
          BY <4>1, <1>8, EmptySeq
      <3>6. CASE WriteOk \/ WriteFails
        <4>1. out' = out /\ writing' = <<>>
          BY <3>6 DEF WriteOk, WriteFails
        <4>. QED
          BY <4>1, <1>8
      <3>7. CASE ~Emit /\ ~Beat /\ ~Take /\ ~Stop /\ ~WriteOk /\ ~WriteFails
        <4>1. out' = out /\ writing' = writing
          BY <1>4, <3>7 DEF Change, Start, Receive, StreamBreaks, Keepalive, ingestVars
        <4>. QED
          BY <4>1, <1>8
      <3>. QED
        BY <3>2, <3>3, <3>4, <3>5, <3>6, <3>7
    <2>2. \A s \in Seq(V) : s \in Seq(V2)
      BY <1>8
    <2>. QED
      BY <2>1, <2>2, <1>8
  <1>10. /\ published' \subseteq W2 /\ failed' \subseteq W2 /\ last' \in {None} \cup published'
         /\ stops' \in 0 .. MaxStops
    <2>1. /\ published \subseteq W /\ failed \subseteq W /\ last \in {None} \cup published
          /\ stops \in 0 .. MaxStops /\ MaxStops \in Nat
      BY <1>1, IngestAssumption DEF Typed
    <2>2. Writing => writing[1] \in V
      <3>1. \A m \in V : <<m>>[1] = m
        OBVIOUS
      <3>. QED
        BY <3>1, <1>8 DEF Writing
    <2>3. Writing /\ Publish => published' \subseteq W /\ last' \in {None} \cup published'
      BY <2>1, <2>2, <1>7 DEF Publish
    <2>4. CASE WriteOk
      BY <2>1, <2>3, <2>4, <1>3 DEF WriteOk
    <2>5. CASE WriteFails
      <3>1. (published' \subseteq W /\ last' \in {None} \cup published') /\ Writing
        BY <2>1, <2>3, <2>5 DEF WriteFails
      <3>2. failed' = failed \cup ({writing[1]} \ {Heartbeat}) /\ stops' = stops
        BY <2>5 DEF WriteFails
      <3>. QED
        BY <2>1, <2>2, <3>1, <3>2, <1>3, <1>7
    <2>6. CASE Stop
      <3>1. (published' \subseteq W /\ last' \in {None} \cup published')
        BY <2>1, <2>3, <2>6 DEF Stop
      <3>2. failed' = failed /\ stops' = stops + 1 /\ stops < MaxStops
        BY <2>6 DEF Stop
      <3>. QED
        BY <2>1, <3>1, <3>2, <1>3
    <2>7. CASE Start
      BY <2>1, <2>7, <1>3 DEF Start
    <2>8. CASE ~WriteOk /\ ~WriteFails /\ ~Stop /\ ~Start
      <3>1. UNCHANGED topicVars /\ UNCHANGED stops
        BY <1>4, <2>8 DEF Change, Receive, Emit, Beat, StreamBreaks, Keepalive, Take, ingestVars
      <3>. QED
        BY <2>1, <3>1, <1>3 DEF topicVars
    <2>. QED
      BY <2>4, <2>5, <2>6, <2>7, <2>8
  <1>11. kind \in Kinds
    BY DEF Typed
  <1>. QED
    BY <1>2, <1>3, <1>5, <1>6, <1>7, <1>9, <1>10, <1>11 DEF Typed

\* Every step keeps the phases: a process that is down holds nothing, and the slot
\* exists since the first Run.
LEMMA PhasesNext ==
    ASSUME Typed, Phases, [Next]_ingestVars
    PROVE  Phases'
  <1>1. \/ Change \/ Start \/ Receive \/ Emit \/ Beat \/ StreamBreaks \/ Keepalive
        \/ Take \/ WriteOk \/ WriteFails \/ Stop \/ UNCHANGED ingestVars
    BY DEF Next
  <1>2. /\ kind' = kind /\ written <= written' /\ written \in Int /\ written' \in Int
        /\ read \in Int /\ from \in Int
    BY LogStays, Numbers
  <1>3. /\ first' = NoSlot => ~up'
        /\ kind = "postgres" => (first' = NoSlot <=> confirmed' = NoSlot)
    <2>1. /\ first = NoSlot => ~up
          /\ kind = "postgres" => (first = NoSlot <=> confirmed = NoSlot)
      BY DEF Phases
    <2>2. CASE Start
      <3>1. /\ first' = IF first = NoSlot THEN Begin ELSE first
            /\ confirmed' = IF kind = "postgres" /\ confirmed = NoSlot THEN Begin ELSE confirmed
        BY <2>2 DEF Start
      <3>2. Begin # NoSlot
        BY BeginIs DEF NoSlot
      <3>. QED
        BY <2>1, <3>1, <3>2
    <2>3. CASE Keepalive
      <3>1. /\ confirmed \in Int /\ nextLSN \in Int /\ nextLSN >= 0
        BY Numbers DEF Typed, NoSlot
      <3>2. Last({confirmed, nextLSN}) = IF confirmed >= nextLSN THEN confirmed ELSE nextLSN
        BY <3>1, LastOfTwo
      <3>3. confirmed' = Last({confirmed, nextLSN}) /\ first' = first /\ up' = up /\ up
        BY <2>3 DEF Keepalive, runVars
      <3>4. confirmed' # NoSlot
        BY <3>1, <3>2, <3>3 DEF NoSlot
      <3>. QED
        BY <2>1, <3>3, <3>4
    <2>4. CASE Stop
      <3>1. ~up' /\ first' = first /\ confirmed' = confirmed
        BY <2>4 DEF Stop, sourceVars
      <3>. QED
        BY <2>1, <3>1
    <2>5. CASE ~Start /\ ~Keepalive /\ ~Stop
      <3>1. first' = first /\ confirmed' = confirmed /\ up' = up
        BY <1>1, <2>5 DEF Change, Receive, Emit, Beat, StreamBreaks, Take, WriteOk, WriteFails,
              ingestVars, sourceVars, runVars
      <3>. QED
        BY <2>1, <3>1
    <2>. QED
      BY <2>2, <2>3, <2>4, <2>5
  <1>4. ~up' => out' = <<>> /\ writing' = <<>> /\ left' = 0
    <2>1. ~up => out = <<>> /\ writing = <<>> /\ left = 0
      BY DEF Phases
    <2>2. CASE Stop
      BY <2>2 DEF Stop
    <2>3. CASE Start
      BY <2>3 DEF Start
    <2>4. CASE Change \/ UNCHANGED ingestVars
      <3>1. UNCHANGED <<up, out, writing, left>>
        BY <2>4 DEF Change, ingestVars, runVars
      <3>. QED
        BY <2>1, <3>1
    <2>5. CASE Receive \/ Emit \/ Beat \/ StreamBreaks \/ Keepalive \/ Take \/ WriteOk \/ WriteFails
      <3>1. up /\ up' = up
        BY <2>5 DEF Receive, Emit, Beat, StreamBreaks, Keepalive, Take, WriteOk, WriteFails,
              Writing, runVars
      <3>. QED
        BY <3>1
    <2>. QED
      BY <1>1, <2>2, <2>3, <2>4, <2>5
  <1>5. read' = from' \/ read' <= written'
    <2>1. read = from \/ read <= written
      BY DEF Phases
    <2>2. CASE Start
      BY <2>2 DEF Start
    <2>3. CASE Receive
      <3>1. read' = read + 1 /\ read < written
        BY <2>3 DEF Receive
      <3>. QED
        BY <3>1, <1>2
    <2>4. CASE ~Start /\ ~Receive
      <3>1. read' = read /\ from' = from
        BY <1>1, <2>4 DEF Change, Emit, Beat, StreamBreaks, Keepalive, Take, WriteOk, WriteFails,
              Stop, ingestVars, runVars
      <3>. QED
        BY <2>1, <3>1, <1>2
    <2>. QED
      BY <2>2, <2>3, <2>4
  <1>. QED
    BY <1>2, <1>3, <1>4, <1>5 DEF Phases

\* Every step keeps the pipe ordered and complete.
LEMMA OrderedNext ==
    ASSUME Typed, Phases, Ordered, [Next]_ingestVars
    PROVE  Ordered'
  <1>1. \/ Change \/ Start \/ Receive \/ Emit \/ Beat \/ StreamBreaks \/ Keepalive
        \/ Take \/ WriteOk \/ WriteFails \/ Stop \/ UNCHANGED ingestVars
    BY DEF Next
  <1>n. PICK n : n = Counts
    BY Zenon
  <1>2. PICK top \in Nat : n = Counts /\ top = Len(Log) /\ n \in [1 .. top -> Nat]
    BY <1>n, Numbers
  <1>3. Counts' = n
    BY <1>2, RowsStay
  <1>4. PICK V : V = RowsOf(Counts, 0, written) \cup {Heartbeat}
    OBVIOUS
  <1>5. writing \in {<<>>} \cup {<<m>> : m \in V} /\ out \in Seq(V)
    BY <1>4 DEF Typed
  <1>6. PICK p \in Seq(V) : p = Pipe
    BY <1>5, PipeParts DEF Pipe
  <1>7. PICK a \in Nat, r \in Nat, l \in Nat : a = from /\ r = read /\ l = left /\ r \in a .. top
    BY <1>2, Numbers
  <1>8. up => PipeOrdered(n, a, r, l, p, last) /\ PipeComplete(n, a, r, l, p, last, published, failed)
    BY <1>2, <1>6, <1>7 DEF Ordered
  <1>9. CASE Start
    <2>1. from' = read' /\ last' = None /\ from' \in Int
      BY <1>9, BeginIs DEF Start
    <2>2. writing' = <<>> /\ out' = <<>>
      BY <1>9 DEF Start, Phases
    <2>3. <<>> \o <<>> = <<>>
      BY EmptySeq, ConcatEmptySeq
    <2>4. DOMAIN Pipe' = {}
      BY <2>2, <2>3 DEF Pipe
    <2>5. RowsOf(Counts', from', read') = {}
      BY <2>1 DEF RowsOf
    <2>. QED
      BY <2>1, <2>4, <2>5 DEF Ordered, PipeOrdered, PipeComplete
  <1>10. CASE Receive
    <2>1. up /\ l = 0 /\ r < top /\ read' = r + 1 /\ from' = a
      BY <1>2, <1>7, <1>10, Numbers DEF Receive
    <2>2. left' = n[r + 1]
      <3>1. r + 1 \in DOMAIN Log
        BY <2>1, <1>2, Numbers
      <3>. QED
        BY <3>1, <1>2, <1>7, <1>10 DEF Receive, Counts
    <2>3. Pipe' = p /\ last' = last /\ published' = published /\ failed' = failed
      BY <1>6, <1>10 DEF Receive, Pipe, topicVars
    <2>4. PipeOrdered(n, a, r + 1, n[r + 1], p, last)
          /\ PipeComplete(n, a, r + 1, n[r + 1], p, last, published, failed)
      <3>1. r < top /\ r \in a .. top /\ PipeOrdered(n, a, r, 0, p, last)
            /\ PipeComplete(n, a, r, 0, p, last, published, failed)
        BY <2>1, <1>7, <1>8
      <3>. QED
        BY <3>1, <1>2, PipeReceives
    <2>. QED
      BY <1>3, <2>1, <2>2, <2>3, <2>4 DEF Ordered
  <1>11. CASE Emit
    <2>1. /\ up /\ l > 0 /\ left' = l - 1 /\ read' = r /\ from' = a
          /\ last' = last /\ published' = published /\ failed' = failed
      BY <1>7, <1>11 DEF Emit, topicVars
    <2>2. r \in a + 1 .. top /\ l \in 1 .. n[r]
      BY <2>1, <1>2, <1>7, Numbers
    <2>3. PICK e : e = <<r, n[r] - l + 1>> /\ e = Event /\ e \in V
      BY <2>1, <1>2, <1>4, <1>7, EventIs
    <2>4. out' = Append(out, e) /\ writing' = writing
      BY <2>3, <1>11 DEF Emit
    <2>5. Pipe' = Append(p, e)
      <3>1. writing \o Append(out, e) = Append(writing \o out, e)
        BY <2>3, <1>5, PipeMoves
      <3>. QED
        BY <2>4, <3>1, <1>6 DEF Pipe
    <2>6. PipeOrdered(n, a, r, l - 1, Append(p, e), last)
          /\ PipeComplete(n, a, r, l - 1, Append(p, e), last, published, failed)
      BY <2>1, <2>2, <2>3, <1>2, <1>8, PipeEmits
    <2>. QED
      BY <1>3, <2>1, <2>5, <2>6 DEF Ordered
  <1>12. CASE Beat
    <2>1. /\ up /\ left' = l /\ read' = r /\ from' = a
          /\ last' = last /\ published' = published /\ failed' = failed
          /\ out' = Append(out, Heartbeat) /\ writing' = writing
      BY <1>7, <1>12 DEF Beat, topicVars, runVars
    <2>2. Pipe' = Append(p, Heartbeat)
      <3>1. writing \o Append(out, Heartbeat) = Append(writing \o out, Heartbeat)
        BY <1>4, <1>5, PipeMoves
      <3>. QED
        BY <2>1, <3>1, <1>6 DEF Pipe
    <2>3. PipeOrdered(n, a, r, l, Append(p, Heartbeat), last)
          /\ PipeComplete(n, a, r, l, Append(p, Heartbeat), last, published, failed)
      BY <2>1, <1>8, PipeBeats
    <2>. QED
      BY <1>3, <2>1, <2>2, <2>3 DEF Ordered
  <1>13. CASE Take
    <2>1. /\ up /\ left' = l /\ read' = r /\ from' = a
          /\ last' = last /\ published' = published /\ failed' = failed
          /\ out # <<>> /\ writing = <<>> /\ out' = Tail(out) /\ writing' = <<Head(out)>>
      BY <1>7, <1>13 DEF Take, topicVars, runVars
    <2>2. Pipe' = p
      <3>1. <<>> \o out = out
        BY <1>5, ConcatEmptySeq
      <3>2. <<Head(out)>> \o Tail(out) = out
        BY <2>1, <1>5, PipeMoves
      <3>. QED
        BY <2>1, <3>1, <3>2, <1>6 DEF Pipe
    <2>. QED
      BY <1>3, <1>8, <2>1, <2>2 DEF Ordered
  <1>14. CASE WriteOk \/ WriteFails
    <2>1. /\ up /\ left' = l /\ read' = r /\ from' = a
          /\ writing # <<>> /\ writing' = <<>> /\ out' = out
      BY <1>7, <1>14 DEF WriteOk, WriteFails, Writing, runVars
    <2>2. PICK q \in Seq(V), y \in V, k \in Nat :
              /\ q = out /\ y = writing[1] /\ k = Len(out)
              /\ DOMAIN q = 1 .. k /\ DOMAIN p = 1 .. k + 1
              /\ p[1] = y /\ \A i \in 1 .. k : q[i] = p[i + 1]
      <3>1. /\ writing[1] \in V
            /\ DOMAIN (writing \o out) = 1 .. Len(out) + 1
            /\ (writing \o out)[1] = writing[1]
            /\ \A i \in 1 .. Len(out) : out[i] = (writing \o out)[i + 1]
        BY <2>1, <1>5, PipeParts
      <3>2. Len(out) \in Nat /\ DOMAIN out = 1 .. Len(out)
        BY <1>5
      <3>. QED
        BY <3>1, <3>2, <1>5, <1>6 DEF Pipe
    <2>3. Pipe' = q
      <3>1. <<>> \o out = out
        BY <1>5, ConcatEmptySeq
      <3>. QED
        BY <2>1, <2>2, <3>1 DEF Pipe
    <2>4. /\ published \subseteq published' /\ failed \subseteq failed'
          /\ \/ last' = last /\ (y = Heartbeat \/ y \in failed')
             \/ last' = y /\ y # Heartbeat /\ y \in published'
      BY <1>14, <2>2 DEF WriteOk, WriteFails, Publish
    <2>5. PICK x2, pub2, fail2 : x2 = last' /\ pub2 = published' /\ fail2 = failed'
      OBVIOUS
    <2>6. PipeOrdered(n, a, r, l, q, x2) /\ PipeComplete(n, a, r, l, q, x2, pub2, fail2)
      <3>1. r \in Int
        BY <1>7
      <3>. QED
        <4>1. PipeOrdered(n, a, r, l, p, last) /\ PipeComplete(n, a, r, l, p, last, published, failed)
          BY <2>1, <1>8
        <4>2. IsFirst(y, p, q)
          BY <2>2 DEF IsFirst
        <4>3. IsDealtWith(y, last, published, failed, x2, pub2, fail2)
          BY <2>4, <2>5 DEF IsDealtWith
        <4>. QED
          BY <3>1, <4>1, <4>2, <4>3, PipeAdvances
    <2>. QED
      BY <1>3, <2>1, <2>3, <2>5, <2>6 DEF Ordered
  <1>15. CASE Stop
    BY <1>15 DEF Stop, Ordered
  <1>16. CASE Change \/ StreamBreaks \/ Keepalive \/ UNCHANGED ingestVars
    <2>1. /\ UNCHANGED <<up, from, read, left, writing, out, last, published, failed>>
      BY <1>16 DEF Change, StreamBreaks, Keepalive, ingestVars, runVars, topicVars
    <2>2. Pipe' = Pipe
      BY <2>1 DEF Pipe
    <2>. QED
      BY <2>1, <2>2, <1>2, <1>3 DEF Ordered
  <1>. QED
    BY <1>1, <1>9, <1>10, <1>11, <1>12, <1>13, <1>14, <1>15, <1>16
-----------------------------------------------------------------------------
\* Rows of Postgres, which are one to an entry, are no more than their entries.
LEMMA RowsBounded ==
    ASSUME NEW top \in Nat, NEW n \in [1 .. top -> Nat], \A i \in 1 .. top : n[i] <= 1,
           NEW a \in Nat, NEW b \in Int, b <= top, NEW S \in SUBSET RowsOf(n, a, b),
           NEW lo \in Int, NEW hi \in Int, \A x \in S : lo <= x[1] /\ x[1] <= hi
    PROVE  /\ IsFiniteSet(S)
           /\ Cardinality(S) \in Nat
           /\ Cardinality(S) <= IF lo > hi THEN 0 ELSE hi - lo + 1
  <1>1. ASSUME NEW x \in S
        PROVE  x \in Int \X Int /\ x[1] \in lo .. hi /\ x[2] = 1
    <2>1. x \in Int \X Int /\ x[1] \in Int /\ x[2] \in Int
      BY DEF RowsOf
    <2>2. x[1] \in a + 1 .. b /\ x[2] \in 1 .. n[x[1]]
      BY DEF RowsOf
    <2>3. x[1] \in 1 .. top
      BY <2>1, <2>2
    <2>4. n[x[1]] \in Nat /\ n[x[1]] <= 1
      BY <2>3
    <2>. QED
      BY <2>1, <2>2, <2>4
  <1>2. PICK f : f = [x \in S |-> x[1]]
    OBVIOUS
  <1>3. f \in [S -> lo .. hi] /\ \A x \in S : f[x] = x[1]
    BY <1>1, <1>2
  <1>4. ASSUME NEW x \in S, NEW y \in S, f[x] = f[y]
        PROVE  x = y
    <2>1. x[1] = y[1] /\ x[2] = y[2]
      BY <1>1, <1>3, <1>4
    <2>2. x = <<x[1], x[2]>> /\ y = <<y[1], y[2]>>
      BY <1>1
    <2>. QED
      BY <2>1, <2>2
  <1>5. f \in Injection(S, lo .. hi)
    BY <1>3, <1>4 DEF Injection, IsInjective
  <1>6. IsFiniteSet(lo .. hi) /\ Cardinality(lo .. hi) = IF lo > hi THEN 0 ELSE hi - lo + 1
    BY FS_Interval
  <1>7. IsFiniteSet(S) /\ Cardinality(S) <= Cardinality(lo .. hi)
    BY <1>5, <1>6, FS_Injection
  <1>. QED
    BY <1>6, <1>7, FS_CardinalityType

\* The events of a pipe are no more than it is long.
LEMMA PipeBounded ==
    ASSUME NEW V, NEW p \in Seq(V), NEW S, \A x \in S : \E i \in DOMAIN p : p[i] = x
    PROVE  IsFiniteSet(S) /\ Cardinality(S) \in Nat /\ Cardinality(S) <= Len(p)
  <1>1. Len(p) \in Nat /\ DOMAIN p = 1 .. Len(p)
    BY LenProperties, SMTT(40)
  <1>2. PICK k \in Nat : k = Len(p)
    BY <1>1
  <1>3. PICK f : f = [x \in S |-> CHOOSE i \in DOMAIN p : p[i] = x]
    BY Zenon
  <1>4. ASSUME NEW x \in S
        PROVE  f[x] \in 1 .. k /\ p[f[x]] = x
    <2>1. \E i \in 1 .. k : p[i] = x
      BY <1>1, <1>2
    <2>2. f[x] = CHOOSE i \in 1 .. k : p[i] = x
      BY <1>1, <1>2, <1>3
    <2>. QED
      BY <2>1, <2>2
  <1>5. f \in [S -> 1 .. k]
    BY <1>3, <1>4
  <1>6. \A x, y \in S : f[x] = f[y] => x = y
    BY <1>4
  <1>7. f \in Injection(S, 1 .. k)
    BY <1>5, <1>6 DEF Injection, IsInjective
  <1>8. IsFiniteSet(1 .. k) /\ Cardinality(1 .. k) = k
    <2>1. 1 \in Int /\ k \in Int
      OBVIOUS
    <2>2. IsFiniteSet(1 .. k) /\ Cardinality(1 .. k) = IF 1 > k THEN 0 ELSE k - 1 + 1
      BY <2>1, FS_Interval
    <2>. QED
      BY <2>2
  <1>9. IsFiniteSet(S) /\ Cardinality(S) <= k
    BY <1>7, <1>8, FS_Injection
  <1>. QED
    BY <1>2, <1>9, FS_CardinalityType

\* The union of two finite sets has no more elements than both.
LEMMA UnionBounded ==
    ASSUME NEW S, NEW T, IsFiniteSet(S), IsFiniteSet(T), NEW U \in SUBSET (S \cup T)
    PROVE  /\ IsFiniteSet(U) /\ Cardinality(U) \in Nat
           /\ Cardinality(U) <= Cardinality(S) + Cardinality(T)
           /\ Cardinality(S) \in Nat /\ Cardinality(T) \in Nat
  <1>1. IsFiniteSet(S \cap T)
    BY FS_Intersection
  <1>2. Cardinality(S) \in Nat /\ Cardinality(T) \in Nat /\ Cardinality(S \cap T) \in Nat
    BY <1>1, FS_CardinalityType
  <1>3. /\ IsFiniteSet(S \cup T)
        /\ Cardinality(S \cup T) = Cardinality(S) + Cardinality(T) - Cardinality(S \cap T)
    BY FS_Union
  <1>4. IsFiniteSet(U) /\ Cardinality(U) <= Cardinality(S \cup T)
    BY <1>3, FS_Subset
  <1>5. Cardinality(U) \in Nat /\ Cardinality(S \cup T) \in Nat
    BY <1>3, <1>4, FS_CardinalityType
  <1>. QED
    BY <1>2, <1>3, <1>4, <1>5

\* A Run that stops loses what was in the pipe and what the slot's position was
\* ahead of it.  The next begins at b, the end of a transaction.
LEMMA StopLoses ==
    ASSUME NEW top \in Nat, NEW n \in [1 .. top -> Nat], \A i \in 1 .. top : n[i] <= 1,
           NEW f \in Nat, NEW a \in Nat, NEW r \in Nat, a <= r, r <= top, NEW l \in Nat,
           l > 0 => a < r /\ l <= n[r],
           NEW V, NEW p \in Seq(V), NEW x, NEW pub, NEW fail,
           PipeComplete(n, a, r, l, p, x, pub, fail),
           NEW b \in Nat, a < b, b <= top, n[b] = 0,
           Lead \in Nat, b <= r + Lead - (IF l > 0 THEN 1 ELSE 0)
    PROVE  /\ Cardinality(LostBefore(n, f, a, pub, fail)) \in Nat
           /\ Cardinality(LostBefore(n, f, b, pub, fail)) \in Nat
           /\ Cardinality(LostBefore(n, f, b, pub, fail))
                  <= Cardinality(LostBefore(n, f, a, pub, fail))
                        + (Len(p) + (IF Lead > 1 THEN Lead - 1 ELSE 0))
  <1>1. PICK A, B : A = LostBefore(n, f, a, pub, fail) /\ B = LostBefore(n, f, b, pub, fail)
    OBVIOUS
  <1>2. PICK P : P = {y \in B : \E i \in DOMAIN p : p[i] = y}
    OBVIOUS
  <1>3. PICK R : R = {y \in RowsOf(n, a, b) : ~Emitted(n, r, l, y)}
    OBVIOUS
  <1>4. IsFiniteSet(A)
    <2>1. A \in SUBSET RowsOf(n, f, a) /\ a \in Int /\ a <= top /\ f + 1 \in Int
      BY <1>1 DEF LostBefore
    <2>2. \A y \in A : f + 1 <= y[1] /\ y[1] <= a
      BY <2>1 DEF RowsOf
    <2>. QED
      BY <2>1, <2>2, RowsBounded
  <1>5. IsFiniteSet(P) /\ Cardinality(P) \in Nat /\ Cardinality(P) <= Len(p)
    BY <1>2, PipeBounded
  <1>6. /\ IsFiniteSet(R) /\ Cardinality(R) \in Nat
        /\ Cardinality(R) <= IF Lead > 1 THEN Lead - 1 ELSE 0
    <2>1. PICK lo \in Int, hi \in Int : lo = r + 1 - (IF l > 0 THEN 1 ELSE 0) /\ hi = b - 1
      <3>1. r + 1 - (IF l > 0 THEN 1 ELSE 0) \in Int /\ b - 1 \in Int
        OBVIOUS
      <3>. QED
        BY <3>1
    <2>2. R \in SUBSET RowsOf(n, a, b) /\ b \in Int
      BY <1>3
    <2>3. ASSUME NEW y \in R
          PROVE  lo <= y[1] /\ y[1] <= hi
      <3>1. /\ y[1] \in Int /\ y[2] \in Int /\ a < y[1] /\ y[1] <= b /\ 1 <= y[2] /\ y[2] <= n[y[1]]
        BY <2>2, RowsArePairs
      <3>2. y[1] # b
        BY <3>1
      <3>3. ~(y[1] < r) /\ (y[1] = r => ~(y[2] <= n[r] - l))
        BY <1>3 DEF Emitted
      <3>4. y[1] = r => l > 0
        <4>1. y[1] = r => n[r] \in Nat /\ y[2] <= n[r]
          BY <3>1
        <4>. QED
          BY <3>1, <3>3, <4>1
      <3>5. r <= y[1] /\ (l = 0 => r < y[1])
        BY <3>1, <3>3, <3>4, SMTT(40)
      <3>6. y[1] < b
        BY <3>1, <3>2
      <3>7. (l > 0 => lo = r) /\ (l = 0 => lo = r + 1) /\ hi = b - 1 /\ (l > 0 \/ l = 0)
        BY <2>1
      <3>. QED
        BY <3>1, <3>5, <3>6, <3>7
    <2>4. /\ IsFiniteSet(R) /\ Cardinality(R) \in Nat
          /\ Cardinality(R) <= IF lo > hi THEN 0 ELSE hi - lo + 1
      BY <2>2, <2>3, RowsBounded
    <2>5. hi - lo + 1 <= Lead - 1
      BY <2>1
    <2>. QED
      BY <2>4, <2>5
  <1>7. B \subseteq A \cup (P \cup R)
    <2>. SUFFICES ASSUME NEW y \in B, y \notin A, y \notin R
                  PROVE  y \in P
      OBVIOUS
    <2>1. y \in RowsOf(n, f, b) /\ y \notin pub /\ y \notin fail
      BY <1>1 DEF LostBefore
    <2>2. y \in Int \X Int /\ y[1] \in Int /\ y[1] \in f + 1 .. b /\ y[2] \in 1 .. n[y[1]]
      BY <2>1 DEF RowsOf
    <2>3. y \notin RowsOf(n, f, a)
      BY <2>1, <1>1 DEF LostBefore
    <2>4. a < y[1]
      BY <2>2, <2>3 DEF RowsOf
    <2>5. y \in RowsOf(n, a, b)
      BY <2>2, <2>4 DEF RowsOf
    <2>6. Emitted(n, r, l, y)
      BY <2>5, <1>3
    <2>7. y[1] <= r
      BY <2>2, <2>6 DEF Emitted
    <2>8. y \in RowsOf(n, a, r)
      BY <2>2, <2>4, <2>7 DEF RowsOf
    <2>9. \E i \in DOMAIN p : p[i] = y
      BY <2>1, <2>6, <2>8 DEF PipeComplete
    <2>. QED
      BY <2>9, <1>2
  <1>8. PICK T : T = P \cup R
    OBVIOUS
  <1>9. IsFiniteSet(T) /\ Cardinality(T) \in Nat /\ Cardinality(T) <= Cardinality(P) + Cardinality(R)
    BY <1>5, <1>6, <1>8, UnionBounded
  <1>10. /\ Cardinality(B) \in Nat /\ Cardinality(A) \in Nat
         /\ Cardinality(B) <= Cardinality(A) + Cardinality(T)
    BY <1>4, <1>7, <1>8, <1>9, UnionBounded
  <1>11. Len(p) \in Nat
    OBVIOUS
  <1>12. PICK ca \in Nat, cb \in Nat, cp \in Nat, cr \in Nat, ct \in Nat :
            /\ ca = Cardinality(A) /\ cb = Cardinality(B) /\ cp = Cardinality(P)
            /\ cr = Cardinality(R) /\ ct = Cardinality(T)
    BY <1>5, <1>6, <1>9, <1>10
  <1>13. cb <= ca + (Len(p) + (IF Lead > 1 THEN Lead - 1 ELSE 0))
    <2>1. cp <= Len(p) /\ cr <= (IF Lead > 1 THEN Lead - 1 ELSE 0) /\ ct <= cp + cr /\ cb <= ca + ct
      BY <1>5, <1>6, <1>9, <1>10, <1>12
    <2>. QED
      BY <2>1, <1>11
  <1>. QED
    BY <1>1, <1>12, <1>13

\* Where Run begins depends on the slot alone.
LEMMA BeginStays ==
    ASSUME Typed, Phases, kind = "postgres", UNCHANGED <<kind, confirmed>>, confirmed # NoSlot
    PROVE  Begin' = Begin
  <1>1. Commits' = Commits
    BY Steady
  <1>2. Begin = Last({i \in Commits : i <= confirmed})
    BY DEF Begin
  <1>3. Begin' = Last({i \in Commits' : i <= confirmed'})
    BY DEF Begin, Last
  <1>. QED
    BY <1>1, <1>2, <1>3

\* Every step keeps the slot's position within Lead of Run, or of no effect.
LEMMA SlotNext ==
    ASSUME Typed, Phases, SlotBehind, [Next]_ingestVars
    PROVE  SlotBehind'
  <1>. SUFFICES ASSUME kind = "postgres", up'
                PROVE  /\ nextLSN' <= read' + Lead
                       /\ \/ Begin' <= from'
                          \/ confirmed' <= read' + Lead - (IF left' > 0 THEN 1 ELSE 0)
    BY LogStays DEF SlotBehind
  <1>1. \/ Change \/ Start \/ Receive \/ Emit \/ Beat \/ StreamBreaks \/ Keepalive
        \/ Take \/ WriteOk \/ WriteFails \/ Stop \/ UNCHANGED ingestVars
    BY DEF Next
  <1>2. /\ kind' = kind /\ read \in Nat /\ left \in Nat /\ Lead \in Nat /\ from \in Nat
        /\ nextLSN \in Nat /\ confirmed \in Int
    <2>1. nextLSN \in Nat /\ confirmed \in Int
      BY Numbers DEF Typed, NoSlot
    <2>. QED
      BY <2>1, LogStays, Numbers
  <1>3. CASE Start
    <2>1. from' = Begin /\ read' = Begin /\ nextLSN' = 0 /\ Begin \in Nat
      BY <1>3, BeginIs, Numbers DEF Start
    <2>2. Begin' <= from'
      <3>1. CASE confirmed # NoSlot
        <4>1. confirmed' = confirmed
          BY <1>3, <3>1 DEF Start
        <4>2. Begin' = Begin
          BY <1>2, <3>1, <4>1, BeginStays
        <4>. QED
          BY <2>1, <4>2
      <3>2. CASE confirmed = NoSlot
        <4> DEFINE S == {i \in Commits : i <= written}
        <4>1. confirmed' = written /\ Begin = written
          BY <1>3, <3>2, BeginIs DEF Start
        <4>2. /\ written \in Commits /\ Len(Log) \in Int /\ written \in Nat
              /\ \A i \in Commits : i \in Int /\ 0 <= i /\ i <= Len(Log)
          BY CountsType, Numbers DEF Typed
        <4>3. S # {} /\ \A i \in S : i \in Int /\ 0 <= i /\ i <= Len(Log)
          BY <4>2
        <4>4. Last(S) \in S
          <5>. HIDE DEF S
          <5>. QED
            BY <4>2, <4>3, LastIs
        <4>5. Begin' = Last({i \in Commits' : i <= confirmed'})
          BY <1>2, <4>1, <4>2 DEF Begin, Last, NoSlot
        <4>6. Commits' = Commits
          BY <1>2, Steady
        <4>. QED
          BY <2>1, <4>1, <4>4, <4>5, <4>6
      <3>. QED
        BY <3>1, <3>2
    <2>. QED
      BY <2>1, <2>2, <1>2
  <1>4. ASSUME up /\ ~Start
        PROVE  /\ nextLSN <= read + Lead
               /\ Begin <= from \/ confirmed <= read + Lead - (IF left > 0 THEN 1 ELSE 0)
               /\ confirmed # NoSlot /\ Begin \in Int
    BY <1>4, BeginIs DEF SlotBehind, Phases
  <1>5. CASE Receive
    <2>1. up /\ ~Start /\ read' = read + 1 /\ left = 0 /\ from' = from /\ confirmed' = confirmed
      BY <1>5 DEF Receive, Start, sourceVars
    <2>2. Begin' = Begin
      BY <1>2, <1>4, <2>1, BeginStays
    <2>3. nextLSN' <= read + 1 + Lead
      <3>1. nextLSN' \in 0 .. read + 1 + Lead
        BY <1>5 DEF Receive
      <3>. QED
        BY <3>1, <1>2
    <2>4. nextLSN' \in Int
      BY TypedNext, Numbers, LogStays, Steady DEF Typed
    <2>. QED
      BY <1>2, <1>4, <2>1, <2>2, <2>3, <2>4
  <1>6. CASE Emit
    <2>1. /\ up /\ ~Start /\ read' = read /\ left' = left - 1 /\ from' = from /\ confirmed' = confirmed
          /\ nextLSN' = nextLSN /\ left > 0
      BY <1>6 DEF Emit, Start, sourceVars
    <2>2. Begin' = Begin
      BY <1>2, <1>4, <2>1, BeginStays
    <2>. QED
      BY <1>2, <1>4, <2>1, <2>2
  <1>7. CASE Keepalive
    <2>1. /\ up /\ ~Start /\ read' = read /\ left' = left /\ from' = from /\ nextLSN' = nextLSN
          /\ left = 0 /\ confirmed' = Last({confirmed, nextLSN})
      BY <1>7 DEF Keepalive, Start, runVars
    <2>2. Last({confirmed, nextLSN}) = IF confirmed >= nextLSN THEN confirmed ELSE nextLSN
      BY <1>2, LastOfTwo
    <2>3. CASE confirmed' = confirmed
      <3>1. Begin' = Begin
        BY <1>2, <1>4, <2>1, <2>3, BeginStays
      <3>. QED
        BY <1>2, <1>4, <2>1, <2>3, <3>1
    <2>4. CASE confirmed' = nextLSN
      BY <1>2, <1>4, <2>1, <2>4
    <2>. QED
      BY <2>1, <2>2, <2>3, <2>4
  <1>8. CASE ~Start /\ ~Receive /\ ~Emit /\ ~Keepalive
    <2>1. /\ up /\ read' = read /\ left' = left /\ from' = from /\ nextLSN' = nextLSN
          /\ confirmed' = confirmed
      BY <1>1, <1>8 DEF Change, Beat, StreamBreaks, Take, WriteOk, WriteFails, Stop,
            ingestVars, sourceVars, runVars
    <2>2. Begin' = Begin
      BY <1>2, <1>4, <1>8, <2>1, BeginStays
    <2>. QED
      BY <1>2, <1>4, <1>8, <2>1, <2>2
  <1>. QED
    BY <1>3, <1>5, <1>6, <1>7, <1>8

\* What the topic has got since is not lost.
LEMMA LossShrinks ==
    ASSUME NEW top \in Nat, NEW n \in [1 .. top -> Nat], \A i \in 1 .. top : n[i] <= 1,
           NEW f \in Nat, NEW a \in Nat, NEW b \in Nat, a <= b, b <= top,
           NEW pub, NEW fail, NEW pub2, NEW fail2, pub \subseteq pub2, fail \subseteq fail2
    PROVE  /\ Cardinality(LostBefore(n, f, a, pub2, fail2)) \in Nat
           /\ Cardinality(LostBefore(n, f, b, pub, fail)) \in Nat
           /\ Cardinality(LostBefore(n, f, a, pub2, fail2)) <= Cardinality(LostBefore(n, f, b, pub, fail))
  <1>1. PICK S, T : S = LostBefore(n, f, a, pub2, fail2) /\ T = LostBefore(n, f, b, pub, fail)
    OBVIOUS
  <1>2. S \subseteq T
    BY <1>1 DEF LostBefore, RowsOf
  <1>3. IsFiniteSet(T)
    <2>1. T \in SUBSET RowsOf(n, f, b) /\ f + 1 \in Int /\ b \in Int
      BY <1>1 DEF LostBefore
    <2>2. \A y \in T : f + 1 <= y[1] /\ y[1] <= b
      BY <2>1 DEF RowsOf
    <2>. QED
      BY <2>1, <2>2, RowsBounded
  <1>4. IsFiniteSet(S) /\ Cardinality(S) <= Cardinality(T)
    BY <1>2, <1>3, FS_Subset
  <1>. QED
    BY <1>1, <1>3, <1>4, FS_CardinalityType

\* Only a Stop may lose rows, and then no more than PerStop.
LEMMA LossNext ==
    ASSUME Typed, Phases, Ordered, SlotBehind, LossInv, [Next]_ingestVars
    PROVE  LossInv'
  <1>. SUFFICES ASSUME kind = "postgres", first' # NoSlot
                PROVE  Cardinality(LostBefore(Counts, first', IF up' THEN from' ELSE Begin',
                                              published', failed')) <= stops' * PerStop
    BY LogStays, RowsStay DEF LossInv, PerStop
  <1>1. \/ Change \/ Start \/ Receive \/ Emit \/ Beat \/ StreamBreaks \/ Keepalive
        \/ Take \/ WriteOk \/ WriteFails \/ Stop \/ UNCHANGED ingestVars
    BY DEF Next
  <1>2. PICK n : n = Counts
    BY Zenon
  <1>3. PICK top \in Nat : top = Len(Log) /\ n \in [1 .. top -> Nat] /\ \A i \in 1 .. top : n[i] <= 1
    <2>1. Len(Log) \in Nat /\ kind \in Kinds
      BY Numbers DEF Typed
    <2>. QED
      BY <2>1, <1>2, CountsType
  <1>4. /\ kind' = kind
        /\ stops \in Nat /\ PerStop \in Nat /\ Lead \in Nat /\ Capacity \in Nat
        /\ PerStop = Capacity + (IF Lead > 1 THEN Lead ELSE 1)
        /\ from \in Nat /\ from <= top /\ Begin \in Nat /\ Begin <= top
    BY <1>3, LogStays, Numbers, BeginIs DEF PerStop
  <1>5. first # NoSlot => first \in Nat
    BY Numbers DEF Typed, NoSlot
  <1>6. first # NoSlot => /\ confirmed # NoSlot
                          /\ Cardinality(LostBefore(n, first, IF up THEN from ELSE Begin, published, failed))
                                <= stops * PerStop
    BY <1>2 DEF LossInv, Phases
  <1>7. CASE Start
    <2>1. /\ ~up /\ up' /\ from' = Begin /\ stops' = stops /\ published' = published /\ failed' = failed
          /\ first' = IF first = NoSlot THEN Begin ELSE first
      BY <1>7 DEF Start
    <2>2. CASE first = NoSlot
      <3>1. LostBefore(n, first', from', published', failed') = {}
        BY <2>1, <2>2, <1>4 DEF LostBefore, RowsOf
      <3>2. Cardinality({}) = 0
        BY FS_EmptySet
      <3>3. 0 <= stops * PerStop
        BY <1>4
      <3>. QED
        BY <3>1, <3>2, <3>3, <2>1, <1>2
    <2>3. CASE first # NoSlot
      BY <2>1, <2>3, <1>2, <1>6
    <2>. QED
      BY <2>2, <2>3
  <1>8. CASE Stop
    <2>1. /\ up /\ ~up' /\ stops' = stops + 1 /\ failed' = failed /\ first' = first /\ confirmed' = confirmed
          /\ published \subseteq published'
      BY <1>8 DEF Stop, sourceVars, Publish
    <2>2. first # NoSlot /\ first \in Nat /\ confirmed # NoSlot
      BY <2>1, <1>5, <1>6
    <2>3. Begin' = Begin
      BY <2>1, <2>2, <1>4, BeginStays
    <2>4. PICK f \in Nat, a \in Nat, b \in Nat : f = first /\ a = from /\ b = Begin /\ a <= top /\ b <= top
      BY <1>4, <2>2
    <2>5. PICK pub, fail, pub2 : pub = published /\ fail = failed /\ pub2 = published' /\ pub \subseteq pub2
      BY <2>1
    <2>6. PICK s \in Nat, m \in Nat : s = stops /\ m = PerStop
      BY <1>4
    <2>7. Cardinality(LostBefore(n, f, a, pub, fail)) <= s * m
      BY <2>1, <2>2, <2>4, <2>5, <2>6, <1>6
    <2>8. Cardinality(LostBefore(n, f, b, pub2, fail)) <= (s + 1) * m
      <3>1. (s + 1) * m = s * m + m /\ s * m \in Nat
        BY <2>6
      <3>2. CASE b <= a
        <4>1. /\ Cardinality(LostBefore(n, f, b, pub2, fail)) \in Nat
              /\ Cardinality(LostBefore(n, f, a, pub, fail)) \in Nat
              /\ Cardinality(LostBefore(n, f, b, pub2, fail)) <= Cardinality(LostBefore(n, f, a, pub, fail))
          BY <3>2, <2>4, <2>5, <1>3, LossShrinks, SMTT(40)
        <4>. QED
          BY <4>1, <3>1, <2>6, <2>7
      <3>3. CASE a < b
        <4>1. PICK r \in Nat, l \in Nat : r = read /\ l = left
          BY Numbers
        <4>2. /\ a <= r /\ r <= top /\ (l > 0 => a < r /\ l <= n[r])
          <5>1. from <= read /\ read <= Len(Log)
            BY Numbers
          <5>2. left > 0 => from < read /\ left <= Counts[read]
            BY Numbers
          <5>. QED
            BY <5>1, <5>2, <4>1, <2>4, <1>2, <1>3
        <4>3. PICK V : V = RowsOf(Counts, 0, written) \cup {Heartbeat}
          OBVIOUS
        <4>4. writing \in {<<>>} \cup {<<x>> : x \in V} /\ out \in Seq(V) /\ Len(out) <= Capacity
          BY <4>3 DEF Typed
        <4>5. PICK p \in Seq(V) : p = Pipe /\ Len(p) <= Capacity + 1
          <5>1. Pipe \in Seq(V) /\ Len(Pipe) <= Len(out) + 1
            BY <4>4, PipeParts DEF Pipe
          <5>2. PICK p \in Seq(V), k \in Nat : p = Pipe /\ k = Len(out)
            BY <4>4, <5>1
          <5>3. Len(p) \in Nat /\ Len(p) <= k + 1 /\ k <= Capacity
            BY <5>1, <5>2, <4>4
          <5>4. Len(p) <= Capacity + 1
            BY <5>3, <1>4
          <5>. QED
            BY <5>2, <5>4
        <4>6. PICK x : x = last /\ PipeComplete(n, a, r, l, p, x, pub, fail)
          BY <2>1, <2>4, <2>5, <4>1, <4>5, <1>2 DEF Ordered
        <4>7. n[b] = 0
          <5>1. kind \in Kinds /\ Begin \in Commits
            BY BeginIs DEF Typed
          <5>2. Begin # 0 => Counts[Begin] = 0
            BY <5>1, CountsType
          <5>. QED
            BY <5>2, <3>3, <2>4, <1>2
        <4>8. b <= r + Lead - (IF l > 0 THEN 1 ELSE 0)
          <5>1. confirmed <= read + Lead - (IF left > 0 THEN 1 ELSE 0)
            BY <2>1, <2>4, <3>3 DEF SlotBehind
          <5>2. b <= confirmed /\ confirmed \in Int
            BY <2>2, <2>4, BeginIs, Numbers, SMTT(40) DEF Typed, NoSlot
          <5>. QED
            BY <5>1, <5>2, <4>1, <1>4
        <4>9. /\ Cardinality(LostBefore(n, f, a, pub, fail)) \in Nat
              /\ Cardinality(LostBefore(n, f, b, pub, fail)) \in Nat
              /\ Cardinality(LostBefore(n, f, b, pub, fail))
                    <= Cardinality(LostBefore(n, f, a, pub, fail))
                          + (Len(p) + (IF Lead > 1 THEN Lead - 1 ELSE 0))
          <5>1. /\ top \in Nat /\ n \in [1 .. top -> Nat] /\ \A i \in 1 .. top : n[i] <= 1
                /\ Lead \in Nat /\ a < b /\ b <= top
            BY <1>3, <1>4, <2>4, <3>3
          <5>2. PipeComplete(n, a, r, l, p, x, pub, fail)
            BY <4>6
          <5>. QED
            BY ONLY <5>1, <5>2, <4>2, <4>7, <4>8, f \in Nat, a \in Nat, b \in Nat, r \in Nat, l \in Nat,
                    p \in Seq(V), StopLoses, ZenonT(40)
        <4>10. /\ Cardinality(LostBefore(n, f, b, pub2, fail)) \in Nat
               /\ Cardinality(LostBefore(n, f, b, pub2, fail)) <= Cardinality(LostBefore(n, f, b, pub, fail))
          BY <2>4, <2>5, <1>3, LossShrinks
        <4>11. PICK c1 \in Nat, c2 \in Nat, c3 \in Nat :
                  /\ c1 = Cardinality(LostBefore(n, f, a, pub, fail))
                  /\ c2 = Cardinality(LostBefore(n, f, b, pub, fail))
                  /\ c3 = Cardinality(LostBefore(n, f, b, pub2, fail))
          BY <4>9, <4>10
        <4>12. Len(p) + (IF Lead > 1 THEN Lead - 1 ELSE 0) <= m /\ Len(p) \in Nat
          <5>1. Len(p) \in Nat
            BY <4>5
          <5>. QED
            BY <5>1, <4>5, <2>6, <1>4
        <4>13. c3 <= c2 /\ c2 <= c1 + (Len(p) + (IF Lead > 1 THEN Lead - 1 ELSE 0)) /\ c1 <= s * m
          BY <4>9, <4>10, <4>11, <2>7
        <4>14. c3 <= s * m + m
          BY <4>12, <4>13, <3>1, <1>4
        <4>. QED
          BY <4>11, <4>14, <3>1
      <3>. QED
        BY <3>2, <3>3, <2>4
    <2>. QED
      BY <2>1, <2>3, <2>4, <2>5, <2>6, <2>8, <1>2
  <1>9. CASE ~Start /\ ~Stop
    <2>1. first' = first /\ up' = up /\ from' = from /\ stops' = stops
      BY <1>1, <1>9 DEF Change, Receive, Emit, Beat, StreamBreaks, Keepalive, Take, WriteOk, WriteFails,
         ingestVars, runVars
    <2>2. published \subseteq published' /\ failed \subseteq failed'
      <3>1. CASE WriteOk \/ WriteFails
        BY <3>1 DEF WriteOk, WriteFails, Publish
      <3>2. CASE ~WriteOk /\ ~WriteFails
        BY <1>1, <1>9, <3>2 DEF Change, Receive, Emit, Beat, StreamBreaks, Keepalive, Take,
           ingestVars, topicVars
      <3>. QED
        BY <3>1, <3>2
    <2>3. ~up => Begin' = Begin
      <3>1. ~up => confirmed' = confirmed
        BY <1>1, <1>9 DEF Change, Receive, Emit, Beat, StreamBreaks, Keepalive, Take, WriteOk, WriteFails,
           Writing, ingestVars, sourceVars
      <3>. QED
        BY <3>1, <2>1, <1>4, <1>6, BeginStays
    <2>4. PICK d \in Nat : d = (IF up THEN from ELSE Begin) /\ d <= top
      BY <1>4
    <2>5. first # NoSlot /\ first \in Nat
      BY <2>1, <1>5
    <2>6. /\ Cardinality(LostBefore(n, first, d, published', failed')) \in Nat
          /\ Cardinality(LostBefore(n, first, d, published, failed)) \in Nat
          /\ Cardinality(LostBefore(n, first, d, published', failed'))
                <= Cardinality(LostBefore(n, first, d, published, failed))
      <3>1. d <= d
        BY <2>4
      <3>. QED
        BY <3>1, <2>2, <2>4, <2>5, <1>3, LossShrinks
    <2>7. Cardinality(LostBefore(n, first, d, published, failed)) <= stops * PerStop
      BY <2>4, <2>5, <1>6
    <2>8. stops * PerStop \in Nat
      BY <1>4
    <2>9. Cardinality(LostBefore(n, first, d, published', failed')) <= stops * PerStop
      BY <2>6, <2>7, <2>8
    <2>10. d = IF up' THEN from' ELSE Begin'
      BY <2>1, <2>3, <2>4
    <2>. QED
      BY <2>1, <2>9, <2>10, <1>2
  <1>. QED
    BY <1>7, <1>8, <1>9
-----------------------------------------------------------------------------
\* The invariant holds before the first Run.
LEMMA InitInv == Init => IInv
  <1>. SUFFICES ASSUME Init PROVE IInv
    OBVIOUS
  <1>1. kind \in Kinds /\ MaxStops \in Nat /\ Capacity \in Nat
    BY IngestAssumption DEF Init
  <1>2. 0 \in Commits /\ Len(Log) \in Nat
    BY <1>1, CountsType
  <1>3. /\ written = 0 /\ confirmed = -1 /\ first = -1
        /\ up = FALSE /\ stream = FALSE /\ from = 0 /\ read = 0 /\ left = 0 /\ nextLSN = 0
        /\ out = <<>> /\ writing = <<>>
        /\ published = {} /\ last = None /\ failed = {} /\ stops = 0
    BY DEF Init, NoSlot
  <1>4. out \in Seq(RowsOf(Counts, 0, written) \cup {Heartbeat}) /\ Len(out) <= Capacity
    BY <1>1, <1>3, EmptySeq
  <1>5. /\ written \in Commits /\ first \in -1..written /\ confirmed \in -1..Len(Log)
        /\ from \in 0..Len(Log) /\ read \in from..Len(Log) /\ nextLSN \in 0..Len(Log)
        /\ left \in 0 .. (IF read > from THEN Counts[read] ELSE 0)
        /\ stops \in 0 .. MaxStops
    BY <1>1, <1>2, <1>3
  <1>6. Typed
    BY <1>1, <1>3, <1>4, <1>5 DEF Typed, NoSlot
  <1>. QED
    BY <1>3, <1>6 DEF IInv, Phases, Ordered, SlotBehind, LossInv, NoSlot

\* The invariant is inductive.
LEMMA NextInv == IInv /\ [Next]_ingestVars => IInv'
  BY TypedNext, PhasesNext, OrderedNext, SlotNext, LossNext DEF IInv

\* So it holds of every behaviour.
THEOREM Invariance == Spec => []IInv
  BY InitInv, NextInv, PTL DEF Spec

\* The channel holds at most Capacity events, each of a row that is in the log,
\* whatever the interleaving of Run, the heartbeat and main.
THEOREM TypeCorrect == Spec => []TypeOK
  <1>1. IInv => TypeOK
    BY TypedIs DEF IInv
  <1>. QED
    BY <1>1, Invariance, PTL

\* A process writes the rows of its source in their order, each once, and leaves
\* out only those whose write failed, for any log and any capacity.
THEOREM WritesInOrder == Spec => InOrder
  <1>1. ASSUME IInv, [Next]_ingestVars, up, up', last' # last
        PROVE  /\ Before(last, last')
               /\ \A x \in Due(from, written) :
                     Before(last, x) /\ Before(x, last') => x \in failed
    <2>1. Typed /\ Phases /\ Ordered
      BY <1>1 DEF IInv
    <2>2. Writing /\ Publish /\ writing[1] # Heartbeat
      BY <1>1 DEF Next, ingestVars, topicVars, runVars, Change, Start, Receive, Emit, Beat, StreamBreaks,
         Keepalive, Take, WriteOk, WriteFails, Stop, Publish
    <2>3. PICK n, x, p, pub, fail : n = Counts /\ x = last /\ p = Pipe /\ pub = published /\ fail = failed
      OBVIOUS
    <2>4. PICK a \in Nat, r \in Nat, l \in Nat : a = from /\ r = read /\ l = left
      BY <2>1, Numbers
    <2>5. PipeOrdered(n, a, r, l, p, x) /\ PipeComplete(n, a, r, l, p, x, pub, fail)
      BY <1>1, <2>1, <2>3, <2>4 DEF Ordered
    <2>6. PICK V : V = RowsOf(Counts, 0, written) \cup {Heartbeat}
      OBVIOUS
    <2>7. PICK y : y = writing[1] /\ last' = y /\ y # Heartbeat
      BY <2>2 DEF Publish
    <2>8. PICK k \in Nat : DOMAIN p = 1 .. k + 1 /\ p[1] = y
      <3>1. writing \in {<<>>} \cup {<<m>> : m \in V} /\ out \in Seq(V) /\ writing # <<>>
        BY <2>1, <2>2, <2>6 DEF Typed, Writing
      <3>2. /\ DOMAIN (writing \o out) = 1 .. Len(out) + 1
            /\ (writing \o out)[1] = writing[1]
            /\ Len(out) \in Nat
        BY <3>1, PipeParts
      <3>. QED
        BY <3>2, <2>3, <2>7 DEF Pipe
    <2>9. /\ y \in RowsOf(n, a, r) /\ Emitted(n, r, l, y) /\ Before(x, y)
          /\ \A i \in DOMAIN p : i # 1 /\ p[i] # Heartbeat => Before(y, p[i])
      <3>1. 1 \in DOMAIN p /\ \A i \in DOMAIN p : i # 1 => 1 < i
        BY <2>8
      <3>. QED
        BY <3>1, <2>5, <2>7, <2>8 DEF PipeOrdered
    <2>10. Due(from, written) = RowsOf(n, a, written)
      <3>1. kind \in Kinds /\ written \in Int /\ written <= Len(Log)
        BY <2>1, Numbers DEF Typed
      <3>. QED
        BY <3>1, <2>3, <2>4, DueIsRows
    <2>11. ASSUME NEW z \in RowsOf(n, a, written), Before(x, z), Before(z, y)
           PROVE  z \in fail
      <3>1. /\ y \in Int \X Int /\ y[1] \in Int /\ y[2] \in Int /\ y[1] <= r
            /\ z \in Int \X Int /\ z[1] \in Int /\ z[2] \in Int
            /\ z[1] \in a + 1 .. written /\ z[2] \in 1 .. n[z[1]] /\ written \in Int
        BY <2>1, <2>9, Numbers DEF RowsOf
      <3>2. z[1] <= r /\ (z[1] < y[1] \/ (z[1] = y[1] /\ z[2] < y[2]))
        BY <2>11, <3>1 DEF Before
      <3>3. z \in RowsOf(n, a, r)
        BY <3>1, <3>2 DEF RowsOf
      <3>4. Emitted(n, r, l, z)
        <4>1. y[1] = r => y[2] <= n[r] - l
          BY <2>9, <3>1 DEF Emitted
        <4>2. CASE z[1] < r
          BY <4>2 DEF Emitted
        <4>3. CASE z[1] = r
          <5>1. y[1] = r /\ z[2] < y[2] /\ n[r] \in Nat
            <6>1. y[1] = r /\ z[2] < y[2]
              BY <3>1, <3>2, <4>3
            <6>2. r \in 1 .. Len(Log)
              BY <2>1, <2>4, <3>1, <4>3, Numbers
            <6>. QED
              BY <6>1, <6>2, <2>1, <2>3, Numbers
          <5>2. z[2] <= n[r] - l
            BY <5>1, <4>1, <3>1
          <5>. QED
            BY <5>2, <4>3 DEF Emitted
        <4>. QED
          BY <3>1, <3>2, <4>2, <4>3
      <3>5. z # Heartbeat
        <4>1. \A v \in RowsOf(n, a, r) : v # Heartbeat
          BY RowsArePairs
        <4>. QED
          BY <4>1, <3>3
      <3>6. ~Before(y, z) /\ z # y
        BY <2>11, <3>1, RowOrder
      <3>7. ASSUME NEW i \in DOMAIN p, p[i] = z
            PROVE  FALSE
        BY <2>8, <2>9, <3>5, <3>6, <3>7
      <3>. QED
        BY <2>5, <2>11, <3>3, <3>4, <3>7 DEF PipeComplete
    <2>. QED
      BY <2>3, <2>7, <2>9, <2>10, <2>11
  <1>. QED
    BY <1>1, Invariance, PTL DEF Spec, InOrder

\* A Postgres connector loses no more rows for each stop than fill the channel,
\* with the write in progress, and than nextLSN was ahead: for any log, capacity
\* and lead, however often it stops and wherever keepalives fall.
THEOREM LossIsBounded == Spec => []LossBounded
  <1>1. ASSUME IInv, kind = "postgres", first # NoSlot
        PROVE  Cardinality((Due(first, Begin) \ (published \cup failed \cup InFlight))
                              \ (IF up THEN Due(read, Len(Log)) ELSE {}))
                  <= stops * (Capacity + Last({Lead, 1}))
    <2>1. Typed /\ Phases /\ Ordered
      BY <1>1 DEF IInv
    <2>2. PICK n : n = Counts
      BY Zenon
    <2>3. PICK top \in Nat : top = Len(Log) /\ n \in [1 .. top -> Nat] /\ \A i \in 1 .. top : n[i] <= 1
      <3>1. Len(Log) \in Nat /\ kind \in Kinds
        BY <2>1, Numbers DEF Typed
      <3>. QED
        BY <3>1, <1>1, <2>2, CountsType
    <2>4. PICK f \in Nat, b \in Nat, a \in Nat, r \in Nat, w \in Nat, l \in Nat :
              /\ f = first /\ b = Begin /\ a = from /\ r = read /\ w = written /\ l = left
              /\ a <= top /\ b <= top /\ w <= top /\ a <= r /\ r <= top /\ (r > a => r <= w)
      <3>1. first \in Nat
        BY <1>1, <2>1, Numbers DEF Typed, NoSlot
      <3>2. /\ from \in Nat /\ read \in Nat /\ written \in Nat /\ left \in Nat
            /\ from <= top /\ written <= top /\ from <= read /\ read <= top
            /\ (read > from => read <= written)
        BY <2>1, <2>3, Numbers
      <3>3. Begin \in Nat /\ Begin <= top
        BY <2>1, <2>3, BeginIs
      <3>. QED
        BY <3>1, <3>2, <3>3
    <2>5. /\ Due(first, Begin) = RowsOf(n, f, b)
          /\ Due(read, Len(Log)) = RowsOf(n, r, top)
          /\ Events = RowsOf(n, 0, w)
      <3>1. kind \in Kinds /\ 0 \in Nat /\ top \in Int
        BY <2>1 DEF Typed
      <3>. QED
        BY <3>1, <2>2, <2>3, <2>4, DueIsRows DEF Events
    <2>6. PICK L : L = (RowsOf(n, f, b) \ (published \cup failed \cup InFlight))
                          \ (IF up THEN RowsOf(n, r, top) ELSE {})
      OBVIOUS
    <2>7. PICK d \in Nat : d = (IF up THEN a ELSE b) /\ d <= top
      BY <2>4
    <2>8. L \subseteq LostBefore(n, f, d, published, failed)
      <3>1. CASE ~up
        BY <3>1, <2>6, <2>7 DEF LostBefore
      <3>2. CASE up
        <4>. SUFFICES ASSUME NEW x \in L
                      PROVE  x[1] <= a
          <5>1. \A x \in L : x \in RowsOf(n, f, b) /\ x \notin published /\ x \notin failed
            BY <2>6
          <5>2. \A x \in RowsOf(n, f, b) : x[1] <= a => x \in RowsOf(n, f, a)
            BY DEF RowsOf
          <5>. QED
            BY <5>1, <5>2, <3>2, <2>7 DEF LostBefore
        <4>. SUFFICES ASSUME ~(x[1] <= a) PROVE FALSE
          OBVIOUS
        <4>1. /\ x \in RowsOf(n, f, b) /\ x \notin published /\ x \notin failed /\ x \notin InFlight
              /\ x \notin RowsOf(n, r, top)
          BY <2>6, <3>2
        <4>2. /\ x \in Int \X Int /\ x[1] \in Int /\ x[2] \in Int /\ x[1] \in f + 1 .. b
              /\ x[2] \in 1 .. n[x[1]]
          BY <4>1 DEF RowsOf
        <4>3. x[1] <= r
          BY <4>1, <4>2, <2>4 DEF RowsOf
        <4>4. x \in RowsOf(n, a, r) /\ x \in RowsOf(n, 0, w)
          BY <4>2, <4>3, <2>4 DEF RowsOf
        <4>5. CASE Emitted(n, r, l, x)
          <5>1. \E i \in DOMAIN Pipe : Pipe[i] = x
            BY <3>2, <4>1, <4>4, <4>5, <2>1, <2>2, <2>4 DEF Ordered, PipeComplete
          <5>2. PICK V : V = RowsOf(Counts, 0, written) \cup {Heartbeat}
            OBVIOUS
          <5>3. writing \in {<<>>} \cup {<<m>> : m \in V} /\ out \in Seq(V)
            BY <5>2, <2>1 DEF Typed
          <5>4. CASE writing = <<>>
            <6>1. Pipe = out
              BY <5>3, <5>4, ConcatEmptySeq DEF Pipe
            <6>. QED
              BY <5>1, <6>1, <4>1, <4>4, <2>5 DEF InFlight
          <5>5. CASE writing # <<>>
            <6>1. /\ writing = <<writing[1]>>
                  /\ DOMAIN Pipe = 1 .. Len(out) + 1 /\ Pipe[1] = writing[1]
                  /\ \A i \in 1 .. Len(out) : out[i] = Pipe[i + 1]
                  /\ Len(out) \in Nat /\ DOMAIN out = 1 .. Len(out)
              BY <5>3, <5>5, PipeParts DEF Pipe
            <6>2. PICK i \in 1 .. Len(out) + 1 : Pipe[i] = x
              BY <5>1, <6>1
            <6>3. CASE i = 1
              BY <6>1, <6>2, <6>3, <4>1, <4>4, <2>5 DEF InFlight
            <6>4. CASE i # 1
              <7>1. i - 1 \in 1 .. Len(out) /\ (i - 1) + 1 = i
                BY <6>1, <6>2, <6>4
              <7>2. i - 1 \in DOMAIN out /\ out[i - 1] = x
                BY <7>1, <6>1, <6>2
              <7>. QED
                BY <7>2, <4>1, <4>4, <2>5 DEF InFlight
            <6>. QED
              BY <6>3, <6>4
          <5>. QED
            BY <5>4, <5>5
        <4>6. CASE ~Emitted(n, r, l, x)
          <5>1. x[1] = r /\ ~(x[2] <= n[r] - l)
            BY <4>2, <4>3, <4>6 DEF Emitted
          <5>2. n[r] \in Nat /\ Mapped(Log[read]) = n[r]
            <6>1. r \in DOMAIN Log
              BY <5>1, <4>2, <2>1, <2>3, <2>4, Numbers
            <6>. QED
              BY <6>1, <2>1, <2>2, <2>4, Numbers DEF Counts
          <5>3. x[1] = read /\ x[2] > Mapped(Log[read]) - left
            BY <5>1, <5>2, <4>2, <2>4
          <5>. QED
            BY <5>3, <4>1, <4>4, <2>5 DEF InFlight
        <4>. QED
          BY <4>5, <4>6
      <3>. QED
        BY <3>1, <3>2
    <2>9. /\ IsFiniteSet(LostBefore(n, f, d, published, failed))
      <3>1. PICK S : S = LostBefore(n, f, d, published, failed)
        OBVIOUS
      <3>2. S \in SUBSET RowsOf(n, f, d) /\ f + 1 \in Int /\ d \in Int
        BY <3>1 DEF LostBefore
      <3>3. \A y \in S : f + 1 <= y[1] /\ y[1] <= d
        BY <3>2 DEF RowsOf
      <3>4. IsFiniteSet(S)
        BY <3>2, <3>3, <2>3, <2>7, RowsBounded
      <3>. QED
        BY <3>1, <3>4
    <2>10. Cardinality(LostBefore(n, f, d, published, failed)) <= stops * PerStop
      BY <1>1, <2>2, <2>4, <2>7 DEF IInv, LossInv
    <2>11. Cardinality(L) <= stops * PerStop
      <3>1. /\ Cardinality(L) <= Cardinality(LostBefore(n, f, d, published, failed))
            /\ Cardinality(L) \in Nat
            /\ Cardinality(LostBefore(n, f, d, published, failed)) \in Nat
        BY <2>8, <2>9, FS_Subset, FS_CardinalityType
      <3>2. stops * PerStop \in Nat
        BY <2>1, Numbers DEF PerStop
      <3>. QED
        BY <3>1, <3>2, <2>10
    <2>12. PerStop = Capacity + Last({Lead, 1})
      <3>1. Lead \in Int /\ 1 \in Int
        BY IngestAssumption
      <3>2. Last({Lead, 1}) = IF Lead >= 1 THEN Lead ELSE 1
        BY <3>1, LastOfTwo
      <3>3. (IF Lead >= 1 THEN Lead ELSE 1) = (IF Lead > 1 THEN Lead ELSE 1)
        BY <3>1
      <3>. QED
        BY <3>2, <3>3 DEF PerStop
    <2>. QED
      BY <2>5, <2>6, <2>11, <2>12
  <1>2. IInv => LossBounded
    BY <1>1 DEF LossBounded
  <1>. QED
    BY <1>2, Invariance, PTL
=============================================================================
