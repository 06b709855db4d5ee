---------------------------- MODULE CurationProofs ----------------------------
(***************************************************************************)
(* What Select gives for any window of events of any sources and times, of *)
(* any length, any k and percentage: a strategy's selections have the size *)
(* and cover the sources that it promises, none that does is fresher, and  *)
(* there is one.                                                           *)
(*                                                                         *)
(* That a finite set with a strict order has a first element, and an n-th  *)
(* one, is shown by counting.  The ranks of its elements are distinct      *)
(* numbers below its size, so every number is one.                         *)
(*                                                                         *)
(* That a selection is not older than another in total follows from its    *)
(* having, of no age, fewer events.  Sums are added up by induction over   *)
(* the set of the sizes for which that holds.                              *)
(***************************************************************************)
EXTENDS Curation, FiniteSetTheorems, WellFoundedInduction, TLAPS

\* B, a set of pairs, orders T.
Orders(B, T) ==
    /\ \A i \in T : <<i, i>> \notin B
    /\ \A i, j, k \in T : <<i, j>> \in B /\ <<j, k>> \in B => <<i, k>> \in B
    /\ \A i, j \in T : i = j \/ <<i, j>> \in B \/ <<j, i>> \in B

\* The elements of T before i.
Below(B, T, i) == {j \in T : <<j, i>> \in B}
-----------------------------------------------------------------------------
\* The ranks of the elements of a finite set are distinct and below its size.
LEMMA RanksDiffer ==
    ASSUME NEW T, IsFiniteSet(T), NEW B, Orders(B, T)
    PROVE  /\ \A i \in T : Cardinality(Below(B, T, i)) \in 0..Cardinality(T) - 1
           /\ \A i, j \in T :
                 Cardinality(Below(B, T, i)) = Cardinality(Below(B, T, j)) => i = j
  <1>1. ASSUME NEW i \in T
        PROVE  /\ IsFiniteSet(Below(B, T, i)) /\ Cardinality(Below(B, T, i)) \in Nat
               /\ Cardinality(Below(B, T, i)) \in 0..Cardinality(T) - 1
    <2>1. Below(B, T, i) \in SUBSET (T \ {i})
      BY DEF Below, Orders
    <2>2. IsFiniteSet(T \ {i}) /\ Cardinality(T \ {i}) = Cardinality(T) - 1
      BY FS_RemoveElement
    <2>3. IsFiniteSet(Below(B, T, i)) /\ Cardinality(Below(B, T, i)) <= Cardinality(T \ {i})
      BY <2>1, <2>2, FS_Subset
    <2>4. Cardinality(T) \in Nat /\ Cardinality(Below(B, T, i)) \in Nat
      BY <2>3, FS_CardinalityType
    <2>. QED
      BY <2>2, <2>3, <2>4
  <1>2. ASSUME NEW i \in T, NEW j \in T, <<i, j>> \in B
        PROVE  Cardinality(Below(B, T, i)) # Cardinality(Below(B, T, j))
    <2>1. Below(B, T, i) \in SUBSET Below(B, T, j)
      BY <1>2 DEF Below, Orders
    <2>2. i \in Below(B, T, j) /\ i \notin Below(B, T, i)
      BY <1>2 DEF Below, Orders
    <2>3. IsFiniteSet(Below(B, T, j))
      BY <1>1
    <2>. QED
      BY <2>1, <2>2, <2>3, FS_Subset
  <1>3. ASSUME NEW i \in T, NEW j \in T,
               Cardinality(Below(B, T, i)) = Cardinality(Below(B, T, j))
        PROVE  i = j
    BY <1>2, <1>3 DEF Orders
  <1>. QED
    BY <1>1, <1>3

\* Every number below the size of a finite set is the rank of an element.
LEMMA EveryRank ==
    ASSUME NEW T, IsFiniteSet(T), NEW B, Orders(B, T), NEW n \in 0..Cardinality(T) - 1
    PROVE  \E i \in T : Cardinality(Below(B, T, i)) = n
  <1> DEFINE rank == [i \in T |-> Cardinality(Below(B, T, i))]
             ranks == 0..Cardinality(T) - 1
  <1>1. rank \in Injection(T, ranks)
    BY RanksDiffer DEF Injection, IsInjective
  <1>2. Cardinality(T) \in Nat
    BY FS_CardinalityType
  <1>3. IsFiniteSet(ranks) /\ Cardinality(ranks) = Cardinality(T)
    <2>1. 0 \in Int /\ Cardinality(T) - 1 \in Int
      BY <1>2
    <2>. QED
      BY <2>1, <1>2, FS_Interval
  <1>4. rank \in Surjection(T, ranks)
    <2>. HIDE DEF rank, ranks
    <2>. QED
      BY <1>1, <1>3, FS_Injection
  <1>5. PICK i \in T : rank[i] = n
    BY <1>4 DEF Surjection
  <1>. QED
    BY <1>5

\* A finite set that is not empty has a first element.
LEMMA HasFirst ==
    ASSUME NEW T, IsFiniteSet(T), T # {}, NEW B, Orders(B, T)
    PROVE  \E i \in T : \A j \in T : j # i => <<i, j>> \in B
  <1>1. Cardinality(T) \in Nat /\ Cardinality(T) # 0
    BY FS_CardinalityType, FS_EmptySet
  <1>2. PICK i \in T : Cardinality(Below(B, T, i)) = 0
    BY <1>1, EveryRank
  <1>3. Below(B, T, i) = {}
    <2>1. Below(B, T, i) \in SUBSET T
      BY DEF Below
    <2>2. IsFiniteSet(Below(B, T, i))
      BY <2>1, FS_Subset
    <2>. QED
      BY <2>2, <1>2, FS_EmptySet
  <1>. QED
    BY <1>3 DEF Below, Orders

\* No more than n elements are of a rank below n.
LEMMA LowRanks ==
    ASSUME NEW T, IsFiniteSet(T), NEW B, Orders(B, T), NEW n \in Int, n >= 0
    PROVE  LET low == {i \in T : Cardinality(Below(B, T, i)) < n}
           IN  IsFiniteSet(low) /\ Cardinality(low) <= n
  <1> DEFINE low == {i \in T : Cardinality(Below(B, T, i)) < n}
             rank == [i \in low |-> Cardinality(Below(B, T, i))]
  <1>1. rank \in Injection(low, 0..n - 1)
    <2>1. \A i \in low : Cardinality(Below(B, T, i)) \in 0..n - 1
      BY RanksDiffer, FS_CardinalityType
    <2>2. \A i, j \in low : Cardinality(Below(B, T, i)) = Cardinality(Below(B, T, j)) => i = j
      BY RanksDiffer
    <2>. QED
      BY <2>1, <2>2 DEF Injection, IsInjective
  <1>2. IsFiniteSet(0..n - 1) /\ Cardinality(0..n - 1) = n
    <2>1. 0 \in Int /\ n - 1 \in Int
      OBVIOUS
    <2>. QED
      BY <2>1, FS_Interval
  <1>3. IsFiniteSet(low) /\ Cardinality(low) <= n
    <2>. HIDE DEF rank, low
    <2>. QED
      BY <1>1, <1>2, FS_Injection
  <1>. QED
    BY <1>3

\* As many elements as there are numbers below n are of a rank below n.
LEMMA LowRanksExact ==
    ASSUME NEW T, IsFiniteSet(T), NEW B, Orders(B, T), NEW n \in 0..Cardinality(T)
    PROVE  Cardinality({i \in T : Cardinality(Below(B, T, i)) < n}) = n
  <1> DEFINE low == {i \in T : Cardinality(Below(B, T, i)) < n}
             rank == [i \in low |-> Cardinality(Below(B, T, i))]
  <1>1. Cardinality(T) \in Nat /\ n \in Int /\ n >= 0
    BY FS_CardinalityType
  <1>2. IsFiniteSet(low) /\ Cardinality(low) <= n
    BY <1>1, LowRanks
  <1>3. rank \in Surjection(low, 0..n - 1)
    <2>1. \A i \in low : Cardinality(Below(B, T, i)) \in 0..n - 1
      BY <1>1, RanksDiffer
    <2>2. \A m \in 0..n - 1 : \E i \in low : Cardinality(Below(B, T, i)) = m
      BY <1>1, EveryRank
    <2>. QED
      BY <2>1, <2>2 DEF Surjection
  <1>4. Cardinality(0..n - 1) = n
    <2>1. 0 \in Int /\ n - 1 \in Int
      BY <1>1
    <2>. QED
      BY <1>1, <2>1, FS_Interval
  <1>. HIDE DEF low, rank
  <1>5. Cardinality(low) >= n
    BY <1>2, <1>3, <1>4, FS_Surjection
  <1>6. Cardinality(low) \in Nat
    BY <1>2, FS_CardinalityType
  <1>7. Cardinality(low) = n
    BY <1>1, <1>2, <1>5, <1>6
  <1>. QED
    BY <1>7 DEF low
-----------------------------------------------------------------------------
\* Positions that hold different ids are as many as their ids.
LEMMA IdsCount ==
    ASSUME NEW s, NEW T, IsFiniteSet(T), \A i, j \in T : s[i] = s[j] => i = j
    PROVE  Distinct(s, T)
  <1> DEFINE id == [i \in T |-> s[i]]
  <1>1. id \in Bijection(T, Ids(s, T))
    BY DEF Ids, Bijection, Injection, Surjection, IsInjective
  <1>2. ExistsBijection(T, Ids(s, T))
    <2>. HIDE DEF id
    <2>. QED
      BY <1>1 DEF ExistsBijection
  <1>. QED
    BY <1>2, FS_Bijection DEF Distinct

\* Positions of different sources are as many as their sources.
LEMMA SourcesCount ==
    ASSUME NEW s, NEW T, IsFiniteSet(T),
           \A i, j \in T : SourceOf[s[i]] = SourceOf[s[j]] => i = j
    PROVE  IsFiniteSet(Sources(s, T)) /\ Cardinality(Sources(s, T)) = Cardinality(T)
  <1> DEFINE source == [i \in T |-> SourceOf[s[i]]]
  <1>1. source \in Bijection(T, Sources(s, T))
    BY DEF Sources, Bijection, Injection, Surjection, IsInjective
  <1>2. ExistsBijection(T, Sources(s, T))
    <2>. HIDE DEF source
    <2>. QED
      BY <1>1 DEF ExistsBijection
  <1>. QED
    BY <1>2, FS_Bijection

\* There are finitely many sources in a finite set of positions.
LEMMA SourcesFinite ==
    ASSUME NEW s, NEW T, IsFiniteSet(T)
    PROVE  IsFiniteSet(Sources(s, T))
  <1> DEFINE source == [i \in T |-> SourceOf[s[i]]]
  <1>1. source \in Surjection(T, Sources(s, T))
    BY DEF Sources, Surjection
  <1>. QED
    <2>. HIDE DEF source
    <2>. QED
      BY <1>1, FS_Surjection

\* A window has finitely many positions.
LEMMA WindowFinite ==
    ASSUME NEW s \in Seq(Event), NEW T \in SUBSET DOMAIN s
    PROVE  IsFiniteSet(T) /\ Cardinality(T) \in Nat
  <1>1. DOMAIN s = 1..Len(s) /\ Len(s) \in Nat
    OBVIOUS
  <1>2. IsFiniteSet(1..Len(s))
    BY <1>1, FS_Interval
  <1>. QED
    BY <1>1, <1>2, FS_Subset, FS_CardinalityType

\* There are finitely many ids in positions of a window.
LEMMA IdsFinite ==
    ASSUME NEW s \in Seq(Event), NEW T \in SUBSET DOMAIN s
    PROVE  IsFiniteSet(Ids(s, T))
  <1> DEFINE id == [i \in T |-> s[i]]
  <1>1. IsFiniteSet(T)
    BY WindowFinite
  <1>2. id \in Surjection(T, Ids(s, T))
    BY DEF Ids, Surjection
  <1>. HIDE DEF id
  <1>. QED
    BY <1>1, <1>2, FS_Surjection

\* The order of sortByTimestampDesc as a set of pairs.
Newer(s) == {p \in Int \X Int : Before(s, p[1], p[2])}

\* sortByTimestampDesc orders any positions of a window.
LEMMA NewerOrders ==
    ASSUME NEW s \in Seq(Event), NEW T \in SUBSET DOMAIN s
    PROVE  /\ Orders(Newer(s), T)
           /\ \A i, j \in T : <<i, j>> \in Newer(s) <=> Before(s, i, j)
  <1>1. \A i \in DOMAIN s : i \in Int /\ s[i] \in Event /\ TimeOf[s[i]] \in Int
    BY EventsAssumption
  <1>2. \A i, j \in DOMAIN s : <<i, j>> \in Newer(s) <=> Before(s, i, j)
    BY <1>1 DEF Newer
  <1>3. \A i \in DOMAIN s : ~Before(s, i, i)
    BY <1>1 DEF Before, Older
  <1>4. \A i, j, k \in DOMAIN s : Before(s, i, j) /\ Before(s, j, k) => Before(s, i, k)
    BY <1>1 DEF Before, Older
  <1>5. \A i, j \in DOMAIN s : i = j \/ Before(s, i, j) \/ Before(s, j, i)
    BY <1>1 DEF Before, Older
  <1>6. Orders(Newer(s), T)
    <2>1. \A i \in T : i \in DOMAIN s
      OBVIOUS
    <2>. QED
      BY <2>1, <1>2, <1>3, <1>4, <1>5 DEF Orders
  <1>. QED
    BY <1>2, <1>6

\* The newest n are no more than n, and none if n is negative.
LEMMA TopSize ==
    ASSUME NEW s \in Seq(Event), NEW T \in SUBSET DOMAIN s, NEW n \in Int
    PROVE  /\ Top(s, T, n) \in SUBSET T
           /\ IsFiniteSet(Top(s, T, n))
           /\ n >= 0 => Cardinality(Top(s, T, n)) <= n
           /\ n < 0 => Top(s, T, n) = {}
  <1>1. Top(s, T, n) = {i \in T : Cardinality(Below(Newer(s), T, i)) < n}
    <2>1. \A i \in T : {j \in T : Before(s, j, i)} = Below(Newer(s), T, i)
      <3>1. \A i, j \in T : <<i, j>> \in Newer(s) <=> Before(s, i, j)
        BY NewerOrders
      <3>. QED
        BY <3>1 DEF Below
    <2>. QED
      BY <2>1, Zenon DEF Top
  <1>2. IsFiniteSet(T) /\ Cardinality(T) \in Nat /\ Orders(Newer(s), T)
    BY WindowFinite, NewerOrders
  <1>3. CASE n >= 0
    BY <1>1, <1>2, <1>3, LowRanks
  <1>4. CASE n < 0
    <2>1. \A i \in T : Cardinality(Below(Newer(s), T, i)) \in 0..Cardinality(T) - 1
      BY <1>2, RanksDiffer
    <2>2. Top(s, T, n) = {}
      BY <1>1, <1>2, <1>4, <2>1
    <2>. QED
      BY <2>2, <1>4, FS_EmptySet
  <1>. QED
    BY <1>3, <1>4
-----------------------------------------------------------------------------
\* The latest events of the sources are of different sources.
LEMMA LatestDiffer ==
    ASSUME NEW s \in Seq(Event)
    PROVE  /\ LatestPerSource(s) \in SUBSET DOMAIN s
           /\ \A i, j \in LatestPerSource(s) : SourceOf[s[i]] = SourceOf[s[j]] => i = j
  <1>1. ASSUME NEW i \in LatestPerSource(s), NEW j \in LatestPerSource(s),
               SourceOf[s[i]] = SourceOf[s[j]], i # j
        PROVE  FALSE
    <2>1. i \in DOMAIN s /\ j \in DOMAIN s /\ Before(s, i, j) /\ Before(s, j, i)
      BY <1>1 DEF LatestPerSource
    <2>. QED
      BY <2>1, EventsAssumption DEF Before, Older
  <1>. QED
    BY <1>1 DEF LatestPerSource

\* Each source has a latest event.
LEMMA LatestCover ==
    ASSUME NEW s \in Seq(Event)
    PROVE  Sources(s, LatestPerSource(s)) = Sources(s, DOMAIN s)
  <1>1. ASSUME NEW i \in DOMAIN s
        PROVE  SourceOf[s[i]] \in Sources(s, LatestPerSource(s))
    <2> DEFINE T == {j \in DOMAIN s : SourceOf[s[j]] = SourceOf[s[i]]}
    <2>1. T \in SUBSET DOMAIN s /\ T # {}
      OBVIOUS
    <2>2. \E l \in T : \A j \in T : j # l => <<l, j>> \in Newer(s)
      <3>. HIDE DEF T
      <3>. QED
        <4>1. IsFiniteSet(T) /\ Orders(Newer(s), T)
          BY <2>1, WindowFinite, NewerOrders
        <4>. QED
          BY <4>1, <2>1, HasFirst
    <2>3. PICK l \in T : \A j \in T : j # l => <<l, j>> \in Newer(s)
      BY <2>2
    <2>4. \A j \in T : j # l => Before(s, l, j)
      <3>. HIDE DEF T
      <3>. QED
        BY <2>1, <2>3, NewerOrders
    <2>5. l \in LatestPerSource(s) /\ SourceOf[s[l]] = SourceOf[s[i]]
      BY <2>4 DEF LatestPerSource
    <2>. QED
      BY <2>5 DEF Sources
  <1>2. LatestPerSource(s) \in SUBSET DOMAIN s
    BY LatestDiffer
  <1>. QED
    BY <1>1, <1>2 DEF Sources

\* As many sources are in some of the latest events as there are events, and
\* as many as in the window in all of them.
LEMMA LatestCount ==
    ASSUME NEW s \in Seq(Event), NEW T \in SUBSET LatestPerSource(s)
    PROVE  /\ IsFiniteSet(T) /\ Cardinality(T) \in Nat
           /\ Cardinality(Sources(s, T)) = Cardinality(T)
           /\ IsFiniteSet(LatestPerSource(s)) /\ Cardinality(LatestPerSource(s)) \in Nat
           /\ Cardinality(Sources(s, DOMAIN s)) = Cardinality(LatestPerSource(s))
           /\ Distinct(s, T)
  <1>1. LatestPerSource(s) \in SUBSET DOMAIN s
    BY LatestDiffer
  <1>2. /\ IsFiniteSet(LatestPerSource(s)) /\ Cardinality(LatestPerSource(s)) \in Nat
        /\ IsFiniteSet(T) /\ Cardinality(T) \in Nat
    BY <1>1, WindowFinite
  <1>3. \A i, j \in T : SourceOf[s[i]] = SourceOf[s[j]] => i = j
    BY LatestDiffer
  <1>4. Cardinality(Sources(s, T)) = Cardinality(T)
    BY <1>2, <1>3, SourcesCount
  <1>5. Cardinality(Sources(s, LatestPerSource(s))) = Cardinality(LatestPerSource(s))
    BY <1>2, LatestDiffer, SourcesCount
  <1>6. Distinct(s, T)
    <2>1. \A i, j \in T : s[i] = s[j] => i = j
      BY <1>3
    <2>. QED
      BY <2>1, <1>2, IdsCount
  <1>. QED
    BY <1>2, <1>4, <1>5, <1>6, LatestCover

\* More events cover as many sources.
LEMMA SourcesGrow ==
    ASSUME NEW s \in Seq(Event), NEW U \in SUBSET DOMAIN s, NEW T \in SUBSET U
    PROVE  /\ Cardinality(Sources(s, T)) \in Nat /\ Cardinality(Sources(s, U)) \in Nat
           /\ Cardinality(Sources(s, T)) <= Cardinality(Sources(s, U))
  <1>1. IsFiniteSet(U)
    BY WindowFinite
  <1>2. IsFiniteSet(Sources(s, U)) /\ Sources(s, T) \in SUBSET Sources(s, U)
    BY <1>1, SourcesFinite DEF Sources
  <1>. QED
    BY <1>2, FS_Subset, FS_CardinalityType

\* Filling up adds events with ids of their own, up to k.
LEMMA FillAdds ==
    ASSUME NEW s \in Seq(Event), NEW T \in SUBSET LatestPerSource(s), NEW k \in Int, k >= 0
    PROVE  LET U == Fill(s, T, k)
           IN  /\ U \in SUBSET DOMAIN s /\ T \in SUBSET U
               /\ Cardinality(U) \in Nat
               /\ Distinct(s, U)
               /\ Cardinality(U) <= k \/ Cardinality(U) <= Cardinality(T)
  <1> DEFINE free == {i \in DOMAIN s : s[i] \notin Ids(s, T)}
             first == {i \in free : \A j \in free : s[j] = s[i] => ~Before(s, j, i)}
             more == Top(s, first, k - Cardinality(T))
             U == T \cup more
  <1>1. U = Fill(s, T, k)
    BY DEF Fill
  <1>2. free \in SUBSET DOMAIN s /\ first \in SUBSET free /\ first \in SUBSET DOMAIN s
    OBVIOUS
  <1>3. IsFiniteSet(T) /\ Cardinality(T) \in Nat /\ T \in SUBSET DOMAIN s
    BY LatestCount, LatestDiffer
  <1>4. /\ more \in SUBSET first
        /\ IsFiniteSet(more)
        /\ k - Cardinality(T) >= 0 => Cardinality(more) <= k - Cardinality(T)
        /\ k - Cardinality(T) < 0 => more = {}
    <2>1. k - Cardinality(T) \in Int
      BY <1>3
    <2>. HIDE DEF first
    <2>. QED
      BY <1>2, <2>1, TopSize
  <1>5. U \in SUBSET DOMAIN s
    <2>. HIDE DEF free, first, more
    <2>. QED
      BY <1>2, <1>3, <1>4
  <1>6. Cardinality(U) \in Nat /\ IsFiniteSet(U) /\ Cardinality(more) \in Nat
    BY <1>4, <1>5, WindowFinite, FS_CardinalityType
  <1>7. \A i, j \in first : s[i] = s[j] => i = j
    <2>1. \A i, j \in DOMAIN s : i = j \/ Before(s, i, j) \/ Before(s, j, i)
      BY NewerOrders DEF Orders
    <2>. QED
      BY <1>2, <2>1
  <1>8. \A i \in T, j \in first : s[i] # s[j]
    BY DEF Ids
  <1>9. \A i, j \in T : s[i] = s[j] => i = j
    BY LatestDiffer
  <1>10. \A i, j \in U : s[i] = s[j] => i = j
    <2>. HIDE DEF free, first, more
    <2>. QED
      BY <1>4, <1>7, <1>8, <1>9
  <1>11. Distinct(s, U)
    <2>. HIDE DEF U
    <2>. QED
      BY <1>6, <1>10, IdsCount
  <1>12. Cardinality(U) <= k \/ Cardinality(U) <= Cardinality(T)
    <2>. HIDE DEF more
    <2>1. CASE more = {}
      BY <2>1, <1>3
    <2>2. CASE more # {}
      <3>1. Cardinality(U) <= Cardinality(T) + Cardinality(more)
        <4>1. Cardinality(T \cap more) \in Nat
          <5>1. IsFiniteSet(T \cap more)
            BY <1>3, FS_Subset, T \cap more \in SUBSET T
          <5>. QED
            BY <5>1, FS_CardinalityType
        <4>2. Cardinality(U) = Cardinality(T) + Cardinality(more) - Cardinality(T \cap more)
          BY <1>3, <1>4, FS_Union
        <4>. QED
          BY <4>1, <4>2, <1>3, <1>6
      <3>. QED
        BY <3>1, <2>2, <1>3, <1>4, <1>6
    <2>. QED
      BY <2>1, <2>2
  <1>. QED
    <2>. HIDE DEF U
    <2>1. T \in SUBSET U
      BY DEF U
    <2>. QED
      BY <2>1, <1>1, <1>5, <1>6, <1>11, <1>12
-----------------------------------------------------------------------------
\* The smaller and the larger of two numbers.
LEMMA OfTwo ==
    ASSUME NEW a \in Int, NEW b \in Int
    PROVE  /\ Min({a, b}) \in Int /\ Max({a, b}) \in Int
           /\ (Min({a, b}) = a \/ Min({a, b}) = b) /\ Min({a, b}) <= a /\ Min({a, b}) <= b
           /\ (Max({a, b}) = a \/ Max({a, b}) = b) /\ Max({a, b}) >= a /\ Max({a, b}) >= b
  <1>1. \E x \in {a, b} : \A y \in {a, b} : x <= y
    <2>1. CASE a <= b
      BY <2>1
    <2>2. CASE b <= a
      BY <2>2
    <2>. QED
      BY <2>1, <2>2
  <1>2. \E x \in {a, b} : \A y \in {a, b} : x >= y
    <2>1. CASE a <= b
      BY <2>1
    <2>2. CASE b <= a
      BY <2>2
    <2>. QED
      BY <2>1, <2>2
  <1>. QED
    BY <1>1, <1>2 DEF Min, Max

\* The smaller of two numbers whose order is known.
LEMMA Smaller ==
    ASSUME NEW a \in Int, NEW b \in Int, a <= b
    PROVE  Min({a, b}) = a /\ Min({b, a}) = a
  <1>1. Min({a, b}) = a
    <2>1. PICK x \in Int : x = Min({a, b}) /\ (x = a \/ x = b) /\ x <= a
      BY OfTwo
    <2>. QED
      BY <2>1
  <1>2. {b, a} = {a, b}
    OBVIOUS
  <1>. QED
    BY <1>1, <1>2

\* The share of the sources that need not be covered is not more than all.
LEMMA Share ==
    ASSUME NEW n \in Nat, NEW d \in 0..100
    PROVE  (n * (100 - d)) \div 100 \in 0..n
  <1>1. 100 - d \in 0..100
    OBVIOUS
  <1>2. n * (100 - d) \in Nat /\ n * (100 - d) <= n * 100
    BY <1>1
  <1>. QED
    BY <1>2

\* The code does not drop more sources than that share, nor less than none.
LEMMA DropsWithin ==
    ASSUME NEW n \in Nat, NEW d \in 0..100
    PROVE  ToDrop(n, d) \in 0..(n * (100 - d)) \div 100
  <1>1. Max({0, Min({d, 100})}) = d
    <2>1. PICK low, high \in Int : low = 0 /\ high = 100
      OBVIOUS
    <2>2. d \in Int /\ low <= d /\ d <= high
      BY <2>1
    <2>3. Min({d, high}) = d
      BY <2>2, OfTwo
    <2>4. Max({low, d}) = d
      BY <2>2, OfTwo
    <2>. QED
      BY <2>1, <2>3, <2>4
  <1>2. CASE <<n, d>> \in RoundsDown
    <2>1. PICK p \in RoundsDown : p = <<n, d>>
      BY <1>2
    <2>2. PICK m \in Nat : m = n * (100 - d)
      OBVIOUS
    <2>3. p[1] * (100 - p[2]) >= 100
      BY <2>1, RoundingAssumption
    <2>4. m >= 100
      BY <2>1, <2>2, <2>3
    <2>5. m \div 100 >= 1
      BY <2>4
    <2>6. ToDrop(n, d) = m \div 100 - 1
      BY <1>1, <1>2, <2>2 DEF ToDrop
    <2>7. m \div 100 \in 0..n
      BY <2>2, Share
    <2>. QED
      BY <2>2, <2>5, <2>6, <2>7
  <1>3. CASE <<n, d>> \notin RoundsDown
    <2>1. ToDrop(n, d) = (n * (100 - d)) \div 100 - 0
      BY <1>1, <1>3 DEF ToDrop
    <2>. QED
      BY <2>1, Share
  <1>. QED
    BY <1>2, <1>3

\* Of the ranked sources' events m are kept, random or not.
LEMMA KeptAre ==
    ASSUME NEW s, NEW P, NEW drop, NEW m, NEW random \in BOOLEAN,
           NEW T \in Kept(s, P, drop, m, random)
    PROVE  T \in SUBSET P /\ Cardinality(T) = m
  <1>1. CASE random
    BY <1>1 DEF Kept, kSubset
  <1>2. CASE ~random
    <2>1. PICK D : T \in Oldest(s, P \ D, m)
      BY <1>2 DEF Kept
    <2>2. T \in SUBSET (P \ D) /\ Cardinality(T) = m
      BY <2>1 DEF Oldest, kSubset
    <2>. QED
      BY <2>2
  <1>. QED
    BY <1>1, <1>2

\* What a strategy promises of a selection T: it is of the window, no id is
\* twice in it, it covers the sources it must and it is not too large.
Promised(strategy, s, k, diversity, T) ==
    /\ T \in SUBSET DOMAIN s
    /\ strategy # 1 => Distinct(s, T)
    /\ Cardinality(Sources(s, T)) >= Min({MustCover(strategy, s, diversity), k})
    /\ Cardinality(T) <= Max({k, IF strategy >= 4 THEN 1 ELSE 0})

\* Strategy 1 keeps its promise.
LEMMA LatestKeeps ==
    ASSUME NEW s \in Seq(Event), NEW k \in Int, k >= 0, NEW d \in 0..100,
           NEW T \in SelectLatest(s, k)
    PROVE  Promised(1, s, k, d, T)
  <1>1. T \in SUBSET DOMAIN s /\ Cardinality(T) <= k
    BY TopSize DEF SelectLatest
  <1>2. Cardinality(Sources(s, T)) \in Nat /\ Cardinality(T) \in Nat
    BY <1>1, SourcesGrow, WindowFinite
  <1>3. MustCover(1, s, d) = 0
    BY DEF MustCover
  <1>4. Min({0, k}) <= 0 /\ Min({0, k}) \in Int
    BY OfTwo, 0 \in Int
  <1>5. Max({k, 0}) >= k /\ Max({k, 0}) \in Int
    BY OfTwo, 0 \in Int
  <1>6. (IF 1 >= 4 THEN 1 ELSE 0) = 0
    OBVIOUS
  <1>7. Cardinality(Sources(s, T)) >= Min({MustCover(1, s, d), k})
    <2>1. Min({MustCover(1, s, d), k}) = Min({0, k})
      BY <1>3
    <2>. QED
      BY <2>1, <1>2, <1>4
  <1>8. Cardinality(T) <= Max({k, IF 1 >= 4 THEN 1 ELSE 0})
    BY <1>1, <1>2, <1>5, <1>6
  <1>. QED
    BY <1>1, <1>7, <1>8 DEF Promised

\* Strategy 2 keeps its promise.
LEMMA LatestPerSourceKeeps ==
    ASSUME NEW s \in Seq(Event), NEW k \in Int, k >= 0, NEW d \in 0..100,
           NEW T \in SelectLatestPerSource(s, k)
    PROVE  Promised(2, s, k, d, T)
  <1> DEFINE P == LatestPerSource(s)
  <1>1. T \in SUBSET P /\ Cardinality(T) = Min({k, Cardinality(P)})
    BY DEF SelectLatestPerSource, Newest, kSubset
  <1>2. T \in SUBSET DOMAIN s
    BY <1>1, LatestDiffer
  <1>3. /\ Cardinality(P) \in Nat
        /\ Cardinality(Sources(s, T)) = Cardinality(T)
        /\ Cardinality(Sources(s, DOMAIN s)) = Cardinality(P)
        /\ Distinct(s, T)
    BY <1>1, LatestCount
  <1>4. MustCover(2, s, d) = Cardinality(P)
    BY <1>3 DEF MustCover
  <1>. HIDE DEF P
  <1>5. Min({k, Cardinality(P)}) <= k /\ Min({k, Cardinality(P)}) \in Int
    BY <1>3, OfTwo, Cardinality(P) \in Int
  <1>6. Min({Cardinality(P), k}) = Min({k, Cardinality(P)})
    <2>1. {Cardinality(P), k} = {k, Cardinality(P)}
      OBVIOUS
    <2>. QED
      BY <2>1
  <1>7. Max({k, 0}) >= k /\ Max({k, 0}) \in Int
    BY OfTwo, 0 \in Int
  <1>8. (IF 2 >= 4 THEN 1 ELSE 0) = 0
    OBVIOUS
  <1>9. Cardinality(Sources(s, T)) >= Min({MustCover(2, s, d), k})
    <2>1. Min({MustCover(2, s, d), k}) = Min({Cardinality(P), k})
      BY <1>4
    <2>2. Cardinality(Sources(s, T)) = Min({k, Cardinality(P)})
      BY <1>1, <1>3
    <2>. QED
      BY <2>1, <2>2, <1>5, <1>6
  <1>10. Cardinality(T) <= Max({k, IF 2 >= 4 THEN 1 ELSE 0})
    BY <1>1, <1>5, <1>7, <1>8
  <1>. QED
    BY <1>2, <1>3, <1>9, <1>10 DEF Promised

\* A selection that is filled up from latest events of enough sources keeps the
\* promise of strategies 3 to 6.
LEMMA FillKeeps ==
    ASSUME NEW s \in Seq(Event), NEW k \in Int, k >= 0, NEW d \in 0..100,
           NEW strategy \in 3..6, NEW T \in SUBSET LatestPerSource(s),
           NEW must \in Int, must = MustCover(strategy, s, d),
           Cardinality(T) >= must \/ Cardinality(T) >= k,
           Cardinality(T) <= k \/ (strategy >= 4 /\ Cardinality(T) <= 1)
    PROVE  Promised(strategy, s, k, d, Fill(s, T, k))
  <1>1. PICK U : U = Fill(s, T, k)
    OBVIOUS
  <1>2. PICK most \in 0..1 : most = IF strategy >= 4 THEN 1 ELSE 0
    OBVIOUS
  <1>3. /\ U \in SUBSET DOMAIN s /\ T \in SUBSET U
        /\ Cardinality(U) \in Nat
        /\ Distinct(s, U)
        /\ Cardinality(U) <= k \/ Cardinality(U) <= Cardinality(T)
    BY <1>1, FillAdds
  <1>4. Cardinality(Sources(s, T)) = Cardinality(T) /\ Cardinality(T) \in Nat
    BY LatestCount
  <1>5. /\ Cardinality(Sources(s, U)) \in Nat
        /\ Cardinality(Sources(s, T)) <= Cardinality(Sources(s, U))
    BY <1>3, SourcesGrow
  <1>6. /\ Min({must, k}) \in Int /\ Min({must, k}) <= must /\ Min({must, k}) <= k
        /\ Max({k, most}) \in Int /\ Max({k, most}) >= k /\ Max({k, most}) >= most
    <2>1. Min({must, k}) \in Int /\ Min({must, k}) <= must /\ Min({must, k}) <= k
      BY OfTwo
    <2>2. Max({k, most}) \in Int /\ Max({k, most}) >= k /\ Max({k, most}) >= most
      <3>1. most \in Int
        OBVIOUS
      <3>. QED
        BY <3>1, OfTwo
    <2>. QED
      BY <2>1, <2>2
  <1>7. Cardinality(Sources(s, U)) >= Min({must, k})
    BY <1>4, <1>5, <1>6
  <1>8. Cardinality(U) <= Max({k, most})
    BY <1>2, <1>3, <1>4, <1>6
  <1>. QED
    BY <1>1, <1>2, <1>3, <1>7, <1>8 DEF Promised

\* Strategy 3 keeps its promise, whichever sources the map's order begins with.
LEMMA HybridKeeps ==
    ASSUME NEW s \in Seq(Event), NEW k \in Int, k >= 0, NEW d \in 0..100,
           NEW U \in SelectHybrid(s, k)
    PROVE  Promised(3, s, k, d, U)
  <1>1. PICK n : n = Cardinality(LatestPerSource(s))
    OBVIOUS
  <1>2. PICK T \in kSubset(Min({k, n}), LatestPerSource(s)) : U = Fill(s, T, k)
    BY <1>1 DEF SelectHybrid
  <1>3. T \in SUBSET LatestPerSource(s) /\ Cardinality(T) = Min({k, n})
    BY <1>2 DEF kSubset
  <1>4. n \in Nat /\ Cardinality(Sources(s, DOMAIN s)) = n
    BY <1>1, <1>3, LatestCount
  <1>5. MustCover(3, s, d) = n
    BY <1>4 DEF MustCover
  <1>6. /\ Min({k, n}) \in Int /\ Min({k, n}) <= k
        /\ Min({k, n}) = k \/ Min({k, n}) = n
    BY <1>4, OfTwo, n \in Int
  <1>7. /\ Cardinality(T) >= n \/ Cardinality(T) >= k
        /\ Cardinality(T) <= k
    BY <1>3, <1>4, <1>6
  <1>8. Promised(3, s, k, d, Fill(s, T, k))
    <2>1. 3 \in 3..6 /\ n \in Int
      BY <1>4
    <2>. QED
      BY <2>1, <1>3, <1>5, <1>7, FillKeeps
  <1>. QED
    BY <1>2, <1>8

\* Strategies 4 to 6 keep their promise, though they keep one event if k is 0.
LEMMA GuaranteedKeeps ==
    ASSUME NEW s \in Seq(Event), NEW k \in Int, k >= 0, NEW d \in 0..100,
           NEW strategy \in 4..6, NEW random \in BOOLEAN,
           NEW U \in SelectGuaranteedDiversity(s, k, d, random)
    PROVE  Promised(strategy, s, k, d, U)
  <1>1. PICK n, drop : n = Cardinality(LatestPerSource(s)) /\ drop = ToDrop(n, d)
    OBVIOUS
  <1>2. PICK m : m = Min({Max({k, 1}), n - drop})
    OBVIOUS
  <1>3. PICK T \in Kept(s, LatestPerSource(s), drop, m, random) : U = Fill(s, T, k)
    BY <1>1, <1>2 DEF SelectGuaranteedDiversity
  <1>4. T \in SUBSET LatestPerSource(s) /\ Cardinality(T) = m
    BY <1>3, KeptAre
  <1>5. n \in Nat /\ Cardinality(Sources(s, DOMAIN s)) = n
    BY <1>1, <1>4, LatestCount
  <1>6. PICK share \in 0..n : share = (n * (100 - d)) \div 100 /\ drop \in 0..share
    BY <1>1, <1>5, Share, DropsWithin, ZenonT(60)
  <1>7. MustCover(strategy, s, d) = n - share
    <2>1. strategy # 1 /\ strategy \notin {2, 3}
      OBVIOUS
    <2>. QED
      BY <2>1, <1>5, <1>6, Zenon DEF MustCover
  <1>8. /\ Max({k, 1}) \in Int /\ Max({k, 1}) >= k
        /\ Max({k, 1}) = k \/ Max({k, 1}) = 1
    BY OfTwo, 1 \in Int
  <1>9. /\ m \in Int /\ m <= Max({k, 1})
        /\ m = Max({k, 1}) \/ m = n - drop
    <2>1. n - drop \in Int
      BY <1>5, <1>6
    <2>. QED
      BY <2>1, <1>2, <1>8, OfTwo
  <1>10. /\ m >= n - share \/ m >= k
         /\ m <= k \/ m <= 1
    BY <1>5, <1>6, <1>8, <1>9
  <1>11. Promised(strategy, s, k, d, Fill(s, T, k))
    <2>1. strategy \in 3..6 /\ strategy >= 4 /\ n - share \in Int
      BY <1>5, <1>6
    <2>. QED
      BY <2>1, <1>4, <1>7, <1>10, FillKeeps
  <1>. QED
    BY <1>3, <1>11

\* Whatever Select may return of a window keeps its strategy's promise.
LEMMA SelectionsKeep ==
    ASSUME NEW s \in Seq(Event), NEW strategy \in Int, NEW k \in Int, NEW d \in 0..100,
           ~Refused(strategy, k), NEW T \in Selections(strategy, s, k, d)
    PROVE  Promised(strategy, s, k, d, T)
  <1>1. k >= 0 /\ strategy \in 1..6
    BY DEF Refused
  <1>2. CASE strategy = 1
    <2>1. T \in SelectLatest(s, k)
      BY <1>2 DEF Selections
    <2>. QED
      BY <2>1, <1>1, <1>2, LatestKeeps
  <1>3. CASE strategy = 2
    <2>1. T \in SelectLatestPerSource(s, k)
      BY <1>3 DEF Selections
    <2>. QED
      BY <2>1, <1>1, <1>3, LatestPerSourceKeeps
  <1>4. CASE strategy = 3
    <2>1. T \in SelectHybrid(s, k)
      BY <1>4 DEF Selections
    <2>. QED
      BY <2>1, <1>1, <1>4, HybridKeeps
  <1>5. CASE strategy \in {4, 6}
    <2>1. T \in SelectGuaranteedDiversity(s, k, d, FALSE)
      <3>1. strategy # 1 /\ strategy # 2 /\ strategy # 3 /\ strategy # 5
        BY <1>5
      <3>. QED
        BY <3>1, <1>5, Zenon DEF Selections
    <2>2. strategy \in 4..6
      BY <1>5
    <2>. QED
      BY <2>1, <2>2, <1>1, GuaranteedKeeps
  <1>6. CASE strategy = 5
    <2>1. T \in SelectGuaranteedDiversity(s, k, d, TRUE)
      <3>1. strategy # 1 /\ strategy # 2 /\ strategy # 3 /\ strategy \notin {4, 6}
        BY <1>6
      <3>. QED
        BY <3>1, <1>6, Zenon DEF Selections
    <2>2. strategy \in 4..6
      BY <1>6
    <2>. QED
      BY <2>1, <2>2, <1>1, GuaranteedKeeps
  <1>. QED
    BY <1>1, <1>2, <1>3, <1>4, <1>5, <1>6
-----------------------------------------------------------------------------
\* What holds of 0 and of n + 1 if it holds of n holds of all numbers.  The
\* library's induction over an operator is this one over the set of the numbers
\* for which it holds.
LEMMA Induction ==
    ASSUME NEW G, 0 \in G, \A n \in Nat : n \in G => n + 1 \in G
    PROVE  \A n \in Nat : n \in G
  <1> DEFINE less == {p \in Nat \X Nat : p[1] < p[2]}
  <1>1. IsWellFoundedOn(less, Nat)
    <2>1. less = OpToRel(<, Nat)
      BY DEF OpToRel
    <2>. QED
      BY <2>1, NatLessThanWellFounded
  <1>2. SUFFICES ASSUME Nat \ G # {}
                 PROVE  FALSE
    OBVIOUS
  <1>3. PICK x \in Nat \ G : \A y \in Nat \ G : <<y, x>> \notin less
    <2>. HIDE DEF less
    <2>. QED
      BY <1>1, <1>2, WFMin, Nat \ G \subseteq Nat
  <1>4. x # 0
    OBVIOUS
  <1>5. x - 1 \in Nat /\ <<x - 1, x>> \in less
    BY <1>4
  <1>6. x - 1 \in G
    <2>. HIDE DEF less
    <2>. QED
      BY <1>3, <1>5
  <1>7. (x - 1) + 1 \in G
    BY <1>5, <1>6, Zenon
  <1>. QED
    BY <1>7
-----------------------------------------------------------------------------
\* The element that a sum takes out of T first.
Picked(T) == CHOOSE x \in T : TRUE

\* The subsets of S of at most n elements.
Small(S, n) == {T \in SUBSET S : Cardinality(T) <= n}

\* h adds up the numbers f on the sets of D.
AddsUp(h, f, D) ==
    h = [T \in D |-> IF T = {} THEN 0 ELSE f[Picked(T)] + h[T \ {Picked(T)}]]

\* What is left of a finite set without an element.
LEMMA PickedOut ==
    ASSUME NEW S, IsFiniteSet(S), NEW T \in SUBSET S, T # {}, NEW x \in T
    PROVE  /\ Picked(T) \in T
           /\ IsFiniteSet(T) /\ Cardinality(T) \in Nat \ {0}
           /\ T \ {x} \in SUBSET S /\ IsFiniteSet(T \ {x})
           /\ Cardinality(T \ {x}) = Cardinality(T) - 1
  <1>1. Picked(T) \in T
    BY DEF Picked
  <1>2. IsFiniteSet(T) /\ Cardinality(T) \in Nat
    BY FS_Subset, FS_CardinalityType
  <1>3. Cardinality(T) # 0
    BY <1>2, FS_EmptySet
  <1>. QED
    BY <1>1, <1>2, <1>3, FS_RemoveElement

\* Numbers can be added up on the subsets of a finite set: on those of at most
\* n elements for every n.
LEMMA SumExists ==
    ASSUME NEW S, IsFiniteSet(S), NEW f \in [S -> Int]
    PROVE  \E h \in [SUBSET S -> Int] : AddsUp(h, f, SUBSET S)
  <1> DEFINE G == {n \in Nat : \E h \in [Small(S, n) -> Int] : AddsUp(h, f, Small(S, n))}
  <1>0. /\ \A n \in Nat : Small(S, n) \subseteq SUBSET S
        /\ \A n \in Nat, T \in SUBSET S : T \in Small(S, n) <=> Cardinality(T) <= n
        /\ \A T \in SUBSET S : Cardinality(T) \in Nat /\ (Cardinality(T) = 0 => T = {})
    BY FS_Subset, FS_CardinalityType, FS_EmptySet DEF Small
  <1>a. \A T \in SUBSET S : T # {} =>
           /\ Picked(T) \in S
           /\ T \ {Picked(T)} \in SUBSET S
           /\ Cardinality(T \ {Picked(T)}) = Cardinality(T) - 1
    BY PickedOut
  <1>1. 0 \in G
    <2> DEFINE h == [T \in Small(S, 0) |-> 0]
    <2>1. \A T \in Small(S, 0) : T = {}
      BY <1>0
    <2>2. h \in [Small(S, 0) -> Int] /\ AddsUp(h, f, Small(S, 0))
      BY <2>1 DEF AddsUp
    <2>. QED
      BY <2>2
  <1>2. ASSUME NEW n \in Nat, n \in G
        PROVE  n + 1 \in G
    <2>1. PICK h \in [Small(S, n) -> Int] : AddsUp(h, f, Small(S, n))
      BY <1>2
    <2> DEFINE g == [T \in Small(S, n + 1) |->
                        IF T = {} THEN 0 ELSE f[Picked(T)] + h[T \ {Picked(T)}]]
    <2>2. \A T \in Small(S, n + 1) : T # {} =>
             /\ Picked(T) \in S
             /\ T \ {Picked(T)} \in Small(S, n)
             /\ T \ {Picked(T)} \in Small(S, n + 1)
      BY <1>0, <1>a
    <2>3. g \in [Small(S, n + 1) -> Int]
      BY <2>1, <2>2
    <2>4. \A T \in Small(S, n) : h[T] = IF T = {} THEN 0 ELSE f[Picked(T)] + h[T \ {Picked(T)}]
      BY <2>1 DEF AddsUp
    <2>5. Small(S, n) \subseteq Small(S, n + 1)
      BY <1>0
    <2>6. \A T \in Small(S, n) : g[T] = h[T]
      BY <2>4, <2>5
    <2>7. AddsUp(g, f, Small(S, n + 1))
      <3>1. \A T \in Small(S, n + 1) :
               g[T] = IF T = {} THEN 0 ELSE f[Picked(T)] + g[T \ {Picked(T)}]
        BY <2>2, <2>6
      <3>. HIDE DEF g
      <3>. QED
        BY <2>3, <3>1 DEF AddsUp
    <2>. HIDE DEF g
    <2>8. n + 1 \in Nat
      OBVIOUS
    <2>9. \E k \in [Small(S, n + 1) -> Int] : AddsUp(k, f, Small(S, n + 1))
      BY <2>3, <2>7
    <2>. QED
      BY <2>8, <2>9
  <1>3. Cardinality(S) \in G
    <2>. HIDE DEF G
    <2>. QED
      BY <1>1, <1>2, Induction, FS_CardinalityType
  <1>4. Small(S, Cardinality(S)) = SUBSET S
    BY FS_Subset, FS_CardinalityType DEF Small
  <1>. QED
    BY <1>3, <1>4

\* There is one sum, whether it is defined on the subsets of A or of S.
LEMMA OneSum ==
    ASSUME NEW S, IsFiniteSet(S), NEW f \in [S -> Int],
           NEW A \in SUBSET S,
           NEW g, AddsUp(g, f, SUBSET A), NEW h, AddsUp(h, f, SUBSET S)
    PROVE  g[A] = h[A]
  <1> DEFINE G == {n \in Nat : \A T \in SUBSET A : Cardinality(T) = n => g[T] = h[T]}
  <1>1. \A T \in SUBSET A : /\ g[T] = IF T = {} THEN 0 ELSE f[Picked(T)] + g[T \ {Picked(T)}]
                            /\ h[T] = IF T = {} THEN 0 ELSE f[Picked(T)] + h[T \ {Picked(T)}]
    BY DEF AddsUp
  <1>2. \A T \in SUBSET A : T # {} => /\ T \ {Picked(T)} \in SUBSET A
                                      /\ Cardinality(T) \in Nat \ {0}
                                      /\ Cardinality(T \ {Picked(T)}) = Cardinality(T) - 1
    BY PickedOut, FS_Subset
  <1>3. 0 \in G
    BY <1>1, <1>2
  <1>4. ASSUME NEW n \in Nat, n \in G
        PROVE  n + 1 \in G
    <2>1. ASSUME NEW T \in SUBSET A, Cardinality(T) = n + 1
          PROVE  g[T] = h[T]
      <3>1. T # {}
        BY <2>1, FS_EmptySet, n + 1 # 0
      <3>2. T \ {Picked(T)} \in SUBSET A /\ Cardinality(T \ {Picked(T)}) = n
        BY <2>1, <3>1, <1>2
      <3>3. g[T \ {Picked(T)}] = h[T \ {Picked(T)}]
        BY <1>4, <3>2
      <3>. HIDE DEF G
      <3>. QED
        BY <1>1, <3>1, <3>3
    <2>2. n + 1 \in Nat
      OBVIOUS
    <2>. QED
      BY <2>1, <2>2
  <1>5. Cardinality(A) \in Nat
    BY FS_Subset, FS_CardinalityType
  <1>6. Cardinality(A) \in G
    <2>. HIDE DEF G
    <2>. QED
      BY <1>3, <1>4, <1>5, Induction
  <1>. QED
    BY <1>6

\* The age of a selection is the sum of its timestamps, negated.
LEMMA AgeIsSum ==
    ASSUME NEW s \in Seq(Event), NEW f, f = [i \in DOMAIN s |-> TimeOf[s[i]]],
           NEW h \in [SUBSET DOMAIN s -> Int], AddsUp(h, f, SUBSET DOMAIN s),
           NEW A \in SUBSET DOMAIN s
    PROVE  Age(s, A) = -h[A]
  <1>1. f \in [DOMAIN s -> Int]
    BY EventsAssumption
  <1>2. IsFiniteSet(DOMAIN s) /\ IsFiniteSet(A)
    BY WindowFinite
  <1> DEFINE g == [T \in SUBSET A |-> h[T]]
  <1> DEFINE Adds(it) == it = [T \in SUBSET A |-> IF T = {} THEN 0
                                  ELSE TimeOf[s[CHOOSE x \in T : TRUE]] + it[T \ {CHOOSE x \in T : TRUE}]]
  <1>3. \A it : Adds(it) <=> AddsUp(it, f, SUBSET A)
    <2>1. \A T \in SUBSET A : T # {} => (CHOOSE x \in T : TRUE) \in DOMAIN s
      OBVIOUS
    <2>. SUFFICES ASSUME NEW it
                  PROVE  Adds(it) <=> AddsUp(it, f, SUBSET A)
      OBVIOUS
    <2>2. [T \in SUBSET A |-> IF T = {} THEN 0
              ELSE TimeOf[s[CHOOSE x \in T : TRUE]] + it[T \ {CHOOSE x \in T : TRUE}]]
          = [T \in SUBSET A |-> IF T = {} THEN 0 ELSE f[Picked(T)] + it[T \ {Picked(T)}]]
      BY <2>1 DEF Picked
    <2>. QED
      BY <2>2, Zenon DEF AddsUp
  <1>4. Adds(g)
    <2>1. \A T \in SUBSET A : T # {} => T \ {Picked(T)} \in SUBSET A
      OBVIOUS
    <2>2. \A T \in SUBSET DOMAIN s : h[T] = IF T = {} THEN 0 ELSE f[Picked(T)] + h[T \ {Picked(T)}]
      BY DEF AddsUp
    <2>3. AddsUp(g, f, SUBSET A)
      BY <2>1, <2>2 DEF AddsUp
    <2>. HIDE DEF g, Adds
    <2>. QED
      BY <1>3, <2>3
  <1>5. PICK it : it = (CHOOSE iter : Adds(iter)) /\ Adds(it)
    <2>. HIDE DEF Adds
    <2>. QED
      BY <1>4
  <1>6. Age(s, A) = -it[A]
    BY <1>5 DEF Age, MapThenSumSet, MapThenFoldSet
  <1>7. AddsUp(it, f, SUBSET A)
    <2>. HIDE DEF Adds
    <2>. QED
      BY <1>3, <1>5
  <1>8. it[A] = h[A]
    BY <1>1, <1>2, <1>7, OneSum
  <1>. QED
    BY <1>6, <1>8

\* Any element may be taken out of a sum first.
TakesOut(h, f, S) == \A A \in SUBSET S : \A a \in A : h[A] = f[a] + h[A \ {a}]

\* So it may be of a sum that is defined by taking out one that was picked.
LEMMA AnyOut ==
    ASSUME NEW S, IsFiniteSet(S), NEW f \in [S -> Int],
           NEW h \in [SUBSET S -> Int], AddsUp(h, f, SUBSET S)
    PROVE  TakesOut(h, f, S)
  <1> DEFINE G == {n \in Nat : \A T \in SUBSET S : Cardinality(T) = n =>
                                  \A x \in T : h[T] = f[x] + h[T \ {x}]}
  <1>1. \A T \in SUBSET S : h[T] = IF T = {} THEN 0 ELSE f[Picked(T)] + h[T \ {Picked(T)}]
    BY DEF AddsUp
  <1>2. 0 \in G
    BY PickedOut
  <1>3. ASSUME NEW n \in Nat, n \in G
        PROVE  n + 1 \in G
    <2>1. ASSUME NEW T \in SUBSET S, Cardinality(T) = n + 1, NEW x \in T
          PROVE  h[T] = f[x] + h[T \ {x}]
      <3>1. PICK y : y = Picked(T) /\ y \in T
        BY PickedOut
      <3>2. h[T] = f[y] + h[T \ {y}]
        BY <1>1, <3>1
      <3>3. CASE x = y
        BY <3>2, <3>3
      <3>4. CASE x # y
        <4> DEFINE U == (T \ {x}) \ {y}
        <4>1. /\ Cardinality(T \ {x}) = n /\ T \ {x} \in SUBSET S
              /\ Cardinality(T \ {y}) = n /\ T \ {y} \in SUBSET S
          <5>1. /\ Cardinality(T \ {x}) = Cardinality(T) - 1 /\ T \ {x} \in SUBSET S
                /\ Cardinality(T \ {y}) = Cardinality(T) - 1 /\ T \ {y} \in SUBSET S
            BY <3>1, PickedOut
          <5>. QED
            BY <2>1, <5>1
        <4>2. y \in T \ {x} /\ x \in T \ {y} /\ U = (T \ {y}) \ {x}
          BY <3>1, <3>4
        <4>3. h[T \ {x}] = f[y] + h[U] /\ h[T \ {y}] = f[x] + h[U]
          <5>1. \A V \in SUBSET S : Cardinality(V) = n => \A z \in V : h[V] = f[z] + h[V \ {z}]
            BY <1>3
          <5>2. h[T \ {x}] = f[y] + h[(T \ {x}) \ {y}] /\ h[T \ {y}] = f[x] + h[(T \ {y}) \ {x}]
            BY <4>1, <4>2, <5>1
          <5>. QED
            BY <4>2, <5>2
        <4>4. f[x] \in Int /\ f[y] \in Int /\ h[U] \in Int
          BY <3>1
        <4>. HIDE DEF U, G
        <4>. QED
          BY <3>2, <4>3, <4>4
      <3>. QED
        BY <3>3, <3>4
    <2>2. n + 1 \in Nat
      OBVIOUS
    <2>. QED
      BY <2>1, <2>2
  <1>4. \A A \in SUBSET S : Cardinality(A) \in G
    <2>1. \A n \in Nat : n \in G
      <3>. HIDE DEF G
      <3>. QED
        BY <1>2, <1>3, Induction
    <2>. QED
      BY <2>1, FS_Subset, FS_CardinalityType
  <1>. QED
    BY <1>4 DEF TakesOut

\* The age of a selection, element by element.
LEMMA AgeOf ==
    ASSUME NEW s \in Seq(Event)
    PROVE  /\ Age(s, {}) = 0
           /\ \A A \in SUBSET DOMAIN s :
                 /\ Age(s, A) \in Int
                 /\ \A a \in A : Age(s, A) = Age(s, A \ {a}) - TimeOf[s[a]]
  <1>1. PICK f : f = [i \in DOMAIN s |-> TimeOf[s[i]]]
    OBVIOUS
  <1>2. f \in [DOMAIN s -> Int] /\ IsFiniteSet(DOMAIN s)
    BY <1>1, WindowFinite, EventsAssumption
  <1>3. PICK h \in [SUBSET DOMAIN s -> Int] : AddsUp(h, f, SUBSET DOMAIN s)
    BY <1>2, SumExists
  <1>4. \A A \in SUBSET DOMAIN s : Age(s, A) = -h[A]
    BY <1>1, <1>3, AgeIsSum
  <1>5. TakesOut(h, f, DOMAIN s)
    BY <1>2, <1>3, AnyOut
  <1>6. h[{}] = 0
    BY <1>3 DEF AddsUp
  <1>7. ASSUME NEW A \in SUBSET DOMAIN s, NEW a \in A
        PROVE  Age(s, A) = Age(s, A \ {a}) - TimeOf[s[a]]
    <2>1. A \ {a} \in SUBSET DOMAIN s /\ f[a] = TimeOf[s[a]] /\ f[a] \in Int
      BY <1>1, <1>2
    <2>2. Age(s, A) = -h[A] /\ Age(s, A \ {a}) = -h[A \ {a}] /\ h[A] = f[a] + h[A \ {a}]
      BY <1>4, <1>5, <2>1 DEF TakesOut
    <2>3. h[A \ {a}] \in Int
      BY <2>1
    <2>. QED
      BY <2>1, <2>2, <2>3
  <1>8. \A A \in SUBSET DOMAIN s : Age(s, A) \in Int
    BY <1>4
  <1>9. Age(s, {}) = 0
    BY <1>4, <1>6
  <1>. QED
    BY <1>7, <1>8, <1>9
-----------------------------------------------------------------------------
\* The events of T that are not older than t.
Since(s, T, t) == {i \in T : TimeOf[s[i]] >= t}

\* A is as fresh as T: of no age has it fewer events.
AsFresh(s, A, T) ==
    \A t \in Int : Cardinality(Since(s, A, t)) >= Cardinality(Since(s, T, t))

\* Without one of its events a selection has one less of its age.
LEMMA SinceWithout ==
    ASSUME NEW s \in Seq(Event), NEW A \in SUBSET DOMAIN s, NEW a \in A, NEW t \in Int
    PROVE  /\ Cardinality(Since(s, A, t)) \in Nat
           /\ Cardinality(Since(s, A \ {a}, t)) =
                 Cardinality(Since(s, A, t)) - (IF TimeOf[s[a]] >= t THEN 1 ELSE 0)
  <1>1. IsFiniteSet(Since(s, A, t)) /\ Cardinality(Since(s, A, t)) \in Nat
    <2>1. Since(s, A, t) \in SUBSET DOMAIN s
      BY DEF Since
    <2>. QED
      BY <2>1, WindowFinite
  <1>2. Since(s, A \ {a}, t) = Since(s, A, t) \ {a}
    BY DEF Since
  <1>3. a \in Since(s, A, t) <=> TimeOf[s[a]] >= t
    BY DEF Since
  <1>4. Cardinality(Since(s, A, t) \ {a}) =
          IF a \in Since(s, A, t) THEN Cardinality(Since(s, A, t)) - 1 ELSE Cardinality(Since(s, A, t))
    BY <1>1, FS_RemoveElement
  <1>5. CASE a \in Since(s, A, t)
    <2>1. Cardinality(Since(s, A \ {a}, t)) = Cardinality(Since(s, A, t)) - 1
      BY <1>2, <1>4, <1>5
    <2>. QED
      BY <1>1, <1>3, <1>5, <2>1
  <1>6. CASE a \notin Since(s, A, t)
    <2>1. Cardinality(Since(s, A \ {a}, t)) = Cardinality(Since(s, A, t))
      BY <1>2, <1>4, <1>6
    <2>. QED
      BY <1>1, <1>3, <1>6, <2>1
  <1>. QED
    BY <1>5, <1>6

\* The newest event of a selection.
LEMMA HasNewest ==
    ASSUME NEW s \in Seq(Event), NEW T \in SUBSET DOMAIN s, T # {}
    PROVE  \E i \in T : \A j \in T : TimeOf[s[j]] <= TimeOf[s[i]]
  <1>1. IsFiniteSet(T) /\ Orders(Newer(s), T)
    BY WindowFinite, NewerOrders
  <1>2. PICK i \in T : \A j \in T : j # i => <<i, j>> \in Newer(s)
    BY <1>1, HasFirst
  <1>3. \A j \in T : j # i => Before(s, i, j)
    BY <1>2, NewerOrders
  <1>4. \A j \in T : TimeOf[s[j]] \in Int
    BY EventsAssumption
  <1>5. \A j \in T : TimeOf[s[j]] <= TimeOf[s[i]]
    BY <1>3, <1>4 DEF Before, Older
  <1>. QED
    BY <1>5

\* If the selection A has of no age fewer events than T, it is not older in
\* total: the newest of A is not older than that of T, and so on without them.
LEMMA FreshIsYoung ==
    ASSUME NEW s \in Seq(Event), NEW A \in SUBSET DOMAIN s, NEW T \in SUBSET DOMAIN s,
           Cardinality(A) = Cardinality(T), AsFresh(s, A, T)
    PROVE  Age(s, A) <= Age(s, T)
  <1> DEFINE G == {n \in Nat : \A B, U \in SUBSET DOMAIN s :
                      /\ Cardinality(B) = n /\ Cardinality(U) = n /\ AsFresh(s, B, U)
                      => Age(s, B) <= Age(s, U)}
  <1>1. 0 \in G
    <2>1. \A B \in SUBSET DOMAIN s : Cardinality(B) = 0 => B = {}
      BY WindowFinite, FS_EmptySet
    <2>2. Age(s, {}) = 0
      BY AgeOf
    <2>. QED
      BY <2>1, <2>2, 0 <= 0
  <1>2. ASSUME NEW n \in Nat, n \in G
        PROVE  n + 1 \in G
    <2>1. ASSUME NEW B \in SUBSET DOMAIN s, NEW U \in SUBSET DOMAIN s,
                 Cardinality(B) = n + 1, Cardinality(U) = n + 1, AsFresh(s, B, U)
          PROVE  Age(s, B) <= Age(s, U)
      <3>1. /\ IsFiniteSet(B) /\ B # {}
            /\ IsFiniteSet(U) /\ U # {}
        BY <2>1, WindowFinite, FS_EmptySet, n + 1 # 0
      <3>2. PICK b \in B : \A j \in B : TimeOf[s[j]] <= TimeOf[s[b]]
        BY <3>1, HasNewest
      <3>3. PICK u \in U : \A j \in U : TimeOf[s[j]] <= TimeOf[s[u]]
        BY <3>1, HasNewest
      <3>4. PICK tb, tu \in Int : tb = TimeOf[s[b]] /\ tu = TimeOf[s[u]]
        BY EventsAssumption
      <3>5. tb >= tu
        <4>1. u \in Since(s, U, tu) /\ IsFiniteSet(Since(s, U, tu))
          BY <3>1, <3>4, FS_Subset DEF Since
        <4>2. Cardinality(Since(s, U, tu)) \in Nat \ {0}
          BY <4>1, FS_EmptySet, FS_CardinalityType
        <4>3. Cardinality(Since(s, B, tu)) # 0
          BY <2>1, <4>2 DEF AsFresh
        <4>4. Since(s, B, tu) # {}
          BY <4>3, FS_EmptySet
        <4>5. PICK i \in B : TimeOf[s[i]] >= tu
          BY <4>4 DEF Since
        <4>6. TimeOf[s[i]] \in Int /\ TimeOf[s[i]] <= tb
          BY <3>2, <3>4, EventsAssumption
        <4>. QED
          BY <4>5, <4>6
      <3>6. /\ Cardinality(B \ {b}) = n /\ B \ {b} \in SUBSET DOMAIN s
            /\ Cardinality(U \ {u}) = n /\ U \ {u} \in SUBSET DOMAIN s
        <4>1. /\ Cardinality(B \ {b}) = Cardinality(B) - 1 /\ B \ {b} \in SUBSET DOMAIN s
              /\ Cardinality(U \ {u}) = Cardinality(U) - 1 /\ U \ {u} \in SUBSET DOMAIN s
          BY <3>1, FS_RemoveElement
        <4>. QED
          BY <2>1, <4>1
      <3>7. AsFresh(s, B \ {b}, U \ {u})
        <4>. SUFFICES ASSUME NEW t \in Int
                      PROVE  Cardinality(Since(s, B \ {b}, t)) >= Cardinality(Since(s, U \ {u}, t))
          BY DEF AsFresh
        <4>1. Cardinality(Since(s, B, t)) >= Cardinality(Since(s, U, t))
          BY <2>1 DEF AsFresh
        <4>2. /\ Cardinality(Since(s, B, t)) \in Nat
              /\ Cardinality(Since(s, B \ {b}, t)) =
                    Cardinality(Since(s, B, t)) - (IF tb >= t THEN 1 ELSE 0)
              /\ Cardinality(Since(s, U, t)) \in Nat
              /\ Cardinality(Since(s, U \ {u}, t)) =
                    Cardinality(Since(s, U, t)) - (IF tu >= t THEN 1 ELSE 0)
          BY <3>4, SinceWithout
        <4>3. CASE tu >= t
          BY <3>4, <3>5, <4>1, <4>2, <4>3
        <4>4. CASE ~(tu >= t)
          <5>1. Since(s, U \ {u}, t) = {}
            <6>1. \A j \in U : TimeOf[s[j]] \in Int /\ TimeOf[s[j]] <= tu
              BY <3>3, <3>4, EventsAssumption
            <6>. QED
              BY <6>1, <3>4, <4>4 DEF Since
          <5>2. Cardinality(Since(s, B \ {b}, t)) \in Nat
            <6>1. Since(s, B \ {b}, t) \in SUBSET DOMAIN s
              BY DEF Since
            <6>. QED
              BY <6>1, WindowFinite
          <5>3. Cardinality(Since(s, U \ {u}, t)) = 0
            BY <5>1, FS_EmptySet, Zenon
          <5>. QED
            BY <5>2, <5>3
        <4>. QED
          BY <4>3, <4>4
      <3>8. Age(s, B \ {b}) <= Age(s, U \ {u})
        BY <1>2, <3>6, <3>7
      <3>9. /\ Age(s, B) = Age(s, B \ {b}) - tb /\ Age(s, B \ {b}) \in Int
            /\ Age(s, U) = Age(s, U \ {u}) - tu /\ Age(s, U \ {u}) \in Int
        BY <3>4, <3>6, AgeOf
      <3>. HIDE DEF G
      <3>. QED
        BY <3>4, <3>5, <3>8, <3>9
    <2>2. n + 1 \in Nat
      OBVIOUS
    <2>. QED
      BY <2>1, <2>2
  <1>3. Cardinality(A) \in G
    <2>. HIDE DEF G
    <2>. QED
      BY <1>1, <1>2, Induction, WindowFinite
  <1>. QED
    BY <1>3
-----------------------------------------------------------------------------
\* Two sets that have nothing in common are together as large as both.
LEMMA Disjoint ==
    ASSUME NEW X, NEW Y, IsFiniteSet(X), IsFiniteSet(Y), X \cap Y = {}
    PROVE  Cardinality(X \cup Y) = Cardinality(X) + Cardinality(Y)
  <1>1. Cardinality(X \cup Y) = Cardinality(X) + Cardinality(Y) - Cardinality(X \cap Y)
    BY FS_Union
  <1>2. Cardinality(X \cap Y) = 0 /\ Cardinality(X) \in Nat /\ Cardinality(Y) \in Nat
    BY FS_EmptySet, FS_CardinalityType
  <1>. QED
    BY <1>1, <1>2

\* The ids and the sources of some events are no more than the events, and
\* those of a part no fewer than those of all by more than the rest.
LEMMA PartCounts ==
    ASSUME NEW s \in Seq(Event), NEW T \in SUBSET DOMAIN s, NEW U \in SUBSET T
    PROVE  /\ Cardinality(T) \in Nat /\ Cardinality(U) \in Nat /\ Cardinality(U) <= Cardinality(T)
           /\ Cardinality(Ids(s, U)) \in Nat /\ Cardinality(Sources(s, U)) \in Nat
           /\ Cardinality(Ids(s, U)) <= Cardinality(U)
           /\ Cardinality(Sources(s, U)) <= Cardinality(U)
           /\ Cardinality(Ids(s, T)) - Cardinality(Ids(s, U)) <= Cardinality(T) - Cardinality(U)
           /\ Cardinality(Sources(s, T)) - Cardinality(Sources(s, U)) <= Cardinality(T) - Cardinality(U)
  <1>1. /\ IsFiniteSet(T) /\ Cardinality(T) \in Nat
        /\ IsFiniteSet(U) /\ Cardinality(U) \in Nat /\ Cardinality(U) <= Cardinality(T)
    BY WindowFinite, FS_Subset
  <1>2. /\ IsFiniteSet(T \ U) /\ Cardinality(T \ U) = Cardinality(T) - Cardinality(U)
    <2>1. T \cap U = U
      OBVIOUS
    <2>. QED
      BY <1>1, <2>1, FS_Difference
  <1>3. ASSUME NEW V \in SUBSET T
        PROVE  /\ IsFiniteSet(Ids(s, V)) /\ Cardinality(Ids(s, V)) <= Cardinality(V)
               /\ IsFiniteSet(Sources(s, V)) /\ Cardinality(Sources(s, V)) <= Cardinality(V)
    <2> DEFINE id == [i \in V |-> s[i]]
               source == [i \in V |-> SourceOf[s[i]]]
    <2>1. IsFiniteSet(V)
      BY <1>1, FS_Subset
    <2>2. id \in Surjection(V, Ids(s, V))
      BY DEF Ids, Surjection
    <2>3. source \in Surjection(V, Sources(s, V))
      BY DEF Sources, Surjection
    <2>. HIDE DEF id, source
    <2>. QED
      BY <2>1, <2>2, <2>3, FS_Surjection
  <1>4. ASSUME NEW X, NEW Y, IsFiniteSet(X), IsFiniteSet(Y)
        PROVE  /\ Cardinality(X \cup Y) \in Nat /\ Cardinality(X) \in Nat /\ Cardinality(Y) \in Nat
               /\ Cardinality(X \cup Y) <= Cardinality(X) + Cardinality(Y)
    <2>1. IsFiniteSet(X \cap Y) /\ IsFiniteSet(X \cup Y)
      BY <1>4, FS_Intersection, FS_Union
    <2>2. /\ Cardinality(X \cap Y) \in Nat /\ Cardinality(X) \in Nat /\ Cardinality(Y) \in Nat
          /\ Cardinality(X \cup Y) \in Nat
      BY <1>4, <2>1, FS_CardinalityType
    <2>3. Cardinality(X \cup Y) = Cardinality(X) + Cardinality(Y) - Cardinality(X \cap Y)
      BY <1>4, FS_Union
    <2>4. Cardinality(X \cup Y) <= Cardinality(X) + Cardinality(Y)
      BY <2>2, <2>3
    <2>. QED
      BY <2>2, <2>4
  <1>5. /\ Ids(s, T) = Ids(s, U) \cup Ids(s, T \ U)
        /\ Sources(s, T) = Sources(s, U) \cup Sources(s, T \ U)
    BY DEF Ids, Sources
  <1>6. /\ Cardinality(Ids(s, U)) \in Nat /\ Cardinality(Ids(s, T)) \in Nat
        /\ Cardinality(Ids(s, T \ U)) \in Nat
        /\ Cardinality(Ids(s, U)) <= Cardinality(U)
        /\ Cardinality(Ids(s, T)) <= Cardinality(Ids(s, U)) + Cardinality(Ids(s, T \ U))
        /\ Cardinality(Ids(s, T \ U)) <= Cardinality(T \ U)
    BY <1>3, <1>4, <1>5, T \ U \in SUBSET T
  <1>7. /\ Cardinality(Sources(s, U)) \in Nat /\ Cardinality(Sources(s, T)) \in Nat
        /\ Cardinality(Sources(s, T \ U)) \in Nat
        /\ Cardinality(Sources(s, U)) <= Cardinality(U)
        /\ Cardinality(Sources(s, T)) <= Cardinality(Sources(s, U)) + Cardinality(Sources(s, T \ U))
        /\ Cardinality(Sources(s, T \ U)) <= Cardinality(T \ U)
    BY <1>3, <1>4, <1>5, T \ U \in SUBSET T
  <1>. QED
    BY <1>1, <1>2, <1>6, <1>7

\* N are newest of X: no other of X is newer than one of them.
NewestOf(s, X, N) == N \in SUBSET X /\ \A i \in N, j \in X \ N : ~Older(s, i, j)

\* Of no age have the newest fewer than all have, unless all of them are.
LEMMA NewestSince ==
    ASSUME NEW s \in Seq(Event), NEW X \in SUBSET DOMAIN s, NEW N, NewestOf(s, X, N), NEW t \in Int
    PROVE  Since(s, N, t) = Since(s, X, t) \/ Since(s, N, t) = N
  <1>1. \A i \in X : TimeOf[s[i]] \in Int
    BY EventsAssumption
  <1>. QED
    BY <1>1 DEF NewestOf, Older, Since

\* Top takes the newest.
LEMMA TopIsNewest ==
    ASSUME NEW s \in Seq(Event), NEW X \in SUBSET DOMAIN s, NEW n \in Int
    PROVE  NewestOf(s, X, Top(s, X, n))
  <1>1. ASSUME NEW i \in X, NEW j \in X, Older(s, i, j),
               Cardinality({l \in X : Before(s, l, i)}) < n
        PROVE  Cardinality({l \in X : Before(s, l, j)}) < n
    <2> DEFINE I == {l \in X : Before(s, l, i)}
               J == {l \in X : Before(s, l, j)}
    <2>1. \A l \in X : TimeOf[s[l]] \in Int
      BY EventsAssumption
    <2>2. J \in SUBSET I
      BY <1>1, <2>1 DEF Before, Older
    <2>3. IsFiniteSet(I) /\ Cardinality(I) \in Nat /\ Cardinality(J) \in Nat
      BY WindowFinite, I \in SUBSET DOMAIN s, J \in SUBSET DOMAIN s
    <2>. HIDE DEF J
    <2>4. Cardinality(J) <= Cardinality(I)
      BY <2>2, <2>3, FS_Subset
    <2>. QED
      BY <1>1, <2>3, <2>4 DEF J
  <1>. QED
    BY <1>1 DEF NewestOf, Top

\* Of a source that has an event of some age, the latest is of that age; so
\* the events of an age are not more than the sources that have one and the
\* events by which T is larger than its sources.
LEMMA SinceOfSources ==
    ASSUME NEW s \in Seq(Event), NEW T \in SUBSET DOMAIN s, NEW t \in Int
    PROVE  Cardinality(Since(s, T, t)) <=
             Cardinality(T) - Cardinality(Sources(s, T)) + Cardinality(Since(s, LatestPerSource(s), t))
  <1> DEFINE P == LatestPerSource(s)
  <1>1. P \in SUBSET DOMAIN s
    BY LatestDiffer
  <1>2. Since(s, T, t) \in SUBSET T /\ Since(s, P, t) \in SUBSET P
    BY DEF Since
  <1>3. Sources(s, Since(s, T, t)) \in SUBSET Sources(s, Since(s, P, t))
    <2>1. ASSUME NEW i \in Since(s, T, t)
          PROVE  \E l \in Since(s, P, t) : SourceOf[s[l]] = SourceOf[s[i]]
      <3>1. i \in DOMAIN s /\ TimeOf[s[i]] >= t
        BY DEF Since
      <3>2. PICK l \in P : SourceOf[s[l]] = SourceOf[s[i]]
        <4>1. SourceOf[s[i]] \in Sources(s, DOMAIN s)
          BY <3>1 DEF Sources
        <4>2. SourceOf[s[i]] \in Sources(s, P)
          BY <4>1, LatestCover
        <4>. QED
          BY <4>2 DEF Sources
      <3>3. l = i \/ Before(s, l, i)
        BY <3>1, <3>2 DEF LatestPerSource
      <3>4. TimeOf[s[i]] \in Int /\ TimeOf[s[l]] \in Int
        BY <1>1, <3>1, EventsAssumption
      <3>5. TimeOf[s[l]] >= t
        BY <3>1, <3>3, <3>4 DEF Before, Older
      <3>. QED
        BY <3>2, <3>5 DEF Since
    <2>. QED
      BY <2>1 DEF Sources
  <1>4. Cardinality(Sources(s, Since(s, T, t))) <= Cardinality(Since(s, P, t))
    <2>1. IsFiniteSet(Sources(s, Since(s, P, t)))
      BY <1>1, <1>2, WindowFinite, SourcesFinite
    <2>2. Cardinality(Sources(s, Since(s, T, t))) <= Cardinality(Sources(s, Since(s, P, t)))
      BY <1>3, <2>1, FS_Subset
    <2>3. /\ Cardinality(Sources(s, Since(s, P, t))) <= Cardinality(Since(s, P, t))
          /\ Cardinality(Sources(s, Since(s, P, t))) \in Nat /\ Cardinality(Since(s, P, t)) \in Nat
      BY <1>1, <1>2, PartCounts
    <2>4. Cardinality(Sources(s, Since(s, T, t))) \in Nat
      BY <1>2, PartCounts
    <2>. QED
      BY <2>2, <2>3, <2>4
  <1>5. /\ Cardinality(T) \in Nat /\ Cardinality(Since(s, T, t)) \in Nat
        /\ Cardinality(Sources(s, Since(s, T, t))) \in Nat
        /\ Cardinality(Sources(s, T)) - Cardinality(Sources(s, Since(s, T, t)))
             <= Cardinality(T) - Cardinality(Since(s, T, t))
    BY <1>2, PartCounts
  <1>6. Cardinality(Sources(s, T)) \in Nat /\ Cardinality(Since(s, P, t)) \in Nat
    BY <1>1, <1>2, PartCounts, T \in SUBSET T
  <1>. QED
    BY <1>4, <1>5, <1>6
-----------------------------------------------------------------------------
\* The events of no age are more in T than in a selection none of which is
\* older, if the selection is as large.
LEMMA AllSince ==
    ASSUME NEW s \in Seq(Event), NEW A \in SUBSET DOMAIN s, NEW T \in SUBSET DOMAIN s,
           Cardinality(T) <= Cardinality(A), NEW t, Since(s, A, t) = A
    PROVE  Cardinality(Since(s, A, t)) >= Cardinality(Since(s, T, t))
  <1>1. Since(s, T, t) \in SUBSET T
    BY DEF Since
  <1>2. /\ Cardinality(T) \in Nat /\ Cardinality(A) \in Nat /\ Cardinality(Since(s, T, t)) \in Nat
        /\ Cardinality(Since(s, T, t)) <= Cardinality(T)
    BY <1>1, WindowFinite, FS_Subset
  <1>. QED
    BY <1>2

\* Strategy 1: no selection as large is fresher.
LEMMA LatestIsFresh ==
    ASSUME NEW s \in Seq(Event), NEW k \in Int, NEW A \in SelectLatest(s, k),
           NEW T \in SUBSET DOMAIN s, Cardinality(T) = Cardinality(A)
    PROVE  A \in SUBSET DOMAIN s /\ AsFresh(s, A, T)
  <1>1. NewestOf(s, DOMAIN s, A)
    BY TopIsNewest, DOMAIN s \in SUBSET DOMAIN s DEF SelectLatest
  <1>2. A \in SUBSET DOMAIN s
    BY <1>1 DEF NewestOf
  <1>3. ASSUME NEW t \in Int
        PROVE  Cardinality(Since(s, A, t)) >= Cardinality(Since(s, T, t))
    <2>0. Cardinality(A) \in Nat /\ Cardinality(T) <= Cardinality(A)
      BY <1>2, WindowFinite
    <2>1. CASE Since(s, A, t) = A
      BY <1>2, <2>0, <2>1, AllSince
    <2>2. CASE Since(s, A, t) = Since(s, DOMAIN s, t)
      <3>1. /\ Since(s, T, t) \in SUBSET Since(s, DOMAIN s, t)
            /\ Since(s, DOMAIN s, t) \in SUBSET DOMAIN s
        BY DEF Since
      <3>2. Cardinality(Since(s, T, t)) <= Cardinality(Since(s, DOMAIN s, t))
        BY <3>1, WindowFinite, FS_Subset
      <3>3. Cardinality(Since(s, T, t)) \in Nat /\ Cardinality(Since(s, DOMAIN s, t)) \in Nat
        BY <3>1, WindowFinite
      <3>. QED
        BY <2>2, <3>2, <3>3
    <2>. QED
      BY <1>1, <2>1, <2>2, NewestSince, DOMAIN s \in SUBSET DOMAIN s
  <1>. QED
    BY <1>2, <1>3 DEF AsFresh

\* Strategy 2: none of as many sources is, wherever a tie falls.
LEMMA LatestPerSourceIsFresh ==
    ASSUME NEW s \in Seq(Event), NEW k \in Int, NEW A \in SelectLatestPerSource(s, k),
           NEW T \in SUBSET DOMAIN s, Cardinality(T) = Cardinality(A),
           Cardinality(Sources(s, T)) >= Cardinality(T)
    PROVE  A \in SUBSET DOMAIN s /\ AsFresh(s, A, T)
  <1> DEFINE P == LatestPerSource(s)
  <1>1. NewestOf(s, P, A)
    BY DEF SelectLatestPerSource, Newest, kSubset, NewestOf
  <1>2. P \in SUBSET DOMAIN s /\ A \in SUBSET DOMAIN s
    BY <1>1, LatestDiffer DEF NewestOf
  <1>3. ASSUME NEW t \in Int
        PROVE  Cardinality(Since(s, A, t)) >= Cardinality(Since(s, T, t))
    <2>0. Cardinality(A) \in Nat /\ Cardinality(T) <= Cardinality(A)
      BY <1>2, WindowFinite
    <2>1. CASE Since(s, A, t) = A
      BY <1>2, <2>0, <2>1, AllSince
    <2>2. CASE Since(s, A, t) = Since(s, P, t)
      <3>1. Since(s, T, t) \in SUBSET T /\ Since(s, P, t) \in SUBSET P
        BY DEF Since
      <3>2. /\ Cardinality(T) \in Nat /\ Cardinality(Sources(s, T)) \in Nat
            /\ Cardinality(Since(s, T, t)) \in Nat /\ Cardinality(Since(s, P, t)) \in Nat
        BY <1>2, <3>1, WindowFinite, PartCounts, T \in SUBSET T
      <3>3. Cardinality(Since(s, T, t)) <=
              Cardinality(T) - Cardinality(Sources(s, T)) + Cardinality(Since(s, P, t))
        BY SinceOfSources
      <3>. QED
        BY <2>2, <3>2, <3>3
    <2>. QED
      BY <1>1, <1>2, <2>1, <2>2, NewestSince
  <1>. QED
    BY <1>2, <1>3 DEF AsFresh

\* Of the events that fill a selection up to k there is one for each id that
\* is not in it yet.
LEMMA FirstOfId ==
    ASSUME NEW s \in Seq(Event), NEW free \in SUBSET DOMAIN s, NEW i \in free
    PROVE  \E l \in {x \in free : \A j \in free : s[j] = s[x] => ~Before(s, j, x)} : s[l] = s[i]
  <1> DEFINE same == {j \in free : s[j] = s[i]}
  <1>1. same \in SUBSET DOMAIN s /\ same # {}
    OBVIOUS
  <1>2. PICK l \in same : \A j \in same : j # l => Before(s, l, j)
    <2>. HIDE DEF same
    <2>1. IsFiniteSet(same) /\ Orders(Newer(s), same)
      BY <1>1, WindowFinite, NewerOrders
    <2>2. PICK l \in same : \A j \in same : j # l => <<l, j>> \in Newer(s)
      BY <1>1, <2>1, HasFirst
    <2>. QED
      BY <1>1, <2>2, NewerOrders
  <1>3. \A j \in same : ~Before(s, j, l)
    <2>1. \A j \in DOMAIN s : TimeOf[s[j]] \in Int /\ j \in Int
      BY EventsAssumption
    <2>. QED
      BY <1>1, <1>2, <2>1 DEF Before, Older
  <1>. QED
    BY <1>3

\* Filling up newest latest events: no selection of as many sources that is as
\* large and has no id twice is fresher.
LEMMA FillIsFresh ==
    ASSUME NEW s \in Seq(Event), NEW k \in Int, k >= 0,
           NEW N, NewestOf(s, LatestPerSource(s), N), NEW A, A = Fill(s, N, k),
           NEW T \in SUBSET DOMAIN s, Cardinality(T) = Cardinality(A), Distinct(s, T),
           Cardinality(Sources(s, T)) >= Cardinality(N)
    PROVE  A \in SUBSET DOMAIN s /\ AsFresh(s, A, T)
  <1> DEFINE P == LatestPerSource(s)
             free == {i \in DOMAIN s : s[i] \notin Ids(s, N)}
             first == {i \in free : \A j \in free : s[j] = s[i] => ~Before(s, j, i)}
             more == Top(s, first, k - Cardinality(N))
  <1>1. A = N \cup more
    BY DEF Fill
  <1>2. P \in SUBSET DOMAIN s /\ N \in SUBSET P
    BY LatestDiffer DEF NewestOf
  <1>3. A \in SUBSET DOMAIN s
    BY <1>2, FillAdds
  <1>4. first \in SUBSET DOMAIN s /\ N \cap first = {}
    BY DEF Ids
  <1>5. NewestOf(s, first, more)
    <2>. HIDE DEF first
    <2>1. k - Cardinality(N) \in Int
      BY <1>2, WindowFinite
    <2>. QED
      BY <1>4, <2>1, TopIsNewest
  <1>6. ASSUME NEW i \in DOMAIN s
        PROVE  \E l \in N \cup first : s[l] = s[i]
    <2>1. CASE i \in free
      BY <2>1, FirstOfId, free \in SUBSET DOMAIN s
    <2>2. CASE i \notin free
      BY <2>2 DEF Ids
    <2>. QED
      BY <2>1, <2>2
  <1>. HIDE DEF P, free, first, more
  <1>7. more \in SUBSET first
    BY <1>5 DEF NewestOf
  <1>8. ASSUME NEW t \in Int
        PROVE  Cardinality(Since(s, A, t)) >= Cardinality(Since(s, T, t))
    <2>1. /\ Since(s, A, t) = Since(s, N, t) \cup Since(s, more, t)
          /\ Since(s, A, t) \in SUBSET A /\ Since(s, T, t) \in SUBSET T
          /\ Since(s, P, t) \in SUBSET P
      BY <1>1 DEF Since
    <2>2. Since(s, N, t) = N \/ Since(s, N, t) = Since(s, P, t)
      BY <1>2, NewestSince DEF P
    <2>3. Since(s, more, t) = more \/ Since(s, more, t) = Since(s, first, t)
      BY <1>4, <1>5, NewestSince
    <2>4. CASE Since(s, more, t) = more /\ Since(s, N, t) = N
      <3>1. Since(s, A, t) = A
        BY <1>1, <2>1, <2>4
      <3>2. Cardinality(A) \in Nat /\ Cardinality(T) <= Cardinality(A)
        BY <1>3, WindowFinite
      <3>. QED
        BY <1>3, <3>1, <3>2, AllSince
    <2>5. CASE Since(s, more, t) = more /\ Since(s, N, t) = Since(s, P, t)
      <3>1. /\ IsFiniteSet(N) /\ Cardinality(N) \in Nat
            /\ IsFiniteSet(more) /\ Cardinality(more) \in Nat
            /\ IsFiniteSet(Since(s, N, t)) /\ Cardinality(Since(s, N, t)) \in Nat
        <4>1. /\ N \in SUBSET DOMAIN s /\ more \in SUBSET DOMAIN s
              /\ Since(s, N, t) \in SUBSET DOMAIN s
          BY <1>2, <1>4, <1>7 DEF Since
        <4>. QED
          BY <4>1, WindowFinite
      <3>2. N \cap more = {} /\ Since(s, N, t) \cap more = {}
        BY <1>4, <1>7 DEF Since
      <3>3. /\ Cardinality(A) = Cardinality(N) + Cardinality(more)
            /\ Cardinality(Since(s, A, t)) = Cardinality(Since(s, N, t)) + Cardinality(more)
        <4>1. Cardinality(N \cup more) = Cardinality(N) + Cardinality(more)
          BY <3>1, <3>2, Disjoint
        <4>2. Cardinality(Since(s, N, t) \cup more) = Cardinality(Since(s, N, t)) + Cardinality(more)
          BY <3>1, <3>2, Disjoint
        <4>. QED
          BY <1>1, <2>1, <2>5, <4>1, <4>2
      <3>4. Cardinality(Since(s, T, t)) <=
              Cardinality(T) - Cardinality(Sources(s, T)) + Cardinality(Since(s, N, t))
        BY <2>5, SinceOfSources DEF P
      <3>5. Cardinality(Sources(s, T)) \in Nat /\ Cardinality(Since(s, T, t)) \in Nat
        BY <2>1, PartCounts, T \in SUBSET T
      <3>. QED
        BY <3>1, <3>3, <3>4, <3>5
    <2>6. CASE Since(s, more, t) = Since(s, first, t)
      <3>1. Ids(s, Since(s, T, t)) \in SUBSET Ids(s, Since(s, A, t))
        <4>1. ASSUME NEW i \in Since(s, T, t)
              PROVE  \E l \in Since(s, A, t) : s[l] = s[i]
          <5>1. PICK l \in N \cup first : s[l] = s[i]
            BY <1>6 DEF Since
          <5>2. TimeOf[s[l]] >= t
            BY <5>1 DEF Since
          <5>3. l \in Since(s, N, t) \cup Since(s, first, t)
            BY <5>2 DEF Since
          <5>. QED
            BY <2>1, <2>6, <5>1, <5>3
        <4>. QED
          BY <4>1 DEF Ids
      <3>2. /\ Cardinality(Since(s, T, t)) \in Nat /\ Cardinality(T) \in Nat
            /\ Cardinality(Ids(s, Since(s, T, t))) \in Nat
            /\ Cardinality(T) - Cardinality(Ids(s, Since(s, T, t))) <= Cardinality(T) - Cardinality(Since(s, T, t))
        BY <2>1, PartCounts DEF Distinct
      <3>3. /\ Cardinality(Since(s, A, t)) \in Nat
            /\ Cardinality(Ids(s, Since(s, A, t))) \in Nat
            /\ Cardinality(Ids(s, Since(s, A, t))) <= Cardinality(Since(s, A, t))
        BY <1>3, <2>1, PartCounts
      <3>4. Cardinality(Ids(s, Since(s, T, t))) <= Cardinality(Ids(s, Since(s, A, t)))
        <4>1. IsFiniteSet(Ids(s, Since(s, A, t)))
          BY <1>3, <2>1, IdsFinite
        <4>. QED
          BY <3>1, <4>1, FS_Subset
      <3>. QED
        BY <3>2, <3>3, <3>4
    <2>. QED
      BY <2>2, <2>3, <2>4, <2>5, <2>6
  <1>. QED
    BY <1>3, <1>8 DEF AsFresh

\* Strategy 3, if k allows all sources.
LEMMA HybridIsFresh ==
    ASSUME NEW s \in Seq(Event), NEW k \in Int, k >= 0, NEW A \in SelectHybrid(s, k),
           NEW n, n = Cardinality(LatestPerSource(s)), n <= k,
           NEW T \in SUBSET DOMAIN s, Cardinality(T) = Cardinality(A), Distinct(s, T),
           Cardinality(Sources(s, T)) >= Min({n, Cardinality(A)})
    PROVE  A \in SUBSET DOMAIN s /\ AsFresh(s, A, T)
  <1>1. PICK N \in kSubset(Min({k, n}), LatestPerSource(s)) : A = Fill(s, N, k)
    BY DEF SelectHybrid
  <1>2. N \in SUBSET LatestPerSource(s) /\ Cardinality(N) = Min({k, n})
    BY <1>1 DEF kSubset
  <1>3. /\ n \in Nat /\ IsFiniteSet(LatestPerSource(s))
        /\ A \in SUBSET DOMAIN s /\ Cardinality(A) \in Nat /\ N \in SUBSET A
    BY <1>1, <1>2, LatestCount, FillAdds
  <1>4. Cardinality(N) = n
    <2>1. n \in Int
      BY <1>3
    <2>. QED
      BY <1>2, <2>1, Smaller
  <1>5. N = LatestPerSource(s)
    BY <1>2, <1>3, <1>4, FS_Subset
  <1>6. NewestOf(s, LatestPerSource(s), N)
    BY <1>5 DEF NewestOf
  <1>7. Min({n, Cardinality(A)}) = n
    <2>1. Cardinality(N) <= Cardinality(A)
      BY <1>3, WindowFinite, FS_Subset
    <2>2. n \in Int /\ Cardinality(A) \in Int
      BY <1>3
    <2>. QED
      BY <1>4, <2>1, <2>2, Smaller
  <1>. QED
    BY <1>1, <1>3, <1>4, <1>6, <1>7, FillIsFresh

\* What the oldest leave are the newest.
LEMMA OldestDropped ==
    ASSUME NEW s, NEW P, IsFiniteSet(P), NEW drop, NEW rest, rest = Cardinality(P) - drop,
           NEW N \in Kept(s, P, drop, rest, FALSE)
    PROVE  NewestOf(s, P, N) /\ Cardinality(N) = rest
  <1>1. PICK D \in Oldest(s, P, drop) : N \in Oldest(s, P \ D, rest)
    BY DEF Kept
  <1>2. /\ D \in SUBSET P /\ Cardinality(D) = drop
        /\ \A i \in D, j \in P \ D : ~Older(s, j, i)
        /\ N \in SUBSET (P \ D) /\ Cardinality(N) = rest
    BY <1>1 DEF Oldest, kSubset
  <1>3. IsFiniteSet(P \ D) /\ Cardinality(P \ D) = rest
    <2>1. P \cap D = D
      BY <1>2
    <2>2. IsFiniteSet(D) /\ Cardinality(P) \in Nat
      BY <1>2, FS_Subset, FS_CardinalityType
    <2>. QED
      BY <1>2, <2>1, <2>2, FS_Difference
  <1>4. N = P \ D
    BY <1>2, <1>3, FS_Subset
  <1>. QED
    BY <1>2, <1>4 DEF NewestOf

\* Strategies 4 and 6, if k allows the share of the sources and no more than
\* its complement is dropped.
LEMMA GuaranteedIsFresh ==
    ASSUME NEW s \in Seq(Event), NEW k \in Int, k >= 0, NEW d \in 0..100,
           NEW A \in SelectGuaranteedDiversity(s, k, d, FALSE),
           NEW n \in Nat, n = Cardinality(LatestPerSource(s)),
           NEW drop \in 0..n, drop = ToDrop(n, d), NEW must \in Int, must = n - drop, must <= k,
           NEW T \in SUBSET DOMAIN s, Cardinality(T) = Cardinality(A), Distinct(s, T),
           Cardinality(Sources(s, T)) >= Min({must, Cardinality(A)})
    PROVE  A \in SUBSET DOMAIN s /\ AsFresh(s, A, T)
  <1>1. IsFiniteSet(LatestPerSource(s))
    BY LatestCount, LatestPerSource(s) \in SUBSET LatestPerSource(s)
  <1>2. PICK most \in Int : most = Max({k, 1}) /\ most >= k
    BY OfTwo, 1 \in Int
  <1>3. Min({most, must}) = must
    <2>1. must <= most
      BY <1>2
    <2>. QED
      BY <2>1, Smaller
  <1>4. PICK N \in Kept(s, LatestPerSource(s), drop, must, FALSE) : A = Fill(s, N, k)
    BY <1>2, <1>3, Zenon DEF SelectGuaranteedDiversity
  <1>5. NewestOf(s, LatestPerSource(s), N) /\ Cardinality(N) = must
    <2>1. must = Cardinality(LatestPerSource(s)) - drop
      OBVIOUS
    <2>. QED
      BY ONLY <1>1, <1>4, <2>1, OldestDropped
  <1>6. A \in SUBSET DOMAIN s /\ Cardinality(A) \in Nat /\ N \in SUBSET A
    BY <1>4, <1>5, FillAdds DEF NewestOf
  <1>7. Min({must, Cardinality(A)}) = must
    <2>1. Cardinality(N) <= Cardinality(A)
      BY <1>6, WindowFinite, FS_Subset
    <2>2. Cardinality(A) \in Int
      BY <1>6
    <2>. QED
      BY <1>5, <2>1, <2>2, Smaller
  <1>. QED
    BY <1>4, <1>5, <1>6, <1>7, FillIsFresh

\* Strategies 4 and 6 drop the share of the n sources that the percentage says.
DropsItsShare(strategy, n, d) == strategy \in {4, 6} => ToDrop(n, d) = (n * (100 - d)) \div 100

\* A selection of any strategy but the random one is, of those that are as
\* large and keep the strategy's promise, one that is not older than any.
LEMMA SelectionsAreFresh ==
    ASSUME NEW s \in Seq(Event), NEW strategy \in Int, NEW k \in Int, NEW d \in 0..100,
           ~Refused(strategy, k), strategy # 5, NEW A \in Selections(strategy, s, k, d),
           NEW must, must = MustCover(strategy, s, d), strategy = 2 \/ must <= k,
           DropsItsShare(strategy, Cardinality(Sources(s, DOMAIN s)), d),
           NEW T \in SUBSET DOMAIN s, Cardinality(T) = Cardinality(A),
           strategy = 1 \/ Distinct(s, T),
           Cardinality(Sources(s, T)) >= Min({must, Cardinality(A)})
    PROVE  Age(s, A) <= Age(s, T)
  <1>1. k >= 0 /\ strategy \in {1, 2, 3, 4, 6}
    BY DEF Refused
  <1>2. PICK n \in Nat : n = Cardinality(Sources(s, DOMAIN s)) /\ n = Cardinality(LatestPerSource(s))
    BY LatestCount, LatestPerSource(s) \in SUBSET LatestPerSource(s)
  <1>3. CASE strategy = 1
    <2>1. A \in SelectLatest(s, k)
      BY <1>3 DEF Selections
    <2>. QED
      BY <2>1, LatestIsFresh, FreshIsYoung
  <1>4. CASE strategy = 2
    <2>1. A \in SelectLatestPerSource(s, k)
      BY <1>4 DEF Selections
    <2>2. must = n
      BY <1>2, <1>4 DEF MustCover
    <2>3. Cardinality(A) = Min({k, n})
      BY <1>2, <2>1 DEF SelectLatestPerSource, Newest, kSubset
    <2>4. Min({must, Cardinality(A)}) = Cardinality(A)
      <3>1. Cardinality(A) \in Int /\ Cardinality(A) <= n
        BY <1>2, <2>3, OfTwo, n \in Int
      <3>. QED
        BY <2>2, <3>1, Smaller, n \in Int
    <2>5. Cardinality(Sources(s, T)) >= Cardinality(T)
      BY <2>4
    <2>6. A \in SUBSET DOMAIN s /\ AsFresh(s, A, T)
      BY <2>1, <2>5, LatestPerSourceIsFresh
    <2>. QED
      BY <2>6, FreshIsYoung
  <1>5. CASE strategy = 3
    <2>1. A \in SelectHybrid(s, k)
      BY <1>5 DEF Selections
    <2>2. must = n /\ n <= k /\ Distinct(s, T)
      BY <1>2, <1>5 DEF MustCover
    <2>3. A \in SUBSET DOMAIN s /\ AsFresh(s, A, T)
      BY <1>1, <1>2, <2>1, <2>2, HybridIsFresh
    <2>. QED
      BY <2>3, FreshIsYoung
  <1>6. CASE strategy \in {4, 6}
    <2>1. A \in SelectGuaranteedDiversity(s, k, d, FALSE)
      <3>1. strategy # 1 /\ strategy # 2 /\ strategy # 3
        BY <1>6
      <3>. QED
        BY <3>1, <1>6, Zenon DEF Selections
    <2>2. PICK drop : drop = ToDrop(n, d) /\ drop = (n * (100 - d)) \div 100
      BY <1>2, <1>6 DEF DropsItsShare
    <2>a. drop \in 0..n
      BY <2>2, Share
    <2>3. must = n - drop /\ must \in Int /\ must <= k /\ Distinct(s, T)
      <3>1. strategy # 1 /\ strategy \notin {2, 3} /\ strategy # 2
        BY <1>6
      <3>2. MustCover(strategy, s, d) = n - drop
        BY <3>1, <1>2, <2>2, Zenon DEF MustCover
      <3>. QED
        BY <2>a, <3>1, <3>2
    <2>4. A \in SUBSET DOMAIN s /\ AsFresh(s, A, T)
      BY <1>1, <1>2, <2>1, <2>2, <2>a, <2>3, GuaranteedIsFresh
    <2>. QED
      BY <2>4, FreshIsYoung
  <1>. QED
    BY <1>1, <1>3, <1>4, <1>5, <1>6
-----------------------------------------------------------------------------
\* Of some positions of a window there are n newest and n oldest.
LEMMA SomeAre ==
    ASSUME NEW s \in Seq(Event), NEW T \in SUBSET DOMAIN s, NEW n \in 0..Cardinality(T)
    PROVE  Newest(s, T, n) # {} /\ Oldest(s, T, n) # {}
  <1>1. IsFiniteSet(T) /\ Cardinality(T) \in Nat /\ Orders(Newer(s), T)
    BY WindowFinite, NewerOrders
  <1>2. ASSUME NEW m \in 0..Cardinality(T)
        PROVE  Top(s, T, m) \in SUBSET T /\ Cardinality(Top(s, T, m)) = m /\ NewestOf(s, T, Top(s, T, m))
    <2>1. m \in Int
      OBVIOUS
    <2>2. \A i \in T : {j \in T : Before(s, j, i)} = Below(Newer(s), T, i)
      <3>1. \A i, j \in T : <<i, j>> \in Newer(s) <=> Before(s, i, j)
        BY NewerOrders
      <3>. QED
        BY <3>1 DEF Below
    <2>3. Top(s, T, m) = {i \in T : Cardinality(Below(Newer(s), T, i)) < m}
      BY <2>2, Zenon DEF Top
    <2>. QED
      BY <1>1, <2>1, <2>3, LowRanksExact, TopIsNewest DEF NewestOf
  <1>3. Top(s, T, n) \in Newest(s, T, n)
    BY <1>2 DEF Newest, kSubset, NewestOf
  <1>4. PICK m \in 0..Cardinality(T) : m = Cardinality(T) - n
    BY <1>1
  <1>5. PICK N : N = Top(s, T, m)
    OBVIOUS
  <1>6. T \ N \in SUBSET T /\ Cardinality(T \ N) = n
    <2>1. T \cap N = N /\ Cardinality(N) = m /\ IsFiniteSet(N)
      BY <1>1, <1>2, <1>5, FS_Subset
    <2>2. Cardinality(T \ N) = Cardinality(T) - m
      BY <1>1, <2>1, FS_Difference
    <2>. QED
      BY <1>1, <1>4, <2>2
  <1>7. T \ N \in Oldest(s, T, n)
    <2>1. NewestOf(s, T, N)
      BY <1>2, <1>5
    <2>. QED
      BY <1>6, <2>1 DEF Oldest, kSubset, NewestOf
  <1>. QED
    BY <1>3, <1>7

\* Some of the ranked sources' latest events are kept.
LEMMA SomeAreKept ==
    ASSUME NEW s \in Seq(Event), NEW P \in SUBSET DOMAIN s, NEW random \in BOOLEAN,
           NEW drop \in 0..Cardinality(P), NEW m \in Nat, m + drop <= Cardinality(P)
    PROVE  Kept(s, P, drop, m, random) # {}
  <1>1. IsFiniteSet(P) /\ Cardinality(P) \in Nat
    BY WindowFinite
  <1>2. CASE random
    <2>1. PICK T : T \in Newest(s, P, m)
      BY <1>1, SomeAre
    <2>. QED
      BY <1>2, <2>1 DEF Kept, Newest
  <1>3. CASE ~random
    <2>1. PICK D : D \in Oldest(s, P, drop)
      BY SomeAre
    <2>2. P \ D \in SUBSET DOMAIN s /\ Cardinality(P \ D) = Cardinality(P) - drop
      <3>1. D \in SUBSET P /\ P \cap D = D /\ Cardinality(D) = drop
        BY <2>1 DEF Oldest, kSubset
      <3>2. IsFiniteSet(D)
        BY <1>1, <3>1, FS_Subset
      <3>. QED
        BY <1>1, <3>1, <3>2, FS_Difference
    <2>3. m \in 0..Cardinality(P \ D)
      BY <1>1, <2>2
    <2>4. PICK T : T \in Oldest(s, P \ D, m)
      BY <2>2, <2>3, SomeAre
    <2>. QED
      BY <1>3, <2>1, <2>4 DEF Kept
  <1>. QED
    BY <1>2, <1>3

\* Select returns a selection of any window unless it returns an error.
LEMMA SelectReturns ==
    ASSUME NEW s \in Seq(Event), NEW strategy \in Int, NEW k \in Int, NEW d \in 0..100,
           ~Refused(strategy, k)
    PROVE  Selections(strategy, s, k, d) # {}
  <1>1. k >= 0 /\ strategy \in {1, 2, 3, 4, 5, 6}
    BY DEF Refused
  <1>2. PICK n \in Nat : n = Cardinality(LatestPerSource(s))
    BY LatestCount, LatestPerSource(s) \in SUBSET LatestPerSource(s)
  <1>3. LatestPerSource(s) \in SUBSET DOMAIN s
    BY LatestDiffer
  <1>4. PICK m \in 0..n : m = Min({k, n})
    <2>1. PICK x \in Int : x = Min({k, n}) /\ (x = k \/ x = n) /\ x <= n
      BY OfTwo, n \in Int
    <2>. QED
      BY <1>1, <2>1
  <1>5. PICK T : T \in Newest(s, LatestPerSource(s), m)
    BY <1>2, <1>3, SomeAre
  <1>6. ASSUME NEW random \in BOOLEAN
        PROVE  SelectGuaranteedDiversity(s, k, d, random) # {}
    <2>1. PICK drop \in 0..n : drop = ToDrop(n, d)
      <3>1. PICK share \in 0..n : share = (n * (100 - d)) \div 100
        BY Share
      <3>2. ToDrop(n, d) \in 0..share
        BY <3>1, DropsWithin
      <3>. QED
        BY <3>2
    <2>2. PICK most \in Int : most = Max({k, 1}) /\ most >= 1
      BY OfTwo, 1 \in Int
    <2>3. PICK rest \in Nat : rest = Min({most, n - drop}) /\ rest + drop <= n
      <3>1. n - drop \in Int
        OBVIOUS
      <3>2. PICK x : x = Min({most, n - drop})
        OBVIOUS
      <3>3. x \in Int /\ (x = most \/ x = n - drop) /\ x <= n - drop
        BY <3>1, <3>2, OfTwo
      <3>. QED
        BY <2>2, <3>2, <3>3
    <2>4. PICK U : U \in Kept(s, LatestPerSource(s), drop, rest, random)
      BY <1>2, <1>3, <2>1, <2>3, SomeAreKept
    <2>. QED
      BY <1>2, <2>1, <2>2, <2>3, <2>4, Zenon DEF SelectGuaranteedDiversity
  <1>7. CASE strategy = 1
    BY <1>7 DEF Selections, SelectLatest
  <1>8. CASE strategy = 2
    <2>1. SelectLatestPerSource(s, k) # {}
      BY <1>2, <1>4, <1>5 DEF SelectLatestPerSource
    <2>. QED
      BY <1>8, <2>1 DEF Selections
  <1>9. CASE strategy = 3
    <2>1. T \in kSubset(m, LatestPerSource(s))
      BY <1>5 DEF Newest
    <2>2. SelectHybrid(s, k) # {}
      BY <1>2, <1>4, <2>1 DEF SelectHybrid
    <2>. QED
      BY <1>9, <2>2 DEF Selections
  <1>10. CASE strategy \in {4, 6}
    <2>1. strategy # 1 /\ strategy # 2 /\ strategy # 3
      BY <1>10
    <2>. QED
      BY <2>1, <1>6, <1>10, Zenon DEF Selections
  <1>11. CASE strategy = 5
    <2>1. strategy # 1 /\ strategy # 2 /\ strategy # 3 /\ strategy \notin {4, 6}
      BY <1>11
    <2>. QED
      BY <2>1, <1>6, <1>11, Zenon DEF Selections
  <1>. QED
    BY <1>1, <1>7, <1>8, <1>9, <1>10, <1>11
=============================================================================
