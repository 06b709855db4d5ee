------------------------------ MODULE Curation ------------------------------
(***************************************************************************)
(* internal/curation/strategies.go: what Select may select.                *)
(*                                                                         *)
(* A window is the sequence of events given to Select, a selection the set *)
(* of positions selected: an event read twice has two positions.  What Go  *)
(* leaves open is a choice: the order of a map (of events with one         *)
(* timestamp, and in the hybrid of all sources) and rand.Shuffle.  So each *)
(* strategy is the set of selections it may return.  The final sort by     *)
(* timestamp orders a selection and does not change it; the scores are not *)
(* modelled.                                                               *)
(***************************************************************************)
EXTENDS Integers, Sequences, FiniteSets, FiniteSetsExt

CONSTANTS Event,      \* the ids of events
          SourceOf,   \* Event.SourceID
          TimeOf,     \* Event.Timestamp
          RoundsDown  \* numbers of sources and percentages whose product rounds down

ASSUME EventsAssumption == DOMAIN SourceOf = Event /\ TimeOf \in [Event -> Int]
ASSUME RoundingAssumption == /\ RoundsDown \subseteq Nat \X (0..100)
                             /\ \A p \in RoundsDown : p[1] * (100 - p[2]) >= 100

Ids(s, T) == {s[i] : i \in T}
Sources(s, T) == {SourceOf[s[i]] : i \in T}

Older(s, i, j) == TimeOf[s[i]] < TimeOf[s[j]]
\* The place of i and j in the stable sortByTimestampDesc of the window.
Before(s, i, j) == Older(s, j, i) \/ (~Older(s, i, j) /\ i < j)

Top(s, T, n) == {i \in T : Cardinality({j \in T : Before(s, j, i)}) < n}

\* The n newest and n oldest of T, where a tie falls either way.
Newest(s, T, n) == {N \in kSubset(n, T) : \A i \in N, j \in T \ N : ~Older(s, i, j)}
Oldest(s, T, n) == {N \in kSubset(n, T) : \A i \in N, j \in T \ N : ~Older(s, j, i)}

\* Only a strictly newer event takes the place of its source's earlier one.
LatestPerSource(s) ==
    {i \in DOMAIN s : \A j \in DOMAIN s : j # i /\ SourceOf[s[j]] = SourceOf[s[i]] => Before(s, i, j)}

\* T and the newest of the other events, each id once, up to k.  Slip: without
\* the map of the ids selected so far.
FillRepeating(s, T, k) == T \cup Top(s, DOMAIN s \ T, k - Cardinality(T))
Fill(s, T, k) ==
    LET free == {i \in DOMAIN s : s[i] \notin Ids(s, T)}
        first == {i \in free : \A j \in free : s[j] = s[i] => ~Before(s, j, i)}
    IN  T \cup Top(s, first, k - Cardinality(T))
-----------------------------------------------------------------------------
\* int(float64(n) * (1 - diversityPercent/100)) of the clamped percentage.  In
\* binary some of the products that are whole numbers, one or more, stay just
\* below: those of RoundsDown.
ToDrop(n, diversity) ==
    LET d == Max({0, Min({diversity, 100})})
    IN  (n * (100 - d)) \div 100 - (IF <<n, d>> \in RoundsDown THEN 1 ELSE 0)

SelectLatest(s, k) == {Top(s, DOMAIN s, k)}

SelectLatestPerSource(s, k) ==
    LET P == LatestPerSource(s) IN Newest(s, P, Min({k, Cardinality(P)}))

\* The sources come in the order of a map; if k ends them they are any k.
SelectHybrid(s, k) ==
    LET P == LatestPerSource(s)
    IN  {Fill(s, T, k) : T \in kSubset(Min({k, Cardinality(P)}), P)}

\* guaranteedDiversityCore: the sources' latest events are ranked, oldest first
\* or shuffled; those after the first drop are kept until there are k, one even
\* if k is 0.  Slip: the newest are dropped.
KeptNewestDropped(s, P, drop, m, random) ==
    IF random THEN kSubset(m, P) ELSE UNION {Newest(s, P \ D, m) : D \in Newest(s, P, drop)}
Kept(s, P, drop, m, random) ==
    IF random THEN kSubset(m, P) ELSE UNION {Oldest(s, P \ D, m) : D \in Oldest(s, P, drop)}

\* Slip: the first one kept is one too far.
GuaranteedTooFew(s, k, diversity, random) ==
    LET P == LatestPerSource(s)
        drop == Min({ToDrop(Cardinality(P), diversity) + 1, Cardinality(P)})
    IN  {Fill(s, T, k) : T \in Kept(s, P, drop, Min({Max({k, 1}), Cardinality(P) - drop}), random)}
SelectGuaranteedDiversity(s, k, diversity, random) ==
    LET P == LatestPerSource(s)
        drop == ToDrop(Cardinality(P), diversity)
    IN  {Fill(s, T, k) : T \in Kept(s, P, drop, Min({Max({k, 1}), Cardinality(P) - drop}), random)}

\* Select after filterSuppressed.  Strategy 6 is that of a request without
\* PreferredSources: neither cmd/curator nor handleDigest sets any, and without
\* them it returns what strategy 4 selects.
Selections(strategy, s, k, diversity) ==
    CASE strategy = 1 -> SelectLatest(s, k)
      [] strategy = 2 -> SelectLatestPerSource(s, k)
      [] strategy = 3 -> SelectHybrid(s, k)
      [] strategy \in {4, 6} -> SelectGuaranteedDiversity(s, k, diversity, FALSE)
      [] strategy = 5 -> SelectGuaranteedDiversity(s, k, diversity, TRUE)

\* The error returns of Select.
Refused(strategy, k) == k < 0 \/ strategy \notin 1..6
-----------------------------------------------------------------------------
(* What the strategies promise (PRD.md 6.2), for a window s and a selection T. *)

\* How many sources a strategy must represent if k allows it.
MustCover(strategy, s, diversity) ==
    LET n == Cardinality(Sources(s, DOMAIN s))
    IN  CASE strategy = 1 -> 0
          [] strategy \in {2, 3} -> n
          [] OTHER -> n - (n * (100 - diversity)) \div 100

Distinct(s, T) == Cardinality(Ids(s, T)) = Cardinality(T)
Age(s, T) == -MapThenSumSet(LAMBDA i : TimeOf[s[i]], T)
=============================================================================
