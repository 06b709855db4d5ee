---------------------------- MODULE CuratorProofs ----------------------------
(***************************************************************************)
(* What holds of the curator for any events, sources and timestamps, any   *)
(* flags and a topic of any length.  The last selection is one that Select *)
(* may return of the last window, so what CurationProofs shows of Select   *)
(* holds of every digest.                                                  *)
(***************************************************************************)
EXTENDS Curator, CurationProofs

\* The elements of a set, in their order, are elements of it.
LEMMA AscendingAre ==
    ASSUME NEW S, IsFiniteSet(S), \A i \in S : i \in Int
    PROVE  Ascending(S) \in [1..Cardinality(S) -> S] /\ Cardinality(S) \in Nat
  <1> DEFINE Nth(n) == CHOOSE i \in S : Cardinality({j \in S : j < i}) = n - 1
  <1>1. Cardinality(S) \in Nat
    BY FS_CardinalityType
  <1> DEFINE less == {p \in Int \X Int : p[1] < p[2]}
  <1>2. Orders(less, S)
    BY DEF Orders
  <1>3. \A i \in S : Below(less, S, i) = {j \in S : j < i}
    BY DEF Below
  <1>4. ASSUME NEW n \in 1..Cardinality(S)
        PROVE  Nth(n) \in S
    <2>. HIDE DEF less
    <2>1. PICK m : m \in 0..Cardinality(S) - 1 /\ m = n - 1
      BY <1>1
    <2>2. \E i \in S : Cardinality(Below(less, S, i)) = m
      BY <2>1, <1>2, EveryRank
    <2>3. \E i \in S : Cardinality({j \in S : j < i}) = n - 1
      BY <2>1, <2>2, <1>3
    <2>. QED
      BY <2>3
  <1>5. Ascending(S) = [n \in 1..Cardinality(S) |-> Nth(n)]
    BY DEF Ascending
  <1>. QED
    <2>. HIDE DEF Nth
    <2>. QED
      BY <1>1, <1>4, <1>5

\* A finite set has subsets of every size up to its own.
LEMMA OfEverySize ==
    ASSUME NEW S, IsFiniteSet(S), NEW m \in 0..Cardinality(S)
    PROVE  kSubset(m, S) # {}
  <1> DEFINE G == {n \in Nat : n <= Cardinality(S) => \E T \in SUBSET S : Cardinality(T) = n}
  <1>1. Cardinality(S) \in Nat
    BY FS_CardinalityType
  <1>2. 0 \in G
    BY FS_EmptySet, {} \in SUBSET S
  <1>3. ASSUME NEW n \in Nat, n \in G
        PROVE  n + 1 \in G
    <2>1. ASSUME n + 1 <= Cardinality(S)
          PROVE  \E T \in SUBSET S : Cardinality(T) = n + 1
      <3>1. n <= Cardinality(S) /\ n < Cardinality(S)
        BY <1>1, <2>1
      <3>2. PICK T \in SUBSET S : Cardinality(T) = n
        BY <1>3, <3>1
      <3>3. PICK x \in S : x \notin T
        <4>1. T # S
          BY <1>1, <3>1, <3>2
        <4>. QED
          BY <4>1
      <3>4. Cardinality(T \cup {x}) = n + 1
        BY <3>2, <3>3, FS_Subset, FS_AddElement
      <3>. QED
        BY <3>4, T \cup {x} \in SUBSET S
    <2>2. n + 1 \in Nat
      OBVIOUS
    <2>. QED
      BY <2>1, <2>2
  <1>4. m \in G /\ m <= Cardinality(S)
    <2>. HIDE DEF G
    <2>. QED
      BY <1>1, <1>2, <1>3, Induction
  <1>. QED
    BY <1>4 DEF kSubset

\* The window without the suppressed events is one, and has none of them.
LEMMA FilteredIsWindow ==
    ASSUME buf \in Seq(Event)
    PROVE  Filtered \in Seq(Event) /\ \A n \in DOMAIN Filtered : Filtered[n] \notin suppression
  <1> DEFINE S == {i \in DOMAIN buf : buf[i] \notin suppression}
  <1>1. /\ S \in SUBSET DOMAIN buf /\ \A i \in S : i \in Int
        /\ \A i \in S : buf[i] \in Event /\ buf[i] \notin suppression
    OBVIOUS
  <1>2. Filtered = [n \in DOMAIN Ascending(S) |-> buf[Ascending(S)[n]]]
    BY DEF Filtered
  <1>. HIDE DEF S
  <1>3. PICK n \in Nat : Ascending(S) \in [1..n -> S]
    <2>1. IsFiniteSet(S)
      BY <1>1, WindowFinite
    <2>. QED
      BY <1>1, <2>1, AscendingAre
  <1>4. PICK kept : kept = Ascending(S)
    BY Zenon
  <1>5. Filtered = [i \in 1..n |-> buf[kept[i]]]
    BY <1>2, <1>3, <1>4
  <1>6. \A i \in 1..n : buf[kept[i]] \in Event /\ buf[kept[i]] \notin suppression
    BY <1>1, <1>3, <1>4
  <1>. QED
    BY <1>5, <1>6
-----------------------------------------------------------------------------
\* The last selection is one that Select may return of the last window.
LastIsSelected ==
    last # NoSelection =>
        /\ ~Refused(flags.strategy, flags.k)
        /\ last.selected \in Selections(flags.strategy, last.window, flags.k, flags.diversity)

\* What the process has selected is suppressed, unless it was pruned: without
\* this nothing keeps it from being selected again.
ChosenIsSuppressed == chosen \subseteq suppression \cup evicted

IInv == /\ TypeOK
        /\ LastIsSelected
        /\ ChosenIsSuppressed
        /\ repeated \subseteq evicted
        /\ SuppressedWasShown
        /\ IsFiniteSet(suppression)

\* The invariant holds when the process starts for the first time.
LEMMA InitInv == Init => IInv
  <1>. SUFFICES ASSUME Init PROVE IInv
    OBVIOUS
  <1>1. TypeOK
    <2>1. NoSelection.window = <<>> /\ NoSelection.selected = {}
      BY DEF NoSelection
    <2>2. topic = <<>> /\ Len(topic) = 0 /\ topic \in Seq(Event \cup {Malformed}) /\ 0 <= MaxTopic
      BY CuratorAssumption DEF Init
    <2>. QED
      BY <2>1, <2>2 DEF Init, TypeOK
  <1>. QED
    BY <1>1, FS_EmptySet DEF Init, IInv, LastIsSelected, ChosenIsSuppressed, SuppressedWasShown

\* A producer's write keeps the invariant.
LEMMA ProduceKeeps ==
    ASSUME IInv, NEW m \in Event \cup {Malformed}, Produce(m)
    PROVE  IInv'
  <1>1. PICK n \in Nat : n = Len(topic)
    BY DEF IInv, TypeOK
  <1>2. /\ topic' \in Seq(Event \cup {Malformed})
        /\ Len(topic') = n + 1 /\ n < MaxTopic
    BY <1>1 DEF IInv, TypeOK, Produce
  <1>3. /\ flags \in Flags /\ up \in BOOLEAN /\ buf \in Seq(Event)
        /\ committed \in 0..n /\ position \in committed..n
        /\ last.window \in Seq(Event) /\ last.selected \subseteq DOMAIN last.window
    BY <1>1 DEF IInv, TypeOK
  <1>4. /\ n + 1 <= MaxTopic
        /\ committed \in 0..n + 1 /\ position \in committed..n + 1
    BY <1>2, <1>3, CuratorAssumption
  <1>5. TypeOK'
    BY <1>2, <1>3, <1>4 DEF IInv, TypeOK, Produce, pastVars
  <1>. QED
    BY <1>5 DEF IInv, Produce, pastVars, LastIsSelected, ChosenIsSuppressed, SuppressedWasShown

\* A read, and a read that times out, keep the invariant: an event that is
\* appended to the window is one.
LEMMA ReadKeeps ==
    ASSUME IInv, Read \/ ReadTimesOut
    PROVE  IInv'
  <1>1. position \in Nat /\ committed \in Nat /\ position < Len(topic) /\ up
    BY DEF IInv, TypeOK, Read, ReadTimesOut
  <1>2. topic[position + 1] \in Event \cup {Malformed}
    BY <1>1 DEF IInv, TypeOK
  <1>3. TypeOK'
    <2>1. CASE Read
      <3>1. buf' \in Seq(Event)
        BY <2>1, <1>2 DEF IInv, TypeOK, Read
      <3>. QED
        BY <3>1, <2>1, <1>1 DEF IInv, TypeOK, Read, kafkaVars, pastVars
    <2>2. CASE ReadTimesOut
      BY <2>2, <1>1 DEF IInv, TypeOK, ReadTimesOut, kafkaVars, pastVars
    <2>. QED
      BY <2>1, <2>2
  <1>. QED
    BY <1>3 DEF IInv, Read, ReadTimesOut, kafkaVars, pastVars, LastIsSelected,
                ChosenIsSuppressed, SuppressedWasShown

\* A tick whose flags Select refuses keeps the invariant.
LEMMA FlushRefusedKeeps ==
    ASSUME IInv, FlushRefused
    PROVE  IInv'
  BY DEF IInv, TypeOK, FlushRefused, kafkaVars, pastVars, LastIsSelected,
         ChosenIsSuppressed, SuppressedWasShown

\* A tick that publishes keeps the invariant.  What it selects is not
\* suppressed, so if it was selected before it was pruned.
LEMMA FlushKeeps ==
    ASSUME IInv, Flush
    PROVE  IInv'
  <1>1. PICK f : f = Filtered
    OBVIOUS
  <1>2. PICK T, written, failed, ids :
           /\ T \in Selections(flags.strategy, f, flags.k, flags.diversity)
           /\ ids = Ids(f, T)
           /\ written \/ failed
           /\ shown' = IF written THEN shown \cup ids ELSE shown
           /\ unsent' = IF failed THEN unsent \cup ids ELSE unsent
           /\ \E out \in Prunings(Suppressed(ids)) :
                 /\ suppression' = Suppressed(ids) \ out
                 /\ evicted' = evicted \cup out
           /\ chosen' = chosen \cup ids
           /\ repeated' = repeated \cup (chosen \cap ids)
           /\ last' = [window |-> f, selected |-> T]
    BY <1>1, Zenon DEF Flush
  <1>3. PICK out \in Prunings(Suppressed(ids)) :
           suppression' = Suppressed(ids) \ out /\ evicted' = evicted \cup out
    BY <1>2
  <1>4. f \in Seq(Event) /\ \A n \in DOMAIN f : f[n] \notin suppression
    BY <1>1, FilteredIsWindow DEF IInv, TypeOK
  <1>5. /\ ~Refused(flags.strategy, flags.k)
        /\ flags.strategy \in Int /\ flags.k \in Int /\ flags.diversity \in 0..100
    <2>1. flags \in [strategy : Int, k : Int, diversity : 0..100]
      BY CuratorAssumption, SMTT(40) DEF IInv, TypeOK
    <2>. QED
      BY <2>1 DEF Flush
  <1>6. T \in SUBSET DOMAIN f
    BY <1>2, <1>4, <1>5, SelectionsKeep DEF Promised
  <1>7. ids \subseteq Event /\ ids \cap suppression = {}
    BY <1>2, <1>4, <1>6 DEF Ids
  <1>8. Suppressed(ids) = suppression \cup ids /\ out \subseteq Suppressed(ids)
    BY <1>3 DEF Suppressed, Prunings, kSubset
  <1>9. last'.window = f /\ last'.selected = T
    BY <1>2
  <1>10. UNCHANGED <<flags, topic, committed, up, position>> /\ buf' = <<>>
    BY DEF Flush, kafkaVars
  <1>11. TypeOK'
    <2>1. /\ suppression' \subseteq Event /\ evicted' \subseteq Event
          /\ shown' \subseteq Event /\ unsent' \subseteq Event
          /\ chosen' \subseteq Event /\ repeated' \subseteq Event
      BY <1>2, <1>3, <1>7, <1>8 DEF IInv, TypeOK
    <2>2. buf' \in Seq(Event)
      BY <1>10
    <2>. QED
      BY <2>1, <2>2, <1>4, <1>6, <1>9, <1>10 DEF IInv, TypeOK
  <1>12. LastIsSelected'
    BY <1>2, <1>5, <1>9, <1>10 DEF LastIsSelected
  <1>13. ChosenIsSuppressed'
    BY <1>2, <1>3, <1>8 DEF IInv, ChosenIsSuppressed
  <1>14. (repeated \subseteq evicted)'
    BY <1>2, <1>3, <1>7 DEF IInv, ChosenIsSuppressed
  <1>15. SuppressedWasShown'
    BY <1>2, <1>3, <1>8 DEF IInv, SuppressedWasShown
  <1>16. IsFiniteSet(suppression')
    <2>1. IsFiniteSet(ids)
      BY <1>2, <1>4, <1>6, IdsFinite
    <2>2. IsFiniteSet(suppression \cup ids)
      BY <2>1, FS_Union DEF IInv
    <2>. QED
      BY <1>3, <1>8, <2>2, FS_Subset
  <1>. QED
    BY <1>11, <1>12, <1>13, <1>14, <1>15, <1>16 DEF IInv

\* A stop loses the suppression set with all that is said of it; a start reads
\* on at the group's offset.
LEMMA StopStartKeep ==
    ASSUME IInv, Stop \/ Start
    PROVE  IInv'
  <1>1. CASE Stop
    <2>1. NoSelection.window = <<>> /\ NoSelection.selected = {}
      BY DEF NoSelection
    <2>2. TypeOK'
      <3>1. /\ last'.window = <<>> /\ last'.selected = {}
            /\ buf' = <<>> /\ <<>> \in Seq(Event)
        BY <2>1, <1>1 DEF Stop
      <3>2. \A set \in {suppression, shown, unsent, chosen, evicted, repeated}' : set \subseteq Event
        BY <1>1 DEF IInv, TypeOK, Stop
      <3>3. /\ flags' = flags /\ topic' = topic /\ up' = FALSE
            /\ committed' = committed /\ position' = position
        BY <1>1 DEF Stop, kafkaVars
      <3>. QED
        BY <3>1, <3>2, <3>3 DEF IInv, TypeOK
    <2>. QED
      BY <2>2, <1>1, FS_EmptySet DEF IInv, Stop, kafkaVars, LastIsSelected, ChosenIsSuppressed, SuppressedWasShown
  <1>2. CASE Start
    <2>1. committed \in Nat /\ Len(topic) \in Nat /\ committed <= Len(topic)
      BY DEF IInv, TypeOK
    <2>2. TypeOK'
      BY <2>1, <1>2 DEF IInv, TypeOK, Start, kafkaVars, pastVars
    <2>. QED
      BY <2>2, <1>2 DEF IInv, Start, kafkaVars, pastVars, LastIsSelected, ChosenIsSuppressed,
                        SuppressedWasShown
  <1>. QED
    BY <1>1, <1>2

\* The conjuncts of IInv are an inductive invariant of the curator.
THEOREM Invariance == Spec => []IInv
  <1>1. Init => IInv
    BY InitInv
  <1>2. IInv /\ [Next]_curatorVars => IInv'
    <2>. SUFFICES ASSUME IInv, [Next]_curatorVars PROVE IInv'
      OBVIOUS
    <2>1. CASE \E m \in Event \cup {Malformed} : Produce(m)
      BY <2>1, ProduceKeeps
    <2>2. CASE Read \/ ReadTimesOut
      BY <2>2, ReadKeeps
    <2>3. CASE FlushRefused
      BY <2>3, FlushRefusedKeeps
    <2>4. CASE Flush
      BY <2>4, FlushKeeps
    <2>5. CASE Stop \/ Start
      BY <2>5, StopStartKeep
    <2>6. CASE UNCHANGED curatorVars
      BY <2>6 DEF curatorVars, pastVars, IInv, TypeOK, LastIsSelected, ChosenIsSuppressed,
                  SuppressedWasShown
    <2>. QED
      BY <2>1, <2>2, <2>3, <2>4, <2>5, <2>6 DEF Next
  <1>. QED
    BY <1>1, <1>2, PTL DEF Spec

\* The reader is never before the group's offset, and windows are of events.
THEOREM TypeCorrect == Spec => []TypeOK
  <1>1. IInv => TypeOK
    BY DEF IInv
  <1>. QED
    BY <1>1, Invariance, PTL

\* The last window's selection keeps its strategy's promise.
LEMMA LastIsPromised ==
    ASSUME IInv, last # NoSelection
    PROVE  Promised(flags.strategy, last.window, flags.k, flags.diversity, last.selected)
  <1>1. flags \in [strategy : Int, k : Int, diversity : 0..100]
    BY CuratorAssumption DEF IInv, TypeOK
  <1>2. PICK s, T : s = last.window /\ T = last.selected
    OBVIOUS
  <1>3. PICK strategy \in Int, k \in Int, d \in 0..100 :
           strategy = flags.strategy /\ k = flags.k /\ d = flags.diversity
    BY <1>1
  <1>4. s \in Seq(Event) /\ ~Refused(strategy, k) /\ T \in Selections(strategy, s, k, d)
    BY <1>2, <1>3 DEF IInv, TypeOK, LastIsSelected
  <1>5. Promised(strategy, s, k, d, T)
    BY <1>4, SelectionsKeep
  <1>. QED
    BY <1>2, <1>3, <1>5

\* A digest covers the sources that its strategy must, as many as k allows, and
\* is no larger than k: of any window, with whatever was suppressed.
THEOREM DigestsCover == Spec => []Covers
  <1>1. IInv => Covers
    BY LastIsPromised DEF Covers, Promised
  <1>. QED
    BY <1>1, Invariance, PTL

\* The percentage of the last window's sources that strategies 4 and 6 may do
\* without was not rounded down.
ShareIsExact ==
    DropsItsShare(flags.strategy, Cardinality(Sources(last.window, DOMAIN last.window)),
                  flags.diversity)

\* What a tick of a process whose flags Select accepts can do: there is a
\* selection of the window, whatever it holds and whatever is suppressed, and
\* with it the suppression set can be pruned.
TickPublishes ==
    ~Refused(flags.strategy, flags.k) =>
        /\ Selections(flags.strategy, Filtered, flags.k, flags.diversity) # {}
        /\ \A T \in Selections(flags.strategy, Filtered, flags.k, flags.diversity) :
              Prunings(Suppressed(Ids(Filtered, T))) # {}

\* A tick is never without a digest to publish, also of a window that is all
\* suppressed.
THEOREM TicksPublish == Spec => []TickPublishes
  <1>1. IInv => TickPublishes
    <2>. SUFFICES ASSUME IInv, ~Refused(flags.strategy, flags.k)
                  PROVE  /\ Selections(flags.strategy, Filtered, flags.k, flags.diversity) # {}
                         /\ \A T \in Selections(flags.strategy, Filtered, flags.k, flags.diversity) :
                               Prunings(Suppressed(Ids(Filtered, T))) # {}
      BY DEF TickPublishes
    <2>1. flags \in [strategy : Int, k : Int, diversity : 0..100]
      BY CuratorAssumption DEF IInv, TypeOK
    <2>2. PICK s \in Seq(Event) : s = Filtered
      BY FilteredIsWindow DEF IInv, TypeOK
    <2>3. PICK strategy \in Int, k \in Int, d \in 0..100 :
             strategy = flags.strategy /\ k = flags.k /\ d = flags.diversity
      BY <2>1
    <2>4. Selections(strategy, s, k, d) # {}
      BY <2>3, SelectReturns
    <2>5. ASSUME NEW T \in Selections(strategy, s, k, d)
          PROVE  Prunings(Suppressed(Ids(s, T))) # {}
      <3>1. T \in SUBSET DOMAIN s
        <4>1. ~Refused(strategy, k)
          BY <2>3
        <4>2. Promised(strategy, s, k, d, T)
          BY <4>1, SelectionsKeep
        <4>. QED
          BY <4>2 DEF Promised
      <3>2. PICK X : X = Suppressed(Ids(s, T))
        OBVIOUS
      <3>3. IsFiniteSet(X) /\ Cardinality(X) \in Nat
        BY <3>1, <3>2, IdsFinite, FS_Union, FS_CardinalityType DEF Suppressed, IInv
      <3>4. Cardinality(X) \div 2 \in 0..Cardinality(X)
        BY <3>3
      <3>. QED
        BY <3>2, <3>3, <3>4, OfEverySize DEF Prunings
    <2>. QED
      BY <2>2, <2>3, <2>4, <2>5
  <1>. QED
    BY <1>1, Invariance, PTL

\* No selection that is as large and covers as much as a digest is newer in
\* total, of any window and wherever the ties of its timestamps and the map's
\* order fall, unless the share was rounded down and one source too many kept.
THEOREM DigestsAreFresh == Spec => [](ShareIsExact => Fresh)
  <1>1. IInv => (ShareIsExact => Fresh)
    <2>. SUFFICES ASSUME IInv, ShareIsExact, last # NoSelection, flags.strategy # 5,
                         NEW must, must = MustCover(flags.strategy, last.window, flags.diversity),
                         flags.strategy = 2 \/ must <= flags.k,
                         NEW T \in kSubset(Cardinality(last.selected), DOMAIN last.window),
                         flags.strategy = 1 \/ Distinct(last.window, T),
                         Cardinality(Sources(last.window, T)) >= Min({must, Cardinality(last.selected)})
                  PROVE  Age(last.window, last.selected) <= Age(last.window, T)
      BY DEF Fresh
    <2>1. flags \in [strategy : Int, k : Int, diversity : 0..100]
      BY CuratorAssumption DEF IInv, TypeOK
    <2>2. PICK s, A : s = last.window /\ A = last.selected
      OBVIOUS
    <2>3. PICK strategy \in Int, k \in Int, d \in 0..100 :
             strategy = flags.strategy /\ k = flags.k /\ d = flags.diversity
      BY <2>1
    <2>4. s \in Seq(Event) /\ ~Refused(strategy, k) /\ A \in Selections(strategy, s, k, d)
      BY <2>2, <2>3 DEF IInv, TypeOK, LastIsSelected
    <2>5. T \in SUBSET DOMAIN s /\ Cardinality(T) = Cardinality(A)
      BY <2>2 DEF kSubset
    <2>6. DropsItsShare(strategy, Cardinality(Sources(s, DOMAIN s)), d)
      BY <2>2, <2>3 DEF ShareIsExact
    <2>7. Age(s, A) <= Age(s, T)
      BY <2>2, <2>3, <2>4, <2>5, <2>6, SelectionsAreFresh
    <2>. QED
      BY <2>2, <2>7
  <1>. QED
    BY <1>1, Invariance, PTL

\* No event is twice in a digest, and none is selected twice by a process that
\* did not prune it in between.
THEOREM EventsAreShownOnce == Spec => []ShownOnce
  <1>1. IInv => ShownOnce
    <2>. SUFFICES ASSUME IInv PROVE ShownOnce
      OBVIOUS
    <2>1. flags.strategy # 1 => Distinct(last.window, last.selected)
      <3>1. CASE last # NoSelection
        BY <3>1, LastIsPromised DEF Promised
      <3>2. CASE last = NoSelection
        <4>1. last.selected = {} /\ Ids(last.window, {}) = {}
          BY <3>2 DEF NoSelection, Ids
        <4>. QED
          BY <4>1 DEF Distinct
      <3>. QED
        BY <3>1, <3>2
    <2>. QED
      BY <2>1 DEF IInv, ShownOnce
  <1>. QED
    BY <1>1, Invariance, PTL

\* An event that is suppressed was in a digest that was written, or whose write
\* returned an error: pruning and a tick without a digest suppress nothing.
THEOREM SuppressionIsShown == Spec => []SuppressedWasShown
  <1>1. IInv => SuppressedWasShown
    BY DEF IInv
  <1>. QED
    BY <1>1, Invariance, PTL
=============================================================================
