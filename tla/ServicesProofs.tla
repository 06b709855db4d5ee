---------------------------- MODULE ServicesProofs ----------------------------
(***************************************************************************)
(* What the services behind the loop promise, for any number of replicas,  *)
(* messages and items, stops, timeouts and rebalances: how much of the     *)
(* topic may be lost, and that a decision can be traced to its record.     *)
(***************************************************************************)
EXTENDS Services, FiniteSetTheorems, SequenceTheorems, TLAPS

(* The loop around ReadMessage: what the services need of each step of Group. *)

Labels == {"down", "read", "commit", "handle", "publish"}

GroupTyped == GroupTypeOK /\ pc \in [Member -> Labels]

\* A reader whose partition has moved since it fetched has a commit in flight
\* that may take the offset back; the partition moved during its read, so one
\* of the interruptions is its own.
Live(r) == owner = r /\ at[r] = position
Stale == {r \in Member : Reading(r) /\ ~Live(r)}

\* How often m was handed out, counting what a late commit may add.
Owed(m) == times[m] + Cardinality(Stale)

\* A message is handed out once and once more for each interruption, those that
\* the stale readers came from set aside.  What the group may fetch next has one
\* time still to come, and so has what the owner is reading.
AtMostOnce ==
    /\ IsFiniteSet(Stale)
    /\ \A m \in Message : Owed(m) <= interrupted + 1
    /\ \A m \in Message : m > position \/ m > committed => Owed(m) <= interrupted
    /\ \A r \in Member : Reading(r) /\ Live(r) => Owed(at[r]) <= interrupted

GroupInv == GroupTyped /\ AtMostOnce
-----------------------------------------------------------------------------
\* The numbers that the bounds are about.
LEMMA Numbers ==
    ASSUME GroupInv
    PROVE  /\ Cardinality(Stale) \in Nat /\ interrupted \in Nat
           /\ committed \in Nat /\ position \in Nat
           /\ \A m \in Message : times[m] \in Nat /\ m \in Nat
  <1>1. IsFiniteSet(Stale)
    BY DEF GroupInv, AtMostOnce
  <1>2. Cardinality(Stale) \in Nat
    BY <1>1, FS_CardinalityType
  <1>. QED
    BY <1>2, GroupAssumption DEF GroupInv, GroupTyped, GroupTypeOK, Message

\* When a reader is done, with its offset committed or not and its message handed
\* out or not, what it was owed is used up.
LEMMA ReadEnds ==
    ASSUME GroupInv, NEW r \in Member, Reading(r),
           NEW l \in Labels \ {"commit"}, pc' = [pc EXCEPT ![r] = l],
           \A s \in Member \ {r} : at'[s] = at[s],
           UNCHANGED <<position, interrupted>>,
           owner' = owner \/ (owner = r /\ owner' = Nobody),
           committed' \in {committed, at[r]},
           \/ UNCHANGED times
           \/ times' = [times EXCEPT ![at[r]] = @ + 1] /\ committed' = at[r]
    PROVE  AtMostOnce' /\ times[at[r]] <= interrupted
  <1>1. PICK a \in Message : a = at[r]
    BY DEF GroupInv, GroupTyped, GroupTypeOK, Reading
  <1>2. /\ ~Reading(r)'
        /\ \A s \in Member \ {r} : /\ Reading(s)' <=> Reading(s)
                                   /\ Live(s)' <=> Live(s)
    BY GroupAssumption DEF Reading, Live, GroupInv, GroupTyped
  <1>3. Stale' = Stale \ {r}
    BY <1>2 DEF Stale
  <1>4. /\ IsFiniteSet(Stale')
        /\ Cardinality(Stale') = IF Live(r) THEN Cardinality(Stale) ELSE Cardinality(Stale) - 1
    <2>1. IsFiniteSet(Stale) /\ (r \in Stale <=> ~Live(r))
      BY DEF GroupInv, AtMostOnce, Stale
    <2>. QED
      BY <1>3, <2>1, FS_RemoveElement
  <1>5. PICK c \in Nat, d \in Nat : c = Cardinality(Stale) /\ d = Cardinality(Stale')
    BY <1>4, Numbers, FS_CardinalityType
  <1>6. \A m \in Message : /\ times'[m] = IF times' # times /\ m = a THEN times[m] + 1 ELSE times[m]
                           /\ times[m] \in Nat
    BY <1>1 DEF GroupInv, GroupTyped, GroupTypeOK
  <1>n. PICK n \in Nat : n = interrupted
    BY Numbers
  <1>o. interrupted' = n /\ position' = position /\ IsFiniteSet(Stale)'
    BY <1>4, <1>n
  <1>7. CASE Live(r)
    <2>1. times[a] + c <= n /\ a = position /\ d = c
      BY <1>1, <1>4, <1>5, <1>7, <1>n DEF GroupInv, AtMostOnce, Owed, Live
    <2>2. \A m \in Message : Owed(m)' <= n + 1
      BY <1>5, <1>6, <1>n, <2>1 DEF GroupInv, AtMostOnce, Owed
    <2>3. ASSUME NEW m \in Message, m > position \/ m > committed'
          PROVE  Owed(m)' <= n
      <3>1. CASE m # a
        <4>1. m > position \/ m > committed
          BY <1>1, <2>1, <2>3
        <4>. QED
          BY <1>5, <1>6, <1>n, <2>1, <3>1, <4>1 DEF GroupInv, AtMostOnce, Owed
      <3>2. CASE m = a
        <4>1. UNCHANGED times
          BY <1>1, <2>1, <2>3, <3>2, Numbers
        <4>. QED
          BY <1>5, <1>n, <2>1, <3>2, <4>1 DEF Owed
      <3>. QED
        BY <3>1, <3>2
    <2>4. ASSUME NEW s \in Member, Reading(s)', Live(s)'
          PROVE  Owed(at[s])' <= n
      <3>1. s # r /\ Live(s)
        BY <1>2, <2>4
      <3>. QED
        BY <1>7, <3>1 DEF Live
    <2>5. AtMostOnce'
      BY <1>o, <2>2, <2>3, <2>4 DEF AtMostOnce
    <2>6. times[a] <= n
      BY <1>6, <2>1
    <2>. QED
      BY <1>1, <1>n, <2>5, <2>6
  <1>8. CASE ~Live(r)
    <2>1. d = c - 1
      BY <1>4, <1>5, <1>8
    <2>2. \A m \in Message : times[m] + c <= n + 1
      BY <1>5, <1>n DEF GroupInv, AtMostOnce, Owed
    <2>3. \A m \in Message : Owed(m)' <= n + 1 /\ (m # a => Owed(m)' <= n)
      BY <1>5, <1>6, <2>1, <2>2 DEF Owed
    <2>4. ASSUME NEW m \in Message, m > position \/ m > committed'
          PROVE  Owed(m)' <= n
      <3>1. CASE m = a /\ ~UNCHANGED times
        <4>1. m > position
          BY <1>1, <2>4, <3>1, Numbers
        <4>2. times[m] + c <= n
          BY <1>5, <1>n, <4>1 DEF GroupInv, AtMostOnce, Owed
        <4>. QED
          BY <1>5, <1>6, <2>1, <4>2 DEF Owed
      <3>. QED
        BY <1>5, <1>6, <2>1, <2>2, <2>3, <3>1 DEF Owed
    <2>5. ASSUME NEW s \in Member, Reading(s)', Live(s)'
          PROVE  Owed(at[s])' <= n
      <3>1. s # r /\ Reading(s) /\ Live(s) /\ at'[s] = at[s]
        BY <1>2, <2>5
      <3>2. PICK b \in Message : b = at[s]
        BY <3>1 DEF GroupInv, GroupTyped, GroupTypeOK, Reading
      <3>3. times[b] + c <= n
        BY <1>5, <1>n, <3>1, <3>2 DEF GroupInv, AtMostOnce, Owed
      <3>4. times'[b] + d <= n
        BY <1>6, <2>1, <3>3
      <3>. QED
        BY <1>5, <3>1, <3>2, <3>4 DEF Owed
    <2>6. AtMostOnce'
      BY <1>o, <2>3, <2>4, <2>5 DEF AtMostOnce
    <2>7. times[a] <= n
      BY <1>6, <2>1, <2>2
    <2>. QED
      BY <1>1, <1>n, <2>6, <2>7
  <1>. QED
    BY <1>7, <1>8

\* A step that no read begins or ends with.
LEMMA NoReadKeeps ==
    ASSUME GroupInv, NEW r \in Member, ~Reading(r),
           NEW l \in Labels \ {"commit"}, pc' = [pc EXCEPT ![r] = l],
           \A s \in Member \ {r} : at'[s] = at[s],
           UNCHANGED <<committed, position, times, interrupted>>,
           owner' = owner \/ (owner = r /\ owner' = Nobody)
    PROVE  AtMostOnce'
  <1>1. /\ ~Reading(r)'
        /\ \A s \in Member \ {r} : /\ Reading(s)' <=> Reading(s)
                                   /\ Live(s)' <=> Live(s)
    BY GroupAssumption DEF Reading, Live, GroupInv, GroupTyped
  <1>2. Stale' = Stale
    BY <1>1 DEF Stale
  <1>3. \A m : Owed(m)' = Owed(m)
    BY <1>2 DEF Owed
  <1>. QED
    BY <1>1, <1>2, <1>3 DEF GroupInv, AtMostOnce

\* A fetch makes the owner the one reader that is not stale, of a message that
\* has one time still to come.
LEMMA FetchKeeps ==
    ASSUME GroupInv, NEW r \in Member, Fetch(r)
    PROVE  AtMostOnce'
  <1>1. PICK a \in Message : a = position + 1 /\ a = position' /\ at'[r] = a /\ owner' = r
    BY GroupAssumption DEF GroupInv, GroupTyped, GroupTypeOK, Message, Fetch
  <1>2. /\ ~Reading(r) /\ Reading(r)' /\ Live(r)' /\ owner = r
        /\ \A s \in Member \ {r} : /\ Reading(s)' <=> Reading(s)
                                   /\ ~Live(s) /\ ~Live(s)'
    BY <1>1 DEF Reading, Live, GroupInv, GroupTyped, Fetch, Goto, GroupTypeOK
  <1>3. Stale' = Stale
    BY <1>2 DEF Stale
  <1>4. UNCHANGED <<times, interrupted, committed>>
    BY DEF Fetch, countVars
  <1>5. \A m : Owed(m)' = Owed(m)
    BY <1>3, <1>4 DEF Owed
  <1>6. \A m \in Message : m > position' => m > position
    BY <1>1, Numbers
  <1>7. a > position
    BY <1>1, Numbers
  <1>8. Owed(a) <= interrupted
    BY <1>7 DEF GroupInv, AtMostOnce
  <1>. QED
    BY <1>1, <1>2, <1>3, <1>4, <1>5, <1>6, <1>8 DEF GroupInv, AtMostOnce

\* A new generation makes the old owner's read stale, if it was reading, and that
\* of the new owner perhaps not.
LEMMA RebalanceKeeps ==
    ASSUME GroupInv, NEW r \in Member, Rebalance(r)
    PROVE  AtMostOnce'
  <1>1. /\ owner' = r /\ position' = committed
        /\ UNCHANGED <<committed, pc, at, times>>
    BY DEF Rebalance
  <1>2. PICK c \in Nat, n \in Nat : c = Cardinality(Stale) /\ n = interrupted
    BY Numbers
  <1>3. IsFiniteSet(Stale)
    BY DEF GroupInv, AtMostOnce
  <1>4. \A s \in Member : Reading(s)' <=> Reading(s)
    BY <1>1 DEF Reading
  <1>5. CASE \E s \in Member : Reading(s)
    <2>1. interrupted' = n + 1
      BY <1>2, <1>5 DEF Rebalance
    <2>2. Stale' \subseteq Stale \cup {owner}
      BY <1>4 DEF Stale, Live
    <2>3. /\ IsFiniteSet(Stale \cup {owner})
          /\ Cardinality(Stale \cup {owner}) <= c + 1
      BY <1>2, <1>3, FS_AddElement
    <2>4. IsFiniteSet(Stale') /\ Cardinality(Stale') <= c + 1 /\ Cardinality(Stale') \in Nat
      BY <1>2, <2>2, <2>3, FS_Subset, FS_CardinalityType
    <2>5. \A m \in Message : /\ times[m] \in Nat /\ times[m] + c <= n + 1
                             /\ m > committed => times[m] + c <= n
      BY <1>2, Numbers DEF GroupInv, AtMostOnce, Owed
    <2>6. \A m \in Message : /\ times'[m] + Cardinality(Stale') <= n + 2
                             /\ m > committed => times'[m] + Cardinality(Stale') <= n + 1
      BY <1>1, <1>2, <2>4, <2>5
    <2>7. ASSUME NEW s \in Member, Reading(s)', Live(s)'
          PROVE  Owed(at[s])' <= n + 1
      <3>1. s = r /\ Reading(r)
        BY <1>1, <1>4, <2>7 DEF Live
      <3>2. r \in Stale \cup {owner} /\ Stale' \subseteq (Stale \cup {owner}) \ {r}
        BY <2>2, <2>7, <3>1 DEF Stale, Live
      <3>3. /\ IsFiniteSet((Stale \cup {owner}) \ {r})
            /\ Cardinality((Stale \cup {owner}) \ {r}) <= c
        <4>1. PICK k \in Nat : k = Cardinality(Stale \cup {owner})
          BY <2>3, FS_CardinalityType
        <4>2. /\ IsFiniteSet((Stale \cup {owner}) \ {r})
              /\ Cardinality((Stale \cup {owner}) \ {r}) = k - 1
          BY <2>3, <3>2, <4>1, FS_RemoveElement
        <4>. QED
          BY <1>2, <2>3, <4>1, <4>2
      <3>4. Cardinality(Stale') <= c
        <4>1. /\ Cardinality(Stale') <= Cardinality((Stale \cup {owner}) \ {r})
              /\ Cardinality((Stale \cup {owner}) \ {r}) \in Nat
          BY <3>2, <3>3, FS_Subset, FS_CardinalityType
        <4>. QED
          BY <1>2, <2>4, <3>3, <4>1
      <3>5. PICK a \in Message : a = at[s]
        BY <1>4, <2>7 DEF GroupInv, GroupTyped, GroupTypeOK, Reading
      <3>. QED
        BY <1>1, <1>2, <2>4, <2>5, <3>4, <3>5 DEF Owed
    <2>. QED
      BY <1>1, <1>2, <2>1, <2>4, <2>6, <2>7 DEF AtMostOnce, Owed
  <1>6. CASE ~\E s \in Member : Reading(s)
    <2>1. Stale' = {} /\ Stale = {} /\ interrupted' = interrupted
      BY <1>4, <1>6 DEF Stale, Rebalance
    <2>2. \A m : Owed(m)' = Owed(m)
      BY <1>1, <2>1 DEF Owed
    <2>. QED
      BY <1>1, <1>3, <1>4, <1>6, <2>1, <2>2 DEF GroupInv, AtMostOnce
  <1>. QED
    BY <1>5, <1>6
-----------------------------------------------------------------------------
\* The steps of Group keep its invariant, whatever the handlers do in between.
LEMMA RebalanceInv ==
    ASSUME GroupInv, NEW r \in Member, Rebalance(r)
    PROVE  GroupInv'
  <1>1. GroupTyped'
    BY GroupAssumption DEF GroupInv, GroupTyped, GroupTypeOK, Rebalance, Up
  <1>. QED
    BY <1>1, RebalanceKeeps DEF GroupInv

\* The owner fetches the next message.
LEMMA FetchInv ==
    ASSUME GroupInv, NEW r \in Member, Fetch(r)
    PROVE  GroupInv'
  <1>1. position + 1 \in Message /\ position + 1 # None
    BY GroupAssumption DEF GroupInv, GroupTyped, GroupTypeOK, Fetch, Message, None
  <1>2. GroupTyped'
    BY <1>1, GroupAssumption
       DEF GroupInv, GroupTyped, GroupTypeOK, Fetch, Goto, Labels, Up, countVars, Message
  <1>. QED
    BY <1>2, FetchKeeps DEF GroupInv

\* A commit comes with a message that the group still owes its handlers.
LEMMA CommitInv ==
    ASSUME GroupInv, NEW r \in Member, Commit(r)
    PROVE  GroupInv' /\ times[at[r]] <= interrupted
  <1>1. PICK a \in Message : a = at[r]
    BY DEF GroupInv, GroupTyped, GroupTypeOK, Commit
  <1>2. AtMostOnce' /\ times[at[r]] <= interrupted
    BY ReadEnds DEF Commit, Reading, Goto, countVars, Labels
  <1>3. times' \in [Message -> Nat]
    BY <1>1 DEF GroupInv, GroupTyped, GroupTypeOK, Commit
  <1>4. committed' \in 0 .. Messages
    BY <1>1, GroupAssumption DEF Commit, Message
  <1>5. GroupTyped'
    BY <1>1, <1>3, <1>4, GroupAssumption
       DEF GroupInv, GroupTyped, GroupTypeOK, Commit, Goto, Labels, Up, countVars
  <1>. QED
    BY <1>2, <1>5 DEF GroupInv

\* The context ends between the fetch and the commit.
LEMMA TimesOutInv ==
    ASSUME GroupInv, NEW r \in Member, TimesOut(r)
    PROVE  GroupInv'
  <1>0. /\ "read" \in Labels \ {"commit"} /\ pc' = [pc EXCEPT ![r] = "read"] /\ Reading(r)
        /\ \A s \in Member \ {r} : at'[s] = at[s]
        /\ UNCHANGED <<owner, position, times, interrupted>>
        /\ committed' \in {committed, at[r]}
    BY DEF TimesOut, Reading, Goto, Labels, GroupInv, GroupTyped, GroupTypeOK
  <1>1. PICK a \in Message : a = at[r]
    BY DEF GroupInv, GroupTyped, GroupTypeOK, TimesOut
  <1>2. AtMostOnce'
    BY <1>0, ReadEnds
  <1>3. committed' \in 0 .. Messages /\ timeouts' \in 0 .. MaxTimeouts
    BY <1>1, GroupAssumption DEF TimesOut, Message, GroupInv, GroupTyped, GroupTypeOK
  <1>4. GroupTyped'
    BY <1>1, <1>3, GroupAssumption DEF GroupInv, GroupTyped, GroupTypeOK, TimesOut, Goto, Labels, Up
  <1>. QED
    BY <1>2, <1>4 DEF GroupInv

\* The handlers are done with a message, and the reader asks for the next.
LEMMA ReturnInv ==
    ASSUME GroupInv, NEW r \in Member, pc[r] = "handle", Return(r)
    PROVE  GroupInv'
  <1>0. /\ "read" \in Labels \ {"commit"} /\ pc' = [pc EXCEPT ![r] = "read"] /\ ~Reading(r)
        /\ \A s \in Member \ {r} : at'[s] = at[s]
        /\ UNCHANGED <<committed, owner, position, times, interrupted>>
    BY DEF Return, Reading, Goto, countVars, Labels, GroupInv, GroupTyped, GroupTypeOK
  <1>1. AtMostOnce'
    BY <1>0, NoReadKeeps
  <1>2. GroupTyped'
    BY GroupAssumption DEF GroupInv, GroupTyped, GroupTypeOK, Return, Goto, Labels, Up, countVars
  <1>. QED
    BY <1>1, <1>2 DEF GroupInv

\* A reader closes, or its process ends.
LEMMA StopReadingInv ==
    ASSUME GroupInv, NEW r \in Member, StopReading(r)
    PROVE  GroupInv'
  <1>0. /\ "down" \in Labels \ {"commit"} /\ pc' = [pc EXCEPT ![r] = "down"]
        /\ \A s \in Member \ {r} : at'[s] = at[s]
        /\ owner' = owner \/ (owner = r /\ owner' = Nobody)
        /\ UNCHANGED <<position, times, interrupted>>
        /\ committed' \in {committed} \cup (IF Reading(r) THEN {at[r]} ELSE {})
    BY DEF StopReading, Goto, Labels, GroupInv, GroupTyped, GroupTypeOK
  <1>1. AtMostOnce'
    <2>1. CASE Reading(r)
      BY <1>0, <2>1, ReadEnds
    <2>2. CASE ~Reading(r)
      BY <1>0, <2>2, NoReadKeeps
    <2>. QED
      BY <2>1, <2>2
  <1>2. committed' \in 0 .. Messages /\ stops' \in 0 .. MaxStops
    BY GroupAssumption DEF StopReading, Reading, Message, None, GroupInv, GroupTyped, GroupTypeOK
  <1>3. GroupTyped'
    BY <1>2, GroupAssumption
       DEF GroupInv, GroupTyped, GroupTypeOK, StopReading, Goto, Labels, Up
  <1>. QED
    BY <1>1, <1>3 DEF GroupInv

\* A process starts to read.
LEMMA StartReadingInv ==
    ASSUME GroupInv, NEW r \in Member, StartReading(r)
    PROVE  GroupInv'
  <1>0. /\ "read" \in Labels \ {"commit"} /\ pc' = [pc EXCEPT ![r] = "read"] /\ ~Reading(r)
        /\ UNCHANGED <<committed, owner, position, at, times, interrupted>>
    BY DEF StartReading, Reading, Goto, Labels, Up, readerVars, countVars
  <1>1. AtMostOnce'
    BY <1>0, NoReadKeeps
  <1>2. GroupTyped'
    BY GroupAssumption
       DEF GroupInv, GroupTyped, GroupTypeOK, StartReading, Goto, Labels, Up, readerVars, countVars
  <1>. QED
    BY <1>1, <1>2 DEF GroupInv

\* The handler goes on with its message.
LEMMA HandlingInv ==
    ASSUME GroupInv, NEW r \in Member, pc[r] \in {"handle", "publish"},
           NEW l \in {"handle", "publish"}, Goto(r, l), UNCHANGED <<readerVars, countVars>>
    PROVE  GroupInv'
  <1>1. AtMostOnce'
    BY NoReadKeeps DEF Reading, Goto, Labels, readerVars, countVars
  <1>2. GroupTyped'
    BY GroupAssumption DEF GroupInv, GroupTyped, GroupTypeOK, Goto, Labels, Up, readerVars, countVars
  <1>. QED
    BY <1>1, <1>2 DEF GroupInv

\* A step of the handlers leaves the group as it is.
LEMMA UnchangedInv ==
    ASSUME GroupInv, UNCHANGED groupVars
    PROVE  GroupInv'
  <1>1. UNCHANGED <<committed, owner, position, at, times, interrupted, stops, timeouts, pc>>
    BY DEF groupVars, readerVars, countVars
  <1>2. Stale' = Stale
    BY <1>1 DEF Stale, Reading, Live
  <1>. QED
    BY <1>1, <1>2 DEF GroupInv, GroupTyped, GroupTypeOK, AtMostOnce, Owed, Reading, Live, Up

\* A group that nobody has joined.
LEMMA GroupInitInv == GroupInit => GroupInv
  <1> SUFFICES ASSUME GroupInit
               PROVE  GroupInv
    OBVIOUS
  <1>1. GroupTyped
    BY GroupAssumption DEF GroupInit, GroupTyped, GroupTypeOK, Labels, None, Up
  <1>2. Stale = {} /\ \A r \in Member : ~Reading(r)
    BY DEF GroupInit, Stale, Reading
  <1>3. IsFiniteSet(Stale) /\ Cardinality(Stale) = 0
    BY <1>2, FS_EmptySet
  <1>. QED
    BY <1>1, <1>2, <1>3 DEF GroupInv, AtMostOnce, Owed, GroupInit
-----------------------------------------------------------------------------
\* A message is handed out, or the generation changes during a read, or what the
\* group promises sees nothing.
LEMMA LoopDelivers ==
    ASSUME GroupInv, NEW r \in Member,
           Rebalance(r) \/ Fetch(r) \/ Commit(r) \/ TimesOut(r)
    PROVE  [D!Next]_(D!deliveryVars)
  <1>1. CASE Rebalance(r)
    BY <1>1 DEF Rebalance, D!Next, D!Interrupt, D!deliveryVars
  <1>2. CASE Fetch(r)
    BY <1>2 DEF Fetch, countVars, D!deliveryVars
  <1>3. CASE Commit(r)
    <2>1. at[r] \in Message /\ times[at[r]] <= interrupted
      BY <1>3, CommitInv DEF GroupInv, GroupTyped, GroupTypeOK, Commit
    <2>2. D!Handle(at[r])
      BY <1>3, <2>1 DEF Commit, countVars, D!Handle
    <2>. QED
      BY <2>1, <2>2 DEF D!Next
  <1>4. CASE TimesOut(r)
    BY <1>4 DEF TimesOut, D!deliveryVars
  <1>. QED
    BY <1>1, <1>2, <1>3, <1>4
-----------------------------------------------------------------------------
(* The handlers behind the loop. *)

ItemId == Message \X Nat
DecisionMessage == [item : ItemId, maker : Member, hash : Nat]

Typed == /\ service \in Kinds
         /\ next \in [Member -> Nat \ {0}]
         /\ chain \in [Member -> Seq(ItemId)]
         /\ rows \in Nat /\ cached \in [Member -> Nat]
         /\ published \subseteq DecisionMessage
         /\ foreign \in 0 .. MaxForeign

Settled(m, k) == Items(m)[k] = "invalid" \/ <<m, k>> \in done \cup failed

\* A handler has settled the items of its message up to the next, and between
\* Decide and Publish its last record is that of the item it is at.
Handler(r) ==
    /\ cached[r] <= rows
    /\ at[r] = None \/ pc[r] = "commit" => next[r] = 1
    /\ at[r] # None => /\ next[r] <= Len(Items(at[r])) + 1
                       /\ \A k \in 1 .. next[r] - 1 : Settled(at[r], k)
    /\ pc[r] = "publish" => /\ next[r] <= Len(Items(at[r]))
                            /\ chain[r] # <<>>
                            /\ chain[r][Len(chain[r])] = ItemAt(r)

\* What a reader has been past and nobody will see through to its end.  The
\* offsets of readers and of the group go back and forth, but no message is new
\* to the group and not in the hand of the process that fetched it.
Reached(m) == m <= committed \/ m <= position \/ \E r \in Member : m <= at[r]
Lost == {m \in Message : Reached(m) /\ ~Handled(m) /\ ~InHand(m)}
LossPaid == Cardinality(Lost) <= stops + timeouts

IInv == /\ GroupInv
        /\ Typed
        /\ \A r \in Member : Handler(r)
        /\ Traceable
        /\ LossPaid
-----------------------------------------------------------------------------
\* A message is a sequence of items, whatever the service.
LEMMA MessageItems ==
    ASSUME service \in Kinds, NEW m \in Message
    PROVE  Items(m) \in Seq(Item) /\ Len(Items(m)) \in Nat /\ DOMAIN Items(m) = 1 .. Len(Items(m))
  <1>1. Contents[service] \in Seq(Seq(Item)) /\ Len(Contents[service]) = Messages
    BY ServicesAssumption
  <1>2. Items(m) \in Seq(Item)
    BY <1>1, ElementOfSeq DEF Items, Message
  <1>. QED
    BY <1>2, LenProperties

\* What is lost is a finite number of messages.
LEMMA LostIsFinite == IsFiniteSet(Lost) /\ Cardinality(Lost) \in Nat
  <1>1. IsFiniteSet(Message) /\ Lost \subseteq Message
    BY GroupAssumption, FS_Interval DEF Message, Lost
  <1>. QED
    BY <1>1, FS_Subset, FS_CardinalityType

\* No more is lost, or one message for one stop or timeout.
LEMMA NoneLost ==
    ASSUME LossPaid, GroupInv, Lost' \subseteq Lost, UNCHANGED <<stops, timeouts>>
    PROVE  LossPaid'
  <1>1. Cardinality(Lost') <= Cardinality(Lost) /\ Cardinality(Lost') \in Nat
    BY LostIsFinite, FS_Subset, FS_CardinalityType
  <1>2. stops \in Nat /\ timeouts \in Nat
    BY DEF GroupInv, GroupTyped, GroupTypeOK
  <1>. QED
    BY <1>1, <1>2, LostIsFinite DEF LossPaid

\* A stop or a timeout pays for one more.
LEMMA OneLost ==
    ASSUME LossPaid, GroupInv, NEW x, Lost' \subseteq Lost \cup {x},
           \/ stops' = stops + 1 /\ UNCHANGED timeouts
           \/ timeouts' = timeouts + 1 /\ UNCHANGED stops
    PROVE  LossPaid'
  <1>1. /\ IsFiniteSet(Lost \cup {x})
        /\ Cardinality(Lost \cup {x}) <= Cardinality(Lost) + 1
    BY LostIsFinite, FS_AddElement
  <1>2. /\ Cardinality(Lost') <= Cardinality(Lost \cup {x})
        /\ Cardinality(Lost') \in Nat /\ Cardinality(Lost \cup {x}) \in Nat
    BY <1>1, FS_Subset, FS_CardinalityType
  <1>3. stops \in Nat /\ timeouts \in Nat
    BY DEF GroupInv, GroupTyped, GroupTypeOK
  <1>. QED
    BY <1>1, <1>2, <1>3, LostIsFinite DEF LossPaid

\* What is handled stays so.
LEMMA HandledStays ==
    ASSUME UNCHANGED service, done \subseteq done', failed \subseteq failed', NEW m, NEW k
    PROVE  /\ Handled(m) => Handled(m)'
           /\ Settled(m, k) => Settled(m, k)'
  BY DEF Handled, Settled, Items

\* The handlers that a step does not move.
LEMMA OthersHandle ==
    ASSUME Typed, NEW s \in Member, Handler(s),
           pc'[s] = pc[s], at'[s] = at[s], next'[s] = next[s], chain'[s] = chain[s],
           cached'[s] = cached[s], rows' \in {rows, rows + 1}, UNCHANGED service,
           done \subseteq done', failed \subseteq failed'
    PROVE  Handler(s)'
  <1>1. cached'[s] <= rows'
    BY DEF Typed, Handler
  <1>2. \A m, k : Settled(m, k) => Settled(m, k)'
    BY HandledStays
  <1>3. \A m : Items(m)' = Items(m)
    BY DEF Items
  <1>. QED
    BY <1>1, <1>2, <1>3 DEF Handler, ItemAt

\* A chain that grows keeps its decisions traceable.
LEMMA RecordedStays ==
    ASSUME Typed, Traceable, NEW r \in Member, NEW x \in ItemId,
           chain' = [chain EXCEPT ![r] = Append(@, x)], UNCHANGED published
    PROVE  /\ Traceable'
           /\ chain' \in [Member -> Seq(ItemId)]
           /\ chain'[r] # <<>> /\ chain'[r][Len(chain'[r])] = x
  <1>1. PICK c \in Seq(ItemId) : c = chain[r]
    BY DEF Typed
  <1>2. /\ Append(c, x) \in Seq(ItemId) /\ Len(Append(c, x)) = Len(c) + 1
        /\ Len(c) \in Nat /\ DOMAIN c = 1 .. Len(c)
        /\ \A i \in 1 .. Len(c) : Append(c, x)[i] = c[i]
        /\ Append(c, x)[Len(c) + 1] = x
        /\ DOMAIN Append(c, x) = 1 .. Len(c) + 1
    BY AppendProperties, LenProperties
  <1>3. /\ chain'[r] = Append(c, x)
        /\ \A s \in Member \ {r} : chain'[s] = chain[s]
        /\ chain' \in [Member -> Seq(ItemId)]
    BY <1>1, <1>2 DEF Typed
  <1>4. ASSUME NEW d \in published
        PROVE  d.hash \in DOMAIN chain'[d.maker] /\ chain'[d.maker][d.hash] = d.item
    <2>1. d.maker \in Member /\ d.hash \in DOMAIN chain[d.maker] /\ chain[d.maker][d.hash] = d.item
      BY DEF Typed, DecisionMessage, Traceable
    <2>2. CASE d.maker = r
      BY <1>1, <1>2, <1>3, <2>1, <2>2
    <2>3. CASE d.maker # r
      BY <1>3, <2>1, <2>3
    <2>. QED
      BY <2>2, <2>3
  <1>. QED
    BY <1>2, <1>3, <1>4 DEF Traceable
-----------------------------------------------------------------------------
\* The loop: what a step of Group does to what is lost.
LEMMA ReadKeeps ==
    ASSUME IInv, NEW r \in Member, Read(r)
    PROVE  IInv'
  <1>1. UNCHANGED <<service, next, chain, rows, cached, published, done, failed, foreign>>
    BY DEF Read, storeVars, outVars
  <1>2. GroupInv'
    BY RebalanceInv, FetchInv, CommitInv, TimesOutInv DEF IInv, Read
  <1>3. Typed' /\ Traceable'
    BY <1>1 DEF IInv, Typed, Traceable
  <1>4. /\ pc'[r] # "publish" \/ (pc'[r] = pc[r] /\ at'[r] = at[r])
        /\ \A s \in Member \ {r} : pc'[s] = pc[s] /\ at'[s] = at[s]
        /\ at'[r] = at[r] \/ at[r] = None \/ (pc[r] = "commit" /\ at'[r] = None)
    BY DEF Read, Rebalance, Fetch, Commit, TimesOut, Goto, IInv, GroupInv, GroupTyped, GroupTypeOK
  <1>5. ASSUME NEW s \in Member
        PROVE  Handler(s)'
    <2>1. CASE s # r
      BY <1>1, <1>4, <2>1, OthersHandle DEF IInv
    <2>2. CASE s = r
      <3>1. CASE pc'[r] = pc[r] /\ at'[r] = at[r]
        BY <1>1, <2>2, <3>1, OthersHandle DEF IInv
      <3>2. CASE pc'[r] # pc[r] \/ at'[r] # at[r]
        <4>1. next[r] = 1
          BY <3>2 DEF Read, Rebalance, Fetch, Commit, TimesOut, IInv, Handler, GroupInv,
                      GroupTyped, GroupTypeOK
        <4>2. pc'[r] # "publish"
          BY <1>4, <3>2
        <4>3. at'[r] # None => at'[r] \in Message
          BY <1>2 DEF GroupInv, GroupTyped, GroupTypeOK
        <4>4. at'[r] # None => 1 <= Len(Items(at[r]))' + 1
          <5>1. ASSUME at'[r] # None
                PROVE  1 <= Len(Items(at[r]))' + 1
            <6>1. PICK m \in Message : m = at'[r]
              BY <4>3, <5>1
            <6>2. Len(Items(m)) \in Nat /\ Items(m)' = Items(m)
              BY <1>1, MessageItems DEF IInv, Typed, Items
            <6>. QED
              BY <6>1, <6>2 DEF Items
          <5>. QED
            BY <5>1
        <4>5. 1 .. 1 - 1 = {}
          OBVIOUS
        <4>. QED
          BY <1>1, <2>2, <4>1, <4>2, <4>4, <4>5 DEF IInv, Handler
      <3>. QED
        BY <3>1, <3>2
    <2>. QED
      BY <2>1, <2>2
  <1>6. LossPaid'
    <2>1. \A m : Handled(m)' <=> Handled(m)
      BY <1>1 DEF Handled, Items
    <2>2. CASE Rebalance(r)
      <3>1. UNCHANGED <<committed, at, stops, timeouts>> /\ position' = committed
        BY <2>2 DEF Rebalance
      <3>2. Lost' \subseteq Lost
        BY <2>1, <3>1 DEF Lost, Reached, InHand
      <3>. QED
        BY <3>1, <3>2, NoneLost DEF IInv
    <2>3. CASE Fetch(r)
      <3>1. UNCHANGED <<committed, stops, timeouts>> /\ position' = position + 1 /\ at[r] = None
        BY <2>3 DEF Fetch, countVars, IInv, GroupInv, GroupTyped, GroupTypeOK
      <3>2. at'[r] = position + 1 /\ \A s \in Member \ {r} : at'[s] = at[s]
        BY <2>3 DEF Fetch, IInv, GroupInv, GroupTyped, GroupTypeOK
      <3>3. ASSUME NEW m \in Lost'
            PROVE  m \in Lost
        <4>1. m \in Message /\ ~Handled(m) /\ ~InHand(m)' /\ Reached(m)'
          BY <2>1 DEF Lost
        <4>2. m # position + 1
          BY <3>2, <4>1 DEF InHand
        <4>3. m \in Nat /\ position \in Nat
          BY <4>1, Numbers DEF IInv
        <4>4. Reached(m)
          BY <3>1, <3>2, <4>1, <4>2, <4>3 DEF Reached
        <4>5. ~InHand(m)
          BY <3>1, <3>2, <4>1, <4>3 DEF InHand, None, Message
        <4>. QED
          BY <4>1, <4>4, <4>5 DEF Lost
      <3>. QED
        BY <3>1, <3>3, NoneLost DEF IInv
    <2>4. CASE Commit(r)
      <3>1. UNCHANGED <<position, at, stops, timeouts>> /\ committed' = at[r]
        BY <2>4 DEF Commit, countVars
      <3>2. Lost' \subseteq Lost
        BY <2>1, <3>1 DEF Lost, Reached, InHand
      <3>. QED
        BY <3>1, <3>2, NoneLost DEF IInv
    <2>5. CASE TimesOut(r)
      <3>1. UNCHANGED <<position, stops>> /\ committed' \in {committed, at[r]}
        BY <2>5 DEF TimesOut
      <3>2. at'[r] = None /\ (\A s \in Member \ {r} : at'[s] = at[s]) /\ timeouts' = timeouts + 1
        BY <2>5 DEF TimesOut, IInv, GroupInv, GroupTyped, GroupTypeOK
      <3>3. \A m \in Message : ~(m <= None) /\ m # None
        BY GroupAssumption DEF Message, None
      <3>4. Lost' \subseteq Lost \cup {at[r]}
        BY <2>1, <3>1, <3>2, <3>3 DEF Lost, Reached, InHand
      <3>. QED
        BY <3>1, <3>2, <3>4, OneLost DEF IInv
    <2>. QED
      BY <2>2, <2>3, <2>4, <2>5 DEF Read
  <1>. QED
    BY <1>2, <1>3, <1>5, <1>6 DEF IInv
-----------------------------------------------------------------------------
\* The handlers.  One that goes on with its message loses none.
LEMMA HandlesItem ==
    ASSUME IInv, NEW r \in Member, pc[r] \in {"handle", "publish"},
           NEW l \in {"handle", "publish"}, Goto(r, l),
           UNCHANGED <<readerVars, countVars, service>>,
           done \subseteq done', failed \subseteq failed', rows' \in {rows, rows + 1},
           \A s \in Member \ {r} : /\ next'[s] = next[s] /\ chain'[s] = chain[s]
                                   /\ cached'[s] = cached[s],
           Typed', Traceable', Handler(r)'
    PROVE  IInv'
  <1>1. GroupInv'
    BY HandlingInv DEF IInv
  <1>2. ASSUME NEW s \in Member
        PROVE  Handler(s)'
    <2>1. CASE s # r
      <3>1. pc'[s] = pc[s] /\ at'[s] = at[s]
        BY <2>1 DEF Goto, IInv, GroupInv, GroupTyped, readerVars
      <3>. QED
        BY <2>1, <3>1, OthersHandle DEF IInv
    <2>. QED
      BY <2>1
  <1>3. LossPaid'
    <2>1. \A m : Handled(m) => Handled(m)'
      BY HandledStays
    <2>2. UNCHANGED <<committed, position, at, stops, timeouts>>
      BY DEF readerVars, countVars
    <2>3. Lost' \subseteq Lost
      BY <2>1, <2>2 DEF Lost, Reached, InHand
    <2>. QED
      BY <2>2, <2>3, NoneLost DEF IInv
  <1>. QED
    BY <1>1, <1>2, <1>3 DEF IInv

\* The item a handler is at is one of its message.
LEMMA AtAnItem ==
    ASSUME IInv, NEW r \in Member, pc[r] \in {"handle", "publish"},
           next[r] <= Len(Items(at[r]))
    PROVE  /\ at[r] \in Message /\ at[r] # None /\ next[r] \in Nat \ {0}
           /\ Len(Items(at[r])) \in Nat
           /\ ItemAt(r) \in ItemId
           /\ next[r] + 1 <= Len(Items(at[r])) + 1
           /\ \A k \in 1 .. next[r] + 1 - 1 : k \in 1 .. next[r] - 1 \/ k = next[r]
  <1>1. at[r] \in Message /\ at[r] # None /\ next[r] \in Nat \ {0}
    BY GroupAssumption DEF IInv, GroupInv, GroupTyped, GroupTypeOK, Typed, Message, None
  <1>2. Len(Items(at[r])) \in Nat
    BY <1>1, MessageItems DEF IInv, Typed
  <1>. QED
    BY <1>1, <1>2 DEF ItemAt, ItemId

\* A handler that has settled its item advances.
LEMMA Advances ==
    ASSUME IInv, NEW r \in Member, pc[r] \in {"handle", "publish"},
           next[r] <= Len(Items(at[r])), Advance(r), UNCHANGED <<at, service>>,
           pc'[r] = "handle", cached'[r] <= rows',
           done \subseteq done', failed \subseteq failed',
           NEW m, m = at[r], NEW n, n = next[r], Settled(m, n)'
    PROVE  Handler(r)' /\ next' \in [Member -> Nat \ {0}]
  <1>1. /\ m # None /\ n \in Nat \ {0}
        /\ n + 1 <= Len(Items(m)) + 1
        /\ \A k \in 1 .. n + 1 - 1 : k \in 1 .. n - 1 \/ k = n
    BY AtAnItem
  <1>2. next'[r] = n + 1 /\ next' \in [Member -> Nat \ {0}]
    BY <1>1 DEF Advance, IInv, Typed
  <1>3. \A k : Settled(m, k) => Settled(m, k)'
    BY DEF Settled, Items
  <1>4. ASSUME NEW k \in 1 .. n + 1 - 1
        PROVE  Settled(m, k)'
    <2>1. CASE k = n
      BY <2>1
    <2>2. CASE k \in 1 .. n - 1
      <3>1. Settled(m, k)
        BY <1>1, <2>2 DEF IInv, Handler
      <3>. QED
        BY <1>3, <3>1
    <2>. QED
      BY <1>1, <2>1, <2>2
  <1>5. Len(Items(m))' = Len(Items(m))
    BY DEF Items
  <1>. QED
    BY <1>1, <1>2, <1>4, <1>5 DEF Handler

\* An event that is not valid is passed over.
LEMMA PassOverKeeps ==
    ASSUME IInv, NEW r \in Member, PassOver(r)
    PROVE  IInv'
  <1>1. /\ pc[r] = "handle" /\ next[r] <= Len(Items(at[r])) /\ Next1(r) = "invalid"
        /\ Advance(r)
        /\ UNCHANGED <<readerVars, countVars, pc, at, service, chain, rows, cached, published,
                       done, failed, foreign>>
    BY DEF PassOver, Handling, groupVars, readerVars, storeVars, outVars
  <1>2. PICK m, n : m = at[r] /\ n = next[r]
    OBVIOUS
  <1>3. Settled(m, n)'
    BY <1>1, <1>2 DEF Settled, Next1, Items
  <1>4. Handler(r)' /\ next' \in [Member -> Nat \ {0}]
    BY <1>1, <1>2, <1>3, Advances DEF IInv, Handler
  <1>5. Goto(r, "handle") /\ (\A s \in Member \ {r} : next'[s] = next[s])
    BY <1>1 DEF Goto, Advance, IInv, GroupInv, GroupTyped, Typed
  <1>6. Typed' /\ Traceable'
    BY <1>1, <1>4 DEF IInv, Typed, Traceable
  <1>. QED
    BY <1>1, <1>4, <1>5, <1>6, HandlesItem

\* The bridge hands the item over.
LEMMA CallBackKeeps ==
    ASSUME IInv, NEW r \in Member, CallBack(r)
    PROVE  IInv'
  <1>1. /\ pc[r] = "handle" /\ next[r] <= Len(Items(at[r]))
        /\ Advance(r) /\ done' = done \cup {ItemAt(r)}
        /\ UNCHANGED <<readerVars, countVars, pc, at, service, chain, rows, cached, published,
                       failed, foreign>>
    BY DEF CallBack, Handling, groupVars, readerVars, storeVars
  <1>2. PICK m, n : m = at[r] /\ n = next[r]
    OBVIOUS
  <1>3. Settled(m, n)'
    BY <1>1, <1>2 DEF Settled, ItemAt
  <1>4. Handler(r)' /\ next' \in [Member -> Nat \ {0}]
    BY <1>1, <1>2, <1>3, Advances DEF IInv, Handler
  <1>5. Goto(r, "handle") /\ (\A s \in Member \ {r} : next'[s] = next[s])
    BY <1>1 DEF Goto, Advance, IInv, GroupInv, GroupTyped, Typed
  <1>6. Typed' /\ Traceable'
    BY <1>1, <1>4 DEF IInv, Typed, Traceable
  <1>. QED
    BY <1>1, <1>4, <1>5, <1>6, HandlesItem

\* Decide appends the record of the item that Publish is to announce.
LEMMA DecideKeeps ==
    ASSUME IInv, NEW r \in Member, Decide(r)
    PROVE  IInv'
  <1>1. /\ pc[r] = "handle" /\ next[r] <= Len(Items(at[r]))
        /\ chain' = [chain EXCEPT ![r] = Append(@, ItemAt(r))]
        /\ Goto(r, "publish")
        /\ UNCHANGED <<readerVars, countVars, at, service, next, rows, cached, published,
                       done, failed, foreign>>
    BY DEF Decide, Handling, readerVars, outVars
  <1>2. /\ at[r] # None /\ next[r] \in Nat \ {0} /\ Len(Items(at[r])) \in Nat
        /\ ItemAt(r) \in ItemId
    BY <1>1, AtAnItem
  <1>3. /\ Traceable' /\ chain' \in [Member -> Seq(ItemId)]
        /\ chain'[r] # <<>> /\ chain'[r][Len(chain'[r])] = ItemAt(r)
    BY <1>1, <1>2, RecordedStays DEF IInv
  <1>4. Typed'
    BY <1>1, <1>3 DEF IInv, Typed
  <1>5. Handler(r)'
    <2>1. ItemAt(r)' = ItemAt(r) /\ Len(Items(at[r]))' = Len(Items(at[r]))
      BY <1>1 DEF ItemAt, Items
    <2>2. pc'[r] = "publish"
      BY <1>1 DEF Goto, IInv, GroupInv, GroupTyped
    <2>3. \A k : Settled(at[r], k)' <=> Settled(at[r], k)
      BY <1>1 DEF Settled, Items
    <2>4. cached'[r] <= rows' /\ \A k \in 1 .. next[r] - 1 : Settled(at[r], k)'
      BY <1>1, <1>2, <2>3 DEF IInv, Handler
    <2>. QED
      BY <1>1, <1>2, <1>3, <2>1, <2>2, <2>4 DEF Handler
  <1>6. \A s \in Member \ {r} : chain'[s] = chain[s]
    BY <1>1 DEF IInv, Typed
  <1>. QED
    BY <1>1, <1>3, <1>4, <1>5, <1>6, HandlesItem

\* The hash that is published is that of the record of its item.
LEMMA PublishKeeps ==
    ASSUME IInv, NEW r \in Member, Publish(r)
    PROVE  IInv'
  <1>1. /\ pc[r] = "publish" /\ Advance(r) /\ Goto(r, "handle")
        /\ UNCHANGED <<readerVars, countVars, at, service, chain, rows, cached, foreign>>
        /\ \/ published' = published \cup {Decision(r)} /\ ItemAt(r) \in done'
           \/ UNCHANGED published /\ ItemAt(r) \in failed'
        /\ done \subseteq done' /\ failed \subseteq failed'
    BY DEF Publish, readerVars, storeVars
  <1>2. /\ next[r] <= Len(Items(at[r])) /\ chain[r] # <<>>
        /\ chain[r][Len(chain[r])] = ItemAt(r)
    BY <1>1 DEF IInv, Handler
  <1>3. PICK m, n : m = at[r] /\ n = next[r]
    OBVIOUS
  <1>4. Settled(m, n)'
    BY <1>1, <1>3 DEF Settled, ItemAt
  <1>5. pc'[r] = "handle"
    BY <1>1 DEF Goto, IInv, GroupInv, GroupTyped
  <1>6. Handler(r)' /\ next' \in [Member -> Nat \ {0}]
    BY <1>1, <1>2, <1>3, <1>4, <1>5, Advances DEF IInv, Handler
  <1>7. PICK h \in Nat : h = Len(chain[r]) /\ h \in DOMAIN chain[r]
    <2>1. chain[r] \in Seq(ItemId)
      BY DEF IInv, Typed
    <2>2. Len(chain[r]) \in Nat /\ DOMAIN chain[r] = 1 .. Len(chain[r]) /\ Len(chain[r]) # 0
      BY <1>2, <2>1, LenProperties
    <2>. QED
      BY <2>2
  <1>8. ItemAt(r) \in ItemId
    BY <1>1, <1>2, AtAnItem
  <1>9. /\ Decision(r) \in DecisionMessage
        /\ Decision(r).hash \in DOMAIN chain[r] /\ chain[r][Decision(r).hash] = ItemAt(r)
        /\ Decision(r).maker = r /\ Decision(r).item = ItemAt(r)
    BY <1>2, <1>7, <1>8 DEF Decision, DecisionMessage
  <1>10. Traceable'
    BY <1>1, <1>9 DEF IInv, Traceable
  <1>11. Typed'
    BY <1>1, <1>6, <1>9 DEF IInv, Typed
  <1>12. \A s \in Member \ {r} : next'[s] = next[s]
    BY <1>1 DEF Advance, IInv, Typed
  <1>. QED
    BY <1>1, <1>6, <1>10, <1>11, <1>12, HandlesItem

\* The audit-writer with the chain of its own memory.
LEMMA RecordInMemoryKeeps ==
    ASSUME IInv, NEW r \in Member, RecordInMemory(r)
    PROVE  IInv'
  <1>1. /\ pc[r] = "handle" /\ next[r] <= Len(Items(at[r]))
        /\ chain' = [chain EXCEPT ![r] = Append(@, ItemAt(r))]
        /\ done' = done \cup {ItemAt(r)} /\ Advance(r)
        /\ UNCHANGED <<readerVars, countVars, pc, at, service, rows, cached, published,
                       failed, foreign>>
    BY DEF RecordInMemory, Handling, groupVars, readerVars
  <1>2. ItemAt(r) \in ItemId
    BY <1>1, AtAnItem
  <1>3. Traceable' /\ chain' \in [Member -> Seq(ItemId)]
    BY <1>1, <1>2, RecordedStays DEF IInv
  <1>4. PICK m, n : m = at[r] /\ n = next[r]
    OBVIOUS
  <1>5. Settled(m, n)'
    BY <1>1, <1>4 DEF Settled, ItemAt
  <1>6. Handler(r)' /\ next' \in [Member -> Nat \ {0}]
    BY <1>1, <1>4, <1>5, Advances DEF IInv, Handler
  <1>7. Typed'
    BY <1>1, <1>3, <1>6 DEF IInv, Typed
  <1>8. /\ Goto(r, "handle")
        /\ \A s \in Member \ {r} : next'[s] = next[s] /\ chain'[s] = chain[s]
    BY <1>1 DEF Goto, Advance, IInv, GroupInv, GroupTyped, Typed
  <1>. QED
    BY <1>1, <1>3, <1>6, <1>7, <1>8, HandlesItem

\* With the table: the cache follows the rows and is never ahead of them.
LEMMA RecordInTableKeeps ==
    ASSUME IInv, NEW r \in Member, RecordInTable(r)
    PROVE  IInv'
  <1>1. /\ pc[r] = "handle" /\ next[r] <= Len(Items(at[r])) /\ Advance(r)
        /\ UNCHANGED <<readerVars, countVars, pc, at, service, chain, published, foreign>>
    BY DEF RecordInTable, Handling, groupVars, readerVars
  <1>2. PICK row \in BOOLEAN, error \in BOOLEAN :
          /\ row \/ error
          /\ row => cached[r] = rows
          /\ rows' = IF row THEN rows + 1 ELSE rows
          /\ cached' = IF error THEN cached ELSE [cached EXCEPT ![r] = @ + 1]
          /\ done' = IF row THEN done \cup {ItemAt(r)} ELSE done
          /\ failed' = IF row THEN failed ELSE failed \cup {ItemAt(r)}
    BY DEF RecordInTable
  <1>3. /\ rows' \in Nat /\ rows' \in {rows, rows + 1} /\ cached' \in [Member -> Nat]
        /\ cached'[r] <= rows'
        /\ \A s \in Member \ {r} : cached'[s] = cached[s]
    BY <1>2 DEF IInv, Typed, Handler
  <1>4. PICK m, n : m = at[r] /\ n = next[r]
    OBVIOUS
  <1>5. done \subseteq done' /\ failed \subseteq failed' /\ Settled(m, n)'
    BY <1>2, <1>4 DEF Settled, ItemAt
  <1>6. pc'[r] = "handle"
    BY <1>1
  <1>7. Handler(r)' /\ next' \in [Member -> Nat \ {0}]
    BY <1>1, <1>3, <1>4, <1>5, <1>6, Advances
  <1>8. Typed' /\ Traceable'
    BY <1>1, <1>3, <1>7 DEF IInv, Typed, Traceable
  <1>9. /\ Goto(r, "handle")
        /\ \A s \in Member \ {r} : next'[s] = next[s]
    BY <1>1 DEF Goto, Advance, IInv, GroupInv, GroupTyped, Typed
  <1>. QED
    BY <1>1, <1>3, <1>5, <1>7, <1>8, <1>9, HandlesItem

\* A message leaves the hand of its process when it is handled to its end.
LEMMA FinishKeeps ==
    ASSUME IInv, NEW r \in Member, Finish(r)
    PROVE  IInv'
  <1>1. /\ pc[r] = "handle" /\ next[r] > Len(Items(at[r])) /\ Return(r)
        /\ next' = [next EXCEPT ![r] = 1]
        /\ UNCHANGED <<service, chain, rows, cached, published, done, failed, foreign>>
    BY DEF Finish, storeVars, outVars
  <1>2. GroupInv'
    BY <1>1, ReturnInv DEF IInv
  <1>3. Typed' /\ Traceable'
    BY <1>1 DEF IInv, Typed, Traceable
  <1>4. /\ at'[r] = None /\ next'[r] = 1 /\ pc'[r] = "read"
        /\ \A s \in Member \ {r} : pc'[s] = pc[s] /\ at'[s] = at[s] /\ next'[s] = next[s]
        /\ UNCHANGED <<committed, position, stops, timeouts>>
    BY <1>1 DEF Return, Goto, countVars, IInv, GroupInv, GroupTyped, GroupTypeOK, Typed
  <1>5. ASSUME NEW s \in Member
        PROVE  Handler(s)'
    <2>1. CASE s # r
      BY <1>1, <1>4, <2>1, OthersHandle DEF IInv
    <2>2. CASE s = r
      BY <1>1, <1>4, <2>2 DEF IInv, Handler
    <2>. QED
      BY <2>1, <2>2
  <1>6. Handled(at[r])
    <2>1. PICK m \in Message, n \in Nat : m = at[r] /\ n = next[r] /\ m # None
      BY <1>1, GroupAssumption
         DEF IInv, GroupInv, GroupTyped, GroupTypeOK, Typed, Message, None
    <2>2. Len(Items(m)) \in Nat /\ DOMAIN Items(m) = 1 .. Len(Items(m))
      BY MessageItems DEF IInv, Typed
    <2>3. \A k \in DOMAIN Items(m) : k \in 1 .. n - 1
      BY <1>1, <2>1, <2>2
    <2>4. \A k \in 1 .. n - 1 : Settled(m, k)
      BY <2>1 DEF IInv, Handler
    <2>. QED
      BY <2>1, <2>3, <2>4 DEF Handled, Settled
  <1>7. LossPaid'
    <2>1. \A m : Handled(m)' <=> Handled(m)
      BY <1>1 DEF Handled, Items
    <2>2. \A m \in Message : ~(m <= None)
      BY GroupAssumption DEF Message, None
    <2>3. Lost' \subseteq Lost
      BY <1>4, <1>6, <2>1, <2>2 DEF Lost, Reached, InHand
    <2>. QED
      BY <1>4, <2>3, NoneLost DEF IInv
  <1>. QED
    BY <1>2, <1>3, <1>5, <1>7 DEF IInv

\* The end of a process costs the message it has in hand, and its decisions are no
\* longer asked about.
LEMMA StopKeeps ==
    ASSUME IInv, NEW r \in Member, Stop(r)
    PROVE  IInv'
  <1>1. /\ StopReading(r)
        /\ next' = [next EXCEPT ![r] = 1]
        /\ chain' = [chain EXCEPT ![r] = <<>>]
        /\ cached' = [cached EXCEPT ![r] = 0]
        /\ published' = {d \in published : d.maker # r}
        /\ done \subseteq done'
        /\ UNCHANGED <<service, rows, failed, foreign>>
    BY DEF Stop
  <1>2. GroupInv'
    BY <1>1, StopReadingInv DEF IInv
  <1>3. Typed'
    <2>1. chain' \in [Member -> Seq(ItemId)]
      BY <1>1, EmptySeq DEF IInv, Typed
    <2>. QED
      BY <1>1, <2>1 DEF IInv, Typed
  <1>4. Traceable'
    BY <1>1 DEF IInv, Typed, Traceable, DecisionMessage
  <1>5. /\ at'[r] = None /\ next'[r] = 1 /\ pc'[r] = "down" /\ cached'[r] = 0
        /\ \A s \in Member \ {r} : /\ pc'[s] = pc[s] /\ at'[s] = at[s] /\ next'[s] = next[s]
                                   /\ chain'[s] = chain[s] /\ cached'[s] = cached[s]
        /\ UNCHANGED <<position, timeouts>> /\ stops' = stops + 1
        /\ committed' \in {committed, at[r]}
    BY <1>1 DEF StopReading, Goto, IInv, GroupInv, GroupTyped, GroupTypeOK, Typed
  <1>6. ASSUME NEW s \in Member
        PROVE  Handler(s)'
    <2>1. CASE s # r
      BY <1>1, <1>5, <2>1, OthersHandle DEF IInv
    <2>2. CASE s = r
      BY <1>1, <1>5, <2>2 DEF IInv, Typed, Handler
    <2>. QED
      BY <2>1, <2>2
  <1>7. LossPaid'
    <2>1. \A m : Handled(m) => Handled(m)'
      BY <1>1, HandledStays
    <2>2. \A m \in Message : ~(m <= None)
      BY GroupAssumption DEF Message, None
    <2>3. Lost' \subseteq Lost \cup {at[r]}
      BY <1>5, <2>1, <2>2 DEF Lost, Reached, InHand
    <2>. QED
      BY <1>5, <2>3, OneLost DEF IInv
  <1>. QED
    BY <1>2, <1>3, <1>4, <1>6, <1>7 DEF IInv

\* A process that starts has seen all of the table.
LEMMA StartKeeps ==
    ASSUME IInv, NEW r \in Member, Start(r)
    PROVE  IInv'
  <1>1. /\ StartReading(r)
        /\ cached' = [cached EXCEPT ![r] = rows]
        /\ UNCHANGED <<committed, position, at, stops, timeouts, service, next, chain, rows,
                       published, done, failed, foreign>>
    BY DEF Start, StartReading, readerVars, countVars, outVars
  <1>2. GroupInv'
    BY <1>1, StartReadingInv DEF IInv
  <1>3. Typed' /\ Traceable'
    BY <1>1 DEF IInv, Typed, Traceable
  <1>4. /\ pc'[r] = "read" /\ at[r] = None /\ cached'[r] = rows
        /\ \A s \in Member \ {r} : pc'[s] = pc[s] /\ cached'[s] = cached[s]
    BY <1>1 DEF StartReading, Up, Goto, IInv, GroupInv, GroupTyped, GroupTypeOK, Typed
  <1>5. ASSUME NEW s \in Member
        PROVE  Handler(s)'
    <2>1. CASE s # r
      BY <1>1, <1>4, <2>1, OthersHandle DEF IInv
    <2>2. CASE s = r
      BY <1>1, <1>4, <2>2 DEF IInv, Typed, Handler
    <2>. QED
      BY <2>1, <2>2
  <1>6. Lost' \subseteq Lost
    BY <1>1 DEF Lost, Reached, InHand, Handled, Items
  <1>7. LossPaid'
    BY <1>1, <1>6, NoneLost DEF IInv
  <1>. QED
    BY <1>2, <1>3, <1>5, <1>7 DEF IInv

\* Another writer's row leaves the caches behind.
LEMMA ForeignAppendKeeps ==
    ASSUME IInv, ForeignAppend
    PROVE  IInv'
  <1>1. /\ rows' = rows + 1 /\ foreign' = foreign + 1 /\ foreign < MaxForeign
        /\ UNCHANGED <<groupVars, committed, position, at, pc, stops, timeouts, service, next,
                       chain, cached, published, done, failed>>
    BY DEF ForeignAppend, outVars, groupVars, readerVars, countVars
  <1>2. GroupInv'
    BY <1>1, UnchangedInv DEF IInv
  <1>3. Typed' /\ Traceable'
    BY <1>1, ServicesAssumption DEF IInv, Typed, Traceable
  <1>4. \A s \in Member : Handler(s)'
    BY <1>1, OthersHandle DEF IInv
  <1>5. Lost' \subseteq Lost
    BY <1>1 DEF Lost, Reached, InHand, Handled, Items
  <1>6. LossPaid'
    BY <1>1, <1>5, NoneLost DEF IInv
  <1>. QED
    BY <1>2, <1>3, <1>4, <1>6 DEF IInv
-----------------------------------------------------------------------------
\* Before anybody has joined there is nothing to lose.
LEMMA InitIInv == Init => IInv
  <1> SUFFICES ASSUME Init
               PROVE  IInv
    OBVIOUS
  <1>1. GroupInv
    BY GroupInitInv DEF Init
  <1>2. Typed
    BY ServicesAssumption, EmptySeq DEF Init, Typed
  <1>3. ASSUME NEW r \in Member
        PROVE  Handler(r)
    BY <1>3 DEF Init, GroupInit, Handler
  <1>4. Traceable
    BY DEF Init, Traceable
  <1>5. LossPaid
    <2>1. \A m \in Message : ~(m <= 0)
      BY GroupAssumption DEF Message
    <2>2. Lost = {}
      BY <2>1 DEF Lost, Reached, Init, GroupInit, None
    <2>3. Cardinality(Lost) = 0
      BY <2>2, FS_EmptySet
    <2>. QED
      BY <2>3 DEF LossPaid, Init, GroupInit
  <1>. QED
    BY <1>1, <1>2, <1>3, <1>4, <1>5 DEF IInv

\* Every step keeps the invariant.
LEMMA NextIInv == IInv /\ [Next]_servicesVars => IInv'
  <1> SUFFICES ASSUME IInv, [Next]_servicesVars
               PROVE  IInv'
    OBVIOUS
  <1>1. ASSUME NEW r \in Member, Read(r)
        PROVE  IInv'
    BY <1>1, ReadKeeps
  <1>2. ASSUME NEW r \in Member, Handle(r)
        PROVE  IInv'
    BY <1>2, FinishKeeps, PassOverKeeps, CallBackKeeps, DecideKeeps, PublishKeeps,
       RecordInMemoryKeeps, RecordInTableKeeps DEF Handle
  <1>3. ASSUME NEW r \in Member, Stop(r)
        PROVE  IInv'
    BY <1>3, StopKeeps
  <1>4. ASSUME NEW r \in Member, Start(r)
        PROVE  IInv'
    BY <1>4, StartKeeps
  <1>5. CASE ForeignAppend
    BY <1>5, ForeignAppendKeeps
  <1>6. CASE UNCHANGED servicesVars
    <2>1. UNCHANGED <<groupVars, committed, position, at, pc, stops, timeouts, service, next,
                      chain, rows, cached, published, done, failed, foreign>>
      BY <1>6 DEF servicesVars, storeVars, outVars, groupVars, readerVars, countVars
    <2>2. GroupInv'
      BY <2>1, UnchangedInv DEF IInv
    <2>3. Typed' /\ Traceable'
      BY <2>1 DEF IInv, Typed, Traceable
    <2>4. \A s \in Member : Handler(s)'
      BY <2>1, OthersHandle DEF IInv
    <2>5. Lost' \subseteq Lost
      BY <2>1 DEF Lost, Reached, InHand, Handled, Items
    <2>6. LossPaid'
      BY <2>1, <2>5, NoneLost DEF IInv
    <2>. QED
      BY <2>2, <2>3, <2>4, <2>6 DEF IInv
  <1>. QED
    BY <1>1, <1>2, <1>3, <1>4, <1>5, <1>6 DEF Next

\* The inductive invariant holds of every reachable state of the services.
THEOREM Invariance == Spec => []IInv
  BY InitIInv, NextIInv, PTL DEF Spec
-----------------------------------------------------------------------------
\* The group's state is well-formed, handlers are within their message, and no
\* process believes the table longer than it is.
THEOREM TypeCorrect == Spec => []TypeOK
  <1>1. IInv => TypeOK
    <2> SUFFICES ASSUME IInv
                 PROVE  TypeOK
      OBVIOUS
    <2>1. ASSUME NEW r \in Member
          PROVE  /\ pc[r] \in {"down", "read", "commit", "handle", "publish"}
                 /\ next[r] \in 1 .. (IF at[r] = None THEN 1 ELSE Len(Items(at[r])) + 1)
                 /\ cached[r] \in 0 .. rows
      <3>1. pc[r] \in {"down", "read", "commit", "handle", "publish"}
        BY DEF IInv, GroupInv, GroupTyped, Labels
      <3>2. cached[r] \in 0 .. rows
        <4>1. cached[r] \in Nat /\ rows \in Nat /\ cached[r] <= rows
          BY DEF IInv, Typed, Handler
        <4>. QED
          BY <4>1
      <3>3. next[r] \in Nat \ {0}
        BY DEF IInv, Typed
      <3>4. CASE at[r] = None
        <4>1. next[r] = 1
          BY <3>4 DEF IInv, Handler
        <4>. QED
          BY <3>1, <3>2, <3>4, <4>1
      <3>5. CASE at[r] # None
        <4>1. at[r] \in Message
          BY <3>5 DEF IInv, GroupInv, GroupTyped, GroupTypeOK
        <4>2. Len(Items(at[r])) \in Nat /\ next[r] <= Len(Items(at[r])) + 1
          BY <3>5, <4>1, MessageItems DEF IInv, Typed, Handler
        <4>3. next[r] \in 1 .. (Len(Items(at[r])) + 1)
          BY <3>3, <4>2
        <4>. QED
          BY <3>1, <3>2, <3>5, <4>3
      <3>. QED
        BY <3>1, <3>2, <3>4, <3>5
    <2>. QED
      BY <2>1 DEF TypeOK, IInv, GroupInv, GroupTyped, Typed
  <1>. QED
    BY <1>1, Invariance, PTL

\* The messages that the group has committed, that are not handled to their last
\* valid item and that nobody has in hand are no more than the stops and the
\* reads that timed out, however the partition moved.
THEOREM LossIsAccounted == Spec => []LossAccounted
  <1>1. IInv => LossAccounted
    <2> SUFFICES ASSUME IInv
                 PROVE  LossAccounted
      OBVIOUS
    <2> DEFINE dropped == {m \in 1 .. committed : ~Handled(m) /\ ~InHand(m)}
    <2>1. 1 .. committed \subseteq Message
      BY GroupAssumption DEF IInv, GroupInv, GroupTyped, GroupTypeOK, Message
    <2>2. dropped \subseteq Lost
      BY <2>1, Numbers DEF IInv, Lost, Reached
    <2>3. Cardinality(dropped) <= Cardinality(Lost) /\ Cardinality(dropped) \in Nat
      BY <2>2, LostIsFinite, FS_Subset, FS_CardinalityType
    <2>4. stops \in Nat /\ timeouts \in Nat
      BY DEF IInv, GroupInv, GroupTyped, GroupTypeOK
    <2> HIDE DEF dropped
    <2>5. Cardinality(dropped) <= stops + timeouts
      BY <2>3, <2>4, LostIsFinite DEF IInv, LossPaid
    <2>. QED
      BY <2>5 DEF LossAccounted, dropped
  <1>. QED
    BY <1>1, Invariance, PTL

\* The hash of a published decision is that of its record in the chain of the
\* process that made it, as long as that process runs.
THEOREM DecisionsAreTraceable == Spec => []Traceable
  <1>1. IInv => Traceable
    BY DEF IInv
  <1>. QED
    BY <1>1, Invariance, PTL

\* The group, with its offsets, readers, generations and what the handlers do,
\* implements what it promises: no message is handed out more than once, and once
\* more for each rebalance during a read.
THEOREM Refinement == Spec => ImplementsDelivery
  <1>1. Init => D!Init
    BY DEF Init, GroupInit, D!Init
  <1>2. IInv /\ [Next]_servicesVars => [D!Next]_(D!deliveryVars)
    <2> SUFFICES ASSUME IInv, [Next]_servicesVars
                 PROVE  [D!Next]_(D!deliveryVars)
      OBVIOUS
    <2>1. ASSUME NEW r \in Member, Read(r)
          PROVE  [D!Next]_(D!deliveryVars)
      BY <2>1, LoopDelivers DEF Read, IInv
    <2>2. ASSUME NEW r \in Member, Handle(r) \/ Stop(r) \/ Start(r)
          PROVE  UNCHANGED <<times, interrupted>>
      BY <2>2 DEF Handle, Finish, PassOver, CallBack, Decide, Publish, RecordInMemory,
                  RecordInTable, Stop, Start, Return, StopReading, StartReading, groupVars,
                  readerVars, countVars
    <2>3. ForeignAppend \/ UNCHANGED servicesVars => UNCHANGED <<times, interrupted>>
      BY DEF ForeignAppend, servicesVars, groupVars, readerVars, countVars
    <2>. QED
      BY <2>1, <2>2, <2>3 DEF Next, D!deliveryVars
  <1>. QED
    BY <1>1, <1>2, Invariance, PTL DEF Spec, ImplementsDelivery, D!Spec
=============================================================================
