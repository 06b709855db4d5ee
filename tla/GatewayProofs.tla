---------------------------- MODULE GatewayProofs ----------------------------
(***************************************************************************)
(* What holds of the gateway for any number of goroutines, events and      *)
(* requests and for chains of any length, whatever the interleaving of the *)
(* calls that its handlers make.                                           *)
(***************************************************************************)
EXTENDS Gateway, SequenceTheorems, TLAPS

EventOrNone == Events \cup {NoEvent}

DecisionKinds == {DecisionKind(op, status) : op \in Suggestions, status \in Statuses}

RecordKinds == {"", "system", "ingest", "digest_selection", "operator_action"}
               \cup DecisionKinds

Record == [kind : RecordKinds, event : EventOrNone, status : Statuses \cup {""},
           ref : Nat \cup {Foreign}, action : OperatorActions \cup {""}, cites : SUBSET Nat]

Pcs == {"idle", "add", "broadcast", "addCurated", "match", "decide", "append", "alert", "verify",
        "observe", "raise", "set", "head", "records", "reply"}

Job == [op : Handlers \cup {"", "answer"}, pc : Pcs, event : EventOrNone,
        status : Statuses \cup {""}, review : BOOLEAN, prev : Nat, hash : Nat,
        ref : Nat \cup {Foreign}, action : OperatorActions \cup {""}, cites : SUBSET Nat,
        todo : Seq(Events \cup DigestRules \cup Alert), valid : BOOLEAN,
        upto : Nat, head : Nat, len : Nat \cup {TooFew}]

Store == [buf : Seq(Alert), muted : SUBSET (Rules \X EventOrNone)]

\* Every variable has its type, the history variable raised apart.
Typed == /\ recent \in Seq(Events) /\ Len(recent) <= MaxRecent
         /\ chain \in Seq(Record) /\ cached \in Nat /\ late \subseteq Record
         /\ alerts \in Store /\ Len(alerts.buf) <= MaxAlerts
         /\ auditOK \in BOOLEAN /\ intact \in BOOLEAN
         /\ job \in [Workers -> Job]
         /\ unlogged \subseteq Events /\ curated \subseteq Events
-----------------------------------------------------------------------------
\* What a job holds depends on the call it makes next.
Shape(j) ==
    /\ j.pc \in {"add", "broadcast"} => j.op \in Ingests /\ j.event \in Events
    /\ j.pc = "addCurated" => j.todo \in Seq(Events) /\ j.todo # <<>>
    /\ j.pc = "match" => j.cites = {}
    /\ j.pc \in {"match", "decide"} => j.op \in Suggestions
    /\ j.pc \in {"add", "broadcast", "match", "decide", "append"} => j.hash = NoHash
    /\ j.pc \in {"match", "decide", "append"} =>
          \/ j.op = "digest" /\ j.todo \in Seq(DigestRules)
          \/ /\ j.op \in Ingests \cup Suggestions \cup {"resolve"}
             /\ j.event \in Events
             /\ j.op = "resolve" => j.action \in OperatorActions
    /\ j.pc = "append" /\ j.op \in Suggestions => j.status \in Statuses
    /\ j.pc = "alert" => j.todo \in Seq(Alert) /\ j.todo # <<>> /\ j.op \notin Reads
    /\ j.pc \in {"observe", "raise", "set"} => j.op \in Reads \cup {"answer"}
    /\ j.pc \in {"head", "records", "reply"} => j.op \in Reads

\* The decision c was passed on an event like e, and the operator resolved it
\* in a record after it and not after the n-th.
ResolvedBy(c, e, n) ==
    /\ c \in Decisions(chain)
    /\ DimsOf[chain[c].event] = DimsOf[e]
    /\ \E a \in c + 1 .. n : chain[a].kind = "operator_action" /\ chain[a].ref = c

\* What a job has read of the chain is there.
Refers(j) ==
    /\ j.prev <= Len(chain) /\ j.hash <= Len(chain) /\ j.head <= Len(chain)
    /\ j.upto <= Len(chain)
    /\ j.ref \in 0 .. Len(chain) \cup {Foreign}
    /\ \A c \in j.cites : ResolvedBy(c, j.event, Len(chain))

\* A suggestion whose record is in the chain knows its place.
KnowsItsRecord(j) ==
    j.op \in Suggestions /\ j.pc \in {"alert", "verify"} /\ j.hash # NoHash =>
        chain[j.hash] = RecordOf(j) /\ j.prev < j.hash

\* The two reads of an export or a health answer, in their orders.
ReadsInOrder(j) ==
    /\ j.op = "export" /\ j.pc \in {"records", "reply"} => j.upto <= j.head + Behind
    /\ j.op = "export" /\ j.pc = "reply" /\ j.len # TooFew => j.head <= j.len
    /\ j.op = "health" /\ j.pc \in {"head", "reply"} /\ j.len # TooFew =>
          j.upto <= j.len /\ j.len <= Len(chain)
    /\ j.op = "health" /\ j.pc = "reply" /\ j.len # TooFew => j.len <= j.head + Behind

\* The alerts a job has raised, or is about to raise.
Alerted(j) ==
    /\ j.op \in Suggestions /\ j.pc = "alert" =>
          j.review /\ j.todo = <<ReviewAlert(j.event)>>
    /\ j.op \in Suggestions /\ j.pc = "verify" /\ j.review =>
          dedupeKey(ReviewAlert(j.event)) \in raised
    /\ j.pc = "set" /\ ~j.valid => dedupeKey(AuditBrokenAlert) \in raised

JobInv(j) == Shape(j) /\ Refers(j) /\ KnowsItsRecord(j) /\ ReadsInOrder(j) /\ Alerted(j)
-----------------------------------------------------------------------------
\* A record refers only to records before it, and what it cites was resolved
\* before it.
LooksBack ==
    \A i \in DOMAIN chain : /\ chain[i].ref \in 0 .. i - 1 \cup {Foreign}
                            /\ \A c \in chain[i].cites : ResolvedBy(c, chain[i].event, i - 1)

\* The cached head covers the table or all but the last of it; then no INSERT that
\* was given up can add a record any more.  While one can, its record refers to
\* what is there.
HeadFollows ==
    /\ cached <= Len(chain) /\ Len(chain) <= cached + 1
    /\ late # {} => cached = Len(chain)
    /\ \A rec \in late : /\ rec.ref \in 0 .. Len(chain) \cup {Foreign}
                         /\ \A c \in rec.cites : ResolvedBy(c, rec.event, Len(chain))

\* An alert whose key is muted was raised, so not raising it again is no loss.
MutedWereRaised == \A key \in alerts.muted : key[1] \in MustAlert => key \in raised

BrokenIsAlerted == ~auditOK => dedupeKey(AuditBrokenAlert) \in raised

\* The inductive invariant: what is true of the shared state, and what every
\* job may rely on between two of its calls, whatever the others do.
IInv == /\ Typed
        /\ LooksBack
        /\ HeadFollows
        /\ MutedWereRaised
        /\ BrokenIsAlerted
        /\ RecentIsLogged
        /\ \A w \in Workers : JobInv(job[w])
-----------------------------------------------------------------------------
\* What a step may do to the chain: nothing, or one more record at its end.
ChainGrows == UNCHANGED chain \/ \E rec \in Record : chain' = Append(chain, rec)

\* In a running gateway the cached head follows it or not.
Grows == \/ UNCHANGED <<chain, cached>>
         \/ /\ \E rec \in Record : chain' = Append(chain, rec)
            /\ cached' = cached \/ cached' = cached + 1

\* A chain that grows keeps its records where they are.
LEMMA ChainGrowsKeeps ==
    ASSUME chain \in Seq(Record), ChainGrows
    PROVE  /\ chain' \in Seq(Record)
           /\ Len(chain) \in Nat /\ Len(chain') \in Nat /\ Len(chain) <= Len(chain')
           /\ DOMAIN chain = 1 .. Len(chain) /\ DOMAIN chain' = 1 .. Len(chain')
           /\ \A i \in 1 .. Len(chain) : chain[i] \in Record /\ chain'[i] = chain[i]
  <1>1. \A i \in 1 .. Len(chain) : chain[i] \in Record
    BY ElementOfSeq
  <1>2. CASE UNCHANGED chain
    BY <1>1, <1>2, LenProperties
  <1>3. ASSUME NEW rec \in Record, chain' = Append(chain, rec)
        PROVE  /\ chain' \in Seq(Record) /\ Len(chain') = Len(chain) + 1
               /\ \A i \in 1 .. Len(chain) : chain'[i] = chain[i]
    BY <1>3, AppendProperties
  <1>. QED
    BY <1>1, <1>2, <1>3, LenProperties DEF ChainGrows

\* So does that of a running gateway.
LEMMA GrowsKeeps ==
    ASSUME chain \in Seq(Record), Grows
    PROVE  /\ chain' \in Seq(Record)
           /\ Len(chain) \in Nat /\ Len(chain') \in Nat /\ Len(chain) <= Len(chain')
           /\ DOMAIN chain = 1 .. Len(chain) /\ DOMAIN chain' = 1 .. Len(chain')
           /\ \A i \in 1 .. Len(chain) : chain[i] \in Record /\ chain'[i] = chain[i]
  <1>1. ChainGrows
    BY DEF Grows, ChainGrows
  <1>. QED
    BY <1>1, ChainGrowsKeeps

\* The records the cached head does not cover do not get fewer.
LEMMA StaysBehind ==
    ASSUME chain \in Seq(Record), cached \in Nat, Grows
    PROVE  Behind \in Int /\ Behind' \in Int /\ Behind <= Behind'
  <1>1. PICK n \in Nat : n = Len(chain)
    BY LenProperties
  <1>2. CASE UNCHANGED <<chain, cached>>
    BY <1>1, <1>2 DEF Behind
  <1>3. ASSUME NEW rec \in Record, chain' = Append(chain, rec),
               cached' = cached \/ cached' = cached + 1
        PROVE  Behind \in Int /\ Behind' \in Int /\ Behind <= Behind'
    <2>1. Len(chain') = n + 1
      BY <1>1, <1>3, AppendProperties
    <2>2. Behind = n - cached /\ Behind' = (n + 1) - cached'
      BY <1>1, <2>1 DEF Behind
    <2>3. PICK c \in Nat : c = cached
      OBVIOUS
    <2>4. PICK d \in {c, c + 1} : d = cached'
      BY <1>3, <2>3
    <2>5. n - c \in Int /\ (n + 1) - d \in Int /\ n - c <= (n + 1) - d
      OBVIOUS
    <2>. QED
      BY <2>2, <2>3, <2>4, <2>5
  <1>. QED
    BY <1>2, <1>3 DEF Grows

\* A decision once resolved stays resolved.
LEMMA ResolvedStays ==
    ASSUME chain \in Seq(Record), ChainGrows, NEW c, NEW e, NEW n \in 0 .. Len(chain),
           NEW m \in n .. Len(chain'), ResolvedBy(c, e, n)
    PROVE  ResolvedBy(c, e, m)'
  <1>1. c \in Decisions(chain)
    BY DEF ResolvedBy
  <1>2. c \in 1 .. Len(chain) /\ chain'[c] = chain[c] /\ c \in Decisions(chain')
    <2>1. c \in 1 .. Len(chain)
      BY <1>1, ChainGrowsKeeps DEF Decisions
    <2>2. chain'[c] = chain[c] /\ c \in DOMAIN chain'
      BY <2>1, ChainGrowsKeeps
    <2>. QED
      BY <1>1, <2>1, <2>2 DEF Decisions
  <1>3. PICK a \in c + 1 .. n : chain[a].kind = "operator_action" /\ chain[a].ref = c
    BY DEF ResolvedBy
  <1>4. a \in c + 1 .. m /\ a \in 1 .. Len(chain) /\ chain'[a] = chain[a]
    BY <1>2, <1>3, ChainGrowsKeeps
  <1>. QED
    BY <1>2, <1>3, <1>4 DEF ResolvedBy

\* What a job relies on stays true while others append records and raise alerts.
LEMMA JobStable ==
    ASSUME chain \in Seq(Record), cached \in Nat, Grows, raised \subseteq raised',
           NEW j \in Job, JobInv(j)
    PROVE  JobInv(j)'
  <1>1. Shape(j)'
    BY DEF JobInv, Shape
  <1>2. Refers(j)'
    <2>1. ASSUME NEW c \in j.cites
          PROVE  ResolvedBy(c, j.event, Len(chain))'
      <3>1. ChainGrows
        BY DEF Grows, ChainGrows
      <3>2. Len(chain) \in 0 .. Len(chain) /\ Len(chain') \in Len(chain) .. Len(chain')
        BY GrowsKeeps
      <3>. QED
        BY <3>1, <3>2, ResolvedStays DEF JobInv, Refers
    <2>2. /\ {j.prev, j.hash, j.head, j.upto} \subseteq Nat
          /\ Len(chain) \in Nat /\ Len(chain') \in Nat /\ Len(chain) <= Len(chain')
      BY GrowsKeeps DEF Job
    <2>3. /\ j.prev <= Len(chain') /\ j.hash <= Len(chain') /\ j.head <= Len(chain')
          /\ j.upto <= Len(chain')
          /\ j.ref \in 0 .. Len(chain') \cup {Foreign}
      BY <2>2 DEF JobInv, Refers
    <2>. QED
      BY <2>1, <2>3 DEF Refers
  <1>3. KnowsItsRecord(j)'
    <2> SUFFICES ASSUME j.op \in Suggestions, j.pc \in {"alert", "verify"}, j.hash # NoHash
                 PROVE  chain'[j.hash] = RecordOf(j) /\ j.prev < j.hash
      BY DEF KnowsItsRecord
    <2>1. j.hash \in 1 .. Len(chain)
      <3>1. j.hash \in Nat /\ j.hash # 0
        BY DEF Job, NoHash
      <3>2. j.hash <= Len(chain)
        BY DEF JobInv, Refers
      <3>. QED
        BY <3>1, <3>2, GrowsKeeps
    <2>. QED
      BY <2>1, GrowsKeeps DEF JobInv, KnowsItsRecord
  <1>4. ReadsInOrder(j)'
    <2>1. ASSUME j.len # TooFew, j.len <= Len(chain)
          PROVE  j.len <= Len(chain')
      <3>1. j.len \in Nat
        BY <2>1 DEF Job
      <3>. QED
        BY <2>1, <3>1, GrowsKeeps
    <2>2. ASSUME NEW n \in Nat, n <= j.head + Behind
          PROVE  n <= j.head + Behind'
      <3>1. PICK h \in Nat : h = j.head
        BY DEF Job
      <3>2. PICK b \in Int : b = Behind
        BY StaysBehind
      <3>3. PICK b1 \in Int : b1 = Behind' /\ b <= b1
        BY <3>2, StaysBehind
      <3>4. n <= h + b
        BY <2>2, <3>1, <3>2
      <3>5. b <= b1
        BY <3>3
      <3>6. n <= h + b1
        BY ONLY <3>4, <3>5
      <3>. QED
        BY <3>1, <3>3, <3>6
    <2>3. j.upto \in Nat /\ (j.len # TooFew => j.len \in Nat)
      BY DEF Job
    <2>. QED
      BY <2>1, <2>2, <2>3 DEF JobInv, ReadsInOrder
  <1>5. Alerted(j)'
    BY DEF JobInv, Alerted
  <1>. QED
    BY <1>1, <1>2, <1>3, <1>4, <1>5 DEF JobInv

\* So a step has to account for its own job only.
LEMMA OthersKeep ==
    ASSUME Typed, \A w \in Workers : JobInv(job[w]), Grows, raised \subseteq raised',
           NEW w \in Workers, NEW k \in Job, Become(w, k), JobInv(k)'
    PROVE  /\ job' \in [Workers -> Job]
           /\ \A v \in Workers : JobInv(job[v])'
  <1>1. job' \in [Workers -> Job] /\ job'[w] = k /\ \A v \in Workers \ {w} : job'[v] = job[v]
    BY DEF Typed, Become
  <1>2. ASSUME NEW v \in Workers
        PROVE  JobInv(job[v])'
    <2>1. CASE v = w
      BY <1>1, <2>1
    <2>2. CASE v # w
      <3>1. PICK j \in Job : j = job[v]
        BY DEF Typed
      <3>2. JobInv(j)'
        BY <3>1, JobStable DEF Typed
      <3>. QED
        BY <1>1, <2>2, <3>1, <3>2
    <2>. QED
      BY <2>1, <2>2
  <1>. QED
    BY <1>1, <1>2
-----------------------------------------------------------------------------
\* A field update of a typed record is a typed record: jobs and alerts are built
\* from parts of the right type.
LEMMA StartedJob ==
    ASSUME NEW op \in Handlers \cup {"answer"}, NEW pc \in Pcs, NEW e \in EventOrNone
    PROVE  /\ [Idle EXCEPT !.op = op, !.pc = pc, !.event = e] \in Job
           /\ [Idle EXCEPT !.op = op, !.pc = pc] \in Job
  BY EmptySeq, ZenonT(60) DEF Idle, Job, Pcs, EventOrNone, NoHash

\* dedupeKey is a key that the store may mute.
LEMMA AlertKey ==
    ASSUME NEW a \in Alert
    PROVE  dedupeKey(a) \in Rules \X EventOrNone /\ dedupeKey(a)[1] = a.rule
  BY DEF Alert, dedupeKey, EventOrNone

\* The ring keeps its type and its bound, and the alert is raised or was raised
\* since its key is muted.
LEMMA RaiseKeeps ==
    ASSUME Typed, MutedWereRaised, NEW a \in Alert, Raise(a)
    PROVE  /\ alerts' \in Store /\ Len(alerts'.buf) <= MaxAlerts
           /\ MutedWereRaised'
           /\ raised \subseteq raised'
           /\ a.rule \in MustAlert => dedupeKey(a) \in raised'
  <1> PICK buf \in Seq(Alert), muted \in SUBSET (Rules \X EventOrNone) :
             alerts = [buf |-> buf, muted |-> muted]
    BY DEF Typed, Store
  <1> DEFINE key == dedupeKey(a)
             longer == Append(buf, a)
             kept == IF Len(longer) > MaxAlerts THEN Tail(longer) ELSE longer
  <1>1. key \in Rules \X EventOrNone /\ key[1] = a.rule
    BY AlertKey
  <1>2. kept \in Seq(Alert) /\ Len(kept) <= MaxAlerts
    <2>1. longer \in Seq(Alert) /\ Len(longer) = Len(buf) + 1
      BY AppendProperties
    <2>2. Len(longer) > MaxAlerts => Tail(longer) \in Seq(Alert) /\ Len(Tail(longer)) = Len(buf)
      BY <2>1, HeadTailProperties, AlertsAssumption, LenProperties
    <2>3. Len(buf) <= MaxAlerts /\ Len(buf) \in Nat
      BY LenProperties DEF Typed
    <2>. QED
      BY <2>1, <2>2, <2>3, AlertsAssumption
  <1> HIDE DEF key, kept
  <1>3. /\ alerts' = IF key \in muted THEN alerts
                     ELSE [buf |-> kept, muted |-> muted \cup {key}]
        /\ raised' = IF a.rule \in MustAlert /\ key \notin muted
                     THEN raised \cup {key} ELSE raised
    BY DEF Raise, Add, key, kept
  <1>4. alerts' \in Store /\ Len(alerts'.buf) <= MaxAlerts
    BY <1>1, <1>2, <1>3 DEF Typed, Store
  <1>5. \A k \in alerts'.muted : k \in muted \/ (k = key /\ key \notin muted)
    BY <1>3
  <1>6. MutedWereRaised'
    BY <1>1, <1>3, <1>5 DEF MutedWereRaised
  <1>7. a.rule \in MustAlert => key \in raised'
    BY <1>1, <1>3 DEF MutedWereRaised
  <1>. QED
    BY <1>3, <1>4, <1>6, <1>7 DEF key

\* recent stays within its bound, and shows nothing but what it showed and the
\* event added.
LEMMA AppendedKeeps ==
    ASSUME recent \in Seq(Events), Len(recent) <= MaxRecent, NEW e \in Events
    PROVE  /\ Appended(e) \in Seq(Events) /\ Len(Appended(e)) <= MaxRecent
           /\ \A f : (\E i \in DOMAIN Appended(e) : Appended(e)[i] = f) => InRecent(f) \/ f = e
  <1> DEFINE longer == Append(recent, e)
  <1>1. /\ longer \in Seq(Events) /\ Len(longer) = Len(recent) + 1
        /\ \A i \in 1 .. Len(recent) : longer[i] = recent[i]
        /\ longer[Len(recent) + 1] = e
        /\ Len(recent) \in Nat /\ DOMAIN recent = 1 .. Len(recent)
    BY AppendProperties, LenProperties
  <1>2. DOMAIN longer = 1 .. Len(recent) + 1
    BY <1>1, LenProperties
  <1> HIDE DEF longer
  <1>3. \A i \in DOMAIN longer : InRecent(longer[i]) \/ longer[i] = e
    BY <1>1, <1>2 DEF InRecent
  <1>4. longer # <<>>
    BY <1>1, LenProperties
  <1>5. /\ Tail(longer) \in Seq(Events) /\ Len(Tail(longer)) = Len(recent)
        /\ \A i \in 1 .. Len(recent) : Tail(longer)[i] = longer[i + 1]
        /\ DOMAIN Tail(longer) = 1 .. Len(recent)
    BY <1>1, <1>4, HeadTailProperties, LenProperties
  <1>6. CASE Len(longer) > MaxRecent
    <2>1. Appended(e) = Tail(longer)
      BY <1>6 DEF Appended, longer
    <2>2. \A i \in DOMAIN Tail(longer) : InRecent(Tail(longer)[i]) \/ Tail(longer)[i] = e
      BY <1>1, <1>2, <1>3, <1>5
    <2>. QED
      BY <1>5, <2>1, <2>2
  <1>7. CASE ~(Len(longer) > MaxRecent)
    <2>1. Appended(e) = longer
      BY <1>7 DEF Appended, longer
    <2>. QED
      BY <1>1, <1>3, <1>7, <2>1, GatewayAssumption
  <1>. QED
    BY <1>6, <1>7

\* An ingest that is on the record, or on its way to it, is so after any step of
\* a goroutine that does not drop it without a note.
LEMMA LoggedStays ==
    ASSUME Typed, RecentIsLogged, Grows,
           NEW w \in Workers, NEW k \in Job, Become(w, k),
           unlogged \subseteq unlogged', curated \subseteq curated',
           NEW e \in Events, InRecent(e),
           Logging(job[w], e) => Logging(k, e) \/ e \in unlogged' \/ LoggedIngest(e)'
    PROVE  LoggedIngest(e)' \/ BeingLogged(e)' \/ e \in (unlogged \cup curated)'
  <1>1. LoggedIngest(e) \/ BeingLogged(e) \/ e \in unlogged \cup curated
    BY DEF RecentIsLogged
  <1>2. CASE LoggedIngest(e)
    BY <1>2, GrowsKeeps DEF LoggedIngest, Typed
  <1>3. ASSUME NEW v \in Workers, Logging(job[v], e)
        PROVE  LoggedIngest(e)' \/ BeingLogged(e)' \/ e \in unlogged'
    <2>1. CASE v = w
      <3>1. job'[w] = k
        BY DEF Become, Typed
      <3>. QED
        BY <1>3, <2>1, <3>1 DEF BeingLogged, Logging
    <2>2. CASE v # w
      <3>1. job'[v] = job[v]
        BY <2>2 DEF Become, Typed
      <3>. QED
        BY <1>3, <3>1 DEF BeingLogged, Logging
    <2>. QED
      BY <2>1, <2>2
  <1>. QED
    BY <1>1, <1>2, <1>3 DEF BeingLogged
-----------------------------------------------------------------------------
\* What was resolved, and the records that look back, stay so as long as the chain
\* is what it was; so does the head that follows if the rest of the store is.
LEMMA SameChain ==
    ASSUME UNCHANGED chain
    PROVE  /\ \A c, e, n : ResolvedBy(c, e, n) => ResolvedBy(c, e, n)'
           /\ LooksBack => LooksBack'
  <1>1. ASSUME NEW c, NEW e, NEW n, ResolvedBy(c, e, n) PROVE ResolvedBy(c, e, n)'
    BY <1>1 DEF ResolvedBy, Decisions
  <1>. QED
    BY <1>1 DEF LooksBack

\* The head keeps following the chain as long as the store is what it was.
LEMMA SameStore ==
    ASSUME UNCHANGED <<chain, cached, late>>
    PROVE  (LooksBack => LooksBack') /\ (HeadFollows => HeadFollows')
  BY SameChain DEF HeadFollows

\* A step that only advances one goroutine has to account for its new job.
LEMMA LocalStepKeeps ==
    ASSUME IInv, NEW w \in Workers, NEW k \in Job, Become(w, k), JobInv(k),
           \A e \in Events : Logging(job[w], e) => Logging(k, e),
           UNCHANGED <<recent, chain, cached, late, alerts, auditOK, intact, unlogged, curated, raised>>
    PROVE  IInv'
  <1>1. Grows /\ raised \subseteq raised' /\ chain \in Seq(Record) /\ cached \in Nat
    BY DEF Grows, IInv, Typed
  <1>2. JobInv(k)'
    BY <1>1, JobStable
  <1>3. Typed' /\ \A v \in Workers : JobInv(job[v])'
    BY <1>1, <1>2, OthersKeep DEF IInv, Typed
  <1>4. RecentIsLogged'
    <2>1. \A e \in Events : InRecent(e)' => InRecent(e)
      BY DEF InRecent
    <2>. QED
      BY <1>1, <2>1, LoggedStays DEF IInv, RecentIsLogged
  <1>5. LooksBack' /\ HeadFollows'
    BY SameStore DEF IInv
  <1>6. MutedWereRaised' /\ BrokenIsAlerted'
    BY DEF IInv, MutedWereRaised, BrokenIsAlerted
  <1>. QED
    BY <1>3, <1>4, <1>5, <1>6 DEF IInv

\* A job that has read nothing of the chain refers to nothing.
LEMMA NothingRead ==
    ASSUME Typed, NEW k \in Job, k.prev = 0, k.hash = 0, k.head = 0, k.upto = 0,
           k.cites = {}, k.ref \in 0 .. Len(chain) \cup {Foreign}
    PROVE  Refers(k)
  BY LenProperties DEF Typed, Refers

\* An idle goroutine's job.
LEMMA IdleJob ==
    ASSUME Typed
    PROVE  Idle \in Job /\ JobInv(Idle)
  <1>1. Idle \in Job
    BY EmptySeq DEF Idle, Job, Pcs, EventOrNone, NoHash
  <1>2. /\ Idle.prev = 0 /\ Idle.hash = 0 /\ Idle.head = 0 /\ Idle.upto = 0 /\ Idle.ref = 0
        /\ Idle.cites = {}
    BY DEF Idle, NoHash
  <1>3. 0 \in 0 .. Len(chain)
    BY LenProperties DEF Typed
  <1>4. Refers(Idle)
    BY <1>1, <1>2, <1>3, NothingRead
  <1>. QED
    BY <1>1, <1>4 DEF JobInv, Shape, KnowsItsRecord, ReadsInOrder, Alerted, Idle

\* A job that has only been given its inputs keeps the invariant if they fit.
LEMMA NewJobKeeps ==
    ASSUME IInv, NEW w \in Workers, At(w, "idle"), NEW k \in Job, Become(w, k),
           k.prev = 0, k.hash = 0, k.head = 0, k.upto = 0, k.cites = {}, k.review = FALSE,
           k.pc \in {"add", "addCurated", "match", "decide", "append", "verify"},
           k.ref \in 0 .. Len(chain) \cup {Foreign}, Shape(k),
           UNCHANGED <<recent, chain, cached, late, alerts, auditOK, intact, unlogged, curated, raised>>
    PROVE  IInv'
  <1>1. Refers(k)
    BY NothingRead DEF IInv
  <1>2. KnowsItsRecord(k) /\ ReadsInOrder(k) /\ Alerted(k)
    BY DEF KnowsItsRecord, ReadsInOrder, Alerted, NoHash
  <1>3. \A e \in Events : ~Logging(job[w], e)
    BY DEF At, Logging
  <1>. QED
    BY <1>1, <1>2, <1>3, LocalStepKeeps DEF JobInv

\* A request or message that arrives starts a job that fits its handler.
LEMMA StartKeeps ==
    ASSUME IInv, NEW w \in Workers, StartAny(w)
    PROVE  IInv'
  <1> USE DEF Idle, NoHash
  <1>1. /\ At(w, "idle")
        /\ UNCHANGED <<recent, chain, cached, late, alerts, auditOK, intact, unlogged, curated, raised>>
    BY DEF StartAny, StartIngest, StartDecision, StartCurated, StartSuggest, StartDigest,
           StartResolve, StartRead
  <1>2. 0 \in 0 .. Len(chain) /\ Events \subseteq EventOrNone /\ NoEvent \in EventOrNone
    BY LenProperties DEF IInv, Typed, EventOrNone
  <1>3. ASSUME NEW op \in Ingests, NEW e \in Events, Start(w, op, "add", e)
        PROVE  IInv'
    <2> DEFINE k == [Idle EXCEPT !.op = op, !.pc = "add", !.event = e]
    <2>1. k \in Job
      BY <1>2, StartedJob, ZenonT(60) DEF Handlers, Pcs
    <2>2. Shape(k)
      BY DEF Shape
    <2>. QED
      BY <1>1, <1>2, <1>3, <2>1, <2>2, NewJobKeeps DEF Start
  <1>4. ASSUME NEW op \in Suggestions, NEW pc \in {"match", "decide"}, NEW e \in Events,
               Start(w, op, pc, e)
        PROVE  IInv'
    <2> DEFINE k == [Idle EXCEPT !.op = op, !.pc = pc, !.event = e]
    <2>1. k \in Job
      BY <1>2, StartedJob, ZenonT(60) DEF Handlers, Pcs
    <2>2. Shape(k)
      BY DEF Shape, Suggestions
    <2>. QED
      BY <1>1, <1>2, <1>4, <2>1, <2>2, NewJobKeeps DEF Start
  <1>5. ASSUME NEW events \in Digests, StartCurated(w, events)
        PROVE  IInv'
    <2> DEFINE k == [Idle EXCEPT !.op = "curated", !.pc = "addCurated", !.todo = events]
    <2>1. events \in Seq(Events) /\ events # <<>>
      BY GatewayAssumption
    <2>2. events \in Seq(Events \cup DigestRules \cup Alert)
      BY <2>1
    <2>3. k \in Job
      BY <2>2 DEF Job, Handlers, Pcs, EventOrNone
    <2>4. Shape(k)
      BY <2>1 DEF Shape
    <2>. QED
      BY <1>1, <1>2, <1>5, <2>3, <2>4, NewJobKeeps DEF StartCurated
  <1>6. ASSUME NEW rules \in DigestDrifts, StartDigest(w, rules)
        PROVE  IInv'
    <2> DEFINE k == [Idle EXCEPT !.op = "digest", !.pc = "append", !.todo = rules]
    <2>1. rules \in Seq(DigestRules)
      BY GatewayAssumption
    <2>2. rules \in Seq(Events \cup DigestRules \cup Alert)
      BY <2>1
    <2>3. k \in Job
      BY <2>2 DEF Job, Handlers, Pcs, EventOrNone
    <2>4. Shape(k)
      BY <2>1 DEF Shape, Suggestions
    <2>. QED
      BY <1>1, <1>2, <1>6, <2>3, <2>4, NewJobKeeps DEF StartDigest
  <1>7. ASSUME NEW e \in Events, NEW action \in OperatorActions,
               NEW ref \in Decisions(chain) \cup {Foreign}, StartResolve(w, e, ref, action)
        PROVE  IInv'
    <2> DEFINE k == [Idle EXCEPT !.op = "resolve", !.pc = "append", !.event = e,
                                 !.ref = ref, !.action = action]
    <2>1. ref \in 0 .. Len(chain) \cup {Foreign} /\ ref \in Nat \cup {Foreign}
      <3>1. ref \in DOMAIN chain \cup {Foreign} /\ chain \in Seq(Record)
        BY DEF Decisions, IInv, Typed
      <3>2. DOMAIN chain = 1 .. Len(chain) /\ Len(chain) \in Nat
        BY <3>1, LenProperties
      <3>. QED
        BY <3>1, <3>2
    <2>2. k \in Job
      BY <1>2, <2>1, EmptySeq DEF Job, Handlers, Pcs
    <2>3. Shape(k)
      BY DEF Shape, Suggestions
    <2>. QED
      BY <1>1, <1>2, <1>7, <2>1, <2>2, <2>3, NewJobKeeps DEF StartResolve
  <1>8. ASSUME NEW op \in Reads, Start(w, op, "verify", NoEvent)
        PROVE  IInv'
    <2> DEFINE k == [Idle EXCEPT !.op = op, !.pc = "verify", !.event = NoEvent]
    <2>1. k \in Job
      BY <1>2, StartedJob DEF Handlers, Pcs
    <2>2. Shape(k)
      BY DEF Shape
    <2>. QED
      BY <1>1, <1>2, <1>8, <2>1, <2>2, NewJobKeeps DEF Start
  <1>. QED
    BY <1>3, <1>4, <1>5, <1>6, <1>7, <1>8
       DEF StartAny, StartIngest, StartDecision, StartSuggest, StartRead, Ingests, Consumers
-----------------------------------------------------------------------------
\* The empty hash is in every range of hashes.
LEMMA ZeroInRange == \A n \in Nat : 0 \in 0 .. n /\ 0 <= n
  OBVIOUS

\* A goroutine with nothing but a verification to do, or nothing at all, relies on
\* nothing.
LEMMA QuietJob ==
    ASSUME NEW k \in Job, k.op \in {"", "answer"}, k.pc \in {"idle", "verify"},
           k.prev = 0, k.hash = 0, k.head = 0, k.upto = 0, k.ref = 0, k.cites = {},
           Len(chain') \in Nat
    PROVE  JobInv(k)'
  <1>1. Refers(k)'
    <2>1. 0 \in 0 .. Len(chain') /\ 0 <= Len(chain')
      BY ZeroInRange
    <2>. QED
      BY <2>1 DEF Refers
  <1>2. Shape(k)' /\ KnowsItsRecord(k)' /\ ReadsInOrder(k)' /\ Alerted(k)'
    BY DEF Shape, KnowsItsRecord, ReadsInOrder, Alerted, Suggestions
  <1>. QED
    BY <1>1, <1>2 DEF JobInv

\* What a job becomes once its Append has returned or an alert is raised keeps
\* the invariant: a suggestion that is about to be answered knows its record,
\* and has raised the alert for its review.
LEMMA AlertingKeeps ==
    ASSUME NEW j \in Job, NEW todo \in Seq(Alert), Refers(j)', Len(chain') \in Nat,
           j.op \notin Reads,
           j.op \in Suggestions /\ j.hash # NoHash =>
               chain'[j.hash] = RecordOf(j) /\ j.prev < j.hash,
           j.op \in Suggestions /\ todo # <<>> =>
               j.review /\ todo = <<ReviewAlert(j.event)>>,
           j.op \in Suggestions /\ todo = <<>> /\ j.review =>
               dedupeKey(ReviewAlert(j.event)) \in raised'
    PROVE  Alerting(j, todo) \in Job /\ JobInv(Alerting(j, todo))'
  <1>0. todo \in Seq(Events \cup DigestRules \cup Alert)
    OBVIOUS
  <1>1. CASE todo # <<>> \/ j.op \in Suggestions
    <2> DEFINE pc == IF todo # <<>> THEN "alert" ELSE "verify"
               k == [j EXCEPT !.pc = pc, !.todo = todo]
    <2>1. Alerting(j, todo) = k
      BY <1>1 DEF Alerting, Suggestions, Consumers
    <2>2. k \in Job
      <3>1. pc \in Pcs
        BY DEF Pcs
      <3> HIDE DEF pc
      <3>. QED
        BY <1>0, <3>1 DEF Job
    <2>3. /\ k.op = j.op /\ k.event = j.event /\ k.status = j.status /\ k.review = j.review
          /\ k.prev = j.prev /\ k.hash = j.hash /\ k.head = j.head /\ k.upto = j.upto
          /\ k.ref = j.ref /\ k.cites = j.cites /\ k.action = j.action
          /\ k.pc = pc /\ k.todo = todo
      BY DEF Job
    <2> HIDE DEF k
    <2>4. Shape(k)'
      BY <2>3 DEF Shape
    <2>5. Refers(k)'
      BY <2>3 DEF Refers, ResolvedBy
    <2>6. RecordOf(k) = RecordOf(j)
      BY <2>3 DEF RecordOf
    <2>7. KnowsItsRecord(k)'
      BY <2>3, <2>6 DEF KnowsItsRecord
    <2>8. ReadsInOrder(k)' /\ Alerted(k)'
      BY <2>3 DEF ReadsInOrder, Alerted
    <2>. QED
      BY <2>1, <2>2, <2>4, <2>5, <2>7, <2>8 DEF JobInv
  <1>2. CASE todo = <<>> /\ j.op \notin Suggestions
    <2>1. Alerting(j, todo) = IF j.op \in Consumers THEN Idle
                              ELSE [Idle EXCEPT !.op = "answer", !.pc = "verify"]
      BY <1>2 DEF Alerting
    <2>2. Idle \in Job /\ JobInv(Idle)'
      <3>1. Idle \in Job
        BY EmptySeq DEF Idle, Job, Pcs, EventOrNone, NoHash
      <3>2. /\ Idle.op = "" /\ Idle.pc = "idle" /\ Idle.prev = 0 /\ Idle.hash = 0
            /\ Idle.head = 0 /\ Idle.upto = 0 /\ Idle.ref = 0 /\ Idle.cites = {}
        BY DEF Idle, NoHash
      <3>. QED
        BY <3>1, <3>2, QuietJob
    <2>3. ASSUME NEW k, k = [Idle EXCEPT !.op = "answer", !.pc = "verify"]
          PROVE  k \in Job /\ JobInv(k)'
      <3>1. k \in Job
        BY <2>3, StartedJob DEF Pcs, EventOrNone
      <3>2. /\ k.op = "answer" /\ k.pc = "verify" /\ k.prev = 0 /\ k.hash = 0
            /\ k.head = 0 /\ k.upto = 0 /\ k.ref = 0 /\ k.cites = {}
        BY <2>3 DEF Idle, NoHash
      <3>. QED
        BY <3>1, <3>2, QuietJob, ZenonT(60)
    <2>. QED
      BY <2>1, <2>2, <2>3
  <1>. QED
    BY <1>1, <1>2

\* The alerts an Append is followed by.
LEMMA AlertsToRaise ==
    ASSUME NEW j \in Job, j.pc = "append", Shape(j)
    PROVE  /\ AlertsOf(j) \in Seq(Alert)
           /\ j.op \in Suggestions =>
                AlertsOf(j) = IF j.review THEN <<ReviewAlert(j.event)>> ELSE <<>>
  <1>1. CASE j.op = "digest"
    <2>1. AlertsOf(j) = [i \in DOMAIN j.todo |-> DigestAlert(j.todo[i])]
      BY <1>1 DEF AlertsOf, Ingests, Consumers
    <2>2. j.todo \in Seq(DigestRules)
      BY <1>1 DEF Shape, Ingests, Consumers, Suggestions
    <2>3. /\ DOMAIN j.todo = 1 .. Len(j.todo) /\ Len(j.todo) \in Nat
          /\ \A i \in 1 .. Len(j.todo) : j.todo[i] \in DigestRules
      BY <2>2, LenProperties, ElementOfSeq
    <2>4. \A i \in 1 .. Len(j.todo) : DigestAlert(j.todo[i]) \in Alert
      BY <2>3 DEF DigestAlert, Alert, Rules
    <2>. QED
      BY <1>1, <2>1, <2>3, <2>4 DEF Suggestions
  <1>2. CASE j.op \in Ingests \cup {"resolve"}
    <2>1. j.event \in Events /\ (j.op = "resolve" => j.action \in OperatorActions)
      BY <1>2 DEF Shape, Ingests, Consumers
    <2>2. IngestAlert(j.event) \in Alert
      BY <2>1 DEF IngestAlert, Alert, Rules
    <2>3. j.op = "resolve" => ResolutionAlert(j.event, j.action) \in Alert
      BY <2>1 DEF ResolutionAlert, Alert, Rules
    <2>. QED
      BY <1>2, <2>2, <2>3 DEF AlertsOf, Ingests, Consumers, Suggestions
  <1>3. CASE j.op \in Suggestions
    <2>1. AlertsOf(j) = IF j.review THEN <<ReviewAlert(j.event)>> ELSE <<>>
      BY <1>3 DEF AlertsOf, Suggestions, Ingests, Consumers
    <2>2. ReviewAlert(j.event) \in Alert
      BY DEF ReviewAlert, Alert, Rules, Job, EventOrNone
    <2>. QED
      BY <2>1, <2>2
  <1>. QED
    BY <1>1, <1>2, <1>3 DEF Shape
-----------------------------------------------------------------------------
\* What FindMatches reads from a snapshot of the chain are decisions that the
\* chain shows to be resolved.
LEMMA MatchIsResolved ==
    ASSUME chain \in Seq(Record), LooksBack, NEW n \in 0 .. Len(chain), NEW e,
           NEW a \in Matches(SubSeq(chain, 1, n), e)
    PROVE  chain[a].ref \in Nat /\ ResolvedBy(chain[a].ref, e, Len(chain))
  <1> DEFINE s == SubSeq(chain, 1, n)
  <1>1. Len(chain) \in Nat /\ DOMAIN chain = 1 .. Len(chain)
    BY LenProperties
  <1>2. DOMAIN s = 1 .. n /\ \A i \in 1 .. n : s[i] = chain[i]
    <2>1. \A i \in 1 .. n : chain[i] \in Record
      BY <1>1, ElementOfSeq
    <2>2. s \in Seq(Record) /\ Len(s) = n /\ \A i \in 1 .. n : s[i] = chain[i]
      BY <1>1, <2>1, SubSeqProperties
    <2>. QED
      BY <2>2, LenProperties
  <1> HIDE DEF s
  <1>3. /\ a \in 1 .. n /\ s[a].kind = "operator_action" /\ s[a].ref \in Decisions(s)
        /\ DimsOf[s[s[a].ref].event] = DimsOf[e]
    BY <1>2 DEF Matches, s
  <1> DEFINE c == chain[a].ref
  <1>4. /\ c \in 1 .. n /\ s[c] = chain[c] /\ c \in Decisions(s)
        /\ chain[a].kind = "operator_action" /\ DimsOf[chain[c].event] = DimsOf[e]
    BY <1>2, <1>3 DEF Decisions
  <1>5. c \in 0 .. a - 1
    <2>1. a \in DOMAIN chain
      BY <1>1, <1>3
    <2>2. c \in 0 .. a - 1 \cup {Foreign}
      BY <2>1 DEF LooksBack
    <2>3. c \in Int
      BY <1>4
    <2>. QED
      BY <2>2, <2>3, GatewayAssumption
  <1>6. c \in Decisions(chain)
    <2>1. c \in DOMAIN chain
      BY <1>1, <1>4
    <2>2. chain[c].kind \in decisionKinds /\ chain[c].status \in {"", "pass"}
      BY <1>4 DEF Decisions
    <2>. QED
      BY <2>1, <2>2 DEF Decisions
  <1>7. a \in c + 1 .. Len(chain)
    BY <1>1, <1>3, <1>4, <1>5
  <1>. QED
    BY <1>4, <1>6, <1>7 DEF ResolvedBy

\* The precedents a suggestion takes along were resolved.
LEMMA FindPrecedentsKeeps ==
    ASSUME IInv, NEW w \in Workers, FindPrecedents(w)
    PROVE  IInv'
  <1>1. PICK j \in Job : j = job[w]
    BY DEF IInv, Typed
  <1>2. JobInv(j) /\ j.pc = "match"
    BY <1>1 DEF IInv, FindPrecedents, At
  <1>3. PICK n \in SnapshotLens :
          \E out \in FindMatches(SubSeq(chain, 1, n), j.event, MaxPrecedents) :
             Become(w, [j EXCEPT !.pc = "decide", !.cites = {chain[out[i]].ref : i \in DOMAIN out}])
    BY <1>1 DEF FindPrecedents
  <1>4. PICK out \in FindMatches(SubSeq(chain, 1, n), j.event, MaxPrecedents) :
             Become(w, [j EXCEPT !.pc = "decide", !.cites = {chain[out[i]].ref : i \in DOMAIN out}])
    BY <1>3
  <1>5. n \in 0 .. Len(chain) /\ chain \in Seq(Record) /\ Len(chain) \in Nat
    BY LenProperties DEF SnapshotLens, IInv, Typed
  <1>6. \A i \in DOMAIN out : out[i] \in Matches(SubSeq(chain, 1, n), j.event)
    BY DEF FindMatches
  <1>7. \A i \in DOMAIN out : chain[out[i]].ref \in Nat
                              /\ ResolvedBy(chain[out[i]].ref, j.event, Len(chain))
    BY <1>5, <1>6, MatchIsResolved DEF IInv
  <1> DEFINE cites == {chain[out[i]].ref : i \in DOMAIN out}
  <1>8. cites \subseteq Nat /\ \A c \in cites : ResolvedBy(c, j.event, Len(chain))
    BY <1>7
  <1> HIDE DEF cites
  <1> DEFINE k == [j EXCEPT !.pc = "decide", !.cites = cites]
  <1>9. k \in Job
    BY <1>8 DEF Job, Pcs
  <1>10. JobInv(k)
    <2>1. Shape(k)
      BY <1>2 DEF JobInv, Shape, Job
    <2>2. Refers(k)
      BY <1>2, <1>8 DEF JobInv, Refers, Job
    <2>3. KnowsItsRecord(k) /\ ReadsInOrder(k) /\ Alerted(k)
      BY <1>2 DEF JobInv, KnowsItsRecord, ReadsInOrder, Alerted, Job
    <2>. QED
      BY <2>1, <2>2, <2>3 DEF JobInv
  <1>11. Become(w, k)
    BY <1>4 DEF cites
  <1>. QED
    BY <1>1, <1>2, <1>9, <1>10, <1>11, LocalStepKeeps DEF FindPrecedents, At, Logging

\* A decision's prev is the head at that moment.
LEMMA DecideKeeps ==
    ASSUME IInv, NEW w \in Workers, Decide(w)
    PROVE  IInv'
  <1>1. PICK j \in Job : j = job[w]
    BY DEF IInv, Typed
  <1>2. JobInv(j) /\ j.pc = "decide"
    BY <1>1 DEF IInv, Decide, At
  <1>3. PICK status \in Statuses, review \in BOOLEAN :
           Become(w, [j EXCEPT !.pc = "append", !.status = status, !.review = review,
                               !.prev = HeadHash])
    BY <1>1 DEF Decide
  <1>4. HeadHash \in Nat /\ HeadHash <= Len(chain)
    BY DEF HeadHash, IInv, Typed, HeadFollows
  <1> DEFINE k == [j EXCEPT !.pc = "append", !.status = status, !.review = review,
                            !.prev = HeadHash]
  <1>5. k \in Job
    BY <1>4 DEF Job, Pcs
  <1>6. JobInv(k)
    <2>1. Shape(k)
      BY <1>2 DEF JobInv, Shape, Job
    <2>2. Refers(k)
      BY <1>2, <1>4 DEF JobInv, Refers, Job
    <2>3. KnowsItsRecord(k) /\ ReadsInOrder(k) /\ Alerted(k)
      BY <1>2 DEF JobInv, KnowsItsRecord, ReadsInOrder, Alerted, Job
    <2>. QED
      BY <2>1, <2>2, <2>3 DEF JobInv
  <1>. QED
    BY <1>1, <1>2, <1>3, <1>5, <1>6, LocalStepKeeps DEF Decide, At, Logging
-----------------------------------------------------------------------------
\* The verification and the reads that follow it.

\* The job of a goroutine that has verified is a job.
LEMMA VerifyingJob ==
    ASSUME NEW j \in Job, NEW pc \in Pcs, NEW valid \in BOOLEAN, NEW upto \in Nat,
           NEW op \in Handlers \cup {"", "answer"}
    PROVE  [j EXCEPT !.pc = pc, !.valid = valid, !.op = op, !.upto = upto] \in Job
  BY ZenonT(60) DEF Job

\* A verification drops the locals; what it has verified is a prefix of the chain.
LEMMA VerifyKeeps ==
    ASSUME IInv, NEW w \in Workers, Verify(w)
    PROVE  IInv'
  <1>1. PICK j \in Job : j = job[w]
    BY DEF IInv, Typed
  <1>2. /\ j.pc = "verify" /\ intact \in BOOLEAN
        /\ Len(chain) \in Nat
    BY <1>1, LenProperties DEF IInv, Typed, Verify, At
  <1>3. PICK op \in Reads \cup {"answer"}, upto \in {0, Len(chain)} :
           Become(w, [Idle EXCEPT !.pc = IF intact THEN "set" ELSE "observe",
                                  !.valid = intact, !.op = op, !.upto = upto])
    BY <1>1 DEF Verify
  <1>a. PICK pc \in {"set", "observe"} : pc = IF intact THEN "set" ELSE "observe"
    OBVIOUS
  <1>b. PICK valid \in BOOLEAN : valid = intact
    BY <1>2
  <1> DEFINE k == [Idle EXCEPT !.pc = pc, !.valid = valid, !.op = op, !.upto = upto]
  <1>4. k \in Job
    <2>1. PICK j0 \in Job : j0 = Idle
      BY IdleJob DEF IInv
    <2>2. op \in Handlers \cup {"", "answer"}
      BY DEF Handlers
    <2>4. upto \in Nat
      BY <1>2, SMTT(40)
    <2>3. [j0 EXCEPT !.pc = pc, !.valid = valid, !.op = op, !.upto = upto] \in Job
      BY <2>2, <2>4, VerifyingJob DEF Pcs
    <2>. QED
      BY <2>1, <2>3
  <1>5. /\ k.pc = pc /\ k.valid = valid /\ k.op = op /\ k.upto = upto /\ k.prev = 0
        /\ k.hash = 0 /\ k.head = 0 /\ k.ref = 0 /\ k.cites = {}
    BY DEF Idle, NoHash
  <1> HIDE DEF k
  <1>6. JobInv(k)
    <2>1. Shape(k) /\ KnowsItsRecord(k) /\ ReadsInOrder(k)
      BY <1>5 DEF Shape, KnowsItsRecord, ReadsInOrder, NoHash, Suggestions
    <2>2. Refers(k)
      <3>1. 0 \in 0 .. Len(chain) /\ 0 <= Len(chain) /\ upto <= Len(chain)
        BY <1>2, ZeroInRange
      <3>. QED
        BY <1>5, <3>1 DEF Refers
    <2>3. Alerted(k)
      BY <1>5, <1>a, <1>b DEF Alerted
    <2>. QED
      BY <2>1, <2>2, <2>3 DEF JobInv
  <1>7. Become(w, k) /\ job[w].pc # "append"
    BY <1>1, <1>2, <1>3, <1>a, <1>b DEF k
  <1>. QED
    BY <1>4, <1>6, <1>7, LocalStepKeeps DEF Verify, At, Logging

\* A goroutine that finds the chain already known to be broken relies on the
\* alert having been raised.
LEMMA ReadAuditOKKeeps ==
    ASSUME IInv, NEW w \in Workers, ReadAuditOK(w)
    PROVE  IInv'
  <1>1. PICK j \in Job : j = job[w]
    BY DEF IInv, Typed
  <1>2. JobInv(j) /\ j.pc = "observe"
    BY <1>1 DEF IInv, ReadAuditOK, At
  <1>3. PICK pc \in {"raise", "set"} : pc = IF auditOK THEN "raise" ELSE "set"
    OBVIOUS
  <1> DEFINE k == [j EXCEPT !.pc = pc]
  <1>4. Become(w, k) /\ k \in Job
    <2>1. k \in Job
      BY DEF Job, Pcs
    <2>. QED
      BY <1>1, <1>3, <2>1 DEF ReadAuditOK, Goto, Become
  <1>5. JobInv(k)
    <2>1. Shape(k)
      BY <1>2 DEF JobInv, Shape, Job
    <2>2. Refers(k) /\ KnowsItsRecord(k) /\ ReadsInOrder(k)
      BY <1>2 DEF JobInv, Refers, KnowsItsRecord, ReadsInOrder, Job
    <2>3. pc = "set" => dedupeKey(AuditBrokenAlert) \in raised
      BY <1>3 DEF IInv, BrokenIsAlerted
    <2>4. Alerted(k)
      BY <1>2, <2>3 DEF Alerted, Job
    <2>. QED
      BY <2>1, <2>2, <2>4 DEF JobInv
  <1>. QED
    BY <1>1, <1>2, <1>4, <1>5, LocalStepKeeps DEF ReadAuditOK, At, Logging

\* The order of the reads: an export's head is read before its records, a
\* health answer's length before its head.
LEMMA OrderOfReads ==
    /\ AfterRead("export", "head") = "records" /\ AfterRead("export", "records") = "reply"
    /\ AfterRead("health", "records") = "head" /\ AfterRead("health", "head") = "reply"
    /\ ReadOrder("export")[1] = "head" /\ ReadOrder("health")[1] = "records"
  BY DEF AfterRead, ReadOrder

\* The head of an export covers what was verified; that of a health answer the
\* length read before.
LEMMA ReadHeadKeeps ==
    ASSUME IInv, NEW w \in Workers, ReadHead(w)
    PROVE  IInv'
  <1>1. PICK j \in Job : j = job[w]
    BY DEF IInv, Typed
  <1>2. JobInv(j) /\ j.pc = "head" /\ j.op \in {"export", "health"}
    BY <1>1 DEF IInv, ReadHead, At, JobInv, Shape, Reads
  <1>3. PICK pc \in {"records", "reply"} : pc = AfterRead(j.op, "head")
    BY <1>2, OrderOfReads
  <1>4. /\ HeadHash \in Nat /\ HeadHash <= Len(chain) /\ Len(chain) \in Nat
        /\ HeadHash + Behind = Len(chain)
    <2>1. PICK n \in Nat : n = Len(chain)
      BY LenProperties DEF IInv, Typed
    <2>2. PICK c \in Nat : c = cached /\ c <= n
      BY <2>1 DEF IInv, Typed, HeadFollows
    <2>3. c + (n - c) = n
      OBVIOUS
    <2>. QED
      BY <2>1, <2>2, <2>3 DEF HeadHash, Behind
  <1> DEFINE k == [j EXCEPT !.head = HeadHash, !.pc = pc]
  <1>5. k \in Job
    BY <1>4, ZenonT(60) DEF Job, Pcs
  <1>6. /\ k.op = j.op /\ k.pc = pc /\ k.head = HeadHash /\ k.prev = j.prev /\ k.hash = j.hash
        /\ k.upto = j.upto /\ k.ref = j.ref /\ k.cites = j.cites /\ k.event = j.event
        /\ k.len = j.len
    BY DEF Job
  <1>7. Become(w, k)
    BY <1>1, <1>3 DEF ReadHead
  <1> HIDE DEF k
  <1>8. JobInv(k)
    <2>1. Shape(k) /\ KnowsItsRecord(k) /\ Alerted(k)
      BY <1>2, <1>6 DEF Shape, KnowsItsRecord, Alerted, Reads
    <2>2. Refers(k)
      BY <1>2, <1>4, <1>6 DEF JobInv, Refers
    <2>3. j.upto <= Len(chain)
      BY <1>2 DEF JobInv, Refers
    <2>4. j.op = "health" /\ j.len # TooFew => j.upto <= j.len /\ j.len <= Len(chain)
      BY <1>2 DEF JobInv, ReadsInOrder
    <2>5. ReadsInOrder(k)
      BY <1>2, <1>3, <1>4, <1>6, <2>3, <2>4, OrderOfReads DEF ReadsInOrder
    <2>. QED
      BY <2>1, <2>2, <2>5 DEF JobInv
  <1>. QED
    BY <1>1, <1>2, <1>5, <1>7, <1>8, LocalStepKeeps DEF ReadHead, At, Logging

\* The records of an export reach its head; the length of a health answer covers
\* what was verified.
LEMMA ReadRecordsKeeps ==
    ASSUME IInv, NEW w \in Workers, ReadRecords(w)
    PROVE  IInv'
  <1>1. PICK j \in Job : j = job[w]
    BY DEF IInv, Typed
  <1>2. JobInv(j) /\ j.pc = "records" /\ j.op \in {"export", "health"}
    BY <1>1 DEF IInv, ReadRecords, At, JobInv, Shape, Reads
  <1>3. PICK pc \in {"head", "reply"} : pc = AfterRead(j.op, "records")
    BY <1>2, OrderOfReads
  <1>4. PICK len \in {Len(chain), TooFew} : Become(w, [j EXCEPT !.len = len, !.pc = pc])
    BY <1>1, <1>3 DEF ReadRecords
  <1>5. Len(chain) \in Nat
    BY LenProperties DEF IInv, Typed
  <1> DEFINE k == [j EXCEPT !.len = len, !.pc = pc]
  <1>6. k \in Job
    BY <1>5 DEF Job, Pcs
  <1>7. /\ k.op = j.op /\ k.pc = pc /\ k.head = j.head /\ k.prev = j.prev /\ k.hash = j.hash
        /\ k.upto = j.upto /\ k.ref = j.ref /\ k.cites = j.cites /\ k.event = j.event
        /\ k.len = len
    BY DEF Job
  <1> HIDE DEF k
  <1>8. JobInv(k)
    <2>1. Shape(k) /\ KnowsItsRecord(k) /\ Alerted(k)
      BY <1>2, <1>7 DEF Shape, KnowsItsRecord, Alerted, Reads
    <2>2. Refers(k)
      BY <1>2, <1>7 DEF JobInv, Refers
    <2>3. j.upto <= Len(chain) /\ j.head <= Len(chain)
      BY <1>2 DEF JobInv, Refers
    <2>4. j.op = "export" => j.upto <= j.head + Behind
      BY <1>2 DEF JobInv, ReadsInOrder
    <2>5. ReadsInOrder(k)
      BY <1>2, <1>3, <1>4, <1>5, <1>7, <2>3, <2>4, OrderOfReads DEF ReadsInOrder
    <2>. QED
      BY <2>1, <2>2, <2>5 DEF JobInv
  <1>. QED
    BY <1>1, <1>2, <1>4, <1>6, <1>8, LocalStepKeeps DEF ReadRecords, At, Logging, k

\* A goroutine that has answered is idle.
LEMMA ReplyKeeps ==
    ASSUME IInv, NEW w \in Workers, Reply(w)
    PROVE  IInv'
  BY IdleJob, LocalStepKeeps DEF Reply, At, Logging, IInv
-----------------------------------------------------------------------------
\* The steps that change what the goroutines share.

\* An event enters recent on its way to the record.
LEMMA AddRecentKeeps ==
    ASSUME IInv, NEW w \in Workers, AddRecent(w)
    PROVE  IInv'
  <1>1. PICK j \in Job : j = job[w]
    BY DEF IInv, Typed
  <1>2. /\ JobInv(j) /\ j.pc = "add" /\ j.op \in Ingests /\ j.event \in Events
        /\ j.hash = NoHash
    BY <1>1 DEF IInv, AddRecent, At, JobInv, Shape
  <1>3. /\ recent' = Appended(j.event)
        /\ UNCHANGED <<chain, cached, late, alerts, auditOK, intact, unlogged, curated, raised>>
    BY <1>1 DEF AddRecent
  <1>p. PICK pc \in {"broadcast", "append"} : pc = AfterAdd(j.op)
    BY DEF AfterAdd
  <1> DEFINE k == [j EXCEPT !.pc = pc]
  <1>4. Become(w, k)
    BY <1>1, <1>p DEF AddRecent, Goto, Become
  <1>5. k \in Job
    BY DEF Job, Pcs
  <1>6. k.op = j.op /\ k.pc = pc /\ k.event = j.event
    BY DEF Job
  <1>7. JobInv(k)
    <2>1. Shape(k)
      BY <1>2 DEF Shape, Job, Ingests, Consumers, Suggestions
    <2>2. Refers(k) /\ KnowsItsRecord(k) /\ ReadsInOrder(k) /\ Alerted(k)
      BY <1>2 DEF JobInv, Refers, KnowsItsRecord, ReadsInOrder, Alerted, Job
    <2>. QED
      BY <2>1, <2>2 DEF JobInv
  <1> HIDE DEF k
  <1>8. /\ Grows /\ raised \subseteq raised' /\ chain \in Seq(Record) /\ cached \in Nat
    BY <1>3 DEF Grows, IInv, Typed
  <1>9. JobInv(k)'
    BY <1>5, <1>7, <1>8, JobStable
  <1>10. job' \in [Workers -> Job] /\ \A v \in Workers : JobInv(job[v])'
    BY <1>4, <1>5, <1>8, <1>9, OthersKeep DEF IInv
  <1>11. /\ recent' \in Seq(Events) /\ Len(recent') <= MaxRecent
         /\ \A e \in Events : InRecent(e)' => InRecent(e) \/ e = j.event
    BY <1>2, <1>3, AppendedKeeps DEF IInv, Typed, InRecent
  <1>12. RecentIsLogged'
    <2>1. job'[w] = k
      BY <1>4 DEF Become, IInv, Typed
    <2>2. BeingLogged(j.event)'
      BY <1>2, <1>6, <2>1 DEF BeingLogged, Logging
    <2>3. \A e \in Events : ~Logging(job[w], e)
      BY <1>1, <1>2 DEF Logging
    <2>4. ASSUME NEW e \in Events, InRecent(e)
          PROVE  LoggedIngest(e)' \/ BeingLogged(e)' \/ e \in (unlogged \cup curated)'
      BY <1>3, <1>4, <1>5, <1>8, <2>3, <2>4, LoggedStays DEF IInv
    <2>. QED
      BY <1>11, <2>2, <2>4 DEF RecentIsLogged
  <1>13. Typed'
    BY <1>3, <1>10, <1>11 DEF IInv, Typed
  <1>14. LooksBack' /\ HeadFollows' /\ MutedWereRaised' /\ BrokenIsAlerted'
    BY <1>3, SameStore DEF IInv, MutedWereRaised, BrokenIsAlerted
  <1>. QED
    BY <1>10, <1>12, <1>13, <1>14 DEF IInv

\* An ingest whose broadcast returns is still on its way to the record.
LEMMA BroadcastKeeps ==
    ASSUME IInv, NEW w \in Workers, Broadcast(w)
    PROVE  IInv'
  <1>1. PICK j \in Job : j = job[w]
    BY DEF IInv, Typed
  <1>2. JobInv(j) /\ j.pc = "broadcast" /\ j.op \in Ingests /\ j.event \in Events
    BY <1>1 DEF IInv, Broadcast, At, JobInv, Shape
  <1> DEFINE k == [j EXCEPT !.pc = "append"]
  <1>3. Become(w, k) /\ k \in Job
    <2>1. k \in Job
      BY DEF Job, Pcs
    <2>. QED
      BY <1>1, <2>1 DEF Broadcast, Goto, Become
  <1>4. JobInv(k)
    <2>1. Shape(k)
      BY <1>2 DEF JobInv, Shape, Job, Ingests, Consumers, Suggestions
    <2>2. Refers(k) /\ KnowsItsRecord(k) /\ ReadsInOrder(k) /\ Alerted(k)
      BY <1>2 DEF JobInv, Refers, KnowsItsRecord, ReadsInOrder, Alerted, Job
    <2>. QED
      BY <2>1, <2>2 DEF JobInv
  <1>5. \A e \in Events : Logging(job[w], e) => Logging(k, e)
    BY <1>1, <1>2 DEF Logging, Job
  <1>. QED
    BY <1>3, <1>4, <1>5, LocalStepKeeps DEF Broadcast

\* What a step leaves that changes nothing but a goroutine's job, what may still
\* be inserted and the note of unlogged events: those it did not drop unnoted.
LEMMA UnloggedKeeps ==
    ASSUME IInv, NEW w \in Workers, NEW k \in Job, Become(w, k), JobInv(k)',
           late' \subseteq Record, HeadFollows', unlogged \subseteq unlogged', unlogged' \subseteq Events,
           \A e \in Events : Logging(job[w], e) => Logging(k, e) \/ e \in unlogged',
           UNCHANGED <<recent, chain, cached, alerts, auditOK, intact, curated, raised>>
    PROVE  IInv'
  <1>1. /\ Grows /\ raised \subseteq raised' /\ chain \in Seq(Record)
    BY DEF Grows, IInv, Typed
  <1>2. job' \in [Workers -> Job] /\ \A v \in Workers : JobInv(job[v])'
    BY <1>1, OthersKeep DEF IInv
  <1>3. Typed'
    BY <1>2 DEF IInv, Typed
  <1>4. RecentIsLogged'
    <2>1. \A e \in Events : InRecent(e)' => InRecent(e)
      BY DEF InRecent
    <2>2. ASSUME NEW e \in Events, InRecent(e)
          PROVE  LoggedIngest(e)' \/ BeingLogged(e)' \/ e \in (unlogged \cup curated)'
      BY <1>1, <2>2, LoggedStays DEF IInv
    <2>. QED
      BY <2>1, <2>2 DEF RecentIsLogged
  <1>5. LooksBack'
    BY SameChain DEF IInv
  <1>6. MutedWereRaised' /\ BrokenIsAlerted'
    BY DEF IInv, MutedWereRaised, BrokenIsAlerted
  <1>. QED
    BY <1>2, <1>3, <1>4, <1>5, <1>6 DEF IInv

\* A handler that a panicking write ends leaves a note of its event.
LEMMA BroadcastPanicsKeeps ==
    ASSUME IInv, NEW w \in Workers, BroadcastPanics(w)
    PROVE  IInv'
  <1>1. PICK j \in Job : j = job[w]
    BY DEF IInv, Typed
  <1>2. j.pc = "broadcast" /\ j.event \in Events
    BY <1>1 DEF IInv, BroadcastPanics, At, JobInv, Shape
  <1>3. /\ Become(w, Idle) /\ unlogged' = unlogged \cup {j.event}
        /\ UNCHANGED <<recent, chain, cached, late, alerts, auditOK, intact, curated, raised>>
    BY <1>1 DEF BroadcastPanics
  <1>4. Idle \in Job /\ JobInv(Idle)'
    BY <1>3, IdleJob, JobStable DEF IInv, Typed, Grows
  <1>5. HeadFollows'
    BY <1>3, SameStore DEF IInv
  <1>6. /\ late' \subseteq Record /\ unlogged \subseteq unlogged' /\ unlogged' \subseteq Events
        /\ \A e \in Events : Logging(job[w], e) => e \in unlogged'
    BY <1>1, <1>2, <1>3 DEF Logging, IInv, Typed
  <1>. QED
    BY <1>3, <1>4, <1>5, <1>6, UnloggedKeeps

\* The events of a curated digest enter recent one by one, off the record.
LEMMA AddCuratedKeeps ==
    ASSUME IInv, NEW w \in Workers, AddCurated(w)
    PROVE  IInv'
  <1>1. PICK j \in Job : j = job[w]
    BY DEF IInv, Typed
  <1>2. JobInv(j) /\ j.pc = "addCurated" /\ j.todo \in Seq(Events) /\ j.todo # <<>>
    BY <1>1 DEF IInv, AddCurated, At, JobInv, Shape
  <1> DEFINE e0 == Head(j.todo)
  <1>3. /\ e0 \in Events /\ Tail(j.todo) \in Seq(Events)
        /\ Len(j.todo) # 1 => Tail(j.todo) # <<>>
    <2>1. /\ e0 \in Events /\ Tail(j.todo) \in Seq(Events)
          /\ Len(Tail(j.todo)) = Len(j.todo) - 1
      BY <1>2, HeadTailProperties
    <2>2. Len(j.todo) \in Nat /\ Len(j.todo) # 0
      BY <1>2, EmptySeq, LenProperties
    <2>3. ASSUME Tail(j.todo) = <<>> PROVE Len(j.todo) = 1
      <3>1. Len(Tail(j.todo)) = 0
        BY <2>3, EmptySeq
      <3>. QED
        BY <2>1, <2>2, <3>1
    <2>. QED
      BY <2>1, <2>3
  <1>4. /\ recent' = Appended(e0) /\ curated' = curated \cup {e0}
        /\ UNCHANGED <<chain, cached, late, alerts, auditOK, intact, unlogged, raised>>
        /\ IF Len(j.todo) = 1 THEN Become(w, Idle)
           ELSE Become(w, [j EXCEPT !.todo = Tail(j.todo)])
    BY <1>1 DEF AddCurated
  <1> HIDE DEF e0
  <1>5. PICK k \in Job : Become(w, k) /\ JobInv(k)
    <2>1. CASE Len(j.todo) = 1
      BY <1>4, <2>1, IdleJob DEF IInv
    <2>2. CASE Len(j.todo) # 1
      <3> DEFINE k == [j EXCEPT !.todo = Tail(j.todo)]
      <3>1. Tail(j.todo) \in Seq(Events \cup DigestRules \cup Alert)
        BY <1>3
      <3>2. k \in Job
        BY <3>1 DEF Job
      <3>3. Shape(k)
        BY <1>2, <1>3, <2>2 DEF Shape, Job
      <3>4. Refers(k) /\ KnowsItsRecord(k) /\ ReadsInOrder(k) /\ Alerted(k)
        BY <1>2 DEF JobInv, Refers, KnowsItsRecord, ReadsInOrder, Alerted, Job
      <3>. QED
        BY <1>4, <2>2, <3>2, <3>3, <3>4 DEF JobInv
    <2>. QED
      BY <2>1, <2>2
  <1>6. Grows /\ raised \subseteq raised' /\ chain \in Seq(Record) /\ cached \in Nat
    BY <1>4 DEF Grows, IInv, Typed
  <1>7. JobInv(k)'
    BY <1>5, <1>6, JobStable
  <1>8. job' \in [Workers -> Job] /\ \A v \in Workers : JobInv(job[v])'
    BY <1>5, <1>6, <1>7, OthersKeep DEF IInv
  <1>9. /\ recent' \in Seq(Events) /\ Len(recent') <= MaxRecent
        /\ \A e \in Events : InRecent(e)' => InRecent(e) \/ e = e0
    BY <1>3, <1>4, AppendedKeeps DEF IInv, Typed, InRecent
  <1>10. RecentIsLogged'
    <2>1. \A e \in Events : ~Logging(job[w], e)
      BY <1>1, <1>2 DEF Logging
    <2>2. unlogged \subseteq unlogged' /\ curated \subseteq curated' /\ e0 \in curated'
      BY <1>4
    <2>3. ASSUME NEW e \in Events, InRecent(e)
          PROVE  LoggedIngest(e)' \/ BeingLogged(e)' \/ e \in (unlogged \cup curated)'
      BY <1>5, <1>6, <2>1, <2>2, <2>3, LoggedStays DEF IInv
    <2>. QED
      BY <1>9, <2>2, <2>3 DEF RecentIsLogged
  <1>11. Typed'
    BY <1>3, <1>4, <1>8, <1>9 DEF IInv, Typed
  <1>12. LooksBack' /\ HeadFollows' /\ MutedWereRaised' /\ BrokenIsAlerted'
    BY <1>4, SameStore DEF IInv, MutedWereRaised, BrokenIsAlerted
  <1>. QED
    BY <1>8, <1>10, <1>11, <1>12 DEF IInv

\* The record without content.
LEMMA BlankRecord ==
    /\ Blank \in Record /\ Blank.ref = NoHash /\ Blank.cites = {}
    /\ Blank.event = NoEvent /\ Blank.status = "" /\ Blank.action = ""
  BY DEF Blank, Record, RecordKinds, EventOrNone, NoHash

\* What a job appends refers to what the job refers to.
LEMMA RecordToAppend ==
    ASSUME NEW j \in Job, j.pc = "append", Shape(j)
    PROVE  /\ RecordOf(j) \in Record
           /\ RecordOf(j).ref \in {NoHash, j.ref}
           /\ RecordOf(j).cites = {} \/ (RecordOf(j).cites = j.cites /\ RecordOf(j).event = j.event)
           /\ j.op \in Ingests => RecordOf(j) = IngestRecord(j.event)
  <1>0. PICK blank \in Record : /\ blank = Blank
                                /\ blank.ref = NoHash /\ blank.cites = {}
    BY BlankRecord
  <1>k. {"ingest", "digest_selection", "operator_action"} \subseteq RecordKinds
    BY DEF RecordKinds
  <1>1. CASE j.op \in Ingests
    <2>1. RecordOf(j) = [blank EXCEPT !.kind = "ingest", !.event = j.event]
      BY <1>0, <1>1 DEF RecordOf, Ingests, Consumers, IngestRecord
    <2>2. RecordOf(j) \in Record
      BY <1>k, <2>1 DEF Record, Job
    <2>3. RecordOf(j).ref = NoHash /\ RecordOf(j).cites = {}
      BY <1>0, <2>1 DEF Record
    <2>. QED
      BY <1>0, <2>1, <2>2, <2>3 DEF IngestRecord
  <1>2. CASE j.op = "digest"
    <2>1. RecordOf(j) = [blank EXCEPT !.kind = "digest_selection"]
      BY <1>0, <1>2 DEF RecordOf, Ingests, Consumers
    <2>2. RecordOf(j) \in Record
      BY <1>k, <2>1 DEF Record
    <2>3. RecordOf(j).ref = NoHash /\ RecordOf(j).cites = {} /\ j.op \notin Ingests
      BY <1>0, <1>2, <2>1 DEF Record, Ingests, Consumers
    <2>. QED
      BY <2>2, <2>3
  <1>3. CASE j.op = "resolve"
    <2>1. RecordOf(j) = [blank EXCEPT !.kind = "operator_action", !.ref = j.ref,
                                      !.action = j.action]
      BY <1>0, <1>3 DEF RecordOf, Ingests, Consumers
    <2>2. RecordOf(j) \in Record
      BY <1>k, <2>1 DEF Record, Job
    <2>3. RecordOf(j).ref = j.ref /\ RecordOf(j).cites = {} /\ j.op \notin Ingests
      BY <1>0, <1>3, <2>1 DEF Record, Ingests, Consumers
    <2>. QED
      BY <2>2, <2>3
  <1>4. CASE j.op \in Suggestions
    <2> DEFINE kind == DecisionKind(j.op, j.status)
    <2>1. PICK cites \in SUBSET Nat : /\ cites = IF j.status = "pass" THEN j.cites ELSE {}
                                      /\ cites \in {{}, j.cites}
      BY DEF Job
    <2>2. kind \in RecordKinds
      <3>1. j.status \in Statuses
        BY <1>4 DEF Shape
      <3>2. kind \in DecisionKinds
        BY <1>4, <3>1 DEF DecisionKinds
      <3> HIDE DEF kind
      <3>. QED
        BY <3>2 DEF RecordKinds
    <2>3. RecordOf(j) = [blank EXCEPT !.kind = kind, !.event = j.event,
                                      !.status = j.status, !.cites = cites]
      BY <1>0, <1>4, <2>1 DEF RecordOf, Ingests, Consumers, Suggestions
    <2> HIDE DEF kind
    <2>4. RecordOf(j) \in Record
      BY <2>2, <2>3 DEF Record, Job
    <2>5. RecordOf(j).ref = NoHash /\ RecordOf(j).cites = cites /\ RecordOf(j).event = j.event
      BY <1>0, <2>3 DEF Record
    <2>6. j.op \notin Ingests
      BY <1>4 DEF Ingests, Consumers, Suggestions
    <2>. QED
      BY <2>1, <2>4, <2>5, <2>6
  <1>. QED
    BY <1>1, <1>2, <1>3, <1>4 DEF Shape

\* Appending a record that refers back keeps the records looking back.
LEMMA AppendLooksBack ==
    ASSUME Typed, LooksBack, NEW rec \in Record, chain' = Append(chain, rec),
           rec.ref \in 0 .. Len(chain) \cup {Foreign},
           \A c \in rec.cites : ResolvedBy(c, rec.event, Len(chain))
    PROVE  LooksBack'
  <1>1. ChainGrows /\ chain \in Seq(Record)
    BY DEF ChainGrows, Typed
  <1>2. /\ Len(chain) \in Nat /\ DOMAIN chain = 1 .. Len(chain)
        /\ Len(chain') = Len(chain) + 1 /\ DOMAIN chain' = 1 .. Len(chain) + 1
        /\ chain'[Len(chain) + 1] = rec
        /\ \A i \in 1 .. Len(chain) : chain'[i] = chain[i]
    BY <1>1, AppendProperties, LenProperties
  <1>3. ASSUME NEW i \in 1 .. Len(chain)
        PROVE  (/\ chain[i].ref \in 0 .. i - 1 \cup {Foreign}
                /\ \A c \in chain[i].cites : ResolvedBy(c, chain[i].event, i - 1))'
    <2>1. PICK r \in Record : r = chain[i] /\ r = chain'[i]
      BY <1>1, <1>2, ElementOfSeq
    <2>2. /\ r.ref \in 0 .. i - 1 \cup {Foreign}
          /\ \A c \in r.cites : ResolvedBy(c, r.event, i - 1)
      BY <1>2, <2>1 DEF LooksBack
    <2>3. i - 1 \in 0 .. Len(chain) /\ i - 1 \in i - 1 .. Len(chain')
      BY <1>2
    <2>4. \A c \in r.cites : ResolvedBy(c, r.event, i - 1)'
      BY <1>1, <2>2, <2>3, ResolvedStays
    <2>. QED
      BY <2>1, <2>2, <2>4, ZenonT(60) DEF ResolvedBy
  <1>4. ASSUME NEW i, i = Len(chain) + 1
        PROVE  (/\ chain[i].ref \in 0 .. i - 1 \cup {Foreign}
                /\ \A c \in chain[i].cites : ResolvedBy(c, chain[i].event, i - 1))'
    <2>1. i - 1 \in Nat /\ i - 1 = Len(chain)
      BY <1>2, <1>4
    <2>2. \A c \in rec.cites : ResolvedBy(c, rec.event, i - 1)
      BY <2>1
    <2>3. i - 1 \in 0 .. Len(chain) /\ i - 1 \in i - 1 .. Len(chain')
      BY <1>2, <2>1
    <2>4. \A c \in rec.cites : ResolvedBy(c, rec.event, i - 1)'
      BY <1>1, <2>2, <2>3, ResolvedStays
    <2>5. chain'[i] = rec
      BY <1>2, <1>4
    <2>6. chain'[i].ref \in 0 .. i - 1 \cup {Foreign}
      BY <2>1, <2>5
    <2>. QED
      BY <2>4, <2>5, <2>6, ZenonT(60) DEF ResolvedBy
  <1>5. \A i \in DOMAIN chain' : i \in 1 .. Len(chain) \/ i = Len(chain) + 1
    BY <1>2
  <1>. QED
    BY <1>3, <1>4, <1>5 DEF LooksBack

\* A record enters the chain; its job knows its place, and goes on to alert.
LEMMA AppendOkKeeps ==
    ASSUME IInv, NEW w \in Workers, AppendOk(w)
    PROVE  IInv'
  <1>1. PICK j \in Job : j = job[w]
    BY DEF IInv, Typed
  <1>2. JobInv(j) /\ j.pc = "append"
    BY <1>1 DEF IInv, AppendOk, At
  <1>3. PICK rec \in Record :
           /\ rec = RecordOf(j)
           /\ rec.ref \in {NoHash, j.ref}
           /\ rec.cites = {} \/ (rec.cites = j.cites /\ rec.event = j.event)
           /\ j.op \in Ingests => rec = IngestRecord(j.event)
    BY <1>2, RecordToAppend DEF JobInv
  <1>n. PICK n \in Nat : n = Len(chain)
    BY LenProperties DEF IInv, Typed
  <1>4. /\ chain' = Append(chain, rec) /\ cached = n /\ cached' = n + 1 /\ late' = {}
        /\ UNCHANGED <<recent, alerts, auditOK, intact, unlogged, curated, raised>>
    BY <1>1, <1>3, <1>n DEF AppendOk
  <1>5. /\ n \in Nat /\ Len(chain') = n + 1 /\ chain'[n + 1] = rec
        /\ chain \in Seq(Record) /\ chain' \in Seq(Record) /\ DOMAIN chain' = 1 .. n + 1
        /\ Grows /\ raised \subseteq raised' /\ cached \in Nat
    BY <1>n, <1>4, AppendProperties, LenProperties DEF IInv, Typed, Grows
  <1>6. PICK j1 \in Job : j1 = [j EXCEPT !.hash = n + 1]
    <2>1. n + 1 \in Nat
      BY <1>5
    <2>. QED
      BY <2>1 DEF Job
  <1>7. /\ j1.op = j.op /\ j1.event = j.event /\ j1.status = j.status /\ j1.pc = j.pc
        /\ j1.review = j.review /\ j1.prev = j.prev /\ j1.hash = n + 1 /\ j1.head = j.head
        /\ j1.upto = j.upto /\ j1.ref = j.ref /\ j1.cites = j.cites
        /\ j1.action = j.action /\ j1.todo = j.todo
    BY <1>6 DEF Job
  <1>8. AlertsOf(j1) = AlertsOf(j) /\ RecordOf(j1) = RecordOf(j)
    BY <1>7 DEF AlertsOf, RecordOf
  <1>9. PICK todo \in Seq(Alert) : todo = AlertsOf(j1)
    BY <1>2, <1>8, AlertsToRaise DEF JobInv
  <1>10. Refers(j1)'
    <2>1. Refers(j)'
      BY <1>2, <1>5, JobStable DEF JobInv
    <2>2. n + 1 <= Len(chain')
      BY <1>5
    <2>3. \A c \in j1.cites : ResolvedBy(c, j1.event, Len(chain))'
      BY <1>7, <2>1 DEF Refers, ResolvedBy
    <2>. QED
      BY <1>7, <2>1, <2>2, <2>3 DEF Refers
  <1>11. PICK k \in Job : k = Alerting(j1, todo) /\ JobInv(k)'
    <2>1. j1.op \notin Reads /\ Len(chain') \in Nat
      BY <1>2, <1>5, <1>7 DEF JobInv, Shape, Reads, Ingests, Consumers, Suggestions
    <2>2. chain'[j1.hash] = RecordOf(j1) /\ j1.prev < j1.hash
      <3>1. j.prev <= n /\ j.prev \in Nat
        BY <1>2, <1>n DEF JobInv, Refers, Job
      <3>. QED
        BY <1>3, <1>5, <1>7, <1>8, <3>1
    <2>3. j1.op \in Suggestions => todo = IF j1.review THEN <<ReviewAlert(j1.event)>> ELSE <<>>
      BY <1>2, <1>7, <1>8, <1>9, AlertsToRaise DEF JobInv
    <2>4. <<ReviewAlert(j1.event)>> # <<>>
      OBVIOUS
    <2>5. Alerting(j1, todo) \in Job /\ JobInv(Alerting(j1, todo))'
      BY <1>10, <2>1, <2>2, <2>3, <2>4, AlertingKeeps
    <2>. QED
      BY <2>5
  <1>12. Become(w, k)
    BY <1>1, <1>6, <1>9, <1>11, <1>n DEF AppendOk
  <1>13. job' \in [Workers -> Job] /\ \A v \in Workers : JobInv(job[v])'
    BY <1>5, <1>11, <1>12, OthersKeep DEF IInv
  <1>14. Typed'
    BY <1>4, <1>5, <1>13 DEF IInv, Typed
  <1>15. LooksBack'
    <2>1. j.ref \in 0 .. n \cup {Foreign} /\ \A c \in j.cites : ResolvedBy(c, j.event, n)
      BY <1>2, <1>n DEF JobInv, Refers
    <2>2. rec.ref \in 0 .. n \cup {Foreign}
      BY <1>3, <1>5, <2>1, ZeroInRange DEF NoHash
    <2>. QED
      BY <1>3, <1>4, <1>n, <2>1, <2>2, AppendLooksBack DEF IInv
  <1>h. HeadFollows'
    BY <1>4, <1>5 DEF HeadFollows
  <1>16. RecentIsLogged'
    <2>1. \A e \in Events : Logging(job[w], e) => LoggedIngest(e)'
      BY <1>1, <1>3, <1>5 DEF Logging, LoggedIngest
    <2>2. ASSUME NEW e \in Events, InRecent(e)
          PROVE  LoggedIngest(e)' \/ BeingLogged(e)' \/ e \in (unlogged \cup curated)'
      BY <1>4, <1>5, <1>12, <2>1, <2>2, LoggedStays DEF IInv
    <2>3. \A e \in Events : InRecent(e)' => InRecent(e)
      BY <1>4 DEF InRecent
    <2>. QED
      BY <2>2, <2>3 DEF RecentIsLogged
  <1>17. MutedWereRaised' /\ BrokenIsAlerted'
    BY <1>4 DEF IInv, MutedWereRaised, BrokenIsAlerted
  <1>. QED
    BY <1>13, <1>14, <1>15, <1>h, <1>16, <1>17 DEF IInv

\* An Append that fails leaves the chain, and a note of the event it was to log.
LEMMA UnappendedKeeps ==
    ASSUME IInv, NEW w \in Workers, Unappended(w), late' \subseteq Record, HeadFollows'
    PROVE  IInv'
  <1>1. PICK j \in Job : j = job[w]
    BY DEF IInv, Typed
  <1>2. JobInv(j) /\ j.pc = "append"
    BY <1>1 DEF IInv, Unappended, At
  <1>3. /\ UNCHANGED <<recent, chain, cached, alerts, auditOK, intact, curated, raised>>
        /\ unlogged' = IF j.op \in Ingests THEN unlogged \cup {j.event} ELSE unlogged
    BY <1>1 DEF Unappended, NoteUnlogged
  <1>4. /\ Grows /\ raised \subseteq raised' /\ chain \in Seq(Record) /\ cached \in Nat
        /\ Len(chain) \in Nat /\ Len(chain') \in Nat
    BY <1>3, LenProperties DEF Grows, IInv, Typed
  <1>5. PICK k \in Job : Become(w, k) /\ JobInv(k)'
    <2>1. CASE j.op = "resolve"
      <3>1. Idle \in Job /\ JobInv(Idle)'
        BY <1>4, IdleJob, JobStable DEF IInv
      <3>. QED
        BY <1>1, <2>1, <3>1 DEF Unappended
    <2>2. CASE j.op # "resolve"
      <3>1. PICK todo \in Seq(Alert) : todo = AlertsOf(j)
        BY <1>2, AlertsToRaise DEF JobInv
      <3>2. Refers(j)'
        BY <1>2, <1>4, JobStable DEF JobInv
      <3>3. j.op \notin Reads /\ j.hash = NoHash
        BY <1>2 DEF JobInv, Shape, Reads, Ingests, Consumers, Suggestions
      <3>4. j.op \in Suggestions => todo = IF j.review THEN <<ReviewAlert(j.event)>> ELSE <<>>
        BY <1>2, <3>1, AlertsToRaise DEF JobInv
      <3>5. <<ReviewAlert(j.event)>> # <<>>
        OBVIOUS
      <3>6. Alerting(j, todo) \in Job /\ JobInv(Alerting(j, todo))'
        BY <1>4, <3>2, <3>3, <3>4, <3>5, AlertingKeeps
      <3>7. Become(w, Alerting(j, todo))
        BY <1>1, <2>2, <3>1 DEF Unappended
      <3>. QED
        BY <3>6, <3>7
    <2>. QED
      BY <2>1, <2>2
  <1>6. /\ unlogged \subseteq unlogged'
        /\ \A e \in Events : Logging(job[w], e) => e \in unlogged'
    BY <1>1, <1>3 DEF Logging
  <1>7. unlogged' \subseteq Events
    <2>1. j.op \in Ingests => j.event \in Events
      BY <1>2 DEF JobInv, Shape, Ingests, Consumers
    <2>. QED
      BY <1>3, <2>1 DEF IInv, Typed
  <1>. QED
    BY <1>3, <1>5, <1>6, <1>7, UnloggedKeeps

\* A refused INSERT leaves the store as it was.
LEMMA AppendFailsKeeps ==
    ASSUME IInv, NEW w \in Workers, AppendFails(w)
    PROVE  IInv'
  <1>1. Unappended(w) /\ UNCHANGED <<chain, cached, late>>
    BY DEF AppendFails, Unappended
  <1>2. late' \subseteq Record /\ HeadFollows'
    BY <1>1, SameStore DEF IInv, Typed
  <1>. QED
    BY <1>1, <1>2, UnappendedKeeps

\* The record that a given-up INSERT may still add refers to what is there.
LEMMA InFlightFollows ==
    ASSUME IInv, NEW w \in Workers, At(w, "append")
    PROVE  /\ RecordOf(job[w]) \in Record
           /\ RecordOf(job[w]).ref \in 0 .. Len(chain) \cup {Foreign}
           /\ \A c \in RecordOf(job[w]).cites :
                 ResolvedBy(c, RecordOf(job[w]).event, Len(chain))
  <1>1. PICK j \in Job : j = job[w] /\ JobInv(j) /\ j.pc = "append"
    BY DEF IInv, Typed, At
  <1>2. PICK rec \in Record :
           /\ rec = RecordOf(j)
           /\ rec.ref \in {NoHash, j.ref}
           /\ rec.cites = {} \/ (rec.cites = j.cites /\ rec.event = j.event)
    BY <1>1, RecordToAppend DEF JobInv
  <1>3. /\ j.ref \in 0 .. Len(chain) \cup {Foreign}
        /\ \A c \in j.cites : ResolvedBy(c, j.event, Len(chain))
    BY <1>1 DEF JobInv, Refers
  <1>4. NoHash \in 0 .. Len(chain)
    BY LenProperties, ZeroInRange DEF NoHash, IInv, Typed
  <1>5. rec.ref \in 0 .. Len(chain) \cup {Foreign}
    BY <1>2, <1>3, <1>4
  <1>6. \A c \in rec.cites : ResolvedBy(c, rec.event, Len(chain))
    BY <1>2, <1>3
  <1>. QED
    BY <1>1, <1>2, <1>5, <1>6

\* One that was given up leaves a record that may come, and fits if it does.
LEMMA AppendTimesOutKeeps ==
    ASSUME IInv, NEW w \in Workers, AppendTimesOut(w)
    PROVE  IInv'
  <1>1. /\ Unappended(w) /\ UNCHANGED <<chain, cached>> /\ At(w, "append")
        /\ cached = Len(chain) /\ late' = late \cup {RecordOf(job[w])}
    BY DEF AppendTimesOut, Unappended
  <1>2. PICK rec : /\ rec = RecordOf(job[w]) /\ rec \in Record
                   /\ rec.ref \in 0 .. Len(chain) \cup {Foreign}
                   /\ \A c \in rec.cites : ResolvedBy(c, rec.event, Len(chain))
    BY <1>1, InFlightFollows
  <1>3. late' = late \cup {rec}
    BY <1>1, <1>2
  <1>4. \A r \in late' : /\ r.ref \in 0 .. Len(chain) \cup {Foreign}
                         /\ \A c \in r.cites : ResolvedBy(c, r.event, Len(chain))
    BY <1>2, <1>3 DEF IInv, HeadFollows
  <1>5. HeadFollows'
    BY <1>1, <1>4, SameChain DEF IInv, HeadFollows
  <1>6. late' \subseteq Record
    BY <1>2, <1>3 DEF IInv, Typed
  <1>. QED
    BY <1>1, <1>5, <1>6, UnappendedKeeps

\* What an alert leaves as it was, whoever raises it.
LEMMA RaisingKeeps ==
    ASSUME IInv, NEW a \in Alert, Raise(a), NEW w \in Workers, NEW k \in Job, Become(w, k),
           JobInv(k)', \A e \in Events : ~Logging(job[w], e),
           UNCHANGED <<recent, chain, cached, late, auditOK, intact, unlogged, curated>>
    PROVE  IInv'
  <1>1. /\ alerts' \in Store /\ Len(alerts'.buf) <= MaxAlerts
        /\ MutedWereRaised' /\ raised \subseteq raised'
    BY RaiseKeeps DEF IInv
  <1>2. Grows
    BY DEF Grows
  <1>3. job' \in [Workers -> Job] /\ \A v \in Workers : JobInv(job[v])'
    BY <1>1, <1>2, OthersKeep DEF IInv
  <1>4. Typed'
    BY <1>1, <1>3 DEF IInv, Typed
  <1>5. RecentIsLogged'
    <2>1. \A e \in Events : InRecent(e)' => InRecent(e)
      BY DEF InRecent
    <2>. QED
      BY <1>2, <2>1, LoggedStays DEF IInv, RecentIsLogged
  <1>6. LooksBack' /\ HeadFollows' /\ BrokenIsAlerted'
    BY <1>1, SameStore DEF IInv, BrokenIsAlerted
  <1>. QED
    BY <1>1, <1>3, <1>4, <1>5, <1>6 DEF IInv

\* A job raises the alerts it owes, in their order; the review alert of a
\* suggestion is its only one.
LEMMA RaiseNextKeeps ==
    ASSUME IInv, NEW w \in Workers, RaiseNext(w)
    PROVE  IInv'
  <1>1. PICK j \in Job : j = job[w]
    BY DEF IInv, Typed
  <1>2. JobInv(j) /\ j.pc = "alert" /\ j.todo \in Seq(Alert) /\ j.todo # <<>>
    BY <1>1 DEF IInv, RaiseNext, At, JobInv, Shape
  <1>3. PICK a \in Alert, rest \in Seq(Alert) : a = Head(j.todo) /\ rest = Tail(j.todo)
    BY <1>2, HeadTailProperties
  <1>4. /\ Raise(a) /\ Become(w, Alerting(j, rest))
        /\ \A e \in Events : ~Logging(job[w], e)
        /\ UNCHANGED <<recent, chain, cached, late, auditOK, intact, unlogged, curated>>
    BY <1>1, <1>3 DEF RaiseNext, At, Logging
  <1>5. Grows /\ chain \in Seq(Record) /\ cached \in Nat /\ Len(chain') \in Nat
    BY <1>4, LenProperties DEF Grows, IInv, Typed
  <1>6. raised \subseteq raised' /\ (a.rule \in MustAlert => dedupeKey(a) \in raised')
    BY <1>4, RaiseKeeps DEF IInv
  <1>7. JobInv(j)'
    BY <1>2, <1>5, <1>6, JobStable
  <1>8. ASSUME j.op \in Suggestions
        PROVE  /\ rest = <<>> /\ dedupeKey(ReviewAlert(j.event)) \in raised'
               /\ j.hash # NoHash => chain'[j.hash] = RecordOf(j) /\ j.prev < j.hash
    <2>1. j.todo = <<ReviewAlert(j.event)>>
      BY <1>2, <1>8 DEF JobInv, Alerted
    <2>2. a = ReviewAlert(j.event) /\ rest = <<>>
      BY <1>3, <2>1
    <2>3. a.rule \in MustAlert
      BY <2>2 DEF ReviewAlert, MustAlert
    <2>4. j.hash # NoHash => chain'[j.hash] = RecordOf(j) /\ j.prev < j.hash
      BY <1>2, <1>7, <1>8 DEF JobInv, KnowsItsRecord
    <2>. QED
      BY <1>6, <2>2, <2>3, <2>4
  <1>9. Alerting(j, rest) \in Job /\ JobInv(Alerting(j, rest))'
    <2>1. Refers(j)' /\ j.op \notin Reads
      BY <1>2, <1>7 DEF JobInv, Shape
    <2>. QED
      BY <1>5, <1>8, <2>1, AlertingKeeps
  <1>10. PICK k \in Job : k = Alerting(j, rest)
    BY <1>9
  <1>. QED
    BY <1>4, <1>9, <1>10, RaisingKeeps

\* The goroutine that found the chain broken raises the critical alert before it
\* notes so.
LEMMA RaiseBrokenKeeps ==
    ASSUME IInv, NEW w \in Workers, RaiseBroken(w)
    PROVE  IInv'
  <1>1. PICK j \in Job : j = job[w]
    BY DEF IInv, Typed
  <1>2. JobInv(j) /\ j.pc = "raise"
    BY <1>1 DEF IInv, RaiseBroken, At
  <1>3. /\ Raise(AuditBrokenAlert)
        /\ UNCHANGED <<recent, chain, cached, late, auditOK, intact, unlogged, curated>>
    BY DEF RaiseBroken
  <1>4. AuditBrokenAlert \in Alert /\ AuditBrokenAlert.rule \in MustAlert
    BY DEF AuditBrokenAlert, Alert, Rules, MustAlert
  <1>5. raised \subseteq raised' /\ dedupeKey(AuditBrokenAlert) \in raised'
    BY <1>3, <1>4, RaiseKeeps DEF IInv
  <1>6. JobInv(j)'
    BY <1>2, <1>3, <1>5, JobStable DEF IInv, Typed, Grows
  <1> DEFINE k == [j EXCEPT !.pc = "set"]
  <1>7. k \in Job
    BY DEF Job, Pcs
  <1>8. /\ k.op = j.op /\ k.pc = "set" /\ k.prev = j.prev /\ k.hash = j.hash
        /\ k.head = j.head /\ k.upto = j.upto /\ k.ref = j.ref /\ k.cites = j.cites
        /\ k.event = j.event
    BY DEF Job
  <1>9. Become(w, k) /\ \A e \in Events : ~Logging(job[w], e)
    BY <1>1, <1>2 DEF RaiseBroken, Goto, Become, Logging
  <1> HIDE DEF k
  <1>10. JobInv(k)'
    <2>1. Shape(k)' /\ KnowsItsRecord(k)' /\ ReadsInOrder(k)'
      BY <1>2, <1>8 DEF JobInv, Shape, KnowsItsRecord, ReadsInOrder
    <2>2. Refers(k)'
      BY <1>6, <1>8 DEF JobInv, Refers, ResolvedBy
    <2>3. Alerted(k)'
      BY <1>5, <1>8 DEF Alerted
    <2>. QED
      BY <2>1, <2>2, <2>3 DEF JobInv
  <1>. QED
    BY <1>3, <1>4, <1>7, <1>9, <1>10, RaisingKeeps

\* auditOK becomes false only when the critical alert was raised, although other
\* goroutines may have set it to true since this one read it.
LEMMA SetAuditOKKeeps ==
    ASSUME IInv, NEW w \in Workers, SetAuditOK(w)
    PROVE  IInv'
  <1>1. PICK j \in Job : j = job[w]
    BY DEF IInv, Typed
  <1>2. JobInv(j) /\ j.pc = "set" /\ j.op \in Reads \cup {"answer"}
    BY <1>1 DEF IInv, SetAuditOK, At, JobInv, Shape
  <1>3. /\ auditOK' = j.valid
        /\ UNCHANGED <<recent, chain, cached, late, alerts, intact, unlogged, curated, raised>>
    BY <1>1 DEF SetAuditOK
  <1>4. /\ Grows /\ raised \subseteq raised' /\ chain \in Seq(Record) /\ cached \in Nat
        /\ Len(chain) \in Nat /\ Len(chain') \in Nat
    BY <1>3, LenProperties DEF Grows, IInv, Typed
  <1>5. PICK k \in Job : Become(w, k) /\ JobInv(k)'
    <2>1. CASE j.op \in Reads
      <3>1. PICK pc \in {"head", "records"} : pc = ReadOrder(j.op)[1]
        BY <2>1, OrderOfReads DEF Reads
      <3> DEFINE k == [j EXCEPT !.pc = pc]
      <3>2. k \in Job
        BY DEF Job, Pcs
      <3>3. /\ k.op = j.op /\ k.pc = pc /\ k.prev = j.prev /\ k.hash = j.hash
            /\ k.head = j.head /\ k.upto = j.upto /\ k.ref = j.ref /\ k.cites = j.cites
            /\ k.event = j.event /\ k.len = j.len
        BY DEF Job
      <3>4. Become(w, k)
        BY <1>1, <2>1, <3>1 DEF SetAuditOK, Goto, Become
      <3> HIDE DEF k
      <3>5. JobInv(j)'
        BY <1>2, <1>4, JobStable
      <3>6. Shape(k)' /\ KnowsItsRecord(k)' /\ Alerted(k)'
        BY <2>1, <3>3 DEF Shape, KnowsItsRecord, Alerted, Reads
      <3>7. Refers(k)'
        BY <3>3, <3>5 DEF JobInv, Refers, ResolvedBy
      <3>8. ReadsInOrder(k)'
        BY <2>1, <3>1, <3>3, OrderOfReads DEF ReadsInOrder, Reads
      <3>9. JobInv(k)'
        BY <3>6, <3>7, <3>8 DEF JobInv
      <3>. QED
        BY <3>2, <3>4, <3>9
    <2>2. CASE j.op \notin Reads
      <3>1. Idle \in Job /\ JobInv(Idle)'
        BY <1>4, IdleJob, JobStable DEF IInv
      <3>. QED
        BY <1>1, <2>2, <3>1 DEF SetAuditOK
    <2>. QED
      BY <2>1, <2>2
  <1>6. job' \in [Workers -> Job] /\ \A v \in Workers : JobInv(job[v])'
    BY <1>4, <1>5, OthersKeep DEF IInv
  <1>7. Typed'
    BY <1>3, <1>6 DEF IInv, Typed, Job
  <1>8. BrokenIsAlerted'
    BY <1>2, <1>3 DEF BrokenIsAlerted, JobInv, Alerted
  <1>9. RecentIsLogged'
    <2>1. \A e \in Events : InRecent(e)' => InRecent(e)
      BY <1>3 DEF InRecent
    <2>2. \A e \in Events : ~Logging(job[w], e)
      BY <1>1, <1>2 DEF Logging
    <2>. QED
      BY <1>3, <1>4, <1>5, <2>1, <2>2, LoggedStays DEF IInv, RecentIsLogged
  <1>10. LooksBack' /\ HeadFollows' /\ MutedWereRaised'
    BY <1>3, SameStore DEF IInv, MutedWereRaised
  <1>. QED
    BY <1>6, <1>7, <1>8, <1>9, <1>10 DEF IInv

\* Nothing that the goroutines rely on depends on the alerts being kept or on the
\* rows being readable.
LEMMA AlertsAndRowsKeep ==
    ASSUME IInv, ClearAlerts \/ WindowEnds \/ ChainChanges
    PROVE  IInv'
  <1>1. /\ UNCHANGED <<recent, chain, cached, late, auditOK, job, unlogged, curated, raised>>
        /\ intact' \in BOOLEAN
    BY DEF ClearAlerts, WindowEnds, ChainChanges, IInv, Typed
  <1>2. PICK buf \in Seq(Alert), muted \in SUBSET (Rules \X EventOrNone) :
             alerts = [buf |-> buf, muted |-> muted]
    BY DEF IInv, Typed, Store
  <1>3. alerts' \in Store /\ Len(alerts'.buf) <= MaxAlerts /\ alerts'.muted \subseteq muted
    <2>1. CASE ClearAlerts
      <3>1. alerts' = [buf |-> <<>>, muted |-> {}]
        BY <2>1 DEF ClearAlerts, Clear
      <3>. QED
        BY <3>1, AlertsAssumption, EmptySeq DEF Store
    <2>2. CASE WindowEnds
      <3>1. PICK key : alerts' = [buf |-> buf, muted |-> muted \ {key}]
        BY <1>2, <2>2 DEF WindowEnds, WindowOver
      <3>. QED
        BY <1>2, <3>1 DEF IInv, Typed, Store
    <2>3. CASE ChainChanges
      BY <1>2, <2>3 DEF ChainChanges, IInv, Typed
    <2>. QED
      BY <2>1, <2>2, <2>3
  <1>4. Typed'
    BY <1>1, <1>3 DEF IInv, Typed
  <1>5. MutedWereRaised'
    BY <1>1, <1>2, <1>3 DEF IInv, MutedWereRaised
  <1>6. LooksBack' /\ HeadFollows' /\ BrokenIsAlerted'
    BY <1>1, SameStore DEF IInv, BrokenIsAlerted
  <1>7. RecentIsLogged'
    BY <1>1 DEF IInv, RecentIsLogged, InRecent, LoggedIngest, BeingLogged, Logging
  <1>8. ASSUME NEW w \in Workers
        PROVE  JobInv(job[w])'
    <2>1. PICK j \in Job : j = job[w] /\ j = job'[w]
      BY <1>1 DEF IInv, Typed
    <2>2. JobInv(j)'
      BY <1>1, <2>1, JobStable DEF IInv, Typed, Grows
    <2>. QED
      BY <2>1, <2>2
  <1>. QED
    BY <1>4, <1>5, <1>6, <1>7, <1>8 DEF IInv

\* A record that comes late was written for the place it takes.  The head stays
\* behind from then on, and nothing else can come late.
LEMMA LateCommitKeeps ==
    ASSUME IInv, LateCommit
    PROVE  IInv'
  <1>1. PICK rec \in late : chain' = Append(chain, rec)
    BY DEF LateCommit
  <1>2. /\ late' = {} /\ cached' = cached
        /\ UNCHANGED <<recent, alerts, auditOK, intact, job, unlogged, curated, raised>>
    BY DEF LateCommit
  <1>n. PICK n \in Nat : n = Len(chain)
    BY LenProperties DEF IInv, Typed
  <1>3. /\ rec \in Record /\ cached = n /\ cached \in Nat /\ chain \in Seq(Record)
        /\ rec.ref \in 0 .. Len(chain) \cup {Foreign}
        /\ \A c \in rec.cites : ResolvedBy(c, rec.event, Len(chain))
    BY <1>1, <1>n DEF IInv, Typed, HeadFollows
  <1>4. chain' \in Seq(Record) /\ Len(chain') = n + 1
    BY <1>1, <1>3, <1>n, AppendProperties
  <1>5. Grows
    BY <1>1, <1>2, <1>3 DEF Grows
  <1>6. LooksBack'
    BY <1>1, <1>2, <1>3, AppendLooksBack DEF IInv
  <1>7. HeadFollows'
    <2>1. n <= n + 1 /\ n + 1 <= n + 1
      OBVIOUS
    <2>. QED
      BY <1>2, <1>3, <1>4, <2>1 DEF HeadFollows
  <1>8. Typed'
    BY <1>2, <1>4 DEF IInv, Typed
  <1>9. MutedWereRaised' /\ BrokenIsAlerted'
    BY <1>2 DEF IInv, MutedWereRaised, BrokenIsAlerted
  <1>10. RecentIsLogged'
    <2>1. \A e : LoggedIngest(e) => LoggedIngest(e)'
      BY <1>3, <1>5, GrowsKeeps DEF LoggedIngest
    <2>2. \A e : (InRecent(e)' => InRecent(e)) /\ (BeingLogged(e) => BeingLogged(e)')
      BY <1>2 DEF InRecent, BeingLogged, Logging
    <2>. QED
      BY <1>2, <2>1, <2>2 DEF IInv, RecentIsLogged
  <1>11. ASSUME NEW w \in Workers
         PROVE  JobInv(job[w])'
    <2>1. PICK j \in Job : j = job[w] /\ j = job'[w]
      BY <1>2 DEF IInv, Typed
    <2>2. raised \subseteq raised' /\ JobInv(j)
      BY <1>2, <2>1 DEF IInv
    <2>3. JobInv(j)'
      BY <1>3, <1>5, <2>2, JobStable
    <2>. QED
      BY <2>1, <2>3
  <1>. QED
    BY <1>6, <1>7, <1>8, <1>9, <1>10, <1>11 DEF IInv

\* The startup record says nothing of others.
LEMMA StartupRecord == Startup \in Record /\ Startup.ref = 0 /\ Startup.cites = {}
  BY BlankRecord DEF Startup, Record, RecordKinds, NoHash

\* A gateway whose memory is new and whose head is the table's satisfies the
\* invariant, if its store does.
Fresh ==
    /\ recent = <<>> /\ alerts = [buf |-> <<>>, muted |-> {}] /\ auditOK = TRUE /\ intact \in BOOLEAN
    /\ job = [w \in Workers |-> Idle] /\ unlogged = {} /\ curated = {} /\ raised = {}
    /\ chain \in Seq(Record) /\ cached = Len(chain) /\ late \subseteq Record /\ LooksBack
    /\ \A rec \in late : /\ rec.ref \in 0 .. Len(chain) \cup {Foreign}
                         /\ \A c \in rec.cites : ResolvedBy(c, rec.event, Len(chain))

\* Nothing is relied on yet.
LEMMA FreshIInv == Fresh => IInv
  <1> SUFFICES ASSUME Fresh
               PROVE  IInv
    OBVIOUS
  <1> USE DEF Fresh
  <1>1. PICK n \in Nat : n = Len(chain)
    BY LenProperties
  <1>2. Idle \in Job
    BY EmptySeq DEF Idle, Job, Pcs, EventOrNone, NoHash
  <1>3. Typed
    <2>1. recent \in Seq(Events) /\ Len(recent) <= MaxRecent
      BY GatewayAssumption, EmptySeq
    <2>2. alerts \in Store /\ Len(alerts.buf) <= MaxAlerts
      BY AlertsAssumption, EmptySeq DEF Store
    <2>. QED
      BY <1>1, <1>2, <2>1, <2>2 DEF Typed
  <1>4. HeadFollows
    <2>1. n <= n /\ n <= n + 1
      OBVIOUS
    <2>. QED
      BY <1>1, <2>1 DEF HeadFollows
  <1>5. MutedWereRaised /\ BrokenIsAlerted /\ RecentIsLogged
    BY DEF MutedWereRaised, BrokenIsAlerted, RecentIsLogged, InRecent
  <1>6. JobInv(Idle)
    BY <1>3, IdleJob
  <1>. QED
    BY <1>3, <1>4, <1>5, <1>6 DEF IInv

\* So does a gateway that has been started again, whatever its predecessor was
\* doing, with its startup record or without.
LEMMA RestartKeeps ==
    ASSUME IInv, Restart
    PROVE  IInv'
  <1>1. /\ recent' = <<>> /\ alerts' = [buf |-> <<>>, muted |-> {}] /\ auditOK' = TRUE
        /\ job' = [w \in Workers |-> Idle] /\ unlogged' = {} /\ curated' = {} /\ raised' = {}
        /\ cached' = Len(chain') /\ intact' \in BOOLEAN
    BY DEF Restart, NewStore, IInv, Typed
  <1>2. chain \in Seq(Record) /\ Len(chain) \in Nat /\ Typed /\ LooksBack /\ HeadFollows
    BY LenProperties DEF IInv, Typed
  <1>3. /\ chain' \in Seq(Record) /\ LooksBack' /\ late' \subseteq Record
        /\ (\A rec \in late : /\ rec.ref \in 0 .. Len(chain) \cup {Foreign}
                              /\ \A c \in rec.cites : ResolvedBy(c, rec.event, Len(chain)))'
    <2>1. CASE chain' = Append(chain, Startup) /\ late' = {}
      <3>1. chain' \in Seq(Record)
        BY <1>2, <2>1, StartupRecord, AppendProperties
      <3>2. LooksBack'
        <4>1. Startup.ref \in 0 .. Len(chain) \cup {Foreign}
          BY <1>2, StartupRecord, ZeroInRange
        <4>2. \A c \in Startup.cites : ResolvedBy(c, Startup.event, Len(chain))
          BY StartupRecord
        <4>. QED
          BY <1>2, <2>1, <4>1, <4>2, StartupRecord, AppendLooksBack
      <3>. QED
        BY <2>1, <3>1, <3>2
    <2>2. CASE UNCHANGED chain /\ late' \in SUBSET (late \cup InFlight \cup {Startup})
      <3>1. LooksBack'
        BY <1>2, <2>2, SameChain
      <3>2. ASSUME NEW rec \in late'
            PROVE  /\ rec \in Record /\ rec.ref \in 0 .. Len(chain) \cup {Foreign}
                   /\ \A c \in rec.cites : ResolvedBy(c, rec.event, Len(chain))
        <4>1. CASE rec \in late
          BY <1>2, <4>1 DEF Typed, HeadFollows
        <4>2. CASE rec = Startup
          BY <1>2, <4>2, StartupRecord, ZeroInRange
        <4>3. CASE rec \in InFlight
          <5>1. PICK w \in Workers : At(w, "append") /\ rec = RecordOf(job[w])
            BY <4>3 DEF InFlight
          <5>. QED
            BY <5>1, InFlightFollows
        <4>. QED
          BY <2>2, <4>1, <4>2, <4>3
      <3>. QED
        BY <1>2, <2>2, <3>1, <3>2, SameChain
    <2>. QED
      BY <2>1, <2>2 DEF Restart
  <1>4. Fresh'
    BY <1>1, <1>3 DEF Fresh
  <1>5. Fresh' => IInv'
    BY FreshIInv, PTL
  <1>. QED
    BY <1>4, <1>5

\* A gateway that has just started satisfies the invariant, with its startup
\* record or without.
LEMMA InitIInv == Init => IInv
  <1> SUFFICES ASSUME Init
               PROVE  IInv
    OBVIOUS
  <1>1. PICK first \in {<<>>, <<Startup>>} : chain = first
    BY DEF Init
  <1>2. /\ chain \in Seq(Record)
        /\ \A i \in DOMAIN chain : i = 1 /\ chain[i] = Startup
    <2>1. ASSUME chain = <<>>
          PROVE  chain \in Seq(Record) /\ DOMAIN chain = {}
      BY <2>1, EmptySeq
    <2>2. ASSUME chain = <<Startup>>
          PROVE  /\ chain \in Seq(Record)
                 /\ \A i \in DOMAIN chain : i = 1 /\ chain[i] = Startup
      BY <2>2, StartupRecord
    <2>. QED
      BY <1>1, <2>1, <2>2
  <1>3. LooksBack
    BY <1>2, StartupRecord DEF LooksBack
  <1>4. late \subseteq {Startup} /\ cached = Len(chain) /\ 0 \in 0 .. Len(chain)
    BY <1>2, LenProperties, ZeroInRange DEF Init
  <1>5. /\ recent = <<>> /\ alerts = [buf |-> <<>>, muted |-> {}] /\ auditOK = TRUE /\ intact = TRUE
        /\ job = [w \in Workers |-> Idle] /\ unlogged = {} /\ curated = {} /\ raised = {}
    BY DEF Init, NewStore
  <1>. QED
    BY <1>2, <1>3, <1>4, <1>5, StartupRecord, FreshIInv DEF Fresh

\* Every step keeps the invariant.
LEMMA NextIInv == IInv /\ [Next]_gwVars => IInv'
  <1> SUFFICES ASSUME IInv, [Next]_gwVars
               PROVE  IInv'
    OBVIOUS
  <1>1. ASSUME NEW w \in Workers, StartAny(w)
        PROVE  IInv'
    BY <1>1, StartKeeps
  <1>2. ASSUME NEW w \in Workers, Step(w)
        PROVE  IInv'
    <2>1. CASE AddRecent(w)
      BY <2>1, AddRecentKeeps
    <2>2. CASE AddCurated(w)
      BY <2>2, AddCuratedKeeps
    <2>3. CASE FindPrecedents(w)
      BY <2>3, FindPrecedentsKeeps
    <2>4. CASE Decide(w)
      BY <2>4, DecideKeeps
    <2>5. CASE AppendOk(w)
      BY <2>5, AppendOkKeeps
    <2>6. CASE AppendFails(w)
      BY <2>6, AppendFailsKeeps
    <2>7. CASE RaiseNext(w)
      BY <2>7, RaiseNextKeeps
    <2>8. CASE Verify(w)
      BY <2>8, VerifyKeeps
    <2>9. CASE ReadAuditOK(w)
      BY <2>9, ReadAuditOKKeeps
    <2>10. CASE RaiseBroken(w)
      BY <2>10, RaiseBrokenKeeps
    <2>11. CASE SetAuditOK(w)
      BY <2>11, SetAuditOKKeeps
    <2>12. CASE ReadHead(w)
      BY <2>12, ReadHeadKeeps
    <2>13. CASE ReadRecords(w)
      BY <2>13, ReadRecordsKeeps
    <2>14. CASE Reply(w)
      BY <2>14, ReplyKeeps
    <2>15. CASE Broadcast(w)
      BY <2>15, BroadcastKeeps
    <2>16. CASE BroadcastPanics(w)
      BY <2>16, BroadcastPanicsKeeps
    <2>17. CASE AppendTimesOut(w)
      BY <2>17, AppendTimesOutKeeps
    <2>. QED
      BY <1>2, <2>1, <2>2, <2>3, <2>4, <2>5, <2>6, <2>7, <2>8, <2>9, <2>10, <2>11, <2>12,
         <2>13, <2>14, <2>15, <2>16, <2>17 DEF Step
  <1>3. CASE Environment
    BY <1>3, AlertsAndRowsKeep, LateCommitKeeps DEF Environment
  <1>5. CASE Restart
    BY <1>5, RestartKeeps
  <1>4. CASE UNCHANGED gwVars
    <2>1. UNCHANGED <<recent, chain, cached, late, alerts, auditOK, intact, job, unlogged, curated, raised>>
      BY <1>4 DEF gwVars
    <2>2. Typed' /\ MutedWereRaised' /\ BrokenIsAlerted'
      BY <2>1 DEF IInv, Typed, MutedWereRaised, BrokenIsAlerted
    <2>3. LooksBack' /\ HeadFollows'
      BY <2>1, SameStore DEF IInv
    <2>4. RecentIsLogged'
      BY <2>1 DEF IInv, RecentIsLogged, InRecent, LoggedIngest, BeingLogged, Logging
    <2>5. ASSUME NEW w \in Workers
          PROVE  JobInv(job[w])'
      <3>1. PICK j \in Job : j = job[w] /\ j = job'[w]
        BY <2>1 DEF IInv, Typed
      <3>2. JobInv(j)'
        BY <2>1, <3>1, JobStable DEF IInv, Typed, Grows
      <3>. QED
        BY <3>1, <3>2
    <2>. QED
      BY <2>2, <2>3, <2>4, <2>5 DEF IInv
  <1>. QED
    BY <1>1, <1>2, <1>3, <1>4, <1>5 DEF Next

\* The inductive invariant holds of every reachable state of the gateway.
THEOREM Invariance == Spec => []IInv
  BY InitIInv, NextIInv, PTL DEF Spec
-----------------------------------------------------------------------------
\* Every variable has its type; recent and the alerts stay within their bounds
\* and no job holds the hash of a record that is not there.
THEOREM TypeCorrect == Spec => []TypeOK
  <1>1. IInv => TypeOK
    <2> SUFFICES ASSUME IInv
                 PROVE  TypeOK
      OBVIOUS
    <2>1. chain \in Seq(Record) /\ DOMAIN chain = 1 .. Len(chain) /\ Len(chain) \in Nat
      BY LenProperties DEF IInv, Typed
    <2>2. ASSUME NEW i \in DOMAIN chain
          PROVE  /\ chain[i].event \in Events \cup {NoEvent}
                 /\ chain[i].ref \in 0 .. i - 1 \cup {Foreign}
                 /\ chain[i].cites \subseteq 1 .. i - 1
      <3>1. chain[i] \in Record
        BY <2>1, ElementOfSeq
      <3>2. ASSUME NEW c \in chain[i].cites
            PROVE  c \in 1 .. i - 1
        <4>1. ResolvedBy(c, chain[i].event, i - 1)
          BY <3>2 DEF IInv, LooksBack
        <4>2. c \in 1 .. Len(chain) /\ \E a \in c + 1 .. i - 1 : TRUE
          BY <2>1, <4>1 DEF ResolvedBy, Decisions
        <4>. QED
          BY <2>1, <4>2
      <3>. QED
        BY <3>1, <3>2 DEF Record, EventOrNone, IInv, LooksBack
    <2>3. ASSUME NEW w \in Workers
          PROVE  /\ {job[w].prev, job[w].hash, job[w].head} \subseteq Hash
                 /\ job[w].upto <= Len(chain) /\ job[w].cites \subseteq Hash
      <3>1. PICK j \in Job : j = job[w] /\ Refers(j)
        BY DEF IInv, Typed, JobInv
      <3>2. {j.prev, j.hash, j.head} \subseteq Hash
        <4>1. j.prev \in Nat /\ j.hash \in Nat /\ j.head \in Nat
          BY DEF Job
        <4>2. j.prev <= Len(chain) /\ j.hash <= Len(chain) /\ j.head <= Len(chain)
          BY <3>1 DEF Refers
        <4>. QED
          BY <2>1, <4>1, <4>2 DEF Hash
      <3>3. \A c \in j.cites : c \in DOMAIN chain
        BY <3>1 DEF Refers, ResolvedBy, Decisions
      <3>. QED
        BY <2>1, <3>1, <3>2, <3>3 DEF Refers, Hash
    <2>4. cached \in Hash
      BY <2>1 DEF Hash, IInv, Typed, HeadFollows
    <2>. QED
      BY <2>2, <2>3, <2>4 DEF TypeOK, IInv, Typed, Store
  <1>. QED
    BY <1>1, Invariance, PTL

\* An event an operator can ask about was ingested on the record or is on its way
\* to it, unless its Append failed, its broadcast panicked or it came in a curated
\* digest: through restarts, and however long a broadcast takes.
THEOREM IngestsAreLogged == Spec => []RecentIsLogged
  <1>1. IInv => RecentIsLogged
    BY DEF IInv
  <1>. QED
    BY <1>1, Invariance, PTL

\* The answer to a suggestion cites the record that holds its event, outcome and
\* precedents, whatever other handlers appended in between.
THEOREM SuggestionsKnowTheirRecord == Spec => []SuggestionIsItsRecord
  <1>1. IInv => SuggestionIsItsRecord
    BY DEF IInv, JobInv, KnowsItsRecord, SuggestionIsItsRecord, Surfaced, At
  <1>. QED
    BY <1>1, Invariance, PTL

\* A recorded suggestion cites passed decisions about a like event that an
\* operator had resolved before it.
THEOREM CitationsWereResolved == Spec => []CitedWereResolved
  <1>1. IInv => CitedWereResolved
    BY DEF IInv, LooksBack, ResolvedBy, CitedWereResolved
  <1>. QED
    BY <1>1, Invariance, PTL

\* The head and the records of an export, and the length and the head of a health
\* answer, are those of prefixes of one chain in the order they were read, but for
\* the one record that a cached head may be behind after an INSERT committed late.
THEOREM ExportsCohere == Spec => []ExportCoherent
  <1>1. IInv => Behind \in {0, 1}
    <2> SUFFICES ASSUME IInv
                 PROVE  Behind \in {0, 1}
      OBVIOUS
    <2>1. PICK n \in Nat : n = Len(chain)
      BY LenProperties DEF IInv, Typed
    <2>2. cached \in Nat /\ cached <= n /\ n <= cached + 1
      BY <2>1 DEF IInv, Typed, HeadFollows
    <2>3. n - cached \in {0, 1}
      BY <2>2
    <2>. QED
      BY <2>1, <2>3 DEF Behind
  <1>2. IInv => ExportCoherent
    BY <1>1 DEF IInv, JobInv, ReadsInOrder, ExportCoherent, At
  <1>. QED
    BY <1>2, Invariance, PTL

\* auditOK is false, and a suggestion for review is answered, only after the
\* operator's alert was raised, whatever its dedupe window and whoever raised it.
THEOREM CriticalAlerts == Spec => []CriticalIsAlerted
  <1>1. IInv => CriticalIsAlerted
    BY DEF IInv, JobInv, BrokenIsAlerted, Alerted, CriticalIsAlerted, Surfaced, At
  <1>. QED
    BY <1>1, Invariance, PTL
=============================================================================
