------------------------------- MODULE Gateway -------------------------------
(***************************************************************************)
(* cmd/api-gateway: the goroutines that serve HTTP requests and the three  *)
(* Kafka consumers, over the state they share: the recent events, the      *)
(* audit store, the alerts and the last verification result.  Each of the  *)
(* four has a lock of its own (auditOK has none), and no lock is held from *)
(* one call to the next, so a handler is a sequence of steps, one for each *)
(* call, that other handlers interleave with.                              *)
(*                                                                         *)
(* The chain is that of AuditChain or PgAudit seen through its interface:  *)
(* Append adds a record or fails, the i-th record has hash i (AuditChain!  *)
(* Intact), the empty hash is 0.  An INSERT that timed out may commit      *)
(* later, behind the back of the store's cached head (PgAudit!LateCommit); *)
(* the gateway is the only writer of its tenant.  What a broadcast does to *)
(* the connections is in Hub: here it returns, panics or never ends.       *)
(***************************************************************************)
EXTENDS AlertStore, Precedents

CONSTANTS Workers,        \* goroutines: request handlers and Kafka consumers
          Ops,            \* the endpoints and topics in use
          MaxRecent,      \* server.maxRecent
          Elevated,       \* the events of severity warn and above
          Statuses,       \* the guardrail outcomes a decision may have
          MaxPrecedents,  \* max_precedents of a request
          Digests,        \* the curated digests that Kafka may deliver
          DigestDrifts,   \* the lists of digest rules a selection may break, in their order
          Foreign,        \* a hash that is not that of a passed decision of this chain
          StoreMayFail    \* TRUE of the Postgres store, FALSE of the in-memory chain

VARIABLES recent,     \* server.recent
          chain,      \* the records of the audit store
          cached,     \* the head in the store's memory, the number of its last record
          late,       \* records an INSERT that was given up may still add after the last
          alerts,     \* server.alerts
          auditOK,    \* server.auditOK
          intact,     \* what Verify answers: the rows are readable and form a chain
          job,        \* what each goroutine is doing
          unlogged,   \* events whose ingest Append failed, or was not reached after a panic
          curated,    \* events that came in a curated digest
          raised      \* dedupe keys of the alerts under MustAlert ever buffered

gwVars == <<recent, chain, cached, late, alerts, auditOK, intact, job, unlogged, curated, raised>>

NoHash == 0
HeadHash == cached
Behind == Len(chain) - cached    \* the records that the cached head does not cover

Blank == [kind |-> "", event |-> NoEvent, status |-> "", ref |-> NoHash,
          action |-> "", cites |-> {}]
Startup == [Blank EXCEPT !.kind = "system"]
IngestRecord(e) == [Blank EXCEPT !.kind = "ingest", !.event = e]

\* The kind under which Decide and SuggestWithPrecedents record an outcome.
DecisionKind(op, status) ==
    CASE status = "pass" /\ op = "suggest" -> "decision"
      [] status = "pass" /\ op = "suggest-precedents" -> "decision_with_precedents"
      [] OTHER -> "decision_" \o status

\* A job's op is its handler, pc the call it makes next, the rest its locals.
Idle == [op |-> "", pc |-> "idle", event |-> NoEvent, status |-> "", review |-> FALSE,
         prev |-> NoHash, hash |-> NoHash, ref |-> NoHash, action |-> "", cites |-> {},
         todo |-> <<>>, valid |-> TRUE, upto |-> 0, head |-> NoHash, len |-> 0]

Consumers == {"raw", "decision"}
Ingests == {"post"} \cup Consumers
Suggestions == {"suggest", "suggest-precedents"}
Reads == {"export", "health"}
Handlers == Ingests \cup {"curated", "digest", "resolve"} \cup Suggestions \cup Reads

ASSUME GatewayAssumption ==
    /\ MaxRecent \in Nat \ {0}
    /\ Elevated \subseteq Events
    /\ Statuses \subseteq {"pass", "rejected_input", "provider_error", "rejected_output"}
    /\ MaxPrecedents \in Int
    /\ Ops \subseteq Handlers
    /\ Digests \subseteq Seq(Events) \ {<<>>}
    /\ DigestDrifts \subseteq Seq(DigestRules)
    /\ Foreign \notin Int
    /\ StoreMayFail \in BOOLEAN

At(w, pc) == job[w].pc = pc
Goto(w, pc) == job' = [job EXCEPT ![w].pc = pc]
Become(w, j) == job' = [job EXCEPT ![w] = j]
Start(w, op, pc, e) == Become(w, [Idle EXCEPT !.op = op, !.pc = pc, !.event = e])

\* The rules whose alert the properties wait for.
MustAlert == {"operator.review_required", "platform.audit_chain_invalid"}

Raise(a) == /\ alerts' = Add(alerts, a)
            /\ raised' = IF a.rule \in MustAlert /\ dedupeKey(a) \notin alerts.muted
                         THEN raised \cup {dedupeKey(a)} ELSE raised

InRecent(e) == \E i \in DOMAIN recent : recent[i] = e
-----------------------------------------------------------------------------
\* newServer, and the startup record, whose error main ignores.
Init == /\ recent = <<>>
        /\ \/ chain = <<Startup>> /\ late = {}
           \/ StoreMayFail /\ chain = <<>> /\ late \in SUBSET {Startup}
        /\ cached = Len(chain)
        /\ alerts = NewStore
        /\ auditOK = TRUE
        /\ intact = TRUE
        /\ job = [w \in Workers |-> Idle]
        /\ unlogged = {} /\ curated = {} /\ raised = {}

\* A message or request arrives.  handleEvents and handleWebhook ("post") and
\* OnRawEvent ("raw") ingest their event; OnDecision ("decision") ingests again
\* the event its decision is about, if findEvent finds it; OnCurated adds the
\* events of a digest one by one; the operator endpoints find their event
\* first, or answer 404.
StartIngest(w, e, op) == At(w, "idle") /\ Start(w, op, "add", e)
StartDecision(w, e) == At(w, "idle") /\ InRecent(e) /\ Start(w, "decision", "add", e)
StartCurated(w, events) ==
    At(w, "idle") /\ Become(w, [Idle EXCEPT !.op = "curated", !.pc = "addCurated", !.todo = events])
StartSuggest(w, e, op) ==
    /\ At(w, "idle") /\ InRecent(e)
    /\ Start(w, op, IF op = "suggest" THEN "decide" ELSE "match", e)
\* handleDigest selects from a snapshot of recent and has the rules it breaks.
StartDigest(w, rules) ==
    At(w, "idle") /\ Become(w, [Idle EXCEPT !.op = "digest", !.pc = "append", !.todo = rules])
\* handleOperatorResolve: the hash and the event are the client's, not looked up.
StartResolve(w, e, ref, action) ==
    At(w, "idle") /\ Become(w, [Idle EXCEPT !.op = "resolve", !.pc = "append", !.event = e,
                                            !.ref = ref, !.action = action])
\* handleOperatorExport and handleAudit ("export"), handleHealth ("health").
StartRead(w, op) == At(w, "idle") /\ Start(w, op, "verify", NoEvent)

StartAny(w) ==
    /\ \/ \E e \in Events, op \in Ops \cap {"post", "raw"} : StartIngest(w, e, op)
       \/ \E e \in Events : "decision" \in Ops /\ StartDecision(w, e)
       \/ \E events \in Digests : "curated" \in Ops /\ StartCurated(w, events)
       \/ \E e \in Events, op \in Ops \cap Suggestions : StartSuggest(w, e, op)
       \/ \E rules \in DigestDrifts : "digest" \in Ops /\ StartDigest(w, rules)
       \/ \E e \in Events, action \in OperatorActions, ref \in Decisions(chain) \cup {Foreign} :
             "resolve" \in Ops /\ StartResolve(w, e, ref, action)
       \/ \E op \in Ops \cap Reads : StartRead(w, op)
    /\ UNCHANGED <<recent, chain, cached, late, alerts, auditOK, intact, unlogged, curated, raised>>
-----------------------------------------------------------------------------
\* addRecent; ingestEvent goes on to broadcast, but not for OnDecision, and then
\* to append.  Slips: no bound; the event of a raw message is kept, not recorded.
AppendedUnbounded(e) == Append(recent, e)
Appended(e) ==
    LET longer == Append(recent, e)
    IN  IF Len(longer) > MaxRecent THEN Tail(longer) ELSE longer

AfterAddOnly(op) == IF op = "raw" THEN "idle" ELSE "append"
AfterAdd(op) == IF op = "decision" THEN "append" ELSE "broadcast"

AddRecent(w) ==
    /\ At(w, "add")
    /\ recent' = Appended(job[w].event)
    /\ Goto(w, AfterAdd(job[w].op))
    /\ UNCHANGED <<chain, cached, late, alerts, auditOK, intact, unlogged, curated, raised>>

\* BroadcastJSON writes to every connection of the hub.  It may never return, on
\* a peer that reads nothing, and a write beside another one on its connection
\* panics (Hub!WritePanics): net/http ends the handler and the gateway runs on,
\* the event in recent; in a Kafka consumer the process ends (Restart).  When
\* the hub lets that happen is left open.
Broadcast(w) ==
    /\ At(w, "broadcast")
    /\ Goto(w, "append")
    /\ UNCHANGED <<recent, chain, cached, late, alerts, auditOK, intact, unlogged, curated, raised>>
BroadcastPanics(w) ==
    /\ At(w, "broadcast") /\ job[w].op = "post"
    /\ Become(w, Idle)
    /\ unlogged' = unlogged \cup {job[w].event}
    /\ UNCHANGED <<recent, chain, cached, late, alerts, auditOK, intact, curated, raised>>

AddCurated(w) ==
    LET j == job[w]
    IN  /\ At(w, "addCurated")
        /\ recent' = Appended(Head(j.todo))
        /\ curated' = curated \cup {Head(j.todo)}
        /\ IF Len(j.todo) = 1 THEN Become(w, Idle)
           ELSE Become(w, [j EXCEPT !.todo = Tail(@)])
        /\ UNCHANGED <<chain, cached, late, alerts, auditOK, intact, unlogged, raised>>

\* Snapshot of the Postgres store hides its errors: the caller gets the rows
\* read so far, the first n, and cannot tell.
SnapshotLens == IF StoreMayFail THEN 0 .. Len(chain) ELSE {Len(chain)}

\* SuggestWithPrecedents reads the matches from a snapshot of the chain, and
\* calls the model before it appends.
FindPrecedents(w) ==
    /\ At(w, "match")
    /\ \E n \in SnapshotLens : \E out \in FindMatches(SubSeq(chain, 1, n), job[w].event, MaxPrecedents) :
          Become(w, [job[w] EXCEPT !.pc = "decide",
                                   !.cites = {chain[out[i]].ref : i \in DOMAIN out}])
    /\ UNCHANGED <<recent, chain, cached, late, alerts, auditOK, intact, unlogged, curated, raised>>

\* Guardrails and model: the outcome, whether the operator must review it, and
\* then AuditChainPrev, from a HeadHash call of its own.
Decide(w) ==
    /\ At(w, "decide")
    /\ \E status \in Statuses, review \in BOOLEAN :
          /\ status # "pass" => review
          /\ Become(w, [job[w] EXCEPT !.pc = "append", !.status = status,
                                      !.review = review, !.prev = HeadHash])
    /\ UNCHANGED <<recent, chain, cached, late, alerts, auditOK, intact, unlogged, curated, raised>>

\* What a job appends to the chain.
RecordOf(j) ==
    CASE j.op \in Ingests -> IngestRecord(j.event)
      [] j.op = "digest" -> [Blank EXCEPT !.kind = "digest_selection"]
      [] j.op = "resolve" ->
            [Blank EXCEPT !.kind = "operator_action", !.ref = j.ref, !.action = j.action]
      [] OTHER ->
            [Blank EXCEPT !.kind = DecisionKind(j.op, j.status), !.event = j.event,
                          !.status = j.status,
                          !.cites = IF j.status = "pass" THEN j.cites ELSE {}]

\* The alerts a handler raises once its Append has returned.
AlertsOf(j) ==
    CASE j.op \in Ingests -> IF j.event \in Elevated THEN <<IngestAlert(j.event)>> ELSE <<>>
      [] j.op = "digest" -> [i \in DOMAIN j.todo |-> DigestAlert(j.todo[i])]
      [] j.op = "resolve" -> <<ResolutionAlert(j.event, j.action)>>
      [] OTHER -> IF j.review THEN <<ReviewAlert(j.event)>> ELSE <<>>

\* The alerts still to raise, then the verification, of which the consumers have
\* none; but for a suggestion the answer is complete and the locals are dropped.
Alerting(j, todo) ==
    CASE todo # <<>> -> [j EXCEPT !.pc = "alert", !.todo = todo]
      [] todo = <<>> /\ j.op \in Consumers -> Idle
      [] todo = <<>> /\ j.op \in Suggestions -> [j EXCEPT !.pc = "verify", !.todo = <<>>]
      [] OTHER -> [Idle EXCEPT !.op = "answer", !.pc = "verify"]

NoteUnlogged(j) ==
    unlogged' = IF j.op \in Ingests THEN unlogged \cup {j.event} ELSE unlogged

\* Append under Store.mu: the number after the cached head is free, and the INSERT
\* succeeds.  Nobody reads the head between the commit and the cache's update.
\* Slip: the prev of a decision is read after its record is in the chain.
AppendThenReadHead(w) ==
    LET j == [job[w] EXCEPT !.hash = Len(chain) + 1, !.prev = Len(chain) + 1]
    IN  /\ At(w, "append") /\ cached = Len(chain)
        /\ chain' = Append(chain, RecordOf(job[w])) /\ cached' = Len(chain) + 1 /\ late' = {}
        /\ Become(w, Alerting(j, AlertsOf(j)))
        /\ UNCHANGED <<recent, alerts, auditOK, intact, unlogged, curated, raised>>

AppendOk(w) ==
    LET j == [job[w] EXCEPT !.hash = Len(chain) + 1]
    IN  /\ At(w, "append") /\ cached = Len(chain)
        /\ chain' = Append(chain, RecordOf(job[w])) /\ cached' = Len(chain) + 1 /\ late' = {}
        /\ Become(w, Alerting(j, AlertsOf(j)))
        /\ UNCHANGED <<recent, alerts, auditOK, intact, unlogged, curated, raised>>

\* Append returns an error.  Only handleOperatorResolve looks at it (and answers
\* 400); everyone else goes on, a decision with an empty hash.
Unappended(w) ==
    /\ StoreMayFail /\ At(w, "append")
    /\ Become(w, IF job[w].op = "resolve" THEN Idle
                 ELSE Alerting(job[w], AlertsOf(job[w])))
    /\ NoteUnlogged(job[w])
    /\ UNCHANGED <<recent, chain, cached, alerts, auditOK, intact, curated, raised>>

\* The INSERT was refused, and always is when its number is taken; or the ten
\* seconds were over and its row may still come.
AppendFails(w) == Unappended(w) /\ UNCHANGED late
AppendTimesOut(w) ==
    /\ Unappended(w)
    /\ cached = Len(chain) /\ late' = late \cup {RecordOf(job[w])}

RaiseNext(w) ==
    /\ At(w, "alert")
    /\ Raise(Head(job[w].todo))
    /\ Become(w, Alerting(job[w], Tail(job[w].todo)))
    /\ UNCHANGED <<recent, chain, cached, late, auditOK, intact, unlogged, curated>>
-----------------------------------------------------------------------------
\* chain.Verify, then observeAudit: unless the chain is valid auditOK is read
\* and the alert raised, then auditOK is written, each a step of its own that
\* nothing protects.
Verify(w) ==
    /\ At(w, "verify")
    /\ Become(w, [Idle EXCEPT !.pc = IF intact THEN "set" ELSE "observe", !.valid = intact,
                              !.op = IF job[w].op \in Reads THEN job[w].op ELSE "answer",
                              !.upto = IF job[w].op \in Reads THEN Len(chain) ELSE 0])
    /\ UNCHANGED <<recent, chain, cached, late, alerts, auditOK, intact, unlogged, curated, raised>>

ReadAuditOKInverted(w) ==      \* slip: only a chain already known broken alerts
    /\ At(w, "observe")
    /\ Goto(w, IF auditOK THEN "set" ELSE "raise")
    /\ UNCHANGED <<recent, chain, cached, late, alerts, auditOK, intact, unlogged, curated, raised>>
ReadAuditOK(w) ==
    /\ At(w, "observe")
    /\ Goto(w, IF auditOK THEN "raise" ELSE "set")
    /\ UNCHANGED <<recent, chain, cached, late, alerts, auditOK, intact, unlogged, curated, raised>>

RaiseBroken(w) ==
    /\ At(w, "raise")
    /\ Raise(AuditBrokenAlert)
    /\ Goto(w, "set")
    /\ UNCHANGED <<recent, chain, cached, late, auditOK, intact, unlogged, curated>>

\* The export reads the head and then the records, health the length and then
\* the head, each under the lock of its own call.  Slip: the other order.
ReadOrderSwapped(op) == IF op = "export" THEN <<"records", "head">> ELSE <<"head", "records">>
ReadOrder(op) == IF op = "export" THEN <<"head", "records">> ELSE <<"records", "head">>
AfterRead(op, pc) == IF pc = ReadOrder(op)[1] THEN ReadOrder(op)[2] ELSE "reply"

SetAuditOK(w) ==
    /\ At(w, "set")
    /\ auditOK' = job[w].valid
    /\ IF job[w].op \in Reads THEN Goto(w, ReadOrder(job[w].op)[1]) ELSE Become(w, Idle)
    /\ UNCHANGED <<recent, chain, cached, late, alerts, intact, unlogged, curated, raised>>

ReadHead(w) ==
    /\ At(w, "head")
    /\ Become(w, [job[w] EXCEPT !.head = HeadHash, !.pc = AfterRead(job[w].op, "head")])
    /\ UNCHANGED <<recent, chain, cached, late, alerts, auditOK, intact, unlogged, curated, raised>>
\* A failed read of the Postgres store gives too few records, or length 0.
TooFew == -1
ReadRecords(w) ==
    /\ At(w, "records")
    /\ \E len \in {Len(chain)} \cup (IF StoreMayFail THEN {TooFew} ELSE {}) :
          Become(w, [job[w] EXCEPT !.len = len, !.pc = AfterRead(job[w].op, "records")])
    /\ UNCHANGED <<recent, chain, cached, late, alerts, auditOK, intact, unlogged, curated, raised>>

Reply(w) ==
    /\ At(w, "reply")
    /\ Become(w, Idle)
    /\ UNCHANGED <<recent, chain, cached, late, alerts, auditOK, intact, unlogged, curated, raised>>
-----------------------------------------------------------------------------
\* DELETE /api/v1/alerts; a dedupe window ends; rows of the Postgres store are
\* altered (not the hash of the last) or unreadable, or are restored.
ClearAlerts ==
    /\ alerts' = Clear(alerts)
    /\ UNCHANGED <<recent, chain, cached, late, auditOK, intact, job, unlogged, curated, raised>>
WindowEnds ==
    /\ \E key \in alerts.muted : alerts' = WindowOver(alerts, key)
    /\ UNCHANGED <<recent, chain, cached, late, auditOK, intact, job, unlogged, curated, raised>>
ChainChanges ==
    /\ StoreMayFail
    /\ intact' = ~intact
    /\ UNCHANGED <<recent, chain, cached, late, alerts, auditOK, job, unlogged, curated, raised>>

\* An INSERT that was given up commits.  The others had the same number.
LateCommit ==
    /\ \E rec \in late : chain' = Append(chain, rec)
    /\ late' = {}
    /\ UNCHANGED <<recent, cached, alerts, auditOK, intact, job, unlogged, curated, raised>>

\* The process ends, by a panic in a consumer or otherwise, and main runs again:
\* the store reads its head from the table and the startup record is appended or
\* not.  The INSERT under way may commit later.  (The in-memory chain is lost
\* with the process: that is Init.)
InFlight == IF Behind = 0 THEN {RecordOf(job[w]) : w \in {v \in Workers : At(v, "append")}} ELSE {}
Restart ==
    /\ StoreMayFail
    /\ \/ chain' = Append(chain, Startup) /\ late' = {}
       \/ UNCHANGED chain /\ late' \in SUBSET (late \cup InFlight \cup {Startup})
    /\ cached' = Len(chain')
    /\ recent' = <<>> /\ alerts' = NewStore /\ auditOK' = TRUE
    /\ job' = [w \in Workers |-> Idle]
    /\ unlogged' = {} /\ curated' = {} /\ raised' = {}
    /\ UNCHANGED intact

Step(w) == \/ AddRecent(w) \/ AddCurated(w)
           \/ Broadcast(w) \/ BroadcastPanics(w)
           \/ FindPrecedents(w) \/ Decide(w)
           \/ AppendOk(w) \/ AppendFails(w) \/ AppendTimesOut(w)
           \/ RaiseNext(w)
           \/ Verify(w) \/ ReadAuditOK(w) \/ RaiseBroken(w) \/ SetAuditOK(w)
           \/ ReadHead(w) \/ ReadRecords(w) \/ Reply(w)

Environment == ClearAlerts \/ WindowEnds \/ ChainChanges \/ LateCommit

Next == \/ \E w \in Workers : StartAny(w) \/ Step(w)
        \/ Environment
        \/ Restart

Spec == Init /\ [][Next]_gwVars
-----------------------------------------------------------------------------
Hash == 0 .. Len(chain)

\* Every variable has its type; no buffer is longer than its bound, no job holds
\* the hash of a record that is not there, and the cached head is not ahead.
TypeOK ==
    /\ recent \in Seq(Events) /\ Len(recent) <= MaxRecent
    /\ \A i \in DOMAIN chain : /\ chain[i].event \in Events \cup {NoEvent}
                              /\ chain[i].ref \in 0 .. i - 1 \cup {Foreign}
                              /\ chain[i].cites \subseteq 1 .. i - 1
    /\ cached \in Hash
    /\ alerts.buf \in Seq(Alert) /\ Len(alerts.buf) <= MaxAlerts
    /\ \A w \in Workers : /\ {job[w].prev, job[w].hash, job[w].head} \subseteq Hash
                         /\ job[w].upto <= Len(chain) /\ job[w].cites \subseteq Hash
    /\ unlogged \cup curated \subseteq Events

\* An event an operator can ask about was ingested on the record or is on its
\* way to it, however long its broadcast takes.  The holes are three: its Append
\* failed, its broadcast panicked in a request handler (both are unlogged), or it
\* came in a curated digest.  No interleaving of requests and Kafka messages
\* makes another (PRD.md:674, kind "ingest").
LoggedIngest(e) == \E i \in DOMAIN chain : chain[i] = IngestRecord(e)
Logging(j, e) == j.op \in Ingests /\ j.pc \in {"broadcast", "append"} /\ j.event = e
BeingLogged(e) == \E w \in Workers : Logging(job[w], e)
RecentIsLogged ==
    \A e \in Events : InRecent(e) =>
        LoggedIngest(e) \/ BeingLogged(e) \/ e \in unlogged \cup curated

\* The answer to a suggestion cites its own record: the one that holds its
\* event, outcome and precedents, and that follows the head it calls its prev,
\* whatever other handlers appended in between.
Surfaced(w) == job[w].op \in Suggestions /\ At(w, "verify")
SuggestionIsItsRecord ==
    \A w \in Workers : Surfaced(w) /\ job[w].hash # NoHash =>
        /\ chain[job[w].hash] = RecordOf(job[w])
        /\ job[w].prev < job[w].hash

\* The precedents a recorded suggestion cites are earlier passed decisions
\* about a like event that an operator had resolved before it, although the
\* chain grew between the look-up and the record.
CitedWereResolved ==
    \A i \in DOMAIN chain : \A c \in chain[i].cites :
        /\ c \in Decisions(chain)
        /\ DimsOf[chain[c].event] = DimsOf[chain[i].event]
        /\ \E a \in c + 1 .. i - 1 : chain[a].kind = "operator_action" /\ chain[a].ref = c

\* The head and the records of an export come from two calls: unless a read
\* failed the head is that of a prefix of the records, which contains all that
\* was verified but for the records the cached head is behind by, and in the
\* health answer the length is that of a prefix of what the head covers, but for
\* those.  They are none, or the one that came late since the process started:
\* no second one follows, for the number the store tries next stays taken.
ExportCoherent ==
    /\ Behind \in {0, 1}
    /\ \A w \in Workers : LET j == job[w] IN At(w, "reply") /\ j.len # TooFew =>
          /\ j.op = "export" => j.upto <= j.head + Behind /\ j.head <= j.len
          /\ j.op = "health" => j.upto <= j.len /\ j.len <= j.head + Behind

\* What the gateway holds to be wrong an operator was told of: the critical alert
\* was raised when auditOK is false, however verifications raced, and that of a
\* suggestion that needs review before the suggestion is answered.
CriticalIsAlerted ==
    /\ ~auditOK => dedupeKey(AuditBrokenAlert) \in raised
    /\ \A w \in Workers : Surfaced(w) /\ job[w].review =>
          dedupeKey(ReviewAlert(job[w].event)) \in raised

\* "Audit log write failure: synchronous write check, block decision pathway"
\* (ARCHITECTURE.md:257): no suggestion is surfaced without its record.
LoggedBeforeSurfaced == \A w \in Workers : Surfaced(w) => job[w].hash # NoHash
=============================================================================
