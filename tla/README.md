# FluxLens in TLA+

TLA+ modules of the concurrent and durable core of FluxLens, the TLC
configurations that check them on small instances, and proofs, checked by TLAPS,
of what holds for every instance. Paths are relative to the repository root
(`src/...` in `PROJECT.json`). The `map` of `PROJECT.json` names the source
lines behind every definition.

## 1. The system

Change-data-capture connectors and webhooks publish canonical events to Kafka;
the **curator** selects a digest per window; the **orchestrator** asks a model
for a decision on each selected event; the **api-gateway** shows events, digests
and decisions to operators over HTTP and WebSocket, runs suggestions of its own
and records what operators do. Everything of consequence is appended to a
hash-chained **audit log**, in memory or in Postgres.

| Component (source) | State | Operations | Hard behaviours | What makes it correct |
|---|---|---|---|---|
| Audit chain (`internal/auditlog/chain.go`) | records, cached head hash, next number, one mutex | Append; Verify, Len, HeadHash, Snapshot | long runs that keep three fields in step | always verifies; append-only; an edit or removal is noticed |
| Postgres store (`internal/auditlog/postgres/store.go`, `deploy/postgres-init`) | one table for all tenants; per process: cached head, next number, mutex | Open/loadHead, Append with a 10 s deadline, Verify, Snapshot, Len | several writers, ambiguous INSERTs, crash and reopen, column types that change values | one chain whatever fails; acknowledged records stay |
| Gateway (`cmd/api-gateway`) | `recent` ring, audit store, alerts, `auditOK`, hub | nine endpoints, three Kafka callbacks | a handler is a sequence of calls with no lock between them; store errors dropped | answers agree with the log; alerts agree with the log; what is in the buffer is on the record but for known holes |
| Orchestrator library (`internal/orchestrator`) | none of its own (appends to the chain) | Decide, SuggestWithPrecedents, RecordOperatorAction | HeadHash and Append apart, model call between read and append | logged before surfaced; cited precedents are real |
| Precedents (`internal/precedents`) | none (reads a snapshot) | FindMatches | unstable sort before a cap | only matching, resolved, passed decisions |
| Alerts (`internal/alerts`) | ring, last time per dedupe key | Add, Clear, Snapshot, rules | dedupe window against repeated causes | first alert of a cause gets through |
| Hub (`internal/stream/hub.go`) | set of connections under an RWMutex | Register, Unregister, Broadcast, drop | writer preference, writes under a read lock, drop from another goroutine, stalled peers | no write to a closed client, no leak, everyone gets the lock |
| Curation (`internal/curation`) | none | six strategies, three scores | boundaries of k and of the diversity floor, ties, repeated events | a digest covers what it must and is as fresh as that allows |
| Curator (`cmd/curator`) | window, suppression set, offsets | read, flush, publish | offsets committed before the work, suppression before publication, publish errors only logged | nothing is shown twice, the window always empties |
| Orchestrator and audit-writer services (`cmd/*`), Kafka bridge | offsets of a consumer group, an audit store | read, decide or append, publish, call back | offsets committed before the work and within 500 ms, rebalances during a read, late commits, errors only logged | nothing is handled twice but for a rebalance, losses are accounted for, a decision names its record, the topic is drained |
| CDC connectors and ingest services (`internal/cdc`, `cmd/ingest-*`) | binlog position or confirmed LSN, a channel | Run, heartbeats, publication | start positions, confirmation before delivery, a full channel | order, at-least-once delivery (PRD.md:314) |
| HTTP auth, LLM providers, canonical events, synthetic source, metrics, domain packs, dashboard, Helm | - | - | stateless or external | not modelled, see section 7 |

How they interact: the gateway's handlers and consumers share the store, the
alerts and the hub by direct calls; services share Kafka topics; gateway
replicas and audit-writers may share the Postgres table. The chart runs two
replicas of gateway, curator and orchestrator (deploy/helm/fluxlens/values.yaml);
replicas of a service are one consumer group, so that each message reaches one
of them only, the gateways included. The orchestrator
*service* has an in-memory chain of its own, so the hashes of its decisions mean
nothing in the gateway's chain.

`PROJECT.json` lists under `hazards` what in this code is hard to test, at its
line, with the properties aimed at it.

## 2. Modules

| Module | Models | Uses |
|---|---|---|
| `AuditLog` | the promise of an audit store: numbered entries, append-only, acknowledged implies present | - |
| `HashChain` | records, the hash, `VerifyRecords` | - |
| `AuditChain` | the in-memory `Chain`; implements `AuditLog` | `HashChain` |
| `PgAudit` | the Postgres store in several processes; implements `AuditLog` | `HashChain`, `Ordered` |
| `PgCalls` | the goroutines of those processes that wait for a store's mutex | `PgAudit` |
| `Ordered` | positions and keys in ascending order: ORDER BY of the store, the filtered window of the curator | - |
| `AlertStore` | `alerts.Store` and its rules as functions of the store's value | - |
| `Precedents` | `FindMatches` as the set of answers it may give | - |
| `Gateway` | handlers and Kafka callbacks over recent, store, alerts, auditOK | `AlertStore`, `Precedents` |
| `Hub` | the WebSocket hub under `sync.RWMutex` | - |
| `Curation` | the strategies, as sets of the selections they may return | - |
| `Curator` | the curator service between its two topics | `Curation`, `Ordered` |
| `Ingest` | both ingest services with their connectors | - |
| `Delivery` | the promise of a consumer group to its handlers: no message twice, and once more for each rebalance during a read | - |
| `Group` | the loop around `ReadMessage` for the replicas of a service; implements `Delivery` | `Delivery` |
| `Services` | the handlers behind it: orchestrator, audit-writer over either store, bridge | `Group` |
| `MC...` | values of the constants and bounds for TLC | the module they name |
| `AuditChainProofs`, `PgAuditProofs`, `HubProofs`, `GatewayProofs`, `CurationProofs`, `CuratorProofs`, `IngestProofs`, `ServicesProofs` | theorems and proofs | the module they name, `TLAPS`; `CuratorProofs` uses `CurationProofs` |

**HashChain.** SHA-256 is taken to be collision free: the digest of a record *is*
the sequence of contents it commits to. `HashWithPrev` appends the record's
content to what the previous digest stands for, exactly the arguments
`canonicalBytes` serialises. Two digests are equal only if every record up to
there is.

**AuditChain.** `Append` holds the mutex throughout, so it is one step; any
number of goroutines is an interleaving of such steps. A call with an empty kind
changes nothing, which is why the guard `kind # ""` is all that is left of it.

**PgAudit.** `Store.mu` is held across the INSERT, so a process has at most one
append in flight (`pending`). The append has three ends: `InsertOk` (row
written, cache advanced), `InsertRefused` (an error and no row) and
`InsertTimeout` (an error, and the statement may still be executed: `late`,
`LateCommit`, `LateDrop`). `Crash` leaves an insert in flight in `late` too.
`Insertable` is the primary key, which is the sequence number *alone*. Rows keep
the record as it was sent; `Stored` is how it reads back (`TIMESTAMPTZ` keeps
microseconds, `JSONB` renders in its own key order).

**PgCalls.** `PgAudit` has no callers, only the one append that holds the mutex.
`PgCalls` gives some of them a place: each asks for the lock (`Ask`), is given it
when nobody inserts (`Lock`; `HeadHash` releases it at once, `Append` begins its
INSERT) and returns when the INSERT is answered or given up (`Answer`,
`Deadline`), or ends with its process (`Die`). Others take the lock at any time it
is free (`AppendElsewhere`). Every step is one of `PgAudit`'s or leaves its
variables alone.

**Gateway.** One action per call that a handler makes on shared state, because no
lock is held from one call to the next: `AddRecent`, the broadcast of an ingest,
`AppendOk`/`AppendFails`/`AppendTimesOut`, `RaiseNext`, `Verify`, then
`observeAudit` in three steps (`ReadAuditOK`, `RaiseBroken`, `SetAuditOK`:
`auditOK` is unprotected), and for exports and health checks `ReadHead` and
`ReadRecords` in the order of the source. `job[w]` is the goroutine's program
counter and locals. `StoreMayFail` chooses the Postgres store, whose Append may
return an error, whose Snapshot and Len hide theirs, and whose rows may be
altered and restored (`ChainChanges`). The environment may clear the alerts and
let a dedupe window end.

A broadcast takes place between `addRecent` and Append. It returns (`Broadcast`),
takes as long as a stalled peer likes, or panics beside another write on one
connection. In a request handler net/http recovers the panic and the event is
left in `recent` without a record (`BroadcastPanics`); in a Kafka consumer nothing
recovers and the process ends (`Restart`). When that may happen is `Hub`'s
subject; here it may at any broadcast.

The store is seen through its interface: the record number i has hash i, which
`AuditChain!Intact` justifies. Its memory and its table are apart: `cached` is
what HeadHash answers, `chain` what Verify, Len and Snapshot read. An INSERT that
timed out is in `late` and may commit at any time until its number is taken;
then `Behind` is one and every Append fails until `Restart`, which reads the head
from the table and may meet the INSERTs of the process before. The gateway is
taken as its tenant's only writer: what other processes do to one table is
`PgAudit`'s subject, and `Behind` would then be the number of their records.

**Hub.** The RWMutex is modelled because its writer preference is the point: a
waiting writer is `announced`, and readers that come later are `blocked` until
it had the lock. Register, Unregister and drop only touch the map under the lock
and are one step each (`Grant...`), closing the connection afterwards is another.
A broadcast holds the read lock through one `BeginWrite`/`Write...` per client.

**Curation, Curator.** A selection is a set of positions in the window, so that an
event read twice has two. Go's map order, `rand.Shuffle` and ties under a sort of
a map's values make the result of a strategy a choice; each strategy is the set of
its results. `ToDrop` is the float expression of strategies.go:264 by what it
computes: the exact floor, except for the products that binary fractions keep
just below a whole number. Which those are is a constant, `RoundsDown`: the
proofs hold for any, and the runs take what float64 gives for up to ten sources
and whole percentages. A window of `Curator` goes from `Read` to `Flush`; the digest's
write has three outcomes (written, not written, an error though written).
`chosen`, `evicted`, `repeated` and `last` are history for the properties.

**Ingest.** The log is a sequence of entries, each a change of some rows of a table
or the end of a transaction; `Mapped` says how many events an entry gives
(`mapRowsEvent` and `mapMessage` behind the table filter; an update of MySQL with
an odd number of images gives none). `Receive` takes the next entry and `Emit`
sends its events one by one, so that stops, heartbeats and a full channel fall
between the rows of an entry. `Run`, the heartbeats (`Beat`) and main (`Take`,
`WriteOk`, `WriteFails`) share only the channel. The three `Kinds` differ in where
a Run begins: at the binlog's current end, at the position of the flags, or at
the first transaction the replication slot has not confirmed. `Keepalive` moves
the slot to `nextLSN`, which is the position of the last message plus the length
of its *decoded* form, and so up to `Lead` entries beyond it.

**Group, Services.** `Group` has what all four consumers do: `Fetch` and `Commit`
are the two halves of `ReadMessage`, `TimesOut` its context ending between them,
`Rebalance` a new generation of the consumer group. The broker accepts the
commit of a member that has lost the partition, and the offset of the group then
goes back. `Services` adds a handler per service, one action per record, write
or callback, chooses the service at the start, and takes the Postgres store by
what `PgAudit` shows of it: an Append succeeds only if the cached head is the
table's, and an error says nothing of the row. `done`, `failed` and `published`
are history for the properties. Nothing in the repository writes to the topic the
audit-writer reads; its messages are any.

The operators commented as *slips* are plausible mistakes in the code they stand
next to. No specification uses them: each property is shown to fail when the
definition after it is replaced by one of them (`mutants` in `PROJECT.json`).

## 3. Runs

| Run | Instance | What it shows |
|---|---|---|
| `chain` | 3 records, 2 kinds and the empty one, 2 payloads, 2 times | the chain verifies (`Intact`), every edit of `chain_test.go` at every position and every removal is noticed, it implements `AuditLog` |
| `pg` | 2 processes of one tenant, 1 of another, 3 rows, 2 payloads that are one JSON object in two orders, 1 abandoned insert outstanding when an append starts; or 2 watched callers of one process and any others of it and of another, appends asked for below 2 rows | one gapless chain, caches are prefixes of it, acknowledged records stay, the second tenant is kept out, a store that is behind is stuck until it is reopened, Verify is true exactly of rows that survive their round trip, `AuditLog` is implemented; every call of Append and HeadHash returns, behind an INSERT that is never answered and among callers that keep coming (`CallsReturn`) |
| `gateway` | 2 handlers of one of six mixes, store may fail, recent of 1, statuses pass and rejected_output: suggestions, resolutions and digests over 2 events and 3 records, or over 1 event with late commits; ingest with exports and health checks, over an elevated event and 2 records while rows break and recover, windows end and alerts are cleared, or 3 records with late commits and restarts; digests with resolutions and exports; reviewed suggestions with restarts | an answer names its own record and a head before it; cited precedents are matching, passed and resolved earlier; no event is in the buffer unrecorded but after a failed Append, a panicked broadcast or in a curated digest; export and health answers are coherent but for the one record that came late; a review and a broken chain were alerted |
| `hub` | 2 connections, 2 broadcasters | no write after close, no leak; once peers do not stall, the gone are closed and every broadcast returns |
| `curator` | 4 events of 3 sources with a tie, 3 messages with repetitions and malformed ones, strategies 1 to 5, k from -1 to 2, diversity 0, 50, 100 | digests cover what they must, are otherwise as fresh as can be, repeat nothing; suppressed events were shown or their write failed; the window always empties |
| `services` | 2 replicas, 3 messages (a digest of an invalid and a valid event, one that does not decode), 1 stop, 1 timeout, 1 rebalance during a read, 1 append by another process | no message is handled twice but for the rebalance (`ImplementsDelivery`); a committed message was handled or failed, but for one per stop and timeout; a published decision names its record in its maker's chain; the topic is drained while any replica runs |
| `ingest` | 3 kinds; a binlog of 2 transactions with a change of a table that is not allowed and updates of 4 and of 3 images; a WAL of 3 transactions and 4 rows; channel of 1, lead of 2, 1 stop | rows are published in order and without a gap but for failed writes, a process that stays up with its stream delivers everything, the slot loses at most a channel, a write and the lead per stop |
| `pg_verify` *(violation)* | as `pg`, 2 rows | finding 1 |
| `gateway_unlogged` *(violation)* | 1 event, store may fail | finding 2 |
| `hub_slow` *(violation)* | as `hub` | finding 3 |
| `curator_rounding` *(violation)* | 5 sources, strategy 4 with the default 80, k of 4 | finding 4 |
| `ingest_loss` *(violation)* | Postgres, 1 stop, no lead | finding 5 |

*Bounds.* Two actors are enough for every race here: each of the properties
relates one handler, process or broadcast to the shared state, and the others
act on it only through the same steps, one at a time. In `pg` two processes of a
tenant and one of another are the smallest instance with a conflict inside a
tenant and between tenants, and three rows give a first, a middle and a last
row. The callers who wait have a mix of their own, in which the abandoned inserts
are not bounded, as a bound there would keep a caller waiting. In the mix of rows
`MaxLate` bounds them when an append *starts*, so that up to three are
outstanding. In `gateway` each behaviour draws its requests from
one of six mixes, chosen at the start (`mix`), because what one mix does to the
variables that the properties of another read is done in that other by its own
requests as well. In the mix of decisions a chain of three holds a
decision, its resolution and the suggestion that cites it, and a digest of two
events evicts the first by the second; in the mix of ingests and reads
two records make every call of an export fall before or after another's append,
and the ring of one makes the event evict itself; with restarts a third leaves
room for the startup record, an ingest and a row that comes late. `hub` has the smallest instance with two lock holders writing
to one connection. Handlers are interchangeable in every property of the gateway
(`SYMMETRY`). Three messages make every window of up to three and every split of
them over two or three flushes, so that suppression, pruning at a limit of one,
ties, repetitions and a fill after the sources all occur; the same run with four
messages, 11 million states without the liveness, holds too. In `ingest` the
update of two rows fills the channel in the middle of an entry, the refused and
the unlisted entries lie between rows that are due, and the first transaction of
the WAL is what channel and write hold and the second what the lead skips, so that
`LossBounded` is met with equality and the fourth row could break it.
In `services` a second replica is enough for a partition to move and for a
commit to come late; one rebalance during a read, one timeout and one stop
already combine (the offset goes back, then its new owner stops), and rebalances
at other times are unbounded; with two stops and two such rebalances `Delivery`
and the invariants hold as well for the audit-writer. Deadlock is checked everywhere but in `chain`, which ends at its bound.

*Fairness.* `pg` assumes that the client's own deadline passes (weak
fairness of `Deadline`) and that a goroutine that waits for a mutex which is free
again and again gets it (strong fairness of `Lock`: sync.Mutex hands itself to a
waiter that has starved for a millisecond); nothing is assumed of the server, of
restarts or of who wins a number. `hub`
assumes that a goroutine that can run does (weak fairness of reads, writes, lock
grants and closes) and strong fairness of `Announce`: Go's mutex hands itself to
a waiter that has starved for a millisecond. `curator` assumes that the loop goes on
and that a tick that is due is taken before the default case, as `select` does;
`ingest` that blocked senders of a channel are served in their order (strong
fairness of `Emit`) and that main goes on. `services` assumes that the broker
gives a partition without an owner to a live member, that the owner fetches if it
is the owner again and again, and that calls return: within 500 ms for a read. Stops, starts, the outcome of a
write and the source are free: `Drains` and `Delivers` are conditional on a
process that in the end stays up. Peers are under no fairness at all:
they may stall for ever, which is why `GoneIsClosed` and `BroadcastReturns` are
conditional on `NoPeerStalls`, and why `SlowClientsAreDropped` fails.

## 4. Findings

1. **An intact Postgres chain may not verify** (`pg_verify`,
   `postgres/store.go:140`): the hash is computed over bytes and a nanosecond
   time, and recomputed over what JSONB and TIMESTAMPTZ give back. `VerifyExact`
   in the run `pg` says when it does verify: if all rows survive the round trip.
2. **Suggestions surface without a record** (`gateway_unlogged`,
   `orchestrator.go:147`) against ARCHITECTURE.md:257 and PRD.md:364-365.
3. **Slow clients are not dropped** (`hub_slow`, `hub.go:69`) against the comment
   at hub.go:60: one stalled client holds up all broadcasting and, as handlers
   broadcast before they append, ingest.
4. **The diversity floor is rounded the wrong way** (`curator_rounding`,
   `strategies.go:264`): with the default of 80 percent and a multiple of five
   sources one source fewer is dropped than the comment at strategies.go:178-180
   says, and when k then ends the sources it is the newest that are cut off
   (strategies.go:274). `Fresh` holds where the product is exact.
5. **The Postgres slot confirms what is not delivered** (`ingest_loss`,
   `postgres/connector.go:171`) against "at-least-once" of cdc/interface.go:19.
   `LossBounded` in the run `ingest` says how much one stop can lose, the lead of
   `nextLSN` included.

Some properties that hold are uncomfortable: `OneTenant` (tenants of one table
exclude each other), `StuckUntilRestart` (an ambiguous INSERT or a second writer
disables a store until it is reopened), `SuggestionIsItsRecord` (the prev hash in
a decision is *an earlier* head, not the one its record is chained on, since
HeadHash and Append are two calls), `SuppressedWasShown` (an event whose digest
could not be written is suppressed all the same), `LossAccounted` and
`ImplementsDelivery` (the services commit before they handle, so a stop or a slow
commit loses a message, where PRD.md:314 wants at-least-once; a failed Append
counts as handled) and `Covers` (k of zero selects
one event under strategies 4 to 6).

## 5. Proofs

`tlapm <module>.tla` checks each of the eight modules whose name ends in
`Proofs`. A run shows a property for the few values of its cfg; the theorem
about it holds for any number of processes, goroutines, connections, replicas,
events and rows, and any bounds. Each module proves `Invariance`, that its
specification keeps one inductive invariant `IInv`, and gets the rest from it.
(`AuditChainProofs` needs none, since `Intact` is inductive over a typed state;
`CurationProofs` holds the lemmas about the strategies, which have no state.)

**Assumptions**, each named in the module that declares the constants, and
evaluated by TLC on every run. They are types (`TimesAssumption`,
`WritersAssumption`, `StorageAssumption`, `EventsAssumption`,
`GatewayAssumption`, `ServicesAssumption`, `GroupAssumption`,
`CuratorAssumption`, `IngestAssumption`, `AlertsAssumption`) and markers that
are no values: `None` is no record (`NoneAssumption`) and no connection or task
(`HubAssumption`), `Malformed` no event, `Nobody` no member, a heartbeat no row.
Three say more. An entry of the Postgres connector gives at most one row, a
buffer and a channel have room for one element at least, as the code's do, and
a product that float64 leaves below a whole number is one or more
(`RoundingAssumption`; the product is never negative, and zero is exact).
The proofs of `Hub` and `Ingest` could not be done without the assumptions on
`None` and `Heartbeat`, which TLC's model values had made true unnoticed. The
proof of `Ingest` also found two guards of a CASE that overlapped, on an update
of a table that is not allowed, and what TLA+ leaves open there TLC had
settled in favour of the first; `Mapped` now says it.

**AuditChainProofs.** `ChainIntact` is `Intact`. `EditsAreDetected` and
`RemovalsAreDetected` are about any slice of records, reachable or not: digests
are injective (`HashInjective`), so the record after a changed one no longer
links; for a removal, two digests of different lengths would have to be equal.
`EditsNeverEscape` and `RemovalsNeverEscape` put that together for the reachable
chains, and `Refinement` maps an append to `AuditLog!Extend`.
These two are about one edit or one removal; `HeadDeterminesChain` is about any
number of them, with insertions and exchanges: two slices that verify and end in
the same hash are the same slice, so that whoever has kept the last hash notices
whatever was done to the records. It rests on `HashIsHistory`: in a slice that
verifies the digest of the record number i lists the contents of the first i
records. From it also follows `HashesNameRecords`: no two records of a chain
have the same hash, even when equal things were appended at equal times, which
is what lets `Gateway` and `Precedents` take the hash of a record for the record.
`PrefixesIntact` says that a verifier need not lock out appends: the records it
read before them verify.

**PgAuditProofs.** `OneChain` is not inductive: it says nothing of the records
that are on their way. `IInv` adds `PendingFollows` and `LateFollows`: every
pending and every abandoned record chains on a row that is already in the table
and has its tenant, so that if its number is still free it is the next row
(`InsertExtends`) and extends the one chain. That a new record follows the table
rests on `CacheIsPrefix` and `CacheTenant`; that it keeps following it rests on
rows never changing (`TableKept`, `FollowsKept`). From it follow `TypeCorrect`,
`TableIsOneChain`, `CachesArePrefixes`, `AckedIsDurable`, `TenantsExcluded` and
the action property `BehindStaysBehind`; `Refinement` maps every commit, in time
or late, to `AuditLog!Extend` and every other step to a stutter. `VerifyIsExact`
is about any table, row by row: what a row reads back as gives the stored hash
exactly if its payload and its time survive the column types (`HashTells`).
`OneWriterAtMost` completes `BehindStaysBehind`: whenever a row is added, every
open store is behind the table afterwards, but the one whose Append returned it,
and after a late commit not even that one. So of several processes that share a
table at most one goes on, and the others refuse every append until they are
reopened.

**HubProofs.** `NoLeak` and `NoWriteAfterClose` say what must not be; what keeps
them is who may still touch a connection. `IInv` adds that a client is neither
closing nor closed (`ClientsAreOpen`), that a connection not yet registered is
in no set (`UnregisteredIsFresh`), that the map does not change under a
broadcast (`CastHolds`: a broadcast that is under way holds the lock as a reader
and the connections it has still to write to are clients), and that the
announced writer is one of the waiting. `StaysClosed` is an action property.
`NoWakeupLost` is the safety half of `BroadcastReturns`: a blocked broadcast
stands behind an announced goroutine that still wants the lock, whichever
goroutine unlocked last; that this goroutine is then granted the lock needs
fairness and is left to TLC.

**GatewayProofs.** No lock is held between the calls of a handler, so the
invariant has one part about the shared state (`LooksBack`, `HeadFollows`,
`MutedWereRaised`, `BrokenIsAlerted`, `RecentIsLogged`) and one, `JobInv`, about what a goroutine
remembers between two calls: the shape of its locals, that what it refers to is
in the chain, that the hash it was given is its own record's (`KnowsItsRecord`),
that its two reads came in order (`ReadsInOrder`), and which alerts it has raised
(`Alerted`). All of it is stable when others act, since the chain only grows, the cached head
is never further behind than before but by the record that was added, and raised
alerts stay raised: `JobStable` and `OthersKeep` say so once, and each
action's lemma is left with its own goroutine. `HeadFollows` is the strengthening
that `ExportsCohere` needs: the cached head covers the table or all of it but the
last record, and once it does not, no abandoned INSERT is left that could add
another (`late` is empty, since they all had the number that is taken). A restart
keeps none of this but makes it anew (`FreshIInv`), with the INSERTs of the ended
process among the abandoned ones (`InFlightFollows`). `CriticalIsAlerted` survives the
race on `auditOK` because a goroutine about to write false has raised the alert
(`Alerted`), and survives deduplication because what is muted was raised.

**CurationProofs and CuratorProofs.** `DigestsCover` needs what each strategy
returns, for any window and any choice of ties or map order: `Promised`, proved
per strategy (`LatestKeeps`, ..., `GuaranteedKeeps`, together `SelectionsKeep`).
They rest on lemmas about positions: "newer" orders a window (`NewerOrders`), in
such an order every rank is taken once (`RanksDiffer`, `EveryRank`), so that the
k newest are k (`TopSize`), and one per source covers every source
(`LatestCover`). `ShownOnce` holds because what was chosen is suppressed or pruned
(`ChosenIsSuppressed`) and the filtered window has no suppressed event
(`FilteredIsWindow`).

`DigestsAreFresh` compares the total ages of two selections of the same size
without computing either. If, for every moment, the one has at least as many
events since that moment as the other, it is no older in total (`FreshIsYoung`),
and that each strategy has as many as any competitor that covers as much is shown
strategy by strategy (`LatestIsFresh`, `LatestPerSourceIsFresh`, `HybridIsFresh`,
`GuaranteedIsFresh`): the newest of a source is as new as whatever the
competitor took of it, the dropped sources are the oldest (`OldestDropped`), and
the fill takes the newest of what is left (`FillIsFresh`). The sum itself is a
fold, and a fold is a fact about every finite set: since the induction theorems
of the library cannot be instantiated with an operator, `Induction` states
induction over a set of numbers and gets it from the least element of a
well-founded relation; `OneSum`, `AgeIsSum` and `AgeOf` then say that the sum
exists, is one, and may be taken out in any order. The theorem has a
hypothesis, `ShareIsExact`: the number of sources that strategies 4 and 6 may
do without was not rounded down. It is needed, as finding 4 and the run
`curator_rounding` show, and it is met by all other strategies, and by these two
for every percentage and number of sources that is not in `RoundsDown`.

`TicksPublish` says that a tick is never stuck: if the flags are accepted there is
a selection (`SelectReturns`) and a pruning, also when every event of the window
is suppressed. It is what `Drains` of the curator needs of safety.

**IngestProofs.** The write in progress followed by the channel is a *pipe*. `IInv`
says that the pipe holds the rows emitted since the last one dealt with, in the
order of the log (`PipeOrdered`), and all of them but the published and the failed
(`PipeComplete`). `WritesInOrder`, an action property, needs the first. For
`LossBounded` the slot must be compared with the log: the position a heartbeat
confirms is at most `Lead` ahead of the entry read (`SlotBehind`), so a restart skips at
most what the channel and the write held and that lead; `LossInv` adds this up
over the stops. `IInv` counts from the beginning of the current run, since what
is in the pipe is not lost until the process is.

**ServicesProofs.** A message is handed out twice only if a
rebalance came while a read of it was unfinished. A reader that no longer stands where the group stands is *stale*; `AtMostOnce`
says that the times a message was handed out and the stale readers together are
at most one more than the interruptions, and one less if it is still to be
fetched. `ReadEnds` shows that the end of any read uses up what was owed. Without the
stale readers the bound is not inductive: their messages have been
fetched again already. On top of this invariant of `Group` come `Handler` (what
each replica is at, and that an item behind it is done or failed), `Traceable`,
and `LossPaid`: a message behind the group's offset that is not handled and in
no hand was paid for by a stop or a read that timed out. `Refinement` maps a
fetched message that is handed out to `Delivery`'s hand-out, and every rebalance
during a read to its interruption.

**Only model-checked.**

* `CallsReturn`, `GoneIsClosed`, `BroadcastReturns`, `Drains` of both services
  and `Delivers`: liveness, which needs fairness and ENABLED.
* `Fresh` where the share of strategies 4 and 6 was rounded down: there finding 4
  refutes it.
* The properties of the five runs that expect a violation.

## 6. Plan

1. *(done)* audit chain, Postgres store, gateway with alerts and precedents, hub,
   curation with the curator, ingest, orchestrator service, audit-writer and
   Kafka bridge; runs.
2. *(done)* proofs of every invariant, refinement and safety property of the
   passing runs, and of what follows from them for callers: the last hash of a
   chain, one writer at most, no wakeup lost, a tick always publishes.
3. Left: liveness, once the prover handles ENABLED; the algebra of the alert store
   (the cap keeps the newest) and of `Precedents` (an answer holds the best
   matches).

## 7. Not modelled

* Authentication and roles: one request at a time, no state.
* LLM providers, guardrail patterns and the content of decisions: a
  nondeterministic outcome; the model is an external service.
* The scores of a digest, and the replacement strategy 6 makes for a list of
  preferred sources: neither cmd/curator nor the gateway passes one.
* In the connectors: column values, the creation of the publication, the relation
  cache, statistics, the name of the binlog file that the heartbeats read without
  a lock, and the channel closed at shutdown while a heartbeat may be about to be
  sent on it, which can only panic a process that is ending.
* The clocks of Kafka: topics of one partition, since order and offsets are per
  partition, and no retention; a webhook or synthetic producer is one write of one
  message.
* Retention of audit rows: docs/adr/0005 describes it, no code does it, and
  `VerifyRecords` fails on a table without its first row.
* Validation and formatting of events, wording of alerts and steps, metrics,
  flags, configuration, dashboard, charts.
* `liveState` of the gateway: a second ring with one writer and one reader.
* In `Hub` the death of the gateway by a panic in a Kafka consumer: `WritePanics`
  ends the broadcast, as the recovery of `net/http` leaves it. `Gateway!Restart`
  is that death, at any step and for any cause.
* Other writers of the gateway's tenant, in `Gateway`; and the error returns of
  Decide and SuggestWithPrecedents for an event or a request that is not valid
  (orchestrator.go:65, precedents.go:40), before which they change nothing.
* Which break or review an alert was for: `raised` in `CriticalIsAlerted` says that
  an alert of the key was buffered since the process started. A second break, or a
  second review of one event, that raises none after the alerts were cleared is
  not told apart from the first.
* Storage failures other than errors, timeouts and altered rows; hash collisions.
