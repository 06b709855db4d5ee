------------------------------- MODULE PgAudit -------------------------------
(***************************************************************************)
(* The Postgres audit store (internal/auditlog/postgres/store.go) as it is *)
(* deployed: several processes (replicas of api-gateway and audit-writer)  *)
(* each with a Store of its own, one shared table whose primary key is the *)
(* sequence number alone (deploy/postgres-init/01-schema.sql:47), an INSERT*)
(* that may time out on the client while the server still executes it, and *)
(* crashes and restarts of the processes.                                  *)
(*                                                                         *)
(* Store.mu is held across the INSERT, so a Store has at most one Append in*)
(* flight: pending[w].  What an abandoned INSERT may still do is in late.  *)
(* The goroutines that wait for the mutex are in PgCalls.                  *)
(***************************************************************************)
EXTENDS HashChain, FiniteSets, Ordered

CONSTANTS Writers,      \* the processes that open the store
          Tenants,
          TenantOf,     \* the tenant id each process was started with
          None,         \* no append in flight
          JsonbOf,      \* the text a payload comes back as from a JSONB column
          NsPerMicro    \* timestamps have nanoseconds, TIMESTAMPTZ microseconds

ASSUME WritersAssumption == TenantOf \in [Writers -> Tenants]
ASSUME NoneAssumption == None \notin Record
ASSUME StorageAssumption == /\ JsonbOf \in [Payloads -> Payloads]
                            /\ NsPerMicro \in Nat \ {0}

VARIABLES table,      \* fluxlens_audit_log: its rows by primary key
          up,         \* the processes whose store is open
          headHash,   \* Store.headHash of each process
          nextSeq,    \* Store.nextSeq of each process
          pending,    \* the record each process is inserting, or None
          late,       \* inserts whose client gave up: [rec, tenant]
          acked       \* the records whose Append returned without an error

pgVars == <<table, up, headHash, nextSeq, pending, late, acked>>

\* Rows keep the record as it was inserted; Stored is how it reads back.
Row == [rec : Record, tenant : Tenants]

Keys == DOMAIN table
KeysOf(t) == {k \in Keys : table[k].tenant = t}
LastKeyOf(t) == CHOOSE k \in KeysOf(t) : \A j \in KeysOf(t) : j <= k
RowOf(rec, t) == [rec |-> rec, tenant |-> t]
-----------------------------------------------------------------------------
Init == /\ table = [k \in {} |-> None]
        /\ up = {}
        /\ headHash = [w \in Writers |-> NoHash]
        /\ nextSeq = [w \in Writers |-> 0]
        /\ pending = [w \in Writers |-> None]
        /\ late = {}
        /\ acked = {}

\* Open and loadHead: the head is that of the tenant's last row, if it has one.
Open(w) ==
    LET t == TenantOf[w]
        found == KeysOf(t) # {}
    IN  /\ w \notin up
        /\ up' = up \cup {w}
        /\ nextSeq' = [nextSeq EXCEPT ![w] = IF found THEN LastKeyOf(t) + 1 ELSE 0]
        /\ headHash' = [headHash EXCEPT ![w] =
                           IF found THEN table[LastKeyOf(t)].rec.hash ELSE NoHash]
        /\ UNCHANGED <<table, pending, late, acked>>

\* Slip: an append without a kind is sent like any other.
BeginAppendAnyKind(w, kind, payload, time) ==
    /\ w \in up /\ pending[w] = None
    /\ pending' = [pending EXCEPT ![w] =
                      ChainedRecord(nextSeq[w], time, kind, payload, headHash[w])]
    /\ UNCHANGED <<table, up, headHash, nextSeq, late, acked>>

\* Append up to ExecContext: the record is built on the cached head and sent.
BeginAppend(w, kind, payload, time) ==
    /\ w \in up /\ pending[w] = None
    /\ kind # ""
    /\ pending' = [pending EXCEPT ![w] =
                      ChainedRecord(nextSeq[w], time, kind, payload, headHash[w])]
    /\ UNCHANGED <<table, up, headHash, nextSeq, late, acked>>

\* Postgres accepts a row iff no row of any tenant has its primary key.  Slip:
\* no uniqueness at all, the last insert wins.
InsertableAlways(rec) == TRUE
Insertable(rec) == rec.seq \notin Keys

Inserted(rec, t) ==
    [k \in Keys \cup {rec.seq} |-> IF k = rec.seq THEN RowOf(rec, t) ELSE table[k]]

\* The INSERT succeeds and the answer arrives in time: the cache advances.
InsertOk(w) ==
    LET rec == pending[w]
    IN  /\ rec # None
        /\ Insertable(rec)
        /\ table' = Inserted(rec, TenantOf[w])
        /\ headHash' = [headHash EXCEPT ![w] = rec.hash]
        /\ nextSeq' = [nextSeq EXCEPT ![w] = @ + 1]
        /\ pending' = [pending EXCEPT ![w] = None]
        /\ acked' = acked \cup {rec}
        /\ UNCHANGED <<up, late>>

\* The INSERT is answered with an error, a duplicate key or a connection that
\* was refused: Append returns it and the cache stays.
InsertRefused(w) ==
    /\ pending[w] # None
    /\ pending' = [pending EXCEPT ![w] = None]
    /\ UNCHANGED <<table, up, headHash, nextSeq, late, acked>>

\* Slips in the timeout path: the cache advances although nobody knows whether
\* the row exists; there is no deadline at all.
InsertTimeoutAdvancing(w) ==
    LET rec == pending[w]
    IN  /\ rec # None
        /\ pending' = [pending EXCEPT ![w] = None]
        /\ late' = late \cup {RowOf(rec, TenantOf[w])}
        /\ headHash' = [headHash EXCEPT ![w] = rec.hash]
        /\ nextSeq' = [nextSeq EXCEPT ![w] = @ + 1]
        /\ UNCHANGED <<table, up, acked>>
InsertTimeoutNever(w) == FALSE /\ UNCHANGED pgVars

\* The ten seconds of the context are over: Append returns an error, and the
\* server may still execute the statement, now or later.
InsertTimeout(w) ==
    /\ pending[w] # None
    /\ pending' = [pending EXCEPT ![w] = None]
    /\ late' = late \cup {RowOf(pending[w], TenantOf[w])}
    /\ UNCHANGED <<table, up, headHash, nextSeq, acked>>

\* The server executes an abandoned insert, or drops it.
LateCommit(row) ==
    /\ row \in late
    /\ Insertable(row.rec)
    /\ table' = Inserted(row.rec, row.tenant)
    /\ late' = late \ {row}
    /\ UNCHANGED <<up, headHash, nextSeq, pending, acked>>

LateDrop(row) ==
    /\ row \in late
    /\ late' = late \ {row}
    /\ UNCHANGED <<table, up, headHash, nextSeq, pending, acked>>

\* The process dies; an insert it had sent may still be executed.
Crash(w) ==
    /\ w \in up
    /\ up' = up \ {w}
    /\ late' = IF pending[w] = None THEN late
               ELSE late \cup {RowOf(pending[w], TenantOf[w])}
    /\ pending' = [pending EXCEPT ![w] = None]
    /\ headHash' = [headHash EXCEPT ![w] = NoHash]
    /\ nextSeq' = [nextSeq EXCEPT ![w] = 0]
    /\ UNCHANGED <<table, acked>>

Next ==
    \/ \E w \in Writers : \/ Open(w)
                          \/ InsertOk(w)
                          \/ InsertRefused(w)
                          \/ InsertTimeout(w)
                          \/ Crash(w)
    \/ \E w \in Writers, kind \in Kinds, payload \in Payloads, time \in Times :
          BeginAppend(w, kind, payload, time)
    \/ \E row \in late : LateCommit(row) \/ LateDrop(row)

Spec == Init /\ [][Next]_pgVars
-----------------------------------------------------------------------------
\* What a row reads back as: microseconds, and JSONB's own rendering.
Stored(rec) == [rec EXCEPT !.time = @ - (@ % NsPerMicro), !.payload = JsonbOf[@]]

\* SELECT ... WHERE tenant_id = $1 ORDER BY sequence ASC.
Snapshot(t) ==
    LET keys == Ascending(KeysOf(t))
    IN  [i \in DOMAIN keys |-> Stored(table[keys[i]].rec)]

Verify(t) == VerifyRecords(Snapshot(t))
-----------------------------------------------------------------------------
\* Every variable has its type; acknowledged and sent records are records.
TypeOK == /\ table \in [Keys -> Row] /\ Keys \subseteq Nat
          /\ up \subseteq Writers
          /\ headHash \in [Writers -> Digest]
          /\ nextSeq \in [Writers -> Nat]
          /\ pending \in [Writers -> Record \cup {None}]
          /\ late \subseteq Row
          /\ acked \subseteq Record

Size == Cardinality(Keys)

\* The digest the record number k of the table must chain on.
HeadBefore(k) == IF k = 0 THEN NoHash ELSE table[k - 1].rec.hash

\* Whatever the writers, their timeouts, their crashes and the late inserts do,
\* the table holds one chain: its keys have no gap and every row chains on the
\* row before it.
NoGap == \E n \in 0 .. Size : Keys = 0 .. n - 1
Chained(rec) == /\ rec.prev = HeadBefore(rec.seq)
                /\ rec.hash = ComputeHash(rec)
OneChain == /\ NoGap
            /\ \A k \in Keys : table[k].rec.seq = k /\ Chained(table[k].rec)

\* A store's cache may be behind the table and is never ahead of it or beside
\* it: it is the head of a prefix of the one chain.
CacheIsPrefix ==
    \A w \in up : /\ nextSeq[w] = 0 \/ nextSeq[w] - 1 \in Keys
                  /\ headHash[w] = HeadBefore(nextSeq[w])

\* A record whose Append succeeded is in the table under its number for good.
AckedDurable == \A rec \in acked : rec.seq \in Keys /\ table[rec.seq].rec = rec

\* The primary key is not per tenant, so the rows of one tenant keep every
\* other tenant out.
OneTenant == \A j, k \in Keys : table[j].tenant = table[k].tenant

\* A store whose cache is behind the table appends nothing more until it is
\* reopened: another process, or its own insert that was executed after the
\* timeout, has taken its number.
StuckUntilRestart ==
    [][\A w \in up : nextSeq[w] \in Keys /\ w \in up' => nextSeq'[w] = nextSeq[w]]_pgVars

\* Verify of a tenant's rows, which nothing has altered, answers true exactly
\* if every one of them survives its round trip through the column types.
VerifyExact ==
    \A t \in Tenants :
        Verify(t) <=> \A k \in KeysOf(t) : Stored(table[k].rec) = table[k].rec

\* "Verify ... returns (true, nil) iff the chain is intact" (chain.go:80): rows
\* that form one chain, as OneChain has it, verify.
VerifiesWhenIntact == OneChain => \A t \in Tenants : Verify(t)

\* The table is an append-only log in which every acknowledged record stays put.
BodyOf(rec) == [time |-> rec.time, kind |-> rec.kind, payload |-> rec.payload]
EntryOf(rec) == [seq |-> rec.seq, body |-> BodyOf(rec)]
Log == INSTANCE AuditLog
       WITH Body <- [time : Times, kind : RecordKinds, payload : Payloads],
            log <- [i \in 1 .. Size |-> EntryOf(table[i - 1].rec)],
            acked <- {EntryOf(rec) : rec \in acked}
ImplementsAuditLog == Log!Spec
=============================================================================
