---------------------------- MODULE PgAuditProofs ----------------------------
(***************************************************************************)
(* What holds of the Postgres audit store for any number of processes and  *)
(* tenants, any records and a table of any size.                           *)
(*                                                                         *)
(* OneChain is not inductive: it says nothing of the records that are on   *)
(* their way.  The invariant adds that every one of them - in a pending    *)
(* append, or in an insert that its client has given up - chains on a row  *)
(* that is already in the table, which rests on the caches being prefixes. *)
(***************************************************************************)
EXTENDS PgAudit, FiniteSetTheorems, SequenceTheorems, TLAPS

\* rec, sent for tenant t, follows the first rec.seq rows of the table.
Follows(rec, t) ==
    /\ rec.seq = 0 \/ (rec.seq - 1 \in Keys /\ table[rec.seq - 1].tenant = t)
    /\ Chained(rec)

PendingFollows == \A w \in Writers : pending[w] # None =>
                     /\ w \in up
                     /\ pending[w].seq = nextSeq[w]
                     /\ Follows(pending[w], TenantOf[w])

LateFollows == \A row \in late : Follows(row.rec, row.tenant)

CacheTenant == \A w \in up : nextSeq[w] = 0 \/ table[nextSeq[w] - 1].tenant = TenantOf[w]

Contiguous == \E n \in Nat : Keys = 0 .. n - 1

RowsChained == \A k \in Keys : table[k].rec.seq = k /\ Chained(table[k].rec)

IInv == /\ TypeOK
        /\ Contiguous /\ RowsChained
        /\ CacheIsPrefix /\ CacheTenant
        /\ PendingFollows /\ LateFollows
        /\ AckedDurable
        /\ OneTenant
-----------------------------------------------------------------------------
\* A record built on typed parts is a record that carries its number and its
\* prev and whose hash is its own.
LEMMA ChainedRecordType ==
    ASSUME NEW seq \in Nat, NEW time \in Times, NEW kind \in RecordKinds,
           NEW payload \in Payloads, NEW prev \in Digest
    PROVE  LET rec == ChainedRecord(seq, time, kind, payload, prev)
           IN  /\ rec \in Record
               /\ rec.seq = seq
               /\ rec.prev = prev
               /\ rec.hash = ComputeHash(rec)
  <1> DEFINE content == [seq |-> seq, time |-> time, kind |-> kind, payload |-> payload]
  <1>1. content \in Content
    BY DEF Content
  <1>2. Append(prev, content) \in Digest
    BY <1>1, AppendProperties DEF Digest
  <1>. QED
    BY <1>1, <1>2 DEF ChainedRecord, ComputeHash, HashWithPrev, ContentOf, Record, Content

\* The number of rows of a table without gaps.
LEMMA SizeOfPrefix ==
    ASSUME NEW n \in Nat, Keys = 0 .. n - 1
    PROVE  Size = n
  BY FS_Interval DEF Size

\* A step that keeps every row keeps what follows the table's rows.
LEMMA FollowsKept ==
    ASSUME Keys \subseteq Keys', \A k \in Keys : table'[k] = table[k],
           NEW rec \in Record, NEW t, Follows(rec, t)
    PROVE  Follows(rec, t)'
  BY DEF Follows, Chained, HeadBefore, ComputeHash, HashWithPrev, ContentOf, Record

\* Inserting a record that follows the table puts it at the end: every row is
\* kept, and the longer table is again one chain of one tenant.
LEMMA InsertExtends ==
    ASSUME IInv, NEW rec \in Record, NEW t \in Tenants, Follows(rec, t), Insertable(rec),
           table' = Inserted(rec, t)
    PROVE  /\ Keys \subseteq Keys' /\ rec.seq \in Keys'
           /\ \A k \in Keys : table'[k] = table[k]
           /\ table'[rec.seq] = RowOf(rec, t)
           /\ table' \in [Keys' -> Row] /\ Keys' \subseteq Nat
           /\ Keys = 0 .. rec.seq - 1 /\ Keys' = 0 .. rec.seq
           /\ Contiguous' /\ RowsChained' /\ OneTenant'
  <1>1. PICK n \in Nat : Keys = 0 .. n - 1
    BY DEF IInv, Contiguous
  <1>2. rec.seq \in Nat
    BY DEF Record
  \* It follows a row, or none, and its key is free: it comes right after the last.
  <1>3. rec.seq = n
    BY <1>1, <1>2 DEF Follows, Insertable
  <1>4. /\ Keys' = Keys \cup {rec.seq}
        /\ \A k \in Keys : table'[k] = table[k]
        /\ table'[rec.seq] = RowOf(rec, t)
    BY DEF Inserted, Insertable, Keys
  <1>5. Keys' = 0 .. rec.seq /\ Keys = 0 .. rec.seq - 1
    BY <1>1, <1>2, <1>3, <1>4
  <1>6. Contiguous'
    <2>1. rec.seq + 1 \in Nat /\ rec.seq = (rec.seq + 1) - 1
      BY <1>2
    <2>. QED
      BY <1>5, <2>1 DEF Contiguous
  <1>7. table' \in [Keys' -> Row] /\ Keys' \subseteq Nat
    <2>1. RowOf(rec, t) \in Row
      BY DEF RowOf, Row
    <2>2. \A k \in Keys : table[k] \in Row
      BY DEF IInv, TypeOK
    <2>3. table' = [k \in Keys' |-> table'[k]]
      BY DEF Inserted, Keys
    <2>4. \A k \in Keys' : table'[k] \in Row
      BY <1>4, <2>1, <2>2
    <2>. QED
      BY <1>2, <1>5, <2>3, <2>4
  <1>8. RowsChained'
    <2>1. ASSUME NEW k \in Keys
          PROVE  table'[k].rec.seq = k /\ Chained(table[k].rec)'
      <3>1. table[k].rec.seq = k /\ Chained(table[k].rec) /\ table[k].rec \in Record
        BY DEF IInv, RowsChained, TypeOK, Row
      <3>2. HeadBefore(k)' = HeadBefore(k)
        BY <1>4, <1>5, <1>2 DEF HeadBefore
      <3>. QED
        BY <1>4, <3>1, <3>2 DEF Chained, ComputeHash
    <2>2. table'[rec.seq].rec = rec
      BY <1>4 DEF RowOf
    <2>3. Chained(rec)'
      <3>1. HeadBefore(rec.seq)' = HeadBefore(rec.seq)
        BY <1>2, <1>4, <1>5 DEF HeadBefore
      <3>. QED
        BY <3>1 DEF Chained, Follows, ComputeHash
    <2>4. \A k \in {rec.seq} : table'[k].rec.seq = k /\ Chained(table[k].rec)'
      BY <2>2, <2>3 DEF Chained, ComputeHash
    <2>. QED
      BY <1>4, <2>1, <2>4 DEF RowsChained
  <1>9. OneTenant'
    <2>1. \A k \in Keys : table'[k].tenant = t
      <3>1. rec.seq # 0 => table[rec.seq - 1].tenant = t /\ rec.seq - 1 \in Keys
        BY DEF Follows
      <3>2. \A k \in Keys : table[k].tenant = t
        BY <1>2, <1>5, <3>1 DEF IInv, OneTenant
      <3>. QED
        BY <1>4, <3>2
    <2>2. table'[rec.seq].tenant = t
      BY <1>4 DEF RowOf
    <2>. QED
      BY <1>4, <2>1, <2>2 DEF OneTenant
  <1>. QED
    BY <1>4, <1>5, <1>6, <1>7, <1>8, <1>9

\* A step that keeps the rows and adds none keeps what is said of the table alone.
LEMMA TableKept ==
    ASSUME IInv, UNCHANGED table
    PROVE  /\ table' \in [Keys' -> Row] /\ Keys' \subseteq Nat
           /\ Keys' = Keys
           /\ Contiguous' /\ RowsChained' /\ OneTenant'
           /\ \A k \in Nat : HeadBefore(k)' = HeadBefore(k)
           /\ \A rec \in Record, t \in Tenants : Follows(rec, t) => Follows(rec, t)'
  <1>1. Keys' = Keys
    BY DEF Keys
  <1>2. \A k \in Nat : HeadBefore(k)' = HeadBefore(k)
    BY DEF HeadBefore
  <1>3. \A rec \in Record, t \in Tenants : Follows(rec, t) => Follows(rec, t)'
    BY <1>1, FollowsKept
  <1>4. RowsChained'
    <2>1. \A k \in Keys : Chained(table[k].rec) => Chained(table[k].rec)'
      <3>1. \A k \in Keys : table[k].rec \in Record
        BY DEF IInv, TypeOK, Row
      <3>2. \A k \in Keys : table[k].rec.seq \in Nat
        BY <3>1 DEF Record
      <3>. QED
        BY <1>2, <3>2 DEF Chained, ComputeHash
    <2>. QED
      BY <1>1, <2>1 DEF IInv, RowsChained
  <1>5. table' \in [Keys' -> Row] /\ Keys' \subseteq Nat /\ Contiguous' /\ OneTenant'
    BY <1>1 DEF IInv, TypeOK, Contiguous, OneTenant
  <1>. QED
    BY <1>1, <1>2, <1>3, <1>4, <1>5

\* Opening a store loads the head of a prefix of the chain: the tenant's last
\* row is the table's last row, or the tenant has none and the cache is empty.
LEMMA OpenKeeps ==
    ASSUME IInv, NEW w \in Writers, Open(w)
    PROVE  IInv'
  <1> DEFINE t == TenantOf[w]
             found == KeysOf(t) # {}
             last == LastKeyOf(t)
  <1>1. /\ w \notin up /\ up' = up \cup {w}
        /\ nextSeq' = [nextSeq EXCEPT ![w] = IF found THEN last + 1 ELSE 0]
        /\ headHash' = [headHash EXCEPT ![w] = IF found THEN table[last].rec.hash ELSE NoHash]
        /\ UNCHANGED <<table, pending, late, acked>>
    BY DEF Open
  <1>2. found => last \in Keys /\ table[last].tenant = t
    <2> SUFFICES ASSUME found PROVE last \in KeysOf(t)
      BY DEF KeysOf
    <2>1. PICK n \in Nat : Keys = 0 .. n - 1
      BY DEF IInv, Contiguous
    <2>2. KeysOf(t) = Keys
      BY DEF KeysOf, IInv, OneTenant
    <2>3. n > 0 /\ n - 1 \in KeysOf(t) /\ \A j \in KeysOf(t) : j <= n - 1
      BY <2>1, <2>2
    <2>. QED
      BY <2>3 DEF LastKeyOf
  <1> HIDE DEF found, last, t
  <1>3. found => last \in Nat /\ table[last].rec \in Record
    BY <1>2 DEF IInv, TypeOK, Row
  <1>4. TypeOK'
    <2>1. headHash' \in [Writers -> Digest]
      BY <1>1, <1>3, EmptySeq DEF IInv, TypeOK, Record, NoHash, Digest
    <2>2. nextSeq' \in [Writers -> Nat]
      BY <1>1, <1>3 DEF IInv, TypeOK
    <2>. QED
      BY <1>1, <2>1, <2>2, TableKept DEF IInv, TypeOK
  <1>5. CacheIsPrefix' /\ CacheTenant'
    <2> SUFFICES ASSUME NEW v \in up'
                 PROVE  /\ nextSeq'[v] = 0 \/ (nextSeq'[v] - 1 \in Keys /\
                                               table[nextSeq'[v] - 1].tenant = TenantOf[v])
                        /\ headHash'[v] = HeadBefore(nextSeq'[v])
      BY <1>1 DEF CacheIsPrefix, CacheTenant, HeadBefore, Keys
    <2>1. CASE v # w
      BY <1>1, <2>1 DEF IInv, TypeOK, CacheIsPrefix, CacheTenant
    <2>2. CASE v = w /\ found
      <3>1. nextSeq'[w] = last + 1 /\ headHash'[w] = table[last].rec.hash
        BY <1>1, <2>2 DEF IInv, TypeOK
      <3>2. (last + 1) - 1 = last /\ last + 1 # 0
        BY <1>3, <2>2
      <3>. QED
        BY <1>2, <2>2, <3>1, <3>2 DEF HeadBefore, t
    <2>3. CASE v = w /\ ~found
      BY <1>1, <2>3 DEF IInv, TypeOK, HeadBefore
    <2>. QED
      BY <2>1, <2>2, <2>3
  <1>6. PendingFollows'
    <2>1. \A v \in Writers : pending[v] # None => v \in up /\ pending[v] \in Record
      BY DEF IInv, TypeOK, PendingFollows
    <2>2. \A v \in up : nextSeq'[v] = nextSeq[v]
      BY <1>1 DEF IInv, TypeOK
    <2>3. \A v \in Writers : TenantOf[v] \in Tenants
      BY WritersAssumption
    <2>. QED
      BY <1>1, <2>1, <2>2, <2>3, TableKept DEF IInv, PendingFollows
  <1>7. LateFollows'
    BY <1>1, TableKept DEF IInv, TypeOK, Row, LateFollows
  <1>8. AckedDurable'
    BY <1>1 DEF IInv, AckedDurable, Keys
  <1>. QED
    BY <1>1, <1>4, <1>5, <1>6, <1>7, <1>8, TableKept DEF IInv

\* A step that changes neither the table, nor a cache, nor who is up keeps the
\* invariant if every record newly on its way follows the table.
LEMMA CacheKept ==
    ASSUME IInv, UNCHANGED <<table, up, headHash, nextSeq, acked>>
    PROVE  CacheIsPrefix' /\ CacheTenant' /\ AckedDurable'
  BY DEF IInv, CacheIsPrefix, CacheTenant, AckedDurable, HeadBefore, Keys

\* An append starts from the cache, so its record follows the table.
LEMMA BeginAppendKeeps ==
    ASSUME IInv, NEW w \in Writers, NEW kind \in Kinds, NEW payload \in Payloads,
           NEW time \in Times, BeginAppend(w, kind, payload, time)
    PROVE  IInv'
  <1>k. kind \in RecordKinds
    BY DEF BeginAppend, RecordKinds
  <1>0. PICK rec \in Record :
           /\ rec = ChainedRecord(nextSeq[w], time, kind, payload, headHash[w])
           /\ rec.seq = nextSeq[w] /\ rec.prev = headHash[w]
           /\ rec.hash = ComputeHash(rec)
    BY <1>k, ChainedRecordType DEF IInv, TypeOK
  <1>1. /\ w \in up
        /\ pending' = [pending EXCEPT ![w] = rec]
        /\ UNCHANGED <<table, up, headHash, nextSeq, late, acked>>
    BY <1>0 DEF BeginAppend
  <1>2. /\ rec \in Record /\ rec.seq = nextSeq[w] /\ rec.prev = headHash[w]
        /\ rec.hash = ComputeHash(rec)
    BY <1>0
  <1>3. Follows(rec, TenantOf[w])
    BY <1>1, <1>2 DEF IInv, Follows, Chained, CacheIsPrefix, CacheTenant
  <1>4. TypeOK'
    BY <1>1, <1>2, TableKept DEF IInv, TypeOK
  <1>5. PendingFollows'
    <2> SUFFICES ASSUME NEW v \in Writers, pending'[v] # None
                 PROVE  /\ v \in up /\ pending'[v].seq = nextSeq[v]
                        /\ Follows(pending[v], TenantOf[v])'
      BY <1>1 DEF PendingFollows
    <2>1. TenantOf[v] \in Tenants
      BY WritersAssumption
    <2>2. CASE v = w
      <3>1. pending'[v] = rec
        BY <1>1, <2>2 DEF IInv, TypeOK
      <3>2. Follows(rec, TenantOf[v])'
        BY <1>1, <1>2, <1>3, <2>1, <2>2, TableKept
      <3>. QED
        BY <1>1, <1>2, <2>2, <3>1, <3>2 DEF Follows, Chained, ComputeHash
    <2>3. CASE v # w
      <3>1. pending'[v] = pending[v] /\ pending[v] \in Record
        BY <1>1, <2>3 DEF IInv, TypeOK
      <3>2. v \in up /\ pending[v].seq = nextSeq[v] /\ Follows(pending[v], TenantOf[v])
        BY <3>1 DEF IInv, PendingFollows
      <3>3. Follows(pending[v], TenantOf[v])'
        BY <1>1, <2>1, <3>1, <3>2 DEF Follows, Chained, HeadBefore, Keys, ComputeHash
      <3>. QED
        BY <3>1, <3>2, <3>3
    <2>. QED
      BY <2>2, <2>3
  <1>6. LateFollows'
    BY <1>1, TableKept DEF IInv, TypeOK, Row, LateFollows
  <1>. QED
    BY <1>1, <1>4, <1>5, <1>6, TableKept, CacheKept DEF IInv

\* What is pending elsewhere follows a table that kept its rows.
LEMMA OthersFollow ==
    ASSUME IInv, Keys \subseteq Keys', \A k \in Keys : table'[k] = table[k],
           NEW v \in Writers, pending[v] # None, pending'[v] = pending[v]
    PROVE  Follows(pending[v], TenantOf[v])'
  <1>1. pending[v] \in Record /\ Follows(pending[v], TenantOf[v])
    BY DEF IInv, TypeOK, PendingFollows
  <1>. QED
    BY <1>1, FollowsKept DEF Follows, Chained, ComputeHash

\* So do the inserts that were given up.
LEMMA LateStillFollow ==
    ASSUME IInv, Keys \subseteq Keys', \A k \in Keys : table'[k] = table[k],
           late' \subseteq late
    PROVE  LateFollows'
  <1>1. \A row \in late : row.rec \in Record /\ Follows(row.rec, row.tenant)
    BY DEF IInv, TypeOK, Row, LateFollows
  <1>. QED
    BY <1>1, FollowsKept DEF LateFollows

\* A pending append that leaves by an error, a timeout or a crash.  Whatever
\* late insert it leaves behind follows the table, as the append did.
LEMMA GiveUpKeeps ==
    ASSUME IInv, NEW w \in Writers,
           UNCHANGED <<table, up, headHash, nextSeq, acked>>,
           pending' = [pending EXCEPT ![w] = None],
           \/ late' \subseteq late
           \/ pending[w] # None /\ late' = late \cup {RowOf(pending[w], TenantOf[w])}
    PROVE  IInv'
  <1>1. Keys' = Keys /\ \A k \in Keys : table'[k] = table[k]
    BY DEF Keys
  <1>2. PendingFollows'
    <2> SUFFICES ASSUME NEW v \in Writers, pending'[v] # None
                 PROVE  /\ v \in up /\ pending'[v].seq = nextSeq[v]
                        /\ Follows(pending[v], TenantOf[v])'
      BY DEF PendingFollows
    <2>1. v # w /\ pending'[v] = pending[v]
      BY DEF IInv, TypeOK
    <2>. QED
      BY <1>1, <2>1, OthersFollow DEF IInv, PendingFollows
  <1>3. LateFollows' /\ late' \subseteq Row
    <2>1. CASE late' \subseteq late
      BY <1>1, <2>1, LateStillFollow DEF IInv, TypeOK
    <2>2. CASE pending[w] # None /\ late' = late \cup {RowOf(pending[w], TenantOf[w])}
      <3>1. /\ pending[w] \in Record /\ TenantOf[w] \in Tenants
            /\ Follows(pending[w], TenantOf[w])
        BY <2>2, WritersAssumption DEF IInv, TypeOK, PendingFollows
      <3>2. \A row \in late' : row.rec \in Record /\ row.tenant \in Tenants
                                /\ Follows(row.rec, row.tenant)
        BY <2>2, <3>1 DEF IInv, TypeOK, Row, RowOf, LateFollows
      <3>3. LateFollows'
        BY <1>1, <3>2, FollowsKept DEF LateFollows
      <3>4. late' \subseteq Row
        BY <2>2, <3>1 DEF IInv, TypeOK, Row, RowOf
      <3>. QED
        BY <3>3, <3>4
    <2>. QED
      BY <2>1, <2>2
  <1>4. TypeOK'
    BY <1>3, TableKept DEF IInv, TypeOK
  <1>. QED
    BY <1>2, <1>3, <1>4, TableKept, CacheKept DEF IInv

\* The insert that succeeds extends the chain and its store's cache with it.
LEMMA InsertOkKeeps ==
    ASSUME IInv, NEW w \in Writers, InsertOk(w)
    PROVE  IInv'
  <1>1. PICK rec \in Record : rec = pending[w]
    BY DEF InsertOk, IInv, TypeOK
  <1>2. /\ rec # None /\ Insertable(rec)
        /\ table' = Inserted(rec, TenantOf[w])
        /\ headHash' = [headHash EXCEPT ![w] = rec.hash]
        /\ nextSeq' = [nextSeq EXCEPT ![w] = @ + 1]
        /\ pending' = [pending EXCEPT ![w] = None]
        /\ acked' = acked \cup {rec}
        /\ UNCHANGED <<up, late>>
    BY <1>1 DEF InsertOk
  <1>3. w \in up /\ rec.seq = nextSeq[w] /\ Follows(rec, TenantOf[w])
    BY <1>1, <1>2 DEF IInv, PendingFollows
  <1>4. TenantOf[w] \in Tenants /\ rec.seq \in Nat /\ rec.hash \in Digest
    BY WritersAssumption DEF Record
  <1>5. /\ Keys \subseteq Keys' /\ rec.seq \in Keys'
        /\ \A k \in Keys : table'[k] = table[k]
        /\ table'[rec.seq] = RowOf(rec, TenantOf[w])
        /\ table' \in [Keys' -> Row] /\ Keys' \subseteq Nat
        /\ Contiguous' /\ RowsChained' /\ OneTenant'
    BY <1>2, <1>3, <1>4, InsertExtends
  <1>6. TypeOK'
    BY <1>2, <1>4, <1>5 DEF IInv, TypeOK
  <1>7. CacheIsPrefix' /\ CacheTenant'
    <2> SUFFICES ASSUME NEW v \in up
                 PROVE  /\ nextSeq'[v] = 0 \/ (nextSeq'[v] - 1 \in Keys' /\
                                               table'[nextSeq'[v] - 1].tenant = TenantOf[v])
                        /\ headHash'[v] = HeadBefore(nextSeq[v])'
      BY <1>2 DEF CacheIsPrefix, CacheTenant
    <2>1. v \in Writers /\ nextSeq[v] \in Nat
      BY DEF IInv, TypeOK
    <2>2. CASE v = w
      <3>1. nextSeq'[v] = rec.seq + 1 /\ headHash'[v] = rec.hash
        BY <1>2, <1>3, <2>1, <2>2 DEF IInv, TypeOK
      <3>2. (rec.seq + 1) - 1 = rec.seq /\ rec.seq + 1 # 0
        BY <1>4
      <3>3. table'[rec.seq].rec = rec /\ table'[rec.seq].tenant = TenantOf[w]
        BY <1>5 DEF RowOf
      <3>. QED
        BY <1>5, <2>2, <3>1, <3>2, <3>3 DEF HeadBefore
    <2>3. CASE v # w
      <3>1. nextSeq'[v] = nextSeq[v] /\ headHash'[v] = headHash[v]
        BY <1>2, <2>1, <2>3 DEF IInv, TypeOK
      <3>2. /\ nextSeq[v] = 0 \/ (nextSeq[v] - 1 \in Keys /\
                                  table[nextSeq[v] - 1].tenant = TenantOf[v])
            /\ headHash[v] = HeadBefore(nextSeq[v])
        BY DEF IInv, CacheIsPrefix, CacheTenant
      <3>. QED
        BY <1>5, <3>1, <3>2 DEF HeadBefore
    <2>. QED
      BY <2>2, <2>3
  <1>8. PendingFollows'
    <2> SUFFICES ASSUME NEW v \in Writers, pending'[v] # None
                 PROVE  /\ v \in up' /\ pending'[v].seq = nextSeq'[v]
                        /\ Follows(pending[v], TenantOf[v])'
      BY DEF PendingFollows
    <2>1. v # w /\ pending'[v] = pending[v] /\ nextSeq'[v] = nextSeq[v]
      BY <1>2 DEF IInv, TypeOK
    <2>. QED
      BY <1>2, <1>5, <2>1, OthersFollow DEF IInv, PendingFollows
  <1>9. LateFollows'
    BY <1>2, <1>5, LateStillFollow
  <1>10. AckedDurable'
    <2>1. \A r \in acked : r.seq \in Keys' /\ table'[r.seq].rec = r
      BY <1>5 DEF IInv, AckedDurable
    <2>2. rec.seq \in Keys' /\ table'[rec.seq].rec = rec
      BY <1>5 DEF RowOf
    <2>. QED
      BY <1>2, <2>1, <2>2 DEF AckedDurable
  <1>. QED
    BY <1>5, <1>6, <1>7, <1>8, <1>9, <1>10 DEF IInv

\* So does an insert that is executed after its client gave up; no cache learns
\* of it, and every cache is still a prefix.
LEMMA LateCommitKeeps ==
    ASSUME IInv, NEW row \in late, LateCommit(row)
    PROVE  IInv'
  <1>1. /\ Insertable(row.rec)
        /\ table' = Inserted(row.rec, row.tenant)
        /\ late' = late \ {row}
        /\ UNCHANGED <<up, headHash, nextSeq, pending, acked>>
    BY DEF LateCommit
  <1>2. /\ row.rec \in Record /\ row.tenant \in Tenants
        /\ Follows(row.rec, row.tenant)
    BY DEF IInv, TypeOK, Row, LateFollows
  <1>3. /\ Keys \subseteq Keys'
        /\ \A k \in Keys : table'[k] = table[k]
        /\ table' \in [Keys' -> Row] /\ Keys' \subseteq Nat
        /\ Contiguous' /\ RowsChained' /\ OneTenant'
    BY <1>1, <1>2, InsertExtends
  <1>4. TypeOK'
    BY <1>1, <1>3 DEF IInv, TypeOK
  <1>5. CacheIsPrefix' /\ CacheTenant'
    BY <1>1, <1>3 DEF IInv, CacheIsPrefix, CacheTenant, HeadBefore
  <1>6. PendingFollows'
    BY <1>1, <1>3, OthersFollow DEF IInv, PendingFollows
  <1>7. LateFollows'
    BY <1>1, <1>3, LateStillFollow
  <1>8. AckedDurable'
    BY <1>1, <1>3 DEF IInv, AckedDurable
  <1>. QED
    BY <1>3, <1>4, <1>5, <1>6, <1>7, <1>8 DEF IInv

\* A crash forgets the cache and gives the pending append up.
LEMMA CrashKeeps ==
    ASSUME IInv, NEW w \in Writers, Crash(w)
    PROVE  IInv'
  <1>1. /\ w \in up /\ up' = up \ {w}
        /\ pending' = [pending EXCEPT ![w] = None]
        /\ headHash' = [headHash EXCEPT ![w] = NoHash]
        /\ nextSeq' = [nextSeq EXCEPT ![w] = 0]
        /\ UNCHANGED <<table, acked>>
        /\ \/ late' = late
           \/ pending[w] # None /\ late' = late \cup {RowOf(pending[w], TenantOf[w])}
    BY DEF Crash
  <1>2. Keys' = Keys /\ \A k \in Keys : table'[k] = table[k]
    BY <1>1 DEF Keys
  <1>3. late' \subseteq Row /\ LateFollows'
    <2>1. CASE late' = late
      BY <1>2, <2>1, LateStillFollow DEF IInv, TypeOK
    <2>2. CASE pending[w] # None /\ late' = late \cup {RowOf(pending[w], TenantOf[w])}
      <3>1. /\ pending[w] \in Record /\ TenantOf[w] \in Tenants
            /\ Follows(pending[w], TenantOf[w])
        BY <2>2, WritersAssumption DEF IInv, TypeOK, PendingFollows
      <3>2. \A row \in late' : row.rec \in Record /\ Follows(row.rec, row.tenant)
        BY <2>2, <3>1 DEF IInv, TypeOK, Row, RowOf, LateFollows
      <3>3. LateFollows'
        BY <1>2, <3>2, FollowsKept DEF LateFollows
      <3>4. late' \subseteq Row
        BY <2>2, <3>1 DEF IInv, TypeOK, Row, RowOf
      <3>. QED
        BY <3>3, <3>4
    <2>. QED
      BY <1>1, <2>1, <2>2
  <1>4. TypeOK'
    <2>1. NoHash \in Digest
      BY EmptySeq DEF NoHash, Digest
    <2>. QED
      BY <1>1, <1>3, <2>1, TableKept DEF IInv, TypeOK
  <1>5. CacheIsPrefix' /\ CacheTenant'
    BY <1>1, <1>2 DEF IInv, TypeOK, CacheIsPrefix, CacheTenant, HeadBefore
  <1>6. PendingFollows'
    <2> SUFFICES ASSUME NEW v \in Writers, pending'[v] # None
                 PROVE  /\ v \in up' /\ pending'[v].seq = nextSeq'[v]
                        /\ Follows(pending[v], TenantOf[v])'
      BY DEF PendingFollows
    <2>1. v # w /\ pending'[v] = pending[v] /\ nextSeq'[v] = nextSeq[v]
      BY <1>1 DEF IInv, TypeOK
    <2>. QED
      BY <1>1, <1>2, <2>1, OthersFollow DEF IInv, PendingFollows
  <1>7. AckedDurable'
    BY <1>1, <1>2 DEF IInv, AckedDurable
  <1>. QED
    BY <1>1, <1>3, <1>4, <1>5, <1>6, <1>7, TableKept DEF IInv
-----------------------------------------------------------------------------
\* The invariant holds of the empty table.
LEMMA InitIInv == Init => IInv
  <1> SUFFICES ASSUME Init PROVE IInv
    OBVIOUS
  <1>1. Keys = {} /\ table \in [Keys -> Row]
    BY DEF Init, Keys
  <1>2. TypeOK
    BY <1>1, EmptySeq DEF Init, TypeOK, NoHash, Digest
  <1>3. Contiguous
    <2>1. 0 \in Nat /\ 0 .. 0 - 1 = {}
      OBVIOUS
    <2>. QED
      BY <1>1, <2>1 DEF Contiguous
  <1>4. /\ RowsChained /\ CacheIsPrefix /\ CacheTenant /\ PendingFollows
        /\ LateFollows /\ AckedDurable /\ OneTenant
    BY <1>1 DEF Init, RowsChained, CacheIsPrefix, CacheTenant, PendingFollows,
                LateFollows, AckedDurable, OneTenant
  <1>. QED
    BY <1>2, <1>3, <1>4 DEF IInv

\* The invariant is inductive.
LEMMA NextIInv == IInv /\ [Next]_pgVars => IInv'
  <1> SUFFICES ASSUME IInv, [Next]_pgVars PROVE IInv'
    OBVIOUS
  <1>1. ASSUME NEW w \in Writers, Open(w) PROVE IInv'
    BY <1>1, OpenKeeps
  <1>2. ASSUME NEW w \in Writers, NEW kind \in Kinds, NEW payload \in Payloads,
               NEW time \in Times, BeginAppend(w, kind, payload, time)
        PROVE  IInv'
    BY <1>2, BeginAppendKeeps
  <1>3. ASSUME NEW w \in Writers, InsertOk(w) PROVE IInv'
    BY <1>3, InsertOkKeeps
  <1>4. ASSUME NEW w \in Writers, InsertRefused(w) PROVE IInv'
    BY <1>4, GiveUpKeeps DEF InsertRefused
  <1>5. ASSUME NEW w \in Writers, InsertTimeout(w) PROVE IInv'
    BY <1>5, GiveUpKeeps DEF InsertTimeout
  <1>6. ASSUME NEW row \in late, LateCommit(row) PROVE IInv'
    BY <1>6, LateCommitKeeps
  <1>7. ASSUME NEW row \in late, LateDrop(row) PROVE IInv'
    <2>1. /\ UNCHANGED <<table, up, headHash, nextSeq, pending, acked>>
          /\ late' \subseteq late
      BY <1>7 DEF LateDrop
    <2>2. Keys' = Keys /\ \A k \in Keys : table'[k] = table[k]
      BY <2>1 DEF Keys
    <2>3. LateFollows' /\ late' \subseteq Row
      BY <2>1, <2>2, LateStillFollow DEF IInv, TypeOK
    <2>4. PendingFollows'
      BY <2>1, <2>2, OthersFollow DEF IInv, PendingFollows
    <2>5. TypeOK'
      BY <2>1, <2>3, TableKept DEF IInv, TypeOK
    <2>. QED
      BY <2>1, <2>3, <2>4, <2>5, TableKept, CacheKept DEF IInv
  <1>8. ASSUME NEW w \in Writers, Crash(w) PROVE IInv'
    BY <1>8, CrashKeeps
  <1>9. CASE UNCHANGED pgVars
    BY <1>9 DEF pgVars, IInv, TypeOK, Contiguous, RowsChained, CacheIsPrefix, CacheTenant,
                PendingFollows, LateFollows, AckedDurable, OneTenant, Follows, Chained,
                HeadBefore, Keys
  <1>. QED
    BY <1>1, <1>2, <1>3, <1>4, <1>5, <1>6, <1>7, <1>8, <1>9 DEF Next

\* So it holds of every behaviour.
THEOREM Invariance == Spec => []IInv
  BY InitIInv, NextIInv, PTL DEF Spec

\* Every variable keeps its type.
THEOREM TypeCorrect == Spec => []TypeOK
  BY Invariance, PTL DEF IInv

\* The table is one chain without gaps, whoever writes to it and whatever is
\* lost, late or restarted.
THEOREM TableIsOneChain == Spec => []OneChain
<1>1. IInv => OneChain
  <2> SUFFICES ASSUME IInv PROVE OneChain
    OBVIOUS
  <2>1. PICK n \in Nat : Keys = 0 .. n - 1
    BY DEF IInv, Contiguous
  <2>2. Size = n
    BY <2>1, SizeOfPrefix
  <2>. QED
    BY <2>1, <2>2 DEF IInv, RowsChained, OneChain, NoGap
<1>. QED
  BY <1>1, Invariance, PTL

\* A cache never runs ahead of the table, nor beside it.
THEOREM CachesArePrefixes == Spec => []CacheIsPrefix
  BY Invariance, PTL DEF IInv

\* An acknowledged record is never lost and never overwritten.
THEOREM AckedIsDurable == Spec => []AckedDurable
  BY Invariance, PTL DEF IInv

\* Rows of two tenants never stand in the table together.
THEOREM TenantsExcluded == Spec => []OneTenant
  BY Invariance, PTL DEF IInv

-----------------------------------------------------------------------------
\* The first n numbers, in their order.
LEMMA FirstNumbers ==
    ASSUME NEW n \in Nat
    PROVE  Ascending(0 .. n - 1) = [i \in 1 .. n |-> i - 1]
  <1> DEFINE S == 0 .. n - 1
  <1>1. Cardinality(S) = n
    BY FS_Interval
  <1>2. ASSUME NEW k \in S
        PROVE  Cardinality({j \in S : j < k}) = k
    <2>1. {j \in S : j < k} = 0 .. k - 1
      OBVIOUS
    <2>2. Cardinality(0 .. k - 1) = k
      BY FS_Interval
    <2>. QED
      BY <2>1, <2>2
  <1>3. ASSUME NEW i \in 1 .. n
        PROVE  (CHOOSE k \in S : Cardinality({j \in S : j < k}) = i - 1) = i - 1
    <2>1. PICK m \in S : m = i - 1
      OBVIOUS
    <2>. HIDE DEF S
    <2>2. Cardinality({j \in S : j < m}) = m
      BY <1>2
    <2>3. \A k \in S : Cardinality({j \in S : j < k}) = m => k = m
      BY <1>2
    <2>. QED
      BY <2>1, <2>2, <2>3
  <1>. QED
    <2>. HIDE DEF S
    <2>1. Ascending(S) = [i \in 1 .. n |-> i - 1]
      BY <1>1, <1>3 DEF Ascending
    <2>. QED
      BY <2>1 DEF S

\* A record that is read back has its number, its prev and its hash, and is the
\* one that was written if its content is.
LEMMA StoredKeeps ==
    ASSUME NEW rec \in Record
    PROVE  /\ Stored(rec).prev = rec.prev /\ Stored(rec).hash = rec.hash
           /\ ContentOf(Stored(rec)) = ContentOf(rec) => Stored(rec) = rec
  BY DEF Stored, Record, ContentOf

\* The hash on a prev tells the content that was hashed.
LEMMA HashTells ==
    ASSUME NEW p \in Digest, NEW c \in Content, NEW d, Append(p, c) = Append(p, d)
    PROVE  c = d
  <1>1. PICK S : S = Content \cup {d}
    OBVIOUS
  <1>2. p \in Seq(S) /\ c \in S /\ d \in S
    BY <1>1 DEF Digest
  <1>. QED
    BY <1>2, AppendInjective

\* A tenant that has rows has all of them, so its snapshot is the table.
LEMMA SnapshotIsTable ==
    ASSUME IInv, NEW n \in Nat, Keys = 0 .. n - 1, NEW t \in Tenants
    PROVE  \/ KeysOf(t) = {} /\ DOMAIN Snapshot(t) = {}
           \/ KeysOf(t) = Keys /\ Snapshot(t) = [i \in 1 .. n |-> Stored(table[i - 1].rec)]
  <1>1. CASE KeysOf(t) = {}
    <2>1. Ascending({}) = [i \in 1 .. 0 |-> i - 1]
      <3>1. 0 .. 0 - 1 = {}
        OBVIOUS
      <3>. QED
        BY <3>1, FirstNumbers, 0 \in Nat
    <2>2. DOMAIN Snapshot(t) = DOMAIN Ascending({})
      BY <1>1 DEF Snapshot
    <2>. QED
      BY <1>1, <2>1, <2>2
  <1>2. CASE KeysOf(t) # {}
    <2>1. KeysOf(t) = Keys
      BY <1>2 DEF IInv, OneTenant, KeysOf
    <2>2. Ascending(KeysOf(t)) = [i \in 1 .. n |-> i - 1]
      BY <2>1, FirstNumbers
    <2>3. Snapshot(t) = [i \in 1 .. n |-> Stored(table[i - 1].rec)]
      BY <2>2 DEF Snapshot
    <2>. QED
      BY <2>1, <2>3
  <1>. QED
    BY <1>1, <1>2

\* A record that is read back verifies exactly if it is the one written.
LEMMA RowVerifies ==
    ASSUME NEW rec \in Record, rec.hash = ComputeHash(rec)
    PROVE  Stored(rec).hash = HashWithPrev(Stored(rec), rec.prev) <=> Stored(rec) = rec
  <1>1. rec.prev \in Digest /\ ContentOf(rec) \in Content
    BY DEF Record, ContentOf, Content
  <1>2. rec.hash = Append(rec.prev, ContentOf(rec))
    BY DEF ComputeHash, HashWithPrev
  <1>3. ASSUME Stored(rec).hash = HashWithPrev(Stored(rec), rec.prev)
        PROVE  Stored(rec) = rec
    <2>1. Append(rec.prev, ContentOf(rec)) = Append(rec.prev, ContentOf(Stored(rec)))
      BY <1>2, <1>3, StoredKeeps DEF HashWithPrev
    <2>2. ContentOf(rec) = ContentOf(Stored(rec))
      BY <1>1, <2>1, HashTells
    <2>. QED
      BY <2>2, StoredKeeps
  <1>4. ASSUME Stored(rec) = rec
        PROVE  Stored(rec).hash = HashWithPrev(Stored(rec), rec.prev)
    BY <1>4 DEF ComputeHash
  <1>. QED
    BY <1>3, <1>4

\* Verify of rows that nothing has altered answers true exactly if each of them
\* survives its round trip through the column types.
THEOREM VerifyIsExact == Spec => []VerifyExact
<1>1. IInv => VerifyExact
  <2>. SUFFICES ASSUME IInv, NEW t \in Tenants
                PROVE  Verify(t) <=> \A k \in KeysOf(t) : Stored(table[k].rec) = table[k].rec
    BY DEF VerifyExact
  <2>1. PICK n \in Nat : Keys = 0 .. n - 1
    BY DEF IInv, Contiguous
  <2>2. CASE KeysOf(t) = {} /\ DOMAIN Snapshot(t) = {}
    BY <2>2 DEF Verify, VerifyRecords
  <2>3. CASE KeysOf(t) = Keys /\ Snapshot(t) = [i \in 1 .. n |-> Stored(table[i - 1].rec)]
    <3>1. PICK s : s = Snapshot(t)
      OBVIOUS
    <3>2. DOMAIN s = 1 .. n /\ \A i \in 1 .. n : s[i] = Stored(table[i - 1].rec)
      BY <2>3, <3>1
    <3>3. ASSUME NEW k \in Keys
          PROVE  /\ table[k].rec \in Record
                 /\ table[k].rec.hash = ComputeHash(table[k].rec)
                 /\ table[k].rec.prev = HeadBefore(k)
                 /\ Stored(table[k].rec).prev = table[k].rec.prev
                 /\ Stored(table[k].rec).hash = table[k].rec.hash
      <4>1. table[k] \in Row /\ table[k].rec.seq = k /\ Chained(table[k].rec)
        BY DEF IInv, TypeOK, RowsChained
      <4>2. table[k].rec \in Record
        BY <4>1 DEF Row
      <4>. QED
        BY <4>1, <4>2, StoredKeeps DEF Chained
    <3>4. ASSUME NEW i \in 1 .. n
          PROVE  PrevAt(s, i) = HeadBefore(i - 1)
      <4>1. CASE i = 1
        BY <4>1 DEF PrevAt, HeadBefore
      <4>2. CASE i # 1
        <5>1. i - 1 \in 1 .. n /\ (i - 1) - 1 \in Keys
          BY <4>2, <2>1
        <5>2. s[i - 1].hash = table[(i - 1) - 1].rec.hash
          BY <5>1, <3>2, <3>3
        <5>. QED
          BY <5>2, <4>2 DEF PrevAt, HeadBefore
      <4>. QED
        BY <4>1, <4>2
    <3>5. ASSUME NEW i \in 1 .. n
          PROVE  /\ s[i].hash = HashWithPrev(s[i], PrevAt(s, i))
                 /\ s[i].prev = PrevAt(s, i)
                 <=> Stored(table[i - 1].rec) = table[i - 1].rec
      <4>1. i - 1 \in Keys
        BY <2>1
      <4>2. PICK rec \in Record : rec = table[i - 1].rec
        BY <4>1, <3>3
      <4>3. /\ rec.hash = ComputeHash(rec)
            /\ s[i] = Stored(rec) /\ Stored(rec).prev = rec.prev
            /\ PrevAt(s, i) = rec.prev
        BY <4>1, <4>2, <3>2, <3>3, <3>4
      <4>. QED
        BY <4>2, <4>3, RowVerifies
    <3>6. Verify(t) <=> \A i \in 1 .. n : Stored(table[i - 1].rec) = table[i - 1].rec
      BY <3>1, <3>2, <3>5 DEF Verify, VerifyRecords
    <3>7. ASSUME NEW k \in Keys
          PROVE  k + 1 \in 1 .. n /\ (k + 1) - 1 = k
      BY <2>1
    <3>8. \A i \in 1 .. n : i - 1 \in Keys
      BY <2>1
    <3>. QED
      BY <2>3, <3>6, <3>7, <3>8
  <2>. QED
    BY <2>1, <2>2, <2>3, SnapshotIsTable
<1>. QED
  BY <1>1, Invariance, PTL

\* A store that has fallen behind the table stays where it is until it is
\* reopened.
THEOREM BehindStaysBehind == Spec => StuckUntilRestart
<1>1. IInv /\ [Next]_pgVars =>
        [\A w \in up : nextSeq[w] \in Keys /\ w \in up' => nextSeq'[w] = nextSeq[w]]_pgVars
  <2> SUFFICES ASSUME IInv, Next, NEW w \in up, nextSeq[w] \in Keys, w \in up'
               PROVE  nextSeq'[w] = nextSeq[w]
    OBVIOUS
  <2>1. w \in Writers
    BY DEF IInv, TypeOK
  <2>2. ASSUME NEW v \in Writers, Open(v) PROVE nextSeq'[w] = nextSeq[w]
    BY <2>1, <2>2 DEF Open, IInv, TypeOK
  <2>3. ASSUME NEW v \in Writers, InsertOk(v) PROVE nextSeq'[w] = nextSeq[w]
    <3>1. pending[v].seq = nextSeq[v] /\ nextSeq[v] \notin Keys
      BY <2>3 DEF InsertOk, Insertable, IInv, PendingFollows
    <3>2. v # w
      BY <3>1
    <3>. QED
      BY <2>1, <2>3, <3>2 DEF InsertOk, IInv, TypeOK
  <2>4. ASSUME NEW v \in Writers, Crash(v) PROVE nextSeq'[w] = nextSeq[w]
    BY <2>1, <2>4 DEF Crash, IInv, TypeOK
  <2>. QED
    BY <2>2, <2>3, <2>4 DEF Next, BeginAppend, InsertRefused, InsertTimeout,
                            LateCommit, LateDrop
<1>. QED
  BY <1>1, Invariance, PTL DEF Spec, StuckUntilRestart

\* Whenever a row is added, by an insert that succeeds or by one its client gave
\* up, every open store is behind the table afterwards, but the one whose Append
\* returned: with StuckUntilRestart, at most one of the processes that are up
\* can append until another is restarted.
OnlyTheWriterKeepsUp ==
    [][Keys' # Keys => \A v \in up' : nextSeq'[v] \in Keys' \/ InsertOk(v)]_pgVars

\* A store that is not the one that extended the table has its number taken.
LEMMA OthersFallBehind ==
    ASSUME IInv, NEW rec \in Record, NEW t \in Tenants, Follows(rec, t), Insertable(rec),
           table' = Inserted(rec, t), NEW v \in up
    PROVE  nextSeq[v] \in Keys'
  <1>1. Keys = 0 .. rec.seq - 1 /\ Keys' = 0 .. rec.seq /\ rec.seq \in Nat
    <2>1. rec.seq \in Nat
      BY DEF Record
    <2>. QED
      BY <2>1, InsertExtends
  <1>2. nextSeq[v] \in Nat /\ (nextSeq[v] = 0 \/ nextSeq[v] - 1 \in Keys)
    BY DEF IInv, TypeOK, CacheIsPrefix
  <1>. QED
    BY ONLY <1>1, <1>2

\* Of the stores that share the table one at most goes on; the others, and after
\* a late insert all of them, refuse every append until they are reopened.
THEOREM OneWriterAtMost == Spec => OnlyTheWriterKeepsUp
<1>1. IInv /\ [Next]_pgVars =>
        [Keys' # Keys => \A v \in up' : nextSeq'[v] \in Keys' \/ InsertOk(v)]_pgVars
  <2> SUFFICES ASSUME IInv, Next, Keys' # Keys, NEW v \in up', ~InsertOk(v)
               PROVE  nextSeq'[v] \in Keys'
    OBVIOUS
  <2>1. ASSUME NEW w \in Writers, InsertOk(w) PROVE nextSeq'[v] \in Keys'
    <3>1. PICK rec \in Record : rec = pending[w]
      BY <2>1 DEF InsertOk, IInv, TypeOK
    <3>2. /\ Follows(rec, TenantOf[w]) /\ Insertable(rec) /\ TenantOf[w] \in Tenants
          /\ table' = Inserted(rec, TenantOf[w]) /\ v \in up
      BY <2>1, <3>1, WritersAssumption DEF InsertOk, IInv, PendingFollows
    <3>3. v # w /\ nextSeq'[v] = nextSeq[v]
      BY <2>1, <3>2 DEF InsertOk, IInv, TypeOK
    <3>. QED
      BY <3>2, <3>3, OthersFallBehind
  <2>2. ASSUME NEW row \in late, LateCommit(row) PROVE nextSeq'[v] \in Keys'
    <3>1. /\ row.rec \in Record /\ row.tenant \in Tenants
          /\ Follows(row.rec, row.tenant) /\ Insertable(row.rec)
          /\ table' = Inserted(row.rec, row.tenant)
          /\ v \in up /\ nextSeq' = nextSeq
      BY <2>2 DEF LateCommit, IInv, TypeOK, Row, LateFollows
    <3>. QED
      BY <3>1, OthersFallBehind
  <2>. QED
    BY <2>1, <2>2 DEF Next, Open, BeginAppend, InsertRefused, InsertTimeout, LateDrop,
                      Crash, Keys
<1>. QED
  BY <1>1, Invariance, PTL DEF Spec, OnlyTheWriterKeepsUp
-----------------------------------------------------------------------------
\* The log that the table shows, as ImplementsAuditLog has it.
Shown == [i \in 1 .. Size |-> EntryOf(table[i - 1].rec)]

\* Inserting a record that follows the table is the abstract Extend: the log
\* shown grows by the record's entry.
LEMMA InsertShows ==
    ASSUME IInv, NEW rec \in Record, NEW t \in Tenants, Follows(rec, t), Insertable(rec),
           table' = Inserted(rec, t)
    PROVE  /\ Shown' = Append(Shown, EntryOf(rec))
           /\ EntryOf(rec).seq = Len(Shown)
  <1>1. /\ Keys = 0 .. rec.seq - 1 /\ Keys' = 0 .. rec.seq
        /\ \A k \in Keys : table'[k] = table[k]
        /\ table'[rec.seq].rec = rec
    <2>1. /\ Keys = 0 .. rec.seq - 1 /\ Keys' = 0 .. rec.seq
          /\ \A k \in Keys : table'[k] = table[k]
          /\ table'[rec.seq] = RowOf(rec, t)
      BY InsertExtends
    <2>. QED
      BY <2>1 DEF RowOf
  <1>2. rec.seq \in Nat
    BY DEF Record
  <1>3. Size = rec.seq
    BY <1>1, <1>2, SizeOfPrefix
  <1>4. Size' = rec.seq + 1
    BY <1>1, <1>2, FS_Interval DEF Size
  <1>5. Shown' = [i \in 1 .. rec.seq + 1 |->
                    IF i = rec.seq + 1 THEN EntryOf(rec) ELSE EntryOf(table[i - 1].rec)]
    <2>1. ASSUME NEW i \in 1 .. rec.seq + 1
          PROVE  EntryOf(table[i - 1].rec)' =
                 IF i = rec.seq + 1 THEN EntryOf(rec) ELSE EntryOf(table[i - 1].rec)
      <3>1. i - 1 = rec.seq \/ i - 1 \in Keys
        BY <1>1, <1>2
      <3>. QED
        BY <1>1, <1>2, <3>1 DEF EntryOf, BodyOf
    <2>. QED
      BY <1>4, <2>1 DEF Shown
  <1>6. Shown \in Seq({EntryOf(table[k].rec) : k \in Keys}) /\ Len(Shown) = rec.seq
    BY <1>1, <1>2, <1>3 DEF Shown
  <1>7. Append(Shown, EntryOf(rec)) =
          [i \in 1 .. rec.seq + 1 |->
             IF i = rec.seq + 1 THEN EntryOf(rec) ELSE EntryOf(table[i - 1].rec)]
    BY <1>2, <1>3, <1>6 DEF Shown
  <1>. QED
    BY <1>5, <1>6, <1>7 DEF EntryOf

\* The Postgres store, with every hazard of its deployment, is an append-only
\* log that acknowledges only what it holds.
THEOREM Refinement == Spec => ImplementsAuditLog
<1>1. Init => Log!Init
  <2> SUFFICES ASSUME Init PROVE Log!Init
    OBVIOUS
  <2>1. Keys = {} /\ acked = {}
    BY DEF Init, Keys
  <2>2. Size = 0
    <3>1. Keys = 0 .. 0 - 1
      BY <2>1
    <3>. QED
      BY <3>1, SizeOfPrefix
  <2>. QED
    BY <2>1, <2>2 DEF Log!Init
<1>2. IInv /\ [Next]_pgVars => [Log!Next]_(Log!logVars)
  <2> SUFFICES ASSUME IInv, [Next]_pgVars PROVE [Log!Next]_(Log!logVars)
    OBVIOUS
  <2>1. ASSUME UNCHANGED <<table, acked>> PROVE UNCHANGED Log!logVars
    BY <2>1 DEF Log!logVars, Size, Keys, EntryOf, BodyOf
  <2>2. ASSUME NEW w \in Writers, InsertOk(w) PROVE Log!Next
    <3>1. PICK rec \in Record : rec = pending[w]
      BY <2>2 DEF InsertOk, IInv, TypeOK
    <3>2. /\ Follows(rec, TenantOf[w]) /\ Insertable(rec) /\ TenantOf[w] \in Tenants
          /\ table' = Inserted(rec, TenantOf[w])
          /\ acked' = acked \cup {rec}
      BY <2>2, <3>1, WritersAssumption DEF InsertOk, IInv, PendingFollows
    <3>3. Shown' = Append(Shown, EntryOf(rec)) /\ EntryOf(rec).seq = Len(Shown)
      BY <3>2, InsertShows
    <3>4. {EntryOf(r) : r \in acked'} = {EntryOf(r) : r \in acked} \cup {EntryOf(rec)}
      BY <3>2
    <3>5. BodyOf(rec) \in [time : Times, kind : RecordKinds, payload : Payloads]
      BY DEF BodyOf, Record
    <3>6. Log!Extend(BodyOf(rec), TRUE)
      BY <3>3, <3>4 DEF Log!Extend, Shown, EntryOf, BodyOf
    <3>. QED
      BY <3>5, <3>6 DEF Log!Next
  <2>3. ASSUME NEW row \in late, LateCommit(row) PROVE Log!Next
    <3>1. /\ row.rec \in Record /\ row.tenant \in Tenants
          /\ Follows(row.rec, row.tenant) /\ Insertable(row.rec)
          /\ table' = Inserted(row.rec, row.tenant)
          /\ acked' = acked
      BY <2>3 DEF LateCommit, IInv, TypeOK, Row, LateFollows
    <3>2. Shown' = Append(Shown, EntryOf(row.rec)) /\ EntryOf(row.rec).seq = Len(Shown)
      BY <3>1, InsertShows
    <3>3. BodyOf(row.rec) \in [time : Times, kind : RecordKinds, payload : Payloads]
      BY <3>1 DEF BodyOf, Record
    <3>4. Log!Extend(BodyOf(row.rec), FALSE)
      BY <3>1, <3>2 DEF Log!Extend, Shown, EntryOf, BodyOf
    <3>. QED
      BY <3>3, <3>4 DEF Log!Next
  <2>. QED
    BY <2>1, <2>2, <2>3 DEF Next, Open, BeginAppend, InsertRefused, InsertTimeout,
                            LateDrop, Crash, pgVars
<1>. QED
  BY <1>1, <1>2, Invariance, PTL DEF Spec, ImplementsAuditLog, Log!Spec
=============================================================================
