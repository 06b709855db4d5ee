------------------------------ MODULE AuditChain ------------------------------
(***************************************************************************)
(* auditlog.Chain, the in-memory store: Append runs wholly under c.mu, so  *)
(* any number of goroutines calling it is a sequence of Append steps.      *)
(* Verify, Len, HeadHash and Snapshot take the same mutex and only read.   *)
(***************************************************************************)
EXTENDS HashChain, SequencesExt

VARIABLES records, headHash, nextSeq

chainVars == <<records, headHash, nextSeq>>

\* NewChain.
Init == records = <<>> /\ headHash = NoHash /\ nextSeq = 0

\* Slips in Append: any kind is taken; the head is not advanced; the sequence
\* number is not advanced.
AppendAnyKind(kind, payload, time) ==
    LET rec == ChainedRecord(nextSeq, time, kind, payload, headHash)
    IN  /\ records' = Append(records, rec)
        /\ headHash' = rec.hash
        /\ nextSeq' = nextSeq + 1
AppendKeepingHead(kind, payload, time) ==
    /\ kind # ""
    /\ records' = Append(records, ChainedRecord(nextSeq, time, kind, payload, headHash))
    /\ nextSeq' = nextSeq + 1
    /\ UNCHANGED headHash
AppendKeepingSeq(kind, payload, time) ==
    LET rec == ChainedRecord(nextSeq, time, kind, payload, headHash)
    IN  /\ kind # ""
        /\ records' = Append(records, rec)
        /\ headHash' = rec.hash
        /\ UNCHANGED nextSeq

\* Chain.Append; a call without a kind returns an error and changes nothing.
\* The payloads are those json.Marshal accepts.
AppendRecord(kind, payload, time) ==
    LET rec == ChainedRecord(nextSeq, time, kind, payload, headHash)
    IN  /\ kind # ""
        /\ records' = Append(records, rec)
        /\ headHash' = rec.hash
        /\ nextSeq' = nextSeq + 1

Next == \E kind \in Kinds, payload \in Payloads, time \in Times :
            AppendRecord(kind, payload, time)

Spec == Init /\ [][Next]_chainVars
-----------------------------------------------------------------------------
\* Every field of the chain has its Go type, and no record is without a kind.
TypeOK == /\ records \in Seq(Record)
          /\ headHash \in Digest
          /\ nextSeq \in Nat

\* Verify answers true on what Append built, and the cached head and number
\* are those of the next record: numbers follow positions and the head is the
\* digest of the last record.  This is the invariant every caller relies on.
Intact == /\ VerifyRecords(records)
          /\ nextSeq = Len(records)
          /\ headHash = PrevAt(records, Len(records) + 1)
          /\ \A i \in DOMAIN records : records[i].seq = i - 1

\* "Any tampering with a historical record breaks the chain" (chain.go:7): no
\* record of the chain can be replaced by another, its own hash recomputed or
\* not, without Verify noticing.  For the last record only a replacement that
\* keeps its hash is noticed, because nothing follows it yet.
EditDetectedIn(s, e) ==
    \A i \in DOMAIN s :
        (e # s[i] /\ (i < Len(s) \/ e.hash = s[i].hash))
            => ~VerifyRecords([s EXCEPT ![i] = e])

\* The edits chain_test.go makes: another payload, hash kept or recomputed, and
\* another prev_hash with the hash recomputed on it.
EditsOf(r) == {[r EXCEPT !.payload = p] : p \in Payloads}
              \cup {ChainedRecord(r.seq, r.time, r.kind, p, q) :
                      p \in Payloads, q \in {NoHash, r.prev, headHash}}
Edits == UNION {EditsOf(records[i]) : i \in DOMAIN records}

EditDetected == \A e \in Edits : EditDetectedIn(records, e)

\* A record removed from below the last one breaks the chain, whatever follows
\* it (chain_test.go:85).
RemovalDetectedIn(s) == \A i \in 1 .. Len(s) - 1 : ~VerifyRecords(RemoveAt(s, i))

RemovalDetected == RemovalDetectedIn(records)

\* The chain is an append-only log in which every acknowledged record stays put.
Log == INSTANCE AuditLog
       WITH Body <- [time : Times, kind : RecordKinds, payload : Payloads],
            log <- [i \in DOMAIN records |->
                       [seq |-> i - 1,
                        body |-> [time |-> records[i].time, kind |-> records[i].kind,
                                  payload |-> records[i].payload]]],
            acked <- {[seq |-> records[i].seq,
                       body |-> [time |-> records[i].time, kind |-> records[i].kind,
                                 payload |-> records[i].payload]] : i \in DOMAIN records}

ImplementsAuditLog == Log!Spec
=============================================================================
