------------------------------ MODULE HashChain ------------------------------
(***************************************************************************)
(* Records of the audit chain, their hash and the verification of an       *)
(* ordered slice of records: the pure part of internal/auditlog/chain.go,  *)
(* used by the in-memory chain and by the Postgres store alike.            *)
(*                                                                         *)
(* SHA-256 over the canonical bytes of a record is modelled as a           *)
(* collision-free digest: the digest of a record IS the list of contents   *)
(* it commits to, its own content appended to what the previous digest     *)
(* commits to.  The empty string that precedes the first record is <<>>.   *)
(***************************************************************************)
EXTENDS Integers, Sequences

CONSTANTS Kinds,      \* record kinds: "ingest", "decision", ...; "" is the missing kind
          Payloads,   \* serialised JSON payloads
          Times       \* UTC timestamps

ASSUME TimesAssumption == Times \subseteq Nat

RecordKinds == Kinds \ {""}

\* The fields that canonicalBytes serialises, PrevHash apart.
Content == [seq : Nat, time : Times, kind : RecordKinds, payload : Payloads]

Digest == Seq(Content)
NoHash == <<>>

Record == [seq : Nat, time : Times, kind : RecordKinds, payload : Payloads,
           prev : Digest, hash : Digest]

ContentOf(r) ==
    [seq |-> r.seq, time |-> r.time, kind |-> r.kind, payload |-> r.payload]

\* The digest of r chained on prev; r.prev and r.hash play no part in it.
HashWithPrev(r, prev) == Append(prev, ContentOf(r))

ComputeHash(r) == HashWithPrev(r, r.prev)

\* The record an Append builds from the cached head: hashed on the prev it stores.
ChainedRecord(seq, time, kind, payload, prev) ==
    LET content == [seq |-> seq, time |-> time, kind |-> kind, payload |-> payload]
    IN  [seq |-> seq, time |-> time, kind |-> kind, payload |-> payload,
         prev |-> prev, hash |-> HashWithPrev(content, prev)]

\* The variable prev of VerifyRecords' loop when it reaches position i.
PrevAt(s, i) == IF i = 1 THEN NoHash ELSE s[i - 1].hash

\* Slips in VerifyRecords: the stored prev_hash is trusted; the hashes are not
\* computed again.
VerifyTrustingPrev(s) == \A i \in DOMAIN s : s[i].hash = ComputeHash(s[i])
VerifyLinksOnly(s) == \A i \in DOMAIN s : s[i].prev = PrevAt(s, i)

VerifyRecords(s) ==
    \A i \in DOMAIN s : /\ s[i].hash = HashWithPrev(s[i], PrevAt(s, i))
                        /\ s[i].prev = PrevAt(s, i)
=============================================================================
