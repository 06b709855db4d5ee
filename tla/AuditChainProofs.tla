--------------------------- MODULE AuditChainProofs ---------------------------
(***************************************************************************)
(* What holds of the in-memory audit chain for any kinds, payloads and     *)
(* times and for chains of any length.                                     *)
(***************************************************************************)
EXTENDS AuditChain, SequenceTheorems, WellFoundedInduction, TLAPS

\* A record built from typed parts is a record, and its hash commits to its
\* content and to the prev it stores.
LEMMA ChainedRecordType ==
    ASSUME NEW seq \in Nat, NEW time \in Times, NEW kind \in RecordKinds,
           NEW payload \in Payloads, NEW prev \in Digest
    PROVE  LET rec == ChainedRecord(seq, time, kind, payload, prev)
           IN  /\ rec \in Record
               /\ rec.seq = seq
               /\ rec.prev = prev
               /\ rec.hash = HashWithPrev(rec, prev)
  <1> DEFINE content == [seq |-> seq, time |-> time, kind |-> kind, payload |-> payload]
  <1>1. content \in Content
    BY DEF Content
  <1>2. Append(prev, content) \in Digest
    BY <1>1, AppendProperties DEF Digest
  <1>. QED
    BY <1>1, <1>2 DEF ChainedRecord, HashWithPrev, ContentOf, Record, Content

\* HashWithPrev is collision-free: it determines the previous digest and the
\* content.
LEMMA HashInjective ==
    ASSUME NEW r \in Record, NEW e \in Record, NEW p \in Digest, NEW q \in Digest,
           HashWithPrev(r, p) = HashWithPrev(e, q)
    PROVE  p = q /\ ContentOf(r) = ContentOf(e)
  <1>1. ContentOf(r) \in Content /\ ContentOf(e) \in Content
    BY DEF ContentOf, Content, Record
  <1>. QED
    BY <1>1, AppendInjective DEF HashWithPrev, Digest

\* Two records with the same content, prev and hash are the same record.
LEMMA SameFieldsSameRecord ==
    ASSUME NEW r \in Record, NEW e \in Record,
           ContentOf(r) = ContentOf(e), r.prev = e.prev, r.hash = e.hash
    PROVE  r = e
  <1>1. r.seq = e.seq /\ r.time = e.time /\ r.kind = e.kind /\ r.payload = e.payload
    BY DEF ContentOf
  <1>. QED
    BY <1>1 DEF Record

\* The variable prev of the verification loop is always a digest.
LEMMA PrevAtType ==
    ASSUME NEW s \in Seq(Record), NEW i \in 1 .. Len(s) + 1
    PROVE  PrevAt(s, i) \in Digest
  <1>1. NoHash \in Digest
    BY DEF NoHash, Digest
  <1>2. CASE i = 1
    BY <1>1, <1>2 DEF PrevAt
  <1>3. CASE i # 1
    <2>1. i - 1 \in 1 .. Len(s)
      BY <1>3
    <2>2. s[i - 1] \in Record
      BY <2>1, ElementOfSeq
    <2>. QED
      BY <1>3, <2>2 DEF PrevAt, Record
  <1>. QED
    BY <1>2, <1>3

-----------------------------------------------------------------------------
\* The chain's fields keep their types.
THEOREM TypeCorrect == Spec => []TypeOK
<1>1. Init => TypeOK
  BY EmptySeq DEF Init, TypeOK, NoHash, Digest
<1>2. TypeOK /\ [Next]_chainVars => TypeOK'
  <2> SUFFICES ASSUME TypeOK, [Next]_chainVars PROVE TypeOK'
    OBVIOUS
  <2>1. CASE UNCHANGED chainVars
    BY <2>1 DEF TypeOK, chainVars
  <2>2. ASSUME NEW kind \in Kinds, NEW payload \in Payloads, NEW time \in Times,
               AppendRecord(kind, payload, time)
        PROVE  TypeOK'
    <3> DEFINE rec == ChainedRecord(nextSeq, time, kind, payload, headHash)
    <3>0. kind \in RecordKinds
      BY <2>2 DEF AppendRecord, RecordKinds
    <3>1. rec \in Record
      BY <3>0, ChainedRecordType DEF TypeOK
    <3>2. /\ records' = Append(records, rec)
          /\ headHash' = rec.hash
          /\ nextSeq' = nextSeq + 1
      BY <2>2 DEF AppendRecord
    <3> HIDE DEF rec
    <3>3. records' \in Seq(Record)
      BY <3>1, <3>2, AppendProperties DEF TypeOK
    <3>. QED
      BY <3>1, <3>2, <3>3 DEF TypeOK, Record
  <2>. QED
    BY <2>1, <2>2 DEF Next
<1>. QED
  BY <1>1, <1>2, PTL DEF Spec

\* Appending the record chained on the head to an intact chain leaves it intact.
LEMMA AppendKeepsIntact ==
    ASSUME TypeOK, Intact,
           NEW kind \in Kinds, NEW payload \in Payloads, NEW time \in Times,
           AppendRecord(kind, payload, time)
    PROVE  Intact'
  <1> DEFINE rec == ChainedRecord(nextSeq, time, kind, payload, headHash)
             n == Len(records)
  <1>0. kind \in RecordKinds
    BY DEF AppendRecord, RecordKinds
  <1>1. /\ rec \in Record /\ rec.seq = nextSeq /\ rec.prev = headHash
        /\ rec.hash = HashWithPrev(rec, headHash)
    BY <1>0, ChainedRecordType DEF TypeOK
  <1> HIDE DEF rec
  <1>2. /\ records' = Append(records, rec)
        /\ headHash' = rec.hash
        /\ nextSeq' = nextSeq + 1
    BY DEF AppendRecord, rec
  <1>3. /\ n \in Nat
        /\ Len(records') = n + 1
        /\ DOMAIN records' = 1 .. n + 1
        /\ \A i \in 1 .. n : records'[i] = records[i]
        /\ records'[n + 1] = rec
    BY <1>1, <1>2, AppendProperties, LenProperties DEF TypeOK
  <1>4. \A i \in 1 .. n + 1 : PrevAt(records', i) = PrevAt(records, i)
    BY <1>3 DEF PrevAt
  <1>5. ASSUME NEW i \in DOMAIN records'
        PROVE  /\ records'[i].hash = HashWithPrev(records'[i], PrevAt(records', i))
               /\ records'[i].prev = PrevAt(records', i)
    <2>1. CASE i = n + 1
      BY <1>1, <1>3, <1>4, <2>1 DEF Intact
    <2>2. CASE i \in 1 .. n
      BY <1>3, <1>4, <2>2, LenProperties DEF Intact, VerifyRecords, TypeOK
    <2>. QED
      BY <1>3, <2>1, <2>2
  <1>6. VerifyRecords(records')
    BY <1>5 DEF VerifyRecords
  <1>7. nextSeq' = Len(records')
    BY <1>2, <1>3 DEF Intact
  <1>8. headHash' = PrevAt(records', Len(records') + 1)
    BY <1>2, <1>3 DEF PrevAt
  <1>9. \A i \in DOMAIN records' : records'[i].seq = i - 1
    BY <1>1, <1>3, LenProperties DEF Intact, TypeOK
  <1>. QED
    BY <1>6, <1>7, <1>8, <1>9 DEF Intact

\* Verify answers true of every chain the program builds, and the cached head
\* and number always belong to the next record.
THEOREM ChainIntact == Spec => []Intact
<1>1. Init => Intact
  BY DEF Init, Intact, VerifyRecords, PrevAt, NoHash
<1>2. TypeOK /\ Intact /\ [Next]_chainVars => Intact'
  <2> SUFFICES ASSUME TypeOK, Intact, [Next]_chainVars PROVE Intact'
    OBVIOUS
  <2>1. CASE UNCHANGED chainVars
    BY <2>1 DEF Intact, VerifyRecords, PrevAt, chainVars
  <2>2. CASE Next
    BY <2>2, AppendKeepsIntact DEF Next
  <2>. QED
    BY <2>1, <2>2
<1>. QED
  BY <1>1, <1>2, TypeCorrect, PTL DEF Spec

-----------------------------------------------------------------------------
\* In any chain that verifies, whatever built it, an edited record is noticed
\* unless it is the last one and its hash was recomputed with it.
THEOREM EditsAreDetected ==
    ASSUME NEW s \in Seq(Record), VerifyRecords(s), NEW e \in Record
    PROVE  EditDetectedIn(s, e)
  <1> SUFFICES ASSUME NEW i \in DOMAIN s, e # s[i], i < Len(s) \/ e.hash = s[i].hash,
                      VerifyRecords([s EXCEPT ![i] = e])
               PROVE  FALSE
    BY DEF EditDetectedIn
  <1> DEFINE t == [s EXCEPT ![i] = e]
  <1>1. /\ i \in 1 .. Len(s) /\ Len(s) \in Nat
        /\ t \in Seq(Record) /\ Len(t) = Len(s)
        /\ DOMAIN t = 1 .. Len(s) /\ DOMAIN s = 1 .. Len(s)
        /\ t[i] = e
        /\ \A j \in 1 .. Len(s) : j # i => t[j] = s[j]
    BY LenProperties, ExceptSeq
  <1> HIDE DEF t
  <1>2. VerifyRecords(t)
    BY DEF t
  <1>3. PrevAt(t, i) = PrevAt(s, i)
    BY <1>1 DEF PrevAt
  \* The edited record still follows the same digest and commits to its content.
  <1>4. /\ e.prev = PrevAt(s, i) /\ e.hash = HashWithPrev(e, PrevAt(s, i))
        /\ s[i].prev = PrevAt(s, i) /\ s[i].hash = HashWithPrev(s[i], PrevAt(s, i))
    BY <1>1, <1>2, <1>3 DEF VerifyRecords
  \* Its hash is the old one: either it was kept, or the next record's prev says so.
  <1>5. e.hash = s[i].hash
    <2>1. CASE i < Len(s)
      <3>1. i + 1 \in DOMAIN s /\ i + 1 \in DOMAIN t /\ t[i + 1] = s[i + 1]
        BY <1>1, <2>1
      <3>2. t[i + 1].prev = PrevAt(t, i + 1) /\ s[i + 1].prev = PrevAt(s, i + 1)
        BY <1>2, <3>1 DEF VerifyRecords
      <3>3. PrevAt(t, i + 1) = e.hash /\ PrevAt(s, i + 1) = s[i].hash
        BY <1>1 DEF PrevAt
      <3>. QED
        BY <3>1, <3>2, <3>3
    <2>. QED
      BY <2>1
  <1>6. s[i] \in Record /\ PrevAt(s, i) \in Digest
    BY <1>1, ElementOfSeq, PrevAtType
  <1>7. HashWithPrev(e, PrevAt(s, i)) = HashWithPrev(s[i], PrevAt(s, i))
    BY <1>4, <1>5
  <1>8. ContentOf(e) = ContentOf(s[i])
    BY <1>6, <1>7, HashInjective
  <1>9. e = s[i]
    BY <1>4, <1>5, <1>6, <1>8, SameFieldsSameRecord
  <1>. QED
    BY <1>9

\* In any chain that verifies, removing any record but the last is noticed.
THEOREM RemovalsAreDetected ==
    ASSUME NEW s \in Seq(Record), VerifyRecords(s)
    PROVE  RemovalDetectedIn(s)
  <1> SUFFICES ASSUME NEW i \in 1 .. Len(s) - 1, VerifyRecords(RemoveAt(s, i))
               PROVE  FALSE
    BY DEF RemovalDetectedIn
  <1> DEFINE t == RemoveAt(s, i)
             low == SubSeq(s, 1, i - 1)
             high == SubSeq(s, i + 1, Len(s))
  <1>1. /\ Len(s) \in Nat /\ DOMAIN s = 1 .. Len(s)
        /\ \A j \in 1 .. Len(s) : s[j] \in Record
    BY LenProperties, ElementOfSeq
  <1>2. /\ low \in Seq(Record) /\ Len(low) = i - 1
        /\ \A j \in 1 .. i - 1 : low[j] = s[j]
    <2>1. \A j \in 1 .. i - 1 : s[j] \in Record
      BY <1>1
    <2>. QED
      BY <1>1, <2>1, SubSeqProperties
  <1>3. /\ high \in Seq(Record) /\ Len(high) = Len(s) - i
        /\ \A j \in 1 .. Len(s) - i : high[j] = s[i + j]
    <2>1. \A j \in i + 1 .. Len(s) : s[j] \in Record
      BY <1>1
    <2>. QED
      BY <1>1, <2>1, SubSeqProperties
  <1>4. t = low \o high
    BY DEF RemoveAt
  <1> HIDE DEF low, high, t
  <1>5. /\ DOMAIN t = 1 .. Len(s) - 1
        /\ t[i] = s[i + 1]
        /\ \A j \in 1 .. i - 1 : t[j] = s[j]
    <2>1. /\ t \in Seq(Record) /\ Len(t) = Len(low) + Len(high)
          /\ \A j \in 1 .. Len(low) + Len(high) :
                t[j] = IF j <= Len(low) THEN low[j] ELSE high[j - Len(low)]
      BY <1>2, <1>3, <1>4, ConcatProperties
    <2>2. DOMAIN t = 1 .. Len(s) - 1
      BY <1>1, <1>2, <1>3, <2>1, LenProperties
    <2>3. t[i] = high[1]
      BY <1>1, <1>2, <1>3, <2>1
    <2>4. high[1] = s[i + 1]
      BY <1>1, <1>3
    <2>5. ASSUME NEW j \in 1 .. i - 1
          PROVE  t[j] = s[j]
      <3>1. j \in 1 .. Len(low) + Len(high) /\ j <= Len(low)
        BY <1>1, <1>2, <1>3
      <3>2. t[j] = low[j]
        BY <2>1, <3>1
      <3>. QED
        BY <1>2, <3>2
    <2>. QED
      BY <2>2, <2>3, <2>4, <2>5
  <1>6. PrevAt(t, i) = PrevAt(s, i)
    BY <1>5 DEF PrevAt
  \* The record moved into place i must store the digest before i, yet it
  \* stores the digest of the removed record.
  <1>7. s[i + 1].prev = PrevAt(s, i)
    <2>1. i \in DOMAIN t
      BY <1>1, <1>5
    <2>2. VerifyRecords(t)
      BY DEF t
    <2>3. t[i].prev = PrevAt(t, i)
      BY <2>1, <2>2 DEF VerifyRecords
    <2>. QED
      BY <1>5, <1>6, <2>3
  <1>8. s[i + 1].prev = s[i].hash
    <2>1. i + 1 \in DOMAIN s /\ i + 1 # 1 /\ (i + 1) - 1 = i
      BY <1>1
    <2>2. s[i + 1].prev = PrevAt(s, i + 1)
      BY <2>1 DEF VerifyRecords
    <2>. QED
      BY <2>1, <2>2 DEF PrevAt
  <1>9. s[i].hash = Append(PrevAt(s, i), ContentOf(s[i]))
    <2>1. i \in DOMAIN s
      BY <1>1
    <2>2. s[i].hash = HashWithPrev(s[i], PrevAt(s, i))
      BY <2>1 DEF VerifyRecords
    <2>. QED
      BY <2>2 DEF HashWithPrev
  <1>10. PrevAt(s, i) \in Digest /\ ContentOf(s[i]) \in Content
    <2>1. i \in 1 .. Len(s) + 1
      BY <1>1
    <2>2. s[i] \in Record
      BY <1>1
    <2>. QED
      BY <2>1, <2>2, PrevAtType DEF Record, Content, ContentOf
  <1>11. Len(s[i].hash) = Len(PrevAt(s, i)) + 1 /\ Len(PrevAt(s, i)) \in Nat
    BY <1>9, <1>10, AppendProperties, LenProperties DEF Digest
  <1>. QED
    BY <1>7, <1>8, <1>11

\* The edits chain_test.go makes turn records into records.
LEMMA EditsAreRecords ==
    ASSUME TypeOK
    PROVE  Edits \subseteq Record
  <1>1. ASSUME NEW r \in Record
        PROVE  EditsOf(r) \subseteq Record
    <2>1. \A q \in {NoHash, r.prev, headHash} : q \in Digest
      BY EmptySeq DEF NoHash, Digest, TypeOK, Record
    <2>2. /\ r.seq \in Nat /\ r.time \in Times /\ r.kind \in RecordKinds
      BY DEF Record
    <2>3. ASSUME NEW p \in Payloads, NEW q \in {NoHash, r.prev, headHash}
          PROVE  ChainedRecord(r.seq, r.time, r.kind, p, q) \in Record
      BY <2>1, <2>2, ChainedRecordType
    <2>4. \A p \in Payloads : [r EXCEPT !.payload = p] \in Record
      BY DEF Record
    <2>. QED
      BY <2>3, <2>4 DEF EditsOf
  <1>2. \A i \in DOMAIN records : records[i] \in Record
    BY ElementOfSeq, LenProperties DEF TypeOK
  <1>. QED
    BY <1>1, <1>2 DEF Edits

\* Whatever the program appended, no edit that leaves something to compare
\* escapes Verify.
THEOREM EditsNeverEscape == Spec => []EditDetected
<1>1. TypeOK /\ Intact => EditDetected
  <2> SUFFICES ASSUME TypeOK, Intact PROVE EditDetected
    OBVIOUS
  <2>1. records \in Seq(Record) /\ VerifyRecords(records)
    BY DEF TypeOK, Intact
  <2>. QED
    BY <2>1, EditsAreRecords, EditsAreDetected DEF EditDetected
<1>. QED
  BY <1>1, TypeCorrect, ChainIntact, PTL

\* Whatever the program appended, no removal below the last record escapes
\* Verify.
THEOREM RemovalsNeverEscape == Spec => []RemovalDetected
<1>1. TypeOK /\ Intact => RemovalDetected
  BY RemovalsAreDetected DEF TypeOK, Intact, RemovalDetected
<1>. QED
  BY <1>1, TypeCorrect, ChainIntact, PTL

-----------------------------------------------------------------------------
\* What the log says of a record, and the entries that the chain shows.
BodyOf(r) == [time |-> r.time, kind |-> r.kind, payload |-> r.payload]
Shown == [i \in DOMAIN records |-> [seq |-> i - 1, body |-> BodyOf(records[i])]]
ShownAcked == {[seq |-> records[i].seq, body |-> BodyOf(records[i])] : i \in DOMAIN records}

\* The in-memory chain implements the append-only log: Append is the log's
\* Extend of an acknowledged record, and nothing else changes the chain.
THEOREM Refinement == Spec => ImplementsAuditLog
<1>1. Init => Log!Init
  <2> SUFFICES ASSUME Init PROVE Log!Init
    OBVIOUS
  <2>. QED
    BY DEF Init, Log!Init
<1>2. TypeOK /\ Intact /\ [Next]_chainVars => [Log!Next]_(Log!logVars)
  <2> SUFFICES ASSUME TypeOK, Intact, [Next]_chainVars PROVE [Log!Next]_(Log!logVars)
    OBVIOUS
  <2>1. CASE UNCHANGED chainVars
    BY <2>1 DEF Log!logVars, chainVars
  <2>2. ASSUME NEW kind \in Kinds, NEW payload \in Payloads, NEW time \in Times,
               AppendRecord(kind, payload, time)
        PROVE  Log!Next
    <3> DEFINE rec == ChainedRecord(nextSeq, time, kind, payload, headHash)
               body == [time |-> time, kind |-> kind, payload |-> payload]
               entry == [seq |-> Len(records), body |-> body]
               n == Len(records)
    <3>1. kind \in RecordKinds /\ n \in Nat /\ nextSeq = n
      BY <2>2, LenProperties DEF AppendRecord, RecordKinds, TypeOK, Intact
    <3>2. rec \in Record
      BY <3>1, ChainedRecordType DEF TypeOK
    <3>3. rec.seq = n /\ BodyOf(rec) = body
      BY <3>1 DEF ChainedRecord, BodyOf
    <3>4. records' = Append(records, rec)
      BY <2>2 DEF AppendRecord
    <3> HIDE DEF rec
    <3>5. /\ DOMAIN records = 1 .. n
          /\ DOMAIN records' = 1 .. n + 1
          /\ \A i \in 1 .. n : records'[i] = records[i]
          /\ records'[n + 1] = rec
      BY <3>1, <3>2, <3>4, AppendProperties, LenProperties DEF TypeOK
    <3> HIDE DEF n, body
    <3>6. Shown' = [i \in 1 .. n + 1 |->
                      IF i = n + 1 THEN [seq |-> n, body |-> body]
                      ELSE [seq |-> i - 1, body |-> BodyOf(records[i])]]
      <4>1. ASSUME NEW i \in 1 .. n + 1
            PROVE  [seq |-> i - 1, body |-> BodyOf(records'[i])] =
                   IF i = n + 1 THEN [seq |-> n, body |-> body]
                   ELSE [seq |-> i - 1, body |-> BodyOf(records[i])]
        <5>1. CASE i = n + 1
          BY <3>1, <3>3, <3>5, <5>1
        <5>2. CASE i \in 1 .. n
          BY <3>1, <3>5, <5>2
        <5>. QED
          BY <3>1, <5>1, <5>2
      <4>2. Shown' = [i \in 1 .. n + 1 |-> [seq |-> i - 1, body |-> BodyOf(records'[i])]]
        BY <3>5 DEF Shown, BodyOf
      <4>. QED
        BY <4>1, <4>2
    <3>7. Shown = [i \in 1 .. n |-> [seq |-> i - 1, body |-> BodyOf(records[i])]]
      BY <3>5 DEF Shown
    <3>8. Shown \in Seq({[seq |-> i - 1, body |-> BodyOf(records[i])] : i \in 1 .. n})
          /\ Len(Shown) = n
      BY <3>1, <3>7
    <3>9. Shown' = Append(Shown, [seq |-> n, body |-> body])
      BY <3>1, <3>6, <3>7, <3>8
    <3>10. ShownAcked' = ShownAcked \cup {[seq |-> n, body |-> body]}
      <4>1. ShownAcked' = {[seq |-> records'[i].seq, body |-> BodyOf(records'[i])] : i \in 1 .. n + 1}
        BY <3>5 DEF ShownAcked, BodyOf
      <4>2. ShownAcked = {[seq |-> records[i].seq, body |-> BodyOf(records[i])] : i \in 1 .. n}
        BY <3>5 DEF ShownAcked
      <4>3. 1 .. n + 1 = (1 .. n) \cup {n + 1}
        BY <3>1
      <4>. QED
        BY <3>3, <3>5, <4>1, <4>2, <4>3
    <3>11. body \in [time : Times, kind : RecordKinds, payload : Payloads]
      BY <3>1 DEF body
    <3>12. Log!Extend(body, TRUE)
      BY <3>8, <3>9, <3>10 DEF Log!Extend, Shown, ShownAcked, BodyOf
    <3>. QED
      BY <3>11, <3>12 DEF Log!Next
  <2>. QED
    BY <2>1, <2>2 DEF Next
<1>. QED
  BY <1>1, <1>2, TypeCorrect, ChainIntact, PTL DEF Spec, ImplementsAuditLog, Log!Spec
-----------------------------------------------------------------------------
\* The digest of the i-th record lists the contents of the first i records.
Commits(s, i) == /\ Len(s[i].hash) = i
                 /\ \A j \in 1 .. i : s[i].hash[j] = ContentOf(s[j])

\* In a chain that verifies every digest does: the first that did not would
\* be that of one record more than the one before it.
LEMMA HashIsHistory ==
    ASSUME NEW s \in Seq(Record), VerifyRecords(s)
    PROVE  \A i \in 1 .. Len(s) : Commits(s, i)
  <1> DEFINE bad == {i \in 1 .. Len(s) : ~Commits(s, i)}
             less == {p \in Nat \X Nat : p[1] < p[2]}
  <1>1. SUFFICES ASSUME bad # {} PROVE FALSE
    OBVIOUS
  <1>2. IsWellFoundedOn(less, Nat)
    <2>1. less = OpToRel(<, Nat)
      BY DEF OpToRel
    <2>. QED
      BY <2>1, NatLessThanWellFounded
  <1>3. Len(s) \in Nat /\ bad \subseteq Nat
    BY LenProperties
  <1>4. PICK i \in bad : \A j \in bad : <<j, i>> \notin less
    <2>. HIDE DEF bad, less
    <2>. QED
      BY <1>1, <1>2, <1>3, WFMin
  <1>5. i \in 1 .. Len(s) /\ ~Commits(s, i) /\ \A j \in 1 .. i - 1 : Commits(s, j)
    <2>1. i \in 1 .. Len(s) /\ ~Commits(s, i)
      BY <1>4
    <2>2. ASSUME NEW j \in 1 .. i - 1 PROVE Commits(s, j)
      <3>1. j \in 1 .. Len(s) /\ j \in Nat /\ i \in Nat /\ j < i
        BY <1>3, <2>1
      <3>2. <<j, i>> \in less
        BY <3>1
      <3>3. j \notin bad
        BY <1>4, <3>2
      <3>. QED
        BY <3>1, <3>3
    <2>. QED
      BY <2>1, <2>2
  <1>6. PICK p \in Digest : p = PrevAt(s, i)
    BY <1>3, <1>5, PrevAtType
  <1>7. /\ Len(p) = i - 1
        /\ \A j \in 1 .. i - 1 : p[j] = ContentOf(s[j])
    <2>1. CASE i = 1
      BY <2>1, <1>6, EmptySeq DEF PrevAt, NoHash
    <2>2. CASE i # 1
      <3>1. i - 1 \in 1 .. i - 1 /\ p = s[i - 1].hash
        BY <1>3, <1>5, <1>6, <2>2 DEF PrevAt
      <3>. QED
        BY <1>5, <3>1 DEF Commits
    <2>. QED
      BY <2>1, <2>2
  <1>8. s[i].hash = Append(p, ContentOf(s[i]))
    BY <1>3, <1>5, <1>6, LenProperties DEF VerifyRecords, HashWithPrev
  <1>9. ContentOf(s[i]) \in Content
    <2>1. s[i] \in Record
      BY <1>5, ElementOfSeq
    <2>. QED
      BY <2>1 DEF Record, Content, ContentOf
  <1>10. /\ Len(s[i].hash) = i
         /\ s[i].hash[i] = ContentOf(s[i])
         /\ \A j \in 1 .. i - 1 : s[i].hash[j] = p[j]
    BY <1>3, <1>5, <1>7, <1>8, <1>9, AppendProperties DEF Digest
  <1>11. Commits(s, i)
    BY <1>5, <1>7, <1>10 DEF Commits
  <1>. QED
    BY <1>5, <1>11

\* The digest of a last record, or of none, determines all of the chain: two
\* slices that verify and end in the same hash are the same, so no edit, removal,
\* insertion or exchange of records, nor several of them, leaves the hash of
\* the last one as it was.
THEOREM HeadDeterminesChain ==
    ASSUME NEW s \in Seq(Record), NEW t \in Seq(Record), VerifyRecords(s), VerifyRecords(t),
           PrevAt(s, Len(s) + 1) = PrevAt(t, Len(t) + 1)
    PROVE  s = t
  <1>1. /\ Len(s) \in Nat /\ Len(t) \in Nat
        /\ DOMAIN s = 1 .. Len(s) /\ DOMAIN t = 1 .. Len(t)
    BY LenProperties
  <1>2. ASSUME NEW u \in Seq(Record), VerifyRecords(u), NEW n \in Nat, n = Len(u),
               NEW h, h = PrevAt(u, n + 1)
        PROVE  Len(h) = n /\ \A i \in 1 .. n : h[i] = ContentOf(u[i])
    <2>1. CASE n = 0
      BY <1>2, <2>1, EmptySeq DEF PrevAt, NoHash
    <2>2. CASE n # 0
      <3>1. n \in 1 .. Len(u) /\ h = u[n].hash
        BY <1>2, <2>2 DEF PrevAt
      <3>2. Commits(u, n)
        BY <1>2, <3>1, HashIsHistory
      <3>. QED
        BY <3>1, <3>2 DEF Commits
    <2>. QED
      BY <2>1, <2>2
  <1>3. PICK h : h = PrevAt(s, Len(s) + 1) /\ h = PrevAt(t, Len(t) + 1)
    OBVIOUS
  <1>4. PICK n \in Nat : n = Len(s)
    BY <1>1
  <1>5. Len(t) = n /\ Len(h) = n /\ \A i \in 1 .. n : ContentOf(s[i]) = ContentOf(t[i])
    <2>1. Len(h) = n /\ \A i \in 1 .. n : h[i] = ContentOf(s[i])
      BY <1>2, <1>3, <1>4
    <2>2. Len(h) = Len(t) /\ \A i \in 1 .. Len(t) : h[i] = ContentOf(t[i])
      BY <1>1, <1>2, <1>3
    <2>. QED
      BY <2>1, <2>2
  \* The same contents have the same digests, and they are what is stored.
  <1>6. ASSUME NEW i \in 1 .. n
        PROVE  s[i].hash = t[i].hash
    <2>1. Commits(s, i) /\ Commits(t, i) /\ s[i] \in Record /\ t[i] \in Record
      BY <1>4, <1>5, HashIsHistory, ElementOfSeq
    <2>2. s[i].hash \in Seq(Content) /\ t[i].hash \in Seq(Content)
      BY <2>1 DEF Record, Digest
    <2>3. Len(s[i].hash) = Len(t[i].hash) /\ \A j \in 1 .. Len(s[i].hash) : s[i].hash[j] = t[i].hash[j]
      BY <1>5, <2>1 DEF Commits
    <2>. QED
      BY <2>2, <2>3, SeqEqual
  <1>7. ASSUME NEW i \in 1 .. n
        PROVE  s[i] = t[i]
    <2>1. PrevAt(s, i) = PrevAt(t, i)
      <3>1. i # 1 => i - 1 \in 1 .. n
        OBVIOUS
      <3>. QED
        BY <1>6, <3>1 DEF PrevAt
    <2>2. s[i].prev = PrevAt(s, i) /\ t[i].prev = PrevAt(t, i)
      BY <1>1, <1>4, <1>5 DEF VerifyRecords
    <2>3. s[i] \in Record /\ t[i] \in Record
      BY <1>4, <1>5, ElementOfSeq
    <2>. QED
      BY <1>5, <1>6, <2>1, <2>2, <2>3, SameFieldsSameRecord
  <1>. QED
    BY <1>1, <1>4, <1>5, <1>7, SeqEqual

\* A hash names one record of the chain: the gateway, its precedents and its
\* citations take the hash of a record for the record.
HashesDiffer == \A i, j \in DOMAIN records : records[i].hash = records[j].hash => i = j

\* No two records of the chain have the same hash, whatever was appended, also
\* if it was appended twice.
THEOREM HashesNameRecords == Spec => []HashesDiffer
<1>1. TypeOK /\ Intact => HashesDiffer
  <2> SUFFICES ASSUME TypeOK, Intact, NEW i \in DOMAIN records, NEW j \in DOMAIN records,
                      records[i].hash = records[j].hash
               PROVE  i = j
    BY DEF HashesDiffer
  <2>1. i \in 1 .. Len(records) /\ j \in 1 .. Len(records) /\ records \in Seq(Record)
    BY LenProperties DEF TypeOK
  <2>2. Commits(records, i) /\ Commits(records, j)
    BY <2>1, HashIsHistory DEF Intact
  <2>. QED
    BY <2>2 DEF Commits
<1>. QED
  BY <1>1, TypeCorrect, ChainIntact, PTL

\* A reader that takes the first n records of the chain, while others append, has
\* a chain that verifies.
PrefixesVerify == \A n \in 0 .. Len(records) : VerifyRecords(SubSeq(records, 1, n))

\* However many records are appended after the ones a verifier read, what it read
\* verifies.
THEOREM PrefixesIntact == Spec => []PrefixesVerify
<1>1. TypeOK /\ Intact => PrefixesVerify
  <2> SUFFICES ASSUME TypeOK, Intact, NEW n \in 0 .. Len(records)
               PROVE  VerifyRecords(SubSeq(records, 1, n))
    BY DEF PrefixesVerify
  <2> DEFINE front == SubSeq(records, 1, n)
  <2>1. /\ records \in Seq(Record) /\ n \in Nat /\ n <= Len(records)
        /\ front \in Seq(Record) /\ Len(front) = n
        /\ \A i \in 1 .. n : front[i] = records[i]
    BY LenProperties, SubSeqProperties DEF TypeOK
  <2>2. \A i \in 1 .. n : PrevAt(front, i) = PrevAt(records, i)
    BY <2>1 DEF PrevAt
  <2>3. DOMAIN front = 1 .. n /\ 1 .. n \subseteq DOMAIN records
    BY <2>1, LenProperties
  <2>. HIDE DEF front
  <2>4. VerifyRecords(front)
    BY <2>1, <2>2, <2>3 DEF VerifyRecords, Intact
  <2>. QED
    BY <2>4 DEF front
<1>. QED
  BY <1>1, TypeCorrect, ChainIntact, PTL
=============================================================================
