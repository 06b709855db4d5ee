------------------------------- MODULE Ingest -------------------------------
(***************************************************************************)
(* cmd/ingest-mysql and cmd/ingest-postgres with their connectors.  The    *)
(* connector's Run follows the log of the source and sends an event for    *)
(* each change on the channel out; main takes them and writes them to the  *)
(* raw topic.  Neither knows how far the other is.                         *)
(*                                                                         *)
(* The log is a sequence of entries: binlog events, or messages of         *)
(* pgoutput.  An entry is a change of some rows of a table, or it ends a   *)
(* transaction.  A position is the number of entries before it; an event   *)
(* that is due is a pair of an entry and a row of it.                      *)
(***************************************************************************)
EXTENDS Integers, Sequences, FiniteSets

CONSTANTS Kinds,      \* "mysql", "mysql-from" (with BinlogFile), "postgres"
          LogOf,      \* of each kind, the log
          Tables,     \* the allowed tables, {} for all
          Capacity,   \* of the channel out
          Lead,       \* how many entries nextLSN may be ahead
          MaxStops,   \* bound
          Heartbeat   \* an event that is no change

RowOps == {"insert", "update", "delete"}
Entry == [op : RowOps \cup {"commit"}, table : STRING, images : Nat]

ASSUME IngestAssumption ==
    /\ Kinds \subseteq {"mysql", "mysql-from", "postgres"}
    /\ LogOf \in [Kinds -> Seq(Entry)]
    /\ "postgres" \in Kinds => \A i \in DOMAIN LogOf["postgres"] : LogOf["postgres"][i].images <= 1
    /\ Capacity \in Nat \ {0} /\ Lead \in Nat /\ MaxStops \in Nat
    /\ Heartbeat \notin Nat \X Nat

VARIABLES kind,       \* the service
          written,    \* the length of the source's log
          confirmed,  \* the position of the replication slot, NoSlot before it is created
          first,      \* where the first Run began, NoSlot before
          up,         \* the process runs
          stream,     \* its connection to the source works
          from, read, \* where this Run began, and how far it is
          left,       \* the events of its last entry that it has still to emit
          nextLSN,    \* what it tells the server it has got
          out,        \* the channel
          writing,    \* what main is writing to the topic, <<>> if nothing
          published,  \* the events in the topic
          last,       \* the last one this process wrote
          failed,     \* events whose WriteMessages returned an error
          stops       \* how often the process stopped

sourceVars == <<kind, written, confirmed>>
runVars == <<first, up, stream, from, read, left, nextLSN>>
topicVars == <<published, last, failed>>
ingestVars == <<sourceVars, runVars, out, writing, topicVars, stops>>

NoSlot == -1
None == <<0, 0>>
Log == LogOf[kind]

\* tableFilter.allow; names are compared without case.
Allowed(table) == Tables = {} \/ table \in Tables

\* mapRowsEvent, actionFromEventType and mapMessage: how many events an entry
\* gives.  An update of MySQL has two images a row; one with an odd number is an
\* error, counted and passed over; Postgres sends each row by itself.
Mapped(e) ==
    IF e.op = "commit" \/ ~Allowed(e.table) THEN 0
    ELSE IF e.op # "update" \/ kind = "postgres" THEN e.images
    ELSE IF e.images % 2 = 0 THEN e.images \div 2 ELSE 0

\* The ends of transactions: the server sends a transaction when it is
\* committed, and again from its beginning unless its end is confirmed.
Commits == {0} \cup {i \in DOMAIN Log : Log[i].op = "commit"}
Last(S) == CHOOSE i \in S : \A j \in S : j <= i

Init == /\ kind \in Kinds
        /\ written = 0 /\ confirmed = NoSlot /\ first = NoSlot
        /\ up = FALSE /\ stream = FALSE /\ from = 0 /\ read = 0 /\ left = 0 /\ nextLSN = 0
        /\ out = <<>> /\ writing = <<>>
        /\ published = {} /\ last = None /\ failed = {} /\ stops = 0
-----------------------------------------------------------------------------
\* A transaction is committed.
Change == /\ written < Len(Log)
          /\ written' \in Commits /\ written' > written
          /\ \A i \in Commits : i <= written \/ i >= written'
          /\ UNCHANGED <<kind, confirmed, runVars, out, writing, topicVars, stops>>

\* Where Run begins: at the position of the flags, taken as the beginning of
\* the log; at SHOW MASTER STATUS; at the first transaction that the slot, which
\* the first Run creates at the end of the log, has not confirmed.
Begin == CASE kind = "mysql-from" -> 0
           [] kind = "postgres" /\ confirmed # NoSlot -> Last({i \in Commits : i <= confirmed})
           [] OTHER -> written

\* If Run cannot connect the process ends and nothing has changed.
Start == /\ ~up
         /\ up' = TRUE /\ stream' = TRUE
         /\ from' = Begin /\ read' = Begin /\ left' = 0 /\ nextLSN' = 0
         /\ first' = IF first = NoSlot THEN Begin ELSE first
         /\ confirmed' = IF kind = "postgres" /\ confirmed = NoSlot THEN Begin ELSE confirmed
         /\ last' = None
         /\ UNCHANGED <<kind, written, out, writing, published, failed, stops>>

\* Run's next entry, once all events of the one before are in the channel.
\* nextLSN is the entry's position plus the length of the message, which is
\* not its length in the log: it may be well ahead of the entry.
Receive ==
    /\ up /\ stream /\ read < written /\ left = 0
    /\ read' = read + 1
    /\ left' = Mapped(Log[read + 1])
    /\ nextLSN' \in IF kind = "postgres" THEN read + 1 .. Last({Len(Log), read + 1}) \cap 0 .. read + 1 + Lead
                    ELSE {0}
    /\ UNCHANGED <<sourceVars, first, up, stream, from, out, writing, topicVars, stops>>

\* An event of the entry is sent; while the channel is full Run waits here and
\* answers nothing.  Slips: the rest is dropped then; Run does not wait.
Event == <<read, Mapped(Log[read]) - left + 1>>
EmitDropping ==
    /\ up /\ left > 0
    /\ left' = IF Len(out) < Capacity THEN left - 1 ELSE 0
    /\ out' = IF Len(out) < Capacity THEN Append(out, Event) ELSE out
    /\ UNCHANGED <<sourceVars, first, up, stream, from, read, nextLSN, writing, topicVars, stops>>
EmitOverfull ==
    /\ up /\ left > 0
    /\ left' = left - 1
    /\ out' = Append(out, Event)
    /\ UNCHANGED <<sourceVars, first, up, stream, from, read, nextLSN, writing, topicVars, stops>>
Emit ==
    /\ up /\ left > 0 /\ Len(out) < Capacity
    /\ left' = left - 1
    /\ out' = Append(out, Event)
    /\ UNCHANGED <<sourceVars, first, up, stream, from, read, nextLSN, writing, topicVars, stops>>

\* A heartbeat, also while the stream is broken.  That of MySQL is a goroutine
\* of its own, that of Postgres Run itself between two messages.
Beat == /\ up /\ Len(out) < Capacity
        /\ kind = "postgres" => left = 0
        /\ out' = Append(out, Heartbeat)
        /\ UNCHANGED <<sourceVars, runVars, writing, topicVars, stops>>

\* After an error of the connection every later receive is an error.
StreamBreaks == /\ up /\ stream
                /\ stream' = FALSE
                /\ UNCHANGED <<sourceVars, first, up, from, read, left, nextLSN, out, writing,
                               topicVars, stops>>

\* The server asks for a reply and is told nextLSN; what it holds confirmed does
\* not go back.  Slip: it is told its own position, which is in the message.
KeepaliveServerEnd ==
    /\ up /\ stream /\ kind = "postgres" /\ left = 0
    /\ confirmed' = written
    /\ UNCHANGED <<kind, written, runVars, out, writing, topicVars, stops>>
Keepalive ==
    /\ up /\ stream /\ kind = "postgres" /\ left = 0
    /\ confirmed' = Last({confirmed, nextLSN})
    /\ UNCHANGED <<kind, written, runVars, out, writing, topicVars, stops>>
-----------------------------------------------------------------------------
\* main takes an event and calls WriteMessages.
Take ==
    /\ up /\ writing = <<>> /\ out # <<>>
    /\ writing' = <<Head(out)>>
    /\ out' = Tail(out)
    /\ UNCHANGED <<sourceVars, runVars, topicVars, stops>>

Writing == up /\ writing # <<>>
Publish == IF writing[1] = Heartbeat THEN UNCHANGED <<published, last>>
           ELSE /\ published' = published \cup {writing[1]}
                /\ last' = writing[1]

WriteOk == /\ Writing
           /\ Publish
           /\ writing' = <<>>
           /\ UNCHANGED <<sourceVars, runVars, out, failed, stops>>

\* An error is logged; the message may have been written all the same.
WriteFails ==
    /\ Writing
    /\ Publish \/ UNCHANGED <<published, last>>
    /\ failed' = failed \cup ({writing[1]} \ {Heartbeat})
    /\ writing' = <<>>
    /\ UNCHANGED <<sourceVars, runVars, out, stops>>

\* SIGTERM or a crash: what is in the channel is gone, a write in flight is
\* done or not.
Stop == /\ up /\ stops < MaxStops
        /\ (Writing /\ Publish) \/ UNCHANGED <<published, last>>
        /\ up' = FALSE /\ stream' = FALSE
        /\ out' = <<>> /\ writing' = <<>>
        /\ stops' = stops + 1
        /\ left' = 0
        /\ UNCHANGED <<sourceVars, first, from, read, nextLSN, failed>>

Next == \/ Change \/ Start \/ Receive \/ Emit \/ Beat \/ StreamBreaks \/ Keepalive
        \/ Take \/ WriteOk \/ WriteFails \/ Stop

\* Senders that wait for a channel are served in the order they came, so the
\* heartbeats cannot keep Run from sending.  Nothing is assumed of the source,
\* of the outcome of a write, or of starts and stops.
Fairness == /\ WF_ingestVars(Receive) /\ SF_ingestVars(Emit)
            /\ WF_ingestVars(Take)
            /\ WF_ingestVars(WriteOk \/ WriteFails)

Spec == Init /\ [][Next]_ingestVars /\ Fairness
-----------------------------------------------------------------------------
\* The events due for the entries after one position and up to another.
Due(a, b) == UNION {{i} \X (1 .. Mapped(Log[i])) : i \in (a + 1) .. b}
Events == Due(0, written)
InFlight == {x \in Events : writing = <<x>> \/ \E i \in DOMAIN out : out[i] = x}
              \cup {x \in Events : x[1] = read /\ x[2] > Mapped(Log[read]) - left}

\* The channel holds at most Capacity events, each of a row that is written.
TypeOK ==
    /\ kind \in Kinds
    /\ written \in Commits /\ first \in NoSlot..written /\ confirmed \in NoSlot..Len(Log)
    /\ up \in BOOLEAN /\ stream \in BOOLEAN /\ (stream => up)
    /\ from \in 0..Len(Log) /\ read \in from..Len(Log) /\ nextLSN \in 0..Len(Log)
    /\ left \in 0 .. (IF read > from THEN Mapped(Log[read]) ELSE 0)
    /\ out \in Seq(Events \cup {Heartbeat}) /\ Len(out) <= Capacity
    /\ writing \in {<<>>} \cup {<<m>> : m \in Events \cup {Heartbeat}}
    /\ published \subseteq Events /\ failed \subseteq Events
    /\ last \in {None} \cup published
    /\ stops \in 0..MaxStops

\* A process writes the rows to the topic in the order of the source's log,
\* each once, and leaves none out but where a write failed: however entries of
\* several rows, heartbeats and a full channel mix.
Before(x, y) == x[1] < y[1] \/ (x[1] = y[1] /\ x[2] < y[2])
InOrder ==
    [][up /\ up' /\ last' # last =>
          /\ Before(last, last')
          /\ \A x \in Due(from, written) :
                Before(last, x) /\ Before(x, last') => x \in failed]_ingestVars

\* What a Postgres Run would not be sent again and the topic never gets, rows
\* that nextLSN passes before they are written among them: apart from events
\* whose write failed, no more for each stop than fill the channel, the write in
\* progress, and the rows nextLSN was ahead: the last of its Lead entries ends a
\* transaction.
LossBounded ==
    LET lost == Due(first, Begin) \ (published \cup failed \cup InFlight)
    IN  kind = "postgres" /\ first # NoSlot =>
            Cardinality(lost \ (IF up THEN Due(read, Len(Log)) ELSE {}))
                <= stops * (Capacity + Last({Lead, 1}))

\* A process that stays up with its connection publishes every row after the
\* position it began at, or logs that it could not.
Delivers ==
    <>[](up /\ stream) => <>[](Due(from, written) \subseteq published \cup failed)

\* At-least-once (cdc/interface.go:19, PRD.md:314): a row that no later Run
\* would read is in the topic or on its way there.
AtLeastOnce ==
    first # NoSlot =>
        Due(first, IF up /\ kind = "mysql" THEN read ELSE Begin)
            \subseteq published \cup InFlight
=============================================================================
