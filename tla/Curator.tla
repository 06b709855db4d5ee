------------------------------- MODULE Curator -------------------------------
(***************************************************************************)
(* cmd/curator: one goroutine that reads raw events from a Kafka topic     *)
(* into a window, and on every tick publishes a selection of the window    *)
(* and starts the next.  Ids that were selected are suppressed from later  *)
(* windows.                                                                *)
(*                                                                         *)
(* Kafka is modelled from how the code uses it: a topic is a log, a        *)
(* consumer group has one committed offset and ReadMessage fetches a       *)
(* message and commits it, both within the context it is given.            *)
(***************************************************************************)
EXTENDS Curation, Ordered

CONSTANTS Malformed,  \* a message that does not decode or fails Validate
          Flags,      \* the command lines: strategy, k and diversity
          MaxTopic,   \* bound on the raw topic
          SoftLimit   \* the soft limit of pruneSuppression

ASSUME CuratorAssumption ==
    /\ Malformed \notin Event
    /\ Flags \subseteq [strategy : Int, k : Int, diversity : 0..100]
    /\ MaxTopic \in Nat /\ SoftLimit \in Nat

VARIABLES flags,        \* the command line
          topic,        \* the raw topic
          committed,    \* the group's offset
          up,           \* the process runs
          position,     \* its reader's offset
          buf,          \* the window
          suppression,  \* the suppression set
          shown,        \* the events in the curated topic's digests
          unsent,       \* events in digests whose WriteMessages returned an error
          chosen,       \* events that this process has selected
          evicted,      \* events that this process has pruned
          repeated,     \* events that this process has selected twice
          last          \* its last window, without the suppressed, and selection

kafkaVars == <<flags, topic>>
pastVars == <<shown, unsent, chosen, evicted, repeated, last>>
curatorVars == <<flags, topic, committed, up, position, buf, suppression, pastVars>>

NoSelection == [window |-> <<>>, selected |-> {}]

Init == /\ flags \in Flags
        /\ topic = <<>> /\ committed = 0
        /\ up = TRUE
        /\ position = 0 /\ buf = <<>> /\ suppression = {}
        /\ shown = {} /\ unsent = {}
        /\ chosen = {} /\ evicted = {} /\ repeated = {}
        /\ last = NoSelection
-----------------------------------------------------------------------------
\* A producer writes an event; after a retry the topic may hold it twice.
Produce(m) == /\ Len(topic) < MaxTopic
              /\ topic' = Append(topic, m)
              /\ UNCHANGED <<flags, committed, up, position, buf, suppression, pastVars>>

\* The default case of the select: ReadMessage returns a message, committed.
\* Slip: the message is not validated.
ReadUnchecked ==
    /\ up /\ position < Len(topic)
    /\ position' = position + 1
    /\ committed' = position + 1
    /\ buf' = Append(buf, topic[position + 1])
    /\ UNCHANGED <<kafkaVars, up, suppression, pastVars>>
Read == /\ up /\ position < Len(topic)
        /\ position' = position + 1
        /\ committed' = position + 1
        /\ buf' = IF topic[position + 1] = Malformed THEN buf ELSE Append(buf, topic[position + 1])
        /\ UNCHANGED <<kafkaVars, up, suppression, pastVars>>

\* The 500 ms are over between the fetch and the end of the commit: ReadMessage
\* returns an error and the reader is past the message, committed or not.
ReadTimesOut == /\ up /\ position < Len(topic)
                /\ position' = position + 1
                /\ committed' \in {committed, position + 1}
                /\ UNCHANGED <<kafkaVars, up, buf, suppression, pastVars>>

\* filterSuppressed: the events that are kept, in their order.
Filtered ==
    LET kept == Ascending({i \in DOMAIN buf : buf[i] \notin suppression})
    IN  [n \in DOMAIN kept |-> buf[kept[n]]]

\* pruneSuppression: half of a set above the limit goes, in map order.
Prunings(set) ==
    IF Cardinality(set) <= SoftLimit THEN {{}} ELSE kSubset(Cardinality(set) \div 2, set)

\* The window in which the ticker fires is empty afterwards, whether Select
\* refused the flags, or the digest was written, or WriteMessages returned an
\* error: then it may have been written all the same.  Slips: Select's error
\* leaves the window for the next tick; all of a window is suppressed; only the
\* last selection is.
FlushKeepingRefused ==
    /\ up /\ buf # <<>> /\ Refused(flags.strategy, flags.k)
    /\ UNCHANGED curatorVars
FlushRefused ==
    /\ up /\ buf # <<>> /\ Refused(flags.strategy, flags.k)
    /\ buf' = <<>>
    /\ UNCHANGED <<kafkaVars, committed, up, position, suppression, pastVars>>

SuppressWindow(ids) == suppression \cup Ids(buf, DOMAIN buf)
SuppressLast(ids) == ids
Suppressed(ids) == suppression \cup ids

Flush ==
    /\ up /\ buf # <<>> /\ ~Refused(flags.strategy, flags.k)
    /\ \E T \in Selections(flags.strategy, Filtered, flags.k, flags.diversity),
          written, failed \in BOOLEAN :
         LET ids == Ids(Filtered, T)
         IN  /\ written \/ failed
             /\ shown' = IF written THEN shown \cup ids ELSE shown
             /\ unsent' = IF failed THEN unsent \cup ids ELSE unsent
             /\ \E out \in Prunings(Suppressed(ids)) :
                   /\ suppression' = Suppressed(ids) \ out
                   /\ evicted' = evicted \cup out
             /\ chosen' = chosen \cup ids
             /\ repeated' = repeated \cup (chosen \cap ids)
             /\ last' = [window |-> Filtered, selected |-> T]
    /\ buf' = <<>>
    /\ UNCHANGED <<kafkaVars, committed, up, position>>

\* SIGTERM, a crash: the window and the suppression set were only in memory.
Stop == /\ up
        /\ up' = FALSE
        /\ buf' = <<>> /\ suppression' = {}
        /\ chosen' = {} /\ evicted' = {} /\ repeated' = {} /\ last' = NoSelection
        /\ UNCHANGED <<kafkaVars, committed, position, shown, unsent>>

Start == /\ ~up
         /\ up' = TRUE
         /\ position' = committed
         /\ UNCHANGED <<kafkaVars, committed, buf, suppression, pastVars>>

Next == \/ \E m \in Event \cup {Malformed} : Produce(m)
        \/ Read \/ ReadTimesOut
        \/ FlushRefused \/ Flush
        \/ Stop \/ Start

\* A tick that is due is taken before the default case, and the loop goes on;
\* when a read times out, and when the process stops, is under no fairness.
Fairness == WF_curatorVars(Read \/ ReadTimesOut) /\ WF_curatorVars(FlushRefused \/ Flush)

Spec == Init /\ [][Next]_curatorVars /\ Fairness
-----------------------------------------------------------------------------
\* The reader is never before the group's offset, and every set is of events.
TypeOK ==
    /\ flags \in Flags
    /\ topic \in Seq(Event \cup {Malformed}) /\ Len(topic) <= MaxTopic
    /\ committed \in 0..Len(topic) /\ position \in committed..Len(topic)
    /\ up \in BOOLEAN
    /\ buf \in Seq(Event)
    /\ \A set \in {suppression, shown, unsent, chosen, evicted, repeated} : set \subseteq Event
    /\ last.window \in Seq(Event) /\ last.selected \subseteq DOMAIN last.window

\* A digest represents the sources its strategy promises, as many as k allows,
\* whatever was suppressed, and it is no larger than k: but strategies 4 to 6
\* select one event if k is 0 (strategies.go:277).
Covers ==
    LET must == MustCover(flags.strategy, last.window, flags.diversity)
        n == Cardinality(Sources(last.window, last.selected))
    IN  last # NoSelection =>
            /\ n >= Min({must, flags.k})
            /\ Cardinality(last.selected) <= Max({flags.k, IF flags.strategy >= 4 THEN 1 ELSE 0})

\* Within what the strategy must cover its digest is as fresh as can be: no
\* selection of as many events that covers as much is newer in total.  Not of
\* strategy 5, which is random, nor if k is too small for the sources to cover:
\* then 4 keeps the oldest of them (strategies.go:274) and 3 any.
Fresh ==
    LET must == MustCover(flags.strategy, last.window, flags.diversity)
        size == Cardinality(last.selected)
    IN  last # NoSelection /\ flags.strategy # 5 /\ (flags.strategy = 2 \/ must <= flags.k) =>
            \A T \in kSubset(size, DOMAIN last.window) :
                /\ flags.strategy = 1 \/ Distinct(last.window, T)
                /\ Cardinality(Sources(last.window, T)) >= Min({must, size})
                => Age(last.window, last.selected) <= Age(last.window, T)

\* No event is twice in a digest, though it may be twice in the window, and
\* none is selected twice by a process that did not prune it in between: but
\* strategy 1 does not look at ids within a window.
ShownOnce ==
    /\ flags.strategy # 1 => Distinct(last.window, last.selected)
    /\ repeated \subseteq evicted

\* An event that is suppressed was shown, or its digest's write failed.
SuppressedWasShown == suppression \subseteq shown \cup unsent

\* A process that is not stopped reads the whole topic and flushes what it read.
Drains == <>[]up => []<>(position = Len(topic) /\ buf = <<>>)
=============================================================================
