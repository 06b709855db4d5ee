-------------------------------- MODULE Group --------------------------------
(***************************************************************************)
(* The loop around ReadMessage that cmd/orchestrator, cmd/audit-writer and *)
(* internal/kafkabridge share, for the replicas of one service, which are  *)
(* the members of one consumer group on a topic of one partition.          *)
(*                                                                         *)
(* Kafka and its client are modelled from how the code uses them.  The     *)
(* partition has one owner per generation, who reads on from the committed *)
(* offset; ReadMessage fetches a message and then commits it, within one   *)
(* context of 500 ms.  A fetched message stays with its process when the   *)
(* partition moves, and the broker takes the commit of any live member.    *)
(***************************************************************************)
EXTENDS Integers, FiniteSets

CONSTANTS Member,     \* the replicas
          Nobody,     \* no member
          Messages,   \* the number of messages in the topic
          MaxStops, MaxTimeouts, MaxInterrupted   \* bounds

ASSUME GroupAssumption ==
    /\ Nobody \notin Member
    /\ {Messages, MaxStops, MaxTimeouts, MaxInterrupted} \subseteq Nat

VARIABLES committed,   \* the group's offset
          owner,       \* whose partition it is
          position,    \* the next offset of the owner's reader
          pc,          \* what each member's loop is doing
          at,          \* the message each member has in hand
          times,       \* how often each message reached a handler
          interrupted, \* the rebalances that came while a read was not finished
          stops, timeouts

readerVars == <<committed, owner, position, at, times>>
countVars == <<interrupted, stops, timeouts>>
groupVars == <<readerVars, pc, countVars>>

Message == 1 .. Messages
None == 0
Goto(r, label) == pc' = [pc EXCEPT ![r] = label]
Up(r) == pc[r] # "down"

GroupInit == /\ committed = 0 /\ owner = Nobody
             /\ position = 0
             /\ pc = [r \in Member |-> "down"]
             /\ at = [r \in Member |-> None]
             /\ times = [m \in Message |-> 0]
             /\ interrupted = 0 /\ stops = 0 /\ timeouts = 0
-----------------------------------------------------------------------------
\* A generation of the group begins: at the start, when a member joins, leaves
\* or is not heard of.  Any member may become the owner, the old one included.
Reading(r) == pc[r] = "commit"
Rebalance(r) ==
    /\ Up(r)
    /\ owner' = r
    /\ position' = committed
    /\ IF \E s \in Member : Reading(s)
       THEN interrupted < MaxInterrupted /\ interrupted' = interrupted + 1
       ELSE UNCHANGED interrupted
    /\ UNCHANGED <<committed, pc, at, times, stops, timeouts>>

\* FetchMessage.  Slip: the reader does not go on past what is not committed.
FetchCommitted(r) ==
    /\ pc[r] = "read" /\ owner = r /\ position < Messages
    /\ position <= committed
    /\ position' = position + 1
    /\ at' = [at EXCEPT ![r] = position + 1]
    /\ Goto(r, "commit")
    /\ UNCHANGED <<committed, owner, times, countVars>>
Fetch(r) ==
    /\ pc[r] = "read" /\ owner = r /\ position < Messages
    /\ position' = position + 1
    /\ at' = [at EXCEPT ![r] = position + 1]
    /\ Goto(r, "commit")
    /\ UNCHANGED <<committed, owner, times, countVars>>

\* CommitMessages, after which ReadMessage returns the message.  Slips: the
\* handler is called without the commit; the offset committed is one too high.
CommitNothing(r) ==
    /\ pc[r] = "commit"
    /\ times' = [times EXCEPT ![at[r]] = @ + 1]
    /\ Goto(r, "handle")
    /\ UNCHANGED <<committed, owner, position, at, countVars>>
CommitNext(r) ==
    /\ pc[r] = "commit"
    /\ committed' = at[r] + 1
    /\ times' = [times EXCEPT ![at[r]] = @ + 1]
    /\ Goto(r, "handle")
    /\ UNCHANGED <<owner, position, at, countVars>>
Commit(r) ==
    /\ pc[r] = "commit"
    /\ committed' = at[r]
    /\ times' = [times EXCEPT ![at[r]] = @ + 1]
    /\ Goto(r, "handle")
    /\ UNCHANGED <<owner, position, at, countVars>>

\* The 500 ms end before the commit is answered, or it fails: the loop goes on
\* to the next message and this one is dropped, committed or not.
TimesOut(r) ==
    /\ pc[r] = "commit" /\ timeouts < MaxTimeouts
    /\ committed' \in {committed, at[r]}
    /\ at' = [at EXCEPT ![r] = None]
    /\ timeouts' = timeouts + 1
    /\ Goto(r, "read")
    /\ UNCHANGED <<owner, position, times, interrupted, stops>>

\* The handler is done with its message.
Return(r) == /\ Goto(r, "read")
             /\ at' = [at EXCEPT ![r] = None]
             /\ UNCHANGED <<committed, owner, position, times, countVars>>

\* SIGTERM or a crash, a commit in flight being done or not; the group notices.
StopReading(r) ==
    /\ Up(r) /\ stops < MaxStops
    /\ committed' \in {committed} \cup (IF Reading(r) THEN {at[r]} ELSE {})
    /\ owner' = IF owner = r THEN Nobody ELSE owner
    /\ at' = [at EXCEPT ![r] = None]
    /\ stops' = stops + 1
    /\ Goto(r, "down")
    /\ UNCHANGED <<position, times, interrupted, timeouts>>

StartReading(r) == ~Up(r) /\ Goto(r, "read") /\ UNCHANGED <<readerVars, countVars>>
-----------------------------------------------------------------------------
\* Offsets are within the topic, the owner is a live member, and whoever is not
\* between two messages has one in hand that its reader fetched.
GroupTypeOK ==
    /\ committed \in 0 .. Messages
    /\ owner \in {Nobody} \cup {r \in Member : Up(r)}
    /\ position \in 0 .. Messages
    /\ at \in [Member -> Message \cup {None}]
    /\ \A r \in Member : (at[r] = None) <=> pc[r] \in {"down", "read"}
    /\ times \in [Message -> Nat]
    /\ interrupted \in 0 .. MaxInterrupted
    /\ stops \in 0 .. MaxStops /\ timeouts \in 0 .. MaxTimeouts

\* At most once, but for rebalances (cmd/orchestrator main.go:97): a handler
\* gets no message twice through stops, restarts and timeouts alone.
D == INSTANCE Delivery
ImplementsDelivery == D!Spec
=============================================================================
