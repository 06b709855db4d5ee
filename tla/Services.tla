------------------------------- MODULE Services -------------------------------
(***************************************************************************)
(* What the handlers behind Group's loop do with a message:                *)
(*   orchestrator  decides each event of a curated digest, records it in   *)
(*                 its own in-memory chain and publishes the decision;     *)
(*   audit-memory, audit-postgres                                          *)
(*                 append the record to a chain of their own, or to the    *)
(*                 table that PgAudit is about, seen through its contract: *)
(*                 an Append whose cached head is not the table's fails;   *)
(*   bridge        hands the value to the gateway's callback (Gateway).    *)
(* A message is the sequence of its items; one that does not decode has    *)
(* none.                                                                   *)
(***************************************************************************)
EXTENDS Group, Sequences

CONSTANTS Kinds,       \* the services
          Contents,    \* of each service, the messages of its topic
          MaxForeign   \* bound on the appends of the table's other writers

Item == {"valid", "invalid"}      \* whether Validate accepts it
ASSUME ServicesAssumption ==
    /\ Kinds \subseteq {"orchestrator", "audit-memory", "audit-postgres", "bridge"}
    /\ Contents \in [Kinds -> Seq(Seq(Item))]
    /\ \A kind \in Kinds : Len(Contents[kind]) = Messages
    /\ MaxForeign \in Nat

VARIABLES service,    \* what the replicas are
          next,       \* the item of its message that each handler is at
          chain,      \* each process's in-memory chain, of items
          rows,       \* the number of rows in the Postgres store
          cached,     \* how many each process believes there are
          published,  \* the decisions in the outgoing topic whose maker still runs
          done,       \* the items that are recorded and published, or were called back
          failed,     \* the items whose write or append failed
          foreign     \* how often others appended to the table

storeVars == <<chain, rows, cached>>
outVars == <<published, done, failed>>
servicesVars == <<groupVars, service, next, storeVars, outVars, foreign>>

Items(m) == Contents[service][m]
ItemAt(r) == <<at[r], next[r]>>
Advance(r) == next' = [next EXCEPT ![r] = @ + 1]

Init == /\ GroupInit
        /\ service \in Kinds
        /\ next = [r \in Member |-> 1]
        /\ chain = [r \in Member |-> <<>>]
        /\ rows = 0 /\ cached = [r \in Member |-> 0]
        /\ published = {} /\ done = {} /\ failed = {} /\ foreign = 0
-----------------------------------------------------------------------------
Read(r) == /\ Rebalance(r) \/ Fetch(r) \/ Commit(r) \/ TimesOut(r)
           /\ UNCHANGED <<service, next, storeVars, outVars, foreign>>

Handling(r, kinds) ==
    service \in kinds /\ pc[r] = "handle" /\ next[r] <= Len(Items(at[r]))
Next1(r) == Items(at[r])[next[r]]

\* The end of the handler.
Finish(r) == /\ pc[r] = "handle" /\ next[r] > Len(Items(at[r]))
             /\ Return(r)
             /\ next' = [next EXCEPT ![r] = 1]
             /\ UNCHANGED <<service, storeVars, outVars, foreign>>

\* Decide's error for an event that is not valid is logged, and the loop goes
\* on to the next; the bridge returns.  Slip: the rest of the digest is left.
PassOverRest(r) ==
    /\ Handling(r, {"orchestrator", "bridge"}) /\ Next1(r) = "invalid"
    /\ next' = [next EXCEPT ![r] = Len(Items(at[r])) + 1]
    /\ UNCHANGED <<groupVars, service, storeVars, outVars, foreign>>
PassOver(r) ==
    /\ Handling(r, {"orchestrator", "bridge"}) /\ Next1(r) = "invalid"
    /\ Advance(r)
    /\ UNCHANGED <<groupVars, service, storeVars, outVars, foreign>>

\* The gateway's callback.
CallBack(r) ==
    /\ Handling(r, {"bridge"}) /\ Next1(r) = "valid"
    /\ done' = done \cup {ItemAt(r)}
    /\ Advance(r)
    /\ UNCHANGED <<groupVars, service, storeVars, published, failed, foreign>>

\* Decide: whatever the guardrails and the model answer, one record.
Decide(r) ==
    /\ Handling(r, {"orchestrator"}) /\ Next1(r) = "valid"
    /\ chain' = [chain EXCEPT ![r] = Append(@, ItemAt(r))]
    /\ Goto(r, "publish")
    /\ UNCHANGED <<readerVars, countVars, service, next, rows, cached, outVars, foreign>>

\* WriteMessages with the decision, whose hash is that of the last record: it
\* is in the topic, whether an error is logged or not, or is not, with an error.
\* Slip: the hash is the head from before the Append.
DecisionWithPrev(r) ==
    [item |-> ItemAt(r), maker |-> r, hash |-> Len(chain[r]) - 1]
Decision(r) ==
    [item |-> ItemAt(r), maker |-> r, hash |-> Len(chain[r])]
Publish(r) ==
    /\ pc[r] = "publish"
    /\ \/ /\ published' = published \cup {Decision(r)}
          /\ done' = done \cup {ItemAt(r)}
          /\ UNCHANGED failed
       \/ failed' = failed \cup {ItemAt(r)} /\ UNCHANGED <<published, done>>
    /\ Advance(r) /\ Goto(r, "handle")
    /\ UNCHANGED <<readerVars, countVars, service, storeVars, foreign>>

\* audit-writer with the in-memory chain, whose Append does not fail: a record
\* without a kind gets one.
RecordInMemory(r) ==
    /\ Handling(r, {"audit-memory"})
    /\ chain' = [chain EXCEPT ![r] = Append(@, ItemAt(r))]
    /\ done' = done \cup {ItemAt(r)}
    /\ Advance(r)
    /\ UNCHANGED <<groupVars, service, rows, cached, published, failed, foreign>>

\* With the Postgres store: a success, or a logged error with the row in the
\* table or not.  A process whose cache is behind the table only gets errors.
RecordInTable(r) ==
    /\ Handling(r, {"audit-postgres"})
    /\ \E row, error \in BOOLEAN :
          /\ row \/ error
          /\ row => cached[r] = rows
          /\ rows' = IF row THEN rows + 1 ELSE rows
          /\ cached' = IF error THEN cached ELSE [cached EXCEPT ![r] = @ + 1]
          /\ done' = IF row THEN done \cup {ItemAt(r)} ELSE done
          /\ failed' = IF row THEN failed ELSE failed \cup {ItemAt(r)}
    /\ Advance(r)
    /\ UNCHANGED <<groupVars, service, chain, published, foreign>>

\* Another process of the tenant, a gateway for one, appends.
ForeignAppend ==
    /\ service = "audit-postgres" /\ foreign < MaxForeign
    /\ rows' = rows + 1
    /\ foreign' = foreign + 1
    /\ UNCHANGED <<groupVars, service, next, chain, cached, outVars>>

\* The end of the process: a decision that is being written is in the topic or
\* not, and the in-memory chain is gone.
Stop(r) == /\ StopReading(r)
           /\ \/ UNCHANGED done
              \/ pc[r] = "publish" /\ done' = done \cup {ItemAt(r)}
           /\ published' = {d \in published : d.maker # r}
           /\ next' = [next EXCEPT ![r] = 1]
           /\ chain' = [chain EXCEPT ![r] = <<>>]
           /\ cached' = [cached EXCEPT ![r] = 0]
           /\ UNCHANGED <<service, rows, failed, foreign>>

\* Open reads the last row of the table.
Start(r) == /\ StartReading(r)
            /\ cached' = [cached EXCEPT ![r] = rows]
            /\ UNCHANGED <<service, next, chain, rows, outVars, foreign>>

Handle(r) == \/ Finish(r) \/ PassOver(r) \/ CallBack(r) \/ Decide(r) \/ Publish(r)
             \/ RecordInMemory(r) \/ RecordInTable(r)

Next == \/ \E r \in Member : Read(r) \/ Handle(r) \/ Stop(r) \/ Start(r)
        \/ ForeignAppend

\* The broker gives a partition that has no owner to a live member, and a live
\* process reads and handles.  Nothing is assumed of stops, starts, other
\* rebalances, and of how a read or a write ends.
Fairness ==
    \A r \in Member :
        /\ WF_servicesVars(owner = Nobody /\ Rebalance(r) /\ Read(r))
        /\ SF_servicesVars(Fetch(r) /\ Read(r))
        /\ WF_servicesVars((Commit(r) \/ TimesOut(r)) /\ Read(r))
        /\ WF_servicesVars(Handle(r))

Spec == Init /\ [][Next]_servicesVars /\ Fairness
-----------------------------------------------------------------------------
\* The group's state is well-formed, handlers are within their message, and no
\* process believes the table longer than it is.
TypeOK ==
    /\ GroupTypeOK
    /\ service \in Kinds
    /\ \A r \in Member : /\ pc[r] \in {"down", "read", "commit", "handle", "publish"}
                        /\ next[r] \in 1 .. (IF at[r] = None THEN 1 ELSE Len(Items(at[r])) + 1)
                        /\ cached[r] \in 0 .. rows
    /\ foreign \in 0 .. MaxForeign

\* A message the group has committed is handled to its last valid item, or the
\* write or append of an item failed, or a process has it in hand: but for one
\* message for each stop and each read that timed out, and however the partition
\* moved and offsets were committed late.
Handled(m) == \A k \in DOMAIN Items(m) :
    Items(m)[k] = "invalid" \/ <<m, k>> \in done \cup failed
InHand(m) == \E r \in Member : at[r] = m
LossAccounted ==
    Cardinality({m \in 1 .. committed : ~Handled(m) /\ ~InHand(m)}) <= stops + timeouts

\* The hash of a published decision is that of the record about its event in
\* the chain of the process that made it, whatever was invalid, failed or was
\* decided twice before: as long as that process runs.
Traceable ==
    \A d \in published :
        d.hash \in DOMAIN chain[d.maker] /\ chain[d.maker][d.hash] = d.item

\* While any process runs the topic is read to its end, and nothing is left in
\* hand, however often the partition moved.
Drained == /\ \E r \in Member : owner = r /\ position = Messages
           /\ \A r \in Member : at[r] = None
Drains == <>[](\E r \in Member : Up(r)) => <>[]Drained
=============================================================================
