------------------------------- MODULE PgCalls -------------------------------
(***************************************************************************)
(* The goroutines that call a Postgres audit store.  Append and HeadHash   *)
(* take Store.mu, Append holds it until its INSERT is answered or given    *)
(* up, so every caller of the process waits behind the one that inserts.   *)
(* (Verify, Len and Snapshot take no lock.)                                *)
(*                                                                         *)
(* What the store does with a call is PgAudit; here some of its callers    *)
(* have a place: each asks for the lock, is the one that inserts, or its   *)
(* call has returned.  Of all others only the appends are seen.            *)
(***************************************************************************)
EXTENDS PgAudit

CONSTANTS Callers,      \* goroutines that use a store and are watched
          HomeOf        \* the process each runs in

ASSUME CallersAssumption == HomeOf \in [Callers -> Writers]

VARIABLE call   \* of each caller: "" outside a call, the call that waits, or "inserting"

pcVars == <<pgVars, call>>

CallsInit == Init /\ call = [c \in Callers |-> ""]

\* Append reaches s.mu.Lock (it had a kind and a payload that marshals), or
\* HeadHash does.
Ask(c, op) ==
    /\ call[c] = "" /\ HomeOf[c] \in up
    /\ call' = [call EXCEPT ![c] = op]
    /\ UNCHANGED pgVars

\* The lock is free and an Append gets it: the record is built and sent.
Begin(w) == \E kind \in Kinds, payload \in Payloads, time \in Times :
               BeginAppend(w, kind, payload, time)

\* An Append of a goroutine that is not watched, whether it waited or not.
AppendElsewhere(w) == Begin(w) /\ UNCHANGED call

\* The lock is given to a caller that waits for it.
LockAppend(c) ==
    /\ call[c] = "append" /\ Begin(HomeOf[c])
    /\ call' = [call EXCEPT ![c] = "inserting"]
LockHeadHash(c) ==
    /\ call[c] = "headHash" /\ HomeOf[c] \in up /\ pending[HomeOf[c]] = None
    /\ call' = [call EXCEPT ![c] = ""]
    /\ UNCHANGED pgVars
Lock(c) == LockAppend(c) \/ LockHeadHash(c)

\* The calls of a process that end, with their results or with the process.
End(w, ops) ==
    call' = [c \in Callers |-> IF HomeOf[c] = w /\ call[c] \in ops THEN "" ELSE call[c]]

Answer(w) == (InsertOk(w) \/ InsertRefused(w)) /\ End(w, {"inserting"})
Deadline(w) == InsertTimeout(w) /\ End(w, {"inserting"})
Die(w) == Crash(w) /\ End(w, {"append", "headHash", "inserting"})

CallsNext ==
    \/ \E c \in Callers : \/ Lock(c)
                          \/ \E op \in {"append", "headHash"} : Ask(c, op)
    \/ \E w \in Writers : AppendElsewhere(w) \/ Answer(w) \/ Deadline(w) \/ Die(w)
    \/ /\ (\E w \in Writers : Open(w)) \/ (\E row \in late : LateCommit(row) \/ LateDrop(row))
       /\ UNCHANGED call

\* The server may never answer; the client's own deadline comes.  A goroutine
\* that waits is not passed over for ever when the lock is free again and again:
\* sync.Mutex hands it to a waiter that starves.
Fairness == /\ \A w \in Writers : WF_pcVars(Deadline(w))
            /\ \A c \in Callers : SF_pcVars(Lock(c))

CallsSpec == CallsInit /\ [][CallsNext]_pcVars /\ Fairness
-----------------------------------------------------------------------------
\* Every call of Append and HeadHash returns, or ends with its process, even if
\* the server never answers anybody and other callers never stop coming: the
\* one that inserts gives up after the ten seconds of store.go:100, and those
\* that wait behind it get the lock in their turn.
CallsReturn == \A c \in Callers : call[c] # "" ~> call[c] = ""
=============================================================================
