------------------------------ MODULE MCPgAudit ------------------------------
(***************************************************************************)
(* Two processes of one tenant and one of another.  The two payloads are   *)
(* one JSON object in two key orders: JSONB returns both in the first.     *)
(*                                                                         *)
(* There are two mixes, of which one is chosen at the start and stays.  In *)
(* "rows" the table grows to MaxRows and nobody is watched.  In "calls"    *)
(* two callers of the first process are, every append has one payload, and *)
(* it is asked for, or begun elsewhere, while its store is below WaitRows. *)
(***************************************************************************)
EXTENDS PgCalls, TLC

CONSTANTS w1, w2, w3, t1, t2, sorted, unsorted, c1, c2,
          MaxRows,      \* rows an append may be started for
          MaxLate,      \* abandoned inserts outstanding before an append starts
          WaitRows      \* rows an append may be asked for in the mix of calls

VARIABLE mix

MCTenantOf == (w1 :> t1) @@ (w2 :> t1) @@ (w3 :> t2)
MCJsonbOf == (sorted :> sorted) @@ (unsorted :> sorted)
MCHomeOf == [c \in Callers |-> w1]

RowsMix ==
    /\ mix = "rows"
    /\ \E w \in Writers : /\ nextSeq[w] < MaxRows /\ Cardinality(late) < MaxLate
                          /\ AppendElsewhere(w)

CallsMix ==
    /\ mix = "calls"
    /\ \/ \E w \in Writers : nextSeq[w] < WaitRows /\ AppendElsewhere(w)
       \/ \E c \in Callers : \/ nextSeq[HomeOf[c]] < WaitRows /\ Ask(c, "append")
                             \/ Ask(c, "headHash")
                             \/ Lock(c)
    /\ \A w \in Writers : pending'[w] # None => pending'[w].payload = sorted

MCNext ==
    /\ \/ RowsMix
       \/ CallsMix
       \/ \E w \in Writers : Answer(w) \/ Deadline(w) \/ Die(w)
       \/ \E w \in Writers : Open(w) /\ (mix = "rows" \/ w # w3) /\ UNCHANGED call
       \/ \E row \in late : (LateCommit(row) \/ LateDrop(row)) /\ UNCHANGED call
    /\ UNCHANGED mix

MCInit == CallsInit /\ mix \in {"rows", "calls"}
MCSpec == MCInit /\ [][MCNext]_<<pcVars, mix>> /\ Fairness
=============================================================================
