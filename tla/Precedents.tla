------------------------------ MODULE Precedents ------------------------------
(***************************************************************************)
(* internal/precedents: the past operator resolutions that match an event, *)
(* read from a snapshot of the audit chain.                                *)
(*                                                                         *)
(* In one chain a record's hash determines its position and is determined  *)
(* by it (AuditChain!Intact), so here the hash of the i-th record is i and *)
(* the empty hash is 0.  A resolution is named by the position of its      *)
(* operator_action record; the decision it resolves is that record's ref.  *)
(* Case folding and the default tenant are in DimsOf: it gives an event    *)
(* type, source, severity and tenant normalised.                           *)
(***************************************************************************)
EXTENDS Integers, Sequences, FiniteSets, FiniteSetsExt

CONSTANT DimsOf     \* what the four criteria compare, of each event

decisionKinds == {"decision", "decision_with_precedents"}

Decisions(chain) ==
    {i \in DOMAIN chain : chain[i].kind \in decisionKinds /\ chain[i].status \in {"", "pass"}}

\* Slips: any decision kind will do; the ref is not looked up among decisions
\* that match the criteria.
MatchesIgnoringCriteria(chain, event) ==
    {a \in DOMAIN chain : /\ chain[a].kind = "operator_action"
                          /\ chain[a].ref \in Decisions(chain)}

Matches(chain, event) ==
    {a \in DOMAIN chain : /\ chain[a].kind = "operator_action"
                          /\ chain[a].ref \in Decisions(chain)
                          /\ DimsOf[chain[chain[a].ref].event] = DimsOf[event]}

\* MaxPrecedents of the request; five if it is not positive.
Cap(max) == IF max <= 0 THEN 5 ELSE max

\* The answers FindMatches may give: matches sorted by the number of their
\* decision, newest first, cut at the cap.  sort.Slice is not stable, so
\* resolutions of one decision come in any order, and any of them may be cut.
FindMatches(chain, event, max) ==
    LET found == Matches(chain, event)
        n == Min({Cardinality(found), Cap(max)})
        Decision(a) == chain[a].ref
    IN  {out \in [1 .. n -> found] :
            /\ \A i, j \in 1 .. n : i < j => out[i] # out[j] /\ Decision(out[i]) >= Decision(out[j])
            /\ \A a \in found \ {out[i] : i \in 1 .. n} :
                  \A i \in 1 .. n : Decision(out[i]) >= Decision(a)}
=============================================================================
