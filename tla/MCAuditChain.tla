----------------------------- MODULE MCAuditChain -----------------------------
(* Chains of up to MaxRecords records over two kinds, two payloads, two times. *)
EXTENDS AuditChain

CONSTANT MaxRecords

Bounded == Len(records) < MaxRecords
MCNext == Bounded /\ Next
MCSpec == Init /\ [][MCNext]_chainVars
=============================================================================
