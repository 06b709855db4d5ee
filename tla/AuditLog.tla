------------------------------- MODULE AuditLog -------------------------------
(***************************************************************************)
(* What an audit store promises, with no hashes, caches, processes or      *)
(* tables in sight: a log of entries that only ever grows at its end, every*)
(* entry numbered by its position, and a set of acknowledged entries, all  *)
(* of them in the log.  An entry may be in the log without its writer      *)
(* having learnt of it (a lost answer), never the other way round.         *)
(***************************************************************************)
EXTENDS Naturals, Sequences

CONSTANT Body       \* what an entry says, its number apart

VARIABLES log,      \* the entries, oldest first
          acked     \* the entries whose Append returned without an error

logVars == <<log, acked>>

Entry == [seq : Nat, body : Body]

Init == log = <<>> /\ acked = {}

\* The log takes one more entry, which its writer may or may not learn of.
Extend(body, told) ==
    LET entry == [seq |-> Len(log), body |-> body]
    IN  /\ log' = Append(log, entry)
        /\ acked' = IF told THEN acked \cup {entry} ELSE acked

Next == \E body \in Body, told \in BOOLEAN : Extend(body, told)

Spec == Init /\ [][Next]_logVars
=============================================================================
