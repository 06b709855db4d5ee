------------------------------ MODULE MCIngest ------------------------------
(***************************************************************************)
(* Two transactions in each binlog: an update of two rows and a change of  *)
(* a table that is not allowed, then one that is refused and one row more; *)
(* for Postgres two rows, and two transactions of one row.                 *)
(***************************************************************************)
EXTENDS Ingest

Rows(op, table, images) == [op |-> op, table |-> table, images |-> images]
End == Rows("commit", "", 0)

Binlog == <<Rows("update", "orders", 4), Rows("insert", "audit", 1), End,
            Rows("update", "orders", 3), Rows("delete", "orders", 1), End>>
Wal == <<Rows("insert", "orders", 1), Rows("update", "orders", 1), End,
         Rows("delete", "orders", 1), End, Rows("insert", "orders", 1), End>>
MCLogOf == [k \in Kinds |-> IF k = "postgres" THEN Wal ELSE Binlog]
=============================================================================
