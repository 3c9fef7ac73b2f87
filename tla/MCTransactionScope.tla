------------------------ MODULE MCTransactionScope ------------------------
(* Instances of TransactionScope for TLC. *)
EXTENDS TransactionScope, TLC

CONSTANTS db1, db2

OnPostgres == [d \in Databases |-> "POSTGRES"]
OnNeo4j == [d \in Databases |-> "NEO4J"]
OnOracle == [d \in Databases |-> "ORACLE"]
OnSqlite == [d \in Databases |-> "SQLITE"]
PostgresAndOracle == (db1 :> "POSTGRES") @@ (db2 :> "ORACLE")

Interchangeable == Permutations(Calls) \cup Permutations(Statements)
=============================================================================
