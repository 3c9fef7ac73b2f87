---------------------------- MODULE AtomicMethods ----------------------------
(***************************************************************************)
(* What the caller of a @Transactional method is promised, whatever the    *)
(* methods below it do: the statements of one transaction on one database  *)
(* reach the store in a single step, all of them or none, and nothing is   *)
(* added to a transaction that has reached it.                             *)
(***************************************************************************)
CONSTANTS Units,       \* the transactions, each on one database
          Statements

VARIABLES work,   \* per unit: the statements that have run in it
          store   \* the statements whose writes are in the database for good

vars == <<work, store>>

Init == /\ work = [u \in Units |-> {}]
        /\ store = {}

Run(u, s) == /\ work[u] \cap store = {}
             /\ \A v \in Units : s \notin work[v]
             /\ work' = [work EXCEPT ![u] = @ \cup {s}]
             /\ UNCHANGED store

Commit(u) == /\ work[u] # {} /\ work[u] \cap store = {}
             /\ store' = store \cup work[u]
             /\ UNCHANGED work

Next == \E u \in Units : Commit(u) \/ \E s \in Statements : Run(u, s)

Spec == Init /\ [][Next]_vars
=============================================================================
