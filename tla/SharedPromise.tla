--------------------------- MODULE SharedPromise ---------------------------
(***************************************************************************)
(* What a promise kept for everyone who asks is meant to be: whoever asks  *)
(* first starts the work, who asks meanwhile waits for the same, a failure *)
(* is told to all who waited for it and forgotten, and what went well once *)
(* is never done again. FirstConnection's `made` and EnsuredStore's `made` *)
(* are such promises.                                                      *)
(***************************************************************************)
EXTENDS Naturals, Sequences

CONSTANT Askers

VARIABLES
  current,  \* the number of the promise kept, 0 for none
  promises, \* how each went: "pending", "kept" or "rejected"
  awaits    \* per asker, the promise it waits for, 0 for none

vars == <<current, promises, awaits>>

Init ==
  /\ current = 0 /\ promises = << >>
  /\ awaits = [p \in Askers |-> 0]

Ask(p) ==
  /\ awaits[p] = 0
  /\ \/ /\ current = 0
        /\ current' = Len(promises) + 1
        /\ promises' = Append(promises, "pending")
     \/ current # 0 /\ UNCHANGED <<current, promises>>
  /\ awaits' = [awaits EXCEPT ![p] = current']

Settle ==
  /\ current # 0 /\ promises[current] = "pending"
  /\ \/ promises' = [promises EXCEPT ![current] = "kept"] /\ UNCHANGED current
     \/ promises' = [promises EXCEPT ![current] = "rejected"] /\ current' = 0
  /\ UNCHANGED awaits

Tell(p) ==
  /\ awaits[p] # 0 /\ promises[awaits[p]] # "pending"
  /\ awaits' = [awaits EXCEPT ![p] = 0]
  /\ UNCHANGED <<current, promises>>

Next == Settle \/ \E p \in Askers : Ask(p) \/ Tell(p)

Spec == Init /\ [][Next]_vars
=============================================================================
