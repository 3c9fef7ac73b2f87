------------------------- MODULE ConstraintManager -------------------------
(***************************************************************************)
(* One uniqueness constraint, and the callers that ensure it or look       *)
(* whether it is in force, each in a process of its own: ConstraintManager *)
(* (src/schema/ConstraintManager.ts) as StoreIdentity calls it, with the   *)
(* data sampled first and a plain index in the way replaced.               *)
(*                                                                         *)
(* The store is external. On NEO4J a constraint is made at once, refused   *)
(* where the data breaks it, and a plain index over its key is in its way. *)
(* On FALKORDB it needs that index, is built in the background, and a      *)
(* build the data breaks leaves it listed as failed.                       *)
(*                                                                         *)
(* awaitBuild reads up to fifty times. A reading that finds the build      *)
(* under way changes nothing, so the readings are not counted: a caller    *)
(* waits until the constraint changes, or runs out of readings (NotBuilt). *)
(*                                                                         *)
(* A definition with With or Without in its name is a mutant: the one      *)
(* after it, with a mistake the code does not make.                        *)
(***************************************************************************)
EXTENDS Integers

CONSTANTS
  Callers,     \* the callers of ensure and inForce
  Engines,     \* the engines a behaviour may be on
  Faults,      \* the ways a schema statement may fail on its own
  MaxFaults    \* the bound on such failures in a behaviour

VARIABLES
  engine,      \* the engine of this behaviour
  constraint,  \* "none", "building", "built" or "failed"
  range,       \* whether a plain range index over the key is there
  held,        \* the nodes that hold the key
  at,          \* per caller, the statement its call is at
  outcome,     \* per caller, what its last call returned or threw, and
               \* what the drop it is at was refused with
  faults       \* how many statements failed on their own, or did earlier

store == <<engine, constraint, range, held>>

\* Two nodes hold the key: what `conflicts` reads.
Repeated == \E a, b \in held : a # b

\* What a schema statement throws: refused for what another made meanwhile
\* (StoreIdentity.madeMeanwhile), turned away until the executor gave up on
\* it, or anything else.
Failures == {"meanwhile", "contended", "refused"}
Statuses == {"CREATED", "ALREADY_MATCHING", "VIOLATION"}
Looks == {"inForce", "notInForce"}

Statements ==
  {"find", "dropStale", "staleRefused", "sample", "range", "missing", "makeRange",
   "create", "blocked", "dropIndex", "createAgain", "await", "dropFailed",
   "failedRefused", "conflicts", "look"}

GoTo(m, step) == at' = [at EXCEPT ![m] = step] /\ UNCHANGED outcome

Return(m, what) ==
  /\ at' = [at EXCEPT ![m] = "returned"]
  /\ outcome' = [outcome EXCEPT ![m] = what]

\* A refusal for what another caller made meanwhile.
ThereAlreadyWithoutRecognition(m) == Return(m, "refused")
ThereAlready(m) == Return(m, "meanwhile")

FindWithoutDrop(m) ==
  /\ at[m] = "find"
  /\ \/ constraint = "built" /\ Return(m, "ALREADY_MATCHING")
     \/ constraint \in {"none", "failed"} /\ GoTo(m, "sample")
  /\ UNCHANGED <<store, faults>>
\* ensure: `built`. A failed build is dropped, to be made again.
Find(m) ==
  /\ at[m] = "find"
  /\ \/ constraint = "built" /\ Return(m, "ALREADY_MATCHING")
     \/ constraint = "failed" /\ GoTo(m, "dropStale")
     \/ constraint = "none" /\ GoTo(m, "sample")
  /\ UNCHANGED <<store, faults>>

\* A drop is refused, and the listing read again: its failure is kept.
Refused(m, refused, failure) ==
  /\ at' = [at EXCEPT ![m] = refused]
  /\ outcome' = [outcome EXCEPT ![m] = failure]

\* dropFailedBuild: the drop names the constraint, whatever its state by
\* then; with none there FalkorDB refuses it.
DropFailedBuild(m, from, refused, next) ==
  /\ at[m] = from
  /\ constraint' = "none"
  /\ IF constraint = "none" THEN Refused(m, refused, "refused") ELSE GoTo(m, next)
  /\ UNCHANGED <<engine, range, held, faults>>

\* The drop's own failure is thrown, if a failed build is listed still.
StillFailed(m, refused, next) ==
  /\ at[m] = refused
  /\ IF constraint = "failed" THEN Return(m, outcome[m]) ELSE GoTo(m, next)
  /\ UNCHANGED <<store, faults>>

Drop(m) ==
  \/ DropFailedBuild(m, "dropStale", "staleRefused", "sample")
  \/ DropFailedBuild(m, "dropFailed", "failedRefused", "conflicts")
  \/ StillFailed(m, "staleRefused", "sample")
  \/ StillFailed(m, "failedRefused", "conflicts")

Sample(m) ==
  /\ at[m] = "sample"
  /\ IF Repeated THEN Return(m, "VIOLATION")
     ELSE GoTo(m, IF engine = "FALKORDB" THEN "range" ELSE "create")
  /\ UNCHANGED <<store, faults>>

\* IndexManager.ensure of the range index FalkorDB's constraint needs.
FindRange(m) ==
  /\ at[m] = "range"
  /\ GoTo(m, IF range THEN "create" ELSE "missing")
  /\ UNCHANGED <<store, faults>>

\* The index is looked for once more, and made if it is missing; another's
\* made meanwhile refuses it.
MakeRange(m) ==
  \/ /\ at[m] = "missing"
     /\ GoTo(m, IF range THEN "create" ELSE "makeRange")
     /\ UNCHANGED <<store, faults>>
  \/ /\ at[m] = "makeRange"
     /\ IF range THEN ThereAlready(m) ELSE GoTo(m, "create")
     /\ range' = TRUE
     /\ UNCHANGED <<engine, constraint, held, faults>>

CreateOnNeo4j(m) ==
  /\ engine = "NEO4J"
  /\ at[m] \in {"create", "createAgain"}
  /\ \/ /\ constraint = "built"        \* IF NOT EXISTS
        /\ GoTo(m, "await")
        /\ UNCHANGED constraint
     \/ /\ constraint = "none" /\ range
        /\ at[m] = "create" /\ GoTo(m, "blocked")
        /\ UNCHANGED constraint
     \/ /\ constraint = "none" /\ ~range /\ Repeated
        /\ Return(m, "refused")
        /\ UNCHANGED constraint
     \/ /\ constraint = "none" /\ ~range /\ ~Repeated
        /\ GoTo(m, "await")
        /\ constraint' = "built"
  /\ UNCHANGED <<engine, range, held, faults>>

CreateOnFalkorDb(m) ==
  /\ engine = "FALKORDB"
  /\ at[m] = "create"
  /\ IF constraint = "none"
     THEN constraint' = "building" /\ GoTo(m, "await")
     ELSE UNCHANGED constraint /\ ThereAlready(m)
  /\ UNCHANGED <<engine, range, held, faults>>

\* The index in the way is looked for, dropped and the constraint made
\* again. Gone by then, the refusal is thrown: "There already exists".
ReplaceIndex(m) ==
  \/ /\ at[m] = "blocked"
     /\ IF range THEN GoTo(m, "dropIndex") ELSE ThereAlready(m)
     /\ UNCHANGED <<store, faults>>
  \/ /\ at[m] = "dropIndex"
     /\ range' = FALSE
     /\ GoTo(m, "createAgain")
     /\ UNCHANGED <<engine, constraint, held, faults>>

\* awaitBuilt, of a constraint just made.
AwaitWithoutReading(m) ==
  at[m] = "await" /\ Return(m, "CREATED") /\ UNCHANGED <<store, faults>>
Await(m) ==
  /\ at[m] = "await"
  /\ \/ constraint = "built" /\ Return(m, "CREATED")
     \/ constraint = "failed" /\ GoTo(m, "dropFailed")
  /\ UNCHANGED <<store, faults>>

\* buildFailed, its build dropped: the data says whether it is a violation.
Conflicts(m) ==
  /\ at[m] = "conflicts"
  /\ Return(m, IF Repeated THEN "VIOLATION" ELSE "refused")
  /\ UNCHANGED <<store, faults>>

\* inForce: a build under way is waited on; a failed one is left as it is.
Look(m) ==
  /\ at[m] = "look"
  /\ constraint # "building"
  /\ Return(m, IF constraint = "built" THEN "inForce" ELSE "notInForce")
  /\ UNCHANGED <<store, faults>>

NotBuiltWithoutBound(m) ==
  /\ at[m] \in {"find", "await", "look"} /\ constraint = "building"
  /\ "slow" \in Faults /\ faults < MaxFaults
  /\ faults' = faults + 1
  /\ Return(m, IF at[m] = "look" THEN "notInForce" ELSE "refused")
  /\ UNCHANGED store
\* The readings run out: on a constraint just made that another dropped, or,
\* as a fault, on a build that takes longer than all of them.
NotBuilt(m) ==
  /\ \/ at[m] = "await" /\ constraint = "none" /\ UNCHANGED faults
     \/ /\ at[m] \in {"find", "await", "look"} /\ constraint = "building"
        /\ "slow" \in Faults /\ faults < MaxFaults
        /\ faults' = faults + 1
  /\ Return(m, IF at[m] = "look" THEN "notInForce" ELSE "refused")
  /\ UNCHANGED store

\* The engine ends a build.
BuildEnds ==
  /\ constraint = "building"
  /\ constraint' = IF Repeated THEN "failed" ELSE "built"
  /\ UNCHANGED <<engine, range, held, at, outcome, faults>>

\* A statement fails on its own, with nothing done. A drop's failure is read
\* against the listing, and a look that fails finds nothing.
StatementFails(m, failure) ==
  /\ at[m] \in Statements
  /\ failure \in Faults /\ faults < MaxFaults
  /\ faults' = faults + 1
  /\ CASE at[m] = "dropStale" -> Refused(m, "staleRefused", failure)
       [] at[m] = "dropFailed" -> Refused(m, "failedRefused", failure)
       [] at[m] = "look" -> Return(m, "notInForce")
       [] OTHER -> Return(m, failure)
  /\ UNCHANGED store

\* A step of a call under way.
Manage(m) ==
  \/ Find(m) \/ Drop(m) \/ Sample(m) \/ FindRange(m) \/ MakeRange(m)
  \/ CreateOnNeo4j(m) \/ CreateOnFalkorDb(m) \/ ReplaceIndex(m)
  \/ Await(m) \/ Conflicts(m) \/ Look(m) \/ NotBuilt(m)
  \/ \E failure \in {"contended", "refused"} : StatementFails(m, failure)
=============================================================================
