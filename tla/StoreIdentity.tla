--------------------------- MODULE StoreIdentity ---------------------------
(***************************************************************************)
(* The identity of a store, minted on first sight by whichever manager     *)
(* comes first (src/store/StoreIdentity.ts), each manager in a process of  *)
(* its own. A manager first makes the unique key of the stamp's node       *)
(* (ConstraintManager), then merges its stamp and reads the oldest one.    *)
(*                                                                         *)
(* No engine is assumed to match and create in one step: a MERGE looks,    *)
(* then writes. A stamp's age is its writer's clock, which says nothing of *)
(* the order of the writes: stamps are ordered by their writer's number.   *)
(*                                                                         *)
(* A definition with With or Without in its name is a mutant: the one      *)
(* after it, with a mistake the code does not make.                        *)
(***************************************************************************)
EXTENDS ConstraintManager

CONSTANTS
  Managers,        \* the managers, as numbers from 1
  Earlier,         \* the stamps a store may hold to begin with, by 0
  Beginnings,      \* what may be left of the constraint to begin with
  Attempts,        \* ATTEMPTS: merge and read
  EnsureAttempts,  \* ENSURE_ATTEMPTS
  LooksForWinner,  \* LOOKS_FOR_THE_WINNER
  MergeAttempts,   \* MERGE_ATTEMPTS
  MaxWipes,        \* the bound on deletions of every stamp by someone else
  None

VARIABLES
  mgr,       \* per manager, its counters and what it knows
  identity,  \* per manager, the id it resolved and the store's data then
  data       \* how many times the store's data was deleted

vars == <<store, at, outcome, faults, mgr, identity, data>>

ASSUME ManagersAreCallers == Managers = Callers /\ Managers \subseteq Nat \ {0}
ASSUME StoresBegin ==
  /\ Engines \subseteq {"NEO4J", "FALKORDB"} /\ Beginnings \subseteq {"none", "built", "failed"}
  /\ Earlier \subseteq {0} \X Nat
ASSUME NothingIsApart == None \notin Statuses \cup Looks \cup {"violated"}
ASSUME Bounds ==
  {Attempts, EnsureAttempts, LooksForWinner, MergeAttempts} \subseteq Nat \ {0}

Older(s, t) == s[1] < t[1] \/ (s[1] = t[1] /\ s[2] <= t[2])
Oldest(s) == s \in held /\ \A t \in held : Older(s, t)

FreshWithZero ==
  [ensures |-> 0, again |-> FALSE, looks |-> 0, guarded |-> FALSE,
   merges |-> 1, tries |-> 1, minted |-> 0]
Fresh == [ensures |-> 1, again |-> FALSE, looks |-> 0, guarded |-> FALSE,
          merges |-> 1, tries |-> 1, minted |-> 0]

Init ==
  /\ engine \in Engines
  /\ constraint \in {c \in Beginnings : c = "failed" => engine = "FALKORDB"}
  /\ range \in BOOLEAN
  /\ held \in {{}, Earlier}
  /\ constraint = "built" => ~Repeated /\ (range <=> engine = "FALKORDB")
  /\ constraint = "failed" => range
  /\ at = [m \in Managers |-> "idle"]
  /\ outcome = [m \in Managers |-> None]
  /\ faults = IF Repeated \/ constraint = "failed" THEN 1 ELSE 0
  /\ mgr = [m \in Managers |-> Fresh]
  /\ identity = [m \in Managers |-> None]
  /\ data = 0

\* storeIdentity(): the first call starts resolving; a rejection is
\* forgotten, so a later call starts again.
Resolve(m) ==
  /\ at[m] \in {"idle", "rejected"}
  /\ GoTo(m, "find")
  /\ mgr' = [mgr EXCEPT ![m] = [Fresh EXCEPT !.minted = mgr[m].minted]]
  /\ UNCHANGED <<store, faults, identity, data>>

\* ensureUniqueKey is done: the stamp is merged, under the key or without.
GoOn(m, guarded) ==
  /\ GoTo(m, "merge")
  /\ mgr' = [mgr EXCEPT ![m].guarded = guarded]

EnsureAgain(m, ensures) ==
  /\ GoTo(m, "find")
  /\ mgr' = [mgr EXCEPT ![m].ensures = ensures]

\* inForceAfter.
EnsuredWithoutStatus(m) ==
  /\ at[m] = "returned" /\ outcome[m] \in Statuses
  /\ GoOn(m, TRUE)
  /\ UNCHANGED <<store, faults, identity, data>>
Ensured(m) ==
  /\ at[m] = "returned" /\ outcome[m] \in Statuses
  /\ GoOn(m, outcome[m] # "VIOLATION")
  /\ UNCHANGED <<store, faults, identity, data>>

\* ensuredAgainWhenMadeMeanwhile.
MadeMeanwhile(m) ==
  /\ at[m] = "returned" /\ outcome[m] = "meanwhile"
  /\ mgr[m].ensures < EnsureAttempts
  /\ EnsureAgain(m, mgr[m].ensures + 1)
  /\ UNCHANGED <<store, faults, identity, data>>

\* Making the key failed. The first time, the winner's is looked for: once,
\* or after contention several times, and then the key is ensured once more.
MakingFailed(m) ==
  /\ at[m] = "returned" /\ outcome[m] \in Failures
  /\ outcome[m] = "meanwhile" => mgr[m].ensures >= EnsureAttempts
  /\ IF mgr[m].again
     THEN GoOn(m, FALSE)
     ELSE /\ GoTo(m, "look")
          /\ mgr' = [mgr EXCEPT
               ![m].looks = IF outcome[m] = "contended" THEN LooksForWinner ELSE 1,
               ![m].again = outcome[m] = "contended"]
  /\ UNCHANGED <<store, faults, identity, data>>

\* winnersInForce, with looks left or by what was found.
LookAgain(m) == GoTo(m, "look") /\ mgr' = [mgr EXCEPT ![m].looks = @ - 1]

Looked(m) ==
  /\ at[m] = "returned" /\ outcome[m] \in Looks
  /\ \/ outcome[m] = "inForce" /\ GoOn(m, TRUE)
     \/ /\ outcome[m] = "notInForce" /\ mgr[m].looks > 1
        /\ LookAgain(m)
     \/ /\ outcome[m] = "notInForce" /\ mgr[m].looks = 1 /\ mgr[m].again
        /\ EnsureAgain(m, 1)
     \/ /\ outcome[m] = "notInForce" /\ mgr[m].looks = 1 /\ ~mgr[m].again
        /\ GoOn(m, FALSE)
  /\ UNCHANGED <<store, faults, identity, data>>

\* A merge that failed is run again, on attempts left, when a peer's stamp
\* refused it, or under the key when it conflicted with a peer's write.
RetriedWithKeyOnly(m, failure) ==
  mgr[m].merges < MergeAttempts /\ mgr[m].guarded
Retried(m, failure) ==
  /\ mgr[m].merges < MergeAttempts
  /\ failure = "violated" \/ (mgr[m].guarded /\ failure = "conflict")

MergeAgain(m, failure) ==
  IF Retried(m, failure)
  THEN /\ at' = [at EXCEPT ![m] = "merge"]
       /\ mgr' = [mgr EXCEPT ![m].merges = @ + 1]
       /\ UNCHANGED outcome
  ELSE /\ at' = [at EXCEPT ![m] = "rejected"]
       /\ outcome' = [outcome EXCEPT ![m] = failure]
       /\ UNCHANGED mgr

\* assignIfAbsent: the MERGE looks for a stamp ...
Merge(m) ==
  /\ at[m] = "merge"
  /\ GoTo(m, IF held = {} THEN "write" ELSE "read")
  /\ UNCHANGED <<store, faults, mgr, identity, data>>

\* ... and, none found, creates its own, unless the key refuses it.
Write(m) ==
  /\ at[m] = "write"
  /\ IF constraint = "built" /\ held # {}
     THEN MergeAgain(m, "violated") /\ UNCHANGED held
     ELSE /\ held' = held \cup {<<m, mgr[m].minted + 1>>}
          /\ mgr' = [mgr EXCEPT ![m].minted = @ + 1]
          /\ GoTo(m, "read")
  /\ UNCHANGED <<engine, constraint, range, faults, identity, data>>

\* resolve: the oldest stamp there is, or the whole again.
Read(m) ==
  /\ at[m] = "read"
  /\ \/ /\ \E s \in held : Oldest(s) /\ identity' = [identity EXCEPT ![m] = [id |-> s, data |-> data]]
        /\ GoTo(m, "resolved")
        /\ UNCHANGED mgr
     \/ /\ held = {} /\ mgr[m].tries < Attempts
        /\ GoTo(m, "merge")
        /\ mgr' = [mgr EXCEPT ![m].tries = @ + 1, ![m].merges = 1]
        /\ UNCHANGED identity
     \/ /\ held = {} /\ mgr[m].tries = Attempts
        /\ at' = [at EXCEPT ![m] = "rejected"]
        /\ outcome' = [outcome EXCEPT ![m] = "vanished"]
        /\ UNCHANGED <<mgr, identity>>
  /\ UNCHANGED <<store, faults, data>>

\* A merge or a reading that fails on its own.
StampFails(m) ==
  /\ faults < MaxFaults
  /\ faults' = faults + 1
  /\ \/ /\ at[m] = "write" /\ "conflict" \in Faults
        /\ MergeAgain(m, "conflict")
     \/ /\ at[m] \in {"merge", "read"} /\ "refused" \in Faults
        /\ at' = [at EXCEPT ![m] = "rejected"]
        /\ outcome' = [outcome EXCEPT ![m] = "refused"]
        /\ UNCHANGED mgr
  /\ UNCHANGED <<store, identity, data>>

\* Someone else deletes every stamp, or the duplicates of the oldest.
Wipe ==
  /\ data < MaxWipes /\ held # {}
  /\ held' = {} /\ data' = data + 1
  /\ UNCHANGED <<engine, constraint, range, at, outcome, faults, mgr, identity>>

RemoveDuplicates ==
  /\ Repeated
  /\ \E s \in held : Oldest(s) /\ held' = {s}
  /\ UNCHANGED <<engine, constraint, range, at, outcome, faults, mgr, identity, data>>

Step(m) ==
  \/ Manage(m) /\ UNCHANGED <<mgr, identity, data>>
  \/ Ensured(m) \/ MadeMeanwhile(m) \/ MakingFailed(m) \/ Looked(m)
  \/ Merge(m) \/ Write(m) \/ Read(m) \/ StampFails(m)

\* Every manager has its identity, and keeps it.
Done == (\A m \in Managers : at[m] = "resolved") /\ UNCHANGED vars

Next ==
  \/ \E m \in Managers : Resolve(m) \/ Step(m)
  \/ BuildEnds /\ UNCHANGED <<mgr, identity, data>>
  \/ Wipe \/ RemoveDuplicates
  \/ Done

Spec == Init /\ [][Next]_vars

\* A call under way goes on, and the engine ends the builds it began. Nobody
\* has to call, to fail, or to touch the stamps.
FairSpec ==
  /\ Spec
  /\ \A m \in Managers : WF_vars(Step(m))
  /\ WF_vars(BuildEnds /\ UNCHANGED <<mgr, identity, data>>)

-----------------------------------------------------------------------------
Resolved(m) == at[m] = "resolved"

TypeOK ==
  /\ engine \in {"NEO4J", "FALKORDB"} /\ range \in BOOLEAN
  /\ constraint \in {"none", "building", "built", "failed"}
  /\ held \subseteq ({0} \cup Managers) \X Nat
  /\ at \in [Managers -> Statements \cup
        {"idle", "returned", "merge", "write", "read", "resolved", "rejected"}]
  /\ mgr \in [Managers -> [ensures : 1..EnsureAttempts, again : BOOLEAN,
        looks : 0..LooksForWinner, guarded : BOOLEAN,
        merges : 1..MergeAttempts, tries : 1..Attempts, minted : Nat]]

\* On FalkorDB a drop meant for a build that failed may take a constraint
\* made again since: where the store begins with such a build the key may be
\* out of force for a while, and the next two properties are not promised.
BeginsSound == constraint # "failed"

Agreed ==
  \A m, n \in Managers :
    /\ Resolved(m) /\ mgr[m].guarded
    /\ Resolved(n) /\ mgr[n].guarded
    => (identity[m].id = identity[n].id <=> identity[m].data = identity[n].data)

\* Two managers that merged under the key, and looked at the same data,
\* resolved the same identity (StoreIdentity.ts:13, "two connections report
\* the same id when, and only when, they look at the same data").
GuardedAgree == BeginsSound => []Agreed

Final ==
  \A m \in Managers :
    Resolved(m) /\ mgr[m].guarded /\ identity[m].data = data
      => Oldest(identity[m].id)

\* What a manager resolved under the key is the store's identity for as long
\* as its data is there: no stamp written later, though older by its writer's
\* clock, takes its place ("Never reassigned", StoreIdentity.ts:18).
GuardedIsFinal == BeginsSound => []Final

\* Managers that start together are all guarded when nothing fails but what
\* they make fail of each other's: those refusals never use up a manager's
\* attempts (StoreIdentity.ts:127-132).
UnhinderedIsGuarded ==
  faults = 0 => \A m \in Managers : Resolved(m) => mgr[m].guarded

\* A stamp the key refuses is merged onto the peer's, guarded or not: a race
\* with a peer never rejects the identity (StoreIdentity.ts:233-236).
PeersRejectNobody == \A m \in Managers : outcome[m] # "violated"

\* A build that failed before is not left listed once a manager has its
\* identity, where nothing else failed, however the managers' drops and builds
\* cross: others that read the store would take it for the constraint
\* (ConstraintManager.ts:292-294).
FailedBuildIsNotLeft ==
  faults <= 1 /\ constraint = "failed" => \A m \in Managers : ~Resolved(m)

\* Every call of storeIdentity() settles, whatever fails on the way, and
\* whatever another manager drops while its build is awaited.
IdentitySettles ==
  \A m \in Managers : at[m] = "find" ~> at[m] \in {"resolved", "rejected"}
=============================================================================
