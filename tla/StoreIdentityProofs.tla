------------------------ MODULE StoreIdentityProofs ------------------------
(***************************************************************************)
(* Proofs about StoreIdentity, for any number of managers and any bounds:  *)
(* its types, and that a race with peers refuses nobody, on every engine;  *)
(* and on Neo4j, where a constraint is never half made, that managers      *)
(* which merged under the key agree on the identity and keep it.           *)
(***************************************************************************)
EXTENDS StoreIdentity, TLAPS

Stamps == ({0} \cup Managers) \X Nat
Identities == [id : Stamps, data : Nat]
Outcomes ==
  Failures \cup Statuses \cup Looks \cup {"violated", "conflict", "vanished", None}

\* TypeOK with the types of the variables it leaves out.
Types ==
  /\ TypeOK
  /\ outcome \in [Managers -> Outcomes]
  /\ identity \in [Managers -> {None} \cup Identities]
  /\ data \in Nat

-----------------------------------------------------------------------------
(* Types.                                                                   *)

LEMMA TypesAtFirst == Init => Types
<1> SUFFICES ASSUME Init PROVE Types
  OBVIOUS
<1> USE ManagersAreCallers, StoresBegin, Bounds
<1>1. /\ engine \in {"NEO4J", "FALKORDB"} /\ range \in BOOLEAN
      /\ constraint \in {"none", "building", "built", "failed"}
      /\ held \subseteq ({0} \cup Managers) \X Nat
  BY DEF Init
<1>2. at \in [Managers -> Statements \cup
        {"idle", "returned", "merge", "write", "read", "resolved", "rejected"}]
  BY DEF Init
<1>3. mgr \in [Managers -> [ensures : 1..EnsureAttempts, again : BOOLEAN,
        looks : 0..LooksForWinner, guarded : BOOLEAN,
        merges : 1..MergeAttempts, tries : 1..Attempts, minted : Nat]]
  BY DEF Init, Fresh
<1>4. outcome \in [Managers -> Outcomes] /\ identity \in [Managers -> {None} \cup Identities]
      /\ data \in Nat
  BY DEF Init, Outcomes
<1> QED BY <1>1, <1>2, <1>3, <1>4 DEF Types, TypeOK

\* A step of the constraint's manager keeps the types, and touches no stamp.
LEMMA ManageTypes ==
  ASSUME Types, NEW m \in Managers, Manage(m), UNCHANGED <<mgr, identity, data>>
  PROVE  Types'
<1> DEFINE Ats == Statements \cup
             {"idle", "returned", "merge", "write", "read", "resolved", "rejected"}
<1> USE DEF Types, TypeOK
<1> SUFFICES /\ engine' \in {"NEO4J", "FALKORDB"} /\ range' \in BOOLEAN
             /\ constraint' \in {"none", "building", "built", "failed"}
             /\ held' = held
             /\ at' \in [Managers -> Ats] /\ outcome' \in [Managers -> Outcomes]
  OBVIOUS
<1> USE DEF Return, GoTo, store, Statements, Outcomes, Failures, Statuses, Looks
<1>1. CASE Find(m)
  BY <1>1 DEF Find
<1>2. CASE Drop(m)
  BY <1>2 DEF Drop, DropFailedBuild, StillFailed, Refused
<1>3. CASE Sample(m)
  BY <1>3 DEF Sample
<1>4. CASE FindRange(m) \/ MakeRange(m)
  BY <1>4 DEF FindRange, MakeRange, ThereAlready
<1>5. CASE CreateOnNeo4j(m)
  BY <1>5 DEF CreateOnNeo4j
<1>6. CASE CreateOnFalkorDb(m)
  BY <1>6 DEF CreateOnFalkorDb, ThereAlready
<1>7. CASE ReplaceIndex(m)
  BY <1>7 DEF ReplaceIndex, ThereAlready
<1>8. CASE Await(m)
  BY <1>8 DEF Await
<1>9. CASE Conflicts(m)
  BY <1>9 DEF Conflicts
<1>10. CASE Look(m)
  BY <1>10 DEF Look
<1>11. CASE NotBuilt(m)
  BY <1>11 DEF NotBuilt
<1>12. ASSUME NEW failure \in {"contended", "refused"}, StatementFails(m, failure)
       PROVE  /\ engine' \in {"NEO4J", "FALKORDB"} /\ range' \in BOOLEAN
              /\ constraint' \in {"none", "building", "built", "failed"}
              /\ held' = held
              /\ at' \in [Managers -> Ats] /\ outcome' \in [Managers -> Outcomes]
  BY <1>12 DEF StatementFails, Refused
<1> QED
  BY <1>1, <1>2, <1>3, <1>4, <1>5, <1>6, <1>7, <1>8, <1>9, <1>10, <1>11, <1>12
  DEF Manage

\* A step of the manager's own code keeps the types.
LEMMA StepTypes ==
  ASSUME Types, NEW m \in Managers, Resolve(m) \/ Step(m)
  PROVE  Types'
<1> DEFINE Ats == Statements \cup
             {"idle", "returned", "merge", "write", "read", "resolved", "rejected"}
           Counters == [ensures : 1..EnsureAttempts, again : BOOLEAN,
             looks : 0..LooksForWinner, guarded : BOOLEAN,
             merges : 1..MergeAttempts, tries : 1..Attempts, minted : Nat]
<1> USE DEF Types, TypeOK
<1>c. mgr[m] \in Counters
  OBVIOUS
<1>b. /\ EnsureAttempts \in Nat \ {0} /\ LooksForWinner \in Nat \ {0}
      /\ MergeAttempts \in Nat \ {0} /\ Attempts \in Nat \ {0}
  BY Bounds
<1>e. ASSUME NEW e \in 1..EnsureAttempts, EnsureAgain(m, e)
      PROVE  mgr' \in [Managers -> Counters]
  <2>1. mgr' = [mgr EXCEPT ![m] = [mgr[m] EXCEPT !.ensures = e]]
    BY <1>e DEF EnsureAgain
  <2>2. [mgr[m] EXCEPT !.ensures = e] \in Counters
    BY <1>c
  <2> QED BY <2>1, <2>2
<1>g. ASSUME NEW g \in BOOLEAN, GoOn(m, g)
      PROVE  mgr' \in [Managers -> Counters]
  <2>1. mgr' = [mgr EXCEPT ![m] = [mgr[m] EXCEPT !.guarded = g]]
    BY <1>g DEF GoOn
  <2>2. [mgr[m] EXCEPT !.guarded = g] \in Counters
    BY <1>c
  <2> QED BY <2>1, <2>2
<1>l. ASSUME NEW l \in 0..LooksForWinner, NEW g \in BOOLEAN
      PROVE  /\ [mgr EXCEPT ![m].looks = l] \in [Managers -> Counters]
             /\ [mgr EXCEPT ![m].looks = l, ![m].again = g] \in [Managers -> Counters]
  <2>1. /\ [mgr[m] EXCEPT !.looks = l] \in Counters
        /\ [mgr[m] EXCEPT !.looks = l, !.again = g] \in Counters
    BY <1>c
  <2> QED BY <2>1
<1>1. CASE Resolve(m)
  <2>1. [Fresh EXCEPT !.minted = mgr[m].minted] \in Counters
    <3>1. /\ 1 \in 1..EnsureAttempts /\ 0 \in 0..LooksForWinner
          /\ 1 \in 1..MergeAttempts /\ 1 \in 1..Attempts /\ mgr[m].minted \in Nat
      BY <1>b, <1>c
    <3> QED BY <3>1 DEF Fresh
  <2> QED BY <1>1, <2>1 DEF Resolve, GoTo, store, Statements
<1>2. CASE Manage(m) /\ UNCHANGED <<mgr, identity, data>>
  BY <1>2, ManageTypes
<1>3. CASE Ensured(m)
  <2>1. GoOn(m, outcome[m] # "VIOLATION") /\ (outcome[m] # "VIOLATION") \in BOOLEAN
    BY <1>3 DEF Ensured
  <2>2. mgr' \in [Managers -> Counters]
    BY <2>1, <1>g
  <2> QED BY <1>3, <2>2 DEF Ensured, GoOn, GoTo, store
<1>4. CASE MadeMeanwhile(m)
  <2>1. mgr[m].ensures + 1 \in 1..EnsureAttempts
    BY <1>4, <1>b, <1>c DEF MadeMeanwhile
  <2>2. mgr' \in [Managers -> Counters]
    <3>1. EnsureAgain(m, mgr[m].ensures + 1)
      BY <1>4 DEF MadeMeanwhile
    <3> QED BY <2>1, <3>1, <1>e
  <2> QED BY <1>4, <2>2 DEF MadeMeanwhile, EnsureAgain, GoTo, store, Statements
<1>5. CASE MakingFailed(m)
  <2>1. mgr' \in [Managers -> Counters]
    <3>1. CASE mgr[m].again
      BY <1>5, <3>1, <1>g DEF MakingFailed
    <3>2. CASE ~mgr[m].again
      <4>1. PICK l \in {1, LooksForWinner}, g \in BOOLEAN :
                   mgr' = [mgr EXCEPT ![m].looks = l, ![m].again = g]
        BY <1>5, <3>2 DEF MakingFailed
      <4>2. l \in 0..LooksForWinner
        BY <1>b
      <4> QED BY <4>1, <4>2, <1>l
    <3> QED BY <3>1, <3>2
  <2> QED BY <1>5, <2>1 DEF MakingFailed, GoOn, GoTo, store, Statements
<1>6. CASE Looked(m)
  <2>1. mgr' \in [Managers -> Counters]
    <3>1. CASE mgr[m].looks > 1 /\ mgr' = [mgr EXCEPT ![m].looks = @ - 1]
      <4>1. mgr[m].looks - 1 \in 0..LooksForWinner
        BY <3>1, <1>b, <1>c
      <4> QED BY <3>1, <4>1, <1>l
    <3>2. 1 \in 1..EnsureAttempts
      BY <1>b
    <3> QED BY <1>6, <3>1, <3>2, <1>g, <1>e DEF Looked, LookAgain
  <2> QED BY <1>6, <2>1 DEF Looked, LookAgain, GoOn, EnsureAgain, GoTo, store, Statements
<1>7. CASE Merge(m)
  BY <1>7 DEF Merge, GoTo, store
<1>8. ASSUME NEW failure \in {"violated", "conflict"}, MergeAgain(m, failure)
      PROVE  /\ mgr' \in [Managers -> Counters] /\ at' \in [Managers -> Ats]
             /\ outcome' \in [Managers -> Outcomes]
  <2>1. CASE mgr[m].merges < MergeAttempts /\ mgr' = [mgr EXCEPT ![m].merges = @ + 1]
    <3>1. mgr[m].merges + 1 \in 1..MergeAttempts
      BY <2>1, <1>b, <1>c
    <3>2. mgr' \in [Managers -> Counters]
      BY <2>1, <3>1, <1>c
    <3> QED BY <1>8, <3>2 DEF MergeAgain, Retried, Outcomes
  <2>2. CASE mgr' = mgr
    BY <1>8, <2>2 DEF MergeAgain, Retried, Outcomes
  <2> QED BY <1>8, <2>1, <2>2 DEF MergeAgain, Retried
<1>9. CASE Write(m)
  <2>1. CASE constraint = "built" /\ held # {}
    BY <1>9, <2>1, <1>8 DEF Write
  <2>2. CASE ~(constraint = "built" /\ held # {})
    <3>1. mgr[m].minted + 1 \in Nat
      BY <1>c
    <3>2. mgr' \in [Managers -> Counters]
      BY <1>9, <2>2, <3>1, <1>c DEF Write
    <3>3. held' \subseteq ({0} \cup Managers) \X Nat
      BY <1>9, <2>2, <3>1 DEF Write
    <3> QED BY <1>9, <2>2, <3>2, <3>3 DEF Write, GoTo
  <2> QED BY <2>1, <2>2
<1>10. CASE Read(m)
  <2>1. mgr' \in [Managers -> Counters]
    <3>1. CASE held = {} /\ mgr[m].tries < Attempts
      <4>1. mgr[m].tries + 1 \in 1..Attempts /\ 1 \in 1..MergeAttempts
        BY <3>1, <1>b, <1>c
      <4> QED BY <1>10, <3>1, <4>1, <1>c DEF Read
    <3>2. CASE mgr' = mgr
      BY <3>2
    <3> QED BY <1>10, <3>1, <3>2 DEF Read
  <2>2. identity' \in [Managers -> {None} \cup Identities]
    BY <1>10 DEF Read, Identities, Stamps
  <2> QED BY <1>10, <2>1, <2>2 DEF Read, GoTo, store, Outcomes
<1>11. CASE StampFails(m)
  BY <1>11, <1>8 DEF StampFails, store, Outcomes, Failures
<1> QED
  BY <1>1, <1>2, <1>3, <1>4, <1>5, <1>6, <1>7, <1>9, <1>10, <1>11 DEF Step

LEMMA NextTypes == Types /\ [Next]_vars => Types'
<1> SUFFICES ASSUME Types, [Next]_vars PROVE Types'
  OBVIOUS
<1>1. ASSUME NEW m \in Managers, Resolve(m) \/ Step(m) PROVE Types'
  BY <1>1, StepTypes
<1>2. CASE BuildEnds /\ UNCHANGED <<mgr, identity, data>>
  BY <1>2 DEF BuildEnds, Types, TypeOK
<1>3. CASE Wipe
  BY <1>3 DEF Wipe, Types, TypeOK
<1>4. CASE RemoveDuplicates
  BY <1>4 DEF RemoveDuplicates, Types, TypeOK
<1>5. CASE UNCHANGED vars
  BY <1>5 DEF vars, store, Types, TypeOK
<1> QED BY <1>1, <1>2, <1>3, <1>4, <1>5 DEF Next, Done

\* On either engine, with any number of managers, the state keeps its types:
\* no manager ensures, looks, merges or reads more often than it may
\* (StoreIdentity.ts:95-119, 200-261).
THEOREM TypeCorrect == Spec => []TypeOK
<1>1. Types => TypeOK
  BY DEF Types
<1> QED BY TypesAtFirst, NextTypes, <1>1, PTL DEF Spec

-----------------------------------------------------------------------------
(* Neo4j: a constraint is there or not, and nobody drops one.               *)

NeverFails ==
  /\ engine = "NEO4J" /\ constraint \in {"none", "built"}
  /\ \A m \in Managers :
       at[m] \notin {"dropStale", "staleRefused", "dropFailed", "failedRefused", "conflicts"}

OneStamp == constraint = "built" => \A s, t \in held : s = t

InForce == {"CREATED", "ALREADY_MATCHING", "inForce"}

\* Who is told that the key is in force, or goes on under it, is right.
KeyInForce ==
  \A m \in Managers : mgr[m].guarded \/ outcome[m] \in InForce => constraint = "built"

\* A stamp's number was its writer's when it was written.
Minted ==
  \A m \in Managers :
    /\ \A s \in held : s[1] = m => s[2] <= mgr[m].minted
    /\ \A n \in Managers : Resolved(n) /\ identity[n].id[1] = m
                          => identity[n].id[2] <= mgr[m].minted

\* A resolved identity is of the data there is now, or of data that is gone.
Dated ==
  \A m \in Managers : Resolved(m) =>
    /\ identity[m] \in Identities /\ identity[m].data <= data
    /\ identity[m].data < data => identity[m].id \notin held

\* Under the key, the identity resolved is the one stamp there is.
Sole ==
  \A m \in Managers : Resolved(m) /\ mgr[m].guarded /\ identity[m].data = data
    => held = {identity[m].id}

OnNeo4j ==
  /\ Types /\ NeverFails /\ OneStamp /\ KeyInForce
  /\ Minted /\ Dated /\ Sole /\ Agreed

LEMMA OnNeo4jAtFirst == ASSUME Engines = {"NEO4J"} PROVE Init => OnNeo4j
<1> SUFFICES ASSUME Init PROVE OnNeo4j
  OBVIOUS
<1>1. Types
  BY TypesAtFirst
<1>2. NeverFails
  BY StoresBegin DEF Init, NeverFails
<1>3. OneStamp
  BY DEF Init, OneStamp, Repeated
<1>4. KeyInForce
  BY NothingIsApart DEF Init, KeyInForce, InForce, Fresh, Statuses, Looks
<1>5. Minted
  <2>1. \A s \in held : s[1] = 0
    BY StoresBegin DEF Init
  <2> QED BY <2>1, ManagersAreCallers DEF Init, Minted, Resolved
<1>6. Dated /\ Sole /\ Agreed
  BY DEF Init, Dated, Sole, Agreed, Resolved
<1> QED BY <1>1, <1>2, <1>3, <1>4, <1>5, <1>6 DEF OnNeo4j

\* What a step of the constraint's manager does to the rest of the state: a
\* constraint there stays, one is made where no key is held twice, and only a
\* caller that found it in force is told so.
LEMMA ManageOnNeo4j ==
  ASSUME OnNeo4j, NEW m \in Managers, Manage(m), UNCHANGED <<mgr, identity, data>>
  PROVE  /\ NeverFails' /\ held' = held
         /\ constraint = "built" => constraint' = "built"
         /\ constraint' = "built" => constraint = "built" \/ ~Repeated
         /\ \A n \in Managers : Resolved(n)' => Resolved(n)
         /\ \A n \in Managers : outcome'[n] \in InForce
              => outcome[n] \in InForce \/ constraint' = "built"
<1> USE DEF OnNeo4j, Types, TypeOK, NeverFails, Resolved, InForce
<1> USE DEF Return, GoTo, store
<1> DEFINE Goal ==
      /\ NeverFails' /\ held' = held
      /\ constraint = "built" => constraint' = "built"
      /\ constraint' = "built" => constraint = "built" \/ ~Repeated
      /\ \A n \in Managers : Resolved(n)' => Resolved(n)
      /\ \A n \in Managers : outcome'[n] \in InForce
           => outcome[n] \in InForce \/ constraint' = "built"
<1>1. CASE Find(m)
  BY <1>1 DEF Find
<1>2. CASE Drop(m)
  BY <1>2 DEF Drop, DropFailedBuild, StillFailed, Refused
<1>3. CASE Sample(m)
  BY <1>3 DEF Sample
<1>4. CASE FindRange(m) \/ MakeRange(m)
  BY <1>4 DEF FindRange, MakeRange, ThereAlready
<1>5. CASE CreateOnNeo4j(m)
  BY <1>5 DEF CreateOnNeo4j
<1>6. CASE CreateOnFalkorDb(m)
  BY <1>6 DEF CreateOnFalkorDb, ThereAlready
<1>7. CASE ReplaceIndex(m)
  BY <1>7 DEF ReplaceIndex, ThereAlready
<1>8. CASE Await(m)
  BY <1>8 DEF Await
<1>9. CASE Conflicts(m)
  BY <1>9 DEF Conflicts
<1>10. CASE Look(m)
  BY <1>10 DEF Look
<1>11. CASE NotBuilt(m)
  BY <1>11 DEF NotBuilt
<1>12. ASSUME NEW failure \in {"contended", "refused"}, StatementFails(m, failure)
       PROVE  Goal
  BY <1>12 DEF StatementFails, Refused
<1> QED
  BY <1>1, <1>2, <1>3, <1>4, <1>5, <1>6, <1>7, <1>8, <1>9, <1>10, <1>11, <1>12
  DEF Manage

\* A step that writes no stamp, and after which nobody is resolved who was
\* not, keeps the invariant when what it learns of the key is true.
LEMMA QuietStep ==
  ASSUME OnNeo4j, Types', NeverFails', held' = held, identity' = identity, data' = data,
         constraint = "built" => constraint' = "built",
         constraint' = "built" => constraint = "built" \/ ~Repeated,
         \A n \in Managers : Resolved(n)' => Resolved(n) /\ mgr'[n].guarded = mgr[n].guarded,
         \A n \in Managers : mgr'[n].minted = mgr[n].minted,
         \A n \in Managers : mgr'[n].guarded => mgr[n].guarded \/ constraint' = "built",
         \A n \in Managers : outcome'[n] \in InForce
                             => outcome[n] \in InForce \/ constraint' = "built"
  PROVE  OnNeo4j'
<1>1. OneStamp'
  BY DEF OnNeo4j, OneStamp, Repeated
<1>2. KeyInForce'
  BY DEF OnNeo4j, KeyInForce
<1>3. Minted'
  BY DEF OnNeo4j, Minted
<1>4. Dated'
  BY DEF OnNeo4j, Dated
<1>5. Sole'
  BY DEF OnNeo4j, Sole
<1>6. Agreed'
  BY DEF OnNeo4j, Agreed
<1> QED BY <1>1, <1>2, <1>3, <1>4, <1>5, <1>6 DEF OnNeo4j

LEMMA MergeAgainMoves ==
  ASSUME OnNeo4j, NEW m \in Managers, NEW failure \in {"violated", "conflict"},
         MergeAgain(m, failure)
  PROVE  /\ \A n \in Managers : at'[n] = at[n] \/ at'[n] \in {"merge", "rejected"}
         /\ \A n \in Managers : mgr'[n].minted = mgr[n].minted /\ mgr'[n].guarded = mgr[n].guarded
         /\ \A n \in Managers : outcome'[n] \in InForce => outcome[n] \in InForce
<1>1. /\ at' \in {[at EXCEPT ![m] = "merge"], [at EXCEPT ![m] = "rejected"]}
      /\ mgr' \in {mgr, [mgr EXCEPT ![m].merges = @ + 1]}
      /\ outcome' \in {outcome, [outcome EXCEPT ![m] = failure]}
  BY DEF MergeAgain, Retried
<1>2. /\ at = [n \in Managers |-> at[n]] /\ outcome = [n \in Managers |-> outcome[n]]
      /\ mgr \in [Managers -> [ensures : 1..EnsureAttempts, again : BOOLEAN,
           looks : 0..LooksForWinner, guarded : BOOLEAN,
           merges : 1..MergeAttempts, tries : 1..Attempts, minted : Nat]]
  BY DEF OnNeo4j, Types, TypeOK
<1> QED BY <1>1, <1>2 DEF InForce

\* The actions of a manager that only move on.
LEMMA MovingOn ==
  ASSUME OnNeo4j, Types', NEW m \in Managers,
         Resolve(m) \/ Ensured(m) \/ MadeMeanwhile(m) \/ MakingFailed(m) \/ Looked(m)
           \/ Merge(m) \/ StampFails(m)
  PROVE  OnNeo4j'
<1> DEFINE Learns ==
      \A n \in Managers : mgr'[n].guarded => mgr[n].guarded \/ constraint' = "built"
           Quiet ==
      /\ held' = held /\ identity' = identity /\ data' = data /\ constraint' = constraint
      /\ NeverFails'
      /\ \A n \in Managers : Resolved(n)' => Resolved(n) /\ mgr'[n].guarded = mgr[n].guarded
      /\ \A n \in Managers : mgr'[n].minted = mgr[n].minted
      /\ \A n \in Managers : outcome'[n] \in InForce => outcome[n] \in InForce
<1> USE DEF OnNeo4j, Types, TypeOK, NeverFails, Resolved, store, GoTo, GoOn, EnsureAgain
<1>1. CASE Resolve(m)
  BY <1>1, QuietStep DEF Resolve, Fresh
<1>2. CASE Ensured(m)
  <2>1. outcome[m] # "VIOLATION" => constraint = "built"
    BY <1>2 DEF Ensured, Statuses, KeyInForce, InForce
  <2>2. Quiet /\ Learns
    BY <1>2, <2>1 DEF Ensured
  <2> QED BY <2>2, QuietStep
<1>3. CASE MadeMeanwhile(m)
  <2>1. Quiet /\ Learns
    BY <1>3 DEF MadeMeanwhile
  <2> QED BY <2>1, QuietStep
<1>4. CASE MakingFailed(m)
  <2>1. Quiet /\ Learns
    BY SMTT(30), <1>4 DEF MakingFailed
  <2> QED BY <2>1, QuietStep
<1>5. CASE Looked(m)
  <2>1. outcome[m] = "inForce" => constraint = "built"
    BY <1>5 DEF KeyInForce, InForce
  <2>2. Quiet /\ Learns
    <3>u. UNCHANGED <<store, identity, data>>
      BY <1>5 DEF Looked, LookAgain
    <3>g. ASSUME NEW g \in BOOLEAN, GoOn(m, g), g => constraint = "built" PROVE Quiet /\ Learns
      BY <3>u, <3>g
    <3>1. CASE outcome[m] = "inForce" /\ GoOn(m, TRUE)
      BY <2>1, <3>1, <3>g
    <3>2. CASE GoOn(m, FALSE)
      BY <3>2, <3>g
    <3>3. CASE EnsureAgain(m, 1)
      BY <1>5, <3>3 DEF Looked, LookAgain
    <3>4. CASE GoTo(m, "look") /\ mgr' = [mgr EXCEPT ![m].looks = @ - 1]
      BY <1>5, <3>4 DEF Looked, LookAgain
    <3> QED BY <1>5, <3>1, <3>2, <3>3, <3>4 DEF Looked, LookAgain
  <2> QED BY <2>2, QuietStep
<1>6. CASE Merge(m)
  <2>1. Quiet /\ Learns
    BY <1>6 DEF Merge
  <2> QED BY <2>1, QuietStep
<1>7. CASE StampFails(m)
  <2>1. Quiet /\ Learns
    <3>1. CASE MergeAgain(m, "conflict")
      <4>1. /\ \A n \in Managers : at'[n] = at[n] \/ at'[n] \in {"merge", "rejected"}
            /\ \A n \in Managers : mgr'[n].minted = mgr[n].minted /\ mgr'[n].guarded = mgr[n].guarded
            /\ \A n \in Managers : outcome'[n] \in InForce => outcome[n] \in InForce
        BY <3>1, MergeAgainMoves
      <4> QED BY <1>7, <4>1 DEF StampFails
    <3>2. CASE ~MergeAgain(m, "conflict")
      BY <1>7, <3>2 DEF StampFails, InForce
    <3> QED BY <3>1, <3>2
  <2> QED BY <2>1, QuietStep
<1> QED BY <1>1, <1>2, <1>3, <1>4, <1>5, <1>6, <1>7

\* A stamp is written: under a constraint only where there is none, and none
\* that anybody resolved was like it.
LEMMA WriteOnNeo4j ==
  ASSUME OnNeo4j, Types', NEW m \in Managers, Write(m)
  PROVE  OnNeo4j'
<1> DEFINE s == <<m, mgr[m].minted + 1>>
<1> USE DEF OnNeo4j, Types, TypeOK, store, GoTo
<1>1. CASE constraint = "built" /\ held # {}
  <2>1. MergeAgain(m, "violated") /\ UNCHANGED <<held, engine, constraint, identity, data>>
    BY <1>1 DEF Write
  <2>2. /\ \A n \in Managers : at'[n] = at[n] \/ at'[n] \in {"merge", "rejected"}
        /\ \A n \in Managers : mgr'[n].minted = mgr[n].minted /\ mgr'[n].guarded = mgr[n].guarded
        /\ \A n \in Managers : outcome'[n] \in InForce => outcome[n] \in InForce
    BY <2>1, MergeAgainMoves
  <2>3. NeverFails' /\ \A n \in Managers : Resolved(n)' => Resolved(n)
    BY <2>1, <2>2 DEF NeverFails, Resolved
  <2> QED BY <2>1, <2>2, <2>3, QuietStep
<1>2. CASE ~(constraint = "built" /\ held # {})
  <2>1. /\ held' = held \cup {s} /\ mgr' = [mgr EXCEPT ![m].minted = @ + 1]
        /\ UNCHANGED <<engine, constraint, outcome, identity, data>>
        /\ at[m] = "write" /\ at' = [at EXCEPT ![m] = "read"]
    BY <1>2 DEF Write
  <2>2. mgr[m].minted \in Nat
    OBVIOUS
  <2>3. \A n \in Managers : Resolved(n)' => Resolved(n) /\ mgr'[n].guarded = mgr[n].guarded
    BY <2>1 DEF Resolved
  <2>4. NeverFails' /\ KeyInForce'
    BY <2>1 DEF NeverFails, KeyInForce
  <2>5. OneStamp'
    BY <1>2, <2>1 DEF OneStamp
  <2>6. \A n \in Managers : Resolved(n) => identity[n].id # s
    BY <2>2 DEF Minted
  <2>7. Minted'
    <3>1. \A n \in Managers : mgr'[n].minted \in Nat /\ mgr[n].minted <= mgr'[n].minted
      BY <2>1, <2>2
    <3>2. mgr'[m].minted = mgr[m].minted + 1
      BY <2>1
    <3>3. ASSUME NEW n \in Managers, NEW t \in held', t[1] = n PROVE t[2] <= mgr'[n].minted
      <4>1. CASE t = s
        BY <3>3, <4>1, <3>2, <2>2
      <4>2. CASE t \in held
        <5>1. t[2] \in Nat /\ mgr[n].minted \in Nat /\ t[2] <= mgr[n].minted
          BY <3>3, <4>2 DEF Minted
        <5> QED BY <5>1, <3>1
      <4> QED BY <4>1, <4>2, <2>1
    <3>4. ASSUME NEW n \in Managers, NEW o \in Managers, Resolved(o)', identity'[o].id[1] = n
          PROVE  identity'[o].id[2] <= mgr'[n].minted
      <4>1. Resolved(o) /\ identity'[o] = identity[o]
        BY <3>4, <2>1, <2>3
      <4>2. identity[o].id[2] <= mgr[n].minted
        BY <3>4, <4>1 DEF Minted
      <4>3. identity[o].id[2] \in Nat /\ mgr[n].minted \in Nat
        BY <4>1 DEF Dated, Identities, Stamps
      <4> QED BY <4>1, <4>2, <4>3, <3>1
    <3> QED BY <3>3, <3>4 DEF Minted
  <2>8. Dated'
    BY <2>1, <2>3, <2>6 DEF Dated
  <2>9. Sole'
    <3>1. ASSUME NEW n \in Managers, Resolved(n)', mgr'[n].guarded, identity'[n].data = data'
          PROVE  FALSE
      <4>1. held = {identity[n].id} /\ constraint = "built"
        BY <2>1, <2>3, <3>1 DEF Sole, KeyInForce
      <4> QED BY <1>2, <4>1
    <3> QED BY <3>1 DEF Sole
  <2>10. Agreed'
    BY <2>1, <2>3 DEF Agreed
  <2> QED BY <2>4, <2>5, <2>7, <2>8, <2>9, <2>10
<1> QED BY <1>1, <1>2

\* A manager reads the stamp, the only one if it merged under the key.
LEMMA ReadOnNeo4j ==
  ASSUME OnNeo4j, Types', NEW m \in Managers, Read(m)
  PROVE  OnNeo4j'
<1> USE DEF OnNeo4j, Types, TypeOK, store, GoTo
<1>1. CASE held = {}
  <2>1. /\ UNCHANGED <<held, engine, constraint, identity, data>>
        /\ at[m] = "read" /\ at' \in {[at EXCEPT ![m] = "merge"], [at EXCEPT ![m] = "rejected"]}
        /\ outcome' \in {outcome, [outcome EXCEPT ![m] = "vanished"]}
        /\ mgr' \in {mgr, [mgr EXCEPT ![m].tries = @ + 1, ![m].merges = 1]}
    BY <1>1 DEF Read
  <2>2. NeverFails' /\ \A n \in Managers : Resolved(n)' => Resolved(n)
    BY <2>1 DEF NeverFails, Resolved
  <2>3. \A n \in Managers : mgr'[n].minted = mgr[n].minted /\ mgr'[n].guarded = mgr[n].guarded
    BY <2>1
  <2>4. \A n \in Managers : outcome'[n] \in InForce => outcome[n] \in InForce
    BY <2>1 DEF InForce
  <2> QED BY <2>1, <2>2, <2>3, <2>4, QuietStep
<1>2. CASE held # {}
  <2>1. PICK s \in held :
          /\ identity' = [identity EXCEPT ![m] = [id |-> s, data |-> data]]
          /\ UNCHANGED <<held, engine, constraint, data, mgr, outcome>>
          /\ at[m] = "read" /\ at' = [at EXCEPT ![m] = "resolved"]
    BY <1>2 DEF Read
  <2>2. identity'[m].id = s /\ identity'[m].data = data /\ identity'[m] \in Identities
    BY <2>1 DEF Identities, Stamps
  <2>3. \A n \in Managers \ {m} : identity'[n] = identity[n] /\ (Resolved(n)' => Resolved(n))
    BY <2>1 DEF Resolved
  <2>4. NeverFails' /\ OneStamp' /\ KeyInForce'
    BY <2>1 DEF NeverFails, OneStamp, KeyInForce
  <2>5. Minted'
    BY <2>1, <2>2, <2>3 DEF Minted
  <2>6. Dated'
    BY <2>1, <2>2, <2>3 DEF Dated
  <2>7. mgr[m].guarded => held = {s}
    BY DEF KeyInForce, OneStamp
  <2>8. Sole'
    BY <2>1, <2>2, <2>3, <2>7 DEF Sole
  <2>9. ASSUME NEW n \in Managers \ {m}, Resolved(n)', mgr[n].guarded, mgr[m].guarded
        PROVE  identity[n].id = s <=> identity[n].data = data
    <3>1. CASE identity[n].data = data
      BY <2>3, <2>9, <2>7, <3>1 DEF Sole
    <3>2. CASE identity[n].data # data
      <4>1. identity[n].data \in Nat /\ data \in Nat /\ identity[n].data <= data
        BY <2>3, <2>9 DEF Dated, Identities
      <4>2. identity[n].data < data
        <5>1. \A i, j \in Nat : i <= j /\ i # j => i < j
          OBVIOUS
        <5> QED BY <4>1, <3>2, <5>1
      <4> QED BY <2>3, <2>9, <4>2, <3>2 DEF Dated
    <3> QED BY <3>1, <3>2
  <2>10. Agreed'
    <3>1. ASSUME NEW n \in Managers, NEW o \in Managers, Resolved(n)', Resolved(o)',
                 mgr'[n].guarded, mgr'[o].guarded
          PROVE  identity'[n].id = identity'[o].id <=> identity'[n].data = identity'[o].data
      <4>1. CASE n = m /\ o = m
        BY <4>1
      <4>2. CASE n = m /\ o # m
        BY <2>1, <2>2, <2>3, <2>9, <3>1, <4>2
      <4>3. CASE n # m /\ o = m
        BY <2>1, <2>2, <2>3, <2>9, <3>1, <4>3
      <4>4. CASE n # m /\ o # m
        BY <2>1, <2>3, <3>1, <4>4 DEF Agreed
      <4> QED BY <4>1, <4>2, <4>3, <4>4
    <3> QED BY <3>1 DEF Agreed
  <2> QED BY <2>4, <2>5, <2>6, <2>8, <2>10
<1> QED BY <1>1, <1>2

LEMMA NextOnNeo4j == OnNeo4j /\ [Next]_vars => OnNeo4j'
<1> SUFFICES ASSUME OnNeo4j, [Next]_vars PROVE OnNeo4j'
  OBVIOUS
<1>t. Types'
  BY NextTypes DEF OnNeo4j
<1>1. ASSUME NEW m \in Managers, Manage(m), UNCHANGED <<mgr, identity, data>> PROVE OnNeo4j'
  BY <1>1, <1>t, ManageOnNeo4j, QuietStep
<1>2. ASSUME NEW m \in Managers, Resolve(m) \/ Step(m) PROVE OnNeo4j'
  BY <1>t, <1>1, <1>2, MovingOn, WriteOnNeo4j, ReadOnNeo4j DEF Step
<1>3. CASE BuildEnds /\ UNCHANGED <<mgr, identity, data>>
  BY <1>3 DEF BuildEnds, OnNeo4j, NeverFails
<1>4. CASE Wipe
  <2>1. /\ held' = {} /\ data' = data + 1 /\ data \in Nat
        /\ UNCHANGED <<engine, constraint, at, outcome, mgr, identity>>
    BY <1>4 DEF Wipe, OnNeo4j, Types
  <2>2. NeverFails' /\ OneStamp' /\ KeyInForce'
    BY <2>1 DEF OnNeo4j, NeverFails, OneStamp, KeyInForce
  <2>3. Minted'
    BY <2>1 DEF OnNeo4j, Minted, Resolved
  <2>4. \A n \in Managers : Resolved(n) => identity[n].data \in Nat /\ identity[n].data <= data
    BY DEF OnNeo4j, Dated, Identities
  <2>5. \A n \in Managers : Resolved(n)' => Resolved(n) /\ identity'[n].data < data'
    BY <2>1, <2>4 DEF Resolved
  <2>6. Dated'
    BY <2>1, <2>4, <2>5 DEF OnNeo4j, Dated
  <2>7. Sole'
    BY <2>1, <2>4, <2>5 DEF Sole
  <2>8. Agreed'
    BY <2>1, <2>5 DEF OnNeo4j, Agreed
  <2> QED BY <1>t, <2>2, <2>3, <2>6, <2>7, <2>8 DEF OnNeo4j
<1>5. CASE RemoveDuplicates
  <2>1. /\ \E s \in held : held' = {s}
        /\ UNCHANGED <<engine, constraint, at, outcome, mgr, identity, data>>
    BY <1>5 DEF RemoveDuplicates
  <2>2. constraint # "built"
    BY <1>5 DEF RemoveDuplicates, Repeated, OnNeo4j, OneStamp
  <2>3. NeverFails' /\ OneStamp' /\ KeyInForce'
    BY <2>1, <2>2 DEF OnNeo4j, NeverFails, OneStamp, KeyInForce
  <2>4. Minted'
    BY <2>1 DEF OnNeo4j, Minted, Resolved
  <2>5. Dated'
    BY <2>1 DEF OnNeo4j, Dated, Resolved
  <2>6. Sole'
    BY <2>1, <2>2 DEF OnNeo4j, Sole, KeyInForce
  <2>7. Agreed'
    BY <2>1 DEF OnNeo4j, Agreed, Resolved
  <2> QED BY <1>t, <2>3, <2>4, <2>5, <2>6, <2>7 DEF OnNeo4j
<1>6. CASE UNCHANGED vars
  BY <1>6, <1>t DEF vars, store, OnNeo4j, NeverFails, OneStamp, KeyInForce, Minted, Dated, Sole,
     Agreed, Resolved
<1> QED BY <1>2, <1>3, <1>4, <1>5, <1>6 DEF Next, Done

LEMMA NeverOffNeo4j == ASSUME Engines = {"NEO4J"} PROVE Spec => []OnNeo4j
BY OnNeo4jAtFirst, NextOnNeo4j, PTL DEF Spec

\* On Neo4j any number of managers that merged under the key resolve one
\* identity exactly where they looked at the same data, whatever failed, was
\* deleted or was stamped unguarded meanwhile (StoreIdentity.ts:73-79).
THEOREM GuardedManagersAgree == ASSUME Engines = {"NEO4J"} PROVE Spec => GuardedAgree
<1>1. OnNeo4j => Agreed
  BY DEF OnNeo4j
<1> QED BY NeverOffNeo4j, <1>1, PTL DEF GuardedAgree

\* On Neo4j an identity resolved under the key stays the oldest stamp, for it
\* stays the only one, as long as nobody deletes it (StoreIdentity.ts:17-18).
THEOREM GuardedIdentityIsFinal == ASSUME Engines = {"NEO4J"} PROVE Spec => GuardedIsFinal
<1>1. OnNeo4j => Final
  <2> SUFFICES ASSUME OnNeo4j, NEW m \in Managers, Resolved(m), mgr[m].guarded,
                      identity[m].data = data
               PROVE  Oldest(identity[m].id)
    BY DEF Final
  <2>1. held = {identity[m].id}
    BY DEF OnNeo4j, Sole
  <2>2. identity[m].id[2] \in Nat
    BY DEF OnNeo4j, Dated, Identities, Stamps
  <2> QED BY <2>1, <2>2 DEF Oldest, Older
<1> QED BY NeverOffNeo4j, <1>1, PTL DEF GuardedIsFinal

-----------------------------------------------------------------------------
(* Neo4j, while nothing fails on its own: at most one other manager gets in *)
(* a manager's way, the one that replaced the index it found in its way.    *)

OutOfTheWay ==
  /\ ~Repeated
  /\ \A m \in Managers :
       /\ at[m] \in {"merge", "write", "read", "resolved"} => mgr[m].guarded
       /\ at[m] \in {"blocked", "dropIndex"} => mgr[m].ensures = 1
       /\ at[m] \notin {"range", "missing", "makeRange", "look"}
       /\ at[m] = "await" => constraint = "built"
       /\ mgr[m].ensures = 1 \/ (mgr[m].ensures = 2 /\ ~range)
       /\ at[m] = "returned" =>
            \/ outcome[m] \in {"CREATED", "ALREADY_MATCHING"}
            \/ outcome[m] = "meanwhile" /\ mgr[m].ensures = 1 /\ ~range

Unhindered == faults \in Nat /\ (faults = 0 => OutOfTheWay)

LEMMA UnhinderedAtFirst == Init => Unhindered
BY DEF Init, Unhindered, OutOfTheWay, Fresh

LEMMA ManageUnhindered ==
  ASSUME OnNeo4j, OutOfTheWay, faults = 0, faults' = 0,
         NEW m \in Managers, Manage(m), UNCHANGED <<mgr, identity, data>>
  PROVE  OutOfTheWay'
<1> USE DEF OnNeo4j, Types, TypeOK, NeverFails, Return, GoTo, store, OutOfTheWay
<1>0. Repeated' <=> Repeated
  BY ManageOnNeo4j DEF Repeated
<1> DEFINE Rest == \A n \in Managers :
       /\ at'[n] \in {"merge", "write", "read", "resolved"} => mgr'[n].guarded
       /\ at'[n] \in {"blocked", "dropIndex"} => mgr'[n].ensures = 1
       /\ at'[n] \notin {"range", "missing", "makeRange", "look"}
       /\ at'[n] = "await" => constraint' = "built"
       /\ mgr'[n].ensures = 1 \/ (mgr'[n].ensures = 2 /\ ~range')
       /\ at'[n] = "returned" =>
            \/ outcome'[n] \in {"CREATED", "ALREADY_MATCHING"}
            \/ outcome'[n] = "meanwhile" /\ mgr'[n].ensures = 1 /\ ~range'
<1>1. CASE Find(m)
  <2>1. Rest
    BY <1>1 DEF Find
  <2> QED BY <2>1, <1>0
<1>2. CASE Drop(m)
  BY <1>2 DEF Drop, DropFailedBuild, StillFailed, Refused
<1>3. CASE Sample(m)
  <2>1. Rest
    BY <1>3 DEF Sample
  <2> QED BY <2>1, <1>0
<1>4. CASE FindRange(m) \/ MakeRange(m)
  BY <1>4 DEF FindRange, MakeRange, ThereAlready
<1>5. CASE CreateOnNeo4j(m)
  <2>1. Rest
    BY <1>5 DEF CreateOnNeo4j
  <2> QED BY <2>1, <1>0
<1>6. CASE CreateOnFalkorDb(m)
  BY <1>6 DEF CreateOnFalkorDb, ThereAlready
<1>7. CASE ReplaceIndex(m)
  <2>1. Rest
    BY <1>7 DEF ReplaceIndex, ThereAlready
  <2> QED BY <2>1, <1>0
<1>8. CASE Await(m)
  <2>1. Rest
    BY <1>8 DEF Await
  <2> QED BY <2>1, <1>0
<1>9. CASE Conflicts(m)
  BY <1>9 DEF Conflicts
<1>10. CASE Look(m)
  BY <1>10 DEF Look
<1>11. CASE NotBuilt(m)
  BY <1>11 DEF NotBuilt
<1>12. ASSUME NEW failure \in {"contended", "refused"}, StatementFails(m, failure)
       PROVE  FALSE
  BY <1>12 DEF StatementFails, Refused
<1> QED
  BY <1>1, <1>2, <1>3, <1>4, <1>5, <1>6, <1>7, <1>8, <1>9, <1>10, <1>11, <1>12
  DEF Manage

LEMMA FaultsOnlyGrow ==
  ASSUME [Next]_vars
  PROVE  faults' \in {faults, faults + 1}
<1> USE DEF store
<1>1. ASSUME NEW m \in Managers, Manage(m) PROVE faults' \in {faults, faults + 1}
  BY <1>1 DEF Manage, Find, Drop, DropFailedBuild, StillFailed, Sample, FindRange, MakeRange, ThereAlready,
     CreateOnNeo4j, CreateOnFalkorDb, ReplaceIndex, Await, Conflicts, Look, NotBuilt,
     StatementFails
<1>2. ASSUME NEW m \in Managers, Resolve(m) \/ Step(m) PROVE faults' \in {faults, faults + 1}
  BY <1>1, <1>2 DEF Resolve, Step, Ensured, MadeMeanwhile, MakingFailed, Looked, LookAgain, Merge, Write,
     Read, StampFails
<1> QED
  BY <1>2 DEF Next, Done, vars, BuildEnds, Wipe, RemoveDuplicates

LEMMA NextUnhindered ==
  ASSUME EnsureAttempts >= 2
  PROVE  OnNeo4j /\ Unhindered /\ [Next]_vars => Unhindered'
<1> SUFFICES ASSUME OnNeo4j, Unhindered, [Next]_vars PROVE Unhindered'
  OBVIOUS
<1>n. faults' \in Nat
  BY FaultsOnlyGrow DEF Unhindered
<1> SUFFICES ASSUME faults' = 0 PROVE OutOfTheWay'
  BY <1>n DEF Unhindered
<1>f. faults = 0 /\ OutOfTheWay
  BY FaultsOnlyGrow DEF Unhindered
<1> USE DEF OnNeo4j, Types, TypeOK, NeverFails, GoTo, store
<1>1. ASSUME NEW m \in Managers, Manage(m), UNCHANGED <<mgr, identity, data>>
      PROVE  OutOfTheWay'
  BY <1>1, <1>f, ManageUnhindered
<1>2. ASSUME NEW m \in Managers, Resolve(m) PROVE OutOfTheWay'
  BY <1>2, <1>f DEF OutOfTheWay, Resolve, Fresh, Repeated
<1>3. ASSUME NEW m \in Managers, Ensured(m) PROVE OutOfTheWay'
  <2>1. outcome[m] # "VIOLATION"
    BY <1>3, <1>f DEF OutOfTheWay, Ensured
  <2>2. /\ mgr' = [mgr EXCEPT ![m].guarded = TRUE] /\ at' = [at EXCEPT ![m] = "merge"]
        /\ UNCHANGED <<constraint, range, held, outcome>>
    BY <1>3, <2>1 DEF Ensured, GoOn
  <2> QED BY <1>f, <2>2 DEF OutOfTheWay, Repeated
<1>4. ASSUME NEW m \in Managers, MadeMeanwhile(m) PROVE OutOfTheWay'
  BY <1>4, <1>f DEF OutOfTheWay, MadeMeanwhile, EnsureAgain, Repeated
<1>5. ASSUME NEW m \in Managers, MakingFailed(m) PROVE FALSE
  <2>1. EnsureAttempts \in Nat
    BY Bounds
  <2>2. outcome[m] = "meanwhile" /\ mgr[m].ensures = 1
    BY <1>5, <1>f DEF OutOfTheWay, MakingFailed, Failures
  <2> QED BY <1>5, <2>1, <2>2 DEF MakingFailed
<1>6. ASSUME NEW m \in Managers, Looked(m) PROVE FALSE
  BY <1>6, <1>f DEF OutOfTheWay, Looked, LookAgain, Looks
<1>7. ASSUME NEW m \in Managers, Merge(m) PROVE OutOfTheWay'
  BY <1>7, <1>f DEF OutOfTheWay, Merge, Repeated
<1>8. ASSUME NEW m \in Managers, Write(m) PROVE OutOfTheWay'
  <2>1. mgr[m].guarded /\ constraint = "built"
    BY <1>8, <1>f DEF OutOfTheWay, Write, KeyInForce
  <2>2. CASE held # {}
    BY <1>8, <1>f, <2>1, <2>2 DEF OutOfTheWay, Write, MergeAgain, Retried, Repeated
  <2>3. CASE held = {}
    <3>1. ~Repeated'
      BY <1>8, <2>3 DEF Write, Repeated
    <3> QED BY <1>8, <1>f, <2>1, <2>3, <3>1 DEF OutOfTheWay, Write
  <2> QED BY <2>2, <2>3
<1>9. ASSUME NEW m \in Managers, Read(m) PROVE OutOfTheWay'
  BY <1>9, <1>f DEF OutOfTheWay, Read, Repeated
<1>10. ASSUME NEW m \in Managers, StampFails(m) PROVE FALSE
  BY <1>10, <1>f DEF StampFails
<1>11. CASE BuildEnds /\ UNCHANGED <<mgr, identity, data>>
  BY <1>11 DEF BuildEnds
<1>12. CASE Wipe
  BY <1>12, <1>f DEF Wipe, OutOfTheWay, Repeated
<1>13. CASE RemoveDuplicates
  BY <1>13, <1>f DEF RemoveDuplicates, OutOfTheWay
<1>14. CASE UNCHANGED vars
  BY <1>14, <1>f DEF vars, OutOfTheWay, Repeated
<1> QED
  BY <1>1, <1>2, <1>3, <1>4, <1>5, <1>6, <1>7, <1>8, <1>9, <1>10, <1>11, <1>12, <1>13, <1>14
  DEF Next, Step, Done

\* On Neo4j any number of managers that start together are all guarded while
\* nothing fails on its own: the refusals they cause each other never use up
\* two of a manager's attempts (StoreIdentity.ts:127-136, 214-229).
THEOREM UnhinderedManagersAreGuarded ==
  ASSUME Engines = {"NEO4J"}, EnsureAttempts >= 2
  PROVE  Spec => []UnhinderedIsGuarded
<1>1. Unhindered => UnhinderedIsGuarded
  BY DEF Unhindered, OutOfTheWay, UnhinderedIsGuarded, Resolved
<1> QED BY NeverOffNeo4j, UnhinderedAtFirst, NextUnhindered, <1>1, PTL DEF Spec
-----------------------------------------------------------------------------
(* A peer's stamp refuses a manager's once for every time the data was      *)
(* deleted: after a refusal there is a stamp to be found. After a conflict  *)
(* there may still be none.                                                 *)

Few(n) ==
  /\ at[n] \in Statements \cup {"returned"} => mgr[n].merges = 1
  /\ at[n] = "merge" => mgr[n].merges <= data + faults + (IF held = {} THEN 1 ELSE 2)
  /\ at[n] = "write" => mgr[n].merges <= data + faults + 1
  /\ outcome[n] # "violated"
Bounded == data <= MaxWipes /\ faults \in Nat /\ faults <= MaxFaults
FewMerges == Bounded /\ \A n \in Managers : Few(n)

LEMMA FewMergesAtFirst ==
  ASSUME MaxWipes \in Nat, MaxFaults \in Nat \ {0}
  PROVE  Init => FewMerges
<1> SUFFICES ASSUME Init PROVE FewMerges
  OBVIOUS
<1>1. data = 0 /\ faults \in {0, 1} /\ \A n \in Managers : at[n] = "idle" /\ outcome[n] # "violated"
  BY NothingIsApart DEF Init
<1> QED BY <1>1 DEF FewMerges, Few, Bounded, Statements

\* The bounds of a manager that stays where it is only grow.
LEMMA StaysFew ==
  ASSUME Types, FewMerges, NEW n \in Managers, faults' \in {faults, faults + 1},
         at'[n] = at[n], mgr'[n] = mgr[n], outcome'[n] = outcome[n],
         (data' = data /\ (held' = {} => held = {})) \/ data' = data + 1
  PROVE  Few(n)'
<1>1. mgr[n].merges \in Nat /\ data \in Nat /\ faults \in Nat
  BY DEF Types, TypeOK, FewMerges, Bounded
<1> QED BY <1>1 DEF FewMerges, Few

\* A failing statement leaves the faults within their bound.
LEMMA FaultsAreBounded ==
  ASSUME MaxFaults \in Nat, Bounded, [Next]_vars
  PROVE  faults' \in Nat /\ faults' <= MaxFaults
<1> USE DEF store
<1>1. ASSUME NEW m \in Managers, Manage(m) PROVE faults' = faults \/ faults < MaxFaults
  BY <1>1 DEF Manage, Find, Drop, DropFailedBuild, StillFailed, Sample, FindRange, MakeRange, ThereAlready,
     CreateOnNeo4j, CreateOnFalkorDb, ReplaceIndex, Await, Conflicts, Look, NotBuilt,
     StatementFails
<1>2. ASSUME NEW m \in Managers, Resolve(m) \/ Step(m) PROVE faults' = faults \/ faults < MaxFaults
  BY <1>1, <1>2 DEF Resolve, Step, Ensured, MadeMeanwhile, MakingFailed, Looked, LookAgain, Merge, Write,
     Read, StampFails
<1>3. faults' = faults \/ faults < MaxFaults
  BY <1>2 DEF Next, Done, vars, BuildEnds, Wipe, RemoveDuplicates
<1> QED BY <1>3, FaultsOnlyGrow DEF Bounded

\* A call of the constraint's manager stays one until it returns.
LEMMA ManageGoesOn ==
  ASSUME Types, NEW m \in Managers, Manage(m)
  PROVE  /\ at[m] \in Statements /\ at'[m] \in Statements \cup {"returned"}
         /\ outcome'[m] = outcome[m] \/ outcome'[m] # "violated"
         /\ held' = held
         /\ \A n \in Managers \ {m} : at'[n] = at[n] /\ outcome'[n] = outcome[n]
<1> USE DEF Types, TypeOK, Return, GoTo, store, Statements
<1>1. CASE Find(m)
  BY <1>1 DEF Find
<1>2. CASE Drop(m)
  BY <1>2 DEF Drop, DropFailedBuild, StillFailed, Refused
<1>3. CASE Sample(m)
  BY <1>3 DEF Sample
<1>4. CASE FindRange(m) \/ MakeRange(m)
  BY <1>4 DEF FindRange, MakeRange, ThereAlready
<1>5. CASE CreateOnNeo4j(m)
  BY <1>5 DEF CreateOnNeo4j
<1>6. CASE CreateOnFalkorDb(m)
  BY <1>6 DEF CreateOnFalkorDb, ThereAlready
<1>7. CASE ReplaceIndex(m)
  BY <1>7 DEF ReplaceIndex, ThereAlready
<1>8. CASE Await(m)
  BY <1>8 DEF Await
<1>9. CASE Conflicts(m)
  BY <1>9 DEF Conflicts
<1>10. CASE Look(m)
  BY <1>10 DEF Look
<1>11. CASE NotBuilt(m)
  BY <1>11 DEF NotBuilt
<1>12. ASSUME NEW failure \in {"contended", "refused"}, StatementFails(m, failure)
       PROVE  /\ at[m] \in Statements /\ at'[m] \in Statements \cup {"returned"}
              /\ outcome'[m] = outcome[m] \/ outcome'[m] # "violated"
              /\ held' = held
              /\ \A n \in Managers \ {m} : at'[n] = at[n] /\ outcome'[n] = outcome[n]
  BY <1>12 DEF StatementFails, Refused
<1> QED
  BY <1>1, <1>2, <1>3, <1>4, <1>5, <1>6, <1>7, <1>8, <1>9, <1>10, <1>11, <1>12
  DEF Manage

LEMMA NextFewMerges ==
  ASSUME MaxWipes \in Nat, MaxFaults \in Nat \ {0}, MergeAttempts > MaxWipes + MaxFaults + 1
  PROVE  Types /\ FewMerges /\ [Next]_vars => FewMerges'
<1> SUFFICES ASSUME Types, FewMerges, [Next]_vars PROVE FewMerges'
  OBVIOUS
<1>f. faults' \in {faults, faults + 1}
  BY FaultsOnlyGrow
<1>b. faults' \in Nat /\ faults' <= MaxFaults
  BY FaultsAreBounded DEF FewMerges
<1>t. /\ data \in Nat /\ faults \in Nat /\ MergeAttempts \in Nat
      /\ \A n \in Managers : mgr[n].merges \in Nat
      /\ mgr \in [Managers -> [ensures : 1..EnsureAttempts, again : BOOLEAN,
            looks : 0..LooksForWinner, guarded : BOOLEAN,
            merges : 1..MergeAttempts, tries : 1..Attempts, minted : Nat]]
      /\ DOMAIN at = Managers /\ DOMAIN outcome = Managers
  BY Bounds DEF Types, TypeOK, FewMerges, Bounded
<1> DEFINE OnlyOf(m) == \A n \in Managers \ {m} :
             at'[n] = at[n] /\ mgr'[n] = mgr[n] /\ outcome'[n] = outcome[n]
\* A step of one manager: the others stay where they are.
<1>o. ASSUME NEW m \in Managers, OnlyOf(m), Few(m)', data' = data, held' = {} => held = {}
      PROVE  FewMerges'
  <2>1. \A n \in Managers \ {m} : Few(n)'
    BY <1>f, <1>o, StaysFew
  <2> QED BY <1>b, <1>o, <2>1 DEF FewMerges, Bounded
<1>1. ASSUME NEW m \in Managers, Manage(m), UNCHANGED <<mgr, identity, data>>
      PROVE  FewMerges'
  <2>1. OnlyOf(m) /\ data' = data /\ held' = held
    BY <1>1, ManageGoesOn
  <2>2. Few(m)'
    BY <1>1, ManageGoesOn DEF FewMerges, Few, Statements
  <2> QED BY <1>o, <2>1, <2>2
<1>2. ASSUME NEW m \in Managers, Resolve(m) PROVE FewMerges'
  <2>1. OnlyOf(m) /\ data' = data /\ held' = held
    BY <1>2, <1>t DEF Resolve, GoTo, store
  <2>2. Few(m)'
    BY <1>2, <1>t DEF Resolve, Fresh, GoTo, FewMerges, Few, Statements
  <2> QED BY <1>o, <2>1, <2>2
<1>3. ASSUME NEW m \in Managers,
             Ensured(m) \/ MadeMeanwhile(m) \/ MakingFailed(m) \/ Looked(m)
      PROVE  FewMerges'
  <2> USE DEF Ensured, MadeMeanwhile, MakingFailed, Looked, LookAgain, GoOn, EnsureAgain, GoTo, store
  <2>1. /\ OnlyOf(m) /\ data' = data /\ held' = held /\ outcome' = outcome
    BY <1>3, <1>t
  <2>2. at[m] = "returned" /\ at'[m] \in {"find", "look", "merge"} /\ mgr'[m].merges = mgr[m].merges
    BY <1>3, <1>t
  <2>3. Few(m)'
    BY <1>t, <1>b, <2>1, <2>2 DEF FewMerges, Few, Statements
  <2> QED BY <1>o, <2>1, <2>3
<1>4. ASSUME NEW m \in Managers, Merge(m) PROVE FewMerges'
  <2>1. OnlyOf(m) /\ data' = data /\ held' = held
    BY <1>4, <1>t DEF Merge, GoTo, store
  <2>2. Few(m)'
    BY <1>4, <1>t DEF Merge, GoTo, store, FewMerges, Few, Statements
  <2> QED BY <1>o, <2>1, <2>2
\* A merge that failed is run again, for it has attempts left.
<1>m. ASSUME NEW m \in Managers, NEW failure \in {"violated", "conflict"}, MergeAgain(m, failure), at[m] = "write",
             failure = "violated" => held' # {},
             failure = "conflict" => faults' = faults + 1,
             data' = data
      PROVE  OnlyOf(m) /\ Few(m)'
  <2>1. OnlyOf(m)
    BY <1>m, <1>t DEF MergeAgain
  <2>2. mgr[m].merges <= data + faults + 1 /\ data <= MaxWipes /\ faults <= MaxFaults
    BY <1>m DEF FewMerges, Few, Bounded
  <2>3. mgr[m].merges < MergeAttempts
    BY <1>t, <2>2
  <2>4. CASE Retried(m, failure)
    <3>1. at'[m] = "merge" /\ mgr'[m].merges = mgr[m].merges + 1 /\ outcome'[m] = outcome[m]
      BY <1>m, <1>t, <2>4 DEF MergeAgain
    <3>2. outcome[m] # "violated"
      BY DEF FewMerges, Few
    <3>3. mgr'[m].merges <= data' + faults' + (IF held' = {} THEN 1 ELSE 2)
      BY <1>m, <1>t, <1>f, <2>2, <3>1
    <3>4. at'[m] \notin Statements \cup {"returned", "write"}
      BY <3>1 DEF Statements
    <3> QED BY <2>1, <3>1, <3>2, <3>3, <3>4 DEF Few
  <2>5. CASE ~Retried(m, failure)
    <3>1. failure = "conflict"
      BY <2>3, <2>5 DEF Retried
    <3>2. at'[m] = "rejected" /\ outcome'[m] = failure
      BY <1>m, <1>t, <2>5 DEF MergeAgain
    <3>3. outcome'[m] # "violated"
      BY <3>1, <3>2
    <3>4. at'[m] \notin Statements \cup {"returned", "merge", "write"}
      BY <3>2 DEF Statements
    <3> QED BY <2>1, <3>3, <3>4 DEF Few
  <2> QED BY <2>1, <2>4, <2>5
<1>5. ASSUME NEW m \in Managers, Write(m) PROVE FewMerges'
  <2>1. CASE constraint = "built" /\ held # {}
    <3>1. MergeAgain(m, "violated") /\ at[m] = "write" /\ UNCHANGED <<held, data>>
      BY <1>5, <2>1 DEF Write
    <3> QED BY <1>m, <1>o, <2>1, <3>1
  <2>2. CASE ~(constraint = "built" /\ held # {})
    <3>1. OnlyOf(m) /\ data' = data /\ held' # {} /\ at'[m] = "read" /\ outcome'[m] = outcome[m]
      BY <1>5, <1>t, <2>2 DEF Write, GoTo
    <3>2. Few(m)'
      BY <3>1 DEF FewMerges, Few, Statements
    <3> QED BY <1>o, <3>1, <3>2
  <2> QED BY <2>1, <2>2
<1>6. ASSUME NEW m \in Managers, Read(m) PROVE FewMerges'
  <2>1. OnlyOf(m) /\ data' = data /\ held' = held
    BY <1>6, <1>t DEF Read, GoTo, store
  <2>2. \/ at'[m] = "resolved" /\ outcome'[m] = outcome[m]
        \/ at'[m] = "merge" /\ mgr'[m].merges = 1 /\ outcome'[m] = outcome[m]
        \/ at'[m] = "rejected" /\ outcome'[m] = "vanished"
    BY <1>6, <1>t DEF Read, GoTo
  <2>3. Few(m)'
    BY <1>t, <1>b, <2>1, <2>2 DEF FewMerges, Few, Statements
  <2> QED BY <1>o, <2>1, <2>3
<1>7. ASSUME NEW m \in Managers, StampFails(m) PROVE FewMerges'
  <2>u. faults' = faults + 1 /\ UNCHANGED <<held, data>>
    BY <1>7 DEF StampFails, store
  <2>1. CASE at[m] = "write"
    <3>1. MergeAgain(m, "conflict")
      BY <1>7, <2>1 DEF StampFails
    <3> QED BY <1>m, <1>o, <2>1, <2>u, <3>1
  <2>2. CASE at[m] # "write"
    <3>1. OnlyOf(m) /\ at'[m] = "rejected" /\ outcome'[m] = "refused"
      BY <1>7, <1>t, <2>2 DEF StampFails
    <3>2. Few(m)'
      BY <3>1 DEF Few, Statements
    <3> QED BY <1>o, <2>u, <3>1, <3>2
  <2> QED BY <2>1, <2>2
\* The rest moves no manager.
<1>8. ASSUME UNCHANGED <<at, outcome, mgr>>,
             (data' = data /\ (held' = {} => held = {})) \/ (data' = data + 1 /\ data < MaxWipes)
      PROVE  FewMerges'
  <2>1. \A n \in Managers : Few(n)'
    BY <1>8, <1>f, StaysFew
  <2> QED BY <1>8, <1>b, <1>t, <2>1 DEF FewMerges, Bounded
<1>9. CASE BuildEnds /\ UNCHANGED <<mgr, identity, data>>
  <2>1. UNCHANGED <<at, outcome, mgr, data>> /\ held' = held
    BY <1>9 DEF BuildEnds
  <2> QED BY <1>8, <2>1
<1>10. CASE Wipe
  BY <1>8, <1>10 DEF Wipe
<1>11. CASE RemoveDuplicates
  <2>1. UNCHANGED <<at, outcome, mgr, data>> /\ held' # {}
    BY <1>11 DEF RemoveDuplicates
  <2> QED BY <1>8, <2>1
<1>12. CASE UNCHANGED vars
  <2>1. UNCHANGED <<at, outcome, mgr, data>> /\ held' = held
    BY <1>12 DEF vars, store
  <2> QED BY <1>8, <2>1
<1> QED
  BY <1>1, <1>2, <1>3, <1>4, <1>5, <1>6, <1>7, <1>9, <1>10, <1>11, <1>12
  DEF Next, Step, Done

\* However many managers race, on either engine, a refusal by a peer's stamp
\* never rejects an identity when the attempts outnumber what deletes the data
\* or fails on its own between them (StoreIdentity.ts:233-236, 244-250).
THEOREM RacesRejectNobody ==
  ASSUME MaxWipes \in Nat, MaxFaults \in Nat \ {0}, MergeAttempts > MaxWipes + MaxFaults + 1
  PROVE  Spec => []PeersRejectNobody
<1>1. FewMerges => PeersRejectNobody
  BY DEF FewMerges, Few, PeersRejectNobody
<1>2. Spec => []Types
  BY TypesAtFirst, NextTypes, PTL DEF Spec
<1> QED BY FewMergesAtFirst, NextFewMerges, <1>1, <1>2, PTL DEF Spec
=============================================================================
