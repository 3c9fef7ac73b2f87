------------------------ MODULE SchemaManagerProofs ------------------------
(***************************************************************************)
(* Proofs about SchemaManager, for any number of processes, owners and     *)
(* items, and failures and crashes without bound.                          *)
(***************************************************************************)
EXTENDS SchemaManager, TLAPS

\* An operation p of m is as TypeOK has it, where r is what the managers were given to ensure.
WellFormed(m, p, r) ==
  /\ p \in Operation
  /\ p # Idle =>
       /\ p.at # "none" /\ p.owner \in Owners
       /\ p.todo \subseteq p.given /\ p.given \subseteq Catalog[m][p.owner] \cup r[m][p.owner]
       /\ p.at \in {"drop", "create"} => p.item \in p.given

LEMMA IdleIsAnOperation == Idle \in Operation
BY DEF Idle, Operation, Unlisted, Listing, Versions

LEMMA TypesAtFirst == Init => TypeOK
<1> SUFFICES ASSUME Init PROVE TypeOK
  OBVIOUS
<1>1. op \in [Managers -> Operation] /\ \A m \in Managers : op[m] = Idle
  BY IdleIsAnOperation DEF Init
<1> QED BY <1>1, MarkersHoldInventories DEF Init, TypeOK

LEMMA OwnItems ==
  ASSUME runtime \in [Managers -> [Owners -> SUBSET Items]], NEW m \in Managers, NEW o \in Owners
  PROVE  Own(m, o) \in SUBSET Items
BY CatalogsDeclareItems DEF Own

\* A step of a manager that keeps what the others are given.
LEMMA StepTypes ==
  ASSUME TypeOK, NEW m \in Managers, NEW p, Become(m, p),
         runtime' \in [Managers -> [Owners -> SUBSET Items]],
         \A n \in Managers \ {m} : runtime'[n] = runtime[n],
         WellFormed(m, p, runtime'),
         outdated' \subseteq exists' /\ exists' \subseteq Items, marker' \in [Owners -> Marker]
  PROVE  TypeOK'
<1>1. op' = [op EXCEPT ![m] = p]
  BY DEF Become
<1>2. op' \in [Managers -> Operation]
  BY <1>1 DEF TypeOK, WellFormed
<1>3. ASSUME NEW n \in Managers
      PROVE  (op[n] # Idle =>
                /\ op[n].at # "none" /\ op[n].owner \in Owners
                /\ op[n].todo \subseteq op[n].given /\ op[n].given \subseteq Own(n, op[n].owner)
                /\ op[n].at \in {"drop", "create"} => op[n].item \in op[n].given)'
  <2>1. CASE n = m
    BY <1>1, <2>1 DEF TypeOK, WellFormed, Own
  <2>2. CASE n # m
    <3>1. op'[n] = op[n] /\ runtime'[n] = runtime[n]
      BY <1>1, <2>2 DEF TypeOK
    <3> QED BY <3>1 DEF TypeOK, Own
  <2> QED BY <2>1, <2>2
<1> QED BY <1>2, <1>3 DEF TypeOK

LEMMA BeginWellFormed ==
  ASSUME TypeOK, NEW m \in Managers, NEW kind \in {"enforce", "recreateAll", "ensure"},
         NEW owners \in SUBSET Owners, NEW o \in owners, NEW given, given \subseteq Catalog[m][o] \cup runtime'[m][o], given \subseteq Items
  PROVE  WellFormed(m, [Idle EXCEPT !.kind = kind, !.owner = o, !.owners = owners \ {o}, !.given = given,
                          !.at = "version"], runtime')
BY IdleIsAnOperation DEF WellFormed, Operation, Idle

LEMMA ApplyTypes ==
  ASSUME TypeOK, NEW m \in Managers, NEW kind \in {"enforce", "recreateAll"}, Apply(m, kind)
  PROVE  TypeOK'
<1>1. PICK o \in {q \in Owners : Own(m, q) # {}} :
        Become(m, [Idle EXCEPT !.kind = kind, !.owner = o, !.owners = {q \in Owners : Own(m, q) # {}} \ {o},
                     !.given = {}, !.at = "version"])
  BY DEF Apply, Begin
<1> QED BY <1>1, BeginWellFormed, StepTypes DEF Apply, TypeOK

LEMMA EnsureTypes ==
  ASSUME TypeOK, NEW m \in Managers, NEW o \in Owners, NEW k \in RuntimeItems[o], Ensure(m, o, k)
  PROVE  TypeOK'
<1>1. Become(m, [Idle EXCEPT !.kind = "ensure", !.owner = o, !.owners = {o} \ {o}, !.given = {k}, !.at = "version"])
  BY DEF Ensure, Begin
<1>2. k \in Items
  BY RuntimeItemsAreItems
<1>3. runtime' = [runtime EXCEPT ![m][o] = @ \cup {k}]
  BY DEF Ensure
<1>4. runtime' \in [Managers -> [Owners -> SUBSET Items]] /\ \A n \in Managers \ {m} : runtime'[n] = runtime[n]
  BY <1>2, <1>3 DEF TypeOK
<1>5. {k} \subseteq Catalog[m][o] \cup runtime'[m][o]
  BY <1>3 DEF Own, TypeOK
<1>6. WellFormed(m, [Idle EXCEPT !.kind = "ensure", !.owner = o, !.owners = {o} \ {o}, !.given = {k}, !.at = "version"], runtime')
  BY <1>2, <1>5, BeginWellFormed
<1> QED BY <1>1, <1>4, <1>6, StepTypes DEF Ensure, TypeOK

LEMMA ReadTypes ==
  ASSUME TypeOK, NEW m \in Managers, ReadVersion(m) \/ ReadInventory(m)
  PROVE  TypeOK'
<1>1. op[m] # Idle /\ op[m] \in Operation /\ op[m].owner \in Owners
  BY DEF TypeOK, ReadVersion, ReadInventory, Idle
<1>2. marker[op[m].owner] \in Marker /\ Own(m, op[m].owner) \in SUBSET Items
  BY <1>1, OwnItems DEF TypeOK
<1>3. CASE ReadVersion(m)
  <2>1. PICK v \in Versions : Become(m, [op[m] EXCEPT !.stored = v, !.at = "inventory"])
    <3>1. marker[op[m].owner].version \in Versions /\ None \in Versions
      BY <1>2 DEF Marker, Versions
    <3> QED BY <1>3, <3>1 DEF ReadVersion
  <2>2. WellFormed(m, [op[m] EXCEPT !.stored = v, !.at = "inventory"], runtime')
    BY <1>1, <1>3, <2>1 DEF WellFormed, Operation, TypeOK, ReadVersion, Own
  <2> QED BY <1>3, <2>1, <2>2, StepTypes DEF ReadVersion, TypeOK
<1>4. CASE ReadInventory(m)
  <2>1. PICK b \in BOOLEAN, given \in {op[m].given, Own(m, op[m].owner)} :
          Become(m, [op[m] EXCEPT !.items = marker[op[m].owner].items, !.recreate = b,
                       !.given = given, !.todo = given, !.at = "item"])
    BY <1>4 DEF ReadInventory
  <2>2. given \in SUBSET Items /\ given \subseteq Own(m, op[m].owner)
    BY <1>1, <1>2, <2>1 DEF TypeOK
  <2>3. WellFormed(m, [op[m] EXCEPT !.items = marker[op[m].owner].items, !.recreate = b,
                         !.given = given, !.todo = given, !.at = "item"], runtime')
    BY <1>1, <1>2, <1>4, <2>2 DEF WellFormed, Operation, Marker, ReadInventory, Own
  <2> QED BY <1>4, <2>1, <2>3, StepTypes DEF ReadInventory, TypeOK
<1> QED BY <1>3, <1>4

LEMMA ItemTypes ==
  ASSUME TypeOK, NEW m \in Managers, FindItem(m) \/ DropItem(m) \/ CreateItem(m)
  PROVE  TypeOK'
<1>1. op[m] # Idle
  <2>1. op[m].at \in {"item", "drop", "create"}
    BY DEF FindItem, DropItem, CreateItem
  <2> QED BY <2>1 DEF Idle
<1>o. op[m] \in Operation /\ WellFormed(m, op[m], runtime)
  <2>1. op[m] \in Operation
    BY DEF TypeOK
  <2>2. op[m].given \subseteq Own(m, op[m].owner)
    BY <1>1 DEF TypeOK
  <2> QED BY <1>1, <2>1, <2>2 DEF TypeOK, WellFormed, Own
<1>2. CASE FindItem(m)
  <2>1. PICK k \in op[m].todo, step \in {"create", "drop", "item"} :
          Become(m, [op[m] EXCEPT !.todo = @ \ {k}, !.item = k, !.at = step])
    BY <1>2 DEF FindItem
  <2>2. k \in op[m].given /\ k \in Items
    BY <1>1, <1>o, <2>1 DEF WellFormed, Operation
  <2>3. WellFormed(m, [op[m] EXCEPT !.todo = @ \ {k}, !.item = k, !.at = step], runtime')
    BY <1>1, <1>o, <1>2, <2>1, <2>2 DEF WellFormed, Operation, FindItem, Own
  <2> QED BY <1>2, <2>1, <2>3, StepTypes DEF FindItem, TypeOK
<1>3. CASE DropItem(m)
  <2>1. WellFormed(m, [op[m] EXCEPT !.at = "create"], runtime')
    BY <1>1, <1>o, <1>3 DEF WellFormed, Operation, DropItem, Own
  <2> QED BY <1>3, <2>1, StepTypes DEF DropItem, TypeOK
<1>4. CASE CreateItem(m)
  <2>1. WellFormed(m, [op[m] EXCEPT !.at = "item"], runtime')
    BY <1>1, <1>o, <1>4 DEF WellFormed, Operation, CreateItem, Own
  <2>2. op[m].item \in Items
    BY <1>1, <1>o, <1>4 DEF WellFormed, Operation, CreateItem
  <2> QED BY <1>4, <2>1, <2>2, StepTypes DEF CreateItem, TypeOK
<1> QED BY <1>2, <1>3, <1>4

LEMMA RecordTypes ==
  ASSUME TypeOK, NEW m \in Managers, Record(m)
  PROVE  TypeOK'
<1>1. op[m] # Idle /\ op[m] \in Operation /\ op[m].owner \in Owners
  BY DEF TypeOK, Record, Idle
<1>2. VersionAfter(m, op[m]) \in Versions
  BY <1>1 DEF VersionAfter, Operation, Versions
<1>3. PICK how \in Listing : marker' = [marker EXCEPT ![op[m].owner] = [version |-> VersionAfter(m, op[m]), items |-> how]]
  <2> DEFINE how == [k \in Items |->
                CASE k \notin Own(m, op[m].owner) \cup Carried(m, op[m].owner, op[m].items) -> "none"
                  [] k \in StaleAfter(m, op[m]) -> "stale"
                  [] k \in (RuntimeOnly(m, op[m].owner) \cup Carried(m, op[m].owner, op[m].items)) \ StaleAfter(m, op[m]) -> "runtime"
                  [] OTHER -> "declared"]
  <2>1. how \in Listing
    BY DEF Listing
  <2> QED BY <2>1 DEF Record
<1>4. marker' \in [Owners -> Marker]
  BY <1>1, <1>2, <1>3 DEF TypeOK, Marker
<1>5. CASE op[m].owners = {}
  <2>1. Become(m, Idle) /\ WellFormed(m, Idle, runtime')
    BY <1>5, IdleIsAnOperation DEF Record, WellFormed
  <2> QED BY <1>4, <2>1, StepTypes DEF Record, TypeOK
<1>6. CASE op[m].owners # {}
  <2>1. PICK o \in op[m].owners :
          Become(m, [Idle EXCEPT !.kind = op[m].kind, !.owner = o, !.owners = op[m].owners \ {o}, !.given = {},
                       !.at = "version"])
    BY <1>6 DEF Record, Begin
  <2>2. op[m].owners \in SUBSET Owners /\ o \in Owners
    BY <1>1, <2>1 DEF Operation
  <2>3. WellFormed(m, [Idle EXCEPT !.kind = op[m].kind, !.owner = o, !.owners = op[m].owners \ {o}, !.given = {},
                         !.at = "version"], runtime')
    BY <1>1, <2>2, IdleIsAnOperation DEF WellFormed, Operation, Idle
  <2> QED BY <1>4, <2>1, <2>3, StepTypes DEF Record, TypeOK
<1> QED BY <1>5, <1>6

LEMMA EndsTypes ==
  ASSUME TypeOK, NEW m \in Managers, Fails(m) \/ Crash(m)
  PROVE  TypeOK'
<1>1. Become(m, Idle) /\ WellFormed(m, Idle, runtime')
  BY IdleIsAnOperation DEF Fails, Crash, WellFormed
<1>2. runtime' \in [Managers -> [Owners -> SUBSET Items]] /\ \A n \in Managers \ {m} : runtime'[n] = runtime[n]
  BY DEF Fails, Crash, TypeOK
<1> QED BY <1>1, <1>2, StepTypes DEF Fails, Crash, TypeOK

LEMMA NextTypes == TypeOK /\ [Next]_vars => TypeOK'
<1> SUFFICES ASSUME TypeOK, [Next]_vars PROVE TypeOK'
  OBVIOUS
<1>1. CASE Next
  BY <1>1, ApplyTypes, EnsureTypes, ReadTypes, ItemTypes, RecordTypes, EndsTypes DEF Next, Step
<1>2. CASE UNCHANGED vars
  BY <1>2 DEF vars, TypeOK, Own
<1> QED BY <1>1, <1>2

\* Every variable holds a value of its kind, and an operation under way applies
\* only what its manager declares or was given to ensure.
THEOREM TypeCorrect == Spec => []TypeOK
BY TypesAtFirst, NextTypes, PTL DEF Spec

-----------------------------------------------------------------------------
(* What two owners declare is dropped by recreateAll alone.                *)

DropsSpare ==
  \A m \in Managers : op[m].at = "drop" /\ op[m].item \in CoDeclared => op[m].kind = "recreateAll"

\* A step of a manager, which leaves it at no drop.
LEMMA NoDropSpares ==
  ASSUME TypeOK, DropsSpare, NEW m \in Managers, NEW p, p.at # "drop", Become(m, p)
  PROVE  DropsSpare'
BY DEF TypeOK, DropsSpare, Become

LEMMA FindSpares ==
  ASSUME TypeOK, DropsSpare, NEW m \in Managers, FindItem(m)
  PROVE  DropsSpare'
<1>1. PICK k \in op[m].todo, step \in {"create", "drop", "item"} :
        /\ Become(m, [op[m] EXCEPT !.todo = @ \ {k}, !.item = k, !.at = step])
        /\ step = "drop" => Recreated(m, k)
  BY DEF FindItem
<1>2. op[m] \in Operation
  BY DEF TypeOK
<1>3. CASE step = "drop"
  <2>1. k \in CoDeclared => CoOwned(m, k)
    BY DEF CoDeclared, CoOwned, Own
  <2>2. k \in CoDeclared => op[m].kind = "recreateAll"
    BY <1>1, <1>3, <2>1 DEF Recreated
  <2>3. op' = [op EXCEPT ![m] = [op[m] EXCEPT !.todo = @ \ {k}, !.item = k, !.at = step]]
    BY <1>1 DEF Become
  <2>4. op'[m].item = k /\ op'[m].kind = op[m].kind /\ \A n \in Managers \ {m} : op'[n] = op[n]
    BY <1>2, <2>3 DEF TypeOK, Operation
  <2> QED BY <2>2, <2>4 DEF DropsSpare
<1>4. CASE step # "drop"
  <2>1. [op[m] EXCEPT !.todo = @ \ {k}, !.item = k, !.at = step].at # "drop"
    BY <1>2, <1>4 DEF Operation
  <2> QED BY <1>1, <2>1, NoDropSpares
<1> QED BY <1>3, <1>4

LEMMA NextSpares == TypeOK /\ DropsSpare /\ [Next]_vars => DropsSpare'
<1> SUFFICES ASSUME TypeOK, DropsSpare, [Next]_vars PROVE DropsSpare'
  OBVIOUS
<1>2. ASSUME NEW m \in Managers, NEW kind, NEW owners, NEW given, Begin(m, kind, owners, given)
      PROVE  DropsSpare'
  <2>1. PICK o \in owners : Become(m, [Idle EXCEPT !.kind = kind, !.owner = o, !.owners = owners \ {o},
                                         !.given = given, !.at = "version"])
    BY <1>2 DEF Begin
  <2> QED BY <2>1, NoDropSpares DEF Idle
<1>3. ASSUME NEW m \in Managers, ReadVersion(m) \/ ReadInventory(m) \/ DropItem(m) \/ CreateItem(m)
      PROVE  DropsSpare'
  <2>1. op[m] \in Operation
    BY DEF TypeOK
  <2>2. \E p : Become(m, p) /\ p.at # "drop"
    <3>1. CASE ReadVersion(m)
      <4>1. PICK v : Become(m, [op[m] EXCEPT !.stored = v, !.at = "inventory"])
        BY <3>1 DEF ReadVersion
      <4>2. [op[m] EXCEPT !.stored = v, !.at = "inventory"].at # "drop"
        BY <2>1 DEF Operation
      <4> QED BY <4>1, <4>2
    <3>3. CASE ReadInventory(m)
      <4>1. PICK items, again, given :
              Become(m, [op[m] EXCEPT !.items = items, !.recreate = again, !.given = given, !.todo = given, !.at = "item"])
        BY <3>3 DEF ReadInventory
      <4>2. [op[m] EXCEPT !.items = items, !.recreate = again, !.given = given, !.todo = given, !.at = "item"].at # "drop"
        BY <2>1 DEF Operation
      <4> QED BY <4>1, <4>2
    <3>2. CASE DropItem(m) \/ CreateItem(m)
      BY <2>1, <3>2 DEF DropItem, CreateItem, Operation
    <3> QED BY <1>3, <3>1, <3>2, <3>3
  <2> QED BY <2>2, NoDropSpares
<1>4. ASSUME NEW m \in Managers, Become(m, Idle)
      PROVE  DropsSpare'
  BY <1>4, NoDropSpares DEF Idle
<1>5. CASE Next
  BY <1>2, <1>3, <1>4, <1>5, FindSpares DEF Next, Apply, Ensure, Step, Record, Fails, Crash
<1>6. CASE UNCHANGED vars
  BY <1>6 DEF vars, DropsSpare
<1> QED BY <1>5, <1>6

\* An item that every process's catalogs declare for two owners outlives a
\* change of either's version: nothing but recreateAll drops it.
THEOREM SharedItemsAreSpared == Spec => SharedIsSpared
<1>1. Init => DropsSpare
  BY DEF Init, DropsSpare, Idle
<1>2. TypeOK /\ DropsSpare /\ [Next]_vars =>
        [\A k \in CoDeclared : k \in exists /\ k \notin exists'
           => \E m \in Managers : op[m] # Idle /\ op[m].kind = "recreateAll"]_vars
  <2> SUFFICES ASSUME TypeOK, DropsSpare, Next, NEW k \in CoDeclared, k \in exists, k \notin exists'
               PROVE  \E m \in Managers : op[m] # Idle /\ op[m].kind = "recreateAll"
    OBVIOUS
  <2>1. PICK m \in Managers : DropItem(m) /\ op[m].item = k
    BY DEF Next, Apply, Ensure, Step, ReadVersion, ReadInventory, FindItem, DropItem, CreateItem, Record, Fails, Crash
  <2>2. op[m].kind = "recreateAll"
    BY <2>1 DEF DropsSpare, DropItem
  <2> QED BY <2>2 DEF Idle
<1> QED BY <1>1, <1>2, TypesAtFirst, NextTypes, NextSpares, PTL DEF Spec, SharedIsSpared

-----------------------------------------------------------------------------
(* A marker that names the new version lists nothing old as declared.      *)

Current(o) == \A m \in Managers : Catalog[m][o] \cap outdated = {}

\* An apply of o that finds version v recorded recreates nothing.
Adopted(o, v) == New(o) # {} /\ v \in New(o) \cup {None}

Underway(p) == p.at \in {"item", "drop", "create"}

\* What an operation read vouches for: that nothing is old, or that it is
\* recreating what is.
OpCurrent(m, p, old) ==
  /\ p # Idle => p.kind # "none"
  /\ p.at = "inventory" \/ Underway(p) =>
       (Adopted(p.owner, p.stored) => Catalog[m][p.owner] \cap old = {})
  /\ Underway(p) /\ New(p.owner) # {} /\ p.kind # "ensure" =>
       /\ p.kind = "enforce" /\ ~p.recreate => Catalog[m][p.owner] \cap old = {}
       /\ \A k \in Catalog[m][p.owner] : k \in p.todo \/ (p.at = "drop" /\ k = p.item) \/ k \notin old

Declared ==
  /\ TypeOK
  /\ \A m \in Managers, o \in Owners : runtime[m][o] \subseteq RuntimeItems[o]
  /\ \A m \in Managers, o, q \in Owners : o # q => Catalog[m][o] \cap Catalog[m][q] \cap outdated = {}
  /\ \A o \in Owners : Adopted(o, marker[o].version) => Current(o)
  /\ \A o \in Owners, k \in Items, m \in Managers :
       marker[o].version \in New(o) /\ marker[o].items[k] = "declared" => k \in Catalog[m][o]
  /\ \A m \in Managers : OpCurrent(m, op[m], outdated)

LEMMA NewVersion ==
  ASSUME OneDeployment, NEW m \in Managers, NEW o \in Owners, New(o) # {}
  PROVE  Version[m][o] # None /\ New(o) = {Version[m][o]}
<1>1. \A n \in Enforcers : Version[n][o] = Version[m][o]
  BY EnforcersAreManagers DEF OneDeployment
<1> QED BY <1>1 DEF New

LEMMA DeclaredAtFirst == ASSUME OneDeployment, Init PROVE Declared
<1>1. TypeOK
  BY TypesAtFirst
<1>2. ASSUME NEW k \in outdated
      PROVE  \E o \in Owners : /\ marker[o].items[k] # "none" /\ marker[o].version \notin New(o) \cup {None}
                              /\ \A m \in Managers, q \in Owners \ {o} : k \notin Catalog[m][q]
  <2>1. k \in Items
    BY <1>1 DEF TypeOK
  <2> QED BY <2>1 DEF Init, OneDeployment
<1>3. \A m \in Managers, o \in Owners : runtime[m][o] \subseteq RuntimeItems[o]
  BY DEF Init
<1>4. \A m \in Managers, o, q \in Owners : o # q => Catalog[m][o] \cap Catalog[m][q] \cap outdated = {}
  BY <1>2
<1>5. \A o \in Owners : Adopted(o, marker[o].version) => Current(o)
  BY <1>2 DEF Adopted, Current
<1>6. \A o \in Owners, k \in Items, m \in Managers :
        marker[o].version \in New(o) /\ marker[o].items[k] = "declared" => k \in Catalog[m][o]
  BY DEF Init, OneDeployment
<1>7. \A m \in Managers : OpCurrent(m, op[m], outdated)
  BY DEF Init, OpCurrent, Underway, Idle
<1> QED BY <1>1, <1>3, <1>4, <1>5, <1>6, <1>7 DEF Declared

\* A step of a manager, after which what it writes and goes on with is true.
LEMMA StepDeclared ==
  ASSUME Declared, TypeOK', NEW m \in Managers, NEW p, Become(m, p), outdated' \subseteq outdated,
         OpCurrent(m, p, outdated'),
         \A n \in Managers, o \in Owners : runtime'[n][o] \subseteq RuntimeItems[o],
         \A o \in Owners : Adopted(o, marker'[o].version) => Current(o)',
         \A o \in Owners, k \in Items, n \in Managers :
           marker'[o].version \in New(o) /\ marker'[o].items[k] = "declared" => k \in Catalog[n][o]
  PROVE  Declared'
<1>1. ASSUME NEW n \in Managers PROVE OpCurrent(n, op'[n], outdated')
  <2>1. CASE n = m
    BY <2>1 DEF Become, Declared, TypeOK
  <2>2. CASE n # m
    <3>1. op'[n] = op[n] /\ OpCurrent(n, op[n], outdated)
      BY <2>2 DEF Become, Declared, TypeOK
    <3> QED BY <3>1 DEF OpCurrent
  <2> QED BY <2>1, <2>2
<1>2. \A n \in Managers, o, q \in Owners : o # q => Catalog[n][o] \cap Catalog[n][q] \cap outdated' = {}
  BY DEF Declared
<1> QED BY <1>1, <1>2 DEF Declared, Adopted, New, OpCurrent, Underway

\* One that writes no marker.
LEMMA KeptDeclared ==
  ASSUME Declared, TypeOK', NEW m \in Managers, NEW p, Become(m, p), outdated' \subseteq outdated,
         OpCurrent(m, p, outdated'),
         \A n \in Managers, o \in Owners : runtime'[n][o] \subseteq RuntimeItems[o], marker' = marker
  PROVE  Declared'
<1>1. \A o \in Owners : Adopted(o, marker'[o].version) => Current(o)'
  BY DEF Declared, Current
<1>2. \A o \in Owners, k \in Items, n \in Managers :
        marker'[o].version \in New(o) /\ marker'[o].items[k] = "declared" => k \in Catalog[n][o]
  BY DEF Declared
<1> QED BY <1>1, <1>2, StepDeclared

LEMMA BeginCurrent ==
  ASSUME NEW m, NEW kind, kind # "none", NEW o, NEW owners, NEW given, NEW old
  PROVE  OpCurrent(m, [Idle EXCEPT !.kind = kind, !.owner = o, !.owners = owners, !.given = given,
                         !.at = "version"], old)
BY DEF OpCurrent, Underway, Idle

LEMMA IdleCurrent == ASSUME NEW m, NEW old PROVE OpCurrent(m, Idle, old)
BY DEF OpCurrent, Underway, Idle

LEMMA ReadDeclared ==
  ASSUME OneDeployment, Declared, TypeOK', NEW m \in Managers, ReadVersion(m) \/ ReadInventory(m)
  PROVE  Declared'
<1>1. op[m] # Idle /\ op[m] \in Operation /\ op[m].owner \in Owners /\ op[m].kind # "none"
  <2>1. op[m].at # "none"
    BY DEF ReadVersion, ReadInventory
  <2>2. op[m] # Idle
    BY <2>1 DEF Idle
  <2> QED BY <2>2 DEF Declared, TypeOK, OpCurrent
<1> DEFINE o == op[m].owner
<1>2. UNCHANGED <<outdated, marker, runtime>>
  BY DEF ReadVersion, ReadInventory
<1>3. CASE ReadVersion(m)
  <2>1. PICK v : /\ Become(m, [op[m] EXCEPT !.stored = v, !.at = "inventory"])
                 /\ v = marker[o].version \/ (v = None /\ Version[m][o] = None)
    BY <1>3 DEF ReadVersion
  <2>2. Adopted(o, v) => Catalog[m][o] \cap outdated = {}
    <3>1. CASE v = marker[o].version
      BY <1>1, <3>1 DEF Declared, Current
    <3>2. CASE Version[m][o] = None
      BY <1>1, <3>2, NewVersion DEF Adopted
    <3> QED BY <2>1, <3>1, <3>2
  <2> DEFINE p == [op[m] EXCEPT !.stored = v, !.at = "inventory"]
  <2>3. p.at = "inventory" /\ p.stored = v /\ p.owner = o /\ p.kind # "none"
    BY <1>1 DEF Operation
  <2>4. OpCurrent(m, p, outdated')
    BY <1>2, <2>2, <2>3 DEF OpCurrent, Underway
  <2> HIDE DEF p
  <2> QED BY <1>2, <2>1, <2>4, KeptDeclared DEF Declared, p
<1>4. CASE ReadInventory(m)
  <2>1. PICK items, again, given :
          /\ Become(m, [op[m] EXCEPT !.items = items, !.recreate = again, !.given = given, !.todo = given, !.at = "item"])
          /\ op[m].kind # "ensure" => /\ given = Own(m, o)
                                      /\ ~again => op[m].stored = None \/ Version[m][o] \in {None, op[m].stored}
    BY <1>4 DEF ReadInventory
  <2>2. Adopted(o, op[m].stored) => Catalog[m][o] \cap outdated = {}
    BY <1>4 DEF Declared, OpCurrent, ReadInventory
  <2> DEFINE p == [op[m] EXCEPT !.items = items, !.recreate = again, !.given = given, !.todo = given, !.at = "item"]
  <2>3. /\ p.at = "item" /\ p.stored = op[m].stored /\ p.owner = o /\ p.kind = op[m].kind
        /\ p.todo = given /\ p.recreate = again
    BY <1>1 DEF Operation
  <2>4. New(o) # {} /\ op[m].kind = "enforce" /\ ~again => Catalog[m][o] \cap outdated = {}
    <3>1. New(o) # {} => Version[m][o] # None /\ New(o) = {Version[m][o]}
      BY <1>1, NewVersion
    <3> QED BY <2>1, <2>2, <3>1 DEF Adopted
  <2>5. op[m].kind # "ensure" => Catalog[m][o] \subseteq given
    BY <2>1 DEF Own
  <2>6. OpCurrent(m, p, outdated')
    BY <1>1, <1>2, <2>2, <2>3, <2>4, <2>5 DEF OpCurrent, Underway
  <2> HIDE DEF p
  <2> QED BY <1>2, <2>1, <2>6, KeptDeclared DEF Declared, p
<1> QED BY <1>3, <1>4

LEMMA FindDeclared ==
  ASSUME OneDeployment, Declared, TypeOK', NEW m \in Managers, FindItem(m)
  PROVE  Declared'
<1>1. op[m] # Idle /\ op[m] \in Operation /\ op[m].owner \in Owners /\ op[m].kind # "none"
  <2>1. op[m].at # "none"
    BY DEF FindItem
  <2>2. op[m] # Idle
    BY <2>1 DEF Idle
  <2> QED BY <2>2 DEF Declared, TypeOK, OpCurrent
<1> DEFINE o == op[m].owner
<1>2. UNCHANGED <<outdated, marker, runtime>>
  BY DEF FindItem
<1>3. PICK k \in op[m].todo, step \in {"create", "drop", "item"} :
        /\ Become(m, [op[m] EXCEPT !.todo = @ \ {k}, !.item = k, !.at = step])
        /\ step = "create" => k \notin exists
        /\ step = "item" => ~Recreated(m, k)
  BY DEF FindItem
<1> DEFINE p == [op[m] EXCEPT !.todo = @ \ {k}, !.item = k, !.at = step]
<1>4. /\ p.at = step /\ p.stored = op[m].stored /\ p.owner = o /\ p.kind = op[m].kind
      /\ p.todo = op[m].todo \ {k} /\ p.recreate = op[m].recreate /\ p.item = k
  BY <1>1 DEF Operation
<1>5. OpCurrent(m, op[m], outdated) /\ op[m].at = "item"
  BY DEF Declared, FindItem
<1>6. ASSUME New(o) # {}, op[m].kind # "ensure", k \in Catalog[m][o], step # "drop"
      PROVE  k \notin outdated
  <2>1. CASE step = "create"
    BY <1>3, <2>1 DEF Declared, TypeOK
  <2>2. CASE step = "item" /\ op[m].kind = "enforce"
    <3>1. ~op[m].recreate \/ CoOwned(m, k)
      BY <1>3, <2>2 DEF Recreated
    <3>2. CASE ~op[m].recreate
      BY <1>5, <1>6, <2>2, <3>2 DEF OpCurrent, Underway
    <3>3. CASE CoOwned(m, k)
      <4>1. PICK q \in Owners : q # o /\ k \in Own(m, q)
        BY <3>3 DEF CoOwned
      <4>2. k \notin RuntimeItems[q]
        BY <1>1, <1>6, <4>1 DEF OneDeployment
      <4>3. k \in Catalog[m][q]
        BY <4>1, <4>2 DEF Own, Declared
      <4> QED BY <1>1, <1>6, <4>1, <4>3 DEF Declared
    <3> QED BY <3>1, <3>2, <3>3
  <2>3. CASE step = "item" /\ op[m].kind = "recreateAll"
    BY <1>3, <2>3 DEF Recreated
  <2> QED BY <1>1, <1>6, <2>1, <2>2, <2>3 DEF Operation
<1>7. OpCurrent(m, p, outdated')
  BY <1>1, <1>2, <1>4, <1>5, <1>6 DEF OpCurrent, Underway
<1> HIDE DEF p
<1> QED BY <1>2, <1>3, <1>7, KeptDeclared DEF Declared, p

LEMMA MakeDeclared ==
  ASSUME Declared, TypeOK', NEW m \in Managers, DropItem(m) \/ CreateItem(m)
  PROVE  Declared'
<1>1. op[m] \in Operation /\ OpCurrent(m, op[m], outdated)
  BY DEF Declared, TypeOK
<1>2. UNCHANGED <<marker, runtime>>
  BY DEF DropItem, CreateItem
<1>3. CASE DropItem(m)
  <2> DEFINE p == [op[m] EXCEPT !.at = "create"]
  <2>1. /\ p.at = "create" /\ p.stored = op[m].stored /\ p.owner = op[m].owner /\ p.kind = op[m].kind
        /\ p.todo = op[m].todo /\ p.recreate = op[m].recreate
    BY <1>1 DEF Operation
  <2>2. outdated' = outdated \ {op[m].item} /\ op[m].at = "drop" /\ Become(m, p)
    BY <1>3 DEF DropItem
  <2>3. op[m] # Idle => op[m].kind # "none"
    BY <1>1 DEF OpCurrent
  <2>4. op[m] # Idle
    BY <2>2 DEF Idle
  <2>5. OpCurrent(m, p, outdated')
    BY <1>1, <2>1, <2>2, <2>3, <2>4 DEF OpCurrent, Underway
  <2> HIDE DEF p
  <2> QED BY <1>2, <2>2, <2>5, KeptDeclared DEF Declared
<1>4. CASE CreateItem(m)
  <2> DEFINE p == [op[m] EXCEPT !.at = "item"]
  <2>1. /\ p.at = "item" /\ p.stored = op[m].stored /\ p.owner = op[m].owner /\ p.kind = op[m].kind
        /\ p.todo = op[m].todo /\ p.recreate = op[m].recreate
    BY <1>1 DEF Operation
  <2>2. outdated' = outdated /\ op[m].at = "create" /\ Become(m, p)
    BY <1>4 DEF CreateItem
  <2>4. op[m] # Idle
    BY <2>2 DEF Idle
  <2>5. OpCurrent(m, p, outdated')
    BY <1>1, <2>1, <2>2, <2>4 DEF OpCurrent, Underway
  <2> HIDE DEF p
  <2> QED BY <1>2, <2>2, <2>5, KeptDeclared DEF Declared
<1> QED BY <1>3, <1>4

LEMMA BeginDeclared ==
  ASSUME Declared, TypeOK', NEW m \in Managers, NEW kind, kind # "none", NEW owners, NEW given,
         Begin(m, kind, owners, given), outdated' = outdated, marker' = marker,
         \A n \in Managers, o \in Owners : runtime'[n][o] \subseteq RuntimeItems[o]
  PROVE  Declared'
<1>1. PICK o \in owners : Become(m, [Idle EXCEPT !.kind = kind, !.owner = o, !.owners = owners \ {o},
                                       !.given = given, !.at = "version"])
  BY DEF Begin
<1> DEFINE p == [Idle EXCEPT !.kind = kind, !.owner = o, !.owners = owners \ {o}, !.given = given, !.at = "version"]
<1>2. OpCurrent(m, p, outdated')
  BY BeginCurrent
<1> HIDE DEF p
<1> QED BY <1>1, <1>2, KeptDeclared DEF p

LEMMA EnsureDeclared ==
  ASSUME Declared, TypeOK', NEW m \in Managers, NEW o \in Owners, NEW k \in RuntimeItems[o], Ensure(m, o, k)
  PROVE  Declared'
<1>1. runtime' = [runtime EXCEPT ![m][o] = @ \cup {k}] /\ runtime \in [Managers -> [Owners -> SUBSET Items]]
  BY DEF Ensure, Declared, TypeOK
<1>2. \A n \in Managers, q \in Owners : runtime'[n][q] \subseteq RuntimeItems[q]
  BY <1>1 DEF Declared
<1> QED BY <1>2, BeginDeclared DEF Ensure

\* What m records of its owner's items is what it knows of them.
LEMMA RecordDeclared ==
  ASSUME OneDeployment, Declared, TypeOK', NEW m \in Managers, Record(m)
  PROVE  Declared'
<1>1. op[m] # Idle /\ op[m] \in Operation /\ op[m].owner \in Owners /\ op[m].kind # "none"
  <2>1. op[m].at # "none"
    BY DEF Record
  <2>2. op[m] # Idle
    BY <2>1 DEF Idle
  <2> QED BY <2>2 DEF Declared, TypeOK, OpCurrent
<1> DEFINE o == op[m].owner
<1>2. UNCHANGED <<outdated, runtime>> /\ op[m].at = "item" /\ op[m].todo = {}
  BY DEF Record
<1>3. PICK how : /\ marker' = [marker EXCEPT ![o] = [version |-> VersionAfter(m, op[m]), items |-> how]]
                 /\ \A k \in Items : how[k] = "declared" => k \in Own(m, o) \ RuntimeOnly(m, o)
  <2> DEFINE how == [k \in Items |->
                CASE k \notin Own(m, o) \cup Carried(m, o, op[m].items) -> "none"
                  [] k \in StaleAfter(m, op[m]) -> "stale"
                  [] k \in (RuntimeOnly(m, o) \cup Carried(m, o, op[m].items)) \ StaleAfter(m, op[m]) -> "runtime"
                  [] OTHER -> "declared"]
  <2>1. marker' = [marker EXCEPT ![o] = [version |-> VersionAfter(m, op[m]), items |-> how]]
    BY DEF Record
  <2>2. \A k \in Items : how[k] = "declared" => k \in Own(m, o) \ RuntimeOnly(m, o)
    OBVIOUS
  <2> HIDE DEF how
  <2> QED BY <2>1, <2>2
<1>4. marker'[o].version = VersionAfter(m, op[m]) /\ marker'[o].items = how
      /\ \A q \in Owners \ {o} : marker'[q] = marker[q]
  BY <1>1, <1>3 DEF Declared, TypeOK
<1>5. Adopted(o, VersionAfter(m, op[m])) => Catalog[m][o] \cap outdated = {}
  <2>1. OpCurrent(m, op[m], outdated)
    BY DEF Declared
  <2>2. CASE op[m].kind = "ensure"
    BY <1>2, <2>1, <2>2 DEF OpCurrent, Underway, VersionAfter
  <2>3. CASE op[m].kind # "ensure"
    BY <1>2, <2>1, <2>3 DEF OpCurrent, Underway, Adopted
  <2> QED BY <2>2, <2>3
<1>6. ASSUME NEW q \in Owners, Adopted(q, marker'[q].version) PROVE Current(q)'
  <2>1. CASE q = o
    <3>1. \A n \in Managers : Catalog[n][o] = Catalog[m][o]
      BY DEF OneDeployment
    <3> QED BY <1>2, <1>4, <1>5, <1>6, <2>1, <3>1 DEF Current
  <2>2. CASE q # o
    BY <1>2, <1>4, <1>6, <2>2 DEF Declared, Current
  <2> QED BY <2>1, <2>2
<1>7. ASSUME NEW q \in Owners, NEW k \in Items, NEW n \in Managers,
             marker'[q].version \in New(q), marker'[q].items[k] = "declared"
      PROVE  k \in Catalog[n][q]
  <2>1. CASE q = o
    <3>1. k \in Catalog[m][o]
      BY <1>3, <1>4, <1>7, <2>1 DEF Own, RuntimeOnly
    <3> QED BY <2>1, <3>1 DEF OneDeployment
  <2>2. CASE q # o
    BY <1>4, <1>7, <2>2 DEF Declared
  <2> QED BY <2>1, <2>2
<1>8. \A n \in Managers, q \in Owners : runtime'[n][q] \subseteq RuntimeItems[q]
  BY <1>2 DEF Declared
<1>9. \E p : Become(m, p) /\ OpCurrent(m, p, outdated')
  <2>1. CASE op[m].owners = {}
    BY <2>1, IdleCurrent DEF Record
  <2>2. CASE op[m].owners # {}
    <3>1. PICK q \in op[m].owners :
            Become(m, [Idle EXCEPT !.kind = op[m].kind, !.owner = q, !.owners = op[m].owners \ {q}, !.given = {},
                         !.at = "version"])
      BY <2>2 DEF Record, Begin
    <3>2. OpCurrent(m, [Idle EXCEPT !.kind = op[m].kind, !.owner = q, !.owners = op[m].owners \ {q}, !.given = {},
                          !.at = "version"], outdated')
      BY <1>1, BeginCurrent
    <3> QED BY <3>1, <3>2
  <2> QED BY <2>1, <2>2
<1>10. PICK p : Become(m, p) /\ OpCurrent(m, p, outdated')
  BY <1>9
<1> QED BY <1>2, <1>6, <1>7, <1>8, <1>10, StepDeclared

LEMMA EndsDeclared ==
  ASSUME Declared, TypeOK', NEW m \in Managers, Fails(m) \/ Crash(m)
  PROVE  Declared'
<1>1. Become(m, Idle) /\ OpCurrent(m, Idle, outdated') /\ UNCHANGED <<outdated, marker>>
  BY IdleCurrent DEF Fails, Crash
<1>2. \A n \in Managers, o \in Owners : runtime'[n][o] \subseteq RuntimeItems[o]
  BY DEF Fails, Crash, Declared, TypeOK
<1> QED BY <1>1, <1>2, KeptDeclared

LEMMA NextDeclared == ASSUME OneDeployment PROVE Declared /\ [Next]_vars => Declared'
<1> SUFFICES ASSUME Declared, [Next]_vars PROVE Declared'
  OBVIOUS
<1>1. TypeOK'
  BY NextTypes DEF Declared
<1>2. ASSUME NEW m \in Managers, NEW kind \in {"enforce", "recreateAll"}, Apply(m, kind) PROVE Declared'
  BY <1>1, <1>2, BeginDeclared DEF Apply, Declared
<1>3. CASE Next
  <2>1. PICK m \in Managers :
          \/ \E kind \in {"enforce", "recreateAll"} : Apply(m, kind)
          \/ \E o \in Owners : \E k \in RuntimeItems[o] : Ensure(m, o, k)
          \/ ReadVersion(m) \/ ReadInventory(m)
          \/ FindItem(m)
          \/ DropItem(m) \/ CreateItem(m)
          \/ Record(m)
          \/ Fails(m) \/ Crash(m)
    BY <1>3 DEF Next, Step
  <2>2. CASE \E kind \in {"enforce", "recreateAll"} : Apply(m, kind)
    BY <1>2, <2>2
  <2>3. CASE \E o \in Owners : \E k \in RuntimeItems[o] : Ensure(m, o, k)
    BY <1>1, <2>3, EnsureDeclared
  <2>4. CASE ReadVersion(m) \/ ReadInventory(m)
    BY <1>1, <2>4, ReadDeclared
  <2>5. CASE FindItem(m)
    BY <1>1, <2>5, FindDeclared
  <2>6. CASE DropItem(m) \/ CreateItem(m)
    BY <1>1, <2>6, MakeDeclared
  <2>7. CASE Record(m)
    BY <1>1, <2>7, RecordDeclared
  <2>8. CASE Fails(m) \/ Crash(m)
    BY <1>1, <2>8, EndsDeclared
  <2> QED BY <2>1, <2>2, <2>3, <2>4, <2>5, <2>6, <2>7, <2>8
<1>4. CASE UNCHANGED vars
  BY <1>1, <1>4 DEF vars, Declared, Current
<1> QED BY <1>3, <1>4

\* When the processes run one application, a marker that names the new version
\* lists nothing as declared that is older than it.
THEOREM DeclaredStaysCurrent == ASSUME OneDeployment PROVE Spec => []DeclaredIsCurrent
<1>1. Init => Declared
  BY DeclaredAtFirst
<1>2. Declared /\ [Next]_vars => Declared'
  BY NextDeclared
<1>3. Declared => DeclaredIsCurrent
  <2> SUFFICES ASSUME Declared, NEW o \in Owners, marker[o].version \in New(o), NEW k \in outdated,
                      marker[o].items[k] = "declared"
               PROVE  FALSE
    BY DEF DeclaredIsCurrent
  <2>1. PICK m \in Managers : TRUE
    BY EnforcersAreManagers DEF New
  <2>2. k \in Catalog[m][o]
    BY <2>1 DEF Declared, TypeOK
  <2>3. Current(o)
    BY DEF Declared, Adopted
  <2> QED BY <2>1, <2>2, <2>3 DEF Current
<1> QED BY <1>1, <1>2, <1>3, PTL DEF Spec

-----------------------------------------------------------------------------
(* While nothing fails, what is listed is there, or is being made.         *)

There == exists \cup {op[m].item : m \in {n \in Managers : op[n].at = "create"}}

\* What an operation p of m read is there, and of what it is given all that is
\* not left to do, where r is what the managers were given to ensure.
OpListed(m, p, r, there) ==
  /\ p.at = "inventory" \/ Underway(p) => (p.stored \in New(p.owner) => Catalog[m][p.owner] \subseteq there)
  /\ Underway(p) =>
       /\ \A k \in Items : p.items[k] \in {"runtime", "stale"} => k \in there
       /\ \A k \in p.given : k \in p.todo \/ (p.at = "drop" /\ k = p.item) \/ k \in there
       /\ p.kind # "ensure" => Catalog[m][p.owner] \cup r[m][p.owner] \subseteq p.given
  /\ \A o \in Owners : \A k \in r[m][o] : k \in there \/ (p.kind = "ensure" /\ p.owner = o /\ k \in p.given)

MarkerListed(o, found, there) ==
  /\ \A k \in Items : found.items[k] \in {"runtime", "stale"} => k \in there
  /\ found.version \in New(o) => \A m \in Managers : Catalog[m][o] \subseteq there

Listed ==
  /\ faults \in Nat
  /\ faults = 0 =>
       /\ \A o \in Owners : MarkerListed(o, marker[o], There)
       /\ \A m \in Managers : OpListed(m, op[m], runtime, There)

LEMMA ListedAtFirst == ASSUME OneDeployment, Init PROVE Listed
<1>1. \A o \in Owners, k \in Items : marker[o].items[k] # "none" => k \in There
  BY DEF Init, There
<1>2. ASSUME NEW o \in Owners PROVE MarkerListed(o, marker[o], There)
  <2>1. ASSUME NEW m \in Managers, NEW k \in Catalog[m][o], marker[o].version \in New(o) PROVE k \in There
    <3>1. k \in Items
      BY CatalogsDeclareItems
    <3>2. marker[o].items[k] = "declared"
      BY <2>1, <3>1 DEF Init, OneDeployment
    <3> QED BY <1>1, <3>1, <3>2
  <2> QED BY <1>1, <2>1 DEF MarkerListed
<1>3. ASSUME NEW m \in Managers PROVE OpListed(m, op[m], runtime, There)
  BY DEF Init, OpListed, Underway, Idle
<1> QED BY <1>2, <1>3 DEF Init, Listed

\* A manager steps from p to q, and what was there still is.
LEMMA StepListed ==
  ASSUME TypeOK, Listed, faults = 0, NEW m \in Managers, NEW p, Become(m, p), There \subseteq There',
         \A n \in Managers \ {m} : runtime'[n] = runtime[n],
         OpListed(m, p, runtime', There'), faults' = 0,
         \A o \in Owners : marker'[o] = marker[o] \/ MarkerListed(o, marker'[o], There')
  PROVE  Listed'
<1>1. ASSUME NEW n \in Managers PROVE OpListed(n, op'[n], runtime', There')
  <2>1. CASE n = m
    BY <2>1 DEF Become, TypeOK
  <2>2. CASE n # m
    <3>1. op'[n] = op[n] /\ OpListed(n, op[n], runtime, There) /\ runtime'[n] = runtime[n]
      BY <2>2 DEF Become, Listed, TypeOK
    <3> HIDE DEF There
    <3> QED BY <3>1 DEF OpListed
  <2> QED BY <2>1, <2>2
<1>2. ASSUME NEW o \in Owners PROVE MarkerListed(o, marker'[o], There')
  BY DEF Listed, MarkerListed
<1> QED BY <1>1, <1>2 DEF Listed, OpListed, MarkerListed, New, Underway

\* One that neither makes nor drops anything.
LEMMA ThereAsBefore ==
  ASSUME TypeOK, NEW m \in Managers, NEW p, Become(m, p), exists' = exists, op[m].at # "create"
  PROVE  There \subseteq There' /\ (p.at = "create" => p.item \in There')
BY DEF TypeOK, Become, There

LEMMA BeginListed ==
  ASSUME TypeOK, Listed, faults = 0, NEW m \in Managers, op[m] = Idle, NEW kind, NEW owners, NEW given,
         Begin(m, kind, owners, given), UNCHANGED <<exists, marker, faults>>,
         \/ runtime' = runtime
         \/ \E o \in Owners : \E k : /\ kind = "ensure" /\ owners = {o} /\ given = {k}
                                 /\ runtime' = [runtime EXCEPT ![m][o] = @ \cup {k}]
  PROVE  Listed'
<1>1. PICK q \in owners : Become(m, [Idle EXCEPT !.kind = kind, !.owner = q, !.owners = owners \ {q},
                                       !.given = given, !.at = "version"])
  BY DEF Begin
<1> DEFINE p == [Idle EXCEPT !.kind = kind, !.owner = q, !.owners = owners \ {q}, !.given = given, !.at = "version"]
<1>2. p.at = "version" /\ p.kind = kind /\ p.owner = q /\ p.given = given /\ op[m].at # "create" /\ Idle.kind = "none"
  BY DEF Idle
<1> HIDE DEF p
<1>3. There \subseteq There'
  BY <1>1, <1>2, ThereAsBefore DEF p
<1>4. \A o \in Owners : \A k \in runtime[m][o] : k \in There'
  <2>1. OpListed(m, Idle, runtime, There)
    BY DEF Listed
  <2> QED BY <1>2, <1>3, <2>1 DEF OpListed
<1>5. \A o \in Owners : \A k \in runtime'[m][o] : k \in There' \/ (p.kind = "ensure" /\ p.owner = o /\ k \in p.given)
  BY <1>2, <1>4 DEF TypeOK
<1>6. OpListed(m, p, runtime', There')
  BY <1>2, <1>5 DEF OpListed, Underway
<1>7. \A n \in Managers \ {m} : runtime'[n] = runtime[n]
  BY DEF TypeOK
<1> QED BY <1>1, <1>3, <1>6, <1>7, StepListed DEF p

LEMMA ReadListed ==
  ASSUME OneDeployment, TypeOK, Listed, faults = 0, NEW m \in Managers, ReadVersion(m) \/ ReadInventory(m)
  PROVE  Listed'
<1> DEFINE o == op[m].owner
<1>1. op[m] # Idle /\ op[m] \in Operation /\ o \in Owners /\ op[m].at \in {"version", "inventory"}
  <2>1. op[m].at \in {"version", "inventory"}
    BY DEF ReadVersion, ReadInventory
  <2>2. op[m] # Idle
    BY <2>1 DEF Idle
  <2> QED BY <2>1, <2>2 DEF TypeOK
<1>2. UNCHANGED <<exists, marker, runtime, faults>>
  BY DEF ReadVersion, ReadInventory
<1>3. MarkerListed(o, marker[o], There) /\ OpListed(m, op[m], runtime, There)
  BY <1>1 DEF Listed
<1>4. CASE ReadVersion(m)
  <2>1. PICK v : /\ Become(m, [op[m] EXCEPT !.stored = v, !.at = "inventory"])
                 /\ v \in {marker[o].version, None}
    BY <1>4 DEF ReadVersion
  <2> DEFINE p == [op[m] EXCEPT !.stored = v, !.at = "inventory"]
  <2>2. p.at = "inventory" /\ p.stored = v /\ p.owner = o /\ p.kind = op[m].kind /\ p.given = op[m].given
    BY <1>1 DEF Operation
  <2> HIDE DEF p
  <2>3. There \subseteq There'
    BY <1>1, <1>2, <2>1, ThereAsBefore DEF p
  <2>4. v \in New(o) => Catalog[m][o] \subseteq There
    BY <1>3, <2>1 DEF MarkerListed, New
  <2>5. OpListed(m, p, runtime', There')
    BY <1>2, <1>3, <2>2, <2>3, <2>4 DEF OpListed, Underway
  <2> QED BY <1>2, <2>1, <2>3, <2>5, StepListed DEF p
<1>5. CASE ReadInventory(m)
  <2>1. PICK again, given :
          /\ Become(m, [op[m] EXCEPT !.items = marker[o].items, !.recreate = again, !.given = given, !.todo = given, !.at = "item"])
          /\ given = IF op[m].kind = "ensure" THEN op[m].given ELSE Own(m, o)
    BY <1>5 DEF ReadInventory
  <2> DEFINE p == [op[m] EXCEPT !.items = marker[o].items, !.recreate = again, !.given = given, !.todo = given, !.at = "item"]
  <2>2. /\ p.at = "item" /\ p.stored = op[m].stored /\ p.owner = o /\ p.kind = op[m].kind
        /\ p.items = marker[o].items /\ p.given = given /\ p.todo = given
    BY <1>1 DEF Operation
  <2> HIDE DEF p
  <2>3. There \subseteq There'
    BY <1>1, <1>2, <2>1, ThereAsBefore DEF p
  <2>4. op[m].stored \in New(o) => Catalog[m][o] \subseteq There
    BY <1>3, <1>5 DEF OpListed, ReadInventory
  <2>5. \A k \in Items : p.items[k] \in {"runtime", "stale"} => k \in There'
    BY <1>3, <2>2, <2>3 DEF MarkerListed
  <2>6. p.kind # "ensure" => Catalog[m][o] \cup runtime'[m][o] \subseteq p.given
    BY <1>2, <2>1, <2>2 DEF Own
  <2>7. \A q \in Owners : \A k \in runtime'[m][q] : k \in There' \/ (p.kind = "ensure" /\ p.owner = q /\ k \in p.given)
    BY <1>2, <1>3, <2>1, <2>2, <2>3 DEF OpListed
  <2>8. OpListed(m, p, runtime', There')
    BY <2>2, <2>3, <2>4, <2>5, <2>6, <2>7 DEF OpListed
  <2> QED BY <1>2, <2>1, <2>3, <2>8, StepListed DEF p
<1> QED BY <1>4, <1>5

LEMMA FindListed ==
  ASSUME TypeOK, Listed, faults = 0, NEW m \in Managers, FindItem(m)
  PROVE  Listed'
<1> DEFINE o == op[m].owner
<1>1. op[m] # Idle /\ op[m] \in Operation /\ op[m].at = "item"
  <2>1. op[m].at = "item"
    BY DEF FindItem
  <2>2. op[m] # Idle
    BY <2>1 DEF Idle
  <2> QED BY <2>1, <2>2 DEF TypeOK
<1>2. UNCHANGED <<exists, marker, runtime, faults>>
  BY DEF FindItem
<1>3. OpListed(m, op[m], runtime, There)
  BY DEF Listed
<1>4. PICK k \in op[m].todo, step \in {"create", "drop", "item"} :
        /\ Become(m, [op[m] EXCEPT !.todo = @ \ {k}, !.item = k, !.at = step])
        /\ step = "item" => k \in exists
  BY DEF FindItem
<1> DEFINE p == [op[m] EXCEPT !.todo = @ \ {k}, !.item = k, !.at = step]
<1>5. /\ p.at = step /\ p.stored = op[m].stored /\ p.owner = o /\ p.kind = op[m].kind
      /\ p.todo = op[m].todo \ {k} /\ p.items = op[m].items /\ p.item = k /\ p.given = op[m].given
  BY <1>1 DEF Operation
<1> HIDE DEF p
<1>6. There \subseteq There' /\ (step = "create" => k \in There')
  BY <1>1, <1>2, <1>4, <1>5, ThereAsBefore DEF p
<1>7. step = "item" => k \in There'
  BY <1>4, <1>6 DEF There
<1>8. \A c \in p.given : c \in p.todo \/ (p.at = "drop" /\ c = p.item) \/ c \in There'
  BY <1>1, <1>3, <1>5, <1>6, <1>7 DEF OpListed, Underway
<1>9. OpListed(m, p, runtime', There')
  BY <1>1, <1>2, <1>3, <1>5, <1>6, <1>8 DEF OpListed, Underway
<1> QED BY <1>2, <1>4, <1>6, <1>9, StepListed DEF p

LEMMA MakeListed ==
  ASSUME TypeOK, Listed, faults = 0, NEW m \in Managers, DropItem(m) \/ CreateItem(m)
  PROVE  Listed'
<1>1. op[m] \in Operation /\ OpListed(m, op[m], runtime, There)
  BY DEF Listed, TypeOK
<1>2. UNCHANGED <<marker, runtime, faults>>
  BY DEF DropItem, CreateItem
<1>3. CASE DropItem(m)
  <2> DEFINE p == [op[m] EXCEPT !.at = "create"]
  <2>1. /\ p.at = "create" /\ p.stored = op[m].stored /\ p.owner = op[m].owner /\ p.kind = op[m].kind
        /\ p.todo = op[m].todo /\ p.items = op[m].items /\ p.item = op[m].item /\ p.given = op[m].given
    BY <1>1 DEF Operation
  <2>2. exists' = exists \ {op[m].item} /\ op[m].at = "drop" /\ Become(m, p)
    BY <1>3 DEF DropItem
  <2> HIDE DEF p
  <2>3. op[m].item \in There' /\ There \subseteq There'
    <3>1. op'[m] = p /\ \A n \in Managers \ {m} : op'[n] = op[n]
      BY <2>2 DEF Become, TypeOK
    <3>2. op[m].item \in There'
      BY <2>1, <3>1 DEF There
    <3> QED BY <2>2, <3>1, <3>2 DEF There
  <2>4. OpListed(m, p, runtime', There')
    BY <1>1, <1>2, <2>1, <2>2, <2>3 DEF OpListed, Underway
  <2> QED BY <1>2, <2>2, <2>3, <2>4, StepListed
<1>4. CASE CreateItem(m)
  <2> DEFINE p == [op[m] EXCEPT !.at = "item"]
  <2>1. /\ p.at = "item" /\ p.stored = op[m].stored /\ p.owner = op[m].owner /\ p.kind = op[m].kind
        /\ p.todo = op[m].todo /\ p.items = op[m].items /\ p.given = op[m].given
    BY <1>1 DEF Operation
  <2>2. exists' = exists \cup {op[m].item} /\ op[m].at = "create" /\ Become(m, p)
    BY <1>4 DEF CreateItem
  <2> HIDE DEF p
  <2>3. There \subseteq There'
    <3>1. \A n \in Managers \ {m} : op'[n] = op[n]
      BY <2>2 DEF Become, TypeOK
    <3> QED BY <2>2, <3>1 DEF There
  <2>4. OpListed(m, p, runtime', There')
    BY <1>1, <1>2, <2>1, <2>2, <2>3 DEF OpListed, Underway
  <2> QED BY <1>2, <2>2, <2>3, <2>4, StepListed
<1> QED BY <1>3, <1>4

\* What m records is there: it applied, or carries, all it lists.
LEMMA RecordListed ==
  ASSUME OneDeployment, TypeOK, Listed, faults = 0, NEW m \in Managers, Record(m)
  PROVE  Listed'
<1> DEFINE o == op[m].owner
<1>1. op[m] # Idle /\ op[m] \in Operation /\ o \in Owners /\ op[m].at = "item" /\ op[m].todo = {}
  <2>1. op[m].at = "item" /\ op[m].todo = {}
    BY DEF Record
  <2>2. op[m] # Idle
    BY <2>1 DEF Idle
  <2> QED BY <2>1, <2>2 DEF TypeOK
<1>2. UNCHANGED <<exists, runtime, faults>>
  BY DEF Record
<1>3. OpListed(m, op[m], runtime, There)
  BY DEF Listed
<1>4. \A k \in op[m].given : k \in There
  BY <1>1, <1>3 DEF OpListed, Underway
<1>5. \A q \in Owners : \A k \in runtime[m][q] : k \in There
  BY <1>3, <1>4 DEF OpListed
<1>6. \A k \in Carried(m, o, op[m].items) : k \in There
  BY <1>1, <1>3 DEF Carried, OpListed, Underway
<1>7. PICK how : /\ marker' = [marker EXCEPT ![o] = [version |-> VersionAfter(m, op[m]), items |-> how]]
                 /\ \A k \in Items : how[k] \in {"runtime", "stale"} => k \in RuntimeOnly(m, o) \cup Carried(m, o, op[m].items)
  <2> DEFINE how == [k \in Items |->
                CASE k \notin Own(m, o) \cup Carried(m, o, op[m].items) -> "none"
                  [] k \in StaleAfter(m, op[m]) -> "stale"
                  [] k \in (RuntimeOnly(m, o) \cup Carried(m, o, op[m].items)) \ StaleAfter(m, op[m]) -> "runtime"
                  [] OTHER -> "declared"]
  <2>1. marker' = [marker EXCEPT ![o] = [version |-> VersionAfter(m, op[m]), items |-> how]]
    BY DEF Record
  <2>2. StaleAfter(m, op[m]) \subseteq RuntimeOnly(m, o) \cup Carried(m, o, op[m].items)
    BY DEF StaleAfter
  <2>3. \A k \in Items : how[k] \in {"runtime", "stale"} => k \in RuntimeOnly(m, o) \cup Carried(m, o, op[m].items)
    BY <2>2
  <2> HIDE DEF how
  <2> QED BY <2>1, <2>3
<1>8. marker'[o].version = VersionAfter(m, op[m]) /\ marker'[o].items = how
      /\ \A q \in Owners \ {o} : marker'[q] = marker[q]
  BY <1>1, <1>7 DEF TypeOK
<1>9. VersionAfter(m, op[m]) \in New(o) => Catalog[m][o] \subseteq There
  <2>1. CASE op[m].kind = "ensure"
    BY <1>1, <1>3, <2>1 DEF VersionAfter, OpListed, Underway
  <2>2. CASE op[m].kind # "ensure"
    BY <1>1, <1>3, <1>4, <2>2 DEF OpListed, Underway
  <2> QED BY <2>1, <2>2
<1>10. PICK p : Become(m, p) /\ p.at \in {"none", "version"}
  <2>1. CASE op[m].owners = {}
    <3>1. Become(m, Idle) /\ Idle.at = "none"
      BY <2>1 DEF Record, Idle
    <3> QED BY <3>1
  <2>2. CASE op[m].owners # {}
    <3>1. PICK q \in op[m].owners :
            Become(m, [Idle EXCEPT !.kind = op[m].kind, !.owner = q, !.owners = op[m].owners \ {q}, !.given = {},
                         !.at = "version"])
      BY <2>2 DEF Record, Begin
    <3>2. [Idle EXCEPT !.kind = op[m].kind, !.owner = q, !.owners = op[m].owners \ {q}, !.given = {},
             !.at = "version"].at = "version"
      BY DEF Idle
    <3> QED BY <3>1, <3>2
  <2> QED BY <2>1, <2>2
<1>11. There \subseteq There'
  BY <1>1, <1>2, <1>10, ThereAsBefore
<1>12. OpListed(m, p, runtime', There')
  BY <1>2, <1>5, <1>10, <1>11 DEF OpListed, Underway
<1>13. MarkerListed(o, marker'[o], There')
  <2>1. \A n \in Managers : Catalog[n][o] = Catalog[m][o]
    BY DEF OneDeployment
  <2>2. \A k \in Items : how[k] \in {"runtime", "stale"} => k \in There'
    BY <1>1, <1>5, <1>6, <1>7, <1>11 DEF RuntimeOnly
  <2> HIDE DEF There
  <2> QED BY <1>8, <1>9, <1>11, <2>1, <2>2 DEF MarkerListed
<1> QED BY <1>2, <1>8, <1>10, <1>11, <1>12, <1>13, StepListed

LEMMA NextListed == ASSUME OneDeployment PROVE TypeOK /\ Listed /\ [Next]_vars => Listed'
<1> SUFFICES ASSUME TypeOK, Listed, [Next]_vars PROVE Listed'
  OBVIOUS
<1>1. CASE UNCHANGED vars
  BY <1>1 DEF vars, Listed, OpListed, MarkerListed, There, New, Underway
<1>2. CASE Next
  <2>1. PICK m \in Managers :
          \/ \E kind \in {"enforce", "recreateAll"} : Apply(m, kind)
          \/ \E o \in Owners : \E k \in RuntimeItems[o] : Ensure(m, o, k)
          \/ ReadVersion(m) \/ ReadInventory(m)
          \/ FindItem(m)
          \/ DropItem(m) \/ CreateItem(m)
          \/ Record(m)
          \/ Fails(m) \/ Crash(m)
    BY <1>2 DEF Next, Step
  <2>2. CASE Fails(m) \/ Crash(m)
    BY <2>2 DEF Fails, Crash, Listed
  <2>3. CASE faults # 0 /\ faults' = faults
    BY <2>3 DEF Listed
  <2>4. CASE faults = 0 /\ ~Fails(m) /\ ~Crash(m)
    <3>1. ASSUME NEW kind \in {"enforce", "recreateAll"}, Apply(m, kind) PROVE Listed'
      BY <2>4, <3>1, BeginListed DEF Apply
    <3>2. ASSUME NEW o \in Owners, NEW k \in RuntimeItems[o], Ensure(m, o, k) PROVE Listed'
      BY <2>4, <3>2, BeginListed DEF Ensure
    <3> QED BY <2>1, <2>4, <3>1, <3>2, ReadListed, FindListed, MakeListed, RecordListed
  <2>5. faults' = faults \/ Fails(m) \/ Crash(m)
    BY <2>1 DEF Apply, Ensure, ReadVersion, ReadInventory, FindItem, DropItem, CreateItem, Record
  <2> QED BY <2>2, <2>3, <2>4, <2>5
<1> QED BY <1>1, <1>2

\* When the processes run one application, a marker that names its version lists
\* nothing that is not there, once every operation ended and as long as none
\* failed, though several processes dropped and made one item at once.
THEOREM WhatIsListedIsThere == ASSUME OneDeployment PROVE Spec => []ListedIsThere
<1>1. Init => Listed /\ Declared
  BY ListedAtFirst, DeclaredAtFirst
<1>2. TypeOK /\ Listed /\ [Next]_vars => Listed'
  BY NextListed
<1>3. Declared /\ [Next]_vars => Declared'
  BY NextDeclared
<1>4. Declared /\ Listed => ListedIsThere
  <2> SUFFICES ASSUME Declared, Listed, faults = 0, \A m \in Managers : op[m] = Idle,
                      NEW o \in Owners, NEW k \in Items, marker[o].version \in New(o), marker[o].items[k] # "none"
               PROVE  k \in exists
    BY DEF ListedIsThere
  <2>1. There = exists
    BY DEF There, Idle
  <2>2. MarkerListed(o, marker[o], There)
    BY DEF Listed
  <2>3. marker[o].items[k] \in {"declared", "runtime", "stale"}
    BY DEF Declared, TypeOK, Marker, Listing
  <2>4. CASE marker[o].items[k] = "declared"
    <3>1. PICK m \in Managers : TRUE
      BY EnforcersAreManagers DEF New
    <3>2. k \in Catalog[m][o]
      BY <2>4, <3>1 DEF Declared
    <3> QED BY <2>1, <2>2, <3>1, <3>2 DEF MarkerListed
  <2>5. CASE marker[o].items[k] # "declared"
    BY <2>1, <2>2, <2>3, <2>5 DEF MarkerListed
  <2> QED BY <2>4, <2>5
<1>5. Declared => TypeOK
  BY DEF Declared
<1> QED BY <1>1, <1>2, <1>3, <1>4, <1>5, PTL DEF Spec
=============================================================================
