--------------------------- MODULE SchemaManager ---------------------------
(***************************************************************************)
(* Schema managers, each in a process of its own, that hold their owners'  *)
(* indexes and constraints on one database (src/schema/SchemaManager.ts).  *)
(* A manager applies one owner after the other: it reads the owner's       *)
(* marker, makes or recreates item by item, and writes the whole marker.   *)
(* Within a manager operations queue; between processes nothing keeps them *)
(* apart, and a process may crash at any step.                             *)
(*                                                                         *)
(* An item is its inventory key. An engine makes one IF NOT EXISTS, and    *)
(* the mode is FAIL_FAST: an item that can't be applied ends the operation.*)
(*                                                                         *)
(* A definition with With or Without in its name is a mutant: the one      *)
(* after it, with a mistake the code does not make.                        *)
(***************************************************************************)
EXTENDS Naturals

CONSTANTS
  Managers,     \* the processes
  Owners,       \* the owners, which a manager applies in the order of its catalogs
  Items,        \* the indexes and constraints
  Uniques,      \* those that are uniqueness constraints
  Catalog,      \* per manager and owner, what its startup catalogs declare
  Version,      \* per manager and owner, the version they declare, or None
  OnStartup,    \* the managers with recreateOnStartup
  Enforcers,    \* the managers that enforce; the others did before
  RuntimeItems, \* per owner, what may be ensured at runtime
  MarkersFound, \* the markers a store may hold to begin with
  MaxFaults,    \* the bound on failures and crashes in a behaviour
  None

VARIABLES
  exists,   \* the items the engine holds
  outdated, \* those it holds since before their only owner's version changed
  marker,   \* per owner, the version and the inventory recorded, Unmarked when there is none
  runtime,  \* per manager and owner, what it was given to ensure
  op,       \* per manager, the operation under way
  faults    \* how many failures and crashes there were

vars == <<exists, outdated, marker, runtime, op, faults>>

ASSUME UniquesAreItems == Uniques \subseteq Items
ASSUME CatalogsDeclareItems == Catalog \in [Managers -> [Owners -> SUBSET Items]]
ASSUME RuntimeItemsAreItems == RuntimeItems \in [Owners -> SUBSET Items]
ASSUME EnforcersAreManagers == Enforcers \subseteq Managers
ASSUME NoneIsNoName == None \notin Owners \cup Items

\* How an inventory lists an item: as declared, as ensured at runtime, as
\* waiting to be recreated (runtime-stale:), or not.
Listing == [Items -> {"none", "declared", "runtime", "stale"}]
Unlisted == [k \in Items |-> "none"]
Unmarked == [version |-> None, items |-> Unlisted]
Versions ==
  {None} \cup {Version[m][o] : m \in Managers, o \in Owners}
    \cup {found[o].version : found \in MarkersFound, o \in Owners}
Marker == [version : Versions, items : Listing]
ASSUME MarkersHoldInventories == MarkersFound \subseteq [Owners -> Marker]

\* An operation of a manager: the owner it applies and those left, the step it
\* is at, and what it read of the owner's marker.
Idle == [kind |-> "none", owner |-> None, owners |-> {}, at |-> "none", stored |-> None, items |-> Unlisted,
         recreate |-> FALSE, given |-> {}, todo |-> {}, item |-> None]
Operation ==
  [kind : {"none", "enforce", "recreateAll", "ensure"}, owner : Owners \cup {None}, owners : SUBSET Owners,
   at : {"none", "version", "inventory", "item", "drop", "create"}, stored : Versions, items : Listing,
   recreate : BOOLEAN, given : SUBSET Items, todo : SUBSET Items, item : Items \cup {None}]

-----------------------------------------------------------------------------
(* plan: what a manager declares, and what only `ensure` gave it.          *)

Own(m, o) == Catalog[m][o] \cup runtime[m][o]
RuntimeOnly(m, o) == runtime[m][o] \ Catalog[m][o]
DeclaredByOthers(m, o) == UNION {Own(m, q) : q \in Owners \ {o}}
CoOwned(m, k) == \E o, q \in Owners : o # q /\ k \in Own(m, o) \cap Own(m, q)

\* The runtime items of the inventory read that the manager was not given.
Carried(m, o, items) == {k \in Items : items[k] \in {"runtime", "stale"}} \ Own(m, o)

\* staleAfter: a runtime item known and not applied keeps its mark, and one
\* carried is marked when it missed a recreate of its owner.
StaleAfter(m, p) ==
  LET stale == {k \in Items : p.items[k] = "stale"}
      carried == Carried(m, p.owner, p.items)
  IN {k \in stale : k \in RuntimeOnly(m, p.owner) /\ k \notin p.given}
     \cup {k \in carried :
             \/ k \in stale
             \/ p.kind = "recreateAll"
             \/ p.recreate /\ k \notin DeclaredByOthers(m, p.owner)}

-----------------------------------------------------------------------------
\* The versions the managers of this deployment declare.
New(o) == {Version[m][o] : m \in Enforcers} \ {None}

Init ==
  /\ marker \in MarkersFound
  /\ exists = {k \in Items : \E o \in Owners : marker[o].items[k] # "none"}
  /\ outdated = {k \in exists : \E o \in Owners :
                  /\ marker[o].items[k] # "none" /\ marker[o].version \notin New(o)
                  /\ \A m \in Managers, q \in Owners \ {o} : k \notin Catalog[m][q]}
  /\ runtime = [m \in Managers |-> [o \in Owners |-> {}]]
  /\ op = [m \in Managers |-> Idle]
  /\ faults = 0

Become(m, changed) == op' = [op EXCEPT ![m] = changed]

Begin(m, kind, owners, given) ==
  \E o \in owners :
    Become(m, [Idle EXCEPT !.kind = kind, !.owner = o, !.owners = owners \ {o}, !.given = given, !.at = "version"])

\* enforce() and recreateAll(): every owner the manager has items for, in turn.
Apply(m, kind) ==
  /\ op[m] = Idle /\ m \in Enforcers
  /\ Begin(m, kind, {o \in Owners : Own(m, o) # {}}, {})
  /\ UNCHANGED <<exists, outdated, marker, runtime, faults>>

\* ensure(owner, item): kept as the manager's, then applied under the owner.
EnsureWithoutKeeping(m, o, k) ==
  /\ op[m] = Idle
  /\ Begin(m, "ensure", {o}, {k})
  /\ UNCHANGED <<exists, outdated, marker, runtime, faults>>
Ensure(m, o, k) ==
  /\ op[m] = Idle
  /\ runtime' = [runtime EXCEPT ![m][o] = @ \cup {k}]
  /\ Begin(m, "ensure", {o}, {k})
  /\ UNCHANGED <<exists, outdated, marker, faults>>

\* marker(): the version, which `ensure` reads only to record it as it was.
ReadVersion(m) ==
  /\ op[m].at = "version"
  /\ LET o == op[m].owner
         read == op[m].kind = "ensure" \/ Version[m][o] # None
     IN Become(m, [op[m] EXCEPT !.stored = IF read THEN marker[o].version ELSE None,
                                !.at = "inventory"])
  /\ UNCHANGED <<exists, outdated, marker, runtime, faults>>

\* marker(): the inventory. A version that changed since it was recorded, other
\* than a first one, recreates the owner's items; `ensure` leaves that.
ReadInventory(m) ==
  /\ op[m].at = "inventory"
  /\ LET o == op[m].owner
         ensuring == op[m].kind = "ensure"
         changed == op[m].stored # None /\ Version[m][o] \notin {None, op[m].stored}
         given == IF ensuring THEN op[m].given ELSE Own(m, o)
     IN Become(m, [op[m] EXCEPT
          !.items = marker[o].items,
          !.recreate = ~ensuring /\ (changed \/ m \in OnStartup),
          !.given = given, !.todo = given, !.at = "item"])
  /\ UNCHANGED <<exists, outdated, marker, runtime, faults>>

RecreatedWithoutOwners(m, k) ==
  op[m].kind = "recreateAll" \/ op[m].recreate \/ op[m].items[k] = "stale"
Recreated(m, k) ==
  LET p == op[m] IN
  \/ p.kind = "recreateAll"
  \/ (p.recreate \/ p.items[k] = "stale") /\ ~CoOwned(m, k)

\* ensureItem: the item is looked for; found, it is left or dropped first.
\* Constraints come after every index.
FindItem(m) ==
  /\ op[m].at = "item"
  /\ \E k \in op[m].todo :
       /\ k \in Uniques => op[m].todo \subseteq Uniques
       /\ Become(m, [op[m] EXCEPT !.todo = @ \ {k}, !.item = k,
                       !.at = CASE k \notin exists -> "create"
                                [] k \in exists /\ Recreated(m, k) -> "drop"
                                [] OTHER -> "item"])
  /\ UNCHANGED <<exists, outdated, marker, runtime, faults>>

DropItemWithoutCreate(m) ==
  /\ op[m].at = "drop"
  /\ exists' = exists \ {op[m].item} /\ outdated' = outdated \ {op[m].item}
  /\ Become(m, [op[m] EXCEPT !.at = "item"])
  /\ UNCHANGED <<marker, runtime, faults>>
DropItem(m) ==
  /\ op[m].at = "drop"
  /\ exists' = exists \ {op[m].item}
  /\ outdated' = outdated \ {op[m].item}
  /\ Become(m, [op[m] EXCEPT !.at = "create"])
  /\ UNCHANGED <<marker, runtime, faults>>

CreateItem(m) ==
  /\ op[m].at = "create"
  /\ exists' = exists \cup {op[m].item}
  /\ Become(m, [op[m] EXCEPT !.at = "item"])
  /\ UNCHANGED <<outdated, marker, runtime, faults>>

VersionAfterWithoutKind(m, p) == Version[m][p.owner]
VersionAfter(m, p) == IF p.kind = "ensure" THEN p.stored ELSE Version[m][p.owner]

\* Every item is applied: the marker is written whole, `ensure` keeping the
\* version it read, and the next owner's turn comes.
Record(m) ==
  /\ op[m].at = "item" /\ op[m].todo = {}
  /\ LET p == op[m]
         o == p.owner
         carried == Carried(m, o, p.items)
         marked == StaleAfter(m, p)
     IN /\ marker' = [marker EXCEPT ![o] =
             [version |-> VersionAfter(m, p),
              items |-> [k \in Items |->
                CASE k \notin Own(m, o) \cup carried -> "none"
                  [] k \in marked -> "stale"
                  [] k \in (RuntimeOnly(m, o) \cup carried) \ marked -> "runtime"
                  [] OTHER -> "declared"]]]
        /\ IF p.owners = {} THEN Become(m, Idle) ELSE Begin(m, p.kind, p.owners, {})
  /\ UNCHANGED <<exists, outdated, runtime, faults>>

\* A statement fails, or an item can't be made: the operation ends there.
Fails(m) ==
  /\ op[m] # Idle /\ faults < MaxFaults
  /\ faults' = faults + 1
  /\ Become(m, Idle)
  /\ UNCHANGED <<exists, outdated, marker, runtime>>

\* The process crashes and starts anew, with what it was given forgotten.
Crash(m) ==
  /\ op[m] # Idle \/ runtime[m] # [o \in Owners |-> {}]
  /\ faults < MaxFaults /\ faults' = faults + 1
  /\ Become(m, Idle)
  /\ runtime' = [runtime EXCEPT ![m] = [o \in Owners |-> {}]]
  /\ UNCHANGED <<exists, outdated, marker>>

Step(m) ==
  \/ ReadVersion(m) \/ ReadInventory(m) \/ FindItem(m) \/ DropItem(m) \/ CreateItem(m) \/ Record(m)

Next ==
  \E m \in Managers :
    \/ \E kind \in {"enforce", "recreateAll"} : Apply(m, kind)
    \/ \E o \in Owners : \E k \in RuntimeItems[o] : Ensure(m, o, k)
    \/ Step(m) \/ Fails(m) \/ Crash(m)

Spec == Init /\ [][Next]_vars

-----------------------------------------------------------------------------
TypeOK ==
  /\ outdated \subseteq exists /\ exists \subseteq Items
  /\ runtime \in [Managers -> [Owners -> SUBSET Items]]
  /\ marker \in [Owners -> Marker]
  /\ op \in [Managers -> Operation]
  /\ \A m \in Managers : op[m] # Idle =>
       /\ op[m].at # "none" /\ op[m].owner \in Owners
       /\ op[m].todo \subseteq op[m].given /\ op[m].given \subseteq Own(m, op[m].owner)
       /\ op[m].at \in {"drop", "create"} => op[m].item \in op[m].given

\* What the catalogs of every manager declare for two owners.
CoDeclared == {k \in Items : \E o, q \in Owners :
                 o # q /\ \A m \in Managers : k \in Catalog[m][o] \cap Catalog[m][q]}

\* The processes run one application: the same catalogs and versions, and an
\* owner ensures at runtime nothing another declares. The store was left by it,
\* or by one whose owners had versions too, as a first version is adopted.
OneDeployment ==
  /\ \A m, n \in Managers : Catalog[m] = Catalog[n] /\ Version[m] = Version[n]
  /\ \A m \in Managers, o, q \in Owners : o # q => RuntimeItems[q] \cap Catalog[m][o] = {}
  /\ \A found \in MarkersFound, o \in Owners, k \in Items :
       /\ found[o].items[k] # "none" => found[o].version # None
       /\ found[o].version \in New(o)
            => \A m \in Managers : found[o].items[k] = "declared" <=> k \in Catalog[m][o]

\* A marker that names the new version tells the truth of what is declared:
\* every item it lists so was made anew since the version changed, however the
\* processes' operations interleave and wherever they crash
\* (SchemaManager.ts:324-330, 381-387; docs/08-schema-management.md:175-176).
DeclaredIsCurrent ==
  \A o \in Owners :
    marker[o].version \in New(o)
      => \A k \in outdated : marker[o].items[k] # "declared"

\* The same of what was ensured at runtime: one that missed the owner's
\* recreate is marked, so that the next `ensure` of it recreates it
\* (docs/08-schema-management.md:162-164). It fails: each operation writes the
\* whole marker, from a version and an inventory read one after the other, so
\* overlapping ones drop a mark that another operation wrote.
RuntimeIsCurrent ==
  \A o \in Owners :
    marker[o].version \in New(o)
      => \A k \in outdated : marker[o].items[k] # "runtime"

\* When no operation is under way and none failed, every item such a marker
\* lists is there, though several processes dropped and made it at once. (One
\* of an earlier version, or none, lists the catalogs' items that an `ensure`
\* before the first `enforce` left unmade, SchemaManager.ts:352, 381-385.)
ListedIsThere ==
  faults = 0 /\ (\A m \in Managers : op[m] = Idle)
    => \A o \in Owners, k \in Items :
         /\ marker[o].version \in New(o)
         /\ marker[o].items[k] # "none"
         => k \in exists

\* An item another owner declares too outlives a change of one's version.
SharedIsSpared ==
  [][\A k \in CoDeclared : k \in exists /\ k \notin exists'
       => \E m \in Managers : op[m] # Idle /\ op[m].kind = "recreateAll"]_vars
=============================================================================
