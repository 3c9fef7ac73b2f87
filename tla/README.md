# Drivine in TLA+

Drivine is a TypeScript data layer over graph and relational databases: Neo4j, Memgraph, FalkorDB, Neptune,
PostgreSQL, Oracle and SQLite. An application marks methods `@Transactional`, sends statements through a persistence
manager, and loads and saves annotated objects through a graph object manager. This directory holds TLA+ models of the
parts of it whose correctness depends on the order of steps, the TLC instances that check them, and proofs.

| module | what it models | proofs |
|---|---|---|
| `TransactionScope` | marked methods, the transaction they share, the connections of six engines; `AtomicMethods` is what they promise | `TransactionScopeProofs`, `TransactionRoots`, `TransactionEnds`, `TransactionEffects` |
| `StampedSaves` | loads and saves of the object manager, and the stamps that keep one writer from overwriting another | `StampedSavesProofs` |
| `StoreIdentity`, over `ConstraintManager` | managers that race to make a store's unique key and to stamp its identity | `StoreIdentityProofs` |
| `EnsuredStore`, over `FirstConnection` | statements that wait for a SQL store to be made, on connections whose provider makes the tables first; `SharedPromise` is what both waits promise | `EnsuredStoreProofs` |
| `SchemaManager` | processes that apply versions of a schema, and its markers | `SchemaManagerProofs` |

`MCTransactionScope`, `MCStampedSaves`, `MCStoreIdentity`, `MCEnsuredStore` and `MCSchemaManager` hold the definitions
the configurations name: engines, stores to begin with, symmetry.

Run a configuration with `tlc -config tx_two_databases.cfg MCTransactionScope`, the proofs of a module with
`tlapm TransactionScopeProofs.tla`. `PROJECT.json` lists the runs, the lines every definition stands for, the hazards,
and for each property a mutation of the code that breaks it. In the modules, a definition with `With` or `Without` in
its name is such a mutation.

## The system

| component | state | operations | how it meets the others |
|---|---|---|---|
| Transactions (`transaction/`, `context/`) | per Drivine context the transaction it holds; per transaction a call stack, options, a registry of connections and its mutex, cursors | `runInTransaction`, `pushContext`, `popContext`, `popContextWithError`, `markAsRollback`, `query`, `openCursor`, `connectionFor`, `releaseClient` | reached through the context (async local storage); opens connections from the providers |
| Persistence managers (`manager/*PersistenceManager.ts`) | none | `query`, `execute`, `openCursor` | ask the context for a transaction at each statement, else connect, run, release |
| Engine connections (`connection/*/`) | a session, a transaction begun or not, cursors | start, statement, commit, rollback, release | called by the transaction; each engine refuses in its own way |
| Cursors (`cursor/`) | open or closed | read, close | registered with the transaction, hold the connection |
| Object manager (`manager/StatelessGraphObjectManager.ts`, `model/Stamps.ts`, `backend/`) | per object loaded, the stamp it carries | `load`, `save`, `create`, `update`, `saveAll`, `patch`, `relate`, `unrelate`, `delete` | one statement each through a persistence manager; a statement turned away runs again (`manager/Contention.ts`) |
| Store identity (`store/`) | an id node, a unique key | `resolve` | used by every object manager at its first call; makes a constraint |
| Constraints, indexes, schema (`schema/`) | what the database holds; a version marker per owner | ensure, drop, await a build; apply | several processes at once over one database |
| Providers and pools (`connection/*Provider.ts`, `FirstConnection.ts`, `manager/EnsuredStore.ts`) | idle connections, one shared promise of the first-use work | `connect`, `end` | give connections to transactions |
| SQLite's Cypher functions, the Cypher parser and compilers, the SQL backends, the query language, mapper, model, code generation | none, or metadata read once | pure | render statements and read rows |

What is hard here: statements of one method sent side by side; methods that share a transaction and end in any order; an
ending of several requests one of which is refused; engines that abort, lose or silently keep a transaction; a context
that still holds something that ended; two writers of one node; a load that is not a snapshot; a statement that is
applied though its answer is lost; first callers that race to make what all share.

What makes each part correct:

- Transactions: one connection per database; a root method commits everything or nothing; nothing is visible before its
  end; a statement runs in its own method's transaction; every connection and cursor is given back; the context is left
  clean; every call ends.
- Saves: a checked save changes only what the object was loaded with; an object's stamp vouches for what the object
  holds; a refused save was not applied; a retried change is applied once.
- Store identity: managers guarded by the key read one id and keep it, a race with a peer rejects nobody, and `resolve`
  ends within its attempts.
- Constraints: one reported in force is in force; what peers made meanwhile is recognised as such.
- Providers: the first-use work runs once unless it fails, a failure reaches every caller that waited for it, the
  attempts of runs inside one another do not multiply, and each connection has one user or is idle.
- Schema: a marker that records a version tells the truth of the items it lists.

## TransactionScope

A *call* is an invocation of a marked method, a *statement* something it sends (a query, or a cursor it opens). A
`Transaction` is named by the call that made it and a connection by the statement it was opened for, so the model needs no
supply of names. `x1` is a Drivine context: a request, or a method called outside one.

| model | code |
|---|---|
| `currentTransaction` | `TransactionContextHolder.currentTransaction`, per context |
| `callStack`, `rollbackOption`, `connectionRegistry`, `connectionMutex`, `cursors` | the fields of `Transaction`; the stack by its depth, the mutex by who holds it |
| `callPc`, `frame`, `outcome`, `sent` | how far `runInTransaction` is, its locals, how it ended, and the requests of its `Promise.all` not yet answered |
| `stmtPc`, `stmt`, `on` | how far a statement is in `connectionFor` and on the connection |
| `asked` | history, which no guard reads: the roots that asked their connections to commit |
| `session`, `released`, `fate` | the database session of a connection, whether it was given back, and whether what a statement wrote is pending, durable or undone |
| `RunInTransaction`, `MarkAsRollback`, `Throw`, `PopContext`, `CloseCursors`, `Release`, `ReleaseClient` | `Transactional.ts:32-47` and `Transaction.ts:67-142`, cut at each `await` |
| `CommitAccepted/Fails`, `RollbackAccepted/Fails`, `ReleaseAccepted/Fails` | the answer of one connection to one request. A refusal settles `Promise.all` at once, and the other requests are answered later all the same |
| `Issue` | `DelegatingPersistenceManager`: the context is read when the statement is issued |
| `Acquire`, `Connected`, `ConnectFails`, `Began`, `BeginFails` | `connectionFor`; the connection is registered before BEGIN |
| `Executed`, `StatementFails`, `RunOnItsOwn`, `ReadToEnd` | a statement in a transaction, one outside, a cursor read out |
| `Break` | a connection the server or the network drops |

`CanRun`, `AfterFailure`, `CommitRefused`, `RollbackRefused` and `Ended` say what each engine does: Postgres and Neo4j
abort the transaction at a failed statement, a COMMIT of an aborted Postgres transaction is accepted and rolls back,
SQLite may roll back on its own, Oracle and SQLite keep the transaction, FalkorDB commits each statement
(`FALKORDB_WARN`) or refuses to begin (`FALKORDB_STRICT`). A dropped connection cannot roll back on Postgres and Oracle,
nor on Neo4j before its driver has noticed: a statement, a commit or a rollback that meets the drop fails and marks the
transaction failed (`Noticed`), and a rollback of such a one resolves with nothing sent. That is the driver's doing, which
is not in the repository; `Neo4jConnection.ts:58` awaits what it answers. Statements are told apart only by who sent them and where to:
no property depends on what they say.

### What the application is assumed to do

`Discipline` is what the methods keep to, and each property is checked under the least of it that makes it true.
Where the library should hold for any application, it is empty. The reasons, each found by dropping the item from
the configuration:

- *awaits*: a method ends only when what it started has settled. A statement nobody awaits may run after the commit.
- *rethrows*: a method that sees a failure throws. One that swallows a failed statement on Postgres returns from an
  aborted transaction whose COMMIT is accepted, and `ReturnMeansCommitted` fails.
- *oneAtATime*: outside every other method a context runs one marked method at a time. Two siblings in one context share
  a transaction; the first to begin ends it under the other, and `RunsInItsTransaction` and
  `SentToItsTransaction` fail.

`FALKORDB_STRICT` also fails `RunsInItsTransaction`: the refusal leaves the connection registered and the method's next
statement runs on it. With two databases there is no two-phase commit: a commit refused beside another database's that
is accepted leaves that one committed. So `AtomicPerDatabase` promises one database at a time, and `NoCommitNoEffect`
names the exception: a root that threw, was not marked for rollback and had asked its connections to commit (`asked`) may
leave writes behind, but one whole database it connected to has none of them.

### Runs

| run | instance | what it shows |
|---|---|---|
| `tx_two_databases` | Postgres and Oracle, 3 calls, 3 statements, one failing statement or commit, every discipline, the rollback option | `NoCommitNoEffect`, `ReturnMeansCommitted`, `InvisibleUntilTheEnd`, `RunsInItsTransaction`, `OneRoot`, and `AtomicPerDatabase` (the refinement of `AtomicMethods`) |
| `tx_sqlite_failures` | SQLite, 2 calls, 3 statements, cursors, the rollback option, awaits and oneAtATime, 2 failures of connect, BEGIN, statement, commit, cursor | `OneRootAtATime`, `SentToItsTransaction`, `ConnectionsReleased`, `NoDeadTransaction`, `CursorsEndWithTransaction` |
| `tx_unstructured` | Postgres, 2 calls, 2 statements, no discipline, 1 failure of connect, BEGIN, release, or a break; fairness | `TypeOK`, `OneConnectionPerDatabase`, `MutexGuardsRegistry`, `CallsEnd`, `StatementsSettle` |
| `tx_dead_transaction`, `tx_open_cursor` | the smallest instances | the findings below |

Why the bounds are enough: three calls give a root, a method it calls and a sibling or a second root after it; three
statements give two racing for one connection while a third goes to the same or another database; two failures give a
failure while another is being handled. One context is enough for what calls do to each other, as contexts share only the
databases. Calls and statements are interchangeable, which the runs without liveness use. With `Engine <- OnNeo4j` or
`OnOracle`, `tx_sqlite_failures` passes as it stands, and so do the invariants of `tx_two_databases` with one database of
either. With `OnNeo4j`, `tx_unstructured` passes too, its breaks included, and `tx_dead_transaction` finds what it finds on
Postgres.

`OneRoot` says of a whole behaviour what `OneRootAtATime` says of a moment: where a root cannot end its transaction, as in
`tx_dead_transaction`, a later call becomes its root too, so `OneRoot` is checked where no rollback is refused.
`NoCommitNoEffect` is not checked on SQLite with failing statements: where BEGIN fails, or SQLite rolls back on its own (a
full disk), a statement sent beside the failed one commits by itself. `ConnectionsReleased` is not checked on Postgres
with a failing BEGIN, nor on Postgres, Neo4j or Oracle with a break, where it fails as in `tx_dead_transaction`.

### Fairness

`FairSpec` asks weak fairness of three things: a call goes on once it may (`EndStep`; the event loop runs on, a method
ends), an engine answers each request (`AnswerStep`), and a statement that can go on does (`RunStep`; the mutex of
`async-mutex` wakes its waiters). It asks nothing of failures or of what methods choose to do. Weak fairness is enough
as what is waited for stays enabled: the one exception, a queued statement while others take the mutex in turn, ends as
the statements of a method are finitely many. A cursor's reader is not asked to read on.

## StampedSaves

| model | code |
|---|---|
| `node` | what the store holds under an id: properties, relationships, and a stamp of two tokens |
| `object` | per writer, the object it holds as loaded or as its last save left it, with its stamp |
| `stmt` | per writer, the statement under way: kind, what the caller made of the object, which properties it writes, whether it replaces relationships, whether it is given the object as loaded (`compared`), whether it was turned away before (`turned`) |
| `seen` | what was read before the rest of a load is read, or before a batch takes its locks |
| `attempt` | the attempt of `update` |
| `restamp`, `relink` | `SaveStatementBuilder`, `CypherStamps`: a token is replaced when what it speaks for changed |
| `handedBack` | `Stamps.ts`: which tokens an object is handed after its save |
| `Load`, `Update`, `LoadAgain`, `ReadRest` | `load` and `update`; on Neo4j a query reads without a snapshot, and `ReadRest` mixes what was read before and after another writer |
| `Save`, `SaveChange`, `Create`, `SaveAll` | what each call sends |
| `Applied`, `NoRow`, `StaleObject` | the statement finds the node as the stamp says and writes, or returns no row and the manager asks why |
| `TurnedAway`, `Lost` | `Contention.ts`: a statement turned away runs again, one whose connection went does not |
| `BatchReads`, `BatchWrites` | `FragmentBatchStatement`: on Neo4j a batch reads the stamps before its locks |
| `Patch`, `Relate`, `Unrelate`, `Delete` | the writes by id |

A token is a number and each statement offers a new one (the code makes a random one). A property holds a value or
none, so one field with one value already has two contents; the properties are about single fields and the data
token is one per node, so more fields only repeat what one shows, saved in part included (a save that writes
nothing of a field plays it). Related nodes are opaque targets.

| run | instance | what it shows |
|---|---|---|
| `stamps` | 2 writers, Neo4j and Memgraph, 3 stamps offered, 1 lost answer, `update` twice, replacing saves and batches | `TypeOK`, `StampSpeaksTrue`, `RefusedIsNotApplied`, `NoLostUpdate`, `ReplaceKeepsOthers`, `StaleUntilLoaded` |
| `stamps_torn_list`, `stamps_applied_twice` | the smallest instances | the findings below (`UpdateKeepsOthers`, `UpdateAppliesOnce`) |

`MaxStatements` counts the stamps offered, the nodes' first one included, so three leave two writing statements: one
change by each of two writers, or by one writer and a patch, which is what a lost update needs. A lost answer and the
attempts are bounded at one and two, as the code handles each the same way however many there were. How often a
turned-away statement runs is not counted, only that it was. What the run shows for these bounds, the proofs show for
every number of writers, nodes, statements, attempts and lost answers.

Three conditions say where the code promises nothing, and are visible in the properties or in `Uses`:

- *snapshot*: on Neo4j an object may hold an old property with a new token, so `StampSpeaksTrue` is stated for the
  others, and `NoLostUpdate` there for saves that are given what was loaded, which is why the code compares it.
- *batches on Neo4j*: a batch reads stamps before its locks, so a fragment changed in between is handed the batch's stamp.
  `StaleUntilLoaded` fails there, though `docs/05-object-manager.md:795` says of a batch that a stale object stays so.
- *partFirst*: an object that carries no stamp and is saved in part over an existing node is handed the data token, which
  speaks for properties it never had; its next save can overwrite them, and `NoLostUpdate` fails. The passing runs leave
  that use out.

## StoreIdentity and ConstraintManager

Managers are object managers in processes of their own, over one store. `storeIdentity()` first makes the unique key of
the stamp's node, which is a call of `ConstraintManager`, then merges its stamp and reads the oldest one.

| model | code |
|---|---|
| `constraint`, `range`, `held` | what the store holds: the constraint (`none`, `building`, `built`, `failed`), the range index over its key, the stamps |
| `at`, `outcome` | per manager, the statement its call is at, and what the last call returned or threw |
| `mgr` | per manager the counters of `store/StoreIdentity.ts:30-36`, whether its merge is guarded by the key, and how many stamps it minted |
| `identity`, `data` | the id a manager resolved and which data it looked at; `data` counts the deletions of the store |
| `Find`, `Drop`, `Sample`, `FindRange`, `MakeRange`, `CreateOnNeo4j`, `CreateOnFalkorDb`, `ReplaceIndex`, `Await`, `Conflicts` | `ConstraintManager.ensure`, statement by statement |
| `Look`, `NotBuilt` | `inForce`, and `awaitBuild` running out of readings |
| `BuildEnds`, `StatementFails` | the engine ends a build; a statement fails with nothing done |
| `Resolve`, `Ensured`, `MadeMeanwhile`, `MakingFailed`, `Looked` | `storeIdentity`, `ensureUniqueKey`, `ensuredAgainWhenMadeMeanwhile`, `winnersInForce` |
| `Merge`, `Write`, `MergeAgain`, `Read`, `StampFails` | `assignIfAbsent`, `lostTheRace`, `resolve` |
| `Wipe`, `RemoveDuplicates` | someone deletes the data, or the younger of two stamps |

A MERGE looks and then writes, in two steps, as no engine is assumed to do both at once without the constraint. The age of
a stamp is its writer's clock, so stamps are ordered by their writer's number and not by when they were written.
`awaitBuild`'s fifty readings are not counted: a caller waits for the constraint to change or runs out of readings.
A drop that is refused, or fails on its own, is read against the listing: its own failure is thrown if a failed build is
listed still (`StillFailed`), so that one turned away makes `ensureUniqueKey` look and ensure once more.

| run | instance | what it shows |
|---|---|---|
| `store_identity` | 2 managers, Neo4j and FalkorDB, a store with no or two earlier stamps, with no constraint, one built, or (FalkorDB) one whose build failed, 2 failures of 4 kinds, such a build counted, 1 deletion, 3 and 3 attempts and 5 merges as in the code, 2 looks for its 8; fairness | `TypeOK`, `GuardedAgree`, `GuardedIsFinal`, `UnhinderedIsGuarded`, `PeersRejectNobody`, `FailedBuildIsNotLeft`, `IdentitySettles` |

Two managers meet in every pair of steps, and two failures let one follow another. A call of one manager affects another
only through the store, so a third adds no new kind of step; on Neo4j the proofs cover any number. Over a store
whose constraint's build failed before, FalkorDB breaks `GuardedAgree` and `GuardedIsFinal`, as disagreement b below says:
both are stated for behaviours that begin without one (`BeginsSound`). There too one manager drops the constraint that
another is awaiting: that call still settles, its readings run out (`NotBuilt`), and where nothing but that first build
failed, it is not left listed once a manager has its identity.
Fairness: a call under way goes on, and the engine ends the builds it began. Nobody has to call, to fail, or to touch
the stamps.

## EnsuredStore, FirstConnection and SharedPromise

A statement of an object manager over a SQL store waits until the store is made; the first has it made, by a schema
statement whose connection comes from the same provider as everyone's. The provider's first connection runs the block that
makes the graph's tables, which connections asked for meanwhile wait for. Each of the three may be run again when another
session turns it away: the block by the provider, the making by `SchemaExecutor`, and the statement, its wait for the store
included, by the object manager if it saves outside a caller's transaction (`Saves`).

| model | code |
|---|---|
| `made`, `runs`, `tries`, `turned` | `FirstConnection.made` and how each run of the block went; how often the block of the run under way was tried, and whether it was turned away |
| `idle`, `opened`, `ended` | `SqliteConnectionProvider`'s idle connections, every connection open, whether the provider ended |
| `at`, `db`, `awaits`, `failure` | per user, what it does, its connection, the run it waits for, how it failed |
| `store`, `makings`, `mine`, `attempt`, `first`, `spent` | `EnsuredStore.made` and each making; who waits for which; the attempt `whenNotContended` is at, of the making and of each save; the failure that first turned the making away. `spent`, which no guard reads, counts the runs inside it whose failure a user's attempts met |
| `Connect`, `Opened`, `OpenFails`, `Ensured`, `BlockEnds`, `BlockTurnedAway`, `BlockFails`, `TurnedAway`, `Woken`, `Named`, `NamingFails`, `GiveBack`, `End` | the provider's `connect`, `open`, `connection` and `end`, `FirstConnection.ensured`, and the block's ends |
| `Statement`, `Await`, `StoreReady` | `ensuredFirst` and `EnsuredStore.ensureStore` |
| `Queried`, `QueryFails`, `Contention` | a statement on its connection; which failures the making and a save take for contention |
| `StatementFailed`, `MakerRunsAgain`, `MakerGivesUp` | `Contention.whenNotContended` around a save and around the making: another attempt, or the failure thrown |

A failure carries whether a run of `whenNotContended` inside already gave it up, which is what `Contention.givenUp` marks.
Its kind is what the engines tell apart (`Kinds`): on SQLite the file's lock, which a save runs again and the making does
not; on Oracle a deadlock over rows (ORA-00060), which both do, and a busy object (ORA-00054), which the making alone does.
Left out are ORA-04020, which the making takes for a deadlock and a save does not, and ORA-08177, the other way round.
Postgres connects as Oracle does, with fewer failures run again, so `ORACLE` stands for both. `SharedPromise` is the
abstract specification of a promise kept for everyone who asks; the provider's block and the store's making each refine
it (`BlockIsShared`, `StoreIsShared`).

| run | instance | what it shows |
|---|---|---|
| `first_connection` | a save, a load and the maker, SQLite and Oracle, 3 failures, 2 attempts, a pool of 1, 6 connections; fairness | `TypeOK`, `NobodyBeforeTheStore`, `EachConnectionOnce`, `AttemptsDoNotMultiply`, `BlockIsShared`, `StoreIsShared`, `StatementsAnswered` |

Three failures let a making fail twice and be tried after that; a pool of one is full with one idle connection. Six
connections are three in use and three that failures lost: with four, `StatementsAnswered` fails on Oracle, as each
failed query for a session's id leaks a connection (finding d below). Fairness: a connect, a statement on its connection,
a wait, the block and the next attempt go on. Nobody has to send a statement, or end.

## SchemaManager

| model | code |
|---|---|
| `exists`, `outdated` | the items the engine holds, and those it holds since before their only owner's version changed |
| `marker` | per owner, the version and inventory recorded; an inventory lists an item as declared, as ensured at runtime, or as waiting to be recreated (`runtime-stale:`) |
| `runtime` | per process and owner, what `ensure` was given |
| `op` | per process, the operation under way: the owner it applies and those left, what it read, what it has to do |
| `Apply`, `Ensure` | `enforce`, `recreateAll` and `ensure`, which queue within a process |
| `ReadVersion`, `ReadInventory` | `marker()`, two statements |
| `FindItem`, `DropItem`, `CreateItem` | `ensureItem`: found or not, dropped to be recreated, made |
| `Record` | the marker, written whole |
| `Fails`, `Crash` | an item that can't be applied (FAIL_FAST); a process that starts anew |

| run | instance | what it shows |
|---|---|---|
| `schema` | 2 processes, 2 owners, an index, a constraint both owners declare, a runtime item, a store new or left by the version before, 1 failure or crash | `TypeOK`, `DeclaredIsCurrent`, `ListedIsThere`, `SharedIsSpared` |
| `schema_missed_recreate` | the same, nothing failing | the finding below (`RuntimeIsCurrent`) |

Two owners give one item of one owner and one of both, the cases `recreate` tells apart; two processes overlap in every
step. Deadlock is not checked, as every process may have nothing to do. `OneDeployment` says that the processes run one
application, and what it says of the store excludes two things the code does (finding c): `DeclaredIsCurrent` and
`ListedIsThere` are promised under it alone.

## Findings

Each is a run of its own, in which TLC finds the violation:

1. `tx_dead_transaction`: when a rollback rejects (a broken connection of Postgres or Oracle, or one of Neo4j whose driver
   has not noticed yet), nothing is released and the context keeps the ended transaction, which the next method joins
   (`Transaction.ts:99`). The run is on Postgres.
2. `tx_open_cursor`: a method that throws with a Postgres cursor open never ends: the ROLLBACK is queued behind the
   cursor, and only the successful path closes cursors (`Transaction.ts:99`).
3. `stamps_torn_list`: on Neo4j a save that replaces a relationship list can remove one added while the object was
   being loaded: properties are compared with what was loaded, lists are not (`SaveStatementBuilder.ts:252`).
4. `stamps_applied_twice`: a save turned away, run again, applied, and its answer lost is reported as turned away, so
   `update` applies its change a second time (`Contention.ts:126`).
5. `schema_missed_recreate`: an `ensure` that reads a marker before another process's `enforce` writes it, and writes
   after, drops the `runtime-stale:` mark, so the item that missed its recreate is never recreated
   (`SchemaManager.ts:382`).

Other disagreements met on the way, which no run is kept for; the models have the behaviour, and the properties or their
instances say where they stop:

- a. SQLite: when BEGIN gives up on the file's lock, the connection stays registered, and a statement sent beside the first
  commits on its own though the method throws (`Transaction.ts:128`; `docs/06-persistence-manager.md:30`).
- b. FalkorDB: `dropFailedBuild` names the constraint, whatever its state by then, so it may drop one that another process
  made again (`ConstraintManager.ts:220`, and the comment before it). An identity resolved under the key is then not
  final: a stamp merged later can win.
- c. `ensure` before the first `enforce` records the catalogs' items as applied though none was made
  (`SchemaManager.ts:352, 381-385`); a first version is adopted without a recreate; and an `ensure` that overlaps an
  `enforce` writes the old version back, so that the items are recreated once more.
- d. Oracle and Postgres ask for the session's id outside any `try`: when that fails, the connection taken from the pool is
  never given back (`OracleConnectionProvider.ts:94`, `PostgresConnectionProvider.ts:54`).

## Proofs

Every theorem is proved for all values of the constants, from the assumptions their modules name (`None` is not a name,
bounds are natural numbers, and the like) and the conditions listed here.

### TransactionScope

`TransactionScopeProofs` needs nothing of the application, the engines or the failures:

- `TypeCorrect`: `Spec => []TypeOK`. Beside the types it carries that a call that began has a frame, that only it awaits
  answers, and that a statement's record fits its place: without these, popping the stack or running on a connection
  could leave the types.
- `GuardsHold` and `OneConnection`: `Spec => []MutexGuardsRegistry` and `Spec => []OneConnectionPerDatabase`.

The argument of the last two. `OneConnectionPerDatabase` alone is not inductive: nothing in it says that a statement about
to connect finds the registry empty. `MutexHeld` says that who connects or begins holds the transaction's mutex and, while
it connects, that the database has no connection yet. `OpenedOnTheWay` says where a statement is when its connection
exists; `OpenedIsRegistered`, that what was opened stays registered; so two connections of one transaction and database are
both the registered one, hence one. `RegisteredIsOpened` and `OpenedIsAsked` are there because an answer changes the session
of the connection it names: only one that was opened is ever named. The steps fall in three groups (calls, answers,
statements), each with a lemma; `Connected`, the step that registers, has one of its own.

`TransactionRoots` assumes `Structured`, that methods await what they start and a context runs one at a time outside the
others, and nothing of the engines or the failures:

- `OneRootEndsIt`: `Spec => []OneRootAtATime`.
- `StatementsFindTheirTransaction`: `Spec => []SentToItsTransaction`.

Both follow from `Tree`. The calls under way in a context form a tree: one was called by no other (`OneOnTop`), and every
other one by a call that still runs (`CallerRuns`). The call stack is the number of those that run (`Counted`, by
cardinalities), so a call made by a running one never finds it empty, and only the one on top can be root (`RootsOnTop`). A
call that ends its transaction is alone in its context (lemma `Alone`: of the others, the one least in a ranking in which
callers come first would have been called by the one that ends, which awaited it), so its failures pop a stack that is
already empty, and clearing the context takes the transaction from nobody.

`TransactionEnds` is about a root that can end its transaction. Beside `Structured` it assumes `NothingRefused`: no connection
breaks under Postgres, Neo4j or Oracle, no release fails under Neo4j or Oracle, no BEGIN fails on Postgres, and Neo4j, which refuses
to roll back what was committed, is the transaction's only database. Each part is needed: a refusal makes `runInTransaction`
reject before it releases anything, and what is left is the first finding. Statements, commits, connects and cursors may fail
on every engine, and BEGIN on SQLite. `tx_two_databases` and `tx_sqlite_failures` are instances of it.

- `OneRootEver`, `NoneDead`, `AllGivenBack`, `CursorsEnd`: `Spec => []P` for `OneRoot`, `NoDeadTransaction`,
  `ConnectionsReleased` and `CursorsEndWithTransaction`.

The invariant is `InHand`. `AtWork` says of statements that one under way has a method that runs, and that it is on the
connection registered for it. `Rooted` says that a transaction that was begun has a root, one in all, and that no context
keeps a transaction whose root has ended. `RootsEnd` follows each root through its end: what it has asked and not been
answered (`AsksItsOwn`), what it has given back (`GivesBack`), that it ends a session once (`EndsOnce`), and which cursors may
still be open (`ClosesCursors`). Three facts carry the steps: a root past its method has nothing of its transaction under way
(`RootWaits`, from the tree of calls), so its connections are all there will be; two roots have no connection in common
(`RootsApart`); and no request is refused but a commit (`NobodyRefuses`).

`TransactionEffects` is about what is left in the databases. It assumes `AlwaysBegun` too: no database is FalkorDB, which has
no transactions, and on SQLite neither BEGIN nor a statement fails, as the other statements of the method would then commit
each by itself (disagreement a). `ReturnedIsCommitted` also assumes `PostgresRethrows`, as Postgres answers the COMMIT of an
aborted transaction as if it had been one. `tx_two_databases` is an instance of all of it.

- `AllRunInside`, `NothingShowsEarly`, `NothingLeftBehind`, `ReturnedIsCommitted`: `Spec => []P` for `RunsInItsTransaction`,
  `InvisibleUntilTheEnd`, `NoCommitNoEffect` and `ReturnMeansCommitted`.
- `TransactionsAreAtomic`: `Spec => AtomicPerDatabase`, the refinement of `AtomicMethods`.

The invariant is `Effects`, in three parts. `Written`: the writes on a connection share one fate (`OneFate`), and its session
tells which (`ToldBySession`): pending while the transaction is open, durable only once it has ended; and a session aborted on
Postgres has a failed statement (`AbortedByFailure`). `Told`: where methods rethrow, a failure was heard by a method that
still runs or has thrown, so, callers coming before the calls they make, by a root that is past its last line
(`NoFailureBelow`). `RootsDecide`: a root marked for rollback has no commit asked or done (`KeepsItsMark`), nothing is durable of a root that
did not ask for commits (`OnlyAsked`), one that threw has
left a connection of its transaction uncommitted (`StopsShort`), and one that ends otherwise has committed what was written or
is still to be answered (`CommitsAll`). The refinement adds that a statement writes once, as it succeeds (`WritesOnce`);
`FatesMove` then sorts the steps in three, and maps them to `Run`, to `Commit` (or nothing, when nothing was written), and to a
stutter.

### StampedSaves

`TypeCorrect` and `RefusedChangesNothing` hold as they stand. The others assume that no object without a stamp is saved in
part (`"partFirst" \notin Uses`): `StampsSpeakTrue`, `NoUpdateIsLost`, `ReplacingKeepsOthers`, `StaleStaysStale`.

The argument: a statement under way offers a token that is nowhere else (`Fresh`), so a token shared by an object and a node
got there by one write or one read, and vouches for what it spoke for then (`Truth`: every stamp, on a node, in a writer's
hand or in what it read, speaks of one content). A checked save finds its object's token on the node under the node's lock,
hence overwrites only what its object holds. A stale object is handed back the token it had (`handedBack`), as the node
found under the lock had another.

### StoreIdentity

`TypeCorrect` holds on both engines. `RacesRejectNobody` does too, when merges outnumber deletions and failures together by
more than one: a refusal by a peer's stamp means there is a stamp, so the next merge finds one unless the data was deleted
in between or its statement fails on its own (`FewMerges` counts this).

`GuardedManagersAgree`, `GuardedIdentityIsFinal` and `UnhinderedManagersAreGuarded` assume `Engines = {"NEO4J"}`, the last
one at least two attempts to make the key. There a constraint is never half made (`OnNeo4j`): once a manager is guarded the
key is in force for as long as the data is looked at, so the store has one stamp and no later merge writes another. A
manager that nothing fails for is refused at most once for what a peer made meanwhile, since what was made stays
(`OutOfTheWay`). FalkorDB, where a build may fail behind a manager's back, is model-checked only.

### EnsuredStore

For any callers, saves, connections, attempts and failures, on both engines: `TypeCorrect`, `NobodyIsEarly`, `AttemptsStayFew`,
`ConnectionsAreSound`, and the refinements `TheStoreIsShared` and `TheBlockIsShared`.

`Shape` says which making and which run each user may be waiting for; with it every step is mapped to a step of
`SharedPromise` or to none. `Served` adds that nobody is past the wait before a run went well. `SpentOnce` follows the
mark of what was given up from the run to the making and from there to the save: on Oracle every run of the block that
failed is marked, and so is whatever a rejected making tells who waits for it; a user that has spent an attempt on such a
failure has one it will not run again, until it is thrown (`NotAgain`). On SQLite the block gives nothing up, and the making
takes none of its failures for contention. `Kept` is why a save meets the block's failure through the making alone: once
some making was kept, a run of the block went well and is kept too. `Sound` says that a connection is idle or with one user, and `FewLost`
that each one lost on Oracle stands for a failure.

### SchemaManager

`TypeCorrect` and `SharedItemsAreSpared` need nothing of the catalogs. `DeclaredStaysCurrent` and `WhatIsListedIsThere`
assume `OneDeployment`, which `MCSchemaManager` assumes too, so that TLC evaluates it on the instance.

`Declared` says that an operation which will record the new version, with what it read of the old, has recreated or is
still to recreate every outdated item it declares; so when the marker names the new version none is left. `Listed` says
that, while nothing failed, an item that a marker or an operation's reading lists is there or is being made by somebody.

### What is model-checked only

Liveness (`CallsEnd`, `StatementsSettle`, `IdentitySettles`, `StatementsAnswered`), as fairness and `ENABLED` are beyond the
prover; the FalkorDB case of what StoreIdentity's managers agree on, and `FailedBuildIsNotLeft`. Of TransactionScope, whatever a passing run checks
but liveness is a theorem that covers the instance.

## Not modelled

- The Cypher parser and its compilers to SQL, the SQLite functions, the mapper, the query language, code generation and the
  specification builders: pure functions over data, where agreement is a matter of tests over values. They are most of the
  repository's lines (the parser is generated), which is why the models stand for a small share of it.
- The SQL backends' statements. At a root the write function follows the rules of `StampedSaves` where a read takes a
  snapshot: the node is found and compared under its lock, a stale one gives no row, and the tokens offered and handed back
  are the same. Its related nodes, and the deletion of unreferenced ones under row locks, are left out.
- Related nodes' own properties and stamps, cascades, views in a batch, batches of several statements, and saves inside
  a caller's transaction.
- Options set on a context with `withTransaction`; they are taken as the call's own.
- Schema: several databases, merged catalogs and their conflicts, drift, the WARN mode, renamed items, and the pruning of
  duplicate markers (one marker per owner). Constraints: lowercased copies, vector and full-text indexes.
- The connection registry and builder, and the providers that hand out a driver's session (Neo4j, FalkorDB, Neptune).
- Nest wiring, logging and testing utilities keep no state of interest.
- The databases and drivers themselves, but for what the code relies on (queueing behind a Postgres cursor, an aborted
  transaction, a lock, a lost answer, a build in the background).

`PROJECT.json` has the reason for each component and lists the hazards no property covers yet.

## What is left

In order of how much depends on them:

1. Related nodes with stamps of their own in `StampedSaves`, then batches of several statements (in a transaction, or one by
   one on FalkorDB) and two objects of one id in a batch.
2. The SQL write function as a module of its own: row locks, related nodes, deletion of the unreferenced.
3. The options of a context, and the drivers' clients under the providers.
4. Proofs beyond `NothingRefused` and `AlwaysBegun`: what is still promised of a transaction over Neo4j and another database,
   and of one on SQLite whose BEGIN fails; and the managers of a FalkorDB store.
