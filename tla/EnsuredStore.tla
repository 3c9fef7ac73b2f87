---------------------------- MODULE EnsuredStore ----------------------------
(***************************************************************************)
(* The statements of object managers over a SQL store, each run once the   *)
(* store is made (manager/EnsuredStore.ts). The first one has it made, by  *)
(* a schema statement on a connection of its own (schema/SchemaExecutor),  *)
(* which whenNotContended (manager/Contention.ts) runs again when another  *)
(* session turned it away; the others wait for that. Its connection comes  *)
(* from a provider that makes the tables on its first (FirstConnection).   *)
(*                                                                         *)
(* A save's statement is run again too, by a whenNotContended around its   *)
(* wait for the store, its connect and its query.                          *)
(*                                                                         *)
(* A definition with With or Without in its name is a mutant: the one      *)
(* after it, with a mistake the code does not make.                        *)
(***************************************************************************)
EXTENDS FirstConnection

CONSTANTS
  Callers,   \* the statements
  Saves,     \* those of them that save, outside a caller's transaction
  Maker      \* the schema statement that makes the store

VARIABLES
  store,     \* EnsuredStore.made: the making kept, 0 for none
  makings,   \* how each making went: "pending", "kept" or "rejected"
  mine,      \* per caller, the making it waits for
  attempt,   \* per user, the attempt its whenNotContended is at
  first,     \* the failure that first turned the making away, None before one
  spent      \* per user, how many failures its attempts waited for: of runs
             \* of the block and, a statement's, of makings

making == <<store, makings, mine, attempt, first, spent>>
vars == <<provider, at, db, awaits, failure, faults, making>>

ASSUME MakerIsNoCaller ==
  Maker \notin Callers /\ Users = Callers \cup {Maker} /\ Saves \subseteq Callers

Init ==
  /\ FirstInit
  /\ at = [u \in Users |-> "idle"]
  /\ store = 0 /\ makings = << >>
  /\ mine = [c \in Callers |-> 0]
  /\ attempt = [u \in Users |-> 0] /\ spent = [u \in Users |-> 0]
  /\ first = None

\* No making is kept, so the next statement starts one.
NoMakingWithPending == store = 0 \/ makings[store] = "pending"
NoMaking == store = 0

\* A statement's attempt waits for the store, and is the one to have it made
\* if no other is.
Await(c, nth, failures) ==
  /\ IF NoMaking
     THEN /\ store' = Len(makings) + 1
          /\ makings' = Append(makings, "pending")
          /\ at' = [at EXCEPT ![c] = "storeWait", ![Maker] = "connect"]
          /\ attempt' = [attempt EXCEPT ![c] = nth, ![Maker] = 1]
          /\ spent' = [spent EXCEPT ![c] = failures, ![Maker] = 0]
          /\ first' = None
     ELSE /\ at' = [at EXCEPT ![c] = "storeWait"]
          /\ attempt' = [attempt EXCEPT ![c] = nth]
          /\ spent' = [spent EXCEPT ![c] = failures]
          /\ UNCHANGED <<store, makings, first>>
  /\ mine' = [mine EXCEPT ![c] = store']
  /\ UNCHANGED <<provider, db, awaits, failure, faults>>

Statement(c) == at[c] = "idle" /\ Await(c, 1, 0)

StoreReadyWithoutWait(c) ==
  /\ at[c] = "storeWait"
  /\ at' = [at EXCEPT ![c] = "connect"]
  /\ UNCHANGED <<provider, db, awaits, failure, faults, making>>
StoreReadyWithoutRejection(c) ==
  /\ at[c] = "storeWait" /\ makings[mine[c]] = "kept"
  /\ at' = [at EXCEPT ![c] = "connect"]
  /\ UNCHANGED <<provider, db, awaits, failure, faults, making>>
StoreReady(c) ==
  /\ at[c] = "storeWait"
  /\ \/ /\ makings[mine[c]] = "kept"
        /\ at' = [at EXCEPT ![c] = "connect"]
        /\ UNCHANGED spent
     \/ /\ makings[mine[c]] = "rejected"
        /\ at' = [at EXCEPT ![c] = "failed"]
        /\ spent' = [spent EXCEPT ![c] = @ + 1]
  /\ UNCHANGED <<provider, db, awaits, failure, faults, store, makings, mine, attempt, first>>

\* A user's statement runs on its connection, which is given back.
Queried(u) ==
  /\ at[u] = "using"
  /\ at' = [at EXCEPT ![u] = "idle"]
  /\ GiveBack(u, FALSE)
  /\ IF u = Maker
     THEN makings' = [makings EXCEPT ![store] = "kept"]
     ELSE UNCHANGED makings
  /\ UNCHANGED <<engine, made, runs, tries, turned, ended, awaits, failure, faults,
                 store, mine, attempt, first, spent>>

QueryFails(u) ==
  /\ at[u] = "using" /\ faults < MaxFaults
  /\ faults' = faults + 1
  /\ at' = [at EXCEPT ![u] = "failed"]
  /\ GiveBack(u, TRUE)
  /\ \E kind \in Kinds : failure' = [failure EXCEPT ![u] = Failure(kind, FALSE)]
  /\ UNCHANGED <<engine, made, runs, tries, turned, ended, awaits, making>>

\* What the making takes for contention (SchemaExecutor), and what a save
\* does (the backend's contended).
Contention(u) ==
  IF engine = "ORACLE"
  THEN IF u = Maker THEN {"deadlock", "busy"} ELSE {"deadlock"}
  ELSE IF u = Maker THEN {} ELSE {"busy"}
Contended(u) == failure[u].kind \in Contention(u)

\* whenNotContended: a failure is met by another attempt, but for one that a
\* run inside gave up, one of another kind, and the last attempt's.
RunAgainWithoutMark(u) ==
  u \in Saves \cup {Maker} /\ Contended(u) /\ attempt[u] < Attempts
RunAgain(u) ==
  /\ u \in Saves \cup {Maker}
  /\ ~failure[u].given /\ Contended(u) /\ attempt[u] < Attempts

\* A statement's failure: it is run again, its wait for the store included,
\* or thrown to who sent it.
StatementFailed(c) ==
  /\ at[c] = "failed"
  /\ IF RunAgain(c)
     THEN Await(c, attempt[c] + 1, spent[c])
     ELSE /\ at' = [at EXCEPT ![c] = "idle"]
          /\ failure' = [failure EXCEPT ![c] = Fine]
          /\ UNCHANGED <<provider, db, awaits, faults, making>>

MakerRunsAgain ==
  /\ at[Maker] = "failed" /\ RunAgain(Maker)
  /\ at' = [at EXCEPT ![Maker] = "connect"]
  /\ attempt' = [attempt EXCEPT ![Maker] = @ + 1]
  /\ first' = IF first = None THEN failure[Maker] ELSE first
  /\ UNCHANGED <<provider, db, awaits, failure, faults, store, makings, mine, spent>>

\* The making is given up: it is forgotten, and who waits for it is thrown the
\* first failure, marked.
MakerGivesUp ==
  /\ at[Maker] = "failed" /\ ~RunAgain(Maker)
  /\ at' = [at EXCEPT ![Maker] = "idle"]
  /\ makings' = [makings EXCEPT ![store] = "rejected"]
  /\ store' = 0
  /\ LET thrown == IF first = None THEN failure[Maker] ELSE first IN
     failure' = [u \in Users |->
       IF u \in Callers /\ at[u] = "storeWait" /\ mine[u] = store
       THEN Failure(thrown.kind, TRUE) ELSE failure[u]]
  /\ UNCHANGED <<provider, db, awaits, faults, mine, attempt, first, spent>>

MakerFailed == MakerRunsAgain \/ MakerGivesUp

Provided(u) ==
  /\ Provide(u)
  /\ spent' = IF at[u] = "waiting" /\ at'[u] = "failed"
               THEN [spent EXCEPT ![u] = @ + 1] ELSE spent
  /\ UNCHANGED <<store, makings, mine, attempt, first>>

Step(u) == Provided(u) \/ Queried(u) \/ QueryFails(u)

Next ==
  \/ \E c \in Callers : Statement(c) \/ StoreReady(c) \/ StatementFailed(c)
  \/ \E u \in Users : Step(u)
  \/ MakerFailed
  \/ Block /\ UNCHANGED making
  \/ End /\ UNCHANGED making

Spec == Init /\ [][Next]_vars

\* What began goes on: a connect, a statement on its connection, a wait, the
\* block, the next attempt or the throw. Nobody has to send a statement, or end.
FairSpec ==
  /\ Spec
  /\ \A u \in Users : WF_vars(Step(u))
  /\ \A c \in Callers : WF_vars(StoreReady(c)) /\ WF_vars(StatementFailed(c))
  /\ WF_vars(MakerFailed)
  /\ WF_vars(Block /\ UNCHANGED making)

-----------------------------------------------------------------------------
TypeOK ==
  /\ opened \subseteq Handles /\ Len(idle) <= PoolMax
  /\ at \in [Users -> {"idle", "storeWait", "connect", "opening", "waiting", "naming",
                   "using", "failed"}]
  /\ db \in [Users -> Handles \cup {None}]
  /\ made \in 0..Len(runs) /\ store \in 0..Len(makings)
  /\ tries \in 0..Attempts /\ attempt \in [Users -> 0..Attempts]

\* Nobody is handed a connection, and no statement of an object manager is
\* sent, before the tables are made, or known to be refused for good
\* (FirstConnection.ts:4-8, EnsuredStore.ts:14).
NobodyBeforeTheStore ==
  \A u \in Users : at[u] = "using" =>
    /\ \E i \in 1..Len(runs) : runs[i].state \in {"made", "warned"}
    /\ u \in Callers => \E i \in 1..Len(makings) : makings[i] = "kept"

Held == {idle[i] : i \in 1..Len(idle)} \cup {db[u] : u \in {v \in Users : db[v] # None}}

\* Every open connection is idle or with one user, never both and never
\* lost: one whose wait for the block failed is closed (FirstConnection.ts:59,
\* SqliteConnectionProvider.ts:89), and after end() so is every one given
\* back, until someone connects again (SqliteConnectionProvider.ts:45). As
\* many as there were failures may be lost on Oracle, whose session's id is
\* asked for outside any try (OracleConnectionProvider.ts:94).
EachConnectionOnce ==
  /\ Held \subseteq opened
  /\ engine = "SQLITE" => opened \subseteq Held
  /\ engine = "ORACLE" => Cardinality(opened \ Held) <= faults
  /\ \A i, j \in 1..Len(idle) : idle[i] = idle[j] => i = j
  /\ \A u, v \in Users : db[u] # None /\ db[u] = db[v] => u = v
  /\ \A u \in Users, i \in 1..Len(idle) : db[u] # idle[i]
  /\ ended => idle = << >>

\* Runs inside one another do not multiply their attempts: a failure that the
\* block gave up ends the making it is in, and one the making gave up ends the
\* save that waited for it, so none of the three is run again for what one
\* inside it would not (Contention.ts:107-113).
AttemptsDoNotMultiply == \A u \in Users : spent[u] <= 1

\* How a run of the block is told, and the runs waited for.
Told(run) == CASE run.state = "pending" -> "pending"
               [] run.state = "failed" -> "rejected"
               [] OTHER -> "kept"
RunsTold == [i \in 1..Len(runs) |-> Told(runs[i])]
RunAwaited == [u \in Users |-> IF at[u] = "waiting" THEN awaits[u] ELSE 0]
MakingAwaited == [c \in Callers |-> IF at[c] = "storeWait" THEN mine[c] ELSE 0]

\* The block runs once at a time, is never run again once made or refused
\* for good, and each connection is told of the run it waited for.
FirstRun == INSTANCE SharedPromise WITH
  Askers <- Users, current <- made, promises <- RunsTold, awaits <- RunAwaited
BlockIsShared == FirstRun!Spec

\* The store is made once at a time, a making that failed is forgotten by
\* then, and each statement is told of the making it waited for.
FirstMaking == INSTANCE SharedPromise WITH
  Askers <- Callers, current <- store, promises <- makings, awaits <- MakingAwaited
StoreIsShared == FirstMaking!Spec

\* A statement sent is answered, or its failure thrown: nobody waits for ever
\* for the store, for the block, or for a connection, or is run again for ever.
StatementsAnswered == \A c \in Callers : at[c] = "storeWait" ~> at[c] = "idle"
=============================================================================
