-------------------------- MODULE TransactionScope --------------------------
(***************************************************************************)
(* @Transactional methods, and the Transaction they share.                 *)
(*                                                                         *)
(* A call of a marked method (runInTransaction) joins the transaction its  *)
(* Drivine context holds, or makes one.  Statements reach the transaction  *)
(* through the delegating persistence manager, which looks at the context  *)
(* when the statement is issued; the transaction opens one connection per  *)
(* database, under a mutex, and begins a database transaction on it.  The  *)
(* call that found the call stack empty is the root: as it ends it closes  *)
(* the cursors, commits or rolls back every connection, releases them, and *)
(* takes the transaction out of the context.                               *)
(*                                                                         *)
(* A Transaction is named by the call that made it, a connection by the    *)
(* statement it was opened for.  Every await of the code is a boundary     *)
(* between two actions, so calls and statements interleave as they do on   *)
(* Node's event loop.                                                      *)
(***************************************************************************)
EXTENDS Naturals, FiniteSets

CONSTANTS
  Calls,       \* invocations of @Transactional methods
  Statements,  \* statements the methods send, cursors they open included
  Contexts,    \* Drivine contexts: one per request, or per method called outside one
  Databases,
  Engine,      \* the engine of each database, and FalkorDB's TransactionMode
  None,
  Discipline,  \* what the application's methods keep to, see Disciplines
  Uses,        \* what they make use of, see Features
  Faults,      \* what may fail in this instance, see FaultKinds
  MaxFaults    \* how many failures one behaviour holds

Engines == {"POSTGRES", "NEO4J", "ORACLE", "SQLITE", "FALKORDB_WARN", "FALKORDB_STRICT"}
FaultKinds == {"connect", "begin", "statement", "commit", "break", "cursor", "release"}

\* awaits: a method ends only once the statements and the methods it started have settled.
\* rethrows: a method that sees one of them fail throws.
\* oneAtATime: outside every other method, a context runs one marked method at a time.
Disciplines == {"awaits", "rethrows", "oneAtATime"}
Features == {"cursors", "rollback"}

ASSUME ConstantsAssumption ==
  /\ Engine \in [Databases -> Engines]
  /\ None \notin Calls \cup Statements \cup Contexts
  /\ Discipline \subseteq Disciplines /\ Uses \subseteq Features
  /\ Faults \subseteq FaultKinds /\ MaxFaults \in Nat

VARIABLES
  currentTransaction,  \* per context: the transaction it holds
  callStack,           \* per transaction: the depth of its call stack
  rollbackOption,      \* per transaction: options.rollback
  connectionRegistry,  \* per transaction and database: the connection registered
  connectionMutex,     \* per transaction: the statement in connectionFor
  cursors,             \* per transaction: the cursors opened in it
  callPc, frame, outcome,   \* per call: where it is, what runInTransaction found, how it ended
  sent,                     \* per call: what its end asked of connections, not yet answered
  asked,                    \* the roots that asked their connections to commit: history, no guard reads it
  stmtPc, stmt, on,         \* per statement: where it is, what was issued, its connection
  fate,                     \* per statement: what became of what it wrote
  session, released,        \* per connection: its database session, and whether given back
  faults

ctxVars  == <<currentTransaction, callStack, rollbackOption>>
connVars == <<connectionRegistry, connectionMutex>>
callVars == <<callPc, frame, outcome, sent, asked>>
stmtVars == <<stmtPc, stmt, on, cursors>>
dataVars == <<fate, session, released>>
vars == <<ctxVars, connVars, callVars, stmtVars, dataVars, faults>>

CallPcs == {"idle", "running", "closing", "committing", "rollingBack", "releasing", "done"}
StmtPcs == {"unused", "queued", "connecting", "starting", "running", "open", "ok", "failed"}
Settled == {"open", "ok", "failed"}
Sessions == {"none", "fresh", "open", "aborted", "lost", "broken", "ended"}
Fates == {"none", "pending", "durable", "undone"}
Requests == {"commit", "rollback", "release"} \X Statements

Frame == [context : Contexts, transaction : Calls, caller : Calls \cup {None}, isRoot : BOOLEAN]
Issued == [caller : Calls, transaction : Calls \cup {None}, database : Databases, cursor : BOOLEAN]

StatementOK(s) ==
  /\ stmtPc[s] # "unused" => stmt[s] \in Issued
  /\ stmtPc[s] = "queued" => stmt[s].transaction \in Calls
  /\ stmtPc[s] = "running" => on[s] \in Statements

TypeOK ==
  /\ currentTransaction \in [Contexts -> Calls \cup {None}]
  /\ callStack \in [Calls -> Nat]
  /\ rollbackOption \in [Calls -> BOOLEAN]
  /\ connectionRegistry \in [Calls -> [Databases -> Statements \cup {None}]]
  /\ connectionMutex \in [Calls -> Statements \cup {None}]
  /\ cursors \in [Calls -> SUBSET Statements]
  /\ callPc \in [Calls -> CallPcs]
  /\ frame \in [Calls -> Frame \cup {None}]
  /\ outcome \in [Calls -> {"none", "returned", "threw"}]
  /\ sent \in [Calls -> SUBSET Requests]
  /\ asked \subseteq Calls
  /\ stmtPc \in [Statements -> StmtPcs]
  /\ stmt \in [Statements -> Issued \cup {None}]
  /\ on \in [Statements -> Statements \cup {None}]
  /\ fate \in [Statements -> Fates]
  /\ session \in [Statements -> Sessions]
  /\ released \subseteq Statements
  /\ faults \in 0..MaxFaults
  /\ \A c \in Calls : IF callPc[c] = "idle" THEN sent[c] = {} ELSE frame[c] \in Frame
  /\ \A s \in Statements : StatementOK(s)

Init ==
  /\ currentTransaction = [x \in Contexts |-> None]
  /\ callStack = [t \in Calls |-> 0]
  /\ rollbackOption = [t \in Calls |-> FALSE]
  /\ connectionRegistry = [t \in Calls |-> [d \in Databases |-> None]]
  /\ connectionMutex = [t \in Calls |-> None]
  /\ cursors = [t \in Calls |-> {}]
  /\ callPc = [c \in Calls |-> "idle"]
  /\ frame = [c \in Calls |-> None]
  /\ outcome = [c \in Calls |-> "none"]
  /\ sent = [c \in Calls |-> {}]
  /\ asked = {}
  /\ stmtPc = [s \in Statements |-> "unused"]
  /\ stmt = [s \in Statements |-> None]
  /\ on = [s \in Statements |-> None]
  /\ fate = [s \in Statements |-> "none"]
  /\ session = [s \in Statements |-> "none"]
  /\ released = {}
  /\ faults = 0

-----------------------------------------------------------------------------
(* Reading the state.  A definition named With... or ...Without... is a    *)
(* mutant: the one after it, with a mistake the code does not make.        *)

EngineOf(k) == Engine[stmt[k].database]
WithBegunOnly(t) == {k \in {connectionRegistry[t][d] : d \in Databases} \ {None} : session[k] # "fresh"}
ConnectionsOf(t) == {connectionRegistry[t][d] : d \in Databases} \ {None}
Active(c) == callPc[c] \notin {"idle", "done"}

\* A failure of kind f, where the instance allows one more.
Fault(f) == f \in Faults /\ faults < MaxFaults /\ faults' = faults + 1

\* node-postgres runs nothing more on a connection while a cursor over it is open.
Blocked(k) == /\ EngineOf(k) = "POSTGRES"
              /\ \E s \in Statements : stmtPc[s] = "open" /\ on[s] = k

\* The writes pending on connection k become f.
Resolve(k, f) ==
  fate' = [s \in Statements |-> IF on[s] = k /\ fate[s] = "pending" THEN f ELSE fate[s]]

-----------------------------------------------------------------------------
(* What each engine's connection does with a request, by its session.      *)
(*   fresh    connected, no transaction begun: each statement commits      *)
(*   open     in the transaction begun                                     *)
(*   aborted  in a transaction the engine takes no more statements of      *)
(*   lost     SQLite rolled the transaction back on its own                *)
(*   broken   the connection is gone; ended: committed or rolled back      *)

AutoCommits(e) == e \in {"FALKORDB_WARN", "FALKORDB_STRICT"}
StartsAtOnce(e) == e \in {"NEO4J", "ORACLE", "FALKORDB_WARN"}

CanRun(k) ==
  /\ session[k] \notin {"aborted", "broken"}
  /\ EngineOf(k) = "NEO4J" => session[k] # "ended" /\ k \notin released
  /\ EngineOf(k) = "ORACLE" => k \notin released

\* Neo4j's driver learns that the connection is gone from a statement, a commit or a rollback that meets it, and marks
\* the transaction failed: from then on its rollback resolves.
Noticed(k) == IF EngineOf(k) = "NEO4J" /\ session[k] = "broken" THEN "aborted" ELSE session[k]

\* A failing statement ends the transaction on Postgres and Neo4j; SQLite may roll it back (a full disk).
AfterFailure(k) ==
  IF session[k] # "open" THEN {Noticed(k)}
  ELSE CASE EngineOf(k) \in {"POSTGRES", "NEO4J"} -> {"aborted"}
         [] EngineOf(k) = "SQLITE" -> {"open", "lost"}
         [] OTHER -> {"open"}

CommitRefused(k) ==
  \/ session[k] = "broken"
  \/ EngineOf(k) \in {"NEO4J", "SQLITE"} /\ session[k] # "open"
  \/ EngineOf(k) = "ORACLE" /\ k \in released

RollbackRefusedWithoutCatch(k) == EngineOf(k) = "SQLITE" /\ session[k] # "open"
RollbackRefused(k) ==
  \/ EngineOf(k) \in {"POSTGRES", "NEO4J", "ORACLE"} /\ session[k] = "broken"
  \/ EngineOf(k) = "NEO4J" /\ session[k] = "ended"
  \/ EngineOf(k) = "ORACLE" /\ k \in released

Ended(k) == IF AutoCommits(EngineOf(k)) THEN session[k] ELSE "ended"

-----------------------------------------------------------------------------
(* runInTransaction. *)

WithEveryCallRoot(t) == TRUE
IsRoot(t) == callStack[t] = 0

\* A marked method is called in context x, by p or by no marked method: it joins the context's transaction or makes one.
RunInTransaction(c, x, p) ==
  LET t == IF currentTransaction[x] = None THEN c ELSE currentTransaction[x] IN
  /\ callPc[c] = "idle"
  /\ IF p = None
       THEN "oneAtATime" \in Discipline => \A o \in Calls : Active(o) => frame[o].context # x
       ELSE callPc[p] = "running" /\ frame[p].context = x
  /\ callPc' = [callPc EXCEPT ![c] = "running"]
  /\ frame' = [frame EXCEPT ![c] = [context |-> x, transaction |-> t, caller |-> p,
                                    isRoot |-> IsRoot(t)]]
  /\ currentTransaction' = [currentTransaction EXCEPT ![x] = t]
  /\ callStack' = [callStack EXCEPT ![t] = @ + 1]
  /\ \E r \in (IF t = c /\ "rollback" \in Uses THEN BOOLEAN ELSE {rollbackOption[t]}) :
       rollbackOption' = [rollbackOption EXCEPT ![t] = r]
  /\ UNCHANGED <<outcome, sent, asked, connVars, stmtVars, dataVars, faults>>

MarkAsRollback(c) ==
  /\ "rollback" \in Uses /\ callPc[c] = "running"
  /\ \E t \in Calls :
       /\ currentTransaction[frame[c].context] = t /\ ~rollbackOption[t]
       /\ rollbackOption' = [rollbackOption EXCEPT ![t] = TRUE]
  /\ UNCHANGED <<currentTransaction, callStack, connVars, callVars, stmtVars, dataVars, faults>>

StatementsOf(c) == {s \in Statements : stmtPc[s] # "unused" /\ stmt[s].caller = c}
CalledBy(c) == {o \in Calls : callPc[o] # "idle" /\ frame[o].caller = c}

Awaited(c) == "awaits" \in Discipline =>
  /\ \A s \in StatementsOf(c) : stmtPc[s] \in Settled
  /\ \A o \in CalledBy(c) : callPc[o] = "done"

SawNoFailure(c) == "rethrows" \in Discipline =>
  /\ \A s \in StatementsOf(c) : stmtPc[s] # "failed"
  /\ \A o \in CalledBy(c) : outcome[o] # "threw"

PoppedWithoutCheck(t) == [callStack EXCEPT ![t] = @ - 1]
Popped(t) == [callStack EXCEPT ![t] = IF @ = 0 THEN 0 ELSE @ - 1]

\* Asks op of every connection registered, beside what is still unanswered.
Ask(c, op, unanswered) ==
  sent' = [sent EXCEPT ![c] = unanswered \cup ({op} \X ConnectionsOf(frame[c].transaction))]

\* popContextWithError: the root rolls back.
Unwind(c, unanswered) ==
  /\ callStack' = Popped(frame[c].transaction)
  /\ outcome' = [outcome EXCEPT ![c] = "threw"]
  /\ IF frame[c].isRoot
       THEN /\ callPc' = [callPc EXCEPT ![c] = "rollingBack"]
            /\ Ask(c, "rollback", unanswered)
       ELSE /\ callPc' = [callPc EXCEPT ![c] = "done"]
            /\ UNCHANGED sent

Throw(c) ==
  /\ callPc[c] = "running" /\ Awaited(c)
  /\ Unwind(c, sent[c])
  /\ UNCHANGED <<currentTransaction, rollbackOption, frame, asked, connVars, stmtVars, dataVars, faults>>

\* popContext, up to its first await: the method returned.
PopContext(c) ==
  /\ callPc[c] = "running" /\ Awaited(c) /\ SawNoFailure(c)
  /\ callStack' = Popped(frame[c].transaction)
  /\ IF frame[c].isRoot
       THEN /\ callPc' = [callPc EXCEPT ![c] = "closing"]
            /\ UNCHANGED outcome
       ELSE /\ callPc' = [callPc EXCEPT ![c] = "done"]
            /\ outcome' = [outcome EXCEPT ![c] = "returned"]
  /\ UNCHANGED <<currentTransaction, rollbackOption, frame, sent, asked, connVars, stmtVars, dataVars, faults>>

CloseWithoutClosing(cs) == UNCHANGED stmtPc
Close(cs) == stmtPc' = [s \in Statements |-> IF s \in cs /\ stmtPc[s] = "open" THEN "ok" ELSE stmtPc[s]]

EndWithoutOption(t) == "commit"
End(t) == IF rollbackOption[t] THEN "rollback" ELSE "commit"

\* The cursors closed, the root commits every connection, or rolls every one back if marked so.
CloseCursors(c) ==
  LET t == frame[c].transaction IN
  /\ callPc[c] = "closing"
  /\ Close(cursors[t])
  /\ callPc' = [callPc EXCEPT ![c] = IF End(t) = "rollback" THEN "rollingBack" ELSE "committing"]
  /\ Ask(c, End(t), sent[c])
  /\ asked' = IF End(t) = "commit" THEN asked \cup {c} ELSE asked
  /\ UNCHANGED <<frame, outcome, ctxVars, connVars, stmt, on, cursors, dataVars, faults>>

CloseCursorsFails(c) ==
  /\ callPc[c] = "closing"
  /\ cursors[frame[c].transaction] # {} /\ Fault("cursor")
  /\ Unwind(c, sent[c])
  /\ UNCHANGED <<currentTransaction, rollbackOption, frame, asked, connVars, stmtVars, dataVars>>

-----------------------------------------------------------------------------
(* The answers to what the root asked.  Promise.all settles on the first   *)
(* refusal, and the requests sent with it are answered all the same.       *)

CommitAccepted(c, k) ==
  /\ <<"commit", k>> \in sent[c] /\ ~Blocked(k) /\ ~CommitRefused(k)
  /\ sent' = [sent EXCEPT ![c] = @ \ {<<"commit", k>>}]
  /\ Resolve(k, IF session[k] = "open" THEN "durable" ELSE "undone")
  /\ session' = [session EXCEPT ![k] = Ended(k)]
  /\ UNCHANGED <<ctxVars, callPc, frame, outcome, asked, connVars, stmtVars, released, faults>>

\* What a refused commit leaves: a SQLite transaction stays open, Neo4j's may still be rolled back.
CommitFails(c, k) ==
  LET e == EngineOf(k)
      rest == sent[c] \ {<<"commit", k>>}
  IN
  /\ <<"commit", k>> \in sent[c] /\ ~Blocked(k)
  /\ \/ CommitRefused(k) /\ session' = [session EXCEPT ![k] = Noticed(k)] /\ UNCHANGED <<fate, faults>>
     \/ /\ session[k] = "open" /\ ~AutoCommits(e) /\ Fault("commit")
        /\ IF e = "SQLITE" THEN UNCHANGED <<fate, session>>
           ELSE /\ Resolve(k, "undone")
                /\ session' = [session EXCEPT ![k] = IF e = "NEO4J" THEN "aborted" ELSE "ended"]
  /\ IF callPc[c] = "committing"
       THEN Unwind(c, rest)
       ELSE sent' = [sent EXCEPT ![c] = rest] /\ UNCHANGED <<callPc, outcome, callStack>>
  /\ UNCHANGED <<currentTransaction, rollbackOption, frame, asked, connVars, stmtVars, released>>

\* A connection answers in order: a rollback after the commit, and on Postgres the BEGIN, sent before it.
RollbackDue(c, k) ==
  /\ <<"rollback", k>> \in sent[c] /\ ~Blocked(k)
  /\ \A o \in Calls : <<"commit", k>> \notin sent[o]
  /\ ~(EngineOf(k) = "POSTGRES" /\ stmtPc[k] = "starting")

RollbackAccepted(c, k) ==
  /\ RollbackDue(c, k) /\ ~RollbackRefused(k)
  /\ sent' = [sent EXCEPT ![c] = @ \ {<<"rollback", k>>}]
  /\ Resolve(k, "undone")
  /\ session' = [session EXCEPT ![k] = Ended(k)]
  /\ UNCHANGED <<ctxVars, callPc, frame, outcome, asked, connVars, stmtVars, released, faults>>

EndFailsWithRollbackAgain(c, rest) == Unwind(c, rest)
\* A failure on the way out: popContext's is caught by popContextWithError, whose own leaves the connections and the
\* context as they are.
EndFails(c, rest) ==
  IF outcome[c] = "threw"
    THEN /\ callPc' = [callPc EXCEPT ![c] = "done"]
         /\ sent' = [sent EXCEPT ![c] = rest]
         /\ UNCHANGED <<outcome, callStack>>
    ELSE Unwind(c, rest)

RollbackFails(c, k) ==
  LET rest == sent[c] \ {<<"rollback", k>>} IN
  /\ RollbackDue(c, k) /\ RollbackRefused(k)
  /\ IF callPc[c] = "rollingBack"
       THEN EndFails(c, rest)
       ELSE sent' = [sent EXCEPT ![c] = rest] /\ UNCHANGED <<callPc, outcome, callStack>>
  /\ session' = [session EXCEPT ![k] = Noticed(k)]
  /\ UNCHANGED <<currentTransaction, rollbackOption, frame, asked, connVars, stmtVars, fate, released, faults>>

AnsweredWithoutAwait(c, op) == TRUE
Answered(c, op) == \A k \in Statements : <<op, k>> \notin sent[c]

\* Every commit, or rollback, answered: the connections are released.
Release(c) ==
  /\ \/ callPc[c] = "committing" /\ Answered(c, "commit")
     \/ callPc[c] = "rollingBack" /\ Answered(c, "rollback")
  /\ callPc' = [callPc EXCEPT ![c] = "releasing"]
  /\ Ask(c, "release", sent[c])
  /\ UNCHANGED <<frame, outcome, asked, ctxVars, connVars, stmtVars, dataVars, faults>>

\* Postgres keeps the session of a client released without an error as it is; the others end what is open.
ReleaseAccepted(c, k) ==
  /\ <<"release", k>> \in sent[c]
  /\ EngineOf(k) = "POSTGRES" => k \notin released
  /\ sent' = [sent EXCEPT ![c] = @ \ {<<"release", k>>}]
  /\ released' = released \cup {k}
  /\ IF EngineOf(k) = "POSTGRES" /\ outcome[c] # "threw"
       THEN UNCHANGED <<fate, session, stmtPc>>
       ELSE /\ Resolve(k, "undone")
            /\ session' = [session EXCEPT ![k] = Ended(k)]
            /\ Close({s \in Statements : on[s] = k})
  /\ UNCHANGED <<ctxVars, callPc, frame, outcome, asked, connVars, stmt, on, cursors, faults>>

ReleaseFails(c, k) ==
  LET rest == sent[c] \ {<<"release", k>>} IN
  /\ <<"release", k>> \in sent[c]
  /\ \/ EngineOf(k) = "POSTGRES" /\ k \in released /\ UNCHANGED faults
     \/ EngineOf(k) \in {"NEO4J", "ORACLE"} /\ Fault("release")
  /\ IF callPc[c] = "releasing"
       THEN EndFails(c, rest)
       ELSE sent' = [sent EXCEPT ![c] = rest] /\ UNCHANGED <<callPc, outcome, callStack>>
  /\ UNCHANGED <<currentTransaction, rollbackOption, frame, asked, connVars, stmtVars, dataVars>>

ClearedWithoutClearing(x) == currentTransaction
Cleared(x) == [currentTransaction EXCEPT ![x] = None]

\* Every connection released: the context holds no transaction any more, and the root ends.
ReleaseClient(c) ==
  /\ callPc[c] = "releasing" /\ Answered(c, "release")
  /\ currentTransaction' = Cleared(frame[c].context)
  /\ callPc' = [callPc EXCEPT ![c] = "done"]
  /\ outcome' = [outcome EXCEPT ![c] = IF @ = "threw" THEN "threw" ELSE "returned"]
  /\ UNCHANGED <<callStack, rollbackOption, frame, sent, asked, connVars, stmtVars, dataVars, faults>>

-----------------------------------------------------------------------------
(* Statements: the delegating persistence manager, Transaction.query and   *)
(* Transaction.openCursor, connectionFor.                                  *)

\* In a transaction with an empty call stack the assertion fails; outside one a cursor is refused, and a statement
\* gets a connection of its own.
Issue(s, c, d, cursor) ==
  LET t == currentTransaction[frame[c].context] IN
  /\ callPc[c] = "running" /\ stmtPc[s] = "unused"
  /\ cursor => "cursors" \in Uses
  /\ stmt' = [stmt EXCEPT ![s] = [caller |-> c, transaction |-> t, database |-> d, cursor |-> cursor]]
  /\ stmtPc' = [stmtPc EXCEPT ![s] =
                  IF t = None THEN IF cursor THEN "failed" ELSE "connecting"
                  ELSE IF callStack[t] = 0 THEN "failed" ELSE "queued"]
  /\ UNCHANGED <<on, cursors, ctxVars, connVars, callVars, dataVars, faults>>

MutexFreeWithoutMutex(t) == TRUE
MutexFree(t) == connectionMutex[t] = None

\* connectionFor has the mutex: the database's connection is used if there is one, and opened otherwise.
Acquire(s) ==
  LET t == stmt[s].transaction
      k == connectionRegistry[t][stmt[s].database]
  IN
  /\ stmtPc[s] = "queued" /\ MutexFree(t)
  /\ IF k # None
       THEN /\ stmtPc' = [stmtPc EXCEPT ![s] = "running"]
            /\ on' = [on EXCEPT ![s] = k]
            /\ UNCHANGED connectionMutex
       ELSE /\ stmtPc' = [stmtPc EXCEPT ![s] = "connecting"]
            /\ connectionMutex' = [connectionMutex EXCEPT ![t] = s]
            /\ UNCHANGED on
  /\ UNCHANGED <<stmt, cursors, ctxVars, connectionRegistry, callVars, dataVars, faults>>

FreeMutexWithoutFinally(s) == UNCHANGED connectionMutex
FreeMutex(s) == connectionMutex' = [connectionMutex EXCEPT ![stmt[s].transaction] = None]

\* The connection is registered before the transaction is begun on it.  FalkorDB in STRICT mode refuses to begin.
Connected(s) ==
  LET t == stmt[s].transaction
      e == EngineOf(s)
  IN
  /\ stmtPc[s] = "connecting" /\ t # None
  /\ connectionRegistry' = [connectionRegistry EXCEPT ![t][stmt[s].database] = s]
  /\ session' = [session EXCEPT ![s] = IF StartsAtOnce(e) THEN "open" ELSE "fresh"]
  /\ IF StartsAtOnce(e) THEN stmtPc' = [stmtPc EXCEPT ![s] = "running"] /\ on' = [on EXCEPT ![s] = s] /\ FreeMutex(s)
     ELSE IF e = "FALKORDB_STRICT" THEN stmtPc' = [stmtPc EXCEPT ![s] = "failed"] /\ UNCHANGED on /\ FreeMutex(s)
     ELSE stmtPc' = [stmtPc EXCEPT ![s] = "starting"] /\ UNCHANGED <<on, connectionMutex>>
  /\ UNCHANGED <<stmt, cursors, ctxVars, callVars, fate, released, faults>>

Began(s) ==
  /\ stmtPc[s] = "starting" /\ session[s] # "broken"
  /\ EngineOf(s) = "POSTGRES" => s \notin released
  /\ session' = [session EXCEPT ![s] = "open"]
  /\ stmtPc' = [stmtPc EXCEPT ![s] = "running"]
  /\ on' = [on EXCEPT ![s] = s]
  /\ FreeMutex(s)
  /\ UNCHANGED <<stmt, cursors, ctxVars, connectionRegistry, callVars, fate, released, faults>>

\* SQLite gave up waiting for the file's lock, or a Postgres client failed: the connection stays registered.
BeginFails(s) ==
  /\ stmtPc[s] = "starting"
  /\ IF session[s] = "broken" \/ (EngineOf(s) = "POSTGRES" /\ s \in released)
       THEN UNCHANGED <<session, faults>>
       ELSE /\ Fault("begin")
            /\ session' = [session EXCEPT ![s] = IF EngineOf(s) = "POSTGRES" THEN "broken" ELSE @]
  /\ stmtPc' = [stmtPc EXCEPT ![s] = "failed"]
  /\ FreeMutex(s)
  /\ UNCHANGED <<stmt, on, cursors, ctxVars, connectionRegistry, callVars, fate, released>>

ConnectFails(s) ==
  /\ stmtPc[s] = "connecting" /\ Fault("connect")
  /\ stmtPc' = [stmtPc EXCEPT ![s] = "failed"]
  /\ IF stmt[s].transaction = None THEN UNCHANGED connectionMutex ELSE FreeMutex(s)
  /\ UNCHANGED <<stmt, on, cursors, ctxVars, connectionRegistry, callVars, dataVars>>

\* Outside a transaction: connected, run, and the connection released, whatever came of it.
RunOnItsOwn(s) ==
  /\ stmtPc[s] = "connecting" /\ stmt[s].transaction = None
  /\ on' = [on EXCEPT ![s] = s]
  /\ session' = [session EXCEPT ![s] = "fresh"]
  /\ released' = released \cup {s}
  /\ \/ /\ stmtPc' = [stmtPc EXCEPT ![s] = "ok"]
        /\ fate' = [fate EXCEPT ![s] = "durable"]
        /\ UNCHANGED faults
     \/ /\ stmtPc' = [stmtPc EXCEPT ![s] = "failed"]
        /\ Fault("statement")
        /\ UNCHANGED fate
  /\ UNCHANGED <<stmt, cursors, ctxVars, connVars, callVars>>

Executed(s) ==
  LET k == on[s] IN
  /\ stmtPc[s] = "running" /\ ~Blocked(k) /\ CanRun(k)
  /\ IF stmt[s].cursor
       THEN /\ stmtPc' = [stmtPc EXCEPT ![s] = "open"]
            /\ cursors' = [cursors EXCEPT ![stmt[s].transaction] = @ \cup {s}]
            /\ UNCHANGED fate
       ELSE /\ stmtPc' = [stmtPc EXCEPT ![s] = "ok"]
            /\ fate' = [fate EXCEPT ![s] =
                 IF session[k] = "open" /\ ~AutoCommits(EngineOf(k)) THEN "pending" ELSE "durable"]
            /\ UNCHANGED cursors
  /\ UNCHANGED <<stmt, on, ctxVars, connVars, callVars, session, released, faults>>

StatementFails(s) ==
  LET k == on[s] IN
  /\ stmtPc[s] = "running" /\ ~Blocked(k)
  /\ IF CanRun(k) THEN Fault("statement") ELSE UNCHANGED faults
  /\ stmtPc' = [stmtPc EXCEPT ![s] = "failed"]
  /\ \E after \in AfterFailure(k) :
       /\ session' = [session EXCEPT ![k] = after]
       /\ IF after = "lost" THEN Resolve(k, "undone") ELSE UNCHANGED fate
  /\ UNCHANGED <<stmt, on, cursors, ctxVars, connVars, callVars, released>>

\* The method reads a cursor to its end.
ReadToEnd(s) ==
  /\ stmtPc[s] = "open" /\ callPc[stmt[s].caller] = "running"
  /\ stmtPc' = [stmtPc EXCEPT ![s] = "ok"]
  /\ UNCHANGED <<stmt, on, cursors, ctxVars, connVars, callVars, dataVars, faults>>

\* The server, or the network to it, drops a connection: it rolls back what was open.  A transaction Neo4j's driver has
\* marked failed already asks nothing more of the connection.
Break(k) ==
  /\ session[k] \in {"fresh", "open", "aborted"} /\ k \notin released
  /\ EngineOf(k) \in {"POSTGRES", "NEO4J", "ORACLE"} /\ Fault("break")
  /\ EngineOf(k) = "NEO4J" => session[k] # "aborted"
  /\ session' = [session EXCEPT ![k] = "broken"]
  /\ Resolve(k, "undone")
  /\ UNCHANGED <<ctxVars, connVars, callVars, stmtVars, released>>

-----------------------------------------------------------------------------
\* Nothing is under way, and no call will start: the system may stop here.
Quiet ==
  /\ \A c \in Calls : callPc[c] = "done" /\ sent[c] = {}
  /\ \A s \in Statements : stmtPc[s] \in Settled \cup {"unused"}

Stop == Quiet /\ UNCHANGED vars

CallStep(c) ==
  \/ \E x \in Contexts, p \in Calls \cup {None} : RunInTransaction(c, x, p)
  \/ MarkAsRollback(c)
  \/ Throw(c) \/ PopContext(c)
  \/ CloseCursors(c) \/ CloseCursorsFails(c)
  \/ Release(c) \/ ReleaseClient(c)

AnswerStep(c, k) ==
  \/ CommitAccepted(c, k) \/ CommitFails(c, k)
  \/ RollbackAccepted(c, k) \/ RollbackFails(c, k)
  \/ ReleaseAccepted(c, k) \/ ReleaseFails(c, k)

StatementStep(s) ==
  \/ \E c \in Calls, d \in Databases, cursor \in BOOLEAN : Issue(s, c, d, cursor)
  \/ Acquire(s) \/ Connected(s) \/ ConnectFails(s) \/ Began(s) \/ BeginFails(s)
  \/ RunOnItsOwn(s) \/ Executed(s) \/ StatementFails(s) \/ ReadToEnd(s) \/ Break(s)

Next ==
  \/ \E c \in Calls : CallStep(c)
  \/ \E c \in Calls, k \in Statements : AnswerStep(c, k)
  \/ \E s \in Statements : StatementStep(s)
  \/ Stop

Spec == Init /\ [][Next]_vars

-----------------------------------------------------------------------------
(* What a transaction promises. *)

Opened == {k \in Statements : session[k] # "none"}
Transactional(s) == stmtPc[s] # "unused" /\ stmt[s].transaction # None
Root(c, t) == callPc[c] # "idle" /\ frame[c].transaction = t /\ frame[c].isRoot
\* What was sent by the methods that run in transaction t.
WorkOf(t) == {s \in Statements : stmtPc[s] # "unused" /\ frame[stmt[s].caller].transaction = t}

\* However the statements of a transaction interleave in connectionFor, it opens one connection per database: none is
\* registered over another, which would then never be committed or released.
OneConnectionPerDatabase ==
  \A j, k \in Opened :
    /\ Transactional(j) /\ stmt[k].transaction = stmt[j].transaction /\ stmt[k].database = stmt[j].database
    => j = k

\* Why it is so, whatever fails on the way: the statement that connects, or begins, in a transaction holds its mutex
\* and the database has no other connection; a connection opened stays the one registered; and only a connection
\* that was opened is ever asked to commit, roll back or close.
MutexHeld ==
  \A s \in Statements : stmtPc[s] \in {"connecting", "starting"} /\ Transactional(s) =>
    /\ connectionMutex[stmt[s].transaction] = s
    /\ stmtPc[s] = "connecting" => connectionRegistry[stmt[s].transaction][stmt[s].database] = None
OpenedOnTheWay ==
  \A s \in Statements : /\ stmtPc[s] \in {"unused", "queued", "connecting"} => s \notin Opened
                        /\ stmtPc[s] = "starting" => s \in Opened /\ Transactional(s)
OpenedIsRegistered ==
  \A s \in Opened : Transactional(s) => connectionRegistry[stmt[s].transaction][stmt[s].database] = s
RegisteredIsOpened == \A t \in Calls : ConnectionsOf(t) \subseteq Opened
OpenedIsAsked == \A c \in Calls : \A r \in sent[c] : r[2] \in Opened
MutexGuardsRegistry == MutexHeld /\ OpenedOnTheWay /\ OpenedIsRegistered /\ RegisteredIsOpened /\ OpenedIsAsked

\* A call stack finds one root: no two calls each take it on themselves to end the same transaction.
OneRoot ==
  \A t, b, c \in Calls : Root(b, t) /\ Root(c, t) => b = c

\* At no time do two calls hold it on themselves to end one transaction, whatever fails: two calls that a third runs side by
\* side find its call on the stack, and a call that finds the transaction of a root that could not end it is alone.
OneRootAtATime ==
  \A t, b, c \in Calls : Root(b, t) /\ Active(b) /\ Root(c, t) /\ Active(c) => b = c

\* A statement is sent in the transaction its method runs in, though that is looked up as it is sent, after any of the
\* method's awaits: no method that ends meanwhile takes the transaction out of the context under it.
SentToItsTransaction ==
  \A s \in Statements : stmtPc[s] # "unused" => stmt[s].transaction = frame[stmt[s].caller].transaction

\* A method that threw, or whose transaction is marked for rollback, leaves nothing behind in a database it and the methods
\* it called wrote to.  The one exception: it had asked every connection to commit, no rollback was marked, and one of
\* them was refused; others may be committed by then (Transaction.ts:86), but at least one database the transaction
\* connected to has none of its writes.
NoCommitNoEffect ==
  \A t, c \in Calls :
    Root(c, t) /\ callPc[c] = "done" /\ (outcome[c] = "threw" \/ rollbackOption[t])
    => \/ \A s \in WorkOf(t) : fate[s] # "durable"
       \/ /\ c \in asked /\ ~rollbackOption[t]
          /\ \E d \in Databases :
               /\ connectionRegistry[t][d] # None
               /\ \A s \in WorkOf(t) : stmt[s].database = d => fate[s] # "durable"

\* A root method that returned has committed whatever its statements and those of the methods it called wrote.
ReturnMeansCommitted ==
  \A t, c \in Calls :
    Root(c, t) /\ outcome[c] = "returned" /\ ~rollbackOption[t]
    => \A s \in WorkOf(t) : fate[s] \in {"none", "durable"}

\* Nothing a method writes is committed before the root is past its last line: not as a method it called returns, nor
\* by a statement on a connection no transaction was begun on.
InvisibleUntilTheEnd ==
  \A t \in Calls : \A s \in WorkOf(t) :
    fate[s] = "durable" => \E c \in Calls : Root(c, t) /\ callPc[c] \notin {"running", "closing"}

\* A statement runs on its connection only while the transaction begun there is open: not before BEGIN is answered, nor
\* once the root of the transaction has committed or rolled it back.
RunsInItsTransaction ==
  \A s \in Statements : stmtPc[s] = "running" => session[on[s]] \notin {"fresh", "ended"}

\* When the root has ended, every connection opened for the transaction has been given back.
ConnectionsReleased ==
  \A t, c \in Calls :
    Root(c, t) /\ callPc[c] = "done"
    => \A k \in Opened : stmt[k].transaction = t => k \in released

\* A context never holds a transaction whose root has ended, which the next marked method would join.
NoDeadTransaction ==
  \A x \in Contexts : \A t \in Calls :
    currentTransaction[x] = t => \E c \in Calls : Root(c, t) /\ Active(c)

\* A cursor ends with its transaction, whichever way the transaction ended: its reader holds no connection of the pool.
CursorsEndWithTransaction ==
  \A t, c \in Calls :
    Root(c, t) /\ callPc[c] = "done" => \A s \in WorkOf(t) : stmtPc[s] # "open"

\* The transactions refine units of work that are committed whole: on each database the statements of a method, and of
\* the methods it called, become durable in one step, or none of them ever does.
Atomic == INSTANCE AtomicMethods WITH
            Units <- Calls \X Databases,
            work <- [u \in Calls \X Databases |->
                       {s \in WorkOf(u[1]) : stmt[s].database = u[2] /\ fate[s] # "none"}],
            store <- {s \in Statements : fate[s] = "durable"}
AtomicPerDatabase == Atomic!Spec

-----------------------------------------------------------------------------
(* Fairness: a method ends, an engine answers what it is asked, and the    *)
(* event loop runs on.  Nothing is assumed of the failures, nor of what    *)
(* the methods choose to do.                                               *)

EndStep(c) == \/ Throw(c) \/ PopContext(c) \/ CloseCursors(c) \/ CloseCursorsFails(c)
              \/ Release(c) \/ ReleaseClient(c)

RunStep(s) == \/ Acquire(s) \/ Connected(s) \/ ConnectFails(s) \/ Began(s) \/ BeginFails(s)
              \/ RunOnItsOwn(s) \/ Executed(s) \/ StatementFails(s)

FairSpec ==
  /\ Spec
  /\ \A c \in Calls : WF_vars(EndStep(c))
  /\ \A c \in Calls, k \in Statements : WF_vars(AnswerStep(c, k))
  /\ \A s \in Statements : WF_vars(RunStep(s))

\* A method called ends, returning or throwing, and its root's transaction with it.
CallsEnd == \A c \in Calls : callPc[c] = "running" ~> callPc[c] = "done"

\* A statement waiting for the mutex gets it, whatever became of the one that held it, and settles.
StatementsSettle == \A s \in Statements : stmtPc[s] = "queued" ~> stmtPc[s] \in Settled

=============================================================================
