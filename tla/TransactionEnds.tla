--------------------------- MODULE TransactionEnds ---------------------------
(***************************************************************************)
(* That a root ends its transaction, for every set of calls, statements    *)
(* and contexts, where methods are structured as TransactionRoots assumes  *)
(* and no connection refuses to roll back or to be released.               *)
(*                                                                         *)
(* Once the root is past its method nothing of the transaction is under    *)
(* way, so the connections it asks are all there are.  It waits for every  *)
(* answer before it takes the next step; where none is a refusal it comes  *)
(* to ReleaseClient, with every connection given back.                     *)
(***************************************************************************)
EXTENDS TransactionRoots

\* No connection is lost, none fails to be released, and Neo4j, which refuses to roll back what was committed, has the
\* transaction to itself.
NothingRefused ==
  \A d \in Databases :
    /\ Engine[d] \in {"POSTGRES", "NEO4J", "ORACLE"} => "break" \notin Faults
    /\ Engine[d] \in {"NEO4J", "ORACLE"} => "release" \notin Faults
    /\ Engine[d] = "POSTGRES" => "begin" \notin Faults
    /\ Engine[d] = "NEO4J" => Databases = {d}

-----------------------------------------------------------------------------
(* Statements and their connections.                                        *)

\* A statement under way was sent by a method that still runs.
SenderRuns ==
  \A s \in Statements : stmtPc[s] \notin Settled \cup {"unused"} => callPc[stmt[s].caller] = "running"

\* A connection is registered for the transaction and the database of the statement that opened it.
RegisteredWhereSent ==
  \A t \in Calls, d \in Databases :
    connectionRegistry[t][d] # None =>
      LET k == connectionRegistry[t][d] IN stmtPc[k] # "unused" /\ stmt[k].transaction = t /\ stmt[k].database = d

\* A statement is on the connection registered for its transaction and database, and a cursor open is one of its cursors.
OnItsConnection ==
  \A s \in Statements :
    /\ on[s] # None => stmtPc[s] # "unused" /\ on[s] = connectionRegistry[stmt[s].transaction][stmt[s].database]
    /\ stmtPc[s] \in Early => on[s] = None
    /\ stmtPc[s] \in {"running", "open"} => on[s] # None
    /\ stmtPc[s] = "open" => s \in cursors[stmt[s].transaction]

Unbroken == (\A k \in Statements : session[k] # "broken") /\ released \subseteq Opened

AtWork == SenderRuns /\ RegisteredWhereSent /\ OnItsConnection /\ Unbroken

\* What was proved of every behaviour.
Known == TypeOK /\ MutexGuardsRegistry /\ Tree /\ Sent

LEMMA AtWorkAtFirst == Init => AtWork
  BY ConstantsAssumption DEF Init, AtWork, SenderRuns, RegisteredWhereSent, OnItsConnection, Unbroken, Opened, Settled

\* A statement sent names its method, its transaction and its database.
LEMMA SentWhere ==
  ASSUME Known, NEW s \in Statements, stmtPc[s] # "unused"
  PROVE  /\ stmt[s].caller \in Calls /\ stmt[s].database \in Databases /\ stmt[s].transaction \in Calls
         /\ stmt[s].transaction # None /\ Transactional(s)
         /\ callPc[stmt[s].caller] # "idle"
         /\ frame[stmt[s].caller].transaction = stmt[s].transaction
<1>1. stmt[s] \in Issued
  BY DEF Known, TypeOK, StatementOK
<1>2. callPc[stmt[s].caller] # "idle" /\ frame[stmt[s].caller].transaction = stmt[s].transaction
  BY DEF Known, Sent, SentByACall, SentToItsTransaction
<1>3. stmt[s].transaction \in Calls
  BY <1>1, <1>2 DEF Known, TypeOK, Frame, Issued
<1> QED BY <1>1, <1>2, <1>3, ConstantsAssumption DEF Issued, Transactional

LEMMA OpenedWhere ==
  ASSUME Known, NEW k \in Opened
  PROVE  k \in Statements /\ stmtPc[k] # "unused"
BY DEF Known, MutexGuardsRegistry, OpenedOnTheWay, Opened

\* A step that sends nothing, opens no connection and moves no statement but cursors to their end.
LEMMA AtWorkKept ==
  ASSUME Known, AtWork, UNCHANGED <<stmt, on, connectionRegistry, cursors>>,
         \A s \in Statements : stmtPc'[s] = stmtPc[s] \/ (stmtPc[s] = "open" /\ stmtPc'[s] = "ok"),
         \A k \in Statements : session'[k] # "broken" /\ (session'[k] = "none" <=> session[k] = "none"),
         released' \subseteq released \cup Opened,
         \A o \in Calls : callPc[o] = "running" =>
           callPc'[o] = "running" \/ \A s \in StatementsOf(o) : stmtPc[s] \in Settled
  PROVE  AtWork'
<1>1. SenderRuns'
  <2> SUFFICES ASSUME NEW s \in Statements, stmtPc'[s] \notin Settled \cup {"unused"}
               PROVE  callPc'[stmt[s].caller] = "running"
    BY DEF SenderRuns
  <2>1. stmtPc'[s] = stmtPc[s]
    BY DEF Settled
  <2>2. callPc[stmt[s].caller] = "running" /\ stmt[s].caller \in Calls
    BY <2>1, SentWhere DEF AtWork, SenderRuns
  <2> QED BY <2>1, <2>2 DEF StatementsOf
<1>2. RegisteredWhereSent'
  <2>1. \A t \in Calls, d \in Databases : connectionRegistry[t][d] # None => connectionRegistry[t][d] \in Statements
    BY DEF Known, TypeOK
  <2> QED BY <2>1 DEF AtWork, RegisteredWhereSent
<1>3. OnItsConnection'
  BY DEF AtWork, OnItsConnection, Early
<1>4. Unbroken'
  BY DEF AtWork, Unbroken, Opened
<1> QED BY <1>1, <1>2, <1>3, <1>4 DEF AtWork

\* No connection breaks: the only engines whose connections can be dropped are those where nothing is dropped.
LEMMA NobodyBreaks ==
  ASSUME NothingRefused, Known, AtWork, [Next]_vars, NEW k \in Statements
  PROVE  session'[k] # "broken"
<1>1. session[k] # "broken"
  BY DEF AtWork, Unbroken
<1>2. ASSUME NEW c \in Calls, CallStep(c) PROVE session' = session
  BY <1>2 DEF CallStep, RunInTransaction, MarkAsRollback, Throw, PopContext, CloseCursors, CloseCursorsFails,
              Release, ReleaseClient, dataVars
<1>3. ASSUME NEW c \in Calls, NEW j \in Statements, AnswerStep(c, j) PROVE session'[k] # "broken"
  <2>1. \/ UNCHANGED session
        \/ \E e \in {"ended", "aborted", session[j]} : session' = [session EXCEPT ![j] = e]
    BY <1>3 DEF AnswerStep, CommitAccepted, CommitFails, RollbackAccepted, RollbackFails, ReleaseAccepted,
                ReleaseFails, Ended, Noticed, dataVars
  <2> QED BY <1>1, <2>1 DEF Known, TypeOK
<1>4. ASSUME NEW s \in Statements, StatementStep(s) PROVE session'[k] # "broken"
  <2>1. CASE Connected(s) \/ Began(s) \/ RunOnItsOwn(s)
    BY <1>1, <2>1 DEF Connected, Began, RunOnItsOwn, Known, TypeOK
  <2>2. CASE StatementFails(s)
    <3>1. on[s] \in Statements
      BY <2>2 DEF StatementFails, Known, TypeOK, StatementOK
    <3>2. \A e \in AfterFailure(on[s]) : e # "broken"
      BY <3>1 DEF AfterFailure, Noticed, AtWork, Unbroken
    <3> QED BY <1>1, <2>2, <3>2 DEF StatementFails, Known, TypeOK
  <2>3. CASE Break(s)
    <3>1. s \in Opened
      BY <2>3 DEF Break, Opened
    <3>2. stmt[s].database \in Databases
      BY <3>1, OpenedWhere, SentWhere
    <3> QED BY <2>3, <3>2 DEF Break, Fault, EngineOf, NothingRefused
  <2>4. CASE BeginFails(s)
    <3>1. stmt[s].database \in Databases
      BY <2>4, SentWhere DEF BeginFails
    <3>2. EngineOf(s) = "POSTGRES" => UNCHANGED session
      BY <2>4, <3>1 DEF BeginFails, Fault, EngineOf, NothingRefused, AtWork, Unbroken
    <3>3. EngineOf(s) # "POSTGRES" => session' = session \/ session' = [session EXCEPT ![s] = session[s]]
      BY <2>4 DEF BeginFails
    <3> QED BY <1>1, <3>2, <3>3 DEF Known, TypeOK
  <2>5. CASE UNCHANGED session
    BY <1>1, <2>5
  <2> QED
    BY <1>4, <2>1, <2>2, <2>3, <2>4, <2>5 DEF StatementStep, Issue, Acquire, ConnectFails, Executed, ReadToEnd, dataVars
<1>5. CASE UNCHANGED vars
  BY <1>1, <1>5 DEF vars, dataVars
<1> QED BY <1>2, <1>1, <1>3, <1>4, <1>5 DEF Next, Stop

LEMMA CallKeepsWork ==
  ASSUME Structured, NothingRefused, Known, AtWork, NEW c \in Calls, CallStep(c)
  PROVE  AtWork'
<1>1. UNCHANGED <<stmt, on, connectionRegistry, cursors, session, released>>
  BY DEF CallStep, RunInTransaction, MarkAsRollback, Throw, PopContext, CloseCursors, CloseCursorsFails,
         Release, ReleaseClient, stmtVars, connVars, dataVars
<1>2. \A s \in Statements : stmtPc'[s] = stmtPc[s] \/ (stmtPc[s] = "open" /\ stmtPc'[s] = "ok")
  <2>1. CASE CloseCursors(c)
    BY <2>1 DEF CloseCursors, Close, Known, TypeOK
  <2>2. CASE UNCHANGED stmtPc
    BY <2>2
  <2> QED
    BY <2>1, <2>2 DEF CallStep, RunInTransaction, MarkAsRollback, Throw, PopContext, CloseCursorsFails,
                      Release, ReleaseClient, stmtVars
<1>3. \A o \in Calls : callPc[o] = "running" =>
        callPc'[o] = "running" \/ \A s \in StatementsOf(o) : stmtPc[s] \in Settled
  <2> SUFFICES ASSUME NEW o \in Calls, callPc[o] = "running"
               PROVE  callPc'[o] = "running" \/ \A s \in StatementsOf(o) : stmtPc[s] \in Settled
    OBVIOUS
  <2>1. CASE Throw(c) \/ PopContext(c)
    <3>1. \A s \in StatementsOf(c) : stmtPc[s] \in Settled
      BY <2>1 DEF Throw, PopContext, Awaited, Structured
    <3>2. o # c => callPc'[o] = callPc[o]
      BY <2>1 DEF Throw, Unwind, PopContext, Known, TypeOK
    <3> QED BY <3>1, <3>2
  <2>2. CASE \E x \in Contexts, p \in Calls \cup {None} : RunInTransaction(c, x, p)
    BY <2>2 DEF RunInTransaction, Known, TypeOK
  <2>3. CASE MarkAsRollback(c)
    BY <2>3 DEF MarkAsRollback, callVars
  <2>4. CASE CloseCursors(c) \/ CloseCursorsFails(c) \/ Release(c) \/ ReleaseClient(c)
    <3>1. callPc[c] # "running"
      BY <2>4 DEF CloseCursors, CloseCursorsFails, Release, ReleaseClient
    <3>2. o # c /\ callPc'[o] = callPc[o]
      BY <2>4, <3>1 DEF CloseCursors, CloseCursorsFails, Unwind, Release, ReleaseClient, Known, TypeOK
    <3> QED BY <3>2
  <2> QED BY <2>1, <2>2, <2>3, <2>4 DEF CallStep
<1>4. \A k \in Statements : session'[k] # "broken"
  BY <1>1 DEF AtWork, Unbroken
<1> QED BY <1>1, <1>2, <1>3, <1>4, AtWorkKept

\* An answer moves no call that runs.
LEMMA AnswersSpareTheRunning ==
  ASSUME Known, NEW c \in Calls, NEW k \in Statements, AnswerStep(c, k), NEW o \in Calls, callPc[o] = "running"
  PROVE  callPc'[o] = "running"
<1>1. CASE UNCHANGED callPc
  BY <1>1
<1>2. ASSUME NEW rest, Unwind(c, rest) \/ EndFails(c, rest), callPc[c] # "running"
      PROVE  callPc'[o] = "running"
  <2>1. o # c
    BY <1>2
  <2> QED BY <1>2, <2>1 DEF Unwind, EndFails, Known, TypeOK
<1>3. CASE CommitFails(c, k) /\ callPc[c] = "committing"
  BY <1>2, <1>3 DEF CommitFails
<1>4. CASE RollbackFails(c, k) /\ callPc[c] = "rollingBack"
  BY <1>2, <1>4 DEF RollbackFails
<1>5. CASE ReleaseFails(c, k) /\ callPc[c] = "releasing"
  BY <1>2, <1>5 DEF ReleaseFails
<1> QED
  BY <1>1, <1>3, <1>4, <1>5
  DEF AnswerStep, CommitAccepted, CommitFails, RollbackAccepted, RollbackFails, ReleaseAccepted, ReleaseFails

LEMMA AnswerKeepsWork ==
  ASSUME NothingRefused, Known, AtWork, NEW c \in Calls, NEW k \in Statements, AnswerStep(c, k)
  PROVE  AtWork'
<1>1. UNCHANGED <<stmt, on, connectionRegistry, cursors>>
  BY DEF AnswerStep, CommitAccepted, CommitFails, RollbackAccepted, RollbackFails, ReleaseAccepted, ReleaseFails,
         stmtVars, connVars
<1>2. \A s \in Statements : stmtPc'[s] = stmtPc[s] \/ (stmtPc[s] = "open" /\ stmtPc'[s] = "ok")
  <2>1. CASE Close({s \in Statements : on[s] = k})
    BY <2>1 DEF Close, Known, TypeOK
  <2>2. CASE UNCHANGED stmtPc
    BY <2>2
  <2> QED
    BY <2>1, <2>2 DEF AnswerStep, CommitAccepted, CommitFails, RollbackAccepted, RollbackFails, ReleaseAccepted,
                      ReleaseFails, stmtVars
<1>3. k \in Opened
  <2>1. \E r \in sent[c] : r[2] = k
    BY DEF AnswerStep, CommitAccepted, CommitFails, RollbackAccepted, RollbackFails, RollbackDue,
           ReleaseAccepted, ReleaseFails
  <2> QED BY <2>1 DEF Known, MutexGuardsRegistry, OpenedIsAsked
<1>4. \A j \in Statements : session'[j] = "none" <=> session[j] = "none"
  <2>1. \/ UNCHANGED session
        \/ \E e \in {"ended", "aborted", session[k]} : session' = [session EXCEPT ![k] = e]
    BY DEF AnswerStep, CommitAccepted, CommitFails, RollbackAccepted, RollbackFails, ReleaseAccepted, ReleaseFails,
           Ended, Noticed, dataVars
  <2> QED BY <1>3, <2>1 DEF Opened, Known, TypeOK
<1>5. released' \subseteq released \cup Opened
  BY <1>3 DEF AnswerStep, CommitAccepted, CommitFails, RollbackAccepted, RollbackFails, ReleaseAccepted, ReleaseFails,
              dataVars
<1>6. \A j \in Statements : session'[j] # "broken"
  BY NobodyBreaks DEF Next
<1> QED BY <1>1, <1>2, <1>4, <1>5, <1>6, AnswersSpareTheRunning, AtWorkKept

\* A statement sent takes a step, and may have opened the connection of its transaction and database.
LEMMA MoveKeepsWork ==
  ASSUME Known, AtWork, NEW s \in Statements, stmtPc[s] # "unused", NEW p \in StmtPcs \ {"unused"},
         UNCHANGED <<stmt, callPc>>, stmtPc' = [stmtPc EXCEPT ![s] = p],
         stmtPc[s] \in Settled => p \in Settled,
         \A r \in Statements \ {s} : on'[r] = on[r],
         on'[s] # None => on'[s] = connectionRegistry'[stmt[s].transaction][stmt[s].database],
         p \in Early => on'[s] = None, p \in {"running", "open"} => on'[s] # None,
         \A t \in Calls : cursors[t] \subseteq cursors'[t], p = "open" => s \in cursors'[stmt[s].transaction],
         \/ UNCHANGED connectionRegistry
         \/ /\ connectionRegistry[stmt[s].transaction][stmt[s].database] = None
            /\ connectionRegistry' = [connectionRegistry EXCEPT ![stmt[s].transaction][stmt[s].database] = s],
         \A k \in Statements : session'[k] # "broken" /\ (k \in Opened => k \in Opened'),
         released' \subseteq released
  PROVE  AtWork'
<1> DEFINE t == stmt[s].transaction
           d == stmt[s].database
<1>1. stmtPc'[s] = p /\ \A r \in Statements \ {s} : stmtPc'[r] = stmtPc[r]
  BY DEF Known, TypeOK
<1>2. t \in Calls /\ d \in Databases /\ \A r \in Statements : stmtPc[r] # "unused" =>
        stmt[r].transaction \in Calls /\ stmt[r].database \in Databases
  BY SentWhere
<1>3. \A u \in Calls, e \in Databases :
        \/ connectionRegistry'[u][e] = connectionRegistry[u][e]
        \/ u = t /\ e = d /\ connectionRegistry[u][e] = None /\ connectionRegistry'[u][e] = s
  <2>1. connectionRegistry \in [Calls -> [Databases -> Statements \cup {None}]]
    BY DEF Known, TypeOK
  <2>2. CASE UNCHANGED connectionRegistry
    BY <2>2
  <2>3. CASE /\ connectionRegistry[t][d] = None
             /\ connectionRegistry' = [connectionRegistry EXCEPT ![t][d] = s]
    <3> HIDE DEF t, d
    <3> QED BY <1>2, <2>1, <2>3
  <2> QED BY <2>2, <2>3
<1>4. SenderRuns'
  BY <1>1 DEF AtWork, SenderRuns
<1>5. RegisteredWhereSent'
  <2> SUFFICES ASSUME NEW u \in Calls, NEW e \in Databases, connectionRegistry'[u][e] # None
               PROVE  LET k == connectionRegistry'[u][e] IN
                      stmtPc'[k] # "unused" /\ stmt[k].transaction = u /\ stmt[k].database = e
    BY DEF RegisteredWhereSent
  <2>1. CASE connectionRegistry'[u][e] = connectionRegistry[u][e]
    <3>1. connectionRegistry[u][e] \in Statements
      BY <2>1 DEF Known, TypeOK
    <3> QED BY <1>1, <2>1, <3>1 DEF AtWork, RegisteredWhereSent
  <2>2. CASE u = t /\ e = d /\ connectionRegistry'[u][e] = s
    BY <1>1, <2>2
  <2> QED BY <1>3, <2>1, <2>2
<1>6. OnItsConnection'
  <2> SUFFICES ASSUME NEW r \in Statements
               PROVE  /\ on'[r] # None => /\ stmtPc'[r] # "unused"
                                          /\ on'[r] = connectionRegistry'[stmt[r].transaction][stmt[r].database]
                      /\ stmtPc'[r] \in Early => on'[r] = None
                      /\ stmtPc'[r] \in {"running", "open"} => on'[r] # None
                      /\ stmtPc'[r] = "open" => r \in cursors'[stmt[r].transaction]
    BY DEF OnItsConnection
  <2>1. CASE r = s
    BY <1>1, <2>1
  <2>2. CASE r # s
    <3>1. on'[r] = on[r] /\ stmtPc'[r] = stmtPc[r]
      BY <1>1, <2>2
    <3>2. on[r] # None => on[r] = connectionRegistry'[stmt[r].transaction][stmt[r].database]
      BY <1>2, <1>3 DEF AtWork, OnItsConnection
    <3> QED BY <1>2, <3>1, <3>2 DEF AtWork, OnItsConnection
  <2> QED BY <2>1, <2>2
<1>7. Unbroken'
  BY DEF AtWork, Unbroken, Opened
<1> QED BY <1>4, <1>5, <1>6, <1>7 DEF AtWork

LEMMA IssueKeepsWork ==
  ASSUME Structured, Known, AtWork, NEW s \in Statements, NEW c \in Calls, NEW d \in Databases, NEW cursor \in BOOLEAN,
         Issue(s, c, d, cursor)
  PROVE  AtWork'
<1>1. /\ stmtPc[s] = "unused" /\ stmtPc'[s] \in {"failed", "connecting", "queued"} /\ stmt'[s].caller = c
      /\ \A r \in Statements \ {s} : stmtPc'[r] = stmtPc[r] /\ stmt'[r] = stmt[r]
  BY DEF Issue, Known, TypeOK
<1>2. callPc[c] = "running" /\ UNCHANGED <<on, cursors, connectionRegistry, callPc, session, released>>
  BY DEF Issue, connVars, callVars, dataVars
<1>3. SenderRuns'
  BY <1>1, <1>2 DEF AtWork, SenderRuns
<1>4. RegisteredWhereSent'
  <2> SUFFICES ASSUME NEW u \in Calls, NEW e \in Databases, connectionRegistry[u][e] # None
               PROVE  LET k == connectionRegistry[u][e] IN
                      stmtPc'[k] # "unused" /\ stmt'[k].transaction = u /\ stmt'[k].database = e
    BY <1>2 DEF RegisteredWhereSent
  <2>1. connectionRegistry[u][e] \in Statements \ {s}
    BY <1>1 DEF Known, TypeOK, AtWork, RegisteredWhereSent
  <2> QED BY <1>1, <2>1 DEF AtWork, RegisteredWhereSent
<1>5. OnItsConnection'
  <2>1. on[s] = None
    BY <1>1 DEF AtWork, OnItsConnection, Early
  <2> QED BY <1>1, <1>2, <2>1 DEF AtWork, OnItsConnection
<1>6. Unbroken'
  BY <1>2 DEF AtWork, Unbroken, Opened
<1> QED BY <1>3, <1>4, <1>5, <1>6 DEF AtWork

LEMMA StatementKeepsWork ==
  ASSUME Structured, NothingRefused, Known, AtWork, NEW s \in Statements, StatementStep(s)
  PROVE  AtWork'
<1> DEFINE t == stmt[s].transaction
           d == stmt[s].database
<1>1. \A k \in Statements : session'[k] # "broken"
  BY NobodyBreaks DEF Next
<1>2. CASE \E c \in Calls, e \in Databases, cursor \in BOOLEAN : Issue(s, c, e, cursor)
  BY <1>2, IssueKeepsWork
<1>3. CASE Acquire(s)
  <2>1. stmtPc[s] = "queued" /\ UNCHANGED <<stmt, callPc, cursors, connectionRegistry, session, released>>
    BY <1>3 DEF Acquire, callVars, dataVars
  <2>2. on[s] = None /\ t \in Calls /\ d \in Databases
    BY <2>1, SentWhere DEF AtWork, OnItsConnection, Early
  <2>3. CASE connectionRegistry[t][d] # None
    <3>1. stmtPc' = [stmtPc EXCEPT ![s] = "running"] /\ on' = [on EXCEPT ![s] = connectionRegistry[t][d]]
      BY <1>3, <2>3 DEF Acquire
    <3>2. on'[s] = connectionRegistry[t][d] /\ \A r \in Statements \ {s} : on'[r] = on[r]
      BY <3>1 DEF Known, TypeOK
    <3> QED BY <1>1, <2>1, <2>3, <3>1, <3>2, MoveKeepsWork DEF StmtPcs, Settled, Early, Opened
  <2>4. CASE connectionRegistry[t][d] = None
    <3>1. stmtPc' = [stmtPc EXCEPT ![s] = "connecting"] /\ UNCHANGED on
      BY <1>3, <2>4 DEF Acquire
    <3> QED BY <1>1, <2>1, <2>2, <3>1, MoveKeepsWork DEF StmtPcs, Settled, Early, Opened
  <2> QED BY <2>3, <2>4
<1>4. CASE Connected(s)
  <2>1. stmtPc[s] = "connecting" /\ UNCHANGED <<stmt, callPc, cursors, released>>
    BY <1>4 DEF Connected, callVars
  <2>2. on[s] = None /\ t \in Calls /\ d \in Databases /\ Transactional(s)
    BY <2>1, SentWhere DEF AtWork, OnItsConnection, Early
  <2>3. /\ connectionRegistry[t][d] = None
        /\ connectionRegistry' = [connectionRegistry EXCEPT ![t][d] = s]
        /\ connectionRegistry'[t][d] = s /\ s # None
    BY <1>4, <2>1, <2>2, ConstantsAssumption DEF Connected, Known, MutexGuardsRegistry, MutexHeld, TypeOK
  <2>4. \E p \in {"running", "failed", "starting"} :
          /\ stmtPc' = [stmtPc EXCEPT ![s] = p]
          /\ on' = IF p = "running" THEN [on EXCEPT ![s] = s] ELSE on
    BY <1>4 DEF Connected
  <2>5. PICK p \in {"running", "failed", "starting"} :
          /\ stmtPc' = [stmtPc EXCEPT ![s] = p]
          /\ on'[s] = IF p = "running" THEN s ELSE None
          /\ \A r \in Statements \ {s} : on'[r] = on[r]
    BY <2>2, <2>4 DEF Known, TypeOK
  <2>6. \A k \in Opened : k \in Opened'
    BY <1>4 DEF Connected, Opened, Known, TypeOK
  <2> QED BY <1>1, <2>1, <2>3, <2>5, <2>6, MoveKeepsWork DEF StmtPcs, Settled, Early
<1>5. CASE ConnectFails(s) \/ BeginFails(s)
  <2>1. stmtPc[s] \in {"connecting", "starting"} /\ UNCHANGED <<stmt, on, cursors, callPc, connectionRegistry, released>>
    BY <1>5 DEF ConnectFails, BeginFails, callVars, dataVars
  <2>2. stmtPc' = [stmtPc EXCEPT ![s] = "failed"] /\ on[s] = None
    BY <1>5, <2>1 DEF ConnectFails, BeginFails, AtWork, OnItsConnection, Early
  <2>3. \A k \in Opened : k \in Opened'
    BY <1>5 DEF ConnectFails, BeginFails, Opened, Known, TypeOK, dataVars
  <2> QED BY <1>1, <2>1, <2>2, <2>3, MoveKeepsWork DEF StmtPcs, Settled, Early
<1>6. CASE Began(s)
  <2>1. stmtPc[s] = "starting" /\ UNCHANGED <<stmt, cursors, callPc, connectionRegistry, released>>
    BY <1>6 DEF Began, callVars
  <2>2. connectionRegistry[t][d] = s /\ s # None
    BY <2>1, ConstantsAssumption DEF Known, MutexGuardsRegistry, OpenedOnTheWay, OpenedIsRegistered
  <2>3. stmtPc' = [stmtPc EXCEPT ![s] = "running"] /\ on'[s] = s /\ \A r \in Statements \ {s} : on'[r] = on[r]
    BY <1>6 DEF Began, Known, TypeOK
  <2>4. \A k \in Opened : k \in Opened'
    BY <1>6 DEF Began, Opened, Known, TypeOK
  <2> QED BY <1>1, <2>1, <2>2, <2>3, <2>4, MoveKeepsWork DEF StmtPcs, Settled, Early
<1>7. ~RunOnItsOwn(s)
  BY SentWhere DEF RunOnItsOwn
<1>8. CASE Executed(s)
  <2>1. stmtPc[s] = "running" /\ UNCHANGED <<stmt, on, callPc, connectionRegistry, session, released>>
    BY <1>8 DEF Executed, callVars, connVars
  <2>2. on[s] # None /\ on[s] = connectionRegistry[t][d] /\ t \in Calls
    BY <2>1, SentWhere DEF AtWork, OnItsConnection
  <2>3. PICK p \in {"open", "ok"} :
          /\ stmtPc' = [stmtPc EXCEPT ![s] = p]
          /\ cursors' = IF p = "open" THEN [cursors EXCEPT ![t] = @ \cup {s}] ELSE cursors
    BY <1>8 DEF Executed
  <2>4. (\A u \in Calls : cursors[u] \subseteq cursors'[u]) /\ (p = "open" => s \in cursors'[t])
    BY <2>2, <2>3 DEF Known, TypeOK
  <2> QED BY <1>1, <2>1, <2>2, <2>3, <2>4, MoveKeepsWork DEF StmtPcs, Settled, Early, Opened
<1>9. CASE StatementFails(s)
  <2>1. stmtPc[s] = "running" /\ UNCHANGED <<stmt, on, cursors, callPc, connectionRegistry, released>>
    BY <1>9 DEF StatementFails, callVars, connVars
  <2>2. on[s] # None /\ on[s] = connectionRegistry[t][d]
    BY <2>1 DEF AtWork, OnItsConnection
  <2>3. stmtPc' = [stmtPc EXCEPT ![s] = "failed"]
    BY <1>9 DEF StatementFails
  <2>4. \A k \in Opened : k \in Opened'
    <3>1. \A e \in AfterFailure(on[s]) : session[on[s]] # "none" => e # "none"
      BY DEF AfterFailure, Noticed
    <3> QED BY <1>9, <3>1 DEF StatementFails, Opened, Known, TypeOK
  <2> QED BY <1>1, <2>1, <2>2, <2>3, <2>4, MoveKeepsWork DEF StmtPcs, Settled, Early
<1>10. CASE ReadToEnd(s) \/ Break(s)
  <2>1. UNCHANGED <<stmt, on, connectionRegistry, cursors, released, callPc>>
    BY <1>10 DEF ReadToEnd, Break, callVars, connVars, stmtVars, dataVars
  <2>2. \A r \in Statements : stmtPc'[r] = stmtPc[r] \/ (stmtPc[r] = "open" /\ stmtPc'[r] = "ok")
    BY <1>10 DEF ReadToEnd, Break, stmtVars, Known, TypeOK
  <2>3. \A k \in Statements : session'[k] = "none" <=> session[k] = "none"
    BY <1>10 DEF ReadToEnd, Break, dataVars, Known, TypeOK
  <2> QED BY <1>1, <2>1, <2>2, <2>3, AtWorkKept
<1> QED
  BY <1>2, <1>3, <1>4, <1>5, <1>6, <1>7, <1>8, <1>9, <1>10 DEF StatementStep

-----------------------------------------------------------------------------
(* Calls and their root.                                                    *)

Begun(c) == callPc[c] # "idle"

\* The calls of a transaction: the one that made it, one that is root, and those these called.
TopIsRoot == \A c \in Calls : Begun(c) => (frame[c].isRoot <=> frame[c].caller = None)
CallerShares ==
  \A c \in Calls : Begun(c) /\ frame[c].caller # None =>
    Begun(frame[c].caller) /\ frame[frame[c].caller].transaction = frame[c].transaction
HasRoot ==
  \A o \in Calls : Begun(o) => Begun(frame[o].transaction) /\ \E c \in Calls : Root(c, frame[o].transaction)

Rooted == OneRoot /\ NoDeadTransaction /\ TopIsRoot /\ CallerShares /\ HasRoot

LEMMA RootedAtFirst == Init => Rooted
  BY ConstantsAssumption
  DEF Init, Rooted, OneRoot, NoDeadTransaction, TopIsRoot, CallerShares, HasRoot, Root, Begun

\* Who runs has its root running too.
LEMMA RootRuns ==
  ASSUME Known, Rooted, NEW o \in Calls, callPc[o] = "running", NEW c \in Calls, Root(c, frame[o].transaction)
  PROVE  callPc[c] = "running"
<1> DEFINE t == frame[o].transaction
<1>1. Active(o) /\ t \in Calls /\ frame[o].context \in Contexts
  BY DEF Active, Known, TypeOK, Frame
<1>2. currentTransaction[frame[o].context] = t
  BY <1>1 DEF Known, Tree, HeldMeanwhile
<1>3. Active(c)
  <2>1. PICK b \in Calls : Root(b, t) /\ Active(b)
    BY <1>1, <1>2 DEF Rooted, NoDeadTransaction
  <2> QED BY <1>1, <2>1 DEF Rooted, OneRoot
<1>4. frame[c].context = frame[o].context
  BY <1>1, <1>3, OneContext DEF Root, Known
<1>5. CASE callPc[c] # "running"
  BY <1>1, <1>3, <1>4, <1>5, NothingRuns DEF Known
<1> QED BY <1>5

\* A step by which no call begins, and none that is root ends.
LEMMA RootsKept ==
  ASSUME Known, Rooted, UNCHANGED <<currentTransaction, frame>>,
         \A o \in Calls : callPc'[o] = "idle" <=> callPc[o] = "idle",
         \A o \in Calls : Active(o) /\ frame[o].isRoot => Active(o)'
  PROVE  Rooted'
<1>1. \A o, t \in Calls : Root(o, t)' <=> Root(o, t)
  BY DEF Root
<1>2. OneRoot'
  BY <1>1 DEF Rooted, OneRoot
<1>3. NoDeadTransaction'
  <2> SUFFICES ASSUME NEW x \in Contexts, NEW t \in Calls, currentTransaction[x] = t
               PROVE  \E c \in Calls : Root(c, t)' /\ Active(c)'
    BY DEF NoDeadTransaction
  <2>1. PICK c \in Calls : Root(c, t) /\ Active(c)
    BY DEF Rooted, NoDeadTransaction
  <2> QED BY <1>1, <2>1 DEF Root
<1>4. \A c \in Calls : Begun(c)' <=> Begun(c)
  BY DEF Begun
<1>5. \A c \in Calls : Begun(c) =>
        frame[c].transaction \in Calls /\ (frame[c].caller # None => frame[c].caller \in Calls)
  BY DEF Begun, Known, TypeOK, Frame
<1>6. TopIsRoot' /\ CallerShares' /\ HasRoot'
  BY <1>1, <1>4, <1>5 DEF Rooted, TopIsRoot, CallerShares, HasRoot
<1> QED BY <1>2, <1>3, <1>6 DEF Rooted

\* A call that begins on top makes its transaction, as no context holds one whose root has ended; any other joins one.
LEMMA BeginsRooted ==
  ASSUME Structured, Known, Rooted, NEW c \in Calls, NEW x \in Contexts, NEW p \in Calls \cup {None},
         RunInTransaction(c, x, p)
  PROVE  Rooted'
<1>0. PICK t \in Calls : t = IF currentTransaction[x] = None THEN c ELSE currentTransaction[x]
  BY DEF Known, TypeOK
<1> DEFINE f == [context |-> x, transaction |-> t, caller |-> p, isRoot |-> IsRoot(t)]
<1>1. /\ callPc[c] = "idle" /\ callPc' = [callPc EXCEPT ![c] = "running"]
      /\ frame' = [frame EXCEPT ![c] = f]
      /\ currentTransaction' = [currentTransaction EXCEPT ![x] = t]
      /\ p = None => \A o \in Calls : Active(o) => frame[o].context # x
      /\ p # None => callPc[p] = "running" /\ frame[p].context = x
  BY <1>0 DEF RunInTransaction, Structured
<1>2. \A o \in Calls : /\ o # c => frame'[o] = frame[o] /\ callPc'[o] = callPc[o]
                       /\ o = c => frame'[o] = f /\ callPc'[o] = "running"
  BY <1>1 DEF Known, TypeOK
<1>3. f.context = x /\ f.transaction = t /\ f.caller = p /\ f.isRoot = IsRoot(t)
  OBVIOUS
<1> HIDE DEF f
<1>4. p # None => /\ p \in Calls /\ p # c /\ Active(p) /\ frame[p].transaction = t
                  /\ currentTransaction[x] = t
  <2> SUFFICES ASSUME p # None PROVE p \in Calls /\ p # c /\ Active(p) /\ frame[p].transaction = t
                                     /\ currentTransaction[x] = t
    OBVIOUS
  <2>1. p \in Calls /\ p # c /\ Active(p)
    BY <1>1 DEF Active
  <2>2. currentTransaction[x] = frame[p].transaction /\ frame[p].transaction \in Calls
    BY <1>1, <2>1 DEF Known, Tree, HeldMeanwhile, TypeOK, Frame, Active
  <2> QED BY <1>0, <2>1, <2>2, ConstantsAssumption
<1>5. p = None => t = c
  <2> SUFFICES ASSUME p = None, currentTransaction[x] = t, t # c PROVE FALSE
    BY <1>0
  <2>1. PICK b \in Calls : Root(b, t) /\ Active(b)
    BY DEF Rooted, NoDeadTransaction
  <2>2. frame[b].context \in Contexts /\ currentTransaction[frame[b].context] = t
    BY <2>1 DEF Root, Known, Tree, HeldMeanwhile, TypeOK, Frame, Active
  <2>3. frame[b].context = x
    BY <2>2 DEF Known, Tree, HeldByOne
  <2> QED BY <1>1, <2>1, <2>3
<1>6. \A o \in Calls : Begun(o) => frame[o].transaction # c
  BY <1>1 DEF Begun, Rooted, HasRoot
<1>7. IsRoot(t) <=> p = None
  <2>1. CASE p = None
    <3>1. Running(c) = {}
      BY <1>6 DEF Running, Begun
    <3> QED BY <1>5, <2>1, <3>1, FS_EmptySet DEF IsRoot, Known, Tree, Counted
  <2>2. CASE p # None
    <3>1. p \in Running(t)
      BY <1>1, <1>4, <2>2 DEF Running
    <3> QED BY <2>2, <3>1, FS_EmptySet DEF IsRoot, Known, Tree, Counted
  <2> QED BY <2>1, <2>2
<1>8. p # None => t # c
  BY <1>4, <1>6 DEF Begun, Active
<1>9. \A o \in Calls : Begun(o)' <=> Begun(o) \/ o = c
  BY <1>1, <1>2 DEF Begun
<1>10. \A b, u \in Calls : Root(b, u)' <=> Root(b, u) \/ (b = c /\ u = t /\ p = None)
  BY <1>1, <1>2, <1>3, <1>7 DEF Root
<1>11. OneRoot'
  BY <1>5, <1>6, <1>10 DEF Rooted, OneRoot, Root, Begun
<1>12. \A o \in Calls : Begun(o) => /\ frame[o].transaction \in Calls
                                    /\ frame[o].caller # None => frame[o].caller \in Calls
  BY DEF Begun, Known, TypeOK, Frame
<1>13. NoDeadTransaction'
  <2> SUFFICES ASSUME NEW y \in Contexts, NEW u \in Calls, currentTransaction'[y] = u
               PROVE  \E b \in Calls : Root(b, u)' /\ Active(b)'
    BY DEF NoDeadTransaction
  <2>1. CASE currentTransaction[y] = u
    <3>1. PICK b \in Calls : Root(b, u) /\ Active(b)
      BY <2>1 DEF Rooted, NoDeadTransaction
    <3>2. Active(b)'
      BY <1>2, <3>1 DEF Active
    <3> QED BY <1>10, <3>1, <3>2
  <2>2. CASE currentTransaction[y] # u
    <3>1. y = x /\ u = t /\ p = None
      BY <1>1, <1>4, <2>2 DEF Known, TypeOK
    <3>2. Active(c)'
      BY <1>2 DEF Active
    <3> QED BY <1>10, <3>1, <3>2
  <2> QED BY <2>1, <2>2
<1>14. TopIsRoot'
  BY <1>2, <1>3, <1>7, <1>9 DEF Rooted, TopIsRoot
<1>15. CallerShares'
  <2> SUFFICES ASSUME NEW o \in Calls, Begun(o)', frame'[o].caller # None
               PROVE  callPc'[frame'[o].caller] # "idle" /\ frame'[frame'[o].caller].transaction = frame'[o].transaction
    BY DEF CallerShares, Begun
  <2>1. CASE o = c
    <3>1. frame'[o].caller = p /\ p # None /\ frame'[o].transaction = t
      BY <1>2, <1>3, <2>1
    <3>2. callPc'[p] # "idle" /\ frame'[p].transaction = t
      BY <1>2, <1>4, <3>1 DEF Active
    <3> QED BY <3>1, <3>2
  <2>2. CASE o # c
    <3>1. Begun(o) /\ frame'[o] = frame[o] /\ frame[o].caller \in Calls
      BY <1>2, <1>9, <1>12, <2>2
    <3>2. Begun(frame[o].caller) /\ frame[frame[o].caller].transaction = frame[o].transaction
      BY <2>2, <3>1 DEF Rooted, CallerShares
    <3>3. frame[o].caller # c
      BY <1>1, <3>2 DEF Begun
    <3> QED BY <1>2, <3>1, <3>2, <3>3 DEF Begun
  <2> QED BY <2>1, <2>2
<1>16. HasRoot'
  <2> SUFFICES ASSUME NEW o \in Calls, Begun(o)', NEW u, u = frame'[o].transaction
               PROVE  callPc'[u] # "idle" /\ \E b \in Calls : Root(b, u)'
    <3>1. \A o \in Calls : Begun(o)' =>
            \E u : u = frame'[o].transaction /\ callPc'[u] # "idle" /\ \E b \in Calls : Root(b, u)'
      OBVIOUS
    <3> QED BY <3>1 DEF HasRoot, Begun, Root
  <2>1. ASSUME NEW q \in Calls, Begun(q), frame[q].transaction = u
        PROVE  callPc'[u] # "idle" /\ \E b \in Calls : Root(b, u)'
    <3>1. u \in Calls
      BY <1>12, <2>1
    <3>2. Begun(u) /\ \E b \in Calls : Root(b, u)
      BY <2>1 DEF Rooted, HasRoot
    <3> QED BY <1>9, <1>10, <3>1, <3>2 DEF Begun
  <2>2. CASE o = c
    <3>1. u = t
      BY <1>2, <1>3, <2>2
    <3>2. CASE p = None
      BY <1>2, <1>5, <1>10, <3>1, <3>2
    <3>3. CASE p # None
      BY <1>4, <2>1, <3>1, <3>3 DEF Active, Begun
    <3> QED BY <3>2, <3>3
  <2>3. CASE o # c
    BY <1>2, <1>9, <2>1, <2>3
  <2> QED BY <2>2, <2>3
<1> QED BY <1>11, <1>13, <1>14, <1>15, <1>16 DEF Rooted

\* The root that ends takes its transaction out of its context, and no other context holds it.
LEMMA EndsRooted ==
  ASSUME Known, Rooted, NEW c \in Calls, ReleaseClient(c)
  PROVE  Rooted'
<1>1. /\ callPc' = [callPc EXCEPT ![c] = "done"] /\ callPc[c] = "releasing"
      /\ currentTransaction' = [currentTransaction EXCEPT ![frame[c].context] = None]
      /\ UNCHANGED frame
  BY DEF ReleaseClient, Cleared
<1>2. Active(c) /\ frame[c].context \in Contexts
  BY <1>1 DEF Known, TypeOK, Frame, Active
<1>3. \A o \in Calls : (callPc'[o] = "idle" <=> callPc[o] = "idle") /\ (o # c => (Active(o)' <=> Active(o)))
  BY <1>1 DEF Known, TypeOK, Active
<1>4. \A o, t \in Calls : Root(o, t)' <=> Root(o, t)
  BY <1>1, <1>3 DEF Root
<1>5. OneRoot'
  BY <1>4 DEF Rooted, OneRoot
<1>6. NoDeadTransaction'
  <2> SUFFICES ASSUME NEW x \in Contexts, NEW t \in Calls, currentTransaction'[x] = t
               PROVE  \E b \in Calls : Root(b, t)' /\ Active(b)'
    BY DEF NoDeadTransaction
  <2>1. currentTransaction[x] = t /\ x # frame[c].context
    BY <1>1, <1>2, ConstantsAssumption DEF Known, TypeOK
  <2>2. PICK b \in Calls : Root(b, t) /\ Active(b)
    BY <2>1 DEF Rooted, NoDeadTransaction
  <2>3. frame[b].context \in Contexts /\ currentTransaction[frame[b].context] = t
    BY <2>2 DEF Root, Known, Tree, HeldMeanwhile, TypeOK, Frame, Active
  <2>4. b # c
    BY <2>1, <2>3 DEF Known, Tree, HeldByOne
  <2> QED BY <1>3, <1>4, <2>2, <2>4
<1>7. \A o \in Calls : Begun(o)' <=> Begun(o)
  BY <1>3 DEF Begun
<1>8. \A o \in Calls : Begun(o) => /\ frame[o].transaction \in Calls
                                   /\ frame[o].caller # None => frame[o].caller \in Calls
  BY DEF Begun, Known, TypeOK, Frame
<1>9. TopIsRoot' /\ CallerShares' /\ HasRoot'
  BY <1>1, <1>4, <1>7, <1>8 DEF Rooted, TopIsRoot, CallerShares, HasRoot
<1> QED BY <1>5, <1>6, <1>9 DEF Rooted

-----------------------------------------------------------------------------
(* How a root ends.                                                         *)

Mine(c) == ConnectionsOf(frame[c].transaction)

\* A root asks one thing of its connections at a time, but for the commits still unanswered as it turns to rolling back.
AsksItsOwn(c) ==
  /\ callPc[c] \in {"running", "closing", "done"} => sent[c] = {}
  /\ callPc[c] = "committing" => sent[c] \subseteq {"commit"} \X Mine(c)
  /\ callPc[c] = "rollingBack" =>
       /\ sent[c] \subseteq {"commit", "rollback"} \X Mine(c)
       /\ \A k \in Mine(c) :
            <<"commit", k>> \in sent[c] => <<"rollback", k>> \in sent[c] /\ EngineOf(k) # "NEO4J"
  /\ callPc[c] = "releasing" => sent[c] \subseteq {"release"} \X Mine(c)

\* A connection is given back as its release is answered, not before and not twice.
GivesBack(c) ==
  \A k \in Mine(c) :
    k \in released <=> callPc[c] = "done" \/ (callPc[c] = "releasing" /\ <<"release", k>> \notin sent[c])

\* A connection is ended once: no commit of an ended one is unanswered, nor a rollback that would be refused.
EndsOnce(c) ==
  \A k \in Mine(c) : session[k] = "ended" =>
    /\ callPc[c] \notin {"running", "closing"}
    /\ <<"commit", k>> \notin sent[c]
    /\ EngineOf(k) = "NEO4J" => <<"rollback", k>> \notin sent[c]

\* Cursors are closed before the commit, or with the connection of a method that threw.
ClosesCursors(c) ==
  \A s \in Statements : stmtPc[s] = "open" /\ stmt[s].transaction = frame[c].transaction =>
    /\ callPc[c] \notin {"committing", "done"}
    /\ callPc[c] \in {"rollingBack", "releasing"} => outcome[c] = "threw"
    /\ callPc[c] = "releasing" => on[s] \notin released

Ends(c) == AsksItsOwn(c) /\ GivesBack(c) /\ EndsOnce(c) /\ ClosesCursors(c)
IsRootCall(c) == Begun(c) /\ frame[c].isRoot
RootsEnd == \A c \in Calls : IF IsRootCall(c) THEN Ends(c) ELSE sent[c] = {}

InHand == AtWork /\ Rooted /\ RootsEnd

LEMMA RootsEndAtFirst == Init => RootsEnd
  BY DEF Init, RootsEnd, IsRootCall, Begun

\* A root is its transaction's, and its connections are no other root's.
LEMMA RootsApart ==
  ASSUME Known, InHand, NEW b \in Calls, IsRootCall(b), NEW c \in Calls, IsRootCall(c), b # c
  PROVE  frame[b].transaction # frame[c].transaction /\ Mine(b) \cap Mine(c) = {}
<1>1. frame[b].transaction \in Calls /\ frame[c].transaction \in Calls
  BY DEF Known, TypeOK, Frame, IsRootCall, Begun
<1>2. frame[b].transaction # frame[c].transaction
  BY <1>1 DEF InHand, Rooted, OneRoot, Root, IsRootCall, Begun
<1>3. \A k \in Mine(b) : stmt[k].transaction = frame[b].transaction
  BY <1>1 DEF InHand, AtWork, RegisteredWhereSent, Mine, ConnectionsOf
<1>4. \A k \in Mine(c) : stmt[k].transaction = frame[c].transaction
  BY <1>1 DEF InHand, AtWork, RegisteredWhereSent, Mine, ConnectionsOf
<1> QED BY <1>2, <1>3, <1>4

\* A connection of a root, and what is known of it.
LEMMA MineIs ==
  ASSUME Known, InHand, NEW c \in Calls, Begun(c), NEW k \in Mine(c)
  PROVE  /\ k \in Opened /\ k \in Statements /\ stmtPc[k] # "unused" /\ frame[c].transaction \in Calls
         /\ stmt[k].transaction = frame[c].transaction /\ stmt[k].database \in Databases
         /\ connectionRegistry[frame[c].transaction][stmt[k].database] = k
<1>1. frame[c].transaction \in Calls
  BY DEF Known, TypeOK, Frame, Begun
<1>2. k \in Opened /\ stmt[k].transaction = frame[c].transaction /\ stmtPc[k] # "unused"
      /\ connectionRegistry[frame[c].transaction][stmt[k].database] = k
  BY <1>1 DEF InHand, AtWork, RegisteredWhereSent, Mine, ConnectionsOf, Known, MutexGuardsRegistry, RegisteredIsOpened
<1> QED BY <1>1, <1>2, OpenedWhere, SentWhere

\* A statement that runs, or a cursor open, is on a connection of its root.
LEMMA OnMine ==
  ASSUME Known, InHand, NEW c \in Calls, Begun(c), NEW s \in Statements, stmtPc[s] # "unused",
         stmt[s].transaction = frame[c].transaction, on[s] # None
  PROVE  on[s] \in Mine(c) /\ stmt[on[s]].database = stmt[s].database
<1>1. stmt[s].database \in Databases /\ stmt[s].transaction \in Calls
  BY SentWhere
<1>2. on[s] = connectionRegistry[stmt[s].transaction][stmt[s].database]
  BY DEF InHand, AtWork, OnItsConnection
<1> QED BY <1>1, <1>2 DEF Mine, ConnectionsOf, InHand, AtWork, RegisteredWhereSent

\* Who is asked something is asked by the root of its transaction, at the point of its end that asks it.
LEMMA WhoAsks ==
  ASSUME Known, InHand, NEW c \in Calls, NEW op, NEW k, <<op, k>> \in sent[c]
  PROVE  /\ IsRootCall(c) /\ Ends(c) /\ k \in Mine(c) /\ Active(c)
         /\ op = "commit" => callPc[c] \in {"committing", "rollingBack"}
         /\ op = "rollback" => callPc[c] = "rollingBack"
         /\ op = "release" => callPc[c] = "releasing"
<1>1. IsRootCall(c) /\ Ends(c)
  BY DEF InHand, RootsEnd
<1>2. callPc[c] \in CallPcs
  BY DEF Known, TypeOK
<1> QED BY <1>1, <1>2 DEF Ends, AsksItsOwn, IsRootCall, Begun, CallPcs, Active

\* No connection refuses.
LEMMA NobodyRefuses ==
  ASSUME NothingRefused, Known, InHand, NEW c \in Calls, NEW k \in Statements
  PROVE  ~RollbackFails(c, k) /\ ~ReleaseFails(c, k)
<1>1. ASSUME RollbackFails(c, k) PROVE FALSE
  <2>1. <<"rollback", k>> \in sent[c] /\ RollbackRefused(k)
    BY <1>1 DEF RollbackFails, RollbackDue
  <2>2. Ends(c) /\ k \in Mine(c) /\ callPc[c] = "rollingBack"
    BY <2>1, WhoAsks
  <2>3. session[k] # "broken" /\ k \notin released
    BY <2>2 DEF InHand, AtWork, Unbroken, Ends, GivesBack
  <2> QED BY <2>1, <2>2, <2>3 DEF RollbackRefused, Ends, EndsOnce
<1>2. ASSUME ReleaseFails(c, k) PROVE FALSE
  <2>1. <<"release", k>> \in sent[c]
    BY <1>2 DEF ReleaseFails
  <2>2. Ends(c) /\ k \in Mine(c) /\ callPc[c] = "releasing" /\ Begun(c)
    BY <2>1, WhoAsks DEF IsRootCall
  <2>3. k \notin released
    BY <2>1, <2>2 DEF Ends, GivesBack
  <2>4. stmt[k].database \in Databases
    BY <2>2, MineIs
  <2> QED BY <1>2, <2>3, <2>4 DEF ReleaseFails, Fault, EngineOf, NothingRefused
<1> QED BY <1>1, <1>2

\* What is done to the connections of another root leaves a root where it was.
LEMMA OtherEnds ==
  ASSUME Known, InHand, NEW b \in Calls, IsRootCall(b),
         frame'[b] = frame[b], callPc'[b] = callPc[b], sent'[b] = sent[b], outcome'[b] = outcome[b],
         UNCHANGED <<connectionRegistry, stmt, on>>,
         \A k \in Mine(b) : /\ session'[k] = "ended" => session[k] = "ended"
                            /\ k \in released' <=> k \in released,
         \A s \in Statements : stmtPc'[s] = "open" => stmtPc[s] = "open"
  PROVE  Ends(b)'
<1>1. Ends(b) /\ Mine(b)' = Mine(b)
  BY DEF InHand, RootsEnd, Mine, ConnectionsOf
<1>2. AsksItsOwn(b)' /\ GivesBack(b)' /\ EndsOnce(b)'
  BY <1>1 DEF Ends, AsksItsOwn, GivesBack, EndsOnce, EngineOf
<1>3. ClosesCursors(b)'
  <2> SUFFICES ASSUME NEW s \in Statements, stmtPc[s] = "open", stmt[s].transaction = frame[b].transaction
               PROVE  /\ callPc[b] \notin {"committing", "done"}
                      /\ callPc[b] \in {"rollingBack", "releasing"} => outcome[b] = "threw"
                      /\ callPc[b] = "releasing" => on[s] \notin released'
    BY DEF ClosesCursors
  <2>1. on[s] \in Mine(b)
    BY OnMine DEF InHand, AtWork, OnItsConnection, IsRootCall
  <2> QED BY <1>1, <2>1 DEF Ends, ClosesCursors
<1> QED BY <1>2, <1>3 DEF Ends

\* A step of one call, at its own end of its own connections.
LEMMA EndsApart ==
  ASSUME Known, InHand, NEW c \in Calls, Begun(c), UNCHANGED <<frame, connectionRegistry, stmt, on>>,
         \A o \in Calls : callPc'[o] = "idle" <=> callPc[o] = "idle",
         \A o \in Calls \ {c} : callPc'[o] = callPc[o] /\ sent'[o] = sent[o] /\ outcome'[o] = outcome[o],
         \A k \in Statements : \/ session'[k] = session[k] /\ (k \in released' <=> k \in released)
                               \/ IsRootCall(c) /\ k \in Mine(c),
         \A s \in Statements : stmtPc'[s] = "open" => stmtPc[s] = "open",
         IF IsRootCall(c) THEN Ends(c)' ELSE sent'[c] = sent[c]
  PROVE  RootsEnd'
<1> SUFFICES ASSUME NEW b \in Calls PROVE IF IsRootCall(b)' THEN Ends(b)' ELSE sent'[b] = {}
  BY DEF RootsEnd
<1>1. IsRootCall(b)' <=> IsRootCall(b)
  BY DEF IsRootCall, Begun
<1>2. CASE b = c
  BY <1>1, <1>2 DEF InHand, RootsEnd
<1>3. CASE b # c /\ ~IsRootCall(b)
  BY <1>1, <1>3 DEF InHand, RootsEnd
<1>4. CASE b # c /\ IsRootCall(b)
  <2>1. \A k \in Mine(b) : k \in Statements /\ (IsRootCall(c) => k \notin Mine(c))
    BY <1>4, MineIs, RootsApart DEF IsRootCall
  <2>2. \A k \in Mine(b) : session'[k] = session[k] /\ (k \in released' <=> k \in released)
    BY <2>1
  <2>3. callPc'[b] = callPc[b] /\ sent'[b] = sent[b] /\ outcome'[b] = outcome[b] /\ frame'[b] = frame[b]
    BY <1>4
  <2>4. Ends(b)'
    BY <1>4, <2>2, <2>3, OtherEnds
  <2> QED BY <1>1, <1>4, <2>4
<1> QED BY <1>2, <1>3, <1>4

\* What a root past its method, or ending it, makes of its requests.
LEMMA MovesAsk ==
  ASSUME Known, NEW c \in Calls, Begun(c), NEW op \in {"commit", "rollback", "release"}, NEW rest, Ask(c, op, rest)
  PROVE  /\ \A k : <<op, k>> \in sent'[c] <=> (<<op, k>> \in rest \/ k \in Mine(c))
         /\ \A p, k : p # op => (<<p, k>> \in sent'[c] <=> <<p, k>> \in rest)
         /\ sent'[c] = rest \cup ({op} \X Mine(c))
         /\ \A o \in Calls \ {c} : sent'[o] = sent[o]
<1>1. sent'[c] = rest \cup ({op} \X Mine(c)) /\ \A o \in Calls \ {c} : sent'[o] = sent[o]
  BY DEF Ask, Mine, Known, TypeOK
<1> QED BY <1>1

\* popContextWithError: the root that ends its method, its cursors or its commits rolls back.
LEMMA UnwindEnds ==
  ASSUME Known, InHand, NEW c \in Calls, Active(c), NEW rest, Unwind(c, rest), rest \subseteq sent[c],
         UNCHANGED <<frame, connectionRegistry, stmt, on, released, stmtPc>>,
         callPc[c] # "running" => IsRootCall(c),
         callPc[c] \in {"running", "closing", "committing"},
         IsRootCall(c) => \A k \in Mine(c) : session'[k] = "ended" =>
                             <<"commit", k>> \notin rest /\ EngineOf(k) # "NEO4J",
         IsRootCall(c) => \A k \in Mine(c) : <<"commit", k>> \in rest => EngineOf(k) # "NEO4J",
         \A k \in Statements : session'[k] = session[k] \/ (IsRootCall(c) /\ k \in Mine(c))
  PROVE  RootsEnd'
<1>1. Begun(c) /\ frame[c].isRoot \in BOOLEAN
  BY DEF Begun, Active, Known, TypeOK, Frame
<1>2. CASE ~frame[c].isRoot
  <2>1. /\ callPc' = [callPc EXCEPT ![c] = "done"]
        /\ outcome' = [outcome EXCEPT ![c] = "threw"]
        /\ sent' = sent
    BY <1>2 DEF Unwind
  <2>2. ~IsRootCall(c)
    BY <1>2 DEF IsRootCall
  <2>3. \A o \in Calls : callPc'[o] = "idle" <=> callPc[o] = "idle"
    BY <1>1, <2>1 DEF Begun, Known, TypeOK
  <2>4. \A o \in Calls \ {c} : callPc'[o] = callPc[o] /\ sent'[o] = sent[o] /\ outcome'[o] = outcome[o]
    BY <2>1 DEF Known, TypeOK
  <2> QED BY <1>1, <2>1, <2>2, <2>3, <2>4, EndsApart
<1>3. CASE frame[c].isRoot
  <2>1. /\ callPc' = [callPc EXCEPT ![c] = "rollingBack"]
        /\ outcome' = [outcome EXCEPT ![c] = "threw"]
        /\ Ask(c, "rollback", rest)
    BY <1>3 DEF Unwind
  <2>2. IsRootCall(c) /\ Ends(c) /\ Mine(c)' = Mine(c)
    BY <1>1, <1>3 DEF IsRootCall, InHand, RootsEnd, Mine, ConnectionsOf
  <2>3. callPc'[c] = "rollingBack" /\ outcome'[c] = "threw"
    BY <2>1 DEF Known, TypeOK
  <2>4. \A o \in Calls : callPc'[o] = "idle" <=> callPc[o] = "idle"
    BY <1>1, <2>1 DEF Begun, Known, TypeOK
  <2>5. /\ \A k : <<"rollback", k>> \in sent'[c] <=> (<<"rollback", k>> \in rest \/ k \in Mine(c))
        /\ \A p, k : p # "rollback" => (<<p, k>> \in sent'[c] <=> <<p, k>> \in rest)
        /\ sent'[c] = rest \cup ({"rollback"} \X Mine(c))
        /\ \A o \in Calls \ {c} : sent'[o] = sent[o]
    BY <1>1, <2>1, MovesAsk
  <2>6. \A o \in Calls \ {c} : callPc'[o] = callPc[o] /\ sent'[o] = sent[o] /\ outcome'[o] = outcome[o]
    BY <2>1, <2>5 DEF Known, TypeOK
  <2>7. rest \subseteq {"commit"} \X Mine(c)
    BY <2>2 DEF Ends, AsksItsOwn
  <2>8. AsksItsOwn(c)'
    BY <2>2, <2>3, <2>5, <2>7 DEF AsksItsOwn, EngineOf
  <2>9. GivesBack(c)'
    BY <2>2, <2>3 DEF Ends, GivesBack
  <2>10. EndsOnce(c)'
    BY <2>2, <2>3, <2>5 DEF EndsOnce, EngineOf
  <2>11. ClosesCursors(c)'
    BY <2>3 DEF ClosesCursors
  <2>12. Ends(c)'
    BY <2>8, <2>9, <2>10, <2>11 DEF Ends
  <2>13. \A s \in Statements : stmtPc'[s] = "open" => stmtPc[s] = "open"
    OBVIOUS
  <2> QED BY <1>1, <2>2, <2>4, <2>6, <2>12, <2>13, EndsApart
<1> QED BY <1>1, <1>2, <1>3

\* A root begins with no connection and no cursor.
LEMMA BeginsToEnd ==
  ASSUME Structured, Known, InHand, NEW c \in Calls, NEW x \in Contexts, NEW p \in Calls \cup {None},
         RunInTransaction(c, x, p)
  PROVE  RootsEnd'
<1>0. PICK t \in Calls : t = IF currentTransaction[x] = None THEN c ELSE currentTransaction[x]
  BY DEF Known, TypeOK
<1>1. /\ callPc[c] = "idle" /\ callPc'[c] = "running"
      /\ frame'[c].transaction = t /\ frame'[c].context = x
      /\ \A o \in Calls \ {c} : callPc'[o] = callPc[o] /\ frame'[o] = frame[o]
  BY <1>0 DEF RunInTransaction, Known, TypeOK
<1>2. UNCHANGED <<sent, outcome, stmtPc, stmt, on, connectionRegistry, session, released>> /\ sent[c] = {}
  BY <1>1 DEF RunInTransaction, stmtVars, connVars, dataVars, Known, TypeOK
<1>3. Rooted'
  BY BeginsRooted DEF InHand
<1>4. ASSUME IsRootCall(c)' PROVE t = c
  <2> SUFFICES ASSUME t # c PROVE FALSE
    OBVIOUS
  <2>1. PICK b \in Calls : Root(b, t) /\ Active(b)
    BY <1>0 DEF InHand, Rooted, NoDeadTransaction
  <2>2. b # c /\ Root(b, t)'
    BY <1>1, <2>1 DEF Root, Active
  <2>3. Root(c, t)'
    BY <1>1, <1>4 DEF Root, IsRootCall
  <2> QED BY <1>3, <2>2, <2>3 DEF Rooted, OneRoot
<1>5. \A s \in Statements : stmtPc[s] # "unused" => stmt[s].transaction # c
  <2> SUFFICES ASSUME NEW s \in Statements, stmtPc[s] # "unused", stmt[s].transaction = c PROVE FALSE
    OBVIOUS
  <2>1. Begun(c)
    BY SentWhere DEF InHand, Rooted, HasRoot, Begun
  <2> QED BY <1>1, <2>1 DEF Begun
<1>6. ASSUME IsRootCall(c)' PROVE Ends(c)'
  <2>1. ASSUME NEW d \in Databases PROVE connectionRegistry[c][d] = None
    <3>1. connectionRegistry[c][d] \in Statements \cup {None}
      BY DEF Known, TypeOK
    <3> QED BY <1>5, <3>1 DEF InHand, AtWork, RegisteredWhereSent
  <2>2. Mine(c)' = {}
    BY <1>1, <1>2, <1>4, <1>6, <2>1 DEF Mine, ConnectionsOf
  <2>3. ClosesCursors(c)'
    BY <1>1, <1>2, <1>4, <1>5, <1>6 DEF ClosesCursors
  <2> QED BY <1>1, <1>2, <2>2, <2>3 DEF Ends, AsksItsOwn, GivesBack, EndsOnce
<1> SUFFICES ASSUME NEW b \in Calls PROVE IF IsRootCall(b)' THEN Ends(b)' ELSE sent'[b] = {}
  BY DEF RootsEnd
<1>7. CASE b = c
  BY <1>2, <1>6, <1>7
<1>8. CASE b # c
  <2>1. IsRootCall(b)' <=> IsRootCall(b)
    BY <1>1, <1>8 DEF IsRootCall, Begun
  <2>2. CASE IsRootCall(b)
    BY <1>1, <1>2, <1>8, <2>1, <2>2, OtherEnds
  <2> QED BY <1>2, <2>1, <2>2 DEF InHand, RootsEnd
<1> QED BY <1>7, <1>8

\* The other steps of a call.
LEMMA CallGoesOnToEnd ==
  ASSUME Structured, Known, InHand, NEW c \in Calls, CallStep(c),
         ~ \E x \in Contexts, p \in Calls \cup {None} : RunInTransaction(c, x, p)
  PROVE  RootsEnd'
<1>0. UNCHANGED <<frame, connectionRegistry, stmt, on, session, released>>
  BY DEF CallStep, MarkAsRollback, Throw, PopContext, CloseCursors, CloseCursorsFails, Release, ReleaseClient,
         callVars, connVars, stmtVars, dataVars
<1>1. callPc[c] # "idle" /\ callPc[c] # "done" /\ Active(c) /\ Begun(c)
  BY DEF CallStep, MarkAsRollback, Throw, PopContext, CloseCursors, CloseCursorsFails, Release, ReleaseClient,
         Active, Begun
<1>2. callPc[c] # "running" => IsRootCall(c)
  BY <1>1 DEF IsRootCall, Known, Tree, RootsOnTop
<1>3. IsRootCall(c) => Ends(c)
  BY DEF InHand, RootsEnd
<1>4. Mine(c)' = Mine(c) /\ frame[c].isRoot \in BOOLEAN
  BY <1>0, <1>1 DEF Mine, ConnectionsOf, Known, TypeOK, Frame, Begun
<1>5. CASE MarkAsRollback(c)
  <2>1. UNCHANGED <<callPc, sent, outcome, stmtPc>>
    BY <1>5 DEF MarkAsRollback, callVars, stmtVars
  <2>2. IsRootCall(c) => Ends(c)'
    BY <1>0, <1>3, <1>4, <2>1 DEF Ends, AsksItsOwn, GivesBack, EndsOnce, ClosesCursors, EngineOf
  <2> QED BY <1>0, <1>1, <2>1, <2>2, EndsApart
<1>6. CASE Throw(c) \/ CloseCursorsFails(c)
  <2>1. Unwind(c, sent[c]) /\ callPc[c] \in {"running", "closing"} /\ UNCHANGED stmtPc
    BY <1>6 DEF Throw, CloseCursorsFails, stmtVars
  <2>2. sent[c] = {} /\ (IsRootCall(c) => \A k \in Mine(c) : session[k] # "ended")
    BY <1>3, <2>1 DEF InHand, RootsEnd, Ends, AsksItsOwn, EndsOnce
  <2> QED BY <1>0, <1>1, <1>2, <2>1, <2>2, UnwindEnds
<1>7. CASE PopContext(c)
  <2>1. PICK pc \in {"closing", "done"} : /\ callPc' = [callPc EXCEPT ![c] = pc]
                                          /\ pc = "closing" <=> frame[c].isRoot
    BY <1>4, <1>7 DEF PopContext
  <2>2. /\ UNCHANGED <<sent, stmtPc>> /\ callPc[c] = "running"
        /\ \A o \in Calls \ {c} : outcome'[o] = outcome[o]
    BY <1>7 DEF PopContext, stmtVars, Known, TypeOK
  <2>3. /\ callPc'[c] = pc /\ \A o \in Calls \ {c} : callPc'[o] = callPc[o]
        /\ \A o \in Calls : callPc'[o] = "idle" <=> callPc[o] = "idle"
    BY <1>1, <2>1 DEF Known, TypeOK
  <2>4. ASSUME IsRootCall(c) PROVE Ends(c)'
    <3>1. callPc'[c] = "closing"
      BY <2>1, <2>3, <2>4 DEF IsRootCall
    <3> QED BY <1>0, <1>3, <1>4, <2>2, <2>4, <3>1 DEF Ends, AsksItsOwn, GivesBack, EndsOnce, ClosesCursors, EngineOf
  <2> QED BY <1>0, <1>1, <2>2, <2>3, <2>4, EndsApart
<1>8. CASE CloseCursors(c)
  <2>1. PICK op \in {"commit", "rollback"} :
          /\ Ask(c, op, sent[c])
          /\ callPc' = [callPc EXCEPT ![c] = IF op = "rollback" THEN "rollingBack" ELSE "committing"]
    BY <1>8 DEF CloseCursors, End
  <2>2. callPc[c] = "closing" /\ UNCHANGED outcome /\ stmtPc' = [s \in Statements |->
          IF s \in cursors[frame[c].transaction] /\ stmtPc[s] = "open" THEN "ok" ELSE stmtPc[s]]
    BY <1>8 DEF CloseCursors, Close
  <2>3. IsRootCall(c) /\ Ends(c) /\ sent[c] = {}
    BY <1>2, <1>3, <2>2 DEF Ends, AsksItsOwn
  <2>4. sent'[c] = {op} \X Mine(c) /\ \A o \in Calls \ {c} : sent'[o] = sent[o]
    BY <1>1, <2>1, <2>3, MovesAsk
  <2>5. /\ callPc'[c] = (IF op = "rollback" THEN "rollingBack" ELSE "committing")
        /\ \A o \in Calls \ {c} : callPc'[o] = callPc[o]
        /\ \A o \in Calls : callPc'[o] = "idle" <=> callPc[o] = "idle"
    BY <1>1, <2>1 DEF Known, TypeOK
  <2>6. AsksItsOwn(c)' /\ GivesBack(c)' /\ EndsOnce(c)'
    BY <1>0, <1>4, <2>2, <2>3, <2>4, <2>5 DEF Ends, AsksItsOwn, GivesBack, EndsOnce
  <2>7. \A s \in Statements : stmtPc'[s] = "open" => stmtPc[s] = "open" /\ s \notin cursors[frame[c].transaction]
    BY <2>2
  <2>8. ClosesCursors(c)'
    <3>1. \A s \in Statements : stmtPc[s] = "open" => s \in cursors[stmt[s].transaction]
      BY DEF InHand, AtWork, OnItsConnection
    <3> QED BY <1>0, <2>7, <3>1 DEF ClosesCursors
  <2>9. IsRootCall(c) /\ Ends(c)'
    BY <2>3, <2>6, <2>8 DEF Ends
  <2>10. /\ \A o \in Calls \ {c} : callPc'[o] = callPc[o] /\ sent'[o] = sent[o] /\ outcome'[o] = outcome[o]
         /\ \A s \in Statements : stmtPc'[s] = "open" => stmtPc[s] = "open"
    BY <2>2, <2>4, <2>5, <2>7
  <2> QED BY <1>0, <1>1, <2>5, <2>9, <2>10, EndsApart
<1>9. CASE Release(c)
  <2>1. /\ callPc[c] \in {"committing", "rollingBack"} /\ Ask(c, "release", sent[c])
        /\ callPc' = [callPc EXCEPT ![c] = "releasing"] /\ UNCHANGED <<outcome, stmtPc>>
        /\ callPc[c] = "committing" => Answered(c, "commit")
        /\ callPc[c] = "rollingBack" => Answered(c, "rollback")
    BY <1>9 DEF Release, stmtVars
  <2>2. IsRootCall(c) /\ Ends(c)
    BY <1>2, <1>3, <2>1
  <2>3. \A k \in Mine(c) : k \in Statements
    BY <1>1, MineIs
  <2>4. sent[c] = {}
    <3>1. ASSUME NEW r \in sent[c] PROVE FALSE
      <4>1. callPc[c] = "committing" => \E k \in Mine(c) : r = <<"commit", k>>
        BY <2>2 DEF Ends, AsksItsOwn
      <4>2. callPc[c] = "rollingBack" => \E k \in Mine(c) : r = <<"commit", k>> \/ r = <<"rollback", k>>
        BY <2>2 DEF Ends, AsksItsOwn
      <4>3. callPc[c] = "rollingBack" => \A k \in Mine(c) : <<"commit", k>> \in sent[c] => <<"rollback", k>> \in sent[c]
        BY <2>2 DEF Ends, AsksItsOwn
      <4> QED BY <2>1, <2>3, <4>1, <4>2, <4>3 DEF Answered
    <3> QED BY <3>1
  <2>5. sent'[c] = {"release"} \X Mine(c) /\ \A o \in Calls \ {c} : sent'[o] = sent[o]
    BY <1>1, <2>1, <2>4, MovesAsk
  <2>6. /\ callPc'[c] = "releasing"
        /\ \A o \in Calls \ {c} : callPc'[o] = callPc[o]
        /\ \A o \in Calls : callPc'[o] = "idle" <=> callPc[o] = "idle"
    BY <1>1, <2>1 DEF Known, TypeOK
  <2>7. AsksItsOwn(c)' /\ GivesBack(c)' /\ EndsOnce(c)'
    BY <1>0, <1>4, <2>1, <2>2, <2>5, <2>6 DEF Ends, AsksItsOwn, GivesBack, EndsOnce
  <2>8. ClosesCursors(c)'
    <3> SUFFICES ASSUME NEW s \in Statements, stmtPc[s] = "open", stmt[s].transaction = frame[c].transaction
                 PROVE  outcome[c] = "threw" /\ on[s] \notin released
      BY <1>0, <2>1, <2>6 DEF ClosesCursors
    <3>1. on[s] \in Mine(c)
      BY <1>1, OnMine DEF InHand, AtWork, OnItsConnection
    <3>2. on[s] \notin released
      BY <2>1, <2>2, <3>1 DEF Ends, GivesBack
    <3>3. outcome[c] = "threw"
      BY <2>1, <2>2 DEF Ends, ClosesCursors
    <3> QED BY <3>2, <3>3
  <2>9. IsRootCall(c) /\ Ends(c)'
    BY <2>2, <2>7, <2>8 DEF Ends
  <2>10. /\ \A o \in Calls \ {c} : callPc'[o] = callPc[o] /\ sent'[o] = sent[o] /\ outcome'[o] = outcome[o]
         /\ \A s \in Statements : stmtPc'[s] = "open" => stmtPc[s] = "open"
    BY <2>1, <2>5, <2>6
  <2> QED BY <1>0, <1>1, <2>6, <2>9, <2>10, EndsApart
<1>10. CASE ReleaseClient(c)
  <2>1. /\ callPc[c] = "releasing" /\ Answered(c, "release") /\ UNCHANGED <<sent, stmtPc>>
        /\ callPc' = [callPc EXCEPT ![c] = "done"]
        /\ \A o \in Calls \ {c} : outcome'[o] = outcome[o]
    BY <1>10 DEF ReleaseClient, stmtVars, Known, TypeOK
  <2>2. IsRootCall(c) /\ Ends(c)
    BY <1>2, <1>3, <2>1
  <2>3. \A k \in Mine(c) : k \in Statements
    BY <1>1, MineIs
  <2>4. sent[c] = {} /\ \A k \in Mine(c) : k \in released
    <3>1. ASSUME NEW r \in sent[c] PROVE FALSE
      <4>1. \E k \in Mine(c) : r = <<"release", k>>
        BY <2>1, <2>2 DEF Ends, AsksItsOwn
      <4> QED BY <2>1, <2>3, <4>1 DEF Answered
    <3>2. \A k \in Mine(c) : k \in released
      BY <2>1, <2>2, <3>1 DEF Ends, GivesBack
    <3> QED BY <3>1, <3>2
  <2>5. /\ callPc'[c] = "done"
        /\ \A o \in Calls \ {c} : callPc'[o] = callPc[o]
        /\ \A o \in Calls : callPc'[o] = "idle" <=> callPc[o] = "idle"
    BY <1>1, <2>1 DEF Known, TypeOK
  <2>6. AsksItsOwn(c)' /\ GivesBack(c)' /\ EndsOnce(c)'
    BY <1>0, <1>4, <2>1, <2>2, <2>4, <2>5 DEF Ends, AsksItsOwn, GivesBack, EndsOnce
  <2>7. ClosesCursors(c)'
    <3> SUFFICES ASSUME NEW s \in Statements, stmtPc[s] = "open", stmt[s].transaction = frame[c].transaction
                 PROVE  FALSE
      BY <1>0, <2>1, <2>5 DEF ClosesCursors
    <3>1. on[s] \in Mine(c)
      BY <1>1, OnMine DEF InHand, AtWork, OnItsConnection
    <3> QED BY <2>1, <2>2, <2>4, <3>1 DEF Ends, ClosesCursors
  <2> QED BY <1>0, <1>1, <2>1, <2>5, <2>6, <2>7, EndsApart DEF Ends
<1> QED BY <1>5, <1>6, <1>7, <1>8, <1>9, <1>10 DEF CallStep

\* Neo4j has the transaction to itself: its connection is the only one.
LEMMA OnlyNeo4j ==
  ASSUME NothingRefused, Known, InHand, NEW c \in Calls, Begun(c), NEW j \in Mine(c), NEW k \in Mine(c),
         EngineOf(k) = "NEO4J"
  PROVE  j = k
<1>1. stmt[j].database \in Databases /\ stmt[k].database \in Databases
      /\ connectionRegistry[frame[c].transaction][stmt[j].database] = j
      /\ connectionRegistry[frame[c].transaction][stmt[k].database] = k
  BY MineIs
<1>2. Databases = {stmt[k].database}
  BY <1>1 DEF NothingRefused, EngineOf
<1> QED BY <1>1, <1>2

LEMMA CommitEnds ==
  ASSUME NothingRefused, Known, InHand, NEW c \in Calls, NEW k \in Statements,
         CommitAccepted(c, k) \/ CommitFails(c, k)
  PROVE  RootsEnd'
<1>1. <<"commit", k>> \in sent[c]
  BY DEF CommitAccepted, CommitFails
<1>2. /\ IsRootCall(c) /\ Begun(c) /\ Ends(c) /\ k \in Mine(c) /\ Active(c)
      /\ callPc[c] \in {"committing", "rollingBack"}
  BY <1>1, WhoAsks DEF IsRootCall
<1>3. UNCHANGED <<frame, connectionRegistry, stmt, on, released, stmtPc>>
  BY DEF CommitAccepted, CommitFails, connVars, stmtVars
<1>4. Mine(c)' = Mine(c)
  BY <1>3 DEF Mine, ConnectionsOf
<1>5. \A j \in Statements : session'[j] = session[j] \/ j = k
  BY DEF CommitAccepted, CommitFails, Known, TypeOK
<1>6. CASE UNCHANGED <<callPc, outcome>> /\ sent' = [sent EXCEPT ![c] = @ \ {<<"commit", k>>}]
  <2>1. /\ sent'[c] = sent[c] \ {<<"commit", k>>}
        /\ \A o \in Calls \ {c} : sent'[o] = sent[o]
    BY <1>6 DEF Known, TypeOK
  <2>2. AsksItsOwn(c)'
    BY <1>2, <1>3, <1>4, <1>6, <2>1 DEF Ends, AsksItsOwn, EngineOf
  <2>3. GivesBack(c)'
    BY <1>2, <1>3, <1>4, <1>6, <2>1 DEF Ends, GivesBack
  <2>4. EndsOnce(c)'
    <3> SUFFICES ASSUME NEW j \in Mine(c), session'[j] = "ended"
                 PROVE  <<"commit", j>> \notin sent'[c] /\ (EngineOf(j) = "NEO4J" => <<"rollback", j>> \notin sent'[c])
      BY <1>2, <1>3, <1>4, <1>6 DEF EndsOnce, EngineOf
    <3>1. CASE j = k
      <4>1. callPc[c] = "rollingBack" => EngineOf(k) # "NEO4J"
        BY <1>1, <1>2 DEF Ends, AsksItsOwn
      <4>2. callPc[c] = "committing" => <<"rollback", k>> \notin sent[c]
        BY <1>2 DEF Ends, AsksItsOwn
      <4> QED BY <1>2, <2>1, <3>1, <4>1, <4>2
    <3>2. CASE j # k
      <4>1. session[j] = "ended"
        BY <1>2, <1>5, <3>2, MineIs
      <4> QED BY <1>2, <2>1, <4>1 DEF Ends, EndsOnce
    <3> QED BY <3>1, <3>2
  <2>5. ClosesCursors(c)'
    BY <1>2, <1>3, <1>6 DEF Ends, ClosesCursors
  <2>6. Ends(c)'
    BY <2>2, <2>3, <2>4, <2>5 DEF Ends
  <2> QED BY <1>2, <1>3, <1>5, <1>6, <2>1, <2>6, EndsApart
<1>7. CASE CommitFails(c, k) /\ callPc[c] = "committing"
  <2> DEFINE rest == sent[c] \ {<<"commit", k>>}
  <2>1. Unwind(c, rest)
    BY <1>7 DEF CommitFails
  <2>2. session[k] # "ended"
    BY <1>1, <1>2 DEF Ends, EndsOnce
  <2>3. EngineOf(k) = "NEO4J" => session'[k] # "ended"
    BY <1>7, <2>2 DEF CommitFails, Noticed, Known, TypeOK
  <2>4. ASSUME NEW j \in Mine(c), session'[j] = "ended" PROVE <<"commit", j>> \notin rest /\ EngineOf(j) # "NEO4J"
    <3>1. CASE j = k
      BY <2>3, <2>4, <3>1
    <3>2. CASE j # k
      <4>1. session[j] = "ended"
        BY <1>2, <1>5, <2>4, <3>2, MineIs
      <4> QED BY <1>2, <3>2, <4>1, OnlyNeo4j DEF Ends, EndsOnce
    <3> QED BY <3>1, <3>2
  <2>5. \A j \in Mine(c) : <<"commit", j>> \in rest => EngineOf(j) # "NEO4J"
    BY <1>2, OnlyNeo4j
  <2> HIDE DEF rest
  <2>6. rest \subseteq sent[c]
    BY DEF rest
  <2> QED BY <1>2, <1>3, <1>5, <1>7, <2>1, <2>4, <2>5, <2>6, UnwindEnds
<1> QED BY <1>6, <1>7 DEF CommitAccepted, CommitFails

LEMMA RollbackEnds ==
  ASSUME Known, InHand, NEW c \in Calls, NEW k \in Statements, RollbackAccepted(c, k)
  PROVE  RootsEnd'
<1>1. <<"rollback", k>> \in sent[c] /\ <<"commit", k>> \notin sent[c]
  BY DEF RollbackAccepted, RollbackDue
<1>2. /\ IsRootCall(c) /\ Begun(c) /\ Ends(c) /\ k \in Mine(c) /\ Active(c)
      /\ callPc[c] = "rollingBack"
  BY <1>1, WhoAsks DEF IsRootCall
<1>3. UNCHANGED <<frame, callPc, outcome, connectionRegistry, stmt, on, released, stmtPc>>
  BY DEF RollbackAccepted, connVars, stmtVars
<1>4. Mine(c)' = Mine(c)
  BY <1>3 DEF Mine, ConnectionsOf
<1>5. \A j \in Statements : session'[j] = session[j] \/ j = k
  BY DEF RollbackAccepted, Known, TypeOK
<1>6. sent'[c] = sent[c] \ {<<"rollback", k>>} /\ \A o \in Calls \ {c} : sent'[o] = sent[o]
  BY DEF RollbackAccepted, Known, TypeOK
<1>7. AsksItsOwn(c)'
  BY <1>1, <1>2, <1>3, <1>4, <1>6 DEF Ends, AsksItsOwn, EngineOf
<1>8. GivesBack(c)'
  BY <1>2, <1>3, <1>4 DEF Ends, GivesBack
<1>9. EndsOnce(c)'
  <2> SUFFICES ASSUME NEW j \in Mine(c), session'[j] = "ended"
               PROVE  <<"commit", j>> \notin sent'[c] /\ (EngineOf(j) = "NEO4J" => <<"rollback", j>> \notin sent'[c])
    BY <1>2, <1>3, <1>4 DEF EndsOnce, EngineOf
  <2>1. CASE j = k
    BY <1>1, <1>6, <2>1
  <2>2. CASE j # k
    <3>1. session[j] = "ended"
      BY <1>2, <1>5, <2>2, MineIs
    <3> QED BY <1>2, <1>6, <3>1 DEF Ends, EndsOnce
  <2> QED BY <2>1, <2>2
<1>10. ClosesCursors(c)'
  BY <1>2, <1>3 DEF Ends, ClosesCursors
<1>11. Ends(c)'
  BY <1>7, <1>8, <1>9, <1>10 DEF Ends
<1> QED BY <1>2, <1>3, <1>5, <1>6, <1>11, EndsApart

\* The cursors of a method that threw go with their connection.
LEMMA ReleaseEnds ==
  ASSUME Known, InHand, NEW c \in Calls, NEW k \in Statements, ReleaseAccepted(c, k)
  PROVE  RootsEnd'
<1>1. <<"release", k>> \in sent[c]
  BY DEF ReleaseAccepted
<1>2. /\ IsRootCall(c) /\ Begun(c) /\ Ends(c) /\ k \in Mine(c) /\ Active(c)
      /\ callPc[c] = "releasing"
  BY <1>1, WhoAsks DEF IsRootCall
<1>3. UNCHANGED <<frame, callPc, outcome, connectionRegistry, stmt, on>>
  BY DEF ReleaseAccepted, connVars
<1>4. Mine(c)' = Mine(c)
  BY <1>3 DEF Mine, ConnectionsOf
<1>5. \A j \in Statements : j = k \/ (session'[j] = session[j] /\ (j \in released' <=> j \in released))
  BY DEF ReleaseAccepted, Known, TypeOK
<1>6. /\ sent'[c] = sent[c] \ {<<"release", k>>} /\ released' = released \cup {k}
      /\ \A o \in Calls \ {c} : sent'[o] = sent[o]
  BY DEF ReleaseAccepted, Known, TypeOK
<1>7. sent[c] \subseteq {"release"} \X Mine(c)
  BY <1>2 DEF Ends, AsksItsOwn
<1>8. AsksItsOwn(c)' /\ GivesBack(c)' /\ EndsOnce(c)'
  BY <1>2, <1>3, <1>4, <1>6, <1>7 DEF Ends, AsksItsOwn, GivesBack, EndsOnce
<1>9. \A s \in Statements : stmtPc'[s] = "open" =>
        stmtPc[s] = "open" /\ (on[s] = k => EngineOf(k) = "POSTGRES" /\ outcome[c] # "threw")
  BY DEF ReleaseAccepted, Close, Known, TypeOK
<1>10. ClosesCursors(c)'
  <2> SUFFICES ASSUME NEW s \in Statements, stmtPc'[s] = "open", stmt[s].transaction = frame[c].transaction
               PROVE  outcome[c] = "threw" /\ on[s] \notin released'
    BY <1>2, <1>3 DEF ClosesCursors
  <2>1. stmtPc[s] = "open"
    BY <1>9
  <2>2. outcome[c] = "threw" /\ on[s] \notin released
    BY <1>2, <2>1 DEF Ends, ClosesCursors
  <2> QED BY <1>6, <1>9, <2>2
<1>11. Ends(c)'
  BY <1>8, <1>10 DEF Ends
<1> QED BY <1>2, <1>3, <1>5, <1>6, <1>9, <1>11, EndsApart

\* What a statement does to what a root looks at.
LEMMA StatementsTouch ==
  ASSUME Structured, Known, AtWork, NEW s \in Statements, StatementStep(s)
  PROVE  /\ UNCHANGED <<callPc, frame, outcome, sent, released>>
         /\ \A r \in Statements : stmtPc[r] # "unused" => stmt'[r] = stmt[r]
         /\ \/ UNCHANGED connectionRegistry
            \/ /\ stmtPc[s] = "connecting"
               /\ connectionRegistry' = [connectionRegistry EXCEPT ![stmt[s].transaction][stmt[s].database] = s]
         /\ \A k \in Statements : session'[k] = "ended" => session[k] = "ended"
         /\ \A r \in Statements : stmtPc'[r] = "open" =>
              on'[r] = on[r] /\ stmt'[r] = stmt[r] /\ (stmtPc[r] = "open" \/ (r = s /\ stmtPc[s] = "running"))
<1>1. ~RunOnItsOwn(s)
  BY SentWhere DEF RunOnItsOwn
<1>2. CASE \E c \in Calls, d \in Databases, cursor \in BOOLEAN : Issue(s, c, d, cursor)
  BY <1>2 DEF Issue, callVars, connVars, dataVars, Known, TypeOK
<1>3. CASE Acquire(s)
  BY <1>3 DEF Acquire, callVars, dataVars, Known, TypeOK
<1>4. CASE Connected(s)
  BY <1>4 DEF Connected, callVars, Known, TypeOK
<1>5. CASE ConnectFails(s) \/ BeginFails(s) \/ Began(s)
  BY <1>5 DEF ConnectFails, BeginFails, Began, callVars, dataVars, Known, TypeOK
<1>6. CASE Executed(s)
  BY <1>6 DEF Executed, callVars, connVars, Known, TypeOK
<1>7. CASE StatementFails(s)
  <2>1. \A e \in AfterFailure(on[s]) : e = "ended" => session[on[s]] = "ended"
    BY DEF AfterFailure, Noticed
  <2>2. stmtPc' = [stmtPc EXCEPT ![s] = "failed"] /\ UNCHANGED <<stmt, on, connectionRegistry, released>>
        /\ UNCHANGED <<callPc, frame, outcome, sent>>
    BY <1>7 DEF StatementFails, callVars, connVars
  <2>3. \A k \in Statements : session'[k] = "ended" => session[k] = "ended"
    BY <1>7, <2>1 DEF StatementFails, Known, TypeOK
  <2> QED BY <2>2, <2>3 DEF Known, TypeOK
<1>8. CASE ReadToEnd(s) \/ Break(s)
  BY <1>8 DEF ReadToEnd, Break, callVars, connVars, stmtVars, dataVars, Known, TypeOK
<1> QED
  BY <1>1, <1>2, <1>3, <1>4, <1>5, <1>6, <1>7, <1>8 DEF StatementStep

\* A statement under way has its root running.
LEMMA RootWaits ==
  ASSUME Known, InHand, NEW s \in Statements, stmtPc[s] \notin Settled \cup {"unused"},
         NEW c \in Calls, IsRootCall(c), frame[c].transaction = stmt[s].transaction
  PROVE  callPc[c] = "running"
<1>1. stmt[s].caller \in Calls /\ frame[stmt[s].caller].transaction = stmt[s].transaction
  BY SentWhere
<1>2. callPc[stmt[s].caller] = "running"
  BY DEF InHand, AtWork, SenderRuns
<1>3. Root(c, frame[stmt[s].caller].transaction)
  BY <1>1 DEF Root, IsRootCall, Begun
<1> QED BY <1>1, <1>2, <1>3, RootRuns DEF InHand

LEMMA StatementSparesEnds ==
  ASSUME Structured, Known, InHand, NEW s \in Statements, StatementStep(s)
  PROVE  RootsEnd'
<1>1. /\ UNCHANGED <<callPc, frame, outcome, sent, released>>
      /\ \A r \in Statements : stmtPc[r] # "unused" => stmt'[r] = stmt[r]
      /\ \/ UNCHANGED connectionRegistry
         \/ /\ stmtPc[s] = "connecting"
            /\ connectionRegistry' = [connectionRegistry EXCEPT ![stmt[s].transaction][stmt[s].database] = s]
      /\ \A k \in Statements : session'[k] = "ended" => session[k] = "ended"
      /\ \A r \in Statements : stmtPc'[r] = "open" =>
           on'[r] = on[r] /\ stmt'[r] = stmt[r] /\ (stmtPc[r] = "open" \/ (r = s /\ stmtPc[s] = "running"))
  BY StatementsTouch DEF InHand
<1> SUFFICES ASSUME NEW c \in Calls, IsRootCall(c) PROVE Ends(c)'
  BY <1>1 DEF InHand, RootsEnd, IsRootCall, Begun
<1>2. Begun(c) /\ Ends(c) /\ frame[c].transaction \in Calls
  BY DEF InHand, RootsEnd, IsRootCall, Begun, Known, TypeOK, Frame
<1>3. CASE callPc[c] = "running"
  <2>1. \A k \in Mine(c)' : \/ k \in Mine(c)
                            \/ k = s /\ stmtPc[s] = "connecting" /\ stmt[s].transaction = frame[c].transaction
    <3> SUFFICES ASSUME NEW d \in Databases, connectionRegistry'[frame[c].transaction][d] # None,
                        connectionRegistry'[frame[c].transaction][d] # connectionRegistry[frame[c].transaction][d]
                 PROVE  /\ connectionRegistry'[frame[c].transaction][d] = s
                        /\ stmtPc[s] = "connecting" /\ stmt[s].transaction = frame[c].transaction
      BY <1>1 DEF Mine, ConnectionsOf
    <3> DEFINE t == stmt[s].transaction
               e == stmt[s].database
    <3>1. stmtPc[s] = "connecting" /\ connectionRegistry' = [connectionRegistry EXCEPT ![t][e] = s]
      BY <1>1
    <3>2. t \in Calls /\ e \in Databases
      BY <3>1, SentWhere
    <3> HIDE DEF t, e
    <3>3. frame[c].transaction = t /\ d = e /\ connectionRegistry'[frame[c].transaction][d] = s
      BY <1>2, <3>1, <3>2 DEF Known, TypeOK
    <3> QED BY <3>1, <3>3 DEF t
  <2>2. \A k \in Mine(c)' : k \notin released /\ session'[k] # "ended"
    <3> SUFFICES ASSUME NEW k \in Mine(c)' PROVE k \notin released /\ session'[k] # "ended"
      OBVIOUS
    <3>1. CASE k \in Mine(c)
      BY <1>1, <1>2, <1>3, <3>1, MineIs DEF Ends, GivesBack, EndsOnce
    <3>2. CASE k = s /\ stmtPc[s] = "connecting"
      <4>1. s \notin Opened
        BY <3>2 DEF Known, MutexGuardsRegistry, OpenedOnTheWay
      <4> QED BY <1>1, <3>2, <4>1 DEF Opened, InHand, AtWork, Unbroken
    <3> QED BY <2>1, <3>1, <3>2
  <2> QED BY <1>1, <1>2, <1>3, <2>2 DEF Ends, AsksItsOwn, GivesBack, EndsOnce, ClosesCursors
<1>4. CASE callPc[c] # "running"
  <2>1. ~ (stmtPc[s] \in {"connecting", "running"} /\ stmt[s].transaction = frame[c].transaction)
    BY <1>4, RootWaits DEF Settled
  <2>2. Mine(c)' = Mine(c)
    <3> DEFINE t == stmt[s].transaction
               e == stmt[s].database
    <3>1. CASE stmtPc[s] = "connecting" /\ connectionRegistry' = [connectionRegistry EXCEPT ![t][e] = s]
      <4>1. t \in Calls /\ e \in Databases /\ t # frame[c].transaction
        BY <2>1, <3>1, SentWhere
      <4> HIDE DEF t, e
      <4>2. \A d \in Databases : connectionRegistry'[frame[c].transaction][d] = connectionRegistry[frame[c].transaction][d]
        BY <1>2, <3>1, <4>1 DEF Known, TypeOK
      <4> QED BY <1>1, <4>2 DEF Mine, ConnectionsOf
    <3> QED BY <1>1, <3>1 DEF Mine, ConnectionsOf
  <2>3. \A k \in Mine(c) : k \in Statements /\ EngineOf(k)' = EngineOf(k)
    BY <1>1, <1>2, MineIs DEF EngineOf
  <2>4. AsksItsOwn(c)' /\ GivesBack(c)' /\ EndsOnce(c)'
    BY <1>1, <1>2, <2>2, <2>3 DEF Ends, AsksItsOwn, GivesBack, EndsOnce
  <2>5. ClosesCursors(c)'
    BY <1>1, <1>2, <2>1 DEF Ends, ClosesCursors
  <2> QED BY <2>4, <2>5 DEF Ends
<1> QED BY <1>3, <1>4

-----------------------------------------------------------------------------
(* Every step.                                                              *)

LEMMA CallKeepsRoots ==
  ASSUME Structured, Known, Rooted, NEW c \in Calls, CallStep(c)
  PROVE  Rooted'
<1>1. CASE \E x \in Contexts, p \in Calls \cup {None} : RunInTransaction(c, x, p)
  BY <1>1, BeginsRooted
<1>2. CASE ReleaseClient(c)
  BY <1>2, EndsRooted
<1>3. CASE MarkAsRollback(c)
  BY <1>3, RootsKept DEF MarkAsRollback, callVars, Active
<1>4. CASE Throw(c) \/ PopContext(c) \/ CloseCursors(c) \/ CloseCursorsFails(c) \/ Release(c)
  <2>1. UNCHANGED <<currentTransaction, frame>> /\ callPc[c] # "idle"
    BY <1>4 DEF Throw, PopContext, CloseCursors, CloseCursorsFails, Release, ctxVars
  <2>2. \E pc \in CallPcs \ {"idle"} : /\ callPc' = [callPc EXCEPT ![c] = pc]
                                       /\ frame[c].isRoot => pc # "done"
    BY <1>4 DEF Throw, PopContext, CloseCursors, CloseCursorsFails, Release, Unwind, CallPcs
  <2>3. \A o \in Calls : /\ callPc'[o] = "idle" <=> callPc[o] = "idle"
                         /\ Active(o) /\ frame[o].isRoot => Active(o)'
    BY <2>1, <2>2 DEF Known, TypeOK, Active
  <2> QED BY <2>1, <2>3, RootsKept
<1> QED BY <1>1, <1>2, <1>3, <1>4 DEF CallStep

LEMMA AnswerKeepsRoots ==
  ASSUME NothingRefused, Known, InHand, NEW c \in Calls, NEW k \in Statements, AnswerStep(c, k)
  PROVE  Rooted'
<1>1. CommitAccepted(c, k) \/ CommitFails(c, k) \/ RollbackAccepted(c, k) \/ ReleaseAccepted(c, k)
  BY NobodyRefuses DEF AnswerStep
<1>2. UNCHANGED <<currentTransaction, frame>>
  BY <1>1 DEF CommitAccepted, CommitFails, RollbackAccepted, ReleaseAccepted, ctxVars
<1>3. \A o \in Calls : /\ callPc'[o] = "idle" <=> callPc[o] = "idle"
                       /\ Active(o) /\ frame[o].isRoot => Active(o)'
  <2>1. CASE UNCHANGED callPc
    BY <1>2, <2>1 DEF Active
  <2>2. CASE CommitFails(c, k) /\ callPc[c] = "committing"
    <3>1. callPc' = [callPc EXCEPT ![c] = IF frame[c].isRoot THEN "rollingBack" ELSE "done"]
      BY <2>2 DEF CommitFails, Unwind
    <3> QED BY <1>2, <2>2, <3>1 DEF Known, TypeOK, Active
  <2> QED BY <1>1, <2>1, <2>2 DEF CommitAccepted, CommitFails, RollbackAccepted, ReleaseAccepted
<1> QED BY <1>2, <1>3, RootsKept DEF InHand

LEMMA StatementKeepsRoots ==
  ASSUME Structured, Known, InHand, NEW s \in Statements, StatementStep(s)
  PROVE  Rooted'
<1>1. UNCHANGED <<currentTransaction, callPc, frame>>
  BY DEF StatementStep, Issue, Acquire, Connected, ConnectFails, Began, BeginFails, RunOnItsOwn, Executed,
         StatementFails, ReadToEnd, Break, ctxVars, callVars
<1> QED BY <1>1, RootsKept DEF InHand, Active

LEMMA StaysInHand ==
  ASSUME Structured, NothingRefused, Known, InHand, [Next]_vars
  PROVE  InHand'
<1>1. ASSUME NEW c \in Calls, CallStep(c) PROVE InHand'
  <2>1. RootsEnd'
    BY <1>1, BeginsToEnd, CallGoesOnToEnd
  <2> QED BY <1>1, <2>1, CallKeepsWork, CallKeepsRoots DEF InHand
<1>2. ASSUME NEW c \in Calls, NEW k \in Statements, AnswerStep(c, k) PROVE InHand'
  <2>1. RootsEnd'
    BY <1>2, NobodyRefuses, CommitEnds, RollbackEnds, ReleaseEnds DEF AnswerStep
  <2> QED BY <1>2, <2>1, AnswerKeepsWork, AnswerKeepsRoots DEF InHand
<1>3. ASSUME NEW s \in Statements, StatementStep(s) PROVE InHand'
  BY <1>3, StatementKeepsWork, StatementKeepsRoots, StatementSparesEnds DEF InHand
<1>4. CASE UNCHANGED vars
  <2>1. UNCHANGED <<currentTransaction, connectionRegistry, cursors, callPc, frame, outcome, sent, stmtPc, stmt, on,
                    session, released>>
    BY <1>4 DEF vars, ctxVars, connVars, callVars, stmtVars, dataVars
  <2>2. AtWork' /\ Rooted'
    BY <2>1 DEF InHand, AtWork, SenderRuns, RegisteredWhereSent, OnItsConnection, Unbroken, Opened, Rooted, OneRoot,
                NoDeadTransaction, TopIsRoot, CallerShares, HasRoot, Root, Begun, Active
  <2>3. RootsEnd'
    BY <2>1 DEF InHand, RootsEnd, IsRootCall, Begun, Ends, AsksItsOwn, GivesBack, EndsOnce, ClosesCursors, Mine,
                ConnectionsOf, EngineOf
  <2> QED BY <2>2, <2>3 DEF InHand
<1> QED BY <1>1, <1>2, <1>3, <1>4 DEF Next, Stop

\* What holds of every behaviour, whatever fails: the types, the registry under its mutex, the tree of calls under way in a
\* context, and statements sent where their methods run.
THEOREM AllKnown ==
  ASSUME Structured
  PROVE  Spec => []Known
<1>1. TypeOK /\ MutexGuardsRegistry /\ Tree /\ Sent => Known
  BY DEF Known
<1> QED BY <1>1, TypeCorrect, GuardsHold, CallsFormATree, CallsSend, PTL

\* The roots have their transactions in hand, from their first statement to the last connection they give back.
THEOREM RootsInHand ==
  ASSUME Structured, NothingRefused
  PROVE  Spec => []InHand
<1>1. Init => InHand
  BY AtWorkAtFirst, RootedAtFirst, RootsEndAtFirst DEF InHand
<1>2. Known /\ InHand /\ [Next]_vars => InHand'
  BY StaysInHand
<1> QED BY <1>1, <1>2, AllKnown, PTL DEF Spec

\* Where a transaction can be ended, a call stack finds one root in all: no later call takes on one whose root has ended.
THEOREM OneRootEver ==
  ASSUME Structured, NothingRefused
  PROVE  Spec => []OneRoot
<1>1. InHand => OneRoot
  BY DEF InHand, Rooted
<1> QED BY <1>1, RootsInHand, PTL

\* A context holds no transaction whose root has ended.
THEOREM NoneDead ==
  ASSUME Structured, NothingRefused
  PROVE  Spec => []NoDeadTransaction
<1>1. InHand => NoDeadTransaction
  BY DEF InHand, Rooted
<1> QED BY <1>1, RootsInHand, PTL

\* A root that has ended has given back every connection of its transaction.
THEOREM AllGivenBack ==
  ASSUME Structured, NothingRefused
  PROVE  Spec => []ConnectionsReleased
<1>1. Known /\ InHand => ConnectionsReleased
  <2> SUFFICES ASSUME Known, InHand, NEW t \in Calls, NEW c \in Calls, Root(c, t), callPc[c] = "done",
                      NEW k \in Opened, stmt[k].transaction = t
               PROVE  k \in released
    BY DEF ConnectionsReleased
  <2>1. k \in Statements /\ Transactional(k) /\ stmt[k].database \in Databases /\ k # None
    BY OpenedWhere, SentWhere, ConstantsAssumption
  <2>2. connectionRegistry[t][stmt[k].database] = k
    BY <2>1 DEF Known, MutexGuardsRegistry, OpenedIsRegistered
  <2>3. k \in Mine(c)
    BY <2>1, <2>2 DEF Mine, ConnectionsOf, Root
  <2>4. IsRootCall(c)
    BY DEF Root, IsRootCall, Begun
  <2> QED BY <2>3, <2>4 DEF InHand, RootsEnd, Ends, GivesBack
<1> QED BY <1>1, AllKnown, RootsInHand, PTL

\* No cursor outlives its transaction, however it ended.
THEOREM CursorsEnd ==
  ASSUME Structured, NothingRefused
  PROVE  Spec => []CursorsEndWithTransaction
<1>1. Known /\ InHand => CursorsEndWithTransaction
  <2> SUFFICES ASSUME Known, InHand, NEW t \in Calls, NEW c \in Calls, Root(c, t), callPc[c] = "done",
                      NEW s \in WorkOf(t), stmtPc[s] = "open"
               PROVE  FALSE
    BY DEF CursorsEndWithTransaction
  <2>1. s \in Statements /\ stmt[s].transaction = t
    BY SentWhere DEF WorkOf
  <2>2. IsRootCall(c) /\ frame[c].transaction = t
    BY DEF Root, IsRootCall, Begun
  <2> QED BY <2>1, <2>2 DEF InHand, RootsEnd, Ends, ClosesCursors
<1> QED BY <1>1, AllKnown, RootsInHand, PTL
=============================================================================
