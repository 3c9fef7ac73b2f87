-------------------------- MODULE TransactionEffects --------------------------
(***************************************************************************)
(* What a transaction leaves in its databases, for every set of calls,     *)
(* statements and contexts, where every connection begins a transaction    *)
(* and no statement ends it.                                               *)
(*                                                                         *)
(* The writes on a connection share one fate, told by its session: pending *)
(* while the database transaction is open, durable or undone at once when  *)
(* it ends.  A root that rolls back commits none of its connections, and   *)
(* one that returns has committed all of them, unless a statement failed   *)
(* that nobody heard of.                                                   *)
(***************************************************************************)
EXTENDS TransactionEnds

\* Every statement runs in a transaction that was begun for it: FalkorDB has none, a BEGIN that SQLite refuses leaves its
\* connection registered without one, and on a full disk SQLite rolls the transaction back below its later statements.
AlwaysBegun ==
  \A d \in Databases :
    /\ ~AutoCommits(Engine[d])
    /\ Engine[d] = "SQLITE" => {"begin", "statement"} \cap Faults = {}

-----------------------------------------------------------------------------
(* Sessions.                                                                *)

\* A connection is in its transaction from the moment it has begun.
InSession ==
  \A k \in Statements :
    /\ session[k] # "lost"
    /\ session[k] = "fresh" <=> stmtPc[k] = "starting"
    /\ stmtPc[k] = "starting" => EngineOf(k) \in {"POSTGRES", "SQLITE"}
    /\ session[k] = "aborted" => EngineOf(k) \in {"POSTGRES", "NEO4J"}

\* Nobody uses a connection before that.
NotBefore == \A s \in Statements : on[s] # None => stmtPc[on[s]] # "starting"

\* Postgres takes no more statements only where one has failed.
AbortedByFailure ==
  \A k \in Statements : session[k] = "aborted" /\ EngineOf(k) = "POSTGRES" =>
    \E s \in Statements : on[s] = k /\ stmtPc[s] = "failed"

(* Writes. *)

\* A write has a connection, and the session of the connection tells its fate.
FateOf(s) ==
  /\ fate[s] # "none" => on[s] # None /\ stmtPc[s] # "unused"
  /\ fate[s] = "pending" => session[on[s]] \in {"open", "aborted"}
  /\ fate[s] = "durable" => session[on[s]] = "ended"
  /\ fate[s] = "undone" => session[on[s]] # "open"
ToldBySession == \A s \in Statements : FateOf(s)

OneFate == \A r, s \in Statements : fate[r] # "none" /\ fate[s] # "none" /\ on[r] = on[s] => fate[r] = fate[s]

Written == InSession /\ NotBefore /\ AbortedByFailure /\ ToldBySession /\ OneFate

LEMMA WrittenAtFirst == Init => Written
  BY DEF Init, Written, InSession, NotBefore, AbortedByFailure, ToldBySession, FateOf, OneFate

\* A step that moves no connection, settles no write and puts no statement on a connection.
LEMMA WrittenKept ==
  ASSUME Known, Written, UNCHANGED <<on, fate, session>>,
         \A s \in Statements : stmtPc[s] # "unused" => stmt'[s] = stmt[s] /\ stmtPc'[s] # "unused",
         \A s \in Statements : /\ stmtPc'[s] = "starting" <=> stmtPc[s] = "starting"
                               /\ stmtPc[s] = "failed" => stmtPc'[s] = "failed"
  PROVE  Written'
<1>1. \A k \in Statements : session[k] # "none" \/ stmtPc[k] = "starting" => EngineOf(k)' = EngineOf(k)
  BY OpenedWhere DEF EngineOf, Opened
<1>2. InSession'
  BY <1>1 DEF Written, InSession
<1>3. NotBefore'
  BY DEF Written, NotBefore, Known, TypeOK
<1>4. AbortedByFailure'
  BY <1>1 DEF Written, AbortedByFailure
<1>5. ToldBySession' /\ OneFate'
  BY DEF Written, ToldBySession, FateOf, OneFate
<1> QED BY <1>2, <1>3, <1>4, <1>5 DEF Written

\* The end of a database transaction settles all that was written in it, and makes it durable only if it was open.
LEMMA WrittenSettles ==
  ASSUME Known, Written, UNCHANGED <<on, stmt>>, NEW k \in Opened, stmtPc[k] # "starting",
         NEW f \in {"durable", "undone"}, Resolve(k, f), f = "durable" => session[k] = "open",
         NEW e \in {"ended", "aborted"}, session' = [session EXCEPT ![k] = e],
         e = "aborted" => EngineOf(k) = "NEO4J" /\ f = "undone" /\ session[k] # "ended",
         \A s \in Statements : stmtPc'[s] = stmtPc[s] \/ (stmtPc[s] = "open" /\ stmtPc'[s] = "ok")
  PROVE  Written'
<1>1. k \in Statements /\ stmtPc[k] # "unused" /\ session'[k] = e
      /\ \A j \in Statements \ {k} : session'[j] = session[j]
  BY OpenedWhere DEF Known, TypeOK
<1>2. \A s \in Statements : fate'[s] = IF on[s] = k /\ fate[s] = "pending" THEN f ELSE fate[s]
  BY DEF Resolve
<1>3. InSession'
  BY <1>1 DEF Written, InSession, EngineOf
<1>4. NotBefore'
  BY DEF Written, NotBefore, Known, TypeOK
<1>5. AbortedByFailure'
  BY <1>1 DEF Written, AbortedByFailure, EngineOf
<1>6. ToldBySession'
  <2> SUFFICES ASSUME NEW s \in Statements PROVE FateOf(s)'
    BY DEF ToldBySession
  <2>1. FateOf(s) /\ fate[s] \in Fates /\ (on[s] # None => on[s] \in Statements)
    BY DEF Written, ToldBySession, Known, TypeOK
  <2>2. CASE on[s] = k
    BY <1>1, <1>2, <2>1, <2>2 DEF FateOf, Fates
  <2>3. CASE on[s] # k
    BY <1>1, <1>2, <2>1, <2>3 DEF FateOf
  <2> QED BY <2>2, <2>3
<1>7. OneFate'
  BY <1>2 DEF Written, OneFate
<1> QED BY <1>3, <1>4, <1>5, <1>6, <1>7 DEF Written

LEMMA CallKeepsWritten ==
  ASSUME Known, Written, NEW c \in Calls, CallStep(c)
  PROVE  Written'
<1>1. UNCHANGED <<stmt, on, session, fate>>
  BY DEF CallStep, RunInTransaction, MarkAsRollback, Throw, PopContext, CloseCursors, CloseCursorsFails,
         Release, ReleaseClient, stmtVars, dataVars
<1>2. \A s \in Statements : stmtPc'[s] = stmtPc[s] \/ (stmtPc[s] = "open" /\ stmtPc'[s] = "ok")
  <2>1. CASE CloseCursors(c)
    BY <2>1 DEF CloseCursors, Close, Known, TypeOK
  <2>2. CASE UNCHANGED stmtPc
    BY <2>2
  <2> QED
    BY <2>1, <2>2 DEF CallStep, RunInTransaction, MarkAsRollback, Throw, PopContext, CloseCursorsFails,
                      Release, ReleaseClient, stmtVars
<1>3. \A s \in Statements : /\ stmtPc[s] # "unused" => stmt'[s] = stmt[s] /\ stmtPc'[s] # "unused"
                            /\ stmtPc'[s] = "starting" <=> stmtPc[s] = "starting"
                            /\ stmtPc[s] = "failed" => stmtPc'[s] = "failed"
  BY <1>1, <1>2
<1> QED BY <1>1, <1>3, WrittenKept

\* A connection that is asked to end has begun, and is none that commits each statement on its own.
LEMMA AskedHasBegun ==
  ASSUME AlwaysBegun, Known, InHand, NEW c \in Calls, NEW op, NEW k, <<op, k>> \in sent[c]
  PROVE  k \in Opened /\ k \in Statements /\ stmtPc[k] # "starting" /\ Ended(k) = "ended" /\ ~AutoCommits(EngineOf(k))
<1>1. /\ IsRootCall(c) /\ Begun(c) /\ Ends(c) /\ k \in Mine(c) /\ Active(c)
      /\ op = "commit" => callPc[c] \in {"committing", "rollingBack"}
      /\ op = "rollback" => callPc[c] = "rollingBack"
      /\ op = "release" => callPc[c] = "releasing"
  BY WhoAsks DEF IsRootCall
<1>2. k \in Opened /\ k \in Statements /\ stmt[k].database \in Databases /\ stmt[k].transaction = frame[c].transaction
      /\ stmtPc[k] # "unused"
  BY <1>1, MineIs
<1>3. op \in {"commit", "rollback", "release"}
  BY DEF Known, TypeOK, Requests
<1>4. stmtPc[k] # "starting"
  BY <1>1, <1>2, <1>3, RootWaits DEF Settled
<1>5. ~AutoCommits(EngineOf(k))
  BY <1>2 DEF AlwaysBegun, EngineOf
<1> QED BY <1>2, <1>4, <1>5 DEF Ended

LEMMA AnswerKeepsWritten ==
  ASSUME NothingRefused, AlwaysBegun, Known, InHand, Written, NEW c \in Calls, NEW k \in Statements, AnswerStep(c, k)
  PROVE  Written'
<1>1. UNCHANGED <<stmt, on>>
  BY DEF AnswerStep, CommitAccepted, CommitFails, RollbackAccepted, RollbackFails, ReleaseAccepted, ReleaseFails,
         stmtVars
<1>2. \A s \in Statements : stmtPc'[s] = stmtPc[s] \/ (stmtPc[s] = "open" /\ stmtPc'[s] = "ok")
  <2>1. CASE Close({s \in Statements : on[s] = k})
    BY <2>1 DEF Close, Known, TypeOK
  <2>2. CASE UNCHANGED stmtPc
    BY <2>2
  <2> QED
    BY <2>1, <2>2 DEF AnswerStep, CommitAccepted, CommitFails, RollbackAccepted, RollbackFails, ReleaseAccepted,
                      ReleaseFails, stmtVars
<1>3. CASE UNCHANGED <<fate, session>>
  <2>1. \A s \in Statements : /\ stmtPc[s] # "unused" => stmt'[s] = stmt[s] /\ stmtPc'[s] # "unused"
                              /\ stmtPc'[s] = "starting" <=> stmtPc[s] = "starting"
                              /\ stmtPc[s] = "failed" => stmtPc'[s] = "failed"
    BY <1>1, <1>2
  <2> QED BY <1>1, <1>3, <2>1, WrittenKept
<1>4. k \in Opened /\ stmtPc[k] # "starting" /\ Ended(k) = "ended" /\ ~AutoCommits(EngineOf(k))
  BY AskedHasBegun DEF AnswerStep, CommitAccepted, CommitFails, RollbackAccepted, RollbackFails, RollbackDue,
                       ReleaseAccepted, ReleaseFails
<1>5. CASE CommitAccepted(c, k)
  <2>1. PICK f \in {"durable", "undone"} : Resolve(k, f) /\ (f = "durable" => session[k] = "open")
    BY <1>5 DEF CommitAccepted
  <2>2. session' = [session EXCEPT ![k] = "ended"]
    BY <1>4, <1>5 DEF CommitAccepted
  <2> QED BY <1>1, <1>2, <1>4, <2>1, <2>2, WrittenSettles
<1>6. CASE CommitFails(c, k) /\ ~UNCHANGED <<fate, session>>
  <2>1. session[k] = "open" /\ Resolve(k, "undone")
        /\ session' = [session EXCEPT ![k] = IF EngineOf(k) = "NEO4J" THEN "aborted" ELSE "ended"]
    BY <1>6 DEF CommitFails, Noticed, Known, TypeOK, InHand, AtWork, Unbroken
  <2>2. CASE EngineOf(k) = "NEO4J"
    BY <1>1, <1>2, <1>4, <2>1, <2>2, WrittenSettles
  <2>3. CASE EngineOf(k) # "NEO4J"
    BY <1>1, <1>2, <1>4, <2>1, <2>3, WrittenSettles
  <2> QED BY <2>2, <2>3
<1>7. CASE RollbackAccepted(c, k)
  <2>1. Resolve(k, "undone") /\ session' = [session EXCEPT ![k] = "ended"]
    BY <1>4, <1>7 DEF RollbackAccepted
  <2> QED BY <1>1, <1>2, <1>4, <2>1, WrittenSettles
<1>8. CASE ReleaseAccepted(c, k) /\ ~UNCHANGED <<fate, session>>
  <2>1. Resolve(k, "undone") /\ session' = [session EXCEPT ![k] = "ended"]
    BY <1>4, <1>8 DEF ReleaseAccepted
  <2> QED BY <1>1, <1>2, <1>4, <2>1, WrittenSettles
<1> QED BY <1>3, <1>5, <1>6, <1>7, <1>8, NobodyRefuses DEF AnswerStep

\* A statement that runs has its connection in a transaction: its root has not ended it.
LEMMA RunsInSession ==
  ASSUME Known, InHand, Written, NEW s \in Statements, stmtPc[s] = "running"
  PROVE  on[s] \in Statements /\ session[on[s]] \in {"open", "aborted"} /\ stmt[on[s]].database = stmt[s].database
         /\ stmtPc[on[s]] # "unused"
<1>1. stmt[s].caller \in Calls /\ Begun(stmt[s].caller) /\ stmt[s].transaction \in Calls
      /\ frame[stmt[s].caller].transaction = stmt[s].transaction
  BY SentWhere DEF Begun
<1>2. PICK c \in Calls : Root(c, stmt[s].transaction)
  BY <1>1 DEF InHand, Rooted, HasRoot
<1>3. IsRootCall(c) /\ Begun(c) /\ Ends(c) /\ frame[c].transaction = stmt[s].transaction
  BY <1>2 DEF Root, IsRootCall, Begun, InHand, RootsEnd
<1>4. callPc[c] = "running"
  BY <1>3, RootWaits DEF Settled
<1>5. on[s] # None /\ on[s] \in Mine(c) /\ stmt[on[s]].database = stmt[s].database
  BY <1>3, OnMine DEF InHand, AtWork, OnItsConnection
<1>6. on[s] \in Opened /\ on[s] \in Statements /\ stmtPc[on[s]] # "unused"
  BY <1>3, <1>5, MineIs
<1>7. session[on[s]] # "ended"
  BY <1>3, <1>4, <1>5 DEF Ends, EndsOnce
<1>8. session[on[s]] \notin {"fresh", "lost"}
  BY <1>5, <1>6 DEF Written, InSession, NotBefore
<1>9. session[on[s]] \in Sessions \ {"none", "broken"}
  BY <1>6 DEF Opened, InHand, AtWork, Unbroken, Known, TypeOK
<1> QED BY <1>5, <1>6, <1>7, <1>8, <1>9 DEF Sessions

\* A statement on its way to its connection, which it may open and begin.
LEMMA WrittenOpens ==
  ASSUME Known, AtWork, Written, NEW s \in Statements, stmtPc[s] \in Early \ {"unused"},
         NEW p \in StmtPcs \ {"unused"},
         stmtPc' = [stmtPc EXCEPT ![s] = p], UNCHANGED <<fate, stmt>>,
         \A r \in Statements \ {s} : on'[r] = on[r],
         on'[s] # None => on'[s] \in Statements /\ stmtPc'[on'[s]] # "starting",
         \/ UNCHANGED session /\ (p = "starting" <=> stmtPc[s] = "starting")
         \/ \E e \in {"fresh", "open"} : /\ session' = [session EXCEPT ![s] = e]
                                         /\ e = "fresh" <=> p = "starting"
                                         /\ \A r \in Statements : on[r] # s,
         p = "starting" => EngineOf(s) \in {"POSTGRES", "SQLITE"}
  PROVE  Written'
<1>1. stmtPc'[s] = p /\ \A r \in Statements \ {s} : stmtPc'[r] = stmtPc[r]
  BY DEF Known, TypeOK
<1>2. on[s] = None /\ fate[s] = "none"
  BY DEF AtWork, OnItsConnection, Written, ToldBySession, FateOf
<1>3. \A k \in Statements \ {s} : session'[k] = session[k]
  BY DEF Known, TypeOK
<1>4. InSession'
  <2> SUFFICES ASSUME NEW k \in Statements
               PROVE  /\ session'[k] # "lost"
                      /\ session'[k] = "fresh" <=> stmtPc'[k] = "starting"
                      /\ stmtPc'[k] = "starting" => EngineOf(k) \in {"POSTGRES", "SQLITE"}
                      /\ session'[k] = "aborted" => EngineOf(k) \in {"POSTGRES", "NEO4J"}
    BY DEF InSession, EngineOf
  <2>1. CASE k # s
    BY <1>1, <1>3, <2>1 DEF Written, InSession
  <2>2. CASE k = s
    BY <1>1, <2>2 DEF Written, InSession, Known, TypeOK
  <2> QED BY <2>1, <2>2
<1>5. NotBefore'
  <2> SUFFICES ASSUME NEW r \in Statements, on'[r] # None PROVE stmtPc'[on'[r]] # "starting"
    BY DEF NotBefore
  <2>1. CASE r # s
    <3>1. on[r] # None /\ on'[r] = on[r] /\ on[r] \in Statements /\ stmtPc[on[r]] # "starting"
      BY <2>1 DEF Written, NotBefore, Known, TypeOK
    <3> QED BY <1>1, <3>1
  <2> QED BY <2>1
<1>6. AbortedByFailure'
  <2> SUFFICES ASSUME NEW k \in Statements, session'[k] = "aborted", EngineOf(k) = "POSTGRES"
               PROVE  \E r \in Statements : on'[r] = k /\ stmtPc'[r] = "failed"
    BY DEF AbortedByFailure, EngineOf
  <2>1. session[k] = "aborted"
    BY DEF Known, TypeOK
  <2>2. PICK r \in Statements : on[r] = k /\ stmtPc[r] = "failed"
    BY <2>1 DEF Written, AbortedByFailure
  <2>3. r # s
    BY <2>2 DEF Early
  <2> QED BY <1>1, <2>2, <2>3
<1>7. ToldBySession'
  <2> SUFFICES ASSUME NEW r \in Statements PROVE FateOf(r)'
    BY DEF ToldBySession
  <2>1. CASE r = s
    BY <1>2, <2>1 DEF FateOf
  <2>2. CASE r # s
    <3>1. on'[r] = on[r] /\ stmtPc'[r] = stmtPc[r] /\ (on[r] # None => on[r] \in Statements) /\ FateOf(r)
      BY <1>1, <2>2 DEF Written, ToldBySession, Known, TypeOK
    <3>2. on[r] # None => session'[on[r]] = session[on[r]]
      BY <1>3, <3>1
    <3> QED BY <3>1, <3>2 DEF FateOf
  <2> QED BY <2>1, <2>2
<1>8. OneFate'
  BY <1>2 DEF Written, OneFate
<1> QED BY <1>4, <1>5, <1>6, <1>7, <1>8 DEF Written

\* A BEGIN is not refused, and its connection is not given back under it.
LEMMA BeginsAlways ==
  ASSUME NothingRefused, AlwaysBegun, Known, InHand, Written, NEW s \in Statements
  PROVE  ~BeginFails(s)
<1> SUFFICES ASSUME BeginFails(s) PROVE FALSE
  OBVIOUS
<1>1. stmtPc[s] = "starting" /\ session[s] # "broken" /\ EngineOf(s) \in {"POSTGRES", "SQLITE"}
  BY DEF BeginFails, InHand, AtWork, Unbroken, Written, InSession
<1>2. /\ stmt[s].caller \in Calls /\ Begun(stmt[s].caller) /\ stmt[s].transaction \in Calls
      /\ frame[stmt[s].caller].transaction = stmt[s].transaction /\ stmt[s].database \in Databases /\ Transactional(s)
  BY <1>1, SentWhere DEF Begun
<1>3. PICK c \in Calls : Root(c, stmt[s].transaction)
  BY <1>2 DEF InHand, Rooted, HasRoot
<1>4. IsRootCall(c) /\ Ends(c) /\ frame[c].transaction = stmt[s].transaction
  BY <1>3 DEF Root, IsRootCall, Begun, InHand, RootsEnd
<1>5. callPc[c] = "running"
  BY <1>1, <1>4, RootWaits DEF Settled
<1>6. s \in Mine(c)
  BY <1>1, <1>2, <1>4, ConstantsAssumption
  DEF Known, MutexGuardsRegistry, OpenedOnTheWay, OpenedIsRegistered, Mine, ConnectionsOf
<1>7. s \notin released
  BY <1>4, <1>5, <1>6 DEF Ends, GivesBack
<1>8. "begin" \notin Faults
  BY <1>1, <1>2 DEF NothingRefused, AlwaysBegun, EngineOf
<1> QED BY <1>1, <1>7, <1>8 DEF BeginFails, Fault

LEMMA StatementKeepsWritten ==
  ASSUME Structured, NothingRefused, AlwaysBegun, Known, InHand, Written, NEW s \in Statements, StatementStep(s)
  PROVE  Written'
<1> DEFINE t == stmt[s].transaction
           d == stmt[s].database
<1>0. AtWork
  BY DEF InHand
<1>1. CASE \E c \in Calls, e \in Databases, cursor \in BOOLEAN : Issue(s, c, e, cursor)
  <2>1. UNCHANGED <<on, fate, session>>
    BY <1>1 DEF Issue, dataVars
  <2>2. stmtPc[s] = "unused" /\ stmtPc'[s] \in {"failed", "connecting", "queued"}
        /\ \A r \in Statements \ {s} : stmtPc'[r] = stmtPc[r] /\ stmt'[r] = stmt[r]
    BY <1>1 DEF Issue, Known, TypeOK
  <2>3. \A r \in Statements : /\ stmtPc[r] # "unused" => stmt'[r] = stmt[r] /\ stmtPc'[r] # "unused"
                              /\ stmtPc'[r] = "starting" <=> stmtPc[r] = "starting"
                              /\ stmtPc[r] = "failed" => stmtPc'[r] = "failed"
    BY <2>2
  <2> QED BY <2>1, <2>3, WrittenKept
<1>2. CASE Acquire(s)
  <2>1. stmtPc[s] = "queued" /\ UNCHANGED <<stmt, fate, session>> /\ connectionMutex[t] = None
    BY <1>2 DEF Acquire, dataVars, MutexFree
  <2>2. on[s] = None /\ t \in Calls /\ d \in Databases
    BY <1>0, <2>1, SentWhere DEF AtWork, OnItsConnection, Early
  <2>3. CASE connectionRegistry[t][d] # None
    <3>1. stmtPc' = [stmtPc EXCEPT ![s] = "running"] /\ on' = [on EXCEPT ![s] = connectionRegistry[t][d]]
      BY <1>2, <2>3 DEF Acquire
    <3>2. on'[s] = connectionRegistry[t][d] /\ (\A r \in Statements \ {s} : on'[r] = on[r])
          /\ connectionRegistry[t][d] \in Statements
      BY <2>2, <2>3, <3>1 DEF Known, TypeOK
    <3>3. stmtPc[connectionRegistry[t][d]] # "starting"
      <4>1. /\ stmtPc[connectionRegistry[t][d]] # "unused" /\ stmt[connectionRegistry[t][d]].transaction = t
            /\ Transactional(connectionRegistry[t][d])
        BY <1>0, <2>2, <2>3, <3>2, SentWhere DEF AtWork, RegisteredWhereSent
      <4> QED BY <2>1, <3>2, <4>1, ConstantsAssumption DEF Known, MutexGuardsRegistry, MutexHeld
    <3>4. stmtPc'[on'[s]] # "starting"
      BY <3>1, <3>2, <3>3 DEF Known, TypeOK
    <3> QED BY <1>0, <2>1, <3>1, <3>2, <3>4, WrittenOpens DEF StmtPcs, Early
  <2>4. CASE connectionRegistry[t][d] = None
    <3>1. stmtPc' = [stmtPc EXCEPT ![s] = "connecting"] /\ UNCHANGED on
      BY <1>2, <2>4 DEF Acquire
    <3> QED BY <1>0, <2>1, <2>2, <3>1, WrittenOpens DEF StmtPcs, Early
  <2> QED BY <2>3, <2>4
<1>3. CASE Connected(s)
  <2>1. stmtPc[s] = "connecting" /\ UNCHANGED <<stmt, fate>>
    BY <1>3 DEF Connected
  <2>2. on[s] = None /\ t \in Calls /\ d \in Databases /\ Transactional(s) /\ stmtPc[s] \in Early \ {"unused"}
    BY <1>0, <2>1, SentWhere DEF AtWork, OnItsConnection, Early
  <2>3. EngineOf(s) \in {"POSTGRES", "SQLITE", "NEO4J", "ORACLE"}
    BY <2>2, ConstantsAssumption DEF AlwaysBegun, AutoCommits, EngineOf, Engines
  <2>4. ASSUME NEW r \in Statements PROVE on[r] # s
    <3>1. s \notin Opened /\ s # None
      BY <2>1, ConstantsAssumption DEF Known, MutexGuardsRegistry, OpenedOnTheWay
    <3>2. CASE on[r] # None
      <4>1. on[r] = connectionRegistry[stmt[r].transaction][stmt[r].database] /\ stmtPc[r] # "unused"
        BY <1>0, <3>2 DEF AtWork, OnItsConnection
      <4>2. stmt[r].transaction \in Calls /\ stmt[r].database \in Databases
        BY <4>1, SentWhere
      <4>3. on[r] \in Opened
        BY <3>2, <4>1, <4>2 DEF Known, MutexGuardsRegistry, RegisteredIsOpened, ConnectionsOf
      <4> QED BY <3>1, <4>3
    <3> QED BY <3>1, <3>2
  <2>5. CASE StartsAtOnce(EngineOf(s))
    <3>1. /\ stmtPc' = [stmtPc EXCEPT ![s] = "running"] /\ on' = [on EXCEPT ![s] = s]
          /\ session' = [session EXCEPT ![s] = "open"]
      BY <1>3, <2>5 DEF Connected
    <3>2. on'[s] = s /\ (\A r \in Statements \ {s} : on'[r] = on[r]) /\ stmtPc'[s] = "running"
      BY <3>1 DEF Known, TypeOK
    <3> QED BY <1>0, <2>1, <2>2, <2>4, <3>1, <3>2, WrittenOpens DEF StmtPcs
  <2>6. CASE ~StartsAtOnce(EngineOf(s))
    <3>1. /\ stmtPc' = [stmtPc EXCEPT ![s] = "starting"] /\ UNCHANGED on
          /\ session' = [session EXCEPT ![s] = "fresh"]
      BY <1>3, <2>3, <2>6 DEF Connected
    <3>2. EngineOf(s) \in {"POSTGRES", "SQLITE"}
      BY <2>3, <2>6 DEF StartsAtOnce
    <3> QED BY <1>0, <2>1, <2>2, <2>4, <3>1, <3>2, WrittenOpens DEF StmtPcs
  <2> QED BY <2>5, <2>6
<1>4. CASE ConnectFails(s)
  <2>1. stmtPc[s] = "connecting" /\ UNCHANGED <<stmt, on, fate, session>> /\ stmtPc' = [stmtPc EXCEPT ![s] = "failed"]
    BY <1>4 DEF ConnectFails, dataVars
  <2>2. on[s] = None
    BY <1>0, <2>1 DEF AtWork, OnItsConnection, Early
  <2> QED BY <1>0, <2>1, <2>2, WrittenOpens DEF StmtPcs, Early
<1>5. CASE Began(s)
  <2>1. /\ stmtPc[s] = "starting" /\ UNCHANGED <<stmt, fate>>
        /\ stmtPc' = [stmtPc EXCEPT ![s] = "running"] /\ session' = [session EXCEPT ![s] = "open"]
    BY <1>5 DEF Began
  <2>2. on'[s] = s /\ (\A r \in Statements \ {s} : on'[r] = on[r]) /\ stmtPc'[s] = "running"
    BY <1>5 DEF Began, Known, TypeOK
  <2>3. \A r \in Statements : on[r] # s
    BY <2>1, ConstantsAssumption DEF Written, NotBefore
  <2> QED BY <1>0, <2>1, <2>2, <2>3, WrittenOpens DEF StmtPcs, Early
<1>6. ~RunOnItsOwn(s) /\ ~BeginFails(s)
  BY SentWhere, BeginsAlways DEF RunOnItsOwn
<1>7. CASE Executed(s)
  <2>1. stmtPc[s] = "running" /\ UNCHANGED <<stmt, on, session>> /\ CanRun(on[s])
    BY <1>7 DEF Executed
  <2>2. \A r \in Statements : /\ stmtPc[r] # "unused" => stmtPc'[r] # "unused"
                              /\ stmtPc'[r] = "starting" <=> stmtPc[r] = "starting"
                              /\ stmtPc[r] = "failed" => stmtPc'[r] = "failed"
    BY <1>7 DEF Executed, Known, TypeOK
  <2>3. CASE stmt[s].cursor
    <3>1. UNCHANGED fate
      BY <1>7, <2>3 DEF Executed
    <3> QED BY <2>1, <2>2, <3>1, WrittenKept
  <2>4. CASE ~stmt[s].cursor
    <3>1. on[s] \in Statements /\ session[on[s]] = "open" /\ ~AutoCommits(EngineOf(on[s]))
      BY <2>1, RunsInSession, SentWhere DEF CanRun, AlwaysBegun, EngineOf
    <3>2. fate' = [fate EXCEPT ![s] = "pending"]
      BY <1>7, <2>4, <3>1 DEF Executed
    <3>3. fate'[s] = "pending" /\ \A r \in Statements \ {s} : fate'[r] = fate[r]
      BY <3>2 DEF Known, TypeOK
    <3>4. \A r \in Statements : fate[r] # "none" /\ on[r] = on[s] => fate[r] = "pending"
      BY <3>1 DEF Written, ToldBySession, FateOf, Known, TypeOK, Fates
    <3>5. InSession' /\ NotBefore' /\ AbortedByFailure'
      BY <2>1, <2>2 DEF Written, InSession, NotBefore, AbortedByFailure, EngineOf, Known, TypeOK
    <3>6. ToldBySession'
      <4> SUFFICES ASSUME NEW r \in Statements PROVE FateOf(r)'
        BY DEF ToldBySession
      <4>1. CASE r = s
        BY <2>1, <2>2, <3>1, <3>3, <4>1, ConstantsAssumption DEF FateOf
      <4>2. CASE r # s
        BY <2>1, <2>2, <3>3, <4>2 DEF FateOf, Written, ToldBySession
      <4> QED BY <4>1, <4>2
    <3>7. OneFate'
      BY <2>1, <3>3, <3>4 DEF Written, OneFate
    <3> QED BY <3>5, <3>6, <3>7 DEF Written
  <2> QED BY <2>3, <2>4
<1>8. CASE StatementFails(s)
  <2>1. /\ stmtPc[s] = "running" /\ UNCHANGED <<stmt, on>> /\ stmtPc' = [stmtPc EXCEPT ![s] = "failed"]
        /\ CanRun(on[s]) => "statement" \in Faults
    BY <1>8 DEF StatementFails, Fault
  <2>2. on[s] \in Statements /\ session[on[s]] \in {"open", "aborted"} /\ EngineOf(on[s]) = Engine[d] /\ d \in Databases
    BY <2>1, RunsInSession, SentWhere DEF EngineOf
  <2>3. AfterFailure(on[s]) = IF session[on[s]] = "open" /\ EngineOf(on[s]) \in {"POSTGRES", "NEO4J"}
                              THEN {"aborted"} ELSE {session[on[s]]}
    <3>1. session[on[s]] = "open" => EngineOf(on[s]) # "SQLITE"
      BY <2>1, <2>2 DEF CanRun, AlwaysBegun
    <3> QED BY <2>2, <3>1 DEF AfterFailure, Noticed
  <2>4. PICK e \in {"open", "aborted"} :
          /\ session' = [session EXCEPT ![on[s]] = e] /\ UNCHANGED fate
          /\ \/ e = session[on[s]]
             \/ e = "aborted" /\ session[on[s]] = "open" /\ EngineOf(on[s]) \in {"POSTGRES", "NEO4J"}
    BY <1>8, <2>2, <2>3 DEF StatementFails
  <2>5. \A r \in Statements : /\ stmtPc[r] # "unused" => stmtPc'[r] # "unused"
                              /\ stmtPc'[r] = "starting" <=> stmtPc[r] = "starting"
                              /\ stmtPc[r] = "failed" => stmtPc'[r] = "failed"
    BY <2>1 DEF Known, TypeOK
  <2>6. session'[on[s]] = e /\ (\A k \in Statements \ {on[s]} : session'[k] = session[k]) /\ stmtPc'[s] = "failed"
    BY <2>1, <2>2, <2>4 DEF Known, TypeOK
  <2>7. InSession'
    BY <2>1, <2>2, <2>4, <2>5, <2>6 DEF Written, InSession, EngineOf
  <2>8. NotBefore'
    BY <2>1, <2>5 DEF Written, NotBefore, Known, TypeOK
  <2>9. AbortedByFailure'
    <3> SUFFICES ASSUME NEW k \in Statements, session'[k] = "aborted", EngineOf(k) = "POSTGRES"
                 PROVE  \E r \in Statements : on[r] = k /\ stmtPc'[r] = "failed"
      BY <2>1 DEF AbortedByFailure, EngineOf
    <3>1. CASE k = on[s]
      BY <2>6, <3>1
    <3>2. CASE k # on[s]
      BY <2>5, <2>6, <3>2 DEF Written, AbortedByFailure
    <3> QED BY <3>1, <3>2
  <2>10. ToldBySession'
    <3> SUFFICES ASSUME NEW r \in Statements PROVE FateOf(r)'
      BY DEF ToldBySession
    <3>1. FateOf(r) /\ fate'[r] = fate[r] /\ on'[r] = on[r] /\ (on[r] # None => on[r] \in Statements)
          /\ (stmtPc[r] # "unused" => stmtPc'[r] # "unused")
      BY <2>1, <2>4, <2>5 DEF Written, ToldBySession, Known, TypeOK
    <3>2. CASE on[r] = on[s]
      BY <2>2, <2>4, <2>6, <3>1, <3>2 DEF FateOf
    <3>3. CASE on[r] # on[s]
      BY <2>6, <3>1, <3>3 DEF FateOf
    <3> QED BY <3>2, <3>3
  <2>11. OneFate'
    BY <2>1, <2>4 DEF Written, OneFate
  <2> QED BY <2>7, <2>8, <2>9, <2>10, <2>11 DEF Written
<1>9. CASE ReadToEnd(s)
  <2>1. UNCHANGED <<stmt, on, fate, session>>
    BY <1>9 DEF ReadToEnd, dataVars
  <2>2. \A r \in Statements : /\ stmtPc[r] # "unused" => stmt'[r] = stmt[r] /\ stmtPc'[r] # "unused"
                              /\ stmtPc'[r] = "starting" <=> stmtPc[r] = "starting"
                              /\ stmtPc[r] = "failed" => stmtPc'[r] = "failed"
    BY <1>9 DEF ReadToEnd, Known, TypeOK
  <2> QED BY <2>1, <2>2, WrittenKept
<1>10. CASE Break(s)
  <2>1. d \in Databases
    BY <1>10, OpenedWhere, SentWhere DEF Break, Opened
  <2> QED BY <1>10, <2>1 DEF Break, Fault, EngineOf, NothingRefused
<1> QED
  BY <1>1, <1>2, <1>3, <1>4, <1>5, <1>6, <1>7, <1>8, <1>9, <1>10 DEF StatementStep

-----------------------------------------------------------------------------
(* How calls end, and who hears of a failure.                               *)

\* A call has an outcome only once its method is over, and has returned only once it is done.
OutcomeLast ==
  \A c \in Calls :
    /\ callPc[c] \in {"idle", "running", "closing", "committing"} => outcome[c] = "none"
    /\ outcome[c] = "returned" => callPc[c] = "done"

\* A method that hears of a failure runs on, or has thrown itself.
Heard(o) == callPc[o] = "running" \/ outcome[o] = "threw"
FailuresAreHeard ==
  "rethrows" \in Discipline =>
    /\ \A s \in Statements : stmtPc[s] = "failed" => Heard(stmt[s].caller)
    /\ \A o \in Calls : outcome[o] = "threw" /\ frame[o].caller # None => Heard(frame[o].caller)

Told == OutcomeLast /\ FailuresAreHeard

LEMMA ToldAtFirst == Init => Told
  BY DEF Init, Told, OutcomeLast, FailuresAreHeard

\* What a step makes of the outcome of a call.
LEMMA OutcomesMove ==
  ASSUME NothingRefused, Known, InHand, OutcomeLast, [Next]_vars, NEW o \in Calls
  PROVE  /\ callPc'[o] \in {"idle", "running", "closing", "committing"} => outcome'[o] = "none"
         /\ outcome'[o] = "returned" => callPc'[o] = "done"
         /\ Heard(o) => Heard(o)' \/ PopContext(o)
         /\ outcome'[o] = "threw" => outcome[o] = "threw" \/ Throw(o) \/ (Begun(o) /\ frame[o].isRoot)
<1> DEFINE Moves == /\ callPc'[o] \in {"idle", "running", "closing", "committing"} => outcome'[o] = "none"
                    /\ outcome'[o] = "returned" => callPc'[o] = "done"
                    /\ Heard(o) => Heard(o)' \/ PopContext(o)
                    /\ outcome'[o] = "threw" => outcome[o] = "threw" \/ Throw(o) \/ (Begun(o) /\ frame[o].isRoot)
<1>1. /\ callPc[o] \in {"idle", "running", "closing", "committing"} => outcome[o] = "none"
      /\ outcome[o] = "returned" => callPc[o] = "done"
      /\ callPc[o] \in CallPcs
  BY DEF OutcomeLast, Known, TypeOK
<1>2. CASE callPc'[o] = callPc[o] /\ outcome'[o] = outcome[o]
  BY <1>1, <1>2 DEF Heard
<1>3. ASSUME NEW c \in Calls, CallStep(c) PROVE Moves
  <2>1. CASE \E x \in Contexts, p \in Calls \cup {None} : RunInTransaction(c, x, p)
    BY <1>1, <2>1 DEF RunInTransaction, Known, TypeOK, Heard
  <2>2. CASE MarkAsRollback(c)
    BY <1>2, <2>2 DEF MarkAsRollback, callVars
  <2>3. CASE Throw(c) \/ CloseCursorsFails(c)
    <3>1. outcome' = [outcome EXCEPT ![c] = "threw"]
          /\ callPc' = [callPc EXCEPT ![c] = IF frame[c].isRoot THEN "rollingBack" ELSE "done"]
      BY <2>3 DEF Throw, CloseCursorsFails, Unwind
    <3>2. o # c => callPc'[o] = callPc[o] /\ outcome'[o] = outcome[o]
      BY <3>1 DEF Known, TypeOK
    <3>3. CASE o = c
      <4>1. outcome'[o] = "threw" /\ callPc'[o] \in {"rollingBack", "done"}
        BY <3>1, <3>3 DEF Known, TypeOK
      <4>2. Throw(o) \/ (Begun(o) /\ frame[o].isRoot)
        BY <2>3, <3>3 DEF CloseCursorsFails, Begun, Active, Known, Tree, RootsOnTop
      <4> QED BY <4>1, <4>2 DEF Heard
    <3> QED BY <1>2, <3>2, <3>3
  <2>4. CASE PopContext(c)
    <3>1. o # c => callPc'[o] = callPc[o] /\ outcome'[o] = outcome[o]
      BY <2>4 DEF PopContext, Known, TypeOK
    <3>2. CASE o = c
      <4>1. \/ callPc'[o] = "closing" /\ outcome'[o] = outcome[o]
            \/ callPc'[o] = "done" /\ outcome'[o] = "returned"
        BY <2>4, <3>2 DEF PopContext, Known, TypeOK
      <4>2. outcome[o] = "none" /\ PopContext(o)
        BY <1>1, <2>4, <3>2 DEF PopContext
      <4> QED BY <4>1, <4>2
    <3> QED BY <1>2, <3>1, <3>2
  <2>5. CASE CloseCursors(c) \/ Release(c)
    <3>1. outcome' = outcome /\ callPc[c] # "running" /\ (o # c => callPc'[o] = callPc[o])
      BY <2>5 DEF CloseCursors, Release, Known, TypeOK
    <3>2. CASE o = c
      <4>1. callPc'[o] = "committing" => callPc[o] = "closing"
        BY <2>5, <3>2 DEF CloseCursors, Release, Known, TypeOK
      <4>2. callPc'[o] \in {"committing", "rollingBack", "releasing"}
        BY <2>5, <3>2 DEF CloseCursors, Release, Known, TypeOK
      <4>3. callPc[o] # "done" /\ callPc[o] # "running"
        BY <2>5, <3>2 DEF CloseCursors, Release
      <4> QED BY <1>1, <3>1, <4>1, <4>2, <4>3 DEF Heard
    <3> QED BY <1>2, <3>1, <3>2
  <2>6. CASE ReleaseClient(c)
    <3>1. o # c => callPc'[o] = callPc[o] /\ outcome'[o] = outcome[o]
      BY <2>6 DEF ReleaseClient, Known, TypeOK
    <3>2. o = c => /\ callPc'[o] = "done" /\ callPc[o] # "running"
                   /\ outcome'[o] = IF outcome[o] = "threw" THEN "threw" ELSE "returned"
      BY <2>6 DEF ReleaseClient, Known, TypeOK
    <3>3. CASE o = c
      BY <3>2, <3>3 DEF Heard
    <3> QED BY <1>2, <3>1, <3>3
  <2> HIDE DEF Moves
  <2> QED BY <1>3, <2>1, <2>2, <2>3, <2>4, <2>5, <2>6 DEF CallStep
<1>4. ASSUME NEW c \in Calls, NEW k \in Statements, AnswerStep(c, k) PROVE Moves
  <2>1. CASE UNCHANGED <<callPc, outcome>>
    BY <1>2, <2>1
  <2>2. CASE CommitFails(c, k) /\ callPc[c] = "committing"
    <3>1. outcome' = [outcome EXCEPT ![c] = "threw"]
          /\ callPc' = [callPc EXCEPT ![c] = IF frame[c].isRoot THEN "rollingBack" ELSE "done"]
      BY <2>2 DEF CommitFails, Unwind
    <3>2. o # c => callPc'[o] = callPc[o] /\ outcome'[o] = outcome[o]
      BY <3>1 DEF Known, TypeOK
    <3>3. CASE o = c
      <4>1. outcome'[o] = "threw" /\ callPc'[o] \in {"rollingBack", "done"}
        BY <3>1, <3>3 DEF Known, TypeOK
      <4>2. Begun(o) /\ frame[o].isRoot
        BY <2>2, <3>3 DEF Begun, Active, Known, Tree, RootsOnTop
      <4> QED BY <4>1, <4>2 DEF Heard
    <3> QED BY <1>2, <3>2, <3>3
  <2> HIDE DEF Moves
  <2> QED
    BY <1>4, <2>1, <2>2, NobodyRefuses DEF AnswerStep, CommitAccepted, CommitFails, RollbackAccepted, ReleaseAccepted
<1>5. ASSUME NEW s \in Statements, StatementStep(s) PROVE UNCHANGED <<callPc, outcome>>
  BY <1>5 DEF StatementStep, Issue, Acquire, Connected, ConnectFails, Began, BeginFails, RunOnItsOwn, Executed,
              StatementFails, ReadToEnd, Break, callVars
<1>6. CASE UNCHANGED vars
  BY <1>2, <1>6 DEF vars, callVars
<1> HIDE DEF Moves
<1>7. Moves
  BY <1>2, <1>3, <1>4, <1>5, <1>6 DEF Next, Stop, Moves
<1> QED BY <1>7 DEF Moves

\* A statement fails while its method runs.
LEMMA FailsInItsMethod ==
  ASSUME Structured, Known, InHand, [Next]_vars, NEW s \in Statements, stmtPc'[s] = "failed"
  PROVE  \/ stmtPc[s] = "failed" /\ stmt'[s] = stmt[s]
         \/ stmt'[s].caller \in Calls /\ callPc'[stmt'[s].caller] = "running"
<1>1. CASE \E c \in Calls, d \in Databases, cursor \in BOOLEAN : Issue(s, c, d, cursor)
  BY <1>1 DEF Issue, callVars, Known, TypeOK
<1>2. CASE stmt'[s] = stmt[s] /\ stmtPc[s] # "unused"
  <2>1. stmt[s].caller \in Calls
    BY <1>2, SentWhere
  <2>2. CASE stmtPc[s] \notin Settled
    <3>1. callPc[stmt[s].caller] = "running"
      BY <1>2, <2>2 DEF InHand, AtWork, SenderRuns
    <3>2. ASSUME NEW c \in Calls, CallStep(c) PROVE FALSE
      BY <2>2, <3>2 DEF CallStep, RunInTransaction, MarkAsRollback, Throw, PopContext, CloseCursors, Close,
                        CloseCursorsFails, Release, ReleaseClient, stmtVars, Settled, Known, TypeOK
    <3>3. ASSUME NEW c \in Calls, NEW k \in Statements, AnswerStep(c, k) PROVE FALSE
      BY <2>2, <3>3 DEF AnswerStep, CommitAccepted, CommitFails, RollbackAccepted, RollbackFails, ReleaseAccepted,
                        Close, ReleaseFails, stmtVars, Settled, Known, TypeOK
    <3>4. ASSUME NEW u \in Statements, StatementStep(u) PROVE callPc' = callPc
      BY <3>4 DEF StatementStep, Issue, Acquire, Connected, ConnectFails, Began, BeginFails, RunOnItsOwn, Executed,
                  StatementFails, ReadToEnd, Break, callVars
    <3> QED BY <1>2, <2>1, <3>1, <3>2, <3>3, <3>4 DEF Next, Stop, vars, callVars
  <2>3. CASE stmtPc[s] \in Settled /\ stmtPc[s] # "failed"
    <3>1. ASSUME NEW c \in Calls, CallStep(c) PROVE FALSE
      BY <2>3, <3>1 DEF CallStep, RunInTransaction, MarkAsRollback, Throw, PopContext, CloseCursors, Close,
                        CloseCursorsFails, Release, ReleaseClient, stmtVars, Known, TypeOK
    <3>2. ASSUME NEW c \in Calls, NEW k \in Statements, AnswerStep(c, k) PROVE FALSE
      BY <2>3, <3>2 DEF AnswerStep, CommitAccepted, CommitFails, RollbackAccepted, RollbackFails, ReleaseAccepted,
                        Close, ReleaseFails, stmtVars, Known, TypeOK
    <3>3. ASSUME NEW u \in Statements, StatementStep(u) PROVE FALSE
      <4>1. u = s => stmtPc'[s] = "ok" \/ UNCHANGED stmtPc
        BY <2>3, <3>3 DEF StatementStep, Issue, Acquire, Connected, ConnectFails, Began, BeginFails, RunOnItsOwn,
                          Executed, StatementFails, ReadToEnd, Break, stmtVars, Settled, Known, TypeOK
      <4>2. u # s => stmtPc'[s] = stmtPc[s]
        BY <3>3 DEF StatementStep, Issue, Acquire, Connected, ConnectFails, Began, BeginFails, RunOnItsOwn,
                    Executed, StatementFails, ReadToEnd, Break, stmtVars, Known, TypeOK
      <4> QED BY <2>3, <4>1, <4>2
    <3> QED BY <2>3, <3>1, <3>2, <3>3 DEF Next, Stop, vars, stmtVars
  <2> QED BY <1>2, <2>2, <2>3
<1> QED BY <1>1, <1>2, OnlyIssueSends DEF Known

LEMMA StaysTold ==
  ASSUME Structured, NothingRefused, Known, InHand, Told, [Next]_vars
  PROVE  Told'
<1>1. OutcomeLast'
  BY OutcomesMove DEF Told, OutcomeLast
<1>2. FailuresAreHeard'
  <2> SUFFICES ASSUME "rethrows" \in Discipline
               PROVE  /\ \A s \in Statements : stmtPc'[s] = "failed" =>
                           callPc'[stmt'[s].caller] = "running" \/ outcome'[stmt'[s].caller] = "threw"
                      /\ \A o \in Calls : outcome'[o] = "threw" /\ frame'[o].caller # None =>
                           callPc'[frame'[o].caller] = "running" \/ outcome'[frame'[o].caller] = "threw"
    BY DEF FailuresAreHeard, Heard
  <2>1. ASSUME NEW s \in Statements, stmtPc'[s] = "failed"
        PROVE  callPc'[stmt'[s].caller] = "running" \/ outcome'[stmt'[s].caller] = "threw"
    <3>1. CASE stmtPc[s] = "failed" /\ stmt'[s] = stmt[s]
      <4>1. stmt[s].caller \in Calls /\ Heard(stmt[s].caller)
        BY <3>1, SentWhere DEF Told, FailuresAreHeard
      <4>2. ~PopContext(stmt[s].caller)
        BY <3>1, <4>1 DEF PopContext, SawNoFailure, StatementsOf
      <4>3. Heard(stmt[s].caller)'
        BY <3>1, <4>1, <4>2, OutcomesMove DEF Told
      <4> QED BY <3>1, <4>3 DEF Heard
    <3> QED BY <2>1, <3>1, FailsInItsMethod
  <2>2. ASSUME NEW o \in Calls, outcome'[o] = "threw", frame'[o].caller # None
        PROVE  callPc'[frame'[o].caller] = "running" \/ outcome'[frame'[o].caller] = "threw"
    <3>1. CASE Throw(o)
      <4>1. Active(o) /\ frame' = frame /\ frame[o].caller \in Calls
        BY <2>2, <3>1 DEF Throw, Active, Known, TypeOK, Frame
      <4>2. callPc[frame[o].caller] = "running"
        BY <2>2, <4>1 DEF Known, Tree, CallerRuns
      <4>3. frame[o].caller # o
        <5>1. Begun(o) /\ ~frame[o].isRoot
          BY <2>2, <4>1 DEF InHand, Rooted, TopIsRoot, Begun, Active
        <5>2. \A b \in CalledBy(o) : callPc[b] = "done"
          BY <3>1 DEF Throw, Awaited, Structured
        <5> QED BY <4>1, <5>2 DEF CalledBy, Active
      <4>4. callPc'[frame[o].caller] = "running"
        BY <3>1, <4>1, <4>2, <4>3 DEF Throw, Unwind, Known, TypeOK
      <4> QED BY <4>1, <4>4
    <3>2. CASE ~Throw(o)
      <4>1. Begun(o)
        BY <2>2, <3>2, OutcomesMove DEF Told, OutcomeLast, Begun
      <4>2. frame'[o] = frame[o] /\ frame[o].caller \in Calls
        BY <2>2, <4>1, BegunStays DEF Begun, Known, TypeOK, Frame
      <4>3. ~frame[o].isRoot
        BY <2>2, <4>1, <4>2 DEF InHand, Rooted, TopIsRoot
      <4>4. outcome[o] = "threw" /\ Heard(frame[o].caller)
        BY <2>2, <3>2, <4>2, <4>3, OutcomesMove DEF Told, FailuresAreHeard
      <4>5. ~PopContext(frame[o].caller)
        BY <4>1, <4>2, <4>4 DEF PopContext, SawNoFailure, CalledBy, Begun
      <4>6. Heard(frame[o].caller)'
        BY <4>2, <4>4, <4>5, OutcomesMove DEF Told
      <4> QED BY <4>2, <4>6 DEF Heard
    <3> QED BY <3>1, <3>2
  <2> QED BY <2>1, <2>2
<1> QED BY <1>1, <1>2 DEF Told

\* Where methods rethrow, a root past its method that did not throw has seen none of its transaction's statements fail.
LEMMA NoFailureBelow ==
  ASSUME "rethrows" \in Discipline, Known, InHand, Told, NEW c \in Calls, IsRootCall(c), callPc[c] # "running",
         outcome[c] # "threw", NEW s \in Statements, stmtPc[s] # "unused", stmt[s].transaction = frame[c].transaction
  PROVE  stmtPc[s] # "failed"
<1> DEFINE t == frame[c].transaction
           Threw == {o \in Calls : Begun(o) /\ frame[o].transaction = t /\ outcome[o] = "threw"}
<1>1. \A o \in Calls : Begun(o) /\ frame[o].transaction = t => callPc[o] # "running"
  BY RootRuns DEF InHand, Root, IsRootCall, Begun
<1>2. Threw = {}
  <2> SUFFICES ASSUME Threw # {} PROVE FALSE
    OBVIOUS
  <2>1. PICK rank \in [Calls -> Nat] : Ranks(rank)
    BY DEF Known, Tree, CallersFirst
  <2>2. PICK o \in Threw : \A b \in Threw : ~ (rank[b] < rank[o])
    BY <2>1, LeastRank
  <2>3. o \in Calls /\ Begun(o) /\ frame[o].transaction = t /\ outcome[o] = "threw"
    BY <2>2
  <2>4. CASE frame[o].caller = None
    <3>1. Root(o, t) /\ Root(c, t) /\ t \in Calls
      BY <2>3, <2>4 DEF InHand, Rooted, TopIsRoot, Root, IsRootCall, Begun, Known, TypeOK, Frame
    <3> QED BY <2>3, <3>1 DEF InHand, Rooted, OneRoot
  <2>5. CASE frame[o].caller # None
    <3> DEFINE p == frame[o].caller
    <3>1. p \in Calls /\ Begun(p) /\ frame[p].transaction = t
      BY <2>3, <2>5 DEF InHand, Rooted, CallerShares, Begun, Known, TypeOK, Frame
    <3>2. Heard(p)
      BY <2>3, <2>5 DEF Told, FailuresAreHeard
    <3>3. p \in Threw
      BY <1>1, <3>1, <3>2 DEF Heard
    <3>4. rank[p] < rank[o]
      BY <2>1, <2>3, <2>5 DEF Ranks, Begun
    <3> QED BY <2>2, <3>3, <3>4
  <2> QED BY <2>4, <2>5
<1>3. stmt[s].caller \in Calls /\ Begun(stmt[s].caller) /\ frame[stmt[s].caller].transaction = t
  BY SentWhere DEF Begun
<1>4. ~Heard(stmt[s].caller)
  BY <1>1, <1>2, <1>3 DEF Heard
<1> QED BY <1>4 DEF Told, FailuresAreHeard

-----------------------------------------------------------------------------
(* What a root decides.                                                     *)

\* On Postgres, whose COMMIT of an aborted transaction is answered as if it had been one, a method rethrows.
PostgresRethrows == \A d \in Databases : Engine[d] = "POSTGRES" => "rethrows" \in Discipline

Durable(k) == \E s \in Statements : on[s] = k /\ fate[s] = "durable"
Commits(c, k) == <<"commit", k>> \in sent[c]

\* Marked for rollback, it commits nothing; and unless it threw it rolls back only so marked.
KeepsItsMark(c) ==
  /\ rollbackOption[frame[c].transaction] =>
       callPc[c] # "committing" /\ \A k \in Mine(c) : ~Commits(c, k) /\ ~Durable(k)
  /\ callPc[c] = "rollingBack" /\ outcome[c] # "threw" => rollbackOption[frame[c].transaction]

\* Having thrown, it leaves a connection that it did not commit.
StopsShort(c) == outcome[c] = "threw" /\ Mine(c) # {} => \E k \in Mine(c) : ~Commits(c, k) /\ ~Durable(k)

\* Otherwise it commits all that was written.
CommitsAll(c) ==
  /\ PostgresRethrows
  /\ callPc[c] \in {"committing", "releasing", "done"} /\ outcome[c] # "threw"
  /\ ~rollbackOption[frame[c].transaction]
  => \A s \in Statements : on[s] \in Mine(c) => fate[s] \in {"none", "durable"} \/ Commits(c, on[s])

Decided(c) == KeepsItsMark(c) /\ StopsShort(c) /\ CommitsAll(c)
Past(c) == IsRootCall(c) /\ callPc[c] \notin {"running", "closing"}
RootsDecide == \A c \in Calls : Past(c) => Decided(c)

LEMMA RootsDecideAtFirst == Init => RootsDecide
  BY DEF Init, RootsDecide, Past, IsRootCall, Begun

\* Until it commits a connection nothing is durable there.
LEMMA NotDurableYet ==
  ASSUME Known, InHand, Written, NEW c \in Calls, IsRootCall(c), NEW k \in Mine(c),
         callPc[c] \in {"running", "closing"} \/ Commits(c, k)
  PROVE  session[k] # "ended" /\ ~Durable(k)
<1>1. session[k] # "ended"
  BY DEF InHand, RootsEnd, Ends, EndsOnce, Commits
<1> QED BY <1>1 DEF Durable, Written, ToldBySession, FateOf

\* A step that takes back none of what a root decided.
LEMMA DecidedKept ==
  ASSUME NEW b \in Calls, Decided(b),
         frame'[b] = frame[b], callPc'[b] = callPc[b], outcome'[b] = outcome[b], Mine(b)' = Mine(b),
         rollbackOption'[frame[b].transaction] = rollbackOption[frame[b].transaction],
         \A k \in Mine(b) : <<"commit", k>> \in sent'[b] => <<"commit", k>> \in sent[b],
         callPc[b] = "rollingBack" \/ \A k \in Mine(b) : <<"commit", k>> \in sent[b] => <<"commit", k>> \in sent'[b],
         \A s \in Statements : on'[s] \in Mine(b) =>
           /\ on'[s] = on[s]
           /\ fate'[s] = "durable" => fate[s] = "durable"
           /\ fate[s] \in {"none", "durable"} => fate'[s] = fate[s]
  PROVE  Decided(b)'
<1>1. \A k \in Mine(b) : Durable(k)' => Durable(k)
  BY DEF Durable
<1>2. KeepsItsMark(b)'
  BY <1>1 DEF Decided, KeepsItsMark, Commits
<1>3. StopsShort(b)'
  BY <1>1 DEF Decided, StopsShort, Commits
<1>4. CommitsAll(b)'
  BY DEF Decided, CommitsAll, Commits
<1> QED BY <1>2, <1>3, <1>4 DEF Decided

\* What is written elsewhere, and decided by others, is nothing to a root.
LEMMA DecidedApart ==
  ASSUME Known, InHand, RootsDecide, NEW c \in Calls, UNCHANGED <<frame, connectionRegistry, on>>,
         UNCHANGED rollbackOption,
         \A o \in Calls : callPc'[o] = "idle" <=> callPc[o] = "idle",
         \A o \in Calls \ {c} : callPc'[o] = callPc[o] /\ sent'[o] = sent[o] /\ outcome'[o] = outcome[o],
         \A s \in Statements : fate'[s] = fate[s] \/ (IsRootCall(c) /\ on[s] \in Mine(c)),
         Past(c)' => Decided(c)'
  PROVE  RootsDecide'
<1> SUFFICES ASSUME NEW b \in Calls, Past(b)', b # c PROVE Decided(b)'
  BY DEF RootsDecide
<1>1. IsRootCall(b) /\ Past(b) /\ Begun(b)
  BY DEF Past, IsRootCall, Begun
<1>2. Decided(b) /\ Mine(b)' = Mine(b)
  BY <1>1 DEF RootsDecide, Mine, ConnectionsOf
<1>3. \A s \in Statements : on[s] \in Mine(b) => fate'[s] = fate[s]
  BY <1>1, RootsApart DEF IsRootCall
<1> QED BY <1>2, <1>3, DecidedKept

\* Who asks for anything else asks for no commit that was not asked for.
LEMMA AsksNoCommit ==
  ASSUME Known, NEW c \in Calls, Begun(c), NEW op \in {"rollback", "release"}, NEW rest, Ask(c, op, rest)
  PROVE  \A k : <<"commit", k>> \in sent'[c] <=> <<"commit", k>> \in rest
<1>1. sent'[c] = rest \cup ({op} \X Mine(c)) /\ op # "commit"
  BY MovesAsk
<1> QED BY <1>1

\* A root that throws, in its method or as it ends it, rolls back.
LEMMA UnwindDecides ==
  ASSUME Known, InHand, Written, NEW c \in Calls, IsRootCall(c), NEW rest, Unwind(c, rest), rest \subseteq sent[c],
         UNCHANGED <<frame, connectionRegistry, on, rollbackOption>>,
         rollbackOption[frame[c].transaction] => \A k \in Mine(c) : ~Commits(c, k) /\ ~Durable(k),
         \A s \in Statements : fate'[s] = "durable" => fate[s] = "durable",
         Mine(c) # {} => \E k \in Mine(c) : <<"commit", k>> \notin rest /\ ~Durable(k)
  PROVE  Decided(c)'
<1>1. Begun(c) /\ frame[c].isRoot /\ Mine(c)' = Mine(c)
  BY DEF IsRootCall, Mine, ConnectionsOf
<1>2. Ask(c, "rollback", rest) /\ callPc'[c] = "rollingBack" /\ outcome'[c] = "threw"
  BY <1>1 DEF Unwind, Known, TypeOK
<1>3. \A k : <<"commit", k>> \in sent'[c] <=> <<"commit", k>> \in rest
  BY <1>1, <1>2, AsksNoCommit
<1>4. \A k : Durable(k)' => Durable(k)
  BY DEF Durable
<1>5. KeepsItsMark(c)'
  BY <1>1, <1>2, <1>3, <1>4 DEF KeepsItsMark, Commits
<1>6. StopsShort(c)'
  BY <1>1, <1>3, <1>4 DEF StopsShort, Commits
<1>7. CommitsAll(c)'
  BY <1>2 DEF CommitsAll
<1> QED BY <1>5, <1>6, <1>7 DEF Decided

LEMMA CallDecides ==
  ASSUME Structured, Known, InHand, Written, Told, RootsDecide, NEW c \in Calls, CallStep(c)
  PROVE  RootsDecide'
<1>1. CASE \E x \in Contexts, p \in Calls \cup {None} : RunInTransaction(c, x, p)
  <2>1. PICK x \in Contexts, p \in Calls \cup {None} : RunInTransaction(c, x, p)
    BY <1>1
  <2>2. /\ callPc[c] = "idle" /\ callPc'[c] = "running" /\ UNCHANGED <<sent, outcome, connectionRegistry, on, fate>>
        /\ \A o \in Calls \ {c} : callPc'[o] = callPc[o] /\ frame'[o] = frame[o]
    BY <2>1 DEF RunInTransaction, connVars, stmtVars, dataVars, Known, TypeOK
  <2>3. \A t \in Calls : t # c => rollbackOption'[t] = rollbackOption[t]
    BY <2>1 DEF RunInTransaction, Known, TypeOK
  <2> SUFFICES ASSUME NEW b \in Calls, Past(b)' PROVE Decided(b)'
    BY DEF RootsDecide
  <2>4. b # c /\ Past(b) /\ Begun(b)
    BY <2>2 DEF Past, IsRootCall, Begun
  <2>5. frame[b].transaction \in Calls /\ frame[b].transaction # c
    BY <2>2, <2>4 DEF InHand, Rooted, HasRoot, Begun, Known, TypeOK, Frame
  <2>6. Decided(b) /\ Mine(b)' = Mine(b)
    BY <2>2, <2>4 DEF RootsDecide, Mine, ConnectionsOf
  <2> QED BY <2>2, <2>3, <2>4, <2>5, <2>6, DecidedKept
<1>2. CASE MarkAsRollback(c)
  <2>1. PICK t \in Calls : /\ currentTransaction[frame[c].context] = t /\ callPc[c] = "running"
                           /\ rollbackOption' = [rollbackOption EXCEPT ![t] = TRUE]
    BY <1>2 DEF MarkAsRollback
  <2>2. UNCHANGED <<callPc, frame, sent, outcome, connectionRegistry, on, fate>>
    BY <1>2 DEF MarkAsRollback, callVars, connVars, stmtVars, dataVars
  <2>3. frame[c].transaction = t
    BY <2>1 DEF Known, Tree, HeldMeanwhile, Active
  <2> SUFFICES ASSUME NEW b \in Calls, Past(b)' PROVE Decided(b)'
    BY DEF RootsDecide
  <2>4. Past(b) /\ Begun(b) /\ frame[b].transaction \in Calls
    BY <2>2 DEF Past, IsRootCall, Begun, Known, TypeOK, Frame
  <2>5. frame[b].transaction # t
    BY <2>1, <2>3, <2>4, RootRuns DEF InHand, Root, Past, IsRootCall, Begun
  <2>6. Decided(b) /\ Mine(b)' = Mine(b) /\ rollbackOption'[frame[b].transaction] = rollbackOption[frame[b].transaction]
    BY <2>1, <2>2, <2>4, <2>5 DEF RootsDecide, Mine, ConnectionsOf, Known, TypeOK
  <2> QED BY <2>2, <2>6, DecidedKept
<1>3. CASE ~MarkAsRollback(c) /\ ~ \E x \in Contexts, p \in Calls \cup {None} : RunInTransaction(c, x, p)
  <2>1. UNCHANGED <<frame, connectionRegistry, on, rollbackOption, fate>>
    BY <1>3 DEF CallStep, Throw, PopContext, CloseCursors, CloseCursorsFails, Release, ReleaseClient,
                ctxVars, connVars, stmtVars, dataVars
  <2>2. Active(c) /\ Begun(c) /\ Mine(c)' = Mine(c)
    BY <1>3, <2>1 DEF CallStep, Throw, PopContext, CloseCursors, CloseCursorsFails, Release, ReleaseClient, Active,
                      Begun, Mine, ConnectionsOf
  <2>3. callPc[c] # "running" => IsRootCall(c)
    BY <2>2 DEF IsRootCall, Known, Tree, RootsOnTop
  <2>4. /\ \A o \in Calls : callPc'[o] = "idle" <=> callPc[o] = "idle"
        /\ \A o \in Calls \ {c} : callPc'[o] = callPc[o] /\ sent'[o] = sent[o] /\ outcome'[o] = outcome[o]
    <3>1. \E pc \in CallPcs \ {"idle"}, out \in {"none", "returned", "threw"}, asks \in SUBSET Requests :
            /\ callPc' = [callPc EXCEPT ![c] = pc]
            /\ outcome' = [outcome EXCEPT ![c] = out]
            /\ sent' = [sent EXCEPT ![c] = asks]
      <4>1. \E pc \in CallPcs \ {"idle"} : callPc' = [callPc EXCEPT ![c] = pc]
        BY <1>3 DEF CallStep, Throw, PopContext, CloseCursors, CloseCursorsFails, Release, ReleaseClient, Unwind, CallPcs
      <4>2. \E out \in {"none", "returned", "threw"} : outcome' = [outcome EXCEPT ![c] = out]
        <5>1. outcome' = outcome \/ outcome' = [outcome EXCEPT ![c] = "threw"]
              \/ outcome' = [outcome EXCEPT ![c] = "returned"]
          BY <1>3 DEF CallStep, Throw, PopContext, CloseCursors, CloseCursorsFails, Release, ReleaseClient, Unwind
        <5>2. outcome' = outcome => outcome' = [outcome EXCEPT ![c] = outcome[c]]
          BY DEF Known, TypeOK
        <5> QED BY <5>1, <5>2 DEF Known, TypeOK
      <4>3. \E asks \in SUBSET Requests : sent' = [sent EXCEPT ![c] = asks]
        <5>1. sent' = sent \/ \E op \in {"commit", "rollback", "release"} : Ask(c, op, sent[c])
          BY <1>3 DEF CallStep, Throw, PopContext, CloseCursors, CloseCursorsFails, Release, ReleaseClient, Unwind, End
        <5>2. sent' = sent => sent' = [sent EXCEPT ![c] = sent[c]]
          BY DEF Known, TypeOK
        <5>3. sent[c] \in SUBSET Requests /\ \A op \in {"commit", "rollback", "release"} : {op} \X Mine(c) \subseteq Requests
          BY <2>2, MineIs DEF Known, TypeOK, Requests
        <5> QED BY <5>1, <5>2, <5>3 DEF Ask, Mine
      <4> QED BY <4>1, <4>2, <4>3
    <3> QED BY <2>2, <3>1 DEF Known, TypeOK, Begun
  <2>5. ASSUME Past(c)' PROVE Decided(c)'
    <3>1. IsRootCall(c) /\ Ends(c) /\ callPc'[c] \notin {"running", "closing"}
      BY <2>1, <2>2, <2>5 DEF Past, IsRootCall, Begun, InHand, RootsEnd
    <3>2. CASE Throw(c) \/ CloseCursorsFails(c)
      <4>1. callPc[c] \in {"running", "closing"} /\ Unwind(c, sent[c])
        BY <3>2 DEF Throw, CloseCursorsFails
      <4>2. sent[c] = {} /\ \A k \in Mine(c) : ~Durable(k)
        BY <3>1, <4>1, NotDurableYet DEF Ends, AsksItsOwn
      <4> QED BY <2>1, <3>1, <4>1, <4>2, UnwindDecides DEF Commits
    <3>3. CASE PopContext(c)
      BY <3>1, <3>3 DEF PopContext, IsRootCall, Known, TypeOK
    <3>4. CASE CloseCursors(c)
      <4>1. /\ callPc[c] = "closing" /\ outcome'[c] = "none"
            /\ Ask(c, End(frame[c].transaction), sent[c])
            /\ callPc'[c] = IF End(frame[c].transaction) = "rollback" THEN "rollingBack" ELSE "committing"
        BY <3>4 DEF CloseCursors, Told, OutcomeLast, Known, TypeOK
      <4>2. sent[c] = {} /\ \A k \in Mine(c) : ~Durable(k)
        BY <3>1, <4>1, NotDurableYet DEF Ends, AsksItsOwn
      <4>3. \A k \in Mine(c) : Durable(k)' => Durable(k)
        BY <2>1 DEF Durable
      <4>4. CASE rollbackOption[frame[c].transaction]
        <5>1. \A k : <<"commit", k>> \notin sent'[c]
          BY <2>2, <4>1, <4>2, <4>4, AsksNoCommit DEF End
        <5> QED BY <2>1, <2>2, <4>1, <4>2, <4>3, <4>4, <5>1
                DEF Decided, KeepsItsMark, StopsShort, CommitsAll, Commits, End
      <4>5. CASE ~rollbackOption[frame[c].transaction]
        <5>1. \A k \in Mine(c) : <<"commit", k>> \in sent'[c]
          BY <2>2, <4>1, <4>5, MovesAsk DEF End
        <5> QED BY <2>1, <2>2, <4>1, <4>5, <5>1 DEF Decided, KeepsItsMark, StopsShort, CommitsAll, Commits, End
      <4> QED BY <4>4, <4>5
    <3>5. CASE Release(c)
      <4>1. /\ callPc[c] \in {"committing", "rollingBack"} /\ callPc'[c] = "releasing" /\ outcome'[c] = outcome[c]
            /\ Ask(c, "release", sent[c])
        BY <3>5 DEF Release, Known, TypeOK
      <4>2. \A k : <<"commit", k>> \in sent'[c] <=> <<"commit", k>> \in sent[c]
        BY <2>2, <4>1, AsksNoCommit
      <4>3. Decided(c) /\ \A k \in Mine(c) : Durable(k)' <=> Durable(k)
        BY <2>1, <3>1, <4>1 DEF RootsDecide, Past, Durable
      <4>4. KeepsItsMark(c)' /\ StopsShort(c)'
        BY <2>1, <2>2, <4>1, <4>2, <4>3 DEF Decided, KeepsItsMark, StopsShort, Commits
      <4>5. CommitsAll(c)'
        BY <2>1, <2>2, <4>1, <4>2, <4>3 DEF Decided, KeepsItsMark, CommitsAll, Commits
      <4> QED BY <4>4, <4>5 DEF Decided
    <3>6. CASE ReleaseClient(c)
      <4>1. /\ callPc[c] = "releasing" /\ callPc'[c] = "done" /\ (outcome'[c] = "threw" <=> outcome[c] = "threw")
            /\ sent' = sent
        BY <3>6 DEF ReleaseClient, Known, TypeOK
      <4>2. Decided(c) /\ \A k \in Mine(c) : Durable(k)' <=> Durable(k)
        BY <2>1, <3>1, <4>1 DEF RootsDecide, Past, Durable
      <4> QED BY <2>1, <2>2, <4>1, <4>2 DEF Decided, KeepsItsMark, StopsShort, CommitsAll, Commits
    <3> QED BY <1>3, <3>2, <3>3, <3>4, <3>5, <3>6 DEF CallStep
  <2> QED BY <2>1, <2>4, <2>5, DecidedApart
<1> QED BY <1>1, <1>2, <1>3

\* A connection that answers a commit while its root still commits is in its transaction: where one of its statements
\* failed the root has thrown.
LEMMA CommitsOpen ==
  ASSUME PostgresRethrows, Known, InHand, Written, Told, NEW c \in Calls, NEW k \in Statements, CommitAccepted(c, k),
         AlwaysBegun, outcome[c] # "threw"
  PROVE  session[k] = "open"
<1>1. <<"commit", k>> \in sent[c] /\ ~CommitRefused(k)
  BY DEF CommitAccepted
<1>2. /\ IsRootCall(c) /\ Begun(c) /\ k \in Mine(c) /\ callPc[c] \in {"committing", "rollingBack"}
      /\ k \in Opened /\ stmtPc[k] # "starting"
  BY <1>1, WhoAsks, AskedHasBegun DEF IsRootCall
<1>3. stmt[k].database \in Databases /\ stmt[k].transaction = frame[c].transaction
  BY <1>2, MineIs
<1>4. session[k] \in {"open", "aborted"}
  <2>1. session[k] \in Sessions \ {"none", "fresh", "lost", "broken", "ended"}
    BY <1>1, <1>2, NotDurableYet DEF Commits, Opened, InHand, AtWork, Unbroken, Written, InSession, Known, TypeOK
  <2> QED BY <2>1 DEF Sessions
<1>5. CASE session[k] = "aborted"
  <2>1. EngineOf(k) = "POSTGRES"
    BY <1>1, <1>5 DEF CommitRefused, Written, InSession
  <2>2. "rethrows" \in Discipline
    BY <1>3, <2>1 DEF PostgresRethrows, EngineOf
  <2>3. PICK u \in Statements : on[u] = k /\ stmtPc[u] = "failed"
    BY <1>5, <2>1 DEF Written, AbortedByFailure
  <2>4. stmt[u].transaction = frame[c].transaction
    <3>1. /\ k = connectionRegistry[stmt[u].transaction][stmt[u].database] /\ k # None
          /\ stmt[u].transaction \in Calls /\ stmt[u].database \in Databases
      BY <2>3, SentWhere, ConstantsAssumption DEF InHand, AtWork, OnItsConnection
    <3> QED BY <1>3, <3>1 DEF InHand, AtWork, RegisteredWhereSent
  <2> QED BY <1>2, <2>2, <2>3, <2>4, NoFailureBelow
<1> QED BY <1>4, <1>5

LEMMA CommitDecides ==
  ASSUME AlwaysBegun, Known, InHand, Written, Told, RootsDecide, NEW c \in Calls, NEW k \in Statements,
         CommitAccepted(c, k)
  PROVE  Decided(c)'
<1>1. /\ <<"commit", k>> \in sent[c] /\ UNCHANGED <<frame, callPc, outcome, connectionRegistry, on, rollbackOption>>
      /\ sent'[c] = sent[c] \ {<<"commit", k>>}
  BY DEF CommitAccepted, ctxVars, connVars, stmtVars, Known, TypeOK
<1>2. /\ IsRootCall(c) /\ Ends(c) /\ k \in Mine(c) /\ callPc[c] \in {"committing", "rollingBack"}
      /\ Mine(c)' = Mine(c)
  BY <1>1, WhoAsks DEF Mine, ConnectionsOf
<1>3. Decided(c)
  BY <1>2 DEF RootsDecide, Past
<1>4. ~rollbackOption[frame[c].transaction]
  BY <1>1, <1>2, <1>3 DEF Decided, KeepsItsMark, Commits
<1>5. \A s \in Statements : fate'[s] = IF on[s] = k /\ fate[s] = "pending"
                                        THEN IF session[k] = "open" THEN "durable" ELSE "undone" ELSE fate[s]
  BY DEF CommitAccepted, Resolve
<1>6. KeepsItsMark(c)'
  BY <1>1, <1>2, <1>3, <1>4 DEF Decided, KeepsItsMark
<1>7. StopsShort(c)'
  <2> SUFFICES ASSUME outcome[c] = "threw", Mine(c) # {} PROVE \E j \in Mine(c) : ~Commits(c, j)' /\ ~Durable(j)'
    BY <1>1, <1>2 DEF StopsShort
  <2>1. PICK j \in Mine(c) : ~Commits(c, j) /\ ~Durable(j)
    BY <1>3 DEF Decided, StopsShort
  <2>2. j # k
    BY <1>1, <2>1 DEF Commits
  <2> QED BY <1>1, <1>5, <2>1, <2>2 DEF Commits, Durable
<1>8. CommitsAll(c)'
  <2> SUFFICES ASSUME PostgresRethrows, callPc[c] = "committing", outcome[c] # "threw",
                      NEW s \in Statements, on[s] \in Mine(c)
               PROVE  fate'[s] \in {"none", "durable"} \/ Commits(c, on[s])'
    BY <1>1, <1>2 DEF CommitsAll, Commits
  <2>1. CASE on[s] # k
    <3>1. fate[s] \in {"none", "durable"} \/ Commits(c, on[s])
      BY <1>3, <1>4 DEF Decided, CommitsAll
    <3> QED BY <1>1, <1>5, <2>1, <3>1 DEF Commits
  <2>2. CASE on[s] = k
    <3>1. session[k] = "open"
      BY CommitsOpen
    <3>2. fate[s] \in {"none", "pending", "durable"}
      BY <2>2, <3>1 DEF Written, ToldBySession, FateOf, Known, TypeOK, Fates
    <3> QED BY <1>5, <2>2, <3>1, <3>2
  <2> QED BY <2>1, <2>2
<1> QED BY <1>6, <1>7, <1>8 DEF Decided

LEMMA AnswerDecides ==
  ASSUME NothingRefused, AlwaysBegun, Known, InHand, Written, Told, RootsDecide, NEW c \in Calls, NEW k \in Statements,
         AnswerStep(c, k)
  PROVE  RootsDecide'
<1>1. CommitAccepted(c, k) \/ CommitFails(c, k) \/ RollbackAccepted(c, k) \/ ReleaseAccepted(c, k)
  BY NobodyRefuses DEF AnswerStep
<1>2. PICK op \in {"commit", "rollback", "release"} : <<op, k>> \in sent[c]
  BY <1>1 DEF CommitAccepted, CommitFails, RollbackAccepted, RollbackDue, ReleaseAccepted
<1>3. UNCHANGED <<frame, connectionRegistry, on, rollbackOption>> /\ Mine(c)' = Mine(c)
  BY <1>1 DEF CommitAccepted, CommitFails, RollbackAccepted, ReleaseAccepted, ctxVars, connVars, stmtVars, Mine,
              ConnectionsOf
<1>4. /\ IsRootCall(c) /\ Ends(c) /\ k \in Mine(c) /\ Begun(c)
      /\ callPc[c] \in {"committing", "rollingBack", "releasing"}
  BY <1>2, WhoAsks DEF IsRootCall
<1>5. Decided(c)
  BY <1>4 DEF RootsDecide, Past
<1>6. \A s \in Statements : fate'[s] = fate[s] \/ on[s] = k
  BY <1>1 DEF CommitAccepted, CommitFails, RollbackAccepted, ReleaseAccepted, Resolve
<1>7. /\ \A o \in Calls : callPc'[o] = "idle" <=> callPc[o] = "idle"
      /\ \A o \in Calls \ {c} : callPc'[o] = callPc[o] /\ sent'[o] = sent[o] /\ outcome'[o] = outcome[o]
  <2>1. CASE UNCHANGED <<callPc, outcome>> /\ \E rest \in SUBSET Requests : sent' = [sent EXCEPT ![c] = rest]
    BY <2>1 DEF Known, TypeOK
  <2>2. CASE CommitFails(c, k) /\ callPc[c] = "committing"
    <3>1. Unwind(c, sent[c] \ {<<"commit", k>>})
      BY <2>2 DEF CommitFails
    <3>2. \A o \in Calls \ {c} : sent'[o] = sent[o]
      BY <1>4, <3>1, MovesAsk DEF Unwind, IsRootCall
    <3>3. \A o \in Calls \ {c} : callPc'[o] = callPc[o] /\ outcome'[o] = outcome[o]
      BY <3>1 DEF Unwind, Known, TypeOK
    <3>4. callPc'[c] = "rollingBack"
      BY <1>4, <3>1 DEF Unwind, IsRootCall, Known, TypeOK
    <3> QED BY <1>4, <3>2, <3>3, <3>4
  <2>3. \A r : sent[c] \ {r} \in SUBSET Requests
    BY DEF Known, TypeOK
  <2> QED BY <1>1, <2>1, <2>2, <2>3 DEF CommitAccepted, CommitFails, RollbackAccepted, ReleaseAccepted
<1>8. Decided(c)'
  <2>1. CASE CommitAccepted(c, k)
    BY <2>1, CommitDecides
  <2>2. CASE CommitFails(c, k) /\ callPc[c] = "committing"
    <3> DEFINE rest == sent[c] \ {<<"commit", k>>}
    <3>1. Unwind(c, rest) /\ (\A s \in Statements : fate'[s] = "durable" => fate[s] = "durable")
      BY <2>2 DEF CommitFails, Resolve
    <3>2. ~rollbackOption[frame[c].transaction]
      BY <1>5, <2>2 DEF Decided, KeepsItsMark
    <3>3. <<"commit", k>> \notin rest /\ ~Durable(k) /\ rest \subseteq sent[c]
      BY <1>4, <2>2, NotDurableYet DEF CommitFails, Commits
    <3> HIDE DEF rest
    <3> QED BY <1>3, <1>4, <3>1, <3>2, <3>3, UnwindDecides
  <2>3. CASE CommitFails(c, k) /\ callPc[c] # "committing"
    <3>1. sent'[c] = sent[c] \ {<<"commit", k>>} /\ UNCHANGED <<callPc, outcome>> /\ callPc[c] = "rollingBack"
      BY <2>3, WhoAsks DEF CommitFails, Known, TypeOK
    <3>2. \A s \in Statements : /\ fate'[s] = "durable" => fate[s] = "durable"
                                /\ fate[s] \in {"none", "durable"} => fate'[s] = fate[s]
      BY <2>3 DEF CommitFails, Resolve
    <3> QED BY <1>3, <1>5, <3>1, <3>2, DecidedKept
  <2>4. CASE RollbackAccepted(c, k) \/ ReleaseAccepted(c, k)
    <3>1. /\ UNCHANGED <<callPc, outcome>>
          /\ sent'[c] = sent[c] \ {<<"rollback", k>>} \/ sent'[c] = sent[c] \ {<<"release", k>>}
      BY <2>4 DEF RollbackAccepted, ReleaseAccepted, Known, TypeOK
    <3>2. \A s \in Statements : /\ fate'[s] = "durable" => fate[s] = "durable"
                                /\ fate[s] \in {"none", "durable"} => fate'[s] = fate[s]
      BY <2>4 DEF RollbackAccepted, ReleaseAccepted, Resolve
    <3>3. \A j : <<"commit", j>> \in sent'[c] <=> <<"commit", j>> \in sent[c]
      BY <3>1
    <3> QED BY <1>3, <1>5, <3>1, <3>2, <3>3, DecidedKept
  <2> QED BY <1>1, <2>1, <2>2, <2>3, <2>4
<1> QED BY <1>3, <1>4, <1>6, <1>7, <1>8, DecidedApart

\* What a statement does to connections and writes: it gets the connection registered for it, it writes on a connection in
\* its transaction, or it loses what was pending there.
LEMMA StatementsWrite ==
  ASSUME Structured, NothingRefused, AlwaysBegun, Known, InHand, Written, NEW s \in Statements, StatementStep(s)
  PROVE  /\ UNCHANGED rollbackOption
         /\ \A r \in Statements : on'[r] = on[r] \/ (r = s /\ stmtPc[s] \in {"queued", "connecting", "starting"})
         /\ \/ \A r \in Statements : fate'[r] = fate[r] \/ (fate[r] = "pending" /\ fate'[r] = "undone")
            \/ Executed(s) /\ ~stmt[s].cursor /\ session[on[s]] = "open" /\ fate' = [fate EXCEPT ![s] = "pending"]
<1>1. ~RunOnItsOwn(s) /\ ~BeginFails(s)
  BY SentWhere, BeginsAlways DEF RunOnItsOwn
<1>2. CASE \E c \in Calls, d \in Databases, cursor \in BOOLEAN : Issue(s, c, d, cursor)
  BY <1>2 DEF Issue, ctxVars, dataVars
<1>3. CASE Acquire(s) \/ Connected(s) \/ ConnectFails(s) \/ Began(s)
  <2>1. UNCHANGED <<rollbackOption, fate>> /\ stmtPc[s] \in {"queued", "connecting", "starting"}
    BY <1>3 DEF Acquire, Connected, ConnectFails, Began, ctxVars, dataVars
  <2>2. \A r \in Statements \ {s} : on'[r] = on[r]
    BY <1>3 DEF Acquire, Connected, ConnectFails, Began, Known, TypeOK
  <2> QED BY <2>1, <2>2
<1>4. CASE Executed(s)
  <2>1. UNCHANGED <<rollbackOption, on>>
    BY <1>4 DEF Executed, ctxVars
  <2>2. CASE stmt[s].cursor
    BY <1>4, <2>1, <2>2 DEF Executed
  <2>3. CASE ~stmt[s].cursor
    <3>1. session[on[s]] = "open" /\ ~AutoCommits(EngineOf(on[s]))
      BY <1>4, RunsInSession, SentWhere DEF Executed, CanRun, AlwaysBegun, EngineOf
    <3>2. fate' = [fate EXCEPT ![s] = "pending"]
      BY <1>4, <2>3, <3>1 DEF Executed
    <3> QED BY <1>4, <2>1, <2>3, <3>1, <3>2
  <2> QED BY <2>2, <2>3
<1>5. CASE StatementFails(s)
  <2>1. UNCHANGED <<rollbackOption, on>>
    BY <1>5 DEF StatementFails, ctxVars
  <2>2. \A r \in Statements : fate'[r] = fate[r] \/ (fate[r] = "pending" /\ fate'[r] = "undone")
    BY <1>5 DEF StatementFails, Resolve
  <2> QED BY <2>1, <2>2
<1>6. CASE ReadToEnd(s) \/ Break(s)
  BY <1>6 DEF ReadToEnd, Break, Resolve, ctxVars, stmtVars, dataVars
<1> QED
  BY <1>1, <1>2, <1>3, <1>4, <1>5, <1>6 DEF StatementStep

\* A connection is used by the statements of its own transaction.
LEMMA UsedByItsOwn ==
  ASSUME Known, InHand, NEW c \in Calls, Begun(c), NEW s \in Statements, on[s] \in Mine(c)
  PROVE  stmtPc[s] # "unused" /\ stmt[s].transaction = frame[c].transaction
<1>1. on[s] \in Statements /\ stmt[on[s]].transaction = frame[c].transaction /\ on[s] # None
  BY MineIs, ConstantsAssumption
<1>2. stmtPc[s] # "unused" /\ on[s] = connectionRegistry[stmt[s].transaction][stmt[s].database]
  BY <1>1 DEF InHand, AtWork, OnItsConnection
<1>3. stmt[s].transaction \in Calls /\ stmt[s].database \in Databases
  BY <1>2, SentWhere
<1> QED BY <1>1, <1>2, <1>3 DEF InHand, AtWork, RegisteredWhereSent

\* A statement settles nothing a root past its method looks at: none of the transaction's is under way.
LEMMA StatementDecides ==
  ASSUME Structured, NothingRefused, AlwaysBegun, Known, InHand, Written, RootsDecide, NEW s \in Statements,
         StatementStep(s)
  PROVE  RootsDecide'
<1>1. UNCHANGED <<callPc, frame, outcome, sent, rollbackOption>>
  BY StatementsTouch, StatementsWrite DEF InHand
<1> SUFFICES ASSUME NEW b \in Calls, Past(b)' PROVE Decided(b)'
  BY DEF RootsDecide
<1>2. Past(b) /\ IsRootCall(b) /\ Begun(b) /\ Decided(b) /\ callPc[b] # "running" /\ frame[b].transaction \in Calls
  BY <1>1 DEF RootsDecide, Past, IsRootCall, Begun, Known, TypeOK, Frame
<1>3. stmtPc[s] \notin Settled \cup {"unused"} => stmt[s].transaction # frame[b].transaction
  BY <1>2, RootWaits
<1>4. Mine(b)' = Mine(b)
  <2> DEFINE t == stmt[s].transaction
             e == stmt[s].database
  <2>1. CASE stmtPc[s] = "connecting" /\ connectionRegistry' = [connectionRegistry EXCEPT ![t][e] = s]
    <3>1. t \in Calls /\ e \in Databases /\ t # frame[b].transaction
      BY <1>3, <2>1, SentWhere DEF Settled
    <3> HIDE DEF t, e
    <3>2. \A d \in Databases : connectionRegistry'[frame[b].transaction][d] = connectionRegistry[frame[b].transaction][d]
      BY <1>2, <2>1, <3>1 DEF Known, TypeOK
    <3> QED BY <1>1, <3>2 DEF Mine, ConnectionsOf
  <2>2. CASE UNCHANGED connectionRegistry
    BY <1>1, <2>2 DEF Mine, ConnectionsOf
  <2> QED BY <2>1, <2>2, StatementsTouch DEF InHand
<1>5. ASSUME NEW r \in Statements, on'[r] \in Mine(b) PROVE on'[r] = on[r]
  <2> SUFFICES ASSUME on'[r] # on[r] PROVE FALSE
    OBVIOUS
  <2>0. r = s /\ stmtPc[s] \in {"queued", "connecting", "starting"}
    BY StatementsWrite
  <2>1. r = s /\ stmtPc[s] \in {"queued", "connecting", "starting"} /\ stmt'[s] = stmt[s]
    BY <2>0, StatementsTouch DEF InHand
  <2>2. stmt[s].transaction \in Calls /\ stmt[s].database \in Databases /\ stmt[s].transaction # frame[b].transaction
    BY <1>3, <2>1, SentWhere DEF Settled
  <2>3. RegisteredWhereSent' /\ OnItsConnection'
    BY StatementKeepsWork DEF InHand, AtWork
  <2>4. on'[s] # None /\ on'[s] \in Statements /\ stmtPc[on'[s]] # "unused"
        /\ stmt[on'[s]].transaction = frame[b].transaction
    BY <1>2, <1>5, <2>1, MineIs, ConstantsAssumption
  <2>5. on'[s] = connectionRegistry'[stmt[s].transaction][stmt[s].database]
    BY <2>1, <2>3, <2>4 DEF OnItsConnection
  <2>6. stmt'[on'[s]].transaction = stmt[s].transaction
    BY <2>2, <2>3, <2>4, <2>5 DEF RegisteredWhereSent
  <2>7. stmt'[on'[s]] = stmt[on'[s]]
    BY <2>4, StatementsTouch DEF InHand
  <2> QED BY <2>2, <2>4, <2>6, <2>7
<1>6. ASSUME NEW r \in Statements, on[r] \in Mine(b)
      PROVE  /\ fate'[r] = "durable" => fate[r] = "durable"
             /\ fate[r] \in {"none", "durable"} => fate'[r] = fate[r]
  <2>1. CASE fate'[r] = fate[r] \/ (fate[r] = "pending" /\ fate'[r] = "undone")
    BY <2>1
  <2>2. CASE Executed(s) /\ fate' = [fate EXCEPT ![s] = "pending"]
    <3>1. stmtPc[s] = "running"
      BY <2>2 DEF Executed
    <3>2. r # s
      BY <1>2, <1>3, <1>6, <3>1, UsedByItsOwn DEF Settled
    <3> QED BY <2>2, <3>2 DEF Known, TypeOK
  <2> QED BY <2>1, <2>2, StatementsWrite
<1> QED BY <1>1, <1>2, <1>4, <1>5, <1>6, DecidedKept

-----------------------------------------------------------------------------
(* Every step.                                                              *)

Effects == Written /\ Told /\ RootsDecide

LEMMA StaysInEffect ==
  ASSUME Structured, NothingRefused, AlwaysBegun, Known, InHand, Effects, [Next]_vars
  PROVE  Effects'
<1>0. Written /\ Told /\ RootsDecide
  BY DEF Effects
<1>1. ASSUME NEW c \in Calls, CallStep(c) PROVE Written' /\ RootsDecide'
  BY <1>0, <1>1, CallKeepsWritten, CallDecides
<1>2. ASSUME NEW c \in Calls, NEW k \in Statements, AnswerStep(c, k) PROVE Written' /\ RootsDecide'
  BY <1>0, <1>2, AnswerKeepsWritten, AnswerDecides
<1>3. ASSUME NEW s \in Statements, StatementStep(s) PROVE Written' /\ RootsDecide'
  BY <1>0, <1>3, StatementKeepsWritten, StatementDecides
<1>4. Told'
  BY <1>0, StaysTold
<1>5. CASE UNCHANGED vars
  <2>1. UNCHANGED <<rollbackOption, connectionRegistry, callPc, frame, outcome, sent, stmtPc, stmt, on, fate, session>>
    BY <1>5 DEF vars, ctxVars, connVars, callVars, stmtVars, dataVars
  <2>2. Written'
    BY <1>0, <2>1 DEF Written, InSession, NotBefore, AbortedByFailure, ToldBySession, FateOf, OneFate, EngineOf
  <2>3. RootsDecide'
    <3> SUFFICES ASSUME NEW b \in Calls, Past(b)' PROVE Decided(b)'
      BY DEF RootsDecide
    <3>1. Decided(b) /\ Mine(b)' = Mine(b)
      BY <1>0, <2>1 DEF RootsDecide, Past, IsRootCall, Begun, Mine, ConnectionsOf
    <3> QED BY <2>1, <3>1, DecidedKept
  <2> QED BY <1>4, <2>2, <2>3 DEF Effects
<1> QED BY <1>1, <1>2, <1>3, <1>4, <1>5 DEF Next, Stop, Effects

\* The writes of a transaction end as its root decided, from the first of them to the last answer.
THEOREM EffectsAreDecided ==
  ASSUME Structured, NothingRefused, AlwaysBegun
  PROVE  Spec => []Effects
<1>1. Init => Effects
  BY WrittenAtFirst, ToldAtFirst, RootsDecideAtFirst DEF Effects
<1>2. Known /\ InHand /\ Effects /\ [Next]_vars => Effects'
  BY StaysInEffect
<1> QED BY <1>1, <1>2, AllKnown, RootsInHand, PTL DEF Spec

-----------------------------------------------------------------------------
(* Who asked for commits.                                                   *)

\* A commit unanswered, and a write durable, are what a root asked for that was to commit every connection it had.
OnlyAsked ==
  /\ \A c \in Calls, k \in Statements : Commits(c, k) => c \in asked
  /\ \A s \in Statements : fate[s] = "durable" =>
       \E c \in asked : IsRootCall(c) /\ frame[c].transaction = stmt[s].transaction

LEMMA OnlyAskedAtFirst == Init => OnlyAsked
  BY DEF Init, OnlyAsked, Commits

\* A step that asks for no commit, or asks as the root that CloseCursors marks.
LEMMA AskingIsKept ==
  ASSUME Known, InHand, [Next]_vars
  PROVE  /\ asked \subseteq asked'
         /\ \A c \in Calls, k \in Statements : Commits(c, k)' => Commits(c, k) \/ c \in asked'
<1>1. ASSUME NEW c \in Calls, NEW rest, rest \subseteq sent[c], Unwind(c, rest) \/ EndFails(c, rest)
      PROVE  \A o \in Calls, k \in Statements : Commits(o, k)' => Commits(o, k)
  BY <1>1 DEF Unwind, EndFails, Ask, Commits, Known, TypeOK
<1>2. ASSUME NEW c \in Calls, CallStep(c)
      PROVE  asked \subseteq asked' /\ \A o \in Calls, k \in Statements : Commits(o, k)' => Commits(o, k) \/ o \in asked'
  <2>1. CASE Throw(c) \/ CloseCursorsFails(c)
    BY <1>1, <2>1 DEF Throw, CloseCursorsFails
  <2>2. CASE CloseCursors(c)
    BY <2>2 DEF CloseCursors, End, Ask, Commits, Known, TypeOK
  <2>3. CASE Release(c)
    BY <2>3 DEF Release, Ask, Commits, Known, TypeOK
  <2>4. CASE UNCHANGED <<sent, asked>>
    BY <2>4 DEF Commits
  <2> QED BY <1>2, <2>1, <2>2, <2>3, <2>4 DEF CallStep, RunInTransaction, MarkAsRollback, PopContext, ReleaseClient, callVars
<1>3. ASSUME NEW c \in Calls, NEW k \in Statements, AnswerStep(c, k)
      PROVE  asked' = asked /\ \A o \in Calls, j \in Statements : Commits(o, j)' => Commits(o, j)
  <2>1. asked' = asked
    BY <1>3 DEF AnswerStep, CommitAccepted, CommitFails, RollbackAccepted, RollbackFails, ReleaseAccepted, ReleaseFails
  <2>2. \E rest \in SUBSET sent[c] : sent' = [sent EXCEPT ![c] = rest] \/ Unwind(c, rest) \/ EndFails(c, rest)
    BY <1>3 DEF AnswerStep, CommitAccepted, CommitFails, RollbackAccepted, RollbackFails, ReleaseAccepted, ReleaseFails
  <2> QED BY <1>1, <2>1, <2>2 DEF Commits, Known, TypeOK
<1>4. ASSUME NEW s \in Statements, StatementStep(s) PROVE UNCHANGED <<sent, asked>>
  BY <1>4 DEF StatementStep, Issue, Acquire, Connected, ConnectFails, Began, BeginFails, RunOnItsOwn, Executed,
              StatementFails, ReadToEnd, Break, callVars
<1>5. CASE UNCHANGED vars
  BY <1>5 DEF vars, callVars, Commits
<1> QED BY <1>2, <1>3, <1>4, <1>5 DEF Next, Stop, Commits

\* A write becomes durable as the commit asked for its connection is accepted.
LEMMA DurableByCommit ==
  ASSUME Structured, NothingRefused, AlwaysBegun, Known, InHand, Effects, [Next]_vars,
         NEW s \in Statements, fate'[s] = "durable", fate[s] # "durable"
  PROVE  \E c \in Calls : Commits(c, on[s]) /\ on[s] \in Statements
<1>1. \A c \in Calls : CallStep(c) => fate' = fate
  BY DEF CallStep, RunInTransaction, MarkAsRollback, Throw, PopContext, CloseCursors, CloseCursorsFails, Release,
         ReleaseClient, dataVars
<1>2. ASSUME NEW c \in Calls, NEW k \in Statements, AnswerStep(c, k) PROVE Commits(c, k) /\ on[s] = k
  BY <1>2, NobodyRefuses DEF AnswerStep, CommitAccepted, CommitFails, RollbackAccepted, ReleaseAccepted, Resolve, Commits
<1>3. \A r \in Statements : ~StatementStep(r)
  BY StatementsWrite DEF Effects, Known, TypeOK
<1>4. ~UNCHANGED vars
  BY DEF vars, dataVars
<1> QED BY <1>1, <1>2, <1>3, <1>4 DEF Next, Stop

LEMMA StaysOnlyAsked ==
  ASSUME Structured, NothingRefused, AlwaysBegun, Known, InHand, Effects, OnlyAsked, [Next]_vars
  PROVE  OnlyAsked'
<1>1. \A c \in Calls, k \in Statements : Commits(c, k)' => c \in asked'
  BY AskingIsKept DEF OnlyAsked
<1>2. ASSUME NEW s \in Statements, fate'[s] = "durable"
      PROVE  \E c \in asked' : IsRootCall(c)' /\ frame'[c].transaction = stmt'[s].transaction
  <2>1. stmtPc[s] # "unused" /\ \E c \in asked : IsRootCall(c) /\ frame[c].transaction = stmt[s].transaction
    <3>1. CASE fate[s] = "durable"
      BY <3>1 DEF OnlyAsked, Effects, Written, ToldBySession, FateOf
    <3>2. CASE fate[s] # "durable"
      <4>1. PICK c \in Calls : Commits(c, on[s]) /\ on[s] \in Statements
        BY <1>2, <3>2, DurableByCommit
      <4>2. IsRootCall(c) /\ Begun(c) /\ on[s] \in Mine(c) /\ c \in asked
        BY <4>1, WhoAsks DEF Commits, OnlyAsked, IsRootCall
      <4> QED BY <4>2, UsedByItsOwn
    <3> QED BY <3>1, <3>2
  <2>2. stmt'[s] = stmt[s]
    <3>1. ASSUME NEW c \in Calls, CallStep(c) PROVE stmt' = stmt
      BY <3>1 DEF CallStep, RunInTransaction, MarkAsRollback, Throw, PopContext, CloseCursors, CloseCursorsFails,
                  Release, ReleaseClient, stmtVars
    <3>2. ASSUME NEW c \in Calls, NEW k \in Statements, AnswerStep(c, k) PROVE stmt' = stmt
      BY <3>2 DEF AnswerStep, CommitAccepted, CommitFails, RollbackAccepted, RollbackFails, ReleaseAccepted, ReleaseFails,
                  stmtVars
    <3>3. ASSUME NEW r \in Statements, StatementStep(r) PROVE stmt'[s] = stmt[s]
      BY <2>1, <3>3, StatementsTouch DEF InHand
    <3>4. CASE UNCHANGED vars
      BY <3>4 DEF vars, stmtVars
    <3> QED BY <3>1, <3>2, <3>3, <3>4 DEF Next, Stop
  <2>3. PICK c \in asked : IsRootCall(c) /\ frame[c].transaction = stmt[s].transaction
    BY <2>1
  <2>4. c \in Calls /\ c \in asked'
    BY AskingIsKept DEF Known, TypeOK
  <2> QED BY <2>2, <2>3, <2>4, BegunStays DEF IsRootCall, Begun, Known
<1> QED BY <1>1, <1>2 DEF OnlyAsked

THEOREM DurableIsAsked ==
  ASSUME Structured, NothingRefused, AlwaysBegun
  PROVE  Spec => []OnlyAsked
<1>1. Init => OnlyAsked
  BY OnlyAskedAtFirst
<1>2. Known /\ InHand /\ Effects /\ OnlyAsked /\ [Next]_vars => OnlyAsked'
  BY StaysOnlyAsked
<1> QED BY <1>1, <1>2, AllKnown, RootsInHand, EffectsAreDecided, PTL DEF Spec

-----------------------------------------------------------------------------
(* What follows for the caller of a method.                                 *)

\* Work done in a transaction is on a connection of the transaction.
LEMMA WorkIsOnMine ==
  ASSUME Known, InHand, Written, NEW t \in Calls, NEW c \in Calls, Root(c, t), NEW s \in WorkOf(t), fate[s] # "none"
  PROVE  s \in Statements /\ stmt[s].transaction = t /\ on[s] \in Mine(c) /\ stmt[on[s]].database = stmt[s].database
<1>1. s \in Statements /\ stmtPc[s] # "unused" /\ stmt[s].transaction = t
  BY SentWhere DEF WorkOf
<1>2. on[s] # None
  BY <1>1 DEF Written, ToldBySession, FateOf
<1> QED BY <1>1, <1>2, OnMine DEF Root, Begun

\* A statement runs on its connection in the transaction begun there: never before it, and never after its root ended it.
THEOREM AllRunInside ==
  ASSUME Structured, NothingRefused, AlwaysBegun
  PROVE  Spec => []RunsInItsTransaction
<1>1. Known /\ InHand /\ Effects => RunsInItsTransaction
  BY RunsInSession DEF RunsInItsTransaction, Effects
<1> QED BY <1>1, AllKnown, RootsInHand, EffectsAreDecided, PTL

\* Nothing a method wrote is durable while its root runs or closes its cursors.
THEOREM NothingShowsEarly ==
  ASSUME Structured, NothingRefused, AlwaysBegun
  PROVE  Spec => []InvisibleUntilTheEnd
<1>1. Known /\ InHand /\ Effects => InvisibleUntilTheEnd
  <2> SUFFICES ASSUME Known, InHand, Effects, NEW t \in Calls, NEW s \in WorkOf(t), fate[s] = "durable"
               PROVE  \E c \in Calls : Root(c, t) /\ callPc[c] \notin {"running", "closing"}
    BY DEF InvisibleUntilTheEnd
  <2>1. Written
    BY DEF Effects
  <2>2. stmt[s].caller \in Calls /\ Begun(stmt[s].caller) /\ frame[stmt[s].caller].transaction = t
    BY SentWhere DEF WorkOf, Begun
  <2>3. PICK c \in Calls : Root(c, t)
    BY <2>2 DEF InHand, Rooted, HasRoot
  <2>4. s \in Statements /\ on[s] \in Mine(c)
    BY <2>1, <2>3, WorkIsOnMine
  <2>5. session[on[s]] = "ended"
    BY <2>1, <2>4 DEF Written, ToldBySession, FateOf
  <2>6. Ends(c)
    BY <2>3 DEF InHand, RootsEnd, Root, IsRootCall, Begun
  <2> QED BY <2>3, <2>4, <2>5, <2>6 DEF Ends, EndsOnce
<1> QED BY <1>1, AllKnown, RootsInHand, EffectsAreDecided, PTL

\* A transaction marked for rollback is durable nowhere; one whose root threw neither, unless the root had asked every
\* connection to commit, and then a whole database it was connected to has none of its writes.
THEOREM NothingLeftBehind ==
  ASSUME Structured, NothingRefused, AlwaysBegun
  PROVE  Spec => []NoCommitNoEffect
<1>1. Known /\ InHand /\ Effects /\ OnlyAsked => NoCommitNoEffect
  <2> SUFFICES ASSUME Known, InHand, Effects, OnlyAsked, NEW t \in Calls, NEW c \in Calls, Root(c, t), callPc[c] = "done",
                      outcome[c] = "threw" \/ rollbackOption[t], NEW s \in WorkOf(t), fate[s] = "durable"
               PROVE  /\ c \in asked /\ ~rollbackOption[t]
                      /\ \E d \in Databases :
                           /\ connectionRegistry[t][d] # None
                           /\ \A r \in WorkOf(t) : stmt[r].database = d => fate[r] # "durable"
    BY DEF NoCommitNoEffect
  <2>1. Written /\ RootsDecide
    BY DEF Effects
  <2>2. IsRootCall(c) /\ Begun(c) /\ frame[c].transaction = t /\ Decided(c)
    BY <2>1 DEF Root, IsRootCall, Begun, RootsDecide, Past
  <2>3. s \in Statements /\ stmt[s].transaction = t /\ on[s] \in Mine(c) /\ Durable(on[s])
    BY <2>1, WorkIsOnMine DEF Durable
  <2>4. ~rollbackOption[t]
    BY <2>2, <2>3 DEF Decided, KeepsItsMark
  <2>5. c \in asked
    <3>1. PICK b \in asked : IsRootCall(b) /\ frame[b].transaction = t
      BY <2>3 DEF OnlyAsked
    <3>2. b \in Calls /\ b = c
      BY <2>2, <3>1, RootsApart DEF Known, TypeOK
    <3> QED BY <3>1, <3>2
  <2>6. PICK k \in Mine(c) : ~Durable(k)
    BY <2>2, <2>3, <2>4 DEF Decided, StopsShort
  <2>7. k \in Statements /\ stmt[k].database \in Databases /\ connectionRegistry[t][stmt[k].database] = k
    BY <2>2, MineIs
  <2>8. ASSUME NEW r \in WorkOf(t), stmt[r].database = stmt[k].database PROVE fate[r] # "durable"
    <3> SUFFICES ASSUME fate[r] = "durable" PROVE FALSE
      OBVIOUS
    <3>1. r \in Statements /\ on[r] \in Mine(c) /\ stmt[on[r]].database = stmt[r].database
      BY <2>1, WorkIsOnMine
    <3>2. connectionRegistry[t][stmt[r].database] = on[r]
      BY <2>2, <3>1, MineIs
    <3> QED BY <2>6, <2>7, <2>8, <3>1, <3>2 DEF Durable
  <2> QED BY <2>4, <2>5, <2>7, <2>8, ConstantsAssumption
<1> QED BY <1>1, AllKnown, RootsInHand, EffectsAreDecided, DurableIsAsked, PTL

\* A root that returned has made durable all that was written below it; on Postgres, where methods rethrow.
THEOREM ReturnedIsCommitted ==
  ASSUME Structured, NothingRefused, AlwaysBegun, PostgresRethrows
  PROVE  Spec => []ReturnMeansCommitted
<1>1. Known /\ InHand /\ Effects => ReturnMeansCommitted
  <2> SUFFICES ASSUME Known, InHand, Effects, NEW t \in Calls, NEW c \in Calls, Root(c, t), outcome[c] = "returned",
                      ~rollbackOption[t], NEW s \in WorkOf(t), fate[s] # "none"
               PROVE  fate[s] = "durable"
    BY DEF ReturnMeansCommitted
  <2>1. Written /\ Told /\ RootsDecide
    BY DEF Effects
  <2>2. callPc[c] = "done" /\ IsRootCall(c) /\ frame[c].transaction = t
    BY <2>1 DEF Told, OutcomeLast, Root, IsRootCall, Begun
  <2>3. Decided(c) /\ sent[c] = {}
    BY <2>1, <2>2 DEF RootsDecide, Past, InHand, RootsEnd, Ends, AsksItsOwn
  <2>4. s \in Statements /\ on[s] \in Mine(c)
    BY <2>1, WorkIsOnMine
  <2> QED BY <2>2, <2>3, <2>4 DEF Decided, CommitsAll, Commits
<1> QED BY <1>1, AllKnown, RootsInHand, EffectsAreDecided, PTL

-----------------------------------------------------------------------------
(* The units of work of AtomicMethods, and the steps that move them.        *)

Units == Calls \X Databases
Worked == [u \in Units |-> {s \in WorkOf(u[1]) : stmt[s].database = u[2] /\ fate[s] # "none"}]
Stored == {s \in Statements : fate[s] = "durable"}

\* A statement works for the transaction and the database it was sent to.
Where(s) == <<stmt[s].transaction, stmt[s].database>>
WorkedWhereSent == \A u \in Units : Worked[u] = {s \in Statements : fate[s] # "none" /\ Where(s) = u}

\* A statement writes once, as it succeeds.
WritesOnce == \A s \in Statements : fate[s] # "none" => stmtPc[s] = "ok"

LEMMA WorksWhereSent ==
  ASSUME Known, Written
  PROVE  WorkedWhereSent
<1> SUFFICES ASSUME NEW t \in Calls, NEW d \in Databases
             PROVE  Worked[<<t, d>>] = {s \in Statements : fate[s] # "none" /\ Where(s) = <<t, d>>}
  BY DEF WorkedWhereSent, Units
<1>1. Worked[<<t, d>>] = {s \in WorkOf(t) : stmt[s].database = d /\ fate[s] # "none"}
  BY DEF Worked, Units
<1>2. \A s \in Statements : fate[s] # "none" => stmtPc[s] # "unused"
  BY DEF Written, ToldBySession, FateOf
<1>3. \A s \in Statements : stmtPc[s] # "unused" => frame[stmt[s].caller].transaction = stmt[s].transaction
  BY SentWhere
<1> QED BY <1>1, <1>2, <1>3 DEF WorkOf, Where

\* A write is on the connection registered where its statement was sent.
LEMMA WrittenOnRegistered ==
  ASSUME Known, InHand, Written, NEW s \in Statements, fate[s] # "none"
  PROVE  on[s] # None /\ on[s] = connectionRegistry[stmt[s].transaction][stmt[s].database] /\ Where(s) \in Units
<1>1. on[s] # None /\ stmtPc[s] # "unused"
  BY DEF Written, ToldBySession, FateOf
<1> QED BY <1>1, SentWhere DEF InHand, AtWork, OnItsConnection, Where, Units

\* What a step does to the fates of what was written: nothing of note, or a statement writes, or a commit makes all that
\* was written on its connection durable.
LEMMA FatesMove ==
  ASSUME Structured, NothingRefused, AlwaysBegun, Known, InHand, Effects, WritesOnce, [Next]_vars
  PROVE  \/ \A s \in Statements : /\ fate'[s] = "none" <=> fate[s] = "none"
                                  /\ fate'[s] = "durable" <=> fate[s] = "durable"
         \/ \E s \in Statements : Executed(s) /\ session[on[s]] = "open" /\ fate' = [fate EXCEPT ![s] = "pending"]
         \/ \E c \in Calls, k \in Statements : CommitAccepted(c, k) /\ session[k] = "open"
<1> DEFINE Quietly == \A s \in Statements : /\ fate'[s] = "none" <=> fate[s] = "none"
                                            /\ fate'[s] = "durable" <=> fate[s] = "durable"
<1>1. ASSUME NEW c \in Calls, CallStep(c) PROVE fate' = fate
  BY <1>1 DEF CallStep, RunInTransaction, MarkAsRollback, Throw, PopContext, CloseCursors, CloseCursorsFails,
              Release, ReleaseClient, dataVars
<1>2. ASSUME NEW c \in Calls, NEW k \in Statements, AnswerStep(c, k)
      PROVE  Quietly \/ (CommitAccepted(c, k) /\ session[k] = "open")
  BY <1>2, NobodyRefuses DEF AnswerStep, CommitAccepted, CommitFails, RollbackAccepted, ReleaseAccepted, Resolve
<1>3. ASSUME NEW s \in Statements, StatementStep(s)
      PROVE  Quietly \/ (Executed(s) /\ session[on[s]] = "open" /\ fate' = [fate EXCEPT ![s] = "pending"])
  BY <1>3, StatementsWrite DEF Effects
<1>4. CASE UNCHANGED vars
  BY <1>4 DEF vars, dataVars
<1> QED BY <1>1, <1>2, <1>3, <1>4 DEF Next, Stop

LEMMA StaysWrittenOnce ==
  ASSUME Structured, NothingRefused, AlwaysBegun, Known, InHand, Effects, WritesOnce, [Next]_vars
  PROVE  WritesOnce'
<1>1. ASSUME NEW s \in Statements, stmtPc[s] = "ok" PROVE stmtPc'[s] = "ok"
  <2>1. ASSUME NEW c \in Calls, CallStep(c) PROVE stmtPc'[s] = "ok"
    BY <1>1, <2>1 DEF CallStep, RunInTransaction, MarkAsRollback, Throw, PopContext, CloseCursors, Close,
                      CloseCursorsFails, Release, ReleaseClient, stmtVars
  <2>2. ASSUME NEW c \in Calls, NEW k \in Statements, AnswerStep(c, k) PROVE stmtPc'[s] = "ok"
    BY <1>1, <2>2 DEF AnswerStep, CommitAccepted, CommitFails, RollbackAccepted, RollbackFails, ReleaseAccepted,
                      Close, ReleaseFails, stmtVars
  <2>3. ASSUME NEW u \in Statements, StatementStep(u) PROVE stmtPc'[s] = "ok"
    <3>1. u = s => UNCHANGED stmtPc
      BY <1>1, <2>3 DEF StatementStep, Issue, Acquire, Connected, ConnectFails, Began, BeginFails, RunOnItsOwn,
                        Executed, StatementFails, ReadToEnd, Break, stmtVars
    <3>2. u # s => stmtPc'[s] = stmtPc[s]
      BY <2>3 DEF StatementStep, Issue, Acquire, Connected, ConnectFails, Began, BeginFails, RunOnItsOwn, Executed,
                  StatementFails, ReadToEnd, Break, stmtVars, Known, TypeOK
    <3> QED BY <1>1, <3>1, <3>2
  <2> QED BY <1>1, <2>1, <2>2, <2>3 DEF Next, Stop, vars, stmtVars
<1>2. CASE \A s \in Statements : fate'[s] = "none" <=> fate[s] = "none"
  BY <1>1, <1>2 DEF WritesOnce
<1>3. CASE \E s \in Statements : Executed(s) /\ fate' = [fate EXCEPT ![s] = "pending"]
  <2>1. PICK s \in Statements : Executed(s) /\ fate' = [fate EXCEPT ![s] = "pending"]
    BY <1>3
  <2>2. \A r \in Statements \ {s} : fate'[r] = fate[r]
    BY <2>1 DEF Known, TypeOK
  <2>3. fate'[s] # "none" => stmtPc'[s] = "ok"
    BY <2>1 DEF Executed, WritesOnce, Known, TypeOK
  <2> QED BY <1>1, <2>2, <2>3 DEF WritesOnce
<1>4. CASE \E c \in Calls, k \in Statements : CommitAccepted(c, k)
  <2>1. \A s \in Statements : fate'[s] = "none" <=> fate[s] = "none"
    BY <1>4 DEF CommitAccepted, Resolve
  <2> QED BY <1>1, <2>1 DEF WritesOnce
<1> QED BY <1>2, <1>3, <1>4, FatesMove

\* What was written stays where it was sent.
LEMMA WhereStays ==
  ASSUME Known, Written, [Next]_vars, NEW s \in Statements, stmtPc[s] # "unused"
  PROVE  Where(s)' = Where(s)
<1>1. stmt'[s] = stmt[s]
  BY OnlyIssueSends DEF Known, Issue
<1> QED BY <1>1 DEF Where

LEMMA RunsOneMore ==
  ASSUME NEW u \in Units, NEW s \in Statements, Worked[u] \cap Stored = {}, \A v \in Units : s \notin Worked[v],
         Worked' = [Worked EXCEPT ![u] = @ \cup {s}], UNCHANGED Stored
  PROVE  [Atomic!Next]_(Atomic!vars)
<1>1. Atomic!Run(u, s)
  BY DEF Atomic!Run, Worked, Stored, Units
<1> QED BY <1>1 DEF Atomic!Next, Units

LEMMA CommitsWhole ==
  ASSUME NEW u \in Units, Worked[u] \cap Stored = {}, Stored' = Stored \cup Worked[u], UNCHANGED Worked
  PROVE  [Atomic!Next]_(Atomic!vars)
<1>1. CASE Worked[u] = {}
  BY <1>1 DEF Atomic!vars, Worked, Stored, Units
<1>2. CASE Worked[u] # {}
  <2>1. Atomic!Commit(u)
    BY <1>2 DEF Atomic!Commit, Worked, Stored, Units
  <2> QED BY <2>1 DEF Atomic!Next, Units
<1> QED BY <1>1, <1>2

\* A statement that runs in its transaction adds its write to one unit, which has not reached the store.
LEMMA ExecutedRuns ==
  ASSUME Known, InHand, Effects, WritesOnce, WorkedWhereSent, WorkedWhereSent', [Next]_vars,
         NEW s \in Statements, Executed(s), session[on[s]] = "open", fate' = [fate EXCEPT ![s] = "pending"]
  PROVE  [Atomic!Next]_(Atomic!vars)
<1> DEFINE u == Where(s)
<1>0. Written
  BY DEF Effects
<1>1. stmtPc[s] = "running" /\ fate[s] = "none" /\ fate'[s] = "pending" /\ \A r \in Statements \ {s} : fate'[r] = fate[r]
  BY DEF Executed, WritesOnce, Known, TypeOK
<1>2. u \in Units /\ on[s] = connectionRegistry[stmt[s].transaction][stmt[s].database] /\ on[s] # None
  BY <1>1, SentWhere DEF Where, Units, InHand, AtWork, OnItsConnection
<1>3. Worked[u] \cap Stored = {}
  <2> SUFFICES ASSUME NEW r \in Statements, fate[r] = "durable", Where(r) = u PROVE FALSE
    BY <1>2 DEF WorkedWhereSent, Stored
  <2>1. on[r] = on[s]
    BY <1>0, <1>2, WrittenOnRegistered DEF Where
  <2>2. session[on[r]] = "ended"
    BY <1>0 DEF Written, ToldBySession, FateOf
  <2> QED BY <2>1, <2>2
<1>4. \A v \in Units : s \notin Worked[v]
  BY <1>1 DEF WorkedWhereSent
<1>5. Stored' = Stored
  BY <1>1 DEF Stored
<1>6. \A r \in Statements : fate'[r] # "none" => Where(r)' = Where(r)
  <2> SUFFICES ASSUME NEW r \in Statements, fate'[r] # "none" PROVE Where(r)' = Where(r)
    OBVIOUS
  <2>1. stmtPc[r] # "unused"
    BY <1>1 DEF WritesOnce
  <2> QED BY <1>0, <2>1, WhereStays
<1>7. Worked' = [Worked EXCEPT ![u] = @ \cup {s}]
  <2>1. \A v \in Units : Worked'[v] = IF v = u THEN Worked[v] \cup {s} ELSE Worked[v]
    <3> SUFFICES ASSUME NEW v \in Units
                 PROVE  Worked'[v] = IF v = u THEN Worked[v] \cup {s} ELSE Worked[v]
      OBVIOUS
    <3>1. Worked[v] = {r \in Statements : fate[r] # "none" /\ Where(r) = v}
      BY DEF WorkedWhereSent
    <3>2. Worked'[v] = {r \in Statements : fate'[r] # "none" /\ Where(r)' = v}
      BY DEF WorkedWhereSent
    <3>3. \A r \in Statements : r \in Worked'[v] <=> r \in Worked[v] \/ (r = s /\ v = u)
      BY <1>1, <1>6, <3>1, <3>2
    <3> QED BY <3>1, <3>2, <3>3
  <2>2. Worked' = [v \in Units |-> Worked'[v]] /\ Worked = [v \in Units |-> Worked[v]]
    BY DEF Worked
  <2> HIDE DEF u
  <2> QED BY <2>1, <2>2
<1> HIDE DEF u
<1> QED BY <1>2, <1>3, <1>4, <1>5, <1>7, RunsOneMore

\* A commit makes a whole unit durable, if anything was written in it.
LEMMA CommitAcceptedCommits ==
  ASSUME Known, InHand, Effects, WritesOnce, WorkedWhereSent, WorkedWhereSent', [Next]_vars,
         NEW c \in Calls, NEW k \in Statements, CommitAccepted(c, k), session[k] = "open"
  PROVE  [Atomic!Next]_(Atomic!vars)
<1> DEFINE u == Where(k)
<1>0. Written
  BY DEF Effects
<1>1. \A r \in Statements : fate'[r] = IF on[r] = k /\ fate[r] = "pending" THEN "durable" ELSE fate[r]
  BY DEF CommitAccepted, Resolve
<1>2. k \in Mine(c) /\ Begun(c)
  BY WhoAsks DEF CommitAccepted, IsRootCall
<1>3. u \in Units /\ k = connectionRegistry[stmt[k].transaction][stmt[k].database]
  BY <1>2, MineIs DEF Where, Units
<1>4. \A r \in Statements : fate[r] # "none" => (on[r] = k <=> Where(r) = u)
  <2> SUFFICES ASSUME NEW r \in Statements, fate[r] # "none" PROVE on[r] = k <=> Where(r) = u
    OBVIOUS
  <2>1. on[r] = connectionRegistry[stmt[r].transaction][stmt[r].database] /\ Where(r) \in Units /\ on[r] # None
    BY <1>0, WrittenOnRegistered
  <2>2. stmt[r].transaction \in Calls /\ stmt[r].database \in Databases
    BY <2>1 DEF Where, Units
  <2>3. stmt[on[r]].transaction = stmt[r].transaction /\ stmt[on[r]].database = stmt[r].database
    BY <2>1, <2>2 DEF InHand, AtWork, RegisteredWhereSent
  <2> QED BY <1>3, <2>1, <2>3 DEF Where
<1>5. \A r \in Statements : fate[r] # "none" /\ on[r] = k => fate[r] = "pending"
  BY <1>0 DEF Written, ToldBySession, FateOf, Known, TypeOK, Fates
<1>6. Worked[u] = {r \in Statements : fate[r] # "none" /\ Where(r) = u}
  BY <1>3 DEF WorkedWhereSent
<1>7. Worked[u] \cap Stored = {} /\ Stored' = Stored \cup Worked[u]
  BY <1>1, <1>4, <1>5, <1>6 DEF Stored
<1>8. Worked' = Worked
  <2>1. ASSUME NEW v \in Units PROVE Worked'[v] = Worked[v]
    <3>1. Worked[v] = {r \in Statements : fate[r] # "none" /\ Where(r) = v}
      BY DEF WorkedWhereSent
    <3>2. Worked'[v] = {r \in Statements : fate'[r] # "none" /\ Where(r)' = v}
      BY DEF WorkedWhereSent
    <3>3. \A r \in Statements : fate[r] # "none" => Where(r)' = Where(r)
      BY <1>0, WhereStays DEF WritesOnce
    <3>4. \A r \in Statements : r \in Worked'[v] <=> r \in Worked[v]
      BY <1>1, <3>1, <3>2, <3>3
    <3> QED BY <3>1, <3>2, <3>4
  <2>2. Worked' = [v \in Units |-> Worked'[v]] /\ Worked = [v \in Units |-> Worked[v]]
    BY DEF Worked
  <2> QED BY <2>1, <2>2
<1> HIDE DEF u
<1> QED BY <1>3, <1>7, <1>8, CommitsWhole

LEMMA StepsAreAtomic ==
  ASSUME Structured, NothingRefused, AlwaysBegun, Known, InHand, Effects, WritesOnce, WorkedWhereSent, WorkedWhereSent',
         [Next]_vars
  PROVE  [Atomic!Next]_(Atomic!vars)
<1>1. CASE \A s \in Statements : /\ fate'[s] = "none" <=> fate[s] = "none"
                                 /\ fate'[s] = "durable" <=> fate[s] = "durable"
  <2>1. ASSUME NEW v \in Units PROVE Worked'[v] = Worked[v]
    <3>1. Worked[v] = {r \in Statements : fate[r] # "none" /\ Where(r) = v}
      BY DEF WorkedWhereSent
    <3>2. Worked'[v] = {r \in Statements : fate'[r] # "none" /\ Where(r)' = v}
      BY DEF WorkedWhereSent
    <3>3. \A r \in Statements : fate[r] # "none" => Where(r)' = Where(r)
      BY WhereStays DEF WritesOnce, Effects
    <3>4. \A r \in Statements : r \in Worked'[v] <=> r \in Worked[v]
      BY <1>1, <3>1, <3>2, <3>3
    <3> QED BY <3>1, <3>2, <3>4
  <2>2. Worked' = [v \in Units |-> Worked'[v]] /\ Worked = [v \in Units |-> Worked[v]]
    BY DEF Worked
  <2>3. Worked' = Worked /\ Stored' = Stored
    BY <1>1, <2>1, <2>2 DEF Stored
  <2> QED BY <2>3 DEF Atomic!vars, Worked, Stored, Units
<1>2. CASE \E s \in Statements : Executed(s) /\ session[on[s]] = "open" /\ fate' = [fate EXCEPT ![s] = "pending"]
  BY <1>2, ExecutedRuns
<1>3. CASE \E c \in Calls, k \in Statements : CommitAccepted(c, k) /\ session[k] = "open"
  BY <1>3, CommitAcceptedCommits
<1> QED BY <1>1, <1>2, <1>3, FatesMove

\* A statement's write is made once: no statement runs a second time.
THEOREM WrittenOnce ==
  ASSUME Structured, NothingRefused, AlwaysBegun
  PROVE  Spec => []WritesOnce
<1>1. Init => WritesOnce
  BY DEF Init, WritesOnce
<1>2. Known /\ InHand /\ Effects /\ WritesOnce /\ [Next]_vars => WritesOnce'
  BY StaysWrittenOnce
<1> QED BY <1>1, <1>2, AllKnown, RootsInHand, EffectsAreDecided, PTL DEF Spec

\* Every transaction is a unit of work on each of its databases: what its methods wrote there becomes durable in one step,
\* all of it or none, and nothing is written in it afterwards.
THEOREM TransactionsAreAtomic ==
  ASSUME Structured, NothingRefused, AlwaysBegun
  PROVE  Spec => AtomicPerDatabase
<1>1. Init => Atomic!Init
  <2> SUFFICES ASSUME Init PROVE Atomic!Init
    OBVIOUS
  <2>1. \A t \in Calls : WorkOf(t) = {}
    BY DEF Init, WorkOf
  <2> QED BY <2>1 DEF Init, Atomic!Init
<1>2. Known /\ Effects => WorkedWhereSent
  BY WorksWhereSent DEF Effects
<1>3. /\ Known /\ InHand /\ Effects /\ WritesOnce /\ WorkedWhereSent /\ WorkedWhereSent' /\ [Next]_vars
      => [Atomic!Next]_(Atomic!vars)
  BY StepsAreAtomic
<1> QED
  BY <1>1, <1>2, <1>3, AllKnown, RootsInHand, EffectsAreDecided, WrittenOnce, PTL DEF Spec, AtomicPerDatabase, Atomic!Spec
=============================================================================
