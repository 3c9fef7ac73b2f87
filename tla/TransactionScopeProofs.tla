----------------------- MODULE TransactionScopeProofs -----------------------
(***************************************************************************)
(* What TLAPS proves of TransactionScope, for every set of calls,          *)
(* statements, contexts and databases, every engine, every discipline of   *)
(* the application and every failure.                                      *)
(***************************************************************************)
EXTENDS TransactionScope, TLAPS

-----------------------------------------------------------------------------
(* Type correctness. *)

LEMMA InitType == Init => TypeOK
  BY ConstantsAssumption DEF Init, TypeOK, StatementOK, CallPcs, StmtPcs, Sessions, Fates

\* A call under way runs in a transaction, and popping its stack keeps it one.
LEMMA PoppedType ==
  ASSUME TypeOK, NEW c \in Calls, callPc[c] # "idle"
  PROVE  frame[c].transaction \in Calls /\ Popped(frame[c].transaction) \in [Calls -> Nat]
<1>1. frame[c].transaction \in Calls
  BY DEF TypeOK, Frame
<1>2. ASSUME NEW n \in Nat  PROVE (IF n = 0 THEN 0 ELSE n - 1) \in Nat
  OBVIOUS
<1>3. callStack[frame[c].transaction] \in Nat /\ callStack \in [Calls -> Nat]
  BY <1>1 DEF TypeOK
<1>4. QED  BY <1>1, <1>2, <1>3 DEF Popped

\* What a root asks of the connections as it ends is a set of requests.
LEMMA AskType ==
  ASSUME TypeOK, NEW c \in Calls, callPc[c] # "idle",
         NEW op \in {"commit", "rollback", "release"}, NEW rest \in SUBSET Requests,
         Ask(c, op, rest)
  PROVE  /\ sent' \in [Calls -> SUBSET Requests]
         /\ \A o \in Calls : o # c => sent'[o] = sent[o]
<1>1. frame[c].transaction \in Calls
  BY PoppedType
<1>2. ConnectionsOf(frame[c].transaction) \subseteq Statements
  BY <1>1 DEF TypeOK, ConnectionsOf
<1>3. {op} \X ConnectionsOf(frame[c].transaction) \subseteq Requests
  BY <1>2 DEF Requests
<1>4. QED  BY <1>3 DEF Ask, TypeOK

\* popContextWithError keeps the types of what it changes.
LEMMA UnwindType ==
  ASSUME TypeOK, NEW c \in Calls, callPc[c] # "idle", NEW rest \in SUBSET Requests, Unwind(c, rest)
  PROVE  /\ callStack' \in [Calls -> Nat]
         /\ outcome' \in [Calls -> {"none", "returned", "threw"}]
         /\ callPc' \in [Calls -> CallPcs]
         /\ sent' \in [Calls -> SUBSET Requests]
         /\ \A o \in Calls : /\ callPc'[o] = "idle" <=> callPc[o] = "idle"
                             /\ o # c => sent'[o] = sent[o]
<1>1. callStack' \in [Calls -> Nat]
  BY PoppedType DEF Unwind
<1>2. outcome' \in [Calls -> {"none", "returned", "threw"}]
  BY DEF TypeOK, Unwind
<1>3. callPc' \in [Calls -> CallPcs] /\ \A o \in Calls : callPc'[o] = "idle" <=> callPc[o] = "idle"
  BY SMTT(30) DEF TypeOK, Unwind, CallPcs
<1>4. sent' \in [Calls -> SUBSET Requests]
  <2>1. CASE frame[c].isRoot
    BY <2>1, AskType DEF Unwind
  <2>2. CASE ~frame[c].isRoot
    BY <2>2 DEF Unwind, TypeOK
  <2>3. QED  BY <2>1, <2>2
<1>5. \A o \in Calls : o # c => sent'[o] = sent[o]
  BY DEF Unwind, Ask, TypeOK
<1>6. QED  BY <1>1, <1>2, <1>3, <1>4, <1>5

\* A failure on the way out keeps them too.
LEMMA EndFailsType ==
  ASSUME TypeOK, NEW c \in Calls, callPc[c] # "idle", NEW rest \in SUBSET Requests, EndFails(c, rest)
  PROVE  /\ callStack' \in [Calls -> Nat]
         /\ outcome' \in [Calls -> {"none", "returned", "threw"}]
         /\ callPc' \in [Calls -> CallPcs]
         /\ sent' \in [Calls -> SUBSET Requests]
         /\ \A o \in Calls : /\ callPc'[o] = "idle" <=> callPc[o] = "idle"
                             /\ o # c => sent'[o] = sent[o]
<1>1. CASE outcome[c] = "threw"
  BY <1>1 DEF EndFails, TypeOK, CallPcs
<1>2. CASE outcome[c] # "threw"
  BY <1>2, UnwindType DEF EndFails
<1>3. QED  BY <1>1, <1>2

\* A call that takes a step of its own, other than its first, has begun.
LEMMA CallStepType ==
  ASSUME TypeOK, NEW c \in Calls, CallStep(c)
  PROVE  TypeOK'
<1>1. ASSUME NEW x \in Contexts, NEW p \in Calls \cup {None}, RunInTransaction(c, x, p)
      PROVE  TypeOK'
  <2> DEFINE t == IF currentTransaction[x] = None THEN c ELSE currentTransaction[x]
  <2>1. t \in Calls
    BY DEF TypeOK
  <2>2. /\ callPc' \in [Calls -> CallPcs]
        /\ frame' \in [Calls -> Frame \cup {None}]
        /\ \A o \in Calls : callPc'[o] # "idle" => frame'[o] \in Frame
    BY <1>1, <2>1 DEF RunInTransaction, TypeOK, CallPcs, Frame, IsRoot
  <2>3. /\ currentTransaction' \in [Contexts -> Calls \cup {None}]
        /\ callStack' \in [Calls -> Nat]
        /\ rollbackOption' \in [Calls -> BOOLEAN]
    BY <1>1, <2>1 DEF RunInTransaction, TypeOK
  <2>4. QED
    BY <1>1, <2>2, <2>3 DEF RunInTransaction, TypeOK, StatementOK, connVars, stmtVars, dataVars
<1>2. CASE MarkAsRollback(c)
  BY <1>2 DEF MarkAsRollback, TypeOK, StatementOK, connVars, callVars, stmtVars, dataVars
<1>3. CASE Throw(c)
  <2>1. callPc[c] # "idle" /\ sent[c] \in SUBSET Requests /\ Unwind(c, sent[c])
    BY <1>3 DEF Throw, TypeOK
  <2>2. \A o \in Calls : IF callPc'[o] = "idle" THEN sent'[o] = {} ELSE frame'[o] \in Frame
    BY <1>3, <2>1, UnwindType DEF Throw, TypeOK
  <2>3. \A s \in Statements : StatementOK(s)'
    BY <1>3 DEF Throw, TypeOK, StatementOK, stmtVars
  <2>4. QED
    BY <1>3, <2>1, <2>2, <2>3, UnwindType DEF Throw, TypeOK, connVars, stmtVars, dataVars
<1>4. CASE PopContext(c)
  <2>1. callStack' \in [Calls -> Nat]
    BY <1>4, PoppedType DEF PopContext
  <2>2. QED
    BY ZenonT(40), <1>4, <2>1 DEF PopContext, TypeOK, StatementOK, CallPcs, connVars, stmtVars, dataVars
<1>5. CASE CloseCursors(c)
  <2>1. sent' \in [Calls -> SUBSET Requests] /\ \A o \in Calls : o # c => sent'[o] = sent[o]
    BY <1>5, AskType DEF CloseCursors, End, TypeOK
  <2>2. /\ stmtPc' \in [Statements -> StmtPcs]
        /\ \A s \in Statements : stmtPc'[s] \in {stmtPc[s], "ok"} /\ (stmtPc[s] = "unused" => stmtPc'[s] = "unused")
    BY <1>5 DEF CloseCursors, Close, TypeOK, StmtPcs
  <2>3. \A s \in Statements : StatementOK(s)'
    BY <1>5, <2>2 DEF CloseCursors, TypeOK, StatementOK
  <2>4. QED
    BY <1>5, <2>1, <2>2, <2>3 DEF CloseCursors, TypeOK, CallPcs, ctxVars, connVars, dataVars
<1>6. CASE CloseCursorsFails(c)
  <2>1. callPc[c] # "idle" /\ sent[c] \in SUBSET Requests /\ Unwind(c, sent[c])
    BY <1>6 DEF CloseCursorsFails, TypeOK
  <2>2. faults' \in 0..MaxFaults
    BY <1>6, ConstantsAssumption DEF CloseCursorsFails, Fault, TypeOK
  <2>3. QED
    BY <1>6, <2>1, <2>2, UnwindType DEF CloseCursorsFails, TypeOK, StatementOK, connVars, stmtVars, dataVars
<1>7. CASE Release(c)
  <2>1. sent' \in [Calls -> SUBSET Requests] /\ \A o \in Calls : o # c => sent'[o] = sent[o]
    BY <1>7, AskType DEF Release, TypeOK
  <2>2. QED
    BY <1>7, <2>1 DEF Release, TypeOK, StatementOK, CallPcs, ctxVars, connVars, stmtVars, dataVars
<1>8. CASE ReleaseClient(c)
  BY <1>8 DEF ReleaseClient, Cleared, TypeOK, StatementOK, CallPcs, connVars, stmtVars, dataVars
<1>9. QED
  BY <1>1, <1>2, <1>3, <1>4, <1>5, <1>6, <1>7, <1>8 DEF CallStep

\* The answers of the connections.
LEMMA ResolveType ==
  ASSUME TypeOK, NEW k \in Statements, NEW f \in Fates, Resolve(k, f)
  PROVE  fate' \in [Statements -> Fates]
  BY DEF TypeOK, Resolve

LEMMA AnswerStepType ==
  ASSUME TypeOK, NEW c \in Calls, NEW k \in Statements, AnswerStep(c, k)
  PROVE  TypeOK'
<1> DEFINE rest(op) == sent[c] \ {<<op, k>>}
<1>1. callPc[c] # "idle"
  BY DEF AnswerStep, CommitAccepted, CommitFails, RollbackAccepted, RollbackFails, RollbackDue,
         ReleaseAccepted, ReleaseFails, TypeOK
<1>2. "durable" \in Fates /\ "undone" \in Fates /\ Ended(k) \in Sessions /\ Noticed(k) \in Sessions
  BY DEF Fates, Sessions, Ended, Noticed, TypeOK
<1>3. ASSUME NEW op
      PROVE  /\ rest(op) \in SUBSET Requests
             /\ [sent EXCEPT ![c] = rest(op)] \in [Calls -> SUBSET Requests]
  BY DEF TypeOK
<1>4. CASE CommitAccepted(c, k)
  <2>1. fate' \in [Statements -> Fates]
    BY <1>2, <1>4, ResolveType DEF CommitAccepted
  <2>2. sent' \in [Calls -> SUBSET Requests] /\ \A o \in Calls : callPc[o] = "idle" => sent'[o] = {}
    BY <1>1, <1>3, <1>4 DEF CommitAccepted, TypeOK
  <2>3. session' \in [Statements -> Sessions]
    BY <1>2, <1>4 DEF CommitAccepted, TypeOK
  <2>4. QED
    BY <1>4, <2>1, <2>2, <2>3 DEF CommitAccepted, TypeOK, StatementOK, ctxVars, connVars, stmtVars
<1>5. CASE RollbackAccepted(c, k)
  <2>1. fate' \in [Statements -> Fates]
    BY <1>2, <1>5, ResolveType DEF RollbackAccepted
  <2>2. sent' \in [Calls -> SUBSET Requests] /\ \A o \in Calls : callPc[o] = "idle" => sent'[o] = {}
    BY <1>1, <1>3, <1>5 DEF RollbackAccepted, TypeOK
  <2>3. session' \in [Statements -> Sessions]
    BY <1>2, <1>5 DEF RollbackAccepted, TypeOK
  <2>4. QED
    BY <1>5, <2>1, <2>2, <2>3 DEF RollbackAccepted, TypeOK, StatementOK, ctxVars, connVars, stmtVars
<1>6. ASSUME NEW op \in {"commit", "rollback", "release"}, NEW b \in BOOLEAN,
             IF b THEN EndFails(c, rest(op)) \/ Unwind(c, rest(op))
             ELSE sent' = [sent EXCEPT ![c] = rest(op)] /\ UNCHANGED <<callPc, outcome, callStack>>
      PROVE  /\ callStack' \in [Calls -> Nat]
             /\ outcome' \in [Calls -> {"none", "returned", "threw"}]
             /\ callPc' \in [Calls -> CallPcs]
             /\ sent' \in [Calls -> SUBSET Requests]
             /\ \A o \in Calls : /\ callPc'[o] = "idle" <=> callPc[o] = "idle"
                                 /\ o # c => sent'[o] = sent[o]
  <2>1. CASE b
    BY <1>1, <1>3, <1>6, <2>1, UnwindType, EndFailsType
  <2>2. CASE ~b
    BY SMTT(30), <1>3, <1>6, <2>2 DEF TypeOK
  <2>3. QED  BY <2>1, <2>2
<1>7. CASE CommitFails(c, k)
  <2> DEFINE b == callPc[c] = "committing"
  <2>1. fate' \in [Statements -> Fates] /\ session' \in [Statements -> Sessions]
    <3>1. CASE UNCHANGED fate /\ (UNCHANGED session \/ session' = [session EXCEPT ![k] = Noticed(k)])
      BY <1>2, <3>1 DEF TypeOK
    <3>2. CASE Resolve(k, "undone") /\ session' = [session EXCEPT ![k] = IF EngineOf(k) = "NEO4J" THEN "aborted" ELSE "ended"]
      BY <3>2, <1>2, ResolveType DEF TypeOK, Sessions
    <3>3. QED  BY <1>7, <3>1, <3>2 DEF CommitFails
  <2>2. faults' \in 0..MaxFaults
    BY <1>7, ConstantsAssumption DEF CommitFails, Fault, TypeOK
  <2>3. IF b THEN EndFails(c, rest("commit")) \/ Unwind(c, rest("commit"))
        ELSE sent' = [sent EXCEPT ![c] = rest("commit")] /\ UNCHANGED <<callPc, outcome, callStack>>
    BY <1>7 DEF CommitFails
  <2>4. b \in BOOLEAN
    OBVIOUS
  <2> HIDE DEF b
  <2>5. /\ callStack' \in [Calls -> Nat]
        /\ outcome' \in [Calls -> {"none", "returned", "threw"}]
        /\ callPc' \in [Calls -> CallPcs]
        /\ sent' \in [Calls -> SUBSET Requests]
        /\ \A o \in Calls : IF callPc'[o] = "idle" THEN sent'[o] = {} ELSE frame[o] \in Frame
    BY <1>1, <1>6, <2>3, <2>4 DEF TypeOK
  <2>6. \A s \in Statements : StatementOK(s)'
    BY <1>7 DEF CommitFails, TypeOK, StatementOK, stmtVars
  <2>7. QED
    BY <1>7, <2>1, <2>2, <2>5, <2>6 DEF CommitFails, TypeOK, connVars, stmtVars
<1>8. CASE RollbackFails(c, k)
  <2> DEFINE b == callPc[c] = "rollingBack"
  <2>1. IF b THEN EndFails(c, rest("rollback")) \/ Unwind(c, rest("rollback"))
        ELSE sent' = [sent EXCEPT ![c] = rest("rollback")] /\ UNCHANGED <<callPc, outcome, callStack>>
    BY <1>8 DEF RollbackFails
  <2>2. b \in BOOLEAN
    OBVIOUS
  <2> HIDE DEF b
  <2>3. session' \in [Statements -> Sessions]
    BY <1>2, <1>8 DEF RollbackFails, TypeOK
  <2>4. /\ callStack' \in [Calls -> Nat]
        /\ outcome' \in [Calls -> {"none", "returned", "threw"}]
        /\ callPc' \in [Calls -> CallPcs]
        /\ sent' \in [Calls -> SUBSET Requests]
        /\ \A o \in Calls : IF callPc'[o] = "idle" THEN sent'[o] = {} ELSE frame[o] \in Frame
    BY <1>1, <1>6, <2>1, <2>2 DEF TypeOK
  <2>5. \A s \in Statements : StatementOK(s)'
    BY <1>8 DEF RollbackFails, TypeOK, StatementOK, stmtVars
  <2>6. QED
    BY <1>8, <2>3, <2>4, <2>5 DEF RollbackFails, TypeOK, connVars, stmtVars
<1>9. CASE ReleaseAccepted(c, k)
  <2>1. fate' \in [Statements -> Fates] /\ session' \in [Statements -> Sessions]
    <3>1. CASE UNCHANGED <<fate, session>>
      BY <3>1 DEF TypeOK
    <3>2. CASE Resolve(k, "undone") /\ session' = [session EXCEPT ![k] = Ended(k)]
      BY <3>2, <1>2, ResolveType DEF TypeOK
    <3>3. QED  BY <1>9, <3>1, <3>2 DEF ReleaseAccepted
  <2>2. sent' \in [Calls -> SUBSET Requests] /\ \A o \in Calls : callPc[o] = "idle" => sent'[o] = {}
    BY <1>1, <1>3, <1>9 DEF ReleaseAccepted, TypeOK
  <2>3. /\ stmtPc' \in [Statements -> StmtPcs]
        /\ \A s \in Statements : stmtPc'[s] \in {stmtPc[s], "ok"} /\ (stmtPc[s] = "unused" => stmtPc'[s] = "unused")
    BY <1>9 DEF ReleaseAccepted, Close, TypeOK, StmtPcs
  <2>4. \A s \in Statements : StatementOK(s)'
    BY <1>9, <2>3 DEF ReleaseAccepted, TypeOK, StatementOK
  <2>5. released' \subseteq Statements
    BY <1>9 DEF ReleaseAccepted, TypeOK
  <2>6. QED
    BY <1>9, <2>1, <2>2, <2>3, <2>4, <2>5 DEF ReleaseAccepted, TypeOK, ctxVars, connVars
<1>10. CASE ReleaseFails(c, k)
  <2> DEFINE b == callPc[c] = "releasing"
  <2>1. IF b THEN EndFails(c, rest("release")) \/ Unwind(c, rest("release"))
        ELSE sent' = [sent EXCEPT ![c] = rest("release")] /\ UNCHANGED <<callPc, outcome, callStack>>
    BY <1>10 DEF ReleaseFails
  <2>2. b \in BOOLEAN
    OBVIOUS
  <2>3. faults' \in 0..MaxFaults
    BY <1>10, ConstantsAssumption DEF ReleaseFails, Fault, TypeOK
  <2> HIDE DEF b
  <2>4. QED
    BY <1>1, <1>6, <1>10, <2>1, <2>2, <2>3 DEF ReleaseFails, TypeOK, StatementOK, connVars, stmtVars, dataVars
<1>11. QED
  BY <1>4, <1>5, <1>7, <1>8, <1>9, <1>10 DEF AnswerStep

\* Giving the mutex up keeps the types, whichever transaction it is the mutex of.
LEMMA FreeMutexType ==
  ASSUME TypeOK, NEW s \in Statements, FreeMutex(s)
  PROVE  connectionMutex' \in [Calls -> Statements \cup {None}]
  BY DEF TypeOK, FreeMutex

LEMMA StatementStepType ==
  ASSUME TypeOK, NEW s \in Statements, StatementStep(s)
  PROVE  TypeOK'
<1>1. ASSUME NEW c \in Calls, NEW d \in Databases, NEW cursor \in BOOLEAN, Issue(s, c, d, cursor)
      PROVE  TypeOK'
  <2>1. currentTransaction[frame[c].context] \in Calls \cup {None}
    BY <1>1 DEF Issue, TypeOK, Frame
  <2>2. stmt' \in [Statements -> Issued \cup {None}] /\ stmt'[s] \in Issued
    BY <1>1, <2>1 DEF Issue, TypeOK, Issued
  <2>3. stmtPc' \in [Statements -> StmtPcs]
    BY <1>1 DEF Issue, TypeOK, StmtPcs
  <2>4. \A r \in Statements : StatementOK(r)'
    BY <1>1, <2>1, <2>2 DEF Issue, TypeOK, StatementOK
  <2>5. QED
    BY <1>1, <2>2, <2>3, <2>4 DEF Issue, TypeOK, ctxVars, connVars, callVars, dataVars
<1>2. CASE Acquire(s)
  <2>1. stmt[s] \in Issued /\ stmt[s].transaction \in Calls
    BY <1>2 DEF Acquire, TypeOK, StatementOK
  <2>2. connectionRegistry[stmt[s].transaction][stmt[s].database] \in Statements \cup {None}
    BY <2>1 DEF TypeOK, Issued
  <2>3. /\ on' \in [Statements -> Statements \cup {None}]
        /\ connectionMutex' \in [Calls -> Statements \cup {None}]
        /\ stmtPc' \in [Statements -> StmtPcs]
    BY ZenonT(40), <1>2, <2>2 DEF Acquire, TypeOK, StmtPcs
  <2>4. \A r \in Statements : StatementOK(r)'
    BY <1>2, <2>2 DEF Acquire, TypeOK, StatementOK
  <2>5. QED
    BY <1>2, <2>3, <2>4 DEF Acquire, TypeOK, ctxVars, callVars, dataVars
<1>3. CASE Connected(s)
  <2>1. connectionRegistry' \in [Calls -> [Databases -> Statements \cup {None}]]
    BY <1>3 DEF Connected, TypeOK
  <2>2. /\ session' \in [Statements -> Sessions]
        /\ stmtPc' \in [Statements -> StmtPcs]
        /\ on' \in [Statements -> Statements \cup {None}]
    BY <1>3 DEF Connected, TypeOK, Sessions, StmtPcs
  <2>3. connectionMutex' \in [Calls -> Statements \cup {None}]
    BY <1>3, FreeMutexType DEF Connected, TypeOK
  <2>4. \A r \in Statements : StatementOK(r)'
    BY <1>3 DEF Connected, TypeOK, StatementOK
  <2>5. QED
    BY <1>3, <2>1, <2>2, <2>3, <2>4 DEF Connected, TypeOK, ctxVars, callVars
<1>4. CASE ConnectFails(s)
  <2>1. faults' \in 0..MaxFaults
    BY <1>4, ConstantsAssumption DEF ConnectFails, Fault, TypeOK
  <2>2. connectionMutex' \in [Calls -> Statements \cup {None}]
    BY <1>4, FreeMutexType DEF ConnectFails, TypeOK
  <2>3. stmtPc' \in [Statements -> StmtPcs] /\ \A r \in Statements : StatementOK(r)'
    BY <1>4 DEF ConnectFails, TypeOK, StatementOK, StmtPcs
  <2>4. QED
    BY <1>4, <2>1, <2>2, <2>3 DEF ConnectFails, TypeOK, ctxVars, callVars, dataVars
<1>5. CASE Began(s)
  <2>1. connectionMutex' \in [Calls -> Statements \cup {None}]
    BY <1>5, FreeMutexType DEF Began
  <2>2. /\ session' \in [Statements -> Sessions]
        /\ stmtPc' \in [Statements -> StmtPcs]
        /\ on' \in [Statements -> Statements \cup {None}]
        /\ \A r \in Statements : StatementOK(r)'
    BY <1>5 DEF Began, TypeOK, StatementOK, Sessions, StmtPcs
  <2>3. QED
    BY <1>5, <2>1, <2>2 DEF Began, TypeOK, ctxVars, callVars
<1>6. CASE BeginFails(s)
  <2>1. connectionMutex' \in [Calls -> Statements \cup {None}]
    BY <1>6, FreeMutexType DEF BeginFails
  <2>2. faults' \in 0..MaxFaults
    BY <1>6, ConstantsAssumption DEF BeginFails, Fault, TypeOK
  <2>3. session' \in [Statements -> Sessions]
    BY <1>6 DEF BeginFails, TypeOK, Sessions
  <2>4. stmtPc' \in [Statements -> StmtPcs] /\ \A r \in Statements : StatementOK(r)'
    BY <1>6 DEF BeginFails, TypeOK, StatementOK, StmtPcs
  <2>5. QED
    BY <1>6, <2>1, <2>2, <2>3, <2>4 DEF BeginFails, TypeOK, ctxVars, callVars
<1>7. CASE RunOnItsOwn(s)
  <2>1. fate' \in [Statements -> Fates] /\ session' \in [Statements -> Sessions]
    BY <1>7 DEF RunOnItsOwn, TypeOK, Fates, Sessions
  <2>2. faults' \in 0..MaxFaults
    BY <1>7, ConstantsAssumption DEF RunOnItsOwn, Fault, TypeOK
  <2>3. /\ stmtPc' \in [Statements -> StmtPcs]
        /\ on' \in [Statements -> Statements \cup {None}]
        /\ released' \subseteq Statements
        /\ \A r \in Statements : StatementOK(r)'
    BY <1>7 DEF RunOnItsOwn, TypeOK, StatementOK, StmtPcs
  <2>4. QED
    BY <1>7, <2>1, <2>2, <2>3 DEF RunOnItsOwn, TypeOK, ctxVars, connVars, callVars
<1>8. CASE Executed(s)
  <2>1. cursors' \in [Calls -> SUBSET Statements] /\ fate' \in [Statements -> Fates]
    <3>1. CASE stmt[s].cursor
      <4> DEFINE t == stmt[s].transaction
      <4>1. t \in Calls => cursors[t] \cup {s} \in SUBSET Statements
        BY DEF TypeOK
      <4>2. cursors' = [cursors EXCEPT ![t] = cursors[t] \cup {s}] /\ fate' = fate
        BY <1>8, <3>1 DEF Executed
      <4> HIDE DEF t
      <4>3. QED  BY <4>1, <4>2 DEF TypeOK
    <3>2. CASE ~stmt[s].cursor
      BY <1>8, <3>2 DEF Executed, TypeOK, Fates
    <3>3. QED  BY <3>1, <3>2
  <2>2. stmtPc' \in [Statements -> StmtPcs]
    BY <1>8 DEF Executed, TypeOK, StmtPcs
  <2>3. \A r \in Statements : StatementOK(r)'
    BY <1>8 DEF Executed, TypeOK, StatementOK
  <2>4. QED
    BY <1>8, <2>1, <2>2, <2>3 DEF Executed, TypeOK, ctxVars, connVars, callVars
<1>9. CASE StatementFails(s)
  <2>1. on[s] \in Statements
    BY <1>9 DEF StatementFails, TypeOK, StatementOK
  <2>2. AfterFailure(on[s]) \subseteq Sessions
    BY <2>1 DEF AfterFailure, Noticed, TypeOK, Sessions
  <2>3. fate' \in [Statements -> Fates]
    BY <1>9, <2>1, ResolveType DEF StatementFails, TypeOK, Fates
  <2>4. session' \in [Statements -> Sessions]
    BY <1>9, <2>2 DEF StatementFails, TypeOK
  <2>5. faults' \in 0..MaxFaults
    BY <1>9, ConstantsAssumption DEF StatementFails, Fault, TypeOK
  <2>6. stmtPc' \in [Statements -> StmtPcs] /\ \A r \in Statements : StatementOK(r)'
    BY <1>9 DEF StatementFails, TypeOK, StatementOK, StmtPcs
  <2>7. QED
    BY <1>9, <2>3, <2>4, <2>5, <2>6 DEF StatementFails, TypeOK, ctxVars, connVars, callVars
<1>10. CASE ReadToEnd(s)
  <2>1. stmtPc' \in [Statements -> StmtPcs] /\ \A r \in Statements : StatementOK(r)'
    BY <1>10 DEF ReadToEnd, TypeOK, StatementOK, StmtPcs
  <2>2. QED
    BY <1>10, <2>1 DEF ReadToEnd, TypeOK, ctxVars, connVars, callVars, dataVars
<1>11. CASE Break(s)
  <2>1. fate' \in [Statements -> Fates] /\ session' \in [Statements -> Sessions]
    BY <1>11, ResolveType DEF Break, TypeOK, Fates, Sessions
  <2>2. faults' \in 0..MaxFaults
    BY <1>11, ConstantsAssumption DEF Break, Fault, TypeOK
  <2>3. QED
    BY <1>11, <2>1, <2>2 DEF Break, TypeOK, StatementOK, ctxVars, connVars, callVars, stmtVars
<1>12. QED
  BY <1>1, <1>2, <1>3, <1>4, <1>5, <1>6, <1>7, <1>8, <1>9, <1>10, <1>11 DEF StatementStep

\* Every variable holds a value of its kind, in every behaviour.
THEOREM TypeCorrect == Spec => []TypeOK
<1>1. TypeOK /\ [Next]_vars => TypeOK'
  <2> SUFFICES ASSUME TypeOK, [Next]_vars  PROVE TypeOK'
    OBVIOUS
  <2>1. CASE \E c \in Calls : CallStep(c)
    BY <2>1, CallStepType
  <2>2. CASE \E c \in Calls, k \in Statements : AnswerStep(c, k)
    BY <2>2, AnswerStepType
  <2>3. CASE \E s \in Statements : StatementStep(s)
    BY <2>3, StatementStepType
  <2>4. CASE UNCHANGED vars
    BY <2>4 DEF TypeOK, StatementOK, vars, ctxVars, connVars, callVars, stmtVars, dataVars
  <2>5. QED
    BY <2>1, <2>2, <2>3, <2>4 DEF Next, Stop
<1>2. QED
  BY InitType, <1>1, PTL DEF Spec

-----------------------------------------------------------------------------
(* One connection per database.  The mutex is what makes the registry      *)
(* sound: the invariant is MutexGuardsRegistry, kept by every step.        *)

Early == {"unused", "queued", "connecting", "starting"}
AsksOpened == \A c \in Calls : \A r \in sent'[c] : r[2] \in Opened

LEMMA InitGuards == Init => MutexGuardsRegistry
  BY DEF Init, MutexGuardsRegistry, MutexHeld, OpenedOnTheWay, OpenedIsRegistered, RegisteredIsOpened,
         OpenedIsAsked, Opened, Transactional, ConnectionsOf

\* A step that opens no connection and starts none on its way keeps the invariant, if it asks nothing of a connection
\* that was not opened.
LEMMA GuardsKept ==
  ASSUME TypeOK, MutexGuardsRegistry,
         UNCHANGED <<stmt, connectionRegistry, connectionMutex>>,
         \A s \in Statements : \/ stmtPc'[s] = stmtPc[s]
                               \/ stmtPc[s] \notin Early /\ stmtPc'[s] \notin Early,
         \A s \in Statements : session'[s] = "none" <=> session[s] = "none",
         AsksOpened
  PROVE  MutexGuardsRegistry'
<1>1. Opened' = Opened /\ \A t \in Calls : ConnectionsOf(t)' = ConnectionsOf(t)
  BY DEF Opened, ConnectionsOf
<1>2. \A s \in Statements : Transactional(s)' <=> Transactional(s)
  BY DEF Transactional, Early
<1>3. MutexHeld' /\ OpenedOnTheWay'
  BY <1>1, <1>2 DEF MutexGuardsRegistry, MutexHeld, OpenedOnTheWay, Early
<1>4. OpenedIsRegistered'
  BY <1>1, <1>2 DEF MutexGuardsRegistry, OpenedIsRegistered, Opened
<1>5. RegisteredIsOpened' /\ OpenedIsAsked'
  BY <1>1 DEF MutexGuardsRegistry, RegisteredIsOpened, OpenedIsAsked, AsksOpened
<1>6. QED  BY <1>3, <1>4, <1>5 DEF MutexGuardsRegistry

\* Only connections of the registry are asked anything.
LEMMA AskGuarded ==
  ASSUME TypeOK, MutexGuardsRegistry, NEW c \in Calls, callPc[c] # "idle",
         NEW op \in {"commit", "rollback", "release"}, NEW rest \in SUBSET sent[c], Ask(c, op, rest)
  PROVE  AsksOpened
<1> DEFINE requests == {op} \X ConnectionsOf(frame[c].transaction)
<1>1. \A r \in requests : r[2] \in Opened
  BY PoppedType DEF MutexGuardsRegistry, RegisteredIsOpened
<1>2. \A o \in Calls : sent'[o] \subseteq sent[o] \cup requests
  BY DEF Ask, TypeOK
<1>3. QED  BY <1>1, <1>2 DEF AsksOpened, MutexGuardsRegistry, OpenedIsAsked

LEMMA UnwindGuarded ==
  ASSUME TypeOK, MutexGuardsRegistry, NEW c \in Calls, callPc[c] # "idle", NEW rest \in SUBSET sent[c],
         Unwind(c, rest) \/ EndFails(c, rest)
  PROVE  AsksOpened
<1>1. CASE Ask(c, "rollback", rest)
  BY <1>1, AskGuarded
<1>2. CASE UNCHANGED sent \/ sent' = [sent EXCEPT ![c] = rest]
  BY <1>2 DEF TypeOK, AsksOpened, MutexGuardsRegistry, OpenedIsAsked
<1>3. QED  BY <1>1, <1>2 DEF Unwind, EndFails

LEMMA CallStepGuarded ==
  ASSUME TypeOK, MutexGuardsRegistry, NEW c \in Calls, CallStep(c)
  PROVE  MutexGuardsRegistry'
<1>1. UNCHANGED <<stmt, connectionRegistry, connectionMutex, session>>
  BY DEF CallStep, RunInTransaction, MarkAsRollback, Throw, PopContext, CloseCursors, CloseCursorsFails,
         Release, ReleaseClient, stmtVars, connVars, dataVars
<1>2. \A s \in Statements : \/ stmtPc'[s] = stmtPc[s]
                            \/ stmtPc[s] \notin Early /\ stmtPc'[s] \notin Early
  <2>1. CASE CloseCursors(c)
    BY <2>1 DEF CloseCursors, Close, Early, TypeOK
  <2>2. CASE UNCHANGED stmtPc
    BY <2>2
  <2>3. QED
    BY <2>1, <2>2 DEF CallStep, RunInTransaction, MarkAsRollback, Throw, PopContext, CloseCursorsFails,
                      Release, ReleaseClient, stmtVars
<1>3. AsksOpened
  <2>1. CASE Throw(c) \/ CloseCursorsFails(c)
    BY <2>1, UnwindGuarded DEF Throw, CloseCursorsFails
  <2>2. CASE CloseCursors(c)
    BY <2>2, AskGuarded DEF CloseCursors, End
  <2>3. CASE Release(c)
    BY <2>3, AskGuarded DEF Release
  <2>4. CASE UNCHANGED sent
    BY <2>4 DEF AsksOpened, MutexGuardsRegistry, OpenedIsAsked
  <2>5. QED
    BY <2>1, <2>2, <2>3, <2>4 DEF CallStep, RunInTransaction, MarkAsRollback, PopContext, ReleaseClient, callVars
<1>4. QED  BY <1>1, <1>2, <1>3, GuardsKept

LEMMA AnswerStepGuarded ==
  ASSUME TypeOK, MutexGuardsRegistry, NEW c \in Calls, NEW k \in Statements, AnswerStep(c, k)
  PROVE  MutexGuardsRegistry'
<1> DEFINE rest(op) == sent[c] \ {<<op, k>>}
<1>1. UNCHANGED <<stmt, connectionRegistry, connectionMutex>>
  BY DEF AnswerStep, CommitAccepted, CommitFails, RollbackAccepted, RollbackFails, ReleaseAccepted, ReleaseFails,
         stmtVars, connVars
<1>2. \E op \in {"commit", "rollback", "release"} :
        /\ <<op, k>> \in sent[c]
        /\ sent' = [sent EXCEPT ![c] = rest(op)] \/ Unwind(c, rest(op)) \/ EndFails(c, rest(op))
  BY DEF AnswerStep, CommitAccepted, CommitFails, RollbackAccepted, RollbackFails, RollbackDue,
         ReleaseAccepted, ReleaseFails
<1>3. callPc[c] # "idle" /\ k \in Opened
  BY <1>2 DEF TypeOK, MutexGuardsRegistry, OpenedIsAsked
<1>4. \A s \in Statements : session'[s] = "none" <=> session[s] = "none"
  <2>1. \/ UNCHANGED session
        \/ \E e \in {"ended", "aborted", session[k]} : session' = [session EXCEPT ![k] = e]
    BY DEF AnswerStep, CommitAccepted, CommitFails, RollbackAccepted, RollbackFails, ReleaseAccepted, ReleaseFails,
           Ended, Noticed, dataVars
  <2>2. QED  BY <1>3, <2>1 DEF Opened, TypeOK
<1>5. \A s \in Statements : \/ stmtPc'[s] = stmtPc[s]
                            \/ stmtPc[s] \notin Early /\ stmtPc'[s] \notin Early
  <2>1. CASE UNCHANGED stmtPc
    BY <2>1
  <2>2. CASE Close({s \in Statements : on[s] = k})
    BY <2>2 DEF Close, Early, TypeOK
  <2>3. QED
    BY <2>1, <2>2 DEF AnswerStep, CommitAccepted, CommitFails, RollbackAccepted, RollbackFails, ReleaseAccepted,
                      ReleaseFails, stmtVars
<1>6. AsksOpened
  <2>1. CASE \E op \in {"commit", "rollback", "release"} : sent' = [sent EXCEPT ![c] = rest(op)]
    BY <2>1 DEF TypeOK, AsksOpened, MutexGuardsRegistry, OpenedIsAsked
  <2>2. CASE \E op \in {"commit", "rollback", "release"} : Unwind(c, rest(op)) \/ EndFails(c, rest(op))
    BY <1>3, <2>2, UnwindGuarded
  <2>3. QED  BY <1>2, <2>1, <2>2
<1>7. QED  BY <1>1, <1>4, <1>5, <1>6, GuardsKept

\* The statement that held the mutex, or ran in no transaction, goes on or settles, and gives up what it held.
LEMMA MutexGivenUp ==
  ASSUME TypeOK, MutexGuardsRegistry, NEW s \in Statements, NEW p \in {"running", "ok", "failed"},
         stmtPc[s] \in {"connecting", "starting"}, stmtPc' = [stmtPc EXCEPT ![s] = p],
         UNCHANGED <<stmt, connectionRegistry, sent>>,
         IF Transactional(s) THEN Opened' = Opened /\ FreeMutex(s)
                             ELSE Opened' \in {Opened, Opened \cup {s}} /\ UNCHANGED connectionMutex
  PROVE  MutexGuardsRegistry'
<1>1. stmtPc'[s] = p /\ \A r \in Statements \ {s} : stmtPc'[r] = stmtPc[r]
  BY DEF TypeOK
<1>2. \A r \in Statements : Transactional(r)' <=> Transactional(r)
  BY <1>1 DEF Transactional
<1>3. Opened \subseteq Opened' /\ Opened' \subseteq Opened \cup {s} /\ (Transactional(s) => Opened' = Opened)
  OBVIOUS
<1>4. \A r \in Statements \ {s} :
        stmtPc[r] \in {"connecting", "starting"} /\ Transactional(r) =>
          connectionMutex'[stmt[r].transaction] = connectionMutex[stmt[r].transaction]
  <2> SUFFICES ASSUME NEW r \in Statements \ {s}, stmtPc[r] \in {"connecting", "starting"}, Transactional(r),
                      Transactional(s)
               PROVE  connectionMutex'[stmt[r].transaction] = connectionMutex[stmt[r].transaction]
    OBVIOUS
  <2>1. connectionMutex[stmt[r].transaction] = r /\ connectionMutex[stmt[s].transaction] = s
    BY DEF MutexGuardsRegistry, MutexHeld
  <2>2. stmt[r].transaction \in Calls
    BY DEF Transactional, TypeOK, StatementOK, Issued
  <2>3. QED  BY <2>1, <2>2 DEF FreeMutex, TypeOK
<1>5. MutexHeld'
  BY <1>1, <1>2, <1>4 DEF MutexGuardsRegistry, MutexHeld
<1>6. OpenedOnTheWay'
  BY <1>1, <1>2, <1>3 DEF MutexGuardsRegistry, OpenedOnTheWay
<1>7. OpenedIsRegistered'
  BY <1>2, <1>3 DEF MutexGuardsRegistry, OpenedIsRegistered, Opened
<1>8. RegisteredIsOpened' /\ OpenedIsAsked'
  BY <1>3 DEF MutexGuardsRegistry, RegisteredIsOpened, OpenedIsAsked, ConnectionsOf
<1>9. QED  BY <1>5, <1>6, <1>7, <1>8 DEF MutexGuardsRegistry

\* A statement is issued, or takes the mutex: it opens nothing yet.
LEMMA NothingOpenedYet ==
  ASSUME TypeOK, MutexGuardsRegistry, NEW s \in Statements, stmtPc[s] \in {"unused", "queued"},
         \A r \in Statements \ {s} : stmt'[r] = stmt[r] /\ stmtPc'[r] = stmtPc[r],
         UNCHANGED <<connectionRegistry, session, sent>>,
         \/ /\ stmtPc'[s] \in {"queued", "running", "failed"} \/ ~Transactional(s)'
            /\ stmtPc'[s] # "starting"
            /\ UNCHANGED connectionMutex
         \/ /\ stmtPc[s] = "queued" /\ stmtPc'[s] = "connecting" /\ UNCHANGED stmt
            /\ connectionRegistry[stmt[s].transaction][stmt[s].database] = None
            /\ connectionMutex[stmt[s].transaction] = None
            /\ connectionMutex' = [connectionMutex EXCEPT ![stmt[s].transaction] = s]
  PROVE  MutexGuardsRegistry'
<1>1. s \notin Opened /\ Opened' = Opened /\ \A t \in Calls : ConnectionsOf(t)' = ConnectionsOf(t)
  BY DEF MutexGuardsRegistry, OpenedOnTheWay, Opened, ConnectionsOf
<1>2. \A r \in Statements \ {s} : Transactional(r)' <=> Transactional(r)
  BY DEF Transactional
<1>3. \A r \in Statements \ {s} :
        stmtPc[r] \in {"connecting", "starting"} /\ Transactional(r) => connectionMutex'[stmt[r].transaction] = r
  <2> SUFFICES ASSUME NEW r \in Statements \ {s}, stmtPc[r] \in {"connecting", "starting"}, Transactional(r)
               PROVE  connectionMutex'[stmt[r].transaction] = r
    OBVIOUS
  <2>1. connectionMutex[stmt[r].transaction] = r /\ r # None
    BY ConstantsAssumption DEF MutexGuardsRegistry, MutexHeld
  <2>2. stmt[r].transaction \in Calls
    BY DEF Transactional, TypeOK, StatementOK, Issued
  <2>3. QED  BY <2>1, <2>2 DEF TypeOK
<1>4. MutexHeld'
  <2> SUFFICES ASSUME NEW r \in Statements, stmtPc'[r] \in {"connecting", "starting"}, Transactional(r)'
               PROVE  /\ connectionMutex'[stmt'[r].transaction] = r
                      /\ stmtPc'[r] = "connecting" => connectionRegistry[stmt'[r].transaction][stmt'[r].database] = None
    BY DEF MutexHeld
  <2>1. CASE r = s
    <3>1. stmt[s].transaction \in Calls
      BY <2>1 DEF TypeOK, StatementOK
    <3>2. QED  BY <2>1, <3>1 DEF TypeOK
  <2>2. CASE r # s
    BY <1>2, <1>3, <2>2 DEF MutexGuardsRegistry, MutexHeld
  <2>3. QED  BY <2>1, <2>2
<1>5. OpenedOnTheWay'
  BY <1>1, <1>2 DEF MutexGuardsRegistry, OpenedOnTheWay
<1>6. OpenedIsRegistered'
  BY <1>1, <1>2 DEF MutexGuardsRegistry, OpenedIsRegistered, Opened
<1>7. RegisteredIsOpened' /\ OpenedIsAsked'
  BY <1>1 DEF MutexGuardsRegistry, RegisteredIsOpened, OpenedIsAsked
<1>8. QED  BY <1>4, <1>5, <1>6, <1>7 DEF MutexGuardsRegistry

\* A connection is opened: none was registered for the database, and no other statement is connecting in the transaction.
LEMMA ConnectedGuarded ==
  ASSUME TypeOK, MutexGuardsRegistry, NEW s \in Statements, Connected(s)
  PROVE  MutexGuardsRegistry'
<1> DEFINE t == stmt[s].transaction
           d == stmt[s].database
<1>1. stmtPc[s] = "connecting" /\ t \in Calls /\ d \in Databases /\ s \notin Opened /\ Transactional(s)
  BY DEF Connected, TypeOK, StatementOK, Issued, MutexGuardsRegistry, OpenedOnTheWay, Transactional
<1>2. connectionMutex[t] = s /\ connectionRegistry[t][d] = None
  BY <1>1 DEF MutexGuardsRegistry, MutexHeld
<1>3. connectionRegistry' = [connectionRegistry EXCEPT ![t][d] = s] /\ UNCHANGED <<stmt, sent>>
  BY DEF Connected, callVars
<1>4. PICK p \in {"running", "failed", "starting"} :
        /\ stmtPc' = [stmtPc EXCEPT ![s] = p]
        /\ connectionMutex' = IF p = "starting" THEN connectionMutex ELSE [connectionMutex EXCEPT ![t] = None]
  BY DEF Connected, FreeMutex
<1>5. stmtPc'[s] = p /\ \A r \in Statements \ {s} : stmtPc'[r] = stmtPc[r]
  BY <1>4 DEF TypeOK
<1>6. Opened' = Opened \cup {s}
  BY <1>1 DEF Connected, Opened, TypeOK
<1>7. \A r \in Statements : Transactional(r)' <=> Transactional(r)
  BY <1>1, <1>3, <1>5 DEF Transactional
<1>8. \A u \in Calls, e \in Databases :
        connectionRegistry'[u][e] = IF u = t /\ e = d THEN s ELSE connectionRegistry[u][e]
  BY <1>1, <1>3 DEF TypeOK
<1>9. \A r \in Statements : Transactional(r) => stmt[r].transaction \in Calls /\ stmt[r].database \in Databases
  BY DEF Transactional, TypeOK, StatementOK, Issued
<1>10. MutexHeld'
  <2> SUFFICES ASSUME NEW r \in Statements, stmtPc'[r] \in {"connecting", "starting"}, Transactional(r)
               PROVE  /\ connectionMutex'[stmt[r].transaction] = r
                      /\ stmtPc'[r] = "connecting" => connectionRegistry'[stmt[r].transaction][stmt[r].database] = None
    BY <1>3, <1>7 DEF MutexHeld
  <2>1. CASE r = s
    BY <1>2, <1>4, <1>5, <2>1
  <2>2. CASE r # s
    <3>1. connectionMutex[stmt[r].transaction] = r
      BY <1>5, <2>2 DEF MutexGuardsRegistry, MutexHeld
    <3>2. stmt[r].transaction # t
      BY <1>2, <2>2, <3>1
    <3>3. connectionMutex'[stmt[r].transaction] = r
      BY <1>1, <1>4, <1>9, <3>1, <3>2 DEF TypeOK
    <3>4. QED
      BY <1>5, <1>8, <1>9, <2>2, <3>2, <3>3 DEF MutexGuardsRegistry, MutexHeld
  <2>3. QED  BY <2>1, <2>2
<1>11. OpenedOnTheWay'
  BY <1>1, <1>4, <1>5, <1>6, <1>7 DEF MutexGuardsRegistry, OpenedOnTheWay
<1>12. OpenedIsRegistered'
  <2> SUFFICES ASSUME NEW r \in Opened', Transactional(r)
               PROVE  connectionRegistry'[stmt[r].transaction][stmt[r].database] = r
    BY <1>3, <1>6, <1>7 DEF OpenedIsRegistered, Opened
  <2>1. r \in Statements
    BY DEF Opened
  <2>2. CASE r = s
    BY <1>1, <1>8, <2>2
  <2>3. CASE r # s
    <3>1. connectionRegistry[stmt[r].transaction][stmt[r].database] = r
      BY <1>6, <2>3 DEF MutexGuardsRegistry, OpenedIsRegistered
    <3>2. QED  BY <1>2, <1>8, <1>9, <2>1, <3>1, ConstantsAssumption
  <2>4. QED  BY <2>2, <2>3
<1>13. RegisteredIsOpened'
  BY <1>6, <1>8 DEF MutexGuardsRegistry, RegisteredIsOpened, ConnectionsOf
<1>14. OpenedIsAsked'
  BY <1>3, <1>6 DEF MutexGuardsRegistry, OpenedIsAsked
<1>15. QED  BY <1>10, <1>11, <1>12, <1>13, <1>14 DEF MutexGuardsRegistry

LEMMA StatementStepGuarded ==
  ASSUME TypeOK, MutexGuardsRegistry, NEW s \in Statements, StatementStep(s)
  PROVE  MutexGuardsRegistry'
<1>1. CASE \E c \in Calls, d \in Databases, cursor \in BOOLEAN : Issue(s, c, d, cursor)
  <2>1. stmtPc'[s] \in {"queued", "failed"} \/ (stmtPc'[s] = "connecting" /\ stmt'[s].transaction = None)
    BY <1>1 DEF Issue, TypeOK
  <2>2. \A r \in Statements \ {s} : stmt'[r] = stmt[r] /\ stmtPc'[r] = stmtPc[r]
    BY <1>1 DEF Issue, TypeOK
  <2>3. stmtPc[s] = "unused" /\ UNCHANGED <<connectionRegistry, connectionMutex, session, sent>>
    BY <1>1 DEF Issue, connVars, callVars, dataVars
  <2>4. QED
    BY <2>1, <2>2, <2>3, NothingOpenedYet DEF Transactional
<1>2. CASE Acquire(s)
  <2>1. stmtPc[s] = "queued" /\ UNCHANGED <<stmt, connectionRegistry, session, sent>>
    BY <1>2 DEF Acquire, callVars, dataVars
  <2>2. \A r \in Statements \ {s} : stmtPc'[r] = stmtPc[r]
    BY <1>2 DEF Acquire, TypeOK
  <2>3. \/ stmtPc'[s] = "running" /\ UNCHANGED connectionMutex
        \/ /\ stmtPc'[s] = "connecting"
           /\ connectionRegistry[stmt[s].transaction][stmt[s].database] = None
           /\ connectionMutex[stmt[s].transaction] = None
           /\ connectionMutex' = [connectionMutex EXCEPT ![stmt[s].transaction] = s]
    BY <1>2 DEF Acquire, MutexFree, TypeOK
  <2>4. QED  BY <2>1, <2>2, <2>3, NothingOpenedYet
<1>3. CASE Connected(s)
  BY <1>3, ConnectedGuarded
<1>4. CASE ConnectFails(s)
  <2>1. Opened' = Opened /\ stmtPc[s] = "connecting" /\ UNCHANGED <<stmt, connectionRegistry, sent>>
    BY <1>4 DEF ConnectFails, Opened, callVars, dataVars
  <2>2. stmtPc' = [stmtPc EXCEPT ![s] = "failed"]
    BY <1>4 DEF ConnectFails
  <2>3. IF Transactional(s) THEN FreeMutex(s) ELSE UNCHANGED connectionMutex
    BY <1>4, <2>1 DEF ConnectFails, Transactional
  <2>4. QED  BY <2>1, <2>2, <2>3, MutexGivenUp
<1>5. CASE Began(s) \/ BeginFails(s)
  <2>1. stmtPc[s] = "starting" /\ s \in Opened /\ Transactional(s)
    BY <1>5 DEF Began, BeginFails, MutexGuardsRegistry, OpenedOnTheWay
  <2>2. Opened' = Opened
    BY <1>5, <2>1 DEF Began, BeginFails, Opened, TypeOK
  <2>3. UNCHANGED <<stmt, connectionRegistry, sent>> /\ FreeMutex(s)
    BY <1>5 DEF Began, BeginFails, callVars
  <2>4. \E p \in {"running", "failed"} : stmtPc' = [stmtPc EXCEPT ![s] = p]
    BY <1>5 DEF Began, BeginFails
  <2>5. QED  BY <2>1, <2>2, <2>3, <2>4, MutexGivenUp
<1>6. CASE RunOnItsOwn(s)
  <2>1. /\ stmt[s].transaction = None /\ stmtPc[s] = "connecting"
        /\ UNCHANGED <<stmt, connectionRegistry, connectionMutex, sent>>
    BY <1>6 DEF RunOnItsOwn, connVars, callVars
  <2>2. \E p \in {"ok", "failed"} : stmtPc' = [stmtPc EXCEPT ![s] = p]
    BY <1>6 DEF RunOnItsOwn
  <2>3. Opened' = Opened \cup {s} /\ ~Transactional(s)
    BY <1>6, <2>1 DEF RunOnItsOwn, Opened, TypeOK, Transactional
  <2>4. QED  BY <2>1, <2>2, <2>3, MutexGivenUp
<1>7. CASE Executed(s) \/ ReadToEnd(s) \/ StatementFails(s) \/ Break(s)
  <2>1. UNCHANGED <<stmt, connectionRegistry, connectionMutex, sent>>
    BY <1>7 DEF Executed, ReadToEnd, StatementFails, Break, connVars, callVars, stmtVars
  <2>2. \A r \in Statements : stmtPc'[r] = stmtPc[r] \/ (stmtPc[r] \notin Early /\ stmtPc'[r] \notin Early)
    BY <1>7 DEF Executed, ReadToEnd, StatementFails, Break, Early, TypeOK, stmtVars
  <2>3. \A k \in Statements : \A e \in AfterFailure(k) : e = "none" <=> session[k] = "none"
    BY DEF AfterFailure, Noticed
  <2>4. \A r \in Statements : session'[r] = "none" <=> session[r] = "none"
    <3>1. CASE StatementFails(s)
      BY <2>3, <3>1 DEF StatementFails, TypeOK, StatementOK
    <3>2. CASE Break(s)
      BY <3>2 DEF Break, TypeOK
    <3>3. CASE UNCHANGED session
      BY <3>3
    <3>4. QED  BY <1>7, <3>1, <3>2, <3>3 DEF Executed, ReadToEnd, dataVars
  <2>5. AsksOpened
    BY <2>1 DEF AsksOpened, MutexGuardsRegistry, OpenedIsAsked
  <2>6. QED  BY <2>1, <2>2, <2>4, <2>5, GuardsKept
<1>8. QED
  BY <1>1, <1>2, <1>3, <1>4, <1>5, <1>6, <1>7 DEF StatementStep

\* Whatever is sent, fails or is left unawaited, a connection begun is the registered one, and asked nothing unopened.
THEOREM GuardsHold == Spec => []MutexGuardsRegistry
<1>1. TypeOK /\ MutexGuardsRegistry /\ [Next]_vars => MutexGuardsRegistry'
  <2> SUFFICES ASSUME TypeOK, MutexGuardsRegistry, [Next]_vars  PROVE MutexGuardsRegistry'
    OBVIOUS
  <2>1. CASE \E c \in Calls : CallStep(c)
    BY <2>1, CallStepGuarded
  <2>2. CASE \E c \in Calls, k \in Statements : AnswerStep(c, k)
    BY <2>2, AnswerStepGuarded
  <2>3. CASE \E s \in Statements : StatementStep(s)
    BY <2>3, StatementStepGuarded
  <2>4. CASE UNCHANGED vars
    BY <2>4, GuardsKept DEF AsksOpened, MutexGuardsRegistry, OpenedIsAsked, vars, connVars, callVars, stmtVars, dataVars
  <2>5. QED
    BY <2>1, <2>2, <2>3, <2>4 DEF Next, Stop
<1>2. QED
  BY InitGuards, TypeCorrect, <1>1, PTL DEF Spec

\* A transaction opens one connection per database, however its statements interleave in connectionFor.
THEOREM OneConnection == Spec => []OneConnectionPerDatabase
<1>1. MutexGuardsRegistry => OneConnectionPerDatabase
  <2> SUFFICES ASSUME MutexGuardsRegistry, NEW j \in Opened, NEW k \in Opened, Transactional(j),
                      stmt[k].transaction = stmt[j].transaction, stmt[k].database = stmt[j].database
               PROVE  j = k
    BY DEF OneConnectionPerDatabase
  <2>1. Transactional(k)
    BY DEF Transactional, MutexGuardsRegistry, OpenedOnTheWay, Opened
  <2>2. QED  BY <2>1 DEF MutexGuardsRegistry, OpenedIsRegistered
<1>2. QED
  BY GuardsHold, <1>1, PTL
=============================================================================
