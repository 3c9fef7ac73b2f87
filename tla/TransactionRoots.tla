-------------------------- MODULE TransactionRoots --------------------------
(***************************************************************************)
(* Why a transaction has one root, for every set of calls, contexts and    *)
(* databases and every failure, where methods await what they start and a  *)
(* context runs one method at a time outside the others.                   *)
(*                                                                         *)
(* The calls under way in a context form a tree: one is called by no       *)
(* other, and every other one by a call that still runs.  The call stack   *)
(* counts those that run, so a call made by a running one never finds it   *)
(* empty, and a call that ends its transaction is alone in its context.    *)
(***************************************************************************)
EXTENDS TransactionScopeProofs, FiniteSetTheorems, WellFoundedInduction

Structured == {"awaits", "oneAtATime"} \subseteq Discipline

Running(t) == {c \in Calls : callPc[c] = "running" /\ frame[c].transaction = t}

\* The call stack counts the calls that run.
Counted == \A t \in Calls : IsFiniteSet(Running(t)) /\ callStack[t] = Cardinality(Running(t))

\* A call under way was made by one that runs, in the same context.
CallerRuns ==
  \A c \in Calls : Active(c) /\ frame[c].caller # None =>
    /\ callPc[frame[c].caller] = "running"
    /\ frame[frame[c].caller].context = frame[c].context

\* A root was called by no other call, and only a root has more to do once its method is over.
RootsOnTop ==
  \A c \in Calls : Active(c) =>
    /\ frame[c].isRoot => frame[c].caller = None
    /\ callPc[c] # "running" => frame[c].isRoot

OneOnTop ==
  \A b, c \in Calls :
    /\ Active(b) /\ Active(c) /\ frame[b].context = frame[c].context
    /\ frame[b].caller = None /\ frame[c].caller = None
    => b = c

\* A context holds the transaction its calls run in, and no two contexts hold the same one.
HeldMeanwhile == \A c \in Calls : Active(c) => currentTransaction[frame[c].context] = frame[c].transaction
HeldByOne ==
  \A x \in Contexts, t \in Calls : currentTransaction[x] = t => callPc[t] # "idle" /\ frame[t].context = x

\* Callers come before the calls they make.
Ranks(rank) ==
  \A c \in Calls : callPc[c] # "idle" /\ frame[c].caller # None =>
    callPc[frame[c].caller] # "idle" /\ rank[frame[c].caller] < rank[c]
CallersFirst == \E rank \in [Calls -> Nat] : Ranks(rank)

Tree ==
  /\ Counted /\ CallerRuns /\ RootsOnTop /\ OneOnTop
  /\ HeldMeanwhile /\ HeldByOne /\ CallersFirst

-----------------------------------------------------------------------------

LEMMA TreeAtFirst == Init => Tree
<1> SUFFICES ASSUME Init PROVE Tree
  OBVIOUS
<1>1. \A t \in Calls : Running(t) = {}
  BY DEF Init, Running
<1>2. Counted
  BY <1>1, FS_EmptySet DEF Init, Counted
<1>3. CallerRuns /\ RootsOnTop /\ OneOnTop /\ HeldMeanwhile
  BY DEF Init, CallerRuns, RootsOnTop, OneOnTop, HeldMeanwhile, Active
<1>4. HeldByOne
  BY ConstantsAssumption DEF Init, HeldByOne
<1>5. CallersFirst
  <2>1. [c \in Calls |-> 0] \in [Calls -> Nat]
    OBVIOUS
  <2>2. Ranks([c \in Calls |-> 0])
    BY DEF Init, Ranks
  <2> QED BY <2>1, <2>2 DEF CallersFirst
<1> QED BY <1>2, <1>3, <1>4, <1>5 DEF Tree

\* A set of calls that is not empty has one with the least rank.
LEMMA LeastRank ==
  ASSUME NEW rank \in [Calls -> Nat], NEW S \in SUBSET Calls, S # {}
  PROVE  \E c \in S : \A b \in S : ~ (rank[b] < rank[c])
<1> DEFINE T == {rank[c] : c \in S}
<1>1. T \subseteq Nat /\ T # {}
  OBVIOUS
<1>2. \E n \in T : \A m \in T : ~ (<<m, n>> \in OpToRel(<, Nat))
  BY <1>1, NatLessThanWellFounded, WFMin
<1>3. PICK n \in T : \A m \in T : ~ (<<m, n>> \in OpToRel(<, Nat))
  BY <1>2
<1>4. \A m \in T : ~ (m < n)
  BY <1>1, <1>3 DEF OpToRel
<1> QED BY <1>4

\* A call nobody called, whose own calls have ended, is alone in its context.
LEMMA Alone ==
  ASSUME TypeOK, Tree, NEW c \in Calls, Active(c), frame[c].caller = None,
         \A b \in Calls : Active(b) => frame[b].caller # c
  PROVE  \A b \in Calls : Active(b) /\ frame[b].context = frame[c].context => b = c
<1> DEFINE Others == {b \in Calls : Active(b) /\ frame[b].context = frame[c].context /\ b # c}
<1>1. SUFFICES ASSUME Others # {} PROVE FALSE
  OBVIOUS
<1>2. PICK rank \in [Calls -> Nat] : Ranks(rank)
  BY DEF Tree, CallersFirst
<1>3. PICK b \in Others : \A o \in Others : ~ (rank[o] < rank[b])
  BY <1>1, LeastRank
<1>4. b \in Calls /\ Active(b) /\ frame[b].context = frame[c].context /\ b # c
  BY <1>3
<1>5. CASE frame[b].caller = None
  BY <1>4, <1>5 DEF Tree, OneOnTop
<1>6. CASE frame[b].caller # None
  <2>1. frame[b].caller \in Calls
    BY <1>4, <1>6 DEF TypeOK, Frame, Active
  <2>2. frame[b].caller \in Others
    BY <1>4, <1>6, <2>1 DEF Tree, CallerRuns, Active
  <2>3. rank[frame[b].caller] < rank[b]
    BY <1>2, <1>4, <1>6 DEF Ranks, Active
  <2> QED BY <1>3, <2>2, <2>3
<1> QED BY <1>5, <1>6

\* Two calls under way in one transaction run in one context.
LEMMA OneContext ==
  ASSUME TypeOK, Tree, NEW b \in Calls, NEW c \in Calls, Active(b), Active(c),
         frame[b].transaction = frame[c].transaction
  PROVE  frame[b].context = frame[c].context
<1>1. /\ frame[b].transaction \in Calls
      /\ frame[b].context \in Contexts /\ frame[c].context \in Contexts
  BY DEF TypeOK, Frame, Active
<1> QED BY <1>1 DEF Tree, HeldMeanwhile, HeldByOne

\* What ends a transaction is past its method: nothing runs in the transaction, and the call stack is empty.
LEMMA NothingRuns ==
  ASSUME TypeOK, Tree, NEW c \in Calls, Active(c), callPc[c] # "running"
  PROVE  /\ frame[c].caller = None
         /\ \A b \in Calls : Active(b) /\ frame[b].context = frame[c].context => b = c
         /\ callStack[frame[c].transaction] = 0
<1>1. frame[c].caller = None
  BY DEF Tree, RootsOnTop
<1>2. \A b \in Calls : Active(b) => frame[b].caller # c
  BY ConstantsAssumption DEF Tree, CallerRuns
<1>3. \A b \in Calls : Active(b) /\ frame[b].context = frame[c].context => b = c
  BY <1>1, <1>2, Alone
<1>4. Running(frame[c].transaction) = {}
  <2> SUFFICES ASSUME NEW b \in Calls, callPc[b] = "running", frame[b].transaction = frame[c].transaction
               PROVE  FALSE
    BY DEF Running
  <2>1. Active(b)
    BY DEF Active
  <2>2. b = c
    BY <1>3, <2>1, OneContext
  <2> QED BY <2>2
<1>5. frame[c].transaction \in Calls
  BY DEF TypeOK, Frame, Active
<1> QED BY <1>1, <1>3, <1>4, <1>5, FS_EmptySet DEF Tree, Counted

-----------------------------------------------------------------------------
(* The steps, by what they do to the tree.                                  *)

\* A step that moves no call, or one past its method on its way out.
LEMMA TreeKept ==
  ASSUME TypeOK, Tree, UNCHANGED <<currentTransaction, callStack, callPc, frame>>
  PROVE  Tree'
<1>1. \A t \in Calls : Running(t)' = Running(t)
  BY DEF Running
<1> QED
  BY <1>1 DEF Tree, Counted, CallerRuns, RootsOnTop, OneOnTop, HeldMeanwhile, HeldByOne, CallersFirst, Ranks, Active

LEMMA MovesOn ==
  ASSUME TypeOK, Tree, NEW c \in Calls, Active(c), callPc[c] # "running",
         NEW pc \in CallPcs \ {"idle", "running"}, callPc' = [callPc EXCEPT ![c] = pc],
         UNCHANGED <<currentTransaction, frame>>,
         callStack' = callStack \/ callStack' = Popped(frame[c].transaction)
  PROVE  Tree'
<1>1. callStack' = callStack
  <2>1. frame[c].transaction \in Calls /\ callStack \in [Calls -> Nat]
    BY DEF TypeOK, Frame, Active
  <2> QED BY <2>1, NothingRuns DEF Popped
<1>2. \A o \in Calls : /\ callPc'[o] = "running" <=> callPc[o] = "running"
                       /\ callPc'[o] = "idle" <=> callPc[o] = "idle"
                       /\ Active(o)' => Active(o)
  BY DEF TypeOK, Active
<1>3. \A t \in Calls : Running(t)' = Running(t)
  BY <1>2 DEF Running
<1>4. Counted'
  BY <1>1, <1>3 DEF Tree, Counted
<1>5. CallerRuns'
  <2> SUFFICES ASSUME NEW o \in Calls, Active(o)', frame[o].caller # None
               PROVE  callPc'[frame[o].caller] = "running" /\ frame[frame[o].caller].context = frame[o].context
    BY DEF CallerRuns
  <2>1. Active(o) /\ frame[o].caller \in Calls
    BY <1>2 DEF TypeOK, Frame, Active
  <2> QED BY <1>2, <2>1 DEF Tree, CallerRuns
<1>6. RootsOnTop' /\ OneOnTop' /\ HeldMeanwhile'
  BY <1>2 DEF Tree, RootsOnTop, OneOnTop, HeldMeanwhile
<1>7. HeldByOne'
  BY <1>2 DEF Tree, HeldByOne
<1>8. CallersFirst'
  <2>1. PICK rank \in [Calls -> Nat] : Ranks(rank)
    BY DEF Tree, CallersFirst
  <2>2. \A o \in Calls : callPc'[o] # "idle" /\ frame[o].caller # None => frame[o].caller \in Calls
    BY <1>2 DEF TypeOK, Frame
  <2>3. Ranks(rank)'
    BY <1>2, <2>1, <2>2 DEF Ranks
  <2> QED BY <2>3 DEF CallersFirst
<1> QED BY <1>4, <1>5, <1>6, <1>7, <1>8 DEF Tree

\* A method is over: its call leaves the stack, and a root goes on to end the transaction.
LEMMA MethodEnds ==
  ASSUME TypeOK, Tree, NEW c \in Calls, callPc[c] = "running",
         \A o \in CalledBy(c) : callPc[o] = "done",
         NEW pc \in CallPcs \ {"idle", "running"}, callPc' = [callPc EXCEPT ![c] = pc],
         pc = "done" \/ frame[c].isRoot,
         UNCHANGED <<currentTransaction, frame>>, callStack' = Popped(frame[c].transaction)
  PROVE  Tree'
<1> DEFINE t == frame[c].transaction
<1>1. Active(c) /\ t \in Calls
  BY DEF TypeOK, Frame, Active
<1>2. \A o \in Calls : /\ callPc'[o] = "running" <=> (callPc[o] = "running" /\ o # c)
                       /\ callPc'[o] = "idle" <=> callPc[o] = "idle"
                       /\ Active(o)' => Active(o)
                       /\ o # c => callPc'[o] = callPc[o]
  BY <1>1 DEF TypeOK, Active
<1>3. \A o \in Calls : Active(o) => frame[o].caller # c
  BY DEF CalledBy, Active
<1>4. Counted'
  <2>1. Running(t)' = Running(t) \ {c} /\ c \in Running(t)
    BY <1>2 DEF Running
  <2>2. \A u \in Calls : u # t => Running(u)' = Running(u)
    BY <1>2 DEF Running
  <2>3. IsFiniteSet(Running(t)) /\ callStack[t] = Cardinality(Running(t)) /\ callStack[t] \in Nat
    BY <1>1 DEF Tree, Counted, TypeOK
  <2>4. IsFiniteSet(Running(t) \ {c}) /\ Cardinality(Running(t) \ {c}) = callStack[t] - 1
    BY <2>1, <2>3, FS_RemoveElement
  <2>5. callStack[t] # 0
    BY <2>1, <2>3, FS_EmptySet
  <2>6. callStack'[t] = callStack[t] - 1 /\ \A u \in Calls : u # t => callStack'[u] = callStack[u]
    BY <1>1, <2>5 DEF Popped, TypeOK
  <2>7. IsFiniteSet(Running(t)') /\ Cardinality(Running(t)') = callStack'[t]
    BY <2>1, <2>4, <2>6
  <2> QED BY <2>2, <2>6, <2>7 DEF Tree, Counted
<1>5. CallerRuns'
  <2> SUFFICES ASSUME NEW o \in Calls, Active(o)', frame[o].caller # None
               PROVE  callPc'[frame[o].caller] = "running" /\ frame[frame[o].caller].context = frame[o].context
    BY DEF CallerRuns
  <2>1. Active(o) /\ frame[o].caller \in Calls /\ frame[o].caller # c
    BY <1>2, <1>3 DEF TypeOK, Frame, Active
  <2> QED BY <1>2, <2>1 DEF Tree, CallerRuns
<1>6. RootsOnTop'
  <2> SUFFICES ASSUME NEW o \in Calls, Active(o)'
               PROVE  /\ frame[o].isRoot => frame[o].caller = None
                      /\ callPc'[o] # "running" => frame[o].isRoot
    BY DEF RootsOnTop
  <2>1. CASE o = c
    BY <1>1, <1>2, <2>1 DEF Tree, RootsOnTop, Active, TypeOK
  <2>2. CASE o # c
    BY <1>2, <2>2 DEF Tree, RootsOnTop
  <2> QED BY <2>1, <2>2
<1>7. OneOnTop' /\ HeldMeanwhile' /\ HeldByOne'
  BY <1>2 DEF Tree, OneOnTop, HeldMeanwhile, HeldByOne
<1>8. CallersFirst'
  <2>1. PICK rank \in [Calls -> Nat] : Ranks(rank)
    BY DEF Tree, CallersFirst
  <2>2. \A o \in Calls : callPc'[o] # "idle" /\ frame[o].caller # None => frame[o].caller \in Calls
    BY <1>2 DEF TypeOK, Frame
  <2>3. Ranks(rank)'
    BY <1>2, <2>1, <2>2 DEF Ranks
  <2> QED BY <2>3 DEF CallersFirst
<1> QED BY <1>4, <1>5, <1>6, <1>7, <1>8 DEF Tree

\* Every connection released, the context lets go of the transaction; the root that ends was alone in it.
LEMMA ContextCleared ==
  ASSUME TypeOK, Tree, NEW c \in Calls, ReleaseClient(c)
  PROVE  Tree'
<1>1. /\ callPc' = [callPc EXCEPT ![c] = "done"] /\ callPc[c] = "releasing"
      /\ currentTransaction' = [currentTransaction EXCEPT ![frame[c].context] = None]
      /\ UNCHANGED <<callStack, frame>>
  BY DEF ReleaseClient, Cleared
<1>2. Active(c) /\ frame[c].context \in Contexts
  BY <1>1 DEF TypeOK, Frame, Active
<1>3. \A b \in Calls : Active(b) /\ frame[b].context = frame[c].context => b = c
  BY <1>1, <1>2, NothingRuns
<1>4. \A o \in Calls : /\ callPc'[o] = "running" <=> callPc[o] = "running"
                       /\ callPc'[o] = "idle" <=> callPc[o] = "idle"
                       /\ Active(o)' <=> Active(o) /\ o # c
  BY <1>1 DEF TypeOK, Active
<1>5. \A t \in Calls : Running(t)' = Running(t)
  BY <1>1, <1>4 DEF Running
<1>6. Counted'
  BY <1>1, <1>5 DEF Tree, Counted
<1>7. CallerRuns'
  <2> SUFFICES ASSUME NEW o \in Calls, Active(o)', frame[o].caller # None
               PROVE  callPc'[frame[o].caller] = "running" /\ frame[frame[o].caller].context = frame[o].context
    BY <1>1 DEF CallerRuns
  <2>1. Active(o) /\ frame[o].caller \in Calls
    BY <1>4 DEF TypeOK, Frame, Active
  <2> QED BY <1>4, <2>1 DEF Tree, CallerRuns
<1>8. RootsOnTop' /\ OneOnTop'
  BY <1>1, <1>4 DEF Tree, RootsOnTop, OneOnTop, TypeOK
<1>9. HeldMeanwhile'
  <2> SUFFICES ASSUME NEW o \in Calls, Active(o)'
               PROVE  currentTransaction'[frame[o].context] = frame[o].transaction
    BY <1>1 DEF HeldMeanwhile
  <2>1. Active(o) /\ frame[o].context # frame[c].context /\ frame[o].context \in Contexts
    BY <1>3, <1>4 DEF TypeOK, Frame, Active
  <2> QED BY <1>1, <2>1 DEF Tree, HeldMeanwhile, TypeOK
<1>10. HeldByOne'
  <2>1. \A x \in Contexts, t \in Calls : currentTransaction'[x] = t => currentTransaction[x] = t
    BY <1>1, <1>2, ConstantsAssumption DEF TypeOK
  <2> QED BY <1>1, <1>4, <2>1 DEF Tree, HeldByOne
<1>11. CallersFirst'
  <2>1. PICK rank \in [Calls -> Nat] : Ranks(rank)
    BY DEF Tree, CallersFirst
  <2>2. \A o \in Calls : callPc'[o] # "idle" /\ frame[o].caller # None => frame[o].caller \in Calls
    BY <1>4 DEF TypeOK, Frame
  <2>3. Ranks(rank)'
    BY <1>1, <1>4, <2>1, <2>2 DEF Ranks
  <2> QED BY <2>3 DEF CallersFirst
<1> QED BY <1>6, <1>7, <1>8, <1>9, <1>10, <1>11 DEF Tree

\* A call begins: under a running one it finds the stack counted, and on top of a context it finds no other.
LEMMA CallBegins ==
  ASSUME Structured, TypeOK, Tree, NEW c \in Calls, NEW x \in Contexts, NEW p \in Calls \cup {None},
         RunInTransaction(c, x, p)
  PROVE  Tree'
<1>0. PICK t \in Calls : t = IF currentTransaction[x] = None THEN c ELSE currentTransaction[x]
  BY DEF TypeOK
<1> DEFINE f == [context |-> x, transaction |-> t, caller |-> p, isRoot |-> IsRoot(t)]
<1>1. /\ callPc[c] = "idle" /\ callPc' = [callPc EXCEPT ![c] = "running"]
      /\ frame' = [frame EXCEPT ![c] = f]
      /\ currentTransaction' = [currentTransaction EXCEPT ![x] = t]
      /\ callStack' = [callStack EXCEPT ![t] = @ + 1]
      /\ p = None => \A o \in Calls : Active(o) => frame[o].context # x
      /\ p # None => callPc[p] = "running" /\ frame[p].context = x
  BY <1>0 DEF RunInTransaction, Structured
<1>2. t \in Calls /\ (p # None => p \in Calls /\ p # c) /\ ~Active(c)
  BY <1>1 DEF TypeOK, Active
<1>3. \A o \in Calls : /\ o # c => frame'[o] = frame[o] /\ callPc'[o] = callPc[o] /\ (Active(o)' <=> Active(o))
                       /\ o = c => frame'[o] = f /\ callPc'[o] = "running"
  BY <1>1 DEF TypeOK, Active
<1>4. f.context = x /\ f.transaction = t /\ f.caller = p /\ f.isRoot = IsRoot(t)
  OBVIOUS
<1> HIDE DEF f
<1>5. \A o \in Calls : Active(o) /\ frame[o].context = x => frame[o].transaction = t
  <2> SUFFICES ASSUME NEW o \in Calls, Active(o), frame[o].context = x PROVE frame[o].transaction = t
    OBVIOUS
  <2>1. currentTransaction[x] = frame[o].transaction /\ frame[o].transaction \in Calls
    BY DEF Tree, HeldMeanwhile, TypeOK, Frame, Active
  <2> QED BY <1>0, <2>1, ConstantsAssumption
<1>6. p # None => Active(p) /\ frame[p].transaction = t
  BY <1>1, <1>2, <1>5 DEF Active
<1>7. Counted'
  <2>1. Running(t)' = Running(t) \cup {c} /\ c \notin Running(t)
    BY <1>1, <1>3, <1>4 DEF Running
  <2>2. \A u \in Calls : u # t => Running(u)' = Running(u)
    BY <1>1, <1>3, <1>4 DEF Running
  <2>3. IsFiniteSet(Running(t)) /\ callStack[t] = Cardinality(Running(t))
    BY <1>2 DEF Tree, Counted
  <2>4. IsFiniteSet(Running(t) \cup {c}) /\ Cardinality(Running(t) \cup {c}) = callStack[t] + 1
    BY <2>1, <2>3, FS_AddElement
  <2>5. callStack'[t] = callStack[t] + 1 /\ \A u \in Calls : u # t => callStack'[u] = callStack[u]
    BY <1>1, <1>2 DEF TypeOK
  <2>6. IsFiniteSet(Running(t)') /\ Cardinality(Running(t)') = callStack'[t]
    BY <2>1, <2>4, <2>5
  <2> QED BY <2>2, <2>5, <2>6 DEF Tree, Counted
<1>8. p # None => ~IsRoot(t)
  <2> SUFFICES ASSUME p # None PROVE callStack[t] # 0
    BY DEF IsRoot
  <2>1. p \in Running(t)
    BY <1>1, <1>2, <1>6 DEF Running
  <2> QED BY <1>2, <2>1, FS_EmptySet DEF Tree, Counted
<1>9. CallerRuns'
  <2> SUFFICES ASSUME NEW o \in Calls, Active(o)', frame'[o].caller # None
               PROVE  callPc'[frame'[o].caller] = "running" /\ frame'[frame'[o].caller].context = frame'[o].context
    BY DEF CallerRuns
  <2>1. CASE o = c
    BY <1>1, <1>2, <1>3, <1>4, <2>1
  <2>2. CASE o # c
    <3>1. Active(o) /\ frame[o].caller \in Calls /\ callPc[frame[o].caller] = "running"
          /\ frame[frame[o].caller].context = frame[o].context
      BY <1>3, <2>2 DEF TypeOK, Frame, Active, Tree, CallerRuns
    <3> QED BY <1>1, <1>3, <2>2, <3>1
  <2> QED BY <2>1, <2>2
<1>10. RootsOnTop'
  <2> SUFFICES ASSUME NEW o \in Calls, Active(o)'
               PROVE  /\ frame'[o].isRoot => frame'[o].caller = None
                      /\ callPc'[o] # "running" => frame'[o].isRoot
    BY DEF RootsOnTop
  <2>1. CASE o = c
    BY <1>3, <1>4, <1>8, <2>1
  <2>2. CASE o # c
    BY <1>3, <2>2 DEF Tree, RootsOnTop
  <2> QED BY <2>1, <2>2
<1>11. OneOnTop'
  <2> SUFFICES ASSUME NEW b \in Calls, NEW o \in Calls, Active(b)', Active(o)',
                      frame'[b].context = frame'[o].context, frame'[b].caller = None, frame'[o].caller = None,
                      b # o
               PROVE  FALSE
    BY DEF OneOnTop
  <2>1. CASE b = c
    BY <1>1, <1>3, <1>4, <2>1
  <2>2. CASE o = c
    BY <1>1, <1>3, <1>4, <2>2
  <2>3. CASE b # c /\ o # c
    BY <1>3, <2>3 DEF Tree, OneOnTop
  <2> QED BY <2>1, <2>2, <2>3
<1>12. HeldMeanwhile'
  <2> SUFFICES ASSUME NEW o \in Calls, Active(o)'
               PROVE  currentTransaction'[frame'[o].context] = frame'[o].transaction
    BY DEF HeldMeanwhile
  <2>1. CASE o = c
    BY <1>1, <1>3, <1>4, <2>1 DEF TypeOK
  <2>2. CASE o # c
    <3>1. Active(o) /\ frame[o].context \in Contexts /\ frame'[o] = frame[o]
          /\ currentTransaction[frame[o].context] = frame[o].transaction
      BY <1>3, <2>2 DEF TypeOK, Frame, Active, Tree, HeldMeanwhile
    <3> QED BY <1>1, <1>5, <3>1 DEF TypeOK
  <2> QED BY <2>1, <2>2
<1>13. HeldByOne'
  <2> SUFFICES ASSUME NEW y \in Contexts, NEW u \in Calls, currentTransaction'[y] = u
               PROVE  callPc'[u] # "idle" /\ frame'[u].context = y
    BY DEF HeldByOne
  <2>1. CASE currentTransaction[y] = u
    <3>1. callPc[u] # "idle" /\ frame[u].context = y
      BY <2>1 DEF Tree, HeldByOne
    <3> QED BY <1>1, <1>3, <3>1
  <2>2. CASE currentTransaction[y] # u
    <3>1. y = x /\ u = t
      BY <1>1, <2>2 DEF TypeOK
    <3>2. u = c
      BY <1>0, <2>2, <3>1
    <3> QED BY <1>3, <1>4, <3>1, <3>2
  <2> QED BY <2>1, <2>2
<1>14. CallersFirst'
  <2>1. PICK rank \in [Calls -> Nat] : Ranks(rank)
    BY DEF Tree, CallersFirst
  <2> DEFINE r == [rank EXCEPT ![c] = IF p = None THEN 0 ELSE rank[p] + 1]
  <2>2. r \in [Calls -> Nat] /\ (p # None => rank[p] < r[c]) /\ \A o \in Calls : o # c => r[o] = rank[o]
    BY <1>2
  <2> HIDE DEF r
  <2>3. ASSUME NEW o \in Calls, callPc'[o] # "idle", frame'[o].caller # None
        PROVE  callPc'[frame'[o].caller] # "idle" /\ r[frame'[o].caller] < r[o]
    <3>1. CASE o = c
      <4>1. frame'[o].caller = p /\ p # None
        BY <1>3, <1>4, <2>3, <3>1
      <4>2. p \in Calls /\ callPc'[p] = "running" /\ r[p] = rank[p] /\ r[p] < r[o]
        BY <1>1, <1>2, <1>3, <2>2, <3>1, <4>1
      <4> QED BY <4>1, <4>2
    <3>2. CASE o # c
      <4>1. callPc[o] # "idle" /\ frame'[o] = frame[o] /\ frame[o].caller \in Calls
        BY <1>3, <2>3, <3>2 DEF TypeOK, Frame
      <4>2. callPc[frame[o].caller] # "idle" /\ rank[frame[o].caller] < rank[o]
        BY <2>1, <2>3, <4>1 DEF Ranks
      <4> QED BY <1>1, <1>3, <2>2, <3>2, <4>1, <4>2
    <3> QED BY <3>1, <3>2
  <2> QED BY <2>2, <2>3 DEF CallersFirst, Ranks
<1> QED BY <1>7, <1>9, <1>10, <1>11, <1>12, <1>13, <1>14 DEF Tree

-----------------------------------------------------------------------------
(* Every step is one of these.                                              *)

MovesCall(c) ==
  \E pc \in CallPcs \ {"idle", "running"} :
    /\ callPc' = [callPc EXCEPT ![c] = pc]
    /\ UNCHANGED <<currentTransaction, frame>>
    /\ callPc[c] = "running" => (pc = "done" \/ frame[c].isRoot) /\ callStack' = Popped(frame[c].transaction)
    /\ callStack' = callStack \/ callStack' = Popped(frame[c].transaction)

\* popContextWithError moves the call on its way, whether it was still running or on its way out.
LEMMA UnwindMoves ==
  ASSUME NEW c \in Calls, NEW rest, Unwind(c, rest), UNCHANGED <<currentTransaction, frame>>
  PROVE  MovesCall(c)
BY DEF Unwind, MovesCall, CallPcs

LEMMA EndFailsMoves ==
  ASSUME NEW c \in Calls, NEW rest, EndFails(c, rest), callPc[c] # "running", UNCHANGED <<currentTransaction, frame>>
  PROVE  MovesCall(c)
<1>1. CASE outcome[c] = "threw"
  BY <1>1 DEF EndFails, MovesCall, CallPcs
<1>2. CASE outcome[c] # "threw"
  BY <1>2, UnwindMoves DEF EndFails
<1> QED BY <1>1, <1>2

LEMMA MoveKeepsTree ==
  ASSUME Structured, TypeOK, Tree, NEW c \in Calls, Active(c), MovesCall(c), callPc[c] = "running" => Awaited(c)
  PROVE  Tree'
<1>1. PICK pc \in CallPcs \ {"idle", "running"} :
        /\ callPc' = [callPc EXCEPT ![c] = pc]
        /\ UNCHANGED <<currentTransaction, frame>>
        /\ callPc[c] = "running" => (pc = "done" \/ frame[c].isRoot) /\ callStack' = Popped(frame[c].transaction)
        /\ callStack' = callStack \/ callStack' = Popped(frame[c].transaction)
  BY DEF MovesCall
<1>2. CASE callPc[c] = "running"
  BY <1>1, <1>2, MethodEnds DEF Awaited, Structured
<1>3. CASE callPc[c] # "running"
  BY <1>1, <1>3, MovesOn
<1> QED BY <1>2, <1>3

LEMMA CallKeepsTree ==
  ASSUME Structured, TypeOK, Tree, NEW c \in Calls, CallStep(c)
  PROVE  Tree'
<1>1. CASE \E x \in Contexts, p \in Calls \cup {None} : RunInTransaction(c, x, p)
  BY <1>1, CallBegins
<1>2. CASE MarkAsRollback(c)
  BY <1>2, TreeKept DEF MarkAsRollback, callVars
<1>3. CASE Throw(c)
  <2>1. Active(c) /\ Awaited(c) /\ MovesCall(c)
    BY <1>3, UnwindMoves DEF Throw, Active
  <2> QED BY <2>1, MoveKeepsTree
<1>4. CASE PopContext(c)
  <2>1. Active(c) /\ Awaited(c) /\ MovesCall(c)
    BY <1>4 DEF PopContext, Active, MovesCall, CallPcs
  <2> QED BY <2>1, MoveKeepsTree
<1>5. CASE CloseCursors(c) \/ Release(c)
  <2>1. Active(c) /\ callPc[c] # "running" /\ MovesCall(c)
    BY <1>5 DEF CloseCursors, Release, Active, MovesCall, CallPcs, ctxVars
  <2> QED BY <2>1, MoveKeepsTree
<1>6. CASE CloseCursorsFails(c)
  <2>1. Active(c) /\ callPc[c] # "running" /\ MovesCall(c)
    BY <1>6, UnwindMoves DEF CloseCursorsFails, Active
  <2> QED BY <2>1, MoveKeepsTree
<1>7. CASE ReleaseClient(c)
  BY <1>7, ContextCleared
<1> QED BY <1>1, <1>2, <1>3, <1>4, <1>5, <1>6, <1>7 DEF CallStep

LEMMA AnswerKeepsTree ==
  ASSUME Structured, TypeOK, Tree, NEW c \in Calls, NEW k \in Statements, AnswerStep(c, k)
  PROVE  Tree'
<1>1. CASE UNCHANGED <<currentTransaction, callStack, callPc, frame>>
  BY <1>1, TreeKept
<1>2. CASE CommitFails(c, k) /\ callPc[c] = "committing"
  <2>1. Active(c) /\ callPc[c] # "running" /\ MovesCall(c)
    BY <1>2, UnwindMoves DEF CommitFails, Active
  <2> QED BY <2>1, MoveKeepsTree
<1>3. CASE RollbackFails(c, k) /\ callPc[c] = "rollingBack"
  <2>1. Active(c) /\ callPc[c] # "running" /\ MovesCall(c)
    BY <1>3, EndFailsMoves DEF RollbackFails, Active
  <2> QED BY <2>1, MoveKeepsTree
<1>4. CASE ReleaseFails(c, k) /\ callPc[c] = "releasing"
  <2>1. Active(c) /\ callPc[c] # "running" /\ MovesCall(c)
    BY <1>4, EndFailsMoves DEF ReleaseFails, Active
  <2> QED BY <2>1, MoveKeepsTree
<1> QED
  BY <1>1, <1>2, <1>3, <1>4
  DEF AnswerStep, CommitAccepted, CommitFails, RollbackAccepted, RollbackFails, ReleaseAccepted, ReleaseFails, ctxVars

LEMMA StatementKeepsTree ==
  ASSUME TypeOK, Tree, NEW s \in Statements, StatementStep(s)
  PROVE  Tree'
<1>1. UNCHANGED <<currentTransaction, callStack, callPc, frame>>
  BY DEF StatementStep, Issue, Acquire, Connected, ConnectFails, Began, BeginFails, RunOnItsOwn, Executed,
         StatementFails, ReadToEnd, Break, ctxVars, callVars
<1> QED BY <1>1, TreeKept

\* The calls under way in a context form a tree, and the call stack counts those that run.
THEOREM CallsFormATree ==
  ASSUME Structured
  PROVE  Spec => []Tree
<1>1. TypeOK /\ Tree /\ [Next]_vars => Tree'
  <2> SUFFICES ASSUME TypeOK, Tree, [Next]_vars PROVE Tree'
    OBVIOUS
  <2>1. CASE \E c \in Calls : CallStep(c)
    BY <2>1, CallKeepsTree
  <2>2. CASE \E c \in Calls, k \in Statements : AnswerStep(c, k)
    BY <2>2, AnswerKeepsTree
  <2>3. CASE \E s \in Statements : StatementStep(s)
    BY <2>3, StatementKeepsTree
  <2>4. CASE UNCHANGED vars
    BY <2>4, TreeKept DEF vars, ctxVars, callVars
  <2> QED BY <2>1, <2>2, <2>3, <2>4 DEF Next, Stop
<1> QED BY TreeAtFirst, TypeCorrect, <1>1, PTL DEF Spec

\* Where methods await what they start and a context runs one of them at a time, no two calls take it on themselves to end
\* one transaction at the same time, whatever fails.
THEOREM OneRootEndsIt ==
  ASSUME Structured
  PROVE  Spec => []OneRootAtATime
<1>1. TypeOK /\ Tree => OneRootAtATime
  <2> SUFFICES ASSUME TypeOK, Tree, NEW t \in Calls, NEW b \in Calls, NEW c \in Calls,
                      Root(b, t), Active(b), Root(c, t), Active(c)
               PROVE  b = c
    BY DEF OneRootAtATime
  <2>1. frame[b].caller = None /\ frame[c].caller = None
    BY DEF Root, Tree, RootsOnTop
  <2>2. frame[b].context = frame[c].context
    BY OneContext DEF Root
  <2> QED BY <2>1, <2>2 DEF Tree, OneOnTop
<1> QED BY CallsFormATree, TypeCorrect, <1>1, PTL

-----------------------------------------------------------------------------
(* The transaction a statement is sent in.                                  *)

\* A call that has begun stays begun, and keeps its frame.
LEMMA BegunStays ==
  ASSUME TypeOK, [Next]_vars, NEW o \in Calls, callPc[o] # "idle"
  PROVE  callPc'[o] # "idle" /\ frame'[o] = frame[o]
<1>1. ASSUME NEW c \in Calls, NEW rest, Unwind(c, rest) \/ EndFails(c, rest)
      PROVE  callPc'[o] # "idle"
  BY <1>1 DEF Unwind, EndFails, TypeOK
<1>2. ASSUME NEW c \in Calls, CallStep(c)
      PROVE  callPc'[o] # "idle" /\ frame'[o] = frame[o]
  <2>1. CASE \E x \in Contexts, p \in Calls \cup {None} : RunInTransaction(c, x, p)
    BY <2>1 DEF RunInTransaction, TypeOK
  <2>2. CASE Throw(c) \/ CloseCursorsFails(c)
    BY <1>1, <2>2 DEF Throw, CloseCursorsFails
  <2>3. CASE MarkAsRollback(c) \/ PopContext(c) \/ CloseCursors(c) \/ Release(c) \/ ReleaseClient(c)
    BY <2>3 DEF MarkAsRollback, PopContext, CloseCursors, Release, ReleaseClient, callVars, TypeOK
  <2> QED BY <1>2, <2>1, <2>2, <2>3 DEF CallStep
<1>3. ASSUME NEW c \in Calls, NEW k \in Statements, AnswerStep(c, k)
      PROVE  callPc'[o] # "idle" /\ frame'[o] = frame[o]
  <2>1. frame' = frame
    BY <1>3 DEF AnswerStep, CommitAccepted, CommitFails, RollbackAccepted, RollbackFails, ReleaseAccepted, ReleaseFails
  <2>2. callPc' = callPc \/ \E rest : Unwind(c, rest) \/ EndFails(c, rest)
    BY <1>3 DEF AnswerStep, CommitAccepted, CommitFails, RollbackAccepted, RollbackFails, ReleaseAccepted, ReleaseFails
  <2> QED BY <1>1, <2>1, <2>2
<1>4. ASSUME NEW s \in Statements, StatementStep(s)
      PROVE  callPc' = callPc /\ frame' = frame
  BY <1>4 DEF StatementStep, Issue, Acquire, Connected, ConnectFails, Began, BeginFails, RunOnItsOwn, Executed,
              StatementFails, ReadToEnd, Break, callVars
<1>5. CASE UNCHANGED vars
  BY <1>5 DEF vars, callVars
<1> QED BY <1>2, <1>3, <1>4, <1>5 DEF Next, Stop

\* What was sent was sent by a call that has begun, in the transaction it runs in.
SentByACall == \A s \in Statements : stmtPc[s] # "unused" => callPc[stmt[s].caller] # "idle"
Sent == SentByACall /\ SentToItsTransaction

\* A statement sent stays as it was sent.
LEMMA SentStays ==
  ASSUME TypeOK, Sent, [Next]_vars, NEW s \in Statements, stmtPc[s] # "unused", stmt'[s] = stmt[s]
  PROVE  callPc'[stmt'[s].caller] # "idle" /\ stmt'[s].transaction = frame'[stmt'[s].caller].transaction
<1>1. stmt[s].caller \in Calls
  BY DEF TypeOK, StatementOK, Issued
<1> QED BY <1>1, BegunStays DEF Sent, SentByACall, SentToItsTransaction

\* Only Issue sends one.
LEMMA OnlyIssueSends ==
  ASSUME TypeOK, [Next]_vars, NEW s \in Statements
  PROVE  \/ stmt'[s] = stmt[s] /\ (stmtPc'[s] # "unused" => stmtPc[s] # "unused")
         \/ \E c \in Calls, d \in Databases, cursor \in BOOLEAN : Issue(s, c, d, cursor)
<1>1. ASSUME NEW c \in Calls, CallStep(c)
      PROVE  stmt' = stmt /\ (stmtPc'[s] # "unused" => stmtPc[s] # "unused")
  BY <1>1 DEF CallStep, RunInTransaction, MarkAsRollback, Throw, PopContext, CloseCursors, Close, CloseCursorsFails,
              Release, ReleaseClient, stmtVars, TypeOK
<1>2. ASSUME NEW c \in Calls, NEW k \in Statements, AnswerStep(c, k)
      PROVE  stmt' = stmt /\ (stmtPc'[s] # "unused" => stmtPc[s] # "unused")
  BY <1>2 DEF AnswerStep, CommitAccepted, CommitFails, RollbackAccepted, RollbackFails, ReleaseAccepted, Close,
              ReleaseFails, stmtVars, TypeOK
<1>3. ASSUME NEW u \in Statements, StatementStep(u),
             ~ \E c \in Calls, d \in Databases, cursor \in BOOLEAN : Issue(s, c, d, cursor)
      PROVE  stmt'[s] = stmt[s] /\ (stmtPc'[s] # "unused" => stmtPc[s] # "unused")
  <2>1. CASE \E c \in Calls, d \in Databases, cursor \in BOOLEAN : Issue(u, c, d, cursor)
    BY <1>3, <2>1 DEF Issue, TypeOK
  <2>2. CASE UNCHANGED <<stmt, stmtPc>>
    BY <2>2
  <2>3. CASE UNCHANGED stmt /\ stmtPc[u] # "unused" /\ \E pc \in StmtPcs : stmtPc' = [stmtPc EXCEPT ![u] = pc]
    BY <2>3 DEF TypeOK
  <2>4. ASSUME Acquire(u) \/ Connected(u) \/ ConnectFails(u) \/ Began(u)
        PROVE  UNCHANGED stmt /\ stmtPc[u] # "unused" /\ \E pc \in StmtPcs : stmtPc' = [stmtPc EXCEPT ![u] = pc]
    BY <2>4 DEF Acquire, Connected, ConnectFails, Began, StmtPcs
  <2>5. ASSUME BeginFails(u) \/ RunOnItsOwn(u) \/ Executed(u) \/ StatementFails(u) \/ ReadToEnd(u)
        PROVE  UNCHANGED stmt /\ stmtPc[u] # "unused" /\ \E pc \in StmtPcs : stmtPc' = [stmtPc EXCEPT ![u] = pc]
    BY <2>5 DEF BeginFails, RunOnItsOwn, Executed, StatementFails, ReadToEnd, StmtPcs
  <2>6. CASE Break(u)
    BY <2>6 DEF Break, stmtVars
  <2> QED BY <1>3, <2>1, <2>3, <2>4, <2>5, <2>6 DEF StatementStep
<1>4. CASE UNCHANGED vars
  BY <1>4 DEF vars, stmtVars
<1> QED BY <1>1, <1>2, <1>3, <1>4 DEF Next, Stop

\* What is sent is sent by a call that has begun, in the transaction that call runs in.
THEOREM CallsSend ==
  ASSUME Structured
  PROVE  Spec => []Sent
<1>1. Init => Sent
  BY DEF Init, Sent, SentByACall, SentToItsTransaction
<1>2. TypeOK /\ Tree /\ Sent /\ [Next]_vars => Sent'
  <2> SUFFICES ASSUME TypeOK, Tree, Sent, [Next]_vars, NEW s \in Statements, stmtPc'[s] # "unused"
               PROVE  callPc'[stmt'[s].caller] # "idle" /\ stmt'[s].transaction = frame'[stmt'[s].caller].transaction
    BY DEF Sent, SentByACall, SentToItsTransaction
  <2>1. CASE stmt'[s] = stmt[s] /\ stmtPc[s] # "unused"
    BY <2>1, SentStays
  <2>2. ASSUME NEW c \in Calls, NEW d \in Databases, NEW cursor \in BOOLEAN, Issue(s, c, d, cursor)
        PROVE  callPc'[stmt'[s].caller] # "idle" /\ stmt'[s].transaction = frame'[stmt'[s].caller].transaction
    <3>1. stmt'[s].caller = c /\ stmt'[s].transaction = currentTransaction[frame[c].context]
      BY <2>2 DEF Issue, TypeOK
    <3>2. callPc[c] = "running" /\ callPc' = callPc /\ frame' = frame
      BY <2>2 DEF Issue, callVars
    <3>3. currentTransaction[frame[c].context] = frame[c].transaction
      BY <3>2 DEF Tree, HeldMeanwhile, Active
    <3> QED BY <3>1, <3>2, <3>3
  <2> QED BY <2>1, <2>2, OnlyIssueSends
<1> QED BY <1>1, <1>2, TypeCorrect, CallsFormATree, PTL DEF Spec

\* Where methods await what they start and a context runs one of them at a time, a statement is sent in the transaction
\* its method runs in: no method that ends takes it out of the context before.
THEOREM StatementsFindTheirTransaction ==
  ASSUME Structured
  PROVE  Spec => []SentToItsTransaction
<1>1. Sent => SentToItsTransaction
  BY DEF Sent
<1> QED BY <1>1, CallsSend, PTL
=============================================================================
