------------------------ MODULE StampedSavesProofs ------------------------
(***************************************************************************)
(* Proofs about StampedSaves, for any writers, nodes, properties and       *)
(* targets, and any bounds: its types, that a refused save was not         *)
(* applied, and, where a read takes a snapshot, that an object's stamp     *)
(* speaks true, so that no checked save loses what it did not load.        *)
(***************************************************************************)
EXTENDS StampedSaves, TLAPS

\* A writer with a statement under way, applied or turned away.
Pending(w) == pc[w] \in {"writing", "locking", "refused"}

-----------------------------------------------------------------------------
(* Types. *)

\* An update that loads again has an attempt left.
AgainHasAnAttempt == \A w \in Writers : pc[w] = "again" => attempt[w] \in 1..(Attempts - 1)

Types == TypeOK /\ AgainHasAnAttempt

LEMMA Bounds == Attempts \in Nat \ {0} /\ MaxStatements \in Nat \ {0} /\ MaxLost \in Nat
BY ConstantsAssumption

LEMMA TypesAtFirst == Init => Types
<1> SUFFICES ASSUME Init PROVE Types
  OBVIOUS
<1>1. node \in [Nodes -> Stored \cup {None}]
  BY Bounds DEF Init, Stored, Unstamped, Stamp, Tokens
<1>2. offered \in Tokens /\ lost \in 0..MaxLost
  BY Bounds DEF Init, Tokens
<1> QED BY Bounds, <1>1, <1>2 DEF Init, Types, TypeOK, AgainHasAnAttempt, Pcs

LEMMA RewrittenStored ==
  ASSUME NEW n \in Stored \cup {None}, NEW p \in Props, NEW k \in SUBSET Targets, NEW t \in Tokens
  PROVE  Rewritten(n, p, k, t) \in Stored
<1>1. [data |-> t, links |-> t] \in Stamp
  BY DEF Stamp
<1>2. ASSUME NEW s \in Stamp, NEW c \in BOOLEAN
      PROVE  restamp(s, c, t) \in Stamp /\ relink(s, c, t) \in Stamp
  BY <1>1 DEF restamp, relink, Stamp
<1>3. CASE n = None
  BY <1>1, <1>3 DEF Rewritten, Stored
<1>4. CASE n # None
  <2>1. n.stamp \in Stamp
    BY <1>4 DEF Stored
  <2>2. restamp(n.stamp, p # n.props, t) \in Stamp
    BY <2>1, <1>2
  <2>3. relink(restamp(n.stamp, p # n.props, t), k # n.links, t) \in Stamp
    BY <2>2, <1>2
  <2> QED BY <2>3, <1>4 DEF Rewritten, Stored
<1> QED BY <1>3, <1>4

LEMMA AfterStored ==
  ASSUME TypeOK, NEW w \in Writers, stmt[w] \in Statement, NEW n \in Stored \cup {None}
  PROVE  After(w, n) \in Stored
<1> DEFINE p == [f \in Fields |-> IF f \in stmt[w].writes THEN stmt[w].props[f] ELSE IF n = None THEN None ELSE n.props[f]]
           k == IF n = None \/ stmt[w].replace THEN stmt[w].links ELSE n.links \cup stmt[w].links
<1>1. p \in Props
  BY DEF Statement, Stored, Props
<1>2. k \in SUBSET Targets
  BY DEF Statement, Stored
<1>3. stmt[w].stamp \in Tokens
  BY DEF Statement
<1> HIDE DEF p, k
<1>4. Rewritten(n, p, k, stmt[w].stamp) \in Stored
  BY <1>1, <1>2, <1>3, RewrittenStored
<1> QED BY <1>4 DEF After, p, k

LEMMA HandedBackObject ==
  ASSUME TypeOK, NEW w \in Writers, stmt[w] \in Statement, object[w] \in Object,
         NEW found \in Stored \cup Object \cup {None}
  PROVE  HandedBack(w, found) \in Object
<1> DEFINE now == After(w, node[stmt[w].id])
<1>1. now \in Stored
  BY AfterStored DEF TypeOK, Statement
<1> HIDE DEF now
<1>2. now.stamp \in Stamp /\ now.props \in Props
  BY <1>1 DEF Stored
<1>3. handedBack(object[w].stamp, found, now.stamp) \in Stamp
  BY <1>2, Bounds DEF handedBack, Stamp, Object, Tokens, Unstamped
<1>4. [f \in Fields |-> IF found = None \/ f \in stmt[w].writes THEN now.props[f] ELSE object[w].props[f]] \in Props
  BY <1>2 DEF Props, Object
<1>5. (IF found = None \/ stmt[w].replace THEN stmt[w].links ELSE object[w].links \cup stmt[w].links) \in SUBSET Targets
  BY DEF Object, Statement
<1> QED BY <1>3, <1>4, <1>5 DEF HandedBack, Object, now

LEMMA ReadTypes ==
  ASSUME Types, NEW w \in Writers, NEW n \in Nodes, Read(w, n),
         NEW a \in 0..Attempts, attempt' \in {attempt, [attempt EXCEPT ![w] = a]}
  PROVE  Types'
<1> USE DEF Types, TypeOK
<1>1. UNCHANGED <<grammar, node, offered, lost, stmt>>
  BY DEF Read, storeVars
<1>2. attempt' \in [Writers -> 0..Attempts]
  OBVIOUS
<1>3. ASSUME NEW o \in Object \cup {None}, NEW q \in {"idle", "reading", "holding"},
             object' = [object EXCEPT ![w] = o], pc' = [pc EXCEPT ![w] = q],
             seen' = seen \/ (o = None /\ q = "reading" /\ seen' = [seen EXCEPT ![w] = AsRead(n)]),
             q = "reading" => AsRead(n) \in Object /\ seen' = [seen EXCEPT ![w] = AsRead(n)],
             q = "holding" => o \in Object
      PROVE  Types'
  <2>1. object' \in [Writers -> Object \cup {None}] /\ seen' \in [Writers -> Object \cup {None}]
    BY <1>3
  <2>2. pc' \in [Writers -> Pcs]
    BY <1>3 DEF Pcs
  <2>3. ASSUME NEW v \in Writers
        PROVE  /\ pc'[v] = "reading" => seen'[v] \in Object
               /\ pc'[v] \notin {"idle", "reading"} => object'[v] \in Object
               /\ pc'[v] \in {"writing", "locking", "refused"} => stmt'[v] \in Statement /\ stmt'[v].id = object'[v].id
               /\ pc'[v] = "again" => attempt'[v] \in 1..(Attempts - 1)
    <3>1. CASE v = w
      BY <1>3, <3>1
    <3>2. CASE v # w
      <4>1. pc'[v] = pc[v] /\ object'[v] = object[v] /\ seen'[v] = seen[v] /\ stmt'[v] = stmt[v] /\ attempt'[v] = attempt[v]
        BY <1>1, <1>3, <3>2
      <4> QED BY <4>1 DEF AgainHasAnAttempt
    <3> QED BY <3>1, <3>2
  <2> QED BY <1>1, <1>2, <2>1, <2>2, <2>3 DEF AgainHasAnAttempt
<1>4. CASE node[n] = None
  BY <1>3, <1>4 DEF Read
<1>5. CASE node[n] # None
  <2>1. AsRead(n) \in Object
    BY <1>5 DEF AsRead, Object, Stored
  <2>2. CASE ~readsWithoutSnapshot
    BY <1>3, <1>5, <2>1, <2>2 DEF Read, Hold
  <2>3. CASE readsWithoutSnapshot
    BY <1>3, <1>5, <2>1, <2>3 DEF Read
  <2> QED BY <2>2, <2>3
<1> QED BY <1>4, <1>5

LEMMA SendTypes ==
  ASSUME Types, NEW w \in Writers, NEW kind \in {"save", "create", "batch"}, NEW fs \in SUBSET Fields,
         NEW p \in Props, NEW k \in SUBSET Targets, NEW replace \in BOOLEAN, NEW compared \in BOOLEAN,
         Send(w, kind, fs, p, k, replace, compared)
  PROVE  Types'
<1> USE DEF Types, TypeOK
<1> DEFINE record == [kind |-> kind, id |-> object[w].id, writes |-> fs,
             props |-> [f \in Fields |-> IF f \in fs THEN p[f] ELSE None],
             links |-> k, replace |-> replace, compared |-> compared, stamp |-> offered', turned |-> FALSE]
<1>1. object[w] \in Object
  BY DEF Send
<1>2. offered' \in Tokens
  BY Bounds DEF Send, Tokens
<1>3. record \in Statement
  <2>1. [f \in Fields |-> IF f \in fs THEN p[f] ELSE None] \in Props
    BY DEF Props
  <2>2. object[w].id \in Nodes
    BY <1>1 DEF Object
  <2> QED BY <1>2, <2>1, <2>2 DEF Statement
<1>4. stmt' = [stmt EXCEPT ![w] = record] /\ pc' = [pc EXCEPT ![w] = "writing"]
      /\ UNCHANGED <<grammar, node, lost, object, seen, attempt>>
  BY DEF Send
<1>5. record.id = object[w].id
  OBVIOUS
<1> HIDE DEF record
<1> QED BY <1>1, <1>2, <1>3, <1>4, <1>5 DEF Pcs, AgainHasAnAttempt

\* A statement that ends, with what it leaves of the nodes, of its writer's object and of what was seen.
LEMMA EndTypes ==
  ASSUME Types, NEW w \in Writers, pc[w] \in {"writing", "locking", "refused", "holding"},
         Ends(w) \/ (TriesAgain(w) /\ MayTryAgain(w)),
         NEW o \in Object, object' \in {object, [object EXCEPT ![w] = o]},
         node' \in [Nodes -> Stored \cup {None}], lost' \in 0..MaxLost,
         seen' \in {seen, [seen EXCEPT ![w] = None]}, UNCHANGED <<grammar, offered>>
  PROVE  Types'
<1> USE DEF Types, TypeOK
<1>1. pc' \in [Writers -> Pcs] /\ stmt' \in [Writers -> Statement \cup {None}]
      /\ attempt' \in [Writers -> 0..Attempts]
  BY Bounds DEF Ends, TriesAgain, Pcs
<1>2. object' \in [Writers -> Object \cup {None}] /\ object'[w] \in Object
  OBVIOUS
<1>3. seen' \in [Writers -> Object \cup {None}]
  OBVIOUS
<1>4. ASSUME NEW v \in Writers
      PROVE  /\ pc'[v] = "reading" => seen'[v] \in Object
             /\ pc'[v] \notin {"idle", "reading"} => object'[v] \in Object
             /\ pc'[v] \in {"writing", "locking", "refused"} => stmt'[v] \in Statement /\ stmt'[v].id = object'[v].id
             /\ pc'[v] = "again" => attempt'[v] \in 1..(Attempts - 1)
  <2>1. CASE v = w
    BY <1>2, <2>1 DEF Ends, TriesAgain, MayTryAgain
  <2>2. CASE v # w
    BY <2>2 DEF Ends, TriesAgain, AgainHasAnAttempt
  <2> QED BY <2>1, <2>2
<1> QED BY <1>1, <1>2, <1>3, <1>4 DEF AgainHasAnAttempt

LEMMA StoreTypes ==
  ASSUME TypeOK, NEW w \in Writers, stmt[w] \in Statement, Store(w)
  PROVE  node' \in [Nodes -> Stored \cup {None}]
<1>1. After(w, node[stmt[w].id]) \in Stored
  BY AfterStored DEF TypeOK, Statement
<1> QED BY <1>1 DEF TypeOK, Store

LEMMA RewriteTypes ==
  ASSUME Types, NEW n \in Nodes, NEW p \in Props, NEW k \in SUBSET Targets, Rewrite(n, p, k)
  PROVE  Types'
<1> USE DEF Types, TypeOK
<1>1. offered' \in Tokens
  BY Bounds DEF Rewrite, Tokens
<1>2. Rewritten(node[n], p, k, offered') \in Stored
  BY <1>1, RewrittenStored
<1>3. node' \in [Nodes -> Stored \cup {None}]
  BY <1>2 DEF Rewrite
<1> QED BY <1>1, <1>3 DEF Rewrite, callVars, AgainHasAnAttempt

LEMMA SavesTypes ==
  ASSUME Types, NEW w \in Writers, Saves(w)
  PROVE  Types'
<1> PICK p \in Props, k \in SUBSET Targets :
      \/ \E only \in Parts, clear, replace, compared \in BOOLEAN : Save(w, p, k, only, clear, replace, compared)
      \/ SaveChange(w, p, k) \/ Create(w, p, k)
      \/ \E only \in Parts, clear \in BOOLEAN : SaveAll(w, p, only, clear)
  BY DEF Saves
<1>1. ASSUME NEW only \in Parts, NEW clear \in BOOLEAN PROVE Written(p, only, clear) \in SUBSET Fields
  BY DEF Written, Parts
<1>2. ASSUME NEW only \in Parts, NEW clear \in BOOLEAN, NEW replace \in BOOLEAN, NEW compared \in BOOLEAN,
             Save(w, p, k, only, clear, replace, compared)
      PROVE  Types'
  BY <1>1, <1>2, SendTypes DEF Save
<1>3. CASE SaveChange(w, p, k)
  <2> DEFINE fs == {f \in Fields : p[f] # object[w].props[f]}
             removes == ~(object[w].links \subseteq k)
  <2>1. fs \in SUBSET Fields /\ removes \in BOOLEAN /\ readsWithoutSnapshot \in BOOLEAN
    BY DEF readsWithoutSnapshot
  <2>2. Send(w, "save", fs, p, k, removes, readsWithoutSnapshot)
    BY <1>3 DEF SaveChange
  <2> HIDE DEF fs, removes
  <2> QED BY <2>1, <2>2, SendTypes
<1>4. CASE Create(w, p, k)
  <2>1. Written(p, Fields, FALSE) \in SUBSET Fields
    BY DEF Written
  <2> QED BY <1>4, <2>1, SendTypes DEF Create
<1>5. ASSUME NEW only \in Parts, NEW clear \in BOOLEAN, SaveAll(w, p, only, clear)
      PROVE  Types'
  BY <1>1, <1>5, SendTypes DEF SaveAll
<1> QED BY <1>2, <1>3, <1>4, <1>5

LEMMA ReadRestTypes ==
  ASSUME Types, NEW w \in Writers, ReadRest(w)
  PROVE  Types'
<1> USE DEF Types, TypeOK
<1> DEFINE first == seen[w]
           now == IF node[first.id] = None THEN first ELSE AsRead(first.id)
<1>1. pc[w] = "reading" /\ first \in Object
  BY DEF ReadRest
<1>2. now \in Object
  BY <1>1 DEF AsRead, Object, Stored
<1> HIDE DEF now
<1>3. PICK fs \in SUBSET Fields, k \in {first.links, now.links}, t \in {first.stamp, now.stamp} :
        Hold(w, [id |-> first.id, props |-> [f \in Fields |-> IF f \in fs THEN first.props[f] ELSE now.props[f]],
                 links |-> k, stamp |-> t])
  BY DEF ReadRest, now
<1> DEFINE o == [id |-> first.id, props |-> [f \in Fields |-> IF f \in fs THEN first.props[f] ELSE now.props[f]],
                 links |-> k, stamp |-> t]
<1>4. o \in Object
  <2>1. [f \in Fields |-> IF f \in fs THEN first.props[f] ELSE now.props[f]] \in Props
    BY <1>1, <1>2 DEF Object, Props
  <2> QED BY <2>1, <1>1, <1>2 DEF Object
<1>5. Hold(w, o)
  BY <1>3
<1>6. seen' = [seen EXCEPT ![w] = None] /\ UNCHANGED <<grammar, node, offered, lost, stmt, attempt>>
  BY DEF ReadRest, storeVars
<1> HIDE DEF o
<1> QED BY <1>1, <1>4, <1>5, <1>6 DEF Hold, Pcs, AgainHasAnAttempt

LEMMA NewTypes ==
  ASSUME Types, NEW w \in Writers, NEW n \in Nodes, New(w, n)
  PROVE  Types'
<1> USE DEF Types, TypeOK
<1> DEFINE o == [id |-> n, props |-> [f \in Fields |-> None], links |-> {}, stamp |-> Unstamped]
<1>1. o \in Object
  BY Bounds DEF Object, Props, Unstamped, Stamp, Tokens
<1>2. Hold(w, o) /\ UNCHANGED <<grammar, node, offered, lost, stmt, seen, attempt>> /\ attempt[w] = 0
  BY DEF New, storeVars, Between
<1> HIDE DEF o
<1> QED BY <1>1, <1>2 DEF Hold, Pcs, AgainHasAnAttempt

LEMMA BatchReadsTypes ==
  ASSUME Types, NEW w \in Writers, BatchReads(w)
  PROVE  Types'
<1> USE DEF Types, TypeOK
<1>1. pc[w] = "writing" /\ stmt[w] \in Statement
  BY DEF BatchReads
<1>2. node[stmt[w].id] # None => AsRead(stmt[w].id) \in Object
  BY <1>1 DEF AsRead, Object, Stored, Statement
<1> QED BY <1>1, <1>2 DEF BatchReads, Pcs, storeVars, AgainHasAnAttempt

LEMMA RunTypes ==
  ASSUME Types, NEW w \in Writers, BatchWrites(w) \/ Applied(w) \/ NoRow(w) \/ StaleObject(w)
  PROVE  Types'
<1>0. Pending(w) /\ stmt[w] \in Statement /\ object[w] \in Object /\ TypeOK /\ node \in [Nodes -> Stored \cup {None}]
      /\ seen[w] \in Object \cup {None} /\ lost \in 0..MaxLost
  BY DEF BatchWrites, Applied, NoRow, StaleObject, Types, TypeOK, Pending
<1>1. CASE BatchWrites(w)
  BY <1>0, <1>1, EndTypes, StoreTypes, HandedBackObject DEF BatchWrites, HandBack, Pending
<1>2. CASE Applied(w)
  <2>1. node[stmt[w].id] \in Stored \cup {None}
    BY <1>0 DEF Statement
  <2> QED BY <1>0, <1>2, <2>1, EndTypes, StoreTypes, HandedBackObject DEF Applied, HandBack, Pending
<1>3. CASE NoRow(w)
  <2>1. CASE Ends(w)
    BY <1>0, <1>3, <2>1, EndTypes DEF NoRow, Pending, storeVars
  <2>2. CASE pc' = [pc EXCEPT ![w] = "refused"] /\ UNCHANGED <<stmt, attempt>>
    BY <1>3, <2>2 DEF NoRow, storeVars, Types, TypeOK, Pcs, AgainHasAnAttempt
  <2> QED BY <1>3, <2>1, <2>2 DEF NoRow
<1>4. CASE StaleObject(w)
  BY <1>0, <1>4, EndTypes DEF StaleObject, Pending, storeVars
<1> QED BY <1>1, <1>2, <1>3, <1>4

LEMMA InterruptedTypes ==
  ASSUME Types, NEW w \in Writers, TurnedAway(w) \/ Lost(w) \/ ChangeThrows(w)
  PROVE  Types'
<1>0. pc[w] \in {"writing", "locking", "refused", "holding"} /\ object[w] \in Object /\ TypeOK
      /\ node \in [Nodes -> Stored \cup {None}] /\ lost \in 0..MaxLost
  BY DEF TurnedAway, Lost, ChangeThrows, Types, TypeOK
<1>1. CASE TurnedAway(w)
  <2>1. CASE Contended(w)
    BY <1>0, <1>1, <2>1, EndTypes DEF TurnedAway, Contended, storeVars
  <2>2. CASE pc' = [pc EXCEPT ![w] = "writing"] /\ stmt' = [stmt EXCEPT ![w].turned = TRUE] /\ UNCHANGED attempt
    <3>1. stmt[w] \in Statement /\ stmt[w].id = object[w].id
      BY <1>1 DEF TurnedAway, Types, TypeOK
    <3>2. [stmt[w] EXCEPT !.turned = TRUE] \in Statement /\ [stmt[w] EXCEPT !.turned = TRUE].id = stmt[w].id
      BY <3>1 DEF Statement
    <3>3. stmt' = [stmt EXCEPT ![w] = [stmt[w] EXCEPT !.turned = TRUE]]
      BY <2>2
    <3> QED BY ZenonT(40), <1>1, <2>2, <3>1, <3>2, <3>3 DEF TurnedAway, storeVars, Types, TypeOK, Pcs, AgainHasAnAttempt
  <2> QED BY <1>1, <2>1, <2>2 DEF TurnedAway
<1>2. CASE Lost(w)
  <2>1. node' \in [Nodes -> Stored \cup {None}]
    BY <1>0, <1>2, StoreTypes DEF Lost, Types, TypeOK
  <2>2. lost' \in 0..MaxLost
    BY <1>0, <1>2, Bounds DEF Lost
  <2> QED BY <1>0, <1>2, <2>1, <2>2, EndTypes DEF Lost, Contended
<1>3. CASE ChangeThrows(w)
  BY <1>0, <1>3, EndTypes DEF ChangeThrows, storeVars
<1> QED BY <1>1, <1>2, <1>3

LEMMA NextTypes == Types /\ [Next]_vars => Types'
<1> SUFFICES ASSUME Types, [Next]_vars PROVE Types'
  OBVIOUS
<1>1. ASSUME NEW w \in Writers, NEW n \in Nodes, Load(w, n) \/ Update(w, n)
      PROVE  Types'
  <2>1. Attempts \in Nat \ {0} /\ 0 \in 0..Attempts /\ 1 \in 0..Attempts
    BY Bounds
  <2> QED BY <1>1, <2>1, ReadTypes DEF Load, Update, LoadFor
<1>2. ASSUME NEW w \in Writers, LoadAgain(w)
      PROVE  Types'
  <2>1. object[w].id \in Nodes /\ attempt[w] + 1 \in 0..Attempts /\ 0 \in 0..Attempts
    BY <1>2, Bounds DEF LoadAgain, Types, TypeOK, AgainHasAnAttempt, Object
  <2> QED BY <1>2, <2>1, ReadTypes DEF LoadAgain, LoadFor
<1>3. ASSUME NEW n \in Nodes, NodeStep(n)
      PROVE  Types'
  <2>1. node[n] # None => node[n].props \in Props /\ node[n].links \in SUBSET Targets
    BY DEF Types, TypeOK, Stored
  <2>2. ASSUME NEW f \in Fields, NEW v \in Values \cup {None}, Patch(n, f, v)
        PROVE  Types'
    <3>1. [node[n].props EXCEPT ![f] = v] \in Props
      BY <2>1, <2>2 DEF Patch, Props
    <3> QED BY <2>1, <2>2, <3>1, RewriteTypes DEF Patch
  <2>3. ASSUME NEW t \in Targets, Relate(n, t) \/ Unrelate(n, t)
        PROVE  Types'
    BY <2>1, <2>3, RewriteTypes DEF Relate, Unrelate
  <2>4. CASE Delete(n)
    BY <2>4 DEF Delete, callVars, Types, TypeOK, AgainHasAnAttempt
  <2> QED BY <1>3, <2>2, <2>3, <2>4 DEF NodeStep
<1>4. CASE UNCHANGED vars
  BY <1>4 DEF vars, storeVars, callVars, Types, TypeOK, AgainHasAnAttempt, readsWithoutSnapshot
<1> QED BY <1>1, <1>2, <1>3, <1>4, ReadRestTypes, NewTypes, SavesTypes, BatchReadsTypes, RunTypes, InterruptedTypes
    DEF Next, WriterStep

\* Every variable holds a value of its kind, whatever the writers save and
\* however often they are turned away: no attempt passes its bound
\* (StatelessGraphObjectManager.ts:516-540).
THEOREM TypeCorrect == Spec => []TypeOK
<1>1. Types => TypeOK
  BY DEF Types
<1> QED BY TypesAtFirst, NextTypes, <1>1, PTL DEF Spec

-----------------------------------------------------------------------------
(* Tokens.  The stamp a statement offers is nowhere until it is applied:    *)
(* no other statement offers it, and no token is carried that was not       *)
(* offered.                                                                 *)

Carries(r, t) == r # None /\ t \in {r.stamp.data, r.stamp.links}
InUse(t) ==
  \/ \E n \in Nodes : Carries(node[n], t)
  \/ \E w \in Writers : Carries(object[w], t) \/ Carries(seen[w], t)

TokensAreOffered ==
  /\ \A t \in Tokens : InUse(t) => t <= offered
  /\ \A w \in Writers : Pending(w) => stmt[w].stamp \in 1..offered

PendingIsNew ==
  \A w \in Writers : Pending(w) =>
    /\ ~InUse(stmt[w].stamp)
    /\ \A v \in Writers : Pending(v) /\ v # w => stmt[v].stamp # stmt[w].stamp

Fresh == Types /\ TokensAreOffered /\ PendingIsNew

LEMMA RewrittenCarries ==
  ASSUME NEW n \in Stored \cup {None}, NEW p, NEW k, NEW t, NEW u,
         LET s == Rewritten(n, p, k, t).stamp IN u \in {s.data, s.links}
  PROVE  u = t \/ Carries(n, u)
<1>1. CASE n = None
  BY <1>1 DEF Carries, Rewritten
<1>2. CASE n # None
  <2>1. n.stamp \in Stamp
    BY <1>2 DEF Stored
  <2> QED BY <1>2, <2>1 DEF Carries, Rewritten, relink, restamp, Stamp
<1> QED BY <1>1, <1>2

\* What a statement hands back it, the object or the node carried.
LEMMA HandedBackCarries ==
  ASSUME TypeOK, NEW w \in Writers, stmt[w] \in Statement, object[w] \in Object, object[w] # None,
         NEW found \in Stored \cup Object \cup {None}, NEW u, Carries(HandedBack(w, found), u)
  PROVE  u \in {0, stmt[w].stamp} \/ Carries(object[w], u) \/ Carries(node[stmt[w].id], u)
<1> DEFINE now == After(w, node[stmt[w].id])
<1>1. node[stmt[w].id] \in Stored \cup {None}
  BY DEF TypeOK, Statement
<1>2. now \in Stored
  BY <1>1, AfterStored
<1>3. u \in {now.stamp.data, now.stamp.links} => u = stmt[w].stamp \/ Carries(node[stmt[w].id], u)
  BY SMTT(30), <1>1, RewrittenCarries DEF After
<1> HIDE DEF now
<1>4. HandedBack(w, found).stamp = handedBack(object[w].stamp, found, now.stamp)
  BY DEF HandedBack, now
<1>5. u \in {0, now.stamp.data, now.stamp.links, object[w].stamp.data, object[w].stamp.links}
  BY <1>2, <1>4 DEF Carries, handedBack, Stored, Object, Stamp, Unstamped
<1> QED BY <1>3, <1>5 DEF Carries

\* A step that uses the tokens of a set, none of them offered by a statement that goes on.
LEMMA TokensKept ==
  ASSUME Fresh, Types', offered <= offered', NEW used \in SUBSET Tokens,
         \A t \in used : t <= offered',
         \A t \in Tokens : InUse(t)' => InUse(t) \/ t = 0 \/ t \in used,
         \A w \in Writers : Pending(w)' => Pending(w) /\ stmt'[w].stamp = stmt[w].stamp /\ stmt[w].stamp \notin used
  PROVE  Fresh'
<1>1. offered \in Nat /\ offered' \in Nat
  BY Bounds DEF Fresh, Types, TypeOK, Tokens
<1>2. Tokens \subseteq Nat
  BY Bounds DEF Tokens
<1>3. TokensAreOffered'
  <2>1. ASSUME NEW t \in Tokens, InUse(t)' PROVE t <= offered'
    BY <1>1, <1>2, <2>1 DEF Fresh, TokensAreOffered
  <2>2. ASSUME NEW w \in Writers, Pending(w)' PROVE stmt'[w].stamp \in 1..offered'
    BY <1>1, <2>2 DEF Fresh, TokensAreOffered
  <2> QED BY <2>1, <2>2 DEF TokensAreOffered
<1>4. PendingIsNew'
  <2>1. ASSUME NEW w \in Writers, Pending(w)' PROVE ~InUse(stmt[w].stamp)'
    <3>1. stmt[w].stamp \in Tokens /\ stmt[w].stamp # 0 /\ ~InUse(stmt[w].stamp) /\ stmt[w].stamp \notin used
      BY <1>1, <2>1 DEF Fresh, TokensAreOffered, PendingIsNew, Types, TypeOK, Pending, Statement
    <3>2. stmt'[w].stamp = stmt[w].stamp
      BY <2>1
    <3> QED BY <3>1, <3>2 DEF InUse
  <2>2. ASSUME NEW w \in Writers, Pending(w)', NEW v \in Writers, Pending(v)', v # w
        PROVE  stmt'[v].stamp # stmt'[w].stamp
    BY <2>2 DEF Fresh, PendingIsNew
  <2> QED BY <2>1, <2>2 DEF PendingIsNew
<1> QED BY <1>3, <1>4 DEF Fresh

LEMMA FreshAtFirst == Init => Fresh
<1> SUFFICES ASSUME Init PROVE Fresh
  OBVIOUS
<1>1. \A w \in Writers : ~Pending(w)
  BY DEF Init, Pending
<1>2. ASSUME NEW t \in Tokens, InUse(t) PROVE t <= offered
  BY <1>2 DEF Init, InUse, Carries, Unstamped
<1> QED BY <1>1, <1>2, TypesAtFirst DEF Fresh, TokensAreOffered, PendingIsNew

\* A writer reads: what it holds carries the tokens of what it read.
LEMMA HeldIsFresh ==
  ASSUME Fresh, Types', NEW w \in Writers, ~Pending(w), ~Pending(w)',
         \A t \in Tokens : Carries(object'[w], t) \/ Carries(seen'[w], t) => InUse(t) \/ t = 0,
         \A v \in Writers \ {w} : object'[v] = object[v] /\ seen'[v] = seen[v] /\ pc'[v] = pc[v],
         UNCHANGED <<node, offered, stmt>>
  PROVE  Fresh'
<1>1. ASSUME NEW t \in Tokens, InUse(t)' PROVE InUse(t) \/ t = 0
  <2>1. CASE \E n \in Nodes : Carries(node[n], t)
    BY <2>1 DEF InUse
  <2>2. ASSUME NEW v \in Writers, Carries(object'[v], t) \/ Carries(seen'[v], t)
        PROVE  InUse(t) \/ t = 0
    BY <2>2 DEF InUse
  <2> QED BY <1>1, <2>1, <2>2 DEF InUse, Carries
<1>2. ASSUME NEW v \in Writers, Pending(v)' PROVE Pending(v) /\ stmt'[v].stamp = stmt[v].stamp
  BY <1>2 DEF Pending
<1>3. {} \in SUBSET Tokens /\ offered <= offered'
  BY Bounds DEF Fresh, Types, TypeOK, Tokens
<1> QED BY <1>1, <1>2, <1>3, TokensKept

LEMMA ReadIsFresh ==
  ASSUME Fresh, Types', NEW w \in Writers, NEW n \in Nodes, ~Pending(w), Read(w, n)
  PROVE  Fresh'
<1>1. \A v \in Writers \ {w} : object'[v] = object[v] /\ seen'[v] = seen[v] /\ pc'[v] = pc[v]
  BY DEF Read, Hold, Fresh, Types, TypeOK
<1>2. ~Pending(w)' /\ UNCHANGED <<node, offered, stmt>>
  BY DEF Read, Hold, Pending, storeVars, Fresh, Types, TypeOK
<1>3. /\ object'[w] = None \/ (node[n] # None /\ object'[w] = AsRead(n))
      /\ seen'[w] = seen[w] \/ (node[n] # None /\ seen'[w] = AsRead(n))
  BY DEF Read, Hold, Fresh, Types, TypeOK
<1>4. ASSUME NEW t \in Tokens, Carries(object'[w], t) \/ Carries(seen'[w], t) PROVE InUse(t)
  <2>1. node[n] # None => (Carries(AsRead(n), t) => Carries(node[n], t))
    BY DEF Carries, AsRead
  <2> QED BY <1>3, <1>4, <2>1 DEF InUse, Carries
<1> QED BY <1>1, <1>2, <1>4, HeldIsFresh

LEMMA ReadRestIsFresh ==
  ASSUME Fresh, Types', NEW w \in Writers, ReadRest(w)
  PROVE  Fresh'
<1> DEFINE first == seen[w]
           now == IF node[first.id] = None THEN first ELSE AsRead(first.id)
<1>1. pc[w] = "reading" /\ first \in Object
  BY DEF ReadRest, Fresh, Types, TypeOK
<1>2. PICK fs \in SUBSET Fields, k \in {first.links, now.links}, s \in {first.stamp, now.stamp} :
        Hold(w, [id |-> first.id, props |-> [f \in Fields |-> IF f \in fs THEN first.props[f] ELSE now.props[f]],
                 links |-> k, stamp |-> s])
  BY DEF ReadRest
<1>3. object'[w].stamp = s /\ seen'[w] = None
  BY <1>2 DEF Hold, ReadRest, Fresh, Types, TypeOK
<1>4. ASSUME NEW t \in Tokens, Carries(object'[w], t) \/ Carries(seen'[w], t) PROVE InUse(t)
  <2>1. t \in {s.data, s.links}
    BY <1>3, <1>4 DEF Carries
  <2>2. CASE s = now.stamp /\ node[first.id] # None
    <3>1. now.stamp = node[first.id].stamp /\ first.id \in Nodes
      BY <1>1, <2>2 DEF AsRead, Object
    <3> QED BY <2>1, <2>2, <3>1 DEF InUse, Carries
  <2>3. CASE s = first.stamp
    <3>1. first # None
      BY <1>1, NoneIsNoObject
    <3> QED BY <2>1, <2>3, <3>1 DEF InUse, Carries
  <2> QED BY <2>2, <2>3
<1>5. UNCHANGED <<node, offered, stmt>>
  BY DEF ReadRest, storeVars
<1>6. ~Pending(w) /\ ~Pending(w)'
  BY <1>1, <1>2 DEF Hold, Pending, Fresh, Types, TypeOK
<1>7. \A v \in Writers \ {w} : object'[v] = object[v] /\ seen'[v] = seen[v] /\ pc'[v] = pc[v]
  BY <1>2 DEF ReadRest, Hold, Fresh, Types, TypeOK
<1> QED BY <1>4, <1>5, <1>6, <1>7, HeldIsFresh

LEMMA NewIsFresh ==
  ASSUME Fresh, Types', NEW w \in Writers, NEW n \in Nodes, New(w, n)
  PROVE  Fresh'
<1>1. object'[w].stamp = Unstamped /\ seen'[w] = seen[w]
  BY DEF New, Hold, callVars, Fresh, Types, TypeOK
<1>2. ASSUME NEW t \in Tokens, Carries(object'[w], t) \/ Carries(seen'[w], t) PROVE InUse(t) \/ t = 0
  BY <1>1, <1>2 DEF InUse, Carries, Unstamped
<1>3. \A v \in Writers \ {w} : object'[v] = object[v] /\ seen'[v] = seen[v] /\ pc'[v] = pc[v]
  BY DEF New, Hold, Fresh, Types, TypeOK
<1>4. ~Pending(w) /\ ~Pending(w)' /\ UNCHANGED <<node, offered, stmt>>
  BY DEF New, Hold, Between, Pending, storeVars, Fresh, Types, TypeOK
<1> QED BY <1>2, <1>3, <1>4, HeldIsFresh

LEMMA BatchReadsIsFresh ==
  ASSUME Fresh, Types', NEW w \in Writers, BatchReads(w)
  PROVE  Fresh'
<1>1. stmt[w].id \in Nodes /\ pc[w] = "writing" /\ UNCHANGED <<node, offered, stmt, object>>
  BY DEF BatchReads, storeVars, Fresh, Types, TypeOK, Statement
<1>2. /\ seen'[w] = None \/ (node[stmt[w].id] # None /\ seen'[w] = AsRead(stmt[w].id))
      /\ \A v \in Writers \ {w} : seen'[v] = seen[v] /\ pc'[v] = pc[v]
  BY DEF BatchReads, Fresh, Types, TypeOK
<1>3. ASSUME NEW t \in Tokens, InUse(t)' PROVE InUse(t)
  <2>1. CASE Carries(seen'[w], t)
    BY <1>1, <1>2, <2>1 DEF InUse, Carries, AsRead
  <2>2. CASE ~Carries(seen'[w], t)
    BY <1>1, <1>2, <1>3, <2>2 DEF InUse
  <2> QED BY <2>1, <2>2
<1>4. ASSUME NEW v \in Writers, Pending(v)' PROVE Pending(v) /\ stmt'[v].stamp = stmt[v].stamp
  BY <1>1, <1>2, <1>4 DEF Pending
<1>5. {} \in SUBSET Tokens /\ offered <= offered'
  BY <1>1, Bounds DEF Fresh, Types, TypeOK, Tokens
<1> QED BY <1>3, <1>4, <1>5, TokensKept

LEMMA SendIsFresh ==
  ASSUME Fresh, Types', NEW w \in Writers, NEW kind, NEW fs, NEW p, NEW k, NEW replace, NEW compared,
         Send(w, kind, fs, p, k, replace, compared)
  PROVE  Fresh'
<1>1. /\ offered \in Nat /\ offered' = offered + 1 /\ offered' \in Tokens
      /\ stmt'[w].stamp = offered' /\ ~Pending(w) /\ UNCHANGED <<node, object, seen>>
  BY Bounds DEF Send, Pending, Tokens, Fresh, Types, TypeOK
<1>2. \A v \in Writers \ {w} : stmt'[v] = stmt[v] /\ pc'[v] = pc[v]
  BY DEF Send, Fresh, Types, TypeOK
<1>3. \A t : InUse(t)' <=> InUse(t)
  BY <1>1 DEF InUse
<1>4. ASSUME NEW v \in Writers, Pending(v), v # w
      PROVE  /\ Pending(v)' <=> Pending(v)
             /\ stmt[v].stamp \in 1..offered
  BY <1>2, <1>4 DEF Pending, Fresh, TokensAreOffered
<1>5. TokensAreOffered'
  <2>1. ASSUME NEW t \in Tokens, InUse(t)' PROVE t <= offered'
    BY <1>1, <1>3, <2>1, Bounds DEF Fresh, TokensAreOffered, Tokens
  <2>2. ASSUME NEW v \in Writers, Pending(v)' PROVE stmt'[v].stamp \in 1..offered'
    BY <1>1, <1>2, <1>4, <2>2 DEF Pending
  <2> QED BY <2>1, <2>2 DEF TokensAreOffered
<1>6. ~InUse(offered')
  BY <1>1 DEF Fresh, TokensAreOffered
<1>7. PendingIsNew'
  <2>1. ASSUME NEW v \in Writers, Pending(v)' PROVE ~InUse(stmt'[v].stamp)
    BY <1>1, <1>2, <1>4, <1>6, <2>1 DEF Pending, Fresh, PendingIsNew
  <2>2. ASSUME NEW u \in Writers, NEW v \in Writers, Pending(u)', Pending(v)', u # v
        PROVE  stmt'[u].stamp # stmt'[v].stamp
    <3>1. CASE u # w /\ v # w
      BY <1>2, <2>2, <3>1 DEF Pending, Fresh, PendingIsNew
    <3>2. CASE u = w
      BY <1>1, <1>2, <1>4, <2>2, <3>2 DEF Pending
    <3>3. CASE v = w
      BY <1>1, <1>2, <1>4, <2>2, <3>3 DEF Pending
    <3> QED BY <3>1, <3>2, <3>3
  <2>3. ASSUME NEW v \in Writers, Pending(v)' PROVE ~InUse(stmt[v].stamp)'
    BY <1>1, <2>1, <2>3 DEF InUse
  <2> QED BY <2>2, <2>3 DEF PendingIsNew
<1> QED BY <1>5, <1>7 DEF Fresh

\* A statement's call ends or loads again, and what it stored or handed back carries its stamp and no other new token.
LEMMA EndIsFresh ==
  ASSUME Fresh, Types', NEW w \in Writers, Pending(w), Ends(w) \/ TriesAgain(w),
         stmt[w].stamp \in Tokens, stmt[w].stamp <= offered,
         \A t \in Tokens : InUse(t)' => InUse(t) \/ t = 0 \/ t = stmt[w].stamp,
         UNCHANGED offered
  PROVE  Fresh'
<1>1. ~Pending(w)' /\ \A v \in Writers \ {w} : pc'[v] = pc[v] /\ stmt'[v] = stmt[v]
  BY DEF Ends, TriesAgain, Pending, Fresh, Types, TypeOK
<1> DEFINE used == {stmt[w].stamp}
<1>2. used \in SUBSET Tokens /\ offered <= offered' /\ \A t \in used : t <= offered'
  BY Bounds DEF Fresh, Types, TypeOK, Tokens
<1>3. ASSUME NEW v \in Writers, Pending(v)'
      PROVE  Pending(v) /\ stmt'[v].stamp = stmt[v].stamp /\ stmt[v].stamp \notin used
  <2>1. v # w /\ Pending(v)
    BY <1>1, <1>3 DEF Pending
  <2> QED BY <1>1, <2>1 DEF Fresh, PendingIsNew
<1>4. \A t \in Tokens : InUse(t)' => InUse(t) \/ t = 0 \/ t \in used
  OBVIOUS
<1> HIDE DEF used
<1> QED BY <1>2, <1>3, <1>4, TokensKept

LEMMA PendingStamp ==
  ASSUME Fresh, NEW w \in Writers, Pending(w)
  PROVE  /\ stmt[w] \in Statement /\ object[w] \in Object /\ stmt[w].id \in Nodes
         /\ stmt[w].stamp \in Tokens /\ stmt[w].stamp <= offered /\ node[stmt[w].id] \in Stored \cup {None}
         /\ seen[w] \in Object \cup {None} /\ stmt[w].id = object[w].id
<1>1. stmt[w] \in Statement /\ object[w] \in Object /\ stmt[w].id = object[w].id
  BY DEF Fresh, Types, TypeOK, Pending
<1>2. stmt[w].stamp \in Tokens /\ stmt[w].stamp <= offered /\ stmt[w].id \in Nodes
  BY <1>1, Bounds DEF Fresh, TokensAreOffered, Statement, Tokens, Types, TypeOK
<1> QED BY <1>1, <1>2 DEF Fresh, Types, TypeOK

\* What a statement stores carries its stamp, and no other new token.
LEMMA StoreUses ==
  ASSUME Fresh, NEW w \in Writers, Pending(w), Store(w), NEW t, NEW n \in Nodes, Carries(node'[n], t)
  PROVE  InUse(t) \/ t = stmt[w].stamp
<1>1. CASE n = stmt[w].id
  <2>1. node'[n] = After(w, node[n])
    BY <1>1 DEF Store, Fresh, Types, TypeOK
  <2>2. t \in {After(w, node[n]).stamp.data, After(w, node[n]).stamp.links} /\ node[n] \in Stored \cup {None}
    BY <2>1 DEF Carries, Fresh, Types, TypeOK
  <2>3. t = stmt[w].stamp \/ Carries(node[n], t)
    BY <2>2, RewrittenCarries DEF After
  <2> QED BY <2>3 DEF InUse
<1>2. CASE n # stmt[w].id
  <2>1. node'[n] = node[n]
    BY <1>2 DEF Store, Fresh, Types, TypeOK
  <2> QED BY <2>1 DEF InUse
<1> QED BY <1>1, <1>2

LEMMA AppliedIsFresh ==
  ASSUME Fresh, Types', NEW w \in Writers, Pending(w), NEW found \in Stored \cup Object \cup {None},
         Store(w), HandBack(w, found), seen' \in {seen, [seen EXCEPT ![w] = None]}, UNCHANGED offered
  PROVE  Fresh'
<1>1. ASSUME NEW t \in Tokens, InUse(t)' PROVE InUse(t) \/ t = 0 \/ t = stmt[w].stamp
  <2>1. ASSUME NEW n \in Nodes, Carries(node'[n], t) PROVE InUse(t) \/ t = stmt[w].stamp
    BY <2>1, StoreUses
  <2>2. ASSUME NEW v \in Writers, Carries(object'[v], t) PROVE InUse(t) \/ t = 0 \/ t = stmt[w].stamp
    <3>1. CASE v = w
      <4>1. object'[w] = HandedBack(w, found)
        BY DEF HandBack, Fresh, Types, TypeOK
      <4>2. object[w] # None /\ TypeOK
        BY PendingStamp, NoneIsNoObject DEF Fresh, Types
      <4> QED BY <2>2, <3>1, <4>1, <4>2, PendingStamp, HandedBackCarries DEF InUse
    <3>2. CASE v # w
      BY <2>2, <3>2 DEF HandBack, InUse, Fresh, Types, TypeOK
    <3> QED BY <3>1, <3>2
  <2>3. ASSUME NEW v \in Writers, Carries(seen'[v], t) PROVE InUse(t)
    BY <2>3 DEF InUse, Carries, Fresh, Types, TypeOK
  <2> QED BY <1>1, <2>1, <2>2, <2>3 DEF InUse, Carries
<1> QED BY <1>1, PendingStamp, EndIsFresh DEF HandBack

LEMMA LostIsFresh ==
  ASSUME Fresh, Types', NEW w \in Writers, Lost(w)
  PROVE  Fresh'
<1>1. Pending(w) /\ (Store(w) \/ UNCHANGED node) /\ UNCHANGED <<object, seen, offered>> /\ (Ends(w) \/ TriesAgain(w))
  BY DEF Lost, Pending, Contended
<1>2. ASSUME NEW t \in Tokens, InUse(t)' PROVE InUse(t) \/ t = 0 \/ t = stmt[w].stamp
  <2>1. CASE Store(w)
    BY <1>1, <1>2, <2>1, StoreUses DEF InUse
  <2>2. CASE UNCHANGED node
    BY <1>1, <1>2, <2>2 DEF InUse
  <2> QED BY <1>1, <2>1, <2>2
<1> QED BY <1>1, <1>2, PendingStamp, EndIsFresh

LEMMA RewriteIsFresh ==
  ASSUME Fresh, Types', NEW n \in Nodes, NEW p, NEW k, Rewrite(n, p, k)
  PROVE  Fresh'
<1>1. /\ offered \in Nat /\ offered' = offered + 1 /\ offered' \in Tokens
      /\ node' = [node EXCEPT ![n] = Rewritten(node[n], p, k, offered')]
      /\ UNCHANGED <<object, pc, stmt, seen>>
  BY Bounds DEF Rewrite, callVars, Tokens, Fresh, Types, TypeOK
<1>2. ASSUME NEW t \in Tokens, InUse(t)' PROVE InUse(t) \/ t = offered'
  <2>1. ASSUME NEW m \in Nodes, Carries(node'[m], t) PROVE InUse(t) \/ t = offered'
    <3>1. CASE m = n
      <4>1. node[n] \in Stored \cup {None} /\ node'[m] = Rewritten(node[n], p, k, offered')
        BY <1>1, <3>1 DEF Fresh, Types, TypeOK
      <4>2. t \in {node'[m].stamp.data, node'[m].stamp.links}
        BY <2>1 DEF Carries
      <4>3. t = offered' \/ Carries(node[n], t)
        BY <4>1, <4>2, RewrittenCarries
      <4> QED BY <4>3 DEF InUse
    <3>2. CASE m # n
      BY <1>1, <2>1, <3>2 DEF InUse, Fresh, Types, TypeOK
    <3> QED BY <3>1, <3>2
  <2> QED BY <1>1, <1>2, <2>1 DEF InUse
<1>3. ASSUME NEW w \in Writers, Pending(w)'
      PROVE  Pending(w) /\ stmt'[w].stamp = stmt[w].stamp /\ stmt[w].stamp \notin {offered'}
  BY <1>1, <1>3 DEF Pending, Fresh, TokensAreOffered
<1>4. {offered'} \in SUBSET Tokens /\ offered <= offered' /\ \A t \in {offered'} : t <= offered'
  BY <1>1
<1> QED BY <1>2, <1>3, <1>4, TokensKept

\* The steps that store nothing and hold no new object.
LEMMA OthersAreFresh ==
  ASSUME Fresh, Types', UNCHANGED <<object, seen, offered>>, \A n \in Nodes : node'[n] \in {None, node[n]},
         \A w \in Writers : Pending(w)' => Pending(w) /\ stmt'[w].stamp = stmt[w].stamp
  PROVE  Fresh'
<1>1. \A t \in Tokens : InUse(t)' => InUse(t)
  BY DEF InUse, Carries
<1>2. {} \in SUBSET Tokens /\ offered <= offered'
  BY Bounds DEF Fresh, Types, TypeOK, Tokens
<1> QED BY <1>1, <1>2, TokensKept

LEMMA TurnedAwayIsFresh ==
  ASSUME Fresh, Types', NEW w \in Writers, TurnedAway(w)
  PROVE  Fresh'
<1>1. Pending(w) /\ UNCHANGED <<node, offered, object>> /\ seen' = [seen EXCEPT ![w] = None]
  BY DEF TurnedAway, Pending, storeVars
<1>2. ASSUME NEW t \in Tokens, InUse(t)' PROVE InUse(t)
  BY <1>1, <1>2 DEF InUse, Carries, Fresh, Types, TypeOK
<1>3. CASE Ends(w) \/ TriesAgain(w)
  BY <1>1, <1>2, <1>3, PendingStamp, EndIsFresh
<1>4. CASE pc' = [pc EXCEPT ![w] = "writing"] /\ stmt' = [stmt EXCEPT ![w].turned = TRUE]
  <2>1. ASSUME NEW v \in Writers, Pending(v)' PROVE Pending(v) /\ stmt'[v].stamp = stmt[v].stamp
    BY <1>1, <1>4, <2>1, PendingStamp DEF Pending, Fresh, Types, TypeOK, Statement
  <2>2. {} \in SUBSET Tokens /\ offered <= offered'
    BY <1>1, Bounds DEF Fresh, Types, TypeOK, Tokens
  <2> QED BY <1>2, <2>1, <2>2, TokensKept
<1> QED BY <1>3, <1>4 DEF TurnedAway, Contended

LEMMA NextFresh == Fresh /\ [Next]_vars => Fresh'
<1> SUFFICES ASSUME Fresh, [Next]_vars PROVE Fresh'
  OBVIOUS
<1>0. Types'
  BY NextTypes DEF Fresh
<1>1. ASSUME NEW w \in Writers, NEW n \in Nodes, Load(w, n) \/ Update(w, n)
      PROVE  Fresh'
  BY <1>0, <1>1, ReadIsFresh DEF Load, Update, LoadFor, Between, Pending
<1>2. ASSUME NEW w \in Writers, LoadAgain(w) PROVE Fresh'
  <2>1. object[w].id \in Nodes /\ ~Pending(w)
    BY <1>2 DEF LoadAgain, Pending, Fresh, Types, TypeOK, Object
  <2> QED BY <1>0, <1>2, <2>1, ReadIsFresh DEF LoadAgain, LoadFor
<1>3. ASSUME NEW w \in Writers, Saves(w) PROVE Fresh'
  BY <1>0, <1>3, SendIsFresh DEF Saves, Save, SaveChange, Create, SaveAll
<1>4. ASSUME NEW w \in Writers, BatchWrites(w) PROVE Fresh'
  <2>1. Pending(w)
    BY <1>4 DEF BatchWrites, Pending
  <2> QED BY <1>0, <1>4, <2>1, PendingStamp, AppliedIsFresh DEF BatchWrites
<1>5. ASSUME NEW w \in Writers, Applied(w) PROVE Fresh'
  <2>1. Pending(w)
    BY <1>5 DEF Applied, Pending
  <2> QED BY <1>0, <1>5, <2>1, PendingStamp, AppliedIsFresh DEF Applied
<1>6. ASSUME NEW w \in Writers, NoRow(w) \/ StaleObject(w) \/ ChangeThrows(w) PROVE Fresh'
  <2>1. UNCHANGED <<object, seen, offered, node>>
    BY <1>6 DEF NoRow, StaleObject, ChangeThrows, storeVars
  <2>2. ASSUME NEW v \in Writers, Pending(v)' PROVE Pending(v) /\ stmt'[v].stamp = stmt[v].stamp
    BY <1>6, <2>2 DEF NoRow, StaleObject, ChangeThrows, Ends, TriesAgain, Pending, Fresh, Types, TypeOK
  <2> QED BY <1>0, <2>1, <2>2, OthersAreFresh
<1>7. ASSUME NEW n \in Nodes, Delete(n) PROVE Fresh'
  BY <1>0, <1>7, OthersAreFresh DEF Delete, callVars, Pending, Fresh, Types, TypeOK
<1>8. ASSUME NEW n \in Nodes, NodeStep(n), ~Delete(n) PROVE Fresh'
  BY <1>0, <1>8, RewriteIsFresh DEF NodeStep, Patch, Relate, Unrelate
<1>9. CASE UNCHANGED vars
  BY <1>0, <1>9, OthersAreFresh DEF vars, storeVars, callVars, Pending, Fresh, Types, TypeOK
<1> QED BY <1>0, <1>1, <1>2, <1>3, <1>4, <1>5, <1>6, <1>7, <1>8, <1>9,
      ReadRestIsFresh, NewIsFresh, BatchReadsIsFresh, LostIsFresh, TurnedAwayIsFresh
    DEF Next, WriterStep

\* However often a statement is turned away, run again or loses its answer, a
\* save that is refused left nothing of itself behind: no node carries a token
\* it offered (Contention.ts:115-135).
THEOREM RefusedChangesNothing == Spec => []RefusedIsNotApplied
<1>1. Fresh => RefusedIsNotApplied
  BY DEF Fresh, PendingIsNew, Pending, InUse, Carries, RefusedIsNotApplied
<1> QED BY FreshAtFirst, NextFresh, <1>1, PTL DEF Spec

-----------------------------------------------------------------------------
(* What a stamp speaks for, where a read takes a snapshot.                  *)

WholeNode(n) == n # None => (n.stamp.data = 0 <=> n.stamp.links = 0)
WholeObject(o) == o.stamp # Unstamped => o.stamp.data # 0

\* The stamp of o speaks true of n, and a node once stamped is never without a stamp.
SpeaksOf(o, n) ==
  n # None =>
    /\ o.stamp.data # 0 /\ o.stamp.data = n.stamp.data => n.props = o.props
    /\ o.stamp.links # 0 /\ o.stamp.links = n.stamp.links => n.links \subseteq o.links
    /\ o.stamp # Unstamped => n.stamp # Unstamped

\* A new object is saved whole.
NewIsSavedWhole == \A w \in Writers : Pending(w) /\ object[w].stamp = Unstamped => stmt[w].writes = Fields

Truth ==
  /\ \A n \in Nodes : WholeNode(node[n])
  /\ \A w \in Writers : object[w] # None => WholeObject(object[w]) /\ SpeaksOf(object[w], node[object[w].id])
  /\ \A w \in Writers : pc[w] \notin {"reading", "locking"}
  /\ NewIsSavedWhole

Kept == Fresh /\ (~readsWithoutSnapshot => Truth)

LEMMA RewrittenSpeaks ==
  ASSUME NEW n \in Stored \cup {None}, WholeNode(n), NEW p, NEW k, NEW t \in Tokens, t # 0
  PROVE  /\ WholeNode(Rewritten(n, p, k, t))
         /\ Rewritten(n, p, k, t).stamp # Unstamped /\ Rewritten(n, p, k, t).stamp.data # 0
         /\ \A o \in Object :
              SpeaksOf(o, n) /\ t \notin {o.stamp.data, o.stamp.links} => SpeaksOf(o, Rewritten(n, p, k, t))
<1> DEFINE r == Rewritten(n, p, k, t)
<1>1. r.props = p /\ r.links = k
  BY DEF Rewritten
<1>2. CASE n = None
  <2>1. r.stamp = [data |-> t, links |-> t]
    BY <1>2 DEF Rewritten
  <2> HIDE DEF r
  <2>2. r.stamp.data = t /\ r.stamp.links = t
    BY <2>1
  <2>3. r.stamp # Unstamped
    BY <2>2 DEF Unstamped
  <2> QED BY <1>1, <2>2, <2>3 DEF WholeNode, SpeaksOf, r
<1>3. CASE n # None
  <2>1. n.stamp \in Stamp /\ n \in Stored
    BY <1>3 DEF Stored
  <2>2. r.stamp = relink(restamp(n.stamp, p # n.props, t), k # n.links, t)
    BY <1>3 DEF Rewritten
  <2> HIDE DEF r
  <2>3. CASE n.stamp = Unstamped
    <3>1. r.stamp = [data |-> t, links |-> t]
      BY <2>2, <2>3 DEF restamp, relink, Unstamped
    <3>2. r.stamp.data = t /\ r.stamp.links = t
      BY <3>1
    <3>3. r.stamp # Unstamped
      BY <3>2 DEF Unstamped
    <3> QED BY <1>1, <1>3, <2>3, <3>2, <3>3 DEF WholeNode, SpeaksOf, r
  <2>4. CASE n.stamp # Unstamped
    <3>1. n.stamp.data # 0 /\ n.stamp.links # 0
      BY <1>3, <2>1, <2>4 DEF WholeNode, Stamp, Unstamped
    <3>2. r.stamp.data = IF p # n.props THEN t ELSE n.stamp.data
      BY <2>1, <2>2, <3>1 DEF restamp, relink, Unstamped, Stamp
    <3>3. r.stamp.links = IF k # n.links THEN t ELSE n.stamp.links
      BY <2>1, <2>2, <3>1 DEF restamp, relink, Unstamped, Stamp
    <3>4. r.stamp # Unstamped
      BY <3>1, <3>2 DEF Unstamped
    <3> QED BY <1>1, <1>3, <2>4, <3>1, <3>2, <3>3, <3>4 DEF WholeNode, SpeaksOf, r
  <2> QED BY <2>3, <2>4
<1> QED BY <1>2, <1>3

\* A save hands its object a stamp that speaks true of what it left.
LEMMA HandedBackSpeaks ==
  ASSUME Fresh, ~readsWithoutSnapshot, Truth, NEW w \in Writers, Pending(w)
  PROVE  LET n == node[stmt[w].id]
             o == HandedBack(w, n)
         IN  WholeObject(o) /\ SpeaksOf(o, After(w, n))
<1> DEFINE n == node[stmt[w].id]
           c == object[w]
           now == After(w, n)
           t == stmt[w].stamp
           o == HandedBack(w, n)
<1>1. /\ stmt[w] \in Statement /\ c \in Object /\ c # None /\ n \in Stored \cup {None}
      /\ t \in Tokens /\ c.id = stmt[w].id
  BY PendingStamp, NoneIsNoObject
<1>2. t # 0 /\ (n # None => t \notin {n.stamp.data, n.stamp.links}) /\ t \notin {c.stamp.data, c.stamp.links}
  <2>1. t \in 1..offered /\ ~InUse(t)
    BY DEF Fresh, TokensAreOffered, PendingIsNew
  <2> QED BY <1>1, <2>1, PendingStamp DEF InUse, Carries
<1>3. WholeNode(n) /\ WholeObject(c) /\ SpeaksOf(c, n)
  BY <1>1, PendingStamp DEF Truth
<1>4. now \in Stored /\ now.stamp # Unstamped /\ now.stamp.data # 0 /\ SpeaksOf(c, now)
  BY <1>1, <1>2, <1>3, AfterStored, RewrittenSpeaks DEF After, Fresh, Types
<1>5. /\ now.props = [f \in Fields |-> IF f \in stmt[w].writes THEN stmt[w].props[f] ELSE IF n = None THEN None ELSE n.props[f]]
      /\ now.links = IF n = None \/ stmt[w].replace THEN stmt[w].links ELSE n.links \cup stmt[w].links
  BY DEF After, Rewritten
<1>6. /\ o.props = [f \in Fields |-> IF n = None \/ f \in stmt[w].writes THEN now.props[f] ELSE c.props[f]]
      /\ o.links = IF n = None \/ stmt[w].replace THEN stmt[w].links ELSE c.links \cup stmt[w].links
      /\ o.stamp = handedBack(c.stamp, n, now.stamp)
  BY DEF HandedBack
<1>7. /\ now.props \in Props /\ c.props \in Props /\ now.stamp \in Stamp /\ c.stamp \in Stamp
      /\ n # None => n.props \in Props /\ n.stamp \in Stamp
  BY <1>1, <1>4 DEF Stored, Object
<1>8. now.stamp.data \in {t} \cup (IF n = None THEN {} ELSE {n.stamp.data})
      /\ now.stamp.links \in {t} \cup (IF n = None THEN {} ELSE {n.stamp.links})
      /\ (n = None => now.stamp = [data |-> t, links |-> t])
  BY <1>1 DEF After, Rewritten, restamp, relink, Stored, Stamp
<1> HIDE DEF n, c, now, t, o
<1>9. o.stamp # Unstamped => o.stamp.data # 0
  BY <1>3, <1>4, <1>6, <1>7 DEF handedBack, WholeObject, Stamp, Unstamped
<1>10. ASSUME o.stamp.data = now.stamp.data PROVE o.props = now.props
  <2>1. CASE n = None
    BY <1>6, <1>7, <2>1 DEF Props
  <2>2. CASE n # None /\ c.stamp = Unstamped
    <3>1. stmt[w].writes = Fields
      BY <2>2 DEF Truth, NewIsSavedWhole, c
    <3> QED BY <3>1, <1>6, <1>7 DEF Props
  <2>3. CASE n # None /\ c.stamp # Unstamped
    <3>1. c.stamp.data = n.stamp.data
      BY <1>2, <1>6, <1>8, <1>10, <2>3 DEF handedBack
    <3>2. n.props = c.props
      BY <1>3, <2>3, <3>1 DEF SpeaksOf, WholeObject
    <3> QED BY <1>5, <1>6, <1>7, <2>3, <3>2 DEF Props
  <2> QED BY <2>1, <2>2, <2>3
<1>11. ASSUME o.stamp.links # 0, o.stamp.links = now.stamp.links PROVE now.links \subseteq o.links
  <2>1. CASE n = None \/ stmt[w].replace
    BY <1>5, <1>6, <2>1
  <2>2. CASE n # None /\ ~stmt[w].replace
    <3>1. c.stamp # Unstamped
      BY <1>6, <1>7, <1>11, <2>2 DEF handedBack, Stamp
    <3>2. c.stamp.links = n.stamp.links
      BY <1>2, <1>6, <1>8, <1>11, <2>2, <3>1 DEF handedBack
    <3>3. n.stamp # Unstamped
      BY <1>3, <2>2, <3>1 DEF SpeaksOf
    <3>4. n.stamp.links # 0
      BY <1>3, <1>7, <2>2, <3>3 DEF WholeNode, Stamp, Unstamped
    <3>5. n.links \subseteq c.links
      BY <1>3, <2>2, <3>2, <3>4 DEF SpeaksOf
    <3> QED BY <1>5, <1>6, <2>2, <3>5
  <2> QED BY <2>1, <2>2
<1>12. WholeObject(o) /\ SpeaksOf(o, now)
  BY <1>4, <1>9, <1>10, <1>11 DEF WholeObject, SpeaksOf
<1> QED BY <1>12 DEF n, o, now

LEMMA GrammarStays == [Next]_vars => grammar' = grammar
<1> USE DEF storeVars
<1>1. ASSUME NEW w \in Writers, NEW n \in Nodes, Load(w, n) \/ Update(w, n) \/ New(w, n)
      PROVE  grammar' = grammar
  BY <1>1 DEF Load, Update, LoadFor, Read, New
<1>2. ASSUME NEW w \in Writers, LoadAgain(w) \/ ReadRest(w)
      PROVE  grammar' = grammar
  BY <1>2 DEF LoadAgain, LoadFor, Read, ReadRest
<1>3. ASSUME NEW w \in Writers, Saves(w)
      PROVE  grammar' = grammar
  <2>1. ASSUME NEW kind, NEW fs, NEW p, NEW k, NEW replace, NEW compared, Send(w, kind, fs, p, k, replace, compared)
        PROVE  grammar' = grammar
    BY <2>1 DEF Send
  <2> QED BY <1>3, <2>1 DEF Saves, Save, SaveChange, Create, SaveAll
<1>4. ASSUME NEW w \in Writers, ChangeThrows(w) \/ BatchReads(w) \/ NoRow(w) \/ StaleObject(w) \/ TurnedAway(w)
      PROVE  grammar' = grammar
  BY <1>4 DEF ChangeThrows, BatchReads, NoRow, StaleObject, TurnedAway
<1>5. ASSUME NEW w \in Writers, BatchWrites(w) \/ Applied(w) \/ Lost(w)
      PROVE  grammar' = grammar
  BY <1>5 DEF BatchWrites, Applied, Lost
<1>6. ASSUME NEW n \in Nodes, NodeStep(n)
      PROVE  grammar' = grammar
  BY <1>6 DEF NodeStep, Patch, Relate, Unrelate, Rewrite, Delete
<1> QED BY <1>1, <1>2, <1>3, <1>4, <1>5, <1>6 DEF Next, WriterStep, vars

\* What a writer holds when it has read or made an object is whole and true.
LEMMA HeldIsTrue ==
  ASSUME Fresh, Truth, NEW w \in Writers, ~Pending(w)', pc'[w] # "reading",
         object'[w] # None => WholeObject(object'[w]) /\ SpeaksOf(object'[w], node[object'[w].id]),
         \A v \in Writers \ {w} : object'[v] = object[v] /\ pc'[v] = pc[v],
         UNCHANGED <<node, stmt>>
  PROVE  Truth'
<1>1. \A n \in Nodes : WholeNode(node'[n])
  BY DEF Truth
<1>2. ASSUME NEW v \in Writers, object'[v] # None
      PROVE  WholeObject(object'[v]) /\ SpeaksOf(object'[v], node'[object'[v].id])
  <2>1. CASE v = w
    BY <1>2, <2>1
  <2>2. CASE v # w
    BY <1>2, <2>2 DEF Truth
  <2> QED BY <2>1, <2>2
<1>3. ASSUME NEW v \in Writers PROVE pc'[v] \notin {"reading", "locking"}
  BY DEF Truth, Pending
<1>4. NewIsSavedWhole'
  BY DEF Truth, NewIsSavedWhole, Pending
<1> QED BY <1>1, <1>2, <1>3, <1>4 DEF Truth

LEMMA ReadIsTrue ==
  ASSUME Fresh, ~readsWithoutSnapshot, Truth, NEW w \in Writers, NEW n \in Nodes, ~Pending(w), Read(w, n)
  PROVE  Truth'
<1>1. /\ object'[w] = None \/ (node[n] # None /\ object'[w] = AsRead(n))
      /\ pc'[w] \in {"idle", "holding"} /\ UNCHANGED <<node, stmt>>
      /\ \A v \in Writers \ {w} : object'[v] = object[v] /\ pc'[v] = pc[v]
  BY DEF Read, Hold, storeVars, Fresh, Types, TypeOK
<1>2. node[n] # None => WholeObject(AsRead(n)) /\ SpeaksOf(AsRead(n), node[n]) /\ AsRead(n).id = n
  BY DEF AsRead, WholeObject, SpeaksOf, Truth, WholeNode, Fresh, Types, TypeOK, Stored, Stamp, Unstamped
<1> QED BY <1>1, <1>2, HeldIsTrue DEF Pending

LEMMA NewIsTrue ==
  ASSUME Fresh, Truth, NEW w \in Writers, NEW n \in Nodes, New(w, n)
  PROVE  Truth'
<1>1. /\ object'[w].stamp = Unstamped /\ pc'[w] = "holding" /\ UNCHANGED <<node, stmt>>
      /\ \A v \in Writers \ {w} : object'[v] = object[v] /\ pc'[v] = pc[v]
  BY DEF New, Hold, storeVars, Fresh, Types, TypeOK
<1>2. WholeObject(object'[w]) /\ SpeaksOf(object'[w], node[object'[w].id])
  BY <1>1 DEF WholeObject, SpeaksOf, Unstamped
<1> QED BY <1>1, <1>2, HeldIsTrue DEF Pending

LEMMA SendIsTrue ==
  ASSUME Fresh, Truth, "partFirst" \notin Uses, NEW w \in Writers, NEW kind, NEW fs, NEW p, NEW k, NEW replace, NEW compared,
         Send(w, kind, fs, p, k, replace, compared)
  PROVE  Truth'
<1>1. /\ object[w].stamp = Unstamped => stmt'[w].writes = Fields
      /\ pc'[w] = "writing" /\ UNCHANGED <<node, object>>
      /\ \A v \in Writers \ {w} : stmt'[v] = stmt[v] /\ pc'[v] = pc[v]
  BY DEF Send, Fresh, Types, TypeOK
<1>2. NewIsSavedWhole'
  BY <1>1 DEF Truth, NewIsSavedWhole, Pending
<1> QED BY <1>1, <1>2 DEF Truth

\* A node is rewritten, or deleted, and no object takes notice.
LEMMA NodeIsTrue ==
  ASSUME Fresh, Truth, NEW n \in Nodes, node' \in {node, [node EXCEPT ![n] = node'[n]]}, WholeNode(node'[n]),
         \A w \in Writers : object[w] # None /\ object[w].id = n => SpeaksOf(object[w], node'[n]),
         UNCHANGED object, \A w \in Writers : pc'[w] \notin {"reading", "locking"},
         \A w \in Writers : Pending(w)' => Pending(w) /\ stmt'[w].writes = stmt[w].writes
  PROVE  Truth'
<1>1. \A m \in Nodes : WholeNode(node'[m]) /\ (m # n => node'[m] = node[m])
  BY DEF Truth, Fresh, Types, TypeOK
<1>2. ASSUME NEW w \in Writers, object[w] # None PROVE WholeObject(object[w]) /\ SpeaksOf(object[w], node'[object[w].id])
  <2>1. object[w].id \in Nodes
    BY <1>2 DEF Fresh, Types, TypeOK, Object
  <2> QED BY <1>1, <1>2, <2>1 DEF Truth
<1>3. NewIsSavedWhole'
  BY DEF Truth, NewIsSavedWhole
<1> QED BY <1>1, <1>2, <1>3 DEF Truth

\* After a statement of w's the other writers' objects have stamps that speak true.
LEMMA StoreIsTrue ==
  ASSUME Fresh, Truth, NEW w \in Writers, Pending(w), Store(w)
  PROVE  LET n == stmt[w].id IN
         /\ n \in Nodes /\ node' = [node EXCEPT ![n] = After(w, node[n])] /\ node'[n] = After(w, node[n])
         /\ WholeNode(node'[n])
         /\ \A v \in Writers : object[v] # None /\ object[v].id = n => SpeaksOf(object[v], node'[n])
<1> DEFINE n == stmt[w].id
<1>1. /\ n \in Nodes /\ node' = [node EXCEPT ![n] = After(w, node[n])] /\ node'[n] = After(w, node[n])
      /\ node[n] \in Stored \cup {None} /\ stmt[w].stamp \in Tokens
  BY PendingStamp DEF Store, Fresh, Types, TypeOK
<1>2. stmt[w].stamp # 0 /\ ~InUse(stmt[w].stamp)
  BY DEF Fresh, TokensAreOffered, PendingIsNew
<1>3. WholeNode(node[n])
  BY <1>1 DEF Truth
<1>4. WholeNode(node'[n])
  BY <1>1, <1>2, <1>3, RewrittenSpeaks DEF After
<1>5. ASSUME NEW v \in Writers, object[v] # None, object[v].id = n PROVE SpeaksOf(object[v], node'[n])
  <2>1. object[v] \in Object /\ SpeaksOf(object[v], node[n])
    BY <1>5 DEF Truth, Fresh, Types, TypeOK
  <2>2. stmt[w].stamp \notin {object[v].stamp.data, object[v].stamp.links}
    BY <1>2, <1>5 DEF InUse, Carries
  <2> QED BY <1>1, <1>2, <1>3, <2>1, <2>2, RewrittenSpeaks DEF After
<1> QED BY <1>1, <1>4, <1>5

LEMMA AppliedIsTrue ==
  ASSUME Fresh, ~readsWithoutSnapshot, Truth, NEW w \in Writers, Applied(w)
  PROVE  Truth'
<1> DEFINE n == stmt[w].id
<1>1. Pending(w) /\ Store(w) /\ HandBack(w, node[n])
  BY DEF Applied, Pending
<1>2. /\ n \in Nodes /\ node' = [node EXCEPT ![n] = After(w, node[n])] /\ node'[n] = After(w, node[n])
      /\ WholeNode(node'[n])
      /\ \A v \in Writers : object[v] # None /\ object[v].id = n => SpeaksOf(object[v], node'[n])
  BY <1>1, StoreIsTrue
<1>3. object'[w] = HandedBack(w, node[n]) /\ object'[w].id = n
  BY <1>1, PendingStamp DEF HandBack, HandedBack, Fresh, Types, TypeOK
<1>4. WholeObject(object'[w]) /\ SpeaksOf(object'[w], node'[n])
  BY <1>1, <1>2, <1>3, HandedBackSpeaks
<1>5. \A v \in Writers \ {w} : object'[v] = object[v] /\ pc'[v] = pc[v] /\ stmt'[v] = stmt[v]
  BY <1>1 DEF HandBack, Ends, Fresh, Types, TypeOK
<1>6. pc'[w] = "holding"
  BY <1>1 DEF HandBack, Ends, Fresh, Types, TypeOK
<1> HIDE DEF n
<1>7. \A m \in Nodes : WholeNode(node'[m]) /\ (m # n => node'[m] = node[m])
  BY <1>2 DEF Truth, Fresh, Types, TypeOK
<1>8. ASSUME NEW v \in Writers, object'[v] # None
      PROVE  WholeObject(object'[v]) /\ SpeaksOf(object'[v], node'[object'[v].id])
  <2>1. CASE v = w
    BY <1>3, <1>4, <2>1
  <2>2. CASE v # w
    <3>1. object'[v] = object[v] /\ object[v].id \in Nodes
      BY <1>5, <1>8, <2>2 DEF Fresh, Types, TypeOK, Object
    <3> QED BY <1>2, <1>7, <1>8, <3>1 DEF Truth
  <2> QED BY <2>1, <2>2
<1>9. NewIsSavedWhole' /\ \A v \in Writers : pc'[v] \notin {"reading", "locking"}
  BY <1>5, <1>6 DEF Truth, NewIsSavedWhole, Pending
<1> QED BY <1>7, <1>8, <1>9 DEF Truth

\* A step that ends a statement, or runs it again, without handing anything back.
LEMMA EndIsTrue ==
  ASSUME Fresh, Truth, NEW w \in Writers, pc[w] \in {"writing", "refused", "holding"},
         \/ Ends(w) \/ TriesAgain(w)
         \/ pc' = [pc EXCEPT ![w] = "refused"] /\ UNCHANGED stmt
         \/ pc' = [pc EXCEPT ![w] = "writing"] /\ stmt' = [stmt EXCEPT ![w].turned = TRUE],
         Pending(w) \/ Ends(w) \/ TriesAgain(w),
         UNCHANGED object, (Pending(w) /\ Store(w)) \/ UNCHANGED node
  PROVE  Truth'
<1>1. \A v \in Writers : pc'[v] \notin {"reading", "locking"}
  BY DEF Ends, TriesAgain, Truth, Fresh, Types, TypeOK
<1>2. ASSUME NEW v \in Writers, Pending(v)' PROVE Pending(v) /\ stmt'[v].writes = stmt[v].writes
  <2>1. CASE Ends(w) \/ TriesAgain(w)
    BY <1>2, <2>1 DEF Ends, TriesAgain, Pending, Fresh, Types, TypeOK
  <2>2. CASE Pending(w) /\ pc' = [pc EXCEPT ![w] = "refused"] /\ UNCHANGED stmt
    BY <1>2, <2>2 DEF Pending, Fresh, Types, TypeOK
  <2>3. CASE Pending(w) /\ pc' = [pc EXCEPT ![w] = "writing"] /\ stmt' = [stmt EXCEPT ![w].turned = TRUE]
    BY <1>2, <2>3, PendingStamp DEF Pending, Fresh, Types, TypeOK, Statement
  <2> QED BY <2>1, <2>2, <2>3
<1>3. CASE Pending(w) /\ Store(w)
  BY <1>1, <1>2, <1>3, StoreIsTrue, NodeIsTrue
<1>4. CASE UNCHANGED node
  BY <1>1, <1>2, <1>4 DEF Truth, NewIsSavedWhole
<1> QED BY <1>3, <1>4

LEMMA RewriteIsTrue ==
  ASSUME Fresh, Truth, NEW n \in Nodes, NEW p, NEW k, Rewrite(n, p, k)
  PROVE  Truth'
<1>1. /\ offered \in Nat /\ offered' = offered + 1 /\ offered' \in Tokens
      /\ node' = [node EXCEPT ![n] = Rewritten(node[n], p, k, offered')] /\ node[n] \in Stored \cup {None}
      /\ node'[n] = Rewritten(node[n], p, k, offered') /\ UNCHANGED <<object, pc, stmt>>
  BY Bounds DEF Rewrite, callVars, Tokens, Fresh, Types, TypeOK
<1>2. WholeNode(node[n]) /\ offered' # 0
  BY <1>1 DEF Truth
<1>3. WholeNode(node'[n])
  BY <1>1, <1>2, RewrittenSpeaks
<1>4. ASSUME NEW w \in Writers, object[w] # None, object[w].id = n PROVE SpeaksOf(object[w], node'[n])
  <2>1. object[w] \in Object /\ SpeaksOf(object[w], node[n])
    BY <1>4 DEF Truth, Fresh, Types, TypeOK
  <2>2. Carries(object[w], object[w].stamp.data) /\ Carries(object[w], object[w].stamp.links)
    BY <1>4 DEF Carries
  <2>3. object[w].stamp.data <= offered /\ object[w].stamp.links <= offered
    BY <2>1, <2>2 DEF InUse, Fresh, TokensAreOffered, Object, Stamp
  <2>4. object[w].stamp.data \in Nat /\ object[w].stamp.links \in Nat
    BY <2>1, Bounds DEF Object, Stamp, Tokens
  <2>5. offered' \notin {object[w].stamp.data, object[w].stamp.links}
    BY <1>1, <2>3, <2>4
  <2> QED BY <1>1, <1>2, <2>1, <2>5, RewrittenSpeaks
<1>5. \A w \in Writers : pc'[w] \notin {"reading", "locking"} /\ (Pending(w)' => Pending(w) /\ stmt'[w].writes = stmt[w].writes)
  BY <1>1 DEF Truth, Pending
<1> QED BY <1>1, <1>3, <1>4, <1>5, NodeIsTrue

LEMMA NextTruth ==
  ASSUME Fresh, [Next]_vars, Fresh', ~readsWithoutSnapshot, Truth, "partFirst" \notin Uses
  PROVE  Truth'
<1>1. ASSUME NEW w \in Writers, NEW n \in Nodes, Load(w, n) \/ Update(w, n)
      PROVE  Truth'
  BY <1>1, ReadIsTrue DEF Load, Update, LoadFor, Between, Pending
<1>2. ASSUME NEW w \in Writers, LoadAgain(w) PROVE Truth'
  <2>1. object[w].id \in Nodes /\ ~Pending(w)
    BY <1>2 DEF LoadAgain, Pending, Fresh, Types, TypeOK, Object
  <2> QED BY <1>2, <2>1, ReadIsTrue DEF LoadAgain, LoadFor
<1>3. ASSUME NEW w \in Writers, Saves(w) PROVE Truth'
  BY <1>3, SendIsTrue DEF Saves, Save, SaveChange, Create, SaveAll
<1>4. ASSUME NEW w \in Writers, ReadRest(w) \/ BatchReads(w) \/ BatchWrites(w) PROVE FALSE
  BY <1>4 DEF ReadRest, BatchReads, BatchWrites, Truth
<1>5. ASSUME NEW w \in Writers, ChangeThrows(w) \/ NoRow(w) \/ StaleObject(w) \/ TurnedAway(w) \/ Lost(w)
      PROVE  Truth'
  <2>1. pc[w] # "locking"
    BY DEF Truth
  <2>2. pc[w] \in {"writing", "refused", "holding"} /\ (Pending(w) \/ ChangeThrows(w)) /\ UNCHANGED object
    BY <1>5, <2>1 DEF ChangeThrows, NoRow, StaleObject, TurnedAway, Lost, Pending
  <2>3. (Pending(w) /\ Store(w)) \/ UNCHANGED node
    BY <1>5 DEF ChangeThrows, NoRow, StaleObject, TurnedAway, Lost, storeVars, Pending
  <2>4. \/ Ends(w) \/ TriesAgain(w)
        \/ pc' = [pc EXCEPT ![w] = "refused"] /\ UNCHANGED stmt
        \/ pc' = [pc EXCEPT ![w] = "writing"] /\ stmt' = [stmt EXCEPT ![w].turned = TRUE]
    BY <1>5 DEF ChangeThrows, NoRow, StaleObject, TurnedAway, Lost, Contended
  <2>5. Pending(w) \/ Ends(w) \/ TriesAgain(w)
    BY <2>2 DEF ChangeThrows
  <2> QED BY <2>2, <2>3, <2>4, <2>5, EndIsTrue
<1>6. ASSUME NEW n \in Nodes, Delete(n) PROVE Truth'
  <2>1. node' = [node EXCEPT ![n] = None] /\ node'[n] = None /\ UNCHANGED <<object, pc, stmt>>
    BY <1>6 DEF Delete, callVars, Fresh, Types, TypeOK
  <2>2. WholeNode(None) /\ \A o : SpeaksOf(o, None)
    BY DEF WholeNode, SpeaksOf
  <2>3. \A w \in Writers : pc'[w] \notin {"reading", "locking"} /\ (Pending(w)' => Pending(w) /\ stmt'[w].writes = stmt[w].writes)
    BY <2>1 DEF Truth, Pending
  <2> QED BY <2>1, <2>2, <2>3, NodeIsTrue
<1>7. ASSUME NEW n \in Nodes, NodeStep(n), ~Delete(n) PROVE Truth'
  BY <1>7, RewriteIsTrue DEF NodeStep, Patch, Relate, Unrelate
<1>8. CASE UNCHANGED vars
  BY <1>8 DEF vars, storeVars, callVars, Truth, NewIsSavedWhole, Pending
<1> QED BY <1>1, <1>2, <1>3, <1>4, <1>5, <1>6, <1>7, <1>8, NewIsTrue, AppliedIsTrue DEF Next, WriterStep

LEMMA KeptAtFirst == Init => Kept
<1> SUFFICES ASSUME Init PROVE Truth
  BY FreshAtFirst DEF Kept
<1>1. \A n \in Nodes : WholeNode(node[n])
  BY DEF Init, WholeNode, Unstamped
<1> QED BY <1>1 DEF Init, Truth, NewIsSavedWhole, Pending

LEMMA NextKept ==
  ASSUME "partFirst" \notin Uses
  PROVE  Kept /\ [Next]_vars => Kept'
BY NextFresh, NextTruth, GrammarStays DEF Kept, readsWithoutSnapshot

\* Where a read takes a snapshot, and new objects are saved whole, no writer
\* is handed a stamp that vouches for what it has not read or written itself,
\* however saves, batches, patches, deletes and lost answers interleave
\* (Stamps.ts:30-57).
THEOREM StampsSpeakTrue ==
  ASSUME "partFirst" \notin Uses
  PROVE  Spec => []StampSpeaksTrue
<1>1. Kept => StampSpeaksTrue
  BY DEF Kept, Truth, SpeaksOf, StampSpeaksTrue
<1> QED BY KeptAtFirst, NextKept, <1>1, PTL DEF Spec

-----------------------------------------------------------------------------
(* What a checked save overwrites. *)

LEMMA OwnStep ==
  ASSUME Types, [Next]_vars, NEW w \in Writers, pc'[w] # pc[w] \/ stmt'[w] # stmt[w] \/ object'[w] # object[w]
  PROVE  WriterStep(w)
<1>1. ASSUME NEW v \in Writers, WriterStep(v), v # w PROVE FALSE
  <2> USE DEF Types, TypeOK
  <2>1. ASSUME NEW n \in Nodes, Load(v, n) \/ Update(v, n) \/ New(v, n) PROVE FALSE
    BY <1>1, <2>1 DEF Load, Update, LoadFor, Read, New, Hold, callVars
  <2>2. CASE LoadAgain(v) \/ ReadRest(v)
    BY <1>1, <2>2 DEF LoadAgain, LoadFor, Read, ReadRest, Hold
  <2>3. CASE Saves(v)
    <3>1. ASSUME NEW kind, NEW fs, NEW p, NEW k, NEW replace, NEW compared, Send(v, kind, fs, p, k, replace, compared)
          PROVE  FALSE
      BY <1>1, <3>1 DEF Send
    <3> QED BY <2>3, <3>1 DEF Saves, Save, SaveChange, Create, SaveAll
  <2>4. CASE ChangeThrows(v) \/ BatchReads(v) \/ BatchWrites(v) \/ Applied(v)
    BY <1>1, <2>4 DEF ChangeThrows, BatchReads, BatchWrites, Applied, HandBack, Ends
  <2>5. CASE NoRow(v) \/ StaleObject(v) \/ TurnedAway(v) \/ Lost(v)
    BY <1>1, <2>5 DEF NoRow, StaleObject, TurnedAway, Lost, Contended, Ends, TriesAgain
  <2> QED BY <1>1, <2>1, <2>2, <2>3, <2>4, <2>5 DEF WriterStep
<1>2. ASSUME NEW n \in Nodes, NodeStep(n) PROVE FALSE
  BY <1>2 DEF NodeStep, Patch, Relate, Unrelate, Rewrite, Delete, callVars
<1> QED BY <1>1, <1>2 DEF Next, vars, callVars

\* The step in which a checked save is applied finds the node as the object's stamp says.
LEMMA OverwritesWhatItChecked ==
  ASSUME Fresh, [Next]_vars, NEW w \in Writers, Overwrites(w)
  PROVE  LET n == stmt[w].id IN
         /\ n = object[w].id /\ node[n] # None /\ node[n] \in Stored /\ Checked(w, node[n])
         /\ object[w] # None /\ object[w] \in Object /\ object[w].stamp # Unstamped /\ stmt[w] \in Statement
         /\ node'[n] = After(w, node[n])
<1>1. pc[w] = "writing" /\ pc'[w] # pc[w] /\ Expects(w) /\ node' # node /\ Pending(w)
  BY DEF Overwrites, Pending
<1>2. WriterStep(w)
  BY <1>1, OwnStep DEF Fresh
<1>3. Applied(w) \/ Lost(w)
  <2>1. ASSUME NEW n \in Nodes, Load(w, n) \/ Update(w, n) \/ New(w, n) PROVE FALSE
    BY <1>1, <2>1 DEF Load, Update, New, Between
  <2>2. CASE Saves(w)
    BY <1>1, <2>2 DEF Saves
  <2>3. CASE LoadAgain(w) \/ ReadRest(w) \/ ChangeThrows(w) \/ BatchWrites(w)
    BY <1>1, <2>3 DEF LoadAgain, ReadRest, ChangeThrows, BatchWrites
  <2>4. CASE BatchReads(w) \/ NoRow(w) \/ StaleObject(w) \/ TurnedAway(w)
    BY <1>1, <2>4 DEF BatchReads, NoRow, StaleObject, TurnedAway, storeVars
  <2> QED BY <1>2, <2>1, <2>2, <2>3, <2>4 DEF WriterStep
<1>4. Store(w) /\ Accepts(w)
  BY <1>1, <1>3 DEF Applied, Lost
<1>5. /\ stmt[w].id = object[w].id /\ stmt[w].id \in Nodes /\ object[w] \in Object /\ stmt[w] \in Statement
      /\ node[stmt[w].id] \in Stored \cup {None}
  BY <1>1, PendingStamp
<1>6. Checked(w, node[stmt[w].id]) /\ object[w].stamp # Unstamped
  BY <1>1, <1>4 DEF Accepts, Expects
<1>7. node[stmt[w].id] # None /\ node[stmt[w].id] \in Stored
  BY <1>5, <1>6 DEF Checked
<1>8. node'[stmt[w].id] = After(w, node[stmt[w].id])
  BY <1>4, <1>5 DEF Store, Fresh, Types, TypeOK
<1> QED BY <1>5, <1>6, <1>7, <1>8, NoneIsNoObject

\* A checked save loses no other writer's update: on the engines with
\* snapshots because the stamp speaks true, on Neo4j because the save is given
\* what was loaded (SaveStatementBuilder.ts:228-262).
THEOREM NoUpdateIsLost ==
  ASSUME "partFirst" \notin Uses
  PROVE  Spec => NoLostUpdate
<1> DEFINE Loses(w) == \E f \in Fields :
             LET before == node[stmt[w].id].props[f] IN
             node'[stmt[w].id].props[f] # before /\ before # object[w].props[f]
<1>1. ASSUME Kept, [Next]_vars, NEW w \in Writers, Overwrites(w), stmt[w].compared \/ ~readsWithoutSnapshot, Loses(w)
      PROVE  FALSE
  <2> DEFINE n == stmt[w].id
  <2>1. /\ n = object[w].id /\ node[n] # None /\ Checked(w, node[n])
        /\ object[w] # None /\ object[w].stamp # Unstamped
    BY <1>1, OverwritesWhatItChecked DEF Kept
  <2>2. CASE stmt[w].compared
    BY <1>1, <2>1, <2>2 DEF Checked
  <2>3. CASE ~readsWithoutSnapshot
    <3>1. SpeaksOf(object[w], node[n]) /\ WholeObject(object[w])
      BY <1>1, <2>1, <2>3 DEF Kept, Truth
    <3>2. node[n].props = object[w].props
      BY <2>1, <3>1 DEF SpeaksOf, WholeObject, Checked
    <3> QED BY <1>1, <3>2
  <2> QED BY <1>1, <2>2, <2>3
<1>2. Kept /\ [Next]_vars =>
        [\A w \in Writers : Overwrites(w) /\ (stmt[w].compared \/ ~readsWithoutSnapshot) =>
           \A f \in Fields :
             LET before == node[stmt[w].id].props[f] IN
             node'[stmt[w].id].props[f] # before => before = object[w].props[f]]_vars
  BY <1>1
<1> QED BY KeptAtFirst, NextKept, <1>2, PTL DEF Spec, NoLostUpdate

\* Where a read takes a snapshot, a save that replaces relationships removes
\* none it was not loaded with (SaveStatementBuilder.ts:252).
THEOREM ReplacingKeepsOthers ==
  ASSUME "partFirst" \notin Uses
  PROVE  Spec => ReplaceKeepsOthers
<1>1. ASSUME Kept, [Next]_vars, NEW w \in Writers, ~readsWithoutSnapshot, Overwrites(w)
      PROVE  node[stmt[w].id].links \ node'[stmt[w].id].links \subseteq object[w].links
  <2> DEFINE n == stmt[w].id
  <2>1. /\ n = object[w].id /\ node[n] # None /\ node[n] \in Stored /\ Checked(w, node[n])
        /\ object[w] # None /\ node'[n] = After(w, node[n])
    BY <1>1, OverwritesWhatItChecked DEF Kept
  <2>2. node'[n].links = IF stmt[w].replace THEN stmt[w].links ELSE node[n].links \cup stmt[w].links
    BY <2>1 DEF After, Rewritten
  <2>3. CASE stmt[w].replace
    <3>1. SpeaksOf(object[w], node[n])
      BY <1>1, <2>1 DEF Kept, Truth
    <3> QED BY <2>1, <2>3, <3>1 DEF SpeaksOf, Checked
  <2>4. CASE ~stmt[w].replace
    BY <2>2, <2>4
  <2> QED BY <2>3, <2>4
<1>2. Kept /\ [Next]_vars => [\A w \in Writers : ~readsWithoutSnapshot => KeepsOthers(w)]_vars
  BY <1>1 DEF KeepsOthers
<1> QED BY KeptAtFirst, NextKept, <1>2, PTL DEF Spec, ReplaceKeepsOthers

\* A call that runs no statement keeps none.
NoIdleStatement == \A w \in Writers : ~Pending(w) => stmt[w] = None

LEMMA NextNoIdleStatement == Types /\ NoIdleStatement /\ [Next]_vars => NoIdleStatement'
<1> SUFFICES ASSUME Types, NoIdleStatement, [Next]_vars, NEW w \in Writers, ~Pending(w)' PROVE stmt'[w] = None
  BY DEF NoIdleStatement
<1>1. CASE pc'[w] = pc[w] /\ stmt'[w] = stmt[w]
  BY <1>1 DEF NoIdleStatement, Pending
<1>2. CASE WriterStep(w)
  <2> USE DEF Types, TypeOK, Pending
  <2>1. ASSUME NEW n \in Nodes, Load(w, n) \/ Update(w, n) \/ New(w, n) PROVE stmt'[w] = None
    BY <2>1 DEF Load, Update, LoadFor, Read, New, Between, NoIdleStatement
  <2>2. CASE LoadAgain(w) \/ ReadRest(w)
    BY <2>2 DEF LoadAgain, LoadFor, Read, ReadRest, NoIdleStatement
  <2>3. CASE Saves(w)
    <3>1. ASSUME NEW kind, NEW fs, NEW p, NEW k, NEW replace, NEW compared, Send(w, kind, fs, p, k, replace, compared)
          PROVE  FALSE
      BY <3>1 DEF Send
    <3> QED BY <2>3, <3>1 DEF Saves, Save, SaveChange, Create, SaveAll
  <2>4. CASE ChangeThrows(w) \/ BatchReads(w) \/ BatchWrites(w) \/ Applied(w)
    BY <2>4 DEF ChangeThrows, BatchReads, BatchWrites, Applied, HandBack, Ends
  <2>5. CASE NoRow(w) \/ StaleObject(w) \/ TurnedAway(w) \/ Lost(w)
    BY <2>5 DEF NoRow, StaleObject, TurnedAway, Lost, Contended, Ends, TriesAgain
  <2> QED BY <1>2, <2>1, <2>2, <2>3, <2>4, <2>5 DEF WriterStep
<1> QED BY <1>1, <1>2, OwnStep

\* An object whose node another writer changed is as stale after its own
\* statement as before it, so that the next checked save of it is refused
\* (Stamps.ts:43-52).
THEOREM StaleStaysStale ==
  ASSUME "partFirst" \notin Uses
  PROVE  Spec => StaleUntilLoaded
<1>1. Init => NoIdleStatement
  BY DEF Init, NoIdleStatement
<1>2. ASSUME Kept, NoIdleStatement, [Next]_vars, NEW w \in Writers, stmt[w] # None, ~readsWithoutSnapshot, Stale(w)
      PROVE  object'[w].stamp.data = object[w].stamp.data
  <2>1. Pending(w) /\ pc[w] \in {"writing", "refused"}
    BY <1>2 DEF NoIdleStatement, Kept, Truth, Pending
  <2>2. CASE object'[w] = object[w]
    BY <2>2
  <2>3. CASE Applied(w)
    <3>1. object'[w] = HandedBack(w, node[stmt[w].id]) /\ stmt[w].id = object[w].id
      BY <1>2, <2>1, <2>3, PendingStamp DEF Applied, HandBack, Kept, Fresh, Types, TypeOK
    <3>2. object'[w].stamp = handedBack(object[w].stamp, node[stmt[w].id], After(w, node[stmt[w].id]).stamp)
      BY <3>1 DEF HandedBack
    <3> QED BY <1>2, <3>1, <3>2 DEF handedBack, Stale
  <2>4. CASE WriterStep(w) /\ ~Applied(w)
    <3>1. ASSUME NEW n \in Nodes, Load(w, n) \/ Update(w, n) \/ New(w, n) PROVE FALSE
      BY <2>1, <3>1 DEF Load, Update, New, Between
    <3>2. CASE Saves(w)
      BY <2>1, <3>2 DEF Saves
    <3>3. CASE LoadAgain(w) \/ ReadRest(w) \/ ChangeThrows(w) \/ BatchWrites(w)
      BY <2>1, <3>3 DEF LoadAgain, ReadRest, ChangeThrows, BatchWrites
    <3>4. CASE BatchReads(w) \/ NoRow(w) \/ StaleObject(w) \/ TurnedAway(w) \/ Lost(w)
      BY <3>4 DEF BatchReads, NoRow, StaleObject, TurnedAway, Lost
    <3> QED BY <2>4, <3>1, <3>2, <3>3, <3>4 DEF WriterStep
  <2> QED BY <1>2, <2>2, <2>3, <2>4, OwnStep DEF Kept, Fresh
<1>3. Kept /\ NoIdleStatement /\ [Next]_vars =>
        [\A w \in Writers : stmt[w] # None /\ ~readsWithoutSnapshot /\ Stale(w) =>
           object'[w].stamp.data = object[w].stamp.data]_vars
  BY <1>2
<1>4. Kept => Types
  BY DEF Kept, Fresh
<1> QED BY KeptAtFirst, NextKept, <1>1, NextNoIdleStatement, <1>3, <1>4, PTL DEF Spec, StaleUntilLoaded
=============================================================================
