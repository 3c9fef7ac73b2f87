---------------------------- MODULE StampedSaves ----------------------------
(***************************************************************************)
(* Loads and saves of the object manager, and the stamps that check them.  *)
(*                                                                         *)
(* A node carries a stamp of two tokens: one speaks for its properties,    *)
(* one for its relationships.  A write that changes either replaces its    *)
(* token with the one its statement offers.  An object carries the stamp   *)
(* it was loaded with, and a save of it writes only while the node still   *)
(* has the object's data token, and the links token too when it removes    *)
(* relationships.  A save hands the object the new tokens, each only if    *)
(* what it speaks for was as the object's stamp said.                      *)
(*                                                                         *)
(* Each writer works on one object, outside a transaction, so a statement  *)
(* is a transaction.  It takes the node's lock before it compares, and is  *)
(* one step; where the engine takes no snapshot (Neo4j), what it reads     *)
(* without the lock, it reads in a step of its own.                        *)
(***************************************************************************)
EXTENDS Naturals, FiniteSets

CONSTANTS
  Writers,        \* callers of the object manager, in one process or many
  Nodes,          \* the nodes saved, by id
  Fields, Values, \* the properties of a node, and what they may hold
  Targets,        \* what the nodes' relationships lead to, by id
  None,           \* no node, no object, no property
  Grammars,       \* the engines' grammars an instance tries
  Uses,           \* what the callers make use of, see Features
  Attempts,       \* of an update: UPDATE_ATTEMPTS unless given
  MaxStatements,  \* bound: the stamps offered in one behaviour, one by each statement that writes
  MaxLost         \* bound: the answers lost in one behaviour

\* replace: relationships are removed.  batches: saveAll.  partFirst: an object with no stamp is saved in part, some of
\* its properties left as the store has them.
Features == {"replace", "batches", "partFirst"}

ASSUME ConstantsAssumption ==
  /\ Grammars \subseteq {"NEO4J", "MEMGRAPH", "FALKORDB"}
  /\ Uses \subseteq Features
  /\ None \notin Nodes \cup Values
  /\ Attempts \in Nat \ {0} /\ MaxStatements \in Nat \ {0} /\ MaxLost \in Nat

VARIABLES
  grammar,   \* the store's
  node,      \* per id: what the store holds, None when no node has it
  offered,   \* the last stamp offered: each statement offers a fresh one
  object,    \* per writer: the object it holds, as loaded or as its last save left it, with the stamp it carries
  pc,        \* per writer: where its call is
  stmt,      \* per writer: the statement it runs, with what the caller made of the object
  seen,      \* per writer: what was read before the rest is read or written
  attempt,   \* per writer: the attempt of its update, 0 outside one
  lost       \* the answers lost

storeVars == <<grammar, node, offered, lost>>
callVars == <<pc, stmt, seen, attempt>>
vars == <<storeVars, object, callVars>>

Props == [Fields -> Values \cup {None}]
\* A token of 0 is none.  A node written before stamps has neither; an object may be handed the data token alone.
Tokens == 0..MaxStatements
Stamp == [data : Tokens, links : Tokens]
Stored == [props : Props, links : SUBSET Targets, stamp : Stamp]
Object == [id : Nodes, props : Props, links : SUBSET Targets, stamp : Stamp]
ASSUME NoneIsNoObject == None \notin Object
Statement == [kind : {"save", "create", "batch"}, id : Nodes, writes : SUBSET Fields, props : Props,
              links : SUBSET Targets, replace : BOOLEAN, compared : BOOLEAN, stamp : Tokens, turned : BOOLEAN]
Pcs == {"idle", "reading", "holding", "writing", "locking", "refused", "again"}

TypeOK ==
  /\ grammar \in Grammars
  /\ node \in [Nodes -> Stored \cup {None}]
  /\ offered \in Tokens /\ lost \in 0..MaxLost
  /\ object \in [Writers -> Object \cup {None}]
  /\ pc \in [Writers -> Pcs]
  /\ stmt \in [Writers -> Statement \cup {None}]
  /\ seen \in [Writers -> Object \cup {None}]
  /\ attempt \in [Writers -> 0..Attempts]
  /\ \A w \in Writers :
       /\ pc[w] = "reading" => seen[w] \in Object
       /\ pc[w] \notin {"idle", "reading"} => object[w] \in Object
       /\ pc[w] \in {"writing", "locking", "refused"} => stmt[w] \in Statement /\ stmt[w].id = object[w].id

Unstamped == [data |-> 0, links |-> 0]

Init ==
  /\ grammar \in Grammars
  /\ node \in [Nodes -> {None} \cup [props : Props, links : SUBSET Targets, stamp : {Unstamped, [data |-> 1, links |-> 1]}]]
  /\ offered = 1 /\ lost = 0
  /\ object = [w \in Writers |-> None]
  /\ pc = [w \in Writers |-> "idle"]
  /\ stmt = [w \in Writers |-> None]
  /\ seen = [w \in Writers |-> None]
  /\ attempt = [w \in Writers |-> 0]

-----------------------------------------------------------------------------
(* Stamps.  A definition with With or Without in its name is a mutant: the *)
(* one after it, with a mistake the code does not make.                    *)

readsWithoutSnapshot == grammar = "NEO4J"

\* Replaces the token that speaks for a node's properties when they change, and gives a node that has none a whole stamp.
restamp(stamp, changed, t) ==
  IF stamp = Unstamped THEN [data |-> t, links |-> t]
  ELSE IF changed THEN [stamp EXCEPT !.data = t] ELSE stamp

\* The same for the token that speaks for its relationships.
relink(stamp, changed, t) ==
  IF stamp = Unstamped THEN [data |-> t, links |-> t]
  ELSE IF changed THEN [stamp EXCEPT !.links = t] ELSE stamp

\* n, None or a node, given properties p and relationships k by a statement that offers t.
Rewritten(n, p, k, t) ==
  [props |-> p, links |-> k,
   stamp |-> IF n = None THEN [data |-> t, links |-> t] ELSE relink(restamp(n.stamp, p # n.props, t), k # n.links, t)]

\* The stamp an object is handed back; found is None when the save made the node.
handedBackWithoutFound(carried, found, now) == now
handedBack(carried, found, now) ==
  LET was == IF found = None THEN Unstamped ELSE found.stamp IN
  IF carried = Unstamped THEN IF found = None THEN now ELSE [now EXCEPT !.links = 0]
  ELSE [data  |-> IF carried.data = was.data THEN now.data ELSE carried.data,
        links |-> IF carried.links = was.links THEN now.links ELSE carried.links]

-----------------------------------------------------------------------------
(* Loads. *)

Between(w) == pc[w] \in {"idle", "holding"} /\ attempt[w] = 0
AsRead(n) == [id |-> n, props |-> node[n].props, links |-> node[n].links, stamp |-> node[n].stamp]
Hold(w, o) == object' = [object EXCEPT ![w] = o] /\ pc' = [pc EXCEPT ![w] = "holding"]

\* A load is one query.  Without a snapshot, what it reads first another writer may change before it reads the rest.
Read(w, n) ==
  /\ IF node[n] # None /\ ~readsWithoutSnapshot THEN Hold(w, AsRead(n)) /\ UNCHANGED seen
     ELSE /\ object' = [object EXCEPT ![w] = None]
          /\ IF node[n] = None THEN pc' = [pc EXCEPT ![w] = "idle"] /\ UNCHANGED seen
             ELSE pc' = [pc EXCEPT ![w] = "reading"] /\ seen' = [seen EXCEPT ![w] = AsRead(n)]
  /\ UNCHANGED <<storeVars, stmt>>

ReadRest(w) ==
  LET first == seen[w]
      now == IF node[first.id] = None THEN first ELSE AsRead(first.id)
  IN
  /\ pc[w] = "reading"
  /\ \E fs \in SUBSET Fields, k \in {first.links, now.links}, s \in {first.stamp, now.stamp} :
       Hold(w, [id |-> first.id, props |-> [f \in Fields |-> IF f \in fs THEN first.props[f] ELSE now.props[f]],
                links |-> k, stamp |-> s])
  /\ seen' = [seen EXCEPT ![w] = None]
  /\ UNCHANGED <<storeVars, stmt, attempt>>

Load(w, n) == Between(w) /\ Read(w, n) /\ UNCHANGED attempt

\* update loads the object, changes it and saves it, and does so again when the save is refused.
LoadFor(w, n, again) ==
  /\ Read(w, n)
  /\ attempt' = [attempt EXCEPT ![w] = IF node[n] = None THEN 0 ELSE again]
Update(w, n) == Between(w) /\ LoadFor(w, n, 1)
LoadAgain(w) == pc[w] = "again" /\ LoadFor(w, object[w].id, attempt[w] + 1)

\* The caller makes an object of its own, which carries no stamp.
New(w, n) ==
  /\ Between(w)
  /\ Hold(w, [id |-> n, props |-> [f \in Fields |-> None], links |-> {}, stamp |-> Unstamped])
  /\ UNCHANGED <<storeVars, stmt, seen, attempt>>

-----------------------------------------------------------------------------
(* Saves: the caller makes p of the object's properties and k of its       *)
(* relationships, and sends the statement.                                 *)

\* The properties a save writes of the fields it is to save: one that is not set only to clear it.
Written(p, only, clear) == {f \in only : p[f] # None \/ clear}

Send(w, kind, writes, p, k, replace, compared) ==
  /\ pc[w] = "holding"
  /\ object[w].stamp = Unstamped => writes = Fields \/ "partFirst" \in Uses
  /\ replace => "replace" \in Uses
  /\ offered < MaxStatements /\ offered' = offered + 1
  /\ stmt' = [stmt EXCEPT ![w] =
       [kind |-> kind, id |-> object[w].id, writes |-> writes,
        props |-> [f \in Fields |-> IF f \in writes THEN p[f] ELSE None],
        links |-> k, replace |-> replace, compared |-> compared, stamp |-> offered', turned |-> FALSE]]
  /\ pc' = [pc EXCEPT ![w] = "writing"]
  /\ UNCHANGED <<grammar, node, lost, object, seen, attempt>>

\* save, which is given the object as loaded (from) when compared.
Save(w, p, k, only, clear, replace, compared) ==
  /\ attempt[w] = 0
  /\ compared => readsWithoutSnapshot /\ object[w].stamp # Unstamped
  /\ Send(w, "save", Written(p, only, clear), p, k, replace, compared)

\* update writes what the change altered, and replaces the relationships if one was lost.
SaveChange(w, p, k) ==
  /\ attempt[w] > 0
  /\ Send(w, "save", {f \in Fields : p[f] # object[w].props[f]}, p, k, ~(object[w].links \subseteq k), readsWithoutSnapshot)

Create(w, p, k) ==
  /\ attempt[w] = 0 /\ object[w].stamp = Unstamped
  /\ Send(w, "create", Written(p, Fields, FALSE), p, k, FALSE, FALSE)

\* saveAll, of a fragment: its properties alone.
SaveAll(w, p, only, clear) ==
  /\ attempt[w] = 0 /\ "batches" \in Uses
  /\ Send(w, "batch", Written(p, only, clear), p, {}, FALSE, FALSE)

-----------------------------------------------------------------------------
(* The statement runs. *)

Ends(w) ==
  /\ pc' = [pc EXCEPT ![w] = "holding"] /\ stmt' = [stmt EXCEPT ![w] = None]
  /\ attempt' = [attempt EXCEPT ![w] = 0]

\* update loads again, if it has an attempt left.
MayTryAgain(w) == attempt[w] \in 1..(Attempts - 1)
TriesAgainWithCount(w) ==
  /\ pc' = [pc EXCEPT ![w] = "again"] /\ stmt' = [stmt EXCEPT ![w] = None]
  /\ attempt' = [attempt EXCEPT ![w] = @ + 1]
TriesAgain(w) ==
  /\ pc' = [pc EXCEPT ![w] = "again"] /\ stmt' = [stmt EXCEPT ![w] = None]
  /\ UNCHANGED attempt

ChangeThrows(w) ==
  /\ pc[w] = "holding" /\ attempt[w] > 0 /\ Ends(w)
  /\ UNCHANGED <<storeVars, object, seen>>

Expects(w) == stmt[w].kind = "save" /\ object[w].stamp # Unstamped

\* What the save of an object that carries a stamp requires of the node, under its lock.
CheckedWithoutLinks(w, n) ==
  /\ n # None /\ n.stamp.data = object[w].stamp.data
  /\ stmt[w].compared => n.props = object[w].props
CheckedWithoutFields(w, n) ==
  /\ n # None /\ n.stamp.data = object[w].stamp.data
  /\ stmt[w].replace => object[w].stamp.links # 0 /\ n.stamp.links = object[w].stamp.links
Checked(w, n) ==
  /\ n # None /\ n.stamp.data = object[w].stamp.data
  /\ stmt[w].replace => object[w].stamp.links # 0 /\ n.stamp.links = object[w].stamp.links
  /\ stmt[w].compared => n.props = object[w].props

Accepts(w) ==
  LET n == node[stmt[w].id] IN
  /\ Expects(w) => Checked(w, n)
  /\ stmt[w].kind = "create" => n = None

\* What a statement leaves of n, None or a node: the properties it writes, and its relationships beside those there or in
\* their place.
After(w, n) ==
  Rewritten(n,
    [f \in Fields |-> IF f \in stmt[w].writes THEN stmt[w].props[f] ELSE IF n = None THEN None ELSE n.props[f]],
    IF n = None \/ stmt[w].replace THEN stmt[w].links ELSE n.links \cup stmt[w].links,
    stmt[w].stamp)

Store(w) == node' = [node EXCEPT ![stmt[w].id] = After(w, @)]

\* The object after its save: handed the stamp the statement left, where it found the node so.
HandedBack(w, found) ==
  LET o == object[w]
      now == After(w, node[stmt[w].id])
      fresh(f) == found = None \/ f \in stmt[w].writes
  IN
  [id |-> o.id,
   props |-> [f \in Fields |-> IF fresh(f) THEN now.props[f] ELSE o.props[f]],
   links |-> IF found = None \/ stmt[w].replace THEN stmt[w].links ELSE o.links \cup stmt[w].links,
   stamp |-> handedBack(o.stamp, found, now.stamp)]
HandBack(w, found) == object' = [object EXCEPT ![w] = HandedBack(w, found)] /\ Ends(w)

\* A batch reads the stamps before it takes the locks.
BatchReads(w) ==
  /\ pc[w] = "writing" /\ stmt[w].kind = "batch" /\ readsWithoutSnapshot
  /\ seen' = [seen EXCEPT ![w] = IF node[stmt[w].id] = None THEN None ELSE AsRead(stmt[w].id)]
  /\ pc' = [pc EXCEPT ![w] = "locking"]
  /\ UNCHANGED <<storeVars, object, stmt, attempt>>

BatchWrites(w) ==
  /\ pc[w] = "locking"
  /\ Store(w) /\ HandBack(w, seen[w])
  /\ seen' = [seen EXCEPT ![w] = None]
  /\ UNCHANGED <<grammar, offered, lost>>

Applied(w) ==
  /\ pc[w] = "writing" /\ Accepts(w)
  /\ ~(stmt[w].kind = "batch" /\ readsWithoutSnapshot)
  /\ Store(w) /\ HandBack(w, node[stmt[w].id])
  /\ UNCHANGED <<grammar, offered, lost, seen>>

\* No row: a create found a node, and returns undefined; or the node was not as the object's stamp says.
NoRow(w) ==
  /\ pc[w] = "writing" /\ ~Accepts(w)
  /\ \/ stmt[w].kind = "create" /\ Ends(w)
     \/ stmt[w].kind = "save" /\ pc' = [pc EXCEPT ![w] = "refused"] /\ UNCHANGED <<stmt, attempt>>
  /\ UNCHANGED <<storeVars, object, seen>>

\* A refused save asks what the node carries now.  It throws StaleObjectException, and the update it is of loads again
\* unless the node is gone.
StaleObject(w) ==
  /\ pc[w] = "refused"
  /\ IF MayTryAgain(w) /\ node[stmt[w].id] # None THEN TriesAgain(w) ELSE Ends(w)
  /\ UNCHANGED <<storeVars, object, seen>>

\* Turned away at the end: a checked save throws StaleObjectException, and the update it is of loads again.
Contended(w) == IF MayTryAgain(w) /\ Expects(w) THEN TriesAgain(w) ELSE Ends(w)

\* The engine turns the statement away while another writer holds the node.  It is run again, CONTENDED_ATTEMPTS times.
TurnedAway(w) ==
  /\ pc[w] \in {"writing", "locking"}
  /\ \E v \in Writers \ {w} : pc[v] \in {"writing", "locking"}
  /\ \/ pc' = [pc EXCEPT ![w] = "writing"] /\ stmt' = [stmt EXCEPT ![w].turned = TRUE] /\ UNCHANGED attempt
     \/ stmt[w].turned /\ Contended(w)
  /\ seen' = [seen EXCEPT ![w] = None]
  /\ UNCHANGED <<storeVars, object>>

\* The connection went before the answer came: the statement was applied, or it was not, and is not run again.  What is
\* thrown is the first failure: that the statement was turned away, if it was before.
LostWithRetry(w) ==
  /\ pc[w] = "writing" /\ lost < MaxLost /\ lost' = lost + 1
  /\ stmt[w].kind # "batch" /\ Accepts(w) /\ Store(w)
  /\ UNCHANGED <<grammar, offered, object, callVars>>
Lost(w) ==
  /\ pc[w] = "writing" /\ lost < MaxLost /\ lost' = lost + 1
  /\ \/ Accepts(w) /\ Store(w)
     \/ UNCHANGED node
  /\ IF stmt[w].turned THEN Contended(w) ELSE Ends(w)
  /\ UNCHANGED <<grammar, offered, object, seen>>

-----------------------------------------------------------------------------
(* Writes by id, which load nothing: patch, relate, unrelate and delete. *)

Rewrite(n, p, k) ==
  /\ offered < MaxStatements /\ offered' = offered + 1
  /\ node' = [node EXCEPT ![n] = Rewritten(@, p, k, offered')]
  /\ UNCHANGED <<grammar, lost, object, callVars>>

Patch(n, f, v) == node[n] # None /\ Rewrite(n, [node[n].props EXCEPT ![f] = v], node[n].links)
Relate(n, t) == node[n] # None /\ Rewrite(n, node[n].props, node[n].links \cup {t})
Unrelate(n, t) == node[n] # None /\ t \in node[n].links /\ Rewrite(n, node[n].props, node[n].links \ {t})

Delete(n) ==
  /\ node[n] # None /\ node' = [node EXCEPT ![n] = None]
  /\ UNCHANGED <<grammar, offered, lost, object, callVars>>

-----------------------------------------------------------------------------
Parts == {Fields} \cup {{f} : f \in Fields}

Saves(w) ==
  /\ pc[w] = "holding"
  /\ \E p \in Props, k \in SUBSET Targets :
       \/ \E only \in Parts, clear, replace, compared \in BOOLEAN : Save(w, p, k, only, clear, replace, compared)
       \/ SaveChange(w, p, k) \/ Create(w, p, k)
       \/ \E only \in Parts, clear \in BOOLEAN : SaveAll(w, p, only, clear)

WriterStep(w) ==
  \/ \E n \in Nodes : Load(w, n) \/ Update(w, n) \/ New(w, n)
  \/ ReadRest(w) \/ LoadAgain(w)
  \/ Saves(w) \/ ChangeThrows(w)
  \/ BatchReads(w) \/ BatchWrites(w) \/ Applied(w)
  \/ NoRow(w) \/ StaleObject(w) \/ TurnedAway(w) \/ Lost(w)

NodeStep(n) ==
  \/ \E f \in Fields, v \in Values \cup {None} : Patch(n, f, v)
  \/ \E t \in Targets : Relate(n, t) \/ Unrelate(n, t)
  \/ Delete(n)

Next == (\E w \in Writers : WriterStep(w)) \/ (\E n \in Nodes : NodeStep(n))

Spec == Init /\ [][Next]_vars

-----------------------------------------------------------------------------
(* What the stamps promise. *)

\* Where a read takes a snapshot, an object's stamp speaks for what the writer holds: while the node carries the same
\* data token its properties are the object's, and while it carries the same links token it has no relationship the
\* object does not.
StampSpeaksTrue ==
  \A w \in Writers : object[w] # None /\ ~readsWithoutSnapshot =>
    LET n == node[object[w].id]
        s == object[w].stamp
    IN
    n # None =>
      /\ s.data # 0 /\ s.data = n.stamp.data => n.props = object[w].props
      /\ s.links # 0 /\ s.links = n.stamp.links => n.links \subseteq object[w].links

\* The step in which a checked save of w's is applied.
Overwrites(w) == pc[w] = "writing" /\ pc'[w] # "writing" /\ Expects(w) /\ node' # node

\* A checked save overwrites a property only with the value the object was loaded with still there: on Neo4j, where a
\* load can be handed another writer's stamp with older data, a save that is given what was loaded.
NoLostUpdate ==
  [][\A w \in Writers : Overwrites(w) /\ (stmt[w].compared \/ ~readsWithoutSnapshot) =>
       \A f \in Fields :
         LET before == node[stmt[w].id].props[f] IN
         node'[stmt[w].id].props[f] # before => before = object[w].props[f]]_vars

\* A save that replaces relationships removes none that the object was loaded without: where a read takes a snapshot,
\* and of any save that is given what was loaded.
KeepsOthers(w) == Overwrites(w) => node[stmt[w].id].links \ node'[stmt[w].id].links \subseteq object[w].links
ReplaceKeepsOthers == [][\A w \in Writers : ~readsWithoutSnapshot => KeepsOthers(w)]_vars
UpdateKeepsOthers == [][\A w \in Writers : stmt[w] # None /\ stmt[w].compared => KeepsOthers(w)]_vars

\* A save that is refused was not applied: no node carries a token it offered.
RefusedIsNotApplied ==
  \A w \in Writers : pc[w] = "refused" =>
    \A n \in Nodes : node[n] # None => stmt[w].stamp \notin {node[n].stamp.data, node[n].stamp.links}

\* An update loads again only if its save was not applied, so that its change is applied once.
UpdateAppliesOnce ==
  [][\A w \in Writers : stmt[w] # None /\ pc'[w] = "again" =>
       \A n \in Nodes : node'[n] # None => stmt[w].stamp \notin {node'[n].stamp.data, node'[n].stamp.links}]_vars

\* An object whose node another writer changed stays as stale as it is until it is loaded again: a batch writes it and
\* leaves it the stamp it had.
Stale(w) == object[w].stamp # Unstamped /\ node[object[w].id] # None /\ node[object[w].id].stamp.data # object[w].stamp.data
StaleUntilLoaded ==
  [][\A w \in Writers : stmt[w] # None /\ ~readsWithoutSnapshot /\ Stale(w) =>
       object'[w].stamp.data = object[w].stamp.data]_vars

=============================================================================
