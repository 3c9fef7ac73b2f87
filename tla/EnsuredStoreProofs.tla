------------------------- MODULE EnsuredStoreProofs -------------------------
(***************************************************************************)
(* Proofs about EnsuredStore, for any number of statements, connections    *)
(* and attempts: the run of the block that a provider keeps, and the       *)
(* making of the store that the statements wait for, are each one promise  *)
(* shared by all who ask (SharedPromise).                                  *)
(***************************************************************************)
EXTENDS EnsuredStore, FiniteSetTheorems, SequenceTheorems, TLAPS

Failures == [kind : {"none", "deadlock", "busy", "other"}, given : BOOLEAN]
Runs == [state : {"pending", "made", "warned", "failed"}, failure : Failures]

Busy == {"connect", "opening", "waiting", "naming", "using", "failed"}

\* Who waits, waits for a run or a making that was begun, and the maker is at
\* work exactly while the making kept is pending.
Shape ==
  /\ at \in [Users -> {"idle", "storeWait"} \cup Busy]
  /\ runs \in Seq(Runs) /\ made \in 0..Len(runs)
  /\ awaits \in [Users -> Nat]
  /\ \A u \in Users : at[u] = "waiting" => awaits[u] \in 1..Len(runs)
  /\ makings \in Seq({"pending", "kept", "rejected"}) /\ store \in 0..Len(makings)
  /\ mine \in [Callers -> Nat]
  /\ \A c \in Callers : at[c] = "storeWait" => mine[c] \in 1..Len(makings)
  /\ at[Maker] = "idle" \/ (at[Maker] \in Busy /\ store # 0 /\ makings[store] = "pending")
  /\ failure \in [Users -> Failures] /\ first \in Failures \cup {None}

LEMMA ShapeAtFirst == Init => Shape
BY MakerIsNoCaller DEF Init, FirstInit, Shape, Fine, Failure, Failures

\* What a user's connect does to the promises.
LEMMA EnsuredShape ==
  ASSUME Shape, NEW u \in Users, NEW h, Ensured(u, h), at[u] \in Busy,
         UNCHANGED <<failure, store, makings, mine, first>>
  PROVE  Shape'
<1> USE DEF Shape
<1>1. at' = [at EXCEPT ![u] = "waiting"] /\ awaits' = [awaits EXCEPT ![u] = made']
  BY DEF Ensured, NoRun
<1>2. CASE made = 0
  <2>1. made' = Len(runs) + 1 /\ runs' = Append(runs, Run("pending", Fine))
    BY <1>2 DEF Ensured, NoRun
  <2>2. Run("pending", Fine) \in Runs
    BY DEF Run, Fine, Failure, Runs, Failures
  <2>3. runs' \in Seq(Runs) /\ Len(runs') = Len(runs) + 1 /\ Len(runs) \in Nat
    BY <2>1, <2>2
  <2> QED BY <1>1, <2>1, <2>3, MakerIsNoCaller DEF Busy
<1>3. CASE made # 0
  <2>1. made' = made /\ runs' = runs
    BY <1>3 DEF Ensured, NoRun
  <2> QED BY <1>1, <1>3, <2>1, MakerIsNoCaller DEF Busy
<1> QED BY <1>2, <1>3

LEMMA ProvideShape ==
  ASSUME Shape, NEW u \in Users, Provided(u)
  PROVE  Shape'
<1> USE DEF Shape, provider
<1>m. UNCHANGED <<store, makings, mine, first>>
  BY DEF Provided
<1>1. CASE Connect(u)
  <2>1. CASE idle # << >>
    <3>1. Ensured(u, idle[Len(idle)]) /\ at[u] \in Busy /\ UNCHANGED failure
      BY <1>1, <2>1 DEF Connect, Busy
    <3> QED BY <1>m, <3>1, EnsuredShape
  <2>2. CASE idle = << >>
    <3>1. /\ at[u] = "connect" /\ at' = [at EXCEPT ![u] = "opening"]
          /\ UNCHANGED <<made, runs, awaits, failure>>
      BY <1>1, <2>2 DEF Connect
    <3> QED BY <1>m, <3>1, MakerIsNoCaller DEF Busy
  <2> QED BY <2>1, <2>2
<1>2. CASE Opened(u)
  <2>1. PICK h : Ensured(u, h)
    BY <1>2 DEF Opened
  <2>2. at[u] \in Busy /\ UNCHANGED failure
    BY <1>2 DEF Opened, Busy
  <2> QED BY <1>m, <2>1, <2>2, EnsuredShape
<1>3. CASE OpenFails(u)
  <2>1. PICK kind \in Kinds :
          /\ at[u] = "opening" /\ at' = [at EXCEPT ![u] = "failed"]
          /\ failure' = [failure EXCEPT ![u] = Failure(kind, FALSE)]
          /\ UNCHANGED <<made, runs, awaits>>
    BY <1>3 DEF OpenFails
  <2>2. Failure(kind, FALSE) \in Failures
    BY DEF Failure, Failures, Kinds
  <2> QED BY <1>m, <2>1, <2>2, MakerIsNoCaller DEF Busy
<1>4. CASE Woken(u)
  <2>1. /\ at[u] = "waiting" /\ UNCHANGED <<made, runs, awaits>>
        /\ \/ at' = [at EXCEPT ![u] = IF engine = "ORACLE" THEN "naming" ELSE "using"] /\ UNCHANGED failure
           \/ /\ at' = [at EXCEPT ![u] = "failed"]
              /\ failure' = [failure EXCEPT ![u] = runs[awaits[u]].failure]
    BY <1>4 DEF Woken, TurnedAway
  <2>2. runs[awaits[u]] \in Runs
    BY <2>1
  <2> QED BY ZenonT(40), <1>m, <2>1, <2>2, MakerIsNoCaller DEF Busy, Runs
<1>5. CASE Named(u)
  BY <1>5, <1>m, MakerIsNoCaller DEF Named, Busy
<1>6. CASE NamingFails(u)
  BY <1>6, <1>m, MakerIsNoCaller DEF NamingFails, Busy, Failure, Failures
<1> QED BY <1>1, <1>2, <1>3, <1>4, <1>5, <1>6 DEF Provided, Provide

LEMMA NextShape == Shape /\ [Next]_vars => Shape'
<1> SUFFICES ASSUME Shape, [Next]_vars PROVE Shape'
  OBVIOUS
<1> USE MakerIsNoCaller DEF Shape, provider, making
<1>1. ASSUME NEW c \in Callers, NEW nth, NEW failures, Await(c, nth, failures) PROVE Shape'
  <2>1. CASE store = 0
    <3>1. /\ store' = Len(makings) + 1 /\ makings' = Append(makings, "pending")
          /\ at' = [at EXCEPT ![c] = "storeWait", ![Maker] = "connect"]
          /\ mine' = [mine EXCEPT ![c] = store']
          /\ UNCHANGED <<made, runs, awaits, failure>> /\ first' = None
      BY <1>1, <2>1 DEF Await, NoMaking
    <3>2. /\ makings' \in Seq({"pending", "kept", "rejected"}) /\ Len(makings') = Len(makings) + 1
          /\ makings'[store'] = "pending" /\ Len(makings) \in Nat
      BY <3>1
    <3>3. at' \in [Users -> {"idle", "storeWait"} \cup Busy] /\ mine' \in [Callers -> Nat]
      <4>1. "storeWait" \in {"idle", "storeWait"} \cup Busy /\ "connect" \in {"idle", "storeWait"} \cup Busy
        BY DEF Busy
      <4>2. store' \in Nat
        BY <3>1, <3>2
      <4> QED BY <3>1, <4>1, <4>2
    <3>4. at'[Maker] \in Busy /\ \A u \in Users : at'[u] = "waiting" => at[u] = "waiting"
      BY <3>1 DEF Busy
    <3>5. ASSUME NEW d \in Callers, at'[d] = "storeWait" PROVE mine'[d] \in 1..Len(makings')
      <4>1. CASE d = c
        BY <3>1, <3>2, <4>1
      <4>2. CASE d # c
        BY <3>1, <3>2, <3>5, <4>2
      <4> QED BY <4>1, <4>2
    <3>6. store' \in 0..Len(makings') /\ store' # 0
      BY <3>1, <3>2
    <3> QED BY <3>1, <3>2, <3>3, <3>4, <3>5, <3>6
  <2>2. CASE store # 0
    <3>1. /\ at' = [at EXCEPT ![c] = "storeWait"] /\ mine' = [mine EXCEPT ![c] = store]
          /\ UNCHANGED <<store, makings, made, runs, awaits, failure, first>>
      BY <1>1, <2>2 DEF Await, NoMaking
    <3> QED BY <2>2, <3>1
  <2> QED BY <2>1, <2>2
<1>2. ASSUME NEW c \in Callers, StoreReady(c) PROVE Shape'
  <2>1. /\ at' \in {[at EXCEPT ![c] = "connect"], [at EXCEPT ![c] = "failed"]}
        /\ at[c] = "storeWait"
        /\ UNCHANGED <<store, makings, mine, made, runs, awaits, failure, first>>
    BY <1>2 DEF StoreReady
  <2> QED BY <2>1 DEF Busy
<1>3. ASSUME NEW u \in Users, Queried(u) PROVE Shape'
  <2>1. /\ at[u] = "using" /\ at' = [at EXCEPT ![u] = "idle"]
        /\ UNCHANGED <<store, mine, made, runs, awaits, failure, first>>
    BY <1>3 DEF Queried
  <2>2. CASE u = Maker
    <3>1. makings' = [makings EXCEPT ![store] = "kept"]
      BY <1>3, <2>2 DEF Queried
    <3>2. store \in 1..Len(makings)
      BY <2>1, <2>2 DEF Busy
    <3>3. makings' \in Seq({"pending", "kept", "rejected"}) /\ Len(makings') = Len(makings)
      BY <3>1, <3>2
    <3> QED BY <2>1, <2>2, <3>3 DEF Busy
  <2>3. CASE u # Maker
    <3>1. makings' = makings
      BY <1>3, <2>3 DEF Queried
    <3> QED BY <2>1, <2>3, <3>1 DEF Busy
  <2> QED BY <2>2, <2>3
<1>4. ASSUME NEW u \in Users, QueryFails(u) PROVE Shape'
  <2>1. PICK kind \in Kinds :
          /\ at[u] = "using" /\ at' = [at EXCEPT ![u] = "failed"]
          /\ failure' = [failure EXCEPT ![u] = Failure(kind, FALSE)]
          /\ UNCHANGED <<store, makings, mine, made, runs, awaits, first>>
    BY <1>4 DEF QueryFails
  <2>2. Failure(kind, FALSE) \in Failures
    BY DEF Failure, Failures, Kinds
  <2> QED BY <2>1, <2>2 DEF Busy
<1>5. ASSUME NEW u \in Users, Provided(u) PROVE Shape'
  BY <1>5, ProvideShape
<1>6. CASE MakerRunsAgain
  <2>1. /\ at[Maker] = "failed" /\ at' = [at EXCEPT ![Maker] = "connect"]
        /\ first' \in {first, failure[Maker]}
        /\ UNCHANGED <<store, makings, mine, made, runs, awaits, failure>>
    BY <1>6 DEF MakerRunsAgain
  <2> QED BY <2>1 DEF Busy
<1>g. CASE MakerGivesUp
  <2>1. /\ at[Maker] = "failed" /\ UNCHANGED <<mine, made, runs, awaits, first>>
        /\ at' = [at EXCEPT ![Maker] = "idle"] /\ store' = 0
        /\ makings' = [makings EXCEPT ![store] = "rejected"]
    BY <1>g DEF MakerGivesUp
  <2>2. store \in 1..Len(makings)
    BY <2>1
  <2>3. makings' \in Seq({"pending", "kept", "rejected"}) /\ Len(makings') = Len(makings)
    BY <2>1, <2>2
  <2>4. failure' \in [Users -> Failures]
    <3> DEFINE thrown == IF first = None THEN failure[Maker] ELSE first
    <3>1. thrown \in Failures /\ Failure(thrown.kind, TRUE) \in Failures
      BY DEF Failure, Failures
    <3>2. failure' = [u \in Users |->
            IF u \in Callers /\ at[u] = "storeWait" /\ mine[u] = store
            THEN Failure(thrown.kind, TRUE) ELSE failure[u]]
      BY <1>g DEF MakerGivesUp
    <3> HIDE DEF thrown
    <3> QED BY <3>1, <3>2
  <2> QED BY <2>1, <2>3, <2>4
<1>f. ASSUME NEW c \in Callers, StatementFailed(c) PROVE Shape'
  <2>1. CASE RunAgain(c)
    BY <1>f, <2>1, <1>1 DEF StatementFailed
  <2>2. CASE ~RunAgain(c)
    <3>1. /\ at[c] = "failed" /\ at' = [at EXCEPT ![c] = "idle"] /\ failure' = [failure EXCEPT ![c] = Fine]
          /\ UNCHANGED <<store, makings, mine, made, runs, awaits, first>>
      BY <1>f, <2>2 DEF StatementFailed
    <3>2. Fine \in Failures
      BY DEF Fine, Failure, Failures
    <3> QED BY <3>1, <3>2 DEF Busy
  <2> QED BY <2>1, <2>2
<1>7. CASE Block /\ UNCHANGED making
  <2>1. UNCHANGED <<at, awaits, failure>>
    BY <1>7 DEF Block, BlockEnds, BlockTurnedAway, BlockFails
  <2>2. CASE runs' = runs
    BY <1>7, <2>1, <2>2 DEF Block, BlockEnds, BlockTurnedAway, BlockFails
  <2>3. CASE \E r \in Runs : made # 0 /\ runs' = [runs EXCEPT ![made] = r]
    <3>1. runs' \in Seq(Runs) /\ Len(runs') = Len(runs) /\ made' \in {made, 0}
      BY <1>7, <2>3 DEF Block, BlockEnds, BlockTurnedAway, BlockFails
    <3> QED BY <1>7, <2>1, <3>1
  <2>4. BlockTurnedAway => runs' = runs
    BY DEF BlockTurnedAway
  <2>5. BlockEnds => \E r \in Runs : made # 0 /\ runs' = [runs EXCEPT ![made] = r]
    BY DEF BlockEnds, Pending, Run, Fine, Failure, Runs, Failures
  <2>6. BlockFails => \E r \in Runs : made # 0 /\ runs' = [runs EXCEPT ![made] = r]
    BY DEF BlockFails, Pending, Run, Fine, Failure, Runs, Failures, Kinds
  <2> QED BY <1>7, <2>2, <2>3, <2>4, <2>5, <2>6 DEF Block
<1>8. CASE End /\ UNCHANGED making
  BY <1>8 DEF End
<1>9. CASE UNCHANGED vars
  BY <1>9 DEF vars
<1> QED BY <1>1, <1>2, <1>3, <1>4, <1>5, <1>6, <1>g, <1>f, <1>7, <1>8, <1>9
DEF Next, Step, Statement, MakerFailed

LEMMA AlwaysInShape == Spec => []Shape
BY ShapeAtFirst, NextShape, PTL DEF Spec

-----------------------------------------------------------------------------
(* The making of the store.                                                 *)

LEMMA MakingAtFirst == Init => FirstMaking!Init
BY MakerIsNoCaller DEF Init, FirstInit, FirstMaking!Init, MakingAwaited

LEMMA MakingSteps == Shape /\ [Next]_vars => [FirstMaking!Next]_FirstMaking!vars
<1> SUFFICES ASSUME Shape, [Next]_vars PROVE [FirstMaking!Next]_FirstMaking!vars
  OBVIOUS
<1> DEFINE waits == MakingAwaited
<1> USE MakerIsNoCaller DEF Shape, provider, making, MakingAwaited
<1>s. ASSUME UNCHANGED <<store, makings>>, waits' = waits PROVE UNCHANGED FirstMaking!vars
  BY <1>s DEF FirstMaking!vars
<1>k. ASSUME UNCHANGED <<store, makings, mine>>, NEW u \in Users, NEW x \in Busy \cup {"idle"},
             at' = [at EXCEPT ![u] = x], at[u] # "storeWait"
      PROVE  UNCHANGED FirstMaking!vars
  <2>1. waits' = waits
    BY <1>k DEF Busy
  <2> QED BY <1>k, <2>1, <1>s
<1>1. ASSUME NEW c \in Callers, NEW nth, NEW failures, Await(c, nth, failures), at[c] # "storeWait"
      PROVE  FirstMaking!Ask(c)
  <2>2. waits[c] = 0
    BY <1>1
  <2>3. \A d \in Callers \ {c} : at'[d] = at[d] /\ mine'[d] = mine[d]
    BY <1>1 DEF Await, NoMaking
  <2>4. at'[c] = "storeWait" /\ mine'[c] = store'
    BY <1>1 DEF Await, NoMaking
  <2>5. waits' = [waits EXCEPT ![c] = store']
    BY <2>3, <2>4
  <2>6. \/ store = 0 /\ store' = Len(makings) + 1 /\ makings' = Append(makings, "pending")
        \/ store # 0 /\ UNCHANGED <<store, makings>>
    BY <1>1 DEF Await, NoMaking
  <2> QED BY <2>2, <2>5, <2>6 DEF FirstMaking!Ask
<1>2. ASSUME NEW c \in Callers, StoreReady(c) PROVE FirstMaking!Tell(c)
  <2>1. /\ at[c] = "storeWait" /\ makings[mine[c]] # "pending" /\ mine[c] # 0
        /\ at'[c] \in {"connect", "failed"} /\ UNCHANGED <<store, makings, mine>>
        /\ \A d \in Callers \ {c} : at'[d] = at[d]
    BY <1>2 DEF StoreReady
  <2>2. waits[c] = mine[c] /\ waits' = [waits EXCEPT ![c] = 0]
    BY <2>1
  <2> QED BY <2>1, <2>2 DEF FirstMaking!Tell
<1>3. ASSUME NEW u \in Users, Queried(u) PROVE [FirstMaking!Next]_FirstMaking!vars
  <2>1. at[u] = "using" /\ at' = [at EXCEPT ![u] = "idle"] /\ UNCHANGED <<store, mine>>
    BY <1>3 DEF Queried
  <2>2. CASE u = Maker
    <3>1. /\ makings' = [makings EXCEPT ![store] = "kept"]
          /\ store # 0 /\ makings[store] = "pending"
      BY <1>3, <2>1, <2>2 DEF Queried, Busy
    <3>2. waits' = waits
      BY <2>1, <2>2
    <3> QED BY <2>1, <3>1, <3>2 DEF FirstMaking!Next, FirstMaking!Settle
  <2>3. CASE u # Maker
    <3>1. makings' = makings
      BY <1>3, <2>3 DEF Queried
    <3> QED BY <2>1, <3>1, <1>k
  <2> QED BY <2>2, <2>3
<1>4. ASSUME NEW u \in Users, QueryFails(u) PROVE UNCHANGED FirstMaking!vars
  BY <1>4, <1>k DEF QueryFails, Busy
<1>5. ASSUME NEW u \in Users, Provided(u) PROVE UNCHANGED FirstMaking!vars
  <2>1. /\ at[u] \in Busy /\ UNCHANGED <<store, makings, mine>>
        /\ \E x \in Busy : at' = [at EXCEPT ![u] = x]
    BY <1>5 DEF Provided, Provide, Connect, Opened, OpenFails, Woken, Named, NamingFails, TurnedAway,
             Ensured, Busy
  <2> QED BY <2>1, <1>k DEF Busy
<1>6. CASE MakerRunsAgain
  BY <1>6, <1>k DEF MakerRunsAgain, Busy
<1>g. CASE MakerGivesUp
  <2>1. /\ at' = [at EXCEPT ![Maker] = "idle"] /\ store' = 0 /\ UNCHANGED mine
        /\ makings' = [makings EXCEPT ![store] = "rejected"]
        /\ store # 0 /\ makings[store] = "pending"
    BY <1>g DEF MakerGivesUp
  <2>2. waits' = waits
    BY <2>1
  <2> QED BY <2>1, <2>2 DEF FirstMaking!Next, FirstMaking!Settle
<1>f. ASSUME NEW c \in Callers, StatementFailed(c) PROVE [FirstMaking!Next]_FirstMaking!vars
  <2>1. CASE RunAgain(c)
    <3>1. FirstMaking!Ask(c)
      BY <1>f, <2>1, <1>1 DEF StatementFailed
    <3> QED BY <3>1 DEF FirstMaking!Next
  <2>2. CASE ~RunAgain(c)
    BY <1>f, <2>2, <1>k DEF StatementFailed
  <2> QED BY <2>1, <2>2
<1>a. ASSUME NEW c \in Callers, Statement(c) PROVE FirstMaking!Ask(c)
  BY <1>a, <1>1 DEF Statement
<1>7. CASE (Block \/ End) /\ UNCHANGED making
  <2>1. UNCHANGED at
    BY <1>7 DEF Block, BlockEnds, BlockTurnedAway, BlockFails, End
  <2> QED BY <1>7, <2>1, <1>s
<1>8. CASE UNCHANGED vars
  BY <1>8, <1>s DEF vars
<1> QED
  BY <1>a, <1>2, <1>3, <1>4, <1>5, <1>6, <1>g, <1>f, <1>7, <1>8
  DEF Next, Step, MakerFailed, FirstMaking!Next

\* However many statements ask, the store is made once at a time, a failure is
\* told to all who waited for it and forgotten by then, and a store made is
\* never made again (EnsuredStore.ts:36-45).
THEOREM TheStoreIsShared == Spec => StoreIsShared
BY AlwaysInShape, MakingAtFirst, MakingSteps, PTL DEF Spec, StoreIsShared, FirstMaking!Spec

-----------------------------------------------------------------------------
(* The run of the block.                                                    *)

AllTold(s) == [i \in 1..Len(s) |-> Told(s[i])]

\* What is told of the runs grows and changes with them.
LEMMA ToldSequence ==
  ASSUME NEW s \in Seq(Runs)
  PROVE  /\ AllTold(s) \in Seq({"pending", "rejected", "kept"}) /\ Len(AllTold(s)) = Len(s)
         /\ \A i \in 1..Len(s) : AllTold(s)[i] = Told(s[i])
BY DEF AllTold, Told

LEMMA ToldAppend ==
  ASSUME NEW s \in Seq(Runs), NEW r \in Runs
  PROVE  AllTold(Append(s, r)) = Append(AllTold(s), Told(r))
<1>1. Append(s, r) \in Seq(Runs) /\ Len(Append(s, r)) = Len(s) + 1 /\ Len(s) \in Nat
  OBVIOUS
<1>2. AllTold(s) \in Seq({"pending", "rejected", "kept"}) /\ Len(AllTold(s)) = Len(s)
  BY ToldSequence
<1>3. Told(r) \in {"pending", "rejected", "kept"}
  BY DEF Told
<1>4. Append(AllTold(s), Told(r)) \in Seq({"pending", "rejected", "kept"})
      /\ Len(Append(AllTold(s), Told(r))) = Len(s) + 1
  BY <1>1, <1>2, <1>3
<1>5. AllTold(Append(s, r)) \in Seq({"pending", "rejected", "kept"})
      /\ Len(AllTold(Append(s, r))) = Len(s) + 1
  BY <1>1, ToldSequence
<1>6. ASSUME NEW i \in 1..(Len(s) + 1)
      PROVE  AllTold(Append(s, r))[i] = Append(AllTold(s), Told(r))[i]
  <2>1. AllTold(Append(s, r))[i] = Told(Append(s, r)[i])
    BY <1>1, ToldSequence
  <2>2. CASE i = Len(s) + 1
    BY <1>1, <1>2, <1>3, <2>1, <2>2
  <2>3. CASE i # Len(s) + 1
    <3>1. i \in 1..Len(s) /\ Append(s, r)[i] = s[i] /\ Append(AllTold(s), Told(r))[i] = AllTold(s)[i]
      BY <1>1, <1>2, <1>3, <2>3
    <3>2. AllTold(s)[i] = Told(s[i])
      BY <3>1, ToldSequence
    <3> QED BY <2>1, <3>1, <3>2
  <2> QED BY <2>2, <2>3
<1> QED BY <1>4, <1>5, <1>6

LEMMA ToldExcept ==
  ASSUME NEW s \in Seq(Runs), NEW r \in Runs, NEW j \in 1..Len(s)
  PROVE  AllTold([s EXCEPT ![j] = r]) = [AllTold(s) EXCEPT ![j] = Told(r)]
<1>1. [s EXCEPT ![j] = r] \in Seq(Runs) /\ Len([s EXCEPT ![j] = r]) = Len(s)
  OBVIOUS
<1>2. AllTold([s EXCEPT ![j] = r]) \in Seq({"pending", "rejected", "kept"})
      /\ Len(AllTold([s EXCEPT ![j] = r])) = Len(s)
  BY <1>1, ToldSequence
<1>3. [AllTold(s) EXCEPT ![j] = Told(r)] \in Seq({"pending", "rejected", "kept"})
      /\ Len([AllTold(s) EXCEPT ![j] = Told(r)]) = Len(s)
  <2>1. AllTold(s) \in Seq({"pending", "rejected", "kept"}) /\ Len(AllTold(s)) = Len(s)
    BY ToldSequence
  <2>2. Told(r) \in {"pending", "rejected", "kept"}
    BY DEF Told
  <2> QED BY <2>1, <2>2
<1>4. ASSUME NEW i \in 1..Len(s)
      PROVE  AllTold([s EXCEPT ![j] = r])[i] = [AllTold(s) EXCEPT ![j] = Told(r)][i]
  <2>1. AllTold([s EXCEPT ![j] = r])[i] = Told([s EXCEPT ![j] = r][i])
    BY <1>1, ToldSequence
  <2>2. AllTold(s)[i] = Told(s[i]) /\ i \in DOMAIN AllTold(s)
    BY ToldSequence DEF AllTold
  <2>3. CASE i = j
    <3>1. [s EXCEPT ![j] = r][i] = r
      BY <2>3
    <3> QED BY <2>1, <2>2, <2>3, <3>1
  <2>4. CASE i # j
    <3>1. [s EXCEPT ![j] = r][i] = s[i]
      BY <2>4
    <3> QED BY <2>1, <2>2, <2>4, <3>1
  <2> QED BY <2>3, <2>4
<1> QED BY <1>2, <1>3, <1>4, SeqEqual, Zenon

\* The mapping of the block's runs.
LEMMA BlockAtFirst == Init => FirstRun!Init
<1> SUFFICES ASSUME Init PROVE FirstRun!Init
  OBVIOUS
<1>1. made = 0 /\ runs = << >> /\ at = [u \in Users |-> "idle"]
  BY DEF Init, FirstInit
<1>2. RunsTold = << >>
  BY <1>1 DEF RunsTold
<1>3. RunAwaited = [u \in Users |-> 0]
  BY <1>1 DEF RunAwaited
<1> QED BY <1>1, <1>2, <1>3 DEF FirstRun!Init

\* A connect that waits asks for the run; nobody who waits connects.
LEMMA ConnectAsks ==
  ASSUME Shape, NEW u \in Users, NEW h, Ensured(u, h), at[u] # "waiting"
  PROVE  FirstRun!Ask(u)
<1> USE DEF Shape
<1>1. at' = [at EXCEPT ![u] = "waiting"] /\ awaits' = [awaits EXCEPT ![u] = made']
  BY DEF Ensured, NoRun
<1>2. RunAwaited[u] = 0 /\ RunAwaited' = [RunAwaited EXCEPT ![u] = made']
  BY <1>1 DEF RunAwaited
<1>3. CASE made = 0
  <2>1. made' = Len(runs) + 1 /\ runs' = Append(runs, Run("pending", Fine))
    BY <1>3 DEF Ensured, NoRun
  <2>2. Run("pending", Fine) \in Runs /\ Told(Run("pending", Fine)) = "pending"
    BY DEF Run, Fine, Failure, Runs, Failures, Told
  <2>3. RunsTold = AllTold(runs) /\ RunsTold' = AllTold(runs')
    BY DEF RunsTold, AllTold
  <2>4. RunsTold' = Append(RunsTold, "pending")
    BY <2>1, <2>2, <2>3, ToldAppend
  <2>5. Len(RunsTold) = Len(runs)
    BY <2>3, ToldSequence
  <2> QED BY <1>2, <1>3, <2>1, <2>4, <2>5 DEF FirstRun!Ask
<1>4. CASE made # 0
  <2>1. made' = made /\ runs' = runs
    BY <1>4 DEF Ensured, NoRun
  <2>2. RunsTold' = RunsTold
    BY <2>1 DEF RunsTold
  <2> QED BY <1>2, <1>4, <2>1, <2>2 DEF FirstRun!Ask
<1> QED BY <1>3, <1>4

LEMMA BlockSettles ==
  ASSUME Shape, Block
  PROVE  [FirstRun!Next]_FirstRun!vars
<1> USE DEF Shape
<1>1. RunAwaited' = RunAwaited
  BY DEF Block, BlockEnds, BlockTurnedAway, BlockFails, RunAwaited
<1>2. RunsTold = AllTold(runs) /\ RunsTold' = AllTold(runs')
  BY DEF RunsTold, AllTold
<1>3. ASSUME NEW r \in Runs, Pending, runs' = [runs EXCEPT ![made] = r]
      PROVE  /\ made # 0 /\ RunsTold[made] = "pending"
             /\ RunsTold' = [RunsTold EXCEPT ![made] = Told(r)]
  <2>1. made \in 1..Len(runs) /\ runs[made].state = "pending"
    BY <1>3 DEF Pending
  <2>2. RunsTold[made] = Told(runs[made])
    BY <1>2, <2>1, ToldSequence
  <2>3. Told(runs[made]) = "pending"
    BY <2>1 DEF Told
  <2>4. AllTold([runs EXCEPT ![made] = r]) = [AllTold(runs) EXCEPT ![made] = Told(r)]
    BY <2>1, ToldExcept
  <2> QED BY <1>2, <1>3, <2>1, <2>2, <2>3, <2>4
<1>4. CASE BlockEnds
  <2>1. PICK how \in {"made", "warned"} : runs' = [runs EXCEPT ![made] = Run(how, Fine)]
    BY <1>4 DEF BlockEnds
  <2> DEFINE r == Run(how, Fine)
  <2>2. Pending /\ made' = made
    BY <1>4 DEF BlockEnds
  <2>3. r.state \in {"made", "warned"} /\ r \in Runs
    BY DEF Run, Fine, Failure, Runs, Failures
  <2>4. Told(r) = "kept"
    BY <2>3 DEF Told
  <2>5. /\ made # 0 /\ RunsTold[made] = "pending"
        /\ RunsTold' = [RunsTold EXCEPT ![made] = Told(r)]
    BY <1>3, <2>1, <2>2, <2>3
  <2>6. FirstRun!Settle
    BY <1>1, <2>2, <2>4, <2>5 DEF FirstRun!Settle
  <2> QED BY <2>6 DEF FirstRun!Next
<1>5. CASE BlockTurnedAway
  <2>1. UNCHANGED <<made, runs>>
    BY <1>5 DEF BlockTurnedAway
  <2> QED BY <1>1, <1>2, <2>1 DEF FirstRun!vars
<1>6. CASE BlockFails
  <2>1. PICK kind \in Kinds : runs' = [runs EXCEPT ![made] =
          Run("failed", Failure(IF turned THEN "deadlock" ELSE kind, engine = "ORACLE"))]
    BY <1>6 DEF BlockFails
  <2> DEFINE r == Run("failed", Failure(IF turned THEN "deadlock" ELSE kind, engine = "ORACLE"))
  <2>2. Pending /\ made' = 0 /\ r \in Runs /\ Told(r) = "rejected"
    BY <1>6, <2>1 DEF BlockFails, Run, Failure, Runs, Failures, Told, Kinds
  <2> QED BY <1>1, <1>3, <2>1, <2>2 DEF FirstRun!Next, FirstRun!Settle
<1> QED BY <1>4, <1>5, <1>6 DEF Block

LEMMA BlockSteps == Shape /\ [Next]_vars => [FirstRun!Next]_FirstRun!vars
<1> SUFFICES ASSUME Shape, [Next]_vars PROVE [FirstRun!Next]_FirstRun!vars
  OBVIOUS
<1> USE MakerIsNoCaller DEF Shape, provider, making
<1>s. ASSUME UNCHANGED <<made, runs>>, RunAwaited' = RunAwaited PROVE UNCHANGED FirstRun!vars
  BY <1>s DEF FirstRun!vars, RunsTold
<1>k. ASSUME UNCHANGED <<made, runs, awaits>>,
             \A v \in Users : (at'[v] = "waiting" \/ at[v] = "waiting") => at'[v] = at[v]
      PROVE  UNCHANGED FirstRun!vars
  <2>1. RunAwaited' = RunAwaited
    BY <1>k DEF RunAwaited
  <2> QED BY <1>k, <2>1, <1>s
<1>1. ASSUME NEW c \in Callers, NEW nth, NEW failures, Await(c, nth, failures), at[c] \in {"idle", "failed"}
      PROVE  UNCHANGED FirstRun!vars
  <2>1. /\ at' \in {[at EXCEPT ![c] = "storeWait", ![Maker] = "connect"],
                    [at EXCEPT ![c] = "storeWait"]}
        /\ at[c] # "waiting" /\ UNCHANGED <<made, runs, awaits>>
    BY <1>1 DEF Await, NoMaking
  <2>2. at[Maker] = "idle" \/ at' = [at EXCEPT ![c] = "storeWait"]
    BY <1>1 DEF Await, NoMaking
  <2> QED BY <2>1, <2>2, <1>k
<1>a. ASSUME NEW c \in Callers, Statement(c) \/ StatementFailed(c) PROVE UNCHANGED FirstRun!vars
  <2>1. CASE Statement(c)
    BY <2>1, <1>1 DEF Statement
  <2>2. CASE StatementFailed(c) /\ RunAgain(c)
    BY <2>2, <1>1 DEF StatementFailed
  <2>3. CASE StatementFailed(c) /\ ~RunAgain(c)
    <3>1. at[c] = "failed" /\ at' = [at EXCEPT ![c] = "idle"] /\ UNCHANGED <<made, runs, awaits>>
      BY <2>3 DEF StatementFailed
    <3> QED BY <3>1, <1>k
  <2> QED BY <1>a, <2>1, <2>2, <2>3
<1>2. ASSUME NEW c \in Callers, StoreReady(c) PROVE UNCHANGED FirstRun!vars
  BY <1>2, <1>k DEF StoreReady
<1>3. ASSUME NEW u \in Users, Queried(u) \/ QueryFails(u) PROVE UNCHANGED FirstRun!vars
  <2>1. /\ at[u] = "using" /\ UNCHANGED <<made, runs, awaits>>
        /\ at' \in {[at EXCEPT ![u] = "idle"], [at EXCEPT ![u] = "failed"]}
    BY <1>3 DEF Queried, QueryFails
  <2> QED BY <2>1, <1>k
<1>4. ASSUME NEW u \in Users, Provided(u) PROVE [FirstRun!Next]_FirstRun!vars
  <2>1. CASE Connect(u) /\ idle # << >>
    <3>1. Ensured(u, idle[Len(idle)]) /\ at[u] # "waiting"
      BY <2>1 DEF Connect
    <3> QED BY <3>1, ConnectAsks DEF FirstRun!Next
  <2>2. CASE Connect(u) /\ idle = << >>
    BY <2>2, <1>k DEF Connect
  <2>3. CASE Opened(u)
    <3>1. PICK h : Ensured(u, h)
      BY <2>3 DEF Opened
    <3>2. at[u] # "waiting"
      BY <2>3 DEF Opened
    <3> QED BY <3>1, <3>2, ConnectAsks DEF FirstRun!Next
  <2>4. CASE OpenFails(u)
    BY <2>4, <1>k DEF OpenFails
  <2>5. CASE Woken(u)
    <3>1. /\ at[u] = "waiting" /\ UNCHANGED <<made, runs, awaits>>
          /\ awaits[u] \in 1..Len(runs)
          /\ \E x \in {"naming", "using", "failed"} : at' = [at EXCEPT ![u] = x]
          /\ runs[awaits[u]].state # "pending"
      BY <2>5 DEF Woken, TurnedAway
    <3>2. RunAwaited[u] = awaits[u] /\ RunAwaited' = [RunAwaited EXCEPT ![u] = 0]
      BY <3>1 DEF RunAwaited
    <3>3. RunsTold' = RunsTold /\ RunsTold[awaits[u]] = Told(runs[awaits[u]])
      BY <3>1 DEF RunsTold
    <3>4. RunsTold[awaits[u]] # "pending"
      BY <3>1, <3>3 DEF Told
    <3>5. FirstRun!Tell(u)
      BY <3>1, <3>2, <3>3, <3>4 DEF FirstRun!Tell
    <3> QED BY <3>5 DEF FirstRun!Next
  <2>6. CASE Named(u) \/ NamingFails(u)
    BY <2>6, <1>k DEF Named, NamingFails
  <2> QED BY <1>4, <2>1, <2>2, <2>3, <2>4, <2>5, <2>6 DEF Provided, Provide
<1>5. CASE MakerFailed
  <2>1. /\ at[Maker] = "failed" /\ UNCHANGED <<made, runs, awaits>>
        /\ at' \in {[at EXCEPT ![Maker] = "idle"], [at EXCEPT ![Maker] = "connect"]}
    BY <1>5 DEF MakerFailed, MakerRunsAgain, MakerGivesUp
  <2> QED BY <2>1, <1>k
<1>6. CASE End
  BY <1>6, <1>k DEF End
<1>7. CASE UNCHANGED vars
  BY <1>7, <1>k DEF vars
<1> QED
  BY <1>a, <1>2, <1>3, <1>4, <1>5, <1>6, <1>7, BlockSettles DEF Next, Step, FirstRun!Next

\* The block that makes the graph's tables runs once at a time, is never run
\* again once made or refused for good, and each connection that waited is told
\* of the run it waited for (FirstConnection.ts:36-63).
THEOREM TheBlockIsShared == Spec => BlockIsShared
BY AlwaysInShape, BlockAtFirst, BlockSteps, PTL DEF Spec, BlockIsShared, FirstRun!Spec

-----------------------------------------------------------------------------
(* Nobody before the store.                                                 *)

BlockDone == \E i \in 1..Len(runs) : runs[i].state \in {"made", "warned"}
StoreDone == \E i \in 1..Len(makings) : makings[i] = "kept"

\* What is done stays done.
LEMMA DoneStays ==
  ASSUME Shape, [Next]_vars
  PROVE  (BlockDone => BlockDone') /\ (StoreDone => StoreDone')
<1> USE DEF Shape, provider, making
<1>1. \/ runs' = runs
      \/ runs' = Append(runs, Run("pending", Fine))
      \/ made \in 1..Len(runs) /\ runs[made].state = "pending" /\ \E r : runs' = [runs EXCEPT ![made] = r]
  <2>1. ASSUME NEW u \in Users, NEW h, Ensured(u, h) PROVE runs' = runs \/ runs' = Append(runs, Run("pending", Fine))
    BY <2>1 DEF Ensured
  <2>2. CASE Block
    <3>1. CASE BlockTurnedAway
      BY <3>1 DEF BlockTurnedAway
    <3>2. CASE BlockEnds \/ BlockFails
      <4>1. made \in 1..Len(runs) /\ runs[made].state = "pending"
        BY <3>2 DEF BlockEnds, BlockFails, Pending
      <4>2. \E r : runs' = [runs EXCEPT ![made] = r]
        BY <3>2 DEF BlockEnds, BlockFails
      <4> QED BY <4>1, <4>2
    <3> QED BY <2>2, <3>1, <3>2 DEF Block
  <2>3. ASSUME NEW u \in Users, Provided(u) PROVE runs' = runs \/ runs' = Append(runs, Run("pending", Fine))
    BY <2>1, <2>3 DEF Provided, Provide, Connect, Opened, OpenFails, Woken, Named, NamingFails
  <2>4. CASE Next
    BY <2>2, <2>3, <2>4 DEF Next, Step, Statement, StatementFailed, Await, StoreReady, Queried, QueryFails,
       MakerFailed, MakerRunsAgain, MakerGivesUp, End
  <2> QED BY <2>4 DEF vars
<1>2. \/ makings' = makings
      \/ makings' = Append(makings, "pending")
      \/ store \in 1..Len(makings) /\ makings[store] = "pending" /\ \E r : makings' = [makings EXCEPT ![store] = r]
  <2>1. ASSUME NEW c \in Callers, Statement(c) \/ StatementFailed(c)
        PROVE  makings' = makings \/ makings' = Append(makings, "pending")
    BY <2>1 DEF Statement, StatementFailed, Await
  <2>2. ASSUME at[Maker] \in Busy PROVE store \in 1..Len(makings) /\ makings[store] = "pending"
    BY <2>2 DEF Busy
  <2>3. ASSUME NEW u \in Users, Queried(u)
        PROVE  makings' = makings \/ (at[Maker] \in Busy /\ \E r : makings' = [makings EXCEPT ![store] = r])
    BY <2>3 DEF Queried, Busy
  <2>4. CASE MakerFailed
    BY <2>2, <2>4 DEF MakerFailed, MakerRunsAgain, MakerGivesUp, Busy
  <2>5. CASE Next
    BY <2>1, <2>2, <2>3, <2>4, <2>5 DEF Next, Step, StoreReady, QueryFails, Provided
  <2> QED BY <2>5 DEF vars
<1>3. ASSUME NEW i \in 1..Len(runs), runs[i].state \in {"made", "warned"} PROVE BlockDone'
  <2>1. CASE runs' = runs
    BY <1>3, <2>1 DEF BlockDone
  <2>2. CASE runs' = Append(runs, Run("pending", Fine))
    <3>1. i \in 1..Len(runs') /\ runs'[i] = runs[i]
      BY <2>2
    <3> QED BY <1>3, <3>1 DEF BlockDone
  <2>3. ASSUME NEW r, runs[made].state = "pending", runs' = [runs EXCEPT ![made] = r] PROVE BlockDone'
    <3>1. i # made
      BY <1>3, <2>3
    <3>2. i \in 1..Len(runs') /\ runs'[i] = runs[i]
      BY <2>3, <3>1
    <3> QED BY <1>3, <3>2 DEF BlockDone
  <2> QED BY <1>1, <2>1, <2>2, <2>3
<1>4. ASSUME NEW i \in 1..Len(makings), makings[i] = "kept" PROVE StoreDone'
  <2>1. CASE makings' = makings
    BY <1>4, <2>1 DEF StoreDone
  <2>2. CASE makings' = Append(makings, "pending")
    <3>1. i \in 1..Len(makings') /\ makings'[i] = makings[i]
      BY <2>2
    <3> QED BY <1>4, <3>1 DEF StoreDone
  <2>3. ASSUME NEW r, makings[store] = "pending", makings' = [makings EXCEPT ![store] = r] PROVE StoreDone'
    <3>1. i # store
      BY <1>4, <2>3
    <3>2. i \in 1..Len(makings') /\ makings'[i] = makings[i]
      BY <2>3, <3>1
    <3> QED BY <1>4, <3>2 DEF StoreDone
  <2> QED BY <1>2, <2>1, <2>2, <2>3
<1> QED BY <1>3, <1>4 DEF BlockDone, StoreDone

\* Who has a connection, or goes for one, was let.
Served ==
  /\ \A u \in Users : at[u] \in {"naming", "using"} => BlockDone
  /\ \A c \in Callers : at[c] \in Busy \ {"failed"} => StoreDone

\* One user's step, to somewhere it may be.
LEMMA OneServed ==
  ASSUME Shape, Served, [Next]_vars, NEW u \in Users, NEW x, at' = [at EXCEPT ![u] = x],
         x \in {"naming", "using"} => BlockDone,
         u \in Callers /\ x \in Busy \ {"failed"} => StoreDone
  PROVE  Served'
<1>1. (BlockDone => BlockDone') /\ (StoreDone => StoreDone')
  BY DoneStays
<1>2. \A v \in Users : at'[v] = IF v = u THEN x ELSE at[v]
  BY DEF Shape
<1>3. \A v \in Users : at'[v] \in {"naming", "using"} => BlockDone'
  BY <1>1, <1>2 DEF Served
<1>4. \A c \in Callers : at'[c] \in Busy \ {"failed"} => StoreDone'
  BY <1>1, <1>2, MakerIsNoCaller DEF Served
<1> QED BY <1>3, <1>4 DEF Served

LEMMA NextServed == Shape /\ Served /\ [Next]_vars => Served'
<1> SUFFICES ASSUME Shape, Served, [Next]_vars PROVE Served'
  OBVIOUS
<1> USE MakerIsNoCaller
<1>0. (BlockDone => BlockDone') /\ (StoreDone => StoreDone')
  BY DoneStays
<1>1. ASSUME NEW c \in Callers, NEW nth, NEW failures, Await(c, nth, failures) PROVE Served'
  <2>1. CASE NoMaking
    <3>1. at' = [at EXCEPT ![c] = "storeWait", ![Maker] = "connect"]
      BY <1>1, <2>1 DEF Await
    <3>2. \A v \in Users : at'[v] \in {at[v], "storeWait", "connect"} /\ (v \in Callers => at'[v] \in {at[v], "storeWait"})
      BY <3>1 DEF Shape
    <3> QED BY <1>0, <3>2 DEF Served, Busy
  <2>2. CASE ~NoMaking
    BY <1>1, <2>2, OneServed DEF Await, Busy
  <2> QED BY <2>1, <2>2
<1>f. ASSUME NEW c \in Callers, StatementFailed(c) PROVE Served'
  <2>1. CASE RunAgain(c)
    BY <1>f, <2>1, <1>1 DEF StatementFailed
  <2>2. CASE ~RunAgain(c)
    BY <1>f, <2>2, OneServed DEF StatementFailed, Busy
  <2> QED BY <2>1, <2>2
<1>2. ASSUME NEW c \in Callers, StoreReady(c) PROVE Served'
  <2>1. mine[c] \in 1..Len(makings)
    BY <1>2 DEF Shape, StoreReady
  <2>2. makings[mine[c]] = "kept" => StoreDone
    BY <2>1 DEF StoreDone
  <2> QED BY <1>2, <2>2, OneServed DEF StoreReady
<1>3. ASSUME NEW u \in Users, Queried(u) \/ QueryFails(u) PROVE Served'
  BY <1>3, OneServed DEF Queried, QueryFails, Busy
<1>4. ASSUME NEW u \in Users, Provided(u) PROVE Served'
  <2>1. CASE Woken(u)
    <3>1. /\ at[u] = "waiting"
          /\ \/ runs[awaits[u]].state \in {"made", "warned"} /\ \E x \in {"naming", "using"} : at' = [at EXCEPT ![u] = x]
             \/ at' = [at EXCEPT ![u] = "failed"]
      BY <2>1 DEF Woken
    <3>2. runs[awaits[u]].state \in {"made", "warned"} => BlockDone
      BY <3>1 DEF BlockDone, Shape
    <3>3. u \in Callers => StoreDone
      BY <3>1 DEF Served, Busy
    <3> QED BY <3>1, <3>2, <3>3, OneServed
  <2>2. CASE ~Woken(u)
    <3>1. /\ at[u] \in Busy \ {"failed"}
          /\ \E x \in {"opening", "waiting", "failed", "using"} :
               at' = [at EXCEPT ![u] = x] /\ (x = "using" => at[u] = "naming")
      BY <1>4, <2>2 DEF Provided, Provide, Connect, Opened, OpenFails, Named, NamingFails, Ensured, Busy
    <3>2. u \in Callers => StoreDone
      BY <3>1 DEF Served
    <3>3. at[u] = "naming" => BlockDone
      BY DEF Served
    <3> QED BY <3>1, <3>2, <3>3, OneServed
  <2> QED BY <2>1, <2>2
<1>5. CASE MakerFailed
  BY <1>5, OneServed DEF MakerFailed, MakerRunsAgain, MakerGivesUp, Busy
<1>6. CASE UNCHANGED at
  BY <1>0, <1>6 DEF Served
<1>7. (Block \/ End \/ UNCHANGED vars) => UNCHANGED at
  BY DEF Block, BlockEnds, BlockTurnedAway, BlockFails, End, vars
<1> QED BY <1>1, <1>f, <1>2, <1>3, <1>4, <1>5, <1>6, <1>7 DEF Next, Step, Statement

\* Nobody is handed a connection, and no statement is sent, before the tables
\* are made, or known to be refused for good (FirstConnection.ts:36-63,
\* EnsuredStore.ts:26-45).
THEOREM NobodyIsEarly == Spec => []NobodyBeforeTheStore
<1>1. Init => Served
  BY MakerIsNoCaller DEF Init, Served, Busy
<1>2. Served => NobodyBeforeTheStore
  BY DEF Served, NobodyBeforeTheStore, BlockDone, StoreDone, Busy
<1> QED BY <1>1, <1>2, AlwaysInShape, NextServed, PTL DEF Spec

-----------------------------------------------------------------------------
(* Attempts do not multiply.                                                *)

LEMMA EngineStays == [Next]_vars => engine' = engine
BY DEF Next, Step, Statement, StatementFailed, Await, StoreReady, Queried, QueryFails, Provided, Provide, Connect,
  Opened, OpenFails, Woken, Named, NamingFails, MakerFailed, MakerRunsAgain, MakerGivesUp, Block, BlockEnds,
  BlockTurnedAway, BlockFails, End, vars, provider

\* A run under way or done is the one kept, and a statement that waits for the
\* block, the store being made, waits for a run that is done.
Kept ==
  /\ \A i \in 1..Len(runs) : runs[i].state # "failed" => i = made
  /\ StoreDone => BlockDone
  /\ \A c \in Callers : at[c] = "waiting" => awaits[c] = made

LEMMA KeptIsDone ==
  ASSUME Shape, Served, Kept, NEW c \in Callers, at[c] \in Busy \ {"failed"}
  PROVE  made \in 1..Len(runs) /\ runs[made].state \in {"made", "warned"}
<1>1. PICK i \in 1..Len(runs) : runs[i].state \in {"made", "warned"}
  BY DEF Served, Kept, BlockDone
<1>2. i = made
  BY <1>1 DEF Kept
<1> QED BY <1>1, <1>2

\* What a step does to the block's runs.
LEMMA RunsGrow ==
  ASSUME Shape, [Next]_vars
  PROVE  \/ runs' = runs /\ made' = made
         \/ made = 0 /\ made' = Len(runs) + 1 /\ runs' = Append(runs, Run("pending", Fine))
         \/ /\ Pending /\ made' = made /\ UNCHANGED <<at, awaits>>
            /\ \E state \in {"made", "warned"} : runs' = [runs EXCEPT ![made] = Run(state, Fine)]
         \/ /\ Pending /\ made' = 0 /\ UNCHANGED <<at, awaits>>
            /\ \E kind \in Kinds :
                 runs' = [runs EXCEPT ![made] =
                   Run("failed", Failure(IF turned THEN "deadlock" ELSE kind, engine = "ORACLE"))]
<1> USE DEF provider, making
<1>1. CASE BlockEnds
  BY <1>1 DEF BlockEnds
<1>2. CASE BlockFails
  BY <1>2 DEF BlockFails
<1>3. ASSUME NEW u \in Users, Provided(u)
      PROVE  \/ runs' = runs /\ made' = made
             \/ made = 0 /\ made' = Len(runs) + 1 /\ runs' = Append(runs, Run("pending", Fine))
  BY <1>3 DEF Provided, Provide, Connect, Opened, OpenFails, Woken, Named, NamingFails, Ensured, NoRun
<1>4. CASE Next
  BY <1>1, <1>2, <1>3, <1>4
  DEF Next, Step, Statement, StatementFailed, Await, StoreReady, Queried, QueryFails, MakerFailed, MakerRunsAgain,
      MakerGivesUp, End, Block, BlockTurnedAway
<1> QED BY <1>4 DEF vars

\* Who comes to wait for the block, comes to wait for the run kept.
LEMMA WaitsForTheRunKept ==
  ASSUME Shape, Kept, [Next]_vars, NEW c \in Callers, at'[c] = "waiting"
  PROVE  IF at[c] = "waiting" THEN awaits'[c] = awaits[c] ELSE awaits'[c] = made'
<1> USE MakerIsNoCaller DEF Shape, provider, making
<1>1. ASSUME NEW u \in Users, Provided(u)
      PROVE  IF at[c] = "waiting" THEN awaits'[c] = awaits[c] ELSE awaits'[c] = made'
  <2>1. CASE u = c
    BY <1>1, <2>1 DEF Provided, Provide, Connect, Opened, OpenFails, Woken, Named, NamingFails, Ensured
  <2>2. CASE u # c
    <3>1. at'[c] = at[c] /\ awaits'[c] = awaits[c]
      BY <1>1, <2>2 DEF Provided, Provide, Connect, Opened, OpenFails, Woken, Named, NamingFails, Ensured
    <3> QED BY <3>1
  <2> QED BY <2>1, <2>2
<1>2. ASSUME UNCHANGED awaits, at[c] = "waiting"
      PROVE  IF at[c] = "waiting" THEN awaits'[c] = awaits[c] ELSE awaits'[c] = made'
  BY <1>2
<1>3. ASSUME NEW d \in Callers, NEW nth, NEW failures, Await(d, nth, failures)
      PROVE  UNCHANGED awaits /\ at[c] = "waiting"
  BY <1>3 DEF Await
<1>4. CASE Next
  BY <1>1, <1>2, <1>3, <1>4
  DEF Next, Step, Statement, StatementFailed, StoreReady, Queried, QueryFails, MakerFailed, MakerRunsAgain,
      MakerGivesUp, End, Block, BlockEnds, BlockFails, BlockTurnedAway
<1> QED BY <1>2, <1>4 DEF vars

LEMMA NextKept == Shape /\ Served /\ Kept /\ [Next]_vars => Kept'
<1> SUFFICES ASSUME Shape, Served, Kept, [Next]_vars PROVE Kept'
  OBVIOUS
<1>1. \A i \in 1..Len(runs') : runs'[i].state # "failed" => i = made'
  <2>1. CASE runs' = runs /\ made' = made
    BY <2>1 DEF Kept
  <2>2. CASE made = 0 /\ made' = Len(runs) + 1 /\ runs' = Append(runs, Run("pending", Fine))
    BY <2>2 DEF Kept, Shape
  <2>3. ASSUME Pending, made' \in {made, 0}, NEW r, runs' = [runs EXCEPT ![made] = r], made' = 0 => r.state = "failed"
        PROVE  \A i \in 1..Len(runs') : runs'[i].state # "failed" => i = made'
    <3>1. Len(runs') = Len(runs) /\ runs'[made] = r /\ \A i \in 1..Len(runs) \ {made} : runs'[i] = runs[i]
      BY <2>3 DEF Shape, Pending
    <3> QED BY <2>3, <3>1 DEF Kept
  <2>4. ASSUME Pending, made' = made, NEW state \in {"made", "warned"}, runs' = [runs EXCEPT ![made] = Run(state, Fine)]
        PROVE  \A i \in 1..Len(runs') : runs'[i].state # "failed" => i = made'
    <3>1. made' # 0
      BY <2>4 DEF Pending
    <3> QED BY <2>3, <2>4, <3>1
  <2>5. ASSUME Pending, made' = 0, NEW f, runs' = [runs EXCEPT ![made] = Run("failed", f)]
        PROVE  \A i \in 1..Len(runs') : runs'[i].state # "failed" => i = made'
    <3>1. Run("failed", f).state = "failed"
      BY DEF Run
    <3> QED BY <2>3, <2>5, <3>1
  <2> QED BY <2>1, <2>2, <2>4, <2>5, RunsGrow
<1>2. StoreDone' => BlockDone'
  <2>1. BlockDone => BlockDone'
    BY DoneStays
  <2>2. CASE BlockDone
    BY <2>1, <2>2
  <2>3. CASE ~BlockDone
    <3>1. ~StoreDone
      BY <2>3 DEF Kept
    <3>2. ~\E u \in Users : Queried(u)
      BY <2>3 DEF Served, Queried
    <3>3. ASSUME NEW c \in Callers, NEW nth, NEW failures, Await(c, nth, failures)
          PROVE  makings' = makings \/ makings' = Append(makings, "pending")
      BY <3>3 DEF Await
    <3>4. \/ makings' = makings \/ makings' = Append(makings, "pending")
          \/ makings' = [makings EXCEPT ![store] = "rejected"]
      <4>1. CASE Next
        BY <3>2, <3>3, <4>1
        DEF Next, Step, Statement, StatementFailed, StoreReady, QueryFails, MakerFailed, MakerRunsAgain,
            MakerGivesUp, Provided, making
      <4> QED BY <4>1 DEF vars, making
    <3>5. ASSUME NEW i \in 1..Len(makings') PROVE makings'[i] # "kept"
      <4>1. CASE makings' = makings
        BY <3>1, <3>5, <4>1 DEF StoreDone
      <4>2. CASE makings' = Append(makings, "pending")
        <5>1. i = Len(makings) + 1 \/ (i \in 1..Len(makings) /\ makings'[i] = makings[i])
          BY <3>5, <4>2 DEF Shape
        <5>2. makings'[Len(makings) + 1] = "pending"
          BY <4>2 DEF Shape
        <5> QED BY <3>1, <5>1, <5>2 DEF StoreDone
      <4>3. CASE makings' = [makings EXCEPT ![store] = "rejected"]
        <5>1. i \in 1..Len(makings) /\ makings'[i] \in {makings[i], "rejected"}
          BY <3>5, <4>3 DEF Shape
        <5> QED BY <3>1, <5>1 DEF StoreDone
      <4> QED BY <3>4, <4>1, <4>2, <4>3
    <3>6. ~StoreDone'
      BY <3>5 DEF StoreDone
    <3> QED BY <3>6
  <2> QED BY <2>2, <2>3
<1>3. ASSUME NEW c \in Callers, at'[c] = "waiting" PROVE awaits'[c] = made'
  <2>1. CASE at[c] = "waiting"
    <3>1. awaits'[c] = made
      BY <1>3, <2>1, WaitsForTheRunKept DEF Kept
    <3>2. made # 0 /\ ~Pending
      BY <2>1, KeptIsDone DEF Pending, Busy
    <3> QED BY <3>1, <3>2, RunsGrow
  <2>2. CASE at[c] # "waiting"
    BY <1>3, <2>2, WaitsForTheRunKept
  <2> QED BY <2>1, <2>2
<1> QED BY <1>1, <1>2, <1>3 DEF Kept

\* What is not run again, by the making or by a save.
NotAgain(u) == failure[u].given \/ ~Contended(u)

\* A run of the block that failed on Oracle was given up, a making that was
\* rejected too, and who waited for a failure in vain is done.
SpentOnce ==
  /\ turned => engine = "ORACLE"
  /\ \A i \in 1..Len(runs) : runs[i].state = "failed" /\ engine = "ORACLE" => runs[i].failure.given
  /\ store # 0 => makings[store] # "rejected"
  /\ \A c \in Callers : at[c] = "storeWait" /\ makings[mine[c]] = "rejected" => failure[c].given
  /\ spent \in [Users -> {0, 1}]
  /\ \A u \in Users : spent[u] = 1 => at[u] = "idle" \/ (at[u] = "failed" /\ NotAgain(u))

LEMMA NextSpent == Shape /\ Served /\ Kept /\ SpentOnce /\ [Next]_vars => SpentOnce'
<1> SUFFICES ASSUME Shape, Served, Kept, SpentOnce, [Next]_vars PROVE SpentOnce'
  OBVIOUS
<1> USE MakerIsNoCaller DEF provider, making
<1>e. engine' = engine
  BY EngineStays
<1>1. (turned => engine = "ORACLE")'
  BY DEF SpentOnce, Next, Step, Statement, StatementFailed, Await, StoreReady, Queried, QueryFails, Provided, Provide,
         Connect, Opened, OpenFails, Woken, Named, NamingFails, Ensured, MakerFailed, MakerRunsAgain, MakerGivesUp,
         Block, BlockEnds, BlockTurnedAway, BlockFails, End, vars
<1>2. \A i \in 1..Len(runs') : runs'[i].state = "failed" /\ engine' = "ORACLE" => runs'[i].failure.given
  <2>1. CASE runs' = runs
    BY <1>e, <2>1 DEF SpentOnce
  <2>2. CASE runs' = Append(runs, Run("pending", Fine))
    BY <1>e, <2>2 DEF SpentOnce, Shape, Run
  <2>3. ASSUME Pending, NEW r, runs' = [runs EXCEPT ![made] = r],
               r.state = "failed" /\ engine = "ORACLE" => r.failure.given
        PROVE  \A i \in 1..Len(runs') : runs'[i].state = "failed" /\ engine' = "ORACLE" => runs'[i].failure.given
    <3>1. Len(runs') = Len(runs) /\ runs'[made] = r /\ \A i \in 1..Len(runs) \ {made} : runs'[i] = runs[i]
      BY <2>3 DEF Shape, Pending
    <3> QED BY <1>e, <2>3, <3>1 DEF SpentOnce
  <2>4. ASSUME Pending, NEW state \in {"made", "warned"}, runs' = [runs EXCEPT ![made] = Run(state, Fine)]
        PROVE  \A i \in 1..Len(runs') : runs'[i].state = "failed" /\ engine' = "ORACLE" => runs'[i].failure.given
    <3>1. Run(state, Fine).state # "failed"
      BY DEF Run
    <3> QED BY <2>3, <2>4, <3>1
  <2>5. ASSUME Pending, NEW kind,
               runs' = [runs EXCEPT ![made] = Run("failed", Failure(kind, engine = "ORACLE"))]
        PROVE  \A i \in 1..Len(runs') : runs'[i].state = "failed" /\ engine' = "ORACLE" => runs'[i].failure.given
    <3>1. engine = "ORACLE" => Run("failed", Failure(kind, engine = "ORACLE")).failure.given
      BY DEF Run, Failure
    <3> QED BY <2>3, <2>5, <3>1
  <2> QED BY <2>1, <2>2, <2>4, <2>5, RunsGrow
\* A step that moves no statement's wait and nobody's failure.
<1>q. ASSUME UNCHANGED <<store, makings, mine, failure, spent>>, NEW u \in Users, NEW x, at' = [at EXCEPT ![u] = x],
             x # "storeWait", spent[u] = 0 \/ x \in {at[u], "idle"}
      PROVE  SpentOnce'
  <2>1. \A v \in Users : at'[v] = IF v = u THEN x ELSE at[v]
    BY <1>q DEF Shape
  <2>2. \A v \in Users : NotAgain(v)' <=> NotAgain(v)
    BY <1>e, <1>q DEF NotAgain, Contended, Contention
  <2>3. \A v \in Users : spent'[v] = 1 => at'[v] = "idle" \/ (at'[v] = "failed" /\ NotAgain(v)')
    BY <1>q, <2>1, <2>2 DEF SpentOnce
  <2> QED BY <1>1, <1>2, <1>q, <2>1, <2>3 DEF SpentOnce
\* A step of one user that fails it.
<1>p. ASSUME NEW u \in Users, at[u] \in Busy \ {"failed"}, at' = [at EXCEPT ![u] = "failed"],
             \A v \in Users \ {u} : failure'[v] = failure[v],
             UNCHANGED <<store, makings, mine>>, spent' = spent \/ (NotAgain(u)' /\ spent' = [spent EXCEPT ![u] = @ + 1])
      PROVE  SpentOnce'
  <2>1. \A v \in Users : at'[v] = IF v = u THEN "failed" ELSE at[v]
    BY <1>p DEF Shape
  <2>2. spent[u] = 0
    BY <1>p DEF SpentOnce, Busy
  <2>3. \A v \in Users \ {u} : NotAgain(v)' <=> NotAgain(v)
    BY <1>e, <1>p DEF NotAgain, Contended, Contention
  <2>4. spent' \in [Users -> {0, 1}] /\ \A v \in Users \ {u} : spent'[v] = spent[v]
    BY <1>p, <2>2 DEF SpentOnce
  <2>5. spent'[u] = 1 => NotAgain(u)'
    BY <1>p, <2>2
  <2>6. \A v \in Users : spent'[v] = 1 => at'[v] = "idle" \/ (at'[v] = "failed" /\ NotAgain(v)')
    BY <2>1, <2>3, <2>4, <2>5 DEF SpentOnce
  <2>7. \A c \in Callers : at'[c] = "storeWait" /\ makings'[mine'[c]] = "rejected" => failure'[c].given
    BY <1>p, <2>1 DEF SpentOnce
  <2> QED BY <1>1, <1>2, <1>p, <2>4, <2>6, <2>7 DEF SpentOnce
<1>3. ASSUME NEW c \in Callers, NEW nth, NEW failures, Await(c, nth, failures), failures = 0
      PROVE  SpentOnce'
  <2>1. /\ UNCHANGED failure /\ mine' = [mine EXCEPT ![c] = store'] /\ at'[c] = "storeWait"
        /\ \A v \in Users \ {c} : at'[v] = at[v] \/ (v = Maker /\ spent'[v] = 0)
        /\ \A v \in Users \ {c} : spent'[v] \in {spent[v], 0}
        /\ spent'[c] = 0 /\ spent' \in [Users -> {0, 1}]
    <3>1. CASE NoMaking
      <4>1. /\ at' = [at EXCEPT ![c] = "storeWait", ![Maker] = "connect"]
            /\ spent' = [spent EXCEPT ![c] = 0, ![Maker] = 0]
            /\ UNCHANGED failure /\ mine' = [mine EXCEPT ![c] = store']
        BY <1>3, <3>1 DEF Await
      <4> QED BY <4>1 DEF Shape, SpentOnce
    <3>2. CASE ~NoMaking
      <4>1. /\ at' = [at EXCEPT ![c] = "storeWait"] /\ spent' = [spent EXCEPT ![c] = 0]
            /\ UNCHANGED failure /\ mine' = [mine EXCEPT ![c] = store']
        BY <1>3, <3>2 DEF Await
      <4> QED BY <4>1 DEF Shape, SpentOnce
    <3> QED BY <3>1, <3>2
  <2>2. store' # 0 /\ makings'[store'] # "rejected" /\ \A i \in 1..Len(makings) : makings'[i] = makings[i]
    <3>1. CASE NoMaking
      <4>1. store' = Len(makings) + 1 /\ makings' = Append(makings, "pending")
        BY <1>3, <3>1 DEF Await
      <4>2. /\ makings \in Seq({"pending", "kept", "rejected"}) /\ Len(makings) \in Nat
        BY DEF Shape
      <4> QED BY <4>1, <4>2
    <3>2. CASE ~NoMaking
      <4>1. UNCHANGED <<store, makings>>
        BY <1>3, <3>2 DEF Await
      <4> QED BY <3>2, <4>1 DEF NoMaking, Shape, SpentOnce
    <3> QED BY <3>1, <3>2
  <2>3. \A v \in Users : NotAgain(v)' <=> NotAgain(v)
    BY <1>e, <2>1 DEF NotAgain, Contended, Contention
  <2>4. \A v \in Users : spent'[v] = 1 => at'[v] = "idle" \/ (at'[v] = "failed" /\ NotAgain(v)')
    BY <2>1, <2>3 DEF SpentOnce
  <2>5. ASSUME NEW d \in Callers, at'[d] = "storeWait", makings'[mine'[d]] = "rejected" PROVE failure'[d].given
    <3>1. d # c
      BY <2>1, <2>2, <2>5 DEF Shape
    <3>2. at[d] = "storeWait" /\ mine'[d] = mine[d] /\ mine[d] \in 1..Len(makings)
      BY <2>1, <2>5, <3>1 DEF Shape
    <3> QED BY <2>1, <2>2, <2>5, <3>2 DEF SpentOnce
  <2> QED BY <1>1, <1>2, <2>1, <2>2, <2>4, <2>5 DEF SpentOnce
<1>4. ASSUME NEW c \in Callers, StatementFailed(c) PROVE SpentOnce'
  <2>1. CASE RunAgain(c)
    <3>1. Await(c, attempt[c] + 1, spent[c])
      BY <1>4, <2>1 DEF StatementFailed
    <3>2. spent[c] = 0
      BY <1>4, <2>1 DEF SpentOnce, NotAgain, RunAgain, StatementFailed
    <3> QED BY <1>3, <3>1, <3>2
  <2>2. CASE ~RunAgain(c)
    <3>1. /\ at' = [at EXCEPT ![c] = "idle"] /\ failure' = [failure EXCEPT ![c] = Fine]
          /\ UNCHANGED <<store, makings, mine, spent>>
      BY <1>4, <2>2 DEF StatementFailed
    <3>2. \A v \in Users \ {c} : NotAgain(v)' <=> NotAgain(v)
      BY <1>e, <3>1 DEF NotAgain, Contended, Contention, Shape
    <3>3. \A v \in Users : at'[v] = IF v = c THEN "idle" ELSE at[v]
      BY <3>1 DEF Shape
    <3>4. \A v \in Users : spent'[v] = 1 => at'[v] = "idle" \/ (at'[v] = "failed" /\ NotAgain(v)')
      BY <3>1, <3>2, <3>3 DEF SpentOnce
    <3>5. \A d \in Callers : at'[d] = "storeWait" => at[d] = "storeWait" /\ failure'[d] = failure[d]
      BY <3>1, <3>3 DEF Shape
    <3> QED BY <1>1, <1>2, <3>1, <3>4, <3>5 DEF SpentOnce
  <2> QED BY <2>1, <2>2
<1>5. ASSUME NEW c \in Callers, StoreReady(c) PROVE SpentOnce'
  <2>1. at[c] = "storeWait" /\ spent[c] = 0 /\ UNCHANGED <<store, makings, mine, failure>>
    BY <1>5 DEF StoreReady, SpentOnce
  <2>2. CASE makings[mine[c]] = "kept"
    BY <1>5, <1>q, <2>1, <2>2 DEF StoreReady
  <2>3. CASE makings[mine[c]] = "rejected"
    <3>1. at' = [at EXCEPT ![c] = "failed"] /\ spent' = [spent EXCEPT ![c] = @ + 1]
      BY <1>5, <2>3 DEF StoreReady
    <3>2. \A v \in Users : at'[v] = IF v = c THEN "failed" ELSE at[v]
      BY <3>1 DEF Shape
    <3>3. spent' = [spent EXCEPT ![c] = 1]
      BY <2>1, <3>1 DEF SpentOnce
    <3>4. \A v \in Users : NotAgain(v)' <=> NotAgain(v)
      BY <1>e, <2>1 DEF NotAgain, Contended, Contention
    <3>5. NotAgain(c)
      BY <2>1, <2>3 DEF SpentOnce, NotAgain
    <3>6. \A v \in Users : spent'[v] = 1 => at'[v] = "idle" \/ (at'[v] = "failed" /\ NotAgain(v)')
      BY <3>2, <3>3, <3>4, <3>5 DEF SpentOnce
    <3> QED BY <1>1, <1>2, <2>1, <3>2, <3>3, <3>6 DEF SpentOnce
  <2> QED BY <1>5, <2>2, <2>3 DEF StoreReady
<1>6. ASSUME NEW u \in Users, Queried(u) PROVE SpentOnce'
  <2>1. at[u] = "using" /\ at' = [at EXCEPT ![u] = "idle"] /\ UNCHANGED <<store, mine, failure, spent>>
    BY <1>6 DEF Queried
  <2>2. CASE u # Maker
    <3>1. UNCHANGED makings
      BY <1>6, <2>2 DEF Queried
    <3> QED BY <1>q, <2>1, <3>1
  <2>3. CASE u = Maker
    <3>1. makings' = [makings EXCEPT ![store] = "kept"] /\ store \in 1..Len(makings)
      BY <1>6, <2>1, <2>3 DEF Queried, Shape, Busy
    <3>2. \A i \in 1..Len(makings) : makings'[i] \in {makings[i], "kept"}
      BY <3>1 DEF Shape
    <3>3. \A v \in Users : at'[v] = IF v = u THEN "idle" ELSE at[v]
      BY <2>1 DEF Shape
    <3>4. \A v \in Users : NotAgain(v)' <=> NotAgain(v)
      BY <1>e, <2>1 DEF NotAgain, Contended, Contention
    <3>5. \A v \in Users : spent'[v] = 1 => at'[v] = "idle" \/ (at'[v] = "failed" /\ NotAgain(v)')
      BY <2>1, <3>3, <3>4 DEF SpentOnce
    <3>6. \A d \in Callers : at'[d] = "storeWait" => at[d] = "storeWait" /\ mine[d] \in 1..Len(makings)
      BY <3>3 DEF Shape
    <3> QED BY <1>1, <1>2, <2>1, <3>1, <3>2, <3>5, <3>6 DEF SpentOnce
  <2> QED BY <2>2, <2>3
<1>7. ASSUME NEW u \in Users, QueryFails(u) PROVE SpentOnce'
  <2>1. /\ at[u] = "using" /\ at' = [at EXCEPT ![u] = "failed"] /\ UNCHANGED <<store, makings, mine, spent>>
        /\ \A v \in Users \ {u} : failure'[v] = failure[v]
    BY <1>7 DEF QueryFails, Shape
  <2> QED BY <1>p, <2>1 DEF Busy
<1>8. ASSUME NEW u \in Users, Provided(u) PROVE SpentOnce'
  <2>1. at[u] \in Busy \ {"failed"} /\ spent[u] = 0 /\ UNCHANGED <<store, makings, mine>>
    BY <1>8 DEF Provided, Provide, Connect, Opened, OpenFails, Woken, Named, NamingFails, Busy, SpentOnce
  <2>2. /\ \E x \in Busy : at' = [at EXCEPT ![u] = x]
        /\ \A v \in Users \ {u} : failure'[v] = failure[v]
        /\ at'[u] = "failed" \/ UNCHANGED failure
    BY <1>8 DEF Provided, Provide, Connect, Opened, OpenFails, Woken, Named, NamingFails, Ensured, Shape, Busy
  <2>3. CASE at'[u] # "failed"
    <3>1. UNCHANGED <<failure, spent>>
      BY <1>8, <2>2, <2>3 DEF Provided
    <3> QED BY <1>q, <2>1, <2>2, <3>1 DEF Busy
  <2>4. CASE at'[u] = "failed" /\ at[u] # "waiting"
    <3>1. spent' = spent /\ at' = [at EXCEPT ![u] = "failed"]
      BY <1>8, <2>2, <2>4 DEF Provided, Shape
    <3> QED BY <1>p, <2>1, <2>2, <3>1
  <2>5. CASE at'[u] = "failed" /\ at[u] = "waiting"
    <3>1. /\ awaits[u] \in 1..Len(runs) /\ runs[awaits[u]].state = "failed"
          /\ failure'[u] = runs[awaits[u]].failure
          /\ spent' = [spent EXCEPT ![u] = @ + 1] /\ at' = [at EXCEPT ![u] = "failed"]
      BY <1>8, <2>2, <2>5 DEF Provided, Provide, Connect, Opened, OpenFails, Woken, Named, NamingFails, Shape
    <3>2. u = Maker
      BY <2>1, <2>5, <3>1, KeptIsDone DEF Kept
    <3>3. engine = "ORACLE" => failure'[u].given
      BY <3>1 DEF SpentOnce
    <3>4. engine # "ORACLE" => ~Contended(u)'
      BY <1>e, <3>2 DEF Contended, Contention
    <3>5. NotAgain(u)'
      BY <3>3, <3>4 DEF NotAgain
    <3> QED BY <1>p, <2>1, <2>2, <3>1, <3>5
  <2> QED BY <2>3, <2>4, <2>5
<1>9. CASE MakerRunsAgain
  <2>1. spent[Maker] = 0
    BY <1>9 DEF MakerRunsAgain, SpentOnce, NotAgain, RunAgain
  <2> QED BY <1>q, <1>9, <2>1 DEF MakerRunsAgain
<1>10. CASE MakerGivesUp
  <2>1. /\ at' = [at EXCEPT ![Maker] = "idle"] /\ store' = 0 /\ UNCHANGED <<mine, spent>>
        /\ makings' = [makings EXCEPT ![store] = "rejected"] /\ store \in 1..Len(makings)
    BY <1>10 DEF MakerGivesUp, Shape
  <2>2. \A v \in Users : at'[v] = IF v = Maker THEN "idle" ELSE at[v]
    BY <2>1 DEF Shape
  <2>3. \A v \in Users : at[v] # "storeWait" => failure'[v] = failure[v]
    BY <1>10 DEF MakerGivesUp
  <2>4. ASSUME NEW d \in Callers, at'[d] = "storeWait", makings'[mine'[d]] = "rejected" PROVE failure'[d].given
    <3>1. at[d] = "storeWait" /\ mine[d] \in 1..Len(makings)
      BY <2>2, <2>4 DEF Shape
    <3>2. CASE mine[d] = store
      BY <1>10, <3>1, <3>2 DEF MakerGivesUp, Failure
    <3>3. CASE mine[d] # store
      <4>1. makings[mine[d]] = "rejected" /\ failure'[d] = failure[d]
        BY <1>10, <2>1, <2>4, <3>1, <3>3 DEF MakerGivesUp, Shape
      <4> QED BY <3>1, <4>1 DEF SpentOnce
    <3> QED BY <3>2, <3>3
  <2>5. ASSUME NEW v \in Users, spent'[v] = 1 PROVE at'[v] = "idle" \/ (at'[v] = "failed" /\ NotAgain(v)')
    <3>1. at[v] = "idle" \/ (at[v] = "failed" /\ NotAgain(v))
      BY <2>1, <2>5 DEF SpentOnce
    <3>2. failure'[v] = failure[v]
      BY <2>3, <3>1
    <3> QED BY <1>e, <2>2, <3>1, <3>2 DEF NotAgain, Contended, Contention
  <2> QED BY <1>1, <1>2, <2>1, <2>4, <2>5 DEF SpentOnce
<1>11. CASE (Block /\ UNCHANGED making) \/ (End /\ UNCHANGED making) \/ UNCHANGED vars
  <2>1. UNCHANGED <<at, failure, store, makings, mine, spent>>
    BY <1>11 DEF Block, BlockEnds, BlockTurnedAway, BlockFails, End, vars
  <2>2. \A v \in Users : NotAgain(v)' <=> NotAgain(v)
    BY <1>e, <2>1 DEF NotAgain, Contended, Contention
  <2> QED BY <1>1, <1>2, <2>1, <2>2 DEF SpentOnce
<1>12. ASSUME NEW c \in Callers, Statement(c) PROVE SpentOnce'
  BY <1>3, <1>12 DEF Statement
<1> QED BY <1>4, <1>5, <1>6, <1>7, <1>8, <1>9, <1>10, <1>11, <1>12 DEF Next, Step, MakerFailed

\* A failure that the block gave up ends the making it is in, and one the
\* making gave up ends the save that waited for it: none of the three is run
\* again for what one inside it would not, however often each was turned away
\* on its own (Contention.ts:107-135).
THEOREM AttemptsStayFew == Spec => []AttemptsDoNotMultiply
<1>1. Init => Served /\ Kept /\ SpentOnce
  BY MakerIsNoCaller DEF Init, FirstInit, Served, Busy, Kept, StoreDone, SpentOnce
<1>2. SpentOnce => AttemptsDoNotMultiply
  BY DEF SpentOnce, AttemptsDoNotMultiply
<1> QED BY <1>1, <1>2, AlwaysInShape, NextServed, NextKept, NextSpent, PTL DEF Spec

-----------------------------------------------------------------------------
(* The connections.                                                         *)

Holding == {"waiting", "naming", "using"}
Lost == opened \ Held

\* No more are lost than there were failures.
FewLost == faults \in Nat /\ IsFiniteSet(Lost) /\ Cardinality(Lost) <= faults

\* EachConnectionOnce, with who holds a connection and what it is.
Sound ==
  /\ idle \in Seq(Handles) /\ Len(idle) <= PoolMax
  /\ opened \in SUBSET Handles
  /\ db \in [Users -> Handles \cup {None}]
  /\ \A u \in Users : db[u] # None <=> at[u] \in Holding
  /\ \A i \in 1..Len(idle) : idle[i] \in opened
  /\ \A u \in Users : db[u] # None => db[u] \in opened
  /\ \A i, j \in 1..Len(idle) : idle[i] = idle[j] => i = j
  /\ \A u, v \in Users : db[u] # None /\ db[u] = db[v] => u = v
  /\ \A u \in Users, i \in 1..Len(idle) : db[u] # idle[i]
  /\ engine = "SQLITE" => Lost = {}
  /\ FewLost

LEMMA LostAsBefore ==
  ASSUME Sound, Lost' = Lost, faults' \in {faults, faults + 1}
  PROVE  FewLost'
<1>1. FewLost /\ Cardinality(Lost) \in Nat
  BY FS_CardinalityType DEF Sound, FewLost
<1>2. Cardinality(Lost') = Cardinality(Lost) /\ IsFiniteSet(Lost')
  <2>1. ASSUME NEW S, NEW T, S = T, IsFiniteSet(S) PROVE IsFiniteSet(T) /\ Cardinality(T) = Cardinality(S)
    BY <2>1
  <2> HIDE DEF Lost
  <2> QED BY <1>1, <2>1 DEF FewLost
<1> QED BY <1>1, <1>2 DEF FewLost

\* A step that moves no connection, and nobody to or from one.
LEMMA QuietSound ==
  ASSUME Sound, UNCHANGED <<engine, idle, opened, db>>, faults' \in {faults, faults + 1},
         \A u \in Users : at'[u] \in Holding <=> at[u] \in Holding
  PROVE  Sound'
<1>1. Lost' = Lost
  BY DEF Lost, Held
<1>2. FewLost'
  BY <1>1, LostAsBefore
<1> QED BY <1>1, <1>2 DEF Sound

\* A connection that is idle is taken.
LEMMA TakenSound ==
  ASSUME Shape, Sound, NEW u \in Users, at[u] = "connect", idle # << >>, Ensured(u, idle[Len(idle)]),
         idle' = SubSeq(idle, 1, Len(idle) - 1), UNCHANGED <<engine, opened, faults>>
  PROVE  Sound'
<1> DEFINE n == Len(idle)
           h == idle[n]
<1>1. n \in Nat \ {0} /\ h \in Handles /\ h # None
  BY NoneIsNoHandle DEF Sound
<1>2. idle' \in Seq(Handles) /\ Len(idle') = n - 1 /\ \A i \in 1..(n - 1) : idle'[i] = idle[i]
  <2>1. idle \in Seq(Handles) /\ n - 1 \in Nat /\ 1 \in 1..(n + 1) /\ n - 1 \in 0..n
    BY <1>1 DEF Sound
  <2>2. \A i \in 1..(n - 1) : idle[i] \in Handles
    BY <2>1
  <2>3. /\ idle' \in Seq(Handles) /\ Len(idle') = IF 1 <= n - 1 THEN (n - 1) - 1 + 1 ELSE 0
        /\ \A i \in 1..((n - 1) - 1 + 1) : idle'[i] = idle[1 + i - 1]
    BY <2>1, <2>2, SubSeqProperties
  <2>4. Len(idle') = n - 1
    <3>1. ASSUME NEW k \in Nat \ {0} PROVE (IF 1 <= k - 1 THEN (k - 1) - 1 + 1 ELSE 0) = k - 1
      OBVIOUS
    <3>2. (IF 1 <= n - 1 THEN (n - 1) - 1 + 1 ELSE 0) = n - 1
      BY <1>1, <3>1
    <3> HIDE DEF n
    <3> QED BY <2>3, <3>2
  <2>5. \A i \in 1..(n - 1) : i \in 1..((n - 1) - 1 + 1) /\ 1 + i - 1 = i
    BY <1>1
  <2> QED BY <2>3, <2>4, <2>5
<1>3. at' = [at EXCEPT ![u] = "waiting"] /\ db' = [db EXCEPT ![u] = h]
  BY DEF Ensured, NoRun
<1>4. db[u] = None
  BY DEF Sound, Holding
<1>5. db' \in [Users -> Handles \cup {None}] /\ \A v \in Users : db'[v] = IF v = u THEN h ELSE db[v]
  BY <1>1, <1>3 DEF Sound
<1>6. \A v \in Users : db'[v] # None <=> at'[v] \in Holding
  BY <1>1, <1>3, <1>5 DEF Sound, Shape, Holding
<1>7. \A v \in Users, i \in 1..(n - 1) : db'[v] # idle[i]
  BY <1>1, <1>5 DEF Sound
<1>8. \A v, w \in Users : db'[v] # None /\ db'[v] = db'[w] => v = w
  BY <1>1, <1>5 DEF Sound
<1>9. Held' = Held
  <2>1. ASSUME NEW x \in Held' PROVE x \in Held
    <3>1. CASE \E i \in 1..(n - 1) : x = idle[i]
      BY <1>1, <3>1 DEF Held
    <3>2. CASE \E v \in Users : x = db'[v] /\ x # None
      BY <1>1, <1>5, <3>2 DEF Held
    <3> QED BY <1>2, <2>1, <3>1, <3>2 DEF Held
  <2>2. ASSUME NEW x \in Held PROVE x \in Held'
    <3>1. CASE \E i \in 1..n : x = idle[i]
      <4>1. PICK i \in 1..n : x = idle[i]
        BY <3>1
      <4>2. CASE i = n
        BY <1>1, <1>5, <4>1, <4>2 DEF Held
      <4>3. CASE i # n
        <5>1. i \in 1..Len(idle') /\ x = idle'[i]
          BY <1>1, <1>2, <4>1, <4>3
        <5> QED BY <5>1 DEF Held
      <4> QED BY <4>2, <4>3
    <3>2. CASE \E v \in Users : x = db[v] /\ x # None
      BY <1>4, <1>5, <3>2 DEF Held
    <3> QED BY <2>2, <3>1, <3>2 DEF Held
  <2> QED BY <2>1, <2>2
<1>10. Lost' = Lost
  BY <1>9 DEF Lost
<1>11. \A v \in Users : db'[v] # None => db'[v] \in opened'
  BY <1>1, <1>5 DEF Sound
<1>12. \A i, j \in 1..(n - 1) : idle'[i] = idle'[j] => i = j
  BY <1>1, <1>2 DEF Sound
<1>13. FewLost'
  BY <1>10, LostAsBefore
<1>14. \A i \in 1..(n - 1) : idle'[i] \in opened
  BY <1>1, <1>2 DEF Sound
<1>15. n - 1 <= PoolMax
  BY <1>1, Sizes DEF Sound
<1>16. \A v \in Users, i \in 1..(n - 1) : db'[v] # idle'[i]
  BY <1>2, <1>7
<1>17. engine' = "SQLITE" => Lost' = {}
  BY <1>10 DEF Sound
<1> QED BY <1>2, <1>5, <1>6, <1>8, <1>11, <1>12, <1>13, <1>14, <1>15, <1>16, <1>17 DEF Sound

\* One is opened.
LEMMA OpenedSound ==
  ASSUME Shape, Sound, NEW u \in Users, at[u] = "opening", NEW h \in Handles \ opened, Ensured(u, h),
         opened' = opened \cup {h}, UNCHANGED <<engine, idle, faults>>
  PROVE  Sound'
<1>1. h # None
  BY NoneIsNoHandle
<1>3. at' = [at EXCEPT ![u] = "waiting"] /\ db' = [db EXCEPT ![u] = h]
  BY DEF Ensured, NoRun
<1>4. db[u] = None
  BY DEF Sound, Holding
<1>5. db' \in [Users -> Handles \cup {None}] /\ \A v \in Users : db'[v] = IF v = u THEN h ELSE db[v]
  BY <1>1, <1>3 DEF Sound
<1>6. \A v \in Users : db'[v] # None <=> at'[v] \in Holding
  BY <1>1, <1>3, <1>5 DEF Sound, Shape, Holding
<1>7. \A v \in Users, i \in 1..Len(idle) : db'[v] # idle[i]
  BY <1>1, <1>5 DEF Sound
<1>8. \A v, w \in Users : db'[v] # None /\ db'[v] = db'[w] => v = w
  BY <1>1, <1>5 DEF Sound
<1>9. Held' = Held \cup {h}
  BY <1>1, <1>4, <1>5 DEF Held
<1>10. Lost' = Lost
  BY <1>9 DEF Lost
<1>11. \A v \in Users : db'[v] # None => db'[v] \in opened'
  BY <1>1, <1>5 DEF Sound
<1>12. FewLost'
  BY <1>10, LostAsBefore
<1> QED BY <1>5, <1>6, <1>7, <1>8, <1>10, <1>11, <1>12 DEF Sound

\* One is given back: kept, or closed.
LEMMA GivenBackSound ==
  ASSUME Shape, Sound, NEW u \in Users, at[u] \in Holding, NEW failed \in BOOLEAN, GiveBack(u, failed),
         NEW x, x \notin Holding, at' = [at EXCEPT ![u] = x], engine' = engine, faults' \in {faults, faults + 1}
  PROVE  Sound'
<1> DEFINE h == db[u]
<1>1. h \in opened /\ h \in Handles /\ h # None /\ Len(idle) \in Nat
  BY DEF Sound
<1>2. db' = [db EXCEPT ![u] = None]
  BY DEF GiveBack
<1>3. db' \in [Users -> Handles \cup {None}] /\ \A v \in Users : db'[v] = IF v = u THEN None ELSE db[v]
  BY <1>2 DEF Sound
<1>4. \A v \in Users : db'[v] # None <=> at'[v] \in Holding
  BY <1>3 DEF Sound, Shape
<1>5. \A v, w \in Users : db'[v] # None /\ db'[v] = db'[w] => v = w
  BY <1>3 DEF Sound
<1>6. CASE Closes(failed)
  <2>1. opened' = opened \ {h} /\ idle' = idle
    BY <1>6 DEF GiveBack
  <2>2. Held' = Held \ {h}
    BY <1>1, <1>3, <2>1 DEF Held, Sound
  <2>3. h \in Held
    BY <1>1 DEF Held
  <2>4. Lost' = Lost
    BY <2>1, <2>2, <2>3 DEF Lost
  <2>5. \A v \in Users : db'[v] # None => db'[v] \in opened'
    BY <1>3, <2>1 DEF Sound
  <2>6. \A i \in 1..Len(idle') : idle'[i] \in opened'
    BY <2>1 DEF Sound
  <2>7. \A v \in Users, i \in 1..Len(idle) : db'[v] # idle[i]
    BY <1>1, <1>3, NoneIsNoHandle DEF Sound
  <2>8. FewLost'
    BY <2>4, LostAsBefore
  <2> QED BY <1>3, <1>4, <1>5, <2>1, <2>4, <2>5, <2>6, <2>7, <2>8 DEF Sound
<1>7. CASE ~Closes(failed)
  <2>1. opened' = opened /\ idle' = Append(idle, h)
    BY <1>7 DEF GiveBack
  <2>2. /\ idle' \in Seq(Handles) /\ Len(idle') = Len(idle) + 1 /\ idle'[Len(idle) + 1] = h
        /\ \A i \in 1..Len(idle) : idle'[i] = idle[i]
    BY <1>1, <2>1 DEF Sound
  <2>3. Len(idle') <= PoolMax
    BY <1>1, <1>7, <2>2, Sizes DEF Closes
  <2>4. \A i \in 1..Len(idle') : idle'[i] = IF i = Len(idle) + 1 THEN h ELSE idle[i]
    BY <1>1, <2>2
  <2>5. \A i \in 1..Len(idle') : i # Len(idle) + 1 => i \in 1..Len(idle)
    BY <1>1, <2>2
  <2>6. Held' = Held
    <3>1. ASSUME NEW y \in Held' PROVE y \in Held
      <4>1. CASE \E i \in 1..Len(idle') : y = idle'[i]
        BY <1>1, <2>4, <2>5, <4>1 DEF Held
      <4>2. CASE \E v \in Users : y = db'[v] /\ y # None
        BY <1>3, <4>2 DEF Held
      <4> QED BY <3>1, <4>1, <4>2 DEF Held
    <3>2. ASSUME NEW y \in Held PROVE y \in Held'
      <4>1. CASE \E i \in 1..Len(idle) : y = idle[i]
        <5>1. PICK i \in 1..Len(idle) : y = idle[i]
          BY <4>1
        <5>2. i \in 1..Len(idle') /\ y = idle'[i]
          BY <1>1, <2>2, <5>1
        <5> QED BY <5>2 DEF Held
      <4>2. CASE y = h
        <5>1. Len(idle) + 1 \in 1..Len(idle') /\ y = idle'[Len(idle) + 1]
          BY <1>1, <2>2, <4>2
        <5> QED BY <5>1 DEF Held
      <4>3. CASE \E v \in Users \ {u} : y = db[v] /\ y # None
        BY <1>3, <4>3 DEF Held
      <4> QED BY <3>2, <4>1, <4>2, <4>3 DEF Held
    <3> QED BY <3>1, <3>2
  <2>7. Lost' = Lost
    BY <2>1, <2>6 DEF Lost
  <2>8. \A i \in 1..Len(idle') : idle'[i] \in opened'
    BY <1>1, <2>1, <2>4, <2>5 DEF Sound
  <2>9. \A i, j \in 1..Len(idle') : idle'[i] = idle'[j] => i = j
    BY <1>1, <2>4, <2>5 DEF Sound
  <2>10. \A v \in Users, i \in 1..Len(idle') : db'[v] # idle'[i]
    <3> SUFFICES ASSUME NEW v \in Users, NEW i \in 1..Len(idle') PROVE db'[v] # idle'[i]
      OBVIOUS
    <3>1. idle'[i] \in Handles
      BY <1>1, <2>4, <2>5 DEF Sound
    <3>2. CASE v = u
      BY <1>3, <3>1, <3>2, NoneIsNoHandle
    <3>3. CASE v # u
      BY <1>1, <1>3, <2>4, <2>5, <3>3 DEF Sound
    <3> QED BY <3>2, <3>3
  <2>11. \A v \in Users : db'[v] # None => db'[v] \in opened'
    BY <1>3, <2>1 DEF Sound
  <2>12. FewLost'
    BY <2>7, LostAsBefore
  <2>13. engine' = "SQLITE" => Lost' = {}
    BY <2>7 DEF Sound
  <2> QED BY <1>3, <1>4, <1>5, <2>1, <2>2, <2>3, <2>8, <2>9, <2>10, <2>11, <2>12, <2>13 DEF Sound
<1> QED BY <1>6, <1>7

\* The session's id is not learnt, and the connection is lost.
LEMMA NamingSound ==
  ASSUME Shape, Sound, NEW u \in Users, engine = "ORACLE", at[u] = "naming", at' = [at EXCEPT ![u] = "failed"],
         db' = [db EXCEPT ![u] = None], faults' = faults + 1, UNCHANGED <<engine, idle, opened>>
  PROVE  Sound'
<1> DEFINE h == db[u]
<1>1. h \in opened /\ h # None
  BY DEF Sound, Holding
<1>2. db' \in [Users -> Handles \cup {None}] /\ \A v \in Users : db'[v] = IF v = u THEN None ELSE db[v]
  BY DEF Sound
<1>3. \A v \in Users : db'[v] # None <=> at'[v] \in Holding
  BY <1>2 DEF Sound, Shape, Holding
<1>4. Held' = Held \ {h}
  BY <1>1, <1>2 DEF Held, Sound
<1>5. Lost' = Lost \cup {h}
  BY <1>1, <1>4 DEF Lost
<1>6. IsFiniteSet(Lost') /\ Cardinality(Lost') <= Cardinality(Lost) + 1 /\ Cardinality(Lost) \in Nat
  <2>1. IsFiniteSet(Lost) /\ Cardinality(Lost) \in Nat
    BY FS_CardinalityType DEF Sound, FewLost
  <2>2. IsFiniteSet(Lost \cup {h}) /\ Cardinality(Lost \cup {h}) \in {Cardinality(Lost), Cardinality(Lost) + 1}
    BY <2>1, FS_AddElement, Zenon
  <2>3. Cardinality(Lost') = Cardinality(Lost \cup {h}) /\ IsFiniteSet(Lost')
    BY <1>5, <2>2, Zenon
  <2> QED BY <2>1, <2>2, <2>3
<1>7. \A v \in Users, i \in 1..Len(idle) : db'[v] # idle[i]
  BY <1>2, NoneIsNoHandle DEF Sound
<1>8. faults' \in Nat /\ Cardinality(Lost') <= faults'
  <2>1. Cardinality(Lost') \in Nat
    BY <1>6, FS_CardinalityType
  <2> QED BY <1>6, <2>1 DEF Sound, FewLost
<1>9. FewLost'
  BY <1>6, <1>8 DEF FewLost
<1> QED BY <1>2, <1>3, <1>7, <1>9 DEF Sound

\* The provider ends.
LEMMA EndSound ==
  ASSUME Shape, Sound, End
  PROVE  Sound'
<1>1. idle' = << >> /\ UNCHANGED <<engine, db, at, faults>> /\ engine = "SQLITE"
      /\ opened' = {h \in opened : \A i \in 1..Len(idle) : idle[i] # h}
  BY DEF End
<1>2. Held' = {db[u] : u \in {v \in Users : db[v] # None}}
  BY <1>1 DEF Held
<1>3. Lost' = {}
  BY <1>1, <1>2 DEF Sound, Lost, Held
<1>4. \A u \in Users : db[u] # None => db[u] \in opened'
  BY <1>1 DEF Sound
<1>5. Len(idle') = 0 /\ idle' \in Seq(Handles)
  BY <1>1
<1>6. IsFiniteSet(Lost') /\ Cardinality(Lost') = 0
  BY <1>3, FS_EmptySet
<1>7. FewLost'
  BY <1>1, <1>6 DEF FewLost, Sound
<1> QED BY <1>1, <1>3, <1>4, <1>5, <1>7, Sizes DEF Sound

\* Only on Oracle is the session's id asked for.
NamedOnOracle == \A u \in Users : at[u] = "naming" => engine = "ORACLE"

LEMMA NextNamed == Shape /\ NamedOnOracle /\ [Next]_vars => NamedOnOracle'
<1> SUFFICES ASSUME Shape, NamedOnOracle, [Next]_vars PROVE NamedOnOracle'
  OBVIOUS
<1>1. engine' = engine
  BY EngineStays
<1>2. ASSUME NEW u \in Users, at'[u] = "naming" PROVE at[u] = "naming" \/ engine = "ORACLE"
  <2>1. ASSUME NEW v \in Users, Provided(v) PROVE at[u] = "naming" \/ engine = "ORACLE"
    BY <1>2, <2>1 DEF Shape, Provided, Provide, Connect, Opened, OpenFails, Woken, Named, NamingFails, Ensured
  <2>2. ASSUME NEW c \in Callers, Statement(c) \/ StatementFailed(c) PROVE at[u] = "naming"
    BY <1>2, <2>2, MakerIsNoCaller DEF Shape, Statement, StatementFailed, Await
  <2>3. CASE Next
    BY <1>2, <2>1, <2>2, <2>3, MakerIsNoCaller DEF Shape, Next, Step, StoreReady, Queried, QueryFails, MakerFailed,
       MakerRunsAgain, MakerGivesUp, Block, BlockEnds, BlockTurnedAway, BlockFails, End
  <2> QED BY <1>2, <2>3 DEF vars
<1> QED BY <1>1, <1>2 DEF NamedOnOracle

LEMMA SoundAtFirst == Init => Sound
<1> SUFFICES ASSUME Init PROVE Sound
  OBVIOUS
<1>1. idle = << >> /\ opened = {} /\ db = [u \in Users |-> None] /\ faults = 0 /\ at = [u \in Users |-> "idle"]
  BY DEF Init, FirstInit
<1>2. Lost = {} /\ IsFiniteSet({}) /\ Cardinality({}) = 0
  BY <1>1, FS_EmptySet DEF Lost
<1>3. FewLost
  BY <1>1, <1>2 DEF FewLost
<1> QED BY <1>1, <1>2, <1>3, Sizes DEF Sound, Holding

LEMMA ProvidedSound ==
  ASSUME Shape, Sound, NamedOnOracle, NEW u \in Users, Provided(u)
  PROVE  Sound'
<1>1. CASE Connect(u)
  <2>1. CASE idle # << >>
    BY <1>1, <2>1, TakenSound DEF Connect
  <2>2. CASE idle = << >>
    <3>1. at[u] = "connect" /\ at' = [at EXCEPT ![u] = "opening"] /\ UNCHANGED <<engine, idle, opened, db, faults>>
      BY <1>1, <2>2 DEF Connect
    <3>2. \A v \in Users : at'[v] \in Holding <=> at[v] \in Holding
      BY <3>1 DEF Shape, Holding
    <3> QED BY <3>1, <3>2, QuietSound
  <2> QED BY <2>1, <2>2
<1>2. CASE Opened(u)
  <2>1. PICK h \in Handles \ opened : Ensured(u, h) /\ opened' = opened \cup {h}
    BY <1>2 DEF Opened
  <2>2. at[u] = "opening" /\ UNCHANGED <<engine, idle, faults>>
    BY <1>2 DEF Opened
  <2> QED BY <2>1, <2>2, OpenedSound
<1>3. CASE OpenFails(u)
  <2>1. at[u] = "opening" /\ at' = [at EXCEPT ![u] = "failed"] /\ UNCHANGED <<engine, idle, opened, db>> /\ faults' = faults + 1
    BY <1>3 DEF OpenFails, provider
  <2>2. \A v \in Users : at'[v] \in Holding <=> at[v] \in Holding
    BY <2>1 DEF Shape, Holding
  <2> QED BY <2>1, <2>2, QuietSound
<1>4. CASE Woken(u)
  <2>1. at[u] = "waiting" /\ UNCHANGED <<engine, faults>>
    BY <1>4 DEF Woken
  <2>2. CASE GiveBack(u, TRUE) /\ at' = [at EXCEPT ![u] = "failed"]
    BY <2>1, <2>2, GivenBackSound DEF Holding
  <2>3. CASE UNCHANGED <<idle, opened, db>> /\ at' = [at EXCEPT ![u] = IF engine = "ORACLE" THEN "naming" ELSE "using"]
    <3>1. \A v \in Users : at'[v] \in Holding <=> at[v] \in Holding
      BY <2>1, <2>3 DEF Shape, Holding
    <3> QED BY <2>1, <2>3, <3>1, QuietSound
  <2> QED BY <1>4, <2>2, <2>3 DEF Woken, TurnedAway
<1>5. CASE Named(u)
  <2>1. at[u] = "naming" /\ at' = [at EXCEPT ![u] = "using"] /\ UNCHANGED <<engine, idle, opened, db, faults>>
    BY <1>5 DEF Named, provider
  <2>2. \A v \in Users : at'[v] \in Holding <=> at[v] \in Holding
    BY <2>1 DEF Shape, Holding
  <2> QED BY <2>1, <2>2, QuietSound
<1>6. CASE NamingFails(u)
  BY <1>6, NamingSound DEF NamingFails, NamedOnOracle, provider
<1> QED BY <1>1, <1>2, <1>3, <1>4, <1>5, <1>6 DEF Provided, Provide

LEMMA NextSound == Shape /\ NamedOnOracle /\ Sound /\ [Next]_vars => Sound'
<1> SUFFICES ASSUME Shape, NamedOnOracle, Sound, [Next]_vars PROVE Sound'
  OBVIOUS
<1> USE MakerIsNoCaller DEF provider, making
<1>1. ASSUME NEW c \in Callers, NEW nth, NEW failures, Await(c, nth, failures), at[c] \in {"idle", "failed"}
      PROVE  Sound'
  <2>1. UNCHANGED <<engine, idle, opened, db, faults>>
    BY <1>1 DEF Await
  <2>2. at'[c] = "storeWait"
        /\ \A v \in Users \ {c} : at'[v] = at[v] \/ (v = Maker /\ at'[v] = "connect" /\ store = 0)
    BY <1>1 DEF Await, NoMaking, Shape
  <2>3. store = 0 => at[Maker] = "idle"
    BY DEF Shape
  <2>4. \A v \in Users : at'[v] \in Holding <=> at[v] \in Holding
    BY <1>1, <2>2, <2>3 DEF Holding
  <2> QED BY <2>1, <2>4, QuietSound
<1>a. ASSUME NEW c \in Callers, Statement(c) \/ StatementFailed(c) PROVE Sound'
  <2>1. CASE Statement(c)
    BY <2>1, <1>1 DEF Statement
  <2>2. CASE StatementFailed(c) /\ RunAgain(c)
    BY <2>2, <1>1 DEF StatementFailed
  <2>3. CASE StatementFailed(c) /\ ~RunAgain(c)
    <3>1. UNCHANGED <<engine, idle, opened, db, faults>> /\ at[c] = "failed" /\ at' = [at EXCEPT ![c] = "idle"]
      BY <2>3 DEF StatementFailed
    <3>2. \A v \in Users : at'[v] \in Holding <=> at[v] \in Holding
      BY <3>1 DEF Shape, Holding
    <3> QED BY <3>1, <3>2, QuietSound
  <2> QED BY <1>a, <2>1, <2>2, <2>3
<1>2. ASSUME NEW c \in Callers, StoreReady(c) PROVE Sound'
  <2>1. UNCHANGED <<engine, idle, opened, db, faults>>
    BY <1>2 DEF StoreReady
  <2>2. \A v \in Users : at'[v] \in Holding <=> at[v] \in Holding
    BY <1>2 DEF StoreReady, Shape, Holding
  <2> QED BY <2>1, <2>2, QuietSound
<1>3. ASSUME NEW u \in Users, Queried(u) PROVE Sound'
  <2>1. GiveBack(u, FALSE) /\ at[u] = "using" /\ at' = [at EXCEPT ![u] = "idle"] /\ UNCHANGED <<engine, faults>>
    BY <1>3 DEF Queried
  <2> QED BY <2>1, GivenBackSound DEF Holding
<1>4. ASSUME NEW u \in Users, QueryFails(u) PROVE Sound'
  <2>1. GiveBack(u, TRUE) /\ at[u] = "using" /\ at' = [at EXCEPT ![u] = "failed"] /\ engine' = engine /\ faults' = faults + 1
    BY <1>4 DEF QueryFails
  <2> QED BY <2>1, GivenBackSound DEF Holding
<1>5. CASE MakerFailed
  <2>1. UNCHANGED <<engine, idle, opened, db, faults>>
    BY <1>5 DEF MakerFailed, MakerRunsAgain, MakerGivesUp
  <2>2. \A v \in Users : at'[v] \in Holding <=> at[v] \in Holding
    BY <1>5 DEF MakerFailed, MakerRunsAgain, MakerGivesUp, Shape, Holding
  <2> QED BY <2>1, <2>2, QuietSound
<1>6. CASE Block
  <2>1. UNCHANGED <<engine, idle, opened, db, at>> /\ faults' \in {faults, faults + 1}
    BY <1>6 DEF Block, BlockEnds, BlockTurnedAway, BlockFails
  <2> QED BY <2>1, QuietSound
<1>7. CASE End
  BY <1>7, EndSound
<1>8. CASE UNCHANGED vars
  BY <1>8, QuietSound DEF vars
<1> QED BY <1>a, <1>2, <1>3, <1>4, <1>5, <1>6, <1>7, <1>8, ProvidedSound DEF Next, Step

LEMMA AlwaysSound == Spec => []Sound
<1>1. Init => NamedOnOracle
  BY DEF Init, NamedOnOracle
<1> QED BY <1>1, ShapeAtFirst, NextShape, NextNamed, SoundAtFirst, NextSound, PTL DEF Spec

EndKept == ended => idle = << >>

\* Whatever is given back meanwhile, a provider that ended keeps nothing
\* until it connects again (SqliteConnectionProvider.ts:45, 80-100).
LEMMA AnEndKeepsNothing == Spec => []EndKept
<1>1. Init => EndKept
  BY DEF Init, FirstInit, EndKept
<1>2. EndKept /\ [Next]_vars => EndKept'
  <2> SUFFICES ASSUME EndKept, [Next]_vars PROVE EndKept'
    OBVIOUS
  <2> USE DEF EndKept
  <2>1. ASSUME NEW u \in Users, NEW failed, GiveBack(u, failed), ended' = ended PROVE ended' => idle' = << >>
    BY <2>1 DEF GiveBack, Closes
  <2>2. ASSUME NEW u \in Users, Provided(u) PROVE ended' => idle' = << >>
    BY <2>1, <2>2 DEF Provided, Provide, Connect, Opened, OpenFails, Woken, TurnedAway, Named, NamingFails, provider
  <2>3. ASSUME NEW u \in Users, Queried(u) \/ QueryFails(u) PROVE ended' => idle' = << >>
    BY <2>1, <2>3 DEF Queried, QueryFails
  <2>4. CASE Next
    BY <2>2, <2>3, <2>4 DEF Next, Step, Statement, StatementFailed, Await, StoreReady, MakerFailed, MakerRunsAgain,
       MakerGivesUp, Block, BlockEnds, BlockTurnedAway, BlockFails, End, provider
  <2> QED BY <2>4 DEF vars, provider
<1> QED BY <1>1, <1>2, PTL DEF Spec

\* However connects, failures and ends interleave, every open connection is
\* idle or with one user, but for those a failure on Oracle lost: no more of
\* them than there were failures, and none is idle after an end (FirstConnection.ts:36-63,
\* SqliteConnectionProvider.ts:45-100, OracleConnectionProvider.ts:94).
THEOREM ConnectionsAreSound == Spec => []EachConnectionOnce
<1>1. Sound /\ EndKept => EachConnectionOnce
  <2> SUFFICES ASSUME Sound, EndKept PROVE EachConnectionOnce
    OBVIOUS
  <2>1. Held \subseteq opened
    BY DEF Held, Sound
  <2>2. engine = "SQLITE" => opened \subseteq Held
    BY DEF Sound, Lost
  <2>3. Cardinality(opened \ Held) <= faults
    BY DEF Sound, FewLost, Lost
  <2>4. \A i, j \in 1..Len(idle) : idle[i] = idle[j] => i = j
    BY DEF Sound
  <2>5. \A u, v \in Users : db[u] # None /\ db[u] = db[v] => u = v
    BY DEF Sound
  <2>6. \A u \in Users, i \in 1..Len(idle) : db[u] # idle[i]
    BY DEF Sound
  <2> QED BY <2>1, <2>2, <2>3, <2>4, <2>5, <2>6 DEF EachConnectionOnce, EndKept
<1> QED BY <1>1, AlwaysSound, AnEndKeepsNothing, PTL

\* Every variable holds a value of its kind, however often the block and the
\* making run again.
THEOREM TypeCorrect == Spec => []TypeOK
<1> DEFINE Few == tries \in 0..Attempts /\ attempt \in [Users -> 0..Attempts]
<1>1. Init => Few
  BY Sizes DEF Init, FirstInit
<1>2. Few /\ [Next]_vars => Few'
  <2> SUFFICES ASSUME Few, [Next]_vars PROVE Few'
    OBVIOUS
  <2> USE Sizes DEF provider, making
  <2>1. ASSUME NEW u \in Users, NEW h, Ensured(u, h) PROVE tries' \in 0..Attempts
    BY <2>1 DEF Ensured
  <2>2. ASSUME NEW u \in Users, Provided(u) PROVE Few'
    BY <2>1, <2>2 DEF Provided, Provide, Connect, Opened, OpenFails, Woken, Named, NamingFails
  <2>3. CASE MakerFailed
    <3>1. UNCHANGED tries
      BY <2>3 DEF MakerFailed, MakerRunsAgain, MakerGivesUp
    <3>2. \/ UNCHANGED attempt
          \/ attempt' = [attempt EXCEPT ![Maker] = @ + 1] /\ attempt[Maker] < Attempts
      BY <2>3 DEF MakerFailed, MakerRunsAgain, MakerGivesUp, RunAgain
    <3>3. Maker \in Users
      BY MakerIsNoCaller
    <3> QED BY <3>1, <3>2, <3>3
  <2>4. CASE Block /\ UNCHANGED making
    BY <2>4 DEF Block, BlockEnds, BlockTurnedAway, BlockFails
  <2>5. ASSUME NEW c \in Callers, Statement(c) \/ StatementFailed(c) PROVE Few'
    <3>1. ASSUME NEW nth \in 0..Attempts, Await(c, nth, spent[c]) \/ Await(c, nth, 0) PROVE Few'
      <4>1. attempt' \in {[attempt EXCEPT ![c] = nth, ![Maker] = 1], [attempt EXCEPT ![c] = nth]}
        BY <3>1 DEF Await
      <4>2. UNCHANGED tries /\ 1 \in 0..Attempts
        BY <3>1 DEF Await
      <4> QED BY <3>1, <4>1, <4>2
    <3>2. attempt[c] \in 0..Attempts /\ (RunAgain(c) => attempt[c] + 1 \in 0..Attempts) /\ 1 \in 0..Attempts
      BY MakerIsNoCaller DEF RunAgain
    <3> QED BY <2>5, <3>1, <3>2 DEF Statement, StatementFailed
  <2>6. CASE Next
    BY <2>2, <2>3, <2>4, <2>5, <2>6 DEF Next, Step, StoreReady, Queried, QueryFails, End
  <2> QED BY <2>6 DEF vars
<1>3. Shape /\ Sound /\ Few => TypeOK
  BY DEF Shape, Sound, TypeOK, Busy
<1> QED BY <1>1, <1>2, <1>3, AlwaysInShape, AlwaysSound, PTL DEF Spec
=============================================================================
