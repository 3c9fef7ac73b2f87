-------------------------- MODULE FirstConnection --------------------------
(***************************************************************************)
(* A SQL store's connection provider: the connections it hands out, and    *)
(* the block that makes the graph's tables on the first of them, which the *)
(* connections asked for meanwhile wait for (connection/FirstConnection.ts *)
(* with SqliteConnectionProvider.ts and OracleConnectionProvider.ts).      *)
(*                                                                         *)
(* On SQLITE idle connections are kept by the provider. On ORACLE they are *)
(* the driver's, so one given back is gone from here, and the block runs   *)
(* again, a bounded number of times, when a deadlock turned it away.       *)
(*                                                                         *)
(* A definition with With or Without in its name is a mutant: the one      *)
(* after it, with a mistake the code does not make.                        *)
(***************************************************************************)
EXTENDS Integers, Sequences, FiniteSets

CONSTANTS
  Users,        \* who connects, each with one connection at a time
  Handles,      \* the connections there may be at once
  Engines,      \* the engines a behaviour may be on
  PoolMax,      \* SqliteOptions.poolMax
  Attempts,     \* CONTENDED_ATTEMPTS
  MaxFaults,    \* the bound on failures in a behaviour
  None

VARIABLES
  engine,    \* the engine of this behaviour
  made,      \* FirstConnection.made: the run kept, 0 for none
  runs,      \* how each run of the block went
  tries,     \* how often the run under way ran the block
  turned,    \* whether the run under way was turned away before
  idle,      \* the connections kept for reuse, the last given back first
  opened,    \* the connections open
  ended,     \* whether the provider ended since it last connected
  at,        \* per user, what it does
  db,        \* per user, its connection
  awaits,    \* per user, the run it waits for
  failure,   \* per user, what it failed with last, until that is thrown
  faults     \* how many failures there were

provider == <<engine, made, runs, tries, turned, idle, opened, ended>>

ASSUME Sizes == {PoolMax, Attempts} \subseteq Nat \ {0}
ASSUME NoneIsNoHandle == None \notin Handles

\* A failure: what it was, and whether a run of whenNotContended inside
\* already gave it up (Contention.givenUp).
Failure(kind, given) == [kind |-> kind, given |-> given]

\* What a statement fails with: the file's lock on SQLITE, an object's on
\* ORACLE or a row's in a deadlock there (ORA-00060), or anything else.
Kinds == IF engine = "SQLITE" THEN {"busy", "other"} ELSE {"deadlock", "busy", "other"}
Fine == Failure("none", FALSE)

Run(state, failed) == [state |-> state, failure |-> failed]
Pending == made # 0 /\ runs[made].state = "pending"

FirstInit ==
  /\ engine \in Engines
  /\ made = 0 /\ runs = << >> /\ tries = 0 /\ turned = FALSE
  /\ idle = << >> /\ opened = {} /\ ended = FALSE
  /\ db = [u \in Users |-> None]
  /\ awaits = [u \in Users |-> 0]
  /\ failure = [u \in Users |-> Fine]
  /\ faults = 0

\* No run of the block is kept, so the next connection starts one.
NoRunWithWarned == made = 0 \/ runs[made].state = "warned"
NoRun == made = 0

\* ensured: the first starts the block, on its connection, and all wait.
Ensured(u, h) ==
  /\ db' = [db EXCEPT ![u] = h]
  /\ at' = [at EXCEPT ![u] = "waiting"]
  /\ IF NoRun
     THEN /\ made' = Len(runs) + 1
          /\ runs' = Append(runs, Run("pending", Fine))
          /\ tries' = 1 /\ turned' = FALSE
     ELSE UNCHANGED <<made, runs, tries, turned>>
  /\ awaits' = [awaits EXCEPT ![u] = made']

\* connect(), up to where it waits: the last connection given back is taken
\* at once, and opening one takes time.
Connect(u) ==
  /\ at[u] = "connect"
  /\ ended' = FALSE
  /\ IF idle # << >>
     THEN /\ Ensured(u, idle[Len(idle)])
          /\ idle' = SubSeq(idle, 1, Len(idle) - 1)
     ELSE /\ at' = [at EXCEPT ![u] = "opening"]
          /\ UNCHANGED <<made, runs, tries, turned, idle, db, awaits>>
  /\ UNCHANGED <<engine, opened, failure, faults>>

\* Any connection will do: none is told from another.
Opened(u) ==
  /\ at[u] = "opening"
  /\ Handles \ opened # {}
  /\ LET h == CHOOSE x \in Handles : x \notin opened
     IN Ensured(u, h) /\ opened' = opened \cup {h}
  /\ UNCHANGED <<engine, idle, ended, failure, faults>>

OpenFails(u) ==
  /\ at[u] = "opening" /\ faults < MaxFaults
  /\ faults' = faults + 1
  /\ at' = [at EXCEPT ![u] = "failed"]
  /\ \E kind \in Kinds :
       /\ kind # "other" => engine = "SQLITE"
       /\ failure' = [failure EXCEPT ![u] = Failure(kind, FALSE)]
  /\ UNCHANGED <<provider, db, awaits>>

\* The block ends well, or the store refuses it for good, which is warned of
\* once: either way it is not run again.
BlockEnds ==
  /\ Pending
  /\ \/ runs' = [runs EXCEPT ![made] = Run("made", Fine)] /\ UNCHANGED faults
     \/ /\ faults < MaxFaults /\ faults' = faults + 1
        /\ runs' = [runs EXCEPT ![made] = Run("warned", Fine)]
  /\ UNCHANGED <<engine, made, tries, turned, idle, opened, ended,
                 at, db, awaits, failure>>

\* On Oracle a deadlock has the block run again (OracleGraph.ensure).
BlockTurnedAway ==
  /\ Pending /\ engine = "ORACLE"
  /\ tries < Attempts /\ faults < MaxFaults
  /\ faults' = faults + 1
  /\ tries' = tries + 1 /\ turned' = TRUE
  /\ UNCHANGED <<engine, made, runs, idle, opened, ended, at, db, awaits, failure>>

\* It fails, on Oracle by way of whenNotContended: out of attempts on a
\* deadlock, or at once. A failure after a deadlock throws the deadlock.
BlockFails ==
  /\ Pending /\ faults < MaxFaults
  /\ faults' = faults + 1
  /\ \E kind \in Kinds :
       /\ kind = "deadlock" => tries = Attempts
       /\ runs' = [runs EXCEPT ![made] =
            Run("failed", Failure(IF turned THEN "deadlock" ELSE kind, engine = "ORACLE"))]
  /\ made' = 0
  /\ UNCHANGED <<engine, tries, turned, idle, opened, ended, at, db, awaits, failure>>

\* The hand-back: a connection given back after a failure, after the end, or
\* to a full pool is closed.
ClosesWithOneMore(failed) == engine = "ORACLE" \/ failed \/ ended \/ Len(idle) > PoolMax
Closes(failed) == engine = "ORACLE" \/ failed \/ ended \/ Len(idle) >= PoolMax

GiveBack(u, failed) ==
  /\ IF Closes(failed)
     THEN opened' = opened \ {db[u]} /\ UNCHANGED idle
     ELSE idle' = Append(idle, db[u]) /\ UNCHANGED opened
  /\ db' = [db EXCEPT ![u] = None]

TurnedAwayWithoutClosing(u) == UNCHANGED <<idle, opened, db>>
TurnedAway(u) == GiveBack(u, TRUE)

\* The wait is over: the connection is handed out, or closed.
Woken(u) ==
  /\ at[u] = "waiting"
  /\ LET run == runs[awaits[u]] IN
     \/ /\ run.state \in {"made", "warned"}
        /\ at' = [at EXCEPT ![u] = IF engine = "ORACLE" THEN "naming" ELSE "using"]
        /\ UNCHANGED <<idle, opened, db, failure>>
     \/ /\ run.state = "failed"
        /\ TurnedAway(u)
        /\ at' = [at EXCEPT ![u] = "failed"]
        /\ failure' = [failure EXCEPT ![u] = run.failure]
  /\ UNCHANGED <<engine, made, runs, tries, turned, ended, awaits, faults>>

\* On Oracle the session's id is asked for before the connection is handed out.
\* If that fails nothing closes the connection: it stays taken from the pool.
Named(u) ==
  /\ at[u] = "naming"
  /\ at' = [at EXCEPT ![u] = "using"]
  /\ UNCHANGED <<provider, db, awaits, failure, faults>>

NamingFails(u) ==
  /\ at[u] = "naming" /\ faults < MaxFaults
  /\ faults' = faults + 1
  /\ at' = [at EXCEPT ![u] = "failed"]
  /\ db' = [db EXCEPT ![u] = None]
  /\ failure' = [failure EXCEPT ![u] = Failure("other", FALSE)]
  /\ UNCHANGED <<provider, awaits>>

\* end(): idle connections are closed, and one in use as it is given back.
End ==
  /\ engine = "SQLITE" /\ ~ended
  /\ ended' = TRUE
  /\ opened' = {h \in opened : \A i \in 1..Len(idle) : idle[i] # h}
  /\ idle' = << >>
  /\ UNCHANGED <<engine, made, runs, tries, turned, at, db, awaits, failure, faults>>

Provide(u) ==
  Connect(u) \/ Opened(u) \/ OpenFails(u) \/ Woken(u) \/ Named(u) \/ NamingFails(u)
Block == BlockEnds \/ BlockTurnedAway \/ BlockFails
=============================================================================
