-------------------------- MODULE MCSchemaManager --------------------------
EXTENDS SchemaManager, TLC

CONSTANTS m1, m2, a, b, i, x, r

\* Both processes run one application: owner a declares the index i and the
\* shared constraint x, owner b x; r is ensured under a at runtime, as it was
\* by an earlier process.
BothOwners == {a, b}
OneCatalog == [m \in Managers |-> [o \in {a, b} |-> IF o = a THEN {i, x} ELSE {x}]]
NewVersion == [m \in Managers |-> [o \in {a, b} |-> IF o = a THEN "v2" ELSE "w1"]]
AtRuntime == [o \in {a, b} |-> IF o = a THEN {r} ELSE {}]

\* A store none has applied to, and one the version before left, with what was
\* ensured at runtime in an earlier process.
Found(version, how) ==
  [version |-> version, items |-> [k \in Items |-> IF k \in DOMAIN how THEN how[k] ELSE "none"]]
Markers ==
  {[o \in {a, b} |-> Unmarked],
   [o \in {a, b} |-> IF o = a THEN Found("v1", [k \in {i, x, r} |-> IF k = r THEN "runtime" ELSE "declared"])
                     ELSE Found("w1", [k \in {x} |-> "declared"])]}

\* What the proofs assume of the processes.
ASSUME OneDeployment

AnyProcess == Permutations(Managers)
=============================================================================
