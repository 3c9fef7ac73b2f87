SPECIFICATION Spec
CONSTANTS
  Calls = {c1, c2, c3}
  Statements = {s1, s2, s3}
  Contexts = {x1}
  db1 = db1
  db2 = db2
  Databases = {db1, db2}
  Engine <- PostgresAndOracle
  None = None
  Discipline = {"awaits", "rethrows", "oneAtATime"}
  Uses = {"rollback"}
  Faults = {"statement", "commit"}
  MaxFaults = 1
SYMMETRY Interchangeable
INVARIANTS NoCommitNoEffect ReturnMeansCommitted InvisibleUntilTheEnd RunsInItsTransaction OneRoot
PROPERTIES AtomicPerDatabase
