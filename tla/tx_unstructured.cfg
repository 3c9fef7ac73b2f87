SPECIFICATION FairSpec
CONSTANTS
  Calls = {c1, c2}
  Statements = {s1, s2}
  Contexts = {x1}
  db1 = db1
  db2 = db2
  Databases = {db1}
  Engine <- OnPostgres
  None = None
  Discipline = {}
  Uses = {}
  Faults = {"connect", "break", "begin", "release"}
  MaxFaults = 1
INVARIANTS TypeOK OneConnectionPerDatabase MutexGuardsRegistry
PROPERTIES CallsEnd StatementsSettle
