SPECIFICATION Spec
CONSTANTS
  Calls = {c1, c2}
  Statements = {s1, s2}
  Contexts = {x1}
  db1 = db1
  db2 = db2
  Databases = {db1}
  Engine <- OnPostgres
  None = None
  Discipline = {"awaits", "rethrows", "oneAtATime"}
  Uses = {}
  Faults = {"break"}
  MaxFaults = 1
SYMMETRY Interchangeable
INVARIANTS NoDeadTransaction
