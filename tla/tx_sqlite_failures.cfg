SPECIFICATION Spec
CONSTANTS
  Calls = {c1, c2}
  Statements = {s1, s2, s3}
  Contexts = {x1}
  db1 = db1
  db2 = db2
  Databases = {db1}
  Engine <- OnSqlite
  None = None
  Discipline = {"awaits", "oneAtATime"}
  Uses = {"cursors", "rollback"}
  Faults = {"connect", "begin", "statement", "commit", "cursor"}
  MaxFaults = 2
SYMMETRY Interchangeable
INVARIANTS OneRootAtATime SentToItsTransaction ConnectionsReleased NoDeadTransaction CursorsEndWithTransaction
