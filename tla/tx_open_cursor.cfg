SPECIFICATION FairSpec
CONSTANTS
  Calls = {c1}
  Statements = {s1}
  Contexts = {x1}
  db1 = db1
  db2 = db2
  Databases = {db1}
  Engine <- OnPostgres
  None = None
  Discipline = {"awaits", "rethrows", "oneAtATime"}
  Uses = {"cursors"}
  Faults = {}
  MaxFaults = 2
PROPERTIES CallsEnd
CHECK_DEADLOCK FALSE
