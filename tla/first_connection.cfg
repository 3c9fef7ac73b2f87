SPECIFICATION FairSpec
CONSTANTS
  c1 = c1
  c2 = c2
  maker = maker
  Callers = {c1, c2}
  Saves <- OneSaves
  Maker = maker
  Users <- CallersAndMaker
  Handles = {h1, h2, h3, h4, h5, h6}
  Engines = {"SQLITE", "ORACLE"}
  PoolMax = 1
  Attempts = 2
  MaxFaults = 3
  None = None
INVARIANTS TypeOK NobodyBeforeTheStore EachConnectionOnce AttemptsDoNotMultiply
PROPERTIES BlockIsShared StoreIsShared StatementsAnswered
