SPECIFICATION FairSpec
CONSTANTS
  Managers <- Two
  Callers <- Two
  Earlier <- TwoEarlier
  Engines = {"NEO4J", "FALKORDB"}
  Beginnings = {"none", "built", "failed"}
  Faults = {"contended", "refused", "conflict", "slow"}
  MaxFaults = 2
  MaxWipes = 1
  Attempts = 3
  EnsureAttempts = 3
  LooksForWinner = 2
  MergeAttempts = 5
  None = None
INVARIANTS TypeOK UnhinderedIsGuarded PeersRejectNobody FailedBuildIsNotLeft
PROPERTIES GuardedAgree GuardedIsFinal IdentitySettles
