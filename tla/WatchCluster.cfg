\* A real agent and a dry run beside it, which crashes or is signalled.
CONSTANTS
  a1 = a1
  a2 = a2
  NoAgent = NoAgent
  Agents <- TwoAgents
  DryRun <- Second
  NumStandbys = 1
  MaxFailures = 1
  MaxLSN = 1
  TextRank <- SameOrder
  WitnessEnabled = FALSE
  DblinkInstalled = FALSE
  FailoverFaults = {"kill", "signal"}
  LeaseTTL = 3
  RenewEvery = 1
  AttemptTimeout = 1
  MaxSkew = 0
  Skew <- NoSkew
  Signalled <- Second
  Crashing <- Second
  MaxCrashes = 1
  MaxStarts = 2
  ElectionFaults = {}
SPECIFICATION FairSpec
PROPERTIES
  
  SurvivorFailsOver
CHECK_DEADLOCK FALSE
