CONSTANTS
  a1 = a1
  a2 = a2
  NoAgent = NoAgent
  Agents <- TwoAgents
  LeaseTTL = 4
  RenewEvery = 2
  AttemptTimeout = 1
  MaxSkew = 0
  Skew <- NoSkew
  Signalled <- Nobody
  Crashing <- TwoAgents
  MaxCrashes = 1
  Faults = {"outage"}
SPECIFICATION FairSpec
PROPERTIES
  LoopElects
