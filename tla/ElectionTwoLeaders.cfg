CONSTANTS
  a1 = a1
  a2 = a2
  NoAgent = NoAgent
  Agents <- TwoAgents
  LeaseTTL = 4
  RenewEvery = 2
  AttemptTimeout = 1
  MaxSkew = 0
  Skew <- NoSkew
  Signalled <- Nobody
  Crashing <- Nobody
  MaxCrashes = 0
  Faults = {}
SPECIFICATION Spec
INVARIANTS
  AtMostOneLeader
