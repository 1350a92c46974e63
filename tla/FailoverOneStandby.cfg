\* Two agents that may fail over and one that only watches, one standby.
CONSTANTS
  a1 = a1
  a2 = a2
  a3 = a3
  Agents <- ThreeAgents
  DryRun <- ThirdDry
  NumStandbys = 1
  MaxFailures = 2
  ElectionEnabled = TRUE
  LeaderSets <- AnyLeaders
  WitnessEnabled = TRUE
  DblinkInstalled = TRUE
  MaxLSN = 1
  TextRank <- SameOrder
  Faults = {"partition", "sshfail", "standby", "kill"}
SPECIFICATION FairSpec
INVARIANTS
  NoSplitBrain
PROPERTIES
  OutageEnds
