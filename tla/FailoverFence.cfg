CONSTANTS
  a1 = a1
  a2 = a2
  a3 = a3
  Agents <- TwoAgents
  DryRun <- Nobody
  NumStandbys = 2
  MaxFailures = 2
  ElectionEnabled = TRUE
  LeaderSets <- AnyLeaders
  WitnessEnabled = FALSE
  DblinkInstalled = FALSE
  MaxLSN = 2
  TextRank <- SameOrder
  Faults = {"partition", "sshfail", "restart", "standby", "slowpromote", "queryfail", "kill",
            "signal"}
SPECIFICATION Spec
INVARIANTS
  TypeOK
  PromotedMeansPrimaryStopped
PROPERTIES
  ImplementsFencing
