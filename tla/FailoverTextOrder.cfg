\* 0/9FFFFFF is the higher text and 0/10000000 the higher position.
CONSTANTS
  a1 = a1
  a2 = a2
  a3 = a3
  Agents <- OneAgent
  DryRun <- Nobody
  NumStandbys = 2
  MaxFailures = 2
  ElectionEnabled = FALSE
  LeaderSets <- NoElection
  WitnessEnabled = FALSE
  DblinkInstalled = FALSE
  MaxLSN = 2
  TextRank <- Reversed
  Faults = {}
SPECIFICATION Spec
INVARIANTS
  MostAdvancedChosen
CHECK_DEADLOCK FALSE
