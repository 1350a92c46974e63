\* One host replays between three nodes, one of them new, while ddl-setup is
\* run again; one call or process fails.
CONSTANTS
  p1 = p1
  create = create
  view = view
  script = script
  Script = script
  NumNodes = 3
  Syncers <- OneHost
  Statements <- AllStatements
  Origin <- Origins
  Requires <- Needs
  Repeatable <- Replaceable
  Installed <- TwoOfThree
  MaxSetups = 1
  MaxFailures = 1
SPECIFICATION FairSpec
INVARIANTS
  TypeOK
  MarkedMeansTried
  NoEcho
  GapIsReplay
PROPERTIES
  CapturedIsReplayed
  ImplementsDelivery
