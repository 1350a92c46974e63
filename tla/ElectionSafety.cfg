\* Two agents whose clocks are two apart, every fault, one of them signalled
\* again and again, with releases that come late; the shortest lease that
\* SafeTiming allows.  Crashes are those of ElectionLive.cfg.
CONSTANTS
  a1 = a1
  a2 = a2
  NoAgent = NoAgent
  Agents <- TwoAgents
  LeaseTTL = 4
  RenewEvery = 1
  AttemptTimeout = 1
  MaxSkew = 1
  Skew <- Apart
  Signalled <- Second
  Crashing <- Nobody
  MaxCrashes = 0
  Faults = {"neterr", "outage", "laterelease"}
SPECIFICATION Spec
INVARIANTS
  TypeOK
  HeldMeansLease
  IInv
PROPERTIES
  ImplementsLease
  OnlyReleaseShortens
