\* Two probes at once, in both modes, over links that may stand still.
\* The probes end: the final states have no successor.
CONSTANTS
    primary = primary
    s1 = s1
    s2 = s2
    a = a
    b = b
    p1 = p1
    p2 = p2
    Probers <- TwoProbes
    Primary = primary
    Standbys <- TwoStandbys
    NodeA = a
    NodeB = b
    Modes <- AllModes
    MaxFailures = 2
SPECIFICATION Spec
INVARIANT TypeOK
INVARIANT PassMeansSettled
INVARIANT WaitIsForTheLink
INVARIANT NothingLeftBehind
CHECK_DEADLOCK FALSE
