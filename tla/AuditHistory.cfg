\* A service with three requests, one of them a promotion, beside a command.
\* The requests are used up: the reader goes on, so nothing deadlocks.
CONSTANTS
    serve = serve
    cli = cli
    r1 = r1
    r2 = r2
    r3 = r3
    r4 = r4
    Procs <- TwoProcs
    Requests <- FourRequests
    Proc <- Home
    Operations <- OneOperation
    Start <- Clocks
    Limit = 2
    MaxFaults = 1
SPECIFICATION Spec
SYMMETRY Alike
INVARIANT TypeOK
INVARIANT MetricsMatchLog
PROPERTY HistoryIsTail
PROPERTY ImplementsTrail
