\* The initial connect, a read and a reset, a health probe and a signal, with
\* room for one waiting request.
CONSTANTS
    connect = connect
    read = read
    reset = reset
    probe = probe
    sigterm = sigterm
    Callers <- TwoRequests
    Background <- MCBackground
    Stoppers <- MCStoppers
    Probes <- MCProbes
    CtxErrs <- MCCtxErrs
    QueueSize = 1
    Calls <- TwoRequestCalls
    Kind <- TwoRequestKind
SPECIFICATION GatewaySpec
INVARIANTS
    WireSerialized
    CleanExitLeavesNoSocket
    ClosedOnlyAfterTimeout
PROPERTIES
    DrivesClient
