\* The initial connect, a read, a health probe and a signal.  The system stops
\* when the process has ended; Gateway_safety.cfg checks for other deadlocks.
CONSTANTS
    connect = connect
    read = read
    reset = reset
    probe = probe
    sigterm = sigterm
    Callers <- OneRequest
    Background <- MCBackground
    Stoppers <- MCStoppers
    Probes <- MCProbes
    CtxErrs <- MCCtxErrs
    QueueSize = 1
    Calls <- OneRequestCalls
    Kind <- OneRequestKind
SPECIFICATION GatewaySpec
PROPERTIES
    EveryRequestAnswered
    SignalEndsProcess
CHECK_DEADLOCK FALSE
