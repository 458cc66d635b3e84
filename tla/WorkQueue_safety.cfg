\* Two requests and the initial connect (a background context), one Shutdown
\* and a channel that one job fills.
CONSTANTS
    c1 = c1
    c2 = c2
    c3 = c3
    s1 = s1
    Callers <- ThreeCallers
    Background <- Connecting
    Stoppers <- OneStopper
    CtxErrs <- Canceled
    QueueSize = 1
SPECIFICATION OrderSpec
INVARIANTS
    TypeOK
    NoStrandedJob
    RefusedNeverRuns
    AnswerMatchesExecution
PROPERTIES
    QuietAfterCleanShutdown
    ImplementsSerialExecutor
    NoEffectAfterSuccessor
