\* Two requests, two concurrent calls of Shutdown, a channel with room for one.
CONSTANTS
    c1 = c1
    c2 = c2
    s1 = s1
    s2 = s2
    Callers <- TwoCallers
    Background <- NoCaller
    Stoppers <- TwoStoppers
    CtxErrs <- Canceled
    QueueSize = 1
SPECIFICATION Spec
PROPERTIES
    EveryCallReturns
    EveryAcceptedCallSettles
    LeftInQueueNeverRuns
