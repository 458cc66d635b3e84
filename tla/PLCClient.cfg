\* Every method of the client once, do twice, in any order.  The system stops
\* when every call has returned; EveryMethodReturns says that nothing else
\* stops it.
CONSTANTS
    init = init
    op1 = op1
    op2 = op2
    reset = reset
    probe = probe
    stop = stop
    Calls <- MCCalls
    Kind <- MCKind
SPECIFICATION ClientSpec
INVARIANTS
    ClientTypeOK
    OneSocket
    WireExclusive
    CountersExact
PROPERTIES
    NoOpOnDeadSocket
    EveryMethodReturns
CHECK_DEADLOCK FALSE
