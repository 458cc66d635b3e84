SPECIFICATION Spec
CONSTANTS
    r1 = r1
    r2 = r2
    Requests <- MCRequestSet
    Inputs <- MCInputs
    Configs <- ConfigSpace
INVARIANT PLCTimeoutIs504
CHECK_DEADLOCK FALSE
