\* Is every flag of the command line in force?
CONSTANTS
    Texts <- MCTexts
    MaxInt = 255
    CommandLines <- MCCommandLines
    Environments <- MCEnvironments
    maxLogQuery = 12
    KeyLengths <- MCKeyLengths
    Bodies <- MCBodies
    worker = worker
    handler = handler
    Loggers <- MCLoggers
    MaxRecords = 2
    r1 = r1
    r2 = r2
    r3 = r3
    Callers <- MCCallers
    Latencies <- MCLatencies
    recentWindow = 2
    WordCount = 3
    BitCount = 2
    WordBits = 2
    maxRandomCount = 3
    maxRandomBitReads = 2
    Requests <- MCRequests
    Memories <- MCMemories
SPECIFICATION PartsSpec
SYMMETRY Symmetry
INVARIANTS
    FlagsTakePriority
CHECK_DEADLOCK FALSE
