\* The same requests, against the limits the API description gives.
CONSTANTS
    WordCount = 3
    BitCount = 2
    WordBits = 2
    maxRandomCount = 3
    maxRandomBitReads = 2
    Requests <- MCRequests
    Memories <- MCMemories
SPECIFICATION Spec
INVARIANT
    DocumentedLimitsSuffice
