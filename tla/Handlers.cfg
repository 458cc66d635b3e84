\* The way of a request: each that can be sent beside a read or a reset, in
\* every configuration.  The values: words of four bits and nibbles of one,
\* seven words and ten bit devices, one write to each of three memories and any
\* reads before and after it.  A behaviour ends when every request is answered.
CONSTANTS
    r1 = r1
    r2 = r2
    Requests <- MCRequestSet
    Inputs <- MCInputs
    Configs <- ConfigSpace
    WordBits = 4
    WordCount = 7
    BitCount = 10
    maxReadCount = 4
    maxWriteValues = 4
    MaxWrites = 1
    Addresses <- MCAddresses
    Counts <- MCCounts
    Bodies <- MCBodies
    Memories <- MCMemories
SPECIFICATION HandlersSpec
INVARIANTS
    OnlyPermittedRuns
    AnswerTellsEffect
    RecordsAgree
    RoundTrips
PROPERTIES
    OnlyWhatIsNamed
CHECK_DEADLOCK FALSE
