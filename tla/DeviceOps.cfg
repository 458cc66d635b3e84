\* Two writes and a read over three words of two bits and two bit devices,
\* from every initial memory; the ladder program writes a word and a bit device.
CONSTANTS
    D0 = D0
    D1 = D1
    D2 = D2
    M0 = M0
    M1 = M1
    Word <- MCWord
    Bit <- MCBit
    BitDevice <- MCDevice
    Ladder <- MCLadder
    Requests <- MCRequests
    Body <- MCBody
SPECIFICATION Spec
PROPERTIES
    SuccessIsExact
    FailureIsPrefix
    ReadsOneInstant
    OnlyRacingWritesLost
