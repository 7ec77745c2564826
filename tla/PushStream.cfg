SPECIFICATION LiveSpec
CONSTANTS
    p1 = p1
    p2 = p2
    a = a
    b = b
    Callers <- MCCallers
    Byte <- MCByte
    Chunks <- MCChunks
    MaxBytes = 2
INVARIANTS
    FIFO
    TrueEOF
    NoLostWakeup
    OutcomeFaithful
    PushAgreesWithClose
    CloseIdempotent
PROPERTIES
    ImplementsPromise
    CloseReturns
    NoGoroutineLeaks
