SPECIFICATION ReaderSpec
CONSTANTS
    text = text
    now = now
    None = None
    Capacities = {11, 16}
    Texts <- MCTexts
    WordsOf <- MCWordsOf
    Numbers = {1}
    BlobSizes = {5}
    Times <- MCTimes
    Counts = {1, 4}
    MaxCalls = 8
INVARIANTS
    TypeOK
    ListIsStack
    SizeAssertionUntilThrow
    SizesPredicted
    LaidOut
    RoundTrip
