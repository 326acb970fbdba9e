SPECIFICATION FairSpec
CONSTANTS
    gain = gain
    pan = pan
    mute = mute
    v1 = v1
    v2 = v2
    Absent = Absent
    Names <- MCNames
    Values <- MCValues
    Declared <- SingleDeclared
    Batches <- ClosedBatches
    Modes <- BothModes
    InitialCapacity = 2
    SizeOf <- MCSizes
    Room = 3
INVARIANTS
    SpansStayLive
PROPERTIES
    ImplementsEntries
    SignalEndsRun
