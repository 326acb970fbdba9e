SPECIFICATION Spec
CONSTANTS
    gain = gain
    pan = pan
    mute = mute
    v1 = v1
    v2 = v2
    Absent = Absent
    Names <- MCNames
    Values <- MCValues
    Declared <- DuplicateDeclared
    Batches <- OpenBatches
    Modes <- BothModes
    InitialCapacity = 2
    SizeOf <- MCSizes
    Room = 4
INVARIANTS
    TypeOK
    NoNewDuplicates
    DanglingOnlyByGrowth
    IteratorDesignatesName
    PublishedNames
    TeardownOrder
PROPERTIES
    NamesStable
