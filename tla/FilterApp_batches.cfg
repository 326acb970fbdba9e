SPECIFICATION Spec
CONSTANTS
    gain = gain
    pan = pan
    mute = mute
    v1 = v1
    v2 = v2
    Absent = Absent
    Names <- MCNames
    Values <- MCValues
    Declared <- DuplicateDeclared
    Batches <- OpenBatches
    Modes <- LoopMode
    InitialCapacity = 2
    SizeOf <- MCSizes
    Room = 4
PROPERTIES
    ImplementsBatches
