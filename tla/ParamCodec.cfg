SPECIFICATION Spec
CONSTANTS
    gain = gain
    pan = pan
    one = one
    two = two
    Null = Null
    Texts <- MCTexts
    Numbers <- MCNumbers
    Pods <- MCPods
    Stores <- MCStores
INVARIANTS
    TypeOK
    Aligned
    PairedAsSent
PROPERTIES
    EchoChangesNothing
