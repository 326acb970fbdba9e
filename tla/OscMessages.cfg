SPECIFICATION FairSpec
CONSTANTS
    in1 = in1
    in2 = in2
    out1 = out1
    InPorts = {"in"}
    OutPorts = {"out"}
    Buffers = {in1, in2, out1}
    PortOf <- MCPortOf
    Datas <- MCDatas
    Mapped = {in1, in2, out1}
    NULL = NULL
    Pods <- MCPods
    Payloads = {"note"}
    MaxWrites = 1
    MaxNs = {0, 2}
    Sizes <- MCSizes
    NoPacket = NoPacket
INVARIANTS
    TypeOK
    ArgumentsInStep
    OneOwner
    OutputAsWritten
    ViewsStayValid
    NewestPacketIsReturned
    ElementsInside
PROPERTIES
    BuffersComeBack
