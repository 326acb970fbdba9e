SPECIFICATION BufferSpec
CONSTANTS
    out1 = out1
    InPorts = {}
    OutPorts = {"out"}
    Buffers = {out1}
    PortOf <- MCPortOf
    Datas <- MCDatas
    Mapped = {out1}
    NULL = NULL
    Pods = {}
    Payloads = {"note"}
    MaxWrites = 1
INVARIANTS
    OutputAsWritten
