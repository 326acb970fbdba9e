SPECIFICATION Spec
CONSTANTS
    port1 = port1
    port2 = port2
    par1 = par1
    par2 = par2
    Apps = {1, 2}
    Names = {par1, par2}
    PortNames = {port1, port2}
    ThreadCounts = {1, 2}
    Emptied = {"media_type"}
    MaxPorts = 2
    MaxParameters = 2
    NULL = NULL
SYMMETRY Renamings
INVARIANTS
    TypeOK
    LibraryBalance
    PortsAsDeclared
    OneList
    OneThreadLosesNothing
