\* A CPU device followed by a TT device, two inputs and every fault, with at
\* most one interrupt that nobody catches; shutdown() may be called as soon as
\* the commands are issued.
SPECIFICATION Spec
CONSTANTS
    N = 2
    TTDevices = {2}
    InputCount = 2
    Patience = "issued"
    Faults = {"compute", "timeout", "program", "interrupt", "escape"}
    MaxEscapes = 1
INVARIANTS
    OutputsDelivered
    NoEarlyClose
    BrokenMeansEvent
PROPERTIES
    ShutdownReturns
CHECK_DEADLOCK FALSE
