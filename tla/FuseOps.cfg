SPECIFICATION Spec
CONSTANTS
    Graphs <- TheGraphs
    MaxInputs = 6
    MaxDramInputs = 4
    NumBuffers = 3
    SrcAOnly = {TRUE, FALSE}
INVARIANTS
    SchedulesCompute
    FusedGraphSound
