SPECIFICATION Spec
CONSTANTS
    a = a
    b = b
    c = c
    d = d
    Op <- TheOps
    Configs <- TheConfigs
INVARIANTS
    SolutionSound
    TemporalEpochsComplete
    AttemptsSuffice
PROPERTY
    PlacementEnds
