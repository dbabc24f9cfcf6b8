SPECIFICATION Spec
CONSTANTS
    a = a
    b = b
    c = c
    Op <- TheOps
    Configs <- TheConfigs
    MaxTemporalEpochs = 3
INVARIANTS
    PlacementsHold
    CommittedEpochsComplete
