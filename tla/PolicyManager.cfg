SPECIFICATION Spec
CONSTANTS
    Configs <- TheConfigs
    MaxTemporalEpochs = 8
    MaxNops = 2
    MaxInstructions = 2
INVARIANTS
    EpochStateAgrees
    CutsSeparateEpochs
    BreaksHonoured
    NoAssertionFails
PROPERTY
    BalancingEnds
