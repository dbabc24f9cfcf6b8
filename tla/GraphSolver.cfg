SPECIFICATION Spec
CONSTANTS
    Order <- TheOrder
    Edges <- TheEdges
    Nop <- TheNop
    Models <- TheModels
    Cost <- TheCost
    MaxCost = 6
    Problems <- TheProblems
    MaxRetry = 3
INVARIANTS
    Reconciled
    NothingLost
    SolutionLegal
PROPERTY
    CallsEnd
