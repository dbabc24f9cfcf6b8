CONSTANTS
    TILE_DIM = 2
    Decomposed <- MCDecomposed
    Gradients <- MCGradients
    Evaluated <- MCEvaluated
    Optimized <- MCOptimized
    Graphs <- MCGraphs
SPECIFICATION Spec
INVARIANTS
    ShapesAgree
    SameOutputs
    GradsAdjoint
    PassesEnd
