\* The depth limit bounds the returned path condition (spec section 8).
CONSTANTS
    Programs <- MCPrograms
    InitialDepthLimit = 0
    MaxDepthLimit = 2
    RecallAfterExhausted = FALSE

SPECIFICATION Spec

INVARIANT DepthLimitRespected
