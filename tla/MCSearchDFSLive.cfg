\* Every pass of the search ends and the exploration loop finishes.
CONSTANTS
    Programs <- MCSmallPrograms
    InitialDepthLimit = 0
    MaxDepthLimit = 2
    RecallAfterExhausted = FALSE

SPECIFICATION Spec

PROPERTY Termination
