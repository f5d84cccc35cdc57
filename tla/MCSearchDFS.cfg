\* Safety of the search and the exploration loop, the loop allowed to call
\* chooseNextTarget again after it reported exhaustion: the search
\* implements the abstract SearchSpec.
CONSTANTS
    Programs <- MCPrograms
    InitialDepthLimit = 0
    MaxDepthLimit = 3
    RecallAfterExhausted = TRUE

SPECIFICATION Spec

INVARIANT TypeOK
PROPERTY SearchRefinement
