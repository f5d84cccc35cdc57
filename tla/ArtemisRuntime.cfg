\* The runtime loop with the state check, reprioritizing on every iteration
\* and generating up to three configurations per new page state.
CONSTANTS
    Confs = {c1, c2, c3, c4}
    Priorities = {0, 1, 2, 3}
    Hashes = {h1, h2, h3}
    MaxNew = 3
    DisableStateCheck = FALSE

SPECIFICATION Spec

INVARIANT TypeOK
PROPERTY WorkListRefinement
PROPERTY LoopEnds
