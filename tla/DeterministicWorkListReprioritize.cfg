\* The work list when the runtime also reprioritizes held configurations.
CONSTANTS
    Confs = {c1, c2, c3}
    Priorities = {0, 1, 2}
    AllowNewPriority = TRUE

SYMMETRY ConfSymmetry
SPECIFICATION Spec

INVARIANT RemoveFindsElement
