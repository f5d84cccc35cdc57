\* charAt at a position the input may be too short for.
CONSTANTS
    PathConditions <- MCCharAtPathConditions
    CompilablePatterns <- MCCompilablePatterns
    Temporaries <- MCTemporaries
    SolverStrings <- MCSolverStrings

SPECIFICATION Spec

INVARIANT CompleteDocument
