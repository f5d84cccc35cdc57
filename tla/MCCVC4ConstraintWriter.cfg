\* Every visit of the writer, on operands of each sort, against the
\* reference sort system.
CONSTANTS
    PathConditions <- MCSortPathConditions
    CompilablePatterns <- MCCompilablePatterns
    Temporaries <- MCTemporaries
    SolverStrings <- MCSolverStrings

SPECIFICATION Spec

INVARIANT TypeOK
INVARIANT CommitAsReference
