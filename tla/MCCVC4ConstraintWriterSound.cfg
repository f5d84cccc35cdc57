\* Models of the documents of conditions on strings, lengths, characters and coerced inputs.
CONSTANTS
    PathConditions <- MCSoundPathConditions
    CompilablePatterns <- MCCompilablePatterns
    Temporaries <- MCTemporaries
    SolverStrings <- MCSolverStrings

SPECIFICATION Spec

INVARIANT SoundDocument
