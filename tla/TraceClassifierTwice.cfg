\* The caller classifies the same trace twice.
CONSTANTS
    MaxLength = 3
    MaxClassify = 2

SPECIFICATION Spec

INVARIANT ClassifiedOnce
