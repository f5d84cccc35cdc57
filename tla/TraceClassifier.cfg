\* One classification of every trace of up to six nodes.
CONSTANTS
    MaxLength = 6
    MaxClassify = 1

SPECIFICATION Spec

INVARIANT TypeOK
INVARIANT ClassifiedAsReference
