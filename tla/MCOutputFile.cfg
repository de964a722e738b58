CONSTANTS
    SliceLists <- MCSliceLists
    OldLengths = {0, 2}
    MaxIovec = 3
    MaxInterrupts = 2
SPECIFICATION FairSpec
INVARIANTS
    FileIsPrefix
    WholeOnSuccess
    AdvanceInBounds
PROPERTY
    Termination
