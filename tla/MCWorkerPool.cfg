CONSTANTS
    FileCount = 3
    JobRequests <- MCJobRequests
SPECIFICATION FairSpec
INVARIANTS
    EncodedOnce
    TableComplete
PROPERTY
    Termination
