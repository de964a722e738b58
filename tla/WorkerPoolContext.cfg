CONSTANTS
    FileCount = 3
    JobRequests <- MCJobRequests
SPECIFICATION Spec
INVARIANT
    MessageHasItsContext
