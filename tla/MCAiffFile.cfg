CONSTANTS
    WordModulus = 512
    MaxOrder = 2
    MaxPredictorCount = 1
    FileSizes = {11, 12, 54, 106}
    ContentSizes = {3, 4, 45, 46, 98, 511}
    ChunkSizes <- MCChunkSizes
    AudioOffsets = {0, 1, 511}
    NameLengths = {2, 11, 12}
    Counts = {0, 1, 2, 3}
    Commons = {mono, stereo}
    Written <- MCWritten
    NoFile = NoFile
SPECIFICATION FileSpec
INVARIANTS
    ReadsInBounds
    AudioInFile
    CompleteOnSuccess
    RoundTrip
    AcceptedIfWhole
PROPERTY
    ChunksAdvance
