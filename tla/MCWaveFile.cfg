CONSTANTS
    WordBits = 7
    DoubleBits = 8
    FractionBits = 10
    ExponentBias = 15
    Written <- MCWritten
    NoFile = NoFile
    NoFormat = NoFormat
    FileSizes = {11, 12, 44, 62, 64}
    ContentSizes = {3, 4, 36, 37, 54, 56, 127}
    ChunkSizes <- MCChunkSizes
    WaveFormats <- MCFormats
SPECIFICATION Spec
INVARIANTS
    ReadsInFile
    WholeIsAccepted
    RateKept
PROPERTY
    LoopAdvances
