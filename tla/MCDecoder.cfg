CONSTANTS
    VectorSampleCount = 4
    SampleMax = 7
    FixedOne = 2
    AccumulatorHalf = 64
    NibbleHalf = 2
    MaxShift = 2
    ScalingCount = 4
    PredictorLimit = 2
    Codebooks <- MCCodebooks
    Streams <- MCStreams
    GarbageVectors <- MCGarbage
SPECIFICATION FairSpec
INVARIANTS
    ReadsInBounds
    OutputInStep
PROPERTY
    ImplementsVectorDecoder
