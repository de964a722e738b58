CONSTANTS
    VectorSampleCount = 4
    SampleMax = 7
    FixedOne = 2
    AccumulatorHalf = 32
    NibbleHalf = 2
    MaxShift = 2
    ScalingCount = 4
    PredictorLimit = 2
    Codebooks <- MCCodebooks
    Sources <- MCSources
    RngModulus = 32
    RngMultiplier = 5
    RngIncrement = 3
SPECIFICATION CheckSpec
INVARIANTS
    BestIsLeast
    StateMatch
    EncodedSame
    Reencoded
    ErrorIsReal
    EncodedIsValid
PROPERTY
    QuantizationBound
