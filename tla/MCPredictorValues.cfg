CONSTANTS
    MaxPredictorCount = 4
    Iterations = 5
    FrameCounts = {0, 1, 2, 3, 4, 5}
    PredictorCounts = {0, 1, 2, 3, 4, 5}
    MaxFrames = 4
    FrameSampleCount = 2
    Sounds <- MCSounds
    NoSound = NoSound
    RelEpsilon = 4
    Lanes = 3
    Scale = 8
    MaxSample = 31
SPECIFICATION ValuesSpec
INVARIANTS
    FramesCounted
    UnassignedIsUnused
    CodebookCovers
    AllFreed
    AllOrNothing
    BestErrorIsLeast
    RefiningImproves
    CoefficientsStable
    CodebookPredicts
PROPERTY
    ImplementsAssign
