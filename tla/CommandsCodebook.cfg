CONSTANTS
    WordModulus = 64
    FrameSampleCount = 4
    FrameByteSize = 3
    EncodeOrder = 2
    MaxPredictorCount = 4
    MaxInputLength = 16
    HostOrder = "little"
    Names = {"a.aiff", "b.aifc", "c.wav", "d"}
    Extension <- MCExtension
    UserFiles <- MCUserFiles
    PredictorArguments = {0, 1, 2, 3, 5}
    MaxCommands = 3
SPECIFICATION Spec
INVARIANT
    CodebookFits
