SPECIFICATION Spec
CONSTANTS
    StreamMax = 170
    VintLimit <- MCVintLimit
    PadSizes = {1, 28, 42, 43}
    InfoSizes = {8}
    HeaderSize = 5
    Foreign <- MCForeign
    EBMLVersion = 1
    VersionMajor = 0
    TracksSize = 6
    BlockSize = 5
    MaxBlocks <- MCMaxBlocks
INVARIANTS
    FinishedIsRead
    UnfinishedIsHonest
PROPERTY ReadingEnds
CHECK_DEADLOCK FALSE
