SPECIFICATION FairSpec
CONSTANTS
    StreamMax = 160
    VintLimit <- MCVintLimit
    PadSizes <- MCPadSizes
    InfoSizes <- MCInfoSizes
    Kinds <- MCKinds
    KindSizes = {3}
    Starts = {0, 5}
    MaxElements = 2
PROPERTY FinaliseEnds
