SPECIFICATION Spec
CONSTANTS
    StreamMax = 46
    Start = 3
    Flavours <- MCFlavours
    Blocks <- MCBlocks
    BlockLen <- MCBlockLen
    MetaSizes <- MCMetaSizes
    MetaPhases <- MCBefore
    PushPhases <- MCBeforeClose
    MaxClusters = 2
    MaxBlocks = 2
INVARIANTS
    NothingOverwritten
    DeclaredSizesChain
PROPERTY ImplementsLog
