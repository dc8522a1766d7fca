SPECIFICATION Spec
CONSTANTS
    Streams <- MCStreams
    Cuts = {0, 1, 9}
    Places = {1}
    Flavours <- MCFlavours
    Iterators = {i1, i2}
INVARIANTS
    VerdictJustified
    SameBlocks
    Footprint
    PositionIsClients
CHECK_DEADLOCK FALSE
