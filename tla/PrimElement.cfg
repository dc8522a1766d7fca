SPECIFICATION Spec
CONSTANTS
    OctetBits = 5
    MaxIdLen = 3
    SingleLen = 1
    DoubleLen = 2
    MaxWrites = 1
    Paddings = {0, 2}
    Objects <- MCObjects
    Used <- MCUsed
    Ids <- MCIds
    Foreign <- MCForeign
PROPERTIES
    CountsAreOctets
    RoundTrip
    RewriteFits
    FailedReadKeepsValue
CHECK_DEADLOCK FALSE
