SPECIFICATION Spec
CONSTANTS
    VintLimit <- MCVintLimit
    CountValues = 8
    IntValues = 64
    Tracks = {15}
    FrameSizes = {1, 4, 13, 60}
    MaxFrames = 4
    MaxEdited = 2
    MaxBytes = 30
    Foreign <- MCForeign
    Garbage <- MCGarbage
INVARIANTS
    SizeIsWritten
    FramesInsideBody
PROPERTIES
    RoundTrip
    AcceptedIsWritable
CHECK_DEADLOCK FALSE
