SPECIFICATION Spec
CONSTANTS
    Kinds <- AllKinds
    MaxChanges = 2
    MaxList = 2
INVARIANTS
    DeclaredIsWritten
    AcceptedIsWritable
PROPERTIES
    RoundTrip
    VerdictJustified
CHECK_DEADLOCK FALSE
