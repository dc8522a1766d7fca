SPECIFICATION Spec
CONSTANT Segments <- MCSegments
INVARIANTS
    VerdictJustified
    PointerPlaced
    IndexGuaranteedIfComplete
    IterationComplete
PROPERTY Terminates
