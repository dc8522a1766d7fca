SPECIFICATION VoidSpec
CONSTANTS
    VintLimit <- MCVintLimit
    Targets <- MCTargets
INVARIANTS
    ConstructedExact
    ReadKeepsFootprint
