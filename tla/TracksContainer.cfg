SPECIFICATION Spec
CONSTANTS
    Holders = {h1, h2}
    Entries = {e1, e2, e3}
    Numbers = {1, 2}
    Uids = {1, 2}
    Foreign <- MCForeign
SYMMETRY MCSymmetry
INVARIANTS
    WrittenDistinct
    RoundTrip
    UntouchedLegal
CHECK_DEADLOCK FALSE
