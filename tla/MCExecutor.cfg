\* Three backends, the third configured write-only.
CONSTANTS
    c1 = c1
    c2 = c2
    c3 = c3
    Backend <- MCBackend
    WriteOnly <- MCWriteOnly
    Kinds = {"select", "stream", "show", "alter"}
    MaxChanges = 2
SPECIFICATION Spec
SYMMETRY MCSymmetry
INVARIANTS
    
    PrefersFit
    UnavailableHasNoEffect
    DoneIsDone
