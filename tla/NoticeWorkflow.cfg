SPECIFICATION Spec
CONSTANTS
    Slots = {s1, s2}
    MaxVersions = 2
    MaxEdits = 1
    MaxSent = 1
    MaxOverlaps = 1
    FailureLimit = 2
SYMMETRY Sym
INVARIANTS TypeOK SignedBeforeDispatch ActiveIsNewest LockedIsUnverified AttestedIsCurrent
