SPECIFICATION Spec
CONSTANTS
    Slots = {s1}
    MaxVersions = 1
    MaxEdits = 0
    MaxSent = 2
    MaxOverlaps = 0
    FailureLimit = 3
INVARIANT DispatchedOnce
