SPECIFICATION Spec
CONSTANTS
    Slots = {s1}
    MaxVersions = 2
    MaxEdits = 0
    MaxSent = 1
    MaxOverlaps = 0
    FailureLimit = 3
INVARIANT DispatchedVersionIsSigned
