SPECIFICATION Spec
CONSTANTS
    Rows = {1, 2}
    Cases = {1}
    CaseOf <- OneCase
    Onward <- TwoRoutes
    Workers = {w1}
    NoWorker = NoWorker
    NoRow = NoRow
    BatchSize = 2
    MaxCases = 2
    MaxAttempts = 2
    MaxDepth = 2
    MaxFaults = 0
INVARIANTS QueriesWithinDepth
