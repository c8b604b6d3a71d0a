SPECIFICATION FairSpec
CONSTANTS
    Rows = {1, 2, 3}
    Cases = {1, 2}
    CaseOf <- MCCaseOf
    Onward <- MCOnward
    Workers = {w1}
    NoWorker = NoWorker
    NoRow = NoRow
    BatchSize = 2
    MaxCases = 2
    MaxAttempts = 2
    MaxDepth = 2
    MaxFaults = 1
INVARIANTS TypeOK ExhaustedNeverWorked
PROPERTIES RetryHistoryKept QueueDrains LeasesEnd
