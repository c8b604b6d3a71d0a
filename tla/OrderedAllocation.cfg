SPECIFICATION Spec
CONSTANTS
    MaxTotal = 8
    MaxAttributed = 8
INVARIANTS TypeOK ValueConserved BalanceCoversTheRest FullSpendLeavesNothing
CHECK_DEADLOCK FALSE
