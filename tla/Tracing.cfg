SPECIFICATION Spec
CONSTANTS
  Root = "s"
  Nowhere = "none"
  Histories <- MCHistories
  Amount = 4
  AddressBudget = 4
  MaxDepth = 3
  BreadthCap = 2
  FloorDivisor = 4
  WindowEnd = 4
  WorkedHistories <- MCWorked
  BatchSize = 2
  Tracers = {u1, u2}
  Params = {p1, p2}
  MaxSnapshots = 3
  Callers = {u1, u2}
  RequestLimit = 2
  InteractiveShare = 1
  BudgetWindow = 2
  MaxPages = 2
  MaxClock = 2
  Officers = {u1, u2}
  Addresses = {1, 2}
  ReportedAddress = 1
  HighValue = {2}
  Transfers <- MCTransfers
  WatchCap = 1
  PollLimit = 1
  DormantAfter = 1
  MaxRank = 1
  MaxWatchTime = 3
  Desks = {u1, u2}
  Responses <- MCResponses
  MaxUnits = 2
  Intakes = {u1, u2}
  Texts = {x1, x2}
  MaxNarratives = 2
  MaxRevision = 2
  MaxReviews = 1
SYMMETRY Alike
INVARIANTS
  TracingTypeOK
  WithinBounds
  DominantPathSeals
  ValueSpentOnce
  FailureDisplacesNothing
  CapacityFollowsOfficers
  CertifiedImportIsWhole
  OneCurrentNarrative
PROPERTIES
  InteractiveShareKept
\* A trace ends, and the clocks stop at their bounds.
CHECK_DEADLOCK FALSE
