CONSTANTS
  MonthDays <- Calendar2023
  FirstMonths <- Year2023
  CommitmentOptions = {1, 6, 12}
SPECIFICATION Spec
INVARIANTS
  DriftIsBounded
  CanceledCycleIsServed
PROPERTIES
  LaterEndsNoEarlier
CHECK_DEADLOCK FALSE
