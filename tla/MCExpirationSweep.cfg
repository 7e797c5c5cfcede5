CONSTANTS
  Agencies = {a1, a2}
  Runs = {1, 2}
  maxAttempts = 2
  Term = 1
  MaxTime = 1
SPECIFICATION FairSpec
INVARIANTS
  TypeOK
PROPERTIES
  OnlyARaceClosesCurrentAccess
  FirstCancellationIsKept
  EndedAccessIsClosed
CHECK_DEADLOCK FALSE
