CONSTANTS
  Processes = {p1, p2}
  Requests = {r1, r2}
  Keys = {k1}
  max = 1
  windowMs = 2
  MaxCount = 2
  MaxTime = 3
SPECIFICATION FairSpec
INVARIANTS
  TypeOK
  SharedLimit
  OpenWindowRemembers
PROPERTIES
  RejectionJustified
  RequestsAreAnswered
CHECK_DEADLOCK FALSE
