CONSTANTS
  Processes = {p1, p2}
  Requests = {r1, r2}
  Keys = {k1}
  max = 1
  windowMs = 1
  MaxCount = 2
  MaxTime = 2
SPECIFICATION Spec
SYMMETRY Symmetry
PROPERTIES
  LocalOnlyWhenStoreFails
CHECK_DEADLOCK FALSE
