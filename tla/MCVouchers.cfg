CONSTANTS
  Handlers = {h1, h2}
  Destinations = {d1, d2}
  Codes = {c1, c2}
  PublicCodes = {x1, x2}
  Optional <- SomeChildren
  MaxRequests = 3
SPECIFICATION Spec
SYMMETRY Symmetry
INVARIANTS
  StaleItineraryOverlapped
  ItineraryIsRenewed
PROPERTIES
  ActsAsRegister
CHECK_DEADLOCK FALSE
