CONSTANTS
  Users = {u1}
  Handlers = {h1, h2}
  TokenTtl = 1
  MaxTokens = 2
  MaxTime = 1
  Passwords = {p1, p2}
  Sessions = {s1, s2}
SPECIFICATION PasswordSpec
SYMMETRY Symmetry
INVARIANTS
  OnlyOverlappingLinksCoexist
  UnmailedLinkIsWithdrawn
  ResetShutsOldPasswordOut
PROPERTIES
  ResetNeedsFreshLink
CHECK_DEADLOCK FALSE
