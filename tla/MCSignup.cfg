CONSTANTS
  Handlers = {h1, h2}
  Emails = {e1, e2}
  Documents = {d1, d2}
  Names = {"foo", "foo-2"}
  Slugs <- FooSlugs
  SlugText <- FooTexts
  States = {s1}
  MaxRequests = 3
  MaxFetches = 2
SPECIFICATION Spec
SYMMETRY Symmetry
INVARIANTS
  TypeOK
  SignupIsWhole
  OneTrialPerDocument
  SlugConflictOverlapped
  FailedLookupIsForgotten
PROPERTIES
  LinkOpensOwnAgency
CHECK_DEADLOCK FALSE
