CONSTANTS
  Subscriptions = {s1, s2, s3, s4, s5}
  NoSubscription = none
  PageSize = 2
  MaxPages = 2
SPECIFICATION Spec
PROPERTIES
  MissedOnlyByRemoval
  SearchEnds
CHECK_DEADLOCK FALSE
