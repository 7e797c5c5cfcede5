CONSTANTS
  Workers = {1, 2}
  Serves <- SweepBeside
  Checkouts = {1, 2}
  CustomerOf <- SameCustomer
  CommitmentOptions = {1}
  MonthLength = 2
  TrialPeriod = 1
  CheckoutTtl = 0
  ReconcileGrace = 1
  RemoteEvents = {"CHECKOUT_PAID", "CHECKOUT_EXPIRED", "PAYMENT_CREATED", "PAYMENT_DELETED"}
  CustomerNamed = {"CHECKOUT_CREATED", "CHECKOUT_PAID", "CHECKOUT_EXPIRED"}
  MayFail = FALSE
  MaxCycles = 1
  MaxTime = 1
SPECIFICATION FairSpec
INVARIANTS
  NoPaymentLost
PROPERTIES
  EndedAccessIsRevoked
  PaidCheckoutIsActivated
  DeletionIsMarked
CHECK_DEADLOCK FALSE
