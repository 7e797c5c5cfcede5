CONSTANTS
  Workers = {1}
  Serves <- WithSuperadmin
  Checkouts = {1}
  CustomerOf <- SameCustomer
  CommitmentOptions = {2}
  MonthLength = 2
  TrialPeriod = 1
  CheckoutTtl = 1
  ReconcileGrace = 1
  RemoteEvents = {"CHECKOUT_PAID", "PAYMENT_CONFIRMED", "PAYMENT_OVERDUE", "PAYMENT_DELETED"}
  CustomerNamed = {}
  MayFail = FALSE
  MaxCycles = 3
  MaxTime = 4
SPECIFICATION Spec
INVARIANTS
  CanceledAccessEndsWithCycle
PROPERTIES
  CommitmentIsServed
CHECK_DEADLOCK FALSE
