CONSTANTS
  Workers = {1, 2}
  Serves <- BothReceive
  Checkouts = {1}
  CustomerOf <- SameCustomer
  CommitmentOptions = {1}
  MonthLength = 3
  TrialPeriod = 1
  CheckoutTtl = 1
  ReconcileGrace = 1
  RemoteEvents = {"CHECKOUT_CREATED", "CHECKOUT_PAID", "PAYMENT_DELETED"}
  CustomerNamed = {"CHECKOUT_CREATED", "CHECKOUT_PAID", "CHECKOUT_EXPIRED"}
  MayFail = TRUE
  MaxCycles = 1
  MaxTime = 4
SPECIFICATION Spec
INVARIANTS
  AccessHasActiveRow
  GrantIsBounded
  PaidBeforeActivated
  AppliedAtMostOnce
PROPERTIES
  FirstCycleIsServed
  ActivationUndoneOnlyByStaleRead
  CancellationUndoneOnlyByStaleRead
CHECK_DEADLOCK FALSE
