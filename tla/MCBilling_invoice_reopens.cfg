CONSTANTS
  Workers = {1}
  Serves <- PaidByWebhook
  Checkouts = {1}
  CustomerOf <- SameCustomer
  CommitmentOptions = {6}
  MonthLength = 2
  TrialPeriod = 1
  CheckoutTtl = 1
  ReconcileGrace = 1
  RemoteEvents = {"CHECKOUT_PAID", "PAYMENT_CREATED", "PAYMENT_CONFIRMED", "PAYMENT_OVERDUE"}
  CustomerNamed = {}
  MayFail = FALSE
  MaxCycles = 2
  MaxTime = 5
SPECIFICATION Spec
PROPERTIES
  InvoiceOpensWhenPaid
CHECK_DEADLOCK FALSE
