-------------------------- MODULE SubscriptionState --------------------------
(***************************************************************************)
(* The vocabulary of the billing subsystem and the pure decision that an   *)
(* Asaas webhook event takes about one subscription row                    *)
(* (src/src/modules/billing/billing.utils.ts).                             *)
(*                                                                         *)
(* A date column is a natural number of clock ticks, or NoDate when the    *)
(* column is null.                                                         *)
(***************************************************************************)
EXTENDS Integers

NoDate == -1
Dates == Nat \cup {NoDate}

\* The SubscriptionStatus enum of the schema.
SubscriptionStatus ==
  {"PENDING", "CHECKOUT_CREATED", "CHECKOUT_EXPIRED", "ACTIVE", "PAST_DUE",
   "CANCELED"}

\* Asaas reports on a checkout, on a payment of a recurring subscription, or on
\* the subscription itself.
CheckoutEvents ==
  {"CHECKOUT_CREATED", "CHECKOUT_EXPIRED", "CHECKOUT_CANCELED", "CHECKOUT_PAID"}
PaymentEvents ==
  {"PAYMENT_CREATED", "PAYMENT_AUTHORIZED", "PAYMENT_RECEIVED",
   "PAYMENT_CONFIRMED", "PAYMENT_OVERDUE", "PAYMENT_DELETED",
   "PAYMENT_REFUNDED"}
SubscriptionEvents == {"SUBSCRIPTION_DELETED"}

\* An event name the switch does not know: recorded, then ignored.
UnmappedEvents == {"PAYMENT_UPDATED"}
EventNames ==
  CheckoutEvents \cup PaymentEvents \cup SubscriptionEvents \cup UnmappedEvents

(***************************************************************************)
(* mapAsaasEventToStatus, as the status an event asks for and whether it   *)
(* opens the agency's access. Its domain is the set of cases of the switch *)
(* (an event outside it maps to null).                                     *)
(***************************************************************************)
MappedEvents == CheckoutEvents \cup PaymentEvents \cup SubscriptionEvents

ActivatingEvents == {"CHECKOUT_PAID", "PAYMENT_RECEIVED", "PAYMENT_CONFIRMED"}

mapAsaasEventToStatus(event) ==
  CASE event \in {"CHECKOUT_CREATED", "PAYMENT_CREATED", "PAYMENT_AUTHORIZED"}
         -> "CHECKOUT_CREATED"
    [] event = "CHECKOUT_EXPIRED" -> "CHECKOUT_EXPIRED"
    [] event \in {"CHECKOUT_CANCELED", "PAYMENT_DELETED", "PAYMENT_REFUNDED",
                  "SUBSCRIPTION_DELETED"} -> "CANCELED"
    [] event \in ActivatingEvents -> "ACTIVE"
    [] OTHER -> "PAST_DUE"

isPeriodEndCancellationEvent(event) ==
  event \in {"PAYMENT_DELETED", "SUBSCRIPTION_DELETED"}

(***************************************************************************)
(* resolveAsaasSubscriptionState: what an event makes of a row that was    *)
(* read with the given status, activatedAt and canceledAt.                 *)
(***************************************************************************)
\* Mutant: every row counts as one that already had access.
EveryRowHadAccess(status, activatedAt) == TRUE

HasActivatedAccess(status, activatedAt) ==
  activatedAt # NoDate \/ status = "ACTIVE"

\* Mutant: only what the row says now counts, not that it was activated.
PreservesOnlyActiveStatus(status, activatedAt, event) ==
  /\ status = "ACTIVE"
  /\ mapAsaasEventToStatus(event) = "CHECKOUT_EXPIRED"

PreservesActiveAccess(status, activatedAt, event) ==
  /\ HasActivatedAccess(status, activatedAt)
  /\ mapAsaasEventToStatus(event) \in {"CHECKOUT_CREATED", "CHECKOUT_EXPIRED"}

SchedulesCancellation(activatedAt, event) ==
  /\ mapAsaasEventToStatus(event) = "CANCELED"
  /\ isPeriodEndCancellationEvent(event)
  /\ activatedAt # NoDate

KeepsAccess(status, activatedAt, event) ==
  \/ SchedulesCancellation(activatedAt, event)
  \/ PreservesActiveAccess(status, activatedAt, event)

nextStatus(status, activatedAt, event) ==
  IF KeepsAccess(status, activatedAt, event)
    THEN "ACTIVE" ELSE mapAsaasEventToStatus(event)

\* Mutant: an event that keeps the access also takes the cancellation back.
UncanceledByEvent(activatedAt, canceledAt, event, now) ==
  IF mapAsaasEventToStatus(event) = "CANCELED" THEN now ELSE NoDate

\* Mutant: the end of the period keeps the date column, also when it is null.
ScheduledWithoutDate(activatedAt, canceledAt, event, now) ==
  IF mapAsaasEventToStatus(event) # "CANCELED" THEN canceledAt
  ELSE IF SchedulesCancellation(activatedAt, event) THEN canceledAt ELSE now

nextCanceledAt(activatedAt, canceledAt, event, now) ==
  IF mapAsaasEventToStatus(event) # "CANCELED" THEN canceledAt
  ELSE IF SchedulesCancellation(activatedAt, event) /\ canceledAt # NoDate
    THEN canceledAt ELSE now

nextAgencyActive(status, activatedAt, event) ==
  KeepsAccess(status, activatedAt, event) \/ event \in ActivatingEvents
=============================================================================
