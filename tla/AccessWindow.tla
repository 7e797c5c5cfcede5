----------------------------- MODULE AccessWindow -----------------------------
(***************************************************************************)
(* When the access that a subscription row grants comes to its end         *)
(* (src/src/modules/billing/subscriptionAccess.ts). Months have one        *)
(* length, MonthLength ticks: the drift of real month lengths is not a     *)
(* matter of this module.                                                  *)
(***************************************************************************)
EXTENDS SubscriptionState

CONSTANT MonthLength     \* ticks of a month

ASSUME MonthLengthAssumption == MonthLength \in Nat \ {0}

\* Every plan bills monthly and commits to one, six or twelve months.
BillingCycleMonths == 1

addMonths(date, months) == date + months * MonthLength

\* Mutant: the commitment is forgotten.
ExpiresAfterOneCycle(activatedAt, commitmentMonths) ==
  addMonths(activatedAt, BillingCycleMonths)

getSubscriptionExpiresAt(activatedAt, commitmentMonths) ==
  addMonths(activatedAt, commitmentMonths)

\* The first due date, counted in whole billing cycles from the activation,
\* that lies after the reference date.
getNextSubscriptionBillingDate(activatedAt, referenceDate) ==
  LET cyclesPast == IF referenceDate < activatedAt THEN 0
                    ELSE (referenceDate - activatedAt)
                           \div (BillingCycleMonths * MonthLength)
  IN  addMonths(activatedAt, BillingCycleMonths * (cyclesPast + 1))

\* The end that a row has before anyone cancels: of the trial, or else of the
\* commitment.
ScheduledEnd(r) ==
  IF r.trialEndsAt # NoDate THEN r.trialEndsAt
  ELSE getSubscriptionExpiresAt(r.activatedAt, r.commitmentMonths)

\* Mutant: a cancellation ends the access at once.
EndsWhenCanceled(r) ==
  IF r.canceledAt # NoDate THEN r.canceledAt ELSE ScheduledEnd(r)

\* Mutant: a cancellation changes nothing.
EndsAsScheduled(r) == ScheduledEnd(r)

getSubscriptionAccessEndsAt(r) ==
  LET nextBillingDate == getNextSubscriptionBillingDate(r.activatedAt, r.canceledAt)
  IN  IF r.canceledAt # NoDate /\ nextBillingDate <= ScheduledEnd(r)
        THEN nextBillingDate ELSE ScheduledEnd(r)

\* Mutant: the end itself still counts as access.
AccessReachedEndLate(r, now) == getSubscriptionAccessEndsAt(r) < now

hasSubscriptionAccessReachedEnd(r, now) == getSubscriptionAccessEndsAt(r) <= now
===============================================================================
