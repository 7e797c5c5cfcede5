--------------------------- MODULE CancellationDates ---------------------------
(***************************************************************************)
(* The end of a canceled subscription on a calendar whose months differ in *)
(* length (subscriptionAccess.ts, addMonths in billing.utils.ts): setMonth *)
(* moves a day that the month does not have into the next month, and the   *)
(* due dates are found by repeating it. AccessWindow has months of one     *)
(* length; this module is about what it leaves out.                        *)
(*                                                                         *)
(* A date is a number of days. The subject is one subscription and the day *)
(* on which it is canceled, which moves on.                                *)
(***************************************************************************)
EXTENDS Integers

CONSTANTS
  MonthDays,          \* the length of each month of the calendar, in order
  FirstMonths,        \* months in which the subscription may be activated
  CommitmentOptions   \* commitments, in months, of the plans on offer

Months == DOMAIN MonthDays
LastMonth == CHOOSE m \in Months : m + 1 \notin Months

ASSUME CalendarAssumption ==
  /\ LastMonth \in Nat /\ Months = 0..LastMonth
  /\ MonthDays \in [Months -> 28..31]
ASSUME OptionsAssumption ==
  /\ CommitmentOptions \subseteq Nat \ {0}
  /\ \A m \in FirstMonths, c \in CommitmentOptions : m + c + 2 \in Months

VARIABLES activatedAt, commitmentMonths, canceledAt
vars == <<activatedAt, commitmentMonths, canceledAt>>

-----------------------------------------------------------------------------
(* The calendar. *)

MonthStart[m \in Months] == IF m = 0 THEN 0 ELSE MonthStart[m - 1] + MonthDays[m - 1]

LastDay == MonthStart[LastMonth] + MonthDays[LastMonth] - 1
MonthOf == [date \in 0..LastDay |->
              CHOOSE m \in Months : /\ MonthStart[m] <= date
                                    /\ date < MonthStart[m] + MonthDays[m]]

\* The day of its month, from 0.
DayOf(date) == date - MonthStart[MonthOf[date]]

\* Mutant: a month is thirty days.
AddThirtyDays(date, months) == date + 30 * months

\* setMonth keeps the number of the day, and carries what is too much.
addMonths(date, months) == MonthStart[MonthOf[date] + months] + DayOf(date)

\* The same day, or the last one of a shorter month.
NominalDate(date, months) ==
  LET m == MonthOf[date] + months
  IN  MonthStart[m] + IF DayOf(date) < MonthDays[m] THEN DayOf(date)
                      ELSE MonthDays[m] - 1

-----------------------------------------------------------------------------
(* subscriptionAccess.ts, for plans that bill every month. *)

\* The due dates of a subscription activated on a date: each is found from the
\* one before it.
Starts == {d \in 0..LastDay : MonthOf[d] \in FirstMonths}
DueDates ==
  [d \in Starts |->
     LET K == 0..(LastMonth - MonthOf[d] - 1)
         due[k \in K] == IF k = 0 THEN d ELSE addMonths(due[k - 1], 1)
     IN  [k \in K |-> due[k]]]
DueDate == DueDates[activatedAt]
Cycles == DOMAIN DueDate \ {0}

\* Mutant: one month from the cancellation.
MonthAfter(referenceDate) == addMonths(referenceDate, 1)

\* Mutant: a due date on the day itself counts as the next one.
FirstDueNotBefore(referenceDate) ==
  DueDate[CHOOSE k \in Cycles : /\ DueDate[k] >= referenceDate
                                /\ k > 1 => DueDate[k - 1] < referenceDate]

\* The first due date after the reference date.
getNextSubscriptionBillingDate(referenceDate) ==
  DueDate[CHOOSE k \in Cycles : /\ DueDate[k] > referenceDate
                                /\ k > 1 => DueDate[k - 1] <= referenceDate]

getSubscriptionExpiresAt == addMonths(activatedAt, commitmentMonths)

getSubscriptionAccessEndsAt ==
  LET next == getNextSubscriptionBillingDate(canceledAt)
  IN  IF next <= getSubscriptionExpiresAt THEN next ELSE getSubscriptionExpiresAt

-----------------------------------------------------------------------------

Init ==
  /\ activatedAt \in Starts
  /\ commitmentMonths \in CommitmentOptions
  /\ canceledAt = activatedAt

\* The same subscription, canceled a day later.
CancelNextDay ==
  /\ canceledAt + 1 < getSubscriptionExpiresAt
  /\ canceledAt' = canceledAt + 1
  /\ UNCHANGED <<activatedAt, commitmentMonths>>

Spec == Init /\ [][CancelNextDay]_vars

-----------------------------------------------------------------------------
(* Properties. *)

\* Day of the month, from 0, that every month has.
InEveryMonth == DayOf(activatedAt) < 28

\* Repeated months drift from the day of the activation, but not far: a due date
\* is the nominal one, or up to three days after it when the activation was on a
\* day that some month does not have. It never drifts back, and never adds up.
DriftIsBounded ==
  \A k \in 1..commitmentMonths :
    /\ DueDate[k] >= NominalDate(activatedAt, k)
    /\ DueDate[k] <= NominalDate(activatedAt, k) + IF InEveryMonth THEN 0 ELSE 3

\* A canceled subscription keeps its access until the end of the cycle it was
\* canceled in, or of the commitment; less only between the nominal due date
\* and the drifted one, when it is canceled in the first three days of a cycle.
NominalEnd ==
  NominalDate(activatedAt,
    CHOOSE k \in Cycles : /\ NominalDate(activatedAt, k) > canceledAt
                          /\ k > 1 => NominalDate(activatedAt, k - 1) <= canceledAt)
CanceledCycleIsServed ==
  \/ getSubscriptionAccessEndsAt >= NominalEnd
  \/ getSubscriptionAccessEndsAt = getSubscriptionExpiresAt
  \/ ~InEveryMonth /\ getSubscriptionAccessEndsAt - canceledAt <= 3

\* Who cancels later has access at least as long.
LaterEndsNoEarlier ==
  [][getSubscriptionAccessEndsAt' >= getSubscriptionAccessEndsAt]_vars
================================================================================
