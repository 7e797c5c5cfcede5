# VoucherCard, verified

VoucherCard (`src/`) is the API of a multi-tenant service: travel agencies sign
up, pay a monthly subscription through the payment provider Asaas, and issue
vouchers that their customers open by a public code. It is a Node/Express
program over PostgreSQL (Prisma). Its hard part is not a data structure but
*who is allowed in, and since when*: the flag `Agency.isActive` and the rows of
`AgencySubscription` are written by a webhook that Asaas calls at least once and
in any order, by a periodic sweep, by every authenticated request, by login, by
a page that polls, by renewal, by cancellation and by the superadmin, each of
which reads, waits (database, Asaas, bcrypt, SMTP) and then writes.

This directory holds TLA+ models of that behaviour, the TLC runs that check
them, and proofs that TLAPS checks. `PROJECT.json` lists the runs, the line of
code behind each definition, the mutations each property is sensitive to, and
the hazards of the code.

## Inventory

| Component | State it keeps | Operations | Hard behaviour | Correct when |
|---|---|---|---|---|
| Subscription state (`billing.utils.ts`, `subscriptionAccess.ts`) | none: decisions about one row | what an event makes of a row; when access ends | order of events; boundaries of cycles | access is kept, cancelled and ended at the right event and date |
| Billing lifecycle (`billing.service.ts`, `checkoutReconciliation.ts`, `asaas.client.ts`, `requireAuth.ts`, `routes/auth.ts` login) | `Agency.isActive`, `AgencySubscription`, `BillingWebhookEvent` | webhook, expiry (sweep, request), login, polling of a session, renewal, cancellation | stale reads across awaits, redelivery, crashes, events before their row | access implies an active row with an end; a payment is neither lost nor applied twice; no access before payment; a paid commitment is served |
| Sign-up (`billing.service.ts`) | agencies, users, trial rows; a cache of municipalities | trial sign-up, renewal sign-up, checks of e-mail and document, slug, lookups | check-then-create races; a checkout without a row; a rejected promise that is cached | a sign-up is all or nothing, a renewal link changes its own agency, a second trial needs an overlap |
| Sweep scheduler (`server.ts`) | a timer | run, retry after a timeout | overlapping runs, retries | ended access is taken away |
| Agency administration (`admin.service.ts`) | agencies, logos | create, switch on or off, branding | the superadmin against billing | the switch has the effect it says |
| Password reset and change (`passwordReset.service.ts`, `routes/auth.ts`) | `PasswordResetToken`, `User.passwordHash` | ask for a link, mail it, use it, change the password | statements without a transaction, failing mail, two handlers with one link | a link works once, for its user, until the next reset |
| Rate limiter (`server.ts`) | table `app_rate_limits`, a map and a cached promise per process | count, decide, clean up, fall back | several processes, a failing store, window boundaries | the limit holds where it is shared, blocks only who used it up |
| Vouchers and itinerary (`admin.service.ts`, `voucherItinerary.ts`, …) | vouchers and their children | create, replace, list, itinerary by an AI service | code collisions, an itinerary saved from a stale read | children match the last write; codes are unique |
| Tenant scope (`rls.ts`, `voucherScope.ts`, SQL policies) | none: settings local to one transaction | run with scope | – | a tenant sees its own rows only |
| Sessions and roles, legal documents, renewal link, support mail, address lookups of the panel, public voucher lookup, HTTP wiring | none, or the client's | pure functions, one-shot calls | – | – |

Components interact through the database (`isActive` is read by
`requireAuth`, login, the public voucher page), by calls (login calls the access
check and then the reconciliation; the scheduler calls the sweep) and through
Asaas (a renewal creates a checkout there, whose events come back by the
webhook; reconciliation asks Asaas directly; cancellation deletes there).

## Modules

| Module | What it is |
|---|---|
| `SubscriptionState` | pure: `mapAsaasEventToStatus`, `resolveAsaasSubscriptionState` |
| `AccessWindow` | pure: `addMonths`, next billing date, end of access, on a clock of ticks |
| `Billing` | the state machine of one agency; composes the two modules above with the handlers and with Asaas as the environment |
| `BillingProperties` | what the billing subsystem promises |
| `MCBilling` + `MCBilling_*.cfg` | instances for TLC |
| `BillingProofs` | theorems about `Billing` |
| `PasswordReset` | reset links |
| `PasswordChange`, `MCPasswordChange` | the change of a password beside `PasswordReset`, which it extends and implements |
| `PasswordProofs` | theorems about both |
| `CheckoutSearch`, `MCCheckoutSearch`, `CheckoutSearchProofs` | the search of the Asaas client through a list that changes |
| `RateLimit`, `MCRateLimit`, `RateLimitProofs` | the rate limiter |
| `VoucherRegister` | abstract: what the voucher service promises, a register with atomic writes |
| `Vouchers`, `MCVouchers` | vouchers, their children and their itinerary; implements `VoucherRegister` |
| `VouchersProofs` | theorems about `Vouchers`, the refinement among them |
| `Signup`, `MCSignup`, `SignupProofs` | sign-up, renewal and agencies made by hand, for several agencies and users |
| `ExpirationSweep`, `MCExpirationSweep`, `ExpirationSweepProofs` | the scheduler of the sweep, over several agencies |
| `CancellationDates`, `MCCancellationDates`, `CancellationDatesProofs` | the dates of `AccessWindow` on months that differ in length |

### Billing

*State.* `agency` is the row of `Agency` (absent, or its flag), `row` the table
`AgencySubscription`, `recorded` the ids in `BillingWebhookEvent`. `task[w]` is
the handler that worker `w` has in flight: its step, the row **as it was read**,
the event, the time. `remote` and `sent` are Asaas: checkouts, the subscription
born of a paid one, its invoices, and the events it delivers. `agencySetBy` and
`applied` are history.

*Actions.* A handler is split exactly where the code awaits something outside
the database statement or transaction it is in; everything between two awaits
is one action.

| Code | Actions |
|---|---|
| `handleAsaasWebhookEvent` | `WebhookReceive` (insert of the event id, lookup of the row), `recoverRemoteSubscriptionForEvent` (call to Asaas), `WebhookApply` (the transaction); a repeated id is `WebhookDuplicate` |
| `ensureAgencySubscriptionAccess`, `deactivateExpiredSubscriptions` | `RequestAccess`, `Login`, `deactivateExpiredSubscriptions` (the read), `cancelExpiredSubscriptions` (the transaction) |
| `reconcileSubscriptionCheckout` | `getSignupSession` or `Login`, then `ReconcileRead`, `ReconcileLookup`, `ReconcileActivate`; login then looks again, `LoginEnsureAgain` |
| `createAgencySignup` | `createAgencySignup` (trial), or with a renewal token `createRecurringCheckout` and `RenewalCommit` |
| `cancelAgencySubscription` | `cancelAgencySubscription` (reads), `cancelSubscription` (DELETE at Asaas), `CancelCommit` |
| `createAgency`, `updateAgencyStatus` | the same names |
| a crash, a failed call, a failed transaction | `Abort`; a violated unique key, `UniqueViolation` |

*Abstractions.* One agency: every statement filters by agency or by an id that
is unique to one. A checkout, the row created for it and the Asaas subscription
born of it have one number; which of them a row *names* is in its columns
(`checkout`, `subscription`, `customer`), and an event may write those of another
checkout into it. Months have one length (`MonthLength` ticks); what months of different
lengths do to the dates is in `CancellationDates`. A handler begun in one tick ends in the
next at the latest (`Tick`): a tick stands for a day or more, and the calls of
a handler time out after seconds. The two reads that the access check makes in
a `Promise.all` are one step. In the code `orderBy activatedAt desc` puts null
dates first; there are none among ACTIVE rows (`ActiveIsDated`, proved).
Reads that find nothing to do, and answers, are not actions.

*Asaas* is external. The model assumes what the code relies on: a checkout is
paid once or closes; a paid one becomes a subscription that invoices monthly
until it is deleted; each of these is reported by events, delivered at least
once, in any order. An event about a payment names the subscription and the
customer, an event about a checkout names the checkout and, for those in
`CustomerNamed`, the customer: the handler reads `checkout.customer` where the
payload has one, and nothing in the repository says when that is. An event about
a subscription has neither record, so it finds no row. A customer pays through the
link in the answer to the committed renewal, so a checkout whose row was never
committed is never paid. `RemoteEvents` selects which events a run delivers.

### Password reset

`requestPasswordReset` is a `deleteMany`, a `create`, a mail and, when that
fails, a `delete`: four actions, `DeleteTokens`, `CreateToken`,
`sendPasswordResetEmail`, `WithdrawToken`. A mail that is reported as failed may
have arrived. `resetPasswordWithToken` is a read, a hash and a transaction of
three statements, `ResetCommit`, which fails as a whole when the row is gone.
The password is not a variable: `resets` counts the commits. A handler may be
cut short after any of these (`Abort`); the history `abandoned` keeps the rows
that such a handler left behind, since nothing in the code withdraws them.

### Password change

`PasswordChange` extends `PasswordReset` by the column both handlers write,
`password`, and by the change a session has in flight. `POST /auth/change-password`
is two steps: `changePassword` (the read and `bcrypt.compare`) and `ChangeCommit`
(the update, which does not look at the hash again); the new hash is computed in
between. `ResetStep` is a step of `PasswordReset` in which a reset that commits
also writes the password. A hash is the password it was made of. Two variables are
history: `standing` has, for each password of a user, the reset it goes back to -
the reset that set it, or the standing of the current password that was presented
to change to it - and `crossed` the users whose last reset met a change in flight.
Who is signed in is left out: every session is.

### Checkout search

`findActiveSubscriptionByCheckoutSession` is asked by the webhook, the
reconciliation and the cancellation; in `Billing` it is one question with a true
answer. `CheckoutSearch` is the loop itself: `RequestPage` is its head,
`ReadPage` the answer, taken at one instant of the list; `RequestFails` is a
timeout or an error, `UnreadableAnswer` a success whose body is not a list,
which the code takes for an empty page. Between two requests other subscriptions
of the account start and end (`Subscribe`, `Unsubscribe`). Asaas says nothing of
the order of the list, so a new entry may appear anywhere. `visible` is history.

### Rate limiter

`hits` holds the table and the map of each process, `storeReady` the promise
each process caches. The statement that counts is one action, the cleanup that
one statement in a hundred starts without waiting is another. Postgres may fail
at any moment, also after it has counted and before the answer arrives
(`AnswerLost`), and recover; a process may restart. One limiter with one
`max` is followed, since `keyPrefix` separates them. The computed `Retry-After`
is left out. The run follows one key: the store has a row for each, and only
the cleanup sees them together.

### Vouchers

*State.* `voucher` is the table `Voucher` of one agency, `child[c][v]` names the
requests that wrote the rows of voucher `v` in the child table `c`, so a table
with two names in it holds the rows of two updates. `request`, `issued` and
`gaveUp` are history: what each request asked for and which requests about the
same voucher were in flight when it began.

*Actions.* `createVoucher` is `createVoucher`, the draw of a public code
(`generateUniquePublicCode`) and one statement group that nobody sees before its
commit, `InsertVoucher`. `updateVoucher` reads the row and decides about the
itinerary (`updateVoucher`), then opens a transaction whose statements are
separate actions, because Postgres runs it at READ COMMITTED: `UpdateRow` waits
for the row (`RowIsFree`) and for codes that are not settled yet
(`CodeIsSettled`), `DeleteChildren` takes the children it can see, `CommitUpdate`
makes all of it visible. After either, `generateVoucherItinerary` and
`persistVoucherItinerary` follow. `Conflict` is the violated unique key, `Abort`
a failure anywhere.

*Abstractions.* The text of an itinerary is good or poor (truncated, or about
flights); a payload has one reservation code, one destination or none, and the
child tables it fills. Only the identity of codes matters, so the draw is a
choice. Rows of other agencies differ in every key but the public code, whose
clash is in the model as a clash within the agency. Reading a voucher with its
relations takes several statements and changes nothing; it is left out.

*Refinement.* `VoucherRegister` has one variable, the register, and three steps:
create an entry, replace it by the whole of one request, save an itinerary. The
mapping `Registered` takes from the concrete state the columns of the row **and
what the child tables hold**, so a state in which the row of one request stands
beside children of another is no entry of the register at all. `ActsAsRegister`
is `VoucherRegister`'s specification under that mapping: the run checks it, and
`VouchersProofs` proves it. It is what the lock of the row (`RowIsFree`) and the
waiting for codes in flight (`CodeIsSettled`) are for.

### Sign-up

*State.* `agency` and `user` are the tables, `link` the users who got a renewal
link from a login, `cache` and `fetch` the map of promises in
`cityCodeLookup.ts`. `request`, `conflicted`, `issued` and `held` are history.

*Actions.* `createAgencySignup` awaits in many places, and each is a step:
`normalizeSignupAddress` (with the fallback from one postal service to the
other), `FindUser` (with `resolveSignupEmailPolicy`), `FindDocument`, then the
transaction of the trial, `generateUniqueAgencySlug`, `CreateAgencyRow` and
`CommitSignup`; for a renewal `listIbgeCitiesByState`, `resolveIbgeCityCode`,
`createRecurringCheckout` and `RenewalCommit`. The insert of the agency is seen
by nobody before the commit, but an insert of the same slug waits for it
(`SlugIsSettled`). `EndFetch` settles the promise that several renewals may
share. Beside them run `createAgency`, `createAgencyUser`, `SetActive` (billing
and the superadmin) and `HandOutLink` (login).

*Abstractions.* A form names an e-mail, a document, a name and a state. The slugs a
name may get are texts (`SlugText`), each name a sequence of its own, and names
share them: `foo-2` is the second text for Foo and the first for Foo 2. A link
never expires: its half hour only narrows what the model allows. Users of the
superadmin role are left out, whose e-mails are always refused. The search for a
slug reads one candidate after another; a slug that is taken stays taken, so one
read is as good; after a thousand candidates the code takes the time of day,
which no instance reaches. Subscriptions and terms are written in the same
transactions and are in `Billing`.

### Sweep

`StartRun` is the timer, which does not look whether a run is in flight;
`ReadActiveSubscriptions` and `CancelExpired` are the query and the transaction
of `deactivateExpiredSubscriptions`. An attempt may end in a timeout
(`AttemptTimesOut`), also when the transaction has committed (`CommitTimesOut`),
and is repeated from the start up to `maxAttempts` times; any other error ends
the run (`RunFails`). What else happens to an agency is reduced to what a run can
see: the payment of a renewal, a late event that makes the first subscription
ACTIVE again, a cancellation. `raced` is history: the agencies that gained
access since the run has read.

### Dates

`CancellationDates` has a calendar, the length of each month; a date is a number
of days. `addMonths` carries a day the month does not have into the next month,
as `setMonth` does, and the due dates are found by repeating it from the
activation, as the loop of `getNextSubscriptionBillingDate` does. `NominalDate`
(the same day, or the last of a shorter month) is the reference. The time of day
and daylight saving are left out.

## Runs

`pass` runs finish without error; `violation` runs show a disagreement between
the code and what its documents or tests say (see Findings). `CHECK_DEADLOCK
FALSE` stands in every configuration: the clock is bounded, and a system with
nothing left to do stops.

| Run | Question | Bounds |
|---|---|---|
| `webhook_beside` | What do two interleaved writers with stale reads leave behind; is a redelivered event applied twice; what can undo an activation or a cancellation; is the first cycle served? | 2 workers, both receive events, 1 checkout, months of 3 ticks, 4 ticks |
| `settlements` | Overdue, deleted and further invoices, cancellation and the superadmin: when does access end? | 1 worker, a plan of two months, 3 invoices, 4 ticks |
| `fair` | Two renewals that supersede each other, their events in any order and attributed by checkout, by subscription or by customer: is ended access revoked, is a paid checkout activated, is any lost, is a deletion marked? | 2 workers, 2 checkouts of one customer, 2 ticks, fairness |
| `rate_limit` | Does the shared limit hold, is a rejection justified, is every request answered? | 2 processes, 2 requests, 1 key, windows of 2 of 3 ticks, fairness |
| `password_change` | Which links coexist, which may reset, does a failed mail leave a live link, and whose password is in force after a reset? | 2 users, 2 handlers, 2 tokens, 1 session, 2 passwords, 1 tick; symmetric in all names |
| `checkout_search` | What can a search miss, and does it end? | 5 subscriptions, pages of 2, limit of 4 entries, fairness |
| `vouchers` | Do the transactions act as a register, and when may an itinerary be of another destination, or missing? | 2 handlers, 3 requests, 2 destinations, 2 reservation and 2 public codes, 2 sets of children; symmetric in all names |
| `signup` | Is a sign-up whole; what do races for a document, a slug or an e-mail leave; does a failed lookup stay; what does a link open? | 2 handlers, 3 requests, 2 e-mails, 2 documents, 2 names that share texts, 2 calls to IBGE |
| `sweep` | What do overlapping and repeated runs close, and is everything closed that is over? | 2 runs of 2 attempts, 2 agencies with 2 subscriptions each, 2 ticks, fairness |
| `cancellation_dates` | When does a canceled subscription end on a real calendar? | every day of 2023 and every day of cancellation, for commitments of 1, 6 and 12 months, on the calendar to March 2025 |
| `invoice_reopens`, `rate_limit_cached_failure` | one disagreement each | the smallest instance that shows it |

*Why the bounds are enough.* Every interference in the billing code is between
two writers of one row or of two rows of one agency: two workers, and two
checkouts for the properties about supersession. Dates matter by their order
relative to one end of trial, one or two billing dates and one expiry, so two
to four ticks with months of two or three place every event before, on and
after each of them. A bound of 3 invoices for a plan of two months gives
invoices within the commitment and one beyond it. The clock, the number of invoices, of tokens, of
counted requests, of requests about vouchers and sign-ups and of calls to IBGE
(`MaxTime`, `MaxCycles`, `MaxTokens`, `MaxCount`, `MaxRequests`, `MaxFetches`)
are the only bounds on behaviour; all are constants, tested in the guards. A race
of sign-ups needs two requests for one name or document and, for the renewal, a
third that came before. The sweep needs one subscription that is over and one
that is current in an agency, a second agency that the same transaction closes,
and two runs of two attempts, so that each can be the late one. A search needs two
pages, so that an entry can move to the one already read, and more entries than
the limit. The calendar has
a leap day and every day of a year as the start.

*Fairness.* `Billing`: a handler that has begun goes on (Node runs it to its
end); some event that was sent and not recorded is received (Asaas repeats an
event until it is answered); the sweep runs (`setInterval` in `server.ts`).
No fairness is assumed of customers, of payments, of requests or of the clock.
`RateLimit`: a promise settles (the driver ends a statement by an answer or an
error) and its handler resumes. `ExpirationSweep`: the timer goes on starting
runs and a retry follows its wait (weak fairness); the query and the transaction
succeed again and again unless they stop being tried (strong fairness): the
database may fail any attempt, not every one. `CheckoutSearch`: the loop goes on and a
request is answered or ends by its timeout of 15 seconds; the list may change
forever. Runs of `Billing` with fairness set `MayFail = FALSE`: a
server that may stop in every handler promises nothing in the end.

*Types.* `TypeOK` is an invariant of the runs of `RateLimit`, `Signup` and
`ExpirationSweep`, where a mutant of the code breaks it; in every module
that has a `TypeOK` it is a theorem (`AlwaysCanceled` stands for it in
`CancellationDates`). `password_change` checks the
properties of `PasswordReset` too: its steps are those of `PasswordReset` with a
variable more (`ResetsAreImplemented`).

*Mutants.* Beside a definition stands the mutated form of it that a plausible
mistake would give; `PROJECT.json` pairs each property of a passing run with one
that violates it.

## Findings

1. **An unpaid invoice opens a closed agency** (`invoice_reopens`).
   `resolveAsaasSubscriptionState` preserves access for every row with
   `activatedAt`, also a PAST_DUE or CANCELED one. In the trace the second invoice
   falls due and nobody pays it; its PAYMENT_OVERDUE closes the agency; its
   PAYMENT_CREATED, delivered after that, opens it again. The commitment of six
   months is longer than the run, so no expiry is involved. A `PAYMENT_DELETED` does
   the same: in `settlements` an agency that the superadmin closed is opened by a
   deleted payment.
2. **One failed CREATE disables the shared limit** (`rate_limit_cached_failure`).
   The rejected promise stays cached until the process restarts.
   (`cityCodeLookup.ts` caches a promise too, and forgets it when it is rejected:
   `FailedLookupIsForgotten`.)

### Known limits of the code

What follows is no run of its own; each item says how the models show it.

- *An old decision overwrites a new one.* The webhook decides from the row it read
  before a call to Asaas and writes without reading again: a `CHECKOUT_CREATED`
  handler can undo a `CHECKOUT_PAID`. `ActivationUndoneOnlyByStaleRead` says that
  nothing else can; without its exception `ReadIsStale` it fails in
  `webhook_beside`. A cancellation is lost in the same way
  (`CancellationUndoneOnlyByStaleRead`), and by the reconciliation, which clears
  `canceledAt` whatever it was.
- *A stale activation against the sweep.* A `CHECKOUT_PAID` that waited for Asaas
  dates a row again after the sweep has read it; the transaction of the sweep
  cancels it by its id all the same. `FirstCycleIsServed` excuses exactly a row
  whose date moved since the read; without the excuse it fails in `webhook_beside`,
  which has the deletion events that its cancellations cause.
- *A crash loses an event.* It is recorded before it is processed, so its
  repetition is a duplicate. `NoPaymentLost` holds in `fair`, where handlers are
  not cut short, and fails there with `MayFail = TRUE`. It fails as well when
  `CHECKOUT_CREATED` is reported beside a second webhook: the stale creation of the
  first bullet is applied last. So `fair` leaves both out.
- *A paid month beyond the commitment does not extend the access.* `activatedAt`
  never moves, the recurring charge does: on the monthly plan the second invoice
  may be paid and the subscription still expires at the end of the first month.
  `CommitmentIsServed` says what does hold, with further invoices in the run.
- *A renewal that loses its number.* A checkout event that names its customer and
  arrives before its row is committed is filed under the customer's older row,
  which takes its `providerCheckoutId`; the insert of the renewal then violates the
  unique column (`CheckoutTaken`).
- *A deletion that is not marked.* The charge is deleted at Asaas before the row is
  written, and the row keeps its scheduled end when the write fails.
  `DeletionIsMarked` says that the report of the deletion repairs it.
- *Two trials for one document, a slug that is lost.* The document is checked and
  not unique; the slug is unique, and the loser of a race is answered with an
  internal error. `OneTrialPerDocument` and `SlugConflictOverlapped` say when.
- *A comment that the code does not follow.* `signupEmailPolicy.ts:13` says that a
  public sign-up can reuse an inactive account; `createAgencySignup` refuses every
  e-mail that is in the table, so "reusable" means a renewal only.
- *A drifted due date.* A subscription activated on the 29th, 30th or 31st and
  canceled in the first three days after a nominal due date may keep its access
  for those days only, for the due date of that cycle is late
  (`CanceledCycleIsServed`).
- *The sweep against a renewal.* Access gained between the read of a run and its
  transaction is closed with it (`OnlyARaceClosesCurrentAccess`), until the next
  event about it.
- *A change that was checked before a reset undoes it.* The update of
  `change-password` does not repeat the comparison: whoever knew the old password
  and had a change in flight has the last word (`ResetShutsOldPasswordOut` without
  `crossed` fails in `password_change`); a change does not take the links of its
  user out of use, as a reset does.
- *A paid checkout that the search misses.* Pages are read by offset: when an
  entry ahead ends between two requests, the target moves to a page already read,
  and an answer that is not a list ends the search as if nothing were there
  (`MissedOnlyByRemoval`). The reconciliation then refuses a login until the next
  attempt, the webhook leaves the row without its subscription, and a cancellation
  is refused.
- *A payment is filed under the superseded row.* When Asaas files the payments of
  two checkouts under one customer, which nothing in the repository says, a payment
  that comes before its `CHECKOUT_PAID` goes to the customer's newest row; that row
  takes the new `providerSubscriptionId`, and the right event fails on the unique
  key (`UniqueViolation`). `NoPaymentLost`, `PaidCheckoutIsActivated` and
  `DeletionIsMarked` name this one way to lose an event, `CreditedElsewhere`;
  without it they fail in `fair`.

## Proofs

TLC answers for the instances above, the theorems for every number of workers,
checkouts, users, handlers and tokens, every plan, clock and calendar. They rest
only on the named `ASSUME`s of the modules (periods and bounds are naturals,
months are positive or have 28 to 31 days, `Checkouts` is a finite set of positive
numbers, every checkout has a customer, no two texts of one name's slugs are the
same). No theorem has a hypothesis of its own about which events Asaas reports,
which handlers run side by side, or whether they are cut short.

`BillingProofs`:
- `TypeCorrect`. Types alone are not inductive: a step reads `task[w].found`, an
  event or a row number that has the right type only at some steps of a
  handler. `HandlersFit` says what a handler has in hand at each step, and
  `Sound == TypeOK /\ HandlersFit` is inductive (`SoundStep`, one step per action).
- `ActiveRowsAreDated`, `CanceledRowsAreDated`. `KeepsRows` and `RowsWritten`
  reduce the actions to the six ways in which a row is written (`RowWriters`);
  each writes a dated row. The row a renewal carries is not yet in the table,
  which is why `HandlersFit` knows its status.
- `OpenAgencyHasActiveRow`. The same reduction: who opens the agency writes an
  ACTIVE row in the same transaction, and who takes the last ACTIVE row away
  closes it.
- `AccessIsBounded`, `CanceledAccessIsShort`. Of the rows of an open agency that is
  not due for the sweep, one that was activated last is dated and not at its end
  (`OpenAccess`); `NextBillingDateIsNear` bounds the next billing date after a
  cancellation by one cycle, by the division lemma `WholeCycles`.
- `EventsAppliedAtMostOnce`. An event in flight is recorded and not applied, and
  no other handler has it: the unique id decides at the insert.
- `PaymentPrecedesActivation` needs to know what every copy of a row may hold: a
  webhook decides from the row it read before a call, the reconciliation writes
  what Asaas answered earlier, a renewal carries a row that is not in the table
  yet. `Whole == Sound /\ RowsFit /\ TasksHold /\ RenewalsApart /\ RemoteFits /\
  TrialFits` says so of the table, of the rows in hand (`Belongs` for both: the
  checkout, the subscription and the customer a row names are of its own customer),
  of two renewals (never the same row) and of Asaas (what it says of a payment
  follows one). A customer's newest row may be credited with the payment of
  another checkout of that customer, so the property speaks of a paid checkout of
  the same customer.
- `ActivationStays`, `CancellationStays`: action properties, again one case for
  each way of writing a row. Every write outside the exceptions repeats what the
  row has; the invariant rules out an insert over a row that exists.
- `FirstCyclesAreServed`, an action property, from `Whole /\ TrialHolds /\
  CycleHolds`. The expiry of a trial, once read, stays true, because nothing moves
  `trialEndsAt` (`TrialRowKept`). A paid row, as an expiry has read it, was over, and
  no end lies less than a cycle after the activation, canceled or not
  (`AccessLastsACycle`, from `NextBillingDateIsLater`); so whatever was written
  meanwhile, the row taken has had its cycle if its date is still the one read.

`ExpirationSweepProofs` (`Sound == TypeOK /\ RowsFit /\ RunsFit`):
- `TypeCorrect`; `FirstDateKept`; `OnlyRacesClose`: what an attempt has read is over
  still holds when its transaction commits, but for agencies in `raced`
  (`RunFits`), because a date of end never moves; a repetition reads again.

`SignupProofs` (`Sound`, eight conjuncts):
- `TypeCorrect`, `SignupsAreWhole`, `FailuresAreForgotten`, `LinksOpenOwnAgency`.
- `TrialsAreSingle`, `ConflictsOverlap`. A check that a handler has passed stays
  true but for what came beside it: whoever has the document or the slug by now
  overlaps with this request (`DocumentFits`, `SlugFits`), since every request in
  flight overlaps with every other (`TasksApart`) and with every younger one
  (`YoungerOverlap`).

`RateLimitProofs` (`Sound == TypeOK /\ CallsFit /\ CountersFit`):
- `TypeCorrect`, `LimitIsShared`, `OpenWindowsRemember`, `RejectionsAreJustified`.
  A counter is tied to the requests it let through (`CounterFits`): an open window
  has let through exactly its count, beginning with the request that opened it,
  and less than `max` of the window before are still less than `windowMs` old
  (`OpenFits`); a window that is over leaves less than `max` behind (`ClosedFits`),
  because its first request has aged out. So less than twice `max` fall into any
  stretch, and a cleanup, a restart or a counter that starts again finds nothing
  it could forget. Those let through are records of tick and number, so that
  counting them is `Cardinality` and adding one is `FS_AddElement`.

`PasswordProofs` (`Sound == TypeOK /\ HandlersFit /\ RowsFit`; `PasswordSound` for
the columns of `PasswordChange`):
- `LinksCoexistOnlyByOverlap`: what a request deleted is all that was there
  (`HandlersFit`), and ids grow.
- `ResetsNeedFreshLinks`, an action property: an unused row was born after its
  user's last reset (`RowsFit`), and a handler at its commit still has the row as
  it read it.
- `UsersStayApart`, and `UnmailedLinksAreWithdrawn`: a live row without a
  delivered link has its handler, or a handler that was cut short left it behind.
- `ResetsAreImplemented`: each step of `PasswordChange` is one of `PasswordReset` or
  leaves its variables alone (`StepOfReset`), so these theorems hold beside changes.
- `ResetsShutOldPasswordsOut`: the current password of a change in flight stands
  where it stood when it was compared or later, and below the last reset only if
  that reset crossed it; a change hands its standing on to the new password.

`CheckoutSearchProofs` (`Sound == TypeOK /\ Ahead`, and a page is asked for below
the limit only):
- `TypeCorrect`: offsets are multiples of the page size, at most the limit.
- `MissesAreRemovals`: what is visible to a search lies beyond the pages it has
  read (`Ahead`). An entry put into the list moves the target away from them
  (`InsertedEntries`), one removed behind it does not move it (`RemainingEntries`).

`VouchersProofs` (`Sound == TypeOK /\ HandlersFit /\ HandlersApart /\ RowsFit /\ CodesApart`):
- `TypeCorrect` and `ChildrenAlwaysMatch`. Two handlers past their UPDATE hold
  different rows and different codes (`HandlersApart`), so what a DELETE has taken
  is still all there is at the commit (`HandlersFit`), and a row that exists has
  exactly the children its last request wrote (`RowsFit`).
- `VouchersActAsRegister`, the refinement. `EntryStep` turns a step that writes one
  row and its children into a step of the register; each action either is one
  (`InsertVoucher`, `CommitUpdate`, `persistVoucherItinerary`) or leaves
  `Registered` as it is. Without the invariant the mapped step would not be one:
  the children that remain might be of a third request.
- `StaleItinerariesOverlapped`, `ItinerariesAreRenewed`, from `Tended`, which adds to
  `Sound` what a handler decided before the lock (`Decided`: right about its row, or
  in company), that handlers of one voucher are company (`Together`), and that a
  neglected row has somebody who attends to it or a reason why not
  (`RowsAttended`). TLC found no violation of `Tended` in the instance of `vouchers`.

`CancellationDatesProofs`, about every calendar of months of 28 to 31 days:
- The recursive functions of the module, `MonthStart` and the due dates, are
  reasoned about by the smallest member of a set of numbers (`SmallestMember`,
  from the library's theorem that proper inclusion of finite sets is well
  founded) and by `UpTo`, the induction up to a bound that follows from it for
  every set. That gives the recursion equations (`MonthStartDef`, `DueDatesDef`)
  and the month of a date (`MonthOfFinds`).
- `DriftStaysBounded`. By `DueDatesFit` a due date is on the day of the activation,
  or, once a month did not have that day, on the first, second or third of the
  month after, where it stays.
- `CanceledCycleStaysServed`, `LaterCancellationsEndNoEarlier`, from the invariant
  `CanceledInCommitment`: a due date lies beyond the commitment (`CommitmentEnds`),
  so the first one after the cancellation exists (`CycleFound`); dates grow
  (`DatesGrow`), so it is in the nominal cycle or in the drift after it
  (`EndOfCycle`), and does not move back (`DueLater`).

*Only model-checked.* Liveness under fairness (`EndedAccessIsRevoked`,
`PaidCheckoutIsActivated`, `DeletionIsMarked`, `EndedAccessIsClosed`,
`RequestsAreAnswered`, `SearchEnds`)
is beyond the proof system. So far the following safety properties are results for
their instances only: `NoPaymentLost`, which needs handlers that are not cut short,
and `CommitmentIsServed`. Every other property that a passing run checks is the
statement of a theorem. The library's
induction theorems over numbers take an operator and cannot be used; the
well-founded theorems over sets can, as above.

## Plan

Done, in this order: `SubscriptionState` and `AccessWindow`; `Billing` with its
properties, runs and proofs; `PasswordReset`; `RateLimit`; `Vouchers` with its
abstract register; `Signup`; `ExpirationSweep`; `CancellationDates`;
`PasswordChange` and `CheckoutSearch`; then the theorems about each of them.

## Not modelled

Legal texts, the signing of tokens and cookies, the support mail, CORS and
headers: pure functions or single calls without state of their own. Tenant scope:
the settings of a request are local to its one transaction (`set_config` with
`is_local`), so nothing of it survives to interfere, and what remains are pure
functions and policies in SQL. The postal lookup of the panel keeps no state.
Branding and logos write columns nothing else reads. The list of payments of a
subscription is read up to its twentieth entry, which no checkout of a few days
reaches. `voucherPayload.ts` is
not called by the program; the public page reads a voucher by its code and, for
the access, runs the check that `Billing` models. The
front ends, Postgres and Asaas are not in this repository; Postgres appears as
atomic statements and transactions with its unique keys.
