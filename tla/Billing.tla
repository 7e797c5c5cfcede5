------------------------------- MODULE Billing -------------------------------
(***************************************************************************)
(* The paid life of one agency: its isActive flag, its subscription rows   *)
(* and everything that moves them - the Asaas webhook, the expiration      *)
(* sweep, the access check of every request, login, the reconciliation of  *)
(* a checkout, renewal, cancellation and the superadmin.                   *)
(*                                                                         *)
(* Handlers are asynchronous functions of one or more Node processes. A    *)
(* worker executes one handler at a time; between a database read, a call  *)
(* to Asaas and the final transaction the other workers run, so a handler  *)
(* carries in its task the row it read. Transactions are atomic.           *)
(*                                                                         *)
(* Every statement of the code filters by one agency (or by ids unique to  *)
(* it), so the module follows one agency. A checkout, the row created for  *)
(* it and the Asaas subscription born of it have the same number; which    *)
(* checkout, subscription and customer a row names, its columns say.       *)
(***************************************************************************)
EXTENDS AccessWindow, FiniteSets

CONSTANTS
  Workers,            \* handlers that can be in flight together
  Serves,             \* the operations each worker may be asked to run
  Checkouts,          \* numbers of the checkouts Asaas may create
  CustomerOf,         \* the Asaas customer of each checkout
  CommitmentOptions,  \* commitments, in months, of the plans on offer
  TrialPeriod,        \* SIGNUP_FREE_TRIAL_DAYS
  CheckoutTtl,        \* life of a checkout link (minutesToExpire)
  ReconcileGrace,     \* extra time in which an expired checkout is reconciled
  RemoteEvents,       \* events the webhook is subscribed to
  CustomerNamed,      \* events of a checkout whose payload names the customer
  MayFail,            \* whether handlers may be cut short (Abort)
  MaxCycles,          \* bound: invoices of one Asaas subscription
  MaxTime             \* bound: last value of the clock

Operations == {"webhook", "sweep", "request", "login", "session", "renew",
               "cancel", "status"}

ASSUME CheckoutsAssumption ==
  Checkouts \subseteq Nat \ {0} /\ IsFiniteSet(Checkouts)
ASSUME CustomerAssumption == CustomerOf \in [Checkouts -> Nat \ {0}]
ASSUME CommitmentAssumption == CommitmentOptions \subseteq Nat \ {0}
ASSUME PeriodAssumption ==
  /\ TrialPeriod \in Nat \ {0}
  /\ CheckoutTtl \in Nat
  /\ ReconcileGrace \in Nat
  /\ MaxTime \in Nat
  /\ MaxCycles \in Nat
ASSUME ServesAssumption == Serves \in [Workers -> SUBSET Operations]
ASSUME MayFailAssumption == MayFail \in BOOLEAN
ASSUME RemoteEventsAssumption == RemoteEvents \subseteq EventNames
ASSUME CustomerNamedAssumption == CustomerNamed \subseteq CheckoutEvents

VARIABLES
  agency,      \* "absent", or the isActive flag: "active", "inactive"
  agencySetBy, \* history: who wrote isActive last, "billing" or "superadmin"
  row,         \* AgencySubscription: the rows, by number
  recorded,    \* BillingWebhookEvent: the ids inserted so far
  applied,     \* history: events whose transaction committed
  task,        \* the handler each worker has in flight
  remote,      \* Asaas: checkouts, subscriptions and their invoices
  sent,        \* Asaas: events it delivers, at least once, in any order
  now          \* the clock

local == <<agency, agencySetBy, row, recorded, applied, task>>
vars == <<agency, agencySetBy, row, recorded, applied, task, remote, sent, now>>

-----------------------------------------------------------------------------
(* Rows, tasks and what Asaas keeps. *)

NoId == 0
TrialRow == 0                \* the row of the free trial has no checkout
RowIds == {TrialRow} \cup Checkouts

Row == [status : SubscriptionStatus \cup {"NONE"},
        activatedAt : Dates, trialEndsAt : Dates, canceledAt : Dates,
        checkoutExpiresAt : Dates,
        checkout : Checkouts \cup {NoId},      \* providerCheckoutId
        subscription : Checkouts \cup {NoId},  \* providerSubscriptionId
        customer : Nat,                        \* providerCustomerId
        commitmentMonths : Nat \ {0},
        createdAt : Nat]                       \* order of creation

NoRow == [status |-> "NONE",
          activatedAt |-> NoDate, trialEndsAt |-> NoDate, canceledAt |-> NoDate,
          checkoutExpiresAt |-> NoDate,
          checkout |-> NoId, subscription |-> NoId, customer |-> NoId,
          commitmentMonths |-> 1, createdAt |-> 0]

Event == [name : EventNames, checkout : Checkouts, cycle : 0..MaxCycles]
NoEvent == [name |-> "NONE", checkout |-> NoId, cycle |-> 0]

\* The step a handler is about to take.
Steps == {"idle", "recover", "apply", "expire", "reconcile", "lookup",
          "activate", "ensure", "delete", "cancel", "renew"}

Task == [pc : Steps, id : RowIds, row : Row, event : Event \cup {NoEvent},
         found : Checkouts \cup {NoId}, at : Nat, login : BOOLEAN]

Idle == [pc |-> "idle", id |-> TrialRow, row |-> NoRow, event |-> NoEvent,
         found |-> NoId, at |-> 0, login |-> FALSE]

Remote == [checkout : {"none", "open", "paid", "closed"}, expiresAt : Dates,
           subscription : {"none", "active", "deleted"}, startedAt : Dates,
           invoiced : 0..MaxCycles, paid : 0..MaxCycles, refunded : BOOLEAN]

NoRemote == [checkout |-> "none", expiresAt |-> NoDate,
             subscription |-> "none", startedAt |-> NoDate,
             invoiced |-> 0, paid |-> 0, refunded |-> FALSE]

Rows == {r \in RowIds : row[r].status # "NONE"}
ActiveRows == {r \in RowIds : row[r].status = "ACTIVE"}

\* orderBy createdAt desc, take the first: at most one member.
Newest(S) == {r \in S : \A o \in S : row[o].createdAt <= row[r].createdAt}

\* orderBy activatedAt desc, createdAt desc, take the first.
LatestActivated(S) ==
  Newest({r \in S : \A o \in S : row[o].activatedAt <= row[r].activatedAt})

\* The active subscription the access check and the sweep look at, when the
\* access it grants is over.
EndedSubscription ==
  {r \in LatestActivated(ActiveRows) :
     /\ row[r].activatedAt # NoDate
     /\ hasSubscriptionAccessReachedEnd(row[r], now)}

\* providerCheckoutId and providerSubscriptionId are unique: writing one that
\* another row holds fails.
CheckoutTaken(r, checkout) ==
  /\ checkout # NoId
  /\ \E o \in Rows \ {r} : row[o].checkout = checkout
SubscriptionTaken(r, subscription) ==
  /\ subscription # NoId
  /\ \E o \in Rows \ {r} : row[o].subscription = subscription

May(w, operation) == task[w].pc = "idle" /\ operation \in Serves[w]
Continue(w, t) == task' = [task EXCEPT ![w] = t]
Finish(w) == Continue(w, Idle)

SetAgency(active, by) ==
  /\ agency' = IF active THEN "active" ELSE "inactive"
  /\ agencySetBy' = by

Init ==
  /\ agency = "absent" /\ agencySetBy = "superadmin"
  /\ row = [r \in RowIds |-> NoRow]
  /\ recorded = {} /\ applied = {}
  /\ task = [w \in Workers |-> Idle]
  /\ remote = [i \in Checkouts |-> NoRemote]
  /\ sent = {} /\ now = 0

-----------------------------------------------------------------------------
(* How an agency comes to exist. *)

\* createAgencySignup without a renewal token: one transaction creates the
\* agency, its admin and a free trial.
TrialRowAt(months) ==
  [NoRow EXCEPT !.status = "ACTIVE", !.activatedAt = now,
                !.trialEndsAt = now + TrialPeriod,
                !.commitmentMonths = months, !.createdAt = 1]

createAgencySignup(months) ==
  /\ agency = "absent"
  /\ SetAgency(TRUE, "billing")
  /\ row' = [row EXCEPT ![TrialRow] = TrialRowAt(months)]
  /\ UNCHANGED <<recorded, applied, task, remote, sent, now>>

\* The superadmin creates an agency by hand: it is active and has no
\* subscription.
createAgency ==
  /\ agency = "absent"
  /\ SetAgency(TRUE, "superadmin")
  /\ UNCHANGED <<row, recorded, applied, task, remote, sent, now>>

updateAgencyStatus(w, active) ==
  /\ May(w, "status") /\ agency # "absent"
  /\ SetAgency(active, "superadmin")
  /\ UNCHANGED <<row, recorded, applied, task, remote, sent, now>>

-----------------------------------------------------------------------------
(* handleAsaasWebhookEvent: insert the event, find the row, perhaps ask    *)
(* Asaas for the subscription of the checkout, then write what was decided *)
(* from the row as it was read.                                            *)

Emit(events) == sent' = sent \cup {e \in events : e.name \in RemoteEvents}
Report(i, names, cycle) ==
  {[name |-> n, checkout |-> i, cycle |-> cycle] : n \in names}

\* What the handler reads of a payload: of a payment its subscription and its
\* customer, of a checkout its id and, where Asaas names one, its customer. An
\* event about the subscription itself has neither record.
NamesSubscription(e) == e.name \in PaymentEvents
NamesCheckout(e) == e.name \in CheckoutEvents
NamesCustomer(e) == e.name \in PaymentEvents \cup CustomerNamed

\* Mutant: a checkout event finds no row.
LookupWithoutCheckout(e) == {r \in Rows : row[r].subscription = e.checkout}

\* By the subscription, else by the checkout, else the customer's newest row.
findSubscriptionForEvent(e) ==
  LET bySubscription == {r \in Rows : NamesSubscription(e) /\ row[r].subscription = e.checkout}
      byCheckout == {r \in Rows : NamesCheckout(e) /\ row[r].checkout = e.checkout}
      byCustomer == {r \in Rows : NamesCustomer(e) /\ row[r].customer = CustomerOf[e.checkout]}
  IN  IF bySubscription # {} THEN bySubscription
      ELSE IF byCheckout # {} THEN byCheckout
      ELSE Newest(byCustomer)

\* Mutant: the event is handled but not inserted.
InsertForgotten(e) == recorded

InsertWebhookEvent(e) == recorded \cup {e}

WebhookReceive(w, e) ==
  /\ May(w, "webhook")
  /\ e \in sent \ recorded
  /\ recorded' = InsertWebhookEvent(e)
  /\ LET found == findSubscriptionForEvent(e)
     IN  IF e.name \in MappedEvents /\ found # {}
         THEN \E r \in found :
                Continue(w, [Idle EXCEPT
                  !.pc = IF NamesSubscription(e) THEN "apply" ELSE "recover",
                  !.id = r, !.row = row[r], !.event = e,
                  !.found = IF NamesSubscription(e) THEN e.checkout ELSE NoId,
                  !.at = now])
         ELSE UNCHANGED task
  /\ UNCHANGED <<agency, agencySetBy, row, applied, remote, sent, now>>

\* The insert of a recorded id is refused (P2002): answered as a duplicate.
WebhookDuplicate(w, e) ==
  /\ May(w, "webhook")
  /\ e \in sent \cap recorded
  /\ UNCHANGED vars

\* recoverRemoteSubscriptionForEvent: a failed call counts as "not found".
recoverRemoteSubscriptionForEvent(w) ==
  /\ task[w].pc = "recover"
  /\ \E found \in {NoId} \cup {i \in {task[w].event.checkout} :
                                 remote[i].subscription = "active"} :
       Continue(w, [task[w] EXCEPT !.pc = "apply", !.found = found])
  /\ UNCHANGED <<agency, agencySetBy, row, recorded, applied, remote, sent, now>>

resolvedProviderSubscriptionId(t) ==
  IF t.found # NoId THEN t.found ELSE t.row.subscription

resolvedProviderCustomerId(t) ==
  IF NamesCustomer(t.event) THEN CustomerOf[t.event.checkout]
  ELSE IF t.found # NoId THEN CustomerOf[t.found] ELSE t.row.customer

resolvedProviderCheckoutId(t) ==
  IF NamesCheckout(t.event) THEN t.event.checkout ELSE t.row.checkout

ActivationDate(t, status) ==
  IF status = "ACTIVE" /\ t.row.activatedAt = NoDate THEN now ELSE t.row.activatedAt

\* The columns the transaction writes: all from the row as it was read.
RowAfterEvent(t, current) ==
  LET e == t.event.name
      status == nextStatus(t.row.status, t.row.activatedAt, e)
  IN  [current EXCEPT
        !.status = status,
        !.activatedAt = ActivationDate(t, status),
        !.canceledAt = nextCanceledAt(t.row.activatedAt, t.row.canceledAt, e, now),
        !.checkoutExpiresAt =
            IF e = "CHECKOUT_CREATED"
               /\ ~PreservesActiveAccess(t.row.status, t.row.activatedAt, e)
            THEN t.at + CheckoutTtl
            ELSE IF t.row.checkoutExpiresAt = NoDate THEN @
            ELSE t.row.checkoutExpiresAt,
        !.checkout = resolvedProviderCheckoutId(t),
        !.subscription = resolvedProviderSubscriptionId(t),
        !.customer = resolvedProviderCustomerId(t)]

WebhookApply(w) ==
  LET t == task[w]
  IN  /\ t.pc = "apply"
      /\ ~CheckoutTaken(t.id, resolvedProviderCheckoutId(t))
      /\ ~SubscriptionTaken(t.id, resolvedProviderSubscriptionId(t))
      /\ row' = [row EXCEPT ![t.id] = RowAfterEvent(t, row[t.id])]
      /\ SetAgency(nextAgencyActive(t.row.status, t.row.activatedAt, t.event.name),
                   "billing")
      /\ applied' = applied \cup {t.event}
      /\ Finish(w)
      /\ UNCHANGED <<recorded, remote, sent, now>>

-----------------------------------------------------------------------------
(* ensureAgencySubscriptionAccess and deactivateExpiredSubscriptions: read  *)
(* the latest active subscription; when its access is over, cancel it.      *)

BeginExpiry(w, login) ==
  \E r \in EndedSubscription :
    Continue(w, [Idle EXCEPT !.pc = "expire", !.id = r, !.row = row[r],
                             !.at = now, !.login = login])

\* requireAuth: every authenticated request of a user of the agency.
RequestAccess(w) ==
  /\ May(w, "request") /\ agency # "absent"
  /\ BeginExpiry(w, FALSE)
  /\ UNCHANGED <<agency, agencySetBy, row, recorded, applied, remote, sent, now>>

deactivateExpiredSubscriptions(w) ==
  /\ May(w, "sweep")
  /\ BeginExpiry(w, FALSE)
  /\ UNCHANGED <<agency, agencySetBy, row, recorded, applied, remote, sent, now>>

\* After an expiry met while logging in, or when the agency is inactive, the
\* login goes on to the reconciliation of the newest checkout.
BeginReconciliation(w, r, login) ==
  Continue(w, [Idle EXCEPT !.pc = "reconcile", !.id = r, !.login = login, !.at = now])

Login(w) ==
  /\ May(w, "login") /\ agency # "absent"
  /\ \/ BeginExpiry(w, TRUE)
     \/ /\ EndedSubscription = {} /\ agency = "inactive"
        /\ BeginReconciliation(w, TrialRow, TRUE)
  /\ UNCHANGED <<agency, agencySetBy, row, recorded, applied, remote, sent, now>>

RowAfterExpiry(current, at) ==
  [current EXCEPT !.status = IF @ = "ACTIVE" THEN "CANCELED" ELSE @,
                  !.canceledAt = IF @ = NoDate THEN at ELSE @]

\* Mutant: the third statement of the transaction is missing.
AgencyLeftOpen == UNCHANGED <<agency, agencySetBy>>

DeactivateAgency ==
  IF agency = "active" THEN SetAgency(FALSE, "billing")
                       ELSE UNCHANGED <<agency, agencySetBy>>

cancelExpiredSubscriptions(w) ==
  LET t == task[w]
  IN  /\ t.pc = "expire"
      /\ row' = [row EXCEPT ![t.id] = RowAfterExpiry(@, t.at)]
      /\ DeactivateAgency
      /\ IF t.login THEN BeginReconciliation(w, TrialRow, TRUE) ELSE Finish(w)
      /\ UNCHANGED <<recorded, applied, remote, sent, now>>

-----------------------------------------------------------------------------
(* reconcileSubscriptionCheckout: grant access to a checkout that Asaas     *)
(* says is paid, without waiting for its webhook.                          *)

\* The page of a signup session polls while the agency has no access.
getSignupSession(w, i) ==
  /\ May(w, "session") /\ i \in Rows
  /\ row[i].status # "ACTIVE" \/ agency = "inactive"
  /\ BeginReconciliation(w, i, FALSE)
  /\ UNCHANGED <<agency, agencySetBy, row, recorded, applied, remote, sent, now>>

isCheckoutReconciliationEligible(r) ==
  /\ row[r].checkout # NoId
  /\ ~ /\ row[r].status = "ACTIVE" /\ row[r].activatedAt # NoDate
       /\ row[r].subscription # NoId /\ agency = "active"
  /\ ~ /\ row[r].checkoutExpiresAt # NoDate
       /\ row[r].checkoutExpiresAt + ReconcileGrace <= now
       /\ row[r].status # "ACTIVE"

\* A session names its row; a login takes the newest row with a checkout.
ReconciliationCandidates(t) ==
  IF t.login THEN Newest({r \in Rows : row[r].checkout # NoId}) ELSE {t.id}

ReconcileRead(w) ==
  LET t == task[w]
      eligible == {r \in ReconciliationCandidates(t) :
                     isCheckoutReconciliationEligible(r)}
  IN  /\ t.pc = "reconcile"
      /\ IF eligible = {} THEN Finish(w)
         ELSE \E r \in eligible :
                Continue(w, [t EXCEPT !.pc = "lookup", !.id = r,
                                      !.row = row[r], !.at = now])
      /\ UNCHANGED <<agency, agencySetBy, row, recorded, applied, remote, sent, now>>

hasConfirmedSubscriptionPayment(i) ==
  remote[i].paid > IF remote[i].refunded THEN 1 ELSE 0

\* The two calls to Asaas; an answer of "not paid" ends the reconciliation.
ReconcileLookup(w) ==
  LET t == task[w]
  IN  /\ t.pc = "lookup"
      /\ IF remote[t.row.checkout].subscription = "active"
              /\ hasConfirmedSubscriptionPayment(t.row.checkout)
           THEN Continue(w, [t EXCEPT !.pc = "activate", !.found = t.row.checkout])
           ELSE Finish(w)
      /\ UNCHANGED <<agency, agencySetBy, row, recorded, applied, remote, sent, now>>

RowAfterReconciliation(t, current) ==
  [current EXCEPT !.status = "ACTIVE",
                  !.subscription = t.found, !.customer = CustomerOf[t.found],
                  !.activatedAt = IF t.row.activatedAt = NoDate
                                  THEN t.at ELSE t.row.activatedAt,
                  !.canceledAt = NoDate]

ReconcileActivate(w) ==
  LET t == task[w]
  IN  /\ t.pc = "activate"
      /\ ~SubscriptionTaken(t.id, t.found)
      /\ row' = [row EXCEPT ![t.id] = RowAfterReconciliation(t, @)]
      /\ SetAgency(TRUE, "billing")
      /\ IF t.login THEN Continue(w, [Idle EXCEPT !.pc = "ensure", !.at = now]) ELSE Finish(w)
      /\ UNCHANGED <<recorded, applied, remote, sent, now>>

\* A login that reconciled checks the access once more.
LoginEnsureAgain(w) ==
  /\ task[w].pc = "ensure"
  /\ \/ BeginExpiry(w, FALSE)
     \/ EndedSubscription = {} /\ Finish(w)
  /\ UNCHANGED <<agency, agencySetBy, row, recorded, applied, remote, sent, now>>

-----------------------------------------------------------------------------
(* createAgencySignup with a renewal token: create a checkout at Asaas,     *)
(* then, in one transaction, close the agency, cancel what is pending and   *)
(* insert the new row.                                                     *)

CheckoutRow(i, expiresAt, months) ==
  [NoRow EXCEPT !.status = "CHECKOUT_CREATED", !.checkout = i,
                !.checkoutExpiresAt = expiresAt, !.commitmentMonths = months]

UnusedCheckouts == {i \in Checkouts : remote[i].checkout = "none"}

createRecurringCheckout(w, months) ==
  /\ May(w, "renew") /\ agency = "inactive"
  /\ \E i \in UnusedCheckouts :
       /\ \A o \in UnusedCheckouts : i <= o
       /\ remote' = [remote EXCEPT ![i] =
                       [@ EXCEPT !.checkout = "open", !.expiresAt = now + CheckoutTtl]]
       /\ Emit(Report(i, {"CHECKOUT_CREATED"}, 0))
       /\ Continue(w, [Idle EXCEPT !.pc = "renew", !.id = i,
                         !.row = CheckoutRow(i, now + CheckoutTtl, months), !.at = now])
  /\ UNCHANGED <<agency, agencySetBy, row, recorded, applied, now>>

SupersededStatus == {"PENDING", "CHECKOUT_CREATED", "CHECKOUT_EXPIRED", "PAST_DUE"}

RowAfterSupersession(r) ==
  IF r.status \in SupersededStatus
    THEN [r EXCEPT !.status = "CANCELED", !.canceledAt = now] ELSE r

RenewalCommit(w) ==
  LET t == task[w]
      createdAt == Cardinality(Rows) + 1
  IN  /\ t.pc = "renew"
      /\ ~CheckoutTaken(t.id, t.row.checkout)
      /\ row' = [r \in RowIds |-> IF r = t.id
                                  THEN [t.row EXCEPT !.createdAt = createdAt]
                                  ELSE RowAfterSupersession(row[r])]
      /\ SetAgency(FALSE, "billing")
      /\ Finish(w)
      /\ UNCHANGED <<recorded, applied, remote, sent, now>>

-----------------------------------------------------------------------------
(* cancelAgencySubscription: stop the recurring charge at Asaas, then mark  *)
(* the row; its access ends with the running cycle.                        *)

\* resolveRemoteAsaasSubscription: the id on the row, or else the active
\* subscription of its checkout.
resolveRemoteAsaasSubscription(r) ==
  IF row[r].subscription # NoId THEN {row[r].subscription}
  ELSE {i \in {row[r].checkout} \cap Checkouts : remote[i].subscription = "active"}

cancelAgencySubscription(w) ==
  /\ May(w, "cancel") /\ agency = "active" /\ EndedSubscription = {}
  /\ \E r \in LatestActivated({o \in ActiveRows : row[o].activatedAt # NoDate}) :
       /\ row[r].canceledAt = NoDate
       /\ \E i \in resolveRemoteAsaasSubscription(r) :
            Continue(w, [Idle EXCEPT !.pc = "delete", !.id = r, !.row = row[r],
                                     !.found = i, !.at = now])
  /\ UNCHANGED <<agency, agencySetBy, row, recorded, applied, remote, sent, now>>

DeletionEvents == {"SUBSCRIPTION_DELETED", "PAYMENT_DELETED"}

\* DELETE of the Asaas subscription; a 404 is as good as success.
cancelSubscription(w) ==
  LET i == task[w].found
  IN  /\ task[w].pc = "delete"
      /\ IF remote[i].subscription = "active"
         THEN /\ remote' = [remote EXCEPT ![i].subscription = "deleted"]
              /\ Emit(Report(i, DeletionEvents, 0))
         ELSE UNCHANGED <<remote, sent>>
      /\ Continue(w, [task[w] EXCEPT !.pc = "cancel"])
      /\ UNCHANGED <<agency, agencySetBy, row, recorded, applied, now>>

CancelCommit(w) ==
  LET t == task[w]
      customer == IF t.row.subscription = NoId THEN CustomerOf[t.found] ELSE t.row.customer
  IN  /\ t.pc = "cancel"
      /\ ~SubscriptionTaken(t.id, t.found)
      /\ row' = [row EXCEPT ![t.id] =
                   [@ EXCEPT !.subscription = t.found, !.customer = customer,
                             !.canceledAt = t.at]]
      /\ Finish(w)
      /\ UNCHANGED <<agency, agencySetBy, recorded, applied, remote, sent, now>>

-----------------------------------------------------------------------------
(* Failures: a process crashes, a transaction or a call to Asaas fails. The *)
(* handler is gone, what it committed before stays.                        *)

Abort(w) ==
  /\ MayFail /\ task[w].pc # "idle"
  /\ Finish(w)
  /\ UNCHANGED <<agency, agencySetBy, row, recorded, applied, remote, sent, now>>

\* The transaction of a handler violates a unique column.
UniqueViolation(w) ==
  LET t == task[w]
  IN  /\ \/ t.pc = "apply" /\ SubscriptionTaken(t.id, resolvedProviderSubscriptionId(t))
         \/ t.pc = "apply" /\ CheckoutTaken(t.id, resolvedProviderCheckoutId(t))
         \/ t.pc = "renew" /\ CheckoutTaken(t.id, t.row.checkout)
         \/ t.pc \in {"activate", "cancel"} /\ SubscriptionTaken(t.id, t.found)
      /\ Finish(w)
      /\ UNCHANGED <<agency, agencySetBy, row, recorded, applied, remote, sent, now>>

-----------------------------------------------------------------------------
(* Asaas (external): what the code relies on - a checkout is paid once or   *)
(* closes, a paid checkout becomes a monthly subscription that invoices    *)
(* until it is deleted, and each of these is reported by events.           *)

SettlementEvents == {"PAYMENT_AUTHORIZED", "PAYMENT_CONFIRMED", "PAYMENT_RECEIVED"}

\* The link reaches the customer in the answer to the committed renewal.
PayCheckout(i) ==
  /\ remote[i].checkout = "open" /\ i \in Rows /\ MaxCycles > 0
  /\ remote' = [remote EXCEPT ![i] =
                  [@ EXCEPT !.checkout = "paid", !.subscription = "active",
                            !.startedAt = now, !.invoiced = 1, !.paid = 1]]
  /\ Emit(Report(i, {"CHECKOUT_PAID"}, 0)
          \cup Report(i, SettlementEvents \cup {"PAYMENT_CREATED"}, 1))

CloseCheckout(i, name) ==
  /\ remote[i].checkout = "open"
  /\ name = "CHECKOUT_EXPIRED" => remote[i].expiresAt <= now
  /\ remote' = [remote EXCEPT ![i].checkout = "closed"]
  /\ Emit(Report(i, {name}, 0))

IssueInvoice(i) ==
  LET next == remote[i].invoiced + 1
  IN  /\ remote[i].subscription = "active" /\ next <= MaxCycles
      /\ remote' = [remote EXCEPT ![i].invoiced = next]
      /\ Emit(Report(i, {"PAYMENT_CREATED", "PAYMENT_UPDATED"}, next))

\* The due date of the invoice that follows the paid ones.
DueDate(i) == addMonths(remote[i].startedAt, remote[i].paid)

SettleInvoice(i) ==
  /\ remote[i].paid < remote[i].invoiced /\ DueDate(i) <= now
  /\ remote' = [remote EXCEPT ![i].paid = @ + 1]
  /\ Emit(Report(i, SettlementEvents, remote[i].paid + 1))

InvoiceOverdue(i) ==
  /\ remote[i].paid < remote[i].invoiced /\ DueDate(i) < now
  /\ Emit(Report(i, {"PAYMENT_OVERDUE"}, remote[i].paid + 1))
  /\ UNCHANGED remote

RefundPayment(i) ==
  /\ remote[i].paid > 0 /\ ~remote[i].refunded
  /\ remote' = [remote EXCEPT ![i].refunded = TRUE]
  /\ Emit(Report(i, {"PAYMENT_REFUNDED"}, remote[i].paid))

DeleteSubscription(i) ==
  /\ remote[i].subscription = "active"
  /\ remote' = [remote EXCEPT ![i].subscription = "deleted"]
  /\ Emit(Report(i, DeletionEvents, 0))

Asaas ==
  /\ \E i \in Checkouts :
       \/ PayCheckout(i)
       \/ \E name \in {"CHECKOUT_EXPIRED", "CHECKOUT_CANCELED"} : CloseCheckout(i, name)
       \/ IssueInvoice(i)
       \/ SettleInvoice(i)
       \/ InvoiceOverdue(i)
       \/ RefundPayment(i)
       \/ DeleteSubscription(i)
  /\ UNCHANGED <<agency, agencySetBy, row, recorded, applied, task, now>>

\* A tick is days long and a handler, whose calls time out after seconds, is
\* not: one begun in this tick may end in the next, never later.
Tick ==
  /\ now < MaxTime
  /\ \A w \in Workers : task[w].pc # "idle" => task[w].at = now
  /\ now' = now + 1
  /\ UNCHANGED <<agency, agencySetBy, row, recorded, applied, task, remote, sent>>

-----------------------------------------------------------------------------

\* A new request, event or run of the sweep reaches an idle worker.
Start(w) ==
  \/ \E active \in BOOLEAN : updateAgencyStatus(w, active)
  \/ \E e \in sent : WebhookReceive(w, e) \/ WebhookDuplicate(w, e)
  \/ RequestAccess(w)
  \/ deactivateExpiredSubscriptions(w)
  \/ Login(w)
  \/ \E i \in Checkouts : getSignupSession(w, i)
  \/ \E months \in CommitmentOptions : createRecurringCheckout(w, months)
  \/ cancelAgencySubscription(w)

\* A handler in flight takes its next step.
Proceed(w) ==
  \/ recoverRemoteSubscriptionForEvent(w)
  \/ WebhookApply(w)
  \/ cancelExpiredSubscriptions(w)
  \/ ReconcileRead(w)
  \/ ReconcileLookup(w)
  \/ ReconcileActivate(w)
  \/ LoginEnsureAgain(w)
  \/ RenewalCommit(w)
  \/ cancelSubscription(w)
  \/ CancelCommit(w)
  \/ UniqueViolation(w)

Next ==
  \/ \E months \in CommitmentOptions : createAgencySignup(months)
  \/ createAgency
  \/ \E w \in Workers : Start(w) \/ Proceed(w) \/ Abort(w)
  \/ Asaas
  \/ Tick

Spec == Init /\ [][Next]_vars

(***************************************************************************)
(* Fairness. Node runs a handler it has begun to its end; Asaas repeats an *)
(* event until it is answered; the scheduler runs the sweep periodically.  *)
(***************************************************************************)
Fairness ==
  \A w \in Workers :
    /\ WF_vars(Proceed(w))
    /\ WF_vars(\E e \in sent : WebhookReceive(w, e))
    /\ WF_vars(deactivateExpiredSubscriptions(w))

FairSpec == Spec /\ Fairness
=============================================================================
