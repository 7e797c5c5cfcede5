-------------------------- MODULE BillingProperties --------------------------
(***************************************************************************)
(* What the billing subsystem promises.                                    *)
(***************************************************************************)
EXTENDS Billing

\* Every table, every handler in flight and every record of Asaas has its type.
TypeOK ==
  /\ agency \in {"absent", "active", "inactive"}
  /\ agencySetBy \in {"billing", "superadmin"}
  /\ row \in [RowIds -> Row]
  /\ sent \subseteq Event
  /\ recorded \subseteq sent
  /\ applied \subseteq recorded
  /\ task \in [Workers -> Task]
  /\ remote \in [Checkouts -> Remote]
  /\ now \in 0..MaxTime

\* What a handler in flight carries fits the step it is about to take.
Fits(t, known) ==
  /\ t.pc \in {"recover", "apply"} => t.event \in known
  /\ t.pc = "reconcile" => t.login \/ t.id \in Checkouts
  /\ t.pc \in {"lookup", "renew"} => t.row.checkout \in Checkouts
  /\ t.pc \in {"activate", "delete", "cancel"} => t.found \in Checkouts
  /\ t.pc = "renew" => t.id \in Checkouts /\ t.row.status = "CHECKOUT_CREATED"
HandlersFit == \A w \in Workers : Fits(task[w], recorded)

-----------------------------------------------------------------------------
(* State properties. *)

\* An ACTIVE row has an activation date. Without one the access check would
\* return the agency's flag and never end the access, and the sweep would not
\* see the row.
ActiveIsDated ==
  \A r \in RowIds : row[r].status = "ACTIVE" => row[r].activatedAt # NoDate

\* A CANCELED row says when, whichever of the four writers canceled it.
CanceledIsDated ==
  \A r \in RowIds : row[r].status = "CANCELED" => row[r].canceledAt # NoDate

\* An agency that billing left active has an ACTIVE subscription: none of the
\* interleaved writers may keep the flag and take the row.
AccessHasActiveRow ==
  agency = "active" /\ agencySetBy = "billing" => ActiveRows # {}

\* When the access check lets a request through, and not on the word of the
\* superadmin, some ACTIVE row still has access left: there is always an end.
GrantIsBounded ==
  agency = "active" /\ agencySetBy = "billing" /\ EndedSubscription = {}
    => \E r \in ActiveRows : now < getSubscriptionAccessEndsAt(row[r])

\* A webhook event is applied at most once: the events in flight are distinct
\* and none of them has been applied, whatever is redelivered.
EventsInFlight(w) == {e \in {task[w].event} : e # NoEvent}
AppliedAtMostOnce ==
  \A v \in Workers :
    /\ EventsInFlight(v) \subseteq recorded \ applied
    /\ \A w \in Workers \ {v} : EventsInFlight(v) \cap EventsInFlight(w) = {}

\* A subscription that was ever activated belongs to a customer who paid for a
\* checkout: for this one, or for another one of the same customer, whose events
\* the fallback to the newest row filed here. No event, reconciliation or mix of
\* both gives access before payment.
PaidBeforeActivated ==
  \A r \in Checkouts : row[r].activatedAt # NoDate =>
    \E i \in Checkouts : CustomerOf[i] = CustomerOf[r] /\ remote[i].checkout = "paid"

\* An event about checkout i was filed under another row of its customer, for
\* no row named the checkout or the subscription yet.
CreditedElsewhere(i) ==
  /\ row[i].subscription # i
  /\ \E e \in applied : e.checkout = i /\ NamesCustomer(e)

\* Once every event about a paid checkout has been received and no handler is
\* in flight, its subscription has been activated: no order of the events
\* loses the payment, except by the fallback to the customer's newest row.
NoPaymentLost ==
  \A i \in Checkouts :
    /\ remote[i].checkout = "paid"
    /\ {e \in sent : e.checkout = i} \subseteq recorded
    /\ \A w \in Workers : task[w].pc = "idle"
    => row[i].activatedAt # NoDate \/ CreditedElsewhere(i)

\* Access that survives a cancellation lasts less than one more cycle, counted
\* from the cancellation or, if later, from the activation.
CanceledAccessEndsWithCycle ==
  agency = "active" /\ agencySetBy = "billing" /\ EndedSubscription = {}
    => \E r \in LatestActivated(ActiveRows) :
         \/ row[r].canceledAt = NoDate
         \/ now < addMonths(row[r].canceledAt, BillingCycleMonths)
         \/ now < addMonths(row[r].activatedAt, BillingCycleMonths)

-----------------------------------------------------------------------------
(* Step properties. *)

\* An activation is undone - its date gone or moved, or its row back at an unpaid
\* checkout - only by a webhook or a reconciliation that waited for Asaas while the
\* date it had read was overtaken: no order of events does it, nor sweep, renewal
\* or cancellation with what they read earlier.
StaysActivated(r) == /\ row'[r].activatedAt = row[r].activatedAt
                     /\ row'[r].status \notin {"CHECKOUT_CREATED", "CHECKOUT_EXPIRED"}
ReadIsStale(w, r) ==
  /\ task[w].pc \in {"apply", "activate"} /\ task[w].id = r
  /\ task[w].row.activatedAt # row[r].activatedAt
ActivationUndoneOnlyByStaleRead ==
  [][\A r \in RowIds :
       row[r].activatedAt # NoDate
         => StaysActivated(r) \/ \E w \in Workers : ReadIsStale(w, r)]_row

\* A cancellation is taken back by the reconciliation of a paid checkout, or by a
\* webhook that read the row before it was canceled, and by nothing else.
TakesCancellationBack(w, r) ==
  /\ task[w].id = r
  /\ \/ task[w].pc = "activate"
     \/ task[w].pc = "apply" /\ task[w].row.canceledAt = NoDate
CancellationUndoneOnlyByStaleRead ==
  [][\A r \in RowIds :
       row[r].canceledAt # NoDate /\ row'[r].canceledAt = NoDate
         => \E w \in Workers : TakesCancellationBack(w, r)]_row

\* A handler that had read an ACTIVE row at its end takes it.
Expires(w, r) ==
  /\ task[w].pc = "expire" /\ task[w].id = r /\ task'[w] # task[w]
  /\ row[r].status = "ACTIVE" /\ row'[r].status = "CANCELED"

\* The sweep and the access check cancel a trial when it is over and a paid
\* subscription after at least one whole cycle of access, also when events, a
\* cancellation or a reconciliation wrote the row since they had read it - unless
\* it was activated anew in between (ActivationUndoneOnlyByStaleRead says how).
FirstCycleIsServed ==
  [][\A w \in Workers, r \in RowIds :
       Expires(w, r) /\ row[r].activatedAt = task[w].row.activatedAt
         => IF r = TrialRow
            THEN row[r].trialEndsAt <= now
            ELSE addMonths(row[r].activatedAt, BillingCycleMonths) <= now]_vars

\* The agency's only checkout, whose subscription Asaas still has and whose money
\* it has not given back.
OnlyCheckout(i) == \A o \in Checkouts \ {i} : remote[o].checkout = "none"
Undisturbed(i) ==
  OnlyCheckout(i) /\ remote[i].subscription = "active" /\ ~remote[i].refunded

\* The expiry of an undisturbed subscription comes at the end of its whole
\* commitment, not before: overdue invoices, invoices beyond the commitment, late
\* events and the switch of the superadmin do not end it within a commitment. A
\* reconciliation counts from the moment it looked, up to a tick early.
CommitmentIsServed ==
  [][\A w \in Workers, i \in Checkouts :
       Expires(w, i) /\ Undisturbed(i)
         => addMonths(remote[i].startedAt, row[i].commitmentMonths) <= now + 1]_vars

\* What an event about an invoice opens is paid for: "a assinatura paga e liberada
\* ou renovada depois da confirmacao do pagamento" (legalDocuments.ts:392).
InvoiceOpensWhenPaid ==
  [][agency = "inactive" /\ agency' = "active"
       => \A e \in applied' \ applied : e.cycle <= remote[e.checkout].paid]_vars

-----------------------------------------------------------------------------
(* Liveness. *)

\* Access that has reached its end is taken away, or renewed by a payment: the
\* sweep needs no request of the agency to do it.
AccessIsOver == agency = "active" /\ EndedSubscription # {}
AccessIsCurrent == ActiveRows # {} /\ EndedSubscription = {}
EndedAccessIsRevoked ==
  AccessIsOver ~> (agency = "inactive" \/ AccessIsCurrent)

\* A paid checkout is activated by its webhook alone, unless the fallback to the
\* customer's newest row has filed one of its payments elsewhere.
PaidCheckoutIsActivated ==
  \A i \in Checkouts :
    remote[i].checkout = "paid"
      ~> (row[i].activatedAt # NoDate \/ CreditedElsewhere(i))

\* A subscription that Asaas has ended, by the customer's own cancellation whose
\* last update failed or in its panel, is marked in the end by the report of the
\* deletion alone, unless the fallback files an event of it elsewhere.
DeletionIsReported(i) ==
  /\ remote[i].subscription = "deleted" /\ row[i].subscription = i
  /\ \E e \in sent \ recorded : e.checkout = i /\ e.name = "PAYMENT_DELETED"
DeletionIsMarked ==
  \A i \in Checkouts :
    DeletionIsReported(i) ~> (row[i].canceledAt # NoDate \/ CreditedElsewhere(i))
=============================================================================
