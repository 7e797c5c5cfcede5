---------------------------- MODULE BillingProofs ----------------------------
(***************************************************************************)
(* The invariants of Billing that hold for every number of workers, every  *)
(* set of checkouts, every plan and every assignment of customers, with    *)
(* handlers that run side by side and may be cut short.                    *)
(***************************************************************************)
EXTENDS BillingProperties, FiniteSetTheorems, WellFoundedInduction, TLAPS

USE DEF NoDate, Dates, NoId, TrialRow, RowIds

-----------------------------------------------------------------------------
(* The constants, and the operators on rows. *)

LEMMA ConstantTypes ==
  /\ MonthLength \in Nat /\ TrialPeriod \in Nat /\ CheckoutTtl \in Nat
  /\ MaxTime \in Nat /\ MaxCycles \in Nat
  /\ Checkouts \subseteq Nat /\ 0 \notin Checkouts
  /\ \A i \in Checkouts : CustomerOf[i] \in Nat
  /\ \A months \in CommitmentOptions : months \in Nat \ {0}
  BY MonthLengthAssumption, PeriodAssumption, CheckoutsAssumption,
     CustomerAssumption, CommitmentAssumption

LEMMA NoRowType == NoRow \in Row
  BY DEF NoRow, Row

LEMMA NoEventIsNone == NoEvent \notin Event
  BY DEF NoEvent, Event, EventNames, CheckoutEvents, PaymentEvents, SubscriptionEvents,
         UnmappedEvents

LEMMA IdleType == Idle \in Task
  BY NoRowType DEF Idle, Task, Steps

\* A finite table of rows has a number of rows.
LEMMA CountType == Cardinality(Rows) \in Nat
<1>1. IsFiniteSet(RowIds)
  BY CheckoutsAssumption, FS_AddElement
<1>2. Rows \in SUBSET RowIds
  BY DEF Rows
<1>3. IsFiniteSet(Rows)
  BY <1>1, <1>2, FS_Subset
<1> QED BY <1>3, FS_CardinalityType

LEMMA StatusTypes ==
  \A status, activatedAt, event :
    nextStatus(status, activatedAt, event) \in SubscriptionStatus
  BY DEF nextStatus, mapAsaasEventToStatus, SubscriptionStatus

LEMMA RowAfterEventType ==
  ASSUME TypeOK, NEW t \in Task, NEW current \in Row, t.event \in Event
  PROVE  RowAfterEvent(t, current) \in Row
<1>1. t.row \in Row /\ t.found \in Checkouts \cup {NoId} /\ t.at \in Nat
  BY DEF Task
<1>2. now \in Nat
  BY ConstantTypes DEF TypeOK
<1> DEFINE e == t.event.name
           status == nextStatus(t.row.status, t.row.activatedAt, e)
           canceled == nextCanceledAt(t.row.activatedAt, t.row.canceledAt, e, now)
           expires == IF e = "CHECKOUT_CREATED"
                         /\ ~PreservesActiveAccess(t.row.status, t.row.activatedAt, e)
                      THEN t.at + CheckoutTtl
                      ELSE IF t.row.checkoutExpiresAt = NoDate
                           THEN current.checkoutExpiresAt
                           ELSE t.row.checkoutExpiresAt
<1>3. status \in SubscriptionStatus
  BY StatusTypes
<1>4. ActivationDate(t, status) \in Dates
  BY <1>1, <1>2 DEF ActivationDate, Row
<1>5. canceled \in Dates
  BY <1>1, <1>2 DEF nextCanceledAt, Row
<1>6. expires \in Dates
  BY <1>1, <1>2, ConstantTypes DEF Row
<1>7. resolvedProviderSubscriptionId(t) \in Checkouts \cup {NoId}
  BY <1>1 DEF resolvedProviderSubscriptionId, Row
<1>8. resolvedProviderCustomerId(t) \in Nat
  <2>1. t.event.checkout \in Checkouts /\ t.row.customer \in Nat
    BY <1>1 DEF Row, Event
  <2> QED BY <1>1, <2>1, ConstantTypes DEF resolvedProviderCustomerId
<1>9. resolvedProviderCheckoutId(t) \in Checkouts \cup {NoId}
  <2>1. t.event.checkout \in Checkouts /\ t.row.checkout \in Checkouts \cup {NoId}
    BY <1>1 DEF Row, Event
  <2> QED BY <2>1 DEF resolvedProviderCheckoutId
<1>10. RowAfterEvent(t, current) =
        [current EXCEPT !.status = status, !.activatedAt = ActivationDate(t, status),
                        !.canceledAt = canceled, !.checkoutExpiresAt = expires,
                        !.checkout = resolvedProviderCheckoutId(t),
                        !.subscription = resolvedProviderSubscriptionId(t),
                        !.customer = resolvedProviderCustomerId(t)]
  BY DEF RowAfterEvent
<1> HIDE DEF e, status, canceled, expires
<1> QED BY <1>3, <1>4, <1>5, <1>6, <1>7, <1>8, <1>9, <1>10, ZenonT(30) DEF Row

-----------------------------------------------------------------------------
(* Type correctness. The strengthening says what a handler has in hand.     *)

Sound == TypeOK /\ HandlersFit

\* A step of one handler: the others keep what they have.
LEMMA HandlerStep ==
  ASSUME Sound, NEW w \in Workers, NEW t \in Task, Continue(w, t),
         recorded \subseteq recorded', Fits(t, recorded')
  PROVE  /\ task' \in [Workers -> Task]
         /\ HandlersFit'
<1>1. task' \in [Workers -> Task]
  BY DEF Sound, TypeOK, Continue
<1>2. ASSUME NEW v \in Workers PROVE Fits(task'[v], recorded')
  <2>1. CASE v = w
    BY <2>1 DEF Continue, Sound, TypeOK
  <2>2. CASE v # w
    BY <2>2 DEF Continue, Sound, TypeOK, HandlersFit, Fits
  <2> QED BY <2>1, <2>2
<1> QED BY <1>1, <1>2 DEF HandlersFit

LEMMA FinishStep ==
  ASSUME Sound, NEW w \in Workers, Finish(w), UNCHANGED recorded
  PROVE  /\ task' \in [Workers -> Task]
         /\ HandlersFit'
<1>1. Fits(Idle, recorded)
  BY DEF Fits, Idle
<1> QED BY <1>1, IdleType, HandlerStep DEF Finish

\* Steps that touch no handler and no table of events.
LEMMA TablesKept ==
  ASSUME Sound, UNCHANGED <<recorded, applied, task, now>>, sent \subseteq sent'
  PROVE  /\ recorded' \subseteq sent' /\ applied' \subseteq recorded'
         /\ task' \in [Workers -> Task] /\ now' \in 0..MaxTime
         /\ HandlersFit'
  BY DEF Sound, TypeOK, HandlersFit, Fits

LEMMA SetAgencyType ==
  ASSUME NEW active, NEW by \in {"billing", "superadmin"}, SetAgency(active, by)
  PROVE  /\ agency' \in {"active", "inactive"}
         /\ agencySetBy' \in {"billing", "superadmin"}
  BY DEF SetAgency

LEMMA InitSound == Init => Sound
<1> SUFFICES ASSUME Init PROVE Sound
  OBVIOUS
<1>1. Fits(Idle, recorded)
  BY DEF Fits, Idle
<1>2. NoRemote \in Remote
  BY ConstantTypes DEF NoRemote, Remote
<1> QED
  BY <1>1, <1>2, NoRowType, IdleType, ConstantTypes
  DEF Init, Sound, TypeOK, HandlersFit

\* The actions that create an agency or switch it by hand.
LEMMA AgencyStepsSound ==
  ASSUME Sound,
         \/ \E months \in CommitmentOptions : createAgencySignup(months)
         \/ createAgency
         \/ \E w \in Workers, active \in BOOLEAN : updateAgencyStatus(w, active)
  PROVE  Sound'
<1>1. ASSUME NEW months \in CommitmentOptions, createAgencySignup(months)
      PROVE  Sound'
  <2>1. TrialRowAt(months) \in Row
    <3>1. now \in Dates /\ now + TrialPeriod \in Dates /\ months \in Nat \ {0}
      BY ConstantTypes DEF Sound, TypeOK
    <3> QED BY <3>1, NoRowType DEF TrialRowAt, Row, SubscriptionStatus
  <2>2. row' \in [RowIds -> Row]
    BY <1>1, <2>1 DEF createAgencySignup, Sound, TypeOK
  <2> QED
    BY <1>1, <2>2, SetAgencyType, TablesKept DEF createAgencySignup, Sound, TypeOK
<1>2. ASSUME createAgency PROVE Sound'
  BY <1>2, SetAgencyType, TablesKept DEF createAgency, Sound, TypeOK
<1>3. ASSUME NEW w \in Workers, NEW active \in BOOLEAN, updateAgencyStatus(w, active)
      PROVE  Sound'
  BY <1>3, SetAgencyType, TablesKept DEF updateAgencyStatus, Sound, TypeOK
<1> QED BY <1>1, <1>2, <1>3

LEMMA LookupTypes ==
  /\ Rows \subseteq RowIds
  /\ \A e \in Event : findSubscriptionForEvent(e) \subseteq Rows
  /\ EndedSubscription \subseteq RowIds
<1>1. Rows \subseteq RowIds /\ ActiveRows \subseteq RowIds
  BY DEF Rows, ActiveRows
<1>2. \A S : Newest(S) \subseteq S
  BY DEF Newest
<1>3. \A S : LatestActivated(S) \subseteq S
  BY <1>2 DEF LatestActivated
<1> QED
  BY <1>1, <1>2, <1>3 DEF findSubscriptionForEvent, EndedSubscription

LEMMA WebhookStepsSound ==
  ASSUME Sound, NEW w \in Workers,
         \/ \E e \in sent : WebhookReceive(w, e) \/ WebhookDuplicate(w, e)
         \/ recoverRemoteSubscriptionForEvent(w)
         \/ WebhookApply(w)
  PROVE  Sound'
<1>1. ASSUME NEW e \in sent, WebhookReceive(w, e) PROVE Sound'
  <2>1. e \in Event /\ recorded' = recorded \cup {e} /\ e.checkout \in Checkouts
    BY <1>1 DEF WebhookReceive, InsertWebhookEvent, Sound, TypeOK, Event
  <2>2. recorded' \subseteq sent' /\ applied' \subseteq recorded'
    BY <1>1, <2>1 DEF WebhookReceive, Sound, TypeOK
  <2>3. task' \in [Workers -> Task] /\ HandlersFit'
    <3>1. CASE UNCHANGED task
      BY <2>1, <3>1 DEF Sound, TypeOK, HandlersFit, Fits
    <3>2. ASSUME NEW pc \in {"apply", "recover"}, NEW r \in RowIds,
                 NEW found \in Checkouts \cup {NoId},
                 Continue(w, [Idle EXCEPT !.pc = pc, !.id = r, !.row = row[r],
                                          !.event = e, !.found = found, !.at = now])
          PROVE  task' \in [Workers -> Task] /\ HandlersFit'
      <4> DEFINE t == [Idle EXCEPT !.pc = pc, !.id = r, !.row = row[r],
                                   !.event = e, !.found = found, !.at = now]
      <4>1. row[r] \in Row /\ now \in Nat
        BY ConstantTypes DEF Sound, TypeOK
      <4>2. t \in Task /\ t.pc = pc /\ t.event = e
        BY <2>1, <4>1, IdleType DEF Task, Steps
      <4>3. Fits(t, recorded')
        BY <2>1, <4>2 DEF Fits
      <4> QED BY <2>1, <3>2, <4>2, <4>3, HandlerStep
    <3> QED
      BY <1>1, <2>1, <3>1, <3>2, LookupTypes DEF WebhookReceive
  <2> QED
    BY <1>1, <2>2, <2>3 DEF WebhookReceive, Sound, TypeOK
<1>2. ASSUME NEW e \in sent, WebhookDuplicate(w, e) PROVE Sound'
  BY <1>2, TablesKept DEF WebhookDuplicate, vars, Sound, TypeOK
<1>3. ASSUME recoverRemoteSubscriptionForEvent(w) PROVE Sound'
  <2> DEFINE t(found) == [task[w] EXCEPT !.pc = "apply", !.found = found]
  <2>1. task[w] \in Task /\ task[w].event \in recorded /\ recorded \subseteq Event
    BY <1>3 DEF recoverRemoteSubscriptionForEvent, Sound, TypeOK, HandlersFit, Fits
  <2>2. PICK found \in Checkouts \cup {NoId} : Continue(w, t(found))
    BY <1>3, <2>1 DEF recoverRemoteSubscriptionForEvent, Event
  <2>3. t(found) \in Task /\ t(found).pc = "apply" /\ t(found).event = task[w].event
    BY <2>1 DEF Task, Steps
  <2>4. Fits(t(found), recorded)
    BY <2>1, <2>3 DEF Fits
  <2>5. task' \in [Workers -> Task] /\ HandlersFit'
    BY <1>3, <2>2, <2>3, <2>4, HandlerStep DEF recoverRemoteSubscriptionForEvent
  <2> QED
    BY <1>3, <2>5 DEF recoverRemoteSubscriptionForEvent, Sound, TypeOK
<1>4. ASSUME WebhookApply(w) PROVE Sound'
  <2>1. task[w] \in Task /\ task[w].event \in recorded /\ recorded \subseteq Event
    BY <1>4 DEF WebhookApply, Sound, TypeOK, HandlersFit, Fits
  <2>2. task[w].id \in RowIds
    BY <2>1 DEF Task
  <2>3. RowAfterEvent(task[w], row[task[w].id]) \in Row
    BY <2>1, <2>2, RowAfterEventType DEF Sound, TypeOK
  <2>4. row' \in [RowIds -> Row]
    BY <1>4, <2>2, <2>3 DEF WebhookApply, Sound, TypeOK
  <2>5. task' \in [Workers -> Task] /\ HandlersFit'
    BY <1>4, FinishStep DEF WebhookApply
  <2> QED
    BY <1>4, <2>1, <2>4, <2>5, SetAgencyType DEF WebhookApply, Sound, TypeOK
<1> QED BY <1>1, <1>2, <1>3, <1>4

LEMMA BeginExpirySound ==
  ASSUME Sound, NEW w \in Workers, NEW login \in BOOLEAN, BeginExpiry(w, login),
         UNCHANGED recorded
  PROVE  task' \in [Workers -> Task] /\ HandlersFit'
<1>1. PICK r \in RowIds :
        Continue(w, [Idle EXCEPT !.pc = "expire", !.id = r, !.row = row[r],
                                 !.at = now, !.login = login])
  BY LookupTypes DEF BeginExpiry
<1> DEFINE t == [Idle EXCEPT !.pc = "expire", !.id = r, !.row = row[r],
                             !.at = now, !.login = login]
<1>2. now \in Nat /\ row[r] \in Row
  BY ConstantTypes DEF Sound, TypeOK
<1>3. t \in Task /\ t.pc = "expire"
  BY <1>2, IdleType DEF Task, Steps
<1>4. Fits(t, recorded)
  BY <1>3 DEF Fits
<1> QED BY <1>1, <1>3, <1>4, HandlerStep

LEMMA BeginReconciliationSound ==
  ASSUME Sound, NEW w \in Workers, NEW r \in RowIds, NEW login \in BOOLEAN,
         login \/ r \in Checkouts, BeginReconciliation(w, r, login), UNCHANGED recorded
  PROVE  task' \in [Workers -> Task] /\ HandlersFit'
<1> DEFINE t == [Idle EXCEPT !.pc = "reconcile", !.id = r, !.login = login, !.at = now]
<1>1. now \in Nat
  BY ConstantTypes DEF Sound, TypeOK
<1>2. t \in Task /\ t.pc = "reconcile" /\ t.login = login /\ t.id = r
  BY <1>1, IdleType DEF Task, Steps
<1>3. Fits(t, recorded)
  BY <1>2 DEF Fits
<1> QED BY <1>2, <1>3, HandlerStep DEF BeginReconciliation

LEMMA RowAfterExpiryType ==
  ASSUME NEW r \in Row, NEW at \in Nat
  PROVE  RowAfterExpiry(r, at) \in Row
  BY ZenonT(30) DEF RowAfterExpiry, Row, SubscriptionStatus

LEMMA ExpiryStepsSound ==
  ASSUME Sound, NEW w \in Workers,
         \/ RequestAccess(w) \/ deactivateExpiredSubscriptions(w) \/ Login(w)
         \/ LoginEnsureAgain(w) \/ cancelExpiredSubscriptions(w)
  PROVE  Sound'
<1>1. ASSUME RequestAccess(w) \/ deactivateExpiredSubscriptions(w) \/ Login(w)
             \/ LoginEnsureAgain(w)
      PROVE  Sound'
  <2>1. UNCHANGED <<agency, agencySetBy, row, recorded, applied, remote, sent, now>>
    BY <1>1 DEF RequestAccess, deactivateExpiredSubscriptions, Login, LoginEnsureAgain
  <2>2. \/ BeginExpiry(w, TRUE) \/ BeginExpiry(w, FALSE) \/ Finish(w)
        \/ BeginReconciliation(w, TrialRow, TRUE)
    BY <1>1 DEF RequestAccess, deactivateExpiredSubscriptions, Login, LoginEnsureAgain
  <2>3. task' \in [Workers -> Task] /\ HandlersFit'
    BY <2>1, <2>2, FinishStep, BeginExpirySound, BeginReconciliationSound
  <2> QED BY <2>1, <2>3 DEF Sound, TypeOK
<1>2. ASSUME cancelExpiredSubscriptions(w) PROVE Sound'
  <2>1. task[w] \in Task /\ task[w].id \in RowIds /\ task[w].at \in Nat
    BY DEF Sound, TypeOK, Task
  <2>2. RowAfterExpiry(row[task[w].id], task[w].at) \in Row
    BY <2>1, RowAfterExpiryType DEF Sound, TypeOK
  <2>3. row' \in [RowIds -> Row]
    BY <1>2, <2>1, <2>2 DEF cancelExpiredSubscriptions, Sound, TypeOK
  <2>4. agency' \in {"absent", "active", "inactive"}
        /\ agencySetBy' \in {"billing", "superadmin"}
    BY <1>2, SetAgencyType
    DEF cancelExpiredSubscriptions, DeactivateAgency, Sound, TypeOK
  <2>5. task' \in [Workers -> Task] /\ HandlersFit'
    BY <1>2, FinishStep, BeginReconciliationSound DEF cancelExpiredSubscriptions
  <2> QED
    BY <1>2, <2>3, <2>4, <2>5 DEF cancelExpiredSubscriptions, Sound, TypeOK
<1> QED BY <1>1, <1>2

LEMMA ReconciliationStepsSound ==
  ASSUME Sound, NEW w \in Workers,
         \/ \E i \in Checkouts : getSignupSession(w, i)
         \/ ReconcileRead(w) \/ ReconcileLookup(w) \/ ReconcileActivate(w)
  PROVE  Sound'
<1>0. /\ task[w] \in Task /\ Fits(task[w], recorded) /\ now \in Nat
  BY ConstantTypes DEF Sound, TypeOK, HandlersFit
<1>1. ASSUME NEW i \in Checkouts, getSignupSession(w, i) PROVE Sound'
  <2>1. task' \in [Workers -> Task] /\ HandlersFit'
    BY <1>1, BeginReconciliationSound DEF getSignupSession
  <2> QED BY <1>1, <2>1 DEF getSignupSession, Sound, TypeOK
<1>2. ASSUME ReconcileRead(w) PROVE Sound'
  <2> DEFINE t(r) == [task[w] EXCEPT !.pc = "lookup", !.id = r, !.row = row[r], !.at = now]
  <2>1. ReconciliationCandidates(task[w]) \subseteq RowIds
    BY <1>0, <1>2, LookupTypes
    DEF ReconcileRead, ReconciliationCandidates, Newest, Task
  <2>2. \/ Finish(w)
        \/ \E r \in RowIds : row[r].checkout # NoId /\ Continue(w, t(r))
    BY <1>2, <2>1 DEF ReconcileRead, isCheckoutReconciliationEligible
  <2>3. ASSUME NEW r \in RowIds, row[r].checkout # NoId
        PROVE  t(r) \in Task /\ Fits(t(r), recorded)
    <3>1. row[r] \in Row
      BY DEF Sound, TypeOK
    <3>2. row[r].checkout \in Checkouts
      BY <2>3, <3>1 DEF Row
    <3>3. t(r) \in Task /\ t(r).pc = "lookup" /\ t(r).row = row[r]
      BY <1>0, <3>1 DEF Task, Steps
    <3> QED BY <3>2, <3>3 DEF Fits
  <2> HIDE DEF t
  <2>4. task' \in [Workers -> Task] /\ HandlersFit'
    BY <1>2, <2>2, <2>3, FinishStep, HandlerStep DEF ReconcileRead
  <2> QED BY <1>2, <2>4 DEF ReconcileRead, Sound, TypeOK
<1>3. ASSUME ReconcileLookup(w) PROVE Sound'
  <2> DEFINE t == [task[w] EXCEPT !.pc = "activate", !.found = task[w].row.checkout]
  <2>0. task[w].row.checkout \in Checkouts
    BY <1>0, <1>3 DEF ReconcileLookup, Fits
  <2>1. t \in Task /\ t.pc = "activate" /\ t.found = task[w].row.checkout
    BY <1>0, <2>0 DEF Task, Steps
  <2>2. Fits(t, recorded)
    BY <2>0, <2>1 DEF Fits
  <2>3. task' \in [Workers -> Task] /\ HandlersFit'
    BY <1>3, <2>1, <2>2, FinishStep, HandlerStep DEF ReconcileLookup
  <2> QED BY <1>3, <2>3 DEF ReconcileLookup, Sound, TypeOK
<1>4. ASSUME ReconcileActivate(w) PROVE Sound'
  <2>1. /\ task[w].id \in RowIds /\ task[w].found \in Checkouts
        /\ task[w].row \in Row /\ task[w].at \in Nat
    BY <1>0, <1>4 DEF ReconcileActivate, Fits, Task
  <2>2. RowAfterReconciliation(task[w], row[task[w].id]) \in Row
    <3>1. row[task[w].id] \in Row /\ CustomerOf[task[w].found] \in Nat
      BY <2>1, ConstantTypes DEF Sound, TypeOK
    <3> DEFINE activated == IF task[w].row.activatedAt = NoDate
                            THEN task[w].at ELSE task[w].row.activatedAt
    <3>2. activated \in Dates
      BY <2>1 DEF Row
    <3>3. RowAfterReconciliation(task[w], row[task[w].id]) =
            [row[task[w].id] EXCEPT
               !.status = "ACTIVE", !.subscription = task[w].found,
               !.customer = CustomerOf[task[w].found], !.activatedAt = activated,
               !.canceledAt = NoDate]
      BY DEF RowAfterReconciliation
    <3> HIDE DEF activated
    <3> QED BY <2>1, <3>1, <3>2, <3>3 DEF Row, SubscriptionStatus
  <2>3. row' \in [RowIds -> Row]
    BY <1>4, <2>1, <2>2 DEF ReconcileActivate, Sound, TypeOK
  <2>4. task' \in [Workers -> Task] /\ HandlersFit'
    <3> DEFINE t == [Idle EXCEPT !.pc = "ensure", !.at = now]
    <3>1. t \in Task /\ t.pc = "ensure"
      BY <1>0, IdleType DEF Task, Steps
    <3>2. Fits(t, recorded)
      BY <3>1 DEF Fits
    <3> QED BY <1>4, <3>1, <3>2, FinishStep, HandlerStep DEF ReconcileActivate
  <2> QED
    BY <1>4, <2>3, <2>4, SetAgencyType DEF ReconcileActivate, Sound, TypeOK
<1> QED BY <1>1, <1>2, <1>3, <1>4

LEMMA EmitType ==
  ASSUME TypeOK, NEW i \in Checkouts, NEW cycle \in 0..MaxCycles, NEW names,
         names \subseteq EventNames, Emit(Report(i, names, cycle))
  PROVE  sent' \subseteq Event /\ sent \subseteq sent'
  BY DEF Emit, Report, Event, TypeOK

LEMMA RenewalStepsSound ==
  ASSUME Sound, NEW w \in Workers,
         \/ \E months \in CommitmentOptions : createRecurringCheckout(w, months)
         \/ RenewalCommit(w)
  PROVE  Sound'
<1>0. now \in Nat /\ now + CheckoutTtl \in Dates
  BY ConstantTypes DEF Sound, TypeOK
<1>1. ASSUME NEW months \in CommitmentOptions, createRecurringCheckout(w, months)
      PROVE  Sound'
  <2> DEFINE r(i) == CheckoutRow(i, now + CheckoutTtl, months)
             t(i) == [Idle EXCEPT !.pc = "renew", !.id = i, !.row = r(i), !.at = now]
  <2>1. ASSUME NEW i \in Checkouts
        PROVE  r(i) \in Row /\ r(i).status = "CHECKOUT_CREATED" /\ r(i).checkout = i
    <3>1. months \in Nat \ {0}
      BY ConstantTypes
    <3> QED BY <1>0, <3>1, NoRowType DEF CheckoutRow, Row, SubscriptionStatus
  <2> HIDE DEF r
  <2>2. PICK i \in Checkouts :
          /\ remote' = [remote EXCEPT ![i] =
                          [@ EXCEPT !.checkout = "open", !.expiresAt = now + CheckoutTtl]]
          /\ Emit(Report(i, {"CHECKOUT_CREATED"}, 0))
          /\ Continue(w, t(i))
    BY <1>1 DEF createRecurringCheckout, UnusedCheckouts, r
  <2>3. remote' \in [Checkouts -> Remote]
    <3>1. [remote[i] EXCEPT !.checkout = "open", !.expiresAt = now + CheckoutTtl] \in Remote
      BY <1>0 DEF Sound, TypeOK, Remote
    <3> QED BY <2>2, <3>1 DEF Sound, TypeOK
  <2>4. sent' \subseteq Event /\ sent \subseteq sent'
    BY <2>2, EmitType, ConstantTypes DEF EventNames, CheckoutEvents, Sound
  <2>5. t(i) \in Task /\ t(i).pc = "renew" /\ t(i).row = r(i) /\ t(i).id = i
    BY <1>0, <2>1, IdleType DEF Task, Steps
  <2>6. Fits(t(i), recorded)
    BY <2>1, <2>5 DEF Fits
  <2>7. task' \in [Workers -> Task] /\ HandlersFit'
    BY <1>1, <2>2, <2>5, <2>6, HandlerStep DEF createRecurringCheckout
  <2> QED
    BY <1>1, <2>3, <2>4, <2>7 DEF createRecurringCheckout, Sound, TypeOK
<1>2. ASSUME RenewalCommit(w) PROVE Sound'
  <2>1. task[w].row \in Row
    BY DEF Sound, TypeOK, Task
  <2>2. [task[w].row EXCEPT !.createdAt = Cardinality(Rows) + 1] \in Row
    <3>1. Cardinality(Rows) + 1 \in Nat
      BY CountType
    <3> QED BY <2>1, <3>1 DEF Row
  <2>3. \A r \in Row : RowAfterSupersession(r) \in Row
    <3> SUFFICES ASSUME NEW r \in Row PROVE RowAfterSupersession(r) \in Row
      OBVIOUS
    <3>1. "CANCELED" \in SubscriptionStatus \cup {"NONE"}
      BY DEF SubscriptionStatus
    <3>2. [r EXCEPT !.status = "CANCELED", !.canceledAt = now] \in Row
      BY <1>0, <3>1 DEF Row
    <3> QED BY <3>2 DEF RowAfterSupersession
  <2>4. row' \in [RowIds -> Row]
    BY <1>2, <2>2, <2>3 DEF RenewalCommit, Sound, TypeOK
  <2>5. task' \in [Workers -> Task] /\ HandlersFit'
    BY <1>2, FinishStep DEF RenewalCommit
  <2> QED
    BY <1>2, <2>4, <2>5, SetAgencyType DEF RenewalCommit, Sound, TypeOK
<1> QED BY <1>1, <1>2

LEMMA CancellationStepsSound ==
  ASSUME Sound, NEW w \in Workers,
         cancelAgencySubscription(w) \/ cancelSubscription(w) \/ CancelCommit(w)
  PROVE  Sound'
<1>0. /\ task[w] \in Task /\ Fits(task[w], recorded) /\ now \in Nat
  BY ConstantTypes DEF Sound, TypeOK, HandlersFit
<1>1. ASSUME cancelAgencySubscription(w) PROVE Sound'
  <2> DEFINE t(r, i) == [Idle EXCEPT !.pc = "delete", !.id = r, !.row = row[r],
                                     !.found = i, !.at = now]
  <2>1. \A r \in RowIds : row[r] \in Row
    BY DEF Sound, TypeOK
  <2>2. \A r \in RowIds : resolveRemoteAsaasSubscription(r) \subseteq Checkouts
    <3> SUFFICES ASSUME NEW r \in RowIds
                 PROVE  resolveRemoteAsaasSubscription(r) \subseteq Checkouts
      OBVIOUS
    <3>1. row[r].subscription \in Checkouts \cup {NoId}
      BY <2>1 DEF Row
    <3> QED BY <3>1 DEF resolveRemoteAsaasSubscription
  <2>3. PICK r \in RowIds, i \in Checkouts : Continue(w, t(r, i))
    BY <1>1, <2>2 DEF cancelAgencySubscription, LatestActivated, Newest, ActiveRows
  <2>4. t(r, i) \in Task /\ t(r, i).pc = "delete" /\ t(r, i).found = i
    BY <1>0, <2>1, IdleType DEF Task, Steps
  <2>5. Fits(t(r, i), recorded)
    BY <2>4 DEF Fits
  <2>6. task' \in [Workers -> Task] /\ HandlersFit'
    BY <1>1, <2>3, <2>4, <2>5, HandlerStep DEF cancelAgencySubscription
  <2> QED BY <1>1, <2>6 DEF cancelAgencySubscription, Sound, TypeOK
<1>2. ASSUME cancelSubscription(w) PROVE Sound'
  <2> DEFINE t == [task[w] EXCEPT !.pc = "cancel"]
  <2>1. task[w].found \in Checkouts
    BY <1>0, <1>2 DEF cancelSubscription, Fits
  <2>2. /\ remote' \in [Checkouts -> Remote]
        /\ sent' \subseteq Event /\ sent \subseteq sent'
    <3>1. CASE remote[task[w].found].subscription = "active"
      <4>1. remote' \in [Checkouts -> Remote]
        BY <1>2, <2>1, <3>1 DEF cancelSubscription, Sound, TypeOK, Remote
      <4>2. sent' \subseteq Event /\ sent \subseteq sent'
        BY <1>2, <2>1, <3>1, EmitType, ConstantTypes
        DEF cancelSubscription, DeletionEvents, EventNames, PaymentEvents,
            SubscriptionEvents, Sound
      <4> QED BY <4>1, <4>2
    <3>2. CASE remote[task[w].found].subscription # "active"
      BY <1>2, <3>2 DEF cancelSubscription, Sound, TypeOK
    <3> QED BY <3>1, <3>2
  <2>3. t \in Task /\ t.pc = "cancel" /\ t.found = task[w].found
    BY <1>0 DEF Task, Steps
  <2>4. Fits(t, recorded)
    BY <2>1, <2>3 DEF Fits
  <2>5. task' \in [Workers -> Task] /\ HandlersFit'
    BY <1>2, <2>3, <2>4, HandlerStep DEF cancelSubscription
  <2> QED BY <1>2, <2>2, <2>5 DEF cancelSubscription, Sound, TypeOK
<1>3. ASSUME CancelCommit(w) PROVE Sound'
  <2> DEFINE customer == IF task[w].row.subscription = NoId
                         THEN CustomerOf[task[w].found] ELSE task[w].row.customer
  <2>1. task[w].found \in Checkouts /\ task[w].at \in Nat /\ task[w].row \in Row
    BY <1>0, <1>3 DEF CancelCommit, Fits, Task
  <2>2. customer \in Nat
    BY <2>1, ConstantTypes DEF Row
  <2>3. ASSUME NEW r \in RowIds
        PROVE  [row[r] EXCEPT !.subscription = task[w].found, !.customer = customer,
                              !.canceledAt = task[w].at] \in Row
    <3>1. row[r] \in Row
      BY DEF Sound, TypeOK
    <3> HIDE DEF customer
    <3> QED BY <2>1, <2>2, <3>1 DEF Row
  <2>4. row' \in [RowIds -> Row]
    BY <1>3, <2>3 DEF CancelCommit, Sound, TypeOK
  <2>5. task' \in [Workers -> Task] /\ HandlersFit'
    BY <1>3, FinishStep DEF CancelCommit
  <2> QED BY <1>3, <2>4, <2>5 DEF CancelCommit, Sound, TypeOK
<1> QED BY <1>1, <1>2, <1>3

LEMMA FailureStepsSound ==
  ASSUME Sound, NEW w \in Workers, Abort(w) \/ UniqueViolation(w)
  PROVE  Sound'
<1>1. task' \in [Workers -> Task] /\ HandlersFit'
  BY FinishStep DEF Abort, UniqueViolation
<1> QED BY <1>1 DEF Abort, UniqueViolation, Sound, TypeOK

LEMMA AsaasStepsSound == Sound /\ Asaas => Sound'
<1> SUFFICES ASSUME Sound, Asaas PROVE Sound'
  OBVIOUS
<1>1. PICK i \in Checkouts :
        \/ PayCheckout(i)
        \/ \E name \in {"CHECKOUT_EXPIRED", "CHECKOUT_CANCELED"} : CloseCheckout(i, name)
        \/ IssueInvoice(i) \/ SettleInvoice(i) \/ InvoiceOverdue(i)
        \/ RefundPayment(i) \/ DeleteSubscription(i)
  BY DEF Asaas
<1>2. remote[i] \in Remote /\ now \in Nat
  BY ConstantTypes DEF Sound, TypeOK
<1>3. /\ remote' \in [Checkouts -> Remote]
      /\ sent' \subseteq Event /\ sent \subseteq sent'
  <2>1. CASE PayCheckout(i)
    <3>1. 0 \in 0..MaxCycles /\ 1 \in 0..MaxCycles
      BY <2>1, ConstantTypes DEF PayCheckout
    <3>2. remote' \in [Checkouts -> Remote]
      <4>1. [remote[i] EXCEPT !.checkout = "paid", !.subscription = "active",
               !.startedAt = now, !.invoiced = 1, !.paid = 1] \in Remote
        BY <1>2, <3>1 DEF Remote
      <4> QED BY <2>1, <4>1 DEF PayCheckout, Sound, TypeOK
    <3>3. Report(i, {"CHECKOUT_PAID"}, 0)
            \cup Report(i, SettlementEvents \cup {"PAYMENT_CREATED"}, 1) \subseteq Event
      BY <3>1 DEF Report, SettlementEvents, Event, EventNames, CheckoutEvents, PaymentEvents
    <3> QED BY <2>1, <3>2, <3>3 DEF PayCheckout, Emit, Sound, TypeOK
  <2>2. ASSUME NEW name \in {"CHECKOUT_EXPIRED", "CHECKOUT_CANCELED"}, CloseCheckout(i, name)
        PROVE  /\ remote' \in [Checkouts -> Remote]
               /\ sent' \subseteq Event /\ sent \subseteq sent'
    <3>1. remote' \in [Checkouts -> Remote]
      BY <1>2, <2>2 DEF CloseCheckout, Sound, TypeOK, Remote
    <3> QED
      BY <2>2, <3>1, EmitType, ConstantTypes
      DEF CloseCheckout, EventNames, CheckoutEvents, Sound
  <2>3. CASE IssueInvoice(i)
    <3>1. remote[i].invoiced + 1 \in 0..MaxCycles
      BY <1>2, <2>3, ConstantTypes DEF IssueInvoice, Remote
    <3>2. remote' \in [Checkouts -> Remote]
      BY <1>2, <2>3, <3>1 DEF IssueInvoice, Sound, TypeOK, Remote
    <3> QED
      BY <2>3, <3>1, <3>2, EmitType
      DEF IssueInvoice, EventNames, PaymentEvents, UnmappedEvents, Sound
  <2>4. CASE SettleInvoice(i)
    <3>1. remote[i].paid + 1 \in 0..MaxCycles
      BY <1>2, <2>4, ConstantTypes DEF SettleInvoice, Remote
    <3>2. remote' \in [Checkouts -> Remote]
      <4> DEFINE settled == [remote[i] EXCEPT !.paid = remote[i].paid + 1]
      <4>1. settled \in Remote
        BY <1>2, <3>1 DEF Remote
      <4>2. remote' = [remote EXCEPT ![i] = settled]
        BY <2>4 DEF SettleInvoice, Sound, TypeOK
      <4> QED BY <4>1, <4>2 DEF Sound, TypeOK
    <3> QED
      BY <2>4, <3>1, <3>2, EmitType
      DEF SettleInvoice, SettlementEvents, EventNames, PaymentEvents, Sound
  <2>5. CASE InvoiceOverdue(i)
    <3>1. remote[i].paid + 1 \in 0..MaxCycles
      BY <1>2, <2>5, ConstantTypes DEF InvoiceOverdue, Remote
    <3>2. UNCHANGED remote /\ remote \in [Checkouts -> Remote]
      BY <2>5 DEF InvoiceOverdue, Sound, TypeOK
    <3> QED
      BY <2>5, <3>1, <3>2, EmitType DEF InvoiceOverdue, EventNames, PaymentEvents, Sound
  <2>6. CASE RefundPayment(i)
    <3>1. remote' \in [Checkouts -> Remote]
      BY <1>2, <2>6 DEF RefundPayment, Sound, TypeOK, Remote
    <3>2. remote[i].paid \in 0..MaxCycles
      BY <1>2 DEF Remote
    <3> QED
      BY <2>6, <3>1, <3>2, EmitType DEF RefundPayment, EventNames, PaymentEvents, Sound
  <2>7. CASE DeleteSubscription(i)
    <3>1. remote' \in [Checkouts -> Remote]
      BY <1>2, <2>7 DEF DeleteSubscription, Sound, TypeOK, Remote
    <3> QED
      BY <2>7, <3>1, EmitType, ConstantTypes
      DEF DeleteSubscription, DeletionEvents, EventNames, PaymentEvents,
          SubscriptionEvents, Sound
  <2> QED BY <1>1, <2>1, <2>2, <2>3, <2>4, <2>5, <2>6, <2>7
<1>4. UNCHANGED <<agency, agencySetBy, row, recorded, applied, task, now>>
  BY DEF Asaas
<1> QED BY <1>3, <1>4, TablesKept DEF Sound, TypeOK

LEMMA TickSound == Sound /\ Tick => Sound'
  BY ConstantTypes DEF Tick, Sound, TypeOK, HandlersFit, Fits

LEMMA StutterSound == Sound /\ UNCHANGED vars => Sound'
  BY DEF vars, Sound, TypeOK, HandlersFit, Fits

LEMMA SoundStep == Sound /\ [Next]_vars => Sound'
<1> SUFFICES ASSUME Sound, [Next]_vars PROVE Sound'
  OBVIOUS
<1>1. CASE \E months \in CommitmentOptions : createAgencySignup(months)
  BY <1>1, AgencyStepsSound
<1>2. CASE createAgency
  BY <1>2, AgencyStepsSound
<1>3. ASSUME NEW w \in Workers, Start(w) PROVE Sound'
  BY <1>3, AgencyStepsSound, WebhookStepsSound, ExpiryStepsSound,
     ReconciliationStepsSound, RenewalStepsSound, CancellationStepsSound DEF Start
<1>4. ASSUME NEW w \in Workers, Proceed(w) PROVE Sound'
  BY <1>4, WebhookStepsSound, ExpiryStepsSound, ReconciliationStepsSound,
     RenewalStepsSound, CancellationStepsSound, FailureStepsSound DEF Proceed
<1>5. ASSUME NEW w \in Workers, Abort(w) PROVE Sound'
  BY <1>5, FailureStepsSound
<1>6. CASE Asaas
  BY <1>6, AsaasStepsSound
<1>7. CASE Tick
  BY <1>7, TickSound
<1>8. CASE UNCHANGED vars
  BY <1>8, StutterSound
<1> QED BY <1>1, <1>2, <1>3, <1>4, <1>5, <1>6, <1>7, <1>8 DEF Next

LEMMA SpecSound == Spec => []Sound
  BY InitSound, SoundStep, PTL DEF Spec

\* Every table, task and record keeps its type, and an event that a handler
\* works on, or whose transaction committed, is in the table of events.
THEOREM TypeCorrect == Spec => []TypeOK
<1>1. Sound => TypeOK
  BY DEF Sound
<1> QED BY <1>1, SpecSound, PTL

-----------------------------------------------------------------------------
(* Which steps write the rows, and the agency's flag.                      *)

\* A step leaves the rows alone, and then the flag as well unless it is the
\* superadmin's, or it is one of six transactions.
KeepsRows ==
  /\ UNCHANGED row
  /\ UNCHANGED <<agency, agencySetBy>> \/ agencySetBy' = "superadmin"
RowsWritten ==
  \/ KeepsRows
  \/ /\ agency = "absent" /\ agency' # "absent"
     /\ \E months \in CommitmentOptions : row' = [row EXCEPT ![TrialRow] = TrialRowAt(months)]
  \/ \E w \in Workers :
       \/ WebhookApply(w) \/ cancelExpiredSubscriptions(w)
       \/ ReconcileActivate(w) \/ RenewalCommit(w) \/ CancelCommit(w)

LEMMA RowWriters == [Next]_vars => RowsWritten
<1> SUFFICES ASSUME [Next]_vars PROVE RowsWritten
  OBVIOUS
<1>1. CASE \E months \in CommitmentOptions : createAgencySignup(months)
  BY <1>1 DEF createAgencySignup, SetAgency, RowsWritten
<1>2. CASE createAgency
  BY <1>2 DEF createAgency, SetAgency, KeepsRows, RowsWritten
<1>3. ASSUME NEW w \in Workers, Start(w) PROVE KeepsRows
  BY <1>3
  DEF KeepsRows, Start, updateAgencyStatus, SetAgency, WebhookReceive,
      WebhookDuplicate, vars, RequestAccess,
      deactivateExpiredSubscriptions, Login, getSignupSession,
      createRecurringCheckout, cancelAgencySubscription
<1>4. ASSUME NEW w \in Workers, Proceed(w) PROVE RowsWritten
  BY <1>4
  DEF Proceed, recoverRemoteSubscriptionForEvent, ReconcileRead, ReconcileLookup,
      LoginEnsureAgain, cancelSubscription, UniqueViolation, KeepsRows, RowsWritten
<1>5. ASSUME NEW w \in Workers, Abort(w) PROVE KeepsRows
  BY <1>5 DEF Abort, KeepsRows
<1>6. CASE Asaas \/ Tick \/ UNCHANGED vars
  BY <1>6 DEF Asaas, Tick, vars, KeepsRows, RowsWritten
<1> QED BY <1>1, <1>2, <1>3, <1>4, <1>5, <1>6 DEF Next, RowsWritten

-----------------------------------------------------------------------------
(* Dates. Every writer of a status writes the date that goes with it: the   *)
(* invariant is on each row, so a writer is checked on the row it writes.   *)

Dated(r) ==
  /\ r.status = "ACTIVE" => r.activatedAt # NoDate
  /\ r.status = "CANCELED" => r.canceledAt # NoDate
RowsDated == \A r \in RowIds : Dated(row[r])

LEMMA EventDates ==
  ASSUME TypeOK, NEW t \in Task, NEW current \in Row
  PROVE  Dated(RowAfterEvent(t, current))
<1> DEFINE e == t.event.name
           status == nextStatus(t.row.status, t.row.activatedAt, e)
           canceled == nextCanceledAt(t.row.activatedAt, t.row.canceledAt, e, now)
           after == RowAfterEvent(t, current)
<1>1. now # NoDate
  BY ConstantTypes DEF TypeOK
<1>2. /\ after.status = status
      /\ after.activatedAt = ActivationDate(t, status)
      /\ after.canceledAt = canceled
  BY DEF RowAfterEvent, Row
<1>3. status = "ACTIVE" => ActivationDate(t, status) # NoDate
  BY <1>1 DEF ActivationDate
<1>4. status = "CANCELED" => canceled # NoDate
  BY <1>1 DEF nextStatus, KeepsAccess, nextCanceledAt
<1> HIDE DEF after, status, canceled
<1> QED BY <1>2, <1>3, <1>4 DEF Dated, after

LEMMA DatesStep == Sound /\ RowsDated /\ [Next]_vars => RowsDated'
<1> SUFFICES ASSUME Sound, RowsDated, RowsWritten PROVE RowsDated'
  BY RowWriters
<1>0. row \in [RowIds -> Row] /\ now \in Nat
  BY ConstantTypes DEF Sound, TypeOK
<1>1. CASE KeepsRows
  BY <1>1 DEF KeepsRows, RowsDated
<1>2. ASSUME NEW months \in CommitmentOptions,
             row' = [row EXCEPT ![TrialRow] = TrialRowAt(months)]
      PROVE  RowsDated'
  <2>1. Dated(TrialRowAt(months))
    BY <1>0, NoRowType DEF TrialRowAt, Row, Dated
  <2> QED BY <1>0, <1>2, <2>1 DEF RowsDated
<1>3. ASSUME NEW w \in Workers PROVE task[w] \in Task /\ task[w].id \in RowIds
                                    /\ task[w].at \in Nat /\ task[w].row \in Row
  BY DEF Sound, TypeOK, Task
<1>4. ASSUME NEW w \in Workers, WebhookApply(w) PROVE RowsDated'
  <2>1. Dated(RowAfterEvent(task[w], row[task[w].id]))
    BY <1>0, <1>3, EventDates DEF Sound
  <2> QED BY <1>0, <1>3, <1>4, <2>1 DEF WebhookApply, RowsDated
<1>5. ASSUME NEW w \in Workers, cancelExpiredSubscriptions(w) PROVE RowsDated'
  <2>1. Dated(RowAfterExpiry(row[task[w].id], task[w].at))
    BY <1>0, <1>3 DEF RowAfterExpiry, Dated, Row
  <2> QED BY <1>0, <1>3, <1>5, <2>1 DEF cancelExpiredSubscriptions, RowsDated
<1>6. ASSUME NEW w \in Workers, ReconcileActivate(w) PROVE RowsDated'
  <2>1. Dated(RowAfterReconciliation(task[w], row[task[w].id]))
    BY <1>0, <1>3 DEF RowAfterReconciliation, Dated, Row
  <2> QED BY <1>0, <1>3, <1>6, <2>1 DEF ReconcileActivate, RowsDated
<1>7. ASSUME NEW w \in Workers, RenewalCommit(w) PROVE RowsDated'
  <2>1. task[w].row.status = "CHECKOUT_CREATED"
    BY <1>7 DEF RenewalCommit, Sound, HandlersFit, Fits
  <2>2. Dated([task[w].row EXCEPT !.createdAt = Cardinality(Rows) + 1])
    BY <1>3, <2>1 DEF Dated, Row
  <2>3. \A r \in RowIds : Dated(RowAfterSupersession(row[r]))
    BY <1>0 DEF RowAfterSupersession, RowsDated, Dated, Row
  <2> QED BY <1>7, <2>2, <2>3 DEF RenewalCommit, RowsDated
<1>8. ASSUME NEW w \in Workers, CancelCommit(w) PROVE RowsDated'
  <2>1. ASSUME NEW r \in RowIds, NEW customer
        PROVE  Dated([row[r] EXCEPT !.subscription = task[w].found,
                                    !.customer = customer,
                                    !.canceledAt = task[w].at])
    <3>1. row[r] \in Row /\ Dated(row[r]) /\ task[w].at # NoDate
      BY <1>0, <1>3 DEF RowsDated
    <3> QED BY <3>1 DEF Dated, Row
  <2> QED BY <1>0, <1>3, <1>8, <2>1 DEF CancelCommit, RowsDated
<1> QED BY <1>1, <1>2, <1>4, <1>5, <1>6, <1>7, <1>8 DEF RowsWritten

LEMMA SpecDated == Spec => []RowsDated
<1>1. Init => RowsDated
  BY DEF Init, NoRow, RowsDated, Dated
<1> QED BY <1>1, DatesStep, SpecSound, PTL DEF Spec

\* Whatever handlers run side by side, and wherever they are cut short, an
\* ACTIVE row is dated: the access check and the sweep can end its access.
THEOREM ActiveRowsAreDated == Spec => []ActiveIsDated
<1>1. RowsDated => ActiveIsDated
  BY DEF RowsDated, Dated, ActiveIsDated
<1> QED BY <1>1, SpecDated, PTL

\* Whichever of the webhook, the expiry, the renewal and the user canceled a
\* row, the row says when.
THEOREM CanceledRowsAreDated == Spec => []CanceledIsDated
<1>1. RowsDated => CanceledIsDated
  BY DEF RowsDated, Dated, CanceledIsDated
<1> QED BY <1>1, SpecDated, PTL

-----------------------------------------------------------------------------
(* Access. A transaction that opens the agency writes an ACTIVE row, and a  *)
(* transaction that takes an ACTIVE row away closes the agency.            *)

LEMMA EventAgreement ==
  \A status, activatedAt, event :
    nextAgencyActive(status, activatedAt, event)
      => nextStatus(status, activatedAt, event) = "ACTIVE"
  BY DEF nextAgencyActive, nextStatus, mapAsaasEventToStatus, ActivatingEvents

SomeActive == \E r \in RowIds : row[r].status = "ACTIVE"

LEMMA AccessStep == Sound /\ AccessHasActiveRow /\ [Next]_vars => AccessHasActiveRow'
<1> SUFFICES ASSUME Sound, agency = "active" /\ agencySetBy = "billing" => SomeActive,
                    RowsWritten, agency' = "active", agencySetBy' = "billing"
             PROVE  SomeActive'
  BY RowWriters DEF AccessHasActiveRow, ActiveRows, SomeActive
<1>0. row \in [RowIds -> Row]
  BY DEF Sound, TypeOK
<1>1. CASE KeepsRows
  BY <1>1 DEF KeepsRows, SomeActive
<1>2. ASSUME NEW months \in CommitmentOptions,
             row' = [row EXCEPT ![TrialRow] = TrialRowAt(months)]
      PROVE  SomeActive'
  BY <1>0, <1>2, NoRowType DEF TrialRowAt, Row, SomeActive
<1>3. ASSUME NEW w \in Workers PROVE task[w] \in Task /\ task[w].id \in RowIds
  BY DEF Sound, TypeOK, Task
<1>4. ASSUME NEW w \in Workers, WebhookApply(w) PROVE SomeActive'
  <2> DEFINE t == task[w]
             after == RowAfterEvent(t, row[t.id])
  <2>1. nextAgencyActive(t.row.status, t.row.activatedAt, t.event.name)
    BY <1>4 DEF WebhookApply, SetAgency
  <2>2. after.status = nextStatus(t.row.status, t.row.activatedAt, t.event.name)
    BY <1>0, <1>3 DEF RowAfterEvent, Row
  <2>3. row'[t.id] = after
    BY <1>0, <1>3, <1>4 DEF WebhookApply
  <2> HIDE DEF after
  <2> QED BY <1>3, <2>1, <2>2, <2>3, EventAgreement DEF SomeActive
<1>5. ASSUME NEW w \in Workers, cancelExpiredSubscriptions(w) PROVE FALSE
  BY <1>5 DEF cancelExpiredSubscriptions, DeactivateAgency, SetAgency, Sound, TypeOK
<1>6. ASSUME NEW w \in Workers, ReconcileActivate(w) PROVE SomeActive'
  BY <1>0, <1>3, <1>6 DEF ReconcileActivate, RowAfterReconciliation, Row, SomeActive
<1>7. ASSUME NEW w \in Workers, RenewalCommit(w) PROVE FALSE
  BY <1>7 DEF RenewalCommit, SetAgency
<1>8. ASSUME NEW w \in Workers, CancelCommit(w) PROVE SomeActive'
  <2>1. UNCHANGED <<agency, agencySetBy>>
    BY <1>8 DEF CancelCommit
  <2>2. PICK r \in RowIds : row[r].status = "ACTIVE"
    BY <2>1 DEF SomeActive
  <2>3. row'[r].status = row[r].status
    BY <1>0, <1>3, <1>8 DEF CancelCommit, Row
  <2> QED BY <2>2, <2>3 DEF SomeActive
<1> QED BY <1>1, <1>2, <1>4, <1>5, <1>6, <1>7, <1>8 DEF RowsWritten

\* No interleaving of the writers, and no crash between two of their steps,
\* leaves an agency open by billing without an ACTIVE row to end its access.
THEOREM OpenAgencyHasActiveRow == Spec => []AccessHasActiveRow
<1>1. Init => AccessHasActiveRow
  BY DEF Init, AccessHasActiveRow
<1> QED BY <1>1, AccessStep, SpecSound, PTL DEF Spec

-----------------------------------------------------------------------------
(* Events. Only the insert of a new event takes it into a handler.          *)


EventsKept ==
  /\ UNCHANGED <<recorded, applied>>
  /\ \A w \in Workers : task'[w].event \in {task[w].event, NoEvent}

LEMMA OtherStepsKeepEvents ==
  ASSUME Sound, [Next]_vars
  PROVE  \/ EventsKept
         \/ \E w \in Workers : WebhookApply(w) \/ \E e \in sent : WebhookReceive(w, e)
<1>0. task \in [Workers -> Task] /\ Idle \in Task /\ Idle.event = NoEvent
  BY IdleType DEF Sound, TypeOK, Idle
<1>1. ASSUME UNCHANGED <<recorded, applied, task>> PROVE EventsKept
  BY <1>1 DEF EventsKept
<1>2. ASSUME NEW w \in Workers, task'[w].event \in {task[w].event, NoEvent},
             \A v \in Workers \ {w} : task'[v] = task[v], UNCHANGED <<recorded, applied>>
      PROVE  EventsKept
  BY <1>2 DEF EventsKept
<1>3. ASSUME NEW w \in Workers, Finish(w), UNCHANGED <<recorded, applied>>
      PROVE  EventsKept
  BY <1>0, <1>2, <1>3 DEF Finish, Continue
<1>4. ASSUME NEW w \in Workers, NEW login, BeginExpiry(w, login),
             UNCHANGED <<recorded, applied>>
      PROVE  EventsKept
  <2>1. task'[w].event = NoEvent /\ \A v \in Workers \ {w} : task'[v] = task[v]
    BY <1>0, <1>4 DEF BeginExpiry, Continue, Task
  <2> QED BY <1>2, <1>4, <2>1
<1>5. ASSUME NEW w \in Workers, NEW r, NEW login, BeginReconciliation(w, r, login),
             UNCHANGED <<recorded, applied>>
      PROVE  EventsKept
  <2>1. task'[w].event = NoEvent /\ \A v \in Workers \ {w} : task'[v] = task[v]
    BY <1>0, <1>5 DEF BeginReconciliation, Continue, Task
  <2> QED BY <1>2, <1>5, <2>1
<1>6. ASSUME NEW w \in Workers,
             \/ \E active \in BOOLEAN : updateAgencyStatus(w, active)
             \/ \E e \in sent : WebhookDuplicate(w, e)
      PROVE  EventsKept
  BY <1>1, <1>6 DEF updateAgencyStatus, WebhookDuplicate, vars
<1>7. ASSUME NEW w \in Workers,
             \/ RequestAccess(w) \/ deactivateExpiredSubscriptions(w) \/ Login(w)
             \/ LoginEnsureAgain(w) \/ \E i \in Checkouts : getSignupSession(w, i)
             \/ cancelExpiredSubscriptions(w) \/ Abort(w) \/ UniqueViolation(w)
             \/ RenewalCommit(w) \/ CancelCommit(w)
      PROVE  EventsKept
  BY <1>3, <1>4, <1>5, <1>7
  DEF RequestAccess, deactivateExpiredSubscriptions, Login, LoginEnsureAgain,
      getSignupSession, cancelExpiredSubscriptions, Abort, UniqueViolation,
      RenewalCommit, CancelCommit
<1>8. ASSUME NEW w \in Workers,
             \E months \in CommitmentOptions : createRecurringCheckout(w, months)
      PROVE  EventsKept
  <2>1. task'[w].event = NoEvent /\ \A v \in Workers \ {w} : task'[v] = task[v]
    BY <1>0, <1>8 DEF createRecurringCheckout, Continue, Task
  <2> QED BY <1>2, <1>8, <2>1 DEF createRecurringCheckout
<1>9. ASSUME NEW w \in Workers, cancelAgencySubscription(w) PROVE EventsKept
  <2>1. task'[w].event = NoEvent /\ \A v \in Workers \ {w} : task'[v] = task[v]
    BY <1>0, <1>9 DEF cancelAgencySubscription, Continue, Task
  <2> QED BY <1>2, <1>9, <2>1 DEF cancelAgencySubscription
<1>10. ASSUME NEW w \in Workers,
              \/ recoverRemoteSubscriptionForEvent(w) \/ ReconcileRead(w)
              \/ ReconcileLookup(w) \/ cancelSubscription(w)
       PROVE  EventsKept
  <2>1. task[w] \in Task
    BY <1>0
  <2>2. UNCHANGED <<recorded, applied>>
    BY <1>10
    DEF recoverRemoteSubscriptionForEvent, ReconcileRead, ReconcileLookup,
        cancelSubscription
  <2>3. CASE Finish(w)
    BY <1>3, <2>2, <2>3
  <2>4. CASE ~Finish(w)
    <3>1. ASSUME NEW pc, NEW found, Continue(w, [task[w] EXCEPT !.pc = pc, !.found = found])
          PROVE  EventsKept
      BY <1>0, <1>2, <2>1, <2>2, <3>1 DEF Continue, Task
    <3>2. ASSUME NEW pc, Continue(w, [task[w] EXCEPT !.pc = pc]) PROVE EventsKept
      BY <1>0, <1>2, <2>1, <2>2, <3>2 DEF Continue, Task
    <3>3. ASSUME NEW r, Continue(w, [task[w] EXCEPT !.pc = "lookup", !.id = r,
                                                    !.row = row[r], !.at = now])
          PROVE  EventsKept
      BY <1>0, <1>2, <2>1, <2>2, <3>3 DEF Continue, Task
    <3>4. CASE recoverRemoteSubscriptionForEvent(w)
      BY <3>1, <3>4 DEF recoverRemoteSubscriptionForEvent
    <3>5. CASE ReconcileRead(w)
      BY <2>4, <3>3, <3>5 DEF ReconcileRead
    <3>6. CASE cancelSubscription(w)
      BY <3>2, <3>6 DEF cancelSubscription
    <3>7. CASE ReconcileLookup(w)
      BY <2>4, <3>1, <3>7 DEF ReconcileLookup
    <3> QED BY <1>10, <3>4, <3>5, <3>6, <3>7
  <2> QED BY <2>3, <2>4
<1>11. ASSUME NEW w \in Workers, ReconcileActivate(w) PROVE EventsKept
  <2>1. \/ Finish(w)
        \/ task'[w].event = NoEvent /\ \A v \in Workers \ {w} : task'[v] = task[v]
    BY <1>0, <1>11, ZenonT(30) DEF ReconcileActivate, Continue, Task
  <2> QED BY <1>2, <1>3, <1>11, <2>1 DEF ReconcileActivate
<1>12. ASSUME \/ \E months \in CommitmentOptions : createAgencySignup(months)
              \/ createAgency \/ Asaas \/ Tick \/ UNCHANGED vars
       PROVE  EventsKept
  BY <1>1, <1>12 DEF createAgencySignup, createAgency, Asaas, Tick, vars
<1> QED
  BY <1>6, <1>7, <1>8, <1>9, <1>10, <1>11, <1>12 DEF Next, Start, Proceed

LEMMA EventsStep ==
  Sound /\ AppliedAtMostOnce /\ [Next]_vars => AppliedAtMostOnce'
<1> SUFFICES ASSUME Sound, AppliedAtMostOnce, [Next]_vars PROVE AppliedAtMostOnce'
  OBVIOUS
<1>0. task \in [Workers -> Task] /\ recorded \subseteq Event /\ applied \subseteq recorded
  BY DEF Sound, TypeOK
<1>1. CASE EventsKept
  BY <1>1 DEF EventsKept, AppliedAtMostOnce, EventsInFlight
<1>2. ASSUME NEW w \in Workers, NEW e \in sent, WebhookReceive(w, e)
      PROVE  AppliedAtMostOnce'
  <2>1. e \notin recorded /\ recorded' = recorded \cup {e} /\ UNCHANGED applied
    BY <1>2 DEF WebhookReceive, InsertWebhookEvent
  <2>2. CASE UNCHANGED task
    BY <2>1, <2>2 DEF AppliedAtMostOnce, EventsInFlight
  <2>3. CASE ~UNCHANGED task
    <3>1. task'[w].event = e /\ \A v \in Workers \ {w} : task'[v] = task[v]
      <4>1. ASSUME NEW pc, NEW r, NEW found,
                   Continue(w, [Idle EXCEPT !.pc = pc, !.id = r, !.row = row[r],
                                            !.event = e, !.found = found, !.at = now])
            PROVE  task'[w].event = e /\ \A v \in Workers \ {w} : task'[v] = task[v]
        BY <1>0, <4>1, IdleType DEF Continue, Task
      <4> QED BY <1>2, <2>3, <4>1 DEF WebhookReceive
    <3>2. e \in recorded' \ applied' /\ \A v \in Workers : e \notin EventsInFlight(v)
      BY <1>0, <2>1 DEF AppliedAtMostOnce
    <3> QED BY <2>1, <3>1, <3>2 DEF AppliedAtMostOnce, EventsInFlight
  <2> QED BY <2>2, <2>3
<1>3. ASSUME NEW w \in Workers, WebhookApply(w) PROVE AppliedAtMostOnce'
  <2>1. /\ UNCHANGED recorded /\ applied' = applied \cup {task[w].event}
        /\ task'[w].event = NoEvent /\ \A v \in Workers \ {w} : task'[v] = task[v]
    BY <1>0, <1>3 DEF WebhookApply, Finish, Continue, Idle
  <2>2. task[w].event # NoEvent
    BY <1>0, <1>3, NoEventIsNone DEF WebhookApply, Sound, HandlersFit, Fits
  <2> QED BY <2>1, <2>2 DEF AppliedAtMostOnce, EventsInFlight
<1> QED BY <1>1, <1>2, <1>3, OtherStepsKeepEvents

\* However often Asaas repeats an event, and to however many handlers, its
\* transaction commits at most once.
THEOREM EventsAppliedAtMostOnce == Spec => []AppliedAtMostOnce
<1>1. Init => AppliedAtMostOnce
  BY DEF Init, Idle, AppliedAtMostOnce, EventsInFlight
<1> QED BY <1>1, EventsStep, SpecSound, PTL DEF Spec

-----------------------------------------------------------------------------
(* How long access lasts. The access check and the sweep look at one row,  *)
(* the latest activated; there always is one, and it has an end.           *)

\* A finite set has a largest member: orderBy desc, take the first finds one.
LEMMA LargestMember ==
  ASSUME NEW S, IsFiniteSet(S), S # {}, NEW f, \A r \in S : f[r] \in Int
  PROVE  \E r \in S : \A o \in S : f[o] <= f[r]
<1> DEFINE Above(r) == {o \in S : f[o] > f[r]}
           Sets == {Above(r) : r \in S}
<1>1. Sets \subseteq FiniteSubsetsOf(S) /\ Sets # {}
  <2>1. ASSUME NEW r \in S PROVE Above(r) \subseteq S /\ IsFiniteSet(Above(r))
    <3>1. Above(r) \subseteq S
      OBVIOUS
    <3> HIDE DEF Above
    <3> QED BY <3>1, FS_Subset
  <2> HIDE DEF Above
  <2> QED BY <2>1 DEF FiniteSubsetsOf
<1>2. PICK A \in Sets : \A B \in Sets : ~(<<B, A>> \in StrictSubsetOrdering(S))
  <2> HIDE DEF Sets
  <2> QED BY <1>1, FS_StrictSubsetOrderingWellFounded, WFMin
<1>3. PICK r \in S : A = Above(r)
  OBVIOUS
<1>4. ASSUME NEW o \in S, f[o] > f[r] PROVE FALSE
  <2>1. Above(o) \subseteq Above(r) /\ o \in Above(r) /\ o \notin Above(o)
    BY <1>4
  <2>2. <<Above(o), Above(r)>> \in StrictSubsetOrdering(S)
    BY <2>1 DEF StrictSubsetOrdering
  <2> QED BY <1>2, <1>3, <2>2
<1> QED BY <1>4

LEMMA LatestActivatedIsThere ==
  ASSUME TypeOK, NEW S, S \subseteq RowIds, S # {}
  PROVE  LatestActivated(S) # {}
<1> DEFINE Latest == {r \in S : \A o \in S : row[o].activatedAt <= row[r].activatedAt}
<1>1. IsFiniteSet(RowIds)
  BY CheckoutsAssumption, FS_AddElement
<1>2. \A r \in S : row[r].activatedAt \in Int /\ row[r].createdAt \in Int
  BY DEF TypeOK, Row
<1>3. IsFiniteSet(S)
  BY <1>1, FS_Subset
<1>4. Latest # {}
  <2> DEFINE f == [r \in S |-> row[r].activatedAt]
  <2>1. \A r \in S : f[r] = row[r].activatedAt
    OBVIOUS
  <2> HIDE DEF f
  <2>2. PICK r \in S : \A o \in S : f[o] <= f[r]
    BY <1>2, <1>3, <2>1, LargestMember
  <2> QED BY <2>1, <2>2
<1>5. Latest \subseteq S /\ IsFiniteSet(Latest)
  <2>1. Latest \subseteq S
    OBVIOUS
  <2> HIDE DEF Latest
  <2> QED BY <1>3, <2>1, FS_Subset
<1>6. LatestActivated(S) = Newest(Latest)
  BY DEF LatestActivated
<1> HIDE DEF Latest
<1>7. Newest(Latest) # {}
  <2> DEFINE f == [r \in Latest |-> row[r].createdAt]
  <2>1. \A r \in Latest : f[r] = row[r].createdAt
    OBVIOUS
  <2> HIDE DEF f
  <2>2. \A r \in Latest : f[r] \in Int
    BY <1>2, <1>5, <2>1
  <2>3. IsFiniteSet(Latest)
    BY <1>5
  <2>4. PICK r \in Latest : \A o \in Latest : f[o] <= f[r]
    BY <1>4, <2>2, <2>3, LargestMember
  <2> QED BY <2>1, <2>4 DEF Newest
<1> QED BY <1>6, <1>7

\* The row that answers the access check of an open agency.
LEMMA OpenAccess ==
  ASSUME Sound, RowsDated, AccessHasActiveRow,
         agency = "active", agencySetBy = "billing", EndedSubscription = {}
  PROVE  \E r \in LatestActivated(ActiveRows) :
           /\ r \in ActiveRows /\ row[r] \in Row
           /\ row[r].activatedAt \in Nat
           /\ now < getSubscriptionAccessEndsAt(row[r])
<1>1. ActiveRows \subseteq RowIds /\ ActiveRows # {}
  BY DEF ActiveRows, AccessHasActiveRow
<1>2. PICK r \in LatestActivated(ActiveRows) : TRUE
  BY <1>1, LatestActivatedIsThere DEF Sound
<1>3. r \in ActiveRows
  BY DEF LatestActivated, Newest
<1>4. row[r] \in Row /\ row[r].activatedAt \in Nat
  BY <1>1, <1>3 DEF Sound, TypeOK, RowsDated, Dated, ActiveRows, Row
<1>5. ~hasSubscriptionAccessReachedEnd(row[r], now)
  BY <1>4 DEF EndedSubscription
<1>6. getSubscriptionAccessEndsAt(row[r]) \in Int /\ now \in Int
  <2>1. now \in Int
    BY ConstantTypes DEF Sound, TypeOK
  <2>2. MonthLength \in Nat \ {0}
    BY MonthLengthAssumption
  <2> DEFINE a == row[r].activatedAt
             c == row[r].canceledAt
             cycles == IF c < a THEN 0 ELSE (c - a) \div (1 * MonthLength)
  <2>3. a \in Nat /\ c \in Int /\ row[r].trialEndsAt \in Int /\ row[r].commitmentMonths \in Int
    BY <1>4 DEF Row
  <2>4. cycles \in Int
    BY <2>2, <2>3
  <2>5. getNextSubscriptionBillingDate(a, c) \in Int
    <3>1. getNextSubscriptionBillingDate(a, c) = addMonths(a, 1 * (cycles + 1))
      BY DEF getNextSubscriptionBillingDate, BillingCycleMonths
    <3> HIDE DEF cycles
    <3> QED BY <2>2, <2>3, <2>4, <3>1 DEF addMonths
  <2>6. ScheduledEnd(row[r]) \in Int
    BY <2>2, <2>3 DEF ScheduledEnd, getSubscriptionExpiresAt, addMonths
  <2> QED BY <2>1, <2>5, <2>6 DEF getSubscriptionAccessEndsAt
<1> QED BY <1>3, <1>4, <1>5, <1>6 DEF hasSubscriptionAccessReachedEnd

\* Whatever billing did to the rows and the flag, side by side or cut short, a
\* request that the access check lets through is let through by a row with
\* access left: no agency is open for ever.
THEOREM AccessIsBounded == Spec => []GrantIsBounded
<1>1. Sound /\ RowsDated /\ AccessHasActiveRow => GrantIsBounded
  BY OpenAccess DEF GrantIsBounded
<1> QED BY <1>1, SpecSound, SpecDated, OpenAgencyHasActiveRow, PTL

\* Whole cycles that fit into a time take no longer than it.
LEMMA WholeCycles ==
  ASSUME NEW time \in Nat, NEW cycle \in Nat \ {0}
  PROVE  time \div cycle \in Nat /\ (time \div cycle) * cycle <= time
  OBVIOUS

LEMMA NextBillingDateIsNear ==
  ASSUME NEW a \in Nat, NEW c \in Nat
  PROVE  /\ getNextSubscriptionBillingDate(a, c) \in Int
         /\ \/ getNextSubscriptionBillingDate(a, c) <= addMonths(a, BillingCycleMonths)
            \/ getNextSubscriptionBillingDate(a, c) <= addMonths(c, BillingCycleMonths)
<1>1. MonthLength \in Nat \ {0} /\ 1 * MonthLength = MonthLength
  BY MonthLengthAssumption
<1>2. CASE c < a
  BY <1>1, <1>2 DEF getNextSubscriptionBillingDate, addMonths, BillingCycleMonths
<1>3. CASE ~(c < a)
  <2> DEFINE cycles == (c - a) \div MonthLength
  <2>1. cycles \in Nat /\ cycles * MonthLength <= c - a
    BY <1>1, <1>3, WholeCycles
  <2>2. getNextSubscriptionBillingDate(a, c) = addMonths(a, 1 * (cycles + 1))
    BY <1>1, <1>3 DEF getNextSubscriptionBillingDate, BillingCycleMonths
  <2> HIDE DEF cycles
  <2>3. 1 * (cycles + 1) * MonthLength = cycles * MonthLength + MonthLength
        /\ cycles * MonthLength \in Nat
    BY <1>1, <2>1
  <2> QED BY <1>1, <2>1, <2>2, <2>3 DEF addMonths, BillingCycleMonths
<1> QED BY <1>2, <1>3

\* Whoever canceled it and however often it was canceled and revived, a canceled
\* subscription that still gives access gives less than one more cycle of it.
THEOREM CanceledAccessIsShort == Spec => []CanceledAccessEndsWithCycle
<1>1. Sound /\ RowsDated /\ AccessHasActiveRow => CanceledAccessEndsWithCycle
  <2> SUFFICES ASSUME Sound, RowsDated, AccessHasActiveRow,
                      agency = "active", agencySetBy = "billing", EndedSubscription = {}
               PROVE  \E r \in LatestActivated(ActiveRows) :
                        \/ row[r].canceledAt = NoDate
                        \/ now < addMonths(row[r].canceledAt, BillingCycleMonths)
                        \/ now < addMonths(row[r].activatedAt, BillingCycleMonths)
    BY DEF CanceledAccessEndsWithCycle
  <2>1. PICK r \in LatestActivated(ActiveRows) :
          /\ row[r] \in Row /\ row[r].activatedAt \in Nat
          /\ now < getSubscriptionAccessEndsAt(row[r])
    BY OpenAccess
  <2> DEFINE a == row[r].activatedAt
             c == row[r].canceledAt
             date == getNextSubscriptionBillingDate(a, c)
  <2> SUFFICES ASSUME c # NoDate
               PROVE  \/ now < addMonths(c, BillingCycleMonths)
                      \/ now < addMonths(a, BillingCycleMonths)
    OBVIOUS
  <2>2. a \in Nat /\ c \in Nat /\ now \in Nat
    BY <2>1, ConstantTypes DEF Sound, TypeOK, Row
  <2>3. /\ date \in Int
        /\ \/ date <= addMonths(a, BillingCycleMonths)
           \/ date <= addMonths(c, BillingCycleMonths)
    BY <2>2, NextBillingDateIsNear
  <2>4. ScheduledEnd(row[r]) \in Int
    BY <2>1, MonthLengthAssumption
    DEF ScheduledEnd, getSubscriptionExpiresAt, addMonths, Row
  <2>5. now < date
    BY <2>1, <2>2, <2>3, <2>4 DEF getSubscriptionAccessEndsAt
  <2>6. addMonths(a, BillingCycleMonths) \in Int /\ addMonths(c, BillingCycleMonths) \in Int
    BY <2>2, MonthLengthAssumption DEF addMonths, BillingCycleMonths
  <2> HIDE DEF a, c, date
  <2> QED BY <2>2, <2>3, <2>5, <2>6
<1> QED BY <1>1, SpecSound, SpecDated, OpenAgencyHasActiveRow, PTL

-----------------------------------------------------------------------------
(* What a row may hold, and what a handler has in hand. A row names the     *)
(* checkout, the subscription and the customer of its own number or of one  *)
(* of the same customer, and is activated once one of these is paid.        *)

SameCustomer(i, r) ==
  i \in Checkouts /\ r \in Checkouts /\ CustomerOf[i] = CustomerOf[r]
PaidFor(r, asaas) ==
  \E i \in Checkouts : SameCustomer(i, r) /\ asaas[i].checkout = "paid"

\* The row x, or a copy of it that a handler has read, under the number r.
Belongs(x, r, asaas) ==
  /\ Dated(x)
  /\ x.activatedAt # NoDate =>
       /\ x.status \notin {"CHECKOUT_CREATED", "CHECKOUT_EXPIRED"}
       /\ r # TrialRow => PaidFor(r, asaas)
  /\ x.checkout # NoId => SameCustomer(x.checkout, r)
  /\ x.subscription # NoId => SameCustomer(x.subscription, r)
  /\ r # TrialRow => x.trialEndsAt = NoDate
  /\ x.customer # NoId => r \in Checkouts /\ x.customer = CustomerOf[r]

RowFits(x, r, asaas) ==
  /\ Belongs(x, r, asaas)
  /\ x.status = "NONE" => x = NoRow
  /\ x.status # "NONE" /\ r # TrialRow => asaas[r].checkout # "none"
RowsFit == \A r \in RowIds : RowFits(row[r], r, remote)

\* Steps of a handler that has read a row; it exists, then and later.
Reading == {"recover", "apply", "lookup", "activate", "delete", "cancel"}

Holds(t, table, asaas) ==
  /\ t.pc \in Reading \cup {"expire"} => table[t.id].status # "NONE"
  /\ t.pc = "reconcile" => t.login \/ table[t.id].status # "NONE"
  /\ t.pc \in Reading => Belongs(t.row, t.id, asaas)
  /\ t.pc \in {"recover", "apply"} => SameCustomer(t.event.checkout, t.id)
  /\ t.pc \in {"apply", "activate", "delete", "cancel"} =>
       t.found = NoId \/ SameCustomer(t.found, t.id)
  /\ t.pc = "activate" => PaidFor(t.id, asaas)
  /\ t.pc = "renew" =>
       /\ t.id \in Checkouts /\ table[t.id].status = "NONE"
       /\ asaas[t.id].checkout # "none"
       /\ t.row.activatedAt = NoDate /\ t.row.canceledAt = NoDate
       /\ t.row.trialEndsAt = NoDate /\ t.row.checkout = t.id
       /\ t.row.subscription = NoId /\ t.row.customer = NoId
TasksHold == \A w \in Workers : Holds(task[w], row, remote)

\* No two renewals insert the same row.
RenewalsApart ==
  \A v, w \in Workers :
    v # w /\ task[v].pc = "renew" /\ task[w].pc = "renew" => task[v].id # task[w].id

\* What Asaas says of a payment follows a payment.
RemoteFits ==
  /\ \A i \in Checkouts :
       remote[i].subscription # "none" \/ remote[i].invoiced # 0
         => remote[i].checkout = "paid"
  /\ \A e \in sent : e.name \in ActivatingEvents => remote[e.checkout].checkout = "paid"

TrialFits == agency = "absent" => row[TrialRow].status = "NONE"

Whole == Sound /\ RowsFit /\ TasksHold /\ RenewalsApart /\ RemoteFits /\ TrialFits

-----------------------------------------------------------------------------
(* Asaas. A checkout, once created, stays, and once paid, stays paid.       *)

RemoteGrows ==
  \A i \in Checkouts :
    /\ remote[i].checkout # "none" => remote'[i].checkout # "none"
    /\ remote[i].checkout = "paid" => remote'[i].checkout = "paid"

\* A step of Asaas that reports nothing new of a payment.
LEMMA RemoteQuiet ==
  ASSUME Sound, RemoteFits, NEW i \in Checkouts, NEW x,
         remote' = [remote EXCEPT ![i] = x],
         remote[i].checkout # "none" => x.checkout # "none",
         remote[i].checkout = "paid" => x.checkout = "paid",
         x.subscription # "none" \/ x.invoiced # 0 => x.checkout = "paid",
         \A e \in sent' \ sent :
           e.name \in ActivatingEvents => e.checkout = i /\ x.checkout = "paid"
  PROVE  RemoteFits' /\ RemoteGrows
<1>1. remote \in [Checkouts -> Remote] /\ \A e \in sent : e.checkout \in Checkouts
  BY DEF Sound, TypeOK, Event
<1>2. remote'[i] = x /\ \A o \in Checkouts \ {i} : remote'[o] = remote[o]
  BY <1>1
<1>3. RemoteGrows
  BY <1>2 DEF RemoteGrows
<1>4. ASSUME NEW e \in sent', e.name \in ActivatingEvents
      PROVE  remote'[e.checkout].checkout = "paid"
  <2>1. CASE e \in sent
    BY <1>1, <1>3, <1>4, <2>1 DEF RemoteFits, RemoteGrows
  <2>2. CASE e \notin sent
    BY <1>2, <1>4, <2>2
  <2> QED BY <2>1, <2>2
<1>5. \A o \in Checkouts : remote'[o].subscription # "none" \/ remote'[o].invoiced # 0
                             => remote'[o].checkout = "paid"
  BY <1>2 DEF RemoteFits
<1> QED BY <1>3, <1>4, <1>5 DEF RemoteFits

LEMMA RemoteKept ==
  ASSUME Sound, RemoteFits, UNCHANGED <<remote, sent>>
  PROVE  RemoteFits' /\ RemoteGrows
  BY DEF RemoteFits, RemoteGrows

\* What Emit adds is about one checkout.
LEMMA EmitAdds ==
  ASSUME NEW i, NEW names, NEW cycle, Emit(Report(i, names, cycle))
  PROVE  \A e \in sent' \ sent : e.checkout = i /\ e.name \in names
  BY DEF Emit, Report

LEMMA AsaasRemote == Sound /\ RemoteFits /\ Asaas => RemoteFits' /\ RemoteGrows
<1> SUFFICES ASSUME Sound, RemoteFits, Asaas PROVE RemoteFits' /\ RemoteGrows
  OBVIOUS
<1>1. PICK i \in Checkouts :
        \/ PayCheckout(i)
        \/ \E name \in {"CHECKOUT_EXPIRED", "CHECKOUT_CANCELED"} : CloseCheckout(i, name)
        \/ IssueInvoice(i) \/ SettleInvoice(i) \/ InvoiceOverdue(i)
        \/ RefundPayment(i) \/ DeleteSubscription(i)
  BY DEF Asaas
<1>2. remote[i] \in Remote /\ remote \in [Checkouts -> Remote]
  BY DEF Sound, TypeOK
<1>3. remote[i].subscription # "none" \/ remote[i].invoiced # 0
        => remote[i].checkout = "paid"
  BY DEF RemoteFits
<1>4. CASE PayCheckout(i)
  <2> DEFINE x == [remote[i] EXCEPT !.checkout = "paid", !.subscription = "active",
                                    !.startedAt = now, !.invoiced = 1, !.paid = 1]
  <2>1. remote' = [remote EXCEPT ![i] = x] /\ x.checkout = "paid"
    BY <1>2, <1>4 DEF PayCheckout, Remote
  <2>2. \A e \in sent' \ sent : e.checkout = i
    BY <1>4 DEF PayCheckout, Emit, Report
  <2> HIDE DEF x
  <2> QED BY <2>1, <2>2, RemoteQuiet
<1>5. ASSUME NEW name \in {"CHECKOUT_EXPIRED", "CHECKOUT_CANCELED"}, CloseCheckout(i, name)
      PROVE  RemoteFits' /\ RemoteGrows
  <2> DEFINE x == [remote[i] EXCEPT !.checkout = "closed"]
  <2>1. /\ remote' = [remote EXCEPT ![i] = x] /\ x.checkout = "closed"
        /\ x.subscription = remote[i].subscription /\ x.invoiced = remote[i].invoiced
    BY <1>2, <1>5 DEF CloseCheckout, Remote
  <2>2. \A e \in sent' \ sent : e.name \notin ActivatingEvents
    BY <1>5, EmitAdds DEF CloseCheckout, ActivatingEvents
  <2>3. remote[i].checkout = "open"
    BY <1>5 DEF CloseCheckout
  <2> HIDE DEF x
  <2> QED BY <1>3, <2>1, <2>2, <2>3, RemoteQuiet
<1>6. CASE IssueInvoice(i)
  <2> DEFINE x == [remote[i] EXCEPT !.invoiced = remote[i].invoiced + 1]
  <2>1. /\ remote' = [remote EXCEPT ![i] = x] /\ x.checkout = remote[i].checkout
        /\ x.subscription = remote[i].subscription
    BY <1>2, <1>6 DEF IssueInvoice, Remote
  <2>2. \A e \in sent' \ sent : e.name \notin ActivatingEvents
    BY <1>6, EmitAdds DEF IssueInvoice, ActivatingEvents
  <2>3. remote[i].checkout = "paid"
    BY <1>3, <1>6 DEF IssueInvoice
  <2> HIDE DEF x
  <2> QED BY <2>1, <2>2, <2>3, RemoteQuiet
<1>7. CASE SettleInvoice(i)
  <2> DEFINE x == [remote[i] EXCEPT !.paid = remote[i].paid + 1]
  <2>1. remote' = [remote EXCEPT ![i] = x] /\ x.checkout = remote[i].checkout
    BY <1>2, <1>7 DEF SettleInvoice, Remote
  <2>2. \A e \in sent' \ sent : e.checkout = i
    BY <1>7, EmitAdds DEF SettleInvoice
  <2>3. remote[i].checkout = "paid"
    <3>1. remote[i].invoiced # 0
      BY <1>2, <1>7, ConstantTypes DEF SettleInvoice, Remote
    <3> QED BY <1>3, <3>1
  <2> HIDE DEF x
  <2> QED BY <2>1, <2>2, <2>3, RemoteQuiet
<1>8. CASE InvoiceOverdue(i)
  <2>1. UNCHANGED remote /\ \A e \in sent' \ sent : e.name \notin ActivatingEvents
    BY <1>8, EmitAdds DEF InvoiceOverdue, ActivatingEvents
  <2> QED BY <2>1 DEF RemoteFits, RemoteGrows
<1>9. CASE RefundPayment(i)
  <2> DEFINE x == [remote[i] EXCEPT !.refunded = TRUE]
  <2>1. /\ remote' = [remote EXCEPT ![i] = x] /\ x.checkout = remote[i].checkout
        /\ x.subscription = remote[i].subscription /\ x.invoiced = remote[i].invoiced
    BY <1>2, <1>9 DEF RefundPayment, Remote
  <2>2. \A e \in sent' \ sent : e.name \notin ActivatingEvents
    BY <1>9, EmitAdds DEF RefundPayment, ActivatingEvents
  <2> HIDE DEF x
  <2> QED BY <1>3, <2>1, <2>2, RemoteQuiet
<1>10. CASE DeleteSubscription(i)
  <2> DEFINE x == [remote[i] EXCEPT !.subscription = "deleted"]
  <2>1. remote' = [remote EXCEPT ![i] = x] /\ x.checkout = remote[i].checkout
    BY <1>2, <1>10 DEF DeleteSubscription, Remote
  <2>2. \A e \in sent' \ sent : e.name \notin ActivatingEvents
    BY <1>10, EmitAdds DEF DeleteSubscription, DeletionEvents, ActivatingEvents
  <2>3. remote[i].checkout = "paid"
    BY <1>3, <1>10 DEF DeleteSubscription
  <2> HIDE DEF x
  <2> QED BY <2>1, <2>2, <2>3, RemoteQuiet
<1> QED BY <1>1, <1>4, <1>5, <1>6, <1>7, <1>8, <1>9, <1>10

LEMMA RemoteStep == Sound /\ RemoteFits /\ [Next]_vars => RemoteFits' /\ RemoteGrows
<1> SUFFICES ASSUME Sound, RemoteFits, [Next]_vars PROVE RemoteFits' /\ RemoteGrows
  OBVIOUS
<1>0. remote \in [Checkouts -> Remote]
  BY DEF Sound, TypeOK
<1>1. ASSUME NEW w \in Workers, NEW months \in CommitmentOptions,
             createRecurringCheckout(w, months)
      PROVE  RemoteFits' /\ RemoteGrows
  <2>1. PICK i \in UnusedCheckouts :
          /\ remote' = [remote EXCEPT ![i] =
                          [@ EXCEPT !.checkout = "open", !.expiresAt = now + CheckoutTtl]]
          /\ Emit(Report(i, {"CHECKOUT_CREATED"}, 0))
    BY <1>1 DEF createRecurringCheckout
  <2> DEFINE x == [remote[i] EXCEPT !.checkout = "open", !.expiresAt = now + CheckoutTtl]
  <2>2. i \in Checkouts /\ remote[i].checkout = "none" /\ remote[i] \in Remote
    BY <1>0 DEF UnusedCheckouts
  <2>3. /\ remote' = [remote EXCEPT ![i] = x] /\ x.checkout = "open"
        /\ x.subscription = remote[i].subscription /\ x.invoiced = remote[i].invoiced
    BY <1>0, <2>1, <2>2 DEF Remote
  <2>4. \A e \in sent' \ sent : e.name \notin ActivatingEvents
    BY <2>1, EmitAdds DEF ActivatingEvents
  <2>5. remote[i].subscription = "none" /\ remote[i].invoiced = 0
    BY <2>2 DEF RemoteFits
  <2> HIDE DEF x
  <2> QED BY <2>2, <2>3, <2>4, <2>5, RemoteQuiet
<1>2. ASSUME NEW w \in Workers, cancelSubscription(w) PROVE RemoteFits' /\ RemoteGrows
  <2> DEFINE i == task[w].found
             x == [remote[i] EXCEPT !.subscription = "deleted"]
  <2>1. i \in Checkouts
    BY <1>2 DEF cancelSubscription, Sound, HandlersFit, Fits
  <2>2. CASE remote[i].subscription = "active"
    <3>1. remote' = [remote EXCEPT ![i] = x] /\ x.checkout = remote[i].checkout
      BY <1>0, <1>2, <2>1, <2>2 DEF cancelSubscription, Remote
    <3>2. \A e \in sent' \ sent : e.name \notin ActivatingEvents
      BY <1>2, <2>2, EmitAdds DEF cancelSubscription, DeletionEvents, ActivatingEvents
    <3>3. remote[i].checkout = "paid"
      BY <2>1, <2>2 DEF RemoteFits
    <3> HIDE DEF i, x
    <3> QED BY <2>1, <3>1, <3>2, <3>3, RemoteQuiet
  <2>3. CASE remote[i].subscription # "active"
    BY <1>2, <2>3, RemoteKept DEF cancelSubscription
  <2> QED BY <2>2, <2>3
<1>3. ASSUME NEW w \in Workers,
             \/ \E active \in BOOLEAN : updateAgencyStatus(w, active)
             \/ \E e \in sent : WebhookReceive(w, e) \/ WebhookDuplicate(w, e)
             \/ RequestAccess(w) \/ deactivateExpiredSubscriptions(w) \/ Login(w)
             \/ \E i \in Checkouts : getSignupSession(w, i)
             \/ cancelAgencySubscription(w)
      PROVE  RemoteFits' /\ RemoteGrows
  BY <1>3, RemoteKept
  DEF updateAgencyStatus, WebhookReceive, WebhookDuplicate, vars, RequestAccess,
      deactivateExpiredSubscriptions, Login, getSignupSession, cancelAgencySubscription
<1>4. ASSUME NEW w \in Workers, Proceed(w) PROVE RemoteFits' /\ RemoteGrows
  BY <1>2, <1>4, RemoteKept
  DEF Proceed, recoverRemoteSubscriptionForEvent, WebhookApply,
      cancelExpiredSubscriptions, ReconcileRead, ReconcileLookup, ReconcileActivate,
      LoginEnsureAgain, RenewalCommit, CancelCommit, UniqueViolation
<1>5. ASSUME \/ \E months \in CommitmentOptions : createAgencySignup(months)
             \/ createAgency \/ (\E w \in Workers : Abort(w)) \/ Tick \/ UNCHANGED vars
      PROVE  RemoteFits' /\ RemoteGrows
  BY <1>5, RemoteKept DEF createAgencySignup, createAgency, Abort, Tick, vars
<1>6. CASE Asaas
  BY <1>6, AsaasRemote
<1> QED BY <1>1, <1>3, <1>4, <1>5, <1>6 DEF Next, Start

-----------------------------------------------------------------------------
(* The rows. Each transaction is checked on the rows it writes.             *)

LEMMA PaidForStays ==
  ASSUME NEW r, RemoteGrows, PaidFor(r, remote)
  PROVE  PaidFor(r, remote')
  BY DEF RemoteGrows, PaidFor, SameCustomer

LEMMA BelongsStays ==
  ASSUME NEW x, NEW r, RemoteGrows, Belongs(x, r, remote)
  PROVE  Belongs(x, r, remote')
  BY PaidForStays DEF Belongs

LEMMA RowFitsStays ==
  ASSUME NEW x, NEW r \in RowIds, RemoteGrows, RowFits(x, r, remote)
  PROVE  RowFits(x, r, remote')
  BY BelongsStays DEF RowFits, RemoteGrows

\* A transaction that leaves a row where there was one.
LEMMA OneRowWritten ==
  ASSUME Sound, RowsFit, RemoteGrows, NEW id \in RowIds, NEW x,
         row' = [row EXCEPT ![id] = x], x.status # "NONE", RowFits(x, id, remote')
  PROVE  RowsFit' /\ \A r \in RowIds \ {id} : row'[r] = row[r]
<1>1. row'[id] = x /\ \A r \in RowIds \ {id} : row'[r] = row[r]
  BY DEF Sound, TypeOK
<1>2. \A r \in RowIds : RowFits(row'[r], r, remote')
  BY <1>1, RowFitsStays DEF RowsFit
<1> QED BY <1>1, <1>2 DEF RowsFit

\* What the webhook writes belongs where it is written.
LEMMA EventRowFits ==
  ASSUME Sound, RowsFit, TasksHold, RemoteFits, NEW w \in Workers,
         task[w].pc = "apply"
  PROVE  /\ RowAfterEvent(task[w], row[task[w].id]).status # "NONE"
         /\ RowFits(RowAfterEvent(task[w], row[task[w].id]), task[w].id, remote)
<1> DEFINE t == task[w]
           e == t.event.name
           status == nextStatus(t.row.status, t.row.activatedAt, e)
           after == RowAfterEvent(t, row[t.id])
<1>1. /\ t \in Task /\ t.id \in RowIds /\ t.row \in Row /\ now \in Nat
      /\ row[t.id] \in Row /\ t.event \in recorded /\ t.event \in sent
  <2>1. t \in Task /\ Fits(t, recorded) /\ recorded \subseteq sent /\ now \in Nat
    BY ConstantTypes DEF Sound, TypeOK, HandlersFit
  <2>2. t.id \in RowIds /\ t.row \in Row
    BY <2>1 DEF Task
  <2> QED BY <2>1, <2>2 DEF Fits, Sound, TypeOK
<1>2. /\ row[t.id].status # "NONE" /\ Belongs(t.row, t.id, remote)
      /\ SameCustomer(t.event.checkout, t.id)
      /\ t.found = NoId \/ SameCustomer(t.found, t.id)
  BY DEF TasksHold, Holds, Reading
<1>3. /\ after.status = status
      /\ after.activatedAt = ActivationDate(t, status)
      /\ after.checkout = resolvedProviderCheckoutId(t)
      /\ after.subscription = resolvedProviderSubscriptionId(t)
      /\ after.customer = resolvedProviderCustomerId(t)
      /\ after.trialEndsAt = row[t.id].trialEndsAt
  BY <1>1 DEF RowAfterEvent, Row
<1>4. Dated(after)
  BY <1>1, EventDates DEF Sound
<1>5. status \in SubscriptionStatus
  BY StatusTypes
<1>6. status = "ACTIVE" /\ t.row.activatedAt = NoDate => e \in ActivatingEvents
  BY <1>2
  DEF Belongs, Dated, nextStatus, KeepsAccess, SchedulesCancellation,
      PreservesActiveAccess, HasActivatedAccess, mapAsaasEventToStatus
<1>7. t.row.activatedAt # NoDate => status \notin {"CHECKOUT_CREATED", "CHECKOUT_EXPIRED"}
  BY DEF nextStatus, KeepsAccess, PreservesActiveAccess, HasActivatedAccess
<1>8. e \in ActivatingEvents => PaidFor(t.id, remote)
  BY <1>1, <1>2 DEF RemoteFits, PaidFor, SameCustomer
<1>9. t.id \in Checkouts
  BY <1>2 DEF SameCustomer
<1> HIDE DEF status, after, e, t
<1>10. after.activatedAt # NoDate =>
         /\ after.status \notin {"CHECKOUT_CREATED", "CHECKOUT_EXPIRED"}
         /\ PaidFor(t.id, remote)
  <2>1. CASE t.row.activatedAt = NoDate
    BY <1>3, <1>6, <1>8, <2>1 DEF ActivationDate
  <2>2. CASE t.row.activatedAt # NoDate
    BY <1>2, <1>3, <1>7, <1>9, <2>2, ConstantTypes DEF ActivationDate, Belongs
  <2> QED BY <2>1, <2>2
<1>11. /\ after.checkout # NoId => SameCustomer(after.checkout, t.id)
       /\ after.subscription # NoId => SameCustomer(after.subscription, t.id)
       /\ after.customer # NoId => after.customer = CustomerOf[t.id]
       /\ after.trialEndsAt = NoDate
  <2>1. after.checkout # NoId => SameCustomer(after.checkout, t.id)
    BY <1>2, <1>3 DEF resolvedProviderCheckoutId, Belongs
  <2>2. after.subscription # NoId => SameCustomer(after.subscription, t.id)
    BY <1>2, <1>3 DEF resolvedProviderSubscriptionId, Belongs
  <2>3. after.customer # NoId => after.customer = CustomerOf[t.id]
    BY <1>2, <1>3 DEF resolvedProviderCustomerId, Belongs, SameCustomer
  <2>4. after.trialEndsAt = NoDate
    BY <1>1, <1>3, <1>9, ConstantTypes DEF RowsFit, RowFits, Belongs
  <2> QED BY <2>1, <2>2, <2>3, <2>4
<1>12. after.status # "NONE"
  BY <1>3, <1>5 DEF SubscriptionStatus
<1>13. remote[t.id].checkout # "none"
  BY <1>1, <1>2, <1>9, ConstantTypes DEF RowsFit, RowFits
<1>14. RowFits(after, t.id, remote)
  BY <1>4, <1>9, <1>10, <1>11, <1>12, <1>13 DEF RowFits, Belongs
<1> QED BY <1>12, <1>14 DEF after, t

\* Which rows a step may add.
RowsGrow ==
  \A r \in RowIds :
    /\ row[r].status # "NONE" => row'[r].status # "NONE"
    /\ row[r].status = "NONE" /\ row'[r].status # "NONE"
         => \/ r = TrialRow /\ agency' # "absent"
            \/ \E w \in Workers :
                 task[w].pc = "renew" /\ task[w].id = r /\ task'[w].pc = "idle"

LEMMA RowsStep ==
  ASSUME Whole, [Next]_vars, RemoteGrows
  PROVE  RowsFit' /\ RowsGrow
<1>0. /\ row \in [RowIds -> Row] /\ now \in Nat /\ RowsWritten /\ NoRow.status = "NONE"
  BY ConstantTypes, RowWriters DEF Whole, Sound, TypeOK, NoRow
<1>1. \A r \in RowIds : RowFits(row[r], r, remote)
  BY DEF Whole, RowsFit
<1>2. ASSUME NEW w \in Workers
      PROVE  /\ task[w] \in Task /\ task[w].id \in RowIds
             /\ task[w].at \in Nat /\ task[w].row \in Row
             /\ Holds(task[w], row, remote) /\ Fits(task[w], recorded)
  BY DEF Whole, Sound, TypeOK, HandlersFit, TasksHold, Task
\* The transactions that write one row, which was there.
<1>3. ASSUME NEW id \in RowIds, NEW x, row' = [row EXCEPT ![id] = x],
             row[id].status # "NONE", x.status # "NONE", RowFits(x, id, remote)
      PROVE  RowsFit' /\ RowsGrow
  <2>1. RowFits(x, id, remote')
    BY <1>3, RowFitsStays
  <2>2. RowsFit' /\ \A r \in RowIds \ {id} : row'[r] = row[r]
    BY <1>3, <2>1, OneRowWritten DEF Whole
  <2>3. row'[id] = x
    BY <1>0, <1>3
  <2> QED BY <1>3, <2>2, <2>3 DEF RowsGrow
<1>4. CASE KeepsRows
  <2>1. row' = row
    BY <1>4 DEF KeepsRows
  <2>2. \A r \in RowIds : RowFits(row[r], r, remote')
    BY <1>1, RowFitsStays
  <2> QED BY <2>1, <2>2 DEF RowsFit, RowsGrow
<1>5. ASSUME NEW months \in CommitmentOptions, agency' # "absent",
             row' = [row EXCEPT ![TrialRow] = TrialRowAt(months)]
      PROVE  RowsFit' /\ RowsGrow
  <2> DEFINE x == TrialRowAt(months)
  <2>1. /\ x.status = "ACTIVE" /\ x.activatedAt = now /\ x.checkout = NoId
        /\ x.subscription = NoId /\ x.customer = NoId
    BY NoRowType DEF TrialRowAt, Row, NoRow
  <2>2. Dated(x)
    BY <1>0, <2>1 DEF Dated
  <2> HIDE DEF x
  <2>3. RowFits(x, TrialRow, remote')
    BY <2>1, <2>2 DEF RowFits, Belongs
  <2>4. RowsFit' /\ (\A r \in RowIds \ {TrialRow} : row'[r] = row[r]) /\ row'[TrialRow] = x
    BY <1>0, <1>5, <2>1, <2>3, OneRowWritten DEF Whole, x
  <2> QED BY <1>5, <2>1, <2>4 DEF RowsGrow
<1>6. ASSUME NEW w \in Workers, WebhookApply(w) PROVE RowsFit' /\ RowsGrow
  <2> DEFINE x == RowAfterEvent(task[w], row[task[w].id])
  <2>1. /\ task[w].pc = "apply" /\ row[task[w].id].status # "NONE"
        /\ row' = [row EXCEPT ![task[w].id] = x]
    BY <1>2, <1>6 DEF WebhookApply, Holds, Reading
  <2>2. x.status # "NONE" /\ RowFits(x, task[w].id, remote)
    BY <2>1, EventRowFits DEF Whole
  <2> HIDE DEF x
  <2> QED BY <1>2, <1>3, <2>1, <2>2
<1>7. ASSUME NEW w \in Workers, cancelExpiredSubscriptions(w) PROVE RowsFit' /\ RowsGrow
  <2> DEFINE id == task[w].id
             x == RowAfterExpiry(row[id], task[w].at)
  <2>1. id \in RowIds /\ row[id] \in Row /\ row[id].status # "NONE" /\ task[w].at # NoDate
    BY <1>0, <1>2, <1>7 DEF cancelExpiredSubscriptions, Holds
  <2>2. row' = [row EXCEPT ![id] = x]
    BY <1>0, <1>7, <2>1 DEF cancelExpiredSubscriptions
  <2>3. /\ x.status \in {row[id].status, "CANCELED"} /\ Dated(x)
        /\ x.activatedAt = row[id].activatedAt /\ x.trialEndsAt = row[id].trialEndsAt
        /\ x.checkout = row[id].checkout /\ x.subscription = row[id].subscription
        /\ x.customer = row[id].customer
    BY <1>1, <2>1 DEF RowAfterExpiry, Dated, Row, RowFits, Belongs
  <2> HIDE DEF x
  <2>4. RowFits(x, id, remote)
    <3>1. RowFits(row[id], id, remote)
      BY <1>1, <2>1
    <3> HIDE DEF id
    <3> QED BY <2>1, <2>3, <3>1 DEF RowFits, Belongs
  <2> HIDE DEF id
  <2> QED BY <1>3, <2>1, <2>2, <2>3, <2>4
<1>8. ASSUME NEW w \in Workers, ReconcileActivate(w) PROVE RowsFit' /\ RowsGrow
  <2> DEFINE t == task[w]
             x == RowAfterReconciliation(t, row[t.id])
  <2>1. /\ t.id \in Checkouts /\ t.id \in RowIds /\ row[t.id].status # "NONE"
        /\ PaidFor(t.id, remote) /\ row[t.id] \in Row /\ t.at # NoDate
        /\ SameCustomer(t.found, t.id)
    BY <1>0, <1>2, <1>8, ConstantTypes
    DEF ReconcileActivate, Holds, Reading, Fits, SameCustomer
  <2>2. row' = [row EXCEPT ![t.id] = x]
    BY <1>0, <1>8, <2>1 DEF ReconcileActivate
  <2>3. /\ x.status = "ACTIVE" /\ x.activatedAt # NoDate
        /\ x.subscription = t.found /\ x.customer = CustomerOf[t.id]
        /\ x.checkout = row[t.id].checkout /\ x.trialEndsAt = row[t.id].trialEndsAt
    BY <2>1 DEF RowAfterReconciliation, Row, SameCustomer
  <2> HIDE DEF x, t
  <2>4. RowFits(x, t.id, remote)
    BY <1>1, <2>1, <2>3, ConstantTypes DEF RowFits, Belongs, Dated, SameCustomer
  <2> QED BY <1>3, <2>1, <2>2, <2>3, <2>4
<1>9. ASSUME NEW w \in Workers, RenewalCommit(w) PROVE RowsFit' /\ RowsGrow
  <2> DEFINE t == task[w]
             x == [t.row EXCEPT !.createdAt = Cardinality(Rows) + 1]
  <2>1. /\ t.pc = "renew" /\ t.id \in Checkouts /\ row[t.id].status = "NONE"
        /\ remote[t.id].checkout # "none" /\ t.row \in Row
        /\ t.row.status = "CHECKOUT_CREATED" /\ t.row.activatedAt = NoDate
        /\ t.row.trialEndsAt = NoDate /\ t.row.checkout = t.id
        /\ t.row.subscription = NoId /\ t.row.customer = NoId
    BY <1>2, <1>9 DEF RenewalCommit, Holds, Fits
  <2>2. /\ x.status = "CHECKOUT_CREATED" /\ x.activatedAt = NoDate
        /\ x.trialEndsAt = NoDate /\ x.checkout = t.id
        /\ x.subscription = NoId /\ x.customer = NoId
    BY <2>1 DEF Row
  <2>3. /\ row' = [r \in RowIds |-> IF r = t.id THEN x ELSE RowAfterSupersession(row[r])]
        /\ task'[w].pc = "idle"
    BY <1>9 DEF RenewalCommit, Finish, Continue, Idle, Whole, Sound, TypeOK
  <2> HIDE DEF x
  <2>4. RowFits(x, t.id, remote)
    BY <2>1, <2>2 DEF RowFits, Belongs, Dated, SameCustomer
  <2>5. ASSUME NEW r \in RowIds
        PROVE  /\ RowFits(RowAfterSupersession(row[r]), r, remote)
               /\ RowAfterSupersession(row[r]).status = "NONE" <=> row[r].status = "NONE"
    <3>1. RowFits(row[r], r, remote) /\ row[r] \in Row
      BY <1>0, <1>1
    <3>2. CASE row[r].status \in SupersededStatus
      <4> DEFINE y == [row[r] EXCEPT !.status = "CANCELED", !.canceledAt = now]
      <4>1. /\ y.status = "CANCELED" /\ y.canceledAt # NoDate
            /\ y.activatedAt = row[r].activatedAt /\ y.trialEndsAt = row[r].trialEndsAt
            /\ y.checkout = row[r].checkout /\ y.subscription = row[r].subscription
            /\ y.customer = row[r].customer
        BY <1>0, <3>1 DEF Row
      <4>2. row[r].status # "NONE" /\ RowAfterSupersession(row[r]) = y
        BY <3>2 DEF SupersededStatus, RowAfterSupersession
      <4> HIDE DEF y
      <4> QED BY <3>1, <4>1, <4>2 DEF RowFits, Belongs, Dated
    <3>3. CASE row[r].status \notin SupersededStatus
      BY <3>1, <3>3 DEF RowAfterSupersession
    <3> QED BY <3>2, <3>3
  <2>6. \A r \in RowIds : RowFits(row'[r], r, remote')
    BY <2>3, <2>4, <2>5, RowFitsStays
  <2>7. ASSUME NEW r \in RowIds, r # t.id PROVE row'[r].status = "NONE" <=> row[r].status = "NONE"
    BY <2>3, <2>5, <2>7
  <2> QED BY <2>1, <2>6, <2>3, <2>7 DEF RowsFit, RowsGrow
<1>10. ASSUME NEW w \in Workers, CancelCommit(w) PROVE RowsFit' /\ RowsGrow
  <2> DEFINE t == task[w]
             customer == IF t.row.subscription = NoId THEN CustomerOf[t.found]
                         ELSE t.row.customer
             x == [row[t.id] EXCEPT !.subscription = t.found, !.customer = customer,
                                    !.canceledAt = t.at]
  <2>1. /\ t.id \in RowIds /\ row[t.id].status # "NONE" /\ row[t.id] \in Row
        /\ Belongs(t.row, t.id, remote) /\ t.at # NoDate
        /\ t.found \in Checkouts /\ SameCustomer(t.found, t.id)
    BY <1>0, <1>2, <1>10, ConstantTypes DEF CancelCommit, Holds, Reading, Fits
  <2>2. row' = [row EXCEPT ![t.id] = x]
    BY <1>0, <1>10, <2>1 DEF CancelCommit
  <2>3. customer # NoId => t.id \in Checkouts /\ customer = CustomerOf[t.id]
    BY <2>1 DEF Belongs, SameCustomer
  <2> HIDE DEF customer
  <2>4. /\ x.status = row[t.id].status /\ x.activatedAt = row[t.id].activatedAt
        /\ x.trialEndsAt = row[t.id].trialEndsAt /\ x.checkout = row[t.id].checkout
        /\ x.subscription = t.found /\ x.customer = customer /\ x.canceledAt = t.at
    BY <2>1 DEF Row
  <2> HIDE DEF x, t
  <2>5. RowFits(x, t.id, remote)
    <3>1. RowFits(row[t.id], t.id, remote)
      BY <1>1, <2>1
    <3> QED BY <2>1, <2>3, <2>4, <3>1 DEF RowFits, Belongs, Dated
  <2> QED BY <1>3, <2>1, <2>2, <2>4, <2>5
<1> QED BY <1>0, <1>4, <1>5, <1>6, <1>7, <1>8, <1>9, <1>10 DEF RowsWritten

-----------------------------------------------------------------------------
(* The handlers. What one has in hand stays right whatever the others do,   *)
(* and each step hands the next one what it needs.                         *)

LEMMA HoldsStays ==
  ASSUME RemoteGrows, RowsGrow, NEW t, t.id \in RowIds, Holds(t, row, remote),
         t.pc = "renew" => row'[t.id].status = "NONE"
  PROVE  Holds(t, row', remote')
<1>1. t.pc \in Reading => Belongs(t.row, t.id, remote')
  BY BelongsStays DEF Holds
<1>2. t.pc = "activate" => PaidFor(t.id, remote')
  BY PaidForStays DEF Holds
<1>3. row[t.id].status # "NONE" => row'[t.id].status # "NONE"
  BY DEF RowsGrow
<1>4. t.pc = "renew" => remote'[t.id].checkout # "none"
  BY DEF RemoteGrows, Holds
<1> QED BY <1>1, <1>2, <1>3, <1>4 DEF Holds

LEMMA HandlerMoves ==
  ASSUME Whole, RemoteGrows, RowsGrow, NEW w \in Workers, NEW t, Continue(w, t),
         Holds(t, row', remote'),
         t.pc = "renew" =>
           \A v \in Workers : task[v].pc = "renew" => task[v].id # t.id
  PROVE  TasksHold' /\ RenewalsApart'
<1>1. task'[w] = t /\ \A v \in Workers \ {w} : task'[v] = task[v]
  BY DEF Whole, Sound, TypeOK, Continue
<1>2. ASSUME NEW v \in Workers, v # w PROVE Holds(task'[v], row', remote')
  <2>1. task'[v] = task[v] /\ task[v].id \in RowIds /\ Holds(task[v], row, remote)
    BY <1>1, <1>2 DEF Whole, Sound, TypeOK, Task, TasksHold
  <2>2. ASSUME task[v].pc = "renew" PROVE row'[task[v].id].status = "NONE"
    <3>1. row[task[v].id].status = "NONE" /\ task[v].id # TrialRow
      BY <2>1, <2>2, ConstantTypes DEF Holds
    <3>2. ASSUME NEW u \in Workers, task[u].pc = "renew", task[u].id = task[v].id,
                 task'[u].pc = "idle"
          PROVE  FALSE
      BY <2>1, <2>2, <3>2 DEF Whole, RenewalsApart
    <3> QED BY <2>1, <3>1, <3>2, ZenonT(30) DEF RowsGrow
  <2> QED BY <2>1, <2>2, HoldsStays
<1>3. TasksHold'
  <2>1. \A v \in Workers : Holds(task'[v], row', remote')
    BY <1>1, <1>2
  <2> QED BY <2>1 DEF TasksHold
<1>4. RenewalsApart'
  BY <1>1 DEF Whole, RenewalsApart
<1> QED BY <1>3, <1>4

LEMMA HandlersStay ==
  ASSUME Whole, RemoteGrows, RowsGrow, UNCHANGED task
  PROVE  TasksHold' /\ RenewalsApart'
<1>1. ASSUME NEW v \in Workers PROVE Holds(task[v], row', remote')
  <2>1. task[v].id \in RowIds /\ Holds(task[v], row, remote)
    BY DEF Whole, Sound, TypeOK, Task, TasksHold
  <2>2. ASSUME task[v].pc = "renew" PROVE row'[task[v].id].status = "NONE"
    <3>1. row[task[v].id].status = "NONE" /\ task[v].id # TrialRow
      BY <2>1, <2>2, ConstantTypes DEF Holds
    <3> QED BY <2>1, <3>1 DEF RowsGrow
  <2> QED BY <2>1, <2>2, HoldsStays
<1>2. TasksHold'
  <2>1. \A v \in Workers : Holds(task'[v], row', remote')
    BY <1>1
  <2> QED BY <2>1 DEF TasksHold
<1> QED BY <1>2 DEF Whole, RenewalsApart

LEMMA HandlerEnds ==
  ASSUME Whole, RemoteGrows, RowsGrow, NEW w \in Workers, Finish(w)
  PROVE  TasksHold' /\ RenewalsApart'
<1>1. Holds(Idle, row', remote') /\ Idle.pc = "idle"
  BY DEF Idle, Holds, Reading
<1> QED BY <1>1, HandlerMoves DEF Finish

LEMMA ExpiryBegins ==
  ASSUME Whole, RemoteGrows, RowsGrow, NEW w \in Workers, NEW login,
         BeginExpiry(w, login)
  PROVE  TasksHold' /\ RenewalsApart'
<1>1. PICK r \in ActiveRows :
        Continue(w, [Idle EXCEPT !.pc = "expire", !.id = r, !.row = row[r],
                                 !.at = now, !.login = login])
  BY DEF BeginExpiry, EndedSubscription, LatestActivated, Newest
<1> DEFINE t == [Idle EXCEPT !.pc = "expire", !.id = r, !.row = row[r],
                             !.at = now, !.login = login]
<1>2. t.pc = "expire" /\ t.id = r
  BY IdleType DEF Task
<1>3. row'[r].status # "NONE"
  BY DEF RowsGrow, ActiveRows
<1> HIDE DEF t
<1>4. Holds(t, row', remote')
  BY <1>2, <1>3 DEF Holds, Reading
<1> QED BY <1>1, <1>2, <1>4, HandlerMoves DEF t

LEMMA ReconciliationBegins ==
  ASSUME Whole, RemoteGrows, RowsGrow, NEW w \in Workers, NEW r \in RowIds, NEW login,
         login \/ row[r].status # "NONE", BeginReconciliation(w, r, login)
  PROVE  TasksHold' /\ RenewalsApart'
<1> DEFINE t == [Idle EXCEPT !.pc = "reconcile", !.id = r, !.login = login, !.at = now]
<1>1. t.pc = "reconcile" /\ t.id = r /\ t.login = login
  BY IdleType DEF Task
<1>2. login \/ row'[r].status # "NONE"
  BY DEF RowsGrow
<1> HIDE DEF t
<1>3. Holds(t, row', remote')
  BY <1>1, <1>2 DEF Holds, Reading
<1> QED BY <1>1, <1>3, HandlerMoves DEF t, BeginReconciliation

\* The row the webhook finds is of the customer that the event is about.
LEMMA FoundIsOfCustomer ==
  ASSUME Whole, NEW e \in sent, NEW r \in findSubscriptionForEvent(e)
  PROVE  /\ r \in Rows /\ SameCustomer(e.checkout, r)
<1>1. e.checkout \in Checkouts /\ CustomerOf[e.checkout] # NoId
  BY CustomerAssumption DEF Whole, Sound, TypeOK, Event
<1>2. \A o \in RowIds : Belongs(row[o], o, remote)
  BY DEF Whole, RowsFit, RowFits
<1>3. Rows \subseteq RowIds
  BY DEF Rows
<1>4. r \in Rows /\ \/ row[r].subscription = e.checkout
                    \/ row[r].checkout = e.checkout
                    \/ row[r].customer = CustomerOf[e.checkout]
  BY DEF findSubscriptionForEvent, Newest
<1> QED BY <1>1, <1>2, <1>3, <1>4, ConstantTypes DEF Belongs, SameCustomer

LEMMA WebhookHolds ==
  ASSUME Whole, RemoteGrows, RowsGrow, NEW w \in Workers, UNCHANGED <<row, remote>>,
         \/ \E e \in sent : WebhookReceive(w, e)
         \/ recoverRemoteSubscriptionForEvent(w)
  PROVE  TasksHold' /\ RenewalsApart'
<1>1. ASSUME NEW e \in sent, WebhookReceive(w, e) PROVE TasksHold' /\ RenewalsApart'
  <2>1. CASE UNCHANGED task
    BY <2>1, HandlersStay
  <2>2. CASE ~UNCHANGED task
    <3>1. PICK r \in findSubscriptionForEvent(e), pc \in {"apply", "recover"},
               found \in {NoId, e.checkout} :
            Continue(w, [Idle EXCEPT !.pc = pc, !.id = r, !.row = row[r],
                                     !.event = e, !.found = found, !.at = now])
      BY <1>1, <2>2 DEF WebhookReceive
    <3> DEFINE t == [Idle EXCEPT !.pc = pc, !.id = r, !.row = row[r],
                                 !.event = e, !.found = found, !.at = now]
    <3>2. /\ t.pc = pc /\ t.id = r /\ t.row = row[r]
          /\ t.event = e /\ t.found = found
      BY IdleType DEF Task
    <3>3. r \in Rows /\ SameCustomer(e.checkout, r)
      BY FoundIsOfCustomer
    <3>4. Belongs(row[r], r, remote) /\ row[r].status # "NONE"
      BY <3>3 DEF Whole, RowsFit, RowFits, Rows
    <3> HIDE DEF t
    <3>5. Holds(t, row, remote)
      BY <3>2, <3>3, <3>4 DEF Holds
    <3> QED BY <3>1, <3>2, <3>5, HandlerMoves DEF t
  <2> QED BY <2>1, <2>2
<1>2. ASSUME recoverRemoteSubscriptionForEvent(w) PROVE TasksHold' /\ RenewalsApart'
  <2> DEFINE s == task[w]
             t(found) == [s EXCEPT !.pc = "apply", !.found = found]
  <2>1. PICK found \in {NoId, s.event.checkout} : Continue(w, t(found))
    BY <1>2 DEF recoverRemoteSubscriptionForEvent
  <2>2. s.pc = "recover" /\ s \in Task /\ Holds(s, row, remote)
    BY <1>2 DEF recoverRemoteSubscriptionForEvent, Whole, Sound, TypeOK, TasksHold
  <2>3. /\ t(found).pc = "apply" /\ t(found).id = s.id /\ t(found).row = s.row
        /\ t(found).event = s.event /\ t(found).found = found
    BY <2>2 DEF Task
  <2> HIDE DEF t, s
  <2>4. Holds(t(found), row, remote)
    BY <2>2, <2>3 DEF Holds, Reading
  <2> QED BY <2>1, <2>3, <2>4, HandlerMoves
<1> QED BY <1>1, <1>2

LEMMA ReconciliationHolds ==
  ASSUME Whole, RemoteGrows, RowsGrow, NEW w \in Workers, UNCHANGED <<row, remote>>,
         ReconcileRead(w) \/ ReconcileLookup(w)
  PROVE  TasksHold' /\ RenewalsApart'
<1> DEFINE s == task[w]
<1>0. s \in Task /\ Holds(s, row, remote) /\ Fits(s, recorded)
  BY DEF Whole, Sound, TypeOK, TasksHold, HandlersFit
<1>1. ASSUME ReconcileRead(w) PROVE TasksHold' /\ RenewalsApart'
  <2>1. CASE Finish(w)
    BY <2>1, HandlerEnds
  <2>2. CASE ~Finish(w)
    <3>1. PICK r \in ReconciliationCandidates(s) :
            Continue(w, [s EXCEPT !.pc = "lookup", !.id = r, !.row = row[r], !.at = now])
      BY <1>1, <2>2 DEF ReconcileRead
    <3> DEFINE t == [s EXCEPT !.pc = "lookup", !.id = r, !.row = row[r], !.at = now]
    <3>2. r \in RowIds /\ row[r].status # "NONE"
      <4>1. CASE s.login
        BY <4>1 DEF ReconciliationCandidates, Newest, Rows
      <4>2. CASE ~s.login
        BY <1>0, <1>1, <3>1, <4>2 DEF ReconciliationCandidates, ReconcileRead, Holds, Task
      <4> QED BY <4>1, <4>2
    <3>3. t.pc = "lookup" /\ t.id = r /\ t.row = row[r]
      BY <1>0 DEF Task
    <3>4. Belongs(row[r], r, remote)
      BY <3>2 DEF Whole, RowsFit, RowFits
    <3> HIDE DEF t
    <3>5. Holds(t, row, remote)
      BY <3>2, <3>3, <3>4 DEF Holds, Reading
    <3> QED BY <3>1, <3>3, <3>5, HandlerMoves DEF t
  <2> QED BY <2>1, <2>2
<1>2. ASSUME ReconcileLookup(w) PROVE TasksHold' /\ RenewalsApart'
  <2>1. CASE Finish(w)
    BY <2>1, HandlerEnds
  <2>2. CASE ~Finish(w)
    <3> DEFINE i == s.row.checkout
               t == [s EXCEPT !.pc = "activate", !.found = i]
    <3>1. Continue(w, t) /\ s.pc = "lookup" /\ remote[i].subscription = "active"
      BY <1>2, <2>2 DEF ReconcileLookup
    <3>2. t.pc = "activate" /\ t.id = s.id /\ t.row = s.row /\ t.found = i
      BY <1>0 DEF Task
    <3>3. SameCustomer(i, s.id)
      BY <1>0, <3>1, ConstantTypes DEF Fits, Holds, Reading, Belongs
    <3>4. PaidFor(s.id, remote)
      BY <3>1, <3>3 DEF Whole, RemoteFits, PaidFor, SameCustomer
    <3> HIDE DEF t, i, s
    <3>5. Holds(t, row, remote)
      BY <1>0, <3>1, <3>2, <3>3, <3>4 DEF Holds, Reading
    <3> QED BY <3>1, <3>2, <3>5, HandlerMoves
  <2> QED BY <2>1, <2>2
<1> QED BY <1>1, <1>2

LEMMA RenewalHolds ==
  ASSUME Whole, RemoteGrows, RowsGrow, NEW w \in Workers, UNCHANGED row,
         NEW months \in CommitmentOptions, createRecurringCheckout(w, months)
  PROVE  TasksHold' /\ RenewalsApart'
<1>1. PICK i \in UnusedCheckouts :
        /\ remote' = [remote EXCEPT ![i] =
                        [@ EXCEPT !.checkout = "open", !.expiresAt = now + CheckoutTtl]]
        /\ Continue(w, [Idle EXCEPT !.pc = "renew", !.id = i,
                           !.row = CheckoutRow(i, now + CheckoutTtl, months), !.at = now])
  BY DEF createRecurringCheckout
<1> DEFINE x == CheckoutRow(i, now + CheckoutTtl, months)
           t == [Idle EXCEPT !.pc = "renew", !.id = i, !.row = x, !.at = now]
<1>2. /\ i \in Checkouts /\ remote[i].checkout = "none" /\ remote'[i].checkout # "none"
  BY <1>1 DEF UnusedCheckouts, Whole, Sound, TypeOK, Remote
<1>3. t.pc = "renew" /\ t.id = i /\ t.row = x
  BY IdleType DEF Task
<1>4. /\ x.activatedAt = NoDate /\ x.canceledAt = NoDate /\ x.trialEndsAt = NoDate
      /\ x.checkout = i /\ x.subscription = NoId /\ x.customer = NoId
  BY NoRowType DEF CheckoutRow, NoRow, Row
<1>5. row'[i].status = "NONE"
  BY <1>2, ConstantTypes DEF Whole, RowsFit, RowFits
<1>6. \A v \in Workers : task[v].pc = "renew" => task[v].id # i
  BY <1>2 DEF Whole, TasksHold, Holds
<1> HIDE DEF t, x
<1>7. Holds(t, row', remote')
  BY <1>2, <1>3, <1>4, <1>5 DEF Holds, Reading
<1> QED BY <1>1, <1>3, <1>6, <1>7, HandlerMoves DEF t, x

LEMMA CancellationHolds ==
  ASSUME Whole, RemoteGrows, RowsGrow, NEW w \in Workers, UNCHANGED row,
         cancelAgencySubscription(w) \/ cancelSubscription(w)
  PROVE  TasksHold' /\ RenewalsApart'
<1>1. ASSUME cancelAgencySubscription(w) PROVE TasksHold' /\ RenewalsApart'
  <2>0. PICK r \in ActiveRows : \E i \in resolveRemoteAsaasSubscription(r) :
          Continue(w, [Idle EXCEPT !.pc = "delete", !.id = r, !.row = row[r],
                                   !.found = i, !.at = now])
    BY <1>1 DEF cancelAgencySubscription, LatestActivated, Newest
  <2>1. PICK i \in resolveRemoteAsaasSubscription(r) :
          Continue(w, [Idle EXCEPT !.pc = "delete", !.id = r, !.row = row[r],
                                   !.found = i, !.at = now])
    BY <2>0
  <2> DEFINE t == [Idle EXCEPT !.pc = "delete", !.id = r, !.row = row[r],
                               !.found = i, !.at = now]
  <2>2. t.pc = "delete" /\ t.id = r /\ t.row = row[r] /\ t.found = i
    BY IdleType DEF Task
  <2>3. r \in RowIds /\ row[r].status # "NONE" /\ Belongs(row[r], r, remote)
    BY DEF ActiveRows, Whole, RowsFit, RowFits
  <2>4. SameCustomer(i, r)
    <3>1. \/ i = row[r].subscription /\ i # NoId
          \/ i = row[r].checkout /\ i # NoId
      BY ConstantTypes DEF resolveRemoteAsaasSubscription
    <3> QED BY <2>3, <3>1 DEF Belongs
  <2>5. Belongs(row[r], r, remote')
    BY <2>3, BelongsStays
  <2> HIDE DEF t
  <2>6. Holds(t, row', remote')
    BY <2>2, <2>3, <2>4, <2>5 DEF Holds, Reading
  <2> QED BY <2>1, <2>2, <2>6, HandlerMoves DEF t
<1>2. ASSUME cancelSubscription(w) PROVE TasksHold' /\ RenewalsApart'
  <2> DEFINE s == task[w]
             t == [s EXCEPT !.pc = "cancel"]
  <2>1. Continue(w, t) /\ s.pc = "delete" /\ s \in Task /\ Holds(s, row, remote)
    BY <1>2 DEF cancelSubscription, Whole, Sound, TypeOK, TasksHold
  <2>2. t.pc = "cancel" /\ t.id = s.id /\ t.row = s.row /\ t.found = s.found
    BY <2>1 DEF Task
  <2>3. Belongs(s.row, s.id, remote')
    BY <2>1, BelongsStays DEF Holds, Reading
  <2> HIDE DEF t, s
  <2>4. Holds(t, row', remote')
    BY <2>1, <2>2, <2>3 DEF Holds, Reading
  <2> QED BY <2>1, <2>2, <2>4, HandlerMoves
<1> QED BY <1>1, <1>2

LEMMA TasksStep ==
  ASSUME Whole, [Next]_vars, RemoteGrows, RowsGrow
  PROVE  TasksHold' /\ RenewalsApart'
<1>1. ASSUME NEW w \in Workers, Start(w) PROVE TasksHold' /\ RenewalsApart'
  <2>1. CASE \/ \E active \in BOOLEAN : updateAgencyStatus(w, active)
             \/ \E e \in sent : WebhookDuplicate(w, e)
    BY <2>1, HandlersStay DEF updateAgencyStatus, WebhookDuplicate, vars
  <2>2. CASE \E e \in sent : WebhookReceive(w, e)
    BY <2>2, WebhookHolds DEF WebhookReceive
  <2>3. CASE RequestAccess(w) \/ deactivateExpiredSubscriptions(w) \/ Login(w)
    <3>1. BeginExpiry(w, FALSE) \/ BeginExpiry(w, TRUE)
          \/ BeginReconciliation(w, TrialRow, TRUE)
      BY <2>3 DEF RequestAccess, deactivateExpiredSubscriptions, Login
    <3> QED BY <3>1, ExpiryBegins, ReconciliationBegins
  <2>4. CASE \E i \in Checkouts : getSignupSession(w, i)
    BY <2>4, ReconciliationBegins DEF getSignupSession, Rows
  <2>5. CASE \E months \in CommitmentOptions : createRecurringCheckout(w, months)
    BY <2>5, RenewalHolds DEF createRecurringCheckout
  <2>6. CASE cancelAgencySubscription(w)
    BY <2>6, CancellationHolds DEF cancelAgencySubscription
  <2> QED BY <1>1, <2>1, <2>2, <2>3, <2>4, <2>5, <2>6 DEF Start
<1>2. ASSUME NEW w \in Workers, Proceed(w) PROVE TasksHold' /\ RenewalsApart'
  <2>1. CASE recoverRemoteSubscriptionForEvent(w)
    BY <2>1, WebhookHolds DEF recoverRemoteSubscriptionForEvent
  <2>2. CASE WebhookApply(w) \/ RenewalCommit(w) \/ CancelCommit(w) \/ UniqueViolation(w)
    BY <2>2, HandlerEnds DEF WebhookApply, RenewalCommit, CancelCommit, UniqueViolation
  <2>3. CASE cancelExpiredSubscriptions(w)
    BY <2>3, HandlerEnds, ReconciliationBegins DEF cancelExpiredSubscriptions
  <2>4. CASE ReconcileRead(w) \/ ReconcileLookup(w)
    BY <2>4, ReconciliationHolds DEF ReconcileRead, ReconcileLookup
  <2>5. CASE ReconcileActivate(w)
    <3> DEFINE t == [Idle EXCEPT !.pc = "ensure", !.at = now]
    <3>1. t.pc = "ensure"
      BY IdleType DEF Task
    <3>2. Finish(w) \/ Continue(w, t)
      BY <2>5 DEF ReconcileActivate
    <3> HIDE DEF t
    <3>3. Holds(t, row', remote')
      BY <3>1 DEF Holds, Reading
    <3> QED BY <3>1, <3>2, <3>3, HandlerEnds, HandlerMoves
  <2>6. CASE LoginEnsureAgain(w)
    BY <2>6, HandlerEnds, ExpiryBegins DEF LoginEnsureAgain
  <2>7. CASE cancelSubscription(w)
    BY <2>7, CancellationHolds DEF cancelSubscription
  <2> QED BY <1>2, <2>1, <2>2, <2>3, <2>4, <2>5, <2>6, <2>7 DEF Proceed
<1>3. ASSUME NEW w \in Workers, Abort(w) PROVE TasksHold' /\ RenewalsApart'
  BY <1>3, HandlerEnds DEF Abort
<1>4. ASSUME \/ \E months \in CommitmentOptions : createAgencySignup(months)
             \/ createAgency \/ Asaas \/ Tick \/ UNCHANGED vars
      PROVE  TasksHold' /\ RenewalsApart'
  BY <1>4, HandlersStay DEF createAgencySignup, createAgency, Asaas, Tick, vars
<1> QED BY <1>1, <1>2, <1>3, <1>4 DEF Next

-----------------------------------------------------------------------------
(* The whole invariant, and the properties it implies.                      *)

LEMMA AgencyStays == [Next]_vars /\ agency # "absent" => agency' # "absent"
<1>1. \A active, by : SetAgency(active, by) => agency' # "absent"
  BY DEF SetAgency
<1>2. ASSUME NEW w \in Workers, Start(w) PROVE agency # "absent" => agency' # "absent"
  BY <1>1, <1>2
  DEF Start, updateAgencyStatus, WebhookReceive, WebhookDuplicate, vars, RequestAccess,
      deactivateExpiredSubscriptions, Login, getSignupSession,
      createRecurringCheckout, cancelAgencySubscription
<1>3. ASSUME NEW w \in Workers, Proceed(w) PROVE agency # "absent" => agency' # "absent"
  BY <1>1, <1>3
  DEF Proceed, recoverRemoteSubscriptionForEvent, WebhookApply,
      cancelExpiredSubscriptions, DeactivateAgency, ReconcileRead, ReconcileLookup,
      ReconcileActivate, LoginEnsureAgain, RenewalCommit, cancelSubscription,
      CancelCommit, UniqueViolation
<1>4. ASSUME \/ \E months \in CommitmentOptions : createAgencySignup(months)
             \/ createAgency \/ (\E w \in Workers : Abort(w)) \/ Asaas \/ Tick
             \/ UNCHANGED vars
      PROVE  agency # "absent" => agency' # "absent"
  BY <1>1, <1>4 DEF createAgencySignup, createAgency, Abort, Asaas, Tick, vars
<1> QED BY <1>2, <1>3, <1>4 DEF Next

LEMMA InitWhole == Init => Whole
<1> SUFFICES ASSUME Init PROVE Whole
  OBVIOUS
<1>1. RowFits(NoRow, TrialRow, remote) /\ NoRow.status = "NONE"
      /\ \A r \in Checkouts : RowFits(NoRow, r, remote)
  BY DEF NoRow, RowFits, Belongs, Dated
<1>2. RowsFit /\ TrialFits
  BY <1>1 DEF Init, RowsFit, TrialFits
<1>3. \A w \in Workers : task[w] = Idle
  BY DEF Init
<1>4. Holds(Idle, row, remote) /\ Idle.pc = "idle"
  BY DEF Idle, Holds, Reading
<1>5. TasksHold
  BY <1>3, <1>4 DEF TasksHold
<1>6. RenewalsApart
  BY <1>3, <1>4 DEF RenewalsApart
<1>7. RemoteFits
  BY DEF Init, NoRemote, RemoteFits
<1> QED BY <1>2, <1>5, <1>6, <1>7, InitSound DEF Whole

LEMMA WholeStep == Whole /\ [Next]_vars => Whole'
<1> SUFFICES ASSUME Whole, [Next]_vars PROVE Whole'
  OBVIOUS
<1>1. Sound'
  BY SoundStep DEF Whole
<1>2. RemoteFits' /\ RemoteGrows
  BY RemoteStep DEF Whole
<1>3. RowsFit' /\ RowsGrow
  BY <1>2, RowsStep
<1>4. TasksHold' /\ RenewalsApart'
  BY <1>2, <1>3, TasksStep
<1>5. TrialFits'
  <2>1. ASSUME agency' = "absent", row'[TrialRow].status # "NONE" PROVE FALSE
    <3>1. row[TrialRow].status = "NONE"
      BY <2>1, AgencyStays DEF Whole, TrialFits
    <3>2. PICK w \in Workers : task[w].pc = "renew" /\ task[w].id = TrialRow
      BY <1>3, <2>1, <3>1 DEF RowsGrow
    <3> QED BY <3>2, ConstantTypes DEF Whole, TasksHold, Holds
  <2> QED BY <2>1 DEF TrialFits
<1> QED BY <1>1, <1>2, <1>3, <1>4, <1>5 DEF Whole

LEMMA SpecWhole == Spec => []Whole
  BY InitWhole, WholeStep, PTL DEF Spec

\* Whatever mixes of events, reconciliations and renewals run side by side, and
\* with the payments that the webhook files under the customer's newest row,
\* nothing is activated for a customer who has paid nothing.
THEOREM PaymentPrecedesActivation == Spec => []PaidBeforeActivated
<1>1. Whole => PaidBeforeActivated
  BY ConstantTypes
  DEF Whole, RowsFit, RowFits, Belongs, PaidFor, SameCustomer, PaidBeforeActivated
<1> QED BY <1>1, SpecWhole, PTL

-----------------------------------------------------------------------------
(* What no handler undoes with fresh eyes.                                  *)

\* One transaction that writes one row takes a cancellation back, or it does not.
LEMMA CancellationStep ==
  ASSUME Whole, [Next]_vars, NEW r \in RowIds,
         row[r].canceledAt # NoDate, row'[r].canceledAt = NoDate
  PROVE  \E w \in Workers : TakesCancellationBack(w, r)
<1>0. row \in [RowIds -> Row] /\ now \in Nat /\ RowsWritten
  BY ConstantTypes, RowWriters DEF Whole, Sound, TypeOK
<1>1. row[r].status # "NONE"
  BY DEF Whole, RowsFit, RowFits, NoRow
<1>2. ASSUME NEW w \in Workers
      PROVE  /\ task[w] \in Task /\ task[w].id \in RowIds
             /\ task[w].at \in Nat /\ Holds(task[w], row, remote)
  BY DEF Whole, Sound, TypeOK, TasksHold, Task
<1>3. CASE KeepsRows
  BY <1>3 DEF KeepsRows
<1>4. ASSUME NEW months \in CommitmentOptions, agency = "absent",
             row' = [row EXCEPT ![TrialRow] = TrialRowAt(months)]
      PROVE  FALSE
  BY <1>0, <1>1, <1>4 DEF Whole, TrialFits
<1>5. ASSUME NEW w \in Workers, WebhookApply(w) PROVE TakesCancellationBack(w, r)
  <2> DEFINE t == task[w]
             x == RowAfterEvent(t, row[t.id])
  <2>1. /\ row' = [row EXCEPT ![t.id] = x] /\ t.pc = "apply"
    BY <1>5 DEF WebhookApply
  <2>2. x.canceledAt
          = nextCanceledAt(t.row.activatedAt, t.row.canceledAt, t.event.name, now)
    BY <1>0, <1>2 DEF RowAfterEvent, Row
  <2> HIDE DEF x
  <2>3. t.id = r /\ x.canceledAt = NoDate
    BY <1>0, <2>1
  <2>4. t.row.canceledAt = NoDate
    BY <1>0, <2>2, <2>3 DEF nextCanceledAt
  <2> QED BY <2>1, <2>3, <2>4 DEF TakesCancellationBack
<1>6. ASSUME NEW w \in Workers, cancelExpiredSubscriptions(w) PROVE FALSE
  BY <1>0, <1>2, <1>6 DEF cancelExpiredSubscriptions, RowAfterExpiry, Row
<1>7. ASSUME NEW w \in Workers, ReconcileActivate(w) PROVE TakesCancellationBack(w, r)
  BY <1>0, <1>2, <1>7 DEF ReconcileActivate, TakesCancellationBack
<1>8. ASSUME NEW w \in Workers, RenewalCommit(w) PROVE FALSE
  <2>1. task[w].id # r
    BY <1>1, <1>2, <1>8 DEF RenewalCommit, Holds
  <2>2. row'[r] = RowAfterSupersession(row[r])
    BY <1>8, <2>1 DEF RenewalCommit
  <2>3. row[r] \in Row
    BY <1>0
  <2> QED BY <1>0, <2>2, <2>3 DEF RowAfterSupersession, Row
<1>9. ASSUME NEW w \in Workers, CancelCommit(w) PROVE FALSE
  BY <1>0, <1>2, <1>9 DEF CancelCommit, Row
<1> QED BY <1>0, <1>3, <1>4, <1>5, <1>6, <1>7, <1>8, <1>9 DEF RowsWritten

\* A cancellation, whoever wrote it, is undone only by the reconciliation of a
\* paid checkout or by a webhook that had read the row before it.
THEOREM CancellationStays == Spec => CancellationUndoneOnlyByStaleRead
<1>1. Whole /\ [Next]_vars =>
        [\A r \in RowIds :
           row[r].canceledAt # NoDate /\ row'[r].canceledAt = NoDate
             => \E w \in Workers : TakesCancellationBack(w, r)]_row
  BY CancellationStep
<1> QED BY <1>1, SpecWhole, PTL DEF Spec, CancellationUndoneOnlyByStaleRead

LEMMA ActivationStep ==
  ASSUME Whole, [Next]_vars, NEW r \in RowIds, row[r].activatedAt # NoDate
  PROVE  StaysActivated(r) \/ \E w \in Workers : ReadIsStale(w, r)
<1>0. /\ row \in [RowIds -> Row] /\ RowsWritten /\ Sound
      /\ RowFits(row[r], r, remote) /\ row[r] \in Row
  BY RowWriters DEF Whole, RowsFit, Sound, TypeOK
<1>1. row[r].status \notin {"NONE", "CHECKOUT_CREATED", "CHECKOUT_EXPIRED"}
  BY <1>0 DEF RowFits, Belongs, NoRow
<1>2. ASSUME NEW w \in Workers
      PROVE  /\ task[w] \in Task /\ task[w].id \in RowIds
             /\ Holds(task[w], row, remote)
  BY DEF Whole, Sound, TypeOK, TasksHold, Task
<1>3. CASE row'[r] = row[r]
  BY <1>1, <1>3 DEF StaysActivated
<1>4. ASSUME NEW months \in CommitmentOptions, agency = "absent",
             row' = [row EXCEPT ![TrialRow] = TrialRowAt(months)]
      PROVE  row'[r] = row[r]
  BY <1>0, <1>1, <1>4 DEF Whole, TrialFits
<1>5. ASSUME NEW w \in Workers, WebhookApply(w), row'[r] # row[r],
             task[w].row.activatedAt = row[r].activatedAt
      PROVE  StaysActivated(r)
  <2> DEFINE t == task[w]
             x == RowAfterEvent(t, row[t.id])
             status == nextStatus(t.row.status, t.row.activatedAt, t.event.name)
  <2>1. row' = [row EXCEPT ![t.id] = x]
    BY <1>5 DEF WebhookApply
  <2>2. x.status = status /\ x.activatedAt = ActivationDate(t, status)
    BY <1>0, <1>2 DEF RowAfterEvent, Row
  <2>3. status \notin {"CHECKOUT_CREATED", "CHECKOUT_EXPIRED"}
    BY <1>5 DEF nextStatus, KeepsAccess, PreservesActiveAccess, HasActivatedAccess
  <2> HIDE DEF x, status
  <2>4. t.id = r /\ row'[r] = x
    BY <1>0, <1>2, <1>5, <2>1
  <2>5. x.activatedAt = row[r].activatedAt
    BY <1>5, <2>2 DEF ActivationDate
  <2> QED BY <2>2, <2>3, <2>4, <2>5 DEF StaysActivated
<1>6. ASSUME NEW w \in Workers, cancelExpiredSubscriptions(w) PROVE StaysActivated(r)
  BY <1>0, <1>1, <1>2, <1>6
  DEF cancelExpiredSubscriptions, RowAfterExpiry, Row, StaysActivated
<1>7. ASSUME NEW w \in Workers, ReconcileActivate(w), row'[r] # row[r],
             task[w].row.activatedAt = row[r].activatedAt
      PROVE  StaysActivated(r)
  <2>1. task[w].id = r
    BY <1>0, <1>2, <1>7 DEF ReconcileActivate
  <2>2. row'[r] = RowAfterReconciliation(task[w], row[r])
    BY <1>0, <1>7, <2>1 DEF ReconcileActivate
  <2> QED BY <1>0, <1>7, <2>2 DEF RowAfterReconciliation, Row, StaysActivated
<1>8. ASSUME NEW w \in Workers, RenewalCommit(w) PROVE StaysActivated(r)
  <2>1. task[w].id # r
    BY <1>1, <1>2, <1>8 DEF RenewalCommit, Holds
  <2>2. row'[r] = RowAfterSupersession(row[r])
    BY <1>8, <2>1 DEF RenewalCommit
  <2> QED BY <1>0, <1>1, <2>2 DEF RowAfterSupersession, Row, StaysActivated
<1>9. ASSUME NEW w \in Workers, CancelCommit(w) PROVE StaysActivated(r)
  BY <1>0, <1>1, <1>2, <1>9 DEF CancelCommit, Row, StaysActivated
<1>10. ASSUME NEW w \in Workers, WebhookApply(w) \/ ReconcileActivate(w), row'[r] # row[r]
       PROVE  task[w].pc \in {"apply", "activate"} /\ task[w].id = r
  BY <1>0, <1>2, <1>10 DEF WebhookApply, ReconcileActivate
<1>11. ASSUME NEW w \in Workers, WebhookApply(w) \/ ReconcileActivate(w), row'[r] # row[r]
       PROVE  StaysActivated(r) \/ ReadIsStale(w, r)
  BY <1>5, <1>7, <1>10, <1>11 DEF ReadIsStale
<1>12. CASE KeepsRows
  BY <1>3, <1>12 DEF KeepsRows
<1> QED
  BY <1>0, <1>3, <1>4, <1>6, <1>8, <1>9, <1>11, <1>12 DEF RowsWritten

\* An activation is undone only by a webhook or a reconciliation that had read
\* another date than the one it overwrites.
THEOREM ActivationStays == Spec => ActivationUndoneOnlyByStaleRead
<1>1. Whole /\ [Next]_vars =>
        [\A r \in RowIds :
           row[r].activatedAt # NoDate
             => StaysActivated(r) \/ \E w \in Workers : ReadIsStale(w, r)]_row
  BY ActivationStep
<1> QED BY <1>1, SpecWhole, PTL DEF Spec, ActivationUndoneOnlyByStaleRead

-----------------------------------------------------------------------------
(* What an expiry has in hand. No other handler writes the row of the trial, *)
(* and the end of a paid row, as it was read, lies a cycle or more after the *)
(* activation it was read with.                                            *)

TrialHolds ==
  /\ row[TrialRow].status = "ACTIVE" =>
       row[TrialRow].canceledAt = NoDate /\ row[TrialRow].trialEndsAt # NoDate
  /\ \A w \in Workers : task[w].pc = "expire" /\ task[w].id = TrialRow
                          => row[TrialRow].trialEndsAt <= now
CycleHolds ==
  \A w \in Workers :
    task[w].pc = "expire" /\ task[w].id # TrialRow
      => addMonths(task[w].row.activatedAt, BillingCycleMonths) <= now

LEMMA ExpiryTasks ==
  ASSUME Sound, [Next]_vars, NEW w \in Workers, task'[w].pc = "expire"
  PROVE  \/ task'[w] = task[w]
         \/ UNCHANGED <<row, now>> /\ \E login \in BOOLEAN : BeginExpiry(w, login)
<1> SUFFICES ASSUME task'[w] # task[w]
             PROVE  UNCHANGED <<row, now>> /\ \E login \in BOOLEAN : BeginExpiry(w, login)
  OBVIOUS
<1>0. task \in [Workers -> Task] /\ Idle \in Task /\ Idle.pc = "idle"
  BY IdleType DEF Sound, TypeOK, Idle
<1>1. ASSUME NEW v \in Workers, NEW t \in Task, Continue(v, t) PROVE v = w /\ task'[w] = t
  BY <1>0, <1>1 DEF Continue
<1>2. ASSUME NEW v \in Workers, Finish(v) PROVE FALSE
  BY <1>0, <1>1, <1>2 DEF Finish
<1>3. ASSUME NEW v \in Workers, NEW r, NEW login, BeginReconciliation(v, r, login)
      PROVE  FALSE
  <2> DEFINE t == [Idle EXCEPT !.pc = "reconcile", !.id = r, !.login = login, !.at = now]
  <2>1. t.pc = "reconcile"
    BY <1>0 DEF Task
  <2>2. task'[v] = t /\ \A o \in Workers \ {v} : task'[o] = task[o]
    BY <1>0, <1>3 DEF BeginReconciliation, Continue
  <2> QED BY <2>1, <2>2
<1>4. ASSUME NEW v \in Workers, NEW login, BeginExpiry(v, login) PROVE v = w
  BY <1>0, <1>4 DEF BeginExpiry, Continue
<1>5. ASSUME NEW v \in Workers, NEW t, t.pc # "expire", Continue(v, t) PROVE FALSE
  BY <1>0, <1>5 DEF Continue
<1>6. ASSUME NEW v \in Workers, Start(v)
      PROVE  UNCHANGED <<row, now>> /\ \E login \in BOOLEAN : BeginExpiry(w, login)
  <2>1. CASE \/ \E active \in BOOLEAN : updateAgencyStatus(v, active)
             \/ \E e \in sent : WebhookDuplicate(v, e)
    BY <2>1 DEF updateAgencyStatus, WebhookDuplicate, vars
  <2>2. ASSUME NEW e \in sent, WebhookReceive(v, e) PROVE FALSE
    <3>1. PICK r \in findSubscriptionForEvent(e), pc \in {"apply", "recover"},
               found \in {NoId, e.checkout} :
            Continue(v, [Idle EXCEPT !.pc = pc, !.id = r, !.row = row[r],
                                     !.event = e, !.found = found, !.at = now])
      BY <2>2 DEF WebhookReceive
    <3>2. [Idle EXCEPT !.pc = pc, !.id = r, !.row = row[r],
                       !.event = e, !.found = found, !.at = now].pc = pc
      BY <1>0 DEF Task
    <3> QED BY <1>5, <3>1, <3>2
  <2>3. CASE RequestAccess(v) \/ deactivateExpiredSubscriptions(v) \/ Login(v)
    BY <1>3, <1>4, <2>3 DEF RequestAccess, deactivateExpiredSubscriptions, Login
  <2>4. ASSUME NEW i \in Checkouts, getSignupSession(v, i) PROVE FALSE
    BY <1>3, <2>4 DEF getSignupSession
  <2>5. ASSUME NEW months \in CommitmentOptions, createRecurringCheckout(v, months)
        PROVE  FALSE
    <3>1. PICK i \in Checkouts :
            Continue(v, [Idle EXCEPT !.pc = "renew", !.id = i,
                           !.row = CheckoutRow(i, now + CheckoutTtl, months), !.at = now])
      BY <2>5 DEF createRecurringCheckout, UnusedCheckouts
    <3>2. [Idle EXCEPT !.pc = "renew", !.id = i,
             !.row = CheckoutRow(i, now + CheckoutTtl, months), !.at = now].pc = "renew"
      BY <1>0 DEF Task
    <3> QED BY <1>5, <3>1, <3>2
  <2>6. ASSUME cancelAgencySubscription(v) PROVE FALSE
    <3>1. PICK r \in ActiveRows : \E i \in resolveRemoteAsaasSubscription(r) :
            Continue(v, [Idle EXCEPT !.pc = "delete", !.id = r, !.row = row[r],
                                     !.found = i, !.at = now])
      BY <2>6 DEF cancelAgencySubscription, LatestActivated, Newest
    <3>2. \A i : [Idle EXCEPT !.pc = "delete", !.id = r, !.row = row[r],
                              !.found = i, !.at = now].pc = "delete"
      BY <1>0 DEF Task
    <3> QED BY <1>5, <3>1, <3>2
  <2> QED BY <1>6, <2>1, <2>2, <2>3, <2>4, <2>5, <2>6 DEF Start
<1>7. ASSUME NEW v \in Workers, Proceed(v)
      PROVE  UNCHANGED <<row, now>> /\ \E login \in BOOLEAN : BeginExpiry(w, login)
  <2>1. task[v] \in Task
    BY <1>0
  <2>2. CASE recoverRemoteSubscriptionForEvent(v)
    <3>1. PICK found : Continue(v, [task[v] EXCEPT !.pc = "apply", !.found = found])
      BY <2>2 DEF recoverRemoteSubscriptionForEvent
    <3>2. [task[v] EXCEPT !.pc = "apply", !.found = found].pc = "apply"
      BY <2>1 DEF Task
    <3> QED BY <1>5, <3>1, <3>2
  <2>3. CASE WebhookApply(v) \/ RenewalCommit(v) \/ CancelCommit(v) \/ UniqueViolation(v)
    BY <1>2, <2>3 DEF WebhookApply, RenewalCommit, CancelCommit, UniqueViolation
  <2>4. CASE cancelExpiredSubscriptions(v)
    BY <1>2, <1>3, <2>4 DEF cancelExpiredSubscriptions
  <2>5. CASE ReconcileRead(v)
    <3>1. PICK r : Continue(v, [task[v] EXCEPT !.pc = "lookup", !.id = r,
                                               !.row = row[r], !.at = now])
      BY <1>2, <2>5 DEF ReconcileRead
    <3>2. [task[v] EXCEPT !.pc = "lookup", !.id = r,
                          !.row = row[r], !.at = now].pc = "lookup"
      BY <2>1 DEF Task
    <3> QED BY <1>5, <3>1, <3>2
  <2>6. CASE ReconcileLookup(v)
    <3>1. PICK found : Continue(v, [task[v] EXCEPT !.pc = "activate", !.found = found])
      BY <1>2, <2>6 DEF ReconcileLookup
    <3>2. [task[v] EXCEPT !.pc = "activate", !.found = found].pc = "activate"
      BY <2>1 DEF Task
    <3> QED BY <1>5, <3>1, <3>2
  <2>9. CASE cancelSubscription(v)
    <3>1. [task[v] EXCEPT !.pc = "cancel"].pc = "cancel"
      BY <2>1 DEF Task
    <3> QED BY <1>5, <2>9, <3>1 DEF cancelSubscription
  <2>7. CASE ReconcileActivate(v)
    <3>1. [Idle EXCEPT !.pc = "ensure", !.at = now].pc = "ensure"
      BY <1>0 DEF Task
    <3> QED BY <1>2, <1>5, <2>7, <3>1 DEF ReconcileActivate
  <2>8. CASE LoginEnsureAgain(v)
    BY <1>2, <1>4, <2>8 DEF LoginEnsureAgain
  <2> QED BY <1>7, <2>2, <2>3, <2>4, <2>5, <2>6, <2>7, <2>8, <2>9 DEF Proceed
<1>8. ASSUME NEW v \in Workers, Abort(v) PROVE FALSE
  BY <1>2, <1>8 DEF Abort
<1>9. ASSUME \/ \E months \in CommitmentOptions : createAgencySignup(months)
             \/ createAgency \/ Asaas \/ Tick \/ UNCHANGED vars
      PROVE  FALSE
  BY <1>9 DEF createAgencySignup, createAgency, Asaas, Tick, vars
<1> QED BY <1>6, <1>7, <1>8, <1>9 DEF Next

\* The writers of the trial's row.
LEMMA TrialRowKept ==
  ASSUME Whole, [Next]_vars, row[TrialRow].status # "NONE"
  PROVE  /\ row'[TrialRow].trialEndsAt = row[TrialRow].trialEndsAt
         /\ row'[TrialRow].status = "ACTIVE" =>
              /\ row[TrialRow].status = "ACTIVE"
              /\ row'[TrialRow].canceledAt = row[TrialRow].canceledAt
<1>0. /\ row \in [RowIds -> Row] /\ RowsWritten /\ row[TrialRow] \in Row
      /\ agency # "absent"
  BY RowWriters DEF Whole, Sound, TypeOK, TrialFits
<1>1. ASSUME NEW w \in Workers
      PROVE  /\ task[w] \in Task /\ task[w].id \in RowIds
             /\ Holds(task[w], row, remote) /\ Fits(task[w], recorded)
  BY DEF Whole, Sound, TypeOK, HandlersFit, TasksHold, Task
<1>2. CASE KeepsRows
  BY <1>2 DEF KeepsRows
<1>3. ASSUME NEW w \in Workers, WebhookApply(w) \/ ReconcileActivate(w) \/ CancelCommit(w)
      PROVE  row'[TrialRow] = row[TrialRow]
  <2>1. task[w].id \in Checkouts
    BY <1>1, <1>3, ConstantTypes
    DEF WebhookApply, ReconcileActivate, CancelCommit, Holds, Fits, SameCustomer
  <2> QED BY <1>0, <1>3, <2>1, ConstantTypes
          DEF WebhookApply, ReconcileActivate, CancelCommit
<1>4. ASSUME NEW w \in Workers, cancelExpiredSubscriptions(w)
      PROVE  /\ row'[TrialRow].trialEndsAt = row[TrialRow].trialEndsAt
             /\ row'[TrialRow].status = "ACTIVE" => row'[TrialRow] = row[TrialRow]
  BY <1>0, <1>1, <1>4 DEF cancelExpiredSubscriptions, RowAfterExpiry, Row
<1>5. ASSUME NEW w \in Workers, RenewalCommit(w)
      PROVE  /\ row'[TrialRow].trialEndsAt = row[TrialRow].trialEndsAt
             /\ row'[TrialRow].status = "ACTIVE" => row'[TrialRow] = row[TrialRow]
  <2>1. row'[TrialRow] = RowAfterSupersession(row[TrialRow])
    BY <1>1, <1>5, ConstantTypes DEF RenewalCommit, Holds
  <2> QED BY <1>0, <2>1 DEF RowAfterSupersession, Row
<1> QED BY <1>0, <1>2, <1>3, <1>4, <1>5 DEF RowsWritten

LEMMA TimePasses ==
  ASSUME Sound, [Next]_vars
  PROVE  now \in Nat /\ now' \in Nat /\ now <= now'
<1>1. UNCHANGED now \/ Tick
  BY ZenonT(30)
  DEF Next, Start, Proceed, createAgencySignup, createAgency, updateAgencyStatus,
      WebhookReceive, WebhookDuplicate, vars, RequestAccess,
      deactivateExpiredSubscriptions, Login, getSignupSession,
      createRecurringCheckout, cancelAgencySubscription,
      recoverRemoteSubscriptionForEvent, WebhookApply, cancelExpiredSubscriptions,
      ReconcileRead, ReconcileLookup, ReconcileActivate, LoginEnsureAgain,
      RenewalCommit, cancelSubscription, CancelCommit, UniqueViolation, Abort, Asaas
<1>2. now \in Nat
  BY ConstantTypes DEF Sound, TypeOK
<1> QED BY <1>1, <1>2 DEF Tick

LEMMA TrialHoldsStep == Whole /\ TrialHolds /\ [Next]_vars => TrialHolds'
<1> SUFFICES ASSUME Whole, TrialHolds, [Next]_vars PROVE TrialHolds'
  OBVIOUS
<1>0. /\ row \in [RowIds -> Row] /\ row' \in [RowIds -> Row]
      /\ now \in Nat /\ now' \in Nat /\ Sound /\ Sound'
  <2>1. Sound /\ Sound'
    BY SoundStep DEF Whole
  <2> QED BY <2>1, ConstantTypes DEF Sound, TypeOK
<1>1. now <= now'
  BY TimePasses DEF Whole
<1>2. /\ row'[TrialRow].status = "ACTIVE" =>
           row'[TrialRow].canceledAt = NoDate /\ row'[TrialRow].trialEndsAt # NoDate
  <2>1. CASE row[TrialRow].status # "NONE"
    BY <2>1, TrialRowKept DEF TrialHolds
  <2>2. CASE row[TrialRow].status = "NONE"
    <3>1. CASE \E months \in CommitmentOptions :
                 row' = [row EXCEPT ![TrialRow] = TrialRowAt(months)]
      <4>1. PICK months \in CommitmentOptions : row'[TrialRow] = TrialRowAt(months)
        BY <1>0, <3>1
      <4>2. TrialRowAt(months).trialEndsAt = now + TrialPeriod
            /\ TrialRowAt(months).canceledAt = NoDate
        BY NoRowType DEF TrialRowAt, Row, NoRow
      <4> QED BY <1>0, <4>1, <4>2, ConstantTypes
    <3>2. CASE ~\E months \in CommitmentOptions :
                  row' = [row EXCEPT ![TrialRow] = TrialRowAt(months)]
      <4>1. ASSUME NEW w \in Workers
            PROVE  task[w] \in Task /\ task[w].id \in RowIds /\ Holds(task[w], row, remote)
                   /\ Fits(task[w], recorded)
        BY DEF Whole, Sound, TypeOK, TasksHold, HandlersFit, Task
      <4>2. KeepsRows \/ \E w \in Workers :
              \/ WebhookApply(w) \/ cancelExpiredSubscriptions(w)
              \/ ReconcileActivate(w) \/ RenewalCommit(w) \/ CancelCommit(w)
        BY <3>2, RowWriters DEF RowsWritten
      <4>3. ASSUME NEW w \in Workers,
                   \/ WebhookApply(w) \/ cancelExpiredSubscriptions(w)
                   \/ ReconcileActivate(w) \/ CancelCommit(w)
            PROVE  row'[TrialRow] = row[TrialRow]
        <5>1. task[w].id # TrialRow
          BY <2>2, <4>1, <4>3
          DEF WebhookApply, cancelExpiredSubscriptions, ReconcileActivate, CancelCommit,
              Holds, Reading
        <5> QED BY <1>0, <4>1, <4>3, <5>1
                DEF WebhookApply, cancelExpiredSubscriptions, ReconcileActivate, CancelCommit
      <4>4. ASSUME NEW w \in Workers, RenewalCommit(w)
            PROVE  row'[TrialRow] = row[TrialRow]
        BY <2>2, <4>1, <4>4, ConstantTypes
        DEF RenewalCommit, Holds, RowAfterSupersession, SupersededStatus
      <4> QED BY <2>2, <4>2, <4>3, <4>4 DEF KeepsRows
    <3> QED BY <3>1, <3>2
  <2> QED BY <2>1, <2>2
<1>3. ASSUME NEW w \in Workers, task'[w].pc = "expire", task'[w].id = TrialRow
      PROVE  row'[TrialRow].trialEndsAt <= now'
  <2>1. CASE task'[w] = task[w]
    <3>1. row[TrialRow].status # "NONE" /\ row[TrialRow].trialEndsAt <= now
      BY <1>3, <2>1 DEF Whole, TasksHold, Holds, TrialHolds
    <3>2. row'[TrialRow].trialEndsAt = row[TrialRow].trialEndsAt
      BY <3>1, TrialRowKept
    <3>3. row[TrialRow].trialEndsAt \in Int
      BY <1>0 DEF Row
    <3> QED BY <1>0, <1>1, <3>1, <3>2, <3>3
  <2>2. ASSUME NEW login \in BOOLEAN, BeginExpiry(w, login), UNCHANGED <<row, now>>
        PROVE  row'[TrialRow].trialEndsAt <= now'
    <3>1. PICK r \in EndedSubscription :
            Continue(w, [Idle EXCEPT !.pc = "expire", !.id = r, !.row = row[r],
                                     !.at = now, !.login = login])
      BY <2>2 DEF BeginExpiry
    <3>2. [Idle EXCEPT !.pc = "expire", !.id = r, !.row = row[r],
                       !.at = now, !.login = login].id = r
      BY IdleType DEF Task
    <3>3. r = TrialRow
      BY <1>0, <1>3, <3>1, <3>2 DEF Continue, Sound, TypeOK
    <3>4. /\ row[TrialRow].status = "ACTIVE"
          /\ hasSubscriptionAccessReachedEnd(row[TrialRow], now)
      BY <3>1, <3>3 DEF EndedSubscription, LatestActivated, Newest, ActiveRows
    <3>5. row[TrialRow].canceledAt = NoDate /\ row[TrialRow].trialEndsAt # NoDate
      BY <3>4 DEF TrialHolds
    <3>6. getSubscriptionAccessEndsAt(row[TrialRow]) = row[TrialRow].trialEndsAt
      BY <3>5 DEF getSubscriptionAccessEndsAt, ScheduledEnd
    <3> QED BY <2>2, <3>4, <3>6 DEF hasSubscriptionAccessReachedEnd
  <2> QED BY <1>0, <1>3, <2>1, <2>2, ExpiryTasks
<1> QED BY <1>2, <1>3 DEF TrialHolds

LEMMA CyclesPast ==
  ASSUME NEW time \in Nat, NEW cycle \in Nat \ {0}
  PROVE  time \div cycle \in Nat /\ time < (time \div cycle + 1) * cycle
  OBVIOUS

\* The next due date lies after the reference, and a cycle after the activation.
LEMMA NextBillingDateIsLater ==
  ASSUME NEW a \in Nat, NEW c \in Int
  PROVE  /\ getNextSubscriptionBillingDate(a, c) \in Int
         /\ c < getNextSubscriptionBillingDate(a, c)
         /\ addMonths(a, BillingCycleMonths) <= getNextSubscriptionBillingDate(a, c)
<1>1. MonthLength \in Nat \ {0} /\ 1 * MonthLength = MonthLength
  BY MonthLengthAssumption
<1>2. CASE c < a
  BY <1>1, <1>2 DEF getNextSubscriptionBillingDate, addMonths, BillingCycleMonths
<1>3. CASE ~(c < a)
  <2> DEFINE cycles == (c - a) \div MonthLength
  <2>1. cycles \in Nat /\ c - a < (cycles + 1) * MonthLength
    BY <1>1, <1>3, CyclesPast
  <2>2. getNextSubscriptionBillingDate(a, c) = addMonths(a, 1 * (cycles + 1))
    BY <1>1, <1>3 DEF getNextSubscriptionBillingDate, BillingCycleMonths
  <2> HIDE DEF cycles
  <2>3. /\ 1 * (cycles + 1) = cycles + 1
        /\ (cycles + 1) * MonthLength = cycles * MonthLength + MonthLength
        /\ cycles * MonthLength \in Nat
    BY <1>1, <2>1
  <2> QED BY <1>1, <2>1, <2>2, <2>3 DEF addMonths, BillingCycleMonths
<1> QED BY <1>2, <1>3

LEMMA AccessLastsACycle ==
  ASSUME NEW x \in Row, x.activatedAt # NoDate, x.trialEndsAt = NoDate
  PROVE  /\ getSubscriptionAccessEndsAt(x) \in Int
         /\ addMonths(x.activatedAt, BillingCycleMonths) <= getSubscriptionAccessEndsAt(x)
<1> DEFINE a == x.activatedAt
           c == x.canceledAt
           m == x.commitmentMonths
           date == getNextSubscriptionBillingDate(a, c)
<1>1. a \in Nat /\ c \in Int /\ m \in Nat \ {0}
  BY DEF Row
<1>2. date \in Int /\ addMonths(a, BillingCycleMonths) <= date
  BY <1>1, NextBillingDateIsLater
<1>3. ScheduledEnd(x) = addMonths(a, m)
  BY DEF ScheduledEnd, getSubscriptionExpiresAt
<1>4. addMonths(a, m) \in Int /\ addMonths(a, BillingCycleMonths) <= addMonths(a, m)
  <2>1. MonthLength \in Nat /\ m * MonthLength \in Int /\ MonthLength <= m * MonthLength
    <3> HIDE DEF m
    <3> QED BY <1>1, MonthLengthAssumption
  <2> QED BY <1>1, <2>1 DEF addMonths, BillingCycleMonths
<1>5. getSubscriptionAccessEndsAt(x) \in {date, ScheduledEnd(x)}
  BY DEF getSubscriptionAccessEndsAt
<1> HIDE DEF a, c, m, date
<1>6. addMonths(a, BillingCycleMonths) <= getSubscriptionAccessEndsAt(x)
      /\ getSubscriptionAccessEndsAt(x) \in Int
  BY <1>2, <1>3, <1>4, <1>5
<1> QED BY <1>6 DEF a

LEMMA CycleHoldsStep == Whole /\ CycleHolds /\ [Next]_vars => CycleHolds'
<1> SUFFICES ASSUME Whole, CycleHolds, [Next]_vars,
                    NEW w \in Workers, task'[w].pc = "expire", task'[w].id # TrialRow
             PROVE  addMonths(task'[w].row.activatedAt, BillingCycleMonths) <= now'
  BY DEF CycleHolds
<1>0. /\ Sound /\ now \in Nat /\ now' \in Nat /\ now <= now'
      /\ task \in [Workers -> Task] /\ row \in [RowIds -> Row]
  BY TimePasses DEF Whole, Sound, TypeOK
<1>1. CASE task'[w] = task[w]
  <2>1. addMonths(task[w].row.activatedAt, BillingCycleMonths) <= now
    BY <1>1 DEF CycleHolds
  <2>2. addMonths(task[w].row.activatedAt, BillingCycleMonths) \in Int
    <3>1. task[w].row.activatedAt \in Int
      BY <1>0 DEF Task, Row
    <3> QED BY <3>1, MonthLengthAssumption DEF addMonths, BillingCycleMonths
  <2> QED BY <1>0, <1>1, <2>1, <2>2
<1>2. ASSUME NEW login \in BOOLEAN, BeginExpiry(w, login), UNCHANGED <<row, now>>
      PROVE  addMonths(task'[w].row.activatedAt, BillingCycleMonths) <= now'
  <2>1. PICK r \in EndedSubscription :
          Continue(w, [Idle EXCEPT !.pc = "expire", !.id = r, !.row = row[r],
                                   !.at = now, !.login = login])
    BY <1>2 DEF BeginExpiry
  <2>2. task'[w].id = r /\ task'[w].row = row[r]
    BY <1>0, <2>1, IdleType DEF Continue, Task
  <2>3. /\ r \in RowIds /\ row[r].activatedAt # NoDate
        /\ hasSubscriptionAccessReachedEnd(row[r], now)
    BY LookupTypes DEF EndedSubscription
  <2>4. row[r] \in Row /\ row[r].trialEndsAt = NoDate
    BY <1>0, <2>2, <2>3 DEF Whole, RowsFit, RowFits, Belongs
  <2> DEFINE due == addMonths(row[r].activatedAt, BillingCycleMonths)
             end == getSubscriptionAccessEndsAt(row[r])
  <2>5. due \in Int /\ end \in Int /\ due <= end
    <3>1. row[r].activatedAt \in Int
      BY <2>4 DEF Row
    <3>2. due \in Int
      BY <3>1, MonthLengthAssumption DEF addMonths, BillingCycleMonths
    <3> QED BY <2>3, <2>4, <3>2, AccessLastsACycle
  <2>6. end <= now
    BY <2>3 DEF hasSubscriptionAccessReachedEnd
  <2> HIDE DEF due, end
  <2>7. due <= now'
    BY <1>0, <2>5, <2>6
  <2> QED BY <2>2, <2>7 DEF due
<1> QED BY <1>0, <1>1, <1>2, ExpiryTasks

\* However many handlers run side by side and whatever they wrote since it was
\* read, an expiry takes a trial at its end and a paid subscription after a whole
\* cycle of the activation it finds, unless this is another one than it read.
THEOREM FirstCyclesAreServed == Spec => FirstCycleIsServed
<1>1. Init => TrialHolds /\ CycleHolds
  BY DEF Init, NoRow, Idle, TrialHolds, CycleHolds
<1>2. Whole /\ TrialHolds /\ CycleHolds /\ [Next]_vars => (TrialHolds /\ CycleHolds)'
  BY TrialHoldsStep, CycleHoldsStep
<1>3. TrialHolds /\ CycleHolds /\ [Next]_vars
        => [\A w \in Workers, r \in RowIds :
              Expires(w, r) /\ row[r].activatedAt = task[w].row.activatedAt
                => IF r = TrialRow
                   THEN row[r].trialEndsAt <= now
                   ELSE addMonths(row[r].activatedAt, BillingCycleMonths) <= now]_vars
  BY DEF TrialHolds, CycleHolds, Expires
<1> QED BY <1>1, <1>2, <1>3, SpecWhole, PTL DEF Spec, FirstCycleIsServed

=============================================================================
