---------------------------- MODULE ExpirationSweep ----------------------------
(***************************************************************************)
(* The scheduler that ends access nobody asks for any more (server.ts,     *)
(* subscriptionAccess.ts): a timer starts a run, whether or not the last   *)
(* one is over; a run reads the subscriptions of all agencies and closes,  *)
(* in one transaction, those whose access has ended; an attempt that times *)
(* out - before its commit or after it - is repeated, a few times.         *)
(*                                                                         *)
(* When access ends is worked out in AccessWindow and CancellationDates;   *)
(* here a row carries the date. What an agency's own handlers do to it     *)
(* meanwhile is reduced to what a run can see of it (module Billing).      *)
(***************************************************************************)
EXTENDS Integers

CONSTANTS
  Agencies,
  Runs,         \* runs that can be in flight together
  maxAttempts,  \* subscriptionExpirationSweepRetryMaxAttempts
  Term,         \* ticks that a subscription lasts
  MaxTime       \* bound: last value of the clock

ASSUME BoundAssumption ==
  /\ maxAttempts \in Nat \ {0}
  /\ Term \in Nat \ {0}
  /\ MaxTime \in Nat

VARIABLES
  isActive,  \* Agency
  row,       \* AgencySubscription: the first one of an agency, and its renewal
  run,       \* the runs in flight
  now

vars == <<isActive, row, run, now>>

NoDate == -1
Ordinals == {1, 2}
Rows == Agencies \X Ordinals
AgencyOf(r) == r[1]
RowsOf(a) == {a} \X Ordinals

Row == [status : {"NONE", "ACTIVE", "CANCELED"}, activatedAt : Nat, endsAt : Nat,
        canceledAt : Nat \cup {NoDate}]
NoRow == [status |-> "NONE", activatedAt |-> 0, endsAt |-> 0, canceledAt |-> NoDate]
NewRow == [status |-> "ACTIVE", activatedAt |-> now, endsAt |-> now + Term,
           canceledAt |-> NoDate]

Run == [pc : {"idle", "read", "cancel", "wait"}, attempt : 0..maxAttempts,
        now : Nat, expired : SUBSET Rows,
        raced : SUBSET Agencies]   \* history: gained access since the run has read
Idle == [pc |-> "idle", attempt |-> 0, now |-> 0, expired |-> {}, raced |-> {}]

Init ==
  /\ isActive = [a \in Agencies |-> TRUE]
  /\ row = [r \in Rows |-> IF r[2] = 1 THEN [NoRow EXCEPT !.status = "ACTIVE",
                                                          !.endsAt = Term]
                           ELSE NoRow]
  /\ run = [s \in Runs |-> Idle]
  /\ now = 0

-----------------------------------------------------------------------------
(* deactivateExpiredSubscriptions *)

ActiveRowsOf(a) == {r \in RowsOf(a) : row[r].status = "ACTIVE"}

\* The first of the agency by activatedAt, then by createdAt, descending.
LatestActive(a) ==
  {r \in ActiveRowsOf(a) : \A o \in ActiveRowsOf(a) :
     \/ row[o].activatedAt < row[r].activatedAt
     \/ row[o].activatedAt = row[r].activatedAt /\ o[2] <= r[2]}

Expired(at) ==
  {r \in UNION {LatestActive(a) : a \in Agencies} : row[r].endsAt <= at}

\* One query for all agencies; a run that finds nothing is over.
ReadActiveSubscriptions(s) ==
  /\ run[s].pc = "read"
  /\ run' = [run EXCEPT ![s] =
       IF Expired(now) = {} THEN Idle
       ELSE [@ EXCEPT !.pc = "cancel", !.now = now, !.expired = Expired(now)]]
  /\ UNCHANGED <<isActive, row, now>>

\* Mutant: whatever date was there is overwritten.
DatedAgain(current, at) == at

DatedOnce(current, at) == IF current = NoDate THEN at ELSE current

RowAfterSweep(current, at) ==
  [current EXCEPT !.status = IF @ = "ACTIVE" THEN "CANCELED" ELSE @,
                  !.canceledAt = DatedOnce(@, at)]

\* Mutant: the third statement is missing.
LeftOpen(expired) == isActive

Closed(expired) ==
  [a \in Agencies |-> isActive[a] /\ \A r \in expired : AgencyOf(r) # a]

\* cancelExpiredSubscriptions: three updates, by the ids that were read.
CommitsClosure(s) ==
  /\ run[s].pc = "cancel"
  /\ row' = [r \in Rows |-> IF r \in run[s].expired
                            THEN RowAfterSweep(row[r], run[s].now) ELSE row[r]]
  /\ isActive' = Closed(run[s].expired)

-----------------------------------------------------------------------------
(* runSubscriptionExpirationSweepWithRetry *)

\* The timer does not look whether a run is in flight.
StartRun(s) ==
  /\ run[s].pc = "idle"
  /\ run' = [run EXCEPT ![s] = [Idle EXCEPT !.pc = "read", !.attempt = 1]]
  /\ UNCHANGED <<isActive, row, now>>

\* Mutant: one attempt too many.
AttemptsInclusive(attempt) == attempt <= maxAttempts

MayRetry(attempt) == attempt < maxAttempts

NextAttempt(t) ==
  [t EXCEPT !.pc = "wait", !.attempt = t.attempt + 1, !.raced = {}]

\* An attempt ends in a timeout.
TimesOut(s) ==
  LET t == run[s]
  IN  run' = [run EXCEPT ![s] = IF MayRetry(t.attempt) THEN NextAttempt(t) ELSE Idle]

\* Mutant: the repetition goes on with what the first attempt has read.
RepeatsTransaction(t) ==
  [t EXCEPT !.pc = IF t.expired = {} THEN "read" ELSE "cancel"]

RepeatsFromStart(t) == [t EXCEPT !.pc = "read", !.expired = {}]

Retry(s) ==
  /\ run[s].pc = "wait"
  /\ run' = [run EXCEPT ![s] = RepeatsFromStart(@)]
  /\ UNCHANGED <<isActive, row, now>>

CancelExpired(s) ==
  /\ CommitsClosure(s)
  /\ run' = [run EXCEPT ![s] = Idle]
  /\ UNCHANGED now

\* The answer to the commit does not arrive in time.
CommitTimesOut(s) ==
  /\ CommitsClosure(s)
  /\ TimesOut(s)
  /\ UNCHANGED now

AttemptTimesOut(s) ==
  /\ run[s].pc \in {"read", "cancel"}
  /\ TimesOut(s)
  /\ UNCHANGED <<isActive, row, now>>

\* Any other error, or the end of the process, ends the run.
RunFails(s) ==
  /\ run[s].pc # "idle"
  /\ run' = [run EXCEPT ![s] = Idle]
  /\ UNCHANGED <<isActive, row, now>>

-----------------------------------------------------------------------------
(* What happens to an agency beside the runs (module Billing). *)

GainsAccess(a) ==
  /\ isActive' = [isActive EXCEPT ![a] = TRUE]
  /\ run' = [s \in Runs |-> IF run[s].pc = "cancel"
                              THEN [run[s] EXCEPT !.raced = @ \cup {a}] ELSE run[s]]

\* The checkout of a renewal is paid.
RenewalPaid(a) ==
  /\ ~isActive[a] /\ row[<<a, 2>>].status = "NONE"
  /\ row' = [row EXCEPT ![<<a, 2>>] = NewRow]
  /\ GainsAccess(a)
  /\ UNCHANGED now

\* A late event about the first subscription makes it ACTIVE again.
LateEvent(a) ==
  /\ row[<<a, 1>>].status = "CANCELED"
  /\ row' = [row EXCEPT ![<<a, 1>>].status = "ACTIVE"]
  /\ GainsAccess(a)
  /\ UNCHANGED now

\* The agency cancels: its access ends with the cycle, at most as late as before.
Cancel(a) ==
  /\ \E r \in LatestActive(a) :
       /\ isActive[a] /\ now < row[r].endsAt /\ row[r].canceledAt = NoDate
       /\ \E e \in (now + 1)..row[r].endsAt :
            row' = [row EXCEPT ![r].canceledAt = now, ![r].endsAt = e]
  /\ UNCHANGED <<isActive, run, now>>

Tick ==
  /\ now < MaxTime
  /\ now' = now + 1
  /\ UNCHANGED <<isActive, row, run>>

-----------------------------------------------------------------------------

Next ==
  \/ \E s \in Runs :
       \/ StartRun(s) \/ ReadActiveSubscriptions(s) \/ CancelExpired(s)
       \/ CommitTimesOut(s) \/ AttemptTimesOut(s) \/ Retry(s) \/ RunFails(s)
  \/ \E a \in Agencies : RenewalPaid(a) \/ LateEvent(a) \/ Cancel(a)
  \/ Tick

Spec == Init /\ [][Next]_vars

\* The timer keeps starting runs, and the database, which may fail any attempt,
\* does not fail every one of them.
Fairness ==
  \A s \in Runs :
    /\ WF_vars(StartRun(s)) /\ WF_vars(Retry(s))
    /\ SF_vars(ReadActiveSubscriptions(s)) /\ SF_vars(CancelExpired(s))

FairSpec == Spec /\ Fairness

-----------------------------------------------------------------------------
(* Properties. *)

TypeOK ==
  /\ isActive \in [Agencies -> BOOLEAN]
  /\ row \in [Rows -> Row]
  /\ run \in [Runs -> Run]
  /\ now \in 0..MaxTime

\* A run closes an agency whose access is not over only when that access was
\* gained after the attempt had read: repeating an attempt, overlapping runs
\* and older subscriptions of the agency never do it.
OnlyARaceClosesCurrentAccess ==
  [][\A a \in Agencies :
       /\ isActive[a] /\ ~isActive'[a]
       /\ \E r \in LatestActive(a) : now < row[r].endsAt
       => \E s \in Runs : run'[s] # run[s] /\ a \in run[s].raced]_vars

\* The date of a cancellation is kept by every run that comes after it, also by
\* one that repeats a commit it did not hear of.
FirstCancellationIsKept ==
  [][\A r \in Rows :
       row[r].canceledAt # NoDate => row'[r].canceledAt = row[r].canceledAt]_row

\* An agency whose access is over - no ACTIVE subscription, or none that has not
\* ended - does not stay open, however often attempts time out.
OpenWithoutAccess(a) ==
  isActive[a] /\ \A r \in ActiveRowsOf(a) : row[r].endsAt <= now
EndedAccessIsClosed ==
  \A a \in Agencies : OpenWithoutAccess(a) ~> ~OpenWithoutAccess(a)
================================================================================
