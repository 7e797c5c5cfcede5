------------------------- MODULE ExpirationSweepProofs -------------------------
(***************************************************************************)
(* What ExpirationSweep promises for any number of agencies and runs, any  *)
(* length of a subscription and any number of attempts.                    *)
(***************************************************************************)
EXTENDS ExpirationSweep, TLAPS

First(a) == <<a, 1>>
Second(a) == <<a, 2>>

\* A renewal is paid only when the first subscription has ended, and a row that
\* does not exist yet carries no dates.
RowsFit ==
  \A a \in Agencies :
    /\ row[First(a)].status # "NONE" /\ row[First(a)].activatedAt = 0
    /\ ~isActive[a] \/ row[Second(a)].status # "NONE" => row[First(a)].endsAt <= now
    /\ row[Second(a)].status = "NONE" => row[Second(a)].canceledAt = NoDate

AccessIsOver(a) == \A r \in ActiveRowsOf(a) : row[r].endsAt <= now

\* What a run has read is still over, except for agencies that raced.
RunFits(s) ==
  run[s].pc = "cancel" =>
    \A r \in run[s].expired :
      /\ row[r].status # "NONE"
      /\ row[First(AgencyOf(r))].endsAt <= now
      /\ AgencyOf(r) \in run[s].raced \/ AccessIsOver(AgencyOf(r))
RunsFit == \A s \in Runs : RunFits(s)

Sound == TypeOK /\ RowsFit /\ RunsFit

LEMMA ConstantTypes ==
  maxAttempts \in Nat \ {0} /\ Term \in Nat \ {0} /\ MaxTime \in Nat
  BY BoundAssumption

LEMMA IdleType == Idle \in Run
  BY ConstantTypes DEF Idle, Run

\* The rows of an agency are its first subscription and its renewal.
LEMMA RowsAre ==
  /\ \A a \in Agencies : /\ RowsOf(a) = {First(a), Second(a)} /\ First(a) # Second(a)
                         /\ AgencyOf(First(a)) = a /\ AgencyOf(Second(a)) = a
                         /\ First(a) \in Rows /\ Second(a) \in Rows
  /\ \A r \in Rows : /\ AgencyOf(r) \in Agencies
                     /\ r = First(AgencyOf(r)) \/ r = Second(AgencyOf(r))
  BY DEF RowsOf, First, Second, AgencyOf, Rows, Ordinals

\* Rows of two agencies are apart.
LEMMA RowsApart ==
  \A r \in Rows, a \in Agencies :
    /\ r \in RowsOf(a) <=> AgencyOf(r) = a
    /\ r = First(a) => AgencyOf(r) = a
    /\ r = Second(a) => AgencyOf(r) = a
  BY DEF RowsOf, First, Second, AgencyOf, Rows, Ordinals

LEMMA InitSound == Init => Sound
<1> SUFFICES ASSUME Init PROVE Sound
  OBVIOUS
<1> USE ConstantTypes
<1>1. row \in [Rows -> Row]
  BY DEF Init, NoRow, Row, NoDate
<1>2. TypeOK
  BY <1>1, IdleType DEF Init, TypeOK
<1>3. RowsFit
  <2> SUFFICES ASSUME NEW a \in Agencies
               PROVE  /\ row[First(a)].status = "ACTIVE" /\ row[First(a)].activatedAt = 0
                      /\ row[Second(a)].status = "NONE"
                      /\ row[Second(a)].canceledAt = NoDate
                      /\ isActive[a]
    BY DEF RowsFit
  <2>1. First(a) \in Rows /\ Second(a) \in Rows /\ First(a)[2] = 1 /\ Second(a)[2] = 2
    BY RowsAre DEF First, Second
  <2> QED BY <2>1 DEF Init, NoRow
<1>4. RunsFit
  BY DEF Init, RunsFit, RunFits, Idle
<1> QED BY <1>2, <1>3, <1>4 DEF Sound

-----------------------------------------------------------------------------
(* Runs. *)

\* A step of one run that does not lead it to its transaction, and changes no
\* row, keeps what holds of the others.
LEMMA QuietStepSound ==
  ASSUME Sound, NEW s \in Runs, NEW t \in Run, t.pc # "cancel",
         run' = [run EXCEPT ![s] = t], UNCHANGED <<isActive, row, now>>
  PROVE  Sound'
<1>1. TypeOK'
  BY DEF Sound, TypeOK
<1>2. RowsFit'
  BY DEF Sound, RowsFit
<1>3. RunsFit'
  <2> SUFFICES ASSUME NEW g \in Runs PROVE RunFits(g)'
    BY DEF RunsFit
  <2>1. RunFits(g)
    BY DEF Sound, RunsFit
  <2>2. CASE g = s
    BY <2>2 DEF Sound, TypeOK, RunFits
  <2>3. CASE g # s
    BY <2>1, <2>3 DEF Sound, TypeOK, RunFits, AccessIsOver, ActiveRowsOf
  <2> QED BY <2>2, <2>3
<1> QED BY <1>1, <1>2, <1>3 DEF Sound

LEMMA StartRunSound ==
  ASSUME Sound, NEW s \in Runs, StartRun(s)
  PROVE  Sound'
<1> DEFINE t == [Idle EXCEPT !.pc = "read", !.attempt = 1]
<1>1. 1 \in 0..maxAttempts
  BY ConstantTypes
<1>2. t \in Run /\ t.pc # "cancel"
  BY <1>1, IdleType DEF Run
<1>3. run' = [run EXCEPT ![s] = t]
  BY DEF StartRun
<1> HIDE DEF t
<1> QED BY <1>2, <1>3, QuietStepSound DEF StartRun

\* The latest active subscription of an agency has ended only when all have.
LEMMA LatestIsLast ==
  ASSUME Sound, NEW a \in Agencies, NEW r \in LatestActive(a), row[r].endsAt <= now
  PROVE  AccessIsOver(a)
<1> SUFFICES ASSUME NEW o \in ActiveRowsOf(a) PROVE row[o].endsAt <= now
  BY DEF AccessIsOver
<1>1. /\ r \in RowsOf(a) /\ row[r].status = "ACTIVE"
      /\ o \in RowsOf(a) /\ row[o].status = "ACTIVE"
      /\ \/ row[o].activatedAt < row[r].activatedAt
         \/ row[o].activatedAt = row[r].activatedAt /\ o[2] <= r[2]
  BY DEF LatestActive, ActiveRowsOf
<1>2. RowsOf(a) = {First(a), Second(a)} /\ First(a) \in Rows /\ Second(a) \in Rows
  BY RowsAre
<1>3. row[First(a)].activatedAt = 0 /\ row[Second(a)].activatedAt \in Nat
  BY <1>2 DEF Sound, TypeOK, RowsFit, Row
<1>4. row[Second(a)].status # "NONE" => row[First(a)].endsAt <= now
  BY DEF Sound, RowsFit
<1>5. CASE o = r
  BY <1>5
<1>6. CASE o = First(a) /\ r = Second(a)
  BY <1>1, <1>4, <1>6
<1>7. CASE o = Second(a) /\ r = First(a)
  <2>1. o[2] = 2 /\ r[2] = 1
    BY <1>7 DEF First, Second
  <2> QED BY <1>1, <1>3, <1>7, <2>1
<1> QED BY <1>1, <1>2, <1>5, <1>6, <1>7

LEMMA ExpiredIsOver ==
  ASSUME Sound, NEW r \in Expired(now)
  PROVE  /\ r \in Rows /\ row[r].status # "NONE"
         /\ row[First(AgencyOf(r))].endsAt <= now
         /\ AccessIsOver(AgencyOf(r))
<1>1. PICK a \in Agencies : r \in LatestActive(a) /\ row[r].endsAt <= now
  BY DEF Expired
<1>2. r \in RowsOf(a) /\ row[r].status = "ACTIVE"
  BY <1>1 DEF LatestActive, ActiveRowsOf
<1>3. r \in Rows /\ AgencyOf(r) = a /\ r \in {First(a), Second(a)}
  BY <1>2, RowsAre
<1>4. AccessIsOver(a)
  BY <1>1, LatestIsLast
<1>5. row[First(a)].endsAt <= now
  BY <1>1, <1>2, <1>3 DEF Sound, RowsFit
<1> QED BY <1>2, <1>3, <1>4, <1>5

LEMMA ReadSound ==
  ASSUME Sound, NEW s \in Runs, ReadActiveSubscriptions(s)
  PROVE  Sound'
<1> DEFINE t == [run[s] EXCEPT !.pc = "cancel", !.now = now, !.expired = Expired(now)]
<1>1. CASE Expired(now) = {}
  <2>1. run' = [run EXCEPT ![s] = Idle] /\ Idle.pc # "cancel"
    BY <1>1 DEF ReadActiveSubscriptions, Idle
  <2> QED BY <2>1, IdleType, QuietStepSound DEF ReadActiveSubscriptions
<1>2. CASE Expired(now) # {}
  <2>1. run' = [run EXCEPT ![s] = t] /\ UNCHANGED <<isActive, row, now>>
    BY <1>2 DEF ReadActiveSubscriptions
  <2>2. Expired(now) \in SUBSET Rows
    BY ExpiredIsOver
  <2>3. run[s] \in Run /\ now \in Nat
    BY ConstantTypes DEF Sound, TypeOK
  <2>4. t \in Run /\ t.expired = Expired(now)
    BY <2>2, <2>3 DEF Run
  <2> HIDE DEF t
  <2>5. TypeOK'
    BY <2>1, <2>4 DEF Sound, TypeOK
  <2>6. RowsFit'
    BY <2>1 DEF Sound, RowsFit
  <2>7. RunsFit'
    <3> SUFFICES ASSUME NEW g \in Runs PROVE RunFits(g)'
      BY DEF RunsFit
    <3>1. RunFits(g)
      BY DEF Sound, RunsFit
    <3>2. CASE g = s
      <4>1. run'[g] = t
        BY <2>1, <3>2 DEF Sound, TypeOK
      <4> QED BY <2>1, <2>4, <4>1, ExpiredIsOver DEF RunFits, AccessIsOver, ActiveRowsOf
    <3>3. CASE g # s
      BY <2>1, <3>1, <3>3 DEF Sound, TypeOK, RunFits, AccessIsOver, ActiveRowsOf
    <3> QED BY <3>2, <3>3
  <2> QED BY <2>5, <2>6, <2>7 DEF Sound
<1> QED BY <1>1, <1>2

\* What becomes of a run whose attempt is over, by a timeout or not.
LEMMA AttemptOver ==
  ASSUME Sound, NEW s \in Runs, run[s].pc # "idle",
         TimesOut(s) \/ run' = [run EXCEPT ![s] = Idle]
  PROVE  \E t \in Run : t.pc # "cancel" /\ run' = [run EXCEPT ![s] = t]
<1> DEFINE t == NextAttempt(run[s])
<1>1. Idle \in Run /\ Idle.pc # "cancel"
  BY IdleType DEF Idle
<1>2. run[s] \in Run
  BY DEF Sound, TypeOK
<1>3. MayRetry(run[s].attempt) => t \in Run
  <2> SUFFICES ASSUME MayRetry(run[s].attempt) PROVE t \in Run
    OBVIOUS
  <2>1. run[s].attempt \in 0..maxAttempts /\ run[s].attempt < maxAttempts
    BY <1>2 DEF MayRetry, Run
  <2>2. run[s].attempt + 1 \in 0..maxAttempts
    BY <2>1, ConstantTypes
  <2> QED BY <1>2, <2>2 DEF Run, NextAttempt
<1>4. TimesOut(s) =>
        run' = [run EXCEPT ![s] = IF MayRetry(run[s].attempt) THEN t ELSE Idle]
  BY <1>2 DEF TimesOut, Sound, TypeOK
<1>5. t.pc # "cancel"
  BY <1>2 DEF NextAttempt, Run
<1> HIDE DEF t
<1> QED BY <1>1, <1>3, <1>4, <1>5

LEMMA RetrySound ==
  ASSUME Sound, NEW s \in Runs, Retry(s)
  PROVE  Sound'
<1> DEFINE t == RepeatsFromStart(run[s])
<1>1. t \in Run /\ t.pc # "cancel"
  BY DEF Sound, TypeOK, Run, RepeatsFromStart
<1>2. run' = [run EXCEPT ![s] = t]
  BY DEF Retry
<1> HIDE DEF t
<1> QED BY <1>1, <1>2, QuietStepSound DEF Retry

\* The transaction takes rows out and sets dates that were not set; it changes
\* no end of access and adds no row.
LEMMA ClosureRows ==
  ASSUME Sound, NEW s \in Runs, CommitsClosure(s)
  PROVE  /\ row' \in [Rows -> Row]
         /\ \A r \in Rows :
              /\ row'[r].status = "ACTIVE" => row[r].status = "ACTIVE"
              /\ row'[r].status = "NONE" <=> row[r].status = "NONE"
              /\ row'[r].activatedAt = row[r].activatedAt
              /\ row'[r].endsAt = row[r].endsAt
              /\ row[r].canceledAt # NoDate => row'[r].canceledAt = row[r].canceledAt
              /\ row[r].status = "NONE" => row'[r] = row[r]
<1> USE DEF CommitsClosure, RowAfterSweep, DatedOnce
<1>0. run[s] \in Run
  BY DEF Sound, TypeOK
<1>1. \A r \in Rows : row'[r] = IF r \in run[s].expired
                                THEN RowAfterSweep(row[r], run[s].now) ELSE row[r]
  OBVIOUS
<1>2. \A r \in Rows : row[r] \in Row
  BY DEF Sound, TypeOK
<1>3. \A r \in Rows : row'[r] \in Row
  BY <1>0, <1>1, <1>2, ZenonT(30) DEF Row, Run
<1>4. \A r \in run[s].expired : row[r].status # "NONE"
  BY DEF Sound, RunsFit, RunFits
<1> QED BY <1>1, <1>2, <1>3, <1>4, ZenonT(30) DEF Row

LEMMA ClosureSound ==
  ASSUME Sound, NEW s \in Runs, CommitsClosure(s), now' = now,
         NEW t \in Run, t.pc # "cancel", run' = [run EXCEPT ![s] = t]
  PROVE  Sound'
<1>1. isActive' = Closed(run[s].expired) /\ run[s].pc = "cancel" /\ run[s] \in Run
  BY DEF CommitsClosure, Sound, TypeOK
<1>2. TypeOK'
  BY <1>1, ClosureRows DEF Sound, TypeOK, Closed
<1>3. RowsFit'
  <2> SUFFICES ASSUME NEW a \in Agencies
               PROVE  /\ row'[First(a)].status # "NONE" /\ row'[First(a)].activatedAt = 0
                      /\ ~isActive'[a] \/ row'[Second(a)].status # "NONE"
                           => row'[First(a)].endsAt <= now
                      /\ row'[Second(a)].status = "NONE"
                           => row'[Second(a)].canceledAt = NoDate
    BY DEF RowsFit
  <2>1. First(a) \in Rows /\ Second(a) \in Rows
    BY RowsAre
  <2>2. ~isActive'[a] => ~isActive[a] \/ \E r \in run[s].expired : AgencyOf(r) = a
    BY <1>1 DEF Closed
  <2>3. \A r \in run[s].expired : row[First(AgencyOf(r))].endsAt <= now
    BY <1>1 DEF Sound, RunsFit, RunFits
  <2> QED BY <2>1, <2>2, <2>3, ClosureRows DEF Sound, RowsFit
<1>4. RunsFit'
  <2> SUFFICES ASSUME NEW g \in Runs, g # s, run[g].pc = "cancel",
                      NEW r \in run[g].expired
               PROVE  /\ row'[r].status # "NONE"
                      /\ row'[First(AgencyOf(r))].endsAt <= now
                      /\ AgencyOf(r) \in run[g].raced \/ AccessIsOver(AgencyOf(r))'
    BY DEF Sound, TypeOK, RunsFit, RunFits
  <2>1. /\ row[r].status # "NONE" /\ row[First(AgencyOf(r))].endsAt <= now
        /\ AgencyOf(r) \in run[g].raced \/ AccessIsOver(AgencyOf(r))
    BY DEF Sound, RunsFit, RunFits
  <2>2. r \in Rows /\ AgencyOf(r) \in Agencies /\ First(AgencyOf(r)) \in Rows
    BY RowsAre DEF Sound, TypeOK, Run
  <2>3. RowsOf(AgencyOf(r)) \subseteq Rows
    BY <2>2, RowsAre
  <2>4. AccessIsOver(AgencyOf(r)) => AccessIsOver(AgencyOf(r))'
    BY <2>3, ClosureRows DEF AccessIsOver, ActiveRowsOf
  <2> QED BY <2>1, <2>2, <2>4, ClosureRows
<1> QED BY <1>2, <1>3, <1>4 DEF Sound

-----------------------------------------------------------------------------
(* What happens beside the runs.                                           *)

\* A step that gives agency a access: every run that has read counts it as raced.
LEMMA GainSound ==
  ASSUME Sound, NEW a \in Agencies, GainsAccess(a), now' = now,
         row' \in [Rows -> Row], RowsFit',
         \A r \in Rows : AgencyOf(r) # a => row'[r] = row[r],
         \A r \in Rows : row[r].status # "NONE" => row'[r].status # "NONE",
         row'[First(a)].endsAt = row[First(a)].endsAt
  PROVE  Sound'
<1>1. /\ run \in [Runs -> Run]
      /\ isActive' = [isActive EXCEPT ![a] = TRUE]
      /\ \A s \in Runs : run'[s] = IF run[s].pc = "cancel"
                                    THEN [run[s] EXCEPT !.raced = run[s].raced \cup {a}]
                                    ELSE run[s]
  BY DEF GainsAccess, Sound, TypeOK
<1>2. run' \in [Runs -> Run]
  <2> SUFFICES ASSUME NEW s \in Runs PROVE run'[s] \in Run
    BY DEF GainsAccess
  <2>1. CASE run[s].pc # "cancel"
    BY <1>1, <2>1
  <2>2. CASE run[s].pc = "cancel"
    <3>1. run[s] \in Run /\ run[s].raced \cup {a} \in SUBSET Agencies
      BY <1>1 DEF Run
    <3>2. run'[s] = [run[s] EXCEPT !.raced = run[s].raced \cup {a}]
      BY <1>1, <2>2
    <3> QED BY <3>1, <3>2 DEF Run
  <2> QED BY <2>1, <2>2
<1>3. TypeOK'
  BY <1>1, <1>2 DEF Sound, TypeOK
<1>4. RunsFit'
  <2> SUFFICES ASSUME NEW s \in Runs, run'[s].pc = "cancel", NEW r \in run'[s].expired
               PROVE  /\ row'[r].status # "NONE"
                      /\ row'[First(AgencyOf(r))].endsAt <= now
                      /\ AgencyOf(r) \in run'[s].raced \/ AccessIsOver(AgencyOf(r))'
    BY DEF RunsFit, RunFits
  <2>1. /\ run[s].pc = "cancel" /\ r \in run[s].expired /\ r \in Rows
        /\ run'[s].raced = run[s].raced \cup {a}
    BY <1>1 DEF Run
  <2>2. /\ row[r].status # "NONE" /\ row[First(AgencyOf(r))].endsAt <= now
        /\ AgencyOf(r) \in run[s].raced \/ AccessIsOver(AgencyOf(r))
    BY <2>1 DEF Sound, RunsFit, RunFits
  <2>3. AgencyOf(r) \in Agencies
    BY <2>1, RowsAre
  <2>4. CASE AgencyOf(r) = a
    BY <2>1, <2>2, <2>4
  <2>5. CASE AgencyOf(r) # a
    <3>1. \A o \in RowsOf(AgencyOf(r)) : o \in Rows /\ row'[o] = row[o]
      BY <2>3, <2>5, RowsAre
    <3>2. First(AgencyOf(r)) \in RowsOf(AgencyOf(r))
      BY <2>3, RowsAre
    <3>3. AccessIsOver(AgencyOf(r)) => AccessIsOver(AgencyOf(r))'
      BY <3>1 DEF AccessIsOver, ActiveRowsOf
    <3> QED BY <2>1, <2>2, <3>1, <3>2, <3>3
  <2> QED BY <2>4, <2>5
<1> QED BY <1>3, <1>4 DEF Sound

LEMMA RenewalPaidSound ==
  ASSUME Sound, NEW a \in Agencies, RenewalPaid(a)
  PROVE  Sound'
<1>1. /\ ~isActive[a] /\ row[Second(a)].status = "NONE"
      /\ row' = [row EXCEPT ![Second(a)] = NewRow]
      /\ GainsAccess(a) /\ now' = now
  BY DEF RenewalPaid, Second
<1>2. NewRow \in Row /\ NewRow.status = "ACTIVE"
  BY ConstantTypes DEF NewRow, Row, Sound, TypeOK
<1>3. \A r \in Rows : r # Second(a) => row'[r] = row[r]
  BY <1>1 DEF Sound, TypeOK
<1>4. row' \in [Rows -> Row] /\ row'[Second(a)] = NewRow
  BY <1>1, <1>2, RowsAre DEF Sound, TypeOK
<1>5. RowsFit'
  <2> SUFFICES ASSUME NEW b \in Agencies
               PROVE  /\ row'[First(b)].status # "NONE" /\ row'[First(b)].activatedAt = 0
                      /\ ~isActive'[b] \/ row'[Second(b)].status # "NONE"
                           => row'[First(b)].endsAt <= now
                      /\ row'[Second(b)].status = "NONE"
                           => row'[Second(b)].canceledAt = NoDate
    BY <1>1 DEF RowsFit
  <2>1. First(b) \in Rows /\ Second(b) \in Rows /\ First(b) # Second(a)
    BY RowsAre DEF First, Second
  <2>2. row'[First(b)] = row[First(b)]
    BY <1>3, <2>1
  <2>3. isActive'[b] = isActive[b] \/ b = a
    BY <1>1 DEF GainsAccess, Sound, TypeOK
  <2>4. CASE b = a
    BY <1>1, <1>2, <1>4, <2>2, <2>4 DEF Sound, RowsFit
  <2>5. CASE b # a
    <3>1. row'[Second(b)] = row[Second(b)]
      BY <1>3, <2>1, <2>5 DEF Second
    <3> QED BY <2>2, <2>3, <2>5, <3>1 DEF Sound, RowsFit
  <2> QED BY <2>4, <2>5
<1>6. First(a) # Second(a) /\ First(a) \in Rows
  BY RowsAre
<1>7. \A r \in Rows : AgencyOf(r) # a => r # Second(a)
  BY RowsAre
<1> QED BY <1>1, <1>2, <1>3, <1>4, <1>5, <1>6, <1>7, GainSound

LEMMA LateEventSound ==
  ASSUME Sound, NEW a \in Agencies, LateEvent(a)
  PROVE  Sound'
<1>1. /\ row' = [row EXCEPT ![First(a)].status = "ACTIVE"]
      /\ GainsAccess(a) /\ now' = now
  BY DEF LateEvent, First
<1>2. /\ First(a) \in Rows /\ row \in [Rows -> Row]
      /\ \A r \in Rows : AgencyOf(r) # a => r # First(a)
  BY RowsAre DEF Sound, TypeOK
<1>3. /\ row' \in [Rows -> Row]
      /\ \A r \in Rows : r # First(a) => row'[r] = row[r]
      /\ row'[First(a)] = [row[First(a)] EXCEPT !.status = "ACTIVE"]
  BY <1>1, <1>2 DEF Row
<1>4. /\ row'[First(a)].status = "ACTIVE"
      /\ row'[First(a)].activatedAt = row[First(a)].activatedAt
      /\ row'[First(a)].endsAt = row[First(a)].endsAt
  BY <1>2, <1>3 DEF Row
<1>5. RowsFit'
  <2> SUFFICES ASSUME NEW b \in Agencies
               PROVE  /\ row'[First(b)].status # "NONE" /\ row'[First(b)].activatedAt = 0
                      /\ ~isActive'[b] \/ row'[Second(b)].status # "NONE"
                           => row'[First(b)].endsAt <= now
                      /\ row'[Second(b)].status = "NONE"
                           => row'[Second(b)].canceledAt = NoDate
    BY <1>1 DEF RowsFit
  <2>1. First(b) \in Rows /\ Second(b) \in Rows /\ Second(b) # First(a)
    BY RowsAre DEF First, Second
  <2>2. row'[Second(b)] = row[Second(b)]
    BY <1>3, <2>1
  <2>3. ~isActive'[b] => ~isActive[b]
    BY <1>1 DEF GainsAccess, Sound, TypeOK
  <2>4. CASE b = a
    BY <1>4, <2>2, <2>3, <2>4 DEF Sound, RowsFit
  <2>5. CASE b # a
    <3>1. row'[First(b)] = row[First(b)]
      BY <1>3, <2>1, <2>5 DEF First
    <3> QED BY <2>2, <2>3, <3>1 DEF Sound, RowsFit
  <2> QED BY <2>4, <2>5
<1> QED BY <1>1, <1>2, <1>3, <1>4, <1>5, GainSound

\* Who cancels has access, so no run that counts on the end of it is about.
LEMMA CancelSound ==
  ASSUME Sound, NEW a \in Agencies, Cancel(a)
  PROVE  Sound'
<1>1. PICK r \in LatestActive(a) :
        /\ now < row[r].endsAt /\ row[r].canceledAt = NoDate
        /\ \E e \in (now + 1)..row[r].endsAt :
             row' = [row EXCEPT ![r].canceledAt = now, ![r].endsAt = e]
  BY DEF Cancel
<1>2. PICK e \in (now + 1)..row[r].endsAt :
        row' = [row EXCEPT ![r].canceledAt = now, ![r].endsAt = e]
  BY <1>1
<1>3. UNCHANGED <<isActive, run, now>>
  BY DEF Cancel
<1>4. r \in ActiveRowsOf(a) /\ r \in Rows /\ AgencyOf(r) = a /\ row[r].status = "ACTIVE"
  BY RowsAre DEF LatestActive, ActiveRowsOf
<1>5. row \in [Rows -> Row] /\ now \in Nat
  BY ConstantTypes DEF Sound, TypeOK
<1>6. /\ row' \in [Rows -> Row]
      /\ \A o \in Rows : o # r => row'[o] = row[o]
      /\ row'[r].status = "ACTIVE" /\ row'[r].activatedAt = row[r].activatedAt
      /\ row'[r].endsAt <= row[r].endsAt
  <2>1. row[r] \in Row /\ e \in Nat /\ e <= row[r].endsAt
    BY <1>4, <1>5 DEF Row
  <2>2. row'[r] = [row[r] EXCEPT !.canceledAt = now, !.endsAt = e]
    BY <1>2, <1>4, <1>5
  <2>3. row'[r] \in Row
    BY <1>5, <2>1, <2>2 DEF Row
  <2> QED BY <1>2, <1>4, <1>5, <2>1, <2>2, <2>3 DEF Row
<1>7. TypeOK'
  BY <1>3, <1>6 DEF Sound, TypeOK
<1>8. RowsFit'
  <2> SUFFICES ASSUME NEW b \in Agencies
               PROVE  /\ row'[First(b)].status # "NONE" /\ row'[First(b)].activatedAt = 0
                      /\ ~isActive[b] \/ row'[Second(b)].status # "NONE"
                           => row'[First(b)].endsAt <= now
                      /\ row'[Second(b)].status = "NONE"
                           => row'[Second(b)].canceledAt = NoDate
    BY <1>3 DEF RowsFit
  <2>1. First(b) \in Rows /\ Second(b) \in Rows /\ First(b) # Second(b)
    BY RowsAre
  <2>2. row[First(b)].endsAt \in Nat /\ row'[First(b)].endsAt \in Nat
    BY <1>5, <1>6, <2>1 DEF Row
  <2>3. row'[First(b)].endsAt <= row[First(b)].endsAt
    BY <1>6, <2>1, <2>2
  <2> QED BY <1>4, <1>5, <1>6, <2>1, <2>2, <2>3 DEF Sound, RowsFit
<1>9. RunsFit'
  <2> SUFFICES ASSUME NEW s \in Runs, run[s].pc = "cancel", NEW x \in run[s].expired
               PROVE  /\ row'[x].status # "NONE"
                      /\ row'[First(AgencyOf(x))].endsAt <= now
                      /\ AgencyOf(x) \in run[s].raced \/ AccessIsOver(AgencyOf(x))'
    BY <1>3 DEF RunsFit, RunFits
  <2>1. /\ row[x].status # "NONE" /\ row[First(AgencyOf(x))].endsAt <= now
        /\ AgencyOf(x) \in run[s].raced \/ AccessIsOver(AgencyOf(x))
    BY DEF Sound, RunsFit, RunFits
  <2>2. x \in Rows /\ AgencyOf(x) \in Agencies /\ First(AgencyOf(x)) \in Rows
    BY RowsAre DEF Sound, TypeOK, Run
  <2>3. First(AgencyOf(x)) # r
    BY <1>1, <1>5, <2>1, <2>2 DEF Row
  <2>4. AccessIsOver(AgencyOf(x)) => AgencyOf(x) # a
    BY <1>1, <1>4, <1>5 DEF AccessIsOver, Row
  <2>5. \A o \in RowsOf(AgencyOf(x)) : o \in Rows /\ (AgencyOf(x) # a => o # r)
    BY <1>4, <2>2, RowsAre
  <2>6. AccessIsOver(AgencyOf(x)) => AccessIsOver(AgencyOf(x))'
    BY <1>3, <1>6, <2>4, <2>5 DEF AccessIsOver, ActiveRowsOf
  <2> QED BY <1>4, <1>6, <2>1, <2>2, <2>3, <2>6
<1> QED BY <1>7, <1>8, <1>9 DEF Sound

LEMMA TickSound ==
  ASSUME Sound, Tick
  PROVE  Sound'
<1>1. /\ now \in Nat /\ now' = now + 1 /\ now' \in 0..MaxTime
      /\ UNCHANGED <<isActive, row, run>>
  BY ConstantTypes DEF Sound, TypeOK, Tick
<1>2. TypeOK'
  BY <1>1 DEF Sound, TypeOK
<1>3. \A r \in Rows : row[r].endsAt \in Nat
  BY DEF Sound, TypeOK, Row
<1>4. RowsFit'
  <2> SUFFICES ASSUME NEW b \in Agencies
               PROVE  /\ row[First(b)].status # "NONE" /\ row[First(b)].activatedAt = 0
                      /\ ~isActive[b] \/ row[Second(b)].status # "NONE"
                           => row[First(b)].endsAt <= now + 1
                      /\ row[Second(b)].status = "NONE"
                           => row[Second(b)].canceledAt = NoDate
    BY <1>1 DEF RowsFit
  <2>1. First(b) \in Rows
    BY RowsAre
  <2> QED BY <1>1, <1>3, <2>1 DEF Sound, RowsFit
<1>5. RunsFit'
  <2> SUFFICES ASSUME NEW s \in Runs, run[s].pc = "cancel", NEW x \in run[s].expired
               PROVE  /\ row[x].status # "NONE"
                      /\ row[First(AgencyOf(x))].endsAt <= now + 1
                      /\ AgencyOf(x) \in run[s].raced \/ AccessIsOver(AgencyOf(x))'
    BY <1>1 DEF RunsFit, RunFits
  <2>1. /\ row[x].status # "NONE" /\ row[First(AgencyOf(x))].endsAt <= now
        /\ AgencyOf(x) \in run[s].raced \/ AccessIsOver(AgencyOf(x))
    BY DEF Sound, RunsFit, RunFits
  <2>2. x \in Rows /\ AgencyOf(x) \in Agencies /\ First(AgencyOf(x)) \in Rows
    BY RowsAre DEF Sound, TypeOK, Run
  <2>3. RowsOf(AgencyOf(x)) \subseteq Rows
    BY <2>2, RowsAre
  <2>4. AccessIsOver(AgencyOf(x)) => AccessIsOver(AgencyOf(x))'
    BY <1>1, <1>3, <2>3 DEF AccessIsOver, ActiveRowsOf
  <2> QED BY <1>1, <1>3, <2>1, <2>2, <2>4
<1> QED BY <1>2, <1>4, <1>5 DEF Sound

LEMMA SoundStep == Sound /\ [Next]_vars => Sound'
<1> SUFFICES ASSUME Sound, [Next]_vars PROVE Sound'
  OBVIOUS
<1>1. CASE UNCHANGED vars
  BY <1>1 DEF vars, Sound, TypeOK, RowsFit, RunsFit, RunFits, AccessIsOver, ActiveRowsOf
<1>2. ASSUME NEW s \in Runs, CancelExpired(s) \/ CommitTimesOut(s) PROVE Sound'
  <2>1. CommitsClosure(s) /\ now' = now /\ run[s].pc # "idle"
    BY <1>2 DEF CancelExpired, CommitTimesOut, CommitsClosure
  <2>2. \E t \in Run : t.pc # "cancel" /\ run' = [run EXCEPT ![s] = t]
    BY <1>2, <2>1, AttemptOver DEF CancelExpired, CommitTimesOut
  <2> QED BY <2>1, <2>2, ClosureSound
<1>3. ASSUME NEW s \in Runs, AttemptTimesOut(s) \/ RunFails(s) PROVE Sound'
  <2>1. run[s].pc # "idle" /\ UNCHANGED <<isActive, row, now>>
    BY <1>3 DEF AttemptTimesOut, RunFails
  <2>2. \E t \in Run : t.pc # "cancel" /\ run' = [run EXCEPT ![s] = t]
    BY <1>3, <2>1, AttemptOver DEF AttemptTimesOut, RunFails
  <2> QED BY <2>1, <2>2, QuietStepSound
<1> QED
  BY <1>1, <1>2, <1>3, StartRunSound, ReadSound, RetrySound, RenewalPaidSound,
     LateEventSound, CancelSound, TickSound
  DEF Next

LEMMA AlwaysSound == Spec => []Sound
<1> QED BY InitSound, SoundStep, PTL DEF Spec

-----------------------------------------------------------------------------
(* Theorems.                                                               *)

\* Every row, run and flag keeps its type: a run never counts more attempts than
\* runSubscriptionExpirationSweepWithRetry makes.
THEOREM TypeCorrect == Spec => []TypeOK
<1>1. Sound => TypeOK
  BY DEF Sound
<1> QED BY AlwaysSound, <1>1, PTL

\* A run keeps the date of the first cancellation, however often it repeats a
\* transaction whose commit it did not hear of, and so does everybody else.
THEOREM FirstDateKept == Spec => FirstCancellationIsKept
<1>1. Sound /\ [Next]_vars
      => [\A r \in Rows : row[r].canceledAt # NoDate
            => row'[r].canceledAt = row[r].canceledAt]_row
  <2> SUFFICES ASSUME Sound, [Next]_vars, row' # row,
                      NEW r \in Rows, row[r].canceledAt # NoDate
               PROVE  row'[r].canceledAt = row[r].canceledAt
    OBVIOUS
  <2>0. row \in [Rows -> Row]
    BY DEF Sound, TypeOK
  <2>1. ASSUME NEW s \in Runs, CommitsClosure(s)
        PROVE  row'[r].canceledAt = row[r].canceledAt
    BY <2>1, ClosureRows
  <2>2. ASSUME NEW a \in Agencies, RenewalPaid(a)
        PROVE  row'[r].canceledAt = row[r].canceledAt
    <3>1. row[Second(a)].status = "NONE" /\ row' = [row EXCEPT ![Second(a)] = NewRow]
      BY <2>2 DEF RenewalPaid, Second
    <3>2. r # Second(a)
      BY <3>1 DEF Sound, RowsFit
    <3> QED BY <2>0, <3>1, <3>2
  <2>3. ASSUME NEW a \in Agencies, LateEvent(a)
        PROVE  row'[r].canceledAt = row[r].canceledAt
    <3>1. row' = [row EXCEPT ![First(a)].status = "ACTIVE"]
      BY <2>3 DEF LateEvent, First
    <3> QED BY <2>0, <3>1 DEF Row
  <2>4. ASSUME NEW a \in Agencies, Cancel(a)
        PROVE  row'[r].canceledAt = row[r].canceledAt
    <3>1. PICK o \in LatestActive(a) :
            /\ row[o].canceledAt = NoDate
            /\ \E e \in (now + 1)..row[o].endsAt :
                 row' = [row EXCEPT ![o].canceledAt = now, ![o].endsAt = e]
      BY <2>4 DEF Cancel
    <3>2. PICK e \in (now + 1)..row[o].endsAt :
            row' = [row EXCEPT ![o].canceledAt = now, ![o].endsAt = e]
      BY <3>1
    <3>3. r # o
      BY <3>1
    <3> QED BY <2>0, <3>2, <3>3
  <2> QED
    BY <2>1, <2>2, <2>3, <2>4
    DEF Next, vars, StartRun, ReadActiveSubscriptions, CancelExpired, CommitTimesOut,
        AttemptTimesOut, Retry, RunFails, Tick
<1> QED BY AlwaysSound, <1>1, PTL DEF Spec, FirstCancellationIsKept

\* A run of the sweep closes an agency that still has access only when the agency
\* gained it after the attempt had read.
THEOREM OnlyRacesClose == Spec => OnlyARaceClosesCurrentAccess
<1>1. Sound /\ [Next]_vars
      => [\A a \in Agencies :
            /\ isActive[a] /\ ~isActive'[a]
            /\ \E r \in LatestActive(a) : now < row[r].endsAt
            => \E s \in Runs : run'[s] # run[s] /\ a \in run[s].raced]_vars
  <2> SUFFICES ASSUME Sound, [Next]_vars, NEW a \in Agencies, isActive[a], ~isActive'[a],
                      NEW r \in LatestActive(a), now < row[r].endsAt
               PROVE  \E s \in Runs : run'[s] # run[s] /\ a \in run[s].raced
    OBVIOUS
  <2>1. \E s \in Runs : CancelExpired(s) \/ CommitTimesOut(s)
    BY DEF Next, vars, StartRun, ReadActiveSubscriptions, AttemptTimesOut, Retry, RunFails,
           RenewalPaid, LateEvent, GainsAccess, Cancel, Tick, Sound, TypeOK
  <2>2. PICK s \in Runs : CancelExpired(s) \/ CommitTimesOut(s)
    BY <2>1
  <2>3. CommitsClosure(s) /\ run[s].pc = "cancel"
    BY <2>2 DEF CancelExpired, CommitTimesOut, CommitsClosure
  <2>4. PICK x \in run[s].expired : AgencyOf(x) = a
    BY <2>3 DEF CommitsClosure, Closed
  <2>5. a \in run[s].raced \/ AccessIsOver(a)
    BY <2>3, <2>4 DEF Sound, RunsFit, RunFits
  <2>6. ~AccessIsOver(a)
    <3>1. r \in ActiveRowsOf(a) /\ r \in Rows
      BY RowsAre DEF LatestActive, ActiveRowsOf
    <3>2. now \in Nat /\ row[r].endsAt \in Nat
      BY <3>1, ConstantTypes DEF Sound, TypeOK, Row
    <3> QED BY <3>1, <3>2 DEF AccessIsOver
  <2>7. PICK t \in Run : t.pc # "cancel" /\ run' = [run EXCEPT ![s] = t]
    BY <2>2, <2>3, AttemptOver DEF CancelExpired, CommitTimesOut
  <2>8. run'[s] # run[s]
    BY <2>3, <2>7 DEF Sound, TypeOK
  <2> QED BY <2>5, <2>6, <2>8
<1> QED BY AlwaysSound, <1>1, PTL DEF Spec, OnlyARaceClosesCurrentAccess
================================================================================
