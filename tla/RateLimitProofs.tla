--------------------------- MODULE RateLimitProofs ---------------------------
(***************************************************************************)
(* The limits of RateLimit, for any number of processes, requests and      *)
(* keys, any maximum and any length of the window: what every counter has  *)
(* let through agrees with its entry, whoever counts, fails, restarts or   *)
(* cleans up.                                                              *)
(***************************************************************************)
EXTENDS RateLimit, FiniteSetTheorems, TLAPS

-----------------------------------------------------------------------------
(* The strengthening: one counter of one key at time t.                     *)

GrantType == [at : 0..MaxTime, nth : Nat]
EntryType == [count : Nat, resetAt : Nat]

\* The grants of the window of an entry.
Current(entry, grants) == {g \in grants : g.at >= entry.resetAt - windowMs}

\* Grants are told apart by the tick and the number they have there, and no
\* older than one window.
GrantsFit(grants, t) ==
  /\ grants \subseteq GrantType /\ IsFiniteSet(grants)
  /\ \A g \in grants : /\ g.at <= t /\ t < g.at + windowMs
                       /\ g.nth <= Cardinality({x \in grants : x.at = g.at})

\* A window that is over leaves less than the maximum behind, for the request
\* that opened it is a whole window old.
ClosedFits(grants, t) ==
  Cardinality(grants) < max /\ \A g \in grants : g.at < t

\* One that is open has let through its count, beginning with the request that
\* opened it, and found less than the maximum there.
OpenFits(entry, grants, t) ==
  /\ entry.resetAt <= t + windowMs
  /\ \E g \in grants : g.at = entry.resetAt - windowMs
  /\ Cardinality(Current(entry, grants)) =
       IF Blocked(entry.count) THEN max ELSE entry.count
  /\ Cardinality(grants \ Current(entry, grants)) < max

CounterFits(entry, grants, t) ==
  /\ entry \in EntryType /\ GrantsFit(grants, t)
  /\ entry.resetAt <= t => ClosedFits(grants, t)
  /\ t < entry.resetAt => OpenFits(entry, grants, t)

CallsFit ==
  \A r \in Requests : call[r].pc \in Pending =>
    call[r].process \in Processes /\ call[r].key \in Keys

CountersFit ==
  \A c \in Counters, k \in Keys : CounterFits(hits[c][k], granted[c][k], now)

Sound == TypeOK /\ CallsFit /\ CountersFit

-----------------------------------------------------------------------------
(* What becomes of a counter. *)

LEMMA EmptyFits ==
  ASSUME NEW t \in Nat PROVE CounterFits(NoEntry, {}, t)
<1>1. IsFiniteSet({}) /\ Cardinality({}) = 0
  BY FS_EmptySet
<1> QED
  BY <1>1, LimitAssumption
  DEF CounterFits, EntryType, NoEntry, GrantsFit, ClosedFits

LEMMA ExpiredFits ==
  ASSUME NEW t \in Nat, NEW entry, NEW grants, CounterFits(entry, grants, t),
         entry.resetAt <= t
  PROVE  CounterFits(NoEntry, grants, t)
BY DEF CounterFits, EntryType, NoEntry

\* A grant that is added is a new one.
LEMMA AdmittedFits ==
  ASSUME NEW grants, now \in 0..MaxTime, GrantsFit(grants, now)
  PROVE  \E new \in GrantType :
           /\ new.at = now /\ new \notin grants
           /\ Admitted(grants) = grants \cup {new}
           /\ GrantsFit(Admitted(grants), now)
<1> DEFINE here == {g \in grants : g.at = now}
           new == [at |-> now, nth |-> Cardinality(here) + 1]
           more == grants \cup {new}
<1>1. IsFiniteSet(here) /\ Cardinality(here) \in Nat
  <2>1. here \subseteq grants /\ IsFiniteSet(grants)
    BY DEF GrantsFit
  <2> QED BY <2>1, FS_Subset, FS_CardinalityType
<1>2. new \in GrantType /\ new.at = now /\ new.nth = Cardinality(here) + 1
  BY <1>1 DEF GrantType
<1>3. new \notin grants
  <2> SUFFICES ASSUME new \in grants PROVE FALSE
    OBVIOUS
  <2>1. new.nth <= Cardinality({x \in grants : x.at = new.at})
    BY DEF GrantsFit
  <2> QED BY <1>1, <1>2, <2>1
<1>4. Admitted(grants) = more
  BY DEF Admitted
<1> HIDE DEF new
<1>5. GrantsFit(more, now)
  <2>1. IsFiniteSet(more) /\ more \subseteq GrantType
    BY <1>2, FS_AddElement DEF GrantsFit
  <2>2. ASSUME NEW g \in more, g.at = now
        PROVE  Cardinality({x \in more : x.at = g.at}) = Cardinality(here) + 1
    <3>1. new \notin here
      BY <1>3
    <3>2. {x \in more : x.at = g.at} = here \cup {new}
      BY <1>2, <2>2
    <3> HIDE DEF here, more
    <3> QED BY <1>1, <3>1, <3>2, FS_AddElement
  <2>3. ASSUME NEW g \in more
        PROVE  /\ g.at <= now /\ now < g.at + windowMs
               /\ g.nth <= Cardinality({x \in more : x.at = g.at})
    <3>1. CASE g = new
      <4>1. g.at = now /\ g.nth = Cardinality(here) + 1
        BY <1>2, <3>1
      <4>2. now <= now /\ now < now + windowMs
        BY LimitAssumption
      <4>3. Cardinality({x \in more : x.at = g.at}) = Cardinality(here) + 1
        BY <2>2, <4>1
      <4> HIDE DEF here, more
      <4> QED BY <1>1, <4>1, <4>2, <4>3
    <3>2. CASE g \in grants /\ g.at = now
      <4>1. g.nth <= Cardinality(here) /\ g.at <= now /\ now < g.at + windowMs
            /\ g \in GrantType
        BY <3>2 DEF GrantsFit
      <4>2. g.nth \in Nat
        BY <4>1 DEF GrantType
      <4>3. Cardinality({x \in more : x.at = g.at}) = Cardinality(here) + 1
        BY <2>2, <3>2
      <4> HIDE DEF here, more
      <4> QED BY <1>1, <4>1, <4>2, <4>3
    <3>3. CASE g \in grants /\ g.at # now
      <4>1. {x \in more : x.at = g.at} = {x \in grants : x.at = g.at}
        BY <1>2, <3>3
      <4> QED BY <3>3, <4>1 DEF GrantsFit
    <3> QED BY <3>1, <3>2, <3>3
  <2> QED BY <2>1, <2>3 DEF GrantsFit
<1> HIDE DEF more
<1> QED BY <1>2, <1>3, <1>4, <1>5 DEF more

LEMMA CountedFits ==
  ASSUME NEW entry, NEW grants, now \in 0..MaxTime, CounterFits(entry, grants, now)
  PROVE  CounterFits(Counted(entry),
                     IF Blocked(Counted(entry).count) THEN grants ELSE Admitted(grants),
                     now)
<1> DEFINE next == Counted(entry)
<1>0. /\ entry \in EntryType /\ GrantsFit(grants, now) /\ IsFiniteSet(grants)
      /\ \A g \in grants : g.at \in Nat
  BY LimitAssumption DEF CounterFits, GrantsFit, GrantType
<1>1. PICK new \in GrantType :
        /\ new.at = now /\ new \notin grants
        /\ Admitted(grants) = grants \cup {new}
        /\ GrantsFit(Admitted(grants), now)
  BY <1>0, AdmittedFits
<1>2. now \in Nat /\ max \in Nat /\ max >= 1 /\ windowMs \in Nat /\ windowMs >= 1
  BY LimitAssumption
<1>3. CASE entry.resetAt <= now
  <2>1. next = [count |-> 1, resetAt |-> now + windowMs] /\ ~Blocked(next.count)
    BY <1>2, <1>3 DEF Counted, Blocked
  <2>2. ClosedFits(grants, now)
    BY <1>3 DEF CounterFits
  <2>3. Current(next, Admitted(grants)) = {new}
    BY <1>0, <1>1, <1>2, <2>1, <2>2 DEF Current, ClosedFits
  <2>4. Admitted(grants) \ Current(next, Admitted(grants)) = grants
    BY <1>1, <2>3
  <2>5. OpenFits(next, Admitted(grants), now)
    <3>1. \E g \in Admitted(grants) : g.at = next.resetAt - windowMs
      BY <1>1, <1>2, <2>1
    <3>2. Cardinality({new}) = 1
      BY FS_Singleton
    <3> QED BY <1>2, <2>1, <2>2, <2>3, <2>4, <3>1, <3>2 DEF OpenFits, ClosedFits
  <2>6. next \in EntryType /\ ~(next.resetAt <= now)
    BY <1>2, <2>1 DEF EntryType
  <2> HIDE DEF next
  <2>7. CounterFits(next, Admitted(grants), now)
    BY <1>1, <2>5, <2>6 DEF CounterFits
  <2> QED BY <2>1, <2>7 DEF next
<1>4. CASE now < entry.resetAt
  <2>1. /\ next.count = entry.count + 1 /\ next.resetAt = entry.resetAt
        /\ next \in EntryType /\ entry.count \in Nat /\ entry.resetAt \in Nat
    BY <1>0, <1>2, <1>4 DEF Counted, EntryType
  <2> HIDE DEF next
  <2>2. OpenFits(entry, grants, now)
    BY <1>4 DEF CounterFits
  <2>3. CASE Blocked(next.count)
    <3>1. Current(next, grants) = Current(entry, grants)
      BY <2>1 DEF Current
    <3>2. Blocked(entry.count) \/ entry.count = max
      BY <1>2, <2>1, <2>3 DEF Blocked
    <3>3. OpenFits(next, grants, now)
      BY <2>1, <2>2, <2>3, <3>1, <3>2 DEF OpenFits
    <3>4. CounterFits(next, grants, now)
      BY <1>0, <1>2, <1>4, <2>1, <3>3 DEF CounterFits
    <3> QED BY <2>3, <3>4 DEF next
  <2>4. CASE ~Blocked(next.count)
    <3>1. Current(next, Admitted(grants)) = Current(entry, grants) \cup {new}
      BY <1>1, <1>2, <2>1, <2>2 DEF Current, OpenFits
    <3>2. Admitted(grants) \ Current(next, Admitted(grants))
            = grants \ Current(entry, grants)
      BY <1>1, <3>1 DEF Current
    <3>3. Cardinality(Current(entry, grants)) = entry.count
      BY <1>2, <2>1, <2>2, <2>4 DEF OpenFits, Blocked
    <3>4. Cardinality(Current(next, Admitted(grants))) = entry.count + 1
      <4>1. new \notin Current(entry, grants) /\ IsFiniteSet(Current(entry, grants))
        BY <1>0, <1>1, FS_Subset DEF Current
      <4> QED BY <3>1, <3>3, <4>1, FS_AddElement
    <3>5. OpenFits(next, Admitted(grants), now)
      BY <1>1, <2>1, <2>2, <2>4, <3>2, <3>4 DEF OpenFits
    <3>6. CounterFits(next, Admitted(grants), now)
      BY <1>1, <1>2, <1>4, <2>1, <3>5 DEF CounterFits
    <3> QED BY <2>4, <3>6 DEF next
  <2> QED BY <2>3, <2>4
<1>5. entry.resetAt <= now \/ now < entry.resetAt
  BY <1>0, <1>2 DEF EntryType
<1> QED BY <1>3, <1>4, <1>5

\* A tick later the grants that are a whole window old are forgotten; among them,
\* when the window ends, the one that opened it.
LEMMA TickFits ==
  ASSUME NEW t \in Nat, NEW entry, NEW grants, CounterFits(entry, grants, t)
  PROVE  CounterFits(entry, {g \in grants : g.at + windowMs > t + 1}, t + 1)
<1> DEFINE left == {g \in grants : g.at + windowMs > t + 1}
<1>0. /\ entry \in EntryType /\ GrantsFit(grants, t) /\ IsFiniteSet(grants)
      /\ entry.resetAt \in Nat
      /\ \A g \in grants : g.at \in Nat /\ g.at <= t
      /\ max \in Nat /\ max >= 1 /\ windowMs \in Nat
  <2>1. entry \in EntryType /\ GrantsFit(grants, t) /\ IsFiniteSet(grants)
    BY DEF CounterFits, GrantsFit
  <2>2. \A g \in grants : g \in GrantType /\ g.at <= t
    BY <2>1 DEF GrantsFit
  <2>3. \A g \in grants : g.at \in Nat /\ g.at <= t
    <3> HIDE DEF left
    <3> QED BY <2>2, LimitAssumption DEF GrantType
  <2>4. entry.resetAt \in Nat
    BY <2>1 DEF EntryType
  <2> QED BY <2>1, <2>3, <2>4, LimitAssumption
<1>1. left \subseteq grants
  OBVIOUS
<1>2. GrantsFit(left, t + 1)
  <2>1. ASSUME NEW g \in left
        PROVE  {x \in left : x.at = g.at} = {x \in grants : x.at = g.at}
    OBVIOUS
  <2>2. \A g \in left : /\ g.at <= t + 1 /\ t + 1 < g.at + windowMs
    BY <1>0
  <2>3. left \subseteq GrantType /\ IsFiniteSet(left)
    BY <1>0, <1>1, FS_Subset DEF GrantsFit
  <2>4. \A g \in left : g.nth <= Cardinality({x \in left : x.at = g.at})
    BY <1>0, <2>1 DEF GrantsFit
  <2> QED BY <2>2, <2>3, <2>4 DEF GrantsFit
<1>3. \A g \in left : g.at < t + 1
  BY <1>0
<1>4. CASE entry.resetAt <= t
  <2>1. Cardinality(grants) < max
    BY <1>4 DEF CounterFits, ClosedFits
  <2>2. Cardinality(left) < max
    <3>1. /\ Cardinality(left) <= Cardinality(grants)
          /\ Cardinality(left) \in Nat /\ Cardinality(grants) \in Nat
      BY <1>0, <1>1, FS_Subset, FS_CardinalityType
    <3> HIDE DEF left
    <3> QED BY <1>0, <2>1, <3>1
  <2> HIDE DEF left
  <2> QED BY <1>0, <1>2, <1>3, <1>4, <2>2 DEF CounterFits, ClosedFits, left
<1>5. CASE entry.resetAt = t + 1
  <2>1. OpenFits(entry, grants, t)
    BY <1>0, <1>5 DEF CounterFits
  <2>2. PICK first \in grants : first.at = entry.resetAt - windowMs
    BY <2>1 DEF OpenFits
  <2> DEFINE window == Current(entry, grants)
  <2>3. left \subseteq window \ {first} /\ first \in window
    BY <1>0, <1>5, <2>2 DEF Current
  <2>4. IsFiniteSet(window) /\ Cardinality(window) \in Nat /\ Cardinality(window) <= max
    <3>1. IsFiniteSet(window) /\ Cardinality(window) \in Nat
      BY <1>0, FS_Subset, FS_CardinalityType DEF Current
    <3>2. entry.count \in Nat
      BY <1>0 DEF EntryType
    <3> QED BY <1>0, <2>1, <3>1, <3>2 DEF OpenFits, Blocked
  <2> HIDE DEF window, left
  <2>5. /\ IsFiniteSet(window \ {first})
        /\ Cardinality(window \ {first}) = Cardinality(window) - 1
    BY <2>3, <2>4, FS_RemoveElement
  <2>6. Cardinality(left) <= Cardinality(window) - 1 /\ Cardinality(left) \in Nat
    <3>1. IsFiniteSet(left)
      BY <1>2 DEF GrantsFit
    <3> QED BY <2>3, <2>5, <3>1, FS_Subset, FS_CardinalityType
  <2>7. Cardinality(left) < max
    BY <1>0, <2>4, <2>6
  <2> QED BY <1>0, <1>2, <1>3, <1>5, <2>7 DEF CounterFits, ClosedFits, left
<1>6. CASE t + 1 < entry.resetAt
  <2>1. OpenFits(entry, grants, t)
    BY <1>0, <1>6 DEF CounterFits
  <2>2. Current(entry, left) = Current(entry, grants)
    BY <1>0, <1>6 DEF Current
  <2>3. \E g \in left : g.at = entry.resetAt - windowMs
    BY <1>0, <1>6, <2>1 DEF OpenFits
  <2>4. Cardinality(left \ Current(entry, left)) < max
    <3>1. left \ Current(entry, left) \subseteq grants \ Current(entry, grants)
      BY <1>1, <2>2
    <3>2. /\ IsFiniteSet(grants \ Current(entry, grants))
          /\ IsFiniteSet(left \ Current(entry, left))
      BY <1>0, <1>1, <3>1, FS_Subset
    <3> DEFINE old == grants \ Current(entry, grants)
               rest == left \ Current(entry, left)
    <3> HIDE DEF old, rest
    <3>3. /\ Cardinality(rest) <= Cardinality(old)
          /\ Cardinality(rest) \in Nat /\ Cardinality(old) \in Nat
      BY <3>1, <3>2, FS_Subset, FS_CardinalityType DEF old, rest
    <3>4. Cardinality(old) < max
      BY <2>1 DEF OpenFits, old
    <3> QED BY <1>0, <3>3, <3>4 DEF rest
  <2> HIDE DEF left
  <2>5. OpenFits(entry, left, t + 1)
    BY <1>0, <2>1, <2>2, <2>3, <2>4 DEF OpenFits
  <2> QED BY <1>0, <1>2, <1>6, <2>5 DEF CounterFits, left
<1>7. entry.resetAt <= t \/ entry.resetAt = t + 1 \/ t + 1 < entry.resetAt
  BY <1>0
<1> QED BY <1>4, <1>5, <1>6, <1>7

-----------------------------------------------------------------------------
(* Steps. *)

LEMMA InitSound == Init => Sound
<1> SUFFICES ASSUME Init PROVE Sound
  OBVIOUS
<1>1. NoCall \in Call /\ NoCall.pc \notin Pending
  BY DEF NoCall, Call, Pending
<1>2. NoEntry \in EntryType /\ now \in 0..MaxTime /\ now \in Nat
  BY LimitAssumption DEF Init, NoEntry, EntryType
<1>3. TypeOK
  BY <1>1, <1>2 DEF Init, TypeOK, EntryType
<1>4. CallsFit
  BY <1>1 DEF Init, CallsFit
<1>5. CountersFit
  <2>1. \A c \in Counters, k \in Keys : hits[c][k] = NoEntry /\ granted[c][k] = {}
    BY DEF Init
  <2> QED BY <1>2, <2>1, EmptyFits DEF CountersFit
<1> QED BY <1>3, <1>4, <1>5 DEF Sound

\* Steps that count nothing.
LEMMA QuietSound ==
  ASSUME Sound, UNCHANGED <<hits, granted, now>>,
         storeUp' \in BOOLEAN, cleaning' \in BOOLEAN,
         storeReady' \in [Processes -> {"unset", "creating", "ready", "rejected"}],
         call' \in [Requests -> Call], CallsFit'
  PROVE  Sound'
BY DEF Sound, TypeOK, CountersFit

LEMMA MiddlewareSound ==
  ASSUME Sound, NEW r \in Requests,
         StoreIsReady(r) \/ \E p \in Processes, k \in Keys : Arrive(r, p, k)
  PROVE  Sound'
<1>1. ASSUME NEW p \in Processes, NEW k \in Keys, Arrive(r, p, k) PROVE Sound'
  <2> DEFINE new == [pc |-> "ensure", process |-> p, key |-> k, by |-> NoOne,
                     failed |-> ~storeUp]
  <2>1. new \in Call /\ new.process \in Processes /\ new.key \in Keys
    BY DEF Sound, TypeOK, Call, Pending
  <2>2. call' = [call EXCEPT ![r] = new]
    BY <1>1 DEF Arrive
  <2> HIDE DEF new
  <2>3. call' \in [Requests -> Call] /\ CallsFit'
    BY <2>1, <2>2 DEF Sound, TypeOK, CallsFit
  <2>4. storeReady' \in [Processes -> {"unset", "creating", "ready", "rejected"}]
    BY <1>1 DEF Arrive, Sound, TypeOK
  <2> QED BY <1>1, <2>3, <2>4, QuietSound DEF Arrive, Sound, TypeOK
<1>2. CASE StoreIsReady(r)
  <2> DEFINE new == [call[r] EXCEPT !.pc = "query"]
  <2>1. call[r].pc \in Pending /\ call[r] \in Call
    BY <1>2 DEF StoreIsReady, Pending, Sound, TypeOK
  <2>2. new \in Call /\ new.process = call[r].process /\ new.key = call[r].key
    BY <2>1 DEF Call, Pending
  <2>3. call' = [call EXCEPT ![r] = new]
    BY <1>2 DEF StoreIsReady, Sound, TypeOK
  <2> HIDE DEF new
  <2>4. call' \in [Requests -> Call] /\ CallsFit'
    BY <2>1, <2>2, <2>3 DEF Sound, TypeOK, CallsFit
  <2> QED BY <1>2, <2>4, QuietSound DEF StoreIsReady, Sound, TypeOK
<1> QED BY <1>1, <1>2

\* The failure of the store, seen by every request that waits.
LEMMA AllSeeFailureTypes ==
  ASSUME Sound
  PROVE  /\ AllSeeFailure \in [Requests -> Call]
         /\ \A r \in Requests : /\ AllSeeFailure[r].pc = call[r].pc
                                /\ AllSeeFailure[r].process = call[r].process
                                /\ AllSeeFailure[r].key = call[r].key
<1> SUFFICES ASSUME NEW r \in Requests
             PROVE  /\ AllSeeFailure[r] \in Call
                    /\ AllSeeFailure[r].pc = call[r].pc
                    /\ AllSeeFailure[r].process = call[r].process
                    /\ AllSeeFailure[r].key = call[r].key
  BY DEF AllSeeFailure
<1>1. call[r] \in Call
  BY DEF Sound, TypeOK
<1>2. AllSeeFailure[r] = IF call[r].pc \in Pending THEN [call[r] EXCEPT !.failed = TRUE]
                                                   ELSE call[r]
  BY DEF AllSeeFailure
<1> QED BY <1>1, <1>2 DEF Call

LEMMA StoreSound ==
  ASSUME Sound, StoreFails \/ StoreRecovers \/ \E p \in Processes : CreateStore(p)
  PROVE  Sound'
<1>1. CASE StoreFails
  <2>1. call' \in [Requests -> Call] /\ CallsFit'
    BY <1>1, AllSeeFailureTypes DEF StoreFails, Sound, CallsFit
  <2> QED BY <1>1, <2>1, QuietSound DEF StoreFails, Sound, TypeOK
<1>2. CASE StoreRecovers
  BY <1>2, QuietSound DEF StoreRecovers, Sound, TypeOK, CallsFit
<1>3. ASSUME NEW p \in Processes, CreateStore(p) PROVE Sound'
  BY <1>3, QuietSound DEF CreateStore, Sound, TypeOK, CallsFit
<1> QED BY <1>1, <1>2, <1>3

\* Steps that count, clean up or forget.
LEMMA CountersSound ==
  ASSUME Sound, now' \in 0..MaxTime, storeUp' \in BOOLEAN, cleaning' \in BOOLEAN,
         storeReady' \in [Processes -> {"unset", "creating", "ready", "rejected"}],
         call' \in [Requests -> Call], CallsFit',
         hits' \in [Counters -> [Keys -> EntryType]],
         granted' \in [Counters -> [Keys -> SUBSET GrantType]],
         \A c \in Counters, k \in Keys : CounterFits(hits'[c][k], granted'[c][k], now')
  PROVE  Sound'
BY DEF Sound, TypeOK, CountersFit, EntryType, GrantType

\* One counter, from entries that fit what it let through, counts a request.
LEMMA CountsOne ==
  ASSUME Sound, NEW c \in Counters, NEW k \in Keys, NEW entries \in [Keys -> EntryType],
         \A j \in Keys : CounterFits(entries[j], granted[c][j], now)
  PROVE  LET count == Counted(entries[k]).count
             through == Grant(granted[c], k, count)
         IN  /\ Entries(entries, k) \in [Keys -> EntryType]
             /\ through \in [Keys -> SUBSET GrantType]
             /\ \A j \in Keys : CounterFits(Entries(entries, k)[j], through[j], now)
<1> DEFINE count == Counted(entries[k]).count
           through == Grant(granted[c], k, count)
<1>1. granted[c] \in [Keys -> SUBSET GrantType] /\ now \in 0..MaxTime
  BY DEF Sound, TypeOK, GrantType
<1>2. CounterFits(Counted(entries[k]),
                  IF Blocked(count) THEN granted[c][k] ELSE Admitted(granted[c][k]), now)
  BY <1>1, CountedFits
<1>3. Counted(entries[k]) \in EntryType
  BY <1>2 DEF CounterFits
<1>4. /\ Entries(entries, k) \in [Keys -> EntryType]
      /\ Entries(entries, k)[k] = Counted(entries[k])
      /\ \A j \in Keys \ {k} : Entries(entries, k)[j] = entries[j]
  BY <1>3 DEF Entries
<1>5. /\ through[k] = IF Blocked(count) THEN granted[c][k] ELSE Admitted(granted[c][k])
      /\ \A j \in Keys \ {k} : through[j] = granted[c][j]
      /\ through \in [Keys -> SUBSET GrantType]
  <2>1. (IF Blocked(count) THEN granted[c][k] ELSE Admitted(granted[c][k])) \subseteq GrantType
    BY <1>2 DEF CounterFits, GrantsFit
  <2> HIDE DEF count
  <2> QED BY <1>1, <2>1 DEF Grant
<1> HIDE DEF count, through
<1>6. ASSUME NEW j \in Keys PROVE CounterFits(Entries(entries, k)[j], through[j], now)
  BY <1>2, <1>4, <1>5
<1> QED BY <1>4, <1>5, <1>6 DEF count, through

\* Forgetting what has expired changes nothing that counts.
LEMMA WithoutExpiredFits ==
  ASSUME Sound, NEW c \in Counters
  PROVE  /\ WithoutExpired(hits[c]) \in [Keys -> EntryType]
         /\ \A k \in Keys : CounterFits(WithoutExpired(hits[c])[k], granted[c][k], now)
<1>1. /\ now \in Nat /\ hits[c] \in [Keys -> EntryType]
      /\ \A k \in Keys : CounterFits(hits[c][k], granted[c][k], now)
  BY LimitAssumption DEF Sound, TypeOK, CountersFit, EntryType
<1>2. NoEntry \in EntryType
  BY DEF NoEntry, EntryType
<1>3. \A k \in Keys :
        WithoutExpired(hits[c])[k] = IF hits[c][k].resetAt <= now THEN NoEntry ELSE hits[c][k]
  BY DEF WithoutExpired
<1>4. WithoutExpired(hits[c]) \in [Keys -> EntryType]
  BY <1>1, <1>2 DEF WithoutExpired
<1> QED BY <1>1, <1>3, <1>4, ExpiredFits

LEMMA AnsweredTypes ==
  ASSUME NEW c \in Counters, NEW count
  PROVE  Answered(c, count) \in Call /\ Answered(c, count).pc \notin Pending
         /\ Answered(c, count).by = c
BY DEF Answered, NoCall, Call, Pending, Answers

LEMMA SharedSound ==
  ASSUME Sound, NEW r \in Requests, consumeDistributedRateLimit(r)
  PROVE  Sound'
<1> DEFINE k == call[r].key
           count == Counted(hits[Store][k]).count
           entries == Entries(hits[Store], k)
           through == Grant(granted[Store], k, count)
<1>1. /\ k \in Keys /\ Store \in Counters
      /\ hits \in [Counters -> [Keys -> EntryType]]
      /\ granted \in [Counters -> [Keys -> SUBSET GrantType]]
      /\ \A c \in Counters, j \in Keys : CounterFits(hits[c][j], granted[c][j], now)
  BY DEF consumeDistributedRateLimit, Sound, CallsFit, Pending, Counters, TypeOK, EntryType,
         GrantType, CountersFit
<1>2. /\ entries \in [Keys -> EntryType]
      /\ through \in [Keys -> SUBSET GrantType]
      /\ \A j \in Keys : CounterFits(entries[j], through[j], now)
  <2>1. hits[Store] \in [Keys -> EntryType]
        /\ \A j \in Keys : CounterFits(hits[Store][j], granted[Store][j], now)
    BY <1>1
  <2> HIDE DEF k
  <2> QED BY <1>1, <2>1, CountsOne
<1>3. /\ hits' = [hits EXCEPT ![Store] = entries]
      /\ granted' = [granted EXCEPT ![Store] = through]
      /\ call' = [call EXCEPT ![r] = Answered(Store, count)]
      /\ cleaning' \in {cleaning, TRUE} /\ UNCHANGED <<storeUp, storeReady, now>>
  BY DEF consumeDistributedRateLimit
<1> HIDE DEF k, count, entries, through
<1>4. call' \in [Requests -> Call] /\ CallsFit'
  BY <1>1, <1>3, AnsweredTypes DEF Sound, TypeOK, CallsFit
<1>5. /\ hits' \in [Counters -> [Keys -> EntryType]]
      /\ granted' \in [Counters -> [Keys -> SUBSET GrantType]]
  BY <1>1, <1>2, <1>3
<1>6. ASSUME NEW c \in Counters, NEW j \in Keys
      PROVE  CounterFits(hits'[c][j], granted'[c][j], now')
  BY <1>1, <1>2, <1>3
<1>7. now' \in 0..MaxTime /\ storeUp' \in BOOLEAN /\ cleaning' \in BOOLEAN
      /\ storeReady' \in [Processes -> {"unset", "creating", "ready", "rejected"}]
  BY <1>3 DEF Sound, TypeOK
<1> QED BY <1>4, <1>5, <1>6, <1>7, CountersSound

LEMMA FallbackSound ==
  ASSUME Sound, NEW r \in Requests, consumeFallbackRateLimit(r)
  PROVE  Sound'
<1> DEFINE p == call[r].process
           k == call[r].key
           fresh == WithoutExpired(hits[p])
           count == Counted(fresh[k]).count
           entries == Entries(fresh, k)
           through == Grant(granted[p], k, count)
<1>1. /\ k \in Keys /\ p \in Counters
      /\ hits \in [Counters -> [Keys -> EntryType]]
      /\ granted \in [Counters -> [Keys -> SUBSET GrantType]]
      /\ \A c \in Counters, j \in Keys : CounterFits(hits[c][j], granted[c][j], now)
  BY DEF consumeFallbackRateLimit, Sound, CallsFit, Pending, Counters, TypeOK, EntryType,
         GrantType, CountersFit
<1>2. /\ entries \in [Keys -> EntryType]
      /\ through \in [Keys -> SUBSET GrantType]
      /\ \A j \in Keys : CounterFits(entries[j], through[j], now)
  <2>1. /\ fresh \in [Keys -> EntryType]
        /\ \A j \in Keys : CounterFits(fresh[j], granted[p][j], now)
    BY <1>1, WithoutExpiredFits
  <2> HIDE DEF k, p, fresh
  <2> QED BY <1>1, <2>1, CountsOne
<1>3. /\ hits' = [hits EXCEPT ![p] = entries]
      /\ granted' = [granted EXCEPT ![p] = through]
      /\ call' = [call EXCEPT ![r] = Answered(p, count)]
      /\ UNCHANGED <<storeUp, storeReady, cleaning, now>>
  BY DEF consumeFallbackRateLimit
<1> HIDE DEF p, k, fresh, count, entries, through
<1>4. call' \in [Requests -> Call] /\ CallsFit'
  BY <1>1, <1>3, AnsweredTypes DEF Sound, TypeOK, CallsFit
<1>5. /\ hits' \in [Counters -> [Keys -> EntryType]]
      /\ granted' \in [Counters -> [Keys -> SUBSET GrantType]]
  BY <1>1, <1>2, <1>3
<1>6. ASSUME NEW c \in Counters, NEW j \in Keys
      PROVE  CounterFits(hits'[c][j], granted'[c][j], now')
  BY <1>1, <1>2, <1>3
<1>7. now' \in 0..MaxTime /\ storeUp' \in BOOLEAN /\ cleaning' \in BOOLEAN
      /\ storeReady' \in [Processes -> {"unset", "creating", "ready", "rejected"}]
  BY <1>3 DEF Sound, TypeOK
<1> QED BY <1>4, <1>5, <1>6, <1>7, CountersSound

\* Both counters count a request whose answer was lost.
LEMMA AnswerLostSound ==
  ASSUME Sound, NEW r \in Requests, AnswerLost(r)
  PROVE  Sound'
<1> DEFINE p == call[r].process
           k == call[r].key
           fresh == WithoutExpired(hits[p])
           own == Counted(fresh[k]).count
           shared == Counted(hits[Store][k]).count
           entries == Entries(hits[Store], k)
           through == Grant(granted[Store], k, shared)
           ownEntries == Entries(fresh, k)
           ownThrough == Grant(granted[p], k, own)
<1>1. /\ k \in Keys /\ p \in Counters /\ Store \in Counters /\ p # Store
      /\ hits \in [Counters -> [Keys -> EntryType]]
      /\ granted \in [Counters -> [Keys -> SUBSET GrantType]]
      /\ \A c \in Counters, j \in Keys : CounterFits(hits[c][j], granted[c][j], now)
  BY StoreIsNoProcess
  DEF AnswerLost, Sound, CallsFit, Pending, Counters, TypeOK, EntryType, GrantType, CountersFit
<1>2. /\ entries \in [Keys -> EntryType]
      /\ through \in [Keys -> SUBSET GrantType]
      /\ \A j \in Keys : CounterFits(entries[j], through[j], now)
  <2>1. hits[Store] \in [Keys -> EntryType]
        /\ \A j \in Keys : CounterFits(hits[Store][j], granted[Store][j], now)
    BY <1>1
  <2> HIDE DEF k
  <2> QED BY <1>1, <2>1, CountsOne
<1>3. /\ ownEntries \in [Keys -> EntryType]
      /\ ownThrough \in [Keys -> SUBSET GrantType]
      /\ \A j \in Keys : CounterFits(ownEntries[j], ownThrough[j], now)
  <2>1. /\ fresh \in [Keys -> EntryType]
        /\ \A j \in Keys : CounterFits(fresh[j], granted[p][j], now)
    BY <1>1, WithoutExpiredFits
  <2> HIDE DEF k, p, fresh
  <2> QED BY <1>1, <2>1, CountsOne
<1>4. /\ hits' = [hits EXCEPT ![Store] = entries, ![p] = ownEntries]
      /\ granted' = [granted EXCEPT ![Store] = through, ![p] = ownThrough]
      /\ call' = [AllSeeFailure EXCEPT ![r] = Answered(p, own)]
      /\ storeUp' = FALSE /\ UNCHANGED <<storeReady, cleaning, now>>
  BY DEF AnswerLost
<1> HIDE DEF p, k, fresh, own, shared, entries, through, ownEntries, ownThrough
<1>5. call' \in [Requests -> Call] /\ CallsFit'
  BY <1>1, <1>4, AnsweredTypes, AllSeeFailureTypes DEF Sound, CallsFit
<1>6. /\ hits' \in [Counters -> [Keys -> EntryType]]
      /\ granted' \in [Counters -> [Keys -> SUBSET GrantType]]
  BY <1>1, <1>2, <1>3, <1>4
<1>7. ASSUME NEW c \in Counters, NEW j \in Keys
      PROVE  CounterFits(hits'[c][j], granted'[c][j], now')
  BY <1>1, <1>2, <1>3, <1>4
<1>8. now' \in 0..MaxTime /\ storeUp' \in BOOLEAN /\ cleaning' \in BOOLEAN
      /\ storeReady' \in [Processes -> {"unset", "creating", "ready", "rejected"}]
  BY <1>4 DEF Sound, TypeOK
<1> QED BY <1>5, <1>6, <1>7, <1>8, CountersSound

LEMMA CleanupSound ==
  ASSUME Sound, Cleanup PROVE Sound'
<1> DEFINE kept == WithoutExpired(hits[Store])
<1>1. /\ Store \in Counters
      /\ hits \in [Counters -> [Keys -> EntryType]]
      /\ granted \in [Counters -> [Keys -> SUBSET GrantType]]
      /\ \A c \in Counters, j \in Keys : CounterFits(hits[c][j], granted[c][j], now)
  BY DEF Sound, Counters, TypeOK, EntryType, GrantType, CountersFit
<1>2. /\ kept \in [Keys -> EntryType]
      /\ \A j \in Keys : CounterFits(kept[j], granted[Store][j], now)
  BY <1>1, WithoutExpiredFits
<1>3. /\ hits' = IF storeUp THEN [hits EXCEPT ![Store] = kept] ELSE hits
      /\ cleaning' = FALSE /\ UNCHANGED <<storeUp, storeReady, call, granted, now>>
  BY DEF Cleanup
<1> HIDE DEF kept
<1>4. hits' \in [Counters -> [Keys -> EntryType]]
  BY <1>1, <1>2, <1>3
<1>5. ASSUME NEW c \in Counters, NEW j \in Keys
      PROVE  CounterFits(hits'[c][j], granted'[c][j], now')
  BY <1>1, <1>2, <1>3
<1>6. /\ now' \in 0..MaxTime /\ storeUp' \in BOOLEAN /\ cleaning' \in BOOLEAN
      /\ storeReady' \in [Processes -> {"unset", "creating", "ready", "rejected"}]
      /\ call' \in [Requests -> Call] /\ CallsFit'
  BY <1>3 DEF Sound, TypeOK, CallsFit
<1> QED BY <1>1, <1>3, <1>4, <1>5, <1>6, CountersSound

\* A process that restarts takes its counter along, and nobody else's.
LEMMA RestartSound ==
  ASSUME Sound, NEW p \in Processes, Restart(p) PROVE Sound'
<1>1. /\ p \in Counters /\ now \in Nat
      /\ hits \in [Counters -> [Keys -> EntryType]]
      /\ granted \in [Counters -> [Keys -> SUBSET GrantType]]
      /\ \A c \in Counters, j \in Keys : CounterFits(hits[c][j], granted[c][j], now)
  BY LimitAssumption DEF Sound, Counters, TypeOK, EntryType, GrantType, CountersFit
<1>2. NoEntry \in EntryType /\ CounterFits(NoEntry, {}, now)
  BY <1>1, EmptyFits DEF CounterFits
<1>3. /\ hits' = [hits EXCEPT ![p] = [k \in Keys |-> NoEntry]]
      /\ granted' = [granted EXCEPT ![p] = [k \in Keys |-> {}]]
      /\ UNCHANGED <<storeUp, cleaning, now>>
  BY DEF Restart
<1>4. /\ hits' \in [Counters -> [Keys -> EntryType]]
      /\ granted' \in [Counters -> [Keys -> SUBSET GrantType]]
  BY <1>1, <1>2, <1>3
<1>5. ASSUME NEW c \in Counters, NEW j \in Keys
      PROVE  CounterFits(hits'[c][j], granted'[c][j], now')
  BY <1>1, <1>2, <1>3
<1>6. call' \in [Requests -> Call] /\ CallsFit'
  <2>1. NoCall \in Call /\ NoCall.pc \notin Pending
    BY DEF NoCall, Call, Pending
  <2>2. call' = [r \in Requests |-> IF call[r].process = p THEN NoCall ELSE call[r]]
    BY DEF Restart
  <2> QED BY <2>1, <2>2 DEF Sound, TypeOK, CallsFit
<1>7. storeReady' \in [Processes -> {"unset", "creating", "ready", "rejected"}]
  BY DEF Restart, Sound, TypeOK
<1>8. now' \in 0..MaxTime /\ storeUp' \in BOOLEAN /\ cleaning' \in BOOLEAN
  BY <1>3 DEF Sound, TypeOK
<1> QED BY <1>4, <1>5, <1>6, <1>7, <1>8, CountersSound

LEMMA TickSound ==
  ASSUME Sound, Tick PROVE Sound'
<1>1. /\ now \in Nat /\ now' = now + 1 /\ now' \in 0..MaxTime
      /\ hits \in [Counters -> [Keys -> EntryType]]
      /\ granted \in [Counters -> [Keys -> SUBSET GrantType]]
      /\ \A c \in Counters, j \in Keys : CounterFits(hits[c][j], granted[c][j], now)
  BY LimitAssumption DEF Tick, Sound, TypeOK, EntryType, GrantType, CountersFit
<1>2. /\ granted' = [c \in Counters |-> [k \in Keys |->
                       {g \in granted[c][k] : g.at + windowMs > now + 1}]]
      /\ UNCHANGED <<storeUp, storeReady, hits, cleaning, call>>
  BY <1>1 DEF Tick
<1>3. granted' \in [Counters -> [Keys -> SUBSET GrantType]]
  <2>1. \A c \in Counters, k \in Keys :
          {g \in granted[c][k] : g.at + windowMs > now + 1} \in SUBSET GrantType
    <3>1. \A c \in Counters, k \in Keys : granted[c][k] \subseteq GrantType
      BY <1>1
    <3> QED BY <3>1
  <2> QED BY <1>2, <2>1
<1>4. ASSUME NEW c \in Counters, NEW j \in Keys
      PROVE  CounterFits(hits'[c][j], granted'[c][j], now')
  <2>1. granted'[c][j] = {g \in granted[c][j] : g.at + windowMs > now + 1}
    BY <1>2
  <2>2. CounterFits(hits[c][j], {g \in granted[c][j] : g.at + windowMs > now + 1}, now + 1)
    BY <1>1, TickFits
  <2> QED BY <1>1, <1>2, <2>1, <2>2
<1>5. /\ storeUp' \in BOOLEAN /\ cleaning' \in BOOLEAN
      /\ storeReady' \in [Processes -> {"unset", "creating", "ready", "rejected"}]
      /\ call' \in [Requests -> Call] /\ CallsFit'
  BY <1>2 DEF Sound, TypeOK, CallsFit
<1> QED BY <1>1, <1>2, <1>3, <1>4, <1>5, CountersSound

LEMMA SoundStep == Sound /\ [Next]_vars => Sound'
<1> SUFFICES ASSUME Sound, [Next]_vars PROVE Sound'
  OBVIOUS
<1>1. ASSUME NEW r \in Requests, NEW p \in Processes, NEW k \in Keys, Arrive(r, p, k)
      PROVE  Sound'
  BY <1>1, MiddlewareSound
<1>2. ASSUME NEW r \in Requests, Serve(r) \/ AnswerLost(r) PROVE Sound'
  BY <1>2, MiddlewareSound, SharedSound, FallbackSound, AnswerLostSound DEF Serve
<1>3. ASSUME NEW p \in Processes, CreateStore(p) \/ Restart(p) PROVE Sound'
  BY <1>3, StoreSound, RestartSound
<1>4. CASE Environment
  BY <1>4, CleanupSound, StoreSound, TickSound DEF Environment
<1>5. CASE UNCHANGED vars
  BY <1>5 DEF vars, Sound, TypeOK, CallsFit, CountersFit
<1> QED BY <1>1, <1>2, <1>3, <1>4, <1>5 DEF Next

LEMMA AlwaysSound == Spec => []Sound
BY InitSound, SoundStep, PTL DEF Spec

-----------------------------------------------------------------------------
(* Theorems. *)

\* Counters, calls and history have their types: createRateLimiter's middleware,
\* whatever becomes of the store and of the processes.
THEOREM TypeCorrect == Spec => []TypeOK
BY AlwaysSound, PTL DEF Sound

\* What one counter of one key has let through in the last windowMs ticks.
LEMMA LetThroughBounded ==
  ASSUME Sound, NEW c \in Counters, NEW k \in Keys
  PROVE  LetThrough(c, k) < 2 * max
<1> DEFINE entry == hits[c][k]
           grants == granted[c][k]
           window == Current(entry, grants)
           old == grants \ window
<1>1. CounterFits(entry, grants, now) /\ now \in Nat /\ max \in Nat /\ max >= 1
  BY LimitAssumption DEF Sound, CountersFit, TypeOK
<1>2. IsFiniteSet(grants) /\ entry.resetAt \in Nat /\ entry.count \in Nat
  BY <1>1 DEF CounterFits, GrantsFit, EntryType
<1>3. /\ IsFiniteSet(window) /\ Cardinality(window) \in Nat
      /\ IsFiniteSet(old) /\ Cardinality(old) \in Nat
  BY <1>2, FS_Subset, FS_CardinalityType DEF Current
<1>4. Cardinality(grants) \in Nat
  BY <1>2, FS_CardinalityType
<1>5. CASE entry.resetAt <= now
  <2>1. Cardinality(grants) < max
    BY <1>1, <1>5 DEF CounterFits, ClosedFits
  <2> HIDE DEF grants
  <2> QED BY <1>1, <1>4, <2>1 DEF LetThrough, grants
<1>6. CASE now < entry.resetAt
  <2>1. OpenFits(entry, grants, now)
    BY <1>1, <1>6 DEF CounterFits
  <2>2. Cardinality(window) <= max /\ Cardinality(old) < max
    BY <1>1, <1>2, <2>1 DEF OpenFits, Blocked
  <2>3. grants = window \cup old /\ window \cap old = {}
    BY DEF Current
  <2> HIDE DEF window, old
  <2>4. Cardinality(grants) = Cardinality(window) + Cardinality(old)
    <3>1. Cardinality(window \cap old) = 0
      BY <2>3, FS_EmptySet
    <3>2. Cardinality(window \cup old)
            = Cardinality(window) + Cardinality(old) - Cardinality(window \cap old)
      BY <1>3, FS_Union
    <3> QED BY <1>3, <2>3, <3>1, <3>2
  <2> HIDE DEF grants
  <2> QED BY <1>1, <1>3, <2>2, <2>4 DEF LetThrough, grants
<1> QED BY <1>1, <1>2, <1>5, <1>6

\* The counter in Postgres lets less than two windows' worth through in any
\* stretch of windowMs, however processes count, fail, restart and clean up.
THEOREM LimitIsShared == Spec => []SharedLimit
<1>1. Sound => SharedLimit
  BY LetThroughBounded DEF SharedLimit, Counters
<1> QED BY <1>1, AlwaysSound, PTL

\* An open window of the shared counter has let through exactly its count, up to
\* the maximum: the DELETE of expired rows, whenever it arrives, takes none of it.
THEOREM OpenWindowsRemember == Spec => []OpenWindowRemembers
<1>1. Sound => OpenWindowRemembers
  <2> SUFFICES ASSUME Sound, NEW k \in Keys, now < hits[Store][k].resetAt
               PROVE  Cardinality({g \in granted[Store][k] :
                                     g.at >= hits[Store][k].resetAt - windowMs})
                        = IF Blocked(hits[Store][k].count) THEN max
                          ELSE hits[Store][k].count
    BY DEF OpenWindowRemembers
  <2>1. OpenFits(hits[Store][k], granted[Store][k], now)
    BY DEF Sound, CountersFit, CounterFits, Counters
  <2> QED BY <2>1 DEF OpenFits, Current
<1> QED BY <1>1, AlwaysSound, PTL

\* An entry that blocks the next request has let the maximum through.
LEMMA BlockedLetThrough ==
  ASSUME Sound, NEW entry, NEW grants, CounterFits(entry, grants, now),
         Blocked(Counted(entry).count)
  PROVE  Cardinality(grants) >= max
<1>1. /\ now \in Nat /\ max \in Nat /\ max >= 1 /\ IsFiniteSet(grants)
      /\ entry.resetAt \in Nat /\ entry.count \in Nat /\ entry \in EntryType
  BY LimitAssumption DEF Sound, TypeOK, CounterFits, GrantsFit, EntryType
<1>2. now < entry.resetAt /\ entry.count >= max
  <2>1. CASE entry.resetAt <= now
    BY <1>1, <2>1 DEF Counted, Blocked
  <2>2. CASE now < entry.resetAt
    BY <1>1, <2>2 DEF Counted, Blocked, EntryType
  <2> QED BY <1>1, <2>1, <2>2
<1>3. Cardinality(Current(entry, grants)) = max
  BY <1>1, <1>2 DEF CounterFits, OpenFits, Blocked
<1>4. /\ Cardinality(Current(entry, grants)) <= Cardinality(grants)
      /\ Cardinality(grants) \in Nat
  BY <1>1, FS_Subset, FS_CardinalityType DEF Current
<1> QED BY <1>1, <1>3, <1>4

\* Only the request whose turn it is becomes an answered one.
LEMMA AnsweredByOwnStep ==
  ASSUME Sound, Next, NEW r \in Requests, Blocks(r)
  PROVE  consumeDistributedRateLimit(r) \/ consumeFallbackRateLimit(r) \/ AnswerLost(r)
<1>0. /\ call \in [Requests -> Call] /\ call[r].pc \in Pending /\ call'[r].pc \notin Pending
      /\ call'[r].pc # call[r].pc /\ call'[r] # call[r] /\ call'[r].pc = "429"
  BY DEF Sound, TypeOK, Blocks, Pending
<1>1. ASSUME NEW q \in Requests, NEW p \in Processes, NEW k \in Keys, Arrive(q, p, k)
      PROVE  FALSE
  BY <1>0, <1>1 DEF Arrive, Pending
<1>2. ASSUME NEW q \in Requests, StoreIsReady(q) PROVE FALSE
  <2>1. call[q] \in Call
    BY <1>0
  <2>2. [call[q] EXCEPT !.pc = "query"].pc \in Pending
    BY <2>1 DEF Call, Pending
  <2> QED BY <1>0, <1>2, <2>2 DEF StoreIsReady
<1>3. ASSUME NEW q \in Requests, consumeDistributedRateLimit(q) \/ consumeFallbackRateLimit(q)
      PROVE  q = r
  BY <1>0, <1>3 DEF consumeDistributedRateLimit, consumeFallbackRateLimit
<1>4. ASSUME NEW q \in Requests, AnswerLost(q) PROVE q = r
  <2> SUFFICES ASSUME q # r PROVE FALSE
    OBVIOUS
  <2>1. call'[r] = AllSeeFailure[r]
    BY <1>4, AllSeeFailureTypes DEF AnswerLost
  <2> QED BY <1>0, <2>1, AllSeeFailureTypes
<1>5. ASSUME NEW p \in Processes, CreateStore(p) PROVE FALSE
  BY <1>0, <1>5 DEF CreateStore
<1>6. ASSUME NEW p \in Processes, Restart(p) PROVE FALSE
  <2>1. call'[r] = NoCall \/ call'[r] = call[r]
    BY <1>6 DEF Restart
  <2> QED BY <1>0, <2>1 DEF NoCall
<1>7. CASE StoreFails
  BY <1>0, <1>7, AllSeeFailureTypes DEF StoreFails
<1>8. CASE Cleanup \/ StoreRecovers \/ Tick
  BY <1>0, <1>8 DEF Cleanup, StoreRecovers, Tick
<1>9. CASE \E q \in Requests : Serve(q) \/ AnswerLost(q)
  BY <1>2, <1>3, <1>4, <1>9 DEF Serve
<1> QED BY <1>1, <1>5, <1>6, <1>7, <1>8, <1>9 DEF Next, Environment

\* A request is answered 429 only after the counter that blocks it let max
\* requests for its key through within one window's length: requests that are
\* blocked are counted too, and do not prolong the block.
THEOREM RejectionsAreJustified == Spec => RejectionJustified
<1> DEFINE Justified(r) == Blocks(r) => LetThrough(call'[r].by, call[r].key) >= max
<1>1. ASSUME Sound, Next, NEW r \in Requests PROVE Justified(r)
  <2> SUFFICES ASSUME Blocks(r) PROVE LetThrough(call'[r].by, call[r].key) >= max
    OBVIOUS
  <2> DEFINE k == call[r].key
             p == call[r].process
  <2>1. /\ call[r].pc \in Pending /\ k \in Keys /\ p \in Counters /\ Store \in Counters
        /\ call'[r].pc = "429" /\ call \in [Requests -> Call]
    BY <1>1 DEF Blocks, Sound, CallsFit, Counters, TypeOK
  <2>2. \A c \in Counters : CounterFits(hits[c][k], granted[c][k], now)
    BY <1>1, <2>1 DEF Sound, CountersFit
  <2>3. \A c \in Counters : \A count : Answered(c, count).pc = "429" => Blocked(count)
    BY DEF Answered, NoCall
  <2>4. CASE consumeDistributedRateLimit(r)
    <3>1. call'[r] = Answered(Store, Counted(hits[Store][k]).count)
      BY <2>1, <2>4 DEF consumeDistributedRateLimit
    <3>2. call'[r].by = Store /\ Blocked(Counted(hits[Store][k]).count)
      BY <2>1, <2>3, <3>1, AnsweredTypes
    <3>3. Cardinality(granted[Store][k]) >= max
      BY <1>1, <2>1, <2>2, <3>2, BlockedLetThrough
    <3> QED BY <3>2, <3>3 DEF LetThrough
  <2>5. CASE consumeFallbackRateLimit(r) \/ AnswerLost(r)
    <3>1. call'[r] = Answered(p, Counted(WithoutExpired(hits[p])[k]).count)
      BY <1>1, <2>1, <2>5, AllSeeFailureTypes DEF consumeFallbackRateLimit, AnswerLost
    <3>2. call'[r].by = p /\ Blocked(Counted(WithoutExpired(hits[p])[k]).count)
      BY <2>1, <2>3, <3>1, AnsweredTypes
    <3>3. CounterFits(WithoutExpired(hits[p])[k], granted[p][k], now)
      BY <1>1, <2>1, WithoutExpiredFits
    <3>4. Cardinality(granted[p][k]) >= max
      BY <1>1, <3>2, <3>3, BlockedLetThrough
    <3> QED BY <3>2, <3>4 DEF LetThrough
  <2> QED BY <1>1, <2>4, <2>5, AnsweredByOwnStep
<1>2. Sound /\ [Next]_vars => [\A r \in Requests : Justified(r)]_vars
  BY <1>1
<1> QED BY <1>2, AlwaysSound, PTL DEF Spec, RejectionJustified
=============================================================================
