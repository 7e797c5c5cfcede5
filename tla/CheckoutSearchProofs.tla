------------------------ MODULE CheckoutSearchProofs ------------------------
(***************************************************************************)
(* What a search promises for any account, page size and number of pages.  *)
(***************************************************************************)
EXTENDS CheckoutSearch, SequenceTheorems, TLAPS

LEMMA Constants == PageSize \in Nat /\ PageSize > 0 /\ MaxPages \in Nat /\ Limit \in Nat
<1>1. PageSize \in Nat /\ PageSize > 0 /\ MaxPages \in Nat
  BY PageAssumption
<1> QED BY <1>1 DEF Limit

\* Where the entries of a list are once an entry is put at place n.
LEMMA InsertedEntries ==
  ASSUME NEW S, NEW l \in Seq(S), NEW e \in S, NEW n \in 1..(Len(l) + 1)
  PROVE  /\ InsertAt(l, n, e) \in Seq(S)
         /\ Len(InsertAt(l, n, e)) = Len(l) + 1
         /\ \A m \in 1..Len(l) :
              InsertAt(l, n, e)[IF m < n THEN m ELSE m + 1] = l[m]
<1> DEFINE before == SubSeq(l, 1, n - 1)
           after == SubSeq(l, n, Len(l))
           head == before \o <<e>>
<1>1. before \in Seq(S) /\ Len(before) = n - 1 /\ \A m \in 1..(n - 1) : before[m] = l[m]
  OBVIOUS
<1>2. /\ after \in Seq(S) /\ Len(after) = Len(l) - n + 1
      /\ \A m \in 1..(Len(l) - n + 1) : after[m] = l[n + m - 1]
  OBVIOUS
<1> HIDE DEF before, after
<1>3. /\ head \in Seq(S) /\ Len(head) = n
      /\ \A m \in 1..(n - 1) : head[m] = l[m]
  BY <1>1
<1> HIDE DEF head
<1>4. InsertAt(l, n, e) = head \o after
  BY DEF InsertAt, head, before, after
<1>5. head \o after \in Seq(S) /\ Len(head \o after) = Len(l) + 1
  <2>1. Len(l) \in Nat /\ n \in Nat
    OBVIOUS
  <2>2. head \o after \in Seq(S) /\ Len(head \o after) = Len(head) + Len(after)
    BY <1>2, <1>3, ConcatProperties
  <2> QED BY <1>2, <1>3, <2>1, <2>2
<1>6. ASSUME NEW m \in 1..Len(l), m < n PROVE (head \o after)[m] = l[m]
  BY <1>2, <1>3, <1>6
<1>7. ASSUME NEW m \in 1..Len(l), ~(m < n) PROVE (head \o after)[m + 1] = l[m]
  <2>1. /\ m + 1 - n \in 1..(Len(l) - n + 1)
        /\ m + 1 \in 1..(Len(head) + Len(after))
        /\ m + 1 > Len(head)
    BY <1>2, <1>3, <1>7
  <2>2. (head \o after)[m + 1] = after[m + 1 - n]
    BY <1>2, <1>3, <2>1
  <2> QED BY <1>2, <2>1, <2>2
<1> QED BY <1>4, <1>5, <1>6, <1>7

\* Where they are once the entry at place n is gone; those before it have not
\* moved.
LEMMA RemainingEntries ==
  ASSUME NEW S, NEW l \in Seq(S), NEW n \in 1..Len(l)
  PROVE  /\ RemoveAt(l, n) \in Seq(S)
         /\ Len(RemoveAt(l, n)) = Len(l) - 1
         /\ \A m \in 1..(n - 1) : RemoveAt(l, n)[m] = l[m]
<1> DEFINE before == SubSeq(l, 1, n - 1)
           after == SubSeq(l, n + 1, Len(l))
<1>1. before \in Seq(S) /\ Len(before) = n - 1 /\ \A m \in 1..(n - 1) : before[m] = l[m]
  OBVIOUS
<1>2. after \in Seq(S) /\ Len(after) = Len(l) - n
  OBVIOUS
<1> HIDE DEF before, after
<1>3. RemoveAt(l, n) = before \o after
  BY DEF RemoveAt, before, after
<1>4. Len(l) \in Nat /\ n \in Nat
  OBVIOUS
<1>5. before \o after \in Seq(S) /\ Len(before \o after) = Len(before) + Len(after)
  BY <1>1, <1>2, ConcatProperties
<1>6. \A m \in 1..(n - 1) : (before \o after)[m] = before[m]
  BY <1>1, <1>2, <1>4, ConcatProperties
<1> QED BY <1>1, <1>2, <1>3, <1>4, <1>5, <1>6

-----------------------------------------------------------------------------

Offsets == {k * PageSize : k \in 0..MaxPages}

LEMMA OffsetsAreMultiples ==
  /\ Offsets \subseteq Nat
  /\ 0 \in Offsets
  /\ \A o \in Offsets : o < Limit => o + PageSize \in Offsets
<1>1. ASSUME NEW k \in 0..MaxPages PROVE k * PageSize \in Nat
  BY Constants
<1>2. 0 = 0 * PageSize /\ 0 \in 0..MaxPages
  BY Constants
<1>3. ASSUME NEW k \in 0..MaxPages, k * PageSize < Limit
      PROVE  k * PageSize + PageSize \in Offsets
  <2>1. k # MaxPages
    BY <1>3, Constants DEF Limit
  <2>2. k + 1 \in 0..MaxPages
    BY <2>1, Constants
  <2>3. (k + 1) * PageSize = k * PageSize + PageSize
    BY Constants
  <2> QED BY <2>2, <2>3 DEF Offsets
<1> QED BY <1>1, <1>2, <1>3 DEF Offsets

\* What is still visible to a search lies on a page it has not read.
Ahead ==
  Searching /\ visible => \E n \in DOMAIN listing : n > offset /\ listing[n] = target

Sound == TypeOK /\ Ahead /\ (pc = "request" => offset < Limit)

LEMMA InitSound == Init => Sound
<1> SUFFICES ASSUME Init PROVE TypeOK /\ Ahead
  BY DEF Sound, Init
<1>1. listing \in Seq(Subscriptions)
  BY DEF Init
<1>2. TypeOK
  BY <1>1, OffsetsAreMultiples DEF Init, TypeOK, Offsets
<1>3. Ahead
  BY DEF Init, Ahead, Searching
<1> QED BY <1>2, <1>3

LEMMA SubscribeSound ==
  ASSUME Sound, NEW s \in Subscriptions, NEW n \in 1..(Len(listing) + 1), Subscribe(s, n)
  PROVE  Sound'
<1>1. listing \in Seq(Subscriptions) /\ offset \in Nat
  BY OffsetsAreMultiples DEF Sound, TypeOK, Offsets
<1>2. /\ listing' \in Seq(Subscriptions) /\ Len(listing') = Len(listing) + 1
      /\ \A m \in 1..Len(listing) :
           listing'[IF m < n THEN m ELSE m + 1] = listing[m]
      /\ UNCHANGED <<pc, target, offset, visible>>
  BY <1>1, InsertedEntries DEF Subscribe
<1>3. ASSUME Searching, visible
      PROVE  \E m \in DOMAIN listing' : m > offset /\ listing'[m] = target
  <2>1. PICK m \in DOMAIN listing : m > offset /\ listing[m] = target
    BY <1>3 DEF Sound, Ahead
  <2> DEFINE k == IF m < n THEN m ELSE m + 1
  <2>2. m \in 1..Len(listing) /\ k \in 1..Len(listing') /\ k > offset
    BY <1>1, <1>2, <2>1
  <2>3. listing'[k] = target
    BY <1>2, <2>1, <2>2
  <2> QED BY <1>2, <2>2, <2>3
<1> QED BY <1>2, <1>3 DEF Sound, TypeOK, Ahead, Searching

LEMMA UnsubscribeSound ==
  ASSUME Sound, NEW n \in DOMAIN listing, Unsubscribe(n)
  PROVE  Sound'
<1>1. listing \in Seq(Subscriptions) /\ n \in 1..Len(listing) /\ visible \in BOOLEAN
  BY DEF Sound, TypeOK
<1>2. /\ listing' \in Seq(Subscriptions) /\ Len(listing') = Len(listing) - 1
      /\ \A m \in 1..(n - 1) : listing'[m] = listing[m]
      /\ UNCHANGED <<pc, target, offset>>
      /\ visible' = (visible /\ \A m \in DOMAIN listing : listing[m] = target => m < n)
  BY <1>1, RemainingEntries DEF Unsubscribe
<1>3. ASSUME Searching, visible'
      PROVE  \E m \in DOMAIN listing' : m > offset /\ listing'[m] = target
  <2>0. visible /\ \A m \in DOMAIN listing : listing[m] = target => m < n
    BY <1>2, <1>3, Zenon
  <2>1. PICK m \in DOMAIN listing : m > offset /\ listing[m] = target
    BY <1>3, <2>0 DEF Sound, Ahead
  <2>2. m \in 1..(n - 1)
    BY <1>1, <2>0, <2>1
  <2>3. m \in 1..Len(listing') /\ listing'[m] = target
    BY <1>1, <1>2, <2>1, <2>2
  <2> QED BY <1>2, <2>1, <2>3
<1>4. visible' \in BOOLEAN
  BY <1>1, <1>2
<1> QED BY <1>2, <1>3, <1>4 DEF Sound, TypeOK, Ahead, Searching

LEMMA ReadSound ==
  ASSUME Sound, ReadPage
  PROVE  Sound'
<1>1. NextOffset \in Offsets /\ offset \in Nat
  BY OffsetsAreMultiples DEF ReadPage, Sound, TypeOK, NextOffset, Offsets
<1>2. CASE ~Match /\ pc' = "loop" /\ offset' = NextOffset
  <2>1. ASSUME visible PROVE \E n \in DOMAIN listing : n > NextOffset /\ listing[n] = target
    <3>1. PICK n \in DOMAIN listing : n > offset /\ listing[n] = target
      BY <2>1 DEF ReadPage, Sound, Ahead, Searching
    <3>2. n > NextOffset
      BY <1>1, <1>2, <3>1, Constants DEF Match, NextOffset, Sound, TypeOK
    <3> QED BY <3>1, <3>2
  <2> QED BY <1>1, <1>2, <2>1 DEF ReadPage, Sound, TypeOK, Ahead, Searching, Offsets
<1>3. CASE pc' \in {"found", "missing"} /\ UNCHANGED offset
  BY <1>3 DEF ReadPage, Sound, TypeOK, Ahead, Searching
<1> QED BY <1>2, <1>3 DEF ReadPage

LEMMA SoundStep == Sound /\ [Next]_vars => Sound'
<1> SUFFICES ASSUME Sound, [Next]_vars PROVE Sound'
  OBVIOUS
<1>1. ASSUME NEW s \in Subscriptions, findActiveSubscriptionByCheckoutSession(s)
      PROVE  Sound'
  BY <1>1, OffsetsAreMultiples
  DEF Offsets, findActiveSubscriptionByCheckoutSession, Listed, Sound, TypeOK, Ahead, Searching
<1>2. CASE RequestPage
  BY <1>2 DEF RequestPage, Sound, TypeOK, Ahead, Searching
<1>3. CASE RequestFails \/ UnreadableAnswer
  BY <1>3 DEF RequestFails, UnreadableAnswer, Sound, TypeOK, Ahead, Searching
<1>4. CASE UNCHANGED vars
  BY <1>4 DEF vars, Sound, TypeOK, Ahead, Searching
<1> QED
  BY <1>1, <1>2, <1>3, <1>4, SubscribeSound, UnsubscribeSound, ReadSound DEF Next

\* The types of CheckoutSearch.
THEOREM TypeCorrect == Spec => []TypeOK
<1>1. Sound => TypeOK
  BY DEF Sound
<1> QED BY InitSound, SoundStep, <1>1, PTL DEF Spec

\* A search misses what is there only if something ahead of it left the list,
\* an answer was not readable, or it lies beyond the last page.
THEOREM MissesAreRemovals == Spec => MissedOnlyByRemoval
<1> DEFINE Justified ==
             Searching /\ pc' = "missing" /\ visible'
               => \E n \in DOMAIN listing : n > Limit /\ listing[n] = target
<1>1. Sound /\ [Next]_vars => [Justified]_vars
  <2> SUFFICES ASSUME Sound, Next, Searching, pc' = "missing", visible'
               PROVE  \E n \in DOMAIN listing : n > Limit /\ listing[n] = target
    OBVIOUS
  <2>1. RequestPage \/ ReadPage
    BY DEF Next, Subscribe, Unsubscribe, findActiveSubscriptionByCheckoutSession,
           RequestFails, UnreadableAnswer, Searching
  <2>2. PICK n \in DOMAIN listing : n > offset /\ listing[n] = target
    BY <2>1 DEF RequestPage, ReadPage, Sound, Ahead
  <2>3. n \in 1..Len(listing) /\ Len(listing) \in Nat /\ offset \in Nat
    BY <2>2, OffsetsAreMultiples DEF Sound, TypeOK, Offsets
  <2>4. CASE RequestPage
    BY <2>2, <2>3, <2>4, Constants DEF RequestPage
  <2>5. CASE ReadPage
    BY <2>2, <2>3, <2>5, Constants DEF ReadPage, Match, hasMore
  <2> QED BY <2>1, <2>4, <2>5
<1> HIDE DEF Justified
<1>2. Spec => [][Justified]_vars
  BY InitSound, SoundStep, <1>1, PTL DEF Spec
<1> QED BY <1>2 DEF MissedOnlyByRemoval, Justified
=============================================================================
