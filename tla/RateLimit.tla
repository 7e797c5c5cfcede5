------------------------------ MODULE RateLimit ------------------------------
(***************************************************************************)
(* The rate limiter in front of the public routes (src/src/server.ts): a   *)
(* fixed-window counter in Postgres, shared by the Node processes, with a  *)
(* counter in the memory of each process to fall back on.                  *)
(*                                                                         *)
(* The middleware is asynchronous: it waits for the promise that creates   *)
(* the table, then for the statement that counts, and then decides. One    *)
(* limiter is followed: keyPrefix keeps the others apart.                  *)
(***************************************************************************)
EXTENDS Integers, FiniteSets

CONSTANTS
  Processes,      \* Node processes behind the load balancer
  Requests,       \* requests that can be in flight together
  Keys,           \* normalized keys: an address, or an address and an email
  max,            \* requests a window lets through
  windowMs,       \* length of a window, in ticks of the clock
  MaxCount,       \* bound: no request is sent to a key counted this far
  MaxTime         \* bound: last value of the clock

ASSUME LimitAssumption ==
  /\ max \in Nat \ {0} /\ windowMs \in Nat \ {0}
  /\ MaxCount \in Nat /\ MaxTime \in Nat

Store == "store"
ASSUME StoreIsNoProcess == Store \notin Processes
Counters == {Store} \cup Processes

VARIABLES
  storeUp,    \* Postgres answers
  storeReady, \* rateLimitStoreReady, the promise cached by each process
  hits,       \* the table app_rate_limits and each fallbackRateLimitHits
  cleaning,   \* a DELETE of expired rows is on its way
  call,       \* the requests in flight
  granted,    \* history: requests each counter let through, by tick and number
  now         \* the clock

vars == <<storeUp, storeReady, hits, cleaning, call, granted, now>>

-----------------------------------------------------------------------------
(* One counter of one key. *)

NoEntry == [count |-> 0, resetAt |-> 0]

\* Mutant: every request starts the window anew.
WindowSlides(entry) ==
  [count |-> IF entry.resetAt <= now THEN 1 ELSE entry.count + 1,
   resetAt |-> now + windowMs]

\* Mutant: a request gives its count back.
CountsDown(entry) ==
  IF entry.resetAt <= now THEN [count |-> 1, resetAt |-> now + windowMs]
                          ELSE [entry EXCEPT !.count = @ - 1]

\* The ON CONFLICT branch of the INSERT, and the same rule in memory.
Counted(entry) ==
  IF entry.resetAt <= now THEN [count |-> 1, resetAt |-> now + windowMs]
                          ELSE [entry EXCEPT !.count = @ + 1]

\* Mutant: a window is forgotten one tick early.
WithoutExpiring(entries) ==
  [k \in Keys |-> IF entries[k].resetAt <= now + 1 THEN NoEntry ELSE entries[k]]

WithoutExpired(entries) ==
  [k \in Keys |-> IF entries[k].resetAt <= now THEN NoEntry ELSE entries[k]]

\* Mutant: one request too many.
BlockedLate(count) == count > max + 1

Blocked(count) == count > max

Pending == {"ensure", "query"}
Answers == {"next", "429"}
NoOne == "none"
Call == [pc : {"idle"} \cup Pending \cup Answers,
         process : Processes \cup {NoOne}, key : Keys \cup {NoOne},
         by : Counters \cup {NoOne},    \* the counter that decided
         failed : BOOLEAN]               \* the store failed meanwhile
NoCall == [pc |-> "idle", process |-> NoOne, key |-> NoOne, by |-> NoOne,
           failed |-> FALSE]

Init ==
  /\ storeUp \in BOOLEAN
  /\ storeReady = [p \in Processes |-> "unset"]
  /\ hits = [c \in Counters |-> [k \in Keys |-> NoEntry]]
  /\ cleaning = FALSE
  /\ call = [r \in Requests |-> NoCall]
  /\ granted = [c \in Counters |-> [k \in Keys |-> {}]]
  /\ now = 0

-----------------------------------------------------------------------------
(* The middleware. *)

\* ensureRateLimitStore: the first request of a process starts the creation
\* of the table; every request waits for the promise it left.
Arrive(r, p, k) ==
  /\ call[r].pc \notin Pending
  /\ \A c \in Counters : hits[c][k].count < MaxCount
  /\ storeReady' = [storeReady EXCEPT ![p] = IF @ = "unset" THEN "creating" ELSE @]
  /\ call' = [call EXCEPT ![r] = [pc |-> "ensure", process |-> p, key |-> k,
                                  by |-> NoOne, failed |-> ~storeUp]]
  /\ UNCHANGED <<storeUp, hits, cleaning, granted, now>>

\* Mutant: nobody tells the requests that the creation failed.
CreationHangs(p) ==
  /\ storeReady[p] = "creating" /\ storeUp
  /\ storeReady' = [storeReady EXCEPT ![p] = "ready"]
  /\ UNCHANGED <<storeUp, hits, cleaning, call, granted, now>>

\* The CREATE statements; the promise keeps its outcome.
CreateStore(p) ==
  /\ storeReady[p] = "creating"
  /\ storeReady' = [storeReady EXCEPT ![p] = IF storeUp THEN "ready" ELSE "rejected"]
  /\ UNCHANGED <<storeUp, hits, cleaning, call, granted, now>>

StoreIsReady(r) ==
  /\ call[r].pc = "ensure" /\ storeReady[call[r].process] = "ready"
  /\ call' = [call EXCEPT ![r].pc = "query"]
  /\ UNCHANGED <<storeUp, storeReady, hits, cleaning, granted, now>>

\* A request for key k in the entries of one counter, and in its history.
Entries(entries, k) == [entries EXCEPT ![k] = Counted(entries[k])]

Admitted(grants) ==
  grants \cup {[at |-> now, nth |-> Cardinality({g \in grants : g.at = now}) + 1]}

Grant(through, k, count) ==
  IF Blocked(count) THEN through ELSE [through EXCEPT ![k] = Admitted(through[k])]

Answered(c, count) ==
  [NoCall EXCEPT !.pc = IF Blocked(count) THEN "429" ELSE "next", !.by = c]

consumeDistributedRateLimit(r) ==
  LET k == call[r].key
      count == Counted(hits[Store][k]).count
  IN  /\ call[r].pc = "query" /\ storeUp
      /\ hits' = [hits EXCEPT ![Store] = Entries(hits[Store], k)]
      /\ granted' = [granted EXCEPT ![Store] = Grant(granted[Store], k, count)]
      /\ call' = [call EXCEPT ![r] = Answered(Store, count)]
      /\ cleaning' \in {cleaning, TRUE}
      /\ UNCHANGED <<storeUp, storeReady, now>>

\* The rejected promise, or the failed statement, sends the request to the
\* counter in memory.
consumeFallbackRateLimit(r) ==
  LET p == call[r].process
      k == call[r].key
      entries == WithoutExpired(hits[p])
      count == Counted(entries[k]).count
  IN  /\ \/ call[r].pc = "ensure" /\ storeReady[p] = "rejected"
         \/ call[r].pc = "query" /\ call[r].failed
      /\ hits' = [hits EXCEPT ![p] = Entries(entries, k)]
      /\ granted' = [granted EXCEPT ![p] = Grant(granted[p], k, count)]
      /\ call' = [call EXCEPT ![r] = Answered(p, count)]
      /\ UNCHANGED <<storeUp, storeReady, cleaning, now>>

AllSeeFailure == [r \in Requests |->
                    IF call[r].pc \in Pending THEN [call[r] EXCEPT !.failed = TRUE]
                                              ELSE call[r]]

\* The statement took effect and only its answer was lost: the request goes
\* to the fallback, and the shared count keeps it.
AnswerLost(r) ==
  LET p == call[r].process
      k == call[r].key
      entries == WithoutExpired(hits[p])
      shared == Counted(hits[Store][k]).count
      own == Counted(entries[k]).count
  IN  /\ call[r].pc = "query" /\ storeUp
      /\ storeUp' = FALSE
      /\ hits' = [hits EXCEPT ![Store] = Entries(hits[Store], k),
                              ![p] = Entries(entries, k)]
      /\ granted' = [granted EXCEPT ![Store] = Grant(granted[Store], k, shared),
                                    ![p] = Grant(granted[p], k, own)]
      /\ call' = [AllSeeFailure EXCEPT ![r] = Answered(p, own)]
      /\ UNCHANGED <<storeReady, cleaning, now>>

\* The DELETE that one statement in a hundred starts and does not wait for.
Cleanup ==
  /\ cleaning
  /\ cleaning' = FALSE
  /\ hits' = IF storeUp THEN [hits EXCEPT ![Store] = WithoutExpired(hits[Store])] ELSE hits
  /\ UNCHANGED <<storeUp, storeReady, call, granted, now>>

-----------------------------------------------------------------------------
(* The environment: Postgres goes down and comes back, a process restarts.  *)

StoreFails ==
  /\ storeUp /\ storeUp' = FALSE
  /\ call' = AllSeeFailure
  /\ UNCHANGED <<storeReady, hits, cleaning, granted, now>>

StoreRecovers ==
  /\ ~storeUp /\ storeUp' = TRUE
  /\ UNCHANGED <<storeReady, hits, cleaning, call, granted, now>>

\* The counter in memory starts anew, and so does its history.
Restart(p) ==
  /\ storeReady[p] # "unset"
  /\ storeReady' = [storeReady EXCEPT ![p] = "unset"]
  /\ hits' = [hits EXCEPT ![p] = [k \in Keys |-> NoEntry]]
  /\ granted' = [granted EXCEPT ![p] = [k \in Keys |-> {}]]
  /\ call' = [r \in Requests |->
                IF call[r].process = p THEN NoCall ELSE call[r]]
  /\ UNCHANGED <<storeUp, cleaning, now>>

\* The history goes back one window.
Tick ==
  /\ now < MaxTime
  /\ now' = now + 1
  /\ granted' = [c \in Counters |-> [k \in Keys |->
                   {g \in granted[c][k] : g.at + windowMs > now'}]]
  /\ UNCHANGED <<storeUp, storeReady, hits, cleaning, call>>

-----------------------------------------------------------------------------

Serve(r) ==
  StoreIsReady(r) \/ consumeDistributedRateLimit(r) \/ consumeFallbackRateLimit(r)

Environment == Cleanup \/ StoreFails \/ StoreRecovers \/ Tick

Next ==
  \/ \E r \in Requests :
       \/ \E p \in Processes, k \in Keys : Arrive(r, p, k)
       \/ Serve(r) \/ AnswerLost(r)
  \/ \E p \in Processes : CreateStore(p) \/ Restart(p)
  \/ Environment

Spec == Init /\ [][Next]_vars

\* Node resumes a handler whose promise has settled, and the database driver
\* settles every promise, by an answer or by an error.
Fairness ==
  /\ \A r \in Requests : WF_vars(Serve(r))
  /\ \A p \in Processes : WF_vars(CreateStore(p))

FairSpec == Spec /\ Fairness

-----------------------------------------------------------------------------
(* Properties. *)

TypeOK ==
  /\ storeUp \in BOOLEAN /\ cleaning \in BOOLEAN
  /\ storeReady \in [Processes -> {"unset", "creating", "ready", "rejected"}]
  /\ hits \in [Counters -> [Keys -> [count : Nat, resetAt : Nat]]]
  /\ call \in [Requests -> Call]
  /\ granted \in [Counters -> [Keys -> SUBSET [at : 0..MaxTime, nth : Nat]]]
  /\ now \in 0..MaxTime

\* What counter c let through for key k in the last windowMs ticks.
LetThrough(c, k) == Cardinality(granted[c][k])

\* Whichever processes count, fail, restart or clean up, the shared counter lets
\* less than two windows' worth through in any stretch of windowMs: the worst a
\* fixed window allows, for a window opens with a request.
SharedLimit ==
  \A k \in Keys : LetThrough(Store, k) < 2 * max

\* A window that is still open has let through its count, up to the maximum:
\* the cleanup never makes it forget a request.
OpenWindowRemembers ==
  \A k \in Keys :
    now < hits[Store][k].resetAt =>
      LET opened == hits[Store][k].resetAt - windowMs
          through == Cardinality({g \in granted[Store][k] : g.at >= opened})
      IN  through = IF Blocked(hits[Store][k].count) THEN max
                    ELSE hits[Store][k].count

\* A request is answered 429 only after the counter that blocks it let max
\* requests for the same key through within one window's length: being
\* blocked does not prolong the block.
Blocks(r) == call[r].pc \in Pending /\ call'[r].pc = "429"
RejectionJustified ==
  [][\A r \in Requests :
       Blocks(r) => LetThrough(call'[r].by, call[r].key) >= max]_vars

\* The counter in memory is used only for a request that the store failed.
LocalOnlyWhenStoreFails ==
  [][\A r \in Requests :
       call[r].pc \in Pending /\ call'[r].pc \in Answers /\ call'[r].by # Store
         => call[r].failed \/ ~storeUp']_vars

\* Every request is answered, whatever becomes of the store.
RequestsAreAnswered ==
  \A r \in Requests : call[r].pc \in Pending ~> call[r].pc \notin Pending
=============================================================================
