--------------------------- MODULE CheckoutSearch ---------------------------
(***************************************************************************)
(* The search for the subscription of a checkout in the list that Asaas    *)
(* keeps of all the active ones                                            *)
(* (findActiveSubscriptionByCheckoutSession, src/src/modules/billing/      *)
(* asaas.client.ts): page after page by offset, while the list changes     *)
(* between two requests.                                                   *)
(*                                                                         *)
(* What the billing lifecycle makes of the answer is in Billing, where the *)
(* search is a single question.                                            *)
(***************************************************************************)
EXTENDS Naturals, Sequences, SequencesExt

CONSTANTS
  Subscriptions,   \* subscriptions of the account at Asaas, by their checkout
  NoSubscription,  \* no search has a target
  PageSize,        \* pageSize
  MaxPages         \* pages in the 2000 entries that a search reads

ASSUME PageAssumption == PageSize \in Nat \ {0} /\ MaxPages \in Nat \ {0}
ASSUME TargetAssumption == NoSubscription \notin Subscriptions

VARIABLES
  listing,   \* the active subscriptions, in the order of Asaas
  pc,        \* where the search is
  target,    \* the checkout searched for
  offset,    \* entries skipped so far
  visible    \* history: the target was in the list from the start of the search,
             \* nothing ahead of it left meanwhile, all answers were lists

vars == <<listing, pc, target, offset, visible>>

Limit == MaxPages * PageSize

Listed(s) == \E n \in DOMAIN listing : listing[n] = s

Init ==
  /\ listing = <<>>
  /\ pc = "idle" /\ target = NoSubscription /\ offset = 0 /\ visible = FALSE

-----------------------------------------------------------------------------
(* Asaas: subscriptions become active and cease to be. Nothing is assumed   *)
(* of the place where a new one appears.                                    *)

Subscribe(s, n) ==
  /\ ~Listed(s)
  /\ listing' = InsertAt(listing, n, s)
  /\ UNCHANGED <<pc, target, offset, visible>>

Unsubscribe(n) ==
  /\ listing' = RemoveAt(listing, n)
  /\ visible' = (visible /\ \A m \in DOMAIN listing : listing[m] = target => m < n)
  /\ UNCHANGED <<pc, target, offset>>

-----------------------------------------------------------------------------
(* findActiveSubscriptionByCheckoutSession.                                *)

Searching == pc \in {"loop", "request"}

findActiveSubscriptionByCheckoutSession(s) ==
  /\ ~Searching
  /\ pc' = "loop" /\ target' = s /\ offset' = 0
  /\ visible' = Listed(s)
  /\ UNCHANGED listing

\* The head of the loop: the next page is asked for, or the limit is reached.
RequestPage ==
  /\ pc = "loop"
  /\ pc' = IF offset < Limit THEN "request" ELSE "missing"
  /\ UNCHANGED <<listing, target, offset, visible>>

\* items.find: the answer to the request is entries offset + 1, ... of the list.
Match ==
  \E n \in DOMAIN listing :
    offset < n /\ n <= offset + PageSize /\ listing[n] = target

hasMore == offset + PageSize < Len(listing)

\* Mutant: one entry too many is skipped.
OffsetPastPage == offset + PageSize + 1

\* Mutant: the same page again.
OffsetOfSamePage == offset

NextOffset == offset + PageSize

ReadPage ==
  /\ pc = "request"
  /\ \/ Match /\ pc' = "found" /\ UNCHANGED offset
     \/ ~Match /\ ~hasMore /\ pc' = "missing" /\ UNCHANGED offset
     \/ ~Match /\ hasMore /\ pc' = "loop" /\ offset' = NextOffset
  /\ UNCHANGED <<listing, target, visible>>

\* The request times out (ASAAS_TIMEOUT_MS) or is answered with an error: the
\* search throws.
RequestFails ==
  /\ pc = "request"
  /\ pc' = "failed"
  /\ UNCHANGED <<listing, target, offset, visible>>

\* An answer that is not a list, but no error either, counts as an empty page.
UnreadableAnswer ==
  /\ pc = "request"
  /\ pc' = "missing" /\ visible' = FALSE
  /\ UNCHANGED <<listing, target, offset>>

-----------------------------------------------------------------------------

Answer == ReadPage \/ RequestFails \/ UnreadableAnswer

Next ==
  \/ \E s \in Subscriptions :
       \/ findActiveSubscriptionByCheckoutSession(s)
       \/ \E n \in 1..(Len(listing) + 1) : Subscribe(s, n)
  \/ \E n \in DOMAIN listing : Unsubscribe(n)
  \/ RequestPage \/ ReadPage \/ RequestFails \/ UnreadableAnswer

\* The loop goes on, and a request is answered or times out; nothing is promised
\* about the list.
Fairness == WF_vars(RequestPage) /\ WF_vars(Answer)

Spec == Init /\ [][Next]_vars /\ Fairness

-----------------------------------------------------------------------------
(* Properties. *)

TypeOK ==
  /\ listing \in Seq(Subscriptions)
  /\ pc \in {"idle", "loop", "request", "found", "missing", "failed"}
  /\ target \in Subscriptions \cup {NoSubscription}
  /\ offset \in {k * PageSize : k \in 0..MaxPages}
  /\ visible \in BOOLEAN

\* A search that has not failed misses an active subscription only if an entry
\* ahead of it left the list during the search, which moves the target to a
\* page already read, if an answer was not readable, or if the target lies beyond
\* the last page that is read. New entries, wherever they appear, hide nothing.
MissedOnlyByRemoval ==
  [][Searching /\ pc' = "missing" /\ visible'
       => \E n \in DOMAIN listing : n > Limit /\ listing[n] = target]_vars

\* A search ends, however the list grows and shrinks under it.
SearchEnds == Searching ~> ~Searching
=============================================================================
