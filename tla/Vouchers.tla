------------------------------ MODULE Vouchers ------------------------------
(***************************************************************************)
(* Vouchers of one agency (modules/admin/admin.service.ts and              *)
(* admin.controller.ts): a row, its children in four tables, and a         *)
(* suggested itinerary that an AI service writes.                          *)
(*                                                                         *)
(* createVoucher and updateVoucher are transactions of several statements. *)
(* A statement sees what other transactions have committed when it begins, *)
(* and an UPDATE of a row waits for the transaction that holds it. The     *)
(* itinerary is asked for after the commit and saved by a transaction of   *)
(* its own. Requests are numbered; a voucher has the number of the request *)
(* that created it.                                                        *)
(***************************************************************************)
EXTENDS Integers

CONSTANTS
  Handlers,       \* requests that can be in flight together
  Destinations,   \* values of tripDestination
  Codes,          \* values of reservationCode
  PublicCodes,    \* codes that generatePublicCodeCandidate can draw
  Optional,       \* sets of child tables a payload may fill besides flights
  MaxRequests     \* bound: creations and updates

NoDestination == "none"
NoCode == "none"
Children == {"flights", "tours", "hotel", "transfer"}
OnePerVoucher == {"hotel", "transfer"}   \* voucherId is unique: upserted

ASSUME RequestsAssumption == MaxRequests \in Nat
ASSUME NamesAssumption ==
  /\ NoDestination \notin Destinations
  /\ NoCode \notin Codes \cup PublicCodes
ASSUME OptionalAssumption == Optional \subseteq SUBSET Children

VARIABLES
  voucher,   \* Voucher
  child,     \* Flight, Tour, Hotel, Transfer: who wrote the rows of a voucher
  request,   \* history: what was asked for, and beside whom
  issued,    \* history: number of the last request
  gaveUp,    \* history: requests that were to save an itinerary and did not
  task       \* the handlers in flight

vars == <<voucher, child, request, issued, gaveUp, task>>

Ids == 1..MaxRequests

\* An itinerary suits the request whose context it was generated from. A poor
\* one looks truncated, or talks about flights.
Itinerary == [status : {"none", "good", "poor"}, of : 0..MaxRequests]
NoItinerary == [status |-> "none", of |-> 0]

Voucher == [publicCode : PublicCodes \cup {NoCode},
            reservationCode : Codes \cup {NoCode},
            tripDestination : Destinations \cup {NoDestination},
            itinerary : Itinerary,
            by : 0..MaxRequests]        \* history: the request that wrote it
NoVoucher == [publicCode |-> NoCode, reservationCode |-> NoCode,
              tripDestination |-> NoDestination, itinerary |-> NoItinerary, by |-> 0]

\* What normalizeVoucherPayload lets through: a reservation code, flights, and
\* of the rest what was filled in.
Payload == [reservationCode : Codes,
            tripDestination : Destinations \cup {NoDestination},
            children : {{"flights"} \cup some : some \in Optional}]

\* The rows request n writes in each child table when it carries payload p.
Written(p, n) == [c \in Children |-> IF c \in p.children THEN {n} ELSE {}]

Request == [voucher : Ids, payload : Payload, beside : SUBSET Ids]

Transaction == {"update", "children", "commit"}
Task == [pc : {"idle", "draw", "insert", "generate", "save"} \cup Transaction,
         request : 0..MaxRequests,
         publicCode : PublicCodes \cup {NoCode},
         reset : BOOLEAN,               \* shouldResetItinerary
         generate : BOOLEAN,            \* shouldGenerateItinerary
         deleted : [Children -> SUBSET Ids],
         text : {"none", "good", "poor"}]
Idle == [pc |-> "idle", request |-> 0, publicCode |-> NoCode, reset |-> FALSE,
         generate |-> FALSE, deleted |-> [c \in Children |-> {}], text |-> "none"]

Live == {v \in Ids : voucher[v].by # 0}
Asked(h) == request[task[h].request].payload
Of(h) == request[task[h].request].voucher
Busy(v) == {h \in Handlers : task[h].pc # "idle" /\ Of(h) = v}
Finish(h) == task' = [task EXCEPT ![h] = Idle]

Init ==
  /\ voucher = [v \in Ids |-> NoVoucher]
  /\ child = [c \in Children |-> [v \in Ids |-> {}]]
  /\ request = [n \in {} |-> NoVoucher]
  /\ issued = 0
  /\ gaveUp = {}
  /\ task = [h \in Handlers |-> Idle]

-----------------------------------------------------------------------------
(* Statements. *)

\* The request is valid and gets its number.
Begin(v, p) ==
  /\ issued < MaxRequests
  /\ issued' = issued + 1
  /\ request' = [n \in 1..issued' |->
       IF n <= issued THEN request[n]
       ELSE [voucher |-> v, payload |-> p,
             beside |-> {task[h].request : h \in Busy(v)}]]

\* Mutant: the children are written before the row, so nothing has locked it.
NeverLocked(h, v) == TRUE

\* No other transaction has updated the row of voucher v and not yet ended.
RowIsFree(h, v) ==
  \A g \in Handlers \ {h} : ~(task[g].pc \in {"children", "commit"} /\ Of(g) = v)

\* No transaction that may still roll back has taken or left this code.
CodeIsSettled(h, code) ==
  \A g \in Handlers \ {h} :
    task[g].pc \in {"children", "commit"} =>
      code \notin {Asked(g).reservationCode, voucher[Of(g)].reservationCode}

CodeIsTaken(v, code) == \E o \in Live \ {v} : voucher[o].reservationCode = code

-----------------------------------------------------------------------------
(* createVoucher *)

createVoucher(h, p) ==
  /\ task[h].pc = "idle"
  /\ Begin(issued + 1, p)
  /\ task' = [task EXCEPT ![h] = [Idle EXCEPT !.pc = "draw", !.request = issued + 1]]
  /\ UNCHANGED <<voucher, child, gaveUp>>

\* A code that no voucher has yet; after too many that are taken the handler
\* fails, as it may anywhere (Abort).
generateUniquePublicCode(h, code) ==
  /\ task[h].pc = "draw"
  /\ \A v \in Live : voucher[v].publicCode # code
  /\ task' = [task EXCEPT ![h].pc = "insert", ![h].publicCode = code]
  /\ UNCHANGED <<voucher, child, request, issued, gaveUp>>

InsertVoucher(h) ==
  LET v == Of(h)
      p == Asked(h)
  IN  /\ task[h].pc = "insert"
      /\ CodeIsSettled(h, p.reservationCode)
      /\ ~CodeIsTaken(v, p.reservationCode)
      /\ \A o \in Live : voucher[o].publicCode # task[h].publicCode
      /\ voucher' = [voucher EXCEPT ![v] =
           [publicCode |-> task[h].publicCode, reservationCode |-> p.reservationCode,
            tripDestination |-> p.tripDestination, itinerary |-> NoItinerary,
            by |-> task[h].request]]
      /\ child' = [c \in Children |->
                     [child[c] EXCEPT ![v] = Written(p, task[h].request)[c]]]
      /\ IF p.tripDestination # NoDestination THEN task' = [task EXCEPT ![h].pc = "generate"]
        ELSE Finish(h)
      /\ UNCHANGED <<request, issued, gaveUp>>

-----------------------------------------------------------------------------
(* updateVoucher *)

DestinationChanged(row, p) == row.tripDestination # p.tripDestination

\* Mutant: a new destination keeps the itinerary of the old one.
ResetsWithoutDestination(row, p) == p.tripDestination = NoDestination

shouldResetItinerary(row, p) ==
  p.tripDestination = NoDestination \/ DestinationChanged(row, p)

\* Mutant: an itinerary that is missing or poor stays so.
GeneratesForNewDestination(row, p) ==
  p.tripDestination # NoDestination /\ DestinationChanged(row, p)

shouldGenerateItinerary(row, p) ==
  /\ p.tripDestination # NoDestination
  /\ DestinationChanged(row, p) \/ row.itinerary.status # "good"

\* The row is read, and what to do with the itinerary decided, before anything
\* is locked.
updateVoucher(h, v, p) ==
  /\ task[h].pc = "idle" /\ v \in Live
  /\ Begin(v, p)
  /\ task' = [task EXCEPT ![h] =
       [Idle EXCEPT !.pc = "update", !.request = issued + 1,
                    !.reset = shouldResetItinerary(voucher[v], p),
                    !.generate = shouldGenerateItinerary(voucher[v], p)]]
  /\ UNCHANGED <<voucher, child, gaveUp>>

\* The UPDATE of the row, which nobody sees before the commit.
UpdateRow(h) ==
  /\ task[h].pc = "update"
  /\ RowIsFree(h, Of(h))
  /\ CodeIsSettled(h, Asked(h).reservationCode)
  /\ ~CodeIsTaken(Of(h), Asked(h).reservationCode)
  /\ task' = [task EXCEPT ![h].pc = "children"]
  /\ UNCHANGED <<voucher, child, request, issued, gaveUp>>

\* deleteMany takes the rows it can see. A hotel or transfer is deleted only when
\* the payload has none.
DeleteChildren(h) ==
  /\ task[h].pc = "children"
  /\ task' = [task EXCEPT ![h].pc = "commit",
                          ![h].deleted =
             [c \in Children |-> IF c \in OnePerVoucher \cap Asked(h).children
                                  THEN {} ELSE child[c][Of(h)]]]
  /\ UNCHANGED <<voucher, child, request, issued, gaveUp>>

Cleared(itinerary) == NoItinerary

\* The row after the UPDATE; who wrote it is history.
RowAfterUpdate(h, current) ==
  [current EXCEPT
    !.reservationCode = Asked(h).reservationCode,
    !.tripDestination = Asked(h).tripDestination,
    !.itinerary = IF task[h].reset THEN Cleared(current.itinerary) ELSE @,
    !.by = task[h].request]

\* The rows of one child table after its statements.
RowsAfterUpdate(h, c) ==
  LET new == Written(Asked(h), task[h].request)[c]
  IN  IF c \in OnePerVoucher \cap Asked(h).children THEN new
      ELSE (child[c][Of(h)] \ task[h].deleted[c]) \cup new

\* The new children, the commit, and the answer.
CommitUpdate(h) ==
  LET v == Of(h)
  IN  /\ task[h].pc = "commit"
      /\ voucher' = [voucher EXCEPT ![v] = RowAfterUpdate(h, voucher[v])]
      /\ child' = [c \in Children |->
                     [child[c] EXCEPT ![v] = RowsAfterUpdate(h, c)]]
      /\ IF task[h].generate THEN task' = [task EXCEPT ![h].pc = "generate"]
                             ELSE Finish(h)
      /\ UNCHANGED <<request, issued, gaveUp>>

\* P2002, answered 409; the transaction is rolled back.
Conflict(h) ==
  LET code == Asked(h).reservationCode
  IN  /\ task[h].pc \in {"insert", "update"}
      /\ CodeIsSettled(h, code)
      /\ \/ CodeIsTaken(Of(h), code)
         \/ /\ task[h].pc = "insert"
            /\ \E o \in Live : voucher[o].publicCode = task[h].publicCode
      /\ Finish(h)
      /\ UNCHANGED <<voucher, child, request, issued, gaveUp>>

-----------------------------------------------------------------------------
(* finishVoucherItinerary *)

\* The AI service answers; when it fails the answer goes out without (Abort).
generateVoucherItinerary(h, text) ==
  /\ task[h].pc = "generate"
  /\ task' = [task EXCEPT ![h].pc = "save", ![h].text = text]
  /\ UNCHANGED <<voucher, child, request, issued, gaveUp>>

persistVoucherItinerary(h) ==
  /\ task[h].pc = "save"
  /\ RowIsFree(h, Of(h))
  /\ voucher' = [voucher EXCEPT ![Of(h)].itinerary =
                   [status |-> task[h].text, of |-> task[h].request]]
  /\ Finish(h)
  /\ UNCHANGED <<child, request, issued, gaveUp>>

\* A failed statement, call or process: the transaction is rolled back, and an
\* itinerary that was due is not saved.
Abort(h) ==
  /\ task[h].pc # "idle"
  /\ gaveUp' = IF task[h].pc \in {"generate", "save"}
                 THEN gaveUp \cup {task[h].request} ELSE gaveUp
  /\ Finish(h)
  /\ UNCHANGED <<voucher, child, request, issued>>

-----------------------------------------------------------------------------

Next ==
  \E h \in Handlers :
    \/ \E p \in Payload : \/ createVoucher(h, p)
                          \/ \E v \in Ids : updateVoucher(h, v, p)
    \/ \E code \in PublicCodes : generateUniquePublicCode(h, code)
    \/ InsertVoucher(h) \/ UpdateRow(h) \/ DeleteChildren(h) \/ CommitUpdate(h)
    \/ \E text \in {"good", "poor"} : generateVoucherItinerary(h, text)
    \/ persistVoucherItinerary(h)
    \/ Conflict(h) \/ Abort(h)

Spec == Init /\ [][Next]_vars

-----------------------------------------------------------------------------
(* Properties. *)

TypeOK ==
  /\ voucher \in [Ids -> Voucher]
  /\ \A v \in Ids : LET i == voucher[v].itinerary
                    IN  i.status = "none" <=> i.of = 0
  /\ child \in [Children -> [Ids -> SUBSET Ids]]
  /\ issued \in 0..MaxRequests
  /\ request \in [1..issued -> Request]
  /\ gaveUp \subseteq Ids
  /\ task \in [Handlers -> Task]

\* Every child row of a voucher was written by the request that wrote the
\* voucher, once, and none of those it asked for is missing: the update takes
\* the row before the children, so two updates never mix or double them.
ChildrenMatchVoucher ==
  \A v \in Live, c \in Children :
    child[c][v] = Written(request[voucher[v].by].payload, voucher[v].by)[c]

\* Requests about one voucher that were in flight together.
Overlaps(n) == \E m \in DOMAIN request :
  m \in request[n].beside \/ n \in request[m].beside

\* A voucher shows the itinerary of another destination only when the request
\* that generated it had company: the decision to reset, taken from a read
\* before the lock, and the save, which does not look again, are right for
\* requests that follow each other, whatever fails in between.
StaleItineraryOverlapped ==
  \A v \in Live :
    LET i == voucher[v].itinerary
    IN  i.status # "none"
        /\ request[i.of].payload.tripDestination # voucher[v].tripDestination
          => Overlaps(i.of)

\* The register that the rows add up to: the mapping takes what a child table
\* holds, not what was asked for.
NoChildren == [c \in Children |-> {}]
NoEntry == [publicCode |-> NoCode, reservationCode |-> NoCode,
            tripDestination |-> NoDestination, rows |-> NoChildren,
            itinerary |-> NoItinerary]
ChildrenOf(v) == [c \in Children |-> child[c][v]]
EntryOfVoucher(v) ==
  [publicCode |-> voucher[v].publicCode,
   reservationCode |-> voucher[v].reservationCode,
   tripDestination |-> voucher[v].tripDestination,
   rows |-> ChildrenOf(v),
   itinerary |-> voucher[v].itinerary]

\* What a single request writes, and at most the itinerary of another.
Entry ==
  {[publicCode |-> code, reservationCode |-> p.reservationCode,
    tripDestination |-> p.tripDestination, rows |-> Written(p, n),
    itinerary |-> i] : code \in PublicCodes, p \in Payload, n \in Ids, i \in Itinerary}

Registered == [v \in Ids |-> EntryOfVoucher(v)]
Register == INSTANCE VoucherRegister
  WITH Absent <- NoEntry, register <- Registered

\* The transactions of several statements look like single steps on the
\* register: no reader ever meets the row of one request with children of
\* another, and a code that a transaction in flight has taken or given up is
\* not given to a second voucher.
ActsAsRegister == Register!Spec

\* Once nobody works on it, a voucher with a destination lacks an itinerary, or
\* keeps a poor one of an earlier request, only when its last request failed to
\* save one or had company: saving the voucher again asks for it again.
ItineraryIsRenewed ==
  \A v \in Live :
    LET row == voucher[v]
    IN  /\ Busy(v) = {}
        /\ row.tripDestination # NoDestination
        /\ \/ row.itinerary.status = "none"
           \/ row.itinerary.status = "poor" /\ row.itinerary.of # row.by
        => row.by \in gaveUp \/ Overlaps(row.by)
=============================================================================
