---------------------------- MODULE VouchersProofs ----------------------------
(***************************************************************************)
(* Vouchers implements VoucherRegister, for any number of handlers,        *)
(* requests and codes: the transactions of several statements look like    *)
(* single steps on a register, also when handlers are cut short.           *)
(***************************************************************************)
EXTENDS Vouchers, TLAPS

USE DEF Ids

-----------------------------------------------------------------------------
(* The strengthening. *)

Locked(h) == task[h].pc \in {"children", "commit"}

\* A code that no voucher but v has.
OnlyFor(v, code) == \A o \in Live \ {v} : voucher[o].reservationCode # code

DeletedBy(h) ==
  [c \in Children |-> IF c \in OnePerVoucher \cap Asked(h).children
                      THEN {} ELSE child[c][Of(h)]]

\* What a handler in flight has in hand: its voucher exists unless it creates
\* it, the code it asked for is still free once it holds the row, and what its
\* DELETE took is still all there is.
Fit(h) ==
  /\ task[h].request \in 1..issued
  /\ task[h].pc \in {"draw", "insert"} =>
       Of(h) = task[h].request /\ voucher[Of(h)].by = 0
  /\ task[h].pc \notin {"draw", "insert"} => voucher[Of(h)].by # 0
  /\ task[h].pc = "insert" => task[h].publicCode \in PublicCodes
  /\ task[h].pc = "save" => task[h].text # "none"
  /\ Locked(h) => OnlyFor(Of(h), Asked(h).reservationCode)
  /\ task[h].pc = "commit" => task[h].deleted = DeletedBy(h)
HandlersFit == \A h \in Handlers : task[h].pc # "idle" => Fit(h)

\* No two handlers serve one request, hold one row or ask for one code.
Apart(g, h) ==
  /\ task[g].pc # "idle" /\ task[h].pc # "idle" => task[g].request # task[h].request
  /\ Locked(g) /\ Locked(h) =>
       /\ Of(g) # Of(h)
       /\ Asked(g).reservationCode # Asked(h).reservationCode
HandlersApart == \A g, h \in Handlers : g # h => Apart(g, h)

\* A row that does not exist is empty; one that does is what its last request
\* wrote, children included.
RowFits(v) ==
  /\ voucher[v].by = 0 =>
       voucher[v] = NoVoucher /\ \A c \in Children : child[c][v] = {}
  /\ voucher[v].by # 0 =>
       /\ v <= issued /\ voucher[v].by <= issued
       /\ voucher[v].publicCode \in PublicCodes
       /\ voucher[v].reservationCode = request[voucher[v].by].payload.reservationCode
       /\ voucher[v].tripDestination = request[voucher[v].by].payload.tripDestination
       /\ \A c \in Children :
            child[c][v] = Written(request[voucher[v].by].payload, voucher[v].by)[c]
RowsFit == \A v \in Ids : RowFits(v)

CodesApart ==
  \A v, o \in Live : v # o => /\ voucher[v].reservationCode # voucher[o].reservationCode
                              /\ voucher[v].publicCode # voucher[o].publicCode

Sound == TypeOK /\ HandlersFit /\ HandlersApart /\ RowsFit /\ CodesApart

-----------------------------------------------------------------------------
(* Types. *)

LEMMA PayloadTypes ==
  ASSUME NEW p \in Payload, NEW n \in Ids
  PROVE  /\ p.reservationCode \in Codes
         /\ p.tripDestination \in Destinations \cup {NoDestination}
         /\ p.children \subseteq Children
         /\ Written(p, n) \in [Children -> SUBSET Ids]
<1>1. \A c \in {{"flights"} \cup some : some \in Optional} : c \subseteq Children
  BY OptionalAssumption, ZenonT(30) DEF Children
<1> QED BY <1>1 DEF Payload, Written

LEMMA NoItineraryType == NoItinerary \in Itinerary
  BY RequestsAssumption DEF NoItinerary, Itinerary

LEMMA IdleType == Idle \in Task /\ Idle.pc = "idle"
  BY RequestsAssumption DEF Idle, Task, Transaction

LEMMA NoVoucherType == NoVoucher \in Voucher /\ NoVoucher.by = 0
  BY NoItineraryType, RequestsAssumption DEF NoVoucher, Voucher

\* What a handler was asked for has its type.
LEMMA AskedTypes ==
  ASSUME TypeOK, NEW h \in Handlers, task[h].request \in 1..issued
  PROVE  Of(h) \in Ids /\ Asked(h) \in Payload /\ task[h].request \in Ids
  BY RequestsAssumption DEF TypeOK, Of, Asked, Request

LEMMA InitSound == Init => Sound
<1> SUFFICES ASSUME Init PROVE Sound
  OBVIOUS
<1>1. TypeOK
  BY NoVoucherType, IdleType, RequestsAssumption
  DEF Init, TypeOK, NoVoucher, NoItinerary
<1>2. Live = {}
  BY NoVoucherType DEF Init, Live
<1> QED
  BY <1>1, <1>2, NoVoucherType, IdleType
  DEF Init, Sound, HandlersFit, HandlersApart, Apart, Locked, RowsFit, RowFits, CodesApart

-----------------------------------------------------------------------------
(* Steps that write neither table nor request. *)

LEMMA HandlerMoves ==
  ASSUME Sound, NEW h \in Handlers, NEW t \in Task,
         task' = [task EXCEPT ![h] = t],
         UNCHANGED <<voucher, child, request, issued>>, gaveUp' \subseteq Ids,
         t.pc # "idle" => /\ t.request = task[h].request /\ task[h].pc # "idle"
                          /\ Fit(h)'
                          /\ \A g \in Handlers \ {h} : Apart(g, h)'
  PROVE  Sound'
<1>1. task' \in [Handlers -> Task] /\ task'[h] = t
      /\ \A g \in Handlers \ {h} : task'[g] = task[g]
  BY DEF Sound, TypeOK
<1>2. TypeOK'
  BY <1>1 DEF Sound, TypeOK
<1>3. HandlersFit'
  <2> SUFFICES ASSUME NEW g \in Handlers, task'[g].pc # "idle" PROVE Fit(g)'
    BY DEF HandlersFit
  <2>1. CASE g = h
    BY <1>1, <2>1
  <2>2. CASE g # h
    <3>1. task'[g] = task[g]
      BY <1>1, <2>2
    <3>2. Fit(g)
      BY <3>1 DEF Sound, HandlersFit
    <3>3. Of(g)' = Of(g) /\ Asked(g)' = Asked(g) /\ DeletedBy(g)' = DeletedBy(g)
      BY <3>1 DEF Of, Asked, DeletedBy
    <3>4. \A v, code : OnlyFor(v, code) => OnlyFor(v, code)'
      BY DEF OnlyFor, Live
    <3> QED BY <3>1, <3>2, <3>3, <3>4 DEF Fit, Locked
  <2> QED BY <2>1, <2>2
<1>4. HandlersApart'
  <2> SUFFICES ASSUME NEW f \in Handlers, NEW g \in Handlers, f # g PROVE Apart(f, g)'
    BY DEF HandlersApart
  <2>1. CASE f # h /\ g # h
    BY <1>1, <2>1 DEF Sound, HandlersApart, Apart, Locked, Of, Asked
  <2>2. CASE t.pc = "idle" /\ (f = h \/ g = h)
    BY <1>1, <2>2 DEF Apart, Locked
  <2>3. CASE t.pc # "idle" /\ g = h
    BY <2>3
  <2>4. CASE t.pc # "idle" /\ f = h
    <3>1. Apart(g, f)'
      BY <2>4
    <3> QED BY <3>1 DEF Apart
  <2> QED BY <2>1, <2>2, <2>3, <2>4
<1>5. RowsFit' /\ CodesApart'
  BY DEF Sound, RowsFit, RowFits, CodesApart, Live
<1> QED BY <1>2, <1>3, <1>4, <1>5 DEF Sound

LEMMA FinishSound ==
  ASSUME Sound, NEW h \in Handlers, Finish(h), gaveUp' \subseteq Ids,
         UNCHANGED <<voucher, child, request, issued>>
  PROVE  Sound'
  BY IdleType, HandlerMoves DEF Finish

LEMMA DrawSound ==
  ASSUME Sound, NEW h \in Handlers, NEW code \in PublicCodes,
         generateUniquePublicCode(h, code)
  PROVE  Sound'
<1> DEFINE t == [task[h] EXCEPT !.pc = "insert", !.publicCode = code]
<1>1. t \in Task /\ t.pc = "insert" /\ t.publicCode = code /\ t.request = task[h].request
  BY ZenonT(30) DEF Sound, TypeOK, Task
<1>2. task' = [task EXCEPT ![h] = t] /\ gaveUp' \subseteq Ids /\ task[h].pc = "draw"
  BY DEF generateUniquePublicCode, Sound, TypeOK
<1>3. task'[h] = t /\ \A g \in Handlers \ {h} : task'[g] = task[g]
  BY <1>2 DEF Sound, TypeOK
<1>4. Fit(h)'
  <2>1. Fit(h)
    BY <1>2 DEF Sound, HandlersFit
  <2>2. Of(h)' = Of(h)
    BY <1>1, <1>3 DEF generateUniquePublicCode, Of
  <2> QED BY <1>1, <1>2, <1>3, <2>1, <2>2 DEF generateUniquePublicCode, Fit, Locked
<1>5. ASSUME NEW g \in Handlers \ {h} PROVE Apart(g, h)'
  BY <1>1, <1>2, <1>3
  DEF Sound, HandlersApart, Apart, Locked
<1> HIDE DEF t
<1> QED BY <1>1, <1>2, <1>4, <1>5, HandlerMoves DEF generateUniquePublicCode

LEMMA UpdateRowSound ==
  ASSUME Sound, NEW h \in Handlers, UpdateRow(h) PROVE Sound'
<1> DEFINE t == [task[h] EXCEPT !.pc = "children"]
<1>1. t \in Task /\ t.pc = "children" /\ t.request = task[h].request
  BY ZenonT(30) DEF Sound, TypeOK, Task, Transaction
<1>2. task' = [task EXCEPT ![h] = t] /\ gaveUp' \subseteq Ids /\ task[h].pc = "update"
  BY DEF UpdateRow, Sound, TypeOK
<1>3. task'[h] = t /\ \A g \in Handlers \ {h} : task'[g] = task[g]
  BY <1>2 DEF Sound, TypeOK
<1>4. Of(h)' = Of(h) /\ Asked(h)' = Asked(h)
      /\ \A g \in Handlers \ {h} : Of(g)' = Of(g) /\ Asked(g)' = Asked(g)
  BY <1>1, <1>3 DEF UpdateRow, Of, Asked
<1>5. Fit(h)'
  <2>1. OnlyFor(Of(h), Asked(h).reservationCode)
    BY DEF UpdateRow, CodeIsTaken, OnlyFor
  <2>2. Fit(h)
    BY <1>2 DEF Sound, HandlersFit
  <2> QED
    BY <1>1, <1>2, <1>3, <1>4, <2>1, <2>2 DEF UpdateRow, Fit, Locked, OnlyFor, Live
<1>6. ASSUME NEW g \in Handlers \ {h} PROVE Apart(g, h)'
  <2>1. task[g].request # task[h].request \/ task[g].pc = "idle"
    BY <1>2 DEF Sound, HandlersApart, Apart
  <2>2. Locked(g) => Of(g) # Of(h) /\ Asked(g).reservationCode # Asked(h).reservationCode
    BY DEF UpdateRow, RowIsFree, CodeIsSettled, Locked
  <2> QED
    BY <1>1, <1>3, <1>4, <2>1, <2>2 DEF Apart, Locked
<1> HIDE DEF t
<1> QED BY <1>1, <1>2, <1>5, <1>6, HandlerMoves DEF UpdateRow

LEMMA DeleteChildrenSound ==
  ASSUME Sound, NEW h \in Handlers, DeleteChildren(h) PROVE Sound'
<1> DEFINE t == [task[h] EXCEPT !.pc = "commit", !.deleted = DeletedBy(h)]
<1>0. Fit(h) /\ task[h].pc = "children"
  BY DEF DeleteChildren, Sound, HandlersFit
<1>1. t \in Task /\ t.pc = "commit" /\ t.request = task[h].request /\ t.deleted = DeletedBy(h)
  <2>1. Of(h) \in Ids
    BY <1>0, AskedTypes DEF Sound, Fit
  <2>2. DeletedBy(h) \in [Children -> SUBSET Ids]
    <3>1. \A c \in Children : child[c][Of(h)] \in SUBSET Ids
      BY <2>1 DEF Sound, TypeOK
    <3> QED BY <3>1 DEF DeletedBy
  <2>3. task[h] \in Task
    BY DEF Sound, TypeOK
  <2> QED BY <2>2, <2>3 DEF Task, Transaction
<1>2. task' = [task EXCEPT ![h] = t] /\ gaveUp' \subseteq Ids
  BY DEF DeleteChildren, DeletedBy, Sound, TypeOK
<1>3. task'[h] = t /\ \A g \in Handlers \ {h} : task'[g] = task[g]
  BY <1>2 DEF Sound, TypeOK
<1>4. Of(h)' = Of(h) /\ Asked(h)' = Asked(h) /\ DeletedBy(h)' = DeletedBy(h)
      /\ \A g \in Handlers \ {h} : Of(g)' = Of(g) /\ Asked(g)' = Asked(g)
  <2>1. \A g \in Handlers : Of(g)' = Of(g) /\ Asked(g)' = Asked(g)
    BY <1>1, <1>3, ZenonT(30) DEF DeleteChildren, Of, Asked
  <2> QED BY <2>1 DEF DeleteChildren, DeletedBy
<1>5. Fit(h)'
  BY <1>0, <1>1, <1>3, <1>4 DEF DeleteChildren, Fit, Locked, OnlyFor, Live
<1>6. ASSUME NEW g \in Handlers \ {h} PROVE Apart(g, h)'
  <2>1. Apart(g, h)
    BY DEF Sound, HandlersApart
  <2> QED BY <1>0, <1>1, <1>3, <1>4, <2>1 DEF Apart, Locked
<1> HIDE DEF t
<1> QED BY <1>0, <1>1, <1>2, <1>5, <1>6, HandlerMoves DEF DeleteChildren

LEMMA GenerateSound ==
  ASSUME Sound, NEW h \in Handlers, NEW text \in {"good", "poor"},
         generateVoucherItinerary(h, text)
  PROVE  Sound'
<1> DEFINE t == [task[h] EXCEPT !.pc = "save", !.text = text]
<1>1. t \in Task /\ t.pc = "save" /\ t.request = task[h].request /\ t.text = text
  BY DEF Sound, TypeOK, Task
<1>2. task' = [task EXCEPT ![h] = t] /\ gaveUp' \subseteq Ids /\ task[h].pc = "generate"
  BY DEF generateVoucherItinerary, Sound, TypeOK
<1>3. task'[h] = t /\ \A g \in Handlers \ {h} : task'[g] = task[g]
  BY <1>2 DEF Sound, TypeOK
<1>4. Fit(h)'
  BY <1>1, <1>2, <1>3
  DEF generateVoucherItinerary, Sound, HandlersFit, Fit, Locked, Of
<1>5. ASSUME NEW g \in Handlers \ {h} PROVE Apart(g, h)'
  BY <1>1, <1>2, <1>3 DEF Sound, HandlersApart, Apart, Locked
<1> HIDE DEF t
<1> QED BY <1>1, <1>2, <1>4, <1>5, HandlerMoves DEF generateVoucherItinerary

LEMMA EndsSound ==
  ASSUME Sound, NEW h \in Handlers, Conflict(h) \/ Abort(h) PROVE Sound'
<1>1. gaveUp \subseteq Ids
  BY DEF Sound, TypeOK
<1>2. CASE Conflict(h)
  BY <1>1, <1>2, FinishSound DEF Conflict
<1>3. CASE Abort(h)
  <2>1. task[h].request \in Ids
    BY <1>3, AskedTypes DEF Abort, Sound, HandlersFit, Fit
  <2> QED BY <1>1, <1>3, <2>1, FinishSound DEF Abort
<1> QED BY <1>2, <1>3

-----------------------------------------------------------------------------
(* A new request. *)

LEMMA BeginStep ==
  ASSUME TypeOK, HandlersFit, NEW v \in Ids, NEW p \in Payload, Begin(v, p)
  PROVE  /\ issued' = issued + 1 /\ issued' \in Ids /\ issued \in Nat
         /\ request' \in [1..issued' -> Request]
         /\ request'[issued'].voucher = v /\ request'[issued'].payload = p
         /\ \A n \in 1..issued : request'[n] = request[n]
<1>1. issued' = issued + 1 /\ issued' \in Ids /\ issued \in Nat
  BY RequestsAssumption DEF Begin, TypeOK
<1> DEFINE company == {task[g].request : g \in Busy(v)}
           new == [voucher |-> v, payload |-> p, beside |-> company]
<1>2. company \in SUBSET Ids
  BY <1>1, RequestsAssumption DEF Busy, HandlersFit, Fit
<1>3. new \in Request
  BY <1>2 DEF Request
<1>4. request' = [n \in 1..issued' |-> IF n <= issued THEN request[n] ELSE new]
  BY DEF Begin
<1>5. \A n \in 1..issued : request[n] \in Request
  BY DEF TypeOK
<1> HIDE DEF company
<1>6. request' \in [1..issued' -> Request]
  BY <1>1, <1>3, <1>4, <1>5
<1>7. request'[issued'] = new /\ \A n \in 1..issued : request'[n] = request[n]
  BY <1>1, <1>4
<1> QED BY <1>1, <1>6, <1>7

LEMMA BeginSound ==
  ASSUME Sound, NEW h \in Handlers, NEW v \in Ids, NEW p \in Payload, Begin(v, p),
         NEW t \in Task, t.pc \in {"draw", "update"}, t.request = issued + 1,
         t.pc = "draw" => v = issued + 1, t.pc = "update" => v \in Live,
         task' = [task EXCEPT ![h] = t], UNCHANGED <<voucher, child, gaveUp>>
  PROVE  Sound'
<1>1. /\ issued' = issued + 1 /\ issued' \in Ids /\ issued \in Nat
      /\ request' \in [1..issued' -> Request]
      /\ request'[issued'].voucher = v /\ request'[issued'].payload = p
      /\ \A n \in 1..issued : request'[n] = request[n]
  BY BeginStep DEF Sound
<1>2. task' \in [Handlers -> Task] /\ task'[h] = t
      /\ \A g \in Handlers \ {h} : task'[g] = task[g]
  BY DEF Sound, TypeOK
<1>3. TypeOK'
  BY <1>1, <1>2 DEF Sound, TypeOK
<1>4. \A g \in Handlers \ {h} : task[g].pc # "idle" =>
        Of(g)' = Of(g) /\ Asked(g)' = Asked(g) /\ task[g].request \in 1..issued
  BY <1>1, <1>2 DEF Of, Asked, Sound, HandlersFit, Fit
<1>5. HandlersFit'
  <2> SUFFICES ASSUME NEW g \in Handlers, task'[g].pc # "idle" PROVE Fit(g)'
    BY DEF HandlersFit
  <2>1. CASE g = h
    <3>1. Of(h)' = v
      BY <1>1, <1>2 DEF Of
    <3>2. t.pc = "draw" => voucher[v].by = 0
      BY <1>1 DEF Sound, RowsFit, RowFits
    <3>3. t.pc = "update" => voucher[v].by # 0
      BY DEF Live
    <3> QED BY <1>1, <1>2, <2>1, <3>1, <3>2, <3>3 DEF Fit, Locked
  <2>2. CASE g # h
    <3>1. Fit(g) /\ task'[g] = task[g]
      BY <1>2, <2>2 DEF Sound, HandlersFit
    <3>2. Of(g)' = Of(g) /\ Asked(g)' = Asked(g) /\ task[g].request \in 1..issued'
      BY <1>1, <1>2, <1>4, <2>2
    <3>3. DeletedBy(g)' = DeletedBy(g)
      BY <3>2 DEF DeletedBy
    <3> QED BY <3>1, <3>2, <3>3 DEF Fit, Locked, OnlyFor, Live
  <2> QED BY <2>1, <2>2
<1>6. HandlersApart'
  <2> SUFFICES ASSUME NEW f \in Handlers, NEW g \in Handlers, f # g PROVE Apart(f, g)'
    BY DEF HandlersApart
  <2>1. CASE f # h /\ g # h
    BY <1>2, <1>4, <2>1 DEF Sound, HandlersApart, Apart, Locked
  <2>2. CASE f = h \/ g = h
    BY <1>1, <1>2, <1>4, <2>2 DEF Apart, Locked
  <2> QED BY <2>1, <2>2
<1>7. RowsFit'
  <2> SUFFICES ASSUME NEW o \in Ids PROVE RowFits(o)'
    BY DEF RowsFit
  <2>1. RowFits(o)
    BY DEF Sound, RowsFit
  <2>2. voucher[o].by # 0 => request'[voucher[o].by] = request[voucher[o].by]
    <3>1. voucher[o].by \in 0..MaxRequests
      BY DEF Sound, TypeOK, Voucher
    <3> QED BY <1>1, <2>1, <3>1, RequestsAssumption DEF RowFits
  <2>3. voucher[o].by \in Nat
    BY RequestsAssumption DEF Sound, TypeOK, Voucher
  <2> QED BY <1>1, <2>1, <2>2, <2>3 DEF RowFits
<1>8. CodesApart'
  BY DEF Sound, CodesApart, Live
<1> QED BY <1>3, <1>5, <1>6, <1>7, <1>8 DEF Sound

LEMMA RequestsSound ==
  ASSUME Sound, NEW h \in Handlers, NEW p \in Payload,
         createVoucher(h, p) \/ \E v \in Ids : updateVoucher(h, v, p)
  PROVE  Sound'
<1>1. CASE createVoucher(h, p)
  <2> DEFINE t == [Idle EXCEPT !.pc = "draw", !.request = issued + 1]
  <2>1. issued + 1 \in Ids
    BY <1>1, RequestsAssumption DEF createVoucher, Begin, Sound, TypeOK
  <2>2. t \in Task /\ t.pc = "draw" /\ t.request = issued + 1
    <3>1. issued + 1 \in 0..MaxRequests
      BY <2>1, RequestsAssumption
    <3> QED BY <3>1, IdleType DEF Task
  <2>3. task' = [task EXCEPT ![h] = t]
    BY <1>1 DEF createVoucher
  <2> HIDE DEF t
  <2> QED BY <1>1, <2>1, <2>2, <2>3, BeginSound DEF createVoucher
<1>2. ASSUME NEW v \in Ids, updateVoucher(h, v, p) PROVE Sound'
  <2> DEFINE t == [Idle EXCEPT !.pc = "update", !.request = issued + 1,
                               !.reset = shouldResetItinerary(voucher[v], p),
                               !.generate = shouldGenerateItinerary(voucher[v], p)]
  <2>1. issued + 1 \in Ids
    <3>1. Begin(v, p)
      BY <1>2 DEF updateVoucher
    <3> QED BY <3>1, RequestsAssumption DEF Begin, Sound, TypeOK
  <2>2. t \in Task /\ t.pc = "update" /\ t.request = issued + 1
    <3>1. shouldResetItinerary(voucher[v], p) \in BOOLEAN
      BY DEF shouldResetItinerary
    <3>2. shouldGenerateItinerary(voucher[v], p) \in BOOLEAN
      BY DEF shouldGenerateItinerary
    <3>3. issued + 1 \in 0..MaxRequests
      BY <2>1, RequestsAssumption
    <3> QED BY <3>1, <3>2, <3>3, IdleType DEF Task, Transaction
  <2>3. task' = [task EXCEPT ![h] = t]
    BY <1>2 DEF updateVoucher
  <2> HIDE DEF t
  <2> QED BY <1>2, <2>1, <2>2, <2>3, BeginSound DEF updateVoucher
<1> QED BY <1>1, <1>2

-----------------------------------------------------------------------------
(* A transaction writes a whole request. *)

\* The row of handler h becomes new, and its children those of the request.
Writes(h, new) ==
  /\ new \in Voucher
  /\ new.itinerary.status = "none" <=> new.itinerary.of = 0
  /\ new.by = task[h].request
  /\ new.publicCode \in PublicCodes
  /\ new.reservationCode = Asked(h).reservationCode
  /\ new.tripDestination = Asked(h).tripDestination
  /\ \A o \in Live \ {Of(h)} : /\ voucher[o].reservationCode # new.reservationCode
                              /\ voucher[o].publicCode # new.publicCode
  /\ voucher' = [voucher EXCEPT ![Of(h)] = new]
  /\ child' = [c \in Children |-> [child[c] EXCEPT ![Of(h)] =
                                     Written(Asked(h), task[h].request)[c]]]

\* After the write, the handler ends or goes on to the itinerary.
Answers(h) ==
  \E t \in Task : /\ t.pc \in {"idle", "generate"}
                  /\ t.pc # "idle" => t.request = task[h].request
                  /\ task' = [task EXCEPT ![h] = t]

LEMMA WriteSound ==
  ASSUME Sound, NEW h \in Handlers, task[h].pc # "idle",
         NEW new, Writes(h, new), Answers(h), Of(h) <= issued,
         \A g \in Handlers \ {h} :
           /\ task[g].pc \in {"draw", "insert"} => Of(g) # Of(h)
           /\ Locked(g) => /\ Of(g) # Of(h)
                           /\ Asked(g).reservationCode # new.reservationCode,
         UNCHANGED <<request, issued, gaveUp>>
  PROVE  Sound'
<1> DEFINE v == Of(h)
           p == Asked(h)
           n == task[h].request
<1>1. /\ Fit(h) /\ v \in Ids /\ p \in Payload /\ n \in Ids /\ n \in 1..issued
      /\ Written(p, n) \in [Children -> SUBSET Ids]
  BY AskedTypes, PayloadTypes DEF Sound, HandlersFit, Fit
<1>2. PICK t \in Task : /\ t.pc \in {"idle", "generate"}
                        /\ t.pc # "idle" => t.request = n
                        /\ task' = [task EXCEPT ![h] = t]
  BY DEF Answers
<1>3. task' \in [Handlers -> Task] /\ task'[h] = t
      /\ \A g \in Handlers \ {h} : task'[g] = task[g]
  BY <1>2 DEF Sound, TypeOK
<1>4. /\ voucher'[v] = new /\ \A o \in Ids \ {v} : voucher'[o] = voucher[o]
      /\ voucher' \in [Ids -> Voucher]
  BY <1>1 DEF Writes, Sound, TypeOK
<1>5. /\ \A c \in Children : /\ child'[c][v] = Written(p, n)[c]
                             /\ \A o \in Ids \ {v} : child'[c][o] = child[c][o]
      /\ child' \in [Children -> [Ids -> SUBSET Ids]]
  <2>1. \A c \in Children : child[c] \in [Ids -> SUBSET Ids]
    BY DEF Sound, TypeOK
  <2> HIDE DEF v, p, n
  <2>2. child' = [c \in Children |-> [child[c] EXCEPT ![v] = Written(p, n)[c]]]
    BY DEF Writes, v, p, n
  <2> QED BY <1>1, <2>1, <2>2
<1>6. TypeOK'
  BY <1>3, <1>4, <1>5 DEF Writes, Sound, TypeOK
<1>7. Live' = Live \cup {v}
  <2>1. new.by # 0
    BY <1>1 DEF Writes
  <2> QED BY <1>1, <1>4, <2>1 DEF Live
<1>8. \A g \in Handlers \ {h} : Of(g)' = Of(g) /\ Asked(g)' = Asked(g)
  BY <1>3 DEF Of, Asked
<1>9. HandlersFit'
  <2> SUFFICES ASSUME NEW g \in Handlers, task'[g].pc # "idle" PROVE Fit(g)'
    BY DEF HandlersFit
  <2>1. CASE g = h
    <3>1. Of(h)' = v /\ t.pc = "generate" /\ t.request = n
      BY <1>2, <1>3, <2>1 DEF Of
    <3>2. new.by # 0
      BY <1>1 DEF Writes
    <3> QED BY <1>1, <1>3, <1>4, <2>1, <3>1, <3>2 DEF Fit, Locked
  <2>2. CASE g # h
    <3>1. Fit(g) /\ task'[g] = task[g] /\ Of(g) \in Ids
      BY <1>3, <2>2, AskedTypes DEF Sound, HandlersFit, Fit
    <3>2. task[g].pc \in {"draw", "insert"} => voucher'[Of(g)].by = 0
      BY <1>4, <2>2, <3>1 DEF Fit
    <3>3. task[g].pc \notin {"draw", "insert"} => voucher'[Of(g)].by # 0
      <4>1. new.by # 0
        BY <1>1 DEF Writes
      <4> QED BY <1>4, <3>1, <4>1 DEF Fit
    <3>4. Locked(g) => OnlyFor(Of(g), Asked(g).reservationCode)'
      <4> SUFFICES ASSUME Locked(g), NEW o \in Live' \ {Of(g)}
                   PROVE  voucher'[o].reservationCode # Asked(g).reservationCode
        BY <1>8, <2>2 DEF OnlyFor
      <4>1. CASE o = v
        BY <1>4, <2>2, <4>1
      <4>2. CASE o # v
        BY <1>4, <1>7, <3>1, <4>2 DEF Fit, OnlyFor, Live
      <4> QED BY <4>1, <4>2
    <3>5. Locked(g) => DeletedBy(g)' = DeletedBy(g)
      <4> SUFFICES ASSUME Locked(g) PROVE DeletedBy(g)' = DeletedBy(g)
        OBVIOUS
      <4>1. \A c \in Children : child'[c][Of(g)] = child[c][Of(g)]
        BY <1>5, <2>2, <3>1
      <4> QED BY <1>8, <2>2, <4>1 DEF DeletedBy
    <3> QED BY <1>8, <2>2, <3>1, <3>2, <3>3, <3>4, <3>5 DEF Fit, Locked
  <2> QED BY <2>1, <2>2
<1>10. HandlersApart'
  <2> SUFFICES ASSUME NEW f \in Handlers, NEW g \in Handlers, f # g PROVE Apart(f, g)'
    BY DEF HandlersApart
  <2>1. Apart(f, g)
    BY DEF Sound, HandlersApart
  <2> QED BY <1>2, <1>3, <1>8, <2>1 DEF Apart, Locked
<1>11. RowsFit'
  <2> SUFFICES ASSUME NEW o \in Ids PROVE RowFits(o)'
    BY DEF RowsFit
  <2>1. CASE o = v
    <3>1. p = request[n].payload /\ n # 0 /\ n <= issued
      BY <1>1 DEF Asked
    <3> QED BY <1>4, <1>5, <2>1, <3>1, ZenonT(30) DEF Writes, RowFits
  <2>2. CASE o # v
    <3>1. RowFits(o)
      BY DEF Sound, RowsFit
    <3> QED BY <1>4, <1>5, <2>2, <3>1 DEF RowFits
  <2> QED BY <2>1, <2>2
<1>12. CodesApart'
  <2> SUFFICES ASSUME NEW a \in Live', NEW b \in Live', a # b
               PROVE  /\ voucher'[a].reservationCode # voucher'[b].reservationCode
                      /\ voucher'[a].publicCode # voucher'[b].publicCode
    BY DEF CodesApart
  <2>1. CASE a # v /\ b # v
    BY <1>4, <1>7, <2>1 DEF Sound, CodesApart, Live
  <2>2. CASE a = v
    BY <1>4, <1>7, <2>2 DEF Writes, Live
  <2>3. CASE b = v
    BY <1>4, <1>7, <2>3 DEF Writes, Live
  <2> QED BY <2>1, <2>2, <2>3
<1> QED BY <1>6, <1>9, <1>10, <1>11, <1>12 DEF Sound

LEMMA InsertWrites ==
  ASSUME Sound, NEW h \in Handlers, InsertVoucher(h)
  PROVE  /\ task[h].pc = "insert" /\ voucher[Of(h)].by = 0 /\ Of(h) = task[h].request
         /\ \E new : Writes(h, new) /\ new.itinerary = NoItinerary
         /\ Answers(h)
<1> DEFINE v == Of(h)
           p == Asked(h)
           n == task[h].request
           new == [publicCode |-> task[h].publicCode,
                   reservationCode |-> p.reservationCode,
                   tripDestination |-> p.tripDestination,
                   itinerary |-> NoItinerary, by |-> n]
           t == IF p.tripDestination # NoDestination
                THEN [task[h] EXCEPT !.pc = "generate"] ELSE Idle
<1>1. task[h].pc = "insert" /\ Fit(h)
  BY DEF InsertVoucher, Sound, HandlersFit
<1>2. n \in Ids /\ p \in Payload
  BY <1>1, AskedTypes DEF Sound, Fit
<1>3. new \in Voucher
  BY <1>1, <1>2, PayloadTypes, NoItineraryType, RequestsAssumption DEF Fit, Voucher
<1>4. \A o \in Live \ {v} : /\ voucher[o].reservationCode # new.reservationCode
                            /\ voucher[o].publicCode # new.publicCode
  BY DEF InsertVoucher, CodeIsTaken
<1>5. Writes(h, new)
  BY <1>1, <1>3, <1>4 DEF InsertVoucher, Writes, Fit, NoItinerary
<1>6. Answers(h)
  <2>1. t \in Task /\ t.pc \in {"idle", "generate"} /\ (t.pc # "idle" => t.request = n)
    <3>1. task[h] \in Task
      BY DEF Sound, TypeOK
    <3> QED BY <3>1, IdleType DEF Task
  <2>2. task' = [task EXCEPT ![h] = t]
    BY DEF InsertVoucher, Finish, Sound, TypeOK
  <2> HIDE DEF t, n
  <2> QED BY <2>1, <2>2 DEF Answers, n
<1> QED BY <1>1, <1>5, <1>6 DEF Fit

LEMMA InsertSound ==
  ASSUME Sound, NEW h \in Handlers, InsertVoucher(h) PROVE Sound'
<1>1. /\ task[h].pc = "insert" /\ Of(h) = task[h].request /\ Answers(h)
      /\ voucher[Of(h)].by = 0
  BY InsertWrites
<1>2. PICK new : Writes(h, new)
  BY InsertWrites
<1>3. Of(h) <= issued
  BY <1>1 DEF Sound, HandlersFit, Fit, TypeOK
<1>4. ASSUME NEW g \in Handlers \ {h}
      PROVE  /\ task[g].pc \in {"draw", "insert"} => Of(g) # Of(h)
             /\ Locked(g) => /\ Of(g) # Of(h)
                             /\ Asked(g).reservationCode # new.reservationCode
  <2>1. task[g].pc # "idle" => Fit(g) /\ task[g].request # task[h].request
    BY <1>1 DEF Sound, HandlersFit, HandlersApart, Apart
  <2>2. Locked(g) => Asked(g).reservationCode # new.reservationCode
    BY <1>2 DEF InsertVoucher, CodeIsSettled, Locked, Writes
  <2> QED BY <1>1, <2>1, <2>2 DEF Fit, Locked
<1>5. UNCHANGED <<request, issued, gaveUp>>
  BY DEF InsertVoucher
<1> QED BY <1>1, <1>2, <1>3, <1>4, <1>5, WriteSound

LEMMA CommitWrites ==
  ASSUME Sound, NEW h \in Handlers, CommitUpdate(h)
  PROVE  /\ task[h].pc = "commit" /\ voucher[Of(h)].by # 0
         /\ \E new : /\ Writes(h, new)
                     /\ new.itinerary \in {voucher[Of(h)].itinerary, NoItinerary}
                     /\ new.publicCode = voucher[Of(h)].publicCode
         /\ Answers(h)
<1> DEFINE v == Of(h)
           p == Asked(h)
           n == task[h].request
           old == voucher[v].itinerary
           kept == IF task[h].reset THEN Cleared(old) ELSE old
           new == [voucher[v] EXCEPT !.reservationCode = p.reservationCode,
                                     !.tripDestination = p.tripDestination,
                                     !.itinerary = kept, !.by = n]
           t == IF task[h].generate THEN [task[h] EXCEPT !.pc = "generate"] ELSE Idle
<1>1. task[h].pc = "commit" /\ Fit(h)
  BY DEF CommitUpdate, Sound, HandlersFit
<1>2. n \in Ids /\ p \in Payload /\ v \in Ids
  BY <1>1, AskedTypes DEF Sound, Fit
<1>3. /\ voucher[v] \in Voucher /\ voucher[v].by # 0
      /\ old.status = "none" <=> old.of = 0
      /\ voucher[v].publicCode \in PublicCodes
  BY <1>1, <1>2 DEF Fit, Sound, TypeOK, RowsFit, RowFits
<1>4. kept \in {old, NoItinerary} /\ kept \in Itinerary
      /\ (kept.status = "none" <=> kept.of = 0)
  BY <1>3, NoItineraryType DEF Cleared, Voucher, NoItinerary
<1> HIDE DEF kept
<1>5. new \in Voucher /\ new.publicCode = voucher[v].publicCode
      /\ new.itinerary = kept /\ new.by = n
      /\ new.reservationCode = p.reservationCode /\ new.tripDestination = p.tripDestination
  <2>1. /\ p.reservationCode \in Codes \cup {NoCode}
        /\ p.tripDestination \in Destinations \cup {NoDestination}
        /\ n \in 0..MaxRequests
    BY <1>2, PayloadTypes, RequestsAssumption
  <2> HIDE DEF p, n, v
  <2> QED BY <1>3, <1>4, <2>1 DEF Voucher
<1>6. \A o \in Live \ {v} : /\ voucher[o].reservationCode # new.reservationCode
                            /\ voucher[o].publicCode # new.publicCode
  <2>1. v \in Live
    BY <1>2, <1>3 DEF Live
  <2> QED BY <1>1, <1>5, <2>1 DEF Fit, Locked, OnlyFor, Sound, CodesApart
<1>7. voucher' = [voucher EXCEPT ![v] = new]
  BY DEF CommitUpdate, RowAfterUpdate, kept
<1>8. child' = [c \in Children |-> [child[c] EXCEPT ![v] = Written(p, n)[c]]]
  <2>1. child' = [c \in Children |-> [child[c] EXCEPT ![v] = RowsAfterUpdate(h, c)]]
    BY DEF CommitUpdate
  <2>2. ASSUME NEW c \in Children PROVE RowsAfterUpdate(h, c) = Written(p, n)[c]
    <3>1. task[h].deleted[c] =
            IF c \in OnePerVoucher \cap Asked(h).children THEN {} ELSE child[c][Of(h)]
      BY <1>1 DEF Fit, DeletedBy
    <3> QED BY <3>1 DEF RowsAfterUpdate
  <2> QED BY <2>1, <2>2
<1> HIDE DEF new, v, p, n
<1>9. Writes(h, new)
  BY <1>3, <1>4, <1>5, <1>6, <1>7, <1>8 DEF Writes, v, p, n
<1>10. Answers(h)
  <2>1. t \in Task /\ t.pc \in {"idle", "generate"} /\ (t.pc # "idle" => t.request = task[h].request)
    <3>1. task[h] \in Task
      BY DEF Sound, TypeOK
    <3> QED BY <3>1, IdleType DEF Task
  <2>2. task' = [task EXCEPT ![h] = t]
    BY DEF CommitUpdate, Finish, Sound, TypeOK
  <2> HIDE DEF t
  <2> QED BY <2>1, <2>2 DEF Answers
<1> QED BY <1>1, <1>3, <1>4, <1>5, <1>9, <1>10 DEF v

LEMMA CommitSound ==
  ASSUME Sound, NEW h \in Handlers, CommitUpdate(h) PROVE Sound'
<1>1. task[h].pc = "commit" /\ voucher[Of(h)].by # 0 /\ Answers(h)
  BY CommitWrites
<1>2. PICK new : Writes(h, new)
  BY CommitWrites
<1>3. Of(h) \in Ids /\ Of(h) <= issued
  <2>1. Of(h) \in Ids
    BY <1>1, AskedTypes DEF Sound, HandlersFit, Fit
  <2> QED BY <1>1, <2>1 DEF Sound, RowsFit, RowFits
<1>4. ASSUME NEW g \in Handlers \ {h}
      PROVE  /\ task[g].pc \in {"draw", "insert"} => Of(g) # Of(h)
             /\ Locked(g) => /\ Of(g) # Of(h)
                             /\ Asked(g).reservationCode # new.reservationCode
  <2>1. task[g].pc # "idle" => Fit(g)
    BY DEF Sound, HandlersFit
  <2>2. Apart(g, h)
    BY DEF Sound, HandlersApart
  <2> QED BY <1>1, <1>2, <2>1, <2>2 DEF Fit, Locked, Apart, Writes
<1>5. UNCHANGED <<request, issued, gaveUp>>
  BY DEF CommitUpdate
<1> QED BY <1>1, <1>2, <1>3, <1>4, <1>5, WriteSound

-----------------------------------------------------------------------------
(* The itinerary, and all steps together. *)

LEMMA PersistFacts ==
  ASSUME Sound, NEW h \in Handlers, persistVoucherItinerary(h)
  PROVE  /\ task[h].pc = "save" /\ Of(h) \in Ids /\ voucher[Of(h)].by # 0
         /\ \E i \in Itinerary :
              /\ i.status = "none" <=> i.of = 0
              /\ voucher' = [voucher EXCEPT ![Of(h)] = [voucher[Of(h)] EXCEPT !.itinerary = i]]
<1> DEFINE i == [status |-> task[h].text, of |-> task[h].request]
<1>1. task[h].pc = "save" /\ Fit(h)
  BY DEF persistVoucherItinerary, Sound, HandlersFit
<1>2. Of(h) \in Ids /\ task[h].request \in Ids /\ task[h] \in Task
  BY <1>1, AskedTypes DEF Fit, Sound, TypeOK
<1>3. i \in Itinerary /\ (i.status = "none" <=> i.of = 0)
  BY <1>1, <1>2, RequestsAssumption DEF Fit, Itinerary, Task
<1>4. voucher' = [voucher EXCEPT ![Of(h)] = [voucher[Of(h)] EXCEPT !.itinerary = i]]
  BY <1>2 DEF persistVoucherItinerary, Sound, TypeOK
<1> HIDE DEF i
<1> QED BY <1>1, <1>2, <1>3, <1>4 DEF Fit

LEMMA PersistSound ==
  ASSUME Sound, NEW h \in Handlers, persistVoucherItinerary(h) PROVE Sound'
<1>1. task[h].pc = "save" /\ Of(h) \in Ids /\ voucher[Of(h)].by # 0
  BY PersistFacts
<1>2. PICK i \in Itinerary :
        /\ i.status = "none" <=> i.of = 0
        /\ voucher' = [voucher EXCEPT ![Of(h)] = [voucher[Of(h)] EXCEPT !.itinerary = i]]
  BY PersistFacts
<1>3. task' = [task EXCEPT ![h] = Idle] /\ UNCHANGED <<child, request, issued, gaveUp>>
  BY DEF persistVoucherItinerary, Finish
<1>4. task' \in [Handlers -> Task] /\ task'[h].pc = "idle"
      /\ \A g \in Handlers \ {h} : task'[g] = task[g]
  BY <1>3, IdleType DEF Sound, TypeOK
<1>5. /\ voucher' \in [Ids -> Voucher]
      /\ voucher'[Of(h)].itinerary = i
      /\ \A v \in Ids \ {Of(h)} : voucher'[v] = voucher[v]
      /\ \A v \in Ids : /\ voucher'[v].by = voucher[v].by
                        /\ voucher'[v].publicCode = voucher[v].publicCode
                        /\ voucher'[v].reservationCode = voucher[v].reservationCode
                        /\ voucher'[v].tripDestination = voucher[v].tripDestination
  <2>1. voucher[Of(h)] \in Voucher /\ voucher \in [Ids -> Voucher]
    BY <1>1 DEF Sound, TypeOK
  <2>2. [voucher[Of(h)] EXCEPT !.itinerary = i] \in Voucher
    BY <2>1 DEF Voucher
  <2>3. /\ [voucher[Of(h)] EXCEPT !.itinerary = i].by = voucher[Of(h)].by
        /\ [voucher[Of(h)] EXCEPT !.itinerary = i].publicCode = voucher[Of(h)].publicCode
        /\ [voucher[Of(h)] EXCEPT !.itinerary = i].reservationCode = voucher[Of(h)].reservationCode
        /\ [voucher[Of(h)] EXCEPT !.itinerary = i].tripDestination = voucher[Of(h)].tripDestination
        /\ [voucher[Of(h)] EXCEPT !.itinerary = i].itinerary = i
    BY <2>1 DEF Voucher
  <2> DEFINE new == [voucher[Of(h)] EXCEPT !.itinerary = i]
  <2> HIDE DEF new
  <2> QED BY <1>1, <1>2, <2>1, <2>2, <2>3 DEF new
<1>6. Live' = Live
  BY <1>5 DEF Live
<1>7. TypeOK'
  BY <1>2, <1>3, <1>4, <1>5 DEF Sound, TypeOK
<1>8. \A g \in Handlers \ {h} : Of(g)' = Of(g) /\ Asked(g)' = Asked(g) /\ DeletedBy(g)' = DeletedBy(g)
  <2>1. \A g \in Handlers \ {h} : Of(g)' = Of(g) /\ Asked(g)' = Asked(g)
    BY <1>3, <1>4 DEF Of, Asked
  <2> QED BY <1>3, <2>1 DEF DeletedBy
<1>9. HandlersFit'
  <2> SUFFICES ASSUME NEW g \in Handlers, task'[g].pc # "idle" PROVE Fit(g)'
    BY DEF HandlersFit
  <2>1. Fit(g) /\ g # h /\ task'[g] = task[g] /\ Of(g) \in Ids
    BY <1>4, AskedTypes DEF Sound, HandlersFit, Fit
  <2>2. OnlyFor(Of(g), Asked(g).reservationCode) => OnlyFor(Of(g), Asked(g).reservationCode)'
    BY <1>5, <1>6, <1>8, <2>1 DEF OnlyFor, Live
  <2> QED BY <1>3, <1>5, <1>8, <2>1, <2>2 DEF Fit, Locked
<1>10. HandlersApart'
  BY <1>4, <1>8 DEF Sound, HandlersApart, Apart, Locked
<1>11. RowsFit'
  <2> SUFFICES ASSUME NEW v \in Ids PROVE RowFits(v)'
    BY DEF RowsFit
  <2>1. RowFits(v)
    BY DEF Sound, RowsFit
  <2> QED BY <1>1, <1>3, <1>5, <2>1 DEF RowFits
<1>12. CodesApart'
  BY <1>5, <1>6 DEF Sound, CodesApart, Live
<1> QED BY <1>7, <1>9, <1>10, <1>11, <1>12 DEF Sound

LEMMA SoundStep == Sound /\ [Next]_vars => Sound'
<1> SUFFICES ASSUME Sound, [Next]_vars PROVE Sound'
  OBVIOUS
<1>1. ASSUME NEW h \in Handlers, NEW p \in Payload,
             createVoucher(h, p) \/ \E v \in Ids : updateVoucher(h, v, p)
      PROVE  Sound'
  BY <1>1, RequestsSound
<1>2. ASSUME NEW h \in Handlers, NEW code \in PublicCodes, generateUniquePublicCode(h, code)
      PROVE  Sound'
  BY <1>2, DrawSound
<1>3. ASSUME NEW h \in Handlers, NEW text \in {"good", "poor"},
             generateVoucherItinerary(h, text)
      PROVE  Sound'
  BY <1>3, GenerateSound
<1>4. ASSUME NEW h \in Handlers,
             \/ InsertVoucher(h) \/ UpdateRow(h) \/ DeleteChildren(h) \/ CommitUpdate(h)
             \/ persistVoucherItinerary(h) \/ Conflict(h) \/ Abort(h)
      PROVE  Sound'
  BY <1>4, InsertSound, UpdateRowSound, DeleteChildrenSound, CommitSound, PersistSound,
     EndsSound
<1>5. CASE UNCHANGED vars
  <2>1. UNCHANGED <<voucher, child, request, issued, gaveUp, task>>
    BY <1>5 DEF vars
  <2>2. TypeOK'
    BY <2>1 DEF Sound, TypeOK
  <2>3. HandlersFit'
    <3>1. \A h \in Handlers :
            Of(h)' = Of(h) /\ Asked(h)' = Asked(h) /\ DeletedBy(h)' = DeletedBy(h)
      BY <2>1 DEF Of, Asked, DeletedBy
    <3>2. \A v, code : OnlyFor(v, code) => OnlyFor(v, code)'
      BY <2>1 DEF OnlyFor, Live
    <3>3. ASSUME NEW h \in Handlers, Fit(h) PROVE Fit(h)'
      BY <2>1, <3>1, <3>2, <3>3 DEF Fit, Locked
    <3> QED BY <2>1, <3>3 DEF Sound, HandlersFit
  <2>4. HandlersApart'
    BY <2>1 DEF Sound, HandlersApart, Apart, Locked, Of, Asked
  <2>5. RowsFit' /\ CodesApart'
    BY <2>1 DEF Sound, RowsFit, RowFits, CodesApart, Live
  <2> QED BY <2>2, <2>3, <2>4, <2>5 DEF Sound
<1> QED BY <1>1, <1>2, <1>3, <1>4, <1>5 DEF Next

LEMMA AlwaysSound == Spec => []Sound
BY InitSound, SoundStep, PTL DEF Spec

\* Tables, history and handlers have their types: createVoucher, updateVoucher and
\* finishVoucherItinerary, whatever order their statements are run in.
THEOREM TypeCorrect == Spec => []TypeOK
BY AlwaysSound, PTL DEF Sound

\* The children of a voucher are those of the request that wrote its row: no
\* interleaving of updateVoucher's statements doubles, mixes or loses them.
THEOREM ChildrenAlwaysMatch == Spec => []ChildrenMatchVoucher
<1>1. Sound => ChildrenMatchVoucher
  BY DEF Sound, RowsFit, RowFits, ChildrenMatchVoucher, Live
<1> QED BY <1>1, AlwaysSound, PTL

-----------------------------------------------------------------------------
(* Refinement. *)

LEMMA PresentIsLive ==
  ASSUME Sound
  PROVE  Register!Present = Live
<1> SUFFICES ASSUME NEW v \in Ids PROVE EntryOfVoucher(v) # NoEntry <=> voucher[v].by # 0
  BY DEF Register!Present, Registered, Live
<1>1. RowFits(v)
  BY DEF Sound, RowsFit
<1>2. CASE voucher[v].by = 0
  <2>1. ChildrenOf(v) = NoChildren
    BY <1>1, <1>2 DEF RowFits, ChildrenOf, NoChildren
  <2> QED BY <1>1, <1>2, <2>1 DEF RowFits, EntryOfVoucher, NoEntry, NoVoucher
<1>3. CASE voucher[v].by # 0
  BY <1>1, <1>3, NamesAssumption DEF RowFits, EntryOfVoucher, NoEntry
<1> QED BY <1>2, <1>3

LEMMA RegisterInit == Init => Register!Init
<1> SUFFICES ASSUME Init PROVE Registered = [v \in Ids |-> NoEntry]
  BY DEF Register!Init
<1>1. \A v \in Ids : ChildrenOf(v) = NoChildren
  BY DEF Init, ChildrenOf, NoChildren
<1>2. \A v \in Ids : EntryOfVoucher(v) = NoEntry
  BY <1>1 DEF Init, EntryOfVoucher, NoEntry, NoVoucher
<1> QED BY <1>2 DEF Registered

\* A step that changes one entry, when it is one of the register's steps.
LEMMA EntryStep ==
  ASSUME NEW v \in Ids, NEW entry, Registered' = [Registered EXCEPT ![v] = entry],
         \/ Register!Create(v, entry) \/ Register!Update(v, entry)
         \/ Register!SaveItinerary(v, entry)
  PROVE  [Register!Next]_Registered
<1>1. Registered = [o \in Ids |-> EntryOfVoucher(o)]
  BY DEF Registered
<1>2. Registered'[v] = entry
  BY <1>1
<1>3. CASE entry = Registered[v]
  BY <1>1, <1>3
<1>4. CASE entry # Registered[v]
  BY <1>2, <1>4 DEF Register!Next
<1> QED BY <1>3, <1>4

\* The entry that a write leaves behind.
LEMMA WrittenEntry ==
  ASSUME Sound, NEW h \in Handlers, task[h].request \in 1..issued, NEW new,
         Writes(h, new), new.itinerary \in Itinerary
  PROVE  \E entry \in Entry :
           /\ Registered' = [Registered EXCEPT ![Of(h)] = entry]
           /\ entry.publicCode = new.publicCode
           /\ entry.itinerary = new.itinerary
           /\ Register!CodesAreFree(Of(h), entry)
<1>0. Of(h) \in Ids /\ Asked(h) \in Payload /\ task[h].request \in Ids
  BY AskedTypes DEF Sound
<1> SUFFICES ASSUME NEW v \in Ids, v = Of(h)
             PROVE  \E entry \in Entry :
                      /\ Registered' = [Registered EXCEPT ![v] = entry]
                      /\ entry.publicCode = new.publicCode
                      /\ entry.itinerary = new.itinerary
                      /\ Register!CodesAreFree(v, entry)
  BY <1>0
<1> DEFINE rows == Written(Asked(h), task[h].request)
           entry == [publicCode |-> new.publicCode,
                     reservationCode |-> new.reservationCode,
                     tripDestination |-> new.tripDestination,
                     rows |-> rows, itinerary |-> new.itinerary]
<1>2. entry \in Entry
  BY <1>0 DEF Writes, Entry
<1>3. voucher'[v] = new /\ \A o \in Ids \ {v} : voucher'[o] = voucher[o]
  BY DEF Writes, Sound, TypeOK
<1>4. \A c \in Children : /\ child'[c][v] = rows[c]
                          /\ \A o \in Ids \ {v} : child'[c][o] = child[c][o]
  <2>1. \A c \in Children : child[c] \in [Ids -> SUBSET Ids]
    BY DEF Sound, TypeOK
  <2>2. child' = [c \in Children |-> [child[c] EXCEPT ![v] = rows[c]]]
    BY DEF Writes
  <2> HIDE DEF rows
  <2> QED BY <2>1, <2>2
<1>5. ChildrenOf(v)' = rows
  <2>1. rows = [c \in Children |-> rows[c]]
    BY DEF Written
  <2>2. ChildrenOf(v)' = [c \in Children |-> child'[c][v]]
    BY DEF ChildrenOf
  <2> HIDE DEF rows
  <2> QED BY <1>4, <2>1, <2>2
<1> HIDE DEF rows
<1>6. EntryOfVoucher(v)' = entry
  BY <1>3, <1>5 DEF EntryOfVoucher
<1>7. ASSUME NEW o \in Ids \ {v} PROVE EntryOfVoucher(o)' = EntryOfVoucher(o)
  <2>1. ChildrenOf(o)' = ChildrenOf(o)
    BY <1>4 DEF ChildrenOf
  <2> QED BY <1>3, <2>1 DEF EntryOfVoucher
<1>8. Register!CodesAreFree(v, entry)
  BY PresentIsLive
  DEF Writes, Register!CodesAreFree, Registered, EntryOfVoucher, Live
<1>9. entry.publicCode = new.publicCode /\ entry.itinerary = new.itinerary
  OBVIOUS
<1> HIDE DEF entry
<1>10. Registered' = [Registered EXCEPT ![v] = entry]
  BY <1>6, <1>7 DEF Registered
<1> QED BY <1>2, <1>8, <1>9, <1>10

LEMMA TablesKept ==
  ASSUME UNCHANGED <<voucher, child>> PROVE Registered' = Registered
  BY DEF Registered, EntryOfVoucher, ChildrenOf

LEMMA InsertCreates ==
  ASSUME Sound, NEW h \in Handlers, InsertVoucher(h)
  PROVE  [Register!Next]_Registered
<1>1. voucher[Of(h)].by = 0 /\ task[h].request \in 1..issued
  BY InsertWrites DEF Sound, HandlersFit, Fit
<1>2. PICK new : Writes(h, new) /\ new.itinerary = NoItinerary
  BY InsertWrites
<1>3. PICK v \in Ids : v = Of(h)
  BY <1>1, AskedTypes DEF Sound
<1>4. PICK entry \in Entry : /\ Registered' = [Registered EXCEPT ![v] = entry]
                             /\ entry.itinerary = NoItinerary
                             /\ Register!CodesAreFree(v, entry)
  BY <1>1, <1>2, <1>3, WrittenEntry, NoItineraryType
<1>5. v \notin Register!Present
  BY <1>1, <1>3, PresentIsLive DEF Live
<1>6. Register!Create(v, entry)
  BY <1>4, <1>5 DEF Register!Create
<1> QED BY <1>4, <1>6, EntryStep

LEMMA CommitUpdates ==
  ASSUME Sound, NEW h \in Handlers, CommitUpdate(h)
  PROVE  [Register!Next]_Registered
<1>1. voucher[Of(h)].by # 0 /\ task[h].request \in 1..issued
  BY CommitWrites DEF Sound, HandlersFit, Fit
<1>2. PICK new : /\ Writes(h, new)
                 /\ new.itinerary \in {voucher[Of(h)].itinerary, NoItinerary}
                 /\ new.publicCode = voucher[Of(h)].publicCode
  BY CommitWrites
<1>3. PICK v \in Ids : v = Of(h)
  BY <1>1, AskedTypes DEF Sound
<1>4. PICK entry \in Entry : /\ Registered' = [Registered EXCEPT ![v] = entry]
                             /\ entry.publicCode = new.publicCode
                             /\ entry.itinerary = new.itinerary
                             /\ Register!CodesAreFree(v, entry)
  <2>1. new.itinerary \in Itinerary
    BY <1>2 DEF Writes, Voucher
  <2> QED BY <1>1, <1>2, <1>3, <2>1, WrittenEntry
<1>5. v \in Register!Present
  BY <1>1, <1>3, PresentIsLive DEF Live
<1>6. /\ Registered[v].publicCode = voucher[v].publicCode
      /\ Registered[v].itinerary = voucher[v].itinerary
  BY DEF Registered, EntryOfVoucher
<1>7. Register!Update(v, entry)
  BY <1>2, <1>3, <1>4, <1>5, <1>6 DEF Register!Update
<1> QED BY <1>4, <1>7, EntryStep

LEMMA PersistSaves ==
  ASSUME Sound, NEW h \in Handlers, persistVoucherItinerary(h)
  PROVE  [Register!Next]_Registered
<1>1. Of(h) \in Ids /\ voucher[Of(h)].by # 0
  BY PersistFacts
<1>2. PICK i \in Itinerary :
        voucher' = [voucher EXCEPT ![Of(h)] = [voucher[Of(h)] EXCEPT !.itinerary = i]]
  BY PersistFacts
<1>3. PICK v \in Ids : v = Of(h)
  BY <1>1
<1> DEFINE entry == [Registered[v] EXCEPT !.itinerary = i]
<1>4. \A o \in Ids : ChildrenOf(o)' = ChildrenOf(o)
  BY DEF persistVoucherItinerary, ChildrenOf
<1>5. voucher[v] \in Voucher /\ voucher \in [Ids -> Voucher]
  BY DEF Sound, TypeOK
<1>6. voucher'[v] = [voucher[v] EXCEPT !.itinerary = i]
      /\ \A o \in Ids \ {v} : voucher'[o] = voucher[o]
  BY <1>2, <1>3, <1>5
<1>7. EntryOfVoucher(v)' = entry
  BY <1>4, <1>5, <1>6 DEF EntryOfVoucher, Registered, Voucher
<1>8. ASSUME NEW o \in Ids \ {v} PROVE EntryOfVoucher(o)' = EntryOfVoucher(o)
  BY <1>4, <1>6 DEF EntryOfVoucher
<1>9. entry.itinerary = i
  BY DEF Registered, EntryOfVoucher
<1>10. v \in Register!Present
  BY <1>1, <1>3, PresentIsLive DEF Live
<1>11. Register!SaveItinerary(v, entry)
  BY <1>9, <1>10 DEF Register!SaveItinerary
<1> HIDE DEF entry
<1>12. Registered' = [Registered EXCEPT ![v] = entry]
  BY <1>7, <1>8 DEF Registered
<1> QED BY <1>11, <1>12, EntryStep

\* What the other steps do, the register does not see.
LEMMA RegisterStep == Sound /\ [Next]_vars => [Register!Next]_Registered
<1> SUFFICES ASSUME Sound, [Next]_vars PROVE [Register!Next]_Registered
  OBVIOUS
<1>1. CASE UNCHANGED <<voucher, child>>
  BY <1>1, TablesKept
<1>2. ASSUME NEW h \in Handlers, InsertVoucher(h) PROVE [Register!Next]_Registered
  BY <1>2, InsertCreates
<1>3. ASSUME NEW h \in Handlers, CommitUpdate(h) PROVE [Register!Next]_Registered
  BY <1>3, CommitUpdates
<1>4. ASSUME NEW h \in Handlers, persistVoucherItinerary(h) PROVE [Register!Next]_Registered
  BY <1>4, PersistSaves
<1>5. ASSUME NEW h \in Handlers,
             \/ \E p \in Payload : createVoucher(h, p) \/ \E v \in Ids : updateVoucher(h, v, p)
             \/ \E code \in PublicCodes : generateUniquePublicCode(h, code)
             \/ \E text \in {"good", "poor"} : generateVoucherItinerary(h, text)
             \/ UpdateRow(h) \/ DeleteChildren(h) \/ Conflict(h) \/ Abort(h)
      PROVE  UNCHANGED <<voucher, child>>
  BY <1>5 DEF createVoucher, updateVoucher, generateUniquePublicCode, UpdateRow,
              DeleteChildren, generateVoucherItinerary, Conflict, Abort
<1>6. UNCHANGED vars => UNCHANGED <<voucher, child>>
  BY DEF vars
<1> QED BY <1>1, <1>2, <1>3, <1>4, <1>5, <1>6 DEF Next

\* The transactions of createVoucher and updateVoucher, and the itinerary saved
\* after them, implement the register: each is one step on whole entries, under
\* codes nobody else has.
THEOREM VouchersActAsRegister == Spec => ActsAsRegister
<1>1. Sound /\ [Next]_vars => [Register!Next]_Registered
  BY RegisterStep
<1> QED BY <1>1, RegisterInit, AlwaysSound, PTL DEF Spec, ActsAsRegister, Register!Spec

-----------------------------------------------------------------------------
(* Itineraries. What a handler decided before the lock, and what it saves in *)
(* the end, is right about a row that no other request has touched since;    *)
(* and a request that touched it was in flight with this one, which the      *)
(* history of one of the two remembers. The tables are parameters here, so   *)
(* that the same facts serve both ends of a step.                            *)

Serving(t) == t.pc \in {"generate", "save"}

\* Overlaps, of the requests asked.
Beside(m, n, asked) == m \in asked[n].beside \/ n \in asked[m].beside
Joined(n, asked) == \E m \in DOMAIN asked : Beside(m, n, asked)

\* What was generated for request n suits a destination, or n had company.
Suits(n, destination, asked) ==
  /\ n \in DOMAIN asked
  /\ asked[n].payload.tripDestination = destination \/ Joined(n, asked)
Shows(row, destination, asked) ==
  row.itinerary.status # "none" => Suits(row.itinerary.of, destination, asked)

\* An itinerary that the last request about the row should have seen to.
Neglected(row) ==
  /\ row.tripDestination # NoDestination
  /\ \/ row.itinerary.status = "none"
     \/ row.itinerary.status = "poor" /\ row.itinerary.of # row.by

\* What a handler has decided still fits its row: an itinerary that will be kept
\* suits the new destination, one that will not be renewed is good; and the row
\* a handler generates for is as it left it.
Decided(t, row, asked) ==
  /\ t.pc \in Transaction =>
       /\ ~t.reset => Shows(row, asked[t.request].payload.tripDestination, asked)
       /\ ~t.generate /\ asked[t.request].payload.tripDestination # NoDestination =>
            /\ ~t.reset
            /\ row.itinerary.status = "good" \/ Joined(t.request, asked)
  /\ Serving(t) =>
       /\ Suits(t.request, row.tripDestination, asked)
       /\ row.by = t.request \/ Joined(row.by, asked)

\* Somebody is going to see to the itinerary, or there is a reason why not.
Attended(v) ==
  \/ voucher[v].by \in gaveUp
  \/ Joined(voucher[v].by, request)
  \/ \E h \in Handlers : /\ Serving(task[h]) /\ Of(h) = v
                         /\ task[h].request = voucher[v].by

HandlersDecided ==
  \A h \in Handlers : task[h].pc # "idle" => Decided(task[h], voucher[Of(h)], request)
Together ==
  \A g, h \in Handlers :
    g # h /\ task[g].pc # "idle" /\ task[h].pc # "idle" /\ Of(g) = Of(h)
      => Beside(task[g].request, task[h].request, request)
ItinerariesSuit == \A v \in Live : Shows(voucher[v], voucher[v].tripDestination, request)
RowsAttended == \A v \in Live : Neglected(voucher[v]) => Attended(v)

Tended == Sound /\ HandlersDecided /\ Together /\ ItinerariesSuit /\ RowsAttended

LEMMA InitTended == Init => Tended
<1> SUFFICES ASSUME Init PROVE Tended
  OBVIOUS
<1>1. Sound
  BY InitSound
<1>2. Live = {} /\ \A h \in Handlers : task[h].pc = "idle"
  BY NoVoucherType, IdleType DEF Init, Live
<1> QED BY <1>1, <1>2 DEF Tended, HandlersDecided, Together, ItinerariesSuit, RowsAttended

\* Requests are added and never change.
Grows(asked, more) ==
  DOMAIN asked \subseteq DOMAIN more /\ \A n \in DOMAIN asked : more[n] = asked[n]

LEMMA JoinedGrows ==
  ASSUME NEW asked, NEW more, Grows(asked, more), NEW n \in DOMAIN asked, Joined(n, asked)
  PROVE  Joined(n, more)
BY DEF Grows, Joined, Beside

LEMMA ShowsGrows ==
  ASSUME NEW asked, NEW more, Grows(asked, more), NEW row, NEW destination,
         Shows(row, destination, asked)
  PROVE  Shows(row, destination, more)
BY JoinedGrows DEF Grows, Shows, Suits

LEMMA DecidedGrows ==
  ASSUME NEW asked, NEW more, Grows(asked, more), NEW t, NEW row,
         t.request \in DOMAIN asked, Serving(t) => row.by \in DOMAIN asked,
         Decided(t, row, asked)
  PROVE  Decided(t, row, more)
<1>1. asked[t.request] = more[t.request]
  BY DEF Grows
<1>2. Joined(t.request, asked) => Joined(t.request, more)
  BY JoinedGrows
<1>3. Serving(t) /\ Joined(row.by, asked) => Joined(row.by, more)
  BY JoinedGrows
<1>4. Serving(t) => Suits(t.request, row.tripDestination, more)
  BY <1>1, <1>2 DEF Decided, Suits, Grows
<1>5. t.pc \in Transaction /\ ~t.reset =>
        Shows(row, asked[t.request].payload.tripDestination, more)
  BY ShowsGrows DEF Decided
<1> QED BY <1>1, <1>2, <1>3, <1>4, <1>5 DEF Decided

\* What request n may make of a row.
Touches(old, new, n) ==
  /\ \/ new.itinerary = old.itinerary
     \/ new.itinerary.status = "none"
     \/ new.itinerary.of = n
  /\ new.by = old.by \/ new.by = n

\* A handler whose row another request touches has company.
LEMMA TouchedDecided ==
  ASSUME NEW asked, NEW t, NEW old, NEW new, NEW n \in DOMAIN asked,
         t.request \in DOMAIN asked, Decided(t, old, asked),
         Beside(t.request, n, asked), Touches(old, new, n)
  PROVE  Decided(t, new, asked)
<1>1. Joined(t.request, asked) /\ Joined(n, asked)
  BY DEF Joined, Beside
<1>2. ASSUME t.pc \in Transaction, ~t.reset
      PROVE  Shows(new, asked[t.request].payload.tripDestination, asked)
  BY <1>1, <1>2 DEF Decided, Shows, Suits, Touches
<1>3. ASSUME t.pc \in Transaction, ~t.generate,
             asked[t.request].payload.tripDestination # NoDestination
      PROVE  ~t.reset
  BY <1>3 DEF Decided
<1>4. ASSUME Serving(t)
      PROVE  /\ Suits(t.request, new.tripDestination, asked)
             /\ new.by = t.request \/ Joined(new.by, asked)
  BY <1>1, <1>4 DEF Decided, Suits, Touches
<1> QED BY <1>1, <1>2, <1>3, <1>4 DEF Decided

\* What the history and the rows say of one handler or row at a time.
LEMMA Ranges ==
  ASSUME Sound
  PROVE  /\ DOMAIN request = 1..issued
         /\ \A h \in Handlers : task[h].pc # "idle" =>
              task[h].request \in 1..issued /\ Of(h) \in Ids
         /\ \A v \in Live : v \in Ids /\ voucher[v].by \in 1..issued
<1>1. DOMAIN request = 1..issued
  BY DEF Sound, TypeOK
<1>2. ASSUME NEW h \in Handlers, task[h].pc # "idle"
      PROVE  task[h].request \in 1..issued /\ Of(h) \in Ids
  BY <1>2, AskedTypes DEF Sound, HandlersFit, Fit
<1>3. ASSUME NEW v \in Live PROVE v \in Ids /\ voucher[v].by \in 1..issued
  <2>1. v \in Ids /\ voucher[v].by # 0
    BY DEF Live
  <2>2. voucher[v].by \in 0..MaxRequests
    BY <2>1 DEF Sound, TypeOK, Voucher
  <2>3. voucher[v].by <= issued
    BY <2>1 DEF Sound, RowsFit, RowFits
  <2> QED BY <2>1, <2>2, <2>3, RequestsAssumption DEF Sound, TypeOK
<1> QED BY <1>1, <1>2, <1>3

\* A step of one handler, which at most touches the row it works on.
LEMMA TendedStep ==
  ASSUME Tended, Sound', NEW h \in Handlers,
         Grows(request, request'), gaveUp \subseteq gaveUp',
         \A g \in Handlers \ {h} : task'[g] = task[g],
         task'[h].pc # "idle" => Decided(task'[h], voucher'[Of(h)'], request'),
         task'[h].pc # "idle" =>
           \/ task[h].pc # "idle" /\ task'[h].request = task[h].request
           \/ \A g \in Handlers \ {h} : task[g].pc # "idle" /\ Of(g) = Of(h)' =>
                Beside(task[g].request, task'[h].request, request'),
         \A v \in Ids :
           \/ voucher'[v] = voucher[v]
           \/ /\ task[h].pc # "idle" /\ Of(h) = v
              /\ Touches(voucher[v], voucher'[v], task[h].request)
              /\ Shows(voucher'[v], voucher'[v].tripDestination, request')
              /\ Neglected(voucher'[v]) => Attended(v)',
         Serving(task[h]) =>
           \/ Serving(task'[h]) /\ task'[h].request = task[h].request
           \/ task[h].request \in gaveUp'
           \/ voucher'[Of(h)].by = task[h].request => ~Neglected(voucher'[Of(h)])
  PROVE  Tended'
<1>1. /\ DOMAIN request = 1..issued
      /\ \A g \in Handlers : task[g].pc # "idle" =>
           task[g].request \in 1..issued /\ Of(g) \in Ids
      /\ \A v \in Live : v \in Ids /\ voucher[v].by \in 1..issued
  BY Ranges DEF Tended
<1>2. \A n \in 1..issued : request'[n] = request[n]
  BY <1>1 DEF Grows
<1>3. \A g \in Handlers \ {h} : task[g].pc # "idle" => Of(g)' = Of(g)
  BY <1>1, <1>2 DEF Of
<1>4. \A m, n \in 1..issued : Beside(m, n, request) => Beside(m, n, request')
  BY <1>2 DEF Beside
<1>5. HandlersDecided'
  <2> SUFFICES ASSUME NEW g \in Handlers, task'[g].pc # "idle"
               PROVE  Decided(task'[g], voucher'[Of(g)'], request')
    BY DEF HandlersDecided
  <2>1. CASE g = h
    BY <2>1
  <2>2. CASE g # h
    <3>1. /\ task'[g] = task[g] /\ task[g].pc # "idle" /\ Of(g)' = Of(g) /\ Of(g) \in Ids
          /\ task[g].request \in DOMAIN request
      BY <1>1, <1>3, <2>2
    <3>2. Decided(task[g], voucher[Of(g)], request)
      BY <3>1 DEF Tended, HandlersDecided
    <3>3. Serving(task[g]) => voucher[Of(g)].by \in DOMAIN request
      <4>1. Serving(task[g]) => voucher[Of(g)].by # 0
        BY <3>1 DEF Serving, Tended, Sound, HandlersFit, Fit
      <4> QED BY <1>1, <3>1, <4>1 DEF Live
    <3>4. CASE voucher'[Of(g)] = voucher[Of(g)]
      BY <3>1, <3>2, <3>3, <3>4, DecidedGrows
    <3>5. CASE /\ task[h].pc # "idle" /\ Of(h) = Of(g)
               /\ Touches(voucher[Of(g)], voucher'[Of(g)], task[h].request)
      <4>1. Beside(task[g].request, task[h].request, request) /\ task[h].request \in 1..issued
        BY <1>1, <2>2, <3>1, <3>5 DEF Tended, Together
      <4>2. Beside(task[g].request, task[h].request, request')
        BY <1>1, <1>4, <3>1, <4>1
      <4>3. task[g].request \in DOMAIN request' /\ task[h].request \in DOMAIN request'
        BY <1>1, <3>1, <4>1 DEF Grows
      <4>4. Decided(task[g], voucher[Of(g)], request')
        BY <3>1, <3>2, <3>3, DecidedGrows
      <4>5. Decided(task[g], voucher'[Of(g)], request')
        BY <3>5, <4>2, <4>3, <4>4, TouchedDecided
      <4> QED BY <3>1, <4>5
    <3> QED BY <3>1, <3>4, <3>5
  <2> QED BY <2>1, <2>2
<1>6. Together'
  <2> SUFFICES ASSUME NEW f \in Handlers, NEW g \in Handlers, f # g,
                      task'[f].pc # "idle", task'[g].pc # "idle", Of(f)' = Of(g)'
               PROVE  Beside(task'[f].request, task'[g].request, request')
    BY DEF Together
  <2>1. ASSUME NEW a \in Handlers, NEW b \in Handlers, a # b, b # h,
               task'[a].pc # "idle", task'[b].pc # "idle", Of(a)' = Of(b)'
        PROVE  Beside(task'[b].request, task'[a].request, request')
    <3>1. /\ task'[b] = task[b] /\ task[b].pc # "idle" /\ Of(b)' = Of(b)
          /\ task[b].request \in 1..issued
      BY <1>1, <1>3, <2>1
    <3>2. CASE task[a].pc # "idle" /\ task'[a].request = task[a].request
      <4>1. task[a].request \in 1..issued
        BY <1>1, <3>2
      <4>2. Of(a)' = Of(a)
        BY <1>2, <3>2, <4>1 DEF Of
      <4>3. Beside(task[b].request, task[a].request, request)
        BY <2>1, <3>1, <3>2, <4>2 DEF Tended, Together
      <4> QED BY <1>4, <3>1, <3>2, <4>1, <4>3
    <3>3. CASE a # h
      BY <2>1, <3>2, <3>3
    <3>4. CASE a = h /\ ~(task[a].pc # "idle" /\ task'[a].request = task[a].request)
      BY <2>1, <3>1, <3>4
    <3> QED BY <3>2, <3>3, <3>4
  <2>2. CASE g # h
    BY <2>1, <2>2 DEF Beside
  <2>3. CASE f # h
    <3>1. Beside(task'[f].request, task'[g].request, request')
      BY <2>1, <2>3
    <3> QED BY <3>1
  <2> QED BY <2>2, <2>3
<1>7. ItinerariesSuit'
  <2> SUFFICES ASSUME NEW v \in Live'
               PROVE  Shows(voucher'[v], voucher'[v].tripDestination, request')
    BY DEF ItinerariesSuit
  <2>1. v \in Ids /\ voucher'[v].by # 0
    BY DEF Live
  <2>2. CASE voucher'[v] = voucher[v]
    <3>1. Shows(voucher[v], voucher[v].tripDestination, request)
      BY <2>1, <2>2 DEF Live, Tended, ItinerariesSuit
    <3> QED BY <2>2, <3>1, ShowsGrows
  <2> QED BY <2>1, <2>2
<1>8. RowsAttended'
  <2> SUFFICES ASSUME NEW v \in Live', Neglected(voucher'[v]) PROVE Attended(v)'
    BY DEF RowsAttended
  <2>1. v \in Ids /\ voucher'[v].by # 0
    BY DEF Live
  <2>2. CASE voucher'[v] = voucher[v]
    <3>1. v \in Live
      BY <2>1, <2>2 DEF Live
    <3>2. Attended(v) /\ voucher[v].by \in DOMAIN request
      BY <1>1, <2>2, <3>1 DEF Tended, RowsAttended
    <3>3. CASE voucher[v].by \in gaveUp
      BY <2>2, <3>3 DEF Attended
    <3>4. CASE Joined(voucher[v].by, request)
      <4>1. Joined(voucher[v].by, request')
        BY <3>2, <3>4, JoinedGrows
      <4> QED BY <2>2, <4>1 DEF Attended
    <3>5. ASSUME NEW g \in Handlers, Serving(task[g]), Of(g) = v,
                 task[g].request = voucher[v].by
          PROVE  Attended(v)'
      <4>1. task[g].pc # "idle" /\ task[g].request \in 1..issued
        BY <1>1, <3>5 DEF Serving
      <4>2. CASE Serving(task'[g]) /\ task'[g].request = task[g].request
        <5>1. Of(g)' = Of(g)
          BY <1>2, <4>1, <4>2 DEF Of
        <5> QED BY <2>2, <3>5, <4>2, <5>1 DEF Attended
      <4>3. CASE g # h
        BY <3>5, <4>2, <4>3
      <4>4. CASE g = h /\ task[h].request \in gaveUp'
        BY <2>2, <3>5, <4>4 DEF Attended
      <4> QED BY <2>2, <3>5, <4>2, <4>3, <4>4
    <3> QED BY <3>2, <3>3, <3>4, <3>5 DEF Attended
  <2> QED BY <2>1, <2>2
<1> QED BY <1>5, <1>6, <1>7, <1>8 DEF Tended

\* A step that touches no row and no request.
LEMMA HandlerTends ==
  ASSUME Tended, Sound', NEW h \in Handlers, NEW t,
         task' = [task EXCEPT ![h] = t], UNCHANGED <<voucher, request>>,
         gaveUp \subseteq gaveUp',
         t.pc # "idle" => /\ task[h].pc # "idle" /\ t.request = task[h].request
                          /\ Decided(t, voucher[Of(h)], request),
         Serving(task[h]) => Serving(t) \/ task[h].request \in gaveUp'
  PROVE  Tended'
<1>1. task'[h] = t /\ \A g \in Handlers \ {h} : task'[g] = task[g]
  BY DEF Tended, Sound, TypeOK
<1>2. Grows(request, request')
  BY DEF Grows
<1>3. t.pc # "idle" => Of(h)' = Of(h)
  BY <1>1 DEF Of
<1>4. t.pc # "idle" => Decided(task'[h], voucher'[Of(h)'], request')
  BY <1>1, <1>3
<1>5. Serving(t) => t.request = task[h].request
  BY DEF Serving
<1> QED BY <1>1, <1>2, <1>4, <1>5, TendedStep

LEMMA EndsTended ==
  ASSUME Tended, Sound', NEW h \in Handlers, Conflict(h) \/ Abort(h)
  PROVE  Tended'
<1>1. task' = [task EXCEPT ![h] = Idle] /\ UNCHANGED <<voucher, request>>
  BY DEF Conflict, Abort, Finish
<1>2. gaveUp \subseteq gaveUp'
  BY DEF Conflict, Abort
<1>3. Serving(task[h]) => task[h].request \in gaveUp'
  BY DEF Conflict, Abort, Serving
<1> QED BY <1>1, <1>2, <1>3, IdleType, HandlerTends

LEMMA MovesTended ==
  ASSUME Tended, Sound', NEW h \in Handlers,
         \/ \E code \in PublicCodes : generateUniquePublicCode(h, code)
         \/ UpdateRow(h) \/ DeleteChildren(h)
         \/ \E text \in {"good", "poor"} : generateVoucherItinerary(h, text)
  PROVE  Tended'
<1>1. task[h] \in Task /\ UNCHANGED <<voucher, request>> /\ gaveUp \subseteq gaveUp'
  BY DEF Tended, Sound, TypeOK, generateUniquePublicCode, UpdateRow, DeleteChildren,
         generateVoucherItinerary
<1>2. task[h].pc # "idle" => Decided(task[h], voucher[Of(h)], request)
  BY DEF Tended, HandlersDecided
<1>3. ASSUME NEW code \in PublicCodes, generateUniquePublicCode(h, code) PROVE Tended'
  <2> DEFINE t == [task[h] EXCEPT !.pc = "insert", !.publicCode = code]
  <2>1. t.pc = "insert" /\ t.request = task[h].request
    BY <1>1 DEF Task
  <2>2. task' = [task EXCEPT ![h] = t] /\ task[h].pc = "draw"
    BY <1>3 DEF generateUniquePublicCode, Tended, Sound, TypeOK
  <2> HIDE DEF t
  <2>3. Decided(t, voucher[Of(h)], request) /\ ~Serving(task[h])
    BY <2>1, <2>2 DEF Decided, Serving, Transaction
  <2> QED BY <1>1, <2>1, <2>2, <2>3, HandlerTends
<1>4. CASE UpdateRow(h)
  <2> DEFINE t == [task[h] EXCEPT !.pc = "children"]
  <2>1. /\ t.pc = "children" /\ t.request = task[h].request
        /\ t.reset = task[h].reset /\ t.generate = task[h].generate
    BY <1>1 DEF Task
  <2>2. task' = [task EXCEPT ![h] = t] /\ task[h].pc = "update"
    BY <1>4 DEF UpdateRow, Tended, Sound, TypeOK
  <2> HIDE DEF t
  <2>3. Decided(t, voucher[Of(h)], request) /\ ~Serving(task[h])
    BY <1>2, <2>1, <2>2 DEF Decided, Serving, Transaction
  <2> QED BY <1>1, <2>1, <2>2, <2>3, HandlerTends
<1>5. CASE DeleteChildren(h)
  <2> DEFINE t == [task[h] EXCEPT !.pc = "commit", !.deleted = DeletedBy(h)]
  <2>1. /\ t.pc = "commit" /\ t.request = task[h].request
        /\ t.reset = task[h].reset /\ t.generate = task[h].generate
    BY <1>1 DEF Task
  <2>2. task' = [task EXCEPT ![h] = t] /\ task[h].pc = "children"
    BY <1>5 DEF DeleteChildren, DeletedBy, Tended, Sound, TypeOK
  <2> HIDE DEF t
  <2>3. Decided(t, voucher[Of(h)], request) /\ ~Serving(task[h])
    BY <1>2, <2>1, <2>2 DEF Decided, Serving, Transaction
  <2> QED BY <1>1, <2>1, <2>2, <2>3, HandlerTends
<1>6. ASSUME NEW text \in {"good", "poor"}, generateVoucherItinerary(h, text) PROVE Tended'
  <2> DEFINE t == [task[h] EXCEPT !.pc = "save", !.text = text]
  <2>1. t.pc = "save" /\ t.request = task[h].request
    BY <1>1 DEF Task
  <2>2. task' = [task EXCEPT ![h] = t] /\ task[h].pc = "generate"
    BY <1>6 DEF generateVoucherItinerary, Tended, Sound, TypeOK
  <2> HIDE DEF t
  <2>3. Decided(t, voucher[Of(h)], request) /\ Serving(t)
    BY <1>2, <2>1, <2>2 DEF Decided, Serving, Transaction
  <2> QED BY <1>1, <2>1, <2>2, <2>3, HandlerTends
<1> QED BY <1>3, <1>4, <1>5, <1>6

\* A new request knows whom it has joined.
LEMMA BeginTends ==
  ASSUME Tended, Sound', NEW h \in Handlers, NEW v \in Ids, NEW p \in Payload, Begin(v, p),
         NEW t, task' = [task EXCEPT ![h] = t], UNCHANGED <<voucher, gaveUp>>,
         task[h].pc = "idle", t.request = issued + 1,
         Decided(t, voucher[v], request')
  PROVE  Tended'
<1>1. /\ issued' = issued + 1 /\ issued' \in Ids /\ issued \in Nat
      /\ request' \in [1..issued' -> Request]
      /\ request'[issued'].voucher = v
      /\ \A n \in 1..issued : request'[n] = request[n]
  BY BeginStep DEF Tended, Sound
<1>2. task'[h] = t /\ \A g \in Handlers \ {h} : task'[g] = task[g]
  BY DEF Tended, Sound, TypeOK
<1>3. Grows(request, request')
  BY <1>1, Ranges DEF Grows, Tended
<1>4. Of(h)' = v
  BY <1>1, <1>2 DEF Of
<1>5. request'[issued'].beside = {task[g].request : g \in Busy(v)}
  <2>1. request'[issued'] = [voucher |-> v, payload |-> p,
                             beside |-> {task[g].request : g \in Busy(v)}]
    BY <1>1 DEF Begin
  <2> QED BY <2>1
<1>6. ASSUME NEW g \in Handlers \ {h}, task[g].pc # "idle", Of(g) = v
      PROVE  Beside(task[g].request, task'[h].request, request')
  BY <1>1, <1>2, <1>5, <1>6 DEF Busy, Beside
<1>7. Decided(task'[h], voucher'[Of(h)'], request')
  BY <1>2, <1>4
<1>8. ~Serving(task[h])
  BY DEF Serving
<1> QED BY <1>2, <1>3, <1>4, <1>6, <1>7, <1>8, TendedStep

LEMMA RequestsTended ==
  ASSUME Tended, Sound', NEW h \in Handlers, NEW p \in Payload,
         createVoucher(h, p) \/ \E v \in Ids : updateVoucher(h, v, p)
  PROVE  Tended'
<1>1. CASE createVoucher(h, p)
  <2> DEFINE t == [Idle EXCEPT !.pc = "draw", !.request = issued + 1]
  <2>1. t.pc = "draw" /\ t.request = issued + 1
    BY DEF Idle
  <2>2. task' = [task EXCEPT ![h] = t] /\ issued + 1 \in Ids
    BY <1>1, RequestsAssumption DEF createVoucher, Begin, Tended, Sound, TypeOK
  <2> HIDE DEF t
  <2>3. Decided(t, voucher[issued + 1], request')
    BY <2>1 DEF Decided, Serving, Transaction
  <2> QED BY <1>1, <2>1, <2>2, <2>3, BeginTends DEF createVoucher
<1>2. ASSUME NEW v \in Ids, updateVoucher(h, v, p) PROVE Tended'
  <2> DEFINE t == [Idle EXCEPT !.pc = "update", !.request = issued + 1,
                               !.reset = shouldResetItinerary(voucher[v], p),
                               !.generate = shouldGenerateItinerary(voucher[v], p)]
  <2>1. /\ t.pc = "update" /\ t.request = issued + 1
        /\ t.reset = shouldResetItinerary(voucher[v], p)
        /\ t.generate = shouldGenerateItinerary(voucher[v], p)
    BY DEF Idle
  <2>2. task' = [task EXCEPT ![h] = t] /\ v \in Live /\ Begin(v, p)
    BY <1>2 DEF updateVoucher
  <2> HIDE DEF t
  <2>3. /\ issued' = issued + 1
        /\ request'[issued'].payload = p
        /\ \A n \in 1..issued : request'[n] = request[n]
        /\ request' \in [1..issued' -> Request] /\ issued \in Nat
    BY <2>2, BeginStep DEF Tended, Sound
  <2>4. Shows(voucher[v], voucher[v].tripDestination, request')
    <3>1. Shows(voucher[v], voucher[v].tripDestination, request)
      BY <2>2 DEF Tended, ItinerariesSuit
    <3>2. Grows(request, request')
      BY <2>3, Ranges DEF Grows, Tended
    <3> QED BY <3>1, <3>2, ShowsGrows
  <2>5. Decided(t, voucher[v], request')
    BY <2>1, <2>3, <2>4
    DEF Decided, Serving, Transaction, shouldResetItinerary, shouldGenerateItinerary,
        DestinationChanged
  <2> QED BY <1>2, <2>1, <2>2, <2>5, BeginTends DEF updateVoucher
<1> QED BY <1>1, <1>2

\* The row of handler h becomes new, for which it goes on to an itinerary unless
\* there is no need, or it had company.
LEMMA WriteTended ==
  ASSUME Tended, Sound', NEW h \in Handlers, task[h].pc \in {"insert", "commit"}, NEW new,
         voucher' = [voucher EXCEPT ![Of(h)] = new], UNCHANGED <<request, gaveUp>>,
         Touches(voucher[Of(h)], new, task[h].request), new.by = task[h].request,
         new.tripDestination = Asked(h).tripDestination,
         Shows(new, new.tripDestination, request),
         NEW t, task' = [task EXCEPT ![h] = t], t.pc \in {"idle", "generate"},
         t.pc = "generate" => t.request = task[h].request,
         t.pc = "idle" /\ Neglected(new) => Joined(task[h].request, request)
  PROVE  Tended'
<1>1. task'[h] = t /\ \A g \in Handlers \ {h} : task'[g] = task[g]
  BY DEF Tended, Sound, TypeOK
<1>2. /\ task[h].request \in 1..issued /\ Of(h) \in Ids
      /\ DOMAIN request = 1..issued
  BY Ranges DEF Tended
<1>3. voucher'[Of(h)] = new /\ \A o \in Ids \ {Of(h)} : voucher'[o] = voucher[o]
  BY <1>2 DEF Tended, Sound, TypeOK
<1>4. Grows(request, request') /\ gaveUp \subseteq gaveUp'
  BY DEF Grows
<1>5. t.pc = "generate" => Of(h)' = Of(h)
  BY <1>1 DEF Of
<1>6. t.pc # "idle" => Decided(task'[h], voucher'[Of(h)'], request')
  <2> SUFFICES ASSUME t.pc = "generate" PROVE Decided(t, new, request)
    BY <1>1, <1>3, <1>5
  <2>1. Suits(task[h].request, new.tripDestination, request)
    BY <1>2 DEF Suits, Asked
  <2> QED BY <2>1 DEF Decided, Serving, Transaction
<1>7. ASSUME NEW v \in Ids, v = Of(h), Neglected(new) PROVE Attended(v)'
  <2>1. CASE t.pc = "idle"
    BY <1>3, <1>7, <2>1 DEF Attended
  <2>2. CASE t.pc = "generate"
    <3>1. Serving(task'[h]) /\ Of(h)' = v /\ task'[h].request = voucher'[v].by
      BY <1>1, <1>3, <1>5, <1>7, <2>2 DEF Serving
    <3> QED BY <3>1 DEF Attended
  <2> QED BY <2>1, <2>2
<1>8. ~Serving(task[h])
  BY DEF Serving
<1>9. ASSUME NEW v \in Ids
      PROVE  \/ voucher'[v] = voucher[v]
             \/ /\ task[h].pc # "idle" /\ Of(h) = v
                /\ Touches(voucher[v], voucher'[v], task[h].request)
                /\ Shows(voucher'[v], voucher'[v].tripDestination, request')
                /\ Neglected(voucher'[v]) => Attended(v)'
  <2>1. CASE v = Of(h)
    <3>1. voucher'[v] = new
      BY <1>3, <2>1
    <3> QED BY <1>7, <2>1, <3>1
  <2>2. CASE v # Of(h)
    BY <1>3, <2>2
  <2> QED BY <2>1, <2>2
<1> QED BY <1>1, <1>4, <1>6, <1>8, <1>9, TendedStep

LEMMA InsertTended ==
  ASSUME Tended, Sound', NEW h \in Handlers, InsertVoucher(h) PROVE Tended'
<1> DEFINE p == Asked(h)
           new == [publicCode |-> task[h].publicCode,
                   reservationCode |-> p.reservationCode,
                   tripDestination |-> p.tripDestination,
                   itinerary |-> NoItinerary, by |-> task[h].request]
           t == IF p.tripDestination # NoDestination
                THEN [task[h] EXCEPT !.pc = "generate"] ELSE Idle
<1>1. task[h] \in Task /\ task[h].pc = "insert" /\ UNCHANGED <<request, gaveUp>>
  BY DEF InsertVoucher, Tended, Sound, TypeOK
<1>2. task' = [task EXCEPT ![h] = t]
  BY DEF InsertVoucher, Finish, Tended, Sound, TypeOK
<1>3. voucher' = [voucher EXCEPT ![Of(h)] = new]
  BY DEF InsertVoucher
<1>4. /\ new.itinerary.status = "none" /\ new.by = task[h].request
      /\ new.tripDestination = p.tripDestination
  BY DEF NoItinerary
<1>5. /\ t.pc \in {"idle", "generate"}
      /\ t.pc = "generate" => t.request = task[h].request
      /\ t.pc = "idle" => new.tripDestination = NoDestination
  BY <1>1, <1>4, IdleType DEF Task
<1> HIDE DEF t, new
<1>6. Touches(voucher[Of(h)], new, task[h].request) /\ Shows(new, new.tripDestination, request)
  BY <1>4 DEF Touches, Shows
<1>7. t.pc = "idle" => ~Neglected(new)
  BY <1>5 DEF Neglected
<1> QED BY <1>1, <1>2, <1>3, <1>4, <1>5, <1>6, <1>7, WriteTended

LEMMA CommitTended ==
  ASSUME Tended, Sound', NEW h \in Handlers, CommitUpdate(h) PROVE Tended'
<1> DEFINE p == Asked(h)
           old == voucher[Of(h)]
           new == RowAfterUpdate(h, old)
           t == IF task[h].generate THEN [task[h] EXCEPT !.pc = "generate"] ELSE Idle
<1>1. task[h] \in Task /\ task[h].pc = "commit" /\ UNCHANGED <<request, gaveUp>>
  BY DEF CommitUpdate, Tended, Sound, TypeOK
<1>2. task' = [task EXCEPT ![h] = t]
  BY DEF CommitUpdate, Finish, Tended, Sound, TypeOK
<1>3. voucher' = [voucher EXCEPT ![Of(h)] = new]
  BY DEF CommitUpdate
<1>4. /\ task[h].request \in 1..issued /\ Of(h) \in Ids
      /\ Decided(task[h], old, request)
  BY <1>1, Ranges DEF Tended, HandlersDecided
<1>5. /\ new.itinerary = IF task[h].reset THEN NoItinerary ELSE old.itinerary
      /\ new.by = task[h].request
      /\ new.tripDestination = p.tripDestination
  <2>1. old \in Voucher
    BY <1>4 DEF Tended, Sound, TypeOK
  <2> QED BY <2>1 DEF RowAfterUpdate, Cleared, Voucher
<1>6. /\ t.pc \in {"idle", "generate"}
      /\ t.pc = "generate" => t.request = task[h].request
      /\ t.pc = "idle" => ~task[h].generate
  BY <1>1, IdleType DEF Task
<1>7. p = request[task[h].request].payload
  BY DEF Asked
<1> HIDE DEF t, new, p
<1>8. Touches(old, new, task[h].request) /\ Shows(new, new.tripDestination, request)
  BY <1>1, <1>4, <1>5, <1>7 DEF Touches, Decided, Shows, NoItinerary, Transaction
<1>9. t.pc = "idle" /\ Neglected(new) => Joined(task[h].request, request)
  BY <1>1, <1>4, <1>5, <1>6, <1>7 DEF Decided, Neglected, Transaction
<1> QED BY <1>1, <1>2, <1>3, <1>5, <1>6, <1>8, <1>9, WriteTended DEF p

LEMMA PersistTended ==
  ASSUME Tended, Sound', NEW h \in Handlers, persistVoucherItinerary(h) PROVE Tended'
<1> DEFINE v == Of(h)
           n == task[h].request
           i == [status |-> task[h].text, of |-> n]
<1>1. /\ task[h].pc = "save" /\ UNCHANGED <<request, gaveUp>>
      /\ task' = [task EXCEPT ![h] = Idle]
  BY DEF persistVoucherItinerary, Finish
<1>2. /\ n \in 1..issued /\ v \in Ids /\ DOMAIN request = 1..issued
      /\ Decided(task[h], voucher[v], request)
  BY <1>1, Ranges DEF Tended, HandlersDecided
<1>3. voucher[v].by # 0 /\ task[h].text # "none"
  BY <1>1 DEF Tended, Sound, HandlersFit, Fit
<1>4. voucher[v].by \in 1..issued
  BY <1>2, <1>3, Ranges DEF Live, Tended
<1>5. /\ voucher'[v] = [voucher[v] EXCEPT !.itinerary = i]
      /\ \A o \in Ids \ {v} : voucher'[o] = voucher[o]
  BY <1>2 DEF persistVoucherItinerary, Tended, Sound, TypeOK
<1>6. /\ voucher'[v].itinerary = i /\ voucher'[v].by = voucher[v].by
      /\ voucher'[v].tripDestination = voucher[v].tripDestination
  <2>1. voucher[v] \in Voucher
    BY <1>2 DEF Tended, Sound, TypeOK
  <2> QED BY <1>5, <2>1 DEF Voucher
<1>7. task'[h] = Idle /\ \A g \in Handlers \ {h} : task'[g] = task[g]
  BY <1>1 DEF Tended, Sound, TypeOK
<1>8. i.of = n /\ i.status # "none"
  BY <1>3
<1>9. /\ Suits(n, voucher[v].tripDestination, request)
      /\ voucher[v].by = n \/ Joined(voucher[v].by, request)
  BY <1>1, <1>2 DEF Decided, Serving
<1> HIDE DEF i, n, v
<1>10. /\ Touches(voucher[v], voucher'[v], n)
       /\ Shows(voucher'[v], voucher'[v].tripDestination, request')
  BY <1>1, <1>6, <1>8, <1>9 DEF Touches, Shows
<1>11. voucher'[v].by = n => ~Neglected(voucher'[v])
  BY <1>6, <1>8 DEF Neglected
<1>12. Neglected(voucher'[v]) => Joined(voucher'[v].by, request')
  BY <1>1, <1>6, <1>9, <1>11
<1>13. ASSUME NEW o \in Ids
       PROVE  \/ voucher'[o] = voucher[o]
              \/ /\ task[h].pc # "idle" /\ Of(h) = o
                 /\ Touches(voucher[o], voucher'[o], task[h].request)
                 /\ Shows(voucher'[o], voucher'[o].tripDestination, request')
                 /\ Neglected(voucher'[o]) => Attended(o)'
  <2>1. CASE o = v
    <3>1. Neglected(voucher'[o]) => Attended(o)'
      BY <1>12, <2>1 DEF Attended
    <3> QED BY <1>1, <1>10, <2>1, <3>1 DEF v, n
  <2>2. CASE o # v
    BY <1>5, <2>2
  <2> QED BY <2>1, <2>2
<1>14. Grows(request, request') /\ gaveUp \subseteq gaveUp'
  BY <1>1 DEF Grows
<1> QED BY <1>7, <1>11, <1>13, <1>14, IdleType, TendedStep DEF v, n

LEMMA TendedNext == Tended /\ [Next]_vars => Tended'
<1> SUFFICES ASSUME Tended, [Next]_vars PROVE Tended'
  OBVIOUS
<1>1. Sound'
  BY SoundStep DEF Tended
<1>2. ASSUME NEW h \in Handlers, NEW p \in Payload,
             createVoucher(h, p) \/ \E v \in Ids : updateVoucher(h, v, p)
      PROVE  Tended'
  BY <1>1, <1>2, RequestsTended
<1>3. ASSUME NEW h \in Handlers,
             \/ \E code \in PublicCodes : generateUniquePublicCode(h, code)
             \/ UpdateRow(h) \/ DeleteChildren(h)
             \/ \E text \in {"good", "poor"} : generateVoucherItinerary(h, text)
      PROVE  Tended'
  BY <1>1, <1>3, MovesTended
<1>4. ASSUME NEW h \in Handlers,
             \/ InsertVoucher(h) \/ CommitUpdate(h) \/ persistVoucherItinerary(h)
             \/ Conflict(h) \/ Abort(h)
      PROVE  Tended'
  BY <1>1, <1>4, InsertTended, CommitTended, PersistTended, EndsTended
<1>5. CASE UNCHANGED vars
  <2>1. UNCHANGED <<voucher, child, request, issued, gaveUp, task>>
    BY <1>5 DEF vars
  <2> QED
    BY <1>1, <2>1 DEF Tended, HandlersDecided, Together, ItinerariesSuit, RowsAttended,
                      Attended, Live, Of
<1> QED BY <1>2, <1>3, <1>4, <1>5 DEF Next

LEMMA AlwaysTended == Spec => []Tended
BY InitTended, TendedNext, PTL DEF Spec

\* Requests that follow each other never leave a voucher with the itinerary of
\* another destination: updateVoucher decides from a read before the lock and
\* persistVoucherItinerary does not look again, but only a request in flight
\* beside the one that generated it can make that wrong.
THEOREM StaleItinerariesOverlapped == Spec => []StaleItineraryOverlapped
<1>1. Tended => StaleItineraryOverlapped
  <2> SUFFICES ASSUME Tended, NEW v \in Live, voucher[v].itinerary.status # "none",
                      request[voucher[v].itinerary.of].payload.tripDestination
                        # voucher[v].tripDestination
               PROVE  Overlaps(voucher[v].itinerary.of)
    BY DEF StaleItineraryOverlapped
  <2>1. Suits(voucher[v].itinerary.of, voucher[v].tripDestination, request)
    BY DEF Tended, ItinerariesSuit, Shows
  <2> QED BY <2>1 DEF Suits, Joined, Beside, Overlaps
<1> QED BY <1>1, AlwaysTended, PTL

\* A voucher at rest with a destination lacks an itinerary, or keeps a poor one of
\* an earlier request, only when its last request failed to save one or had
\* company: shouldGenerateItinerary asks for it again at every save.
THEOREM ItinerariesAreRenewed == Spec => []ItineraryIsRenewed
<1>1. Tended => ItineraryIsRenewed
  <2> SUFFICES ASSUME Tended, NEW v \in Live, Busy(v) = {}, Neglected(voucher[v])
               PROVE  voucher[v].by \in gaveUp \/ Overlaps(voucher[v].by)
    BY DEF ItineraryIsRenewed, Neglected
  <2>1. Attended(v)
    BY DEF Tended, RowsAttended
  <2>2. ~ \E h \in Handlers : Serving(task[h]) /\ Of(h) = v
    BY DEF Busy, Serving
  <2> QED BY <2>1, <2>2 DEF Attended, Joined, Beside, Overlaps
<1> QED BY <1>1, AlwaysTended, PTL
=============================================================================
