--------------------------- MODULE VoucherRegister ---------------------------
(***************************************************************************)
(* What the voucher service promises, whatever its requests do to each     *)
(* other: a register in which every creation and every update is one step  *)
(* that writes the whole of one request, under codes that nobody else has. *)
(* Vouchers implements it with transactions of several statements.         *)
(***************************************************************************)

CONSTANTS
  Ids,          \* numbers of vouchers
  Entry,        \* what one request, as a whole, may make of an entry
  Itinerary,    \* suggested itineraries
  NoItinerary,
  Absent        \* the voucher does not exist

VARIABLE register

Present == {v \in Ids : register[v] # Absent}

CodesAreFree(v, entry) ==
  \A o \in Present \ {v} : /\ register[o].reservationCode # entry.reservationCode
                           /\ register[o].publicCode # entry.publicCode

Init == register = [v \in Ids |-> Absent]

Create(v, entry) ==
  /\ v \notin Present
  /\ entry \in Entry /\ entry.itinerary = NoItinerary
  /\ CodesAreFree(v, entry)

\* The public code stays; the itinerary stays or goes.
Update(v, entry) ==
  /\ v \in Present
  /\ entry \in Entry
  /\ entry.publicCode = register[v].publicCode
  /\ entry.itinerary \in {register[v].itinerary, NoItinerary}
  /\ CodesAreFree(v, entry)

SaveItinerary(v, entry) ==
  /\ v \in Present
  /\ entry.itinerary \in Itinerary
  /\ entry = [register[v] EXCEPT !.itinerary = entry.itinerary]

\* One entry changes.
Next ==
  \E v \in Ids :
    LET entry == register'[v]
    IN  /\ entry # register[v]
        /\ register' = [register EXCEPT ![v] = entry]
        /\ Create(v, entry) \/ Update(v, entry) \/ SaveItinerary(v, entry)

Spec == Init /\ [][Next]_register
=============================================================================
