----------------------------- MODULE MCVouchers -----------------------------
(***************************************************************************)
(* Small instances of Vouchers for TLC.                                    *)
(***************************************************************************)
EXTENDS Vouchers, TLC

\* Payloads with nothing but flights, and with a tour and a hotel as well.
SomeChildren == {{}, {"tours", "hotel"}}

\* Handlers, destinations and codes play no role by name.
Symmetry ==
  UNION {Permutations(Handlers), Permutations(Destinations),
         Permutations(Codes), Permutations(PublicCodes)}
=============================================================================
