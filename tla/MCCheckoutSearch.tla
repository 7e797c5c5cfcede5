-------------------------- MODULE MCCheckoutSearch --------------------------
(***************************************************************************)
(* A small instance of CheckoutSearch for TLC.                             *)
(***************************************************************************)
EXTENDS CheckoutSearch
=============================================================================
