----------------------------- MODULE MCRateLimit -----------------------------
(***************************************************************************)
(* Small instances of RateLimit for TLC.                                   *)
(***************************************************************************)
EXTENDS RateLimit, TLC

\* Processes, requests and keys play no role by name.
Symmetry ==
  Permutations(Processes) \cup Permutations(Requests) \cup Permutations(Keys)
==============================================================================
