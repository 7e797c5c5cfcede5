-------------------------- MODULE MCPasswordChange --------------------------
(***************************************************************************)
(* A small instance of PasswordChange for TLC.                             *)
(***************************************************************************)
EXTENDS PasswordChange, TLC

\* Users, handlers, passwords and sessions play no role by name.
Symmetry == Permutations(Users) \cup Permutations(Handlers)
              \cup Permutations(Passwords) \cup Permutations(Sessions)
=============================================================================
