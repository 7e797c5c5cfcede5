------------------------------- MODULE MCSignup -------------------------------
(***************************************************************************)
(* A small instance of Signup for TLC.                                     *)
(***************************************************************************)
EXTENDS Signup, TLC

\* Two names that share texts: Foo, and Foo 2.
FooTexts ==
  [n \in Names |-> IF n = "foo" THEN <<"foo", "foo-2", "foo-3", "foo-4">>
                   ELSE <<"foo-2", "foo-2-2", "foo-2-3", "foo-2-4">>]
FooSlugs == UNION {{FooTexts[n][k] : k \in 1..4} : n \in Names}

\* Nothing depends on which e-mail, document or handler it is.
Symmetry == UNION {Permutations(Handlers), Permutations(Emails), Permutations(Documents)}
===============================================================================
