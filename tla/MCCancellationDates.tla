-------------------------- MODULE MCCancellationDates --------------------------
(***************************************************************************)
(* CancellationDates on the calendar of 2023 and 2024.                     *)
(***************************************************************************)
EXTENDS CancellationDates

\* Month 0 is January 2023; February 2024, month 13, has 29 days.
Calendar2023 ==
  [m \in 0..26 |-> CASE m \in {3, 5, 8, 10, 15, 17, 20, 22} -> 30
                     [] m \in {1, 25} -> 28
                     [] m = 13 -> 29
                     [] OTHER -> 31]

\* Activated on any day of 2023.
Year2023 == 0..11
================================================================================
