----------------------------- MODULE MCProcesses -----------------------------
(***************************************************************************)
(* The instance of Processes that is model-checked.                        *)
(***************************************************************************)
EXTENDS Processes

\* What is typed into the prime calculator: numbers that have a prime, zero,
\* which has none, and negative ones, with the -1 that ends the child.
TypedNumbers == {-2, -1, 0, 1, 2, 4, 6}
=============================================================================
