------------------------- MODULE MCParallelScheduler -------------------------
(***************************************************************************)
(* Instances of ParallelScheduler for TLC.                                 *)
(***************************************************************************)
EXTENDS ParallelScheduler

CONSTANTS t1, t2, t3, w1, w2, w3

\* Main hands over t1 and t2; t1 hands over t3 while it runs.
Spawning == [t \in Tasks |-> IF t = t3 THEN t1 ELSE Main]
=============================================================================
