---------------------------- MODULE ArraySummary -----------------------------
(***************************************************************************)
(* TH-1: M threads sum up the parts of an array of N elements; main adds   *)
(* up their results in the order of its joins.  What the elements are does *)
(* not matter here: a sum is the bag of the indices that went into it.     *)
(***************************************************************************)
EXTENDS Naturals

CONSTANTS MaxN, MaxM       \* bounds: the arguments of the program

VARIABLES
  n, m,         \* its arguments
  main,         \* "divide", "create", "join", "printed", or "crashed"
  i,            \* the index of main's loops
  from, upto,   \* for each thread the part it is given: start and end
  at,           \* the element it adds next
  running,      \* the threads that have been created
  result,       \* for each thread how often it has added each element
  total         \* how often each has gone into multi_thread_sum

vars == <<n, m, main, i, from, upto, at, running, result, total>>

Nothing == [e \in 0 .. MaxN - 1 |-> 0]
Workers == 0 .. MaxM - 1

Init ==
  /\ n \in 0 .. MaxN /\ m \in 0 .. MaxM
  /\ main = "divide" /\ i = 0
  /\ from = [w \in Workers |-> 0] /\ upto = [w \in Workers |-> 0]
  /\ at = [w \in Workers |-> 0]
  /\ running = {}
  /\ result = [w \in Workers |-> Nothing]
  /\ total = Nothing
-----------------------------------------------------------------------------
PartialSize == n \div m

EndAlways(k) == (k + 1) * PartialSize

End(k) == IF k = m - 1 THEN n ELSE (k + 1) * PartialSize

\* N / M kills the program when M is 0.
Divide ==
  /\ main = "divide"
  /\ main' = IF m = 0 THEN "crashed" ELSE "create"
  /\ UNCHANGED <<n, m, i, from, upto, at, running, result, total>>

Create ==
  /\ main = "create"
  /\ from' = [from EXCEPT ![i] = i * PartialSize]
  /\ upto' = [upto EXCEPT ![i] = End(i)]
  /\ at' = [at EXCEPT ![i] = i * PartialSize]
  /\ running' = running \cup {i}
  /\ IF i + 1 = m THEN main' = "join" /\ i' = 0
                  ELSE main' = main /\ i' = i + 1
  /\ UNCHANGED <<n, m, result, total>>

\* One turn of partial_sum.
Add(w) ==
  /\ w \in running /\ at[w] < upto[w]
  /\ result' = [result EXCEPT ![w][at[w]] = @ + 1]
  /\ at' = [at EXCEPT ![w] = @ + 1]
  /\ UNCHANGED <<n, m, main, i, from, upto, running, total>>

\* pthread_join waits for the thread's last turn.
Join ==
  /\ main = "join" /\ at[i] >= upto[i]
  /\ total' = [e \in DOMAIN total |-> total[e] + result[i][e]]
  /\ IF i + 1 = m THEN main' = "printed" /\ i' = i
                  ELSE main' = main /\ i' = i + 1
  /\ UNCHANGED <<n, m, from, upto, at, running, result>>

Next == Divide \/ Create \/ (\E w \in Workers : Add(w)) \/ Join

Spec == Init /\ [][Next]_vars
-----------------------------------------------------------------------------
\* The sum that is printed has every element of the array in it exactly once,
\* also when M does not divide N and when there are more threads than elements.
SummedOnce ==
  main = "printed" => total = [e \in 0 .. MaxN - 1 |-> IF e < n THEN 1 ELSE 0]
-----------------------------------------------------------------------------
(* The inductive invariant. *)

SumTypes ==
  /\ n \in 0 .. MaxN /\ m \in 0 .. MaxM
  /\ main \in {"divide", "create", "join", "printed", "crashed"}
  /\ i \in Nat /\ running \subseteq Workers
  /\ upto \in [Workers -> Nat] /\ at \in [Workers -> Nat]
  /\ result \in [Workers -> [0 .. MaxN - 1 -> Nat]]
  /\ total \in [0 .. MaxN - 1 -> Nat]

\* The elements from lo up to, and without, hi, each of them once.
Once(lo, hi) == [e \in 0 .. MaxN - 1 |-> IF lo <= e /\ e < hi THEN 1 ELSE 0]

\* Every thread has added what lies between the start of its part and the
\* element it adds next, each element once.
PartsAreSummed ==
  /\ \A w \in Workers \ running : result[w] = Nothing
  /\ \A w \in running :
       /\ w < m /\ upto[w] = End(w)
       /\ w * PartialSize <= at[w] /\ at[w] <= End(w)
       /\ result[w] = Once(w * PartialSize, at[w])

\* main has added what the threads it has joined were given.
MainKnowsItsPlace ==
  /\ main = "divide" => i = 0
  /\ main \in {"divide", "create"} => running = 0 .. i - 1 /\ total = Nothing
  /\ main \in {"create", "join"} => i < m
  /\ main = "join" => running = 0 .. m - 1 /\ total = Once(0, i * PartialSize)
  /\ main = "printed" => total = Once(0, n)

SumInv == SumTypes /\ PartsAreSummed /\ MainKnowsItsPlace
=============================================================================
