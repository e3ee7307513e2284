----------------------------- MODULE SharedArray -----------------------------
(***************************************************************************)
(* IPC-3: a writer (first.cpp) and a reader (second.cpp) of an array in    *)
(* shared memory, under a named semaphore.  Both outlive the processes:    *)
(* the constructor opens what is there, and nobody removes it.             *)
(***************************************************************************)
EXTENDS Naturals

CONSTANTS
  Writers, Readers,  \* processes that run first and second
  Size               \* array_size

Users == Writers \cup Readers

VARIABLES
  arr,    \* for each index whether the writer's value has reached it: until
          \* then it is 0, and every round writes the same values again
  sem,    \* the value of the semaphore
  user,   \* for each process where its main is
  next,   \* the index it works on
  seen,   \* history: what a reader has read in this round
  jammed  \* history: a process was killed between lock and unlock

vars == <<arr, sem, user, next, seen, jammed>>

Init ==
  /\ arr = [i \in 0 .. Size - 1 |-> FALSE]
  /\ sem = 1
  /\ user = [p \in Users |-> "start"]
  /\ next = [p \in Users |-> 0]
  /\ seen = [p \in Users |-> {}]
  /\ jammed = FALSE

Step(p, from, to) == user[p] = from /\ user' = [user EXCEPT ![p] = to]
-----------------------------------------------------------------------------
\* shared_array::shared_array.  O_CREAT resets neither the object nor the
\* semaphore of an earlier process.
Start(p) ==
  /\ Step(p, "start", "lock")
  /\ UNCHANGED <<arr, sem, next, seen, jammed>>

Lock(p) ==
  /\ Step(p, "lock", "inside")
  /\ sem > 0 /\ sem' = sem - 1
  /\ next' = [next EXCEPT ![p] = 0] /\ seen' = [seen EXCEPT ![p] = {}]
  /\ UNCHANGED <<arr, jammed>>

\* operator[]
Access(p, i) == IF i >= Size THEN 0 ELSE i

Write(p) ==
  /\ p \in Writers /\ user[p] = "inside" /\ next[p] < Size
  /\ arr' = [arr EXCEPT ![Access(p, next[p])] = TRUE]
  /\ next' = [next EXCEPT ![p] = @ + 1]
  /\ UNCHANGED <<sem, user, seen, jammed>>

Read(p) ==
  /\ p \in Readers /\ user[p] = "inside" /\ next[p] < Size
  /\ seen' = [seen EXCEPT ![p] = @ \cup {arr[Access(p, next[p])]}]
  /\ next' = [next EXCEPT ![p] = @ + 1]
  /\ UNCHANGED <<arr, sem, user, jammed>>

UnlockByReaderOnly(p) ==
  /\ Step(p, "inside", "lock")
  /\ next[p] = Size /\ sem' = IF p \in Readers THEN sem + 1 ELSE sem
  /\ UNCHANGED <<arr, next, seen, jammed>>

UnlockEarly(p) ==
  /\ Step(p, "inside", "lock")
  /\ next[p] > 0 /\ sem' = sem + 1
  /\ UNCHANGED <<arr, next, seen, jammed>>

Unlock(p) ==
  /\ Step(p, "inside", "lock")
  /\ next[p] = Size /\ sem' = sem + 1
  /\ UNCHANGED <<arr, next, seen, jammed>>

\* The loops never end: only a signal ends a process, and it may start again.
Kill(p) ==
  /\ user[p] \in {"lock", "inside"} /\ user' = [user EXCEPT ![p] = "start"]
  /\ jammed' = (jammed \/ user[p] = "inside")
  /\ UNCHANGED <<arr, sem, next, seen>>

Work(p) == Lock(p) \/ Write(p) \/ Read(p) \/ Unlock(p)

Next == \E p \in Users : Start(p) \/ Work(p) \/ Kill(p)

\* Each process sleeps two seconds before it comes back to the semaphore, so
\* one that waits meanwhile is woken in time again and again.
Fairness == \A p \in Users : WF_vars(Work(p)) /\ SF_vars(Lock(p))

FairSpec == Init /\ [][Next]_vars /\ Fairness
-----------------------------------------------------------------------------
\* A reader sees what a whole round has written, or nothing of it, whoever
\* was killed before and wherever.
NoTornRead == \A p \in Readers : seen[p] # BOOLEAN

\* Whoever waits for the array gets it, again and again, unless a process has
\* been killed while it had it; then nobody ever gets it again.
TurnsUnlessKilledInside ==
  /\ \A p \in Users : user[p] = "lock" ~> user[p] # "lock" \/ jammed
  /\ [][jammed => \A p \in Users : user'[p] = "inside" => user[p] = "inside"]_vars
-----------------------------------------------------------------------------
(* The inductive invariant. *)

ArrayTypes ==
  /\ arr \in [0 .. Size - 1 -> BOOLEAN]
  /\ sem \in {0, 1}
  /\ user \in [Users -> {"start", "lock", "inside"}]
  /\ next \in [Users -> 0 .. Size]
  /\ seen \in [Users -> SUBSET BOOLEAN]

\* One process has the array, and then the semaphore is taken.  It may also be
\* taken when nobody has it: after a process was killed that did.
OneHasTheArray ==
  /\ \A p \in Users : user[p] = "inside" => sem = 0
  /\ \A p, q \in Users : user[p] = "inside" /\ user[q] = "inside" => p = q

Uniform == \A i, j \in DOMAIN arr : arr[i] = arr[j]

\* Only a writer that has the array, or was killed while it had it, leaves a
\* part of a round in it.
RoundsAreWhole ==
  /\ sem = 1 => Uniform
  /\ \A p \in Writers : user[p] = "inside" => \A i \in 0 .. next[p] - 1 : arr[i]
  /\ \A p \in Readers : user[p] = "inside" =>
       Uniform /\ \A i \in DOMAIN arr : seen[p] \subseteq {arr[i]}

ArrayInv == ArrayTypes /\ OneHasTheArray /\ RoundsAreWhole /\ NoTornRead
=============================================================================
