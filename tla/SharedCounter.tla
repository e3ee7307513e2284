---------------------------- MODULE SharedCounter ----------------------------
(***************************************************************************)
(* TH-SYNC: threads that add to one Integer, which a mutex protects in one *)
(* program and a semaphore in the other.  inner_value++ reads and writes   *)
(* in two steps.  main reads the value without the lock, after the joins.  *)
(* (The third program, with a spin lock, does not compile: it uses a       *)
(* member it does not declare.)                                            *)
(***************************************************************************)
EXTENDS Naturals, FiniteSets

CONSTANTS
  Threads,
  Rounds     \* how often each thread calls inc

VARIABLES
  guard,        \* "mutex" or "semaphore"
  mtx,          \* the threads that hold the mutex
  semaphore,    \* the value of the semaphore
  inner_value,
  inc,          \* for each thread its next step in inc, or "done"
  round,        \* its call, the i of increment
  loaded,       \* the value it has read
  final         \* what main prints, once it has joined all threads

vars == <<guard, mtx, semaphore, inner_value, inc, round, loaded, final>>

Unknown == Cardinality(Threads) * Rounds + 1

Init ==
  /\ guard \in {"mutex", "semaphore"}
  /\ mtx = {} /\ semaphore = 1 /\ inner_value = 0
  /\ inc = [t \in Threads |-> "unborn"]
  /\ round = [t \in Threads |-> 1]
  /\ loaded = [t \in Threads |-> 0]
  /\ final = Unknown

Step(t, from, to) == inc[t] = from /\ inc' = [inc EXCEPT ![t] = to]
-----------------------------------------------------------------------------
Create(t) ==
  /\ Step(t, "unborn", "enter")
  /\ UNCHANGED <<guard, mtx, semaphore, inner_value, round, loaded, final>>

MutexLock(t) ==
  /\ guard = "mutex" /\ mtx = {}
  /\ Step(t, "enter", "read")
  /\ mtx' = {t}
  /\ UNCHANGED <<guard, semaphore, inner_value, round, loaded, final>>

SemWait(t) ==
  /\ guard = "semaphore" /\ semaphore > 0
  /\ Step(t, "enter", "read")
  /\ semaphore' = semaphore - 1
  /\ UNCHANGED <<guard, mtx, inner_value, round, loaded, final>>

Read(t) ==
  /\ Step(t, "read", "write")
  /\ loaded' = [loaded EXCEPT ![t] = inner_value]
  /\ UNCHANGED <<guard, mtx, semaphore, inner_value, round, final>>

Write(t) ==
  /\ Step(t, "write", "leave")
  /\ inner_value' = loaded[t] + 1
  /\ UNCHANGED <<guard, mtx, semaphore, round, loaded, final>>

Call(t) ==
  /\ round' = [round EXCEPT ![t] = @ + 1]
  /\ Step(t, "leave", IF round[t] = Rounds THEN "done" ELSE "enter")
  /\ UNCHANGED <<guard, inner_value, loaded, final>>

MutexUnlock(t) ==
  /\ guard = "mutex" /\ Call(t)
  /\ mtx' = {} /\ UNCHANGED semaphore

SemPostTwice(t) ==
  /\ guard = "semaphore" /\ Call(t)
  /\ semaphore' = semaphore + 2 /\ UNCHANGED mtx

SemPost(t) ==
  /\ guard = "semaphore" /\ Call(t)
  /\ semaphore' = semaphore + 1 /\ UNCHANGED mtx

\* After the joins.
PrintValue ==
  /\ \A t \in Threads : inc[t] = "done"
  /\ final = Unknown /\ final' = inner_value
  /\ UNCHANGED <<guard, mtx, semaphore, inner_value, inc, round, loaded>>

Next ==
  \/ \E t \in Threads :
       \/ Create(t) \/ MutexLock(t) \/ SemWait(t)
       \/ Read(t) \/ Write(t)
       \/ MutexUnlock(t) \/ SemPost(t)
  \/ PrintValue

Spec == Init /\ [][Next]_vars
-----------------------------------------------------------------------------
\* "Final value: 500000", as the notes beside the programs say of their fifty
\* threads and ten thousand rounds: no increment is lost under either lock.
NothingIsLost == final \in {Unknown, Cardinality(Threads) * Rounds}
-----------------------------------------------------------------------------
(* The inductive invariant. *)

CounterTypes ==
  /\ guard \in {"mutex", "semaphore"}
  /\ inner_value \in Nat /\ loaded \in [Threads -> Nat]
  /\ inc \in [Threads -> {"unborn", "enter", "read", "write", "leave", "done"}]
  /\ round \in [Threads -> 1 .. Rounds + 1]

Inside(t) == inc[t] \in {"read", "write", "leave"}

\* One thread at most is inside, and either lock knows whether there is one.
OneInside ==
  /\ \A t, u \in Threads : Inside(t) /\ Inside(u) => t = u
  /\ guard = "mutex" => mtx = {t \in Threads : Inside(t)}
  /\ guard = "semaphore" =>
       semaphore = IF \E t \in Threads : Inside(t) THEN 0 ELSE 1

\* The calls that have written their increment.
Counted ==
  {c \in Threads \X (1 .. Rounds) :
     \/ c[2] < round[c[1]]
     \/ c[2] = round[c[1]] /\ inc[c[1]] = "leave"}

\* The value is the number of those calls, nobody is about to write an old one,
\* and a thread ends with its last call.
ValueIsCount ==
  /\ inner_value = Cardinality(Counted)
  /\ \A t \in Threads : inc[t] = "write" => loaded[t] = inner_value
  /\ \A t \in Threads : inc[t] = "done" <=> round[t] = Rounds + 1

CInv == CounterTypes /\ OneInside /\ ValueIsCount /\ NothingIsLost
=============================================================================
