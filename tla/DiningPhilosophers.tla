------------------------- MODULE DiningPhilosophers -------------------------
(***************************************************************************)
(* DiningPhilosophers/main.cpp: main forks one process per philosopher,    *)
(* waits for all of them and removes the named semaphores that serve as    *)
(* sticks.  Philosopher 0 takes its sticks in the opposite order.          *)
(* The semaphores outlive the processes: a run that is interrupted leaves  *)
(* them as they are, and the next run opens them with O_CREAT, which does  *)
(* not reset their values.  A stick that does not exist is represented by  *)
(* the value 1 that sem_open will create it with.                          *)
(***************************************************************************)
EXTENDS Integers

CONSTANTS
  N,            \* 5 in the code
  Rounds,       \* 10 in the code
  MaxLaunches,  \* bound: how often the program is run
  Mortal        \* bound: the philosophers that may be killed by a signal

ASSUME PhilosophersAssumption ==
  /\ N \in Nat /\ N >= 2
  /\ Rounds \in Nat \ {0}
  /\ MaxLaunches \in Nat
  /\ Mortal \subseteq 0 .. N - 1

Philosophers == 0 .. N - 1

VARIABLES
  sticks,    \* the value of each semaphore
  pc,        \* the next step of each philosopher
  round,     \* how often each has eaten
  killed,    \* the philosophers of this run that died of a signal
  main,      \* the next step of main
  children,  \* how many philosophers main has forked
  unlinked,  \* how many sticks main has removed
  launches,  \* how often the program has been run
  clean      \* history: this run found every stick free

vars == <<sticks, pc, round, killed, main, children, unlinked, launches, clean>>

Steps == {"unborn", "left", "right", "put_right", "put_left", "done"}

TypeOK ==
  /\ sticks \in [Philosophers -> Nat]
  /\ pc \in [Philosophers -> Steps]
  /\ round \in [Philosophers -> 0 .. Rounds]
  /\ killed \in SUBSET Philosophers
  /\ main \in {"off", "fork", "wait", "unlink", "failed"}
  /\ children \in 0 .. N
  /\ unlinked \in 0 .. N - 1
  /\ launches \in 0 .. MaxLaunches
  /\ clean \in BOOLEAN

Init ==
  /\ sticks = [s \in Philosophers |-> 1]
  /\ pc = [p \in Philosophers |-> "unborn"]
  /\ round = [p \in Philosophers |-> 0]
  /\ killed = {}
  /\ main = "off"
  /\ children = 0
  /\ unlinked = 0
  /\ launches = 0
  /\ clean = TRUE

AllFree == \A s \in Philosophers : sticks[s] = 1

Gone(p) == p \in killed \/ pc[p] \in {"unborn", "done"}
-----------------------------------------------------------------------------
(* main *)

\* The program is started, when no process of an earlier run is left.
Launch ==
  /\ main \in {"off", "failed"} /\ launches < MaxLaunches
  /\ \A p \in Philosophers : Gone(p)
  /\ launches' = launches + 1
  /\ main' = "fork"
  /\ children' = 0
  /\ unlinked' = 0
  /\ pc' = [p \in Philosophers |-> "unborn"]
  /\ round' = [p \in Philosophers |-> 0]
  /\ killed' = {}
  /\ clean' = AllFree
  /\ UNCHANGED sticks

Fork ==
  /\ main = "fork" /\ children < N
  /\ pc' = [pc EXCEPT ![children] = "left"]
  /\ children' = children + 1
  /\ main' = IF children' = N THEN "wait" ELSE "fork"
  /\ UNCHANGED <<sticks, round, killed, unlinked, launches, clean>>

\* main exits and leaves the children it has forked to themselves.
ForkFails ==
  /\ main = "fork"
  /\ main' = "failed"
  /\ UNCHANGED <<sticks, pc, round, killed, children, unlinked, launches, clean>>

WaitedForAny ==
  /\ main = "wait" /\ \E p \in Philosophers : Gone(p)
  /\ main' = "unlink"
  /\ UNCHANGED <<sticks, pc, round, killed, children, unlinked, launches, clean>>

\* waitpid has returned for every child.
Waited ==
  /\ main = "wait" /\ \A p \in Philosophers : Gone(p)
  /\ main' = "unlink"
  /\ UNCHANGED <<sticks, pc, round, killed, children, unlinked, launches, clean>>

Unlink ==
  /\ main = "unlink"
  /\ sticks' = [sticks EXCEPT ![unlinked] = 1]
  /\ unlinked' = IF unlinked = N - 1 THEN 0 ELSE unlinked + 1
  /\ main' = IF unlinked = N - 1 THEN "off" ELSE "unlink"
  /\ UNCHANGED <<pc, round, killed, children, launches, clean>>
-----------------------------------------------------------------------------
(* philosopher *)

Right(p) == (p + 1) % N

SwappedNever(p) == FALSE

\* std::swap(left, right)
Swapped(p) == p = 0

\* The sticks of philosopher p in the order in which it takes them.
First(p)  == IF Swapped(p) THEN Right(p) ELSE p
Second(p) == IF Swapped(p) THEN p ELSE Right(p)

Alive(p, step) == p \notin killed /\ pc[p] = step

SemWaitAlways(s) == sticks' = [sticks EXCEPT ![s] = 0]

SemWait(s) == sticks[s] > 0 /\ sticks' = [sticks EXCEPT ![s] = @ - 1]
SemPost(s) == sticks' = [sticks EXCEPT ![s] = @ + 1]

TakeFirst(p) ==
  /\ Alive(p, "left")
  /\ SemWait(First(p))
  /\ pc' = [pc EXCEPT ![p] = "right"]
  /\ UNCHANGED <<round, killed, main, children, unlinked, launches, clean>>

\* ... after which the philosopher eats.
TakeSecond(p) ==
  /\ Alive(p, "right")
  /\ SemWait(Second(p))
  /\ pc' = [pc EXCEPT ![p] = "put_right"]
  /\ UNCHANGED <<round, killed, main, children, unlinked, launches, clean>>

PutSecond(p) ==
  /\ Alive(p, "put_right")
  /\ SemPost(Second(p))
  /\ pc' = [pc EXCEPT ![p] = "put_left"]
  /\ UNCHANGED <<round, killed, main, children, unlinked, launches, clean>>

PutFirst(p) ==
  /\ Alive(p, "put_left")
  /\ SemPost(First(p))
  /\ round' = [round EXCEPT ![p] = @ + 1]
  /\ pc' = [pc EXCEPT ![p] = IF round[p] + 1 = Rounds THEN "done" ELSE "left"]
  /\ UNCHANGED <<killed, main, children, unlinked, launches, clean>>
-----------------------------------------------------------------------------
(* Failures. *)

\* One philosopher dies; what it holds stays taken.
Kill(p) ==
  /\ p \in Mortal /\ ~Gone(p)
  /\ killed' = killed \cup {p}
  /\ UNCHANGED <<sticks, pc, round, main, children, unlinked, launches, clean>>

\* The terminal's interrupt reaches main and all philosophers at once.
Interrupt ==
  /\ main # "off"
  /\ main' = "off"
  /\ killed' = {p \in Philosophers : pc[p] \notin {"unborn", "done"}}
  /\ UNCHANGED <<sticks, pc, round, children, unlinked, launches, clean>>
-----------------------------------------------------------------------------
Dine(p) == TakeFirst(p) \/ TakeSecond(p) \/ PutSecond(p) \/ PutFirst(p)

Main == Fork \/ Waited \/ Unlink

Next ==
  \/ Launch \/ Main \/ ForkFails \/ Interrupt
  \/ \E p \in Philosophers : Dine(p) \/ Kill(p)

Spec == Init /\ [][Next]_vars

\* The kernel schedules main and every philosopher.
FairSpec == Spec /\ WF_vars(Main) /\ \A p \in Philosophers : WF_vars(Dine(p))
-----------------------------------------------------------------------------
(* Properties. *)

Eats(p) == pc[p] = "put_right"

Uses(p) == {First(p), Second(p)}

\* Philosophers that share a stick never eat at the same time, whatever state
\* an earlier run left the sticks in.
NeighboursTakeTurns ==
  \A p, q \in Philosophers :
    Eats(p) /\ Eats(q) /\ p # q => Uses(p) \cap Uses(q) = {}

Hungry(p) ==
  \/ pc[p] = "left"  /\ sticks[First(p)] = 0
  \/ pc[p] = "right" /\ sticks[Second(p)] = 0

\* A run that found all sticks free and lost nobody never gets stuck: unless
\* everyone is done, somebody does not wait for a stick.
NoDeadlock ==
  clean /\ killed = {} =>
    \/ \A p \in Philosophers : Gone(p)
    \/ \E p \in Philosophers : ~Gone(p) /\ ~Hungry(p)

\* After such a run every stick is free again before main removes it, so not
\* even a run that is interrupted while it removes them spoils the next one.
NoStickIsLost == clean /\ killed = {} /\ main = "unlink" => AllFree

\* Once all philosophers are there, such a run ends.
RunsEnd ==
  main = "wait" /\ clean ~> main \in {"unlink", "off"} \/ killed # {}
-----------------------------------------------------------------------------
(* The inductive invariant. *)

\* The sticks philosopher p holds or died with.
Holds(p) ==
  CASE pc[p] \in {"right", "put_left"} -> {First(p)}
    [] pc[p] = "put_right"             -> Uses(p)
    [] OTHER                           -> {}

\* A stick somebody holds is taken, nobody else holds it, and in a clean run
\* no other is missing.
SticksMatchSteps ==
  /\ main \notin {"unlink", "off"} =>
       \A p \in Philosophers : \A s \in Holds(p) : sticks[s] = 0
  /\ \A p, q \in Philosophers : p # q => Holds(p) \cap Holds(q) = {}
  /\ \A s \in Philosophers : sticks[s] \in {0, 1}
  /\ clean => \A s \in Philosophers :
                sticks[s] = 0 => \E p \in Philosophers : s \in Holds(p)

ChildrenMatchSteps ==
  /\ \A p \in Philosophers : pc[p] = "unborn" <=> p >= children
  /\ \A p \in Philosophers : pc[p] # "done" => round[p] < Rounds
  /\ main = "fork" => children < N
  /\ main \in {"wait", "unlink"} => children = N
  /\ main = "unlink" => \A p \in Philosophers : Gone(p)
  /\ main = "off" => \A p \in Philosophers : Gone(p)

PInv == TypeOK /\ SticksMatchSteps /\ ChildrenMatchSteps
=============================================================================
