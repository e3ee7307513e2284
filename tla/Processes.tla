------------------------------ MODULE Processes ------------------------------
(***************************************************************************)
(* Programs of several processes that have nothing to do with each other:  *)
(* which of them runs is chosen at the beginning, and the variables of the *)
(* others stay as they are.                                                *)
(***************************************************************************)
EXTENDS DiningPhilosophers

CONSTANTS
  Callers, Backlog,                      \* of IterativeServer
  Launches,                              \* of Smokers
  Writers, Readers, Size,                \* of SharedArray
  Inputs, Garbage, MaxInputs, Largest    \* of PrimeCalculator

\* first only writes and second only reads.
ASSUME ArrayAssumption == Size \in Nat /\ Writers \cap Readers = {}
ASSUME GarbageAssumption == Garbage \notin Inputs

VARIABLE program

VARIABLES answers, caller, asked, unread, backlog, serving, server, reply, printed
Servers == INSTANCE IterativeServer
serverVars == <<answers, caller, asked, unread, backlog, serving, server, reply, printed>>

VARIABLES named, value, mine, barman, step, smoker, opened, ordered, served, disturbed
Bar == INSTANCE Smokers
barVars == <<named, value, mine, barman, step, smoker, opened, ordered, served, disturbed>>

VARIABLES arr, sem, user, next, seen, jammed
Array == INSTANCE SharedArray
arrayVars == <<arr, sem, user, next, seen, jammed>>

VARIABLES parent, child, toChild, toParent, m, res, arg, answer, typed, alone
Primes == INSTANCE PrimeCalculator
primeVars == <<parent, child, toChild, toParent, m, res, arg, answer, typed, alone>>

\* The bound of the search is in nobody's way.
ASSUME LargestAssumption ==
  /\ Inputs \subseteq Int /\ Largest \in Nat \ {0}
  /\ \A k \in Inputs : k >= 1 => \E p \in 2 .. Largest : Primes!IsKthPrime(p, k)

ProcessesInit ==
  /\ program \in {"philosophers", "server", "smokers", "array", "primes"}
  /\ Init /\ Servers!Init /\ Bar!Init /\ Array!Init /\ Primes!Init
  /\ program # "server" => answers

ProcessesNext ==
  /\ UNCHANGED program
  /\ \/ /\ program = "philosophers" /\ Next
        /\ UNCHANGED <<serverVars, barVars, arrayVars, primeVars>>
     \/ /\ program = "server" /\ Servers!Next
        /\ UNCHANGED <<vars, barVars, arrayVars, primeVars>>
     \/ /\ program = "smokers" /\ Bar!Next
        /\ UNCHANGED <<vars, serverVars, arrayVars, primeVars>>
     \/ /\ program = "array" /\ Array!Next
        /\ UNCHANGED <<vars, serverVars, barVars, primeVars>>
     \/ /\ program = "primes" /\ Primes!Next
        /\ UNCHANGED <<vars, serverVars, barVars, arrayVars>>

allVars == <<vars, program, serverVars, barVars, arrayVars, primeVars>>

\* The fairness conditions of a program that does not run ask for nothing: none
\* of its steps they are about is possible in its initial state.
ProcessesSpec ==
  /\ ProcessesInit /\ [][ProcessesNext]_allVars
  /\ WF_vars(Main) /\ \A p \in Philosophers : WF_vars(Dine(p))
  /\ Servers!Fairness /\ Bar!Fairness /\ Array!Fairness /\ Primes!Fairness
-----------------------------------------------------------------------------
\* The properties of the instances; their modules say what they are about.

\* One client after the other is served unless a silent one holds the server.
ServedUnlessHeld == Servers!ServedUnlessHeld
\* A launch of the smokers serves one order, for tobacco.
OneOrderIsServed == Bar!OneOrderIsServed
\* Readers of the shared array see whole rounds.
NoTornRead == Array!NoTornRead
\* The shared array is had in turns until somebody is killed who has it.
TurnsUnlessKilledInside == Array!TurnsUnlessKilledInside
\* The prime printed is the one asked for.
ResultsAreForTheAsked == Primes!ResultsAreForTheAsked
\* The calculating child does not outlive its parent.
ChildEndsWithParent == Primes!ChildEndsWithParent
=============================================================================
