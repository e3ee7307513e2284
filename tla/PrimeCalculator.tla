--------------------------- MODULE PrimeCalculator ---------------------------
(***************************************************************************)
(* IPC-2: a parent that sends numbers m through a pipe and a child that    *)
(* sends back the m-th prime.  -1 is how the parent tells the child to     *)
(* exit, and a number like any other to its user.  Neither looks at what   *)
(* read and write return: when the other one is gone, read changes nothing *)
(* and write kills.                                                        *)
(***************************************************************************)
EXTENDS Integers, Sequences, FiniteSets

CONSTANTS
  Inputs,     \* the numbers a user types
  Garbage,    \* what an uninitialised int holds; none of the inputs or results
  MaxInputs,  \* bound: how many lines are typed
  Largest     \* bound of the search: the primes the inputs ask for are not larger

VARIABLES
  parent, child,     \* where each of them is
  toChild, toParent, \* the pipes
  m,                 \* the parent's m
  res,               \* the parent's res: what it prints
  arg,               \* the child's m
  answer,            \* the child's res
  typed,             \* how many lines have been typed
  alone              \* history: the child was gone when the parent read

vars == <<parent, child, toChild, toParent, m, res, arg, answer, typed, alone>>

Init ==
  /\ parent = "prompt" /\ child = "read"
  /\ toChild = << >> /\ toParent = << >>
  /\ m = Garbage /\ res = Garbage /\ arg = Garbage /\ answer = Garbage
  /\ typed = 0
  /\ alone = FALSE
-----------------------------------------------------------------------------
(* is_prime and calculate_mth_prime_number. *)

IsPrime(num) ==
  num > 1 /\ \A i \in 2 .. num : i * i <= num => num % i # 0

MthPrimeOneFurther(k) ==
  LET search[num \in 2 .. Largest + 1] ==
        [i \in Int |-> IF i > k \/ num > Largest THEN num - 1
                       ELSE search[num + 1][IF IsPrime(num) THEN i + 1 ELSE i]]
  IN  search[2][0]

\* The loop, from each num and i on: i counts primes, num is the next
\* candidate.
Search(k) ==
  LET search[num \in 2 .. Largest + 1] ==
        [i \in Int |-> IF i >= k \/ num > Largest THEN num - 1
                       ELSE search[num + 1][IF IsPrime(num) THEN i + 1 ELSE i]]
  IN  search

MthPrime(k) == Search(k)[2][0]
-----------------------------------------------------------------------------
(* The parent. *)

ParentGone == parent \in {"gone", "killed"}
ChildGone  == child \in {"gone", "killed"}

Type ==
  /\ parent = "prompt" /\ typed < MaxInputs
  /\ m' \in Inputs
  /\ parent' = "write" /\ typed' = typed + 1
  /\ UNCHANGED <<child, toChild, toParent, res, arg, answer, alone>>

\* "exit" sends -1 too and does not wait for an answer.
TypeExit ==
  /\ parent = "prompt" /\ parent' = "exit"
  /\ UNCHANGED <<child, toChild, toParent, m, res, arg, answer, typed, alone>>

\* A number that no int holds throws what nobody catches.  A line without a
\* number, and the end of the input, only lead back to the prompt.
TypeHuge ==
  /\ parent = "prompt" /\ parent' = "killed"
  /\ UNCHANGED <<child, toChild, toParent, m, res, arg, answer, typed, alone>>

WriteNumber(from, n, to) ==
  /\ parent = from
  /\ IF ChildGone THEN parent' = "killed" /\ UNCHANGED toChild
                  ELSE parent' = to /\ toChild' = Append(toChild, n)

WriteM ==
  /\ WriteNumber("write", m, "read")
  /\ UNCHANGED <<child, toParent, m, res, arg, answer, typed, alone>>

WriteExit ==
  /\ WriteNumber("exit", -1, "gone")
  /\ UNCHANGED <<child, toParent, m, res, arg, answer, typed, alone>>

\* res is a new variable in each round: nothing read leaves it uninitialised.
ReadResult ==
  /\ parent = "read" /\ parent' = "prompt"
  /\ \/ /\ toParent # << >>
        /\ res' = Head(toParent) /\ toParent' = Tail(toParent)
        /\ UNCHANGED alone
     \/ /\ toParent = << >> /\ ChildGone
        /\ res' = Garbage /\ alone' = TRUE
        /\ UNCHANGED toParent
  /\ UNCHANGED <<child, toChild, m, arg, answer, typed>>

KillParent ==
  /\ ~ParentGone /\ parent' = "killed"
  /\ UNCHANGED <<child, toChild, toParent, m, res, arg, answer, typed, alone>>
-----------------------------------------------------------------------------
(* The child. *)

Dispatch(n) == child' = IF n = -1 THEN "gone" ELSE "calculate"

\* After the parent's end m keeps what it held; uninitialised it may hold -1.
ReadM ==
  /\ child = "read"
  /\ \/ /\ toChild # << >>
        /\ arg' = Head(toChild) /\ toChild' = Tail(toChild)
        /\ Dispatch(arg')
     \/ /\ toChild = << >> /\ ParentGone
        /\ UNCHANGED <<arg, toChild>>
        /\ \/ child' = "calculate"
           \/ arg = Garbage /\ child' = "gone"
  /\ UNCHANGED <<parent, toParent, m, res, answer, typed, alone>>

Calculate ==
  /\ child = "calculate" /\ child' = "write"
  /\ answer' = IF arg = Garbage THEN Garbage ELSE MthPrime(arg)
  /\ UNCHANGED <<parent, toChild, toParent, m, res, arg, typed, alone>>

WriteResultToTheDead ==
  /\ child = "write" /\ child' = "read"
  /\ toParent' = IF ParentGone THEN toParent ELSE Append(toParent, answer)
  /\ UNCHANGED <<parent, toChild, m, res, arg, answer, typed, alone>>

WriteResult ==
  /\ child = "write"
  /\ IF ParentGone THEN child' = "killed" /\ UNCHANGED toParent
                   ELSE child' = "read" /\ toParent' = Append(toParent, answer)
  /\ UNCHANGED <<parent, toChild, m, res, arg, answer, typed, alone>>

KillChild ==
  /\ ~ChildGone /\ child' = "killed"
  /\ UNCHANGED <<parent, toChild, toParent, m, res, arg, answer, typed, alone>>

Parent == WriteM \/ WriteExit \/ ReadResult
Child  == ReadM \/ Calculate \/ WriteResult

Next == Type \/ TypeExit \/ TypeHuge \/ Parent \/ KillParent \/ Child \/ KillChild

\* The user and signals come when they like.
Fairness == WF_vars(Parent) /\ WF_vars(Child)

FairSpec == Init /\ [][Next]_vars /\ Fairness
-----------------------------------------------------------------------------
HasNoDivisor(p) == \A d \in 2 .. p - 1 : p % d # 0

IsKthPrime(p, k) ==
  HasNoDivisor(p) /\ Cardinality({q \in 2 .. p : HasNoDivisor(q)}) = k

\* The k-th prime by counting, and 1 for the k that have none.
Reference(k) == IF k < 1 THEN 1 ELSE CHOOSE p \in 2 .. Largest : IsKthPrime(p, k)

\* What the parent prints for a number is the prime it asked for, never the
\* answer to an earlier number - until the child is gone, which -1 is enough
\* for.
ResultsAreForTheAsked ==
  parent = "prompt" /\ typed > 0 /\ ~alone => m # -1 /\ res = Reference(m)

\* Whatever ends the parent, the child ends too.
ChildEndsWithParent == ParentGone ~> ChildGone
-----------------------------------------------------------------------------
(* An inductive invariant. *)

PrimeTypes ==
  /\ parent \in {"prompt", "write", "exit", "read", "gone", "killed"}
  /\ child \in {"read", "calculate", "write", "gone", "killed"}
  /\ typed \in Nat

\* Nothing is under way while the parent does not wait.
NothingUnderWay == toChild = << >> /\ toParent = << >> /\ child \notin {"calculate", "write"}

\* The number asked is in the pipe, or being worked on, or answered, or lost
\* with the child.
UnderWay ==
  \/ child = "read" /\ toChild = <<m>> /\ toParent = << >>
  \/ m # -1 /\ child = "calculate" /\ arg = m /\ toChild = << >> /\ toParent = << >>
  \/ m # -1 /\ child = "write" /\ answer = MthPrime(m) /\ toChild = << >> /\ toParent = << >>
  \/ m # -1 /\ child \in {"read", "gone", "killed"} /\ toChild = << >> /\ toParent = <<MthPrime(m)>>
  \/ ChildGone /\ toParent = << >>

AsksAndWaits ==
  ~ParentGone /\ ~alone =>
    /\ parent \in {"write", "read"} => m \in Inputs
    /\ IF parent = "read" THEN UnderWay ELSE NothingUnderWay
    /\ parent = "prompt" /\ typed > 0 => m # -1 /\ m \in Inputs /\ res = MthPrime(m)

PrimeInv == PrimeTypes /\ AsksAndWaits
=============================================================================
