--------------------------- MODULE ProcessesProofs ---------------------------
(***************************************************************************)
(* Theorems about the programs of Processes, for every value of their      *)
(* constants: DiningPhilosophers with any number of philosophers from two  *)
(* on, any number of rounds, runs, deaths and interrupts, SharedArray with *)
(* any size of the array and any number of writers and readers, and        *)
(* PrimeCalculator with any inputs and any number of lines.                *)
(***************************************************************************)
EXTENDS Processes, Sequences, FiniteSetTheorems, WellFoundedInduction, TLAPS

(***************************************************************************)
(* The dining philosophers.                                                *)
(***************************************************************************)

\* The stick to the right is a stick, and not the one to the left.
LEMMA RightIsStick ==
  ASSUME NEW p \in Philosophers
  PROVE  /\ Right(p) \in Philosophers /\ Right(p) # p
         /\ Right(p) = IF p = N - 1 THEN 0 ELSE p + 1
<1>1. p \in Int /\ N \in Int /\ 0 <= p /\ p <= N - 1 /\ N >= 2
  BY PhilosophersAssumption DEF Philosophers
<1>2. CASE p = N - 1
  <2>1. (p + 1) % N = 0
    BY <1>1, <1>2
  <2> QED
    BY <1>1, <1>2, <2>1 DEF Right, Philosophers
<1>3. CASE p # N - 1
  <2>1. (p + 1) % N = p + 1
    BY <1>1, <1>3
  <2> QED
    BY <1>1, <1>3, <2>1 DEF Right, Philosophers
<1> QED
  BY <1>2, <1>3

\* A philosopher's two sticks are different sticks.
LEMMA TwoSticks ==
  ASSUME NEW p \in Philosophers
  PROVE  /\ First(p) \in Philosophers /\ Second(p) \in Philosophers
         /\ First(p) # Second(p) /\ Uses(p) = {p, Right(p)}
BY RightIsStick DEF First, Second, Swapped, Uses

\* What a philosopher holds are sticks it uses.
LEMMA HoldsSticks ==
  ASSUME NEW p \in Philosophers
  PROVE  Holds(p) \subseteq Uses(p) /\ Holds(p) \subseteq Philosophers
BY TwoSticks DEF Holds, Uses

LEMMA PhilosophersStart == Init => PInv
<1> SUFFICES ASSUME Init PROVE PInv
  OBVIOUS
<1>1. TypeOK
  BY PhilosophersAssumption DEF Init, TypeOK, Steps, Philosophers
<1>2. SticksMatchSteps
  BY DEF Init, SticksMatchSteps, Holds
<1>3. ChildrenMatchSteps
  BY PhilosophersAssumption DEF Init, ChildrenMatchSteps, Gone, Philosophers
<1> QED
  BY <1>1, <1>2, <1>3 DEF PInv

\* A semaphore operation on an existing stick leaves it a natural number.
LEMMA SemaphoresStayNatural ==
  ASSUME TypeOK, NEW s \in Philosophers, SemWait(s) \/ SemPost(s)
  PROVE  sticks' \in [Philosophers -> Nat]
<1>1. sticks[s] \in Nat
  BY DEF TypeOK
<1>2. CASE SemWait(s)
  <2>1. sticks[s] - 1 \in Nat
    BY <1>1, <1>2 DEF SemWait
  <2> QED
    BY <1>2, <2>1 DEF SemWait, TypeOK
<1>3. CASE SemPost(s)
  <2>1. sticks[s] + 1 \in Nat
    BY <1>1
  <2> QED
    BY <1>3, <2>1 DEF SemPost, TypeOK
<1> QED
  BY <1>2, <1>3

\* Every step keeps the types.
LEMMA StepKeepsType ==
  ASSUME PInv, [Next]_vars
  PROVE  TypeOK'
<1> USE DEF PInv, TypeOK, Steps
<1>1. CASE Launch
  <2>1. /\ launches + 1 \in 0 .. MaxLaunches
        /\ 0 \in 0 .. N /\ 0 \in 0 .. N - 1 /\ 0 \in 0 .. Rounds
    BY <1>1, PhilosophersAssumption DEF Launch
  <2>2. AllFree \in BOOLEAN
    BY DEF AllFree
  <2> QED
    BY <1>1, <2>1, <2>2 DEF Launch
<1>2. CASE Fork
  <2>1. children + 1 \in 0 .. N
    BY <1>2, PhilosophersAssumption DEF Fork
  <2> QED
    BY <1>2, <2>1 DEF Fork
<1>3. CASE ForkFails \/ Waited \/ Interrupt
  BY <1>3 DEF ForkFails, Waited, Interrupt
<1>4. CASE Unlink
  <2>1. unlinked' \in 0 .. N - 1
    <3>1. unlinked = N - 1 \/ unlinked + 1 \in 0 .. N - 1
      BY PhilosophersAssumption
    <3>2. 0 \in 0 .. N - 1
      BY PhilosophersAssumption
    <3> QED
      BY <1>4, <3>1, <3>2 DEF Unlink
  <2>2. sticks' \in [Philosophers -> Nat]
    BY <1>4 DEF Unlink
  <2>3. main' \in {"off", "unlink"}
    BY <1>4 DEF Unlink
  <2> QED
    BY <1>4, <2>1, <2>2, <2>3 DEF Unlink
<1>5. ASSUME NEW p \in Philosophers, TakeFirst(p) \/ TakeSecond(p) \/ PutSecond(p)
      PROVE  TypeOK'
  <2>1. sticks' \in [Philosophers -> Nat]
    BY <1>5, TwoSticks, SemaphoresStayNatural DEF TakeFirst, TakeSecond, PutSecond
  <2> QED
    BY <1>5, <2>1 DEF TakeFirst, TakeSecond, PutSecond
<1>6. ASSUME NEW p \in Philosophers, PutFirst(p)
      PROVE  TypeOK'
  <2>1. sticks' \in [Philosophers -> Nat]
    BY <1>6, TwoSticks, SemaphoresStayNatural DEF PutFirst
  <2>2. round[p] < Rounds
    BY <1>6 DEF PutFirst, Alive, ChildrenMatchSteps
  <2>3. round[p] + 1 \in 0 .. Rounds
    BY <2>2, PhilosophersAssumption
  <2> QED
    BY <1>6, <2>1, <2>3 DEF PutFirst
<1>7. ASSUME NEW p \in Philosophers, Kill(p)
      PROVE  TypeOK'
  BY <1>7 DEF Kill
<1>8. CASE UNCHANGED vars
  BY <1>8 DEF vars
<1> QED
  BY <1>1, <1>2, <1>3, <1>4, <1>5, <1>6, <1>7, <1>8 DEF Next, Main, Dine

\* main's counters, the rounds and the deaths agree with everybody's steps.
LEMMA StepKeepsChildren ==
  ASSUME PInv, [Next]_vars
  PROVE  ChildrenMatchSteps'
<1>t. TypeOK /\ ChildrenMatchSteps
  BY DEF PInv
<1>n. \A p \in Philosophers : p \in Int /\ 0 <= p /\ p < N
  BY PhilosophersAssumption DEF Philosophers
<1> USE PhilosophersAssumption DEF ChildrenMatchSteps, Gone
<1>1. CASE Launch
  BY <1>1, <1>t, <1>n DEF Launch, TypeOK
<1>2. CASE Fork
  <2>1. children \in Philosophers /\ children < N /\ children \in Int
    BY <1>2, <1>t DEF Fork, TypeOK, Philosophers
  <2>2. pc' = [pc EXCEPT ![children] = "left"] /\ children' = children + 1
    BY <1>2 DEF Fork
  <2>3. \A p \in Philosophers : pc'[p] = "unborn" <=> p >= children'
    <3> SUFFICES ASSUME NEW p \in Philosophers
                 PROVE  pc'[p] = "unborn" <=> p >= children'
      OBVIOUS
    <3>1. p \in Int /\ (p >= children + 1 <=> p >= children /\ p # children)
      BY <1>n, <2>1
    <3>2. pc'[p] = IF p = children THEN "left" ELSE pc[p]
      BY <2>2, <1>t DEF TypeOK
    <3> QED
      BY <3>1, <3>2, <2>2, <1>t
  <2>4. \A p \in Philosophers : pc'[p] # "done" => round'[p] < Rounds
    <3>1. pc[children] # "done"
      BY <2>1, <1>t
    <3> QED
      BY <1>2, <1>t, <2>1, <2>2, <3>1 DEF Fork, TypeOK
  <2>5. main' = "fork" => children' < N
    BY <1>2, <2>1, <2>2, <1>t DEF Fork
  <2>6. main' = "wait" => children' = N
    BY <1>2 DEF Fork
  <2>7. main' \in {"wait", "fork"}
    BY <1>2 DEF Fork
  <2> QED
    BY <2>3, <2>4, <2>5, <2>6, <2>7
<1>3. CASE ForkFails
  BY <1>3, <1>t DEF ForkFails, TypeOK
<1>w. CASE Waited
  BY <1>w, <1>t DEF Waited, TypeOK
<1>4. CASE Interrupt
  BY <1>4, <1>t DEF Interrupt, TypeOK
<1>5. CASE Unlink
  BY <1>5, <1>t DEF Unlink, TypeOK
<1>6. ASSUME NEW p \in Philosophers, TakeFirst(p) \/ TakeSecond(p) \/ PutSecond(p)
      PROVE  ChildrenMatchSteps'
  BY <1>6, <1>t DEF TakeFirst, TakeSecond, PutSecond, Alive, TypeOK
<1>7. ASSUME NEW p \in Philosophers, PutFirst(p)
      PROVE  ChildrenMatchSteps'
  BY <1>7, <1>t DEF PutFirst, Alive, TypeOK
<1>8. ASSUME NEW p \in Philosophers, Kill(p)
      PROVE  ChildrenMatchSteps'
  BY <1>8, <1>t DEF Kill, TypeOK
<1>9. CASE UNCHANGED vars
  BY <1>9, <1>t DEF vars
<1> QED
  BY <1>1, <1>2, <1>3, <1>w, <1>4, <1>5, <1>6, <1>7, <1>8, <1>9 DEF Next, Main, Dine

\* Whatever the philosophers do, a stick is held by whoever took it.
LEMMA StepKeepsSticks ==
  ASSUME PInv, [Next]_vars
  PROVE  SticksMatchSteps'
<1>t. TypeOK /\ SticksMatchSteps /\ ChildrenMatchSteps
  BY DEF PInv
<1>1. CASE Launch
  <2>1. \A p \in Philosophers : Holds(p)' = {}
    BY <1>1 DEF Launch, Holds
  <2>2. sticks' = sticks /\ clean' = AllFree
    BY <1>1 DEF Launch
  <2> QED
    BY <1>t, <2>1, <2>2 DEF SticksMatchSteps, AllFree
<1>2. CASE Fork
  <2>1. \A p \in Philosophers : Holds(p)' = Holds(p)
    <3>1. children \in Philosophers
      BY <1>2, <1>t, PhilosophersAssumption DEF Fork, TypeOK, Philosophers
    <3>2. pc[children] = "unborn"
      BY <3>1, <1>t, PhilosophersAssumption DEF ChildrenMatchSteps, TypeOK
    <3> QED
      BY <1>2, <1>t, <3>1, <3>2 DEF Fork, Holds, TypeOK
  <2> QED
    BY <1>2, <1>t, <2>1 DEF Fork, SticksMatchSteps
<1>3. CASE ForkFails \/ Interrupt
  BY <1>3, <1>t DEF ForkFails, Interrupt, SticksMatchSteps, Holds
<1>4. CASE Waited
  BY <1>4, <1>t DEF Waited, SticksMatchSteps, Holds
<1>5. CASE Unlink
  BY <1>5, <1>t DEF Unlink, SticksMatchSteps, Holds, TypeOK
<1>6. ASSUME NEW p \in Philosophers, NEW s \in Philosophers, SemWait(s), ~Gone(p),
             Holds(p)' = Holds(p) \cup {s},
             \A q \in Philosophers \ {p} : Holds(q)' = Holds(q),
             UNCHANGED <<main, clean>>
      PROVE  SticksMatchSteps'
  <2>1. main \notin {"unlink", "off"}
    BY <1>6, <1>t DEF ChildrenMatchSteps
  <2>2. sticks[s] = 1 /\ sticks' = [sticks EXCEPT ![s] = 0]
    <3>1. sticks[s] \in {0, 1} /\ sticks[s] > 0
      BY <1>6, <1>t DEF SticksMatchSteps, SemWait
    <3>2. sticks[s] = 1 /\ sticks[s] - 1 = 0
      BY <3>1
    <3>3. sticks' = [sticks EXCEPT ![s] = sticks[s] - 1]
      BY <1>6 DEF SemWait
    <3> QED
      BY <3>2, <3>3
  <2>3. \A q \in Philosophers : s \notin Holds(q)
    BY <1>t, <2>1, <2>2 DEF SticksMatchSteps
  <2>4. sticks' = [sticks EXCEPT ![s] = 0] /\ sticks \in [Philosophers -> Nat]
    BY <2>2, <1>t DEF TypeOK
  <2>5. \A q \in Philosophers : \A t \in Holds(q)' : sticks'[t] = 0
    <3> SUFFICES ASSUME NEW q \in Philosophers, NEW t \in Holds(q)'
                 PROVE  sticks'[t] = 0
      OBVIOUS
    <3>1. t = s \/ t \in Holds(q)
      BY <1>6
    <3>2. CASE t = s
      BY <3>2, <2>4
    <3>3. CASE t \in Holds(q)
      BY <3>3, <1>t, <2>1, <2>4, HoldsSticks DEF SticksMatchSteps
    <3> QED
      BY <3>1, <3>2, <3>3
  <2>6. \A q, r \in Philosophers : q # r => Holds(q)' \cap Holds(r)' = {}
    <3> SUFFICES ASSUME NEW q \in Philosophers, NEW r \in Philosophers, q # r
                 PROVE  Holds(q)' \cap Holds(r)' = {}
      OBVIOUS
    <3>1. Holds(q) \cap Holds(r) = {}
      BY <1>t DEF SticksMatchSteps
    <3>2. Holds(q)' \subseteq Holds(q) \cup (IF q = p THEN {s} ELSE {})
      BY <1>6
    <3>3. Holds(r)' \subseteq Holds(r) \cup (IF r = p THEN {s} ELSE {})
      BY <1>6
    <3> QED
      BY <3>1, <3>2, <3>3, <2>3
  <2>7. \A t \in Philosophers : sticks'[t] \in {0, 1}
    BY <2>4, <1>t DEF SticksMatchSteps
  <2>8. clean' => \A t \in Philosophers :
                    sticks'[t] = 0 => \E q \in Philosophers : t \in Holds(q)'
    <3> SUFFICES ASSUME clean, NEW t \in Philosophers, sticks'[t] = 0
                 PROVE  \E q \in Philosophers : t \in Holds(q)'
      BY <1>6
    <3>1. CASE t = s
      BY <3>1, <1>6
    <3>2. CASE t # s
      <4>1. PICK q \in Philosophers : t \in Holds(q)
        BY <3>2, <2>4, <1>t DEF SticksMatchSteps
      <4>2. t \in Holds(q)'
        BY <4>1, <1>6
      <4> QED
        BY <4>2
    <3> QED
      BY <3>1, <3>2
  <2> QED
    BY <2>5, <2>6, <2>7, <2>8 DEF SticksMatchSteps
<1>7. ASSUME NEW p \in Philosophers, NEW s \in Philosophers, SemPost(s), ~Gone(p),
             s \in Holds(p), Holds(p)' = Holds(p) \ {s},
             \A q \in Philosophers \ {p} : Holds(q)' = Holds(q),
             UNCHANGED <<main, clean>>
      PROVE  SticksMatchSteps'
  <2>1. main \notin {"unlink", "off"}
    BY <1>7, <1>t DEF ChildrenMatchSteps
  <2>2. sticks[s] = 0 /\ sticks' = [sticks EXCEPT ![s] = 1]
    <3>1. sticks[s] = 0
      BY <1>7, <1>t, <2>1 DEF SticksMatchSteps
    <3>2. sticks[s] + 1 = 1
      BY <3>1
    <3>3. sticks' = [sticks EXCEPT ![s] = sticks[s] + 1]
      BY <1>7 DEF SemPost
    <3> QED
      BY <3>1, <3>2, <3>3
  <2>3. \A q \in Philosophers \ {p} : s \notin Holds(q)
    BY <1>7, <1>t DEF SticksMatchSteps
  <2>4. sticks' = [sticks EXCEPT ![s] = 1] /\ sticks \in [Philosophers -> Nat]
    BY <2>2, <1>t DEF TypeOK
  <2>5. \A q \in Philosophers : \A t \in Holds(q)' : sticks'[t] = 0
    <3> SUFFICES ASSUME NEW q \in Philosophers, NEW t \in Holds(q)'
                 PROVE  sticks'[t] = 0
      OBVIOUS
    <3>1. t \in Holds(q) /\ t # s
      BY <1>7, <2>3
    <3> QED
      BY <3>1, <1>t, <2>1, <2>4, HoldsSticks DEF SticksMatchSteps
  <2>6. \A q, r \in Philosophers : q # r => Holds(q)' \cap Holds(r)' = {}
    <3> SUFFICES ASSUME NEW q \in Philosophers, NEW r \in Philosophers, q # r
                 PROVE  Holds(q)' \cap Holds(r)' = {}
      OBVIOUS
    <3>1. Holds(q) \cap Holds(r) = {}
      BY <1>t DEF SticksMatchSteps
    <3>2. Holds(q)' \subseteq Holds(q) /\ Holds(r)' \subseteq Holds(r)
      BY <1>7
    <3> QED
      BY <3>1, <3>2
  <2>7. \A t \in Philosophers : sticks'[t] \in {0, 1}
    BY <2>4, <1>t DEF SticksMatchSteps
  <2>8. clean' => \A t \in Philosophers :
                    sticks'[t] = 0 => \E q \in Philosophers : t \in Holds(q)'
    <3> SUFFICES ASSUME clean, NEW t \in Philosophers, sticks'[t] = 0
                 PROVE  \E q \in Philosophers : t \in Holds(q)'
      BY <1>7
    <3>1. t # s /\ sticks[t] = 0
      BY <2>4
    <3>2. PICK q \in Philosophers : t \in Holds(q)
      BY <3>1, <1>t DEF SticksMatchSteps
    <3>3. t \in Holds(q)'
      BY <3>1, <3>2, <1>7
    <3> QED
      BY <3>3
  <2> QED
    BY <2>5, <2>6, <2>7, <2>8 DEF SticksMatchSteps
<1>8. ASSUME NEW p \in Philosophers, TakeFirst(p)
      PROVE  SticksMatchSteps'
  <2>1. Holds(p)' = Holds(p) \cup {First(p)} /\ ~Gone(p)
    BY <1>8, <1>t DEF TakeFirst, Alive, Holds, Gone, TypeOK
  <2>2. \A q \in Philosophers \ {p} : Holds(q)' = Holds(q)
    BY <1>8, <1>t DEF TakeFirst, Holds, TypeOK
  <2> QED
    BY <1>6, <1>8, <2>1, <2>2, TwoSticks DEF TakeFirst
<1>9. ASSUME NEW p \in Philosophers, TakeSecond(p)
      PROVE  SticksMatchSteps'
  <2>1. Holds(p)' = Holds(p) \cup {Second(p)} /\ ~Gone(p)
    BY <1>9, <1>t DEF TakeSecond, Alive, Holds, Uses, Gone, TypeOK
  <2>2. \A q \in Philosophers \ {p} : Holds(q)' = Holds(q)
    BY <1>9, <1>t DEF TakeSecond, Holds, TypeOK
  <2> QED
    BY <1>6, <1>9, <2>1, <2>2, TwoSticks DEF TakeSecond
<1>10. ASSUME NEW p \in Philosophers, PutSecond(p)
      PROVE  SticksMatchSteps'
  <2>1. Holds(p)' = Holds(p) \ {Second(p)} /\ Second(p) \in Holds(p) /\ ~Gone(p)
    BY <1>10, <1>t, TwoSticks DEF PutSecond, Alive, Holds, Uses, Gone, TypeOK
  <2>2. \A q \in Philosophers \ {p} : Holds(q)' = Holds(q)
    BY <1>10, <1>t DEF PutSecond, Holds, TypeOK
  <2> QED
    BY <1>7, <1>10, <2>1, <2>2, TwoSticks DEF PutSecond
<1>11. ASSUME NEW p \in Philosophers, PutFirst(p)
      PROVE  SticksMatchSteps'
  <2>1. Holds(p)' = Holds(p) \ {First(p)} /\ First(p) \in Holds(p) /\ ~Gone(p)
    BY <1>11, <1>t DEF PutFirst, Alive, Holds, Gone, TypeOK
  <2>2. \A q \in Philosophers \ {p} : Holds(q)' = Holds(q)
    BY <1>11, <1>t DEF PutFirst, Holds, TypeOK
  <2> QED
    BY <1>7, <1>11, <2>1, <2>2, TwoSticks DEF PutFirst
<1>12. ASSUME NEW p \in Philosophers, Kill(p)
      PROVE  SticksMatchSteps'
  BY <1>12, <1>t DEF Kill, SticksMatchSteps, Holds
<1>13. CASE UNCHANGED vars
  BY <1>13, <1>t DEF vars, SticksMatchSteps, Holds
<1> QED
  BY <1>1, <1>2, <1>3, <1>4, <1>5, <1>8, <1>9, <1>10, <1>11, <1>12, <1>13
     DEF Next, Main, Dine

\* The inductive invariant: a stick that somebody holds is taken and nobody else
\* holds it; in a run that started clean no other stick is missing.
THEOREM PhilosophersInductive == Spec => []PInv
<1>1. PInv /\ [Next]_vars => PInv'
  BY StepKeepsType, StepKeepsSticks, StepKeepsChildren DEF PInv
<1> QED
  BY PhilosophersStart, <1>1, PTL DEF Spec

\* Philosophers that share a stick never eat at the same time, whatever the
\* interrupted runs before left behind.
THEOREM TakeTurns == Spec => []NeighboursTakeTurns
<1>1. PInv => NeighboursTakeTurns
  <2> SUFFICES ASSUME PInv, NEW p \in Philosophers, NEW q \in Philosophers,
                      Eats(p), Eats(q), p # q
               PROVE  Uses(p) \cap Uses(q) = {}
    BY DEF NeighboursTakeTurns
  <2>1. Holds(p) = Uses(p) /\ Holds(q) = Uses(q)
    BY DEF Holds, Eats
  <2> QED
    BY <2>1 DEF PInv, SticksMatchSteps
<1> QED
  BY PhilosophersInductive, <1>1, PTL

\* A clean run in which nobody dies has put every stick back when main starts to
\* remove them.
THEOREM SticksComeBack == Spec => []NoStickIsLost
<1>1. PInv => NoStickIsLost
  <2> SUFFICES ASSUME PInv, clean, killed = {}, main = "unlink"
               PROVE  AllFree
    BY DEF NoStickIsLost
  <2>1. \A p \in Philosophers : Holds(p) = {}
    BY DEF PInv, ChildrenMatchSteps, Gone, Holds
  <2> QED
    BY <2>1 DEF PInv, SticksMatchSteps, AllFree
<1> QED
  BY PhilosophersInductive, <1>1, PTL
-----------------------------------------------------------------------------
(* Freedom from deadlock: order the sticks 1, 2, ..., N - 1, 0. *)

Rank(s) == IF s = 0 THEN N ELSE s

Wanted(p) == IF pc[p] = "left" THEN First(p) ELSE Second(p)

\* Every philosopher takes its sticks in that order: this is what swapping the
\* sticks of philosopher 0 is for.
LEMMA TakenInOrder ==
  ASSUME NEW p \in Philosophers
  PROVE  /\ Rank(First(p)) \in 1 .. N /\ Rank(Second(p)) \in 1 .. N
         /\ Rank(First(p)) < Rank(Second(p))
<1>1. p \in Int /\ N \in Int /\ 0 <= p /\ p <= N - 1 /\ N >= 2
  BY PhilosophersAssumption DEF Philosophers
<1>2. Right(p) = IF p = N - 1 THEN 0 ELSE p + 1
  BY RightIsStick
<1>3. CASE p = 0
  <2>1. Right(p) = 1
    BY <1>1, <1>2, <1>3
  <2>2. First(p) = 1 /\ Second(p) = 0
    BY <2>1, <1>3 DEF First, Second, Swapped
  <2> QED
    BY <1>1, <2>2 DEF Rank
<1>4. CASE p # 0
  <2>1. First(p) = p /\ Second(p) = Right(p)
    BY <1>4 DEF First, Second, Swapped
  <2>2. CASE p = N - 1
    BY <1>1, <1>2, <1>4, <2>1, <2>2 DEF Rank
  <2>3. CASE p # N - 1
    BY <1>1, <1>2, <1>4, <2>1, <2>3 DEF Rank
  <2> QED
    BY <2>2, <2>3
<1> QED
  BY <1>3, <1>4

\* Where everybody starves, whoever holds the stick that p wants starves for a
\* stick of a higher rank.
LEMMA HungerGoesUp ==
  ASSUME PInv, clean, killed = {},
         \A q \in Philosophers : Gone(q) \/ Hungry(q),
         NEW p \in Philosophers, ~Gone(p)
  PROVE  \E q \in Philosophers : ~Gone(q) /\ Rank(Wanted(p)) < Rank(Wanted(q))
<1>1. Hungry(p) /\ Wanted(p) \in Philosophers /\ sticks[Wanted(p)] = 0
  BY TwoSticks DEF Hungry, Wanted
<1>2. PICK q \in Philosophers : Wanted(p) \in Holds(q)
  BY <1>1 DEF PInv, SticksMatchSteps
<1>3. pc[q] \in {"right", "put_left", "put_right"}
  BY <1>2 DEF Holds
<1>4. ~Gone(q)
  BY <1>3 DEF Gone
<1>5. pc[q] = "right"
  BY <1>3, <1>4 DEF Hungry
<1>6. Wanted(p) = First(q) /\ Wanted(q) = Second(q)
  BY <1>2, <1>5 DEF Holds, Wanted
<1> QED
  BY <1>4, <1>6, TakenInOrder

\* Philosophers who found all sticks free and stay alive never all starve.
THEOREM DeadlockFree == Spec => []NoDeadlock
<1>1. PInv => NoDeadlock
  <2> SUFFICES ASSUME PInv, ~NoDeadlock PROVE FALSE
    OBVIOUS
  <2>1. /\ clean /\ killed = {}
        /\ \A q \in Philosophers : Gone(q) \/ Hungry(q)
    BY DEF NoDeadlock
  <2> DEFINE T == {n \in Nat : \E p \in Philosophers :
                                ~Gone(p) /\ n = N - Rank(Wanted(p))}
  <2>2. ASSUME NEW p \in Philosophers
        PROVE  N - Rank(Wanted(p)) \in Nat /\ Rank(Wanted(p)) \in Nat
    BY TakenInOrder, PhilosophersAssumption DEF Wanted
  <2>3. T # {}
    <3>1. PICK p \in Philosophers : ~Gone(p)
      BY DEF NoDeadlock
    <3> QED
      BY <2>2, <3>1
  <2>4. PICK n \in T : \A k \in T : ~(k < n)
    <3> DEFINE Below == {x \in Nat \X Nat : x[1] < x[2]}
    <3>1. IsWellFoundedOn(Below, Nat)
      BY NatLessThanWellFounded DEF OpToRel
    <3>2. T \subseteq Nat
      OBVIOUS
    <3> HIDE DEF T
    <3>3. PICK n \in T : \A k \in T : ~(<<k, n>> \in Below)
      <4> HIDE DEF Below
      <4> QED
        BY <2>3, <3>1, <3>2, WFMin
    <3> QED
      BY <3>2, <3>3
  <2>5. PICK p \in Philosophers : ~Gone(p) /\ n = N - Rank(Wanted(p))
    OBVIOUS
  <2>6. PICK q \in Philosophers : ~Gone(q) /\ Rank(Wanted(p)) < Rank(Wanted(q))
    BY <2>1, <2>5, HungerGoesUp
  <2>7. N - Rank(Wanted(q)) \in Nat /\ N - Rank(Wanted(q)) < n
    BY <2>2, <2>5, <2>6, PhilosophersAssumption
  <2>8. N - Rank(Wanted(q)) \in T
    BY <2>6, <2>7
  <2> QED
    BY <2>4, <2>7, <2>8
<1> QED
  BY PhilosophersInductive, <1>1, PTL
-----------------------------------------------------------------------------
(***************************************************************************)
(* The shared array.                                                       *)
(***************************************************************************)

LEMMA ArrayStart == Array!Init => Array!ArrayInv
<1> SUFFICES ASSUME Array!Init PROVE Array!ArrayInv
  OBVIOUS
<1> USE DEF Array!Init
<1>1. Array!ArrayTypes
  BY ArrayAssumption DEF Array!ArrayTypes
<1>2. Array!OneHasTheArray
  BY DEF Array!OneHasTheArray
<1>3. Array!RoundsAreWhole
  BY DEF Array!RoundsAreWhole, Array!Uniform, Array!Users
<1>4. Array!NoTornRead
  BY DEF Array!NoTornRead, Array!Users
<1> QED
  BY <1>1, <1>2, <1>3, <1>4 DEF Array!ArrayInv

\* The writers and the readers stay within the bounds of the array.
LEMMA AccessInBounds ==
  ASSUME Array!ArrayTypes, NEW p \in Array!Users, next[p] < Size
  PROVE  /\ next[p] \in 0 .. Size - 1 /\ next[p] + 1 \in 0 .. Size
         /\ Array!Access(p, next[p]) = next[p]
BY ArrayAssumption DEF Array!ArrayTypes, Array!Access

LEMMA ArrayStepKeepsTypes ==
  ASSUME Array!ArrayInv, [Array!Next]_arrayVars
  PROVE  Array!ArrayTypes'
<1> USE ArrayAssumption
        DEF Array!ArrayInv, Array!ArrayTypes, Array!OneHasTheArray, Array!Users
<1>1. ASSUME NEW p \in Array!Users, Array!Start(p) \/ Array!Kill(p)
      PROVE  Array!ArrayTypes'
  BY <1>1 DEF Array!Start, Array!Kill, Array!Step
<1>2. ASSUME NEW p \in Array!Users, Array!Lock(p)
      PROVE  Array!ArrayTypes'
  BY <1>2 DEF Array!Lock, Array!Step
<1>3. ASSUME NEW p \in Array!Users, Array!Write(p)
      PROVE  Array!ArrayTypes'
  BY <1>3, AccessInBounds DEF Array!Write
<1>4. ASSUME NEW p \in Array!Users, Array!Read(p)
      PROVE  Array!ArrayTypes'
  BY <1>4, AccessInBounds DEF Array!Read
<1>5. ASSUME NEW p \in Array!Users, Array!Unlock(p)
      PROVE  Array!ArrayTypes'
  BY <1>5 DEF Array!Unlock, Array!Step
<1>6. CASE UNCHANGED arrayVars
  BY <1>6 DEF arrayVars
<1> QED
  BY <1>1, <1>2, <1>3, <1>4, <1>5, <1>6 DEF Array!Next, Array!Work

\* The semaphore lets in one process, and only that one gives it back.
LEMMA ArrayStepKeepsTurns ==
  ASSUME Array!ArrayInv, [Array!Next]_arrayVars
  PROVE  Array!OneHasTheArray'
<1> USE DEF Array!ArrayInv, Array!ArrayTypes, Array!OneHasTheArray, Array!Step
<1>1. ASSUME NEW p \in Array!Users, Array!Start(p) \/ Array!Kill(p)
      PROVE  Array!OneHasTheArray'
  BY <1>1 DEF Array!Start, Array!Kill
<1>2. ASSUME NEW p \in Array!Users, Array!Lock(p)
      PROVE  Array!OneHasTheArray'
  BY <1>2 DEF Array!Lock
<1>3. ASSUME NEW p \in Array!Users, Array!Write(p) \/ Array!Read(p)
      PROVE  Array!OneHasTheArray'
  BY <1>3 DEF Array!Write, Array!Read
<1>4. ASSUME NEW p \in Array!Users, Array!Unlock(p)
      PROVE  Array!OneHasTheArray'
  BY <1>4 DEF Array!Unlock
<1>5. CASE UNCHANGED arrayVars
  BY <1>5 DEF arrayVars
<1> QED
  BY <1>1, <1>2, <1>3, <1>4, <1>5 DEF Array!Next, Array!Work

\* A writer that gives the array back has written all of it, and while a reader
\* has it nobody writes.
LEMMA ArrayStepKeepsRounds ==
  ASSUME Array!ArrayInv, [Array!Next]_arrayVars
  PROVE  Array!RoundsAreWhole' /\ Array!NoTornRead'
<1> USE DEF Array!ArrayInv, Array!ArrayTypes, Array!RoundsAreWhole, Array!NoTornRead,
            Array!Uniform, Array!Users
<1>1. ASSUME NEW p \in Array!Users, Array!Start(p) \/ Array!Kill(p)
      PROVE  Array!RoundsAreWhole' /\ Array!NoTornRead'
  BY <1>1 DEF Array!Start, Array!Kill, Array!Step
<1>2. ASSUME NEW p \in Array!Users, Array!Lock(p)
      PROVE  Array!RoundsAreWhole' /\ Array!NoTornRead'
  <2>1. /\ sem = 1 /\ sem' = 0 /\ arr' = arr
        /\ next'[p] = 0 /\ seen'[p] = {}
        /\ \A q \in Array!Users : q # p =>
             user'[q] = user[q] /\ next'[q] = next[q] /\ seen'[q] = seen[q]
    BY <1>2 DEF Array!Lock, Array!Step
  <2>2. \A q \in Array!Users : user'[q] = "inside" => q = p
    BY <2>1 DEF Array!OneHasTheArray
  <2>3. \A k \in 0 .. next'[p] - 1 : arr'[k]
    BY <2>1
  <2> QED
    BY <2>1, <2>2, <2>3
<1>3. ASSUME NEW p \in Array!Users, Array!Write(p)
      PROVE  Array!RoundsAreWhole' /\ Array!NoTornRead'
  <2>1. sem = 0 /\ \A q \in Array!Users : user[q] = "inside" => q = p
    BY <1>3 DEF Array!Write, Array!OneHasTheArray
  <2>2. /\ next[p] \in DOMAIN arr
        /\ arr' = [arr EXCEPT ![next[p]] = TRUE]
        /\ next'[p] = next[p] + 1
    BY <1>3, AccessInBounds DEF Array!Write
  <2>3. \A k \in 0 .. next'[p] - 1 : arr'[k]
    BY <1>3, <2>2 DEF Array!Write
  <2>4. p \notin Readers /\ UNCHANGED <<sem, user, seen>>
    BY <1>3, ArrayAssumption DEF Array!Write
  <2>5. sem' = 0 /\ \A q \in Array!Users : user'[q] = "inside" => q = p
    BY <2>1, <2>4
  <2> QED
    BY <2>3, <2>4, <2>5
<1>4. ASSUME NEW p \in Array!Users, Array!Read(p)
      PROVE  Array!RoundsAreWhole' /\ Array!NoTornRead'
  <2>1. /\ next[p] \in DOMAIN arr
        /\ seen'[p] = seen[p] \cup {arr[next[p]]}
        /\ \A q \in Array!Users : q # p => seen'[q] = seen[q] /\ next'[q] = next[q]
    BY <1>4, AccessInBounds DEF Array!Read
  <2>2. \A k \in DOMAIN arr : seen'[p] \subseteq {arr[k]}
    BY <1>4, <2>1 DEF Array!Read
  <2>3. seen'[p] # BOOLEAN
    BY <2>1, <2>2
  <2> QED
    BY <1>4, <2>1, <2>2, <2>3, ArrayAssumption DEF Array!Read
<1>5. ASSUME NEW p \in Array!Users, Array!Unlock(p)
      PROVE  Array!RoundsAreWhole' /\ Array!NoTornRead'
  <2>1. CASE p \in Writers
    BY <1>5, <2>1 DEF Array!Unlock, Array!Step
  <2>2. CASE p \in Readers
    BY <1>5, <2>2 DEF Array!Unlock, Array!Step
  <2> QED
    BY <2>1, <2>2
<1>6. CASE UNCHANGED arrayVars
  BY <1>6 DEF arrayVars
<1> QED
  BY <1>1, <1>2, <1>3, <1>4, <1>5, <1>6 DEF Array!Next, Array!Work

\* One process at a time has the array, and what it finds there is a whole
\* round: the invariant the next theorem rests on.
THEOREM ArrayInductive ==
  ProcessesSpec => []Array!ArrayInv
<1>1. ProcessesInit => Array!ArrayInv
  BY ArrayStart DEF ProcessesInit
<1>2. Array!ArrayInv /\ [ProcessesNext]_allVars => Array!ArrayInv'
  <2>1. [ProcessesNext]_allVars => [Array!Next]_arrayVars
    BY DEF ProcessesNext, allVars, arrayVars
  <2> QED
    BY <2>1, ArrayStepKeepsTypes, ArrayStepKeepsTurns, ArrayStepKeepsRounds
    DEF Array!ArrayInv
<1> QED
  BY <1>1, <1>2, PTL DEF ProcessesSpec

\* IPC-3: no reader sees a part of a round, however many writers and readers
\* there are, whatever the length of the array, and whoever is killed where.
THEOREM ReadersSeeWholeRounds ==
  ProcessesSpec => []NoTornRead
<1>1. Array!ArrayInv => NoTornRead
  BY DEF Array!ArrayInv, NoTornRead
<1> QED
  BY <1>1, ArrayInductive, PTL

(***************************************************************************)
(* The prime calculator.                                                   *)
(***************************************************************************)

\* Every set of numbers that has one has a smallest one.
LEMMA SmallestNumber ==
  ASSUME NEW T, T \subseteq Nat, T # {}
  PROVE  \E x \in T : \A y \in T : ~(y < x)
<1> DEFINE Below == {p \in Nat \X Nat : p[1] < p[2]}
<1>1. IsWellFoundedOn(Below, Nat)
  BY NatLessThanWellFounded DEF OpToRel
<1>2. PICK x \in T : \A y \in T : ~(<<y, x>> \in Below)
  <2> HIDE DEF Below
  <2> QED
    BY <1>1, WFMin
<1> QED
  BY <1>2

\* Trying the divisors up to the root is enough.
LEMMA RootIsEnough ==
  ASSUME NEW x \in Nat, x >= 2
  PROVE  Primes!IsPrime(x) <=> Primes!HasNoDivisor(x)
<1>1. ASSUME Primes!HasNoDivisor(x), NEW d \in 2 .. x, d * d <= x
      PROVE  x % d # 0
  <2>1. d \in Nat /\ d >= 2 /\ d < d * d
    OBVIOUS
  <2>2. d \in 2 .. x - 1
    BY <1>1, <2>1
  <2> QED
    BY <1>1, <2>2 DEF Primes!HasNoDivisor
<1>2. ASSUME Primes!IsPrime(x), NEW d \in 2 .. x - 1, x % d = 0
      PROVE  FALSE
  <2>1. PICK e \in Int : x = d * e
    BY <1>2
  <2>2. e >= 2 /\ e < x
    <3>1. e > 0
      BY <2>1
    <3>2. e # 1
      BY <2>1
    <3>3. e < d * e
      BY <3>1
    <3> QED
      BY <2>1, <3>1, <3>2, <3>3
  <2>3. d * d > x
    BY <1>2 DEF Primes!IsPrime
  <2>4. d > e
    BY <2>1, <2>2, <2>3
  <2>5. e * e <= x
    BY <2>1, <2>2, <2>4
  <2>6. x % e = 0
    BY <2>1, <2>2
  <2> QED
    BY <1>2, <2>2, <2>5, <2>6 DEF Primes!IsPrime
<1>3. ASSUME Primes!HasNoDivisor(x) PROVE Primes!IsPrime(x)
  BY <1>1, <1>3 DEF Primes!IsPrime
<1>4. ASSUME Primes!IsPrime(x) PROVE Primes!HasNoDivisor(x)
  BY <1>2, <1>4 DEF Primes!HasNoDivisor
<1> QED
  BY <1>3, <1>4

\* There is a function that searches: the recursive definition means something.
LEMMA SearchExists ==
  ASSUME NEW k \in Int, Largest \in Nat \ {0}, NEW d \in 0 .. Largest - 1
  PROVE  \E g : g = [x \in Largest + 1 - d .. Largest + 1 |->
                       [c \in Int |-> IF c >= k \/ x > Largest THEN x - 1
                                      ELSE g[x + 1][IF Primes!IsPrime(x) THEN c + 1 ELSE c]]]
<1> DEFINE Row(g, x) == [c \in Int |-> IF c >= k \/ x > Largest THEN x - 1
                                       ELSE g[x + 1][IF Primes!IsPrime(x) THEN c + 1 ELSE c]]
           Searches(g, e) == g = [x \in Largest + 1 - e .. Largest + 1 |-> Row(g, x)]
           T == {e \in Nat : e <= Largest - 1 /\ ~(\E g : Searches(g, e))}
<1> SUFFICES ASSUME ~(\E g : Searches(g, d)) PROVE FALSE
  OBVIOUS
<1>1. d \in T
  OBVIOUS
<1>2. PICK e \in T : \A y \in T : ~(y < e)
  <2>1. T \subseteq Nat
    OBVIOUS
  <2> HIDE DEF T
  <2> QED
    BY <1>1, <2>1, SmallestNumber
<1>3. e \in Nat /\ e <= Largest - 1 /\ ~(\E g : Searches(g, e))
  OBVIOUS
<1>4. CASE e = 0
  <2> DEFINE h == [x \in Largest + 1 .. Largest + 1 |-> [c \in Int |-> x - 1]]
  <2>1. \A x \in Largest + 1 .. Largest + 1 : Row(h, x) = [c \in Int |-> x - 1]
    OBVIOUS
  <2>2. Searches(h, 0)
    <3> HIDE DEF Row
    <3> QED
      BY <2>1
  <2> QED
    BY <1>3, <1>4, <2>2
<1>5. CASE e > 0
  <2>1. e - 1 \in Nat /\ e - 1 <= Largest - 1 /\ e - 1 \notin T
    <3> HIDE DEF T
    <3> QED
      BY <1>2, <1>3, <1>5
  <2>2. PICK g : Searches(g, e - 1)
    BY <2>1
  <2> DEFINE first == Largest + 1 - e
             h == [x \in first .. Largest + 1 |-> IF x = first THEN Row(g, x) ELSE g[x]]
  <2>3. first \in Nat /\ first <= Largest /\ Largest + 1 - (e - 1) = first + 1
    BY <1>3, <1>5
  <2>4. ASSUME NEW x \in first .. Largest
        PROVE  h[x + 1] = g[x + 1]
    BY <2>3
  <2>5. ASSUME NEW x \in first .. Largest + 1
        PROVE  Row(h, x) = Row(g, x)
    <3>1. CASE x <= Largest
      <4>1. h[x + 1] = g[x + 1]
        BY <2>3, <2>4, <3>1
      <4> HIDE DEF h
      <4> QED
        BY <4>1
    <3>2. CASE x > Largest
      <4> HIDE DEF h
      <4> QED
        BY <2>3, <3>2
    <3> QED
      BY <2>3, <3>1, <3>2
  <2>6. ASSUME NEW x \in first .. Largest + 1
        PROVE  h[x] = Row(g, x)
    <3>1. CASE x = first
      BY <3>1
    <3>2. CASE x # first
      <4>1. x \in Largest + 1 - (e - 1) .. Largest + 1
        BY <2>3, <3>2
      <4>2. g[x] = Row(g, x)
        <5> HIDE DEF Row
        <5> QED
          BY <2>2, <4>1
      <4> QED
        BY <3>2, <4>2
    <3> QED
      BY <3>1, <3>2
  <2>7. h = [x \in first .. Largest + 1 |-> Row(h, x)]
    <3>1. \A x \in first .. Largest + 1 : h[x] = Row(h, x)
      BY <2>5, <2>6
    <3>2. DOMAIN h = first .. Largest + 1 /\ h = [x \in DOMAIN h |-> h[x]]
      OBVIOUS
    <3> HIDE DEF h, Row
    <3> QED
      BY <3>1, <3>2
  <2>8. Searches(h, e)
    BY <2>7
  <2> QED
    BY <1>3, <2>8
<1> QED
  BY <1>3, <1>4, <1>5

\* The defining equation of the search.
LEMMA SearchDefined ==
  ASSUME NEW k \in Int, Largest \in Nat \ {0}
  PROVE  \A x \in 2 .. Largest + 1 : \A c \in Int :
           Primes!Search(k)[x][c] =
             IF c >= k \/ x > Largest THEN x - 1
             ELSE Primes!Search(k)[x + 1][IF Primes!IsPrime(x) THEN c + 1 ELSE c]
<1> DEFINE Searches(g) ==
      g = [x \in 2 .. Largest + 1 |->
             [c \in Int |-> IF c >= k \/ x > Largest THEN x - 1
                            ELSE g[x + 1][IF Primes!IsPrime(x) THEN c + 1 ELSE c]]]
<1>1. \E g : Searches(g)
  <2>1. PICK e \in 0 .. Largest - 1 : Largest + 1 - e = 2
    <3>1. Largest - 1 \in 0 .. Largest - 1 /\ Largest + 1 - (Largest - 1) = 2
      OBVIOUS
    <3> QED
      BY <3>1
  <2>2. PICK g : g = [x \in Largest + 1 - e .. Largest + 1 |->
                        [c \in Int |-> IF c >= k \/ x > Largest THEN x - 1
                                       ELSE g[x + 1][IF Primes!IsPrime(x) THEN c + 1 ELSE c]]]
    BY SearchExists
  <2>3. Searches(g)
    BY <2>1, <2>2
  <2> QED
    BY <2>3
<1>2. Primes!Search(k) = CHOOSE g : Searches(g)
  BY DEF Primes!Search
<1>3. Searches(Primes!Search(k))
  <2> HIDE DEF Searches
  <2> QED
    BY <1>1, <1>2
<1> QED
  BY <1>3

\* How many primes there are up to x.
PrimesUpTo(x) == Cardinality({q \in 2 .. x : Primes!HasNoDivisor(q)})

LEMMA OnePrimeMore ==
  ASSUME NEW x \in Nat, x >= 2
  PROVE  /\ PrimesUpTo(x - 1) \in Nat /\ PrimesUpTo(x) \in Nat
         /\ PrimesUpTo(x) = PrimesUpTo(x - 1) + (IF Primes!HasNoDivisor(x) THEN 1 ELSE 0)
<1> DEFINE S(y) == {q \in 2 .. y : Primes!HasNoDivisor(q)}
<1>1. IsFiniteSet(S(x - 1)) /\ IsFiniteSet(S(x))
  <2>1. IsFiniteSet(2 .. x - 1) /\ IsFiniteSet(2 .. x)
    BY FS_Interval
  <2>2. S(x - 1) \subseteq 2 .. x - 1 /\ S(x) \subseteq 2 .. x
    OBVIOUS
  <2> HIDE DEF S
  <2> QED
    BY <2>1, <2>2, FS_Subset
<1>2. S(x) = IF Primes!HasNoDivisor(x) THEN S(x - 1) \cup {x} ELSE S(x - 1)
  OBVIOUS
<1>3. x \notin S(x - 1)
  OBVIOUS
<1>4. Cardinality(S(x - 1)) \in Nat /\ Cardinality(S(x)) \in Nat
  <2> HIDE DEF S
  <2> QED
    BY <1>1, FS_CardinalityType
<1>5. Cardinality(S(x - 1) \cup {x}) = Cardinality(S(x - 1)) + 1
  <2> HIDE DEF S
  <2> QED
    BY <1>1, <1>3, FS_AddElement
<1>6. PrimesUpTo(x) = Cardinality(S(x)) /\ PrimesUpTo(x - 1) = Cardinality(S(x - 1))
  BY DEF PrimesUpTo
<1> QED
  <2> HIDE DEF S
  <2> QED
    BY <1>2, <1>4, <1>5, <1>6

LEMMA FewerBelow ==
  ASSUME NEW x \in Nat, NEW y \in Nat, x <= y
  PROVE  PrimesUpTo(x) <= PrimesUpTo(y)
<1> DEFINE S(z) == {q \in 2 .. z : Primes!HasNoDivisor(q)}
<1>1. IsFiniteSet(S(y)) /\ S(x) \subseteq S(y)
  <2>1. IsFiniteSet(2 .. y) /\ S(y) \subseteq 2 .. y /\ S(x) \subseteq S(y)
    BY FS_Interval
  <2> HIDE DEF S
  <2> QED
    BY <2>1, FS_Subset
<1>2. Cardinality(S(x)) <= Cardinality(S(y))
  <2> HIDE DEF S
  <2> QED
    BY <1>1, FS_Subset
<1> QED
  BY <1>2 DEF PrimesUpTo

\* Before it has counted the k-th prime the search goes on.
LEMMA SearchGoesOn ==
  ASSUME NEW k \in Int, k >= 1, Largest \in Nat \ {0}, NEW p \in 2 .. Largest,
         Primes!HasNoDivisor(p), PrimesUpTo(p) = k, NEW x \in 2 .. p + 1
  PROVE  Primes!Search(k)[2][0] = Primes!Search(k)[x][PrimesUpTo(x - 1)]
<1> DEFINE Goal(y) == Primes!Search(k)[2][0] = Primes!Search(k)[y][PrimesUpTo(y - 1)]
           T == {y \in Nat : y >= 2 /\ y <= p + 1 /\ ~Goal(y)}
<1> SUFFICES ASSUME ~Goal(x) PROVE FALSE
  OBVIOUS
<1>1. x \in T
  OBVIOUS
<1>2. PICK y \in T : \A z \in T : ~(z < y)
  <2>1. T \subseteq Nat
    OBVIOUS
  <2> HIDE DEF T
  <2> QED
    BY <1>1, <2>1, SmallestNumber
<1>3. y \in Nat /\ y >= 2 /\ y <= p + 1 /\ ~Goal(y)
  OBVIOUS
<1>4. CASE y = 2
  <2>1. {q \in 2 .. 1 : Primes!HasNoDivisor(q)} = {}
    OBVIOUS
  <2>2. PrimesUpTo(1) = 0
    BY <2>1, FS_EmptySet DEF PrimesUpTo
  <2> QED
    BY <1>3, <1>4, <2>2
<1>5. CASE y > 2
  <2> DEFINE w == y - 1
  <2>1. w \in Nat /\ w >= 2 /\ w <= p /\ w + 1 = y /\ w \notin T
    <3>1. w \in Nat /\ w >= 2 /\ w <= p /\ w + 1 = y /\ w < y
      BY <1>3, <1>5
    <3> HIDE DEF T
    <3> QED
      BY <1>2, <3>1
  <2>2. Goal(w)
    BY <2>1
  <2> HIDE DEF w, T, Goal
  <2>3. /\ PrimesUpTo(w - 1) \in Nat /\ PrimesUpTo(w) \in Nat
        /\ PrimesUpTo(w) = PrimesUpTo(w - 1) + (IF Primes!HasNoDivisor(w) THEN 1 ELSE 0)
    BY <2>1, OnePrimeMore
  <2>4. PrimesUpTo(w - 1) < k
    <3>1. PrimesUpTo(p) = PrimesUpTo(p - 1) + 1 /\ PrimesUpTo(p - 1) \in Nat
      BY OnePrimeMore
    <3>2. w - 1 \in Nat /\ p - 1 \in Nat /\ w - 1 <= p - 1
      BY <2>1
    <3>3. PrimesUpTo(w - 1) <= PrimesUpTo(p - 1)
      BY <3>2, FewerBelow
    <3> QED
      BY <2>3, <3>1, <3>3
  <2>5. w \in 2 .. Largest + 1 /\ ~(w > Largest) /\ ~(PrimesUpTo(w - 1) >= k)
    BY <2>1, <2>3, <2>4
  <2>6. Primes!Search(k)[w][PrimesUpTo(w - 1)] =
          Primes!Search(k)[w + 1][IF Primes!IsPrime(w) THEN PrimesUpTo(w - 1) + 1
                                                       ELSE PrimesUpTo(w - 1)]
    BY <2>3, <2>5, SearchDefined
  <2>7. (IF Primes!IsPrime(w) THEN PrimesUpTo(w - 1) + 1 ELSE PrimesUpTo(w - 1))
          = PrimesUpTo(w)
    BY <2>1, <2>3, RootIsEnough
  <2>8. y - 1 = w
    BY <1>3, <2>1
  <2>9. Goal(y)
    BY <2>1, <2>2, <2>6, <2>7, <2>8 DEF Goal
  <2> QED
    BY <1>3, <2>9
<1> QED
  BY <1>3, <1>4, <1>5

LEMMA PrimesCardinality == \A S : Primes!Cardinality(S) = Cardinality(S)
BY DEF Primes!Cardinality, Cardinality

\* calculate_mth_prime_number is right: for every number typed, the loop ends
\* behind the prime that counting gives.
THEOREM SearchIsRight ==
  \A k \in Inputs : Primes!MthPrime(k) = Primes!Reference(k)
<1> SUFFICES ASSUME NEW k \in Inputs
             PROVE  Primes!MthPrime(k) = Primes!Reference(k)
  OBVIOUS
<1>1. k \in Int /\ Largest \in Nat \ {0} /\ 2 \in 2 .. Largest + 1
  BY LargestAssumption
<1>2. CASE k < 1
  <2>1. Primes!Search(k)[2][0] = 2 - 1
    <3>1. 0 \in Int /\ 0 >= k
      BY <1>1, <1>2
    <3> QED
      BY <1>1, <3>1, SearchDefined
  <2> QED
    BY <1>2, <2>1 DEF Primes!MthPrime, Primes!Reference
<1>3. CASE k >= 1
  <2>1. \E p \in 2 .. Largest : Primes!IsKthPrime(p, k)
    BY <1>3, LargestAssumption
  <2>2. ASSUME NEW p \in 2 .. Largest, Primes!IsKthPrime(p, k)
        PROVE  Primes!Search(k)[2][0] = p
    <3>1. Primes!HasNoDivisor(p) /\ PrimesUpTo(p) = k
      BY <2>2, PrimesCardinality DEF Primes!IsKthPrime, PrimesUpTo
    <3>2. p + 1 \in 2 .. p + 1 /\ p + 1 \in 2 .. Largest + 1 /\ (p + 1) - 1 = p
      BY <1>1
    <3>3. Primes!Search(k)[2][0] = Primes!Search(k)[p + 1][PrimesUpTo((p + 1) - 1)]
      BY <1>1, <1>3, <3>1, <3>2, SearchGoesOn
    <3>4. Primes!Search(k)[p + 1][k] = (p + 1) - 1
      <4>1. k >= k
        BY <1>1
      <4> QED
        BY <1>1, <3>2, <4>1, SearchDefined
    <3> QED
      BY <3>1, <3>2, <3>3, <3>4
  <2>3. Primes!Reference(k) = CHOOSE p \in 2 .. Largest : Primes!IsKthPrime(p, k)
    BY <1>1, <1>3 DEF Primes!Reference
  <2>4. Primes!Search(k)[2][0] = Primes!Reference(k)
    <3>1. Primes!Reference(k) \in 2 .. Largest /\ Primes!IsKthPrime(Primes!Reference(k), k)
      BY <2>1, <2>3
    <3> QED
      BY <2>2, <3>1
  <2> QED
    BY <2>4 DEF Primes!MthPrime
<1> QED
  BY <1>1, <1>2, <1>3

LEMMA PrimeStart == Primes!Init => Primes!PrimeInv
BY DEF Primes!Init, Primes!PrimeInv, Primes!PrimeTypes, Primes!AsksAndWaits,
       Primes!NothingUnderWay, Primes!ParentGone

LEMMA PrimeStepKeepsTypes ==
  ASSUME Primes!PrimeInv, [Primes!Next]_primeVars
  PROVE  Primes!PrimeTypes'
BY DEF Primes!PrimeInv, Primes!PrimeTypes, Primes!Next, primeVars, Primes!Type,
       Primes!TypeExit, Primes!TypeHuge, Primes!Parent, Primes!KillParent,
       Primes!Child, Primes!KillChild, Primes!WriteM, Primes!WriteExit,
       Primes!WriteNumber, Primes!ReadResult, Primes!ReadM, Primes!Dispatch,
       Primes!Calculate, Primes!WriteResult

\* A pipe that holds one number.
LEMMA OneNumber ==
  /\ \A x : <<x>> # << >> /\ Head(<<x>>) = x /\ Tail(<<x>>) = << >>
  /\ \A x : Append(<< >>, x) = <<x>>
OBVIOUS

LEMMA ParentStepKeepsTheTurn ==
  ASSUME Primes!PrimeInv,
         \/ Primes!Type \/ Primes!TypeExit \/ Primes!TypeHuge \/ Primes!Parent
         \/ Primes!KillParent
  PROVE  Primes!AsksAndWaits'
<1> USE DEF Primes!ParentGone, Primes!ChildGone
<1>0. Primes!PrimeTypes /\ Primes!AsksAndWaits
  BY DEF Primes!PrimeInv
<1>1. CASE Primes!Type
  <2>1. /\ parent = "prompt" /\ parent' = "write" /\ m' \in Inputs
        /\ UNCHANGED <<child, toChild, toParent, alone>>
    BY <1>1 DEF Primes!Type
  <2>2. ~alone => Primes!NothingUnderWay
    BY <1>0, <2>1 DEF Primes!AsksAndWaits
  <2> QED
    BY <2>1, <2>2 DEF Primes!AsksAndWaits, Primes!NothingUnderWay
<1>2. CASE Primes!TypeExit
  <2>1. /\ parent = "prompt" /\ parent' = "exit"
        /\ UNCHANGED <<child, toChild, toParent, alone>>
    BY <1>2 DEF Primes!TypeExit
  <2>2. ~alone => Primes!NothingUnderWay
    BY <1>0, <2>1 DEF Primes!AsksAndWaits
  <2> QED
    BY <2>1, <2>2 DEF Primes!AsksAndWaits, Primes!NothingUnderWay
<1>3. CASE Primes!TypeHuge \/ Primes!KillParent \/ Primes!WriteExit
  <2>1. parent' \in {"gone", "killed"}
    BY <1>3 DEF Primes!TypeHuge, Primes!KillParent, Primes!WriteExit, Primes!WriteNumber
  <2> QED
    BY <2>1 DEF Primes!AsksAndWaits
<1>4. CASE Primes!WriteM
  <2>1. CASE parent' = "killed"
    BY <2>1 DEF Primes!AsksAndWaits
  <2>2. CASE parent' # "killed"
    <3>1. /\ parent = "write" /\ parent' = "read" /\ child \notin {"gone", "killed"}
          /\ toChild' = Append(toChild, m)
          /\ UNCHANGED <<child, toParent, m, res, arg, answer, typed, alone>>
      BY <1>4, <2>2 DEF Primes!WriteM, Primes!WriteNumber
    <3>2. ~alone => Primes!NothingUnderWay /\ m \in Inputs
      BY <1>0, <3>1 DEF Primes!AsksAndWaits
    <3>3. ~alone => child = "read" /\ toChild' = <<m>> /\ toParent = << >>
      BY <1>0, <3>1, <3>2, OneNumber DEF Primes!NothingUnderWay, Primes!PrimeTypes
    <3> QED
      BY <3>1, <3>2, <3>3 DEF Primes!AsksAndWaits, Primes!UnderWay
  <2> QED
    BY <2>1, <2>2
<1>5. CASE Primes!ReadResult
  <2>1. /\ parent = "read" /\ parent' = "prompt"
        /\ UNCHANGED <<child, toChild, m, arg, answer, typed>>
    BY <1>5 DEF Primes!ReadResult
  <2>2. CASE alone'
    BY <2>2 DEF Primes!AsksAndWaits
  <2>3. CASE ~alone'
    <3>1. /\ toParent # << >> /\ res' = Head(toParent) /\ toParent' = Tail(toParent)
          /\ ~alone
      BY <1>5, <2>3 DEF Primes!ReadResult
    <3>2. m \in Inputs /\ Primes!UnderWay
      BY <1>0, <2>1, <3>1 DEF Primes!AsksAndWaits
    <3>3. /\ m # -1 /\ child \in {"read", "gone", "killed"}
          /\ toChild = << >> /\ toParent = <<Primes!MthPrime(m)>>
      BY <3>1, <3>2 DEF Primes!UnderWay
    <3>4. res' = Primes!MthPrime(m) /\ toParent' = << >>
      BY <3>1, <3>3, OneNumber
    <3>5. res' = Primes!MthPrime(m')
      BY <2>1, <3>4
    <3> QED
      BY <2>1, <3>2, <3>3, <3>4, <3>5 DEF Primes!AsksAndWaits, Primes!NothingUnderWay
  <2> QED
    BY <2>2, <2>3
<1> QED
  BY <1>1, <1>2, <1>3, <1>4, <1>5 DEF Primes!Parent

LEMMA ChildStepKeepsTheTurn ==
  ASSUME Primes!PrimeInv, Primes!Child \/ Primes!KillChild
  PROVE  Primes!AsksAndWaits'
<1> USE DEF Primes!ParentGone, Primes!ChildGone
<1>0. Primes!PrimeTypes /\ Primes!AsksAndWaits
  BY DEF Primes!PrimeInv
<1>1. UNCHANGED <<parent, m, res, typed, alone>>
  BY DEF Primes!Child, Primes!KillChild, Primes!ReadM, Primes!Calculate, Primes!WriteResult
<1> SUFFICES ASSUME ~Primes!ParentGone, ~alone
             PROVE  IF parent = "read" THEN Primes!UnderWay' ELSE Primes!NothingUnderWay'
  BY <1>0, <1>1 DEF Primes!AsksAndWaits
<1>2. CASE parent = "read"
  <2>1. Primes!UnderWay /\ m \in Inputs /\ Primes!MthPrime(m)' = Primes!MthPrime(m)
    BY <1>0, <1>1, <1>2 DEF Primes!AsksAndWaits
  <2>2. CASE Primes!ReadM
    <3>1. /\ child = "read" /\ toChild = <<m>> /\ toParent = << >>
      BY <1>2, <2>1, <2>2 DEF Primes!ReadM, Primes!UnderWay
    <3>2. /\ arg' = m /\ toChild' = << >> /\ toParent' = << >>
          /\ child' = IF m = -1 THEN "gone" ELSE "calculate"
      BY <2>2, <3>1, OneNumber DEF Primes!ReadM, Primes!Dispatch
    <3> QED
      BY <1>1, <1>2, <3>2 DEF Primes!UnderWay
  <2>3. CASE Primes!Calculate
    <3>1. m # -1 /\ arg = m /\ toChild = << >> /\ toParent = << >>
      BY <2>1, <2>3 DEF Primes!Calculate, Primes!UnderWay
    <3>2. /\ child' = "write" /\ answer' = Primes!MthPrime(m)
          /\ UNCHANGED <<toChild, toParent>>
      BY <2>1, <2>3, <3>1, GarbageAssumption DEF Primes!Calculate
    <3> QED
      BY <1>1, <1>2, <2>1, <3>1, <3>2 DEF Primes!UnderWay
  <2>4. CASE Primes!WriteResult
    <3>1. m # -1 /\ answer = Primes!MthPrime(m) /\ toChild = << >> /\ toParent = << >>
      BY <2>1, <2>4 DEF Primes!WriteResult, Primes!UnderWay
    <3>2. child' = "read" /\ toParent' = <<Primes!MthPrime(m)>> /\ toChild' = << >>
      BY <2>4, <3>1, OneNumber DEF Primes!WriteResult
    <3> QED
      BY <1>1, <1>2, <2>1, <3>1, <3>2 DEF Primes!UnderWay
  <2>5. CASE Primes!KillChild
    <3>1. child \notin {"gone", "killed"} /\ child' = "killed" /\ UNCHANGED <<toChild, toParent>>
      BY <2>5 DEF Primes!KillChild
    <3> QED
      BY <1>1, <1>2, <2>1, <3>1 DEF Primes!UnderWay
  <2> QED
    BY <1>2, <2>2, <2>3, <2>4, <2>5 DEF Primes!Child
<1>3. CASE parent # "read"
  <2>1. Primes!NothingUnderWay
    BY <1>0, <1>3 DEF Primes!AsksAndWaits
  <2> QED
    BY <1>3, <2>1
    DEF Primes!NothingUnderWay, Primes!Child, Primes!KillChild, Primes!ReadM,
        Primes!Calculate, Primes!WriteResult
<1> QED
  BY <1>2, <1>3

\* The parent asks for one number at a time and waits: the invariant the next
\* theorem rests on.
THEOREM PrimesInductive ==
  ProcessesSpec => []Primes!PrimeInv
<1>1. ProcessesInit => Primes!PrimeInv
  BY PrimeStart DEF ProcessesInit
<1>2. Primes!PrimeInv /\ [ProcessesNext]_allVars => Primes!PrimeInv'
  <2> SUFFICES ASSUME Primes!PrimeInv, [ProcessesNext]_allVars PROVE Primes!PrimeInv'
    OBVIOUS
  <2>1. [Primes!Next]_primeVars
    BY DEF ProcessesNext, allVars, primeVars
  <2>2. CASE UNCHANGED primeVars
    BY <2>2
    DEF primeVars, Primes!PrimeInv, Primes!PrimeTypes, Primes!AsksAndWaits,
        Primes!NothingUnderWay, Primes!UnderWay, Primes!ParentGone, Primes!ChildGone
  <2>3. CASE Primes!Next
    BY <2>1, <2>3, PrimeStepKeepsTypes, ParentStepKeepsTheTurn, ChildStepKeepsTheTurn
    DEF Primes!Next, Primes!PrimeInv
  <2> QED
    BY <2>1, <2>2, <2>3
<1> QED
  BY <1>1, <1>2, PTL DEF ProcessesSpec

\* IPC-2: what the parent prints is the prime with the number it asked for last,
\* whatever is typed and whoever is killed when, until it reads without a child.
THEOREM AnswersBelongToQuestions ==
  ProcessesSpec => []ResultsAreForTheAsked
<1>1. Primes!PrimeInv => ResultsAreForTheAsked
  BY SearchIsRight
  DEF Primes!PrimeInv, Primes!AsksAndWaits, Primes!ParentGone, ResultsAreForTheAsked,
      Primes!ResultsAreForTheAsked
<1> QED
  BY <1>1, PrimesInductive, PTL
=============================================================================
