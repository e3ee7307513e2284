----------------------------- MODULE MachineInt -----------------------------
(***************************************************************************)
(* The C++ type int, scaled down: the integers -IntMax-1 .. IntMax with    *)
(* the wrap-around that the repository's unoptimised builds (g++ -g)       *)
(* produce when an addition or a subtraction overflows.  IntMax is         *)
(* 2^31 - 1 in the programs and 3 or so in the TLC models.                 *)
(***************************************************************************)
EXTENDS Integers, TLAPS

CONSTANT IntMax

ASSUME IntMaxAssumption == IntMax \in Nat \ {0}

IntMin   == -IntMax - 1
IntRange == IntMin .. IntMax
Modulus  == 2 * IntMax + 2

\* The value an int holds after an operation whose exact result is x.
Wrap(x) == ((x - IntMin) % Modulus) + IntMin
-----------------------------------------------------------------------------
\* What int arithmetic leaves in a variable is a value of type int.
THEOREM WrapType ==
  ASSUME NEW x \in Int
  PROVE  Wrap(x) \in IntRange
<1> DEFINE y == x - IntMin
<1>1. IntMin \in Int /\ Modulus \in Int /\ Modulus > 0 /\ y \in Int
  BY IntMaxAssumption DEF IntMin, Modulus
<1> HIDE DEF y
<1>2. y % Modulus \in 0 .. Modulus - 1
  BY <1>1
<1>3. y % Modulus \in Int /\ 0 <= y % Modulus /\ y % Modulus <= Modulus - 1
  BY <1>1, <1>2
<1>4. IntMin + Modulus - 1 = IntMax
  BY IntMaxAssumption DEF IntMin, Modulus
<1>5. Wrap(x) = (y % Modulus) + IntMin
  BY DEF Wrap, y
<1> QED
  BY <1>1, <1>3, <1>4, <1>5, IntMaxAssumption DEF IntRange
-----------------------------------------------------------------------------
(* Wrapping keeps what a sum is modulo the width of int. *)

Congruent(x, y) == \E k \in Int : x = y + k * Modulus

LEMMA ModulusFacts == Modulus \in Int /\ Modulus > 0 /\ IntMin \in Int
BY IntMaxAssumption DEF Modulus, IntMin

\* A multiple of m that is smaller than m, either way, is zero.
LEMMA SmallMultiple ==
  ASSUME NEW m \in Int, m > 0, NEW d \in Int, -m < d * m, d * m < m
  PROVE  d = 0
<1>1. CASE d >= 1
  <2>1. (d - 1) * m >= 0
    BY <1>1
  <2>2. (d - 1) * m = d * m - m
    OBVIOUS
  <2> QED
    BY <2>1, <2>2
<1>2. CASE d <= -1
  <2>1. (-1 - d) * m >= 0
    BY <1>2
  <2>2. (-1 - d) * m = -m - d * m
    OBVIOUS
  <2> QED
    BY <2>1, <2>2
<1> QED
  BY <1>1, <1>2

\* Division with remainder.
LEMMA DivMod ==
  ASSUME NEW m \in Int, m > 0, NEW x \in Int
  PROVE  /\ x \div m \in Int /\ x % m \in Int
         /\ x = (x \div m) * m + (x % m)
         /\ 0 <= x % m /\ x % m < m
OBVIOUS

\* Numbers that are congruent wrap to the same int.
LEMMA CongruentWrapsEqual ==
  ASSUME NEW x \in Int, NEW y \in Int, Congruent(x, y)
  PROVE  Wrap(x) = Wrap(y)
<1> DEFINE m == Modulus
           a == x - IntMin
           b == y - IntMin
<1>1. PICK k \in Int : x = y + k * m
  BY DEF Congruent
<1>2. m \in Int /\ m > 0 /\ a \in Int /\ b \in Int
  BY ModulusFacts
<1>3. a = b + k * m
  BY <1>1, ModulusFacts
<1> HIDE DEF m, a, b
<1> DEFINE d == (a \div m) - (b \div m) - k
<1>4. d \in Int /\ a \div m \in Int /\ b \div m \in Int
  BY <1>2, DivMod
<1>5. d * m = (a \div m) * m - (b \div m) * m - k * m
  BY <1>2, <1>4
<1>6. d * m = (b % m) - (a % m)
  BY <1>2, <1>3, <1>4, <1>5, DivMod
<1>7. -m < d * m /\ d * m < m
  BY <1>2, <1>6, DivMod
<1> HIDE DEF d
<1>8. d = 0
  BY <1>2, <1>4, <1>7, SmallMultiple
<1>9. a % m = b % m
  BY <1>2, <1>6, <1>8, DivMod
<1> QED
  BY <1>9 DEF Wrap, m, a, b

\* What is left of a number after wrapping is congruent to it.
LEMMA WrapIsCongruent ==
  ASSUME NEW x \in Int
  PROVE  Wrap(x) \in Int /\ Congruent(Wrap(x), x)
<1> DEFINE a == x - IntMin
           k == -(a \div Modulus)
<1>1. a \in Int /\ a \div Modulus \in Int /\ a % Modulus \in Int
      /\ a = (a \div Modulus) * Modulus + (a % Modulus)
  BY ModulusFacts, DivMod
<1>2. k \in Int /\ k * Modulus = -((a \div Modulus) * Modulus)
  BY <1>1, ModulusFacts
<1>3. Wrap(x) = x + k * Modulus
  <2>1. Wrap(x) = (a % Modulus) + IntMin
    BY DEF Wrap
  <2> HIDE DEF k
  <2> QED
    BY <1>1, <1>2, <2>1, ModulusFacts
<1>4. Wrap(x) \in Int
  BY <1>1, ModulusFacts DEF Wrap
<1> QED
  BY <1>2, <1>3, <1>4 DEF Congruent

\* A sum is unchanged, modulo the width of int, when one part of it loses
\* what another one gains, wherever the two wrap.
LEMMA WrapKeepsSums ==
  ASSUME NEW x \in Int, NEW y \in Int, NEW z \in Int, NEW s \in Int
  PROVE  Wrap(z + Wrap(x - s) + Wrap(y + s)) = Wrap(z + x + y)
<1>1. PICK k \in Int : Wrap(x - s) = x - s + k * Modulus
  BY WrapIsCongruent DEF Congruent
<1>2. PICK l \in Int : Wrap(y + s) = y + s + l * Modulus
  BY WrapIsCongruent DEF Congruent
<1> DEFINE left == z + Wrap(x - s) + Wrap(y + s)
<1>3. k + l \in Int /\ (k + l) * Modulus = k * Modulus + l * Modulus
      /\ k * Modulus \in Int /\ l * Modulus \in Int
  BY ModulusFacts
<1>4. left = z + x + y + (k + l) * Modulus
  BY <1>1, <1>2, <1>3
<1>5. left \in Int /\ Congruent(left, z + x + y)
  BY <1>3, <1>4, WrapIsCongruent DEF Congruent
<1> HIDE DEF left
<1>6. Wrap(left) = Wrap(z + x + y)
  BY <1>5, CongruentWrapsEqual
<1> QED
  BY <1>6 DEF left
=============================================================================
