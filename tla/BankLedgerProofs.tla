-------------------------- MODULE BankLedgerProofs --------------------------
(***************************************************************************)
(* Theorems about BankLedger, for every number of accounts and every width *)
(* of int.                                                                 *)
(***************************************************************************)
EXTENDS BankLedger, TLAPS

\* The sums that the operations accept are values of int.
LEMMA AmountsAreInts == Amounts \subseteq IntRange /\ IntRange \subseteq Int
BY IntMaxAssumption DEF Amounts, IntRange, IntMin

\* A balance plus or minus a sum, wrapped, is a balance again.
LEMMA BalancesStayInRange ==
  ASSUME TypeOK, NEW a \in Accounts, NEW sum \in Amounts
  PROVE  Wrap(cur_balance[a] - sum) \in IntRange /\ Wrap(cur_balance[a] + sum) \in IntRange
<1>1. cur_balance[a] \in Int /\ sum \in Int
  BY AmountsAreInts DEF TypeOK
<1>2. cur_balance[a] - sum \in Int /\ cur_balance[a] + sum \in Int
  BY <1>1
<1> QED
  BY <1>2, WrapType

\* Every step keeps the types.
LEMMA StepKeepsType ==
  ASSUME TypeOK, [Next]_vars
  PROVE  TypeOK'
<1> USE DEF TypeOK
<1> USE AmountsAreInts
<1>1. ASSUME NEW from \in Accounts, NEW to \in Accounts, NEW sum \in Amounts,
             Transfer(from, to, sum)
      PROVE  TypeOK'
  <2>1. /\ Wrap(cur_balance[from] - sum) \in IntRange
        /\ Wrap(cur_balance[to] + sum) \in IntRange
    BY BalancesStayInRange
  <2> QED
    BY <1>1, <2>1 DEF Transfer
<1>2. ASSUME NEW a \in Accounts, NEW sum \in Amounts,
             Enroll(a, sum) \/ Debit(a, sum)
      PROVE  TypeOK'
  <2>1. /\ Wrap(cur_balance[a] - sum) \in IntRange
        /\ Wrap(cur_balance[a] + sum) \in IntRange
    BY BalancesStayInRange
  <2> QED
    BY <1>2, <2>1 DEF Enroll, Debit
<1>3. ASSUME NEW a \in Accounts, NEW sum \in Amounts,
             SetMin(a, sum) \/ SetMax(a, sum)
      PROVE  TypeOK'
  BY <1>3 DEF SetMin, SetMax
<1>4. ASSUME NEW a \in Accounts, NEW b \in BOOLEAN, SetFrozen(a, b)
      PROVE  TypeOK'
  BY <1>4 DEF SetFrozen
<1>5. CASE UNCHANGED vars
  BY <1>5 DEF vars
<1> QED
  BY <1>1, <1>2, <1>3, <1>4, <1>5 DEF Next

\* The ledger's variables keep their types; in particular no balance leaves
\* the range of int.
THEOREM TypeCorrect == Spec => []TypeOK
<1>1. Init => TypeOK
  BY IntMaxAssumption DEF Init, TypeOK, IntRange, IntMin
<1>2. TypeOK /\ [Next]_vars => TypeOK'
  BY StepKeepsType
<1> QED
  BY <1>1, <1>2, PTL DEF Spec

\* No account of a dead bank may give, or take part in a sweep.
LEMMA DeadAccountsAreStuck ==
  ASSUME TypeOK, Dead, NEW a \in Accounts
  PROVE  ~Movable(a)
<1>1. cur_balance[a] \in Int /\ min_pos_balance[a] \in Int
  BY AmountsAreInts DEF TypeOK
<1> QED
  BY <1>1 DEF Dead, Movable

\* Once every account has been given a minimum while none has any money, no
\* step moves money, and the bank stays in that condition.
THEOREM DeadBanksStayDead == Spec => DeadForever
<1>1. TypeOK /\ [Next]_vars => [Dead => Dead' /\ UNCHANGED cur_balance]_vars
  <2> SUFFICES ASSUME TypeOK, [Next]_vars, Dead
               PROVE  Dead' /\ UNCHANGED cur_balance
    OBVIOUS
  <2>1. ASSUME NEW a \in Accounts
        PROVE  ~Movable(a)
    BY <2>1, DeadAccountsAreStuck
  <2>2. ASSUME NEW a \in Accounts, NEW sum \in Amounts, SetMin(a, sum)
        PROVE  Dead' /\ UNCHANGED cur_balance
    BY <2>2 DEF SetMin, Dead, TypeOK, Amounts
  <2>3. ASSUME NEW a \in Accounts, NEW sum \in Amounts, SetMax(a, sum)
        PROVE  Dead' /\ UNCHANGED cur_balance
    BY <2>3 DEF SetMax, Dead
  <2>4. ASSUME NEW a \in Accounts, NEW b \in BOOLEAN, SetFrozen(a, b)
        PROVE  Dead' /\ UNCHANGED cur_balance
    BY <2>4 DEF SetFrozen, Dead
  <2>5. CASE UNCHANGED vars
    BY <2>5 DEF vars, Dead
  <2> QED
    BY <2>1, <2>2, <2>3, <2>4, <2>5 DEF Next, Transfer, Enroll, Debit
<1> QED
  BY <1>1, TypeCorrect, PTL DEF Spec, DeadForever
=============================================================================
