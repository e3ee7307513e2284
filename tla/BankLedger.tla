----------------------------- MODULE BankLedger -----------------------------
(***************************************************************************)
(* What the transparent bank promises its clients: a table of accounts on  *)
(* which every operation of Bank takes effect at one instant.  A transfer  *)
(* moves the money in one step; addall and suball are a series of such     *)
(* instants, one per account, because Bank visits the accounts one by one. *)
(* There are no clients, no mutexes and no intermediate states here:       *)
(* module TransparentBank has them and implements this one.                *)
(***************************************************************************)
EXTENDS MachineInt

CONSTANT N                \* the number of accounts, Bank::size

ASSUME NAssumption == N \in Nat \ {0}

Accounts == 0 .. N - 1
Amounts  == 1 .. IntMax   \* the sums that pass the "sum > 0" tests

VARIABLES cur_balance, min_pos_balance, max_pos_balance, is_frozen

vars == <<cur_balance, min_pos_balance, max_pos_balance, is_frozen>>

TypeOK ==
  /\ cur_balance \in [Accounts -> IntRange]
  /\ min_pos_balance \in [Accounts -> IntRange]
  /\ max_pos_balance \in [Accounts -> IntRange]
  /\ is_frozen \in [Accounts -> BOOLEAN]

\* Bank::Bank
Init ==
  /\ cur_balance = [a \in Accounts |-> 0]
  /\ min_pos_balance = [a \in Accounts |-> IntMin]
  /\ max_pos_balance = [a \in Accounts |-> IntMax]
  /\ is_frozen = [a \in Accounts |-> FALSE]

\* An account gives, and takes part in addall and suball, only while its
\* balance is strictly between its limits.
MovableEitherLimit(a) ==
  \/ cur_balance[a] < max_pos_balance[a]
  \/ cur_balance[a] > min_pos_balance[a]

Movable(a) ==
  /\ cur_balance[a] < max_pos_balance[a]
  /\ cur_balance[a] > min_pos_balance[a]

Transfer(from, to, sum) ==
  /\ from # to
  /\ Movable(from)
  /\ ~is_frozen[from] /\ ~is_frozen[to]
  /\ cur_balance' = [cur_balance EXCEPT ![from] = Wrap(@ - sum),
                                        ![to]   = Wrap(@ + sum)]
  /\ UNCHANGED <<min_pos_balance, max_pos_balance, is_frozen>>

Enroll(a, sum) ==
  /\ Movable(a) /\ ~is_frozen[a]
  /\ cur_balance' = [cur_balance EXCEPT ![a] = Wrap(@ + sum)]
  /\ UNCHANGED <<min_pos_balance, max_pos_balance, is_frozen>>

Debit(a, sum) ==
  /\ Movable(a) /\ ~is_frozen[a]
  /\ cur_balance' = [cur_balance EXCEPT ![a] = Wrap(@ - sum)]
  /\ UNCHANGED <<min_pos_balance, max_pos_balance, is_frozen>>

SetFrozen(a, b) ==
  /\ is_frozen' = [is_frozen EXCEPT ![a] = b]
  /\ UNCHANGED <<cur_balance, min_pos_balance, max_pos_balance>>

SetMin(a, sum) ==
  /\ min_pos_balance' = [min_pos_balance EXCEPT ![a] = sum]
  /\ UNCHANGED <<cur_balance, max_pos_balance, is_frozen>>

SetMax(a, sum) ==
  /\ max_pos_balance' = [max_pos_balance EXCEPT ![a] = sum]
  /\ UNCHANGED <<cur_balance, min_pos_balance, is_frozen>>

Next ==
  \/ \E from, to \in Accounts, sum \in Amounts : Transfer(from, to, sum)
  \/ \E a \in Accounts, sum \in Amounts :
        Enroll(a, sum) \/ Debit(a, sum) \/ SetMin(a, sum) \/ SetMax(a, sum)
  \/ \E a \in Accounts, b \in BOOLEAN : SetFrozen(a, b)

Spec == Init /\ [][Next]_vars
-----------------------------------------------------------------------------
\* sminb accepts positive sums only, so an account that has been given a
\* minimum keeps a positive one.
Dead ==
  \A a \in Accounts : min_pos_balance[a] > 0 /\ cur_balance[a] <= 0

\* Once every account has been given a minimum while none has any money, which
\* is one sminb per account on a fresh bank, no sequence of commands moves
\* money again: addall, suball and tfromto are refused everywhere for good.
DeadForever == [][Dead => Dead' /\ UNCHANGED cur_balance]_vars
=============================================================================
