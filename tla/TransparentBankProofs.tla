------------------------ MODULE TransparentBankProofs ------------------------
(***************************************************************************)
(* Theorems about TransparentBank, for every number of accounts and        *)
(* clients, every set of commands and every width of int.  The argument    *)
(* rests on IInv: a client's program counter says which mutexes it owns,   *)
(* and what a transfer has tested stays true until it has used it, because *)
(* every other client that could change it needs one of those mutexes.     *)
(***************************************************************************)
EXTENDS TransparentBank, TLAPS, WellFoundedInduction

\* A set of natural numbers that is not empty has a smallest element.
LEMMA SmallestNumber ==
  ASSUME NEW T, T \subseteq Nat, T # {}
  PROVE  \E n \in T : \A m \in T : ~(m < n)
<1> DEFINE Below == {p \in Nat \X Nat : p[1] < p[2]}
<1>1. IsWellFoundedOn(Below, Nat)
  BY NatLessThanWellFounded DEF OpToRel
<1>2. PICK n \in T : \A m \in T : ~(<<m, n>> \in Below)
  <2> HIDE DEF Below
  <2> QED
    BY <1>1, WFMin
<1> QED
  BY <1>2

\* The values of int are integers, and the bounds that Bank::Bank writes are
\* among them.
LEMMA IntFacts ==
  /\ IntRange \subseteq Int
  /\ IntMin \in IntRange /\ IntMax \in IntRange /\ 0 \in IntRange
BY IntMaxAssumption DEF IntRange, IntMin

\* What the operations compute on an int is an int.
LEMMA WrapSums ==
  ASSUME NEW x \in IntRange, NEW y \in IntRange
  PROVE  Wrap(x + y) \in IntRange /\ Wrap(x - y) \in IntRange
<1>1. x + y \in Int /\ x - y \in Int
  BY IntFacts
<1> QED
  BY <1>1, WrapType

\* transfer's two mutexes are those of the two accounts it names, in
\* ascending order.
LEMMA OrderFacts ==
  ASSUME NEW k \in Command, Accepted(k), k.op = "tfromto"
  PROVE  /\ k.id \in Accounts /\ k.to \in Accounts
         /\ First(k) \in Accounts /\ Second(k) \in Accounts
         /\ {First(k), Second(k)} = {k.id, k.to}
         /\ k.id # k.to => First(k) < Second(k)
         /\ k.id = k.to <=> First(k) = Second(k)
         /\ k.sum > 0
<1>1. k.id \in Accounts /\ k.to \in Accounts /\ k.sum > 0
  BY DEF Accepted, ValidId, Sweeps
<1>2. k.id \in Int /\ k.to \in Int
  BY <1>1, BankAssumption DEF Accounts
<1>3. CASE k.id <= k.to
  <2>1. First(k) = k.id /\ Second(k) = k.to
    BY <1>3 DEF First, Second, LockOrder
  <2>2. {First(k), Second(k)} = {k.id, k.to}
    BY <2>1
  <2> QED
    BY <1>1, <1>2, <1>3, <2>1, <2>2
<1>4. CASE ~(k.id <= k.to)
  <2>1. First(k) = k.to /\ Second(k) = k.id
    BY <1>4 DEF First, Second, LockOrder
  <2>2. {First(k), Second(k)} = {k.id, k.to}
    BY <2>1
  <2> QED
    BY <1>1, <1>2, <1>4, <2>1, <2>2
<1> QED
  BY <1>3, <1>4

\* The loop variable and the first mutex of a command are accounts.
LEMMA StartIsAccount ==
  ASSUME NEW k \in Command, Accepted(k)
  PROVE  Start(k) \in Accounts
<1>1. 0 \in Accounts
  BY BankAssumption DEF Accounts
<1>2. CASE k.op \in Sweeps
  BY <1>1, <1>2 DEF Start, Sweeps
<1>3. CASE k.op = "tfromto"
  BY <1>3, OrderFacts DEF Start, Sweeps
<1>4. CASE k.op \notin Sweeps /\ k.op # "tfromto"
  BY <1>4 DEF Start, Accepted, ValidId, Sweeps
<1> QED
  BY <1>2, <1>3, <1>4

\* The balance that one round of the sweep of command k leaves in account a.
Swept(k, a) ==
  IF MaySweep(a)
  THEN Wrap(IF k.op = "addall" THEN cur_balance[a] + k.sum
                               ELSE cur_balance[a] - k.sum)
  ELSE cur_balance[a]

\* What the body of an operation on one account does, in one formula.
LEMMA ApplyEffect ==
  ASSUME TypeOK, NEW c \in Clients, Apply(c)
  PROVE  /\ pc[c] = "apply" /\ c \notin killed
         /\ cur_balance' = IF cmd[c].op \in Sweeps
                           THEN [cur_balance EXCEPT ![at[c]] = Swept(cmd[c], at[c])]
                           ELSE cur_balance
         /\ min_pos_balance' = IF cmd[c].op = "sminb"
                               THEN [min_pos_balance EXCEPT ![at[c]] = cmd[c].sum]
                               ELSE min_pos_balance
         /\ max_pos_balance' = IF cmd[c].op = "smaxb"
                               THEN [max_pos_balance EXCEPT ![at[c]] = cmd[c].sum]
                               ELSE max_pos_balance
         /\ is_frozen' = IF cmd[c].op \in Freezers
                         THEN [is_frozen EXCEPT ![at[c]] = (cmd[c].op = "froze")]
                         ELSE is_frozen
         /\ pc' = [pc EXCEPT ![c] = "unlock"]
         /\ UNCHANGED <<mutex, cmd, at, killed, issued>>
<1> USE DEF OnAccount, Alive, Goto, Sweeps, Freezers, bills, rules
<1>1. CASE PrintBalance(c)
  BY <1>1 DEF PrintBalance, Reads
<1>2. CASE Froze(c)
  BY <1>2 DEF Froze
<1>3. CASE Defroze(c)
  BY <1>3 DEF Defroze
<1>4. CASE SetMinBalance(c)
  BY <1>4 DEF SetMinBalance
<1>5. CASE SetMaxBalance(c)
  BY <1>5 DEF SetMaxBalance
<1>6. CASE EnrollToAll(c) \/ DebitFromAll(c)
  <2>1. MaySweep(at[c]) \/ [cur_balance EXCEPT ![at[c]] = cur_balance[at[c]]] = cur_balance
    BY DEF TypeOK
  <2> QED
    BY <1>6, <2>1 DEF EnrollToAll, DebitFromAll, Swept
<1> QED
  BY <1>1, <1>2, <1>3, <1>4, <1>5, <1>6 DEF Apply

\* A client that has started a command executes an accepted one.
LEMMA BusyCommand ==
  ASSUME IInv, NEW c \in Clients, pc[c] # "idle"
  PROVE  cmd[c] \in Command /\ Accepted(cmd[c])
BY DEF IInv, CommandsMatchSteps

\* Two clients never own the same mutex.
LEMMA HoldsExclude ==
  ASSUME TypeOK, MutexesMatchSteps, NEW c \in Clients, NEW d \in Clients,
         NEW a \in Accounts, a \in Holds(c), a \in Holds(d)
  PROVE  c = d
BY DEF MutexesMatchSteps

\* Between its locks and its unlocks a transfer owns both its accounts.
LEMMA TransferHolds ==
  ASSUME IInv, NEW c \in Clients,
         pc[c] \in {"check", "debit", "credit", "unlock2"}
  PROVE  /\ cmd[c] \in Command /\ Accepted(cmd[c]) /\ cmd[c].op = "tfromto"
         /\ cmd[c].id \in Accounts /\ cmd[c].to \in Accounts
         /\ cmd[c].id # cmd[c].to
         /\ Holds(c) = {cmd[c].id, cmd[c].to}
         /\ mutex[cmd[c].id] = c /\ mutex[cmd[c].to] = c
<1>1. /\ cmd[c] \in Command /\ Accepted(cmd[c]) /\ cmd[c].op = "tfromto"
      /\ cmd[c].id # cmd[c].to
  BY DEF IInv, CommandsMatchSteps, TransferSteps
<1>2. /\ cmd[c].id \in Accounts /\ cmd[c].to \in Accounts
      /\ {First(cmd[c]), Second(cmd[c])} = {cmd[c].id, cmd[c].to}
  BY <1>1, OrderFacts
<1>3. Holds(c) = {cmd[c].id, cmd[c].to}
  BY <1>2 DEF Holds
<1> QED
  BY <1>1, <1>2, <1>3 DEF IInv, MutexesMatchSteps
-----------------------------------------------------------------------------
(* Types. *)

LEMMA InitType == Init => TypeOK
<1>1. 0 \in Accounts
  BY BankAssumption DEF Accounts
<1> QED
  BY <1>1, IntFacts, BankAssumption DEF Init, TypeOK, Steps

\* Every step keeps the types, the wrap-around included.
LEMMA StepKeepsType ==
  ASSUME IInv, [Next]_vars
  PROVE  TypeOK'
<1> USE DEF TypeOK, IInv, Steps
<1>1. ASSUME NEW c \in Clients, NEW k \in Commands, Issue(c, k)
      PROVE  TypeOK'
  <2>1. k \in Command /\ Start(k) \in Accounts
    BY <1>1, BankAssumption, StartIsAccount DEF Issue
  <2>2. issued' \in 0 .. MaxCommands
    BY <1>1, BankAssumption DEF Issue
  <2> QED
    BY <1>1, <2>1, <2>2 DEF Issue, Goto, bills
<1>2. ASSUME NEW c \in Clients, Lock(c) \/ CheckTransfer(c) \/ Report(c)
      PROVE  TypeOK'
  BY <1>2 DEF Lock, CheckTransfer, Report, Acquire, Goto, bills
<1>3. ASSUME NEW c \in Clients, LockSecond(c) \/ UnlockSecond(c)
      PROVE  TypeOK'
  BY <1>3 DEF LockSecond, UnlockSecond, Acquire, Release, Goto, bills
<1>4. ASSUME NEW c \in Clients, DebitSender(c) \/ CreditReceiver(c)
      PROVE  TypeOK'
  <2>1. pc[c] \in {"debit", "credit"}
    BY <1>4 DEF DebitSender, CreditReceiver, Alive
  <2>2. /\ cmd[c].id \in Accounts /\ cmd[c].to \in Accounts
        /\ cmd[c].sum \in IntRange
    BY <2>1, TransferHolds DEF Command
  <2>3. /\ Wrap(cur_balance[cmd[c].id] - cmd[c].sum) \in IntRange
        /\ Wrap(cur_balance[cmd[c].to] + cmd[c].sum) \in IntRange
    BY <2>2, WrapSums
  <2> QED
    BY <1>4, <2>2, <2>3 DEF DebitSender, CreditReceiver, Goto, rules
<1>5. ASSUME NEW c \in Clients, Apply(c)
      PROVE  TypeOK'
  <2>1. cmd[c] \in Command /\ at[c] \in Accounts
    BY <1>5, BusyCommand, ApplyEffect DEF Alive
  <2>2. cmd[c].sum \in IntRange
    BY <2>1 DEF Command
  <2>3. Swept(cmd[c], at[c]) \in IntRange
    BY <2>1, <2>2, WrapSums DEF Swept
  <2>4. /\ cur_balance' \in [Accounts -> IntRange]
        /\ min_pos_balance' \in [Accounts -> IntRange]
        /\ max_pos_balance' \in [Accounts -> IntRange]
    BY <1>5, <2>2, <2>3, ApplyEffect
  <2>5. is_frozen' \in [Accounts -> BOOLEAN]
    <3>1. (cmd[c].op = "froze") \in BOOLEAN
      OBVIOUS
    <3>2. \/ is_frozen' = [is_frozen EXCEPT ![at[c]] = (cmd[c].op = "froze")]
          \/ is_frozen' = is_frozen
      BY <1>5, ApplyEffect
    <3> QED
      BY <3>1, <3>2
  <2>6. pc' \in [Clients -> Steps] /\ UNCHANGED <<mutex, cmd, at, killed, issued>>
    BY <1>5, ApplyEffect
  <2> QED
    BY <2>4, <2>5, <2>6
<1>6. ASSUME NEW c \in Clients, Unlock(c)
      PROVE  TypeOK'
  <2>1. at[c] < N - 1 => at[c] + 1 \in Accounts
    BY BankAssumption DEF Accounts
  <2> QED
    BY <1>6, <2>1 DEF Unlock, Release, Goto, bills
<1>7. ASSUME NEW c \in Clients, Kill(c)
      PROVE  TypeOK'
  BY <1>7, BankAssumption DEF Kill, bills
<1>8. CASE UNCHANGED vars
  BY <1>8 DEF vars
<1> QED
  BY <1>1, <1>2, <1>3, <1>4, <1>5, <1>6, <1>7, <1>8 DEF Next, Step
-----------------------------------------------------------------------------
(* The inductive invariant, conjunct by conjunct. *)

\* A step of client c leaves the position of every other client alone.
LEMMA OthersHold ==
  ASSUME TypeOK, NEW c \in Clients, NEW d \in Clients, d # c,
         pc'[d] = pc[d], cmd'[d] = cmd[d], at'[d] = at[d]
  PROVE  Holds(d)' = Holds(d)
BY DEF Holds

\* The owners of the mutexes are still those that the program counters say.
LEMMA StepKeepsMutexes ==
  ASSUME IInv, [Next]_vars
  PROVE  MutexesMatchSteps'
<1> USE DEF IInv
<1>t. TypeOK'
  BY StepKeepsType
<1>0. ASSUME NEW c \in Clients,
             \A d \in Clients \ {c} :
                pc'[d] = pc[d] /\ cmd'[d] = cmd[d] /\ at'[d] = at[d],
             \A a \in Accounts : mutex'[a] = c <=> a \in Holds(c)',
             \A a \in Accounts : mutex'[a] = mutex[a]
                                 \/ {mutex[a], mutex'[a]} = {c, Free}
      PROVE  MutexesMatchSteps'
  <2> SUFFICES ASSUME NEW d \in Clients, NEW a \in Accounts
               PROVE  mutex'[a] = d <=> a \in Holds(d)'
    BY DEF MutexesMatchSteps
  <2>1. CASE d = c
    BY <1>0, <2>1
  <2>2. CASE d # c
    <3>1. Holds(d)' = Holds(d)
      BY <1>0, <2>2, OthersHold
    <3>2. mutex'[a] = d <=> mutex[a] = d
      BY <1>0, <2>2, BankAssumption
    <3> QED
      BY <3>1, <3>2 DEF MutexesMatchSteps
  <2> QED
    BY <2>1, <2>2
<1>1. ASSUME NEW c \in Clients, NEW k \in Commands, Issue(c, k)
      PROVE  MutexesMatchSteps'
  <2>1. Holds(c) = {} /\ Holds(c)' = {}
    BY <1>1 DEF Issue, Alive, Goto, Holds, TypeOK
  <2> QED
    BY <1>0, <1>1, <2>1 DEF Issue, Goto, TypeOK, MutexesMatchSteps
<1>2. ASSUME NEW c \in Clients, Lock(c)
      PROVE  MutexesMatchSteps'
  <2>1. Holds(c) = {} /\ mutex[at[c]] = Free
    BY <1>2 DEF Lock, Alive, Acquire, Holds
  <2>2. Holds(c)' = {at[c]}
    <3>1. cmd[c].op = "tfromto" => at[c] = First(cmd[c])
      BY <1>2 DEF Lock, Alive, CommandsMatchSteps
    <3> QED
      BY <1>2, <3>1 DEF Lock, Goto, Holds, TypeOK
  <2> QED
    BY <1>0, <1>2, <2>1, <2>2 DEF Lock, Acquire, Goto, TypeOK, MutexesMatchSteps
<1>3. ASSUME NEW c \in Clients, LockSecond(c)
      PROVE  MutexesMatchSteps'
  <2>1. /\ Holds(c) = {First(cmd[c])}
        /\ Holds(c)' = {First(cmd[c]), Second(cmd[c])}
        /\ mutex[Second(cmd[c])] = Free
    BY <1>3 DEF LockSecond, Alive, Goto, Acquire, Holds, TypeOK
  <2>2. Second(cmd[c]) \in Accounts
    BY <1>3, OrderFacts DEF LockSecond, Alive, CommandsMatchSteps, TransferSteps
  <2> QED
    BY <1>0, <1>3, <2>1, <2>2
       DEF LockSecond, Acquire, Goto, TypeOK, MutexesMatchSteps
<1>4. ASSUME NEW c \in Clients,
             CheckTransfer(c) \/ DebitSender(c) \/ CreditReceiver(c)
      PROVE  MutexesMatchSteps'
  <2>1. Holds(c)' = Holds(c) /\ mutex' = mutex
    BY <1>4 DEF CheckTransfer, DebitSender, CreditReceiver, Alive, Goto, Holds,
                TypeOK
  <2> QED
    BY <1>0, <1>4, <2>1 DEF CheckTransfer, DebitSender, CreditReceiver, Goto,
                            TypeOK, MutexesMatchSteps
<1>5. ASSUME NEW c \in Clients, UnlockSecond(c)
      PROVE  MutexesMatchSteps'
  <2>1. pc[c] = "unlock2"
    BY <1>5 DEF UnlockSecond, Alive
  <2>2. /\ First(cmd[c]) # Second(cmd[c]) /\ at[c] = First(cmd[c])
        /\ Second(cmd[c]) \in Accounts
    BY <2>1, OrderFacts DEF CommandsMatchSteps, TransferSteps
  <2>3. /\ Holds(c) = {First(cmd[c]), Second(cmd[c])}
        /\ Holds(c)' = {First(cmd[c])}
    BY <1>5, <2>1, <2>2 DEF UnlockSecond, Goto, Holds, TypeOK
  <2>4. mutex[Second(cmd[c])] = c
    BY <2>2, <2>3 DEF MutexesMatchSteps
  <2> QED
    BY <1>0, <1>5, <2>2, <2>3, <2>4, BankAssumption
       DEF UnlockSecond, Release, Goto, TypeOK, MutexesMatchSteps
<1>6. ASSUME NEW c \in Clients, Apply(c)
      PROVE  MutexesMatchSteps'
  <2>1. Holds(c)' = Holds(c) /\ mutex' = mutex
    BY <1>6, ApplyEffect DEF Alive, Goto, Holds, TypeOK
  <2> QED
    BY <1>0, <1>6, <2>1, ApplyEffect DEF Goto, TypeOK, MutexesMatchSteps
<1>7. ASSUME NEW c \in Clients, Unlock(c)
      PROVE  MutexesMatchSteps'
  <2>1. Holds(c) = {at[c]} /\ Holds(c)' = {}
    BY <1>7 DEF Unlock, Alive, Goto, Holds, TypeOK
  <2>2. mutex[at[c]] = c
    BY <2>1 DEF MutexesMatchSteps, TypeOK
  <2> QED
    BY <1>0, <1>7, <2>1, <2>2, BankAssumption
       DEF Unlock, Release, Goto, TypeOK, MutexesMatchSteps
<1>8. ASSUME NEW c \in Clients, Report(c)
      PROVE  MutexesMatchSteps'
  <2>1. Holds(c) = {} /\ Holds(c)' = {} /\ mutex' = mutex
    BY <1>8 DEF Report, Alive, Goto, Holds, TypeOK
  <2> QED
    BY <1>0, <1>8, <2>1 DEF Report, Goto, TypeOK, MutexesMatchSteps
<1>9. ASSUME NEW c \in Clients, Kill(c)
      PROVE  MutexesMatchSteps'
  BY <1>9 DEF Kill, MutexesMatchSteps, Holds
<1>10. CASE UNCHANGED vars
  BY <1>10 DEF vars, MutexesMatchSteps, Holds
<1> QED
  BY <1>1, <1>2, <1>3, <1>4, <1>5, <1>6, <1>7, <1>8, <1>9, <1>10 DEF Next, Step

\* A client in the middle of a command executes one that was accepted and
\* that has the step it is at.
LEMMA StepKeepsCommands ==
  ASSUME IInv, [Next]_vars
  PROVE  CommandsMatchSteps'
<1> USE DEF IInv, CommandsMatchSteps, TransferSteps
<1>1. ASSUME NEW c \in Clients, NEW k \in Commands, Issue(c, k)
      PROVE  CommandsMatchSteps'
  <2>1. k \in Command /\ Accepted(k)
    BY <1>1, BankAssumption DEF Issue
  <2>2. k.op = "tfromto" => Start(k) = First(k)
    BY DEF Start, Sweeps
  <2> QED
    BY <1>1, <2>1, <2>2 DEF Issue, Goto, TypeOK, Accepted, ValidId
<1>2. ASSUME NEW c \in Clients, Lock(c)
      PROVE  CommandsMatchSteps'
  BY <1>2 DEF Lock, Alive, Goto, TypeOK, Accepted, ValidId
<1>3. ASSUME NEW c \in Clients, LockSecond(c)
      PROVE  CommandsMatchSteps'
  <2>1. /\ cmd[c] \in Command /\ Accepted(cmd[c]) /\ cmd[c].op = "tfromto"
        /\ mutex[Second(cmd[c])] = Free
    BY <1>3 DEF LockSecond, Alive, Acquire
  <2>2. First(cmd[c]) \in Holds(c) /\ First(cmd[c]) \in Accounts
    BY <1>3, <2>1, OrderFacts DEF LockSecond, Alive, Holds
  <2>3. mutex[First(cmd[c])] = c
    BY <2>2 DEF MutexesMatchSteps
  <2>4. cmd[c].id # cmd[c].to
    BY <2>1, <2>3, OrderFacts, BankAssumption
  <2> QED
    BY <1>3, <2>1, <2>4 DEF LockSecond, Alive, Goto, TypeOK, Accepted, ValidId
<1>4. ASSUME NEW c \in Clients,
             CheckTransfer(c) \/ DebitSender(c) \/ CreditReceiver(c)
             \/ UnlockSecond(c) \/ Apply(c) \/ Report(c)
      PROVE  CommandsMatchSteps'
  BY <1>4, ApplyEffect DEF CheckTransfer, DebitSender, CreditReceiver, UnlockSecond, Report, Alive, Goto, TypeOK, Accepted, ValidId
<1>5. ASSUME NEW c \in Clients, Unlock(c)
      PROVE  CommandsMatchSteps'
  BY <1>5 DEF Unlock, Alive, Goto, TypeOK, Accepted, ValidId, Sweeps, Setters
<1>6. CASE UNCHANGED <<pc, cmd, at>>
  BY <1>6 DEF Accepted, ValidId
<1> QED
  BY <1>1, <1>2, <1>3, <1>4, <1>5, <1>6 DEF Next, Step, Kill, vars

\* What a transfer has tested holds until it has been used: the accounts it
\* is about to update cannot be changed by another client.
LEMMA StepKeepsChecks ==
  ASSUME IInv, [Next]_vars
  PROVE  ChecksStillHold'
<1> USE DEF ChecksStillHold
<1>0. ASSUME NEW c \in Clients,
             \A d \in Clients \ {c} : pc'[d] = pc[d] /\ cmd'[d] = cmd[d],
             \A a \in Accounts \ Holds(c) :
                /\ cur_balance'[a] = cur_balance[a]
                /\ min_pos_balance'[a] = min_pos_balance[a]
                /\ max_pos_balance'[a] = max_pos_balance[a]
                /\ is_frozen'[a] = is_frozen[a],
             pc'[c] = "debit" => MayTransfer(cmd[c])',
             pc'[c] = "credit" =>
                ~is_frozen'[cmd'[c].id] /\ ~is_frozen'[cmd'[c].to]
      PROVE  ChecksStillHold'
  <2> SUFFICES ASSUME NEW d \in Clients, d # c, pc[d] \in {"debit", "credit"}
               PROVE  /\ pc'[d] = "debit" => MayTransfer(cmd[d])'
                      /\ pc'[d] = "credit" =>
                           ~is_frozen'[cmd'[d].id] /\ ~is_frozen'[cmd'[d].to]
    BY <1>0
  <2>1. /\ cmd[d].id \in Accounts /\ cmd[d].to \in Accounts
        /\ cmd[d].id \in Holds(d) /\ cmd[d].to \in Holds(d)
    BY TransferHolds
  <2>2. cmd[d].id \notin Holds(c) /\ cmd[d].to \notin Holds(c)
    BY <2>1, HoldsExclude DEF IInv
  <2> QED
    BY <1>0, <2>1, <2>2 DEF IInv, MayTransfer, Movable
<1>1. ASSUME NEW c \in Clients, CheckTransfer(c)
      PROVE  ChecksStillHold'
  BY <1>0, <1>1 DEF CheckTransfer, Alive, Goto, bills, TypeOK, IInv,
                    MayTransfer, Movable
<1>2. ASSUME NEW c \in Clients, DebitSender(c)
      PROVE  ChecksStillHold'
  <2>1. pc[c] = "debit" /\ cmd[c].id \in Holds(c) /\ cmd[c].id \in Accounts
    BY <1>2, TransferHolds DEF DebitSender, Alive
  <2>2. MayTransfer(cmd[c])
    BY <2>1 DEF IInv
  <2> QED
    BY <1>0, <1>2, <2>1, <2>2 DEF DebitSender, Goto, rules, TypeOK, IInv,
                                  MayTransfer
<1>3. ASSUME NEW c \in Clients, CreditReceiver(c)
      PROVE  ChecksStillHold'
  <2>1. pc[c] = "credit" /\ cmd[c].to \in Holds(c) /\ cmd[c].to \in Accounts
    BY <1>3, TransferHolds DEF CreditReceiver, Alive
  <2> QED
    BY <1>0, <1>3, <2>1 DEF CreditReceiver, Goto, rules, TypeOK, IInv
<1>4. ASSUME NEW c \in Clients, Apply(c)
      PROVE  ChecksStillHold'
  <2>1. at[c] \in Holds(c) /\ at[c] \in Accounts
    BY <1>4, ApplyEffect DEF Alive, Holds, TypeOK, IInv
  <2> QED
    BY <1>0, <1>4, <2>1, ApplyEffect DEF Goto, TypeOK, IInv
<1>5. ASSUME NEW c \in Clients, UNCHANGED bills, pc' = [pc EXCEPT ![c] = pc'[c]],
             pc'[c] \notin {"debit", "credit"},
             \A d \in Clients \ {c} : cmd'[d] = cmd[d]
      PROVE  ChecksStillHold'
  BY <1>0, <1>5 DEF bills, TypeOK, IInv
<1>6. ASSUME NEW c \in Clients, NEW k \in Commands, Issue(c, k)
      PROVE  ChecksStillHold'
  BY <1>5, <1>6 DEF Issue, Goto, TypeOK, IInv
<1>7. ASSUME NEW c \in Clients,
             Lock(c) \/ LockSecond(c) \/ UnlockSecond(c) \/ Unlock(c) \/ Report(c)
      PROVE  ChecksStillHold'
  BY <1>5, <1>7 DEF Lock, LockSecond, UnlockSecond, Unlock, Report, Goto,
                    TypeOK, IInv
<1>8. CASE UNCHANGED <<bills, pc, cmd>>
  BY <1>8 DEF bills, MayTransfer, Movable, IInv
<1> QED
  BY <1>1, <1>2, <1>3, <1>4, <1>6, <1>7, <1>8 DEF Next, Step, Kill, vars, bills

\* The inductive invariant: a client's next step says which mutexes it owns,
\* which command it executes and what it may rely on.
THEOREM Inductive == Spec => []IInv
<1>1. Init => IInv
  <2> SUFFICES ASSUME Init PROVE IInv
    OBVIOUS
  <2>1. TypeOK
    BY InitType
  <2>2. MutexesMatchSteps
    BY BankAssumption DEF Init, MutexesMatchSteps, Holds
  <2>3. CommandsMatchSteps /\ ChecksStillHold
    BY DEF Init, CommandsMatchSteps, ChecksStillHold, TransferSteps
  <2> QED
    BY <2>1, <2>2, <2>3 DEF IInv
<1>2. IInv /\ [Next]_vars => IInv'
  BY StepKeepsType, StepKeepsMutexes, StepKeepsCommands, StepKeepsChecks DEF IInv
<1> QED
  BY <1>1, <1>2, PTL DEF Spec

\* The variables keep their types; in particular no client ever indexes an
\* account that does not exist, and no balance leaves int.
THEOREM TypeCorrect == Spec => []TypeOK
BY Inductive, PTL DEF IInv
-----------------------------------------------------------------------------
(* Safety. *)

\* An account is in transit only while a client is between the debit and the
\* credit of a transfer to it.
LEMMA TransitNeedsCredit ==
  ASSUME IInv, NEW c \in Clients, NEW a \in Accounts, mutex[a] = c,
         pc[c] # "credit"
  PROVE  LedgerBalance[a] = cur_balance[a]
BY DEF LedgerBalance, InTransit

\* The accounts a client's next step accesses are its own.
LEMMA AccessesAreHeld ==
  ASSUME IInv, NEW c \in Clients, NEW a \in Accesses(c)
  PROVE  a \in Accounts /\ mutex[a] = c /\ pc[c] # "credit"
<1>1. CASE pc[c] = "apply"
  BY <1>1 DEF Accesses, Holds, IInv, TypeOK, MutexesMatchSteps
<1>2. CASE pc[c] \in {"check", "debit"}
  BY <1>2, TransferHolds DEF Accesses
<1> QED
  BY <1>1, <1>2 DEF Accesses

\* No client ever reads or updates an account in the middle of another
\* client's transfer, killed clients included.
THEOREM NoTornAccess == Spec => []AccessesAreWhole
<1>1. IInv => AccessesAreWhole
  BY AccessesAreHeld, TransitNeedsCredit DEF AccessesAreWhole
<1> QED
  BY <1>1, Inductive, PTL

\* froze cannot slip in between a transfer's check and its two updates: a
\* frozen account keeps its balance.
THEOREM FrozenStaysUntouched == Spec => FrozenIsUntouched
<1>1. IInv /\ [Next]_vars =>
        [\A a \in Accounts : is_frozen[a] => cur_balance'[a] = cur_balance[a]]_vars
  <2> SUFFICES ASSUME IInv, [Next]_vars, NEW a \in Accounts, is_frozen[a]
               PROVE  cur_balance'[a] = cur_balance[a]
    OBVIOUS
  <2>1. ASSUME NEW c \in Clients, DebitSender(c)
        PROVE  cur_balance'[a] = cur_balance[a]
    BY <2>1, TransferHolds
       DEF DebitSender, Alive, IInv, ChecksStillHold, MayTransfer, TypeOK
  <2>2. ASSUME NEW c \in Clients, CreditReceiver(c)
        PROVE  cur_balance'[a] = cur_balance[a]
    BY <2>2, TransferHolds
       DEF CreditReceiver, Alive, IInv, ChecksStillHold, TypeOK
  <2>3. ASSUME NEW c \in Clients, Apply(c)
        PROVE  cur_balance'[a] = cur_balance[a]
    BY <2>3, ApplyEffect DEF Swept, MaySweep, IInv, TypeOK
  <2>4. CASE UNCHANGED cur_balance
    BY <2>4
  <2> QED
    BY <2>1, <2>2, <2>3, <2>4
       DEF Next, Step, Issue, Lock, LockSecond, CheckTransfer, UnlockSecond,
           Unlock, Report, Kill, vars, bills
<1> QED
  BY <1>1, Inductive, PTL DEF Spec, FrozenIsUntouched
-----------------------------------------------------------------------------
(* No deadlock among live clients. *)

\* The mutex a blocked client waits for.
Wanted(c) == IF pc[c] = "lock" THEN at[c] ELSE Second(cmd[c])

\* A blocked client waits for the mutex of an account.
LEMMA WantedIsAccount ==
  ASSUME IInv, NEW c \in Clients, Blocked(c)
  PROVE  Wanted(c) \in Accounts /\ mutex[Wanted(c)] # Free
<1>1. CASE pc[c] = "lock"
  BY <1>1 DEF Blocked, Wanted, IInv, TypeOK
<1>2. CASE pc[c] = "lock2"
  BY <1>2, OrderFacts
     DEF Blocked, Wanted, IInv, CommandsMatchSteps, TransferSteps
<1> QED
  BY <1>1, <1>2 DEF Blocked

\* When everyone is blocked, whoever holds the mutex a client waits for is a
\* transfer that itself waits for a higher one.
LEMMA WaitsGoUp ==
  ASSUME IInv, ~NoCircularWait, NEW c \in Clients, Busy(c)
  PROVE  \E d \in Clients : Busy(d) /\ Wanted(d) > Wanted(c)
<1>1. /\ \A d \in Clients : Busy(d) => Blocked(d)
      /\ \A a \in Accounts : mutex[a] # Free =>
            mutex[a] \notin killed /\ ~SelfTransfer(mutex[a])
  BY DEF NoCircularWait, Jammed
<1>2. Wanted(c) \in Accounts /\ mutex[Wanted(c)] # Free
  BY <1>1, WantedIsAccount
<1> DEFINE d == mutex[Wanted(c)]
<1>3. /\ d \in Clients /\ d \notin killed /\ ~SelfTransfer(d)
      /\ Wanted(c) \in Holds(d)
  BY <1>1, <1>2 DEF IInv, TypeOK, MutexesMatchSteps
<1> HIDE DEF d
<1>4. pc[d] # "idle" /\ pc[d] # "lock"
  BY <1>3 DEF Holds
<1>5. Busy(d) /\ Blocked(d)
  BY <1>1, <1>3, <1>4 DEF Busy
<1>6. pc[d] = "lock2"
  BY <1>4, <1>5 DEF Blocked
<1>7. /\ cmd[d] \in Command /\ Accepted(cmd[d]) /\ cmd[d].op = "tfromto"
      /\ cmd[d].id # cmd[d].to
  BY <1>3, <1>6
     DEF SelfTransfer, IInv, CommandsMatchSteps, TransferSteps
<1>8. First(cmd[d]) < Second(cmd[d])
  BY <1>7, OrderFacts
<1>9. Wanted(c) = First(cmd[d]) /\ Wanted(d) = Second(cmd[d])
  BY <1>3, <1>6 DEF Holds, Wanted
<1>10. Wanted(d) > Wanted(c)
  BY <1>7, <1>8, <1>9, OrderFacts, BankAssumption DEF Accounts
<1> QED
  BY <1>3, <1>5, <1>10

\* transfer locks its two mutexes in ascending order, so clients never wait
\* for each other in a circle: were every busy client blocked behind live
\* clients, one could go from each mutex waited for to a higher one for ever.
THEOREM Deadlocks == Spec => []NoCircularWait
<1>1. IInv => NoCircularWait
  <2> SUFFICES ASSUME IInv, ~NoCircularWait PROVE FALSE
    OBVIOUS
  <2> DEFINE T == {n \in Nat : \E c \in Clients : Busy(c) /\ n = N - Wanted(c)}
  <2>1. ASSUME NEW c \in Clients, Busy(c)
        PROVE  Wanted(c) \in 0 .. N - 1
    BY <2>1, WantedIsAccount DEF NoCircularWait, Accounts
  <2>2. T # {}
    <3>1. PICK c \in Clients : Busy(c)
      BY DEF NoCircularWait, Jammed
    <3>2. N - Wanted(c) \in Nat
      BY <2>1, <3>1, BankAssumption
    <3> QED
      BY <3>1, <3>2
  <2>3. PICK n \in T : \A m \in T : ~(m < n)
    <3>1. T \subseteq Nat
      OBVIOUS
    <3> HIDE DEF T
    <3> QED
      BY <2>2, <3>1, SmallestNumber
  <2>4. PICK c \in Clients : Busy(c) /\ n = N - Wanted(c)
    OBVIOUS
  <2>5. PICK d \in Clients : Busy(d) /\ Wanted(d) > Wanted(c)
    BY <2>4, WaitsGoUp
  <2>6. N - Wanted(d) \in Nat /\ N - Wanted(d) < n
    BY <2>1, <2>4, <2>5, BankAssumption
  <2>7. N - Wanted(d) \in T
    BY <2>5, <2>6
  <2> QED
    BY <2>3, <2>6, <2>7
<1> QED
  BY <1>1, Inductive, PTL
-----------------------------------------------------------------------------
(* Refinement of the ledger. *)

\* The ledger's int is the bank's.
LEMMA SameArithmetic ==
  /\ Ledger!IntMin = IntMin /\ Ledger!IntRange = IntRange
  /\ Ledger!Accounts = Accounts
  /\ \A x : Ledger!Wrap(x) = Wrap(x)
BY DEF Ledger!IntMin, IntMin, Ledger!IntRange, IntRange, Ledger!Accounts,
       Accounts, Ledger!Wrap, Wrap, Ledger!Modulus, Modulus

\* What the ledger sees of an account depends only on its balance and on its
\* owner's step and command.
LEMMA SameOwnerSameBalance ==
  ASSUME IInv, IInv', NEW a \in Accounts, cur_balance'[a] = cur_balance[a],
         mutex'[a] = mutex[a],
         mutex[a] # Free =>
           /\ cmd'[mutex[a]] = cmd[mutex[a]]
           /\ pc'[mutex[a]] = "credit" <=> pc[mutex[a]] = "credit"
  PROVE  LedgerBalance'[a] = LedgerBalance[a]
BY DEF LedgerBalance, InTransit

\* The ledger does not see locks being taken, tests, reports and deaths.
LEMMA InvisibleSteps ==
  ASSUME IInv, IInv', NEW c \in Clients, UNCHANGED bills,
         \/ \E k \in Commands : Issue(c, k)
         \/ Lock(c) \/ LockSecond(c) \/ CheckTransfer(c)
         \/ UnlockSecond(c) \/ Unlock(c) \/ Report(c) \/ Kill(c)
  PROVE  UNCHANGED Ledger!vars
<1> SUFFICES LedgerBalance' = LedgerBalance
  BY DEF Ledger!vars, bills
<1> SUFFICES ASSUME NEW a \in Accounts
             PROVE  LedgerBalance'[a] = LedgerBalance[a]
  BY DEF LedgerBalance
<1>1. pc[c] # "credit" \/ Kill(c)
  BY DEF Issue, Lock, LockSecond, CheckTransfer, UnlockSecond, Unlock, Report, Alive
<1>2. pc'[c] # "credit" \/ Kill(c)
  BY DEF Issue, Lock, LockSecond, CheckTransfer, UnlockSecond, Unlock, Report,
         Goto, IInv, TypeOK
<1>3. \A d \in Clients \ {c} : pc'[d] = pc[d] /\ cmd'[d] = cmd[d]
  BY DEF Issue, Lock, LockSecond, CheckTransfer, UnlockSecond, Unlock, Report,
         Kill, Goto, IInv, TypeOK
<1>4. mutex'[a] = mutex[a] \/ {mutex[a], mutex'[a]} = {c, Free}
  <2>1. UnlockSecond(c) => mutex[Second(cmd[c])] = c
    BY TransferHolds, OrderFacts
       DEF UnlockSecond, Alive, IInv, MutexesMatchSteps, Holds
  <2>2. Unlock(c) => mutex[at[c]] = c
    BY DEF Unlock, Alive, IInv, TypeOK, MutexesMatchSteps, Holds
  <2> QED
    BY <2>1, <2>2 DEF Issue, Lock, LockSecond, CheckTransfer, UnlockSecond, Unlock,
         Report, Kill, Acquire, Release, IInv, TypeOK
<1>5. CASE mutex'[a] = mutex[a] /\ mutex[a] # c
  BY <1>3, <1>5, SameOwnerSameBalance DEF IInv, TypeOK, bills
<1>6. CASE Kill(c)
  BY <1>6 DEF Kill, LedgerBalance, InTransit, bills
<1>7. CASE ~Kill(c) /\ mutex'[a] = mutex[a] /\ mutex[a] = c
  <2>1. LedgerBalance[a] = cur_balance[a]
    BY <1>1, <1>7, TransitNeedsCredit
  <2>2. LedgerBalance'[a] = cur_balance'[a]
    BY <1>2, <1>7 DEF LedgerBalance, InTransit
  <2> QED
    BY <2>1, <2>2 DEF bills
<1>8. CASE ~Kill(c) /\ {mutex[a], mutex'[a]} = {c, Free}
  <2>1. LedgerBalance[a] = cur_balance[a]
    BY <1>1, <1>8, BankAssumption DEF LedgerBalance, InTransit
  <2>2. LedgerBalance'[a] = cur_balance'[a]
    BY <1>2, <1>8, BankAssumption DEF LedgerBalance, InTransit
  <2> QED
    BY <2>1, <2>2 DEF bills
<1> QED
  BY <1>4, <1>5, <1>6, <1>7, <1>8

\* The debit of a transfer is the instant at which the ledger transfers.
LEMMA DebitTransfers ==
  ASSUME IInv, IInv', NEW c \in Clients, DebitSender(c)
  PROVE  Ledger!Transfer(cmd[c].id, cmd[c].to, cmd[c].sum)
<1> DEFINE from == cmd[c].id
           to   == cmd[c].to
           sum  == cmd[c].sum
<1>1. /\ pc[c] = "debit" /\ pc' = [pc EXCEPT ![c] = "credit"]
      /\ cur_balance' = [cur_balance EXCEPT ![from] = Wrap(@ - sum)]
      /\ UNCHANGED <<min_pos_balance, max_pos_balance, is_frozen, mutex, cmd>>
  BY DEF DebitSender, Alive, Goto, rules
<1>2. /\ from \in Accounts /\ to \in Accounts /\ from # to
      /\ mutex[from] = c /\ mutex[to] = c /\ Holds(c) = {from, to}
  BY <1>1, TransferHolds
<1>3. MayTransfer(cmd[c])
  BY <1>1 DEF IInv, ChecksStillHold
<1>4. LedgerBalance[from] = cur_balance[from] /\ LedgerBalance[to] = cur_balance[to]
  BY <1>1, <1>2, TransitNeedsCredit
<1>5. LedgerBalance'[from] = Wrap(cur_balance[from] - sum)
  BY <1>1, <1>2 DEF LedgerBalance, InTransit, IInv, TypeOK
<1>6. LedgerBalance'[to] = Wrap(cur_balance[to] + sum)
  <2>1. InTransit(to)'
    BY <1>1, <1>2, BankAssumption DEF InTransit, IInv, TypeOK
  <2>2. LedgerBalance'[to] = Wrap(cur_balance'[to] + cmd'[mutex'[to]].sum)
    BY <1>1, <1>2, <2>1 DEF LedgerBalance
  <2>3. cur_balance'[to] = cur_balance[to]
    BY <1>1, <1>2 DEF IInv, TypeOK
  <2>4. cmd'[mutex'[to]].sum = sum
    BY <1>1, <1>2
  <2> QED
    BY <2>2, <2>3, <2>4
<1>7. ASSUME NEW a \in Accounts \ {from, to}
      PROVE  LedgerBalance'[a] = LedgerBalance[a]
  <2>1. mutex[a] # c
    BY <1>2 DEF IInv, MutexesMatchSteps
  <2> QED
    BY <1>1, <1>2, <2>1, SameOwnerSameBalance DEF IInv, TypeOK
<1>8. LedgerBalance' = [LedgerBalance EXCEPT ![from] = Wrap(@ - sum),
                                             ![to]   = Wrap(@ + sum)]
  BY <1>2, <1>4, <1>5, <1>6, <1>7 DEF LedgerBalance
<1>9. LedgerBalance' = [LedgerBalance EXCEPT ![from] = Ledger!Wrap(@ - sum),
                                             ![to]   = Ledger!Wrap(@ + sum)]
  BY <1>8, SameArithmetic
<1>10. Ledger!Movable(from) /\ ~is_frozen[from] /\ ~is_frozen[to]
  BY <1>3, <1>4 DEF Ledger!Movable, MayTransfer, Movable
<1> QED
  BY <1>1, <1>2, <1>9, <1>10 DEF Ledger!Transfer

\* The ledger does not see the credit: it has moved the money already.
LEMMA CreditIsInvisible ==
  ASSUME IInv, IInv', NEW c \in Clients, CreditReceiver(c)
  PROVE  UNCHANGED Ledger!vars
<1> DEFINE to   == cmd[c].to
           sum  == cmd[c].sum
<1>1. /\ pc[c] = "credit" /\ pc' = [pc EXCEPT ![c] = "unlock2"]
      /\ cur_balance' = [cur_balance EXCEPT ![to] = Wrap(@ + sum)]
      /\ UNCHANGED <<min_pos_balance, max_pos_balance, is_frozen, mutex, cmd>>
  BY DEF CreditReceiver, Alive, Goto, rules
<1>2. /\ to \in Accounts /\ mutex[to] = c /\ cmd[c].id \in Accounts
      /\ cmd[c].id # to /\ Holds(c) = {cmd[c].id, to}
  BY <1>1, TransferHolds
<1>3. LedgerBalance[to] = Wrap(cur_balance[to] + sum)
  BY <1>1, <1>2, BankAssumption DEF LedgerBalance, InTransit
<1>4. LedgerBalance'[to] = cur_balance'[to]
  BY <1>1, <1>2 DEF LedgerBalance, InTransit, IInv, TypeOK
<1>5. ASSUME NEW a \in Accounts \ {to}
      PROVE  LedgerBalance'[a] = LedgerBalance[a]
  <2>1. CASE mutex[a] = c
    <3>1. ~InTransit(a) /\ ~InTransit(a)'
      BY <1>1, <2>1 DEF InTransit
    <3>2. cur_balance'[a] = cur_balance[a]
      BY <1>1, <1>2 DEF IInv, TypeOK
    <3> QED
      BY <3>1, <3>2 DEF LedgerBalance
  <2>2. CASE mutex[a] # c
    BY <1>1, <1>2, <2>2, SameOwnerSameBalance DEF IInv, TypeOK
  <2> QED
    BY <2>1, <2>2
<1>6. LedgerBalance' = LedgerBalance
  <2>1. cur_balance'[to] = Wrap(cur_balance[to] + sum)
    BY <1>1, <1>2 DEF IInv, TypeOK
  <2>2. \A a \in Accounts : LedgerBalance'[a] = LedgerBalance[a]
    BY <1>3, <1>4, <1>5, <2>1
  <2> QED
    BY <2>2 DEF LedgerBalance
<1> QED
  BY <1>1, <1>6 DEF Ledger!vars

\* The body of an operation is about the client's one account, which the ledger
\* sees as it is, and about no other.
LEMMA ApplyTouchesOneAccount ==
  ASSUME IInv, IInv', NEW c \in Clients, Apply(c)
  PROVE  /\ at[c] \in Accounts
         /\ cmd[c] \in Command /\ Accepted(cmd[c])
         /\ cmd[c].op # "tfromto" /\ cmd[c].op \in Ops
         /\ LedgerBalance[at[c]] = cur_balance[at[c]]
         /\ LedgerBalance'[at[c]] = cur_balance'[at[c]]
         /\ \A b \in Accounts \ {at[c]} : LedgerBalance'[b] = LedgerBalance[b]
<1> DEFINE k == cmd[c]
           a == at[c]
<1>0. TypeOK
  BY DEF IInv
<1>1. /\ pc[c] = "apply" /\ pc' = [pc EXCEPT ![c] = "unlock"]
      /\ UNCHANGED <<mutex, cmd, at>>
  BY <1>0, ApplyEffect
<1>2. /\ a \in Accounts /\ mutex[a] = c
      /\ k \in Command /\ Accepted(k) /\ k.op # "tfromto" /\ k.op \in Ops
  <2>1. Holds(c) = {a}
    BY <1>1 DEF Holds
  <2> QED
    BY <1>1, <2>1 DEF IInv, TypeOK, MutexesMatchSteps, CommandsMatchSteps, Command
<1>3. LedgerBalance[a] = cur_balance[a]
  BY <1>1, <1>2, TransitNeedsCredit
<1>4. LedgerBalance'[a] = cur_balance'[a]
  <2>1. pc'[c] # "credit" /\ mutex'[a] = c
    BY <1>1, <1>2 DEF IInv, TypeOK
  <2> QED
    BY <1>1, <1>2, <2>1 DEF LedgerBalance, InTransit
<1>5. ASSUME NEW b \in Accounts \ {a}
      PROVE  LedgerBalance'[b] = LedgerBalance[b]
  <2>1. mutex[b] # c
    BY <1>1, <1>2 DEF IInv, MutexesMatchSteps, Holds
  <2>2. cur_balance'[b] = cur_balance[b]
    BY <1>2, <1>0, ApplyEffect DEF IInv, TypeOK
  <2> QED
    BY <1>1, <2>1, <2>2, SameOwnerSameBalance DEF IInv, TypeOK
<1> QED
  BY <1>2, <1>3, <1>4, <1>5

\* The body of an operation on one account is one ledger operation, or
\* nothing when it only prints or when the account must not be swept.
LEMMA ApplyIsOneOperation ==
  ASSUME IInv, IInv', NEW c \in Clients, Apply(c)
  PROVE  [Ledger!Next]_(Ledger!vars)
<1> DEFINE k == cmd[c]
           a == at[c]
<1>0. TypeOK
  BY DEF IInv
<1>1. /\ pc[c] = "apply" /\ pc' = [pc EXCEPT ![c] = "unlock"]
      /\ UNCHANGED <<mutex, cmd, at>>
  BY <1>0, ApplyEffect
<1>2. /\ a \in Accounts
      /\ k \in Command /\ Accepted(k) /\ k.op # "tfromto" /\ k.op \in Ops
  BY ApplyTouchesOneAccount
<1>3. LedgerBalance[a] = cur_balance[a] /\ LedgerBalance'[a] = cur_balance'[a]
  BY ApplyTouchesOneAccount
<1>4. \A b \in Accounts \ {a} : LedgerBalance'[b] = LedgerBalance[b]
  BY ApplyTouchesOneAccount
<1>6. LedgerBalance' = [LedgerBalance EXCEPT ![a] = cur_balance'[a]]
  BY <1>2, <1>3, <1>4 DEF LedgerBalance
<1>7. cur_balance' = cur_balance => LedgerBalance' = LedgerBalance
  BY <1>2, <1>3, <1>6 DEF LedgerBalance
<1>8. k.op \in Sweeps \cup Setters => k.sum \in Ledger!Amounts
  <2>1. k.sum \in IntRange
    BY <1>2 DEF Command
  <2> QED
    BY <1>2, <2>1, IntMaxAssumption, IntFacts
       DEF Accepted, Ledger!Amounts, IntRange
<1>9. CASE k.op \in Reads
  <2>1. UNCHANGED bills
    BY <1>9, <1>0, ApplyEffect DEF Reads, Sweeps, Freezers, bills
  <2> QED
    BY <1>7, <2>1 DEF bills, Ledger!vars
<1>10. CASE k.op \in Sweeps
  <2>1. /\ UNCHANGED <<min_pos_balance, max_pos_balance, is_frozen>>
        /\ cur_balance'[a] = Swept(k, a)
    BY <1>2, <1>10, <1>0, ApplyEffect DEF Sweeps, Freezers, IInv, TypeOK
  <2>2. CASE ~MaySweep(a)
    <3>1. LedgerBalance' = LedgerBalance
      BY <1>2, <1>3, <1>6, <2>1, <2>2 DEF Swept, LedgerBalance
    <3> QED
      BY <2>1, <3>1 DEF Ledger!vars
  <2>3. CASE MaySweep(a) /\ k.op = "addall"
    <3>1. LedgerBalance' = [LedgerBalance EXCEPT ![a] = Ledger!Wrap(@ + k.sum)]
      BY <1>2, <1>3, <1>6, <2>1, <2>3, SameArithmetic DEF Swept, LedgerBalance
    <3>2. Ledger!Enroll(a, k.sum)
      BY <1>3, <2>1, <2>3, <3>1
         DEF Ledger!Enroll, Ledger!Movable, MaySweep, Movable
    <3> QED
      BY <1>2, <1>8, <1>10, <3>2, SameArithmetic DEF Ledger!Next
  <2>4. CASE MaySweep(a) /\ k.op = "suball"
    <3>1. LedgerBalance' = [LedgerBalance EXCEPT ![a] = Ledger!Wrap(@ - k.sum)]
      BY <1>2, <1>3, <1>6, <2>1, <2>4, SameArithmetic DEF Swept, LedgerBalance
    <3>2. Ledger!Debit(a, k.sum)
      BY <1>3, <2>1, <2>4, <3>1
         DEF Ledger!Debit, Ledger!Movable, MaySweep, Movable
    <3> QED
      BY <1>2, <1>8, <1>10, <3>2, SameArithmetic DEF Ledger!Next
  <2> QED
    BY <1>10, <2>2, <2>3, <2>4 DEF Sweeps
<1>11. CASE k.op \in Setters
  <2>1. LedgerBalance' = LedgerBalance
    BY <1>7, <1>11, <1>0, ApplyEffect DEF Setters, Sweeps
  <2>2. Ledger!SetMin(a, k.sum) \/ Ledger!SetMax(a, k.sum)
    BY <1>11, <2>1, <1>0, ApplyEffect DEF Setters, Freezers, Ledger!SetMin, Ledger!SetMax
  <2> QED
    BY <1>2, <1>8, <1>11, <2>2, SameArithmetic DEF Ledger!Next
<1>12. CASE k.op \in Freezers
  <2>1. LedgerBalance' = LedgerBalance
    BY <1>7, <1>12, <1>0, ApplyEffect DEF Freezers, Sweeps
  <2>2. Ledger!SetFrozen(a, k.op = "froze")
    BY <1>12, <2>1, <1>0, ApplyEffect DEF Freezers, Setters, Ledger!SetFrozen
  <2>3. (k.op = "froze") \in BOOLEAN
    OBVIOUS
  <2> QED
    BY <1>2, <2>2, <2>3, SameArithmetic DEF Ledger!Next
<1> QED
  BY <1>2, <1>9, <1>10, <1>11, <1>12 DEF Ops

\* The detailed bank implements the atomic ledger: whatever the interleaving
\* of any number of clients, each of their steps is one ledger operation or
\* invisible to it.
THEOREM Refinement == Spec => ImplementsLedger
<1>1. Init => Ledger!Init
  <2> SUFFICES ASSUME Init PROVE Ledger!Init
    OBVIOUS
  <2>1. LedgerBalance = [a \in Accounts |-> 0]
    BY DEF Init, LedgerBalance, InTransit
  <2> QED
    BY <2>1, SameArithmetic DEF Init, Ledger!Init
<1>2. IInv /\ IInv' /\ [Next]_vars => [Ledger!Next]_(Ledger!vars)
  <2> SUFFICES ASSUME IInv, IInv', [Next]_vars
               PROVE  [Ledger!Next]_(Ledger!vars)
    OBVIOUS
  <2>1. ASSUME NEW c \in Clients,
               \/ \E k \in Commands : Issue(c, k)
               \/ Lock(c) \/ LockSecond(c) \/ CheckTransfer(c)
               \/ UnlockSecond(c) \/ Unlock(c) \/ Report(c) \/ Kill(c)
        PROVE  UNCHANGED Ledger!vars
    <3>1. UNCHANGED bills
      BY <2>1 DEF Issue, Lock, LockSecond, CheckTransfer, UnlockSecond, Unlock,
                  Report, Kill
    <3> QED
      BY <2>1, <3>1, InvisibleSteps
  <2>2. ASSUME NEW c \in Clients, DebitSender(c)
        PROVE  Ledger!Next
    <3>1. pc[c] = "debit"
      BY <2>2 DEF DebitSender, Alive
    <3>2. /\ cmd[c] \in Command /\ Accepted(cmd[c]) /\ cmd[c].op = "tfromto"
          /\ cmd[c].id \in Accounts /\ cmd[c].to \in Accounts
      BY <3>1, TransferHolds
    <3>3. cmd[c].sum \in Ledger!Amounts
      <4>1. cmd[c].sum \in IntRange /\ cmd[c].sum > 0
        BY <3>2, OrderFacts DEF Command
      <4> QED
        BY <4>1, IntMaxAssumption, IntFacts DEF Ledger!Amounts, IntRange
    <3>4. Ledger!Transfer(cmd[c].id, cmd[c].to, cmd[c].sum)
      BY <2>2, DebitTransfers
    <3> QED
      BY <3>2, <3>3, <3>4, SameArithmetic DEF Ledger!Next
  <2>3. ASSUME NEW c \in Clients, CreditReceiver(c)
        PROVE  UNCHANGED Ledger!vars
    BY <2>3, CreditIsInvisible
  <2>4. ASSUME NEW c \in Clients, Apply(c)
        PROVE  [Ledger!Next]_(Ledger!vars)
    BY <2>4, ApplyIsOneOperation
  <2>5. CASE UNCHANGED vars
    BY <2>5 DEF vars, Ledger!vars, LedgerBalance, InTransit
  <2> QED
    BY <2>1, <2>2, <2>3, <2>4, <2>5 DEF Next, Step
<1> QED
  BY <1>1, <1>2, Inductive, PTL DEF Spec, ImplementsLedger, Ledger!Spec
-----------------------------------------------------------------------------
(* Sums over the accounts. *)

\* There is a function that sums up: the recursive definition means something.
LEMMA SumsExist ==
  ASSUME NEW f \in [Accounts -> Int], NEW n \in 0 .. N
  PROVE  \E g \in [0 .. n -> Int] :
           g[0] = 0 /\ \A k \in 1 .. n : g[k] = g[k - 1] + f[k - 1]
<1> DEFINE Sums(m) == {g \in [0 .. m -> Int] :
                         g[0] = 0 /\ \A k \in 1 .. m : g[k] = g[k - 1] + f[k - 1]}
           T == {m \in Nat : m <= N /\ Sums(m) = {}}
<1> USE BankAssumption
<1>1. SUFFICES T = {}
  OBVIOUS
<1>2. SUFFICES ASSUME T # {} PROVE FALSE
  OBVIOUS
<1>3. PICK m \in T : \A l \in T : ~(l < m)
  <2>1. T \subseteq Nat
    OBVIOUS
  <2> HIDE DEF T
  <2> QED
    BY <1>2, <2>1, SmallestNumber
<1>4. m \in Nat /\ m <= N /\ Sums(m) = {}
  OBVIOUS
<1>5. CASE m = 0
  <2>1. [k \in 0 .. 0 |-> 0] \in Sums(0)
    OBVIOUS
  <2> QED
    BY <1>4, <1>5, <2>1
<1>6. CASE m > 0
  <2>1. m - 1 \in Nat /\ m - 1 <= N /\ m - 1 \notin T
    <3> HIDE DEF T
    <3> QED
      BY <1>3, <1>4, <1>6
  <2>2. PICK g : g \in Sums(m - 1)
    BY <2>1
  <2>3. m - 1 \in Accounts
    BY <1>4, <1>6 DEF Accounts
  <2> DEFINE h == [k \in 0 .. m |-> IF k = m THEN g[m - 1] + f[m - 1] ELSE g[k]]
  <2>4. h \in [0 .. m -> Int]
    BY <1>4, <1>6, <2>2, <2>3
  <2>5. h[0] = 0
    BY <1>4, <1>6, <2>2
  <2>6. ASSUME NEW k \in 1 .. m
        PROVE  h[k] = h[k - 1] + f[k - 1]
    <3>1. CASE k = m
      BY <1>4, <1>6, <3>1
    <3>2. CASE k # m
      <4>1. k \in 1 .. m - 1 /\ k \in 0 .. m /\ k - 1 \in 0 .. m /\ k - 1 # m
        BY <1>4, <1>6, <3>2
      <4>2. h[k] = g[k] /\ h[k - 1] = g[k - 1]
        BY <3>2, <4>1
      <4> QED
        BY <2>2, <4>1, <4>2
    <3> QED
      BY <3>1, <3>2
  <2>7. h \in Sums(m)
    BY <2>4, <2>5, <2>6
  <2> QED
    BY <1>4, <2>7
<1> QED
  BY <1>4, <1>5, <1>6

\* The defining equations of the sums.
LEMMA SumsDefined ==
  ASSUME NEW f \in [Accounts -> Int]
  PROVE  /\ PartialSums(f)[0] = 0
         /\ \A n \in 1 .. N : PartialSums(f)[n] = PartialSums(f)[n - 1] + f[n - 1]
<1> DEFINE IsSum(g) ==
      g = [n \in 0 .. N |-> IF n = 0 THEN 0 ELSE g[n - 1] + f[n - 1]]
<1> USE BankAssumption
<1>1. \E g : IsSum(g)
  <2>1. N \in 0 .. N
    OBVIOUS
  <2>2. PICK g \in [0 .. N -> Int] :
               g[0] = 0 /\ \A k \in 1 .. N : g[k] = g[k - 1] + f[k - 1]
    BY <2>1, SumsExist
  <2>3. IsSum(g)
    BY <2>2
  <2> QED
    BY <2>3
<1>2. PartialSums(f) = CHOOSE g : IsSum(g)
  BY DEF PartialSums
<1>3. IsSum(PartialSums(f))
  <2> HIDE DEF IsSum
  <2> QED
    BY <1>1, <1>2
<1> HIDE DEF IsSum
<1>4. PartialSums(f)
        = [n \in 0 .. N |-> IF n = 0 THEN 0 ELSE PartialSums(f)[n - 1] + f[n - 1]]
  BY <1>3 DEF IsSum
<1> QED
  BY <1>4

\* When one account changes, the sums beyond it change with it.
LEMMA SumsChange ==
  ASSUME NEW f \in [Accounts -> Int], NEW a \in Accounts, NEW v \in Int
  PROVE  /\ PartialSums(f)[N] \in Int
         /\ PartialSums([f EXCEPT ![a] = v])[N] = PartialSums(f)[N] + v - f[a]
<1> DEFINE h == [f EXCEPT ![a] = v]
           p == PartialSums(f)
           q == PartialSums(h)
           T == {n \in Nat : n <= N /\ ~(/\ p[n] \in Int
                                         /\ q[n] = p[n] + (IF a < n THEN v - f[a] ELSE 0))}
<1> USE BankAssumption
<1>1. h \in [Accounts -> Int] /\ a \in Nat /\ a < N /\ f[a] \in Int
  BY DEF Accounts
<1>2. /\ p[0] = 0 /\ q[0] = 0
      /\ \A n \in 1 .. N : p[n] = p[n - 1] + f[n - 1] /\ q[n] = q[n - 1] + h[n - 1]
  BY <1>1, SumsDefined
<1> HIDE DEF p, q
<1>3. T = {}
  <2> SUFFICES ASSUME T # {} PROVE FALSE
    OBVIOUS
  <2>1. PICK n \in T : \A l \in T : ~(l < n)
    <3>1. T \subseteq Nat
      OBVIOUS
    <3> HIDE DEF T
    <3> QED
      BY <3>1, SmallestNumber
  <2>2. n # 0
    BY <1>1, <1>2
  <2>3. n - 1 \in Nat /\ n - 1 <= N /\ n - 1 \notin T /\ n \in 1 .. N
    BY <2>1, <2>2
  <2>4. p[n - 1] \in Int /\ q[n - 1] = p[n - 1] + (IF a < n - 1 THEN v - f[a] ELSE 0)
    BY <2>3
  <2>5. n - 1 \in Accounts /\ f[n - 1] \in Int
    BY <2>3 DEF Accounts
  <2>6. p[n] = p[n - 1] + f[n - 1] /\ q[n] = q[n - 1] + h[n - 1]
    BY <1>2, <2>3
  <2>7. h[n - 1] = IF n - 1 = a THEN v ELSE f[n - 1]
    BY <2>5
  <2>8. p[n] \in Int
    BY <2>4, <2>5, <2>6
  <2>9. q[n] = p[n] + (IF a < n THEN v - f[a] ELSE 0)
    <3> HIDE DEF h, T
    <3>1. CASE a < n - 1
      BY <1>1, <2>3, <2>4, <2>5, <2>6, <2>7, <3>1
    <3>2. CASE a = n - 1
      BY <1>1, <2>3, <2>4, <2>5, <2>6, <2>7, <3>2
    <3>3. CASE a > n - 1
      BY <1>1, <2>3, <2>4, <2>5, <2>6, <2>7, <3>3
    <3> QED
      BY <1>1, <2>3, <3>1, <3>2, <3>3
  <2> QED
    BY <2>8, <2>9
<1>4. N \in Nat /\ N \notin T
  BY <1>3
<1>5. p[N] \in Int /\ q[N] = p[N] + v - f[a]
  BY <1>1, <1>4
<1> QED
  BY <1>5 DEF p, q

-----------------------------------------------------------------------------
(* What may change the money. *)

\* The instant of a transfer: k's receiver gains what its sender, which is
\* within its limits, loses.
Moves(k) ==
  /\ k.id \in Accounts /\ k.to \in Accounts /\ k.id # k.to /\ k.sum \in Int
  /\ Movable(k.id)
  /\ LedgerBalance' = [LedgerBalance EXCEPT ![k.id] = Wrap(@ - k.sum),
                                            ![k.to] = Wrap(@ + k.sum)]

\* The instant of a sweep's round: an account within its limits changes.
Sweep(c) ==
  /\ EnrollToAll(c) \/ DebitFromAll(c)
  /\ at[c] \in Accounts /\ Movable(at[c])
  /\ \A b \in Accounts \ {at[c]} : LedgerBalance'[b] = LedgerBalance[b]

\* A step that changes what the ledger sees is one of these two.
LEMMA WhatMovesMoney ==
  ASSUME IInv, IInv', [Next]_vars
  PROVE  \/ LedgerBalance' = LedgerBalance
         \/ \E c \in Clients : Moves(cmd[c]) \/ Sweep(c)
<1>1. ASSUME NEW c \in Clients,
             \/ \E k \in Commands : Issue(c, k)
             \/ Lock(c) \/ LockSecond(c) \/ CheckTransfer(c)
             \/ UnlockSecond(c) \/ Unlock(c) \/ Report(c) \/ Kill(c)
      PROVE  LedgerBalance' = LedgerBalance
  <2>1. UNCHANGED bills
    BY <1>1 DEF Issue, Lock, LockSecond, CheckTransfer, UnlockSecond, Unlock,
                Report, Kill
  <2> QED
    BY <1>1, <2>1, InvisibleSteps DEF Ledger!vars
<1>2. ASSUME NEW c \in Clients, DebitSender(c)
      PROVE  Moves(cmd[c])
  <2>1. pc[c] = "debit"
    BY <1>2 DEF DebitSender, Alive
  <2>2. /\ cmd[c].id \in Accounts /\ cmd[c].to \in Accounts /\ cmd[c].id # cmd[c].to
        /\ cmd[c].sum \in Int
    BY <2>1, TransferHolds, IntFacts DEF Command
  <2>3. Movable(cmd[c].id)
    BY <2>1 DEF IInv, ChecksStillHold, MayTransfer
  <2>4. Ledger!Transfer(cmd[c].id, cmd[c].to, cmd[c].sum)
    BY <1>2, DebitTransfers
  <2> QED
    BY <2>2, <2>3, <2>4, SameArithmetic DEF Ledger!Transfer, Moves
<1>3. ASSUME NEW c \in Clients, CreditReceiver(c)
      PROVE  LedgerBalance' = LedgerBalance
  BY <1>3, CreditIsInvisible DEF Ledger!vars
<1>4. ASSUME NEW c \in Clients, Apply(c)
      PROVE  LedgerBalance' = LedgerBalance \/ Sweep(c)
  <2>1. /\ at[c] \in Accounts
        /\ LedgerBalance[at[c]] = cur_balance[at[c]]
        /\ LedgerBalance'[at[c]] = cur_balance'[at[c]]
        /\ \A b \in Accounts \ {at[c]} : LedgerBalance'[b] = LedgerBalance[b]
    BY <1>4, ApplyTouchesOneAccount
  <2>2. CASE cur_balance'[at[c]] = cur_balance[at[c]]
    <3>1. \A b \in Accounts : LedgerBalance'[b] = LedgerBalance[b]
      BY <2>1, <2>2
    <3> QED
      BY <3>1 DEF LedgerBalance
  <2>3. CASE cur_balance'[at[c]] # cur_balance[at[c]]
    <3>1. EnrollToAll(c) \/ DebitFromAll(c)
      BY <1>4, <2>3 DEF Apply, PrintBalance, Froze, Defroze, SetMinBalance,
                        SetMaxBalance, bills
    <3>2. Movable(at[c])
      BY <2>3, <3>1 DEF EnrollToAll, DebitFromAll, MaySweep
    <3> QED
      BY <2>1, <3>1, <3>2 DEF Sweep
  <2> QED
    BY <2>2, <2>3
<1>5. CASE UNCHANGED vars
  BY <1>5 DEF vars, LedgerBalance, InTransit
<1> QED
  BY <1>1, <1>2, <1>3, <1>4, <1>5 DEF Next, Step

\* The ledger's balances are numbers.
LEMMA LedgerBalanceType ==
  ASSUME IInv
  PROVE  LedgerBalance \in [Accounts -> Int]
<1> SUFFICES ASSUME NEW a \in Accounts, InTransit(a)
             PROVE  Wrap(cur_balance[a] + cmd[mutex[a]].sum) \in Int
  BY IntFacts DEF LedgerBalance, IInv, TypeOK
<1>1. mutex[a] \in Clients /\ pc[mutex[a]] = "credit"
  BY DEF InTransit, IInv, TypeOK
<1>2. cmd[mutex[a]].sum \in Int
  BY <1>1, TransferHolds, IntFacts DEF Command
<1>3. cur_balance[a] \in Int
  BY IntFacts DEF IInv, TypeOK
<1>4. cur_balance[a] + cmd[mutex[a]].sum \in Int
  BY <1>2, <1>3
<1> QED
  BY <1>4, WrapIsCongruent

\* An account at one of its limits is rescued by a transfer from an account
\* within its limits or not at all: sweeps pass it over, and it cannot be the
\* sender.
THEOREM OnlyTransfersRescue == Spec => RescuedByATransfer
<1>1. IInv /\ IInv' /\ [Next]_vars =>
        [\A a \in Accounts :
           LET before == LedgerBalance[a]
               after  == LedgerBalance'[a]
           IN ~Movable(a) /\ ~InTransit(a) /\ after # before =>
              \E b \in Accounts \ {a} :
                 /\ Movable(b)
                 /\ Wrap(after + LedgerBalance'[b]) = Wrap(before + LedgerBalance[b])]_vars
  <2> SUFFICES ASSUME IInv, IInv', [Next]_vars, NEW a \in Accounts,
                      ~Movable(a), LedgerBalance'[a] # LedgerBalance[a]
               PROVE  \E b \in Accounts \ {a} :
                        /\ Movable(b)
                        /\ Wrap(LedgerBalance'[a] + LedgerBalance'[b])
                             = Wrap(LedgerBalance[a] + LedgerBalance[b])
    OBVIOUS
  <2>1. PICK c \in Clients : Moves(cmd[c]) \/ Sweep(c)
    BY WhatMovesMoney
  <2>2. ~Sweep(c)
    BY DEF Sweep
  <2> DEFINE b == cmd[c].id
             s == cmd[c].sum
  <2>3. /\ b \in Accounts /\ b # a /\ Movable(b) /\ a = cmd[c].to /\ s \in Int
        /\ LedgerBalance'[a] = Wrap(LedgerBalance[a] + s)
        /\ LedgerBalance'[b] = Wrap(LedgerBalance[b] - s)
    BY <2>1, <2>2, LedgerBalanceType DEF Moves
  <2> HIDE DEF b, s
  <2>4. LedgerBalance[a] \in Int /\ LedgerBalance[b] \in Int
    BY <2>3, LedgerBalanceType
  <2>5. Wrap(0 + Wrap(LedgerBalance[b] - s) + Wrap(LedgerBalance[a] + s))
          = Wrap(0 + LedgerBalance[b] + LedgerBalance[a])
    BY <2>3, <2>4, WrapKeepsSums
  <2>6. /\ Wrap(LedgerBalance[b] - s) \in Int /\ Wrap(LedgerBalance[a] + s) \in Int
    BY <2>3, <2>4, WrapIsCongruent
  <2>7. /\ 0 + Wrap(LedgerBalance[b] - s) + Wrap(LedgerBalance[a] + s)
             = LedgerBalance'[a] + LedgerBalance'[b]
        /\ 0 + LedgerBalance[b] + LedgerBalance[a] = LedgerBalance[a] + LedgerBalance[b]
    BY <2>3, <2>4, <2>6
  <2> QED
    BY <2>3, <2>5, <2>7
<1> QED
  BY <1>1, Inductive, PTL DEF Spec, RescuedByATransfer

\* Transfers keep the total of any number of accounts, modulo the width of
\* int; nothing but a sweep changes it.
THEOREM Conservation == Spec => MoneyIsConserved
<1>1. IInv /\ IInv' /\ [Next]_vars =>
        [\/ Wrap(Total') = Wrap(Total)
         \/ \E c \in Clients : EnrollToAll(c) \/ DebitFromAll(c)]_vars
  <2> SUFFICES ASSUME IInv, IInv', [Next]_vars, NEW c \in Clients, Moves(cmd[c])
               PROVE  Wrap(Total') = Wrap(Total)
    BY WhatMovesMoney DEF Sweep, Total
  <2> DEFINE L == LedgerBalance
             from == cmd[c].id
             to   == cmd[c].to
             s    == cmd[c].sum
             x    == Wrap(L[from] - s)
             y    == Wrap(L[to] + s)
             M    == [L EXCEPT ![from] = x]
  <2>1. /\ from \in Accounts /\ to \in Accounts /\ from # to /\ s \in Int
        /\ L' = [L EXCEPT ![from] = x, ![to] = y]
    BY DEF Moves
  <2>2. L \in [Accounts -> Int]
    BY LedgerBalanceType
  <2>3. L[from] \in Int /\ L[to] \in Int /\ x \in Int /\ y \in Int
    BY <2>1, <2>2, WrapIsCongruent
  <2>4. M \in [Accounts -> Int] /\ M[to] = L[to] /\ L' = [M EXCEPT ![to] = y]
    BY <2>1, <2>2, <2>3
  <2> HIDE DEF L, from, to, s, x, y
  <2>5. /\ PartialSums(L)[N] \in Int
        /\ PartialSums(M)[N] = PartialSums(L)[N] + x - L[from]
    BY <2>1, <2>2, <2>3, SumsChange
  <2>6. PartialSums([M EXCEPT ![to] = y])[N] = PartialSums(M)[N] + y - M[to]
    <3> HIDE DEF M
    <3> QED
      BY <2>1, <2>3, <2>4, SumsChange
  <2> DEFINE z == PartialSums(L)[N] - L[from] - L[to]
  <2>7. Total = PartialSums(L)[N] /\ Total' = PartialSums(L')[N]
    BY DEF Total, L
  <2>8. z \in Int /\ Total = z + L[from] + L[to] /\ Total' = z + x + y
    <3> HIDE DEF M
    <3> QED
      BY <2>3, <2>4, <2>5, <2>6, <2>7
  <2> HIDE DEF z
  <2>9. Wrap(z + x + y) = Wrap(z + L[from] + L[to])
    BY <2>1, <2>3, <2>8, WrapKeepsSums DEF x, y
  <2> QED
    BY <2>8, <2>9
<1> QED
  BY <1>1, Inductive, PTL DEF Spec, MoneyIsConserved
=============================================================================
