--------------------------- MODULE TransparentBank ---------------------------
(***************************************************************************)
(* transparent_bank: client processes that run the commands of client.cpp  *)
(* on the Bank object they share through memory (bank.h, bank.cpp).  Every *)
(* account (Bill) carries its own process-shared mutex.  A client executes *)
(* one command at a time, in steps between which the other clients run:    *)
(*                                                                         *)
(*   tfromto:      lock lock2 check debit credit unlock2 unlock            *)
(*   addall,       lock apply unlock, repeated for at = 0 .. N-1           *)
(*   suball:                                                               *)
(*   sminb, smaxb: lock apply unlock report                                *)
(*   the others:   lock apply unlock                                       *)
(*                                                                         *)
(* A client can be killed between any two steps; the mutexes are not       *)
(* robust, so those it holds stay locked.                                  *)
(***************************************************************************)
EXTENDS MachineInt

CONSTANTS
  N,            \* number of accounts, the argument of init
  Clients,      \* the client processes
  Free,         \* the owner of an unlocked mutex
  NoCmd,        \* the command of a client that waits for input
  Commands,     \* the command lines the users type
  MaxCommands,  \* bound: how many of them are accepted in all
  Mortal        \* bound: the clients that may be killed

Accounts == 0 .. N - 1

Reads    == {"pcurb", "pminb", "pmaxb"}
Setters  == {"sminb", "smaxb"}
Freezers == {"froze", "defroze"}
Sweeps   == {"addall", "suball"}
Ops      == Reads \cup Setters \cup Freezers \cup Sweeps \cup {"tfromto"}

\* A parsed command line.  id is the first account named, to the second;
\* a command ignores the fields it has no argument for.
Command == [op : Ops, id : IntRange, to : IntRange, sum : IntRange]

ASSUME BankAssumption ==
  /\ N \in Nat \ {0}
  /\ Free \notin Clients
  /\ NoCmd \notin Command
  /\ Commands \subseteq Command
  /\ MaxCommands \in Nat
  /\ Mortal \subseteq Clients

VARIABLES
  cur_balance, min_pos_balance, max_pos_balance, is_frozen,  \* Bill's fields
  mutex,    \* the owner of each account's mutex, or Free
  pc,       \* the next step of each client
  cmd,      \* the command each client executes
  at,       \* the account whose mutex the client locks first, the loop
            \* variable of a sweep
  killed,   \* the clients that are gone
  issued    \* the number of commands accepted so far

rules == <<min_pos_balance, max_pos_balance, is_frozen>>
bills == <<cur_balance, min_pos_balance, max_pos_balance, is_frozen>>
vars  == <<cur_balance, min_pos_balance, max_pos_balance, is_frozen,
           mutex, pc, cmd, at, killed, issued>>

Steps == {"idle", "lock", "lock2", "check", "debit", "credit", "apply",
          "unlock2", "unlock", "report"}

TypeOK ==
  /\ cur_balance \in [Accounts -> IntRange]
  /\ min_pos_balance \in [Accounts -> IntRange]
  /\ max_pos_balance \in [Accounts -> IntRange]
  /\ is_frozen \in [Accounts -> BOOLEAN]
  /\ mutex \in [Accounts -> Clients \cup {Free}]
  /\ pc \in [Clients -> Steps]
  /\ cmd \in [Clients -> Command \cup {NoCmd}]
  /\ at \in [Clients -> Accounts]
  /\ killed \in SUBSET Clients
  /\ issued \in 0 .. MaxCommands

\* init has run: Bank::Bank(N).
Init ==
  /\ cur_balance = [a \in Accounts |-> 0]
  /\ min_pos_balance = [a \in Accounts |-> IntMin]
  /\ max_pos_balance = [a \in Accounts |-> IntMax]
  /\ is_frozen = [a \in Accounts |-> FALSE]
  /\ mutex = [a \in Accounts |-> Free]
  /\ pc = [c \in Clients |-> "idle"]
  /\ cmd = [c \in Clients |-> NoCmd]
  /\ at = [c \in Clients |-> 0]
  /\ killed = {}
  /\ issued = 0
-----------------------------------------------------------------------------
(* What the operations decide and compute. *)

ValidId(id) == id \in Accounts

\* The tests at the head of each operation; a command that fails them
\* changes nothing.
Accepted(k) ==
  /\ k.op \in Sweeps \cup Setters \cup {"tfromto"} => k.sum > 0
  /\ k.op \notin Sweeps => ValidId(k.id)
  /\ k.op = "tfromto" => ValidId(k.to)

LockOrderAsTyped(k) == <<k.id, k.to>>

\* The order in which transfer takes its two mutexes: ascending ids.
LockOrder(k) == IF k.id <= k.to THEN <<k.id, k.to>> ELSE <<k.to, k.id>>

First(k)  == LockOrder(k)[1]
Second(k) == LockOrder(k)[2]

Start(k) ==
  CASE k.op \in Sweeps  -> 0
    [] k.op = "tfromto" -> First(k)
    [] OTHER            -> k.id

MovableUpToLimits(a) ==
  /\ cur_balance[a] <= max_pos_balance[a]
  /\ cur_balance[a] >= min_pos_balance[a]

Movable(a) ==
  /\ cur_balance[a] < max_pos_balance[a]
  /\ cur_balance[a] > min_pos_balance[a]

MayTransferToFrozen(k) == Movable(k.id) /\ ~is_frozen[k.id]

MayTransfer(k) == Movable(k.id) /\ ~is_frozen[k.id] /\ ~is_frozen[k.to]

MaySweepStuck(a) == ~is_frozen[a]

MaySweep(a) == Movable(a) /\ ~is_frozen[a]
-----------------------------------------------------------------------------
(* The steps of a client. *)

Alive(c, step) == c \notin killed /\ pc[c] = step

Goto(c, step) == pc' = [pc EXCEPT ![c] = step]

\* The main loop reads a command and calls the operation of bank.
Issue(c, k) ==
  /\ Alive(c, "idle")
  /\ issued < MaxCommands
  /\ Accepted(k)
  /\ cmd' = [cmd EXCEPT ![c] = k]
  /\ at' = [at EXCEPT ![c] = Start(k)]
  /\ issued' = issued + 1
  /\ Goto(c, "lock")
  /\ UNCHANGED <<bills, mutex, killed>>

AcquireAlways(c, a) == mutex' = [mutex EXCEPT ![a] = c]

Acquire(c, a) ==
  /\ mutex[a] = Free
  /\ mutex' = [mutex EXCEPT ![a] = c]

Release(a) == mutex' = [mutex EXCEPT ![a] = Free]

Lock(c) ==
  /\ Alive(c, "lock")
  /\ Acquire(c, at[c])
  /\ Goto(c, IF cmd[c].op = "tfromto" THEN "lock2" ELSE "apply")
  /\ UNCHANGED <<bills, cmd, at, killed, issued>>

LockSecond(c) ==
  /\ Alive(c, "lock2")
  /\ Acquire(c, Second(cmd[c]))
  /\ Goto(c, "check")
  /\ UNCHANGED <<bills, cmd, at, killed, issued>>

CheckTransferEarlyReturn(c) ==
  /\ Alive(c, "check")
  /\ Goto(c, IF MayTransfer(cmd[c]) THEN "debit" ELSE "unlock")
  /\ UNCHANGED <<bills, mutex, cmd, at, killed, issued>>

CheckTransfer(c) ==
  /\ Alive(c, "check")
  /\ Goto(c, IF MayTransfer(cmd[c]) THEN "debit" ELSE "unlock2")
  /\ UNCHANGED <<bills, mutex, cmd, at, killed, issued>>

DebitSender(c) ==
  /\ Alive(c, "debit")
  /\ cur_balance' = [cur_balance EXCEPT ![cmd[c].id] = Wrap(@ - cmd[c].sum)]
  /\ Goto(c, "credit")
  /\ UNCHANGED <<rules, mutex, cmd, at, killed, issued>>

CreditReceiverIfMovable(c) ==
  /\ Alive(c, "credit")
  /\ cur_balance' = [cur_balance EXCEPT ![cmd[c].to] =
                       IF Movable(cmd[c].to) THEN Wrap(@ + cmd[c].sum) ELSE @]
  /\ Goto(c, "unlock2")
  /\ UNCHANGED <<rules, mutex, cmd, at, killed, issued>>

CreditReceiver(c) ==
  /\ Alive(c, "credit")
  /\ cur_balance' = [cur_balance EXCEPT ![cmd[c].to] = Wrap(@ + cmd[c].sum)]
  /\ Goto(c, "unlock2")
  /\ UNCHANGED <<rules, mutex, cmd, at, killed, issued>>

UnlockSecond(c) ==
  /\ Alive(c, "unlock2")
  /\ Release(Second(cmd[c]))
  /\ Goto(c, "unlock")
  /\ UNCHANGED <<bills, cmd, at, killed, issued>>

\* The body of an operation on the one account whose mutex it has locked.
OnAccount(c, ops) ==
  /\ Alive(c, "apply")
  /\ cmd[c].op \in ops
  /\ Goto(c, "unlock")
  /\ UNCHANGED <<mutex, cmd, at, killed, issued>>

PrintBalance(c) == OnAccount(c, Reads) /\ UNCHANGED bills

Froze(c) ==
  /\ OnAccount(c, {"froze"})
  /\ is_frozen' = [is_frozen EXCEPT ![at[c]] = TRUE]
  /\ UNCHANGED <<cur_balance, min_pos_balance, max_pos_balance>>

Defroze(c) ==
  /\ OnAccount(c, {"defroze"})
  /\ is_frozen' = [is_frozen EXCEPT ![at[c]] = FALSE]
  /\ UNCHANGED <<cur_balance, min_pos_balance, max_pos_balance>>

\* One round of the loop of enroll_to_all, and of debit_from_all.
EnrollToAll(c) ==
  /\ OnAccount(c, {"addall"})
  /\ cur_balance' = IF MaySweep(at[c])
                    THEN [cur_balance EXCEPT ![at[c]] = Wrap(@ + cmd[c].sum)]
                    ELSE cur_balance
  /\ UNCHANGED rules

DebitFromAll(c) ==
  /\ OnAccount(c, {"suball"})
  /\ cur_balance' = IF MaySweep(at[c])
                    THEN [cur_balance EXCEPT ![at[c]] = Wrap(@ - cmd[c].sum)]
                    ELSE cur_balance
  /\ UNCHANGED rules

SetMinBalance(c) ==
  /\ OnAccount(c, {"sminb"})
  /\ min_pos_balance' = [min_pos_balance EXCEPT ![at[c]] = cmd[c].sum]
  /\ UNCHANGED <<cur_balance, max_pos_balance, is_frozen>>

SetMaxBalance(c) ==
  /\ OnAccount(c, {"smaxb"})
  /\ max_pos_balance' = [max_pos_balance EXCEPT ![at[c]] = cmd[c].sum]
  /\ UNCHANGED <<cur_balance, min_pos_balance, is_frozen>>

Apply(c) ==
  \/ PrintBalance(c) \/ Froze(c) \/ Defroze(c)
  \/ EnrollToAll(c) \/ DebitFromAll(c)
  \/ SetMinBalance(c) \/ SetMaxBalance(c)

\* The last unlock of a command, or of one round of a sweep.
Unlock(c) ==
  LET again == cmd[c].op \in Sweeps /\ at[c] < N - 1
  IN /\ Alive(c, "unlock")
     /\ Release(at[c])
     /\ at' = [at EXCEPT ![c] = IF again THEN @ + 1 ELSE @]
     /\ Goto(c, IF again THEN "lock"
                ELSE IF cmd[c].op \in Setters THEN "report" ELSE "idle")
     /\ UNCHANGED <<bills, cmd, killed, issued>>

\* What the last line of set_min_balance and set_max_balance prints, read
\* back from the account after the mutex is released.
ReadBack(k) == IF k.op = "sminb" THEN min_pos_balance[k.id]
                                 ELSE max_pos_balance[k.id]

Report(c) ==
  /\ Alive(c, "report")
  /\ Goto(c, "idle")
  /\ UNCHANGED <<bills, mutex, cmd, at, killed, issued>>

\* The process dies of a signal.
Kill(c) ==
  /\ c \in Mortal \ killed
  /\ killed' = killed \cup {c}
  /\ UNCHANGED <<bills, mutex, pc, cmd, at, issued>>

Step(c) ==
  \/ Lock(c) \/ LockSecond(c) \/ CheckTransfer(c)
  \/ DebitSender(c) \/ CreditReceiver(c) \/ UnlockSecond(c)
  \/ Apply(c) \/ Unlock(c) \/ Report(c)

Next ==
  \E c \in Clients :
    \/ \E k \in Commands : Issue(c, k)
    \/ Step(c)
    \/ Kill(c)

Spec == Init /\ [][Next]_vars

\* The kernel schedules every client that is neither dead nor blocked on a
\* mutex.  Typing a command and dying are up to the environment.
FairSpec == Spec /\ \A c \in Clients : WF_vars(Step(c))
-----------------------------------------------------------------------------
(* The abstract ledger. *)

\* The owner of account a's mutex has debited a sender and not yet credited a.
InTransit(a) ==
  /\ mutex[a] # Free
  /\ pc[mutex[a]] = "credit"
  /\ cmd[mutex[a]].to = a

\* The balances as the ledger sees them: a transfer happens at its debit.
LedgerBalance ==
  [a \in Accounts |-> IF InTransit(a)
                      THEN Wrap(cur_balance[a] + cmd[mutex[a]].sum)
                      ELSE cur_balance[a]]

Ledger == INSTANCE BankLedger WITH cur_balance <- LedgerBalance

\* Bank implements the ledger: with any number of clients, each step of any
\* of them is one atomic ledger operation or changes nothing the ledger sees.
ImplementsLedger == Ledger!Spec
-----------------------------------------------------------------------------
(* Safety. *)

\* The accounts whose fields client c's next step reads or writes.
Accesses(c) ==
  CASE pc[c] = "apply"              -> {at[c]}
    [] pc[c] \in {"check", "debit"} -> {cmd[c].id, cmd[c].to}
    [] OTHER                        -> {}

\* A client never reads or updates an account in the middle of another
\* client's transfer, even when that client was killed between the debit and
\* the credit: a torn transfer stays behind the mutexes of its victim.
AccessesAreWhole ==
  \A c \in Clients : \A a \in Accesses(c) : LedgerBalance[a] = cur_balance[a]

Busy(c) == c \notin killed /\ pc[c] # "idle"

Blocked(c) ==
  \/ pc[c] = "lock"  /\ mutex[at[c]] # Free
  \/ pc[c] = "lock2" /\ mutex[Second(cmd[c])] # Free

\* transfer locks the mutex of one account twice when both ids are the same.
SelfTransfer(c) == pc[c] = "lock2" /\ cmd[c].id = cmd[c].to

\* A mutex is held by somebody who will never release it.
Jammed == \E a \in Accounts : /\ mutex[a] # Free
                              /\ \/ mutex[a] \in killed
                                 \/ SelfTransfer(mutex[a])

\* Clients never wait for each other in a circle: when every busy client is
\* blocked, some mutex is held by a dead client or by a transfer from an
\* account to itself.  (transfer locks in ascending order, sweeps hold one
\* mutex at a time.)
NoCircularWait ==
  \/ \A c \in Clients : ~Busy(c)
  \/ \E c \in Clients : Busy(c) /\ ~Blocked(c)
  \/ Jammed

\* While an account is frozen its balance does not change: froze cannot slip
\* in between a transfer's check and its two updates.
FrozenIsUntouched ==
  [][\A a \in Accounts : is_frozen[a] => cur_balance'[a] = cur_balance[a]]_vars

\* For each n the sum of f over the first n accounts.
PartialSums(f) ==
  LET upTo[n \in 0 .. N] == IF n = 0 THEN 0 ELSE upTo[n - 1] + f[n - 1]
  IN  upTo

Total == PartialSums(LedgerBalance)[N]

\* Only addall and suball create or destroy money; whatever else happens, in
\* whatever order, the total (modulo the width of int) is what it was.
MoneyIsConserved ==
  [][\/ Wrap(Total') = Wrap(Total)
     \/ \E c \in Clients : EnrollToAll(c) \/ DebitFromAll(c)]_vars

\* An account whose balance has reached one of its limits is out of reach of
\* addall and suball and can give nothing: only a transfer from another
\* account, one within its limits, changes its balance again.
RescuedByATransfer ==
  [][\A a \in Accounts :
       LET before == LedgerBalance[a]
           after  == LedgerBalance'[a]
       IN ~Movable(a) /\ ~InTransit(a) /\ after # before =>
          \E b \in Accounts \ {a} :
             /\ Movable(b)
             /\ Wrap(after + LedgerBalance'[b]) = Wrap(before + LedgerBalance[b])
    ]_vars
-----------------------------------------------------------------------------
(* The inductive invariant. *)

\* The mutexes client c owns, by its position in its command.
Holds(c) ==
  CASE pc[c] = "lock2"               -> {First(cmd[c])}
    [] pc[c] \in {"check", "debit", "credit", "unlock2"}
                                     -> {First(cmd[c]), Second(cmd[c])}
    [] pc[c] \in {"apply", "unlock"} -> {at[c]}
    [] OTHER                         -> {}

MutexesMatchSteps ==
  \A c \in Clients, a \in Accounts : mutex[a] = c <=> a \in Holds(c)

TransferSteps == {"lock2", "check", "debit", "credit", "unlock2"}

CommandsMatchSteps ==
  \A c \in Clients :
    /\ pc[c] # "idle" => cmd[c] \in Command /\ Accepted(cmd[c])
    /\ pc[c] \in TransferSteps => cmd[c].op = "tfromto"
    /\ pc[c] \in TransferSteps \ {"lock2"} => cmd[c].id # cmd[c].to
    /\ pc[c] = "apply" => cmd[c].op # "tfromto"
    /\ pc[c] # "idle" /\ cmd[c].op = "tfromto" => at[c] = First(cmd[c])

ChecksStillHold ==
  \A c \in Clients :
    /\ pc[c] = "debit" => MayTransfer(cmd[c])
    /\ pc[c] = "credit" => ~is_frozen[cmd[c].id] /\ ~is_frozen[cmd[c].to]

IInv == TypeOK /\ MutexesMatchSteps /\ CommandsMatchSteps /\ ChecksStillHold
-----------------------------------------------------------------------------
(* Liveness. *)

\* Every command of a client that lives completes, unless a client died with
\* a mutex or somebody transfers from an account to itself.
CommandsComplete ==
  \A c \in Clients : Busy(c) ~> ~Busy(c) \/ Jammed

\* client.cpp's help: "tfromto <id> <id> <sum> - transfer from <ID> to <ID>
\* <sum>", with no condition on the two ids.
TransfersComplete ==
  \A c \in Clients : pc[c] = "lock2" ~> pc[c] = "idle"
-----------------------------------------------------------------------------
(* What the messages of the program say of it. *)

\* bank.cpp, set_min_balance: "Minimal possible balance of id<id> set to
\* <min>" reports the value the command has set.
ReportsWhatItSet ==
  [][\A c \in Clients : Report(c) => ReadBack(cmd[c]) = cmd[c].sum]_vars
=============================================================================
