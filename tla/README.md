# A verification of linux_homework

`linux_homework` is a collection of small, independent C++ programs written for
a course on Linux system programming: shared memory, semaphores, threads,
sockets, signals, files.  Each directory is a program (or a pair of programs) of
its own; nothing links them.  There is no documentation apart from comments,
help texts and messages.  This directory holds TLA+ models of the programs whose
logic is concurrent, of the shell and of two file and array programs, the TLC
runs that check them, and proofs for any number of processes, accounts, tasks and
so on.

## 1. Inventory

### transparent_bank: accounts and client commands (`bank.h`, `bank.cpp`, `client.cpp`)

State: a `Bank` in shared memory, an array of `Bill`s, each with a current
balance, a minimal and a maximal possible balance, a frozen flag and a
process-shared mutex.  Operations: `tfromto` (transfer), `addall`/`suball` (one
account after the other), `froze`/`defroze`, `sminb`/`smaxb`,
`pcurb`/`pminb`/`pmaxb`.  Any number of client processes call them; they
interact through the mutexes only.  Hard: interleavings of transfers with
everything else, two mutexes per transfer, clients killed while they hold
mutexes, `int` overflow, limits that are tested before the change and for one
side only.  Correct means: transfers are atomic to everybody else, money is
conserved, frozen accounts do not change, no circular wait, every command
completes.

### transparent_bank: request server (`server.cpp`)

State: `request_count` (atomic), `shutdown_requested` (plain), a condition
variable with a mutex that only the monitor locks.  Threads: main (accept loop),
a detached handler per connection (one request each), a monitor that reports
every five requests.  Hard: notifications without the mutex, a blocking
`accept` that no shutdown interrupts.  Correct means: reports count answered
requests, at least five apart, no batch is forgotten, a shutdown ends the server.

### transparent_bank: life cycle (`init.cpp`, `deinit.cpp`)

`init N` creates or truncates the shared object and constructs the `Bank` in it;
`deinit` unlinks the name; a client opens, measures and maps the object.  Nothing
makes them wait for each other.  Hard: `init` on a bank that clients use, clients
that attach in the middle of it, two runs of `init` at once.  Correct means: a
client that attached to a complete bank uses constructed accounts only and is
alone inside one, for as long as nobody runs `init` on it again.

### TH-2: parallel_scheduler

State: a task queue, a mutex, a condition variable, a stop flag, worker threads.
Operations: constructor, `run`, the worker loop, destructor.  Hard: lost and
spurious wakeups, tasks that call `run`, destruction while tasks are queued.
Correct means: tasks start in order, each once, all before the destructor
returns, and nobody touches the mutex afterwards.  The author's comment says the
program "did not work properly"; the class itself, as far as it is modelled,
does.

### DiningPhilosophers

State: five named semaphores, which outlive the program; main and five forked
philosophers.  Hard: deadlock, sticks left taken by an interrupted run.

### RPC_TCP (`server.cpp`, `client.cpp`)

State: main's array of poll entries, one socket number per connection, one
detached worker per connection.  Main and the worker both receive, answer and
close.  Hard: who takes a request, who closes, what a closed number stands for
by then.  Correct means: every request is answered once and to the one who
asked, nobody's connection is closed but one that ended.

### PS-2: shell (`shell.cpp`)

State: for the line being read, the words and the redirection of the current
command and the status of the last one executed.  Operations: read a line,
execute its commands one after the other, `exit`.  Hard: which command a sign
decides about, what a skipped command leaves behind, a sign where a file name is
expected.  Correct means: each command gets its own words and file, and which
ones are executed follows one rule.

### Servers on sockets (`chat_on_sockets`, `server-client`, `RPC`, `src/server.cpp`)

chat_on_sockets: the list of clients and its mutex; main accepts, lists, starts a
thread; the thread broadcasts.  Hard: the broadcast holds the mutex of the list
and does not advance past its sender.  server-client: a thread per client prints
what it receives under a mutex that main does not take.  Hard: messages of
several insertions, streams that arrive in parts.  Correct means: what is printed
of a client is what it sent, whole and under its name.  RPC and `src/server.cpp`
serve one connection after the other and receive once.  Hard: clients that say
nothing, requests longer than the buffer, a reset that overtakes the reply.
Correct means: whoever asks is answered.

### Processes and pipes (Smokers, IPC-2, IPC-3)

Smokers: five named semaphores, removed and created by main; a barman and one
child.  Hard: a semaphore that is taken and never given back, a second launch that
takes the names away.  IPC-2: a parent and a child that calculates primes for it,
two pipes.  Hard: either of them gone at any step, `-1` as a number and as the
sign to exit.  Correct means: the printed prime is the one asked for, no orphan is
left.  IPC-3: an array in shared memory and a named semaphore, both of which
outlive the processes.  Hard: a process killed between `lock` and `unlock`.
Correct means: readers see whole rounds, everybody gets its turn.

### Threads and files (TH-SYNC, TH-1, FS-10)

TH-SYNC: a counter that threads increment under a mutex or a semaphore.  Correct
means: no increment is lost.  TH-1: M threads sum up the parts of an array.
Hard: the remainder of N / M, more threads than elements.  Correct means: each
element is in the sum once.  FS-10: a copy that keeps holes; it asks `lseek` for
data and holes while it reads through the same descriptor.  Correct means: the
copy equals its source.

### What is left

| program | what it is |
|---|---|
| PS-1 do-command, FS-1, FS-2, FS-11, lesson3 | do not compile |
| FS-3, FS-4, FS-5 | straight-line file I/O of one process |
| IPC-1, IPC-4, IPC-5 | signal handlers that print or count |
| ENV-2 | complex numbers and a bubble sort |
| plain_HTTP_client | one request, prints the answer |

## 2. Modules

| module | models | kind |
|---|---|---|
| `MachineInt` | `int` with the wrap-around of an unoptimised build | operators and a theorem |
| `BankLedger` | what the bank promises: atomic operations on a table | abstract specification |
| `TransparentBank` | clients, mutexes and steps of `bank.cpp`/`client.cpp` | implements `BankLedger` |
| `BankServer` | `server.cpp`: main, handlers, monitor | specification |
| `TaskPool` | what a pool of workers promises | abstract specification |
| `ParallelScheduler` | `parallel_scheduler.hpp`, one action per call | implements `TaskPool` |
| `DiningPhilosophers` | `main.cpp` across several runs of the program | specification |
| `RpcServer` | RPC_TCP's main, workers, clients and socket numbers | specification |
| `Shell` | PS-2: reading and executing a line | specification and a reference definition |
| `BankLifecycle` | `init`, `deinit` and attaching clients | specification |
| `ChatServer` | chat_on_sockets | specification |
| `MessageServer` | server-client | specification |
| `IterativeServer` | RPC and `src/server.cpp` with their clients | specification |
| `Smokers` | main, barman and the child, several launches | specification |
| `PrimeCalculator` | IPC-2: parent, child, pipes and the search | specification and a reference definition |
| `SharedArray` | IPC-3: writers and readers | specification |
| `SharedCounter` | TH-SYNC with the mutex and with the semaphore | specification |
| `ArraySummary` | TH-1 | specification |
| `HoleCopy` | FS-10 | specification |
| `Processes`, `Programs` | several unrelated programs in one run | composition |
| `MC...` | constants for TLC: alphabets of commands, names, symmetry, who spawns which task | |
| `...Proofs` | theorems and their proofs | |

Operators named like another one with a suffix (`AcquireAlways`,
`TestLeavesTasks`, `PostNothing`, ...) are the same step with a plausible bug.
No specification uses them; substituted for the original they show that the
properties can fail.

### TransparentBank

The variables are `Bill`'s fields as functions of the account, `mutex[a]` (the
owner), and for each client its next step `pc`, its command `cmd`, and `at`, the
account whose mutex it locks first (the loop variable of `addall`/`suball`).
`Issue` is the main loop of `client.cpp` with the tests at the head of the
operation; a command these refuse changes nothing and is not issued.  The steps
between are those between which another process can run: each lock, transfer's
check, its debit and its credit, the body of every other operation (one access to
one account under its mutex), each unlock, and the message of `sminb`/`smaxb`,
which reads the account again without the mutex.  `Kill` removes a client
between any two steps; the mutexes are not robust and stay locked.  A transfer
from an account to itself is in the alphabet: it blocks at `lock2`, as locking a
default mutex twice does.

`LedgerBalance` is the refinement mapping: while a client stands between debit
and credit, the receiver is shown with the sum it is about to get.  Then a
transfer is one ledger step, at its debit, even if the client is killed right
after it.

### BankServer

`accept`, `recv`, the assignment of the flag, `request_count++`, each
notification, each operand of the condition under `wait`, and falling asleep are
separate actions.  `missed` records that a notification fell between the
monitor's test and its sleep, `late` which connections were accepted after
shutdown was requested.  Clients connect, send a request, send `shutdown`, or
leave without a request; `accept` may fail.  `server.cpp` is not built by the
Makefile and uses a `Painter` whose implementation is not in the repository; the
coloured output is left out.

### ParallelScheduler

One action per call on the mutex or the condition variable and per access to the
queue.  `Parent` says which task calls `run` for which; `SpuriousWakeup` is
allowed at any time.  `Join` stands for the loop of `pthread_join` and the two
destructions.

### DiningPhilosophers

`sticks` are the semaphores' values, kept across `Launch`es because `O_CREAT`
does not reset an existing semaphore.  `Interrupt` (the terminal's Ctrl-C) ends
main and all philosophers at any moment, `Kill` one philosopher, `ForkFails` main
while the philosophers already born live on.  `clean` records that a run found
every stick free.

### RpcServer

A client is its connection.  `file[n]` is the connection the socket number `n`
stands for; `accept` takes the lowest free number, as the kernel does.  A worker
has its client's name, and main and the workers share the actions `CallRecv`
(which looks the number up: a thread that waits in `recv` keeps its connection
even when the number is closed), `RecvRequest` and `RecvEnd`.  `fds` are main's
poll entries after the first; the `revents` of a new one are whatever was there.
A client sends a line, or nothing when the line is empty, and then waits; it
leaves with `exit` or is killed while it waits (killed at the prompt it looks to
the server as if it had left).  What the server computes is left out: an answer
is the name of the one who asked.  `late` records the clients that were given a
number while a worker of an earlier owner still ran.

### Shell

One action per kind of word; a line is a sequence of words over names and the
five signs.  `executeCommand` waits for the child, so a command is one step that
ends with 0 or not.  `ran` is the history of the line.  The definitions under
"what a line means" say without reading from left to right which words end a
command, which are file names, and what belongs to whom: a word is a file if an odd
number of redirections stand in a row before it, and the words of a command are
compared with the ones it was given by counting those up to each.

The shell is not what its signs suggest: a sign decides about the command on
its left, so `a && b` executes both, whatever `a` returns, and `a || b` executes
`b` only.  `SignsLookBack` is the rule it does follow.  At the end of the input
`getline` fails and the shell prompts for ever; no action of the model stands for
that.

### BankLifecycle

An object of shared memory is named after the run of `init` that created it:
`O_TRUNC` on an existing name empties the object under those who have it mapped,
`shm_unlink` only frees the name.  `backed` says whether the object has a length:
an access to a page it has lost kills the process (`ClientFaults`, `InitFaults`).
The constructor writes `size`, then one account after the other up to the size
*in the object*.  A client uses an account in two steps, lock and unlock; what it
does in between is in `TransparentBank`.

`OrderlyClientsAreSafe` speaks of clients that attached to a complete bank of an
object `Untouched`: nobody used an account of it before it was constructed.
Without this condition it is false, with three clients: one attaches early and
locks an account, the constructor resets the mutex, an orderly client locks it,
the early one unlocks it, and a second orderly client is inside together with the
first.  With two clients this cannot be seen.

### ChatServer and MessageServer

`Send` is one turn of the loop of `send_to_all`; at the sender's own entry it
changes nothing, so the action is not enabled there: the thread spins for ever
with the mutex of the list.  What the source does after its first broadcast is
never reached, and the model has no action for it (`FirstBroadcastIsTheLast` says
so and would fail if it were reached).  In `MessageServer`, `out` is the sequence
of insertions into `cout`, each atomic; `Receive` takes any part of what has
arrived.  A talker sends 1, 2, 3, ..., so `MessagesAreWhole` can say that each body
goes on where the bodies before it ended (`Continues`).

### IterativeServer

Which of the two servers runs (`answers`) is chosen in `Init`.  A request fits the
buffer, does not, or is the empty line, which is sent as nothing at all.
`reply[c] = "reset"` is a connection closed before it was read to its end: the
reset may overtake the reply.  `Held` is the state in which the server waits for
a client that has nothing more to say.

### Smokers, PrimeCalculator, SharedArray

A name of a semaphore and the semaphore are two things: `named` maps the names,
`mine` is what a launch has opened, so a second launch can remove and create the
names while the first goes on with the old ones.  In `PrimeCalculator` a pipe is a
sequence of numbers, `read` on a pipe whose writer is gone leaves the variable as
it was (`Garbage` if it never was written), `write` to one whose reader is gone
kills.  `Search` is the code's loop as a recursive function of the next candidate and
the count, cut off at `Largest`; `Reference` is the k-th prime by counting.  In
`SharedArray` every round writes the same values, so an element is either written
or still zero.

### SharedCounter, ArraySummary, HoleCopy

`inner_value++` reads and writes in two steps.  `ArraySummary` counts for each
element how often it went into a sum; what the elements are does not matter.
`HoleCopy` counts files in blocks; block k of the source holds k, or zero in a
hole, so the destination shows where each block came from.  A write that reaches
behind the buffer writes what lies there, or stops where memory ends (`Writable`).

### Processes and Programs

Each instantiates several modules and chooses in the initial state which one runs
(`program`); the variables of the others never change.  Their properties are the
properties of the instances under their own names.  They take the constants of
all their instances, so that what is proved of them holds for every value;
`Processes.cfg` and `Programs.cfg` give the values for TLC, and `MCProcesses` the
numbers typed into the prime calculator.  `Processes` holds the programs that are
checked for liveness too, `Programs` those that are not.

## 3. Runs

| run | checks | instance |
|---|---|---|
| `bank_mixed` | atomicity, freezing, conservation, refinement | 2 clients, 2 accounts, 14 commands, 3 in all, one mortal client |
| `bank_contention` | `NoCircularWait`, `CommandsComplete` | 3 clients, 3 accounts, transfers in every direction, a self-transfer, sweeps, one mortal client |
| `server` | spacing of reports, late connections, oversleeping, `NextConnectionEndsMain` | 3 connections, report every 2 |
| `scheduler` | no task forgotten, nothing used after destruction, refinement of `TaskPool`, tasks finish, destructor returns | 3 workers, 3 tasks, one submitted by another |
| `rpc` | closes, answers and poll entries, requests answered, connections accepted | 2 clients, 2 lines each |
| `processes` | philosophers: taking turns, deadlock, lost sticks, a clean run ends | 4 philosophers, 2 rounds, 2 launches, kills and interrupts |
| | one connection after the other: `ServedUnlessHeld` | 2 callers, a backlog of 1, 3 kinds of request |
| | smokers: `OneOrderIsServed` | 2 launches |
| | shared array: `NoTornRead`, `TurnsUnlessKilledInside` | 2 writers, 2 readers, 3 elements, kills and restarts |
| | primes: `ResultsAreForTheAsked`, `ChildEndsWithParent` | 7 inputs, 3 lines |
| `programs` | ledger: `DeadForever` | 2 accounts, int of 6 values, all sums |
| | life cycle: `OrderlyClientsAreSafe` | 2 runs of `init`, 3 clients, 1 account, any number of `deinit`s |
| | shell: words and files of the executed commands, which ones are executed | all lines of at most 6 words over 2 names |
| | chat: `FirstBroadcastIsTheLast` | 3 chatters |
| | server-client: `MessagesAreWhole` | 2 talkers, 2 units each |
| | counter: `NothingIsLost` | 3 threads, 2 rounds, both locks |
| | array summary: `SummedOnce` | N up to 5, M up to 3, zero included |
| | copy with holes: `ExactIffAligned` | all files of at most 7 blocks, a buffer of 2 |

The inductive invariants (`IInv`, `SInv`, `PInv`, `RInv`, `CInv`, `ArrayInv`,
`PrimeInv`, `LifeInv`, `SumInv`, `ChatInv`, `TalkInv`, `ShellInv`,
`CopyInv`), the type invariants and some of their consequences (`ReportsAreEarned`,
`ExecutedOnce`) are proved, section 4, and no longer checked by a run as well.

Five runs end in a violation, each of something the program says of itself:

| run | the text | what happens |
|---|---|---|
| `bank_self` | help: `tfromto <id> <id> <sum>` for any ids | the same id twice locks one mutex twice and blocks for ever |
| `bank_report` | "Minimal possible balance ... set to" | shows what another client has set in the meantime |
| `server_batch` | comment "thread that prints every 5 requests" | the wakeup is lost and the batch never reported |
| `server_shutdown` | "Server shutting down." | main stays in `accept` |
| `hole_copy` | "Successfully copied" | the copy differs from its source |

Bounds.  `IntMax = 3` gives `int` eight values: enough for a sum to overflow from
a balance reached by two commands and for limits of either sign.  Two accounts
are all that a transfer relates; a third is there where circular waits could need
one.  Three commands let two clients be inside a command while a third changes
a limit or a flag.  With `ReportEvery = 2` three connections give a batch
and one request more, which the report may or may not include; that later
batches are as far apart is proved (`SpacedReports`).  Six words hold three
commands with their signs, and rows of redirections followed by a command.
Four philosophers are the smallest table with two pairs that do not share a stick.
Two callers and a backlog of one let one be served, one wait and find the backlog
full; two launches are all that the names of the semaphores relate; a third
chatter can stand before the first to broadcast, behind it, or come late.  Two
runs of `init` with three clients let a client be early on a bank, two be orderly
on the same one, and any of them be on an object whose name has gone to another;
accounts do not interact, so one is enough.  The inputs
of the primes hold the ones without a prime, -1 among them, and primes behind
which the search has to skip composites.  Files of seven blocks have three full
buffers and a part of one, with a hole or data at each end of each.
Runs with liveness use no symmetry.  The
constants `MaxCommands`, `MaxLaunches`, `Mortal` are bounds of the models; the
proofs hold for every value of them.

More that the models show and no message denies: `transfer` tests only the
sender's limits and `addall` tests the balance before it adds, so a credit can
lift a balance above its maximum; and with the default limits a credit can
overflow `int` (`Wrap`).

`RpcServer` has no violation run because nothing in RPC_TCP says what it
promises, but its properties say when things go wrong: a late worker closes the
connection of the next client with its number (`CutByALateWorker`), or answers a
killed client's request to it (`StrayAnswersHadNoAsker`), and main, blocked on a
request that the worker took, accepts nobody (`MainIsHeld`).  Each of these
states is reachable: the property fails without its exception.

Of the small programs they show:

* The chat server's first broadcast is the last thing it does: its thread
  spins with the mutex of the list, main stops at the next client.
* Smokers serves one order, for tobacco, and then none, ever: nobody gives
  `sem_barman_ready` back, and paper and matches have no smoker.
* One client that connects and says nothing, or sends an empty line to the RPC
  server, holds everybody behind it for as long as it stays; a request longer
  than the buffer may cost its sender the reply.
* `init` on a bank in use kills its clients or makes them share accounts; a
  client that maps the object before its length is set maps nothing and dies at
  its first command.
* A process killed inside the shared array jams it for every later one.
* Typing -1 ends the child that calculates, and the parent prints whatever its
  variable holds for it and is killed at the next number.
* `N / M` with no threads kills the array summary.
* A file with holes is copied exactly only if it ends in data and data ends
  wherever a buffer does (or is empty).

Deadlock is not checked where the system may stop: when all commands are issued,
all tasks done, all clients gone, and where a process waits for ever on a mutex
of a dead or self-blocked one, which is what `NoCircularWait` and `NoDeadlock`
are about.

### Fairness

`FairSpec` of each module gives weak fairness to every process or thread of the
program: the kernel schedules each that can run.  Users, clients, signals,
failures of `accept`, spurious wakeups and deaths have none.  The scheduler also
assumes strong fairness of taking its mutex: with spurious wakeups other workers
can take it again and again, and glibc's mutex does not promise a turn, but the
kernel's scheduling makes a thread that finds it free infinitely often get it.
The bank needs no such assumption in `bank_contention` because the number of
commands is finite: the run says nothing of a client that others starve with
endless commands.  Writers and readers of the shared array get strong fairness of taking
its semaphore, because each sleeps two seconds before it comes back to it.  A
program of `Processes` that was not chosen has no step its fairness could ask
for.  `CommandsComplete` excuses a command when a mutex is `Jammed`,
held by a dead client or a self-transfer.

## 4. Proofs

All proofs are checked by TLAPS for every value of the constants.

* `MachineInt!WrapType`: an `int` operation yields an `int`.  The type theorems
  rest on it.
* `BankLedgerProofs`: types; `DeadBanksStayDead`.
* `TransparentBankProofs`: `IInv` is inductive.  It says who owns which mutex at
  which step (`MutexesMatchSteps`), that commands in progress are accepted ones
  (`CommandsMatchSteps`), and that what a transfer has checked still holds when
  it is used (`ChecksStillHold`); the last is what neither the types nor the
  mutexes give alone.  From it follow `NoTornAccess`, `FrozenStaysUntouched`, the
  absence of circular waits and the refinement of `BankLedger`.  For the circular
  waits: in a state without dead owners and self-transfers, who owns the mutex a
  blocked client waits for is itself blocked and waits for one with a higher
  number; the accounts are finitely many, so some client is not blocked (a
  minimal counterexample over the natural numbers).
* `BankServerProofs`: `SInv` is inductive.  `NothingForgotten` is the invariant
  form of "only a missed notification makes the monitor oversleep": it holds at
  each operand of the condition.  `CountIsExact` relates the counter to the set of
  answered clients.
* `ParallelSchedulerProofs`: `SInv` is inductive; refinement of `TaskPool`; no
  task is lost, executed twice, or executed after destruction.
* `RpcServerProofs`: `RInv` is inductive.  Main keeps the number it serves,
  because only main accepts (`MainKeepsItsNumber`); nobody else uses the number of
  a client that is not late (`NumbersAreKept`); and a request of such a client is
  in one place at a time (`OneAnswerPerRequest`), although two threads receive.
* `TransparentBankProofs` also has the two properties of sums.
  `OnlyTransfersRescue` is arithmetic modulo the width of `int`: what an operation
  writes is congruent to the sum it has calculated, and a debit and the credit it
  stands for cancel.  For `Conservation` the balances are summed up by a recursive
  function over the accounts (`PartialSums`).  `SumsExist` shows that there is such
  a function, `SumsDefined` gives its equations, `SumsChange` how the total changes
  with one account, each by a minimal counterexample over the natural numbers;
  every step changes one account, or two by opposite amounts modulo the width.

`ProcessesProofs`, about `Processes`:

* `PInv` of the philosophers is inductive; neighbours take turns, sticks come
  back, and no deadlock in a clean run without deaths, with the sticks ordered
  1, 2, ..., N-1, 0: the swap of philosopher 0 makes everybody take sticks in that
  order.
* `ArrayInv` is inductive.  Who is inside has the semaphore at zero, and whoever is
  killed inside leaves it there (`OneHasTheArray`), so a writer's round is complete
  whenever a reader starts, and a reader sees one value of everything
  (`RoundsAreWhole`).  It is assumed that nobody both writes and reads, as the two
  programs of IPC-3 do (`ArrayAssumption`).
* `PrimeInv` is inductive.  While the parent does not wait nothing is under way;
  while it waits its number is in one of five places (`UnderWay`).  `SearchIsRight`
  is about the algorithm alone: divisors up to the root are enough
  (`RootIsEnough`), the recursive function exists (`SearchExists`, by a minimal
  counterexample), and at each candidate the loop has counted the primes below it
  (`SearchGoesOn`).  Together they give `AnswersBelongToQuestions`.  Assumed are that
  what an uninitialised variable holds can be told from an input
  (`GarbageAssumption`) and that the cut-off `Largest` is not below the primes asked
  for (`LargestAssumption`), both about the model's bounds and not about the code.

`ProgramsProofs`, about `Programs`:

* `CInv` of the counters is inductive.  The calls that have written are a set of
  pairs of a thread and a round (`Counted`), which each write extends by one, so that
  the counter is the set's cardinality; at the joins the set is all of
  `Threads \X (1 .. Rounds)`.  It is assumed that the threads are finitely many.
* `LifeInv` is inductive.  Objects are named after runs of `init` that have got
  that far, accounts are built in order up to the size in the object
  (`BuiltInOrder`), a client knows an object that exists (`Attached`), and the
  mutex of an account is held by the one orderly client inside (`OrderIsKept`) as
  long as the object is untouched and not reopened (`Relies`).
* `SumInv` is inductive.  The parts of the threads are `N / M` elements each and the
  rest for the last, so they are disjoint and cover the array (`Parts`); a thread has
  added each element of its part up to where it is once, and main has added the
  parts of the threads it has joined (`PartsAreSummed`, `MainKnowsItsPlace`).
* `ChatInv` is inductive.  A sender holds the mutex of the list and its index has
  not passed its own entry, which is on the list for good (`SendersStay`); so nobody
  else sends, and main stops at the next newcomer (`LateIsStuck`).
* `TalkInv` is inductive.  What was sent is what was printed, then what the thread
  has received and not printed, then the stream (`NothingOvertakes`); who stands
  between header and body holds the mutex, and behind the header there is only
  news of connections (`OneAtATime`).  The names of talkers, chatters and runs of
  `init` are assumed to differ from those that stand for nobody
  (`TalkAssumption`, `ChatAssumption`, `LifeAssumption`).
* `ShellInv` is inductive: at each word the shell has collected the words and the
  redirection of the command that would end there (`CollectsItsOwn`), and the sign
  at each end it has passed has been followed (`DecidesInOrder`).  `FileAfter` is the
  lemma that makes the two readings of a line meet: that an odd number of
  redirections stand before a word can be told from the word before it alone.  It
  finds the beginning of a row as the smallest of its positions, so no induction over
  the line is needed; every step then extends the sets of a command by one position
  (`PartGrows`, `ArgsGrow`), or begins new ones (`PartBegins`).  The names in a line
  are assumed to be no signs (`LineAssumption`), which is how the code tells them
  apart.
* `CopyInv` is inductive, and gives both directions of `ExactIffAligned`.  As long as
  every boundary of buffers has been clean the buffer holds what is at `offset` and
  what has been passed is copied (`OnTrack`).  At the first boundary that is not, the
  file is not aligned, and either a block behind the buffer has been written, or the
  next buffer starts with a hole and meets data (`OffTrack`); in both cases the next
  turn of the inner loop passes a block of data that is not in its place, and nothing
  is ever written again in front of the write position (`Wrong`).  `Boundaries` is the
  arithmetic: multiples of the buffer's size are a buffer apart.  The size of the
  buffer is any positive number (`CopyAssumption`).

Model-checked only: liveness (`CommandsComplete`, `NextConnectionEndsMain`,
`TasksFinish`, `DestructorReturns`, `RunsEnd`, `RequestsAreAnswered`,
`ConnectionsAreAccepted`, `ServedUnlessHeld`, `OneOrderIsServed`,
`TurnsUnlessKilledInside`, `ChildEndsWithParent`), which TLAPS does not prove.
Every safety invariant and every action property of a passing run has a theorem.

## 5. Not modelled

Text: parsing, formatting, messages (except where a property is about one).
Set-up of sockets, semaphores, threads and pipes and its failures, except those
named above: among them a failing `pthread_create` in the scheduler, the poll
array's tenth client in RPC_TCP, and a constructor of `shared_array` that fails
and leaves its members uninitialised.  Errors of `read` and `write` in FS-10.
The arithmetic the servers do.

The programs under "What is left" in section 1.  PS-1, FS-1, FS-2, FS-11, `lesson3`
and TH-SYNC's spin lock do not compile (FS-11's loop would also start from an
uninitialised counter and never use the second offset).  In IPC-4 pending
`SIGUSR2` coalesce, so its count is a lower bound; nothing depends on it.  FS-3,
FS-4, FS-5, IPC-1, IPC-5 and `plain_HTTP_client` are straight-line I/O; `ENV-2`
sorts and calculates in floating point.

## 6. Plan

All that is left to model is at the edges (section 5).  Every safety property that
is checked is proved.  What could still be proved:

1. That further components implement small abstract specifications, next to
   `TaskPool` and `BankLedger`: the report of the server, the calls of RPC_TCP.
2. The safety part of the liveness properties: for each the invariant that says who
   is enabled to take the next step (as `NoDeadlock` does for the philosophers), so
   that only the appeal to fairness is left to TLC.
