-------------------------- MODULE ParallelScheduler --------------------------
(***************************************************************************)
(* TH-2/parallel_scheduler.hpp: a pool of threads that take tasks from a   *)
(* queue protected by queue_mutex and sleep on queue_cv while it is empty. *)
(* The thread that owns the scheduler (Main) constructs it, calls run, and *)
(* destroys it; a task may call run as well.  Each action is one call or   *)
(* one access to the shared state; between two of them every other thread  *)
(* may move, as far as the mutex lets it.                                  *)
(***************************************************************************)
EXTENDS Sequences, Naturals

CONSTANTS Tasks, Workers, Main, Parent, NoTask,
          Free   \* the owner of the mutex when it is unlocked

ASSUME SchedulerAssumption ==
  /\ Workers # {}
  /\ Main \notin Workers
  /\ NoTask \notin Tasks
  /\ Main \notin Tasks
  /\ Main # NoTask
  /\ Parent \in [Tasks -> Tasks \cup {Main}]
  /\ Free \notin Workers \cup {Main}

Threads == Workers \cup {Main}

VARIABLES
  task_queue, queue_mutex, stop,
  pc,        \* the next step of each thread
  current,   \* the task a worker has taken from the queue
  arg,       \* the task a thread hands over, while it is inside run
  submitted, \* the calls of run that have been made
  finished   \* history: the tasks that have been executed

vars == <<task_queue, queue_mutex, stop, pc, current, arg, submitted, finished>>

RunSteps  == {"run_lock", "emplace", "signal", "run_unlock"}
MainSteps == RunSteps \cup {"construct", "main", "stop_lock", "stop_set",
                            "broadcast", "stop_unlock", "join", "destroyed"}
WorkerSteps == RunSteps \cup {"unborn", "lock", "test", "waiting", "take",
                              "unlock", "task", "leave", "exited"}

TypeOK ==
  /\ task_queue \in Seq(Tasks)
  /\ queue_mutex \in Threads \cup {Free}
  /\ stop \in BOOLEAN
  /\ pc \in [Threads -> MainSteps \cup WorkerSteps]
  /\ pc[Main] \in MainSteps
  /\ \A w \in Workers : pc[w] \in WorkerSteps
  /\ current \in [Workers -> Tasks \cup {NoTask}]
  /\ arg \in [Threads -> Tasks \cup {NoTask}]
  /\ submitted \in SUBSET Tasks
  /\ finished \in SUBSET Tasks

Init ==
  /\ task_queue = <<>>
  /\ queue_mutex = Free
  /\ stop = FALSE
  /\ pc = [t \in Threads |-> IF t = Main THEN "construct" ELSE "unborn"]
  /\ current = [w \in Workers |-> NoTask]
  /\ arg = [t \in Threads |-> NoTask]
  /\ submitted = {}
  /\ finished = {}

At(th, step) == pc[th] = step

Goto(th, step) == pc' = [pc EXCEPT ![th] = step]

\* pthread_mutex_lock
Lock(th) == queue_mutex = Free /\ queue_mutex' = th

Unlock == queue_mutex' = Free
-----------------------------------------------------------------------------
(* The constructor: the first threads run while the others are created. *)

CreateThread(w) ==
  /\ At(Main, "construct") /\ At(w, "unborn")
  /\ Goto(w, "lock")
  /\ UNCHANGED <<task_queue, queue_mutex, stop, current, arg, submitted, finished>>

Constructed ==
  /\ At(Main, "construct") /\ \A w \in Workers : pc[w] # "unborn"
  /\ Goto(Main, "main")
  /\ UNCHANGED <<task_queue, queue_mutex, stop, current, arg, submitted, finished>>
-----------------------------------------------------------------------------
(* run *)

\* Where thread th is when it executes the code of task (or program) p.
Executes(th, p) ==
  IF th = Main THEN p = Main /\ At(Main, "main")
               ELSE p = current[th] /\ At(th, "task")

CallRun(th, t) ==
  /\ Executes(th, Parent[t])
  /\ t \notin submitted
  /\ submitted' = submitted \cup {t}
  /\ arg' = [arg EXCEPT ![th] = t]
  /\ Goto(th, "run_lock")
  /\ UNCHANGED <<task_queue, queue_mutex, stop, current, finished>>

RunLock(th) ==
  /\ At(th, "run_lock")
  /\ Lock(th)
  /\ Goto(th, "emplace")
  /\ UNCHANGED <<task_queue, stop, current, arg, submitted, finished>>

\* task_queue.emplace
EmplaceFirst(th) ==
  /\ At(th, "emplace")
  /\ task_queue' = <<arg[th]>> \o task_queue
  /\ Goto(th, "signal")
  /\ UNCHANGED <<queue_mutex, stop, current, arg, submitted, finished>>

Emplace(th) ==
  /\ At(th, "emplace")
  /\ task_queue' = Append(task_queue, arg[th])
  /\ Goto(th, "signal")
  /\ UNCHANGED <<queue_mutex, stop, current, arg, submitted, finished>>

Waiting == {w \in Workers : pc[w] = "waiting"}

\* pthread_cond_signal: wakes one of the sleeping workers, if there is one.
SignalNobody(th) ==
  /\ At(th, "signal")
  /\ Goto(th, "run_unlock")
  /\ UNCHANGED <<task_queue, queue_mutex, stop, current, arg, submitted, finished>>

Signal(th) ==
  /\ At(th, "signal")
  /\ \/ Waiting = {} /\ Goto(th, "run_unlock")
     \/ \E w \in Waiting :
          pc' = [pc EXCEPT ![th] = "run_unlock", ![w] = "lock"]
  /\ UNCHANGED <<task_queue, queue_mutex, stop, current, arg, submitted, finished>>

RunUnlock(th) ==
  /\ At(th, "run_unlock")
  /\ Unlock
  /\ arg' = [arg EXCEPT ![th] = NoTask]
  /\ Goto(th, IF th = Main THEN "main" ELSE "task")
  /\ UNCHANGED <<task_queue, stop, current, submitted, finished>>

Run(th) == RunLock(th) \/ Emplace(th) \/ Signal(th) \/ RunUnlock(th)
-----------------------------------------------------------------------------
(* worker_thread *)

WorkerLock(w) ==
  /\ At(w, "lock")
  /\ Lock(w)
  /\ Goto(w, "test")
  /\ UNCHANGED <<task_queue, stop, current, arg, submitted, finished>>

\* The condition of the wait loop and the test after it.  Waiting releases
\* the mutex in the same step.
TestLeavesTasks(w) ==
  /\ At(w, "test")
  /\ \/ /\ task_queue = <<>> /\ ~stop
        /\ Goto(w, "waiting")
        /\ Unlock
     \/ /\ stop
        /\ Goto(w, "leave")
        /\ UNCHANGED queue_mutex
     \/ /\ ~stop /\ task_queue # <<>>
        /\ Goto(w, "take")
        /\ UNCHANGED queue_mutex
  /\ UNCHANGED <<task_queue, stop, current, arg, submitted, finished>>

Test(w) ==
  /\ At(w, "test")
  /\ \/ /\ task_queue = <<>> /\ ~stop
        /\ Goto(w, "waiting")
        /\ Unlock
     \/ /\ task_queue = <<>> /\ stop
        /\ Goto(w, "leave")
        /\ UNCHANGED queue_mutex
     \/ /\ task_queue # <<>>
        /\ Goto(w, "take")
        /\ UNCHANGED queue_mutex
  /\ UNCHANGED <<task_queue, stop, current, arg, submitted, finished>>

\* pthread_cond_wait may return without a signal.
SpuriousWakeup(w) ==
  /\ At(w, "waiting")
  /\ Goto(w, "lock")
  /\ UNCHANGED <<task_queue, queue_mutex, stop, current, arg, submitted, finished>>

Take(w) ==
  /\ At(w, "take")
  /\ current' = [current EXCEPT ![w] = Head(task_queue)]
  /\ task_queue' = Tail(task_queue)
  /\ Goto(w, "unlock")
  /\ UNCHANGED <<queue_mutex, stop, arg, submitted, finished>>

WorkerUnlock(w) ==
  /\ At(w, "unlock")
  /\ Unlock
  /\ Goto(w, "task")
  /\ UNCHANGED <<task_queue, stop, current, arg, submitted, finished>>

\* task() returns.
TaskReturns(w) ==
  /\ At(w, "task")
  /\ finished' = finished \cup {current[w]}
  /\ current' = [current EXCEPT ![w] = NoTask]
  /\ Goto(w, "lock")
  /\ UNCHANGED <<task_queue, queue_mutex, stop, arg, submitted>>

Leave(w) ==
  /\ At(w, "leave")
  /\ Unlock
  /\ Goto(w, "exited")
  /\ UNCHANGED <<task_queue, stop, current, arg, submitted, finished>>

Work(w) ==
  WorkerLock(w) \/ Test(w) \/ Take(w) \/ WorkerUnlock(w) \/ TaskReturns(w) \/ Leave(w)
-----------------------------------------------------------------------------
(* The destructor. *)

Destroy ==
  /\ At(Main, "main")
  /\ Goto(Main, "stop_lock")
  /\ UNCHANGED <<task_queue, queue_mutex, stop, current, arg, submitted, finished>>

StopLock ==
  /\ At(Main, "stop_lock")
  /\ Lock(Main)
  /\ Goto(Main, "stop_set")
  /\ UNCHANGED <<task_queue, stop, current, arg, submitted, finished>>

StopSet ==
  /\ At(Main, "stop_set")
  /\ stop' = TRUE
  /\ Goto(Main, "broadcast")
  /\ UNCHANGED <<task_queue, queue_mutex, current, arg, submitted, finished>>

BroadcastAsSignal ==
  /\ At(Main, "broadcast")
  /\ \/ Waiting = {} /\ Goto(Main, "stop_unlock")
     \/ \E w \in Waiting :
          pc' = [pc EXCEPT ![Main] = "stop_unlock", ![w] = "lock"]
  /\ UNCHANGED <<task_queue, queue_mutex, stop, current, arg, submitted, finished>>

Broadcast ==
  /\ At(Main, "broadcast")
  /\ pc' = [t \in Threads |-> IF t = Main THEN "stop_unlock"
                              ELSE IF t \in Waiting THEN "lock" ELSE pc[t]]
  /\ UNCHANGED <<task_queue, queue_mutex, stop, current, arg, submitted, finished>>

StopUnlock ==
  /\ At(Main, "stop_unlock")
  /\ Unlock
  /\ Goto(Main, "join")
  /\ UNCHANGED <<task_queue, stop, current, arg, submitted, finished>>

JoinNobody ==
  /\ At(Main, "join")
  /\ Goto(Main, "destroyed")
  /\ UNCHANGED <<task_queue, queue_mutex, stop, current, arg, submitted, finished>>

\* The threads are joined one after the other and the mutex and the condition
\* variable are destroyed.
Join ==
  /\ At(Main, "join") /\ \A w \in Workers : pc[w] = "exited"
  /\ Goto(Main, "destroyed")
  /\ UNCHANGED <<task_queue, queue_mutex, stop, current, arg, submitted, finished>>

Destructor == StopLock \/ StopSet \/ Broadcast \/ StopUnlock \/ Join
-----------------------------------------------------------------------------
Construct == (\E w \in Workers : CreateThread(w)) \/ Constructed

Next ==
  \/ Construct
  \/ \E th \in Threads : Run(th) \/ \E t \in Tasks : CallRun(th, t)
  \/ \E w \in Workers : Work(w) \/ SpuriousWakeup(w)
  \/ Destroy \/ Destructor

Spec == Init /\ [][Next]_vars

\* Every thread is scheduled and every task returns.  A thread that waits for
\* the mutex gets it even if spurious wakeups keep the others busy with it.
FairSpec ==
  /\ Spec
  /\ WF_vars(Construct)
  /\ WF_vars(Destructor)
  /\ SF_vars(StopLock)
  /\ \A th \in Threads : WF_vars(Run(th)) /\ SF_vars(RunLock(th))
  /\ \A w \in Workers : WF_vars(Work(w)) /\ SF_vars(WorkerLock(w))
-----------------------------------------------------------------------------
(* Properties. *)

Pool == INSTANCE TaskPool WITH
          queue <- task_queue, job <- current, open <- (pc[Main] # "destroyed")

\* The scheduler implements the task pool: tasks start in the order in which
\* they entered the queue, no two workers take the same one, and the
\* destructor returns only when all have been executed.
ImplementsTaskPool == Pool!Spec

\* No task is executed twice or by two workers, or is queued again once it
\* has been taken.
ExecutedOnce == Pool!ExecutedOnce

\* Workers never all sleep over a queued task, unless the thread that queued it
\* is about to signal.
NoForgottenTask ==
  task_queue # <<>> /\ Waiting = Workers => \E th \in Threads : pc[th] = "signal"

\* Nobody uses the mutex or the condition variable once they are destroyed.
DestroyedUnused ==
  pc[Main] = "destroyed" =>
    queue_mutex = Free /\ \A w \in Workers : pc[w] = "exited"

\* The threads inside a critical section.
Critical(th) == pc[th] \in {"emplace", "signal", "run_unlock", "test", "take",
                            "unlock", "leave", "stop_set", "broadcast",
                            "stop_unlock"}

MutexMatchesSteps == \A th \in Threads : queue_mutex = th <=> Critical(th)

\* A worker's task, and what a thread hands over, are where they should be.
JobsMatchSteps ==
  /\ \A w \in Workers : current[w] # NoTask <=> pc[w] \in RunSteps \cup {"unlock", "task"}
  /\ \A th \in Threads : arg[th] # NoTask <=> pc[th] \in RunSteps
  /\ \A th \in Threads : arg[th] # NoTask =>
       Parent[arg[th]] = (IF th = Main THEN Main ELSE current[th])

\* A thread is between the call of run and the queue.
Inside(th) == pc[th] \in {"run_lock", "emplace"}

Entering == {arg[th] : th \in {x \in Threads : Inside(x)}}

\* The tasks that have reached the queue.
Placed == Pool!Queued \cup Pool!Running \cup finished

TasksAreSubmitted ==
  /\ Placed \cup Entering \subseteq submitted
  /\ Entering \cap Placed = {}
  /\ \A th, other \in Threads :
       Inside(th) /\ Inside(other) /\ arg[th] = arg[other] => th = other

StoppedSteps == {"broadcast", "stop_unlock", "join", "destroyed"}

StopIsFinal ==
  /\ stop <=> pc[Main] \in StoppedSteps
  /\ \A w \in Workers : pc[w] \in {"leave", "exited"} => stop
  /\ \A w \in Workers : pc[w] = "take" => task_queue # <<>>
  /\ (\A w \in Workers : pc[w] \in {"leave", "exited"}) => task_queue = <<>>
  /\ pc[Main] \in {"destroyed"} => \A w \in Workers : pc[w] = "exited"

SInv ==
  /\ TypeOK
  /\ MutexMatchesSteps
  /\ JobsMatchSteps
  /\ TasksAreSubmitted
  /\ StopIsFinal
  /\ NoForgottenTask

\* Every task handed to run is executed.
TasksFinish == \A t \in Tasks : t \in submitted ~> t \in finished

\* The destructor returns.
DestructorReturns == pc[Main] = "stop_lock" ~> pc[Main] = "destroyed"
=============================================================================
