----------------------- MODULE ParallelSchedulerProofs -----------------------
(***************************************************************************)
(* Theorems about ParallelScheduler, for any number of workers and tasks,  *)
(* whichever task hands over which.                                        *)
(***************************************************************************)
EXTENDS ParallelScheduler, TLAPS

\* emplace adds one element to the queue.
LEMMA AppendElements ==
  ASSUME NEW S, NEW q \in Seq(S), NEW x \in S
  PROVE  {Append(q, x)[i] : i \in 1 .. Len(Append(q, x))}
           = {q[i] : i \in 1 .. Len(q)} \cup {x}
<1>1. /\ Len(Append(q, x)) = Len(q) + 1 /\ Len(q) \in Nat
      /\ \A i \in 1 .. Len(q) : Append(q, x)[i] = q[i]
      /\ Append(q, x)[Len(q) + 1] = x
  OBVIOUS
<1>2. 1 .. Len(q) + 1 = (1 .. Len(q)) \cup {Len(q) + 1}
  BY <1>1
<1> QED
  BY <1>1, <1>2

\* pop removes the occurrence at the head and shifts the others.
LEMMA TailElements ==
  ASSUME NEW S, NEW q \in Seq(S), q # <<>>
  PROVE  /\ Head(q) \in S /\ Tail(q) \in Seq(S)
         /\ {q[i] : i \in 1 .. Len(q)}
              = {Head(q)} \cup {Tail(q)[i] : i \in 1 .. Len(Tail(q))}
         /\ \A i \in 1 .. Len(Tail(q)) : i + 1 \in 2 .. Len(q) /\ Tail(q)[i] = q[i + 1]
<1>1. /\ Len(q) \in Nat \ {0} /\ Len(Tail(q)) = Len(q) - 1
      /\ Head(q) = q[1] /\ Head(q) \in S /\ Tail(q) \in Seq(S)
      /\ \A i \in 1 .. Len(Tail(q)) : Tail(q)[i] = q[i + 1]
  OBVIOUS
<1>2. ASSUME NEW i \in 1 .. Len(q), i # 1
      PROVE  i - 1 \in 1 .. Len(Tail(q)) /\ q[i] = Tail(q)[i - 1]
  <2>1. PICK j \in 1 .. Len(Tail(q)) : j = i - 1 /\ j + 1 = i
    BY <1>1, <1>2
  <2>2. Tail(q)[j] = q[j + 1]
    BY <1>1
  <2> QED
    BY <2>1, <2>2
<1>3. {q[i] : i \in 1 .. Len(q)} \subseteq
        {Head(q)} \cup {Tail(q)[i] : i \in 1 .. Len(Tail(q))}
  BY <1>1, <1>2
<1>4. ASSUME NEW i \in 1 .. Len(Tail(q))
      PROVE  i + 1 \in 2 .. Len(q) /\ Tail(q)[i] = q[i + 1]
  BY <1>1
<1>5. Head(q) \in {q[i] : i \in 1 .. Len(q)}
  BY <1>1
<1>6. ASSUME NEW i \in 1 .. Len(Tail(q))
      PROVE  Tail(q)[i] \in {q[j] : j \in 1 .. Len(q)}
  <2>1. i + 1 \in 1 .. Len(q)
    BY <1>1, <1>4
  <2> QED
    BY <1>4, <2>1
<1>7. {q[i] : i \in 1 .. Len(q)}
        = {Head(q)} \cup {Tail(q)[i] : i \in 1 .. Len(Tail(q))}
  BY <1>3, <1>5, <1>6
<1> QED
  BY <1>1, <1>4, <1>7
-----------------------------------------------------------------------------
\* The threads are the workers and Main.
LEMMA ThreadFacts ==
  /\ Main \in Threads /\ Workers \subseteq Threads
  /\ \A th \in Threads : th = Main \/ th \in Workers
  /\ \A w \in Workers : w # Main
  /\ \A th \in Threads : th # Free
BY SchedulerAssumption DEF Threads

\* What a thread inside run hands over is a task.
LEMMA ArgIsTask ==
  ASSUME SInv, NEW th \in Threads, pc[th] \in RunSteps
  PROVE  /\ arg[th] \in Tasks
         /\ Parent[arg[th]] \in Pool!Running \cup {Main}
<1>1. /\ arg[th] \in Tasks
      /\ Parent[arg[th]] = IF th = Main THEN Main ELSE current[th]
  BY DEF SInv, TypeOK, JobsMatchSteps
<1>2. CASE th = Main
  BY <1>1, <1>2
<1>3. CASE th # Main
  <2>1. th \in Workers /\ current[th] # NoTask
    BY <1>3, ThreadFacts DEF SInv, JobsMatchSteps
  <2> QED
    BY <1>1, <1>3, <2>1 DEF Pool!Running
<1> QED
  BY <1>2, <1>3

\* A worker that takes a task finds one.
LEMMA TakeFindsTask ==
  ASSUME SInv, NEW w \in Workers, pc[w] = "take"
  PROVE  task_queue # <<>> /\ current[w] = NoTask /\ Head(task_queue) \in Tasks
<1>1. task_queue # <<>> /\ task_queue \in Seq(Tasks)
  BY DEF SInv, StopIsFinal, TypeOK
<1>2. current[w] = NoTask
  BY DEF SInv, JobsMatchSteps, RunSteps
<1> QED
  BY <1>1, <1>2, TailElements

\* The initial state satisfies the invariant.
LEMMA InitIsGood == Init => SInv
<1> SUFFICES ASSUME Init PROVE SInv
  OBVIOUS
<1> USE ThreadFacts DEF Init
<1>1. TypeOK
  <2>1. task_queue \in Seq(Tasks)
    OBVIOUS
  <2>2. pc \in [Threads -> MainSteps \cup WorkerSteps]
    BY DEF MainSteps, WorkerSteps
  <2>3. pc[Main] \in MainSteps /\ \A w \in Workers : pc[w] \in WorkerSteps
    BY DEF MainSteps, WorkerSteps
  <2> QED
    BY <2>1, <2>2, <2>3 DEF TypeOK
<1>2. MutexMatchesSteps
  BY DEF MutexMatchesSteps, Critical
<1>3. JobsMatchSteps
  BY DEF JobsMatchSteps, RunSteps
<1>4. Pool!Queued = {} /\ Pool!Running = {} /\ Entering = {} /\ Placed = {}
  <2>1. Len(task_queue) = 0
    OBVIOUS
  <2> QED
    BY <2>1 DEF Pool!Queued, Pool!Running, Entering, Inside, Placed
<1>5. TasksAreSubmitted
  BY <1>4 DEF TasksAreSubmitted, Inside
<1>6. StopIsFinal
  BY SchedulerAssumption DEF StopIsFinal, StoppedSteps
<1>7. NoForgottenTask
  BY DEF NoForgottenTask
<1> QED
  BY <1>1, <1>2, <1>3, <1>5, <1>6, <1>7 DEF SInv
-----------------------------------------------------------------------------
(* The inductive invariant, conjunct by conjunct. *)

LEMMA StepKeepsType ==
  ASSUME SInv, [Next]_vars
  PROVE  TypeOK'
<1> USE ThreadFacts DEF TypeOK, MainSteps, WorkerSteps, RunSteps
<1>1. ASSUME NEW w \in Workers, CreateThread(w) \/ SpuriousWakeup(w)
      PROVE  TypeOK'
  BY <1>1 DEF CreateThread, SpuriousWakeup, Goto, SInv
<1>2. ASSUME NEW th \in Threads, NEW t \in Tasks, CallRun(th, t)
      PROVE  TypeOK'
  BY <1>2 DEF CallRun, Goto, SInv
<1>3. ASSUME NEW th \in Threads, RunLock(th) \/ RunUnlock(th)
      PROVE  TypeOK'
  BY <1>3 DEF RunLock, RunUnlock, Lock, Unlock, Goto, SInv
<1>4. ASSUME NEW th \in Threads, Emplace(th)
      PROVE  TypeOK'
  <2>1. arg[th] \in Tasks
    BY <1>4, ArgIsTask DEF Emplace, At
  <2> QED
    BY <1>4, <2>1 DEF Emplace, Goto, SInv
<1>5. ASSUME NEW th \in Threads, Signal(th)
      PROVE  TypeOK'
  BY <1>5 DEF Signal, Goto, Waiting, SInv
<1>6. ASSUME NEW w \in Workers, WorkerLock(w) \/ Test(w) \/ WorkerUnlock(w) \/ Leave(w)
      PROVE  TypeOK'
  BY <1>6 DEF WorkerLock, Test, WorkerUnlock, Leave, Lock, Unlock, Goto, SInv
<1>7. ASSUME NEW w \in Workers, Take(w)
      PROVE  TypeOK'
  <2>1. Head(task_queue) \in Tasks /\ Tail(task_queue) \in Seq(Tasks)
    BY <1>7, TakeFindsTask, TailElements DEF Take, At, SInv
  <2> QED
    BY <1>7, <2>1 DEF Take, Goto, SInv
<1>8. ASSUME NEW w \in Workers, TaskReturns(w)
      PROVE  TypeOK'
  <2>1. current[w] \in Tasks
    BY <1>8 DEF TaskReturns, At, SInv, JobsMatchSteps
  <2> QED
    BY <1>8, <2>1 DEF TaskReturns, Goto, SInv
<1>9. CASE Constructed \/ Destroy \/ StopLock \/ StopSet \/ StopUnlock \/ Join
  BY <1>9 DEF Constructed, Destroy, StopLock, StopSet, StopUnlock, Join, Lock,
              Unlock, Goto, SInv
<1>10. CASE Broadcast
  BY <1>10 DEF Broadcast, Waiting, SInv
<1>11. CASE UNCHANGED vars
  BY <1>11 DEF vars, SInv
<1> QED
  BY <1>1, <1>2, <1>3, <1>4, <1>5, <1>6, <1>7, <1>8, <1>9, <1>10, <1>11
     DEF Next, Construct, Run, Work, Destructor

\* The owner of the mutex is the thread inside a critical section.
LEMMA StepKeepsMutex ==
  ASSUME SInv, [Next]_vars
  PROVE  MutexMatchesSteps'
<1> USE ThreadFacts DEF SInv, MutexMatchesSteps, Critical
<1>1. ASSUME NEW w \in Workers, CreateThread(w) \/ SpuriousWakeup(w)
      PROVE  MutexMatchesSteps'
  BY <1>1 DEF CreateThread, SpuriousWakeup, At, Goto, TypeOK
<1>2. ASSUME NEW th \in Threads, NEW t \in Tasks, CallRun(th, t)
      PROVE  MutexMatchesSteps'
  BY <1>2 DEF CallRun, Executes, At, Goto, TypeOK
<1>3. ASSUME NEW th \in Threads, RunLock(th) \/ RunUnlock(th)
      PROVE  MutexMatchesSteps'
  BY <1>3 DEF RunLock, RunUnlock, Lock, Unlock, At, Goto, TypeOK
<1>4. ASSUME NEW th \in Threads, Emplace(th)
      PROVE  MutexMatchesSteps'
  BY <1>4 DEF Emplace, At, Goto, TypeOK
<1>5. ASSUME NEW th \in Threads, Signal(th)
      PROVE  MutexMatchesSteps'
  BY <1>5 DEF Signal, Waiting, At, Goto, TypeOK
<1>6. ASSUME NEW w \in Workers, WorkerLock(w) \/ WorkerUnlock(w) \/ Leave(w)
      PROVE  MutexMatchesSteps'
  BY <1>6 DEF WorkerLock, WorkerUnlock, Leave, Lock, Unlock, At, Goto, TypeOK
<1>7. ASSUME NEW w \in Workers, Test(w)
      PROVE  MutexMatchesSteps'
  BY <1>7 DEF Test, Unlock, At, Goto, TypeOK
<1>8. ASSUME NEW w \in Workers, Take(w) \/ TaskReturns(w)
      PROVE  MutexMatchesSteps'
  BY <1>8 DEF Take, TaskReturns, At, Goto, TypeOK
<1>9. CASE Constructed \/ Destroy \/ StopLock \/ StopSet \/ StopUnlock \/ Join
  BY <1>9 DEF Constructed, Destroy, StopLock, StopSet, StopUnlock, Join, Lock,
              Unlock, At, Goto, TypeOK
<1>10. CASE Broadcast
  BY <1>10 DEF Broadcast, Waiting, At, TypeOK
<1>11. CASE UNCHANGED vars
  BY <1>11 DEF vars
<1> QED
  BY <1>1, <1>2, <1>3, <1>4, <1>5, <1>6, <1>7, <1>8, <1>9, <1>10, <1>11
     DEF Next, Construct, Run, Work, Destructor

\* A thread has a task, or an argument for run, exactly while its step says so.
LEMMA StepKeepsJobs ==
  ASSUME SInv, [Next]_vars
  PROVE  JobsMatchSteps'
<1> USE ThreadFacts DEF SInv, JobsMatchSteps, RunSteps
<1>1. ASSUME NEW w \in Workers, CreateThread(w) \/ SpuriousWakeup(w)
      PROVE  JobsMatchSteps'
  BY <1>1 DEF CreateThread, SpuriousWakeup, At, Goto, TypeOK
<1>2. ASSUME NEW th \in Threads, NEW t \in Tasks, CallRun(th, t)
      PROVE  JobsMatchSteps'
  <2>1. t # NoTask /\ t # Main
    BY SchedulerAssumption
  <2> QED
    BY <1>2, <2>1 DEF CallRun, Executes, At, Goto, TypeOK
<1>3. ASSUME NEW th \in Threads, RunLock(th) \/ RunUnlock(th) \/ Emplace(th)
      PROVE  JobsMatchSteps'
  BY <1>3 DEF RunLock, RunUnlock, Emplace, At, Goto, TypeOK
<1>5. ASSUME NEW th \in Threads, Signal(th)
      PROVE  JobsMatchSteps'
  BY <1>5 DEF Signal, Waiting, At, Goto, TypeOK
<1>6. ASSUME NEW w \in Workers, WorkerLock(w) \/ Test(w) \/ WorkerUnlock(w) \/ Leave(w)
      PROVE  JobsMatchSteps'
  BY <1>6 DEF WorkerLock, Test, WorkerUnlock, Leave, At, Goto, TypeOK
<1>7. ASSUME NEW w \in Workers, Take(w)
      PROVE  JobsMatchSteps'
  <2>1. Head(task_queue) # NoTask
    BY <1>7, TakeFindsTask, SchedulerAssumption DEF Take, At
  <2> QED
    BY <1>7, <2>1 DEF Take, At, Goto, TypeOK
<1>8. ASSUME NEW w \in Workers, TaskReturns(w)
      PROVE  JobsMatchSteps'
  BY <1>8 DEF TaskReturns, At, Goto, TypeOK
<1>9. CASE Constructed \/ Destroy \/ StopLock \/ StopSet \/ StopUnlock \/ Join
  BY <1>9 DEF Constructed, Destroy, StopLock, StopSet, StopUnlock, Join, At,
              Goto, TypeOK
<1>10. CASE Broadcast
  BY <1>10 DEF Broadcast, Waiting, At, TypeOK
<1>11. CASE UNCHANGED vars
  BY <1>11 DEF vars
<1> QED
  BY <1>1, <1>2, <1>3, <1>5, <1>6, <1>7, <1>8, <1>9, <1>10, <1>11
     DEF Next, Construct, Run, Work, Destructor

\* A task enters the queue once, and moves on from it to a worker and to the
\* executed tasks.
LEMMA StepKeepsTasks ==
  ASSUME SInv, [Next]_vars
  PROVE  TasksAreSubmitted'
<1>t. TypeOK /\ TasksAreSubmitted /\ TypeOK'
  BY StepKeepsType DEF SInv
<1> USE ThreadFacts DEF TasksAreSubmitted
<1>0. ASSUME Placed' = Placed, UNCHANGED <<arg, submitted>>,
             \A th \in Threads : Inside(th)' <=> Inside(th)
      PROVE  TasksAreSubmitted'
  <2>1. Entering' = Entering
    BY <1>0 DEF Entering
  <2> QED
    BY <1>0, <1>t, <2>1
<1>1. ASSUME NEW w \in Workers, CreateThread(w) \/ SpuriousWakeup(w)
      PROVE  TasksAreSubmitted'
  <2>1. \A th \in Threads : Inside(th)' <=> Inside(th)
    BY <1>1, <1>t DEF CreateThread, SpuriousWakeup, At, Goto, TypeOK, Inside
  <2>2. Placed' = Placed
    BY <1>1 DEF CreateThread, SpuriousWakeup, Placed, Pool!Queued, Pool!Running
  <2> QED
    BY <1>0, <1>1, <2>1, <2>2 DEF CreateThread, SpuriousWakeup
<1>2. ASSUME NEW th \in Threads, NEW t \in Tasks, CallRun(th, t)
      PROVE  TasksAreSubmitted'
  <2>1. Placed' = Placed /\ t \notin submitted /\ submitted' = submitted \cup {t}
    BY <1>2 DEF CallRun, Placed, Pool!Queued, Pool!Running
  <2>2. /\ ~Inside(th) /\ Inside(th)' /\ arg'[th] = t
        /\ \A other \in Threads \ {th} :
             (Inside(other)' <=> Inside(other)) /\ arg'[other] = arg[other]
    BY <1>2, <1>t DEF CallRun, Executes, At, Goto, TypeOK, Inside
  <2>3. Entering' = Entering \cup {t}
    BY <2>2 DEF Entering
  <2> QED
    BY <1>t, <2>1, <2>2, <2>3 DEF Entering
<1>3. ASSUME NEW th \in Threads, Emplace(th)
      PROVE  TasksAreSubmitted'
  <2> DEFINE t == arg[th]
  <2>1. /\ Inside(th) /\ ~Inside(th)'
        /\ \A other \in Threads \ {th} : Inside(other)' <=> Inside(other)
        /\ arg' = arg /\ submitted' = submitted
    BY <1>3, <1>t DEF Emplace, At, Goto, TypeOK, Inside
  <2>2. t \in Tasks /\ task_queue \in Seq(Tasks)
    BY <1>3, <1>t, ArgIsTask DEF Emplace, At, RunSteps, TypeOK
  <2>3. Pool!Queued' = Pool!Queued \cup {t}
    BY <1>3, <2>2, AppendElements DEF Emplace, Pool!Queued
  <2>4. Placed' = Placed \cup {t}
    BY <1>3, <2>3 DEF Emplace, Placed, Pool!Running
  <2>5. Entering' = Entering \ {t} /\ t \in Entering
    BY <1>t, <2>1 DEF Entering
  <2> QED
    BY <1>t, <2>1, <2>4, <2>5
<1>4. ASSUME NEW th \in Threads, RunLock(th) \/ Signal(th)
      PROVE  TasksAreSubmitted'
  <2>1. \A other \in Threads : Inside(other)' <=> Inside(other)
    BY <1>4, <1>t DEF RunLock, Signal, Waiting, At, Goto, TypeOK, Inside
  <2>2. Placed' = Placed
    BY <1>4 DEF RunLock, Signal, Placed, Pool!Queued, Pool!Running
  <2> QED
    BY <1>0, <1>4, <2>1, <2>2 DEF RunLock, Signal
<1>5. ASSUME NEW th \in Threads, RunUnlock(th)
      PROVE  TasksAreSubmitted'
  <2>1. /\ ~Inside(th) /\ ~Inside(th)'
        /\ \A other \in Threads \ {th} :
             (Inside(other)' <=> Inside(other)) /\ arg'[other] = arg[other]
        /\ submitted' = submitted
    BY <1>5, <1>t DEF RunUnlock, At, Goto, TypeOK, Inside
  <2>2. Placed' = Placed
    BY <1>5 DEF RunUnlock, Placed, Pool!Queued, Pool!Running
  <2>3. Entering' = Entering
    BY <2>1 DEF Entering
  <2> QED
    BY <1>t, <2>1, <2>2, <2>3
<1>6. ASSUME NEW w \in Workers,
             WorkerLock(w) \/ Test(w) \/ WorkerUnlock(w) \/ Leave(w)
      PROVE  TasksAreSubmitted'
  <2>1. \A other \in Threads : Inside(other)' <=> Inside(other)
    BY <1>6, <1>t DEF WorkerLock, Test, WorkerUnlock, Leave, At, Goto, TypeOK, Inside
  <2>2. Placed' = Placed
    BY <1>6 DEF WorkerLock, Test, WorkerUnlock, Leave, Placed, Pool!Queued,
                Pool!Running
  <2> QED
    BY <1>0, <1>6, <2>1, <2>2 DEF WorkerLock, Test, WorkerUnlock, Leave
<1>7. ASSUME NEW w \in Workers, Take(w)
      PROVE  TasksAreSubmitted'
  <2>1. \A other \in Threads : Inside(other)' <=> Inside(other)
    BY <1>7, <1>t DEF Take, At, Goto, TypeOK, Inside
  <2>2. /\ task_queue # <<>> /\ task_queue \in Seq(Tasks)
        /\ current[w] = NoTask /\ Head(task_queue) \in Tasks
    BY <1>7, <1>t, TakeFindsTask DEF Take, At, TypeOK
  <2>3. Pool!Queued = {Head(task_queue)} \cup Pool!Queued'
    <3>1. {task_queue[i] : i \in 1 .. Len(task_queue)}
            = {Head(task_queue)}
                \cup {Tail(task_queue)[i] : i \in 1 .. Len(Tail(task_queue))}
      BY <2>2, TailElements
    <3>2. task_queue' = Tail(task_queue)
      BY <1>7 DEF Take
    <3> QED
      BY <3>1, <3>2 DEF Pool!Queued
  <2>4. Pool!Running' = Pool!Running \cup {Head(task_queue)}
    BY <1>7, <1>t, <2>2, SchedulerAssumption DEF Take, TypeOK, Pool!Running
  <2>5. Placed' = Placed
    BY <1>7, <2>3, <2>4 DEF Take, Placed
  <2> QED
    BY <1>0, <1>7, <2>1, <2>5 DEF Take
<1>8. ASSUME NEW w \in Workers, TaskReturns(w)
      PROVE  TasksAreSubmitted'
  <2>1. \A other \in Threads : Inside(other)' <=> Inside(other)
    BY <1>8, <1>t DEF TaskReturns, At, Goto, TypeOK, Inside
  <2>2. current[w] # NoTask
    BY <1>8 DEF TaskReturns, At, SInv, JobsMatchSteps
  <2>3. Pool!Running \cup finished = Pool!Running' \cup finished'
    BY <1>8, <1>t, <2>2 DEF TaskReturns, TypeOK, Pool!Running
  <2>4. Placed' = Placed
    BY <1>8, <2>3 DEF TaskReturns, Placed, Pool!Queued
  <2> QED
    BY <1>0, <1>8, <2>1, <2>4 DEF TaskReturns
<1>9. CASE Constructed \/ Destroy \/ Destructor
  <2>1. \A other \in Threads : Inside(other)' <=> Inside(other)
    <3>1. CASE Broadcast
      BY <1>t, <3>1 DEF Broadcast, Waiting, At, TypeOK, Inside
    <3> QED
      BY <1>9, <1>t, <3>1 DEF Constructed, Destroy, Destructor, StopLock, StopSet,
                        StopUnlock, Join, At, Goto, TypeOK, Inside
  <2>2. Placed' = Placed /\ UNCHANGED <<arg, submitted>>
    BY <1>9 DEF Constructed, Destroy, Destructor, StopLock, StopSet, Broadcast,
                StopUnlock, Join, Placed, Pool!Queued, Pool!Running
  <2> QED
    BY <1>0, <2>1, <2>2
<1>10. CASE UNCHANGED vars
  BY <1>0, <1>10 DEF vars, Inside, Placed, Pool!Queued, Pool!Running
<1> QED
  BY <1>1, <1>2, <1>3, <1>4, <1>5, <1>6, <1>7, <1>8, <1>9, <1>10
     DEF Next, Construct, Run, Work

\* stop is set once, by Main on its way out, and the last worker to leave
\* leaves an empty queue.
LEMMA StepKeepsStop ==
  ASSUME SInv, [Next]_vars
  PROVE  StopIsFinal'
<1>t. TypeOK /\ StopIsFinal /\ JobsMatchSteps /\ MutexMatchesSteps
  BY DEF SInv
<1> USE ThreadFacts DEF StopIsFinal, StoppedSteps
<1>1. ASSUME NEW w \in Workers, CreateThread(w) \/ SpuriousWakeup(w)
      PROVE  StopIsFinal'
  BY <1>1, <1>t DEF CreateThread, SpuriousWakeup, At, Goto, TypeOK
<1>2. ASSUME NEW th \in Threads, NEW t \in Tasks, CallRun(th, t)
      PROVE  StopIsFinal'
  BY <1>2, <1>t DEF CallRun, Executes, At, Goto, TypeOK
<1>3. ASSUME NEW th \in Threads, RunLock(th) \/ RunUnlock(th)
      PROVE  StopIsFinal'
  BY <1>3, <1>t DEF RunLock, RunUnlock, At, Goto, TypeOK
<1>4. ASSUME NEW th \in Threads, Emplace(th)
      PROVE  StopIsFinal'
  <2>1. task_queue' # <<>>
    BY <1>4, <1>t DEF Emplace, TypeOK
  <2>2. ~\A w \in Workers : pc'[w] \in {"leave", "exited"}
    <3>1. CASE th \in Workers
      BY <1>4, <1>t, <3>1 DEF Emplace, At, Goto, TypeOK
    <3>2. CASE th = Main
      BY <1>4, <1>t, <3>2, SchedulerAssumption DEF Emplace, At, Goto, TypeOK
    <3> QED
      BY <3>1, <3>2
  <2> QED
    BY <1>4, <1>t, <2>1, <2>2 DEF Emplace, At, Goto, TypeOK
<1>5. ASSUME NEW th \in Threads, Signal(th)
      PROVE  StopIsFinal'
  BY <1>5, <1>t DEF Signal, Waiting, At, Goto, TypeOK
<1>6. ASSUME NEW w \in Workers, WorkerLock(w) \/ WorkerUnlock(w) \/ Leave(w)
                                \/ TaskReturns(w)
      PROVE  StopIsFinal'
  BY <1>6, <1>t DEF WorkerLock, WorkerUnlock, Leave, TaskReturns, At, Goto, TypeOK
<1>7. ASSUME NEW w \in Workers, Test(w)
      PROVE  StopIsFinal'
  BY <1>7, <1>t DEF Test, At, Goto, TypeOK
<1>8. ASSUME NEW w \in Workers, Take(w)
      PROVE  StopIsFinal'
  <2>1. \A v \in Workers : pc'[v] # "take"
    BY <1>8, <1>t DEF Take, At, Goto, TypeOK, MutexMatchesSteps, Critical
  <2>2. pc'[w] = "unlock"
    BY <1>8, <1>t DEF Take, At, Goto, TypeOK
  <2> QED
    BY <1>8, <1>t, <2>1, <2>2 DEF Take, At, Goto, TypeOK
<1>9. CASE Constructed \/ Destroy \/ StopLock \/ StopSet \/ StopUnlock \/ Join
  BY <1>9, <1>t DEF Constructed, Destroy, StopLock, StopSet, StopUnlock, Join, At,
              Goto, TypeOK
<1>10. CASE Broadcast
  BY <1>10, <1>t DEF Broadcast, Waiting, At, TypeOK
<1>11. CASE UNCHANGED vars
  BY <1>11, <1>t DEF vars
<1> QED
  BY <1>1, <1>2, <1>3, <1>4, <1>5, <1>6, <1>7, <1>8, <1>9, <1>10, <1>11
     DEF Next, Construct, Run, Work, Destructor

\* A worker sleeps only over an empty queue, and whoever fills it signals.
LEMMA StepKeepsSignal ==
  ASSUME SInv, [Next]_vars
  PROVE  NoForgottenTask'
<1>t. TypeOK /\ MutexMatchesSteps /\ NoForgottenTask
  BY DEF SInv
<1> USE ThreadFacts, SchedulerAssumption DEF NoForgottenTask, Waiting
<1>1. ASSUME NEW w \in Workers, CreateThread(w) \/ SpuriousWakeup(w)
      PROVE  NoForgottenTask'
  BY <1>1, <1>t DEF CreateThread, SpuriousWakeup, At, Goto, TypeOK
<1>2. ASSUME NEW th \in Threads, NEW t \in Tasks, CallRun(th, t)
      PROVE  NoForgottenTask'
  <2>1. \A x \in Threads : pc[x] = "signal" => pc'[x] = "signal"
    BY <1>2, <1>t DEF CallRun, Executes, At, Goto, TypeOK
  <2>2. \A w \in Workers : pc'[w] = "waiting" => pc[w] = "waiting"
    BY <1>2, <1>t DEF CallRun, Goto, TypeOK
  <2> QED
    BY <1>2, <1>t, <2>1, <2>2 DEF CallRun
<1>3. ASSUME NEW th \in Threads, RunLock(th) \/ RunUnlock(th) \/ Emplace(th)
      PROVE  NoForgottenTask'
  <2>1. CASE Emplace(th)
    BY <2>1, <1>t DEF Emplace, Goto, TypeOK
  <2>2. CASE RunLock(th) \/ RunUnlock(th)
    <3>1. \A x \in Threads : pc[x] = "signal" => pc'[x] = "signal"
      BY <2>2, <1>t DEF RunLock, RunUnlock, At, Goto, TypeOK
    <3>2. \A w \in Workers : pc'[w] = "waiting" => pc[w] = "waiting"
      BY <2>2, <1>t DEF RunLock, RunUnlock, Goto, TypeOK
    <3> QED
      BY <2>2, <1>t, <3>1, <3>2 DEF RunLock, RunUnlock
  <2> QED
    BY <1>3, <2>1, <2>2
<1>4. ASSUME NEW th \in Threads, Signal(th)
      PROVE  NoForgottenTask'
  <2>1. \E w \in Workers : pc'[w] # "waiting"
    <3>1. CASE Waiting = {}
      BY <1>4, <1>t, <3>1 DEF Signal, Goto, At, TypeOK
    <3>2. CASE Waiting # {}
      BY <1>4, <1>t, <3>2 DEF Signal, Goto, At, TypeOK
    <3> QED
      BY <3>1, <3>2
  <2> QED
    BY <2>1
<1>5. ASSUME NEW w \in Workers, pc'[w] # "waiting"
      PROVE  NoForgottenTask'
  BY <1>5
<1>6. ASSUME NEW w \in Workers,
             WorkerLock(w) \/ Take(w) \/ WorkerUnlock(w) \/ TaskReturns(w) \/ Leave(w)
      PROVE  NoForgottenTask'
  <2>1. pc'[w] # "waiting"
    BY <1>6, <1>t DEF WorkerLock, Take, WorkerUnlock, TaskReturns, Leave, Goto, TypeOK
  <2> QED
    BY <1>5, <2>1
<1>7. ASSUME NEW w \in Workers, Test(w)
      PROVE  NoForgottenTask'
  <2>1. CASE pc'[w] = "waiting"
    BY <1>7, <1>t, <2>1 DEF Test, Goto, TypeOK
  <2> QED
    BY <1>5, <2>1
<1>8. CASE Constructed \/ Destroy \/ Destructor
  <2>1. CASE Broadcast
    BY <1>t, <2>1 DEF Broadcast, At, TypeOK
  <2>2. CASE ~Broadcast
    <3>1. \A x \in Threads : pc[x] = "signal" => pc'[x] = "signal"
      BY <1>8, <2>2, <1>t DEF Constructed, Destroy, Destructor, StopLock, StopSet,
                   StopUnlock, Join, At, Goto, TypeOK
    <3>2. \A w \in Workers : pc'[w] = "waiting" => pc[w] = "waiting"
      BY <1>8, <2>2, <1>t DEF Constructed, Destroy, Destructor, StopLock, StopSet,
                   StopUnlock, Join, At, Goto, TypeOK
    <3> QED
      BY <1>8, <2>2, <1>t, <3>1, <3>2
         DEF Constructed, Destroy, Destructor, StopLock, StopSet, StopUnlock, Join
  <2> QED
    BY <2>1, <2>2
<1>9. CASE UNCHANGED vars
  BY <1>9, <1>t DEF vars
<1> QED
  BY <1>1, <1>2, <1>3, <1>4, <1>6, <1>7, <1>8, <1>9 DEF Next, Construct, Run, Work

\* The inductive invariant holds in every reachable state.
THEOREM Inductive == Spec => []SInv
<1>1. SInv /\ [Next]_vars => SInv'
  BY StepKeepsType, StepKeepsMutex, StepKeepsJobs, StepKeepsTasks, StepKeepsStop,
     StepKeepsSignal DEF SInv
<1> QED
  BY <1>1, InitIsGood, PTL DEF Spec

\* Workers never all sleep over a queued task nobody is about to signal.
THEOREM NoLostTask == Spec => []NoForgottenTask
BY Inductive, PTL DEF SInv

\* Nobody uses the mutex or the condition variable once they are destroyed.
THEOREM NoUseAfterDestruction == Spec => []DestroyedUnused
<1>1. SInv => DestroyedUnused
  <2> SUFFICES ASSUME SInv, pc[Main] = "destroyed"
               PROVE  queue_mutex = Free /\ \A w \in Workers : pc[w] = "exited"
    BY DEF DestroyedUnused
  <2>1. \A w \in Workers : pc[w] = "exited"
    BY DEF SInv, StopIsFinal
  <2>2. \A th \in Threads : ~Critical(th)
    BY <2>1, ThreadFacts DEF Critical
  <2> QED
    BY <2>1, <2>2 DEF SInv, MutexMatchesSteps, TypeOK
<1> QED
  BY <1>1, Inductive, PTL
-----------------------------------------------------------------------------
(* Refinement of the task pool. *)

\* The steps of run and of the workers that the pool sees.
LEMMA VisibleSteps ==
  ASSUME SInv
  PROVE  /\ \A th \in Threads : Emplace(th) => Pool!Submit(arg[th])
         /\ \A w \in Workers : Take(w) => Pool!Start(w)
         /\ \A w \in Workers : TaskReturns(w) => Pool!Finish(w)
<1> USE ThreadFacts
<1>1. ASSUME NEW th \in Threads, Emplace(th)
      PROVE  Pool!Submit(arg[th])
  <2>1. /\ pc[th] = "emplace" /\ pc' = [pc EXCEPT ![th] = "signal"]
        /\ task_queue' = Append(task_queue, arg[th])
        /\ UNCHANGED <<current, finished>>
    BY <1>1 DEF Emplace, At, Goto
  <2>2. Parent[arg[th]] \in Pool!Running \cup {Main}
    BY <2>1, ArgIsTask DEF RunSteps
  <2>3. arg[th] \in Entering
    BY <2>1 DEF Entering, Inside
  <2>4. arg[th] \notin Placed
    BY <2>3 DEF SInv, TasksAreSubmitted
  <2>5. pc[Main] # "destroyed" /\ pc'[Main] # "destroyed"
    BY <2>1 DEF SInv, StopIsFinal, TypeOK
  <2> QED
    BY <2>1, <2>2, <2>4, <2>5 DEF Pool!Submit, Placed
<1>2. ASSUME NEW w \in Workers, Take(w)
      PROVE  Pool!Start(w)
  <2>1. task_queue # <<>> /\ current[w] = NoTask
    BY <1>2, TakeFindsTask DEF Take, At
  <2>2. pc'[Main] = pc[Main]
    BY <1>2 DEF Take, Goto, SInv, TypeOK
  <2> QED
    BY <1>2, <2>1, <2>2 DEF Take, Pool!Start
<1>3. ASSUME NEW w \in Workers, TaskReturns(w)
      PROVE  Pool!Finish(w)
  <2>1. current[w] # NoTask /\ pc'[Main] = pc[Main]
    BY <1>3 DEF TaskReturns, At, Goto, SInv, TypeOK, JobsMatchSteps
  <2> QED
    BY <1>3, <2>1 DEF TaskReturns, Pool!Finish
<1> QED
  BY <1>1, <1>2, <1>3

\* The pool closes when Main has joined the workers, over an empty queue.
LEMMA JoinCloses ==
  ASSUME SInv, Join
  PROVE  Pool!Close
<1>1. /\ pc[Main] = "join" /\ pc'[Main] = "destroyed"
      /\ \A w \in Workers : pc[w] = "exited"
      /\ UNCHANGED <<task_queue, current, finished>>
  BY ThreadFacts DEF Join, At, Goto, SInv, TypeOK
<1>2. task_queue = <<>>
  BY <1>1 DEF SInv, StopIsFinal
<1>3. \A w \in Workers : current[w] = NoTask
  BY <1>1 DEF SInv, JobsMatchSteps, RunSteps
<1>4. Pool!Running = {}
  BY <1>3 DEF Pool!Running
<1> QED
  BY <1>1, <1>2, <1>4 DEF Pool!Close

\* Every step of the scheduler is one of the pool's, or invisible to it.
LEMMA StepRefines ==
  ASSUME SInv, [Next]_vars
  PROVE  [Pool!Next]_(Pool!vars)
<1>t. TypeOK /\ StopIsFinal
  BY DEF SInv
<1> USE ThreadFacts
<1>0. ASSUME UNCHANGED <<task_queue, current, finished>>,
             pc'[Main] = "destroyed" <=> pc[Main] = "destroyed"
      PROVE  UNCHANGED Pool!vars
  BY <1>0 DEF Pool!vars
<1>1. ASSUME NEW th \in Threads, Emplace(th)
      PROVE  Pool!Next
  <2>1. arg[th] \in Tasks
    BY <1>1, ArgIsTask DEF Emplace, At, RunSteps
  <2> QED
    BY <1>1, <2>1, VisibleSteps DEF Pool!Next
<1>2. ASSUME NEW w \in Workers, Take(w) \/ TaskReturns(w)
      PROVE  Pool!Next
  BY <1>2, VisibleSteps DEF Pool!Next
<1>3. CASE Join
  BY <1>3, JoinCloses DEF Pool!Next
<1>4. ASSUME NEW w \in Workers, CreateThread(w) \/ SpuriousWakeup(w)
      PROVE  UNCHANGED Pool!vars
  BY <1>0, <1>4, <1>t DEF CreateThread, SpuriousWakeup, Goto, TypeOK
<1>5. ASSUME NEW th \in Threads, NEW t \in Tasks, CallRun(th, t)
      PROVE  UNCHANGED Pool!vars
  BY <1>0, <1>5, <1>t DEF CallRun, Executes, At, Goto, TypeOK
<1>6. ASSUME NEW th \in Threads, RunLock(th) \/ RunUnlock(th)
      PROVE  UNCHANGED Pool!vars
  BY <1>0, <1>6, <1>t DEF RunLock, RunUnlock, At, Goto, TypeOK
<1>7. ASSUME NEW th \in Threads, Signal(th)
      PROVE  UNCHANGED Pool!vars
  <2>1. pc'[Main] = "destroyed" <=> pc[Main] = "destroyed"
    BY <1>7, <1>t DEF Signal, Waiting, At, Goto, TypeOK
  <2> QED
    BY <1>0, <1>7, <2>1 DEF Signal
<1>8. ASSUME NEW w \in Workers,
             WorkerLock(w) \/ Test(w) \/ WorkerUnlock(w) \/ Leave(w)
      PROVE  UNCHANGED Pool!vars
  <2>1. pc'[Main] = pc[Main]
    BY <1>8, <1>t DEF WorkerLock, Test, WorkerUnlock, Leave, Goto, TypeOK
  <2> QED
    BY <1>0, <1>8, <2>1 DEF WorkerLock, Test, WorkerUnlock, Leave
<1>9. CASE Constructed \/ Destroy \/ StopLock \/ StopSet \/ Broadcast \/ StopUnlock
  <2>1. pc'[Main] # "destroyed" /\ pc[Main] # "destroyed"
    BY <1>9, <1>t DEF Constructed, Destroy, StopLock, StopSet, Broadcast,
                      StopUnlock, At, Goto, TypeOK
  <2> QED
    BY <1>0, <1>9, <2>1 DEF Constructed, Destroy, StopLock, StopSet, Broadcast,
                            StopUnlock
<1>10. CASE UNCHANGED vars
  BY <1>0, <1>10 DEF vars
<1> QED
  BY <1>1, <1>2, <1>3, <1>4, <1>5, <1>6, <1>7, <1>8, <1>9, <1>10
     DEF Next, Construct, Run, Work, Destructor

\* The scheduler implements the task pool.
THEOREM Refinement == Spec => ImplementsTaskPool
<1>1. Init => Pool!Init
  BY ThreadFacts DEF Init, Pool!Init
<1>2. SInv /\ [Next]_vars => [Pool!Next]_(Pool!vars)
  BY StepRefines
<1> QED
  BY <1>1, <1>2, Inductive, PTL DEF Spec, ImplementsTaskPool, Pool!Spec

\* A step of the pool keeps every task at one place.
LEMMA PoolStepKeepsOnce ==
  ASSUME Pool!TypeOK, Pool!ExecutedOnce, [Pool!Next]_(Pool!vars)
  PROVE  Pool!ExecutedOnce'
<1> USE DEF Pool!TypeOK, Pool!ExecutedOnce
<1>1. ASSUME NEW t \in Tasks, Pool!Submit(t)
      PROVE  Pool!ExecutedOnce'
  <2>1. /\ Len(task_queue') = Len(task_queue) + 1 /\ Len(task_queue) \in Nat
        /\ \A i \in 1 .. Len(task_queue) : task_queue'[i] = task_queue[i]
        /\ task_queue'[Len(task_queue) + 1] = t
    BY <1>1 DEF Pool!Submit
  <2>2. \A i \in 1 .. Len(task_queue) : task_queue[i] # t
    BY <1>1 DEF Pool!Submit, Pool!Queued
  <2>3. ASSUME NEW i \in 1 .. Len(task_queue'), NEW j \in 1 .. Len(task_queue'),
               task_queue'[i] = task_queue'[j]
        PROVE  i = j
    <3>1. \A k \in 1 .. Len(task_queue') :
             k \in 1 .. Len(task_queue) \/ k = Len(task_queue) + 1
      BY <2>1
    <3> QED
      BY <2>1, <2>2, <2>3, <3>1
  <2>4. Pool!Queued' = Pool!Queued \cup {t} /\ Pool!Running' = Pool!Running
    BY <1>1, AppendElements DEF Pool!Submit, Pool!Queued, Pool!Running
  <2> QED
    BY <1>1, <2>3, <2>4 DEF Pool!Submit
<1>2. ASSUME NEW w \in Workers, Pool!Start(w)
      PROVE  Pool!ExecutedOnce'
  <2> DEFINE t == Head(task_queue)
  <2>0. task_queue \in Seq(Tasks) /\ task_queue # <<>> /\ task_queue' = Tail(task_queue)
    BY <1>2 DEF Pool!Start
  <2>1. /\ t \in Tasks /\ task_queue[1] = t
        /\ {task_queue[i] : i \in 1 .. Len(task_queue)}
              = {t} \cup {Tail(task_queue)[i] : i \in 1 .. Len(Tail(task_queue))}
        /\ \A i \in 1 .. Len(Tail(task_queue)) :
             i + 1 \in 2 .. Len(task_queue) /\ Tail(task_queue)[i] = task_queue[i + 1]
    BY <2>0, TailElements
  <2>2. Pool!Queued = {t} \cup Pool!Queued'
    BY <2>0, <2>1 DEF Pool!Queued
  <2>3. \A i \in 1 .. Len(task_queue') : task_queue'[i] # t
    <3>1. Len(task_queue) \in Nat \ {0}
      BY <2>0
    <3> QED
      BY <2>0, <2>1, <3>1
  <2>4. t \notin Pool!Queued'
    BY <2>3 DEF Pool!Queued
  <2>5. ASSUME NEW i \in 1 .. Len(task_queue'), NEW j \in 1 .. Len(task_queue'),
               task_queue'[i] = task_queue'[j]
        PROVE  i = j
    <3>1. task_queue[i + 1] = task_queue[j + 1]
      BY <2>0, <2>1, <2>5
    <3>2. i + 1 \in 1 .. Len(task_queue) /\ j + 1 \in 1 .. Len(task_queue)
      BY <2>0, <2>1
    <3>3. i + 1 = j + 1
      BY <3>1, <3>2
    <3> QED
      BY <3>3
  <2>6. Pool!Running' = Pool!Running \cup {t} /\ t \notin Pool!Running
    <3>1. t \notin Pool!Running
      BY <2>2
    <3>2. t # NoTask /\ current[w] = NoTask /\ current' = [current EXCEPT ![w] = t]
      BY <1>2, <2>1, SchedulerAssumption DEF Pool!Start
    <3>3. Pool!Running' = Pool!Running \cup {t}
      BY <3>2 DEF Pool!Running
    <3> QED
      BY <3>1, <3>3
  <2>7. \A v, x \in Workers :
          current'[v] = current'[x] /\ current'[v] # NoTask => v = x
    BY <1>2, <2>6 DEF Pool!Start, Pool!Running
  <2> QED
    BY <1>2, <2>2, <2>4, <2>5, <2>6, <2>7 DEF Pool!Start
<1>3. ASSUME NEW w \in Workers, Pool!Finish(w)
      PROVE  Pool!ExecutedOnce'
  <2>1. Pool!Queued' = Pool!Queued /\ Pool!Running' = Pool!Running \ {current[w]}
    BY <1>3 DEF Pool!Finish, Pool!Queued, Pool!Running
  <2>2. current[w] \in Pool!Running
    BY <1>3 DEF Pool!Finish, Pool!Running
  <2> QED
    BY <1>3, <2>1, <2>2 DEF Pool!Finish
<1>4. CASE Pool!Close \/ UNCHANGED Pool!vars
  BY <1>4 DEF Pool!Close, Pool!vars, Pool!Queued, Pool!Running
<1> QED
  BY <1>1, <1>2, <1>3, <1>4 DEF Pool!Next

\* No task is executed twice, by two workers, or queued again once taken.
THEOREM OnceOnly == Spec => []ExecutedOnce
<1>1. Init => ExecutedOnce
  BY DEF Init, ExecutedOnce, Pool!ExecutedOnce, Pool!Queued, Pool!Running
<1>2. SInv /\ ExecutedOnce /\ [Next]_vars => ExecutedOnce'
  <2> SUFFICES ASSUME SInv, ExecutedOnce, [Next]_vars PROVE ExecutedOnce'
    OBVIOUS
  <2>1. Pool!TypeOK
    BY DEF SInv, TypeOK, Pool!TypeOK
  <2> QED
    BY <2>1, StepRefines, PoolStepKeepsOnce DEF ExecutedOnce
<1> QED
  BY <1>1, <1>2, Inductive, PTL DEF Spec
=============================================================================
