------------------------------ MODULE TaskPool ------------------------------
(***************************************************************************)
(* What parallel_scheduler promises: tasks handed to run are started in    *)
(* the order of the calls, each by one of the worker threads, at most one  *)
(* task per worker at a time, and the destructor returns only when every   *)
(* task that was handed over has been executed.  A task may itself hand    *)
(* over tasks while it runs.                                               *)
(***************************************************************************)
EXTENDS Sequences, Naturals

CONSTANTS
  Tasks,     \* the calls of run that the program makes
  Workers,   \* the threads of the pool
  Main,      \* the thread that owns the scheduler
  Parent,    \* the task that makes each call, or Main
  NoTask     \* what an idle worker executes

VARIABLES
  queue,     \* tasks handed over and not started
  job,       \* the task each worker executes
  finished,  \* the tasks that have been executed
  open       \* the destructor has not returned

vars == <<queue, job, finished, open>>

Queued == {queue[i] : i \in 1 .. Len(queue)}

Running == {job[w] : w \in Workers} \ {NoTask}

TypeOK ==
  /\ queue \in Seq(Tasks)
  /\ job \in [Workers -> Tasks \cup {NoTask}]
  /\ finished \in SUBSET Tasks
  /\ open \in BOOLEAN

Init ==
  /\ queue = <<>>
  /\ job = [w \in Workers |-> NoTask]
  /\ finished = {}
  /\ open = TRUE

Submit(t) ==
  /\ open
  /\ t \notin Queued \cup Running \cup finished
  /\ Parent[t] \in Running \cup {Main}
  /\ queue' = Append(queue, t)
  /\ UNCHANGED <<job, finished, open>>

Start(w) ==
  /\ queue # <<>> /\ job[w] = NoTask
  /\ job' = [job EXCEPT ![w] = Head(queue)]
  /\ queue' = Tail(queue)
  /\ UNCHANGED <<finished, open>>

Finish(w) ==
  /\ job[w] # NoTask
  /\ finished' = finished \cup {job[w]}
  /\ job' = [job EXCEPT ![w] = NoTask]
  /\ UNCHANGED <<queue, open>>

Close ==
  /\ open /\ queue = <<>> /\ Running = {}
  /\ open' = FALSE
  /\ UNCHANGED <<queue, job, finished>>

Next ==
  \/ \E t \in Tasks : Submit(t)
  \/ \E w \in Workers : Start(w) \/ Finish(w)
  \/ Close

Spec == Init /\ [][Next]_vars
-----------------------------------------------------------------------------
\* Every task is at one place: it waits at one position of the queue, or one
\* worker executes it, or it has been executed; so none is executed twice.
ExecutedOnce ==
  /\ \A i, j \in 1 .. Len(queue) : queue[i] = queue[j] => i = j
  /\ \A v, w \in Workers : job[v] = job[w] /\ job[v] # NoTask => v = w
  /\ Queued \cap Running = {}
  /\ (Queued \cup Running) \cap finished = {}
=============================================================================
