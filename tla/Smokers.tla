------------------------------- MODULE Smokers -------------------------------
(***************************************************************************)
(* Smokers: main removes and creates its named semaphores, forks a process *)
(* that is to be all three smokers and stays the first of them for ever,   *)
(* and as barman reads orders.  Two things end the service for good: the   *)
(* barman takes sem_barman_ready for each order and nobody gives it back,  *)
(* and paper and matches have no smoker.  A second launch while the first  *)
(* one still runs takes the names away from it.                            *)
(***************************************************************************)
EXTENDS Naturals, Sequences

CONSTANT Launches      \* runs of the program, all in the same directory of names

Names == {"ready", "tobacco", "done"}   \* those of paper and matches: nobody waits
None  == "none"

\* The order in which main removes the names and then creates them.
Order == <<"ready", "tobacco", "done">>

VARIABLES
  named,     \* the launch whose semaphore a name stands for, or None
  value,     \* the values of the semaphores each launch has created
  mine,      \* for each launch, whose semaphores its main has opened
  barman,    \* where its main is
  step,      \* the name it removes or creates next
  smoker,    \* where its child is
  opened,    \* whose semaphore the child has opened by its name
  ordered,   \* the last order
  served,    \* history: the orders that have been served
  disturbed  \* history: another launch removed a name while it was running

vars == <<named, value, mine, barman, step, smoker, opened, ordered, served, disturbed>>

Init ==
  /\ named = [n \in Names |-> None]
  /\ value = [l \in Launches |-> [n \in Names |-> 0]]
  /\ mine = [l \in Launches |-> [n \in Names |-> None]]
  /\ barman = [l \in Launches |-> "start"] /\ step = [l \in Launches |-> 1]
  /\ smoker = [l \in Launches |-> "unborn"]
  /\ opened = [l \in Launches |-> None]
  /\ ordered = [l \in Launches |-> "nothing"]
  /\ served = [l \in Launches |-> << >>]
  /\ disturbed = {}

At(l, from)     == barman[l] = from
Goes(l, to)     == barman' = [barman EXCEPT ![l] = to]
Running(l)      == barman[l] \notin {"start", "dead"}
-----------------------------------------------------------------------------
(* main. *)

Launch(l) ==
  /\ At(l, "start") /\ Goes(l, "unlink")
  /\ UNCHANGED <<named, value, mine, step, smoker, opened, ordered, served, disturbed>>

Unlink(l) ==
  /\ At(l, "unlink")
  /\ named' = [named EXCEPT ![Order[step[l]]] = None]
  /\ LET others == {k \in Launches \ {l} : Running(k)}
     IN  disturbed' = disturbed \cup others \cup (IF others = {} THEN {} ELSE {l})
  /\ step' = [step EXCEPT ![l] = (@ % Len(Order)) + 1]
  /\ Goes(l, IF step[l] = Len(Order) THEN "create" ELSE "unlink")
  /\ UNCHANGED <<value, mine, smoker, opened, ordered, served>>

\* O_CREAT without O_EXCL: a name that another launch has created in the
\* meantime is opened.
Create(l) ==
  LET n == Order[step[l]] IN
  /\ At(l, "create")
  /\ IF named[n] = None
     THEN /\ named' = [named EXCEPT ![n] = l]
          /\ mine' = [mine EXCEPT ![l][n] = l]
          /\ value' = [value EXCEPT ![l][n] = IF n = "ready" THEN 1 ELSE 0]
     ELSE /\ mine' = [mine EXCEPT ![l][n] = named[n]]
          /\ UNCHANGED <<named, value>>
  /\ step' = [step EXCEPT ![l] = (@ % Len(Order)) + 1]
  /\ Goes(l, IF step[l] = Len(Order) THEN "fork" ELSE "create")
  /\ UNCHANGED <<smoker, opened, ordered, served, disturbed>>

Fork(l) ==
  /\ At(l, "fork") /\ Goes(l, "read")
  /\ smoker' = [smoker EXCEPT ![l] = "born"]
  /\ UNCHANGED <<named, value, mine, step, opened, ordered, served, disturbed>>
-----------------------------------------------------------------------------
(* Semaphores. *)

Wait(l, n) ==
  /\ value[mine[l][n]][n] > 0
  /\ value' = [value EXCEPT ![mine[l][n]][n] = @ - 1]
-----------------------------------------------------------------------------
(* barman. *)

\* 't', 'p', 'm', and any other character, which posts nothing.
Read(l) ==
  /\ At(l, "read") /\ Goes(l, "ready")
  /\ \E o \in {"tobacco", "other"} : ordered' = [ordered EXCEPT ![l] = o]
  /\ UNCHANGED <<named, value, mine, step, smoker, opened, served, disturbed>>

TakeReady(l) ==
  /\ At(l, "ready") /\ Wait(l, "ready") /\ Goes(l, "post")
  /\ UNCHANGED <<named, mine, step, smoker, opened, ordered, served, disturbed>>

PostOrder(l) ==
  /\ At(l, "post") /\ Goes(l, "done")
  /\ value' = IF ordered[l] = "tobacco"
              THEN [value EXCEPT ![mine[l]["tobacco"]]["tobacco"] = @ + 1]
              ELSE value
  /\ UNCHANGED <<named, mine, step, smoker, opened, ordered, served, disturbed>>

TakeDone(l) ==
  /\ At(l, "done") /\ Wait(l, "done") /\ Goes(l, "read")
  /\ served' = [served EXCEPT ![l] = Append(@, ordered[l])]
  /\ UNCHANGED <<named, mine, step, smoker, opened, ordered, disturbed>>

\* At the end of the input, and when somebody interrupts it, the launch is
\* killed as a group.
EndLaunch(l) ==
  /\ Running(l) /\ Goes(l, "dead")
  /\ smoker' = [smoker EXCEPT ![l] = "dead"]
  /\ UNCHANGED <<named, value, mine, step, opened, ordered, served, disturbed>>
-----------------------------------------------------------------------------
(* smoker. *)

OpenByName(l) ==
  /\ smoker[l] = "born"
  /\ opened' = [opened EXCEPT ![l] = named["tobacco"]]
  /\ smoker' = [smoker EXCEPT ![l] = IF named["tobacco"] = None THEN "dead"
                                                                ELSE "wait"]
  /\ UNCHANGED <<named, value, mine, barman, step, ordered, served, disturbed>>

TakeTobacco(l) ==
  /\ smoker[l] = "wait" /\ value[opened[l]]["tobacco"] > 0
  /\ value' = [value EXCEPT ![opened[l]]["tobacco"] = @ - 1]
  /\ smoker' = [smoker EXCEPT ![l] = "smoke"]
  /\ UNCHANGED <<named, mine, barman, step, opened, ordered, served, disturbed>>

PostNothing(l) ==
  /\ smoker[l] = "smoke"
  /\ smoker' = [smoker EXCEPT ![l] = "wait"]
  /\ UNCHANGED <<named, value, mine, barman, step, opened, ordered, served, disturbed>>

PostDone(l) ==
  /\ smoker[l] = "smoke"
  /\ value' = [value EXCEPT ![mine[l]["done"]]["done"] = @ + 1]
  /\ smoker' = [smoker EXCEPT ![l] = "wait"]
  /\ UNCHANGED <<named, mine, barman, step, opened, ordered, served, disturbed>>

Program(l) ==
  \/ Unlink(l) \/ Create(l) \/ Fork(l)
  \/ TakeReady(l) \/ PostOrder(l) \/ TakeDone(l)
Smoker(l) == OpenByName(l) \/ TakeTobacco(l) \/ PostDone(l)

Next == \E l \in Launches : Launch(l) \/ Read(l) \/ EndLaunch(l) \/ Program(l) \/ Smoker(l)

\* Users give orders and end launches when they like.
Fairness == \A l \in Launches : WF_vars(Program(l)) /\ WF_vars(Smoker(l))

FairSpec == Init /\ [][Next]_vars /\ Fairness
-----------------------------------------------------------------------------
\* A launch that is alone serves its first order if it is for tobacco, and then
\* no other one, ever: the barman waits for good at the next order.
OneOrderIsServed ==
  \A l \in Launches :
    /\ ordered[l] = "tobacco" ~>
         served[l] = <<"tobacco">> \/ barman[l] = "dead" \/ l \in disturbed
    /\ [](l \notin disturbed => served[l] \in {<< >>, <<"tobacco">>})
=============================================================================
