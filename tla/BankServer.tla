----------------------------- MODULE BankServer -----------------------------
(***************************************************************************)
(* transparent_bank/server.cpp: the request server that the bank's clients *)
(* connect to.  Its threads are main, which accepts connections; one       *)
(* detached handler per connection, which serves one request; and the      *)
(* monitor, which sleeps on a condition variable until ReportEvery new     *)
(* requests have been counted.  Only the monitor ever locks count_mutex:   *)
(* the handlers change request_count and shutdown_requested and notify     *)
(* without it, so a notification can fall between the monitor's test of    *)
(* its condition and its sleep.                                            *)
(***************************************************************************)
EXTENDS Integers, FiniteSets

CONSTANTS
  Clients,      \* the connections that are ever made, one request each
  ReportEvery   \* 5 in the code

ASSUME ServerAssumption ==
  /\ IsFiniteSet(Clients)
  /\ ReportEvery \in Nat \ {0}

VARIABLES
  client,    \* what each client has done so far
  handler,   \* the next step of the thread that serves each client
  main,      \* the next step of main
  monitor,   \* the next step of monitor_requests
  request_count, shutdown_requested, last_reported,
  late,      \* history: the clients accepted although shutdown was requested
  missed     \* history: a notification fell between the monitor's test and
             \* its sleep

vars == <<client, handler, main, monitor, request_count, shutdown_requested,
          last_reported, late, missed>>

Messages == {"work", "shutdown"}

TypeOK ==
  /\ client \in [Clients -> {"away", "connected", "left"} \cup Messages]
  /\ handler \in [Clients -> {"none", "recv", "flag", "reply", "count",
                              "notify", "farewell", "ended"}]
  /\ main \in {"test", "accept", "join", "exited"}
  /\ monitor \in {"loop", "pred1", "pred2", "doze", "asleep", "wake", "report",
                  "ended"}
  /\ request_count \in Nat
  /\ shutdown_requested \in BOOLEAN
  /\ last_reported \in Nat
  /\ late \in SUBSET Clients
  /\ missed \in BOOLEAN

\* The socket listens and the monitor thread has been started.
Init ==
  /\ client = [c \in Clients |-> "away"]
  /\ handler = [c \in Clients |-> "none"]
  /\ main = "test"
  /\ monitor = "loop"
  /\ request_count = 0
  /\ shutdown_requested = FALSE
  /\ last_reported = 0
  /\ late = {}
  /\ missed = FALSE

Running == main # "exited"
-----------------------------------------------------------------------------
(* The clients. *)

Connect(c) ==
  /\ Running /\ client[c] = "away"
  /\ client' = [client EXCEPT ![c] = "connected"]
  /\ UNCHANGED <<handler, main, monitor, request_count, shutdown_requested,
                 last_reported, late, missed>>

\* A client sends its request, or leaves without one (the bank's client never
\* sends any).
Send(c, m) ==
  /\ Running /\ client[c] = "connected"
  /\ client' = [client EXCEPT ![c] = m]
  /\ UNCHANGED <<handler, main, monitor, request_count, shutdown_requested,
                 last_reported, late, missed>>
-----------------------------------------------------------------------------
(* main *)

MainTestNothing ==
  /\ main = "test"
  /\ main' = "accept"
  /\ UNCHANGED <<client, handler, monitor, request_count, shutdown_requested,
                 last_reported, late, missed>>

MainTest ==
  /\ main = "test"
  /\ main' = IF shutdown_requested THEN "join" ELSE "accept"
  /\ UNCHANGED <<client, handler, monitor, request_count, shutdown_requested,
                 last_reported, late, missed>>

\* accept returns a connection and a detached thread takes it over.
Accept(c) ==
  /\ main = "accept" /\ client[c] # "away" /\ handler[c] = "none"
  /\ handler' = [handler EXCEPT ![c] = "recv"]
  /\ main' = "test"
  /\ late' = IF shutdown_requested THEN late \cup {c} ELSE late
  /\ UNCHANGED <<client, monitor, request_count, shutdown_requested,
                 last_reported, missed>>

AcceptFails ==
  /\ main = "accept"
  /\ main' = IF shutdown_requested THEN "join" ELSE "test"
  /\ UNCHANGED <<client, handler, monitor, request_count, shutdown_requested,
                 last_reported, late, missed>>

\* stats_thread.join() returns, and main with it: the process ends.
Join ==
  /\ main = "join" /\ monitor = "ended"
  /\ main' = "exited"
  /\ UNCHANGED <<client, handler, monitor, request_count, shutdown_requested,
                 last_reported, late, missed>>
-----------------------------------------------------------------------------
(* handle_client *)

Serves(c, step) == Running /\ handler[c] = step

\* recv blocks while the client is connected and has sent nothing.
Receive(c) ==
  /\ Serves(c, "recv") /\ client[c] # "connected"
  /\ handler' = [handler EXCEPT ![c] = CASE client[c] = "left"     -> "ended"
                                         [] client[c] = "shutdown" -> "flag"
                                         [] OTHER                  -> "reply"]
  /\ UNCHANGED <<client, main, monitor, request_count, shutdown_requested,
                 last_reported, late, missed>>

RequestShutdown(c) ==
  /\ Serves(c, "flag")
  /\ shutdown_requested' = TRUE
  /\ handler' = [handler EXCEPT ![c] = "notify"]
  /\ UNCHANGED <<client, main, monitor, request_count, last_reported, late,
                 missed>>

Reply(c) ==
  /\ Serves(c, "reply")
  /\ handler' = [handler EXCEPT ![c] = "count"]
  /\ UNCHANGED <<client, main, monitor, request_count, shutdown_requested,
                 last_reported, late, missed>>

Count(c) ==
  /\ Serves(c, "count")
  /\ request_count' = request_count + 1
  /\ handler' = [handler EXCEPT ![c] = "notify"]
  /\ UNCHANGED <<client, main, monitor, shutdown_requested, last_reported, late,
                 missed>>

AfterNotify(c) == IF client[c] = "shutdown" THEN "farewell" ELSE "ended"

SkipNotify(c) ==
  /\ Serves(c, "notify")
  /\ handler' = [handler EXCEPT ![c] = AfterNotify(c)]
  /\ UNCHANGED <<client, main, monitor, request_count, shutdown_requested,
                 last_reported, late, missed>>

\* count_cond.notify_all() wakes the monitor if it sleeps and is forgotten if
\* it does not.
Notify(c) ==
  /\ Serves(c, "notify")
  /\ monitor' = IF monitor = "asleep" THEN "pred1" ELSE monitor
  /\ missed' = (missed \/ monitor \in {"pred2", "doze"})
  /\ handler' = [handler EXCEPT ![c] = AfterNotify(c)]
  /\ UNCHANGED <<client, main, request_count, shutdown_requested, last_reported,
                 late>>

Farewell(c) ==
  /\ Serves(c, "farewell")
  /\ handler' = [handler EXCEPT ![c] = "ended"]
  /\ UNCHANGED <<client, main, monitor, request_count, shutdown_requested,
                 last_reported, late, missed>>
-----------------------------------------------------------------------------
(* monitor_requests *)

Monitors(step) == Running /\ monitor = step

Due == request_count - last_reported >= ReportEvery

\* while (!shutdown_requested)
MonitorLoop ==
  /\ Monitors("loop")
  /\ monitor' = IF shutdown_requested THEN "ended" ELSE "pred1"
  /\ UNCHANGED <<client, handler, main, request_count, shutdown_requested,
                 last_reported, late, missed>>

\* The left and then the right operand of wait's condition.
TestCount ==
  /\ Monitors("pred1")
  /\ monitor' = IF Due THEN "wake" ELSE "pred2"
  /\ missed' = FALSE
  /\ UNCHANGED <<client, handler, main, request_count, shutdown_requested,
                 last_reported, late>>

TestShutdown ==
  /\ Monitors("pred2")
  /\ monitor' = IF shutdown_requested THEN "wake" ELSE "doze"
  /\ UNCHANGED <<client, handler, main, request_count, shutdown_requested,
                 last_reported, late, missed>>

FallAsleep ==
  /\ Monitors("doze")
  /\ monitor' = "asleep"
  /\ UNCHANGED <<client, handler, main, request_count, shutdown_requested,
                 last_reported, late, missed>>

SpuriousWakeup ==
  /\ Monitors("asleep")
  /\ monitor' = "pred1"
  /\ UNCHANGED <<client, handler, main, request_count, shutdown_requested,
                 last_reported, late, missed>>

\* if (shutdown_requested) break
WakeUp ==
  /\ Monitors("wake")
  /\ monitor' = IF shutdown_requested THEN "ended" ELSE "report"
  /\ UNCHANGED <<client, handler, main, request_count, shutdown_requested,
                 last_reported, late, missed>>

ReportOneMore ==
  /\ Monitors("report")
  /\ last_reported' = last_reported + 1
  /\ monitor' = "loop"
  /\ UNCHANGED <<client, handler, main, request_count, shutdown_requested, late,
                 missed>>

Report ==
  /\ Monitors("report")
  /\ last_reported' = request_count
  /\ monitor' = "loop"
  /\ UNCHANGED <<client, handler, main, request_count, shutdown_requested, late,
                 missed>>
-----------------------------------------------------------------------------
Main == MainTest \/ (\E c \in Clients : Accept(c)) \/ Join

Handle(c) ==
  Receive(c) \/ RequestShutdown(c) \/ Reply(c) \/ Count(c) \/ Notify(c) \/ Farewell(c)

Monitor ==
  MonitorLoop \/ TestCount \/ TestShutdown \/ FallAsleep \/ WakeUp \/ Report

Next ==
  \/ Main \/ AcceptFails
  \/ Monitor \/ SpuriousWakeup
  \/ \E c \in Clients :
       \/ Handle(c)
       \/ Connect(c)
       \/ \E m \in Messages \cup {"left"} : Send(c, m)

Spec == Init /\ [][Next]_vars

\* The threads are scheduled; clients, failures of accept and spurious wakeups
\* come when they will, if at all.
FairSpec ==
  Spec /\ WF_vars(Main) /\ WF_vars(Monitor) /\ \A c \in Clients : WF_vars(Handle(c))
-----------------------------------------------------------------------------
(* Properties. *)

\* Once shutdown is requested main takes at most one more connection: the one
\* its pending accept waits for.
AtMostOneLate == \A c, d \in late : c = d

Answered == {c \in Clients : client[c] = "work"
                               /\ handler[c] \in {"count", "notify", "ended"}}

\* The monitor never reports more requests than have been answered.
ReportsAreEarned ==
  last_reported <= request_count /\ request_count <= Cardinality(Answered)

\* Two successive reports are at least ReportEvery requests apart, although the
\* number printed is read again after the test.
ReportsAreSpaced ==
  [][last_reported' # last_reported =>
       last_reported' - last_reported >= ReportEvery]_vars

\* The monitor oversleeps, a report due or shutdown requested with nobody on
\* the way to wake it, only because a notification fell between its test and
\* its sleep.
OversleepsOnlyIfMissed ==
  /\ monitor = "asleep"
  /\ Due \/ shutdown_requested
  /\ \A c \in Clients : handler[c] # "notify"
  => missed

\* A connection made after shutdown was requested lets main leave its loop.
NextConnectionEndsMain ==
  \A c \in Clients :
    shutdown_requested /\ client[c] # "away" /\ handler[c] = "none"
      ~> main \in {"join", "exited"}
-----------------------------------------------------------------------------
(* The inductive invariant. *)

\* One connection at most is accepted late, and main is then on its way out.
LateOnce ==
  /\ AtMostOneLate
  /\ late # {} => shutdown_requested /\ main # "accept"

\* The clients whose request has been counted.
Counted == {c \in Clients : client[c] = "work" /\ handler[c] \in {"notify", "ended"}}

CountIsExact ==
  /\ request_count = Cardinality(Counted)
  /\ \A c \in Clients :
       /\ handler[c] \in {"reply", "count"} => client[c] = "work"
       /\ client[c] = "away" => handler[c] = "none"
       /\ client[c] = "connected" => handler[c] \in {"none", "recv"}
       /\ handler[c] \in {"flag", "farewell"} => client[c] = "shutdown"

\* A report is due when the monitor is about to make one.
ReportsAreDue ==
  /\ last_reported <= request_count
  /\ monitor = "report" => Due
  /\ monitor = "wake" /\ ~shutdown_requested => Due

\* What the monitor has tested false is still false, or a notification is on
\* its way, or it has been missed.
NothingForgotten ==
  /\ \/ monitor \in {"pred2", "doze", "asleep"} /\ Due
     \/ monitor \in {"doze", "asleep"} /\ shutdown_requested
  /\ \A c \in Clients : handler[c] # "notify"
  => missed

SInv == TypeOK /\ LateOnce /\ CountIsExact /\ ReportsAreDue /\ NothingForgotten
-----------------------------------------------------------------------------
(* What the program says of itself. *)

\* The comment on monitor_requests, in translation: "thread that prints every
\* 5 requests".  Whenever that many are due a report follows, or shutdown.
EveryBatchIsReported == Due ~> ~Due \/ shutdown_requested

\* "Server shutting down." is the answer to a shutdown request, and "Server
\* shut down gracefully." main's last message.
ShutsDownGracefully == shutdown_requested ~> ~Running
=============================================================================
