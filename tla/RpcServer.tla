------------------------------ MODULE RpcServer ------------------------------
(***************************************************************************)
(* RPC_TCP: a calculator server and its clients.  For every connection     *)
(* main accepts it adds an entry to the array it polls AND starts a        *)
(* detached worker, and both receive from the connection, answer on it and *)
(* close it.  Both know a connection by the number of its socket only, and *)
(* the kernel gives a closed number to the next connection.                *)
(*                                                                         *)
(* recv is two steps: the call looks the number up, then it waits for a    *)
(* request or the end on the connection it found, whatever becomes of the  *)
(* number meanwhile.                                                       *)
(***************************************************************************)
EXTENDS Integers, Sequences, FiniteSets

CONSTANTS
  Clients,      \* the client processes, one connection each
  Main,         \* the thread of main
  Closed,       \* what a number stands for that is not open
  MaxRequests   \* bound: the lines each user types

\* The array of poll entries has ten places, one for the listening socket, and
\* nothing tests whether it is full; the model stops short of that.
ASSUME RpcAssumption ==
  /\ Main \notin Clients
  /\ Closed \notin Clients
  /\ IsFiniteSet(Clients)
  /\ Cardinality(Clients) \in 1 .. 9
  /\ MaxRequests \in Nat

VARIABLES
  client,    \* what each client is doing
  asked,     \* how many lines its user has typed
  pending,   \* a request waits in the server's end of its connection
  replies,   \* the answers that wait in its own end, by who asked for them
  served,    \* the clients whose connection main has taken from the backlog
  file,      \* the connection each socket number stands for
  fds,       \* main's poll entries after the first: number and POLLIN
  i,         \* main's loop variable
  pc,        \* the next step of each thread; a worker has its client's name
  num,       \* the socket number it uses
  on,        \* the connection it receives from, then the one that asked
  late       \* history: clients that were given the number of a worker that
             \* still runs

vars == <<client, asked, pending, replies, served, file, fds, i, pc, num, on,
          late>>

Threads == Clients \cup {Main}
Numbers == 1 .. Cardinality(Clients)
Entry   == [fd : Numbers, ready : BOOLEAN]

MainSteps   == {"poll", "accept", "scan", "recv", "blocked", "answer", "close"}
WorkerSteps == {"none", "recv", "blocked", "answer", "close", "ended"}

TypeOK ==
  /\ client \in [Clients -> {"away", "idle", "waiting", "left", "killed"}]
  /\ asked \in [Clients -> 0 .. MaxRequests]
  /\ pending \in [Clients -> BOOLEAN]
  /\ replies \in [Clients -> SUBSET Clients]
  /\ served \in SUBSET Clients
  /\ file \in [Numbers -> Clients \cup {Closed}]
  /\ fds \in Seq(Entry)
  /\ i \in Nat \ {0}
  /\ pc \in [Threads -> MainSteps \cup WorkerSteps]
  /\ pc[Main] \in MainSteps
  /\ \A c \in Clients : pc[c] \in WorkerSteps
  /\ num \in [Threads -> Numbers]
  /\ on \in [Threads -> Clients \cup {Closed}]
  /\ late \in SUBSET Clients

\* The server listens.
Init ==
  /\ client = [c \in Clients |-> "away"]
  /\ asked = [c \in Clients |-> 0]
  /\ pending = [c \in Clients |-> FALSE]
  /\ replies = [c \in Clients |-> {}]
  /\ served = {}
  /\ file = [n \in Numbers |-> Closed]
  /\ fds = << >>
  /\ i = 1
  /\ pc = [t \in Threads |-> IF t = Main THEN "poll" ELSE "none"]
  /\ num = [t \in Threads |-> 1]
  /\ on = [t \in Threads |-> Closed]
  /\ late = {}

Gone(c) == client[c] \in {"left", "killed"}

Open(c) == \E n \in Numbers : file[n] = c

\* The server's end lives until its number is closed and no recv waits on it.
ServerClosed(c) ==
  /\ c \in served
  /\ ~Open(c)
  /\ \A t \in Threads : pc[t] = "blocked" => on[t] # c
-----------------------------------------------------------------------------
(* The clients. *)

serverVars == <<served, file, fds, i, pc, num, on, late>>

Become(c, state) == client' = [client EXCEPT ![c] = state]

Connect(c) ==
  /\ client[c] = "away"
  /\ Become(c, "idle")
  /\ UNCHANGED <<asked, pending, replies, serverVars>>

\* A line is sent and the client waits for its result; an empty line sends
\* nothing, and the client waits all the same.
Ask(c) ==
  /\ client[c] = "idle"
  /\ asked[c] < MaxRequests
  /\ ~ServerClosed(c)
  /\ \E empty \in BOOLEAN : pending' = [pending EXCEPT ![c] = @ \/ ~empty]
  /\ asked' = [asked EXCEPT ![c] = @ + 1]
  /\ Become(c, "waiting")
  /\ UNCHANGED <<replies, serverVars>>

\* recv returns all that has arrived, or the end of the connection.
Hear(c) ==
  /\ client[c] = "waiting"
  /\ replies[c] # {} \/ ServerClosed(c)
  /\ replies' = [replies EXCEPT ![c] = {}]
  /\ Become(c, "idle")
  /\ UNCHANGED <<asked, pending, serverVars>>

\* "exit", or a line sent to a server that has closed the connection.
Leave(c) ==
  /\ client[c] = "idle"
  /\ Become(c, "left")
  /\ replies' = [replies EXCEPT ![c] = {}]
  /\ UNCHANGED <<asked, pending, serverVars>>

\* A signal ends the client; what it has sent can still be received.
Kill(c) ==
  /\ client[c] = "waiting"
  /\ Become(c, "killed")
  /\ replies' = [replies EXCEPT ![c] = {}]
  /\ UNCHANGED <<asked, pending, serverVars>>

User(c) == Connect(c) \/ Ask(c) \/ Hear(c) \/ Leave(c) \/ Kill(c)
-----------------------------------------------------------------------------
(* What main and the workers have in common. *)

clientVars == <<client, asked>>

Goto(t, step) == pc' = [pc EXCEPT ![t] = step]

CallRecvAgain(t) ==
  /\ pc[t] = "recv"
  /\ Goto(t, IF file[num[t]] = Closed THEN "recv" ELSE "blocked")
  /\ on' = [on EXCEPT ![t] = file[num[t]]]
  /\ UNCHANGED <<clientVars, pending, replies, served, file, fds, i, num, late>>

\* recv fails at once on a number that is not open.
CallRecv(t) ==
  /\ pc[t] = "recv"
  /\ Goto(t, IF file[num[t]] = Closed THEN "close" ELSE "blocked")
  /\ on' = [on EXCEPT ![t] = file[num[t]]]
  /\ UNCHANGED <<clientVars, pending, replies, served, file, fds, i, num, late>>

RecvRequest(t) ==
  /\ pc[t] = "blocked"
  /\ pending[on[t]]
  /\ pending' = [pending EXCEPT ![on[t]] = FALSE]
  /\ Goto(t, "answer")
  /\ UNCHANGED <<clientVars, replies, served, file, fds, i, num, on, late>>

RecvEndTooSoon(t) ==
  /\ pc[t] = "blocked"
  /\ ~pending[on[t]]
  /\ Goto(t, "close")
  /\ UNCHANGED <<clientVars, pending, replies, served, file, fds, i, num, on,
                 late>>

RecvEnd(t) ==
  /\ pc[t] = "blocked"
  /\ ~pending[on[t]] /\ Gone(on[t])
  /\ Goto(t, "close")
  /\ UNCHANGED <<clientVars, pending, replies, served, file, fds, i, num, on,
                 late>>

DeliverToNewest(t) ==
  replies' = [c \in Clients |->
                IF file[fds[Len(fds)].fd] = c /\ ~Gone(c)
                THEN replies[c] \cup {on[t]} ELSE replies[c]]

\* The answer goes to whoever has the number now.
Deliver(t) ==
  replies' = [c \in Clients |->
                IF file[num[t]] = c /\ ~Gone(c) THEN replies[c] \cup {on[t]}
                                                ELSE replies[c]]

CloseNumber(t) == file' = [file EXCEPT ![num[t]] = Closed]
-----------------------------------------------------------------------------
(* worker_thread. *)

WorkerAnswersOnce(c) ==
  /\ pc[c] = "answer"
  /\ Deliver(c)
  /\ Goto(c, "ended")
  /\ UNCHANGED <<clientVars, pending, served, file, fds, i, num, on, late>>

WorkerAnswers(c) ==
  /\ pc[c] = "answer"
  /\ Deliver(c)
  /\ Goto(c, "recv")
  /\ UNCHANGED <<clientVars, pending, served, file, fds, i, num, on, late>>

WorkerCloses(c) ==
  /\ pc[c] = "close"
  /\ CloseNumber(c)
  /\ Goto(c, "ended")
  /\ UNCHANGED <<clientVars, pending, replies, served, fds, i, num, on, late>>

Worker(c) ==
  \/ CallRecv(c) \/ RecvRequest(c) \/ RecvEnd(c)
  \/ WorkerAnswers(c) \/ WorkerCloses(c)
-----------------------------------------------------------------------------
(* main. *)

Backlog == {c \in Clients : client[c] # "away"} \ served

Readable(n) ==
  file[n] # Closed /\ (pending[file[n]] \/ Gone(file[n]))

\* poll returns when somebody connects, a request or an end is there, or an
\* entry names a number that is not open; only the first two count.
Poll ==
  /\ pc[Main] = "poll"
  /\ \/ Backlog # {}
     \/ \E k \in DOMAIN fds : Readable(fds[k].fd) \/ file[fds[k].fd] = Closed
  /\ fds' = [k \in DOMAIN fds |-> [fds[k] EXCEPT !.ready = Readable(fds[k].fd)]]
  /\ i' = 1
  /\ Goto(Main, IF Backlog # {} THEN "accept" ELSE "scan")
  /\ UNCHANGED <<clientVars, pending, replies, served, file, num, on, late>>

LowestFree(n) == /\ file[n] = Closed
                 /\ \A m \in 1 .. n - 1 : file[m] # Closed

RunningOn(n) == {w \in Clients : num[w] = n /\ pc[w] \notin {"none", "ended"}}

\* The kernel gives the lowest free number.  Nobody writes the revents of a
\* new entry, which this round of the loop reads.
Accept ==
  /\ pc[Main] = "accept"
  /\ \E c \in Backlog, n \in Numbers, garbage \in BOOLEAN :
       /\ LowestFree(n)
       /\ file' = [file EXCEPT ![n] = c]
       /\ served' = served \cup {c}
       /\ fds' = Append(fds, [fd |-> n, ready |-> garbage])
       /\ num' = [num EXCEPT ![c] = n]
       /\ pc' = [pc EXCEPT ![c] = "recv", ![Main] = "scan"]
       /\ late' = IF RunningOn(n) = {} THEN late ELSE late \cup {c}
  /\ UNCHANGED <<clientVars, pending, replies, i, on>>

\* The client has aborted the connection meanwhile; nobody will serve it.
AcceptFails ==
  /\ pc[Main] = "accept"
  /\ \E c \in Backlog : Gone(c) /\ served' = served \cup {c}
  /\ Goto(Main, "scan")
  /\ UNCHANGED <<clientVars, pending, replies, file, fds, i, num, on, late>>

\* The loop goes on to the next entry with POLLIN, or back to poll.
ScanFinds(k) ==
  /\ k >= i /\ fds[k].ready
  /\ \A j \in i .. k - 1 : ~fds[j].ready
  /\ i' = k
  /\ num' = [num EXCEPT ![Main] = fds[k].fd]
  /\ Goto(Main, "recv")

ScanEnds ==
  /\ \A k \in i .. Len(fds) : ~fds[k].ready
  /\ Goto(Main, "poll")
  /\ UNCHANGED <<i, num>>

Scan ==
  /\ pc[Main] = "scan"
  /\ ScanEnds \/ \E k \in DOMAIN fds : ScanFinds(k)
  /\ UNCHANGED <<clientVars, pending, replies, served, file, fds, on, late>>

MainAnswers ==
  /\ pc[Main] = "answer"
  /\ Deliver(Main)
  /\ i' = i + 1
  /\ Goto(Main, "scan")
  /\ UNCHANGED <<clientVars, pending, served, file, fds, num, on, late>>

RemovedWithoutMove(s, k) == SubSeq(s, 1, Len(s) - 1)

\* fds[i] = fds[--client_count]
Removed(s, k) == SubSeq([s EXCEPT ![k] = s[Len(s)]], 1, Len(s) - 1)

MainCloses ==
  /\ pc[Main] = "close"
  /\ CloseNumber(Main)
  /\ fds' = Removed(fds, i)
  /\ i' = i + 1
  /\ Goto(Main, "scan")
  /\ UNCHANGED <<clientVars, pending, replies, served, num, on, late>>

MainLoop ==
  \/ Poll \/ Accept \/ AcceptFails \/ Scan
  \/ CallRecv(Main) \/ RecvRequest(Main) \/ RecvEnd(Main)
  \/ MainAnswers \/ MainCloses

Next ==
  \/ MainLoop
  \/ \E c \in Clients : User(c) \/ Worker(c)

Spec == Init /\ [][Next]_vars
FairSpec == Spec /\ WF_vars(MainLoop) /\ \A c \in Clients : WF_vars(Worker(c))
-----------------------------------------------------------------------------
(* Safety. *)

\* The server has closed the connection of a client that is still there.
Cut(c) == ServerClosed(c) /\ ~Gone(c)

\* Main and the worker of one client both close its number.  A client that
\* stays loses its connection only if it was accepted on the number of a
\* worker that had not yet ended.
CutByALateWorker == \A c \in Clients : Cut(c) => c \in late

\* An answer reaches a client that did not ask for it only when that client
\* was accepted on the number of a worker that still ran, and the one who
\* asked was killed or may have been cut off before.
StrayAnswersHadNoAsker ==
  \A c \in Clients : \A d \in replies[c] \ {c} :
    c \in late /\ (client[d] = "killed" \/ d \in late)

\* Though main removes entries by moving the last one, and several entries can
\* name one number, every open connection keeps an entry in the array.
EveryOpenConnectionIsPolled ==
  \A n \in Numbers : file[n] # Closed => \E k \in DOMAIN fds : fds[k].fd = n

-----------------------------------------------------------------------------
(* The inductive invariant. *)

NumbersMatch ==
  \A c \in Clients :
    /\ pc[c] # "none" => c \in served
    /\ c \in served => client[c] # "away" /\ (pc[c] # "none" \/ Gone(c))
    /\ \A n \in Numbers : file[n] = c => pc[c] # "none" /\ num[c] = n

\* A thread receives from the connection of a client that has or had its number.
RecvsMatch ==
  \A t \in Threads :
    pc[t] \in {"blocked", "answer"} =>
      on[t] \in Clients /\ pc[on[t]] # "none" /\ num[on[t]] = num[t]

\* Nobody accepts while main serves an entry, so its number stays its own.
MainKeepsItsNumber ==
  /\ pc[Main] \in {"recv", "blocked", "answer", "close"} =>
       i \in DOMAIN fds /\ fds[i].fd = num[Main]
  /\ pc[Main] \in {"blocked", "answer", "close"} =>
       file[num[Main]] \in {on[Main], Closed}
  /\ pc[Main] = "close" => on[Main] = Closed \/ Gone(on[Main])

\* While a client that is not late stays, its number is its own.
NumbersAreKept ==
  \A c \in Clients \ late :
    /\ \A w \in Clients \ {c} :
         pc[c] # "none" /\ file[num[c]] = c /\ num[w] = num[c] =>
           pc[w] \in {"none", "ended"}
    /\ pc[c] # "none" /\ ~Gone(c) =>
         /\ file[num[c]] = c
         /\ pc[c] \in {"recv", "blocked", "answer"}
         /\ pc[c] # "recv" => on[c] = c

Holds(t, c) == pc[t] = "answer" /\ on[t] = c

\* A client that waits has at most one request, which is in its connection,
\* in the hands of one thread, or answered; one that types has none.
OneAnswerFor(c) ==
  /\ replies[c] \subseteq {c}
  /\ client[c] \notin {"waiting", "killed"} =>
       ~pending[c] /\ replies[c] = {} /\ \A t \in Threads : ~Holds(t, c)
  /\ client[c] = "waiting" =>
       /\ pending[c] => replies[c] = {} /\ \A t \in Threads : ~Holds(t, c)
       /\ \A t \in Threads : Holds(t, c) =>
            replies[c] = {} /\ \A u \in Threads \ {t} : ~Holds(u, c)

OneAnswerPerRequest == \A c \in Clients \ late : OneAnswerFor(c)

RInv == /\ TypeOK /\ NumbersMatch /\ RecvsMatch /\ MainKeepsItsNumber
        /\ NumbersAreKept /\ OneAnswerPerRequest
        /\ EveryOpenConnectionIsPolled /\ StrayAnswersHadNoAsker
-----------------------------------------------------------------------------
(* Liveness. *)

\* Every request that reaches an accepted connection is answered to the one
\* who asked, unless it was killed or may have been cut off; that main and the
\* worker compete for it, and main can block on a client, does no harm.
RequestsAreAnswered ==
  \A c \in Clients :
    c \in served /\ pending[c] ~>
      c \in replies[c] \/ client[c] = "killed" \/ c \in late

\* Main waits in recv for a client that has sent nothing: the worker has taken
\* the request that poll announced.
MainIsHeld ==
  pc[Main] = "blocked" /\ ~pending[on[Main]] /\ ~Gone(on[Main])

\* While main is held nobody is accepted; short of that everybody is.
ConnectionsAreAccepted ==
  \A c \in Clients :
    client[c] = "idle" ~> c \in served \/ MainIsHeld
=============================================================================
