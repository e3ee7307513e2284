---------------------------- MODULE MessageServer ----------------------------
(***************************************************************************)
(* server-client: main starts a thread per talker that prints what it      *)
(* receives under a mutex.  A print is several insertions into cout, and   *)
(* only the messages are printed under the mutex: what main says of a      *)
(* connection and a thread of its end can come between the insertions of a *)
(* message.  A connection is a stream, so what one send put into it can    *)
(* be received together with the next one, or in parts.                    *)
(***************************************************************************)
EXTENDS Naturals, Sequences

CONSTANTS
  Talkers,
  MaxBytes   \* bound: what a talker sends, in units that are received whole

None == "none"

VARIABLES
  talker,      \* "away", "open", or "closed", accepted yet or not
  greeter,     \* the step of main
  greeted,     \* whom it has accepted
  printer,     \* for each talker the step of its thread
  sent,        \* how many units it has sent: it sends 1, 2, 3, ...
  stream,      \* those that have not been received
  buffer,      \* those its thread has received last
  printOwner,  \* who holds the mutex
  out          \* the insertions into cout

vars == <<talker, greeter, greeted, printer, sent, stream, buffer, printOwner, out>>

Init ==
  /\ talker = [t \in Talkers |-> "away"]
  /\ greeter = "accept" /\ greeted = None
  /\ printer = [t \in Talkers |-> "none"]
  /\ sent = [t \in Talkers |-> 0]
  /\ stream = [t \in Talkers |-> << >>] /\ buffer = [t \in Talkers |-> << >>]
  /\ printOwner = None
  /\ out = << >>

Insert(what, who, data) ==
  out' = Append(out, [what |-> what, who |-> who, data |-> data])
-----------------------------------------------------------------------------
(* client.cpp. *)

Connect(t) ==
  /\ talker[t] = "away" /\ greeter # "failed"
  /\ talker' = [talker EXCEPT ![t] = "open"]
  /\ UNCHANGED <<greeter, greeted, printer, sent, stream, buffer, printOwner, out>>

Send(t) ==
  /\ talker[t] = "open" /\ sent[t] < MaxBytes
  /\ sent' = [sent EXCEPT ![t] = @ + 1]
  /\ stream' = [stream EXCEPT ![t] = Append(@, sent[t] + 1)]
  /\ UNCHANGED <<talker, greeter, greeted, printer, buffer, printOwner, out>>

\* With "exit", or killed.
Close(t) ==
  /\ talker[t] = "open"
  /\ talker' = [talker EXCEPT ![t] = "closed"]
  /\ UNCHANGED <<greeter, greeted, printer, sent, stream, buffer, printOwner, out>>
-----------------------------------------------------------------------------
(* main of server.cpp. *)

Accept(t) ==
  /\ greeter = "accept" /\ talker[t] # "away" /\ printer[t] = "none"
  /\ greeter' = "greet" /\ greeted' = t
  /\ UNCHANGED <<talker, printer, sent, stream, buffer, printOwner, out>>

AcceptFails ==
  /\ greeter = "accept"
  /\ greeter' = "failed"
  /\ printer' = [t \in Talkers |-> "none"]
  /\ UNCHANGED <<talker, greeted, sent, stream, buffer, printOwner, out>>

Greet ==
  /\ greeter = "greet"
  /\ Insert("connected", greeted, << >>)
  /\ greeter' = "create"
  /\ UNCHANGED <<talker, greeted, printer, sent, stream, buffer, printOwner>>

CreateThread ==
  /\ greeter = "create"
  /\ printer' = [printer EXCEPT ![greeted] = "recv"]
  /\ greeter' = "accept"
  /\ UNCHANGED <<talker, greeted, sent, stream, buffer, printOwner, out>>
-----------------------------------------------------------------------------
(* handler. *)

Step(t, from, to) == printer[t] = from /\ printer' = [printer EXCEPT ![t] = to]

\* Any part of what has arrived.
Receive(t) ==
  /\ Step(t, "recv", "lock")
  /\ \E n \in 1 .. Len(stream[t]) :
       /\ buffer' = [buffer EXCEPT ![t] = SubSeq(stream[t], 1, n)]
       /\ stream' = [stream EXCEPT ![t] = SubSeq(@, n + 1, Len(@))]
  /\ UNCHANGED <<talker, greeter, greeted, sent, printOwner, out>>

LockAlways(t) ==
  /\ Step(t, "lock", "header")
  /\ printOwner' = t
  /\ UNCHANGED <<talker, greeter, greeted, sent, stream, buffer, out>>

Lock(t) ==
  /\ Step(t, "lock", "header")
  /\ printOwner = None /\ printOwner' = t
  /\ UNCHANGED <<talker, greeter, greeted, sent, stream, buffer, out>>

Header(t) ==
  /\ Step(t, "header", "body")
  /\ Insert("from", t, << >>)
  /\ UNCHANGED <<talker, greeter, greeted, sent, stream, buffer, printOwner>>

Body(t) ==
  /\ Step(t, "body", "unlock")
  /\ Insert("body", t, buffer[t])
  /\ UNCHANGED <<talker, greeter, greeted, sent, stream, buffer, printOwner>>

Unlock(t) ==
  /\ Step(t, "unlock", "recv")
  /\ printOwner' = None
  /\ UNCHANGED <<talker, greeter, greeted, sent, stream, buffer, out>>

Disconnected(t) ==
  /\ talker[t] = "closed" /\ stream[t] = << >>
  /\ Step(t, "recv", "closed")
  /\ Insert("disconnected", t, << >>)
  /\ UNCHANGED <<talker, greeter, greeted, sent, stream, buffer, printOwner>>

Server ==
  \/ \E t \in Talkers : Accept(t)
  \/ AcceptFails \/ Greet \/ CreateThread
  \/ \E t \in Talkers :
       \/ Receive(t) \/ Lock(t) \/ Header(t) \/ Body(t) \/ Unlock(t)
       \/ Disconnected(t)

Next == Server \/ \E t \in Talkers : Connect(t) \/ Send(t) \/ Close(t)

Spec == Init /\ [][Next]_vars
-----------------------------------------------------------------------------
\* The units after the n-th, up to the m-th.
Units(n, m) == [i \in 1 .. m - n |-> n + i]

Bodies(t) == {k \in DOMAIN out : out[k].what = "body" /\ out[k].who = t}

\* What has been printed of a talker before the k-th insertion.
PrintedBefore(t, k) ==
  UNION {{out[b].data[i] : i \in DOMAIN out[b].data} : b \in {b \in Bodies(t) : b < k}}

Printed(t) == PrintedBefore(t, Len(out) + 1)

\* The header of the talker stands before k, and between them only news of
\* connections.
UnderItsHeader(t, k) ==
  \E h \in 1 .. k - 1 :
    /\ out[h].what = "from" /\ out[h].who = t
    /\ \A j \in h + 1 .. k - 1 : out[j].what \in {"connected", "disconnected"}

\* The k-th insertion goes on where those before it ended.
Continues(t, k) ==
  \E n \in 0 .. sent[t] :
    /\ PrintedBefore(t, k) = 1 .. n
    /\ out[k].data = Units(n, n + Len(out[k].data))

\* Each body stands under its own header: what comes between them is news of
\* connections, never another message.  And what is printed of a talker is
\* what it sent, in order and complete when its end is announced, however the
\* stream was cut up.
MessagesAreWhole ==
  \A t \in Talkers :
    /\ \A k \in Bodies(t) : UnderItsHeader(t, k) /\ Continues(t, k)
    /\ \E n \in 0 .. sent[t] :
         Printed(t) = 1 .. n /\ (printer[t] = "closed" => n = sent[t])
-----------------------------------------------------------------------------
(* An inductive invariant. *)

Insertions ==
  [what : {"connected", "from", "body", "disconnected"}, who : Talkers,
   data : Seq(Nat)]

TalkTypes ==
  /\ talker \in [Talkers -> {"away", "open", "closed"}]
  /\ greeter \in {"accept", "greet", "create", "failed"}
  /\ printer \in [Talkers -> {"none", "recv", "lock", "header", "body", "unlock",
                              "closed"}]
  /\ sent \in [Talkers -> Nat]
  /\ stream \in [Talkers -> Seq(Nat)] /\ buffer \in [Talkers -> Seq(Nat)]
  /\ out \in Seq(Insertions)

Greeting ==
  /\ greeter \in {"greet", "create"} => greeted \in Talkers /\ printer[greeted] = "none"
  /\ greeter = "failed" => \A t \in Talkers : printer[t] = "none"

OneAtATime ==
  \A t \in Talkers :
    /\ printer[t] \in {"header", "body", "unlock"} => printOwner = t
    /\ printer[t] = "body" => UnderItsHeader(t, Len(out) + 1)

\* What has been received and not yet printed.
Pending(t) ==
  IF printer[t] \in {"lock", "header", "body"} THEN buffer[t] ELSE << >>

\* What was sent is what was printed, then what was received, then the stream.
NothingOvertakes(t) ==
  \E n \in 0 .. sent[t] :
    /\ Printed(t) = 1 .. n
    /\ greeter # "failed" =>
         \E m \in n .. sent[t] : Pending(t) = Units(n, m) /\ stream[t] = Units(m, sent[t])

EndIsLast(t) == printer[t] = "closed" => talker[t] = "closed" /\ stream[t] = << >>

TalkInv ==
  /\ TalkTypes /\ Greeting /\ OneAtATime
  /\ \A t \in Talkers :
       /\ \A k \in Bodies(t) : UnderItsHeader(t, k) /\ Continues(t, k)
       /\ NothingOvertakes(t) /\ EndIsLast(t)
=============================================================================
