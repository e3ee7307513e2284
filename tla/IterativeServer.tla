--------------------------- MODULE IterativeServer ---------------------------
(***************************************************************************)
(* Two servers that serve one connection after the other: RPC/server.cpp   *)
(* answers one request of each, src/server.cpp prints it; their clients    *)
(* wait for the answer or do not.  Both receive once, at most a buffer     *)
(* full, and wait for it as long as the client likes.                      *)
(***************************************************************************)
EXTENDS Naturals, Sequences

CONSTANTS
  Callers,
  Backlog    \* bound: connections the kernel keeps for accept (10 in the code)

Nobody == "nobody"

\* What a user types: a line that fits the buffer, one that does not, or none.
Requests == {"short", "long", "empty"}

VARIABLES
  answers,   \* which of the two servers runs: the one that answers
  caller,    \* for each what it is doing
  asked,     \* what it has sent
  unread,    \* the part of it the server has not received
  backlog,   \* connections that wait for accept
  serving,   \* whose connection the server has accepted
  server,    \* what the server does
  reply,     \* what has become of the reply: "none", "sent", or "reset"
  printed    \* history: whose requests have been printed

vars == <<answers, caller, asked, unread, backlog, serving, server, reply, printed>>

Init ==
  /\ answers \in BOOLEAN
  /\ caller = [c \in Callers |-> "away"]
  /\ asked = [c \in Callers |-> "nothing"]
  /\ unread = [c \in Callers |-> 0]
  /\ backlog = << >>
  /\ serving = Nobody /\ server = "accept"
  /\ reply = [c \in Callers |-> "none"]
  /\ printed = {}
-----------------------------------------------------------------------------
(* The clients. *)

Connect(c) ==
  /\ caller[c] = "away" /\ server # "failed" /\ Len(backlog) < Backlog
  /\ caller' = [caller EXCEPT ![c] = "typing"]
  /\ backlog' = Append(backlog, c)
  /\ UNCHANGED <<answers, asked, unread, serving, server, reply, printed>>

\* An empty line is sent as nothing at all.  src/client.cpp closes the
\* connection after it, RPC/client.cpp waits.
Ask(c) ==
  /\ caller[c] = "typing"
  /\ \E r \in Requests :
       /\ asked' = [asked EXCEPT ![c] = r]
       /\ unread' = [unread EXCEPT ![c] = CASE r = "empty" -> 0
                                            [] r = "short" -> 1
                                            [] r = "long"  -> 2]
  /\ caller' = [caller EXCEPT ![c] = IF answers THEN "waiting" ELSE "gone"]
  /\ UNCHANGED <<answers, backlog, serving, server, reply, printed>>

\* The end of its connection wakes the client too; a reset may overtake the
\* reply or not.
Hear(c) ==
  /\ caller[c] = "waiting" /\ reply[c] # "none"
  /\ \/ caller' = [caller EXCEPT ![c] = "answered"]
     \/ /\ reply[c] = "reset"
        /\ caller' = [caller EXCEPT ![c] = "failed"]
  /\ UNCHANGED <<answers, asked, unread, backlog, serving, server, reply, printed>>

Kill(c) ==
  /\ caller[c] \in {"typing", "waiting"}
  /\ caller' = [caller EXCEPT ![c] = "gone"]
  /\ UNCHANGED <<answers, asked, unread, backlog, serving, server, reply, printed>>
-----------------------------------------------------------------------------
(* The servers. *)

Accept ==
  /\ server = "accept" /\ backlog # << >>
  /\ serving' = Head(backlog) /\ backlog' = Tail(backlog)
  /\ server' = "recv"
  /\ UNCHANGED <<answers, caller, asked, unread, reply, printed>>

\* The server exits, and its kernel resets who waits in the backlog.
AcceptFails ==
  /\ server = "accept"
  /\ server' = "failed" /\ backlog' = << >>
  /\ caller' = [c \in Callers |-> IF caller[c] \in {"typing", "waiting"}
                                     /\ reply[c] = "none"
                                  THEN "dropped" ELSE caller[c]]
  /\ UNCHANGED <<answers, asked, unread, serving, reply, printed>>

\* One recv: what is there, at most a buffer, or the end of the connection.
Receive ==
  /\ server = "recv"
  /\ unread[serving] > 0 \/ caller[serving] = "gone"
  /\ unread' = [unread EXCEPT ![serving] = IF @ > 0 THEN @ - 1 ELSE 0]
  /\ printed' = IF ~answers /\ unread[serving] > 0 THEN printed \cup {serving}
                                                   ELSE printed
  /\ server' = IF answers THEN "send" ELSE "close"
  /\ UNCHANGED <<answers, caller, asked, backlog, serving, reply>>

Answer ==
  /\ server = "send"
  /\ reply' = [reply EXCEPT ![serving] = "sent"]
  /\ server' = "close"
  /\ UNCHANGED <<answers, caller, asked, unread, backlog, serving, printed>>

CloseUnanswered ==
  /\ server = "close"
  /\ reply' = [reply EXCEPT ![serving] = "reset"]
  /\ server' = "accept" /\ serving' = Nobody
  /\ UNCHANGED <<answers, caller, asked, unread, backlog, printed>>

\* Closing a connection that has not been read to its end resets it.
Close ==
  /\ server = "close"
  /\ reply' = IF unread[serving] > 0 THEN [reply EXCEPT ![serving] = "reset"]
                                     ELSE reply
  /\ server' = "accept" /\ serving' = Nobody
  /\ UNCHANGED <<answers, caller, asked, unread, backlog, printed>>

Serve == Accept \/ Receive \/ Answer \/ Close

Next ==
  \/ \E c \in Callers : Connect(c) \/ Ask(c) \/ Hear(c) \/ Kill(c)
  \/ Serve \/ AcceptFails

\* The server and the clients' programs run; users type when they like.
Fairness == WF_vars(Serve) /\ \A c \in Callers : WF_vars(Hear(c))

FairSpec == Init /\ [][Next]_vars /\ Fairness
-----------------------------------------------------------------------------
\* The server waits for one who has sent nothing: who has not typed yet, or
\* has typed an empty line and waits for the server in turn.
Held ==
  /\ server = "recv" /\ unread[serving] = 0
  /\ caller[serving] \in {"typing", "waiting"}

\* Whoever sends a request that fits the buffer is answered, and gets the
\* answer, or sees it printed; a longer one is served too but may cost the
\* caller its answer.  The exceptions are a server that has failed, a caller
\* that is killed, and everybody behind a silent connection that stays.
ServedUnlessHeld ==
  \A c \in Callers :
    /\ caller[c] = "waiting" /\ asked[c] # "empty" ~>
         \/ caller[c] \in {"answered", "gone", "dropped"}
         \/ caller[c] = "failed" /\ asked[c] = "long"
         \/ []Held
    /\ ~answers /\ asked[c] \in {"short", "long"} ~>
         c \in printed \/ server = "failed" \/ []Held
=============================================================================
