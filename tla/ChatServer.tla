----------------------------- MODULE ChatServer ------------------------------
(***************************************************************************)
(* chat_on_sockets: main accepts a chatter, puts it on the list and starts *)
(* a thread for it, which begins by telling everybody on the list that the *)
(* chatter joined.  The loop that does so is meant to leave out the sender *)
(* but does not go on behind it: it reaches the sender's entry and stays   *)
(* there for ever, with the mutex of the list.  So no thread ever receives *)
(* anything; what follows the first broadcast in the source never runs.    *)
(***************************************************************************)
EXTENDS Naturals, Sequences

CONSTANT Chatters

Nobody == "nobody"
Main   == "main"

VARIABLES
  chatter,    \* for each whether it is away, connected (accepted or not), or gone
  accepter,   \* what main does next
  newcomer,   \* whom it does it for
  listed,     \* clients, the list
  listOwner,  \* who holds its mutex
  thread,     \* for each chatter what its thread does
  entry,      \* the index in its broadcast
  mail,       \* sent to it and not yet received: who joined
  heard,      \* what it has printed
  late        \* history: those accepted since a broadcast has begun

vars == <<chatter, accepter, newcomer, listed, listOwner, thread, entry,
          mail, heard, late>>

Init ==
  /\ chatter = [c \in Chatters |-> "away"]
  /\ accepter = "accept" /\ newcomer = Nobody
  /\ listed = << >> /\ listOwner = Nobody
  /\ thread = [c \in Chatters |-> "none"]
  /\ entry = [c \in Chatters |-> 1]
  /\ mail = [c \in Chatters |-> {}] /\ heard = [c \in Chatters |-> {}]
  /\ late = {}
-----------------------------------------------------------------------------
(* client1.cpp. *)

Connect(c) ==
  /\ chatter[c] = "away" /\ accepter # "failed"
  /\ chatter' = [chatter EXCEPT ![c] = "connected"]
  /\ UNCHANGED <<accepter, newcomer, listed, listOwner, thread, entry, mail,
                 heard, late>>

Hear(c) ==
  /\ chatter[c] = "connected" /\ mail[c] # {}
  /\ heard' = [heard EXCEPT ![c] = @ \cup mail[c]]
  /\ mail' = [mail EXCEPT ![c] = {}]
  /\ UNCHANGED <<chatter, accepter, newcomer, listed, listOwner, thread, entry,
                 late>>

\* With "exit" or killed.  The server notices nothing: it stays on the list.
Leave(c) ==
  /\ chatter[c] = "connected"
  /\ chatter' = [chatter EXCEPT ![c] = "gone"]
  /\ UNCHANGED <<accepter, newcomer, listed, listOwner, thread, entry, mail,
                 heard, late>>
-----------------------------------------------------------------------------
(* main. *)

Broadcasting == \E c \in Chatters : thread[c] = "sending"

Accept(c) ==
  /\ accepter = "accept" /\ chatter[c] # "away" /\ thread[c] = "none"
  /\ accepter' = "lock" /\ newcomer' = c
  /\ late' = IF Broadcasting THEN late \cup {c} ELSE late
  /\ UNCHANGED <<chatter, listed, listOwner, thread, entry, mail, heard>>

\* The process ends, and every thread with it.
AcceptFails ==
  /\ accepter = "accept"
  /\ accepter' = "failed"
  /\ thread' = [c \in Chatters |-> "none"]
  /\ UNCHANGED <<chatter, newcomer, listed, listOwner, entry, mail, heard, late>>

MainLock ==
  /\ accepter = "lock" /\ listOwner = Nobody
  /\ listOwner' = Main /\ accepter' = "push"
  /\ UNCHANGED <<chatter, newcomer, listed, thread, entry, mail, heard, late>>

PushBack ==
  /\ accepter = "push"
  /\ listed' = Append(listed, newcomer)
  /\ accepter' = "unlock"
  /\ UNCHANGED <<chatter, newcomer, listOwner, thread, entry, mail, heard, late>>

MainUnlock ==
  /\ accepter = "unlock"
  /\ listOwner' = Nobody /\ accepter' = "create"
  /\ UNCHANGED <<chatter, newcomer, listed, thread, entry, mail, heard, late>>

CreateThread ==
  /\ accepter = "create"
  /\ thread' = [thread EXCEPT ![newcomer] = "joining"]
  /\ accepter' = "accept"
  /\ UNCHANGED <<chatter, newcomer, listed, listOwner, entry, mail, heard, late>>
-----------------------------------------------------------------------------
(* handle_client and send_to_all. *)

SendLock(c) ==
  /\ thread[c] = "joining" /\ listOwner = Nobody
  /\ listOwner' = c
  /\ thread' = [thread EXCEPT ![c] = "sending"]
  /\ UNCHANGED <<chatter, accepter, newcomer, listed, entry, mail, heard, late>>

\* One turn of the loop; after the last one the mutex is released and the
\* thread would receive.
SendAdvances(c) ==
  /\ thread[c] = "sending"
  /\ IF entry[c] > Len(listed)
     THEN /\ listOwner' = Nobody
          /\ thread' = [thread EXCEPT ![c] = "receiving"]
          /\ UNCHANGED <<entry, mail>>
     ELSE LET to == listed[entry[c]] IN
          /\ mail' = IF to # c THEN [mail EXCEPT ![to] = @ \cup {c}] ELSE mail
          /\ entry' = [entry EXCEPT ![c] = @ + 1]
          /\ UNCHANGED <<listOwner, thread>>
  /\ UNCHANGED <<chatter, accepter, newcomer, listed, heard, late>>

\* The turn at the sender's own entry changes nothing.
Send(c) ==
  /\ thread[c] = "sending"
  /\ IF entry[c] > Len(listed)
     THEN /\ listOwner' = Nobody
          /\ thread' = [thread EXCEPT ![c] = "receiving"]
          /\ UNCHANGED <<entry, mail>>
     ELSE LET to == listed[entry[c]] IN
          /\ to # c
          /\ mail' = [mail EXCEPT ![to] = @ \cup {c}]
          /\ entry' = [entry EXCEPT ![c] = @ + 1]
          /\ UNCHANGED <<listOwner, thread>>
  /\ UNCHANGED <<chatter, accepter, newcomer, listed, heard, late>>

Server ==
  \/ \E c \in Chatters : Accept(c)
  \/ AcceptFails \/ MainLock \/ PushBack \/ MainUnlock \/ CreateThread
  \/ \E c \in Chatters : SendLock(c) \/ Send(c)

Next == Server \/ \E c \in Chatters : Connect(c) \/ Hear(c) \/ Leave(c)

Spec == Init /\ [][Next]_vars
-----------------------------------------------------------------------------
Before(c, d) ==
  \E i, j \in DOMAIN listed : i < j /\ listed[i] = c /\ listed[j] = d

\* The first broadcast is the last thing the server does: no thread ever comes
\* to receive, one chatter at most is accepted after it began, and the only
\* news anybody hears is that the first one to broadcast joined - and only
\* those hear it who stand before it on the list.
FirstBroadcastIsTheLast ==
  /\ \A c \in Chatters : thread[c] # "receiving"
  /\ \A c, d \in late : c = d
  /\ \A c \in Chatters : \A d \in heard[c] \cup mail[c] :
       /\ Before(c, d)
       /\ accepter # "failed" => thread[d] = "sending"
  /\ \A c, d \in Chatters : thread[c] = "sending" /\ thread[d] = "sending" => c = d
-----------------------------------------------------------------------------
(* The inductive invariant. *)

ChatTypes ==
  /\ accepter \in {"accept", "lock", "push", "unlock", "create", "failed"}
  /\ newcomer \in Chatters \cup {Nobody}
  /\ listed \in Seq(Chatters)
  /\ listOwner \in Chatters \cup {Main, Nobody}
  /\ thread \in [Chatters -> {"none", "joining", "sending"}]
  /\ entry \in [Chatters -> Nat \ {0}]
  /\ mail \in [Chatters -> SUBSET Chatters]
  /\ heard \in [Chatters -> SUBSET Chatters]

OnList(c) == \E k \in DOMAIN listed : listed[k] = c

\* A chatter is on the list before its thread is created, and no thread is left
\* when main has ended.
ThreadsAreListed ==
  /\ \A c \in Chatters : thread[c] # "none" => OnList(c) /\ accepter # "failed"
  /\ accepter \in {"lock", "push", "unlock", "create"} =>
       newcomer \in Chatters /\ thread[newcomer] = "none"
  /\ accepter \in {"unlock", "create"} => OnList(newcomer)

ListIsOwned ==
  /\ \A c \in Chatters : thread[c] = "sending" => listOwner = c
  /\ accepter \in {"push", "unlock"} => listOwner = Main

\* A sender never gets behind its own entry.
SendersStay ==
  \A c \in Chatters :
    /\ thread[c] = "sending" => \E k \in DOMAIN listed : listed[k] = c /\ entry[c] <= k
    /\ accepter # "failed" /\ thread[c] # "sending" => entry[c] = 1

\* Whom a sender has told of itself stands before it on the list.
NewsIsOfSenders ==
  \A c \in Chatters : \A d \in heard[c] \cup mail[c] :
    /\ Before(c, d)
    /\ accepter # "failed" => thread[d] = "sending"

\* main is stuck with the one it accepted after a broadcast had begun.
LateIsStuck ==
  late = {} \/ (accepter = "lock" /\ Broadcasting /\ late = {newcomer})

ChatInv ==
  ChatTypes /\ ThreadsAreListed /\ ListIsOwned /\ SendersStay /\ NewsIsOfSenders
  /\ LateIsStuck
=============================================================================
