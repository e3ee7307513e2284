---------------------------- MODULE BankLifecycle ----------------------------
(***************************************************************************)
(* The shared object the transparent bank lives in: `init` creates or      *)
(* truncates it and constructs the accounts one after the other, `deinit`  *)
(* removes its name, clients attach and use accounts at any time.  Nothing *)
(* makes them wait for each other.  A client uses an account in two steps, *)
(* lock and unlock; what it does between them is in TransparentBank.       *)
(***************************************************************************)
EXTENDS Naturals

CONSTANTS
  N,         \* the argument of init, the number of accounts
  Clients,   \* client processes
  Inits      \* runs of init; each creates at most one object

Accounts == 0 .. N - 1
None     == "none"

VARIABLES
  name,      \* the object /TransparentBank names, or None
  \* for each object, which is called after the run that created it:
  backed,    \* it has a length
  size,      \* Bank::size in it, zero until the constructor writes it
  built,     \* the accounts that are constructed in it
  locked,    \* the accounts whose mutex is locked
  reopened,  \* history: a later run of init has truncated it
  \* for each run of init:
  init,      \* where its main is
  target,    \* the object it has opened
  index,     \* the account its constructor builds next
  \* for each client:
  client,    \* where its main is
  object,    \* the object it has opened
  account,   \* the account it uses
  early,     \* history: the object was not complete when it was mapped
  raw        \* history: it has used an account that was not constructed

objectVars == <<backed, size, built, locked, reopened>>
initVars   == <<init, target, index>>
clientVars == <<client, object, account, early, raw>>
vars == <<name, objectVars, initVars, clientVars>>

Init ==
  /\ name = None
  /\ backed = [o \in Inits |-> FALSE] /\ size = [o \in Inits |-> 0]
  /\ built = [o \in Inits |-> {}] /\ locked = [o \in Inits |-> {}]
  /\ reopened = [o \in Inits |-> FALSE]
  /\ init = [i \in Inits |-> "start"] /\ target = [i \in Inits |-> None]
  /\ index = [i \in Inits |-> 0]
  /\ client = [c \in Clients |-> "start"] /\ object = [c \in Clients |-> None]
  /\ account = [c \in Clients |-> 0]
  /\ early = [c \in Clients |-> FALSE] /\ raw = [c \in Clients |-> FALSE]
-----------------------------------------------------------------------------
(* init.cpp, and the constructor it calls. *)

InitStep(i, from, to) == init[i] = from /\ init' = [init EXCEPT ![i] = to]

\* O_CREAT | O_TRUNC: an object that has the name loses its contents, mutexes
\* and all, under those who have it mapped.
OpenTruncated(i) ==
  LET o == IF name = None THEN i ELSE name
  IN  /\ InitStep(i, "start", "truncated")
      /\ name' = o
      /\ target' = [target EXCEPT ![i] = o]
      /\ backed' = [backed EXCEPT ![o] = FALSE]
      /\ size' = [size EXCEPT ![o] = 0]
      /\ built' = [built EXCEPT ![o] = {}]
      /\ locked' = [locked EXCEPT ![o] = {}]
      /\ reopened' = [reopened EXCEPT ![o] = name # None]
      /\ UNCHANGED <<index, clientVars>>

\* ftruncate refuses the length of a bank of too many or a negative number of
\* accounts; the object stays truncated.
LengthRefused(i) ==
  /\ InitStep(i, "truncated", "failed")
  /\ UNCHANGED <<name, objectVars, target, index, clientVars>>

Extend(i) ==
  /\ InitStep(i, "truncated", "sizing")
  /\ backed' = [backed EXCEPT ![target[i]] = TRUE]
  /\ UNCHANGED <<name, size, built, locked, reopened, target, index, clientVars>>

WriteSize(i) ==
  /\ InitStep(i, "sizing", "building")
  /\ backed[target[i]]
  /\ size' = [size EXCEPT ![target[i]] = N]
  /\ UNCHANGED <<name, backed, built, locked, reopened, target, index, clientVars>>

\* The loop's bound is the size in the object.
Build(i) ==
  /\ InitStep(i, "building", "building")
  /\ backed[target[i]]
  /\ index[i] < size[target[i]]
  /\ built' = [built EXCEPT ![target[i]] = @ \cup {index[i]}]
  /\ locked' = [locked EXCEPT ![target[i]] = @ \ {index[i]}]
  /\ index' = [index EXCEPT ![i] = @ + 1]
  /\ UNCHANGED <<name, backed, size, reopened, target, clientVars>>

Constructed(i) ==
  /\ InitStep(i, "building", "done")
  /\ backed[target[i]] /\ index[i] >= size[target[i]]
  /\ UNCHANGED <<name, objectVars, target, index, clientVars>>

\* Another run has truncated the object, and this one writes to its pages.
InitFaults(i) ==
  /\ init[i] \in {"sizing", "building"} /\ ~backed[target[i]]
  /\ init' = [init EXCEPT ![i] = "killed"]
  /\ UNCHANGED <<name, objectVars, target, index, clientVars>>

RunInit(i) ==
  \/ OpenTruncated(i) \/ LengthRefused(i) \/ Extend(i)
  \/ WriteSize(i) \/ Build(i) \/ Constructed(i) \/ InitFaults(i)
-----------------------------------------------------------------------------
(* deinit.cpp. *)

DeinitTruncates ==
  /\ name # None
  /\ backed' = [backed EXCEPT ![name] = FALSE]
  /\ name' = None
  /\ UNCHANGED <<size, built, locked, reopened, initVars, clientVars>>

\* The object lives on for those who have opened it.
Deinit ==
  /\ name # None
  /\ name' = None
  /\ UNCHANGED <<objectVars, initVars, clientVars>>
-----------------------------------------------------------------------------
(* client.cpp. *)

ClientStep(c, from, to) ==
  client[c] = from /\ client' = [client EXCEPT ![c] = to]

\* Without an object the client exits.
Open(c) ==
  /\ ClientStep(c, "start", IF name = None THEN "failed" ELSE "mapping")
  /\ object' = [object EXCEPT ![c] = name]
  /\ UNCHANGED <<name, objectVars, initVars, account, early, raw>>

Complete(o) == backed[o] /\ built[o] = Accounts

\* fstat and mmap; a length of zero cannot be mapped, and nobody asks whether
\* it was.
Map(c) ==
  /\ client[c] = "mapping"
  /\ client' = [client EXCEPT ![c] = IF backed[object[c]] THEN "prompt"
                                                          ELSE "unmapped"]
  /\ early' = [early EXCEPT ![c] = ~Complete(object[c])]
  /\ UNCHANGED <<name, objectVars, initVars, object, account, raw>>

\* The first command of an unmapped client, and any access to a page the
\* object has lost.
ClientFaults(c) ==
  /\ \/ client[c] = "unmapped"
     \/ client[c] \in {"prompt", "inside"} /\ ~backed[object[c]]
  /\ client' = [client EXCEPT ![c] = "killed"]
  /\ UNCHANGED <<name, objectVars, initVars, object, account, early, raw>>

\* Identifiers of Bank::size and above are refused.
Enter(c, a) ==
  LET o == object[c]
  IN  /\ ClientStep(c, "prompt", "inside")
      /\ backed[o] /\ a < size[o] /\ a \notin locked[o]
      /\ locked' = [locked EXCEPT ![o] = @ \cup {a}]
      /\ account' = [account EXCEPT ![c] = a]
      /\ raw' = [raw EXCEPT ![c] = @ \/ a \notin built[o]]
      /\ UNCHANGED <<name, backed, size, built, reopened, initVars, object, early>>

Leave(c) ==
  LET o == object[c]
  IN  /\ ClientStep(c, "inside", "prompt")
      /\ backed[o]
      /\ locked' = [locked EXCEPT ![o] = @ \ {account[c]}]
      /\ UNCHANGED <<name, backed, size, built, reopened, initVars, object,
                     account, early, raw>>

RunClient(c) ==
  \/ Open(c) \/ Map(c) \/ ClientFaults(c)
  \/ \E a \in Accounts : Enter(c, a)
  \/ Leave(c)

Next ==
  \/ \E i \in Inits : RunInit(i)
  \/ Deinit
  \/ \E c \in Clients : RunClient(c)

Spec == Init /\ [][Next]_vars
-----------------------------------------------------------------------------
\* Nobody has used an account of the object before it was constructed.
Untouched(o) == \A c \in Clients : object[c] = o => ~raw[c]

\* A client that attached to a complete bank is safe for as long as nobody
\* runs init on that bank again, deinit or not: it is not killed, uses
\* constructed accounts only, and is alone inside one - unless somebody used
\* an account before it was constructed.  The constructor resets the mutex such
\* a client has locked, and its unlock releases whoever is inside by then: even
\* two clients that came late are together in an account after that.
OrderlyClientsAreSafe ==
  \A c \in Clients :
    client[c] \in {"prompt", "inside", "killed"} /\ ~early[c] /\ ~reopened[object[c]] =>
      /\ client[c] # "killed" /\ ~raw[c]
      /\ client[c] = "inside" /\ Untouched(object[c]) =>
           \A d \in Clients \ {c} :
             ~ (client[d] = "inside" /\ object[d] = object[c] /\ account[d] = account[c])
-----------------------------------------------------------------------------
(* The inductive invariant. *)

LifeTypes ==
  /\ name \in Inits \cup {None}
  /\ backed \in [Inits -> BOOLEAN] /\ size \in [Inits -> {0, N}]
  /\ built \in [Inits -> SUBSET Accounts] /\ locked \in [Inits -> SUBSET Accounts]
  /\ reopened \in [Inits -> BOOLEAN]
  /\ init \in [Inits -> {"start", "truncated", "sizing", "building", "done",
                         "failed", "killed"}]
  /\ target \in [Inits -> Inits \cup {None}]
  /\ index \in [Inits -> Nat]
  /\ client \in [Clients -> {"start", "failed", "mapping", "prompt", "unmapped",
                             "inside", "killed"}]
  /\ object \in [Clients -> Inits \cup {None}]
  /\ account \in [Clients -> Nat]
  /\ early \in [Clients -> BOOLEAN] /\ raw \in [Clients -> BOOLEAN]

\* An object comes into being with the run of init that opens it first, and then
\* only that run has it open, unless another one has reopened it.
Created(o) == o \in Inits /\ target[o] = o

ObjectsAreCreated ==
  /\ name # None => Created(name)
  /\ \A i \in Inits :
       IF init[i] = "start" THEN target[i] = None /\ index[i] = 0
                            ELSE Created(target[i])
  /\ \A i \in Inits : \A o \in Inits : target[i] = o /\ ~reopened[o] => i = o
  /\ \A c \in Clients : client[c] \notin {"start", "failed"} => Created(object[c])

\* An object that was not reopened is built from its first account to its last,
\* each of them once.
BuiltInOrder ==
  \A o \in Inits : target[o] = o /\ ~reopened[o] =>
    /\ backed[o] => init[o] \in {"sizing", "building", "done"}
    /\ built[o] = 0 .. index[o] - 1

Attached(c) == client[c] \notin {"start", "failed", "mapping"}

Together(c, d) ==
  client[d] = "inside" /\ object[d] = object[c] /\ account[d] = account[c]

\* What a client relies on that came when the bank was complete, and what every
\* client does as long as nobody used an account too early.
Relies(c) ==
  /\ client[c] = "unmapped" => early[c]
  /\ ~early[c] => Complete(object[c]) /\ ~raw[c] /\ client[c] # "killed"
  /\ client[c] = "inside" /\ Untouched(object[c]) =>
       /\ account[c] \in locked[object[c]] \cap built[object[c]]
       /\ \A d \in Clients \ {c} : ~Together(c, d)

OrderIsKept == \A c \in Clients : Attached(c) /\ ~reopened[object[c]] => Relies(c)

NotYetRaw == \A c \in Clients : ~Attached(c) => ~raw[c]

LifeInv ==
  LifeTypes /\ ObjectsAreCreated /\ BuiltInOrder /\ OrderIsKept /\ NotYetRaw
=============================================================================
