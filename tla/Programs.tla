------------------------------- MODULE Programs -------------------------------
(***************************************************************************)
(* Programs, and parts of programs, that have nothing to do with each      *)
(* other and whose properties are about safety: which of them runs is      *)
(* chosen at the beginning, and the variables of the others stay as they   *)
(* are.                                                                    *)
(***************************************************************************)
EXTENDS BankLedger

CONSTANTS
  Rows, Clients, Inits,        \* of BankLifecycle: the number of its accounts
  Words, MaxTokens,            \* of Shell
  Chatters,                    \* of ChatServer
  Talkers, MaxBytes,           \* of MessageServer
  Threads, Rounds,             \* of SharedCounter
  MaxN, MaxM,                  \* of ArraySummary
  BufferSize, MaxLength        \* of HoleCopy

ASSUME LifeAssumption == Rows \in Nat /\ "none" \notin Inits
ASSUME LineAssumption ==
  MaxTokens \in Nat /\ Words \cap {";", "&&", "||", ">", ">>"} = {}
ASSUME ChatAssumption == "nobody" \notin Chatters /\ "main" \notin Chatters
ASSUME TalkAssumption == "none" \notin Talkers
ASSUME SummaryAssumption == MaxN \in Nat /\ MaxM \in Nat
ASSUME CopyAssumption == BufferSize \in Nat \ {0} /\ MaxLength \in Nat

VARIABLE program

VARIABLES name, backed, size, built, locked, reopened, init, target, index, client,
          object, account, early, raw
Life == INSTANCE BankLifecycle WITH N <- Rows
lifeVars == <<name, backed, size, built, locked, reopened, init, target, index,
              client, object, account, early, raw>>

VARIABLES shell, line, pos, args, output, append, status, ran
Sh == INSTANCE Shell
shVars == <<shell, line, pos, args, output, append, status, ran>>

VARIABLES chatter, accepter, newcomer, listed, listOwner, thread, entry, mail,
          heard, late
Chat == INSTANCE ChatServer
chatVars == <<chatter, accepter, newcomer, listed, listOwner, thread, entry, mail,
              heard, late>>

VARIABLES talker, greeter, greeted, printer, sent, stream, buffer, printOwner, out
Talk == INSTANCE MessageServer
talkVars == <<talker, greeter, greeted, printer, sent, stream, buffer, printOwner,
              out>>

VARIABLES guard, mtx, semaphore, inner_value, inc, round, loaded, final
Count == INSTANCE SharedCounter
countVars == <<guard, mtx, semaphore, inner_value, inc, round, loaded, final>>

VARIABLES n, m, main, i, from, upto, at, running, result, total
Sum == INSTANCE ArraySummary
sumVars == <<n, m, main, i, from, upto, at, running, result, total>>

VARIABLES length, data, read, block, got, offset, cur, dest, write, copy
Holes == INSTANCE HoleCopy
holesVars == <<length, data, read, block, got, offset, cur, dest, write, copy>>

ProgramsInit ==
  /\ program \in {"ledger", "lifecycle", "shell", "chat", "messages", "counter",
                  "summary", "copy"}
  /\ Init /\ Life!Init /\ Sh!Init /\ Chat!Init /\ Talk!Init /\ Count!Init
  /\ Sum!Init /\ Holes!Init
  \* One state is enough of a program that does not run.
  /\ program # "counter" => guard = "mutex"
  /\ program # "summary" => n = 0 /\ m = 0
  /\ program # "copy" => length = 0

ProgramsNext ==
  /\ UNCHANGED program
  /\ \/ /\ program = "ledger" /\ Next
        /\ UNCHANGED <<lifeVars, shVars, chatVars, talkVars, countVars, sumVars, holesVars>>
     \/ /\ program = "lifecycle" /\ Life!Next
        /\ UNCHANGED <<vars, shVars, chatVars, talkVars, countVars, sumVars, holesVars>>
     \/ /\ program = "shell" /\ Sh!Next
        /\ UNCHANGED <<vars, lifeVars, chatVars, talkVars, countVars, sumVars, holesVars>>
     \/ /\ program = "chat" /\ Chat!Next
        /\ UNCHANGED <<vars, lifeVars, shVars, talkVars, countVars, sumVars, holesVars>>
     \/ /\ program = "messages" /\ Talk!Next
        /\ UNCHANGED <<vars, lifeVars, shVars, chatVars, countVars, sumVars, holesVars>>
     \/ /\ program = "counter" /\ Count!Next
        /\ UNCHANGED <<vars, lifeVars, shVars, chatVars, talkVars, sumVars, holesVars>>
     \/ /\ program = "summary" /\ Sum!Next
        /\ UNCHANGED <<vars, lifeVars, shVars, chatVars, talkVars, countVars, holesVars>>
     \/ /\ program = "copy" /\ Holes!Next
        /\ UNCHANGED <<vars, lifeVars, shVars, chatVars, talkVars, countVars, sumVars>>

allVars == <<program, vars, lifeVars, shVars, chatVars, talkVars, countVars, sumVars,
             holesVars>>

ProgramsSpec == ProgramsInit /\ [][ProgramsNext]_allVars
-----------------------------------------------------------------------------
\* The properties of the instances; their modules say what they are about.

\* Clients of a complete bank are safe until init is run on it again.
OrderlyClientsAreSafe == Life!OrderlyClientsAreSafe
\* Commands of the shell get their own words and their own redirection.
CommandsAreTheirOwn == Sh!CommandsAreTheirOwn
\* The signs between the shell's commands look back.
SignsLookBack == Sh!SignsLookBack
\* The chat server hangs in its first broadcast.
FirstBroadcastIsTheLast == Chat!FirstBroadcastIsTheLast
\* Messages are printed whole, in order and under their own headers.
MessagesAreWhole == Talk!MessagesAreWhole
\* No increment of the shared counter is lost.
NothingIsLost == Count!NothingIsLost
\* Every element of the array is summed up once.
SummedOnce == Sum!SummedOnce
\* Which sparse files are copied exactly.
ExactIffAligned == Holes!ExactIffAligned
=============================================================================
