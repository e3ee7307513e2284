-------------------------------- MODULE Shell --------------------------------
(***************************************************************************)
(* PS-2: an interactive shell.  It reads a line, cuts it into words at the *)
(* blanks and executes the commands while it goes through the words: `;`,  *)
(* `&&` and `||` end a command and decide whether it is executed; `>` and  *)
(* `>>` name the file its output goes to.                                  *)
(***************************************************************************)
EXTENDS Integers, Sequences, FiniteSetsExt

CONSTANTS
  Words,      \* what else stands in a line: names of programs, arguments, files;
              \* no sign, not "", and not "exit" or "silent" at its beginning
  MaxTokens   \* bound: the length of a line

Connectors == {";", "&&", "||"}
Redirects  == {">", ">>"}
Tokens     == Words \cup Connectors \cup Redirects
Lines      == UNION {[1 .. n -> Tokens] : n \in 0 .. MaxTokens}

VARIABLES
  shell,    \* what the shell is doing
  line,     \* the words of the line it has read
  pos,      \* the next of them
  args,     \* the words of the command that is being read
  output,   \* the file its output goes to, if it names one
  append,   \* whether it goes to the end of that file
  status,   \* lastExitStatus
  ran       \* history: the commands of this line that were executed, each with
            \* the position of its end

vars == <<shell, line, pos, args, output, append, status, ran>>

\* 0, and everything else: another exit code, or -1 for a killed program.
Statuses == {0, 1}

NoLocals(next) ==
  /\ line' = << >> /\ pos' = 1
  /\ args' = << >> /\ output' = "" /\ append' = FALSE
  /\ status' = 0 /\ ran' = {}
  /\ shell' = next

Init ==
  /\ line = << >> /\ pos = 1
  /\ args = << >> /\ output = "" /\ append = FALSE
  /\ status = 0 /\ ran = {}
  /\ shell = "prompt"
-----------------------------------------------------------------------------
(* main. *)

\* "silent" before a line sends the output that has no file to a log; no step
\* depends on it.
ReadLine ==
  /\ shell = "prompt"
  /\ line' \in Lines
  /\ shell' = "parse"
  /\ UNCHANGED <<pos, args, output, append, status, ran>>

Exit ==
  /\ shell = "prompt"
  /\ shell' = "exited"
  /\ UNCHANGED <<line, pos, args, output, append, status, ran>>

\* "silent" and nothing else: cutting off seven characters of six throws.
Abort ==
  /\ shell = "prompt"
  /\ shell' = "aborted"
  /\ UNCHANGED <<line, pos, args, output, append, status, ran>>

Return == shell = "done" /\ NoLocals("prompt")
-----------------------------------------------------------------------------
(* executeCommand. *)

\* The child ends in some way; without a program it is sure to fail.
Outcomes == IF args = << >> THEN Statuses \ {0} ELSE Statuses

Execute(s) ==
  ran' = ran \cup {[at |-> pos, args |-> args, output |-> output,
                    append |-> append, status |-> s]}
-----------------------------------------------------------------------------
(* parseAndExecute. *)

Reads(tokens) ==
  shell = "parse" /\ pos <= Len(line) /\ line[pos] \in tokens

RunsAfterOr(sign) ==
  \/ sign \in {";", "||"}
  \/ sign = "&&" /\ status = 0

\* A sign decides about the command on its left, by the status of the last one
\* that was executed.
Runs(sign) ==
  \/ sign = ";"
  \/ sign = "&&" /\ status = 0
  \/ sign = "||" /\ status # 0

ClearWhenExecuted ==
  /\ args' = << >>
  /\ IF Runs(line[pos]) THEN output' = "" /\ append' = FALSE
                        ELSE UNCHANGED <<output, append>>

Clear == args' = << >> /\ output' = "" /\ append' = FALSE

Connect ==
  /\ Reads(Connectors)
  /\ IF Runs(line[pos])
     THEN \E s \in Outcomes : Execute(s) /\ status' = s
     ELSE UNCHANGED <<ran, status>>
  /\ Clear
  /\ pos' = pos + 1
  /\ UNCHANGED <<shell, line>>

\* The next word is the file, even if it is a sign; at the end of the line the
\* file stays what it was.
Redirect ==
  /\ Reads(Redirects)
  /\ append' = (line[pos] = ">>")
  /\ IF pos < Len(line) THEN output' = line[pos + 1] /\ pos' = pos + 2
                        ELSE UNCHANGED output /\ pos' = pos + 1
  /\ UNCHANGED <<shell, line, args, status, ran>>

Argument ==
  /\ Reads(Words)
  /\ args' = Append(args, line[pos])
  /\ pos' = pos + 1
  /\ UNCHANGED <<shell, line, output, append, status, ran>>

\* The last command is executed whatever came before it.
EndOfLine ==
  /\ shell = "parse" /\ pos > Len(line)
  /\ IF args # << >> THEN \E s \in Outcomes : Execute(s) ELSE UNCHANGED ran
  /\ shell' = "done"
  /\ UNCHANGED <<line, pos, args, output, append, status>>

Next ==
  \/ ReadLine \/ Exit \/ Abort \/ Return
  \/ Connect \/ Redirect \/ Argument \/ EndOfLine

Spec == Init /\ [][Next]_vars
-----------------------------------------------------------------------------
(* What a line means, without reading it from left to right. *)

\* Word p is the file of a redirection: an odd number of > and >> stand in a
\* row before it.
IsFile(p) ==
  \E r \in 1 .. p - 1 :
    /\ r % 2 = 1
    /\ \A q \in p - r .. p - 1 : line[q] \in Redirects
    /\ p - r > 1 => line[p - r - 1] \notin Redirects

\* The words that end a command, and the end of the line.
Ends == {p \in DOMAIN line : line[p] \in Connectors /\ ~IsFile(p)}
          \cup {Len(line) + 1}

\* The words of the command that ends at e.
Part(e) == {p \in 1 .. e - 1 : \A d \in Ends : d < e => d < p}

Own(e) == {p \in Part(e) : line[p] \in Words /\ ~IsFile(p)}

\* These are its words: each stands where counting those up to it says.
AreArgsOf(e, words) ==
  /\ Len(words) = Cardinality(Own(e))
  /\ \A p \in Own(e) : words[Cardinality({q \in Own(e) : q <= p})] = line[p]

FilesOf(e) == {p \in Part(e) : IsFile(p)}

OutputOf(e) == IF FilesOf(e) = {} THEN "" ELSE line[Max(FilesOf(e))]

SignsOf(e) == {p \in Part(e) : line[p] \in Redirects /\ ~IsFile(p)}

AppendOf(e) == SignsOf(e) # {} /\ line[Max(SignsOf(e))] = ">>"

LastOf(commands) == CHOOSE c \in commands : \A d \in commands : d.at <= c.at

\* The last status known before e; a line starts with 0.
StatusBefore(e) ==
  LET before == {c \in ran : c.at < e}
  IN  IF before = {} THEN 0 ELSE LastOf(before).status
-----------------------------------------------------------------------------
(* Properties. *)

\* Every command is executed with its own words and its own redirection, the
\* last one if it has several: nothing of a command that was skipped leaks
\* into the next one.
CommandsAreTheirOwn ==
  \A c \in ran :
    /\ c.at \in Ends
    /\ AreArgsOf(c.at, c.args)
    /\ c.output = OutputOf(c.at)
    /\ c.append = AppendOf(c.at)

\* Whether the command that ends at e is executed is what its sign says.
FollowsRule(e) ==
  LET executed == \E c \in ran : c.at = e
  IN  IF e > Len(line) THEN executed <=> Own(e) # {}
      ELSE IF line[e] = ";" THEN executed
      ELSE executed <=> (line[e] = "&&") = (StatusBefore(e) = 0)

\* A sign decides about the command on its LEFT, by what was executed before
\* it, and the last command is always executed: `a && b || c` is what other
\* shells call `true && a || b ; c`.
SignsLookBack == shell = "done" => \A e \in Ends : FollowsRule(e)
-----------------------------------------------------------------------------
(* The inductive invariant. *)

ShellTypes ==
  /\ shell \in {"prompt", "parse", "done", "exited", "aborted"}
  /\ line \in Seq(Tokens)
  /\ pos \in 1 .. Len(line) + 1
  /\ args \in Seq(Words)
  /\ status \in Statuses

NothingRanYet ==
  shell \in {"prompt", "exited", "aborted"} =>
    line = << >> /\ args = << >> /\ output = "" /\ append = FALSE /\ status = 0 /\ ran = {}

\* The shell is never at a word that is a file, and what it has collected is
\* what the command that would end here has.
CollectsItsOwn ==
  shell = "parse" =>
    /\ pos <= Len(line) => ~IsFile(pos)
    /\ AreArgsOf(pos, args) /\ output = OutputOf(pos) /\ append = AppendOf(pos)

DecidesInOrder ==
  shell = "parse" =>
    /\ \A c \in ran : c.at < pos
    /\ status = StatusBefore(pos)
    /\ \A e \in Ends : e < pos => FollowsRule(e)

ShellInv ==
  ShellTypes /\ NothingRanYet /\ CollectsItsOwn /\ DecidesInOrder
  /\ CommandsAreTheirOwn /\ SignsLookBack
=============================================================================
