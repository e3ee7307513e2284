-------------------------- MODULE MCTransparentBank --------------------------
(***************************************************************************)
(* Instances of TransparentBank for TLC.  The alphabets of commands:       *)
(***************************************************************************)
EXTENDS TransparentBank

CONSTANTS c1, c2, c3

Typed(op, id, to, sum) == [op |-> op, id |-> id, to |-> to, sum |-> sum]

Tfromto(id, to, sum) == Typed("tfromto", id, to, sum)
OnAll(op, sum)       == Typed(op, 0, 0, sum)
OnOne(op, id, sum)   == Typed(op, id, 0, sum)

\* Every operation, with arguments it refuses (a sum of -1, account 2) too.
MixedCommands ==
  {Tfromto(0, 1, 1), Tfromto(1, 0, 1), Tfromto(0, 0, 1),
   Tfromto(0, 1, -1), Tfromto(0, 2, 1), Tfromto(0, 1, 3),
   OnAll("addall", 1), OnAll("suball", 1),
   OnOne("froze", 0, 0), OnOne("froze", 1, 0), OnOne("defroze", 0, 0),
   OnOne("sminb", 0, 1), OnOne("smaxb", 0, 1), OnOne("pcurb", 1, 0)}

\* Transfers between any two accounts, an account and itself included.
AllTransfers == {Tfromto(id, to, 1) : id \in 0 .. 2, to \in 0 .. 2}

\* Commands that compete for three mutexes in every order, one that jams one.
Contending ==
  {Tfromto(0, 1, 1), Tfromto(1, 0, 1), Tfromto(1, 2, 1), Tfromto(2, 0, 1),
   Tfromto(2, 2, 1), OnAll("addall", 1), OnOne("smaxb", 1, 1)}

SelfTransfers == AllTransfers \cup {OnOne("pcurb", 1, 0)}

MinimumCommands == {OnOne("sminb", 0, 1), OnOne("sminb", 0, 2)}
=============================================================================
