--------------------------- MODULE RpcServerProofs ---------------------------
(***************************************************************************)
(* Theorems about RpcServer, for any number of clients.                    *)
(***************************************************************************)
EXTENDS RpcServer, SequenceTheorems, TLAPS

\* What the steps need to know of the constants.
LEMMA ConstantsDiffer ==
  Main \notin Clients /\ Closed \notin Clients /\ MaxRequests \in Nat
BY RpcAssumption

-----------------------------------------------------------------------------
(* Sequences. *)

\* An element appended to a sequence is there, and so are the others.
LEMMA Appended ==
  ASSUME NEW S, NEW s \in Seq(S), NEW e \in S
  PROVE  /\ Append(s, e) \in Seq(S)
         /\ \A k \in DOMAIN s : k \in DOMAIN Append(s, e)
                               /\ Append(s, e)[k] = s[k]
         /\ \E k \in DOMAIN Append(s, e) : Append(s, e)[k] = e
<1>1. /\ Append(s, e) \in Seq(S)
      /\ Len(Append(s, e)) = Len(s) + 1
      /\ \A k \in 1 .. Len(s) : Append(s, e)[k] = s[k]
      /\ Append(s, e)[Len(s) + 1] = e
  OBVIOUS
<1>2. /\ Len(s) \in Nat
      /\ DOMAIN s = 1 .. Len(s)
      /\ DOMAIN Append(s, e) = 1 .. Len(s) + 1
  BY <1>1, LenProperties
<1> QED BY <1>1, <1>2

\* Moving the last entry into the place of entry k loses entry k only.
LEMMA RemovedProperties ==
  ASSUME NEW S, NEW s \in Seq(S), NEW k \in DOMAIN s
  PROVE  /\ Removed(s, k) \in Seq(S)
         /\ \A j \in DOMAIN s \ {k} :
              \E m \in DOMAIN Removed(s, k) : Removed(s, k)[m] = s[j]
<1> DEFINE last == Len(s)
           t    == [s EXCEPT ![k] = s[last]]
           r    == SubSeq(t, 1, last - 1)
<1>1. last \in Nat \ {0} /\ DOMAIN s = 1 .. last /\ s[last] \in S
  BY LenProperties, ElementOfSeq
<1>2. /\ t \in Seq(S)
      /\ \A j \in 1 .. last : t[j] \in S
      /\ \A j \in 1 .. last : t[j] = IF j = k THEN s[last] ELSE s[j]
  BY <1>1, ExceptSeq, ElementOfSeq
<1>3. /\ r \in Seq(S)
      /\ Len(r) = last - 1
      /\ \A j \in 1 .. last - 1 : r[j] = t[j]
  <2>1. last - 1 \in Nat /\ \A j \in 1 .. last - 1 : t[j] \in S
    BY <1>1, <1>2
  <2>2. /\ r \in Seq(S)
        /\ Len(r) = IF 1 <= last - 1 THEN last - 1 - 1 + 1 ELSE 0
        /\ \A j \in 1 .. last - 1 - 1 + 1 : r[j] = t[1 + j - 1]
    BY <2>1, SubSeqProperties
  <2> QED BY <1>1, <2>2
<1>4. DOMAIN r = 1 .. last - 1
  BY <1>3, LenProperties
<1>5. ASSUME NEW j \in DOMAIN s \ {k}
      PROVE  \E m \in DOMAIN r : r[m] = s[j]
  <2>1. CASE j = last
    <3>1. k \in DOMAIN r /\ r[k] = s[j] BY <1>1, <1>2, <1>3, <1>4, <2>1
    <3> QED BY <3>1
  <2>2. CASE j # last
    <3>1. j \in DOMAIN r /\ r[j] = s[j] BY <1>1, <1>2, <1>3, <1>4, <2>2
    <3> QED BY <3>1
  <2> QED BY <2>1, <2>2
<1> QED BY <1>3, <1>5 DEF Removed
-----------------------------------------------------------------------------
(* The steps keep RInv. *)

\* poll changes no entry's number.
LEMMA PolledEntries ==
  ASSUME TypeOK, Poll
  PROVE  /\ fds' \in Seq(Entry)
         /\ DOMAIN fds' = DOMAIN fds
         /\ \A k \in DOMAIN fds : fds'[k].fd = fds[k].fd
<1>1. /\ Len(fds) \in Nat
      /\ DOMAIN fds = 1 .. Len(fds)
      /\ \A k \in DOMAIN fds : fds[k] \in Entry
  BY LenProperties, ElementOfSeq DEF TypeOK
<1>2. fds' = [k \in DOMAIN fds |-> [fds[k] EXCEPT !.ready = Readable(fds[k].fd)]]
  BY DEF Poll
<1>3. \A n \in Numbers : Readable(n) \in BOOLEAN
  BY DEF Readable
<1>4. \A k \in DOMAIN fds : fds'[k] \in Entry /\ fds'[k].fd = fds[k].fd
  BY <1>1, <1>2, <1>3 DEF Entry
<1>5. fds' \in [1 .. Len(fds) -> Entry]
  BY <1>1, <1>2, <1>4
<1>6. fds' \in Seq(Entry)
  BY <1>1, <1>5, SeqDef
<1> QED BY <1>2, <1>4, <1>6

\* The poll entries keep their numbers and the client of every thread its own.
LEMMA PollKeeps ==
  ASSUME RInv, Poll
  PROVE  RInv'
<1>1. TypeOK'
  <2>1. fds' \in Seq(Entry)
    BY PolledEntries DEF RInv
  <2>2. /\ i' = 1
        /\ \/ pc' = [pc EXCEPT ![Main] = "accept"]
           \/ pc' = [pc EXCEPT ![Main] = "scan"]
        /\ UNCHANGED <<clientVars, pending, replies, served, file, num, on, late>>
    BY DEF Poll, Goto
  <2> QED
    BY <2>1, <2>2, ConstantsDiffer
    DEF RInv, TypeOK, MainSteps, WorkerSteps, Threads, clientVars
<1>2. NumbersMatch'
  BY DEF RInv, Poll, Goto, NumbersMatch, Gone, clientVars
<1>3. RecvsMatch'
  BY DEF RInv, Poll, Goto, RecvsMatch
<1>4. MainKeepsItsNumber'
  BY DEF RInv, Poll, Goto, MainKeepsItsNumber
<1>5. NumbersAreKept'
  BY DEF RInv, Poll, Goto, NumbersAreKept, Gone, clientVars
<1>6. OneAnswerPerRequest'
  BY DEF RInv, Poll, Goto, OneAnswerPerRequest, OneAnswerFor, Holds,
     clientVars
<1>7. EveryOpenConnectionIsPolled'
  BY PolledEntries DEF RInv, Poll, EveryOpenConnectionIsPolled
<1>8. StrayAnswersHadNoAsker'
  BY DEF RInv, Poll, StrayAnswersHadNoAsker, clientVars
<1> QED BY <1>1, <1>2, <1>3, <1>4, <1>5, <1>6, <1>7, <1>8 DEF RInv

\* The new connection has a number nobody had open; its client is late if a
\* worker still runs on that number.
LEMMA AcceptKeeps ==
  ASSUME RInv, Accept
  PROVE  RInv'
<1>1. TypeOK'
  <2>1. PICK c \in Backlog, n \in Numbers, garbage \in BOOLEAN :
          /\ file' = [file EXCEPT ![n] = c]
          /\ served' = served \cup {c}
          /\ fds' = Append(fds, [fd |-> n, ready |-> garbage])
          /\ num' = [num EXCEPT ![c] = n]
          /\ pc' = [pc EXCEPT ![c] = "recv", ![Main] = "scan"]
          /\ late' = IF RunningOn(n) = {} THEN late ELSE late \cup {c}
    BY DEF Accept
  <2>2. fds' \in Seq(Entry)
    BY <2>1, Appended DEF Entry, RInv, TypeOK
  <2>3. UNCHANGED <<clientVars, pending, replies, i, on>>
    BY DEF Accept
  <2>4. pc' \in [Threads -> MainSteps \cup WorkerSteps] /\ late' \in SUBSET Clients
    BY <2>1 DEF RInv, TypeOK, Backlog, Threads, MainSteps, WorkerSteps
  <2>5. pc'[Main] \in MainSteps /\ \A c1 \in Clients : pc'[c1] \in WorkerSteps
    BY <2>1, ConstantsDiffer
    DEF RInv, TypeOK, Backlog, Threads, MainSteps, WorkerSteps
  <2>6. /\ file' \in [Numbers -> Clients \cup {Closed}]
        /\ served' \in SUBSET Clients
        /\ num' \in [Threads -> Numbers]
    BY <2>1 DEF RInv, TypeOK, Backlog, Threads
  <2> QED
    BY <2>2, <2>3, <2>4, <2>5, <2>6 DEF RInv, TypeOK, clientVars
<1>2. NumbersMatch'
  BY DEF RInv, Accept, Backlog, NumbersMatch, TypeOK, Threads, Gone,
     clientVars
<1>3. RecvsMatch'
  BY DEF RInv, Accept, Backlog, RecvsMatch, TypeOK, Threads, NumbersMatch
<1>4. MainKeepsItsNumber'
  BY DEF RInv, Accept, MainKeepsItsNumber, TypeOK, Threads
<1>5. NumbersAreKept'
  BY ConstantsDiffer DEF RInv, Accept, LowestFree, RunningOn, NumbersAreKept,
     TypeOK, Threads, Gone, clientVars
<1>6. OneAnswerPerRequest'
  BY DEF RInv, Accept, OneAnswerPerRequest, OneAnswerFor, Holds, TypeOK,
     clientVars
<1>7. EveryOpenConnectionIsPolled'
  <2>1. PICK c \in Backlog, n \in Numbers, garbage \in BOOLEAN :
          /\ file' = [file EXCEPT ![n] = c]
          /\ fds' = Append(fds, [fd |-> n, ready |-> garbage])
    BY DEF Accept
  <2> DEFINE e == [fd |-> n, ready |-> garbage]
  <2>2. e \in Entry /\ e.fd = n
    BY DEF Entry
  <2> HIDE DEF e
  <2>3. /\ \A k \in DOMAIN fds : k \in DOMAIN Append(fds, e)
                                  /\ Append(fds, e)[k] = fds[k]
        /\ \E k \in DOMAIN Append(fds, e) : Append(fds, e)[k] = e
    BY <2>2, Appended DEF RInv, TypeOK
  <2>4. fds' = Append(fds, e)
    BY <2>1 DEF e
  <2>5. /\ \A k \in DOMAIN fds : k \in DOMAIN fds' /\ fds'[k] = fds[k]
        /\ \E k \in DOMAIN fds' : fds'[k].fd = n
    BY <2>2, <2>3, <2>4
  <2> QED
    BY <2>1, <2>5 DEF RInv, TypeOK, EveryOpenConnectionIsPolled
<1>8. StrayAnswersHadNoAsker'
  BY DEF RInv, Accept, StrayAnswersHadNoAsker, clientVars
<1> QED BY <1>1, <1>2, <1>3, <1>4, <1>5, <1>6, <1>7, <1>8 DEF RInv

\* Nobody will ever serve a connection that was aborted in the backlog.
LEMMA AcceptFailsKeeps ==
  ASSUME RInv, AcceptFails
  PROVE  RInv'
<1>1. TypeOK'
  BY DEF RInv, AcceptFails, Backlog, Goto, TypeOK, MainSteps, WorkerSteps,
     Threads, clientVars
<1>2. NumbersMatch'
  BY DEF RInv, AcceptFails, Goto, NumbersMatch, Gone, clientVars
<1>3. RecvsMatch'
  BY DEF RInv, AcceptFails, Goto, RecvsMatch
<1>4. MainKeepsItsNumber'
  BY DEF RInv, AcceptFails, Goto, MainKeepsItsNumber
<1>5. NumbersAreKept'
  BY DEF RInv, AcceptFails, Goto, NumbersAreKept, Gone, clientVars
<1>6. OneAnswerPerRequest'
  BY DEF RInv, AcceptFails, Goto, OneAnswerPerRequest, OneAnswerFor, Holds,
     clientVars
<1>7. EveryOpenConnectionIsPolled'
  BY DEF RInv, AcceptFails, EveryOpenConnectionIsPolled
<1>8. StrayAnswersHadNoAsker'
  BY DEF RInv, AcceptFails, StrayAnswersHadNoAsker, clientVars
<1> QED BY <1>1, <1>2, <1>3, <1>4, <1>5, <1>6, <1>7, <1>8 DEF RInv

\* Main takes the number of the entry it serves next.
LEMMA ScanKeeps ==
  ASSUME RInv, Scan
  PROVE  RInv'
<1>1. TypeOK'
  <2>1. /\ fds \in Seq(Entry)
        /\ UNCHANGED <<clientVars, pending, replies, served, file, fds, on, late>>
    BY DEF RInv, TypeOK, Scan
  <2>2. CASE ScanEnds
    BY <2>1, <2>2, ConstantsDiffer
    DEF RInv, TypeOK, ScanEnds, Goto, Threads, MainSteps, WorkerSteps, clientVars
  <2>3. ASSUME NEW k \in DOMAIN fds, ScanFinds(k) PROVE TypeOK'
    <3>1. k \in Nat \ {0} /\ fds[k] \in Entry
      BY <2>1, LenProperties, ElementOfSeq
    <3>2. fds[k].fd \in Numbers
      BY <3>1 DEF Entry
    <3> QED
      BY <2>1, <2>3, <3>1, <3>2, ConstantsDiffer
      DEF RInv, TypeOK, ScanFinds, Goto, Threads, MainSteps, WorkerSteps, clientVars
  <2> QED BY <2>2, <2>3 DEF Scan
<1>2. NumbersMatch'
  <2>1. /\ UNCHANGED <<client, served, file, on, late>>
        /\ \A c \in Clients : pc'[c] = pc[c] /\ num'[c] = num[c]
    BY ConstantsDiffer
    DEF RInv, TypeOK, Scan, ScanFinds, ScanEnds, Goto, Threads, clientVars
  <2> QED BY <2>1 DEF RInv, NumbersMatch, Gone
<1>3. RecvsMatch'
  BY ConstantsDiffer DEF RInv, Scan, ScanFinds, ScanEnds, Goto, RecvsMatch,
     TypeOK, Threads
<1>4. MainKeepsItsNumber'
  BY DEF RInv, Scan, ScanFinds, ScanEnds, Goto, MainKeepsItsNumber, TypeOK
<1>5. NumbersAreKept'
  <2>1. /\ UNCHANGED <<client, served, file, on, late>>
        /\ \A c \in Clients : pc'[c] = pc[c] /\ num'[c] = num[c]
    BY ConstantsDiffer
    DEF RInv, TypeOK, Scan, ScanFinds, ScanEnds, Goto, Threads, clientVars
  <2> QED BY <2>1 DEF RInv, NumbersAreKept, Gone
<1>6. OneAnswerPerRequest'
  BY DEF RInv, Scan, ScanFinds, ScanEnds, Goto, OneAnswerPerRequest,
     OneAnswerFor, Holds, TypeOK, clientVars
<1>7. EveryOpenConnectionIsPolled'
  BY DEF RInv, Scan, EveryOpenConnectionIsPolled
<1>8. StrayAnswersHadNoAsker'
  BY DEF RInv, Scan, StrayAnswersHadNoAsker, clientVars
<1> QED BY <1>1, <1>2, <1>3, <1>4, <1>5, <1>6, <1>7, <1>8 DEF RInv

\* A thread waits on the connection that has its number now.
LEMMA CallRecvKeeps ==
  ASSUME RInv, NEW t \in Threads, CallRecv(t)
  PROVE  RInv'
<1>1. TypeOK'
  BY DEF RInv, CallRecv, Goto, TypeOK, MainSteps, WorkerSteps, clientVars
<1>2. NumbersMatch'
  BY DEF RInv, CallRecv, Goto, NumbersMatch, Gone, clientVars
<1>3. RecvsMatch'
  BY DEF RInv, CallRecv, Goto, RecvsMatch, TypeOK, NumbersMatch
<1>4. MainKeepsItsNumber'
  BY DEF RInv, CallRecv, Goto, MainKeepsItsNumber, TypeOK, Gone, clientVars
<1>5. NumbersAreKept'
  BY ConstantsDiffer DEF RInv, CallRecv, Goto, NumbersAreKept, TypeOK, Gone,
     clientVars
<1>6. OneAnswerPerRequest'
  BY DEF RInv, CallRecv, Goto, OneAnswerPerRequest, OneAnswerFor, Holds,
     clientVars
<1>7. EveryOpenConnectionIsPolled'
  BY DEF RInv, CallRecv, EveryOpenConnectionIsPolled
<1>8. StrayAnswersHadNoAsker'
  BY DEF RInv, CallRecv, StrayAnswersHadNoAsker, clientVars
<1> QED BY <1>1, <1>2, <1>3, <1>4, <1>5, <1>6, <1>7, <1>8 DEF RInv

\* The request goes from the connection into the hands of one thread.
LEMMA RecvRequestKeeps ==
  ASSUME RInv, NEW t \in Threads, RecvRequest(t)
  PROVE  RInv'
<1>1. TypeOK'
  BY DEF RInv, RecvRequest, Goto, TypeOK, MainSteps, WorkerSteps, Threads,
     clientVars
<1>2. NumbersMatch'
  BY DEF RInv, RecvRequest, Goto, NumbersMatch, Gone, clientVars
<1>3. RecvsMatch'
  BY DEF RInv, RecvRequest, Goto, RecvsMatch
<1>4. MainKeepsItsNumber'
  BY DEF RInv, RecvRequest, Goto, MainKeepsItsNumber, Gone, clientVars
<1>5. NumbersAreKept'
  BY DEF RInv, RecvRequest, Goto, NumbersAreKept, Gone, clientVars
<1>6. OneAnswerPerRequest'
  BY DEF RInv, RecvRequest, Goto, OneAnswerPerRequest, OneAnswerFor, Holds,
     TypeOK, clientVars
<1>7. EveryOpenConnectionIsPolled'
  BY DEF RInv, RecvRequest, EveryOpenConnectionIsPolled
<1>8. StrayAnswersHadNoAsker'
  BY DEF RInv, RecvRequest, StrayAnswersHadNoAsker, clientVars
<1> QED BY <1>1, <1>2, <1>3, <1>4, <1>5, <1>6, <1>7, <1>8 DEF RInv

\* The end is received only when the client has gone.
LEMMA RecvEndKeeps ==
  ASSUME RInv, NEW t \in Threads, RecvEnd(t)
  PROVE  RInv'
<1>1. TypeOK'
  BY DEF RInv, RecvEnd, Goto, TypeOK, MainSteps, WorkerSteps, clientVars
<1>2. NumbersMatch'
  BY DEF RInv, RecvEnd, Goto, NumbersMatch, Gone, clientVars
<1>3. RecvsMatch'
  BY DEF RInv, RecvEnd, Goto, RecvsMatch
<1>4. MainKeepsItsNumber'
  BY DEF RInv, RecvEnd, Goto, MainKeepsItsNumber, Gone, clientVars
<1>5. NumbersAreKept'
  BY DEF RInv, RecvEnd, Goto, NumbersAreKept, Gone, clientVars
<1>6. OneAnswerPerRequest'
  BY DEF RInv, RecvEnd, Goto, OneAnswerPerRequest, OneAnswerFor, Holds,
     clientVars
<1>7. EveryOpenConnectionIsPolled'
  BY DEF RInv, RecvEnd, EveryOpenConnectionIsPolled
<1>8. StrayAnswersHadNoAsker'
  BY DEF RInv, RecvEnd, StrayAnswersHadNoAsker, clientVars
<1> QED BY <1>1, <1>2, <1>3, <1>4, <1>5, <1>6, <1>7, <1>8 DEF RInv

\* Main's number stays its own, so its answer goes to the one who asked.
LEMMA MainAnswersKeeps ==
  ASSUME RInv, MainAnswers
  PROVE  RInv'
<1>1. TypeOK'
  BY ConstantsDiffer DEF RInv, MainAnswers, Deliver, Goto, TypeOK, MainSteps,
     Threads, clientVars, MainKeepsItsNumber
<1>2. NumbersMatch'
  BY DEF RInv, MainAnswers, Goto, NumbersMatch, Gone, clientVars
<1>3. RecvsMatch'
  BY DEF RInv, MainAnswers, Goto, RecvsMatch
<1>4. MainKeepsItsNumber'
  BY DEF RInv, MainAnswers, Goto, MainKeepsItsNumber, TypeOK, Threads
<1>5. NumbersAreKept'
  BY ConstantsDiffer DEF RInv, MainAnswers, Goto, NumbersAreKept, Gone,
     clientVars
<1>6. OneAnswerPerRequest'
  BY ConstantsDiffer DEF RInv, MainAnswers, Deliver, Goto,
     OneAnswerPerRequest, OneAnswerFor, Holds, TypeOK, Threads, clientVars,
     MainKeepsItsNumber
<1>7. EveryOpenConnectionIsPolled'
  BY DEF RInv, MainAnswers, EveryOpenConnectionIsPolled
<1>8. StrayAnswersHadNoAsker'
  BY ConstantsDiffer DEF RInv, MainAnswers, Deliver, StrayAnswersHadNoAsker,
     clientVars, MainKeepsItsNumber
<1> QED BY <1>1, <1>2, <1>3, <1>4, <1>5, <1>6, <1>7, <1>8 DEF RInv

\* Main closes the connection of a client that has gone, or a closed number;
\* the entry it removes is that of no open connection.
LEMMA MainClosesKeeps ==
  ASSUME RInv, MainCloses
  PROVE  RInv'
<1>1. TypeOK'
  <2>1. fds' \in Seq(Entry)
    BY RemovedProperties DEF RInv, TypeOK, MainKeepsItsNumber, MainCloses
  <2> QED
    BY <2>1, ConstantsDiffer
    DEF RInv, TypeOK, MainCloses, CloseNumber, Goto, Threads, MainSteps, clientVars
<1>2. NumbersMatch'
  BY ConstantsDiffer DEF RInv, MainCloses, CloseNumber, Goto, NumbersMatch,
     Gone, clientVars
<1>3. RecvsMatch'
  BY DEF RInv, MainCloses, Goto, RecvsMatch
<1>4. MainKeepsItsNumber'
  BY DEF RInv, MainCloses, Goto, MainKeepsItsNumber, TypeOK, Threads
<1>5. NumbersAreKept'
  BY ConstantsDiffer DEF RInv, MainCloses, CloseNumber, Goto, NumbersAreKept,
     Gone, clientVars, MainKeepsItsNumber
<1>6. OneAnswerPerRequest'
  BY DEF RInv, MainCloses, Goto, OneAnswerPerRequest, OneAnswerFor, Holds,
     clientVars
<1>7. EveryOpenConnectionIsPolled'
  <2> SUFFICES ASSUME NEW n \in Numbers, file'[n] # Closed
               PROVE  \E m \in DOMAIN fds' : fds'[m].fd = n
    BY DEF EveryOpenConnectionIsPolled
  <2>1. n # num[Main] /\ file[n] # Closed
    BY DEF RInv, TypeOK, MainCloses, CloseNumber
  <2>2. PICK k \in DOMAIN fds : fds[k].fd = n
    BY <2>1 DEF RInv, EveryOpenConnectionIsPolled
  <2>3. k # i /\ i \in DOMAIN fds
    BY <2>1, <2>2 DEF RInv, MainKeepsItsNumber, MainCloses
  <2>4. \E m \in DOMAIN fds' : fds'[m] = fds[k]
    BY <2>3, RemovedProperties DEF RInv, TypeOK, MainCloses
  <2> QED BY <2>2, <2>4
<1>8. StrayAnswersHadNoAsker'
  BY DEF RInv, MainCloses, StrayAnswersHadNoAsker, clientVars
<1> QED BY <1>1, <1>2, <1>3, <1>4, <1>5, <1>6, <1>7, <1>8 DEF RInv

\* A worker's answer goes astray only to a late client.
LEMMA WorkerAnswersKeeps ==
  ASSUME RInv, NEW c \in Clients, WorkerAnswers(c)
  PROVE  RInv'
<1>1. TypeOK'
  BY DEF RInv, WorkerAnswers, Deliver, Goto, TypeOK, MainSteps, WorkerSteps,
     Threads, clientVars, RecvsMatch
<1>2. NumbersMatch'
  BY DEF RInv, WorkerAnswers, Goto, NumbersMatch, Gone, clientVars
<1>3. RecvsMatch'
  BY DEF RInv, WorkerAnswers, Goto, RecvsMatch
<1>4. MainKeepsItsNumber'
  BY DEF RInv, WorkerAnswers, Goto, MainKeepsItsNumber, Gone, clientVars
<1>5. NumbersAreKept'
  BY DEF RInv, WorkerAnswers, Goto, NumbersAreKept, Gone, clientVars
<1>6. OneAnswerPerRequest'
  <2>1. /\ pc[c] = "answer" /\ pc' = [pc EXCEPT ![c] = "recv"]
        /\ UNCHANGED <<client, pending, late, num, file, on>>
        /\ \A d \in Clients : replies'[d] =
             IF file[num[c]] = d /\ ~Gone(d) THEN replies[d] \cup {on[c]}
                                            ELSE replies[d]
    BY DEF WorkerAnswers, Deliver, Goto, clientVars
  <2>2. late' = late
    BY DEF WorkerAnswers
  <2> SUFFICES ASSUME NEW d \in Clients \ late
               PROVE  OneAnswerFor(d)'
    BY <2>2 DEF OneAnswerPerRequest
  <2>3. OneAnswerFor(d)
    BY DEF RInv, OneAnswerPerRequest
  <2>4. \A t \in Threads : Holds(t, d)' => t # c /\ Holds(t, d)
    BY <2>1 DEF Holds, RInv, TypeOK
  <2>5. CASE file[num[c]] = d /\ ~Gone(d)
    <3>1. pc[d] # "none" /\ num[d] = num[c]
      BY <2>5 DEF RInv, TypeOK, NumbersMatch, Threads
    <3>2. c = d /\ on[c] = d
      BY <2>1, <2>5, <3>1 DEF RInv, NumbersAreKept
    <3>3. Holds(c, d) /\ c \in Threads
      BY <2>1, <3>2 DEF Holds, Threads
    <3>4. client[d] = "waiting"
      BY <2>3, <2>5, <3>3 DEF OneAnswerFor, Gone
    <3>5. ~pending[d] /\ \A t \in Threads : ~Holds(t, d)'
      BY <2>3, <2>4, <3>3, <3>4 DEF OneAnswerFor
    <3>6. replies'[d] \subseteq {d}
      BY <2>1, <2>3, <3>2 DEF OneAnswerFor
    <3> QED BY <2>1, <3>4, <3>5, <3>6 DEF OneAnswerFor
  <2>6. CASE ~(file[num[c]] = d /\ ~Gone(d))
    <3>1. replies'[d] = replies[d]
      BY <2>1, <2>6
    <3> QED BY <2>1, <2>3, <2>4, <3>1 DEF OneAnswerFor
  <2> QED BY <2>5, <2>6
<1>7. EveryOpenConnectionIsPolled'
  BY DEF RInv, WorkerAnswers, EveryOpenConnectionIsPolled
<1>8. StrayAnswersHadNoAsker'
  <2>1. /\ pc[c] = "answer"
        /\ UNCHANGED <<client, late>>
        /\ \A d \in Clients : replies'[d] =
             IF file[num[c]] = d /\ ~Gone(d) THEN replies[d] \cup {on[c]}
                                            ELSE replies[d]
    BY DEF WorkerAnswers, Deliver, clientVars
  <2> SUFFICES ASSUME NEW d \in Clients, NEW e \in replies'[d] \ {d}
               PROVE  d \in late /\ (client[e] = "killed" \/ e \in late)
    BY <2>1 DEF StrayAnswersHadNoAsker
  <2>2. CASE e \in replies[d]
    BY <2>2 DEF RInv, StrayAnswersHadNoAsker
  <2>3. CASE e \notin replies[d]
    <3>1. file[num[c]] = d /\ ~Gone(d) /\ on[c] = e
      BY <2>1, <2>3
    <3>2. /\ pc[d] # "none" /\ num[d] = num[c]
          /\ e \in Clients /\ pc[e] # "none" /\ num[e] = num[c]
      BY <2>1, <3>1 DEF RInv, TypeOK, NumbersMatch, RecvsMatch, Threads
    <3>3. Holds(c, e) /\ c \in Threads
      BY <2>1, <3>1 DEF Holds, Threads
    <3>4. d \in late
      BY <2>1, <3>1, <3>2 DEF RInv, NumbersAreKept
    <3>5. ASSUME e \notin late, client[e] # "killed" PROVE FALSE
      <4>1. client[e] = "waiting"
        BY <3>2, <3>3, <3>5 DEF RInv, OneAnswerPerRequest, OneAnswerFor
      <4>2. file[num[e]] = e
        BY <3>2, <3>5, <4>1 DEF RInv, NumbersAreKept, Gone
      <4> QED BY <3>1, <3>2, <4>2
    <3> QED BY <3>4, <3>5
  <2> QED BY <2>2, <2>3
<1> QED BY <1>1, <1>2, <1>3, <1>4, <1>5, <1>6, <1>7, <1>8 DEF RInv

\* A worker cuts off nobody but a late client.
LEMMA WorkerClosesKeeps ==
  ASSUME RInv, NEW c \in Clients, WorkerCloses(c)
  PROVE  RInv'
<1>1. TypeOK'
  BY ConstantsDiffer DEF RInv, WorkerCloses, CloseNumber, Goto, TypeOK,
     WorkerSteps, Threads, clientVars
<1>2. NumbersMatch'
  BY ConstantsDiffer DEF RInv, WorkerCloses, CloseNumber, Goto, NumbersMatch,
     Gone, clientVars
<1>3. RecvsMatch'
  BY DEF RInv, WorkerCloses, Goto, RecvsMatch
<1>4. MainKeepsItsNumber'
  BY DEF RInv, WorkerCloses, CloseNumber, Goto, MainKeepsItsNumber, Gone,
     clientVars
<1>5. NumbersAreKept'
  BY ConstantsDiffer DEF RInv, WorkerCloses, CloseNumber, Goto,
     NumbersAreKept, Gone, clientVars
<1>6. OneAnswerPerRequest'
  BY DEF RInv, WorkerCloses, Goto, OneAnswerPerRequest, OneAnswerFor, Holds,
     clientVars
<1>7. EveryOpenConnectionIsPolled'
  BY DEF RInv, WorkerCloses, CloseNumber, EveryOpenConnectionIsPolled
<1>8. StrayAnswersHadNoAsker'
  BY DEF RInv, WorkerCloses, StrayAnswersHadNoAsker, clientVars
<1> QED BY <1>1, <1>2, <1>3, <1>4, <1>5, <1>6, <1>7, <1>8 DEF RInv

\* A client that connects has no request anywhere.
LEMMA ConnectKeeps ==
  ASSUME RInv, NEW c \in Clients, Connect(c)
  PROVE  RInv'
<1>1. TypeOK'
  BY DEF RInv, Connect, Become, TypeOK, serverVars
<1>2. NumbersMatch'
  BY DEF RInv, Connect, Become, NumbersMatch, Gone, serverVars
<1>3. RecvsMatch'
  BY DEF RInv, Connect, RecvsMatch, serverVars
<1>4. MainKeepsItsNumber'
  BY DEF RInv, Connect, Become, MainKeepsItsNumber, Gone, serverVars
<1>5. NumbersAreKept'
  BY DEF RInv, Connect, Become, NumbersAreKept, Gone, serverVars
<1>6. OneAnswerPerRequest'
  BY DEF RInv, Connect, Become, OneAnswerPerRequest, OneAnswerFor, Holds,
     serverVars
<1>7. EveryOpenConnectionIsPolled'
  BY DEF RInv, Connect, EveryOpenConnectionIsPolled, serverVars
<1>8. StrayAnswersHadNoAsker'
  BY DEF RInv, Connect, Become, StrayAnswersHadNoAsker, serverVars
<1> QED BY <1>1, <1>2, <1>3, <1>4, <1>5, <1>6, <1>7, <1>8 DEF RInv

\* A client asks when its last request has been answered.
LEMMA AskKeeps ==
  ASSUME RInv, NEW c \in Clients, Ask(c)
  PROVE  RInv'
<1>1. TypeOK'
  BY ConstantsDiffer DEF RInv, Ask, Become, TypeOK, serverVars
<1>2. NumbersMatch'
  BY DEF RInv, Ask, Become, NumbersMatch, Gone, serverVars
<1>3. RecvsMatch'
  BY DEF RInv, Ask, RecvsMatch, serverVars
<1>4. MainKeepsItsNumber'
  BY DEF RInv, Ask, Become, MainKeepsItsNumber, Gone, serverVars
<1>5. NumbersAreKept'
  BY DEF RInv, Ask, Become, NumbersAreKept, Gone, serverVars
<1>6. OneAnswerPerRequest'
  BY DEF RInv, Ask, Become, OneAnswerPerRequest, OneAnswerFor, Holds,
     TypeOK, serverVars
<1>7. EveryOpenConnectionIsPolled'
  BY DEF RInv, Ask, EveryOpenConnectionIsPolled, serverVars
<1>8. StrayAnswersHadNoAsker'
  BY DEF RInv, Ask, Become, StrayAnswersHadNoAsker, serverVars
<1> QED BY <1>1, <1>2, <1>3, <1>4, <1>5, <1>6, <1>7, <1>8 DEF RInv

\* A client that hears an answer takes all that are there.
LEMMA HearKeeps ==
  ASSUME RInv, NEW c \in Clients, Hear(c)
  PROVE  RInv'
<1>1. TypeOK'
  BY DEF RInv, Hear, Become, TypeOK, serverVars
<1>2. NumbersMatch'
  BY DEF RInv, Hear, Become, NumbersMatch, Gone, serverVars
<1>3. RecvsMatch'
  BY DEF RInv, Hear, RecvsMatch, serverVars
<1>4. MainKeepsItsNumber'
  BY DEF RInv, Hear, Become, MainKeepsItsNumber, Gone, serverVars
<1>5. NumbersAreKept'
  BY DEF RInv, Hear, Become, NumbersAreKept, Gone, serverVars
<1>6. OneAnswerPerRequest'
  BY DEF RInv, Hear, Become, ServerClosed, Open, OneAnswerPerRequest,
     OneAnswerFor, Holds, TypeOK, Threads, Gone, serverVars, NumbersMatch,
     NumbersAreKept
<1>7. EveryOpenConnectionIsPolled'
  BY DEF RInv, Hear, EveryOpenConnectionIsPolled, serverVars
<1>8. StrayAnswersHadNoAsker'
  BY DEF RInv, Hear, Become, StrayAnswersHadNoAsker, serverVars
<1> QED BY <1>1, <1>2, <1>3, <1>4, <1>5, <1>6, <1>7, <1>8 DEF RInv

\* A client that leaves has no request anywhere.
LEMMA LeaveKeeps ==
  ASSUME RInv, NEW c \in Clients, Leave(c)
  PROVE  RInv'
<1>1. TypeOK'
  BY DEF RInv, Leave, Become, TypeOK, serverVars
<1>2. NumbersMatch'
  BY DEF RInv, Leave, Become, NumbersMatch, Gone, serverVars
<1>3. RecvsMatch'
  BY DEF RInv, Leave, RecvsMatch, serverVars
<1>4. MainKeepsItsNumber'
  BY DEF RInv, Leave, Become, MainKeepsItsNumber, Gone, serverVars
<1>5. NumbersAreKept'
  BY DEF RInv, Leave, Become, NumbersAreKept, Gone, serverVars
<1>6. OneAnswerPerRequest'
  BY DEF RInv, Leave, Become, OneAnswerPerRequest, OneAnswerFor, Holds,
     serverVars
<1>7. EveryOpenConnectionIsPolled'
  BY DEF RInv, Leave, EveryOpenConnectionIsPolled, serverVars
<1>8. StrayAnswersHadNoAsker'
  BY DEF RInv, Leave, Become, StrayAnswersHadNoAsker, serverVars
<1> QED BY <1>1, <1>2, <1>3, <1>4, <1>5, <1>6, <1>7, <1>8 DEF RInv

\* A client that is killed takes its answers with it.
LEMMA KillKeeps ==
  ASSUME RInv, NEW c \in Clients, Kill(c)
  PROVE  RInv'
<1>1. TypeOK'
  BY DEF RInv, Kill, Become, TypeOK, serverVars
<1>2. NumbersMatch'
  BY DEF RInv, Kill, Become, NumbersMatch, Gone, serverVars
<1>3. RecvsMatch'
  BY DEF RInv, Kill, RecvsMatch, serverVars
<1>4. MainKeepsItsNumber'
  BY DEF RInv, Kill, Become, MainKeepsItsNumber, Gone, serverVars
<1>5. NumbersAreKept'
  BY DEF RInv, Kill, Become, NumbersAreKept, Gone, serverVars
<1>6. OneAnswerPerRequest'
  BY DEF RInv, Kill, Become, OneAnswerPerRequest, OneAnswerFor, Holds,
     serverVars
<1>7. EveryOpenConnectionIsPolled'
  BY DEF RInv, Kill, EveryOpenConnectionIsPolled, serverVars
<1>8. StrayAnswersHadNoAsker'
  BY DEF RInv, Kill, Become, StrayAnswersHadNoAsker, serverVars
<1> QED BY <1>1, <1>2, <1>3, <1>4, <1>5, <1>6, <1>7, <1>8 DEF RInv

-----------------------------------------------------------------------------
(* The theorems. *)

\* The server starts with no connection.
LEMMA InitHolds == Init => RInv
<1> SUFFICES ASSUME Init PROVE RInv
  OBVIOUS
<1>1. TypeOK
  <2>1. fds \in Seq(Entry) BY DEF Init
  <2>2. 1 \in Numbers BY RpcAssumption DEF Numbers
  <2> QED
    BY <2>1, <2>2, ConstantsDiffer
    DEF Init, TypeOK, MainSteps, WorkerSteps, Threads
<1>2. NumbersMatch /\ RecvsMatch /\ MainKeepsItsNumber
  BY ConstantsDiffer
  DEF Init, NumbersMatch, RecvsMatch, MainKeepsItsNumber, Threads
<1>3. NumbersAreKept
  BY ConstantsDiffer DEF Init, NumbersAreKept, Threads
<1>4. OneAnswerPerRequest
  BY ConstantsDiffer DEF Init, OneAnswerPerRequest, OneAnswerFor, Holds, Threads
<1>5. EveryOpenConnectionIsPolled /\ StrayAnswersHadNoAsker
  BY DEF Init, EveryOpenConnectionIsPolled, StrayAnswersHadNoAsker
<1> QED BY <1>1, <1>2, <1>3, <1>4, <1>5 DEF RInv

\* Every step of main, a worker or a client keeps the invariant.
LEMMA NextKeeps == RInv /\ [Next]_vars => RInv'
<1> SUFFICES ASSUME RInv, [Next]_vars PROVE RInv'
  OBVIOUS
<1>1. CASE MainLoop
  <2>1. Main \in Threads
    BY DEF Threads
  <2> QED
    BY <1>1, <2>1, PollKeeps, AcceptKeeps, AcceptFailsKeeps, ScanKeeps,
       CallRecvKeeps, RecvRequestKeeps, RecvEndKeeps, MainAnswersKeeps,
       MainClosesKeeps
    DEF MainLoop
<1>2. ASSUME NEW c \in Clients, Worker(c) PROVE RInv'
  <2>1. c \in Threads
    BY DEF Threads
  <2> QED
    BY <1>2, <2>1, CallRecvKeeps, RecvRequestKeeps, RecvEndKeeps,
       WorkerAnswersKeeps, WorkerClosesKeeps
    DEF Worker
<1>3. ASSUME NEW c \in Clients, User(c) PROVE RInv'
  BY <1>3, ConnectKeeps, AskKeeps, HearKeeps, LeaveKeeps, KillKeeps DEF User
<1>4. CASE UNCHANGED vars
  BY <1>4
  DEF vars, RInv, TypeOK, NumbersMatch, RecvsMatch, MainKeepsItsNumber,
      NumbersAreKept, OneAnswerPerRequest, OneAnswerFor, Holds, Gone,
      EveryOpenConnectionIsPolled, StrayAnswersHadNoAsker
<1> QED BY <1>1, <1>2, <1>3, <1>4 DEF Next

\* Numbers, threads and requests agree in every reachable state.
THEOREM Inductive == Spec => []RInv
BY InitHolds, NextKeeps, PTL DEF Spec

\* A client that stays is cut off only if it was accepted on the number of a
\* worker that still ran; main never cuts anybody off.
THEOREM OnlyLateWorkersCut == Spec => []CutByALateWorker
<1>1. RInv => CutByALateWorker
  <2> SUFFICES ASSUME RInv, NEW c \in Clients, Cut(c), c \notin late
               PROVE  FALSE
    BY DEF CutByALateWorker
  <2>1. pc[c] # "none" /\ ~Gone(c) /\ ~Open(c)
    BY DEF Cut, ServerClosed, RInv, NumbersMatch
  <2>2. file[num[c]] = c
    BY <2>1 DEF RInv, NumbersAreKept
  <2>3. num[c] \in Numbers
    BY DEF RInv, TypeOK, Threads
  <2> QED BY <2>1, <2>2, <2>3 DEF Open
<1> QED BY <1>1, Inductive, PTL

\* Somebody else's answer reaches late clients only, and only when the one
\* who asked had been killed or was late too.
THEOREM StrayAnswers == Spec => []StrayAnswersHadNoAsker
<1>1. RInv => StrayAnswersHadNoAsker
  BY DEF RInv
<1> QED BY <1>1, Inductive, PTL

\* Every open connection has an entry in the array main polls.
THEOREM PolledConnections == Spec => []EveryOpenConnectionIsPolled
<1>1. RInv => EveryOpenConnectionIsPolled
  BY DEF RInv
<1> QED BY <1>1, Inductive, PTL
=============================================================================
