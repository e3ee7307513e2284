--------------------------- MODULE BankServerProofs ---------------------------
(***************************************************************************)
(* Theorems about BankServer, for every number of clients and every        *)
(* reporting interval.                                                     *)
(***************************************************************************)
EXTENDS BankServer, FiniteSetTheorems, TLAPS

\* A difference of counters is an integer that can be compared.
LEMMA DueIsBoolean == TypeOK => Due \in BOOLEAN
BY ServerAssumption DEF Due, TypeOK

\* The initial state satisfies the invariant.
LEMMA InitIsGood == Init => SInv
<1> SUFFICES ASSUME Init PROVE SInv
  OBVIOUS
<1>1. TypeOK
  BY DEF Init, TypeOK
<1>2. Counted = {}
  BY DEF Init, Counted
<1>3. request_count = Cardinality(Counted)
  BY <1>2, FS_EmptySet DEF Init
<1> QED
  BY <1>1, <1>3, ServerAssumption
     DEF Init, SInv, LateOnce, AtMostOneLate, CountIsExact, ReportsAreDue,
         NothingForgotten, Due

\* What recv returned decides how the handler goes on.
LEMMA ReceiveStep ==
  ASSUME TypeOK, CountIsExact, NEW c \in Clients, Receive(c)
  PROVE  \E step \in {"ended", "flag", "reply"} :
           /\ handler' = [handler EXCEPT ![c] = step]
           /\ step = "ended" => client[c] = "left"
           /\ step = "flag" => client[c] = "shutdown"
           /\ step = "reply" => client[c] = "work"
<1>1. client[c] \in {"left", "work", "shutdown"}
  BY DEF TypeOK, CountIsExact, Messages, Receive, Serves
<1>2. CASE client[c] = "left"
  BY <1>2 DEF Receive
<1>3. CASE client[c] = "shutdown"
  BY <1>3 DEF Receive
<1>4. CASE client[c] = "work"
  BY <1>4 DEF Receive
<1> QED
  BY <1>1, <1>2, <1>3, <1>4

\* Every step keeps the types.
LEMMA StepKeepsType ==
  ASSUME SInv, [Next]_vars
  PROVE  TypeOK'
<1> USE DEF TypeOK, Messages, SInv
<1>1. CASE Main \/ AcceptFails
  BY <1>1 DEF Main, AcceptFails, MainTest, Accept, Join
<1>2. CASE Monitor \/ SpuriousWakeup
  BY <1>2 DEF Monitor, SpuriousWakeup, MonitorLoop, TestCount, TestShutdown,
              FallAsleep, WakeUp, Report
<1>3. ASSUME NEW c \in Clients,
             RequestShutdown(c) \/ Reply(c) \/ Count(c)
      PROVE  TypeOK'
  <2>1. CASE RequestShutdown(c)
    BY <2>1 DEF RequestShutdown
  <2>2. CASE Reply(c)
    BY <2>2 DEF Reply
  <2>3. CASE Count(c)
    BY <2>3 DEF Count
  <2> QED
    BY <1>3, <2>1, <2>2, <2>3
<1>4. ASSUME NEW c \in Clients, Notify(c) \/ Farewell(c)
      PROVE  TypeOK'
  BY <1>4 DEF Notify, Farewell, AfterNotify
<1>5. ASSUME NEW c \in Clients, NEW m \in Messages \cup {"left"},
             Connect(c) \/ Send(c, m)
      PROVE  TypeOK'
  BY <1>5 DEF Connect, Send
<1>6. ASSUME NEW c \in Clients, Receive(c)
      PROVE  TypeOK'
  <2>1. PICK step \in {"ended", "flag", "reply"} :
           handler' = [handler EXCEPT ![c] = step]
    BY <1>6, ReceiveStep
  <2> QED
    BY <1>6, <2>1 DEF Receive
<1>7. CASE UNCHANGED vars
  BY <1>7 DEF vars
<1> QED
  BY <1>1, <1>2, <1>3, <1>4, <1>5, <1>6, <1>7 DEF Next, Handle

\* A connection accepted late sends main to the join, so there is one at most.
LEMMA StepKeepsLateOnce ==
  ASSUME SInv, [Next]_vars
  PROVE  LateOnce'
<1> USE DEF SInv, TypeOK, LateOnce, AtMostOneLate
<1>1. CASE Main \/ AcceptFails
  BY <1>1 DEF Main, AcceptFails, MainTest, Accept, Join
<1>2. CASE UNCHANGED <<late, main>> /\ (shutdown_requested => shutdown_requested')
  BY <1>2
<1> QED
  BY <1>1, <1>2
     DEF Next, vars, Handle, Monitor, SpuriousWakeup, MonitorLoop, TestCount,
         TestShutdown, FallAsleep, WakeUp, Report, Receive, RequestShutdown,
         Reply, Count, Notify, Farewell, Connect, Send

\* request_count counts each answered request once.
LEMMA StepKeepsCount ==
  ASSUME SInv, [Next]_vars
  PROVE  CountIsExact'
<1> USE DEF SInv, TypeOK, CountIsExact
<1>1. CASE UNCHANGED <<client, handler, request_count>>
  BY <1>1 DEF Counted
<1>2. ASSUME NEW c \in Clients, Accept(c)
      PROVE  CountIsExact'
  <2>1. Counted' = Counted
    BY <1>2 DEF Accept, Counted
  <2> QED
    BY <1>2, <2>1 DEF Accept
<1>3. ASSUME NEW c \in Clients, NEW m \in Messages \cup {"left"},
             Connect(c) \/ Send(c, m)
      PROVE  CountIsExact'
  <2>1. Counted' = Counted
    BY <1>3 DEF Connect, Send, Counted, Messages
  <2> QED
    BY <1>3, <2>1 DEF Connect, Send, Messages
<1>4. ASSUME NEW c \in Clients, Reply(c)
      PROVE  CountIsExact'
  <2>1. Counted' = Counted
    BY <1>4 DEF Reply, Serves, Counted
  <2> QED
    BY <1>4, <2>1 DEF Reply, Serves
<1>5. ASSUME NEW c \in Clients, RequestShutdown(c) \/ Notify(c) \/ Farewell(c)
      PROVE  CountIsExact'
  <2>1. Counted' = Counted
    BY <1>5 DEF RequestShutdown, Notify, Farewell, AfterNotify, Serves, Counted,
                Messages
  <2> QED
    BY <1>5, <2>1 DEF RequestShutdown, Notify, Farewell, AfterNotify, Serves,
                      Messages
<1>6. ASSUME NEW c \in Clients, Count(c)
      PROVE  CountIsExact'
  <2>1. c \notin Counted /\ Counted' = Counted \cup {c}
    BY <1>6 DEF Count, Serves, Counted
  <2>2. IsFiniteSet(Counted)
    BY ServerAssumption, FS_Subset DEF Counted
  <2>3. Cardinality(Counted') = Cardinality(Counted) + 1
    BY <2>1, <2>2, FS_AddElement
  <2> QED
    BY <1>6, <2>3 DEF Count, Serves
<1>7. ASSUME NEW c \in Clients, Receive(c)
      PROVE  CountIsExact'
  <2>0. /\ handler[c] = "recv" /\ client[c] # "connected"
        /\ client' = client /\ request_count' = request_count
    BY <1>7 DEF Receive, Serves
  <2>1. PICK step \in {"ended", "flag", "reply"} :
           /\ handler' = [handler EXCEPT ![c] = step]
           /\ step = "ended" => client[c] = "left"
           /\ step = "flag" => client[c] = "shutdown"
           /\ step = "reply" => client[c] = "work"
    BY <1>7, ReceiveStep
  <2>2. Counted' = Counted
    BY <2>0, <2>1 DEF Counted
  <2> QED
    BY <2>0, <2>1, <2>2
<1> QED
  BY <1>1, <1>2, <1>3, <1>4, <1>5, <1>6, <1>7
     DEF Next, vars, Handle, Main, MainTest, Join, AcceptFails, Monitor,
         SpuriousWakeup, MonitorLoop, TestCount, TestShutdown, FallAsleep,
         WakeUp, Report

\* The count only grows, so what was due stays due until it is reported.
LEMMA StepKeepsReports ==
  ASSUME SInv, [Next]_vars
  PROVE  ReportsAreDue'
<1> USE ServerAssumption DEF SInv, TypeOK, ReportsAreDue, Due
<1>1. CASE Monitor \/ SpuriousWakeup
  <2>1. CASE MonitorLoop \/ TestShutdown
    BY <2>1 DEF MonitorLoop, TestShutdown, Monitors
  <2>2. CASE TestCount \/ FallAsleep \/ SpuriousWakeup
    BY <2>2 DEF TestCount, FallAsleep, SpuriousWakeup, Monitors
  <2>3. CASE WakeUp
    BY <2>3 DEF WakeUp, Monitors
  <2>4. CASE Report
    BY <2>4 DEF Report
  <2> QED
    BY <1>1, <2>1, <2>2, <2>3, <2>4 DEF Monitor
<1>2. ASSUME NEW c \in Clients, RequestShutdown(c) \/ Count(c) \/ Notify(c)
      PROVE  ReportsAreDue'
  BY <1>2 DEF RequestShutdown, Count, Notify
<1>3. CASE UNCHANGED <<monitor, request_count, shutdown_requested, last_reported>>
  BY <1>3
<1> QED
  BY <1>1, <1>2, <1>3
     DEF Next, vars, Handle, Main, MainTest, Accept, Join, AcceptFails, Receive,
         Reply, Farewell, Connect, Send

\* Whatever makes the monitor's condition true notifies it.
LEMMA StepKeepsNothingForgotten ==
  ASSUME SInv, [Next]_vars
  PROVE  NothingForgotten'
<1> USE ServerAssumption DEF SInv, TypeOK, NothingForgotten
<1>0. Due \in BOOLEAN
  BY DueIsBoolean
<1>1. CASE Monitor \/ SpuriousWakeup
  <2>1. CASE MonitorLoop \/ WakeUp \/ Report \/ SpuriousWakeup
    BY <2>1 DEF MonitorLoop, WakeUp, Report, SpuriousWakeup
  <2>2. CASE TestCount
    BY <2>2 DEF TestCount, Due
  <2>3. CASE TestShutdown
    BY <2>3 DEF TestShutdown, Monitors, Due
  <2>4. CASE FallAsleep
    BY <2>4 DEF FallAsleep, Monitors, Due
  <2> QED
    BY <1>1, <2>1, <2>2, <2>3, <2>4 DEF Monitor
<1>2. ASSUME NEW c \in Clients, RequestShutdown(c) \/ Count(c)
      PROVE  NothingForgotten'
  BY <1>2 DEF RequestShutdown, Count
<1>3. ASSUME NEW c \in Clients, Notify(c)
      PROVE  NothingForgotten'
  BY <1>3 DEF Notify
<1>4. ASSUME UNCHANGED <<monitor, request_count, shutdown_requested,
                         last_reported, missed>>,
             \A c \in Clients : handler[c] = "notify" => handler'[c] = "notify"
      PROVE  NothingForgotten'
  BY <1>4 DEF Due
<1>5. ASSUME NEW c \in Clients, Receive(c) \/ Reply(c) \/ Farewell(c) \/ Accept(c)
      PROVE  NothingForgotten'
  BY <1>4, <1>5 DEF Receive, Reply, Farewell, Accept, Serves
<1> QED
  BY <1>1, <1>2, <1>3, <1>4, <1>5
     DEF Next, vars, Handle, Main, MainTest, Join, AcceptFails, Connect, Send

\* The inductive invariant holds in every reachable state.
THEOREM Inductive == Spec => []SInv
<1>1. SInv /\ [Next]_vars => SInv'
  BY StepKeepsType, StepKeepsLateOnce, StepKeepsCount, StepKeepsReports,
     StepKeepsNothingForgotten DEF SInv
<1> QED
  BY <1>1, InitIsGood, PTL DEF Spec

\* The monitor oversleeps only because a notification was lost.
THEOREM OnlyLostWakeups == Spec => []OversleepsOnlyIfMissed
<1>1. SInv => OversleepsOnlyIfMissed
  BY DEF SInv, NothingForgotten, OversleepsOnlyIfMissed
<1> QED
  BY <1>1, Inductive, PTL

\* Once shutdown is requested, main takes at most one more connection.
THEOREM OneLateConnection == Spec => []AtMostOneLate
<1>1. SInv => AtMostOneLate
  BY DEF SInv, LateOnce
<1> QED
  BY <1>1, Inductive, PTL

\* The monitor never reports more requests than have been answered.
THEOREM EarnedReports == Spec => []ReportsAreEarned
<1>1. SInv => ReportsAreEarned
  <2> SUFFICES ASSUME SInv PROVE ReportsAreEarned
    OBVIOUS
  <2>1. Counted \subseteq Answered
    BY DEF Counted, Answered
  <2>2. IsFiniteSet(Answered)
    BY ServerAssumption, FS_Subset DEF Answered
  <2>3. Cardinality(Counted) <= Cardinality(Answered)
    BY <2>1, <2>2, FS_Subset
  <2> QED
    BY <2>3 DEF SInv, ReportsAreEarned, ReportsAreDue, CountIsExact
<1> QED
  BY <1>1, Inductive, PTL

\* Two successive reports are at least ReportEvery requests apart.
THEOREM SpacedReports == Spec => ReportsAreSpaced
<1>1. SInv /\ [Next]_vars =>
        [last_reported' # last_reported =>
           last_reported' - last_reported >= ReportEvery]_vars
  <2> SUFFICES ASSUME SInv, [Next]_vars, last_reported' # last_reported
               PROVE  last_reported' - last_reported >= ReportEvery
    OBVIOUS
  <2>1. Report
    BY DEF Next, vars, Main, MainTest, Accept, Join, AcceptFails, Monitor,
           SpuriousWakeup, MonitorLoop, TestCount, TestShutdown, FallAsleep,
           WakeUp, Handle, Receive, RequestShutdown, Reply, Count, Notify,
           Farewell, Connect, Send
  <2> QED
    BY <2>1 DEF Report, Monitors, SInv, ReportsAreDue, Due
<1> QED
  BY <1>1, Inductive, PTL DEF Spec, ReportsAreSpaced
=============================================================================
