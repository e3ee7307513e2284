--------------------------- MODULE ProgramsProofs ----------------------------
(***************************************************************************)
(* Theorems about the programs of Programs, for every value of their       *)
(* constants.                                                              *)
(***************************************************************************)
EXTENDS Programs, Sequences, FiniteSetTheorems, SequenceTheorems,
        WellFoundedInduction, TLAPS

(***************************************************************************)
(* The shared counters: any finite number of threads, and any number of    *)
(* rounds.                                                                 *)
(***************************************************************************)

\* The operator the module of the counters counts with is the one that the
\* theorems about finite sets are about.
LEMMA SameCardinality == \A S : Count!Cardinality(S) = Cardinality(S)
BY DEF Count!Cardinality, Cardinality

\* What a thread's step in inc does to all threads' steps.
LEMMA CounterSteps ==
  ASSUME Count!CounterTypes, NEW t \in Threads, NEW a, NEW b, Count!Step(t, a, b)
  PROVE  /\ inc[t] = a /\ inc'[t] = b
         /\ \A u \in Threads : u # t => inc'[u] = inc[u]
BY DEF Count!CounterTypes, Count!Step

LEMMA CountedIsFinite ==
  ASSUME IsFiniteSet(Threads), Rounds \in Nat
  PROVE  /\ IsFiniteSet(Threads \X (1 .. Rounds))
         /\ Cardinality(Threads \X (1 .. Rounds)) = Cardinality(Threads) * Rounds
         /\ Cardinality(Threads) \in Nat
         /\ IsFiniteSet(Count!Counted) /\ Cardinality(Count!Counted) \in Nat
<1>1. IsFiniteSet(1 .. Rounds) /\ Cardinality(1 .. Rounds) = Rounds
  BY FS_Interval
<1>2. /\ IsFiniteSet(Threads \X (1 .. Rounds))
      /\ Cardinality(Threads \X (1 .. Rounds)) = Cardinality(Threads) * Rounds
  BY <1>1, FS_Product
<1>3. Count!Counted \in SUBSET (Threads \X (1 .. Rounds))
  BY DEF Count!Counted
<1>4. IsFiniteSet(Count!Counted)
  BY <1>2, <1>3, FS_Subset
<1> QED
  BY <1>2, <1>4, FS_CardinalityType

LEMMA CounterStart ==
  ASSUME IsFiniteSet(Threads), Rounds \in Nat \ {0}, Count!Init
  PROVE  Count!CInv
<1> USE DEF Count!Init
<1>1. Count!CounterTypes
  BY DEF Count!CounterTypes
<1>2. Count!OneInside
  BY DEF Count!OneInside, Count!Inside
<1>3. Count!Counted = {}
  BY DEF Count!Counted
<1>4. Count!ValueIsCount
  BY <1>3, FS_EmptySet, SameCardinality DEF Count!ValueIsCount
<1> QED
  BY <1>1, <1>2, <1>4 DEF Count!CInv, Count!NothingIsLost

\* The lock is taken when nobody is inside, and given back by the one who is.
LEMMA CounterInsidePreserved ==
  ASSUME Count!CInv, Count!Next
  PROVE  Count!OneInside'
<1> USE DEF Count!CInv, Count!OneInside, Count!Inside
<1>1. ASSUME NEW t \in Threads, Count!Create(t)
      PROVE  Count!OneInside'
  <2>1. /\ inc[t] = "unborn" /\ inc'[t] = "enter"
        /\ \A u \in Threads : u # t => inc'[u] = inc[u]
    BY <1>1, CounterSteps DEF Count!Create
  <2>2. \A u \in Threads : Count!Inside(u)' <=> Count!Inside(u)
    BY <2>1
  <2> QED
    BY <1>1, <2>2 DEF Count!Create
<1>2. ASSUME NEW t \in Threads, Count!MutexLock(t)
      PROVE  Count!OneInside'
  <2>1. /\ inc[t] = "enter" /\ inc'[t] = "read"
        /\ \A u \in Threads : u # t => inc'[u] = inc[u]
    BY <1>2, CounterSteps DEF Count!MutexLock
  <2>2. \A u \in Threads : ~Count!Inside(u)
    BY <1>2 DEF Count!MutexLock
  <2>3. \A u \in Threads : Count!Inside(u)' <=> u = t
    BY <2>1, <2>2
  <2> QED
    BY <1>2, <2>3 DEF Count!MutexLock
<1>3. ASSUME NEW t \in Threads, Count!SemWait(t)
      PROVE  Count!OneInside'
  <2>1. /\ inc[t] = "enter" /\ inc'[t] = "read"
        /\ \A u \in Threads : u # t => inc'[u] = inc[u]
    BY <1>3, CounterSteps DEF Count!SemWait
  <2>2. semaphore = 1 /\ \A u \in Threads : ~Count!Inside(u)
    BY <1>3 DEF Count!SemWait
  <2>3. \A u \in Threads : Count!Inside(u)' <=> u = t
    BY <2>1, <2>2
  <2> QED
    BY <1>3, <2>2, <2>3 DEF Count!SemWait
<1>4. ASSUME NEW t \in Threads, Count!Read(t) \/ Count!Write(t)
      PROVE  Count!OneInside'
  <2>1. \E a, b \in {"read", "write", "leave"} : Count!Step(t, a, b)
    BY <1>4 DEF Count!Read, Count!Write
  <2>2. /\ inc[t] \in {"read", "write", "leave"}
        /\ inc'[t] \in {"read", "write", "leave"}
        /\ \A u \in Threads : u # t => inc'[u] = inc[u]
    BY <2>1, CounterSteps
  <2>3. \A u \in Threads : Count!Inside(u)' <=> Count!Inside(u)
    BY <2>2
  <2> QED
    BY <1>4, <2>3 DEF Count!Read, Count!Write
<1>5. ASSUME NEW t \in Threads, Count!MutexUnlock(t) \/ Count!SemPost(t)
      PROVE  Count!OneInside'
  <2>1. \E b \in {"done", "enter"} : Count!Step(t, "leave", b)
    BY <1>5 DEF Count!MutexUnlock, Count!SemPost, Count!Call
  <2>2. /\ inc[t] = "leave" /\ inc'[t] \in {"done", "enter"}
        /\ \A u \in Threads : u # t => inc'[u] = inc[u]
    BY <2>1, CounterSteps
  <2>3. \A u \in Threads : ~Count!Inside(u)'
    BY <2>2
  <2>4. guard = "semaphore" => semaphore = 0
    BY <2>2
  <2> QED
    BY <1>5, <2>3, <2>4 DEF Count!MutexUnlock, Count!SemPost, Count!Call
<1>6. CASE Count!PrintValue
  BY <1>6 DEF Count!PrintValue
<1> QED
  BY <1>1, <1>2, <1>3, <1>4, <1>5, <1>6 DEF Count!Next

LEMMA CounterTypesPreserved ==
  ASSUME Rounds \in Nat \ {0}, Count!CInv, Count!Next
  PROVE  Count!CounterTypes'
<1> USE DEF Count!CInv, Count!CounterTypes, Count!Step
<1>1. ASSUME NEW t \in Threads, Count!Create(t) \/ Count!MutexLock(t) \/ Count!SemWait(t)
      PROVE  Count!CounterTypes'
  BY <1>1 DEF Count!Create, Count!MutexLock, Count!SemWait
<1>2. ASSUME NEW t \in Threads, Count!Read(t) \/ Count!Write(t)
      PROVE  Count!CounterTypes'
  BY <1>2 DEF Count!Read, Count!Write
<1>3. ASSUME NEW t \in Threads, Count!MutexUnlock(t) \/ Count!SemPost(t)
      PROVE  Count!CounterTypes'
  <2>1. round[t] # Rounds + 1
    BY <1>3 DEF Count!MutexUnlock, Count!SemPost, Count!Call, Count!ValueIsCount
  <2>2. round[t] + 1 \in 1 .. Rounds + 1
    BY <2>1
  <2> QED
    BY <1>3, <2>2 DEF Count!MutexUnlock, Count!SemPost, Count!Call
<1>4. CASE Count!PrintValue
  BY <1>4 DEF Count!PrintValue
<1> QED
  BY <1>1, <1>2, <1>3, <1>4 DEF Count!Next

\* Write adds one call to those that count; no other step changes them.
LEMMA CounterValuePreserved ==
  ASSUME IsFiniteSet(Threads), Rounds \in Nat \ {0}, Count!CInv, Count!Next
  PROVE  Count!ValueIsCount'
<1> USE DEF Count!CInv, Count!CounterTypes, Count!ValueIsCount
<1>1. ASSUME NEW t \in Threads, NEW a \in {"unborn", "enter", "read"},
             NEW b \in {"enter", "read", "write"}, Count!Step(t, a, b),
             UNCHANGED <<inner_value, round>>,
             b = "write" => loaded' = [loaded EXCEPT ![t] = inner_value],
             b # "write" => UNCHANGED loaded
      PROVE  Count!ValueIsCount'
  <2>1. /\ inc[t] = a /\ inc'[t] = b
        /\ \A u \in Threads : u # t => inc'[u] = inc[u]
    BY <1>1, CounterSteps
  <2>2. \A u \in Threads : (inc'[u] = "leave" <=> inc[u] = "leave")
                           /\ (inc'[u] = "done" <=> inc[u] = "done")
    BY <2>1
  <2>3. Count!Counted' = Count!Counted
    BY <1>1, <2>2 DEF Count!Counted
  <2>4. \A u \in Threads : inc'[u] = "write" => loaded'[u] = inner_value
    BY <1>1, <2>1
  <2> QED
    BY <1>1, <2>2, <2>3, <2>4
<1>2. ASSUME NEW t \in Threads, Count!Write(t)
      PROVE  Count!ValueIsCount'
  <2>1. /\ inc[t] = "write" /\ inc'[t] = "leave"
        /\ \A u \in Threads : u # t => inc'[u] = inc[u]
    BY <1>2, CounterSteps DEF Count!Write
  <2>2. round[t] \in 1 .. Rounds
    BY <2>1
  <2>3. Count!Counted' = Count!Counted \cup {<<t, round[t]>>}
    BY <1>2, <2>1, <2>2 DEF Count!Write, Count!Counted
  <2>4. <<t, round[t]>> \notin Count!Counted
    BY <2>1, <2>2 DEF Count!Counted
  <2>5. Cardinality(Count!Counted') = Cardinality(Count!Counted) + 1
    BY <2>3, <2>4, CountedIsFinite, FS_AddElement
  <2>6. inner_value' = inner_value + 1
    BY <1>2, <2>1 DEF Count!Write
  <2>7. \A u \in Threads : inc'[u] # "write"
    BY <2>1 DEF Count!OneInside, Count!Inside
  <2> QED
    BY <1>2, <2>1, <2>2, <2>5, <2>6, <2>7, SameCardinality DEF Count!Write
<1>3. ASSUME NEW t \in Threads, Count!Call(t)
      PROVE  Count!ValueIsCount'
  <2>1. /\ inc[t] = "leave"
        /\ inc'[t] = IF round[t] = Rounds THEN "done" ELSE "enter"
        /\ \A u \in Threads : u # t => inc'[u] = inc[u]
    BY <1>3, CounterSteps DEF Count!Call
  <2>2. round[t] \in 1 .. Rounds
    BY <2>1
  <2>3. /\ round'[t] = round[t] + 1
        /\ \A u \in Threads : u # t => round'[u] = round[u]
    BY <1>3 DEF Count!Call
  <2>4. Count!Counted' = Count!Counted
    BY <1>3, <2>1, <2>2, <2>3 DEF Count!Call, Count!Counted
  <2>5. \A u \in Threads : inc'[u] = "done" <=> round'[u] = Rounds + 1
    BY <2>1, <2>2, <2>3
  <2>6. \A u \in Threads : inc'[u] = "write" => loaded'[u] = inner_value'
    BY <1>3, <2>1 DEF Count!Call
  <2> QED
    BY <1>3, <2>4, <2>5, <2>6 DEF Count!Call
<1>4. CASE Count!PrintValue
  BY <1>4 DEF Count!PrintValue, Count!Counted
<1> QED
  BY <1>1, <1>2, <1>3, <1>4
  DEF Count!Next, Count!Create, Count!MutexLock, Count!SemWait, Count!Read,
      Count!MutexUnlock, Count!SemPost

\* When main has joined all threads every call counts.
LEMMA CounterPrintsAll ==
  ASSUME IsFiniteSet(Threads), Rounds \in Nat \ {0}, Count!CInv, Count!PrintValue
  PROVE  final' = Cardinality(Threads) * Rounds
<1> USE DEF Count!CInv, Count!CounterTypes, Count!ValueIsCount
<1>1. \A t \in Threads : round[t] = Rounds + 1
  BY DEF Count!PrintValue
<1>2. Count!Counted = Threads \X (1 .. Rounds)
  BY <1>1 DEF Count!Counted
<1> QED
  BY <1>2, CountedIsFinite, SameCardinality DEF Count!PrintValue
\* At most one thread is between a lock and its unlock, the value is the number
\* of increments written, and nothing is lost: the invariant the next theorem
\* rests on.
THEOREM CounterInductive ==
  ASSUME IsFiniteSet(Threads), Rounds \in Nat \ {0}
  PROVE  ProgramsSpec => []Count!CInv
<1>1. ProgramsInit => Count!CInv
  BY CounterStart DEF ProgramsInit
<1>2. Count!CInv /\ [ProgramsNext]_allVars => Count!CInv'
  <2> SUFFICES ASSUME Count!CInv, [ProgramsNext]_allVars PROVE Count!CInv'
    OBVIOUS
  <2>1. Count!Next \/ UNCHANGED countVars
    BY DEF ProgramsNext, allVars, countVars
  <2>2. CASE Count!Next
    <3>1. Count!NothingIsLost'
      <4>1. CASE Count!PrintValue
        BY <4>1, CounterPrintsAll, SameCardinality DEF Count!NothingIsLost
      <4>2. CASE ~Count!PrintValue
        <5>1. final' = final
          BY <2>2, <4>2 DEF Count!Next, Count!Create, Count!MutexLock, Count!SemWait,
                            Count!Read, Count!Write, Count!Call, Count!MutexUnlock,
                            Count!SemPost
        <5> QED
          BY <5>1 DEF Count!CInv, Count!NothingIsLost, Count!Unknown
      <4> QED
        BY <4>1, <4>2
    <3> QED
      BY <2>2, <3>1, CounterTypesPreserved, CounterInsidePreserved,
         CounterValuePreserved DEF Count!CInv
  <2>3. CASE UNCHANGED countVars
    BY <2>3 DEF countVars, Count!CInv, Count!CounterTypes, Count!OneInside,
                Count!Inside, Count!ValueIsCount, Count!Counted,
                Count!NothingIsLost, Count!Unknown
  <2> QED
    BY <2>1, <2>2, <2>3
<1> QED
  BY <1>1, <1>2, PTL DEF ProgramsSpec

\* TH-SYNC: fifty threads that call inc ten thousand times each leave 500000,
\* with the mutex and with the semaphore - and so does any other number.
THEOREM NoIncrementIsLost ==
  ASSUME IsFiniteSet(Threads), Rounds \in Nat \ {0}
  PROVE  ProgramsSpec => []NothingIsLost
<1>1. Count!CInv => NothingIsLost
  BY DEF Count!CInv, NothingIsLost
<1> QED
  BY <1>1, CounterInductive, PTL
-----------------------------------------------------------------------------
(***************************************************************************)
(* The life cycle of the bank: any number of runs of init, of clients and  *)
(* of accounts.                                                            *)
(***************************************************************************)

LEMMA LifeStart == Life!Init => Life!LifeInv
<1> SUFFICES ASSUME Life!Init PROVE Life!LifeInv
  OBVIOUS
<1> USE LifeAssumption DEF Life!Init, Life!None
<1>1. Life!LifeTypes
  BY DEF Life!LifeTypes
<1>2. Life!ObjectsAreCreated
  BY DEF Life!ObjectsAreCreated
<1>3. Life!BuiltInOrder
  BY DEF Life!BuiltInOrder
<1>4. Life!OrderIsKept /\ Life!NotYetRaw
  BY DEF Life!OrderIsKept, Life!NotYetRaw, Life!Attached
<1> QED
  BY <1>1, <1>2, <1>3, <1>4 DEF Life!LifeInv

\* The step of a run of init, and which object it is about.
LEMMA LifeStepOfInit ==
  ASSUME Life!LifeTypes, NEW r \in Inits, NEW a, NEW b, Life!InitStep(r, a, b)
  PROVE  /\ init[r] = a /\ init'[r] = b
         /\ \A j \in Inits : j # r => init'[j] = init[j]
BY DEF Life!LifeTypes, Life!InitStep

\* The constructor stays within the accounts of the object it builds.
LEMMA BuildsAnAccount ==
  ASSUME Life!LifeTypes, Life!ObjectsAreCreated, NEW r \in Inits, Life!Build(r)
  PROVE  target[r] \in Inits /\ index[r] \in Nat /\ index[r] \in Life!Accounts
<1> USE LifeAssumption DEF Life!LifeTypes
<1>1. target[r] \in Inits
  BY DEF Life!Build, Life!InitStep, Life!ObjectsAreCreated, Life!Created
<1>2. index[r] \in Nat /\ index[r] < size[target[r]] /\ size[target[r]] \in {0, Rows}
  BY <1>1 DEF Life!Build
<1>3. index[r] \in 0 .. Rows - 1
  BY <1>2
<1> QED
  BY <1>1, <1>2, <1>3 DEF Life!Accounts

LEMMA LifeStepKeepsTypes ==
  ASSUME Life!LifeInv, [Life!Next]_lifeVars
  PROVE  Life!LifeTypes'
<1> USE LifeAssumption
        DEF Life!LifeInv, Life!LifeTypes, Life!None, Life!InitStep, Life!ClientStep,
            Life!objectVars, Life!initVars, Life!clientVars
<1>1. ASSUME NEW r \in Inits, Life!OpenTruncated(r)
      PROVE  Life!LifeTypes'
  <2> DEFINE o == IF name = "none" THEN r ELSE name
  <2>1. o \in Inits /\ (name # "none") \in BOOLEAN
    OBVIOUS
  <2> QED
    BY <1>1, <2>1 DEF Life!OpenTruncated
<1>2. ASSUME NEW r \in Inits,
             Life!LengthRefused(r) \/ Life!Constructed(r) \/ Life!InitFaults(r)
      PROVE  Life!LifeTypes'
  BY <1>2 DEF Life!LengthRefused, Life!Constructed, Life!InitFaults
<1>3. ASSUME NEW r \in Inits, Life!Extend(r) \/ Life!WriteSize(r)
      PROVE  Life!LifeTypes'
  BY <1>3 DEF Life!Extend, Life!WriteSize
<1>4. ASSUME NEW r \in Inits, Life!Build(r)
      PROVE  Life!LifeTypes'
  <2>1. target[r] \in Inits /\ index[r] + 1 \in Nat
    BY <1>4, BuildsAnAccount
  <2>2. built[target[r]] \cup {index[r]} \in SUBSET Life!Accounts
    BY <1>4, <2>1, BuildsAnAccount
  <2> QED
    BY <1>4, <2>1, <2>2 DEF Life!Build
<1>5. CASE Life!Deinit
  BY <1>5 DEF Life!Deinit
<1>6. ASSUME NEW c \in Clients, Life!Open(c) \/ Life!Map(c) \/ Life!ClientFaults(c)
      PROVE  Life!LifeTypes'
  BY <1>6 DEF Life!Open, Life!Map, Life!ClientFaults, Life!Complete
<1>7. ASSUME NEW c \in Clients, NEW a \in Life!Accounts, Life!Enter(c, a)
      PROVE  Life!LifeTypes'
  <2>1. object[c] \in Inits
    BY <1>7 DEF Life!Enter, Life!ObjectsAreCreated, Life!Created
  <2>2. (raw[c] \/ a \notin built[object[c]]) \in BOOLEAN /\ a \in Nat
    BY DEF Life!Accounts
  <2>3. locked[object[c]] \cup {a} \in SUBSET Life!Accounts
    BY <2>1
  <2> QED
    BY <1>7, <2>1, <2>2, <2>3 DEF Life!Enter
<1>8. ASSUME NEW c \in Clients, Life!Leave(c)
      PROVE  Life!LifeTypes'
  BY <1>8 DEF Life!Leave
<1>9. CASE UNCHANGED lifeVars
  BY <1>9 DEF lifeVars
<1> QED
  BY <1>1, <1>2, <1>3, <1>4, <1>5, <1>6, <1>7, <1>8, <1>9
  DEF Life!Next, Life!RunInit, Life!RunClient

\* What a run of init that opens object o does to the objects.
Opens(r, o) ==
  /\ o = (IF name = "none" THEN r ELSE name)
  /\ name = "none" => target[r] = "none" /\ \A j \in Inits : target[j] # o
  /\ name # "none" => Life!Created(o)
  /\ target'[r] = o /\ \A j \in Inits : j # r => target'[j] = target[j]
  /\ init[r] = "start" /\ init'[r] = "truncated"
  /\ \A j \in Inits : j # r => init'[j] = init[j]
  /\ reopened'[o] = (name # "none")
  /\ ~backed'[o] /\ built'[o] = {}
  /\ \A p \in Inits : p # o =>
       /\ reopened'[p] = reopened[p] /\ backed'[p] = backed[p]
       /\ built'[p] = built[p] /\ locked'[p] = locked[p]

LEMMA OpenedObject ==
  ASSUME Life!LifeInv, NEW r \in Inits, Life!OpenTruncated(r)
  PROVE  \E o \in Inits : Opens(r, o)
<1> USE LifeAssumption
        DEF Life!LifeInv, Life!LifeTypes, Life!None, Life!ObjectsAreCreated, Life!Created
<1> DEFINE o == IF name = "none" THEN r ELSE name
<1>1. o \in Inits
  OBVIOUS
<1>2. init[r] = "start" /\ target[r] = "none"
  BY DEF Life!OpenTruncated, Life!InitStep
<1>3. \A j \in Inits : target[j] # r
  <2> SUFFICES ASSUME NEW j \in Inits, target[j] = r PROVE FALSE
    OBVIOUS
  <2>1. target[j] # "none"
    OBVIOUS
  <2>2. target[target[j]] = target[j]
    BY <2>1
  <2> QED
    BY <1>2, <2>2
<1> QED
  BY <1>1, <1>2, <1>3 DEF Opens, Life!OpenTruncated, Life!InitStep

LEMMA LifeStepKeepsCreated ==
  ASSUME Life!LifeInv, [Life!Next]_lifeVars
  PROVE  Life!ObjectsAreCreated'
<1> USE LifeAssumption
        DEF Life!LifeInv, Life!LifeTypes, Life!None, Life!ObjectsAreCreated,
            Life!Created, Life!objectVars, Life!initVars, Life!clientVars
<1>1. ASSUME NEW r \in Inits, Life!OpenTruncated(r)
      PROVE  Life!ObjectsAreCreated'
  <2>1. PICK o \in Inits : Opens(r, o)
    BY <1>1, OpenedObject
  <2> USE DEF Opens
  <2>2. \A p : Life!Created(p) => Life!Created(p)'
    BY <2>1
  <2>3. name' = o /\ Life!Created(o)'
    BY <1>1, <2>1, <2>2 DEF Life!OpenTruncated
  <2>4. UNCHANGED <<index, client, object>>
    BY <1>1 DEF Life!OpenTruncated
  <2>5. ASSUME NEW j \in Inits
        PROVE  IF init'[j] = "start" THEN target'[j] = "none" /\ index'[j] = 0
                                     ELSE Life!Created(target[j])'
    BY <2>1, <2>2, <2>3, <2>4
  <2>6. ASSUME NEW j \in Inits, NEW p \in Inits, target'[j] = p, ~reopened'[p]
        PROVE  j = p
    <3>1. CASE p = o
      BY <2>1, <2>6, <3>1
    <3>2. CASE p # o
      BY <2>1, <2>6, <3>2
    <3> QED
      BY <3>1, <3>2
  <2>7. ASSUME NEW c \in Clients, client'[c] \notin {"start", "failed"}
        PROVE  Life!Created(object[c])'
    <3>1. Life!Created(object[c])
      BY <2>4, <2>7
    <3> QED
      BY <2>2, <2>4, <3>1
  <2> QED
    BY <2>3, <2>5, <2>6, <2>7
<1>2. ASSUME NEW r \in Inits, NEW a \in {"truncated", "sizing", "building"},
             NEW b \in {"sizing", "building", "done", "failed", "killed"},
             Life!InitStep(r, a, b),
             UNCHANGED <<name, reopened, target, client, object>>,
             \A j \in Inits : j # r => index'[j] = index[j]
      PROVE  Life!ObjectsAreCreated'
  BY <1>2, LifeStepOfInit
<1>3. ASSUME NEW r \in Inits,
             \/ Life!LengthRefused(r) \/ Life!Constructed(r) \/ Life!InitFaults(r)
             \/ Life!Extend(r) \/ Life!WriteSize(r) \/ Life!Build(r)
      PROVE  Life!ObjectsAreCreated'
  BY <1>2, <1>3
  DEF Life!LengthRefused, Life!Constructed, Life!InitFaults, Life!Extend,
      Life!WriteSize, Life!Build, Life!InitStep
<1>4. CASE Life!Deinit
  BY <1>4 DEF Life!Deinit
<1>5. ASSUME NEW c \in Clients, Life!RunClient(c)
      PROVE  Life!ObjectsAreCreated'
  BY <1>5
  DEF Life!RunClient, Life!Open, Life!Map, Life!ClientFaults, Life!Enter, Life!Leave,
      Life!ClientStep
<1>6. CASE UNCHANGED lifeVars
  BY <1>6 DEF lifeVars
<1> QED
  BY <1>1, <1>3, <1>4, <1>5, <1>6 DEF Life!Next, Life!RunInit

LEMMA LifeStepKeepsBuildOrder ==
  ASSUME Life!LifeInv, [Life!Next]_lifeVars
  PROVE  Life!BuiltInOrder'
<1> USE LifeAssumption
        DEF Life!LifeInv, Life!LifeTypes, Life!None, Life!ObjectsAreCreated,
            Life!Created, Life!BuiltInOrder,
            Life!objectVars, Life!initVars, Life!clientVars
<1>1. ASSUME NEW r \in Inits, Life!OpenTruncated(r)
      PROVE  Life!BuiltInOrder'
  <2>1. index[r] = 0 /\ index' = index
    BY <1>1 DEF Life!OpenTruncated, Life!InitStep
  <2>2. PICK o \in Inits : Opens(r, o)
    BY <1>1, OpenedObject
  <2> USE DEF Opens
  <2> SUFFICES ASSUME NEW p \in Inits, target'[p] = p, ~reopened'[p]
               PROVE  /\ backed'[p] => init'[p] \in {"sizing", "building", "done"}
                      /\ built'[p] = 0 .. index'[p] - 1
    OBVIOUS
  <2>3. CASE p = o
    <3>1. name = "none" /\ p = r
      BY <2>2, <2>3
    <3>2. 0 .. index'[p] - 1 = {}
      BY <2>1, <3>1
    <3> QED
      BY <2>2, <2>3, <3>2
  <2>4. CASE p # o
    <3>1. p # r /\ target[p] = p /\ ~reopened[p]
      BY <2>2, <2>4
    <3> QED
      BY <2>1, <2>2, <2>4, <3>1
  <2> QED
    BY <2>3, <2>4
<1>2. ASSUME NEW r \in Inits,
             Life!LengthRefused(r) \/ Life!Constructed(r) \/ Life!InitFaults(r)
      PROVE  Life!BuiltInOrder'
  <2>1. /\ UNCHANGED <<target, reopened, backed, built, index>>
        /\ \A j \in Inits : j # r => init'[j] = init[j]
    BY <1>2 DEF Life!LengthRefused, Life!Constructed, Life!InitFaults, Life!InitStep
  <2>2. \/ init[r] = "truncated"
        \/ init'[r] = "done"
        \/ ~backed[target[r]]
    BY <1>2 DEF Life!LengthRefused, Life!Constructed, Life!InitFaults, Life!InitStep
  <2> SUFFICES ASSUME NEW p \in Inits, target[p] = p, ~reopened[p], backed[p]
               PROVE  init'[p] \in {"sizing", "building", "done"}
    BY <2>1
  <2>3. CASE p = r
    BY <2>2, <2>3
  <2>4. CASE p # r
    BY <2>1, <2>4
  <2> QED
    BY <2>3, <2>4
<1>3. ASSUME NEW r \in Inits, Life!Extend(r) \/ Life!WriteSize(r)
      PROVE  Life!BuiltInOrder'
  <2>1. /\ UNCHANGED <<target, reopened, built, index>>
        /\ init'[r] \in {"sizing", "building"}
        /\ \A j \in Inits : j # r => init'[j] = init[j]
        /\ \A p \in Inits : p # target[r] => backed'[p] = backed[p]
        /\ init[r] # "start"
    BY <1>3 DEF Life!Extend, Life!WriteSize, Life!InitStep
  <2> SUFFICES ASSUME NEW p \in Inits, target[p] = p, ~reopened[p], backed'[p]
               PROVE  init'[p] \in {"sizing", "building", "done"}
    BY <2>1
  <2>2. target[r] = p => r = p
    OBVIOUS
  <2> QED
    BY <2>1, <2>2
<1>4. ASSUME NEW r \in Inits, Life!Build(r)
      PROVE  Life!BuiltInOrder'
  <2>1. /\ init[r] = "building" /\ init' = init /\ index'[r] = index[r] + 1
        /\ \A j \in Inits : j # r => index'[j] = index[j]
        /\ target[r] \in Inits
        /\ built'[target[r]] = built[target[r]] \cup {index[r]}
        /\ \A p \in Inits : p # target[r] => built'[p] = built[p]
        /\ UNCHANGED <<target, reopened, backed>>
    BY <1>4 DEF Life!Build, Life!InitStep
  <2> SUFFICES ASSUME NEW p \in Inits, target[p] = p, ~reopened[p]
               PROVE  built'[p] = 0 .. index'[p] - 1
    BY <2>1
  <2>2. CASE p = target[r]
    <3>1. p = r
      BY <2>2
    <3>2. (0 .. index[r] - 1) \cup {index[r]} = 0 .. (index[r] + 1) - 1
      OBVIOUS
    <3> QED
      BY <2>1, <3>1, <3>2
  <2>3. CASE p # target[r]
    BY <2>1, <2>3
  <2> QED
    BY <2>2, <2>3
<1>5. CASE Life!Deinit
  BY <1>5 DEF Life!Deinit
<1>6. ASSUME NEW c \in Clients, Life!RunClient(c)
      PROVE  Life!BuiltInOrder'
  BY <1>6
  DEF Life!RunClient, Life!Open, Life!Map, Life!ClientFaults, Life!Enter, Life!Leave
<1>7. CASE UNCHANGED lifeVars
  BY <1>7 DEF lifeVars
<1> QED
  BY <1>1, <1>2, <1>3, <1>4, <1>5, <1>6, <1>7 DEF Life!Next, Life!RunInit

\* No step takes from a client what it relies on: of an object that was not
\* reopened, no account is constructed twice, so no mutex that was locked after
\* its construction is ever reset.
LEMMA LifeStepKeepsOrder ==
  ASSUME Life!LifeInv, [Life!Next]_lifeVars
  PROVE  Life!OrderIsKept' /\ Life!NotYetRaw'
<1> USE LifeAssumption
        DEF Life!LifeInv, Life!LifeTypes, Life!None, Life!ObjectsAreCreated,
            Life!Created, Life!OrderIsKept, Life!Attached, Life!NotYetRaw,
            Life!Relies, Life!Together, Life!Untouched, Life!Complete,
            Life!objectVars, Life!initVars, Life!clientVars
<1>1. ASSUME NEW r \in Inits, Life!OpenTruncated(r)
      PROVE  Life!OrderIsKept' /\ Life!NotYetRaw'
  <2>1. PICK o \in Inits : Opens(r, o)
    BY <1>1, OpenedObject
  <2>2. UNCHANGED <<client, object, account, early, raw>>
    BY <1>1 DEF Life!OpenTruncated
  <2> SUFFICES ASSUME NEW c \in Clients, Life!Attached(c), ~reopened'[object[c]]
               PROVE  Life!Relies(c)'
    BY <2>2
  <2>3. Life!Created(object[c])
    OBVIOUS
  <2>4. object[c] # o
    BY <2>1, <2>3 DEF Opens
  <2>5. /\ backed'[object[c]] = backed[object[c]]
        /\ built'[object[c]] = built[object[c]]
        /\ locked'[object[c]] = locked[object[c]]
        /\ ~reopened[object[c]]
    BY <2>1, <2>3, <2>4 DEF Opens
  <2>6. Life!Relies(c)
    BY <2>5
  <2> QED
    BY <2>2, <2>5, <2>6
<1>2. ASSUME NEW r \in Inits,
             \/ Life!LengthRefused(r) \/ Life!Constructed(r) \/ Life!InitFaults(r)
             \/ Life!WriteSize(r)
      PROVE  Life!OrderIsKept' /\ Life!NotYetRaw'
  <2>1. UNCHANGED <<backed, built, locked, reopened, client, object, account, early, raw>>
    BY <1>2 DEF Life!LengthRefused, Life!Constructed, Life!InitFaults, Life!WriteSize
  <2> QED
    BY <2>1
<1>3. ASSUME NEW r \in Inits, Life!Extend(r)
      PROVE  Life!OrderIsKept' /\ Life!NotYetRaw'
  <2>1. /\ UNCHANGED <<built, locked, reopened, client, object, account, early, raw>>
        /\ \A p \in Inits : backed[p] => backed'[p]
    BY <1>3 DEF Life!Extend
  <2> SUFFICES ASSUME NEW c \in Clients, Life!Attached(c), ~reopened[object[c]]
               PROVE  Life!Relies(c)'
    BY <2>1
  <2>2. object[c] \in Inits /\ Life!Relies(c)
    OBVIOUS
  <2> QED
    BY <2>1, <2>2
<1>4. ASSUME NEW r \in Inits, Life!Build(r)
      PROVE  Life!OrderIsKept' /\ Life!NotYetRaw'
  <2>1. /\ UNCHANGED <<backed, reopened, client, object, account, early, raw>>
        /\ target[r] \in Inits
        /\ built'[target[r]] = built[target[r]] \cup {index[r]}
        /\ locked'[target[r]] = locked[target[r]] \ {index[r]}
        /\ \A p \in Inits : p # target[r] =>
             built'[p] = built[p] /\ locked'[p] = locked[p]
    BY <1>4 DEF Life!Build, Life!InitStep
  <2>2. index[r] \in Life!Accounts
    BY <1>4, BuildsAnAccount
  <2> SUFFICES ASSUME NEW c \in Clients, Life!Attached(c), ~reopened[object[c]]
               PROVE  Life!Relies(c)'
    BY <2>1
  <2>3. object[c] \in Inits /\ target[object[c]] = object[c] /\ Life!Relies(c)
    OBVIOUS
  <2>4. CASE object[c] # target[r]
    BY <2>1, <2>3, <2>4
  <2>5. CASE object[c] = target[r]
    <3>1. r = object[c]
      BY <2>3, <2>5
    <3>2. index[r] \notin built[object[c]]
      BY <2>3, <3>1 DEF Life!BuiltInOrder
    <3>3. ASSUME NEW S, S = Life!Accounts
          PROVE  S \cup {index[r]} = Life!Accounts
      BY <2>2, <3>3
    <3>4. built[object[c]] = Life!Accounts => built'[object[c]] = Life!Accounts
      BY <2>1, <2>5, <3>3
    <3> QED
      BY <2>1, <2>3, <2>5, <3>2, <3>4
  <2> QED
    BY <2>4, <2>5
<1>5. CASE Life!Deinit
  BY <1>5 DEF Life!Deinit
<1>6. CASE UNCHANGED lifeVars
  BY <1>6 DEF lifeVars
<1>7. ASSUME NEW e \in Clients, Life!Open(e)
      PROVE  Life!OrderIsKept' /\ Life!NotYetRaw'
  <2>1. /\ client[e] = "start" /\ ~Life!Attached(e)'
        /\ \A c \in Clients : c # e => client'[c] = client[c] /\ object'[c] = object[c]
        /\ UNCHANGED <<backed, built, locked, reopened, account, early, raw>>
    BY <1>7 DEF Life!Open, Life!ClientStep
  <2>2. ~raw[e]
    BY <2>1
  <2> SUFFICES ASSUME NEW c \in Clients, Life!Attached(c)', ~reopened[object'[c]]
               PROVE  Life!Relies(c)'
    BY <2>1, <2>2
  <2>3. c # e /\ Life!Relies(c)
    BY <2>1
  <2>4. Life!Untouched(object[c])' => Life!Untouched(object[c])
    BY <2>1, <2>2, <2>3
  <2> QED
    BY <2>1, <2>3, <2>4
<1>8. ASSUME NEW e \in Clients, Life!Map(e)
      PROVE  Life!OrderIsKept' /\ Life!NotYetRaw'
  <2>1. /\ client[e] = "mapping" /\ client'[e] \in {"prompt", "unmapped"}
        /\ client'[e] = "unmapped" => ~backed[object[e]]
        /\ early'[e] = ~Life!Complete(object[e])
        /\ \A c \in Clients : c # e => client'[c] = client[c] /\ early'[c] = early[c]
        /\ UNCHANGED <<backed, built, locked, reopened, object, account, raw>>
    BY <1>8 DEF Life!Map
  <2> SUFFICES ASSUME NEW c \in Clients, Life!Attached(c)', ~reopened[object[c]]
               PROVE  Life!Relies(c)'
    BY <2>1
  <2>2. CASE c = e
    BY <2>1, <2>2
  <2>3. CASE c # e
    <3>1. Life!Relies(c)
      BY <2>1, <2>3
    <3> QED
      BY <2>1, <2>3, <3>1
  <2> QED
    BY <2>2, <2>3
<1>9. ASSUME NEW e \in Clients, Life!ClientFaults(e)
      PROVE  Life!OrderIsKept' /\ Life!NotYetRaw'
  <2>1. /\ \/ client[e] = "unmapped"
           \/ client[e] \in {"prompt", "inside"} /\ ~backed[object[e]]
        /\ client'[e] = "killed"
        /\ \A c \in Clients : c # e => client'[c] = client[c]
        /\ UNCHANGED <<backed, built, locked, reopened, object, account, early, raw>>
    BY <1>9 DEF Life!ClientFaults
  <2> SUFFICES ASSUME NEW c \in Clients, Life!Attached(c)', ~reopened[object[c]]
               PROVE  Life!Relies(c)'
    BY <2>1
  <2>2. Life!Relies(c)
    BY <2>1
  <2>3. CASE c = e
    BY <2>1, <2>2, <2>3
  <2>4. CASE c # e
    BY <2>1, <2>2, <2>4
  <2> QED
    BY <2>3, <2>4
<1>10. ASSUME NEW e \in Clients, NEW a \in Life!Accounts, Life!Enter(e, a)
       PROVE  Life!OrderIsKept' /\ Life!NotYetRaw'
  <2>1. /\ client[e] = "prompt" /\ client'[e] = "inside" /\ account'[e] = a
        /\ object[e] \in Inits /\ a \notin locked[object[e]]
        /\ locked'[object[e]] = locked[object[e]] \cup {a}
        /\ \A p \in Inits : p # object[e] => locked'[p] = locked[p]
        /\ raw'[e] <=> (raw[e] \/ a \notin built[object[e]])
        /\ \A c \in Clients : c # e =>
             client'[c] = client[c] /\ account'[c] = account[c] /\ raw'[c] = raw[c]
        /\ UNCHANGED <<backed, built, reopened, object, early>>
    BY <1>10 DEF Life!Enter, Life!ClientStep
  <2> SUFFICES ASSUME NEW c \in Clients, Life!Attached(c)', ~reopened[object[c]]
               PROVE  Life!Relies(c)'
    BY <2>1
  <2>2. object[c] \in Inits /\ Life!Relies(c)
    BY <2>1
  <2>3. Life!Untouched(object[c])' => Life!Untouched(object[c])
    BY <2>1
  <2>4. \A d \in Clients : object[d] = object[c] /\ client[d] = "inside"
                           /\ Life!Untouched(object[c]) => account[d] \in locked[object[c]]
    OBVIOUS
  <2>5. CASE c = e
    <3>1. ~early[c] => a \in built[object[c]]
      BY <2>1, <2>2, <2>5
    <3> QED
      BY <2>1, <2>2, <2>3, <2>4, <2>5, <3>1
  <2>6. CASE c # e
    BY <2>1, <2>2, <2>3, <2>4, <2>6
  <2> QED
    BY <2>5, <2>6
<1>11. ASSUME NEW e \in Clients, Life!Leave(e)
       PROVE  Life!OrderIsKept' /\ Life!NotYetRaw'
  <2>1. /\ client[e] = "inside" /\ client'[e] = "prompt" /\ object[e] \in Inits
        /\ locked'[object[e]] = locked[object[e]] \ {account[e]}
        /\ \A p \in Inits : p # object[e] => locked'[p] = locked[p]
        /\ \A c \in Clients : c # e => client'[c] = client[c]
        /\ UNCHANGED <<backed, built, reopened, object, account, early, raw>>
    BY <1>11 DEF Life!Leave, Life!ClientStep
  <2> SUFFICES ASSUME NEW c \in Clients, Life!Attached(c)', ~reopened[object[c]]
               PROVE  Life!Relies(c)'
    BY <2>1
  <2>2. object[c] \in Inits /\ Life!Relies(c)
    BY <2>1
  <2>3. CASE c = e
    BY <2>1, <2>2, <2>3
  <2>4. CASE c # e
    BY <2>1, <2>2, <2>4
  <2> QED
    BY <2>3, <2>4
<1> QED
  BY <1>1, <1>2, <1>3, <1>4, <1>5, <1>6, <1>7, <1>8, <1>9, <1>10, <1>11
  DEF Life!Next, Life!RunInit, Life!RunClient

\* Objects are built in order, and their orderly clients keep what they rely on:
\* the invariant the next theorem rests on.
THEOREM LifeInductive ==
  ProgramsSpec => []Life!LifeInv
<1>1. ProgramsInit => Life!LifeInv
  BY LifeStart DEF ProgramsInit
<1>2. Life!LifeInv /\ [ProgramsNext]_allVars => Life!LifeInv'
  <2>1. [ProgramsNext]_allVars => [Life!Next]_lifeVars
    BY DEF ProgramsNext, allVars, lifeVars
  <2> QED
    BY <2>1, LifeStepKeepsTypes, LifeStepKeepsCreated, LifeStepKeepsBuildOrder,
       LifeStepKeepsOrder
    DEF Life!LifeInv
<1> QED
  BY <1>1, <1>2, PTL DEF ProgramsSpec

\* transparent_bank: clients of a complete bank that is not initialised again
\* are not killed, use constructed accounts only, and take turns unless somebody
\* was too early - however many runs of init, deinit and the client there are.
THEOREM OrderlyClients ==
  ProgramsSpec => []OrderlyClientsAreSafe
<1>1. Life!LifeInv => OrderlyClientsAreSafe
  BY DEF Life!LifeInv, Life!OrderIsKept, Life!Relies, Life!Attached, Life!Together,
         OrderlyClientsAreSafe, Life!OrderlyClientsAreSafe
<1> QED
  BY <1>1, LifeInductive, PTL
-----------------------------------------------------------------------------
(***************************************************************************)
(* The array summary: any number of elements and of threads.               *)
(***************************************************************************)

\* The parts lie one behind the other and within the array; the last one ends
\* where the array does.
LEMMA Parts ==
  ASSUME n \in Nat, m \in Nat, m > 0, NEW k \in Nat, k < m
  PROVE  /\ Sum!PartialSize \in Nat /\ k * Sum!PartialSize \in Nat
         /\ (k + 1) * Sum!PartialSize = k * Sum!PartialSize + Sum!PartialSize
         /\ Sum!End(k) \in Nat
         /\ k * Sum!PartialSize <= Sum!End(k) /\ Sum!End(k) <= n
         /\ Sum!End(k) = IF k + 1 = m THEN n ELSE (k + 1) * Sum!PartialSize
<1> DEFINE P == Sum!PartialSize
<1>1. P \in Nat /\ m * P <= n
  BY DivMod DEF Sum!PartialSize
<1> HIDE DEF P
<1>2. k * P \in Nat /\ (k + 1) * P = k * P + P
  BY <1>1
<1>3. PICK l \in Nat : m = (k + 1) + l
  <2>1. m - (k + 1) \in Nat /\ m = (k + 1) + (m - (k + 1))
    OBVIOUS
  <2> QED
    BY <2>1
<1>4. m * P = (k + 1) * P + l * P /\ l * P \in Nat
  BY <1>1, <1>3
<1>5. (k + 1) * P <= n
  BY <1>1, <1>2, <1>4
<1>6. Sum!End(k) = IF k + 1 = m THEN n ELSE (k + 1) * P
  BY DEF Sum!End, P
<1> QED
  BY <1>1, <1>2, <1>5, <1>6 DEF P

LEMMA SumStart == Sum!Init => Sum!SumInv
<1> SUFFICES ASSUME Sum!Init PROVE Sum!SumInv
  OBVIOUS
<1> USE SummaryAssumption DEF Sum!Init
<1>1. Sum!SumTypes
  BY DEF Sum!SumTypes, Sum!Nothing
<1>2. Sum!PartsAreSummed
  BY DEF Sum!PartsAreSummed
<1>3. Sum!MainKnowsItsPlace
  BY DEF Sum!MainKnowsItsPlace
<1> QED
  BY <1>1, <1>2, <1>3 DEF Sum!SumInv

\* What the next part adds to the elements that are summed up.
LEMMA OnceMore ==
  ASSUME NEW lo \in Nat, NEW mid \in Nat, NEW hi \in Nat, lo <= mid, mid <= hi
  PROVE  /\ [e \in 0 .. MaxN - 1 |-> Sum!Once(lo, mid)[e] + Sum!Once(mid, hi)[e]]
              = Sum!Once(lo, hi)
         /\ Sum!Once(lo, hi) \in [0 .. MaxN - 1 -> Nat]
         /\ Sum!Once(lo, lo) = Sum!Nothing
BY SummaryAssumption DEF Sum!Once, Sum!Nothing

\* What one turn of partial_sum adds to them.
LEMMA OneFurther ==
  ASSUME NEW lo \in Nat, NEW e \in Nat, lo <= e, e < MaxN
  PROVE  [Sum!Once(lo, e) EXCEPT ![e] = @ + 1] = Sum!Once(lo, e + 1)
<1> DEFINE D == 0 .. MaxN - 1
           F == [Sum!Once(lo, e) EXCEPT ![e] = @ + 1]
           G == Sum!Once(lo, e + 1)
<1>1. e \in D /\ MaxN \in Nat
  BY SummaryAssumption
<1>2. F = [x \in D |-> F[x]] /\ G = [x \in D |-> G[x]]
  BY DEF Sum!Once
<1>3. ASSUME NEW x \in D
      PROVE  F[x] = G[x]
  <2>1. CASE x = e
    BY <1>1, <2>1 DEF Sum!Once
  <2>2. CASE x # e
    BY <1>1, <2>2 DEF Sum!Once
  <2> QED
    BY <2>1, <2>2
<1> QED
  BY <1>2, <1>3

LEMMA SumStepCreate ==
  ASSUME Sum!SumInv, Sum!Create
  PROVE  Sum!SumInv'
<1> USE SummaryAssumption DEF Sum!SumInv, Sum!SumTypes, Sum!PartsAreSummed,
                              Sum!MainKnowsItsPlace, Sum!Create
<1>1. /\ i \in Nat /\ i < m /\ i \in Sum!Workers /\ running = 0 .. i - 1
      /\ n \in Nat /\ m \in Nat /\ m > 0
  BY DEF Sum!Workers
<1>2. /\ i * Sum!PartialSize \in Nat /\ Sum!End(i) \in Nat
      /\ i * Sum!PartialSize <= Sum!End(i)
  BY <1>1, Parts
<1>3. /\ Sum!PartialSize' = Sum!PartialSize
      /\ \A w : Sum!End(w)' = Sum!End(w)
  BY DEF Sum!PartialSize, Sum!End
<1>4. /\ upto'[i] = Sum!End(i) /\ at'[i] = i * Sum!PartialSize
      /\ \A w \in Sum!Workers : w # i => upto'[w] = upto[w] /\ at'[w] = at[w]
  BY <1>1
<1>5. running' = 0 .. i /\ result[i] = Sum!Nothing
  BY <1>1
<1>6. Sum!SumTypes'
  BY <1>1, <1>2, <1>5
<1>7. Sum!PartsAreSummed'
  <2>1. result[i] = Sum!Once(i * Sum!PartialSize, at'[i])
    BY <1>2, <1>4, <1>5, OnceMore
  <2>2. ASSUME NEW w \in running, w # i
        PROVE  at'[w] = at[w] /\ upto'[w] = upto[w]
    BY <1>4, <2>2
  <2>3. ASSUME NEW w \in running'
        PROVE  /\ w < m /\ upto'[w] = Sum!End(w)
               /\ w * Sum!PartialSize <= at'[w] /\ at'[w] <= Sum!End(w)
               /\ result[w] = Sum!Once(w * Sum!PartialSize, at'[w])
    <3>1. CASE w = i
      BY <1>1, <1>2, <1>4, <2>1, <3>1
    <3>2. CASE w # i
      <4>1. w \in running
        BY <3>2
      <4> QED
        BY <3>2, <2>2, <4>1
    <3> QED
      BY <3>1, <3>2
  <2> QED
    BY <1>3, <1>5, <2>3
<1>8. Sum!MainKnowsItsPlace'
  <2>1. 0 * Sum!PartialSize = 0
    BY <1>1, Parts
  <2>2. Sum!Nothing = Sum!Once(0, 0 * Sum!PartialSize)
    BY <2>1, OnceMore
  <2>3. CASE i + 1 = m
    BY <1>1, <1>3, <1>5, <2>1, <2>2, <2>3 DEF Sum!Once
  <2>4. CASE i + 1 # m
    BY <1>1, <1>3, <1>5, <2>4
  <2> QED
    BY <2>3, <2>4
<1> QED
  BY <1>6, <1>7, <1>8

LEMMA SumStepAdd ==
  ASSUME Sum!SumInv, NEW w \in Sum!Workers, Sum!Add(w)
  PROVE  Sum!SumInv'
<1> USE DEF Sum!SumInv
<1>1. /\ w \in Nat /\ w < m /\ n \in Nat /\ n <= MaxN /\ m \in Nat /\ m > 0
      /\ at[w] \in Nat /\ upto[w] = Sum!End(w) /\ at[w] < Sum!End(w)
      /\ w * Sum!PartialSize <= at[w]
      /\ result[w] = Sum!Once(w * Sum!PartialSize, at[w])
  BY SummaryAssumption DEF Sum!Add, Sum!SumTypes, Sum!PartsAreSummed, Sum!Workers
<1>2. Sum!End(w) \in Nat /\ Sum!End(w) <= n /\ w * Sum!PartialSize \in Nat
  BY <1>1, Parts
<1>3. at[w] < MaxN /\ at[w] + 1 <= Sum!End(w) /\ w * Sum!PartialSize <= at[w] + 1
  BY <1>1, <1>2, SummaryAssumption
<1>4. /\ UNCHANGED <<n, m, main, i, upto, running, total>>
      /\ at' = [at EXCEPT ![w] = @ + 1]
      /\ result' = [result EXCEPT ![w] = [result[w] EXCEPT ![at[w]] = @ + 1]]
  BY DEF Sum!Add, Sum!SumTypes
<1>5. /\ at'[w] = at[w] + 1
      /\ result'[w] = Sum!Once(w * Sum!PartialSize, at[w] + 1)
      /\ \A v \in Sum!Workers : v # w => at'[v] = at[v] /\ result'[v] = result[v]
  BY <1>1, <1>2, <1>3, <1>4, OneFurther DEF Sum!SumTypes
<1>6. /\ Sum!PartialSize' = Sum!PartialSize
      /\ \A v : Sum!End(v)' = Sum!End(v)
  BY <1>4 DEF Sum!PartialSize, Sum!End
<1>7. Sum!SumTypes'
  <2>1. Sum!Once(w * Sum!PartialSize, at[w] + 1) \in [0 .. MaxN - 1 -> Nat]
    BY DEF Sum!Once
  <2>2. result' \in [Sum!Workers -> [0 .. MaxN - 1 -> Nat]]
    <3> HIDE DEF Sum!SumInv
    <3>1. result'[w] \in [0 .. MaxN - 1 -> Nat]
      BY <1>5, <2>1
    <3>2. \A v \in Sum!Workers : result'[v] \in [0 .. MaxN - 1 -> Nat]
      BY <1>5, <3>1 DEF Sum!SumInv, Sum!SumTypes
    <3>3. result' = [v \in Sum!Workers |-> result'[v]]
      BY <1>4 DEF Sum!SumInv, Sum!SumTypes
    <3> QED
      BY <3>2, <3>3
  <2>3. at' \in [Sum!Workers -> Nat]
    BY <1>1, <1>4 DEF Sum!SumTypes
  <2> QED
    BY <1>4, <2>2, <2>3 DEF Sum!SumTypes
<1>8. Sum!PartsAreSummed'
  <2>1. ASSUME NEW v \in running
        PROVE  /\ v < m /\ upto[v] = Sum!End(v)
               /\ v * Sum!PartialSize <= at'[v] /\ at'[v] <= Sum!End(v)
               /\ result'[v] = Sum!Once(v * Sum!PartialSize, at'[v])
    <3>1. CASE v = w
      BY <1>1, <1>3, <1>5, <3>1
    <3>2. CASE v # w
      BY <1>5, <3>2 DEF Sum!SumTypes, Sum!PartsAreSummed
    <3> QED
      BY <3>1, <3>2
  <2>2. ASSUME NEW v \in Sum!Workers \ running
        PROVE  result'[v] = Sum!Nothing
    BY <1>5, <2>2 DEF Sum!PartsAreSummed, Sum!Add
  <2> QED
    BY <1>4, <1>6, <2>1, <2>2 DEF Sum!PartsAreSummed
<1>9. Sum!MainKnowsItsPlace'
  BY <1>4, <1>6 DEF Sum!MainKnowsItsPlace
<1> QED
  BY <1>7, <1>8, <1>9

LEMMA SumStepJoin ==
  ASSUME Sum!SumInv, Sum!Join
  PROVE  Sum!SumInv'
<1> USE DEF Sum!SumInv
<1>1. /\ i \in Nat /\ i < m /\ i \in Sum!Workers /\ i \in running
      /\ n \in Nat /\ n <= MaxN /\ m \in Nat /\ m > 0
  BY SummaryAssumption DEF Sum!Join, Sum!SumTypes, Sum!MainKnowsItsPlace, Sum!Workers
<1>2. /\ i * Sum!PartialSize \in Nat /\ Sum!End(i) \in Nat
      /\ i * Sum!PartialSize <= Sum!End(i)
      /\ Sum!End(i) = IF i + 1 = m THEN n ELSE (i + 1) * Sum!PartialSize
  BY <1>1, Parts
<1>3. UNCHANGED <<n, m, upto, at, running, result>>
  BY DEF Sum!Join
<1>4. /\ Sum!PartialSize' = Sum!PartialSize
      /\ \A v : Sum!End(v)' = Sum!End(v)
  BY <1>3 DEF Sum!PartialSize, Sum!End
<1>5. /\ result[i] = Sum!Once(i * Sum!PartialSize, Sum!End(i))
      /\ total = Sum!Once(0, i * Sum!PartialSize)
  <2>1. at[i] = Sum!End(i)
    BY <1>1, <1>2 DEF Sum!Join, Sum!SumTypes, Sum!PartsAreSummed
  <2> QED
    BY <1>1, <2>1 DEF Sum!Join, Sum!PartsAreSummed, Sum!MainKnowsItsPlace
<1>6. total' = Sum!Once(0, Sum!End(i))
  <2>1. total' = [e \in 0 .. MaxN - 1 |-> total[e] + result[i][e]]
    BY DEF Sum!Join, Sum!SumTypes
  <2>2. total' = [e \in 0 .. MaxN - 1 |->
                     Sum!Once(0, i * Sum!PartialSize)[e]
                       + Sum!Once(i * Sum!PartialSize, Sum!End(i))[e]]
    BY <1>5, <2>1
  <2> DEFINE mid == i * Sum!PartialSize
             hi  == Sum!End(i)
  <2>3. 0 \in Nat /\ mid \in Nat /\ hi \in Nat /\ 0 <= mid /\ mid <= hi
    BY <1>2
  <2> HIDE DEF mid, hi
  <2>4. [e \in 0 .. MaxN - 1 |-> Sum!Once(0, mid)[e] + Sum!Once(mid, hi)[e]]
          = Sum!Once(0, hi)
    BY <2>3, OnceMore
  <2> QED
    BY <2>2, <2>4 DEF mid, hi
<1>7. Sum!SumTypes'
  <2>1. total' \in [0 .. MaxN - 1 -> Nat]
    BY <1>6 DEF Sum!Once
  <2>2. i' \in Nat /\ main' \in {"join", "printed"}
    BY <1>1 DEF Sum!Join
  <2> QED
    BY <1>3, <2>1, <2>2 DEF Sum!SumTypes
<1>8. Sum!PartsAreSummed'
  BY <1>3, <1>4 DEF Sum!PartsAreSummed
<1>9. Sum!MainKnowsItsPlace'
  <2>1. running = 0 .. m - 1
    BY DEF Sum!Join, Sum!MainKnowsItsPlace
  <2>2. CASE i + 1 = m
    <3>1. main' = "printed" /\ total' = Sum!Once(0, n)
      BY <1>2, <1>6, <2>2 DEF Sum!Join
    <3> QED
      BY <1>3, <3>1 DEF Sum!MainKnowsItsPlace
  <2>3. CASE i + 1 # m
    <3>1. /\ main' = "join" /\ i' = i + 1 /\ i' < m
          /\ total' = Sum!Once(0, i' * Sum!PartialSize)
      BY <1>1, <1>2, <1>6, <2>3 DEF Sum!Join
    <3> QED
      BY <1>3, <1>4, <2>1, <3>1 DEF Sum!MainKnowsItsPlace
  <2> QED
    BY <2>2, <2>3
<1> QED
  BY <1>7, <1>8, <1>9

\* Every thread has added its part as far as it has come, and main the parts of
\* those it has joined: the invariant the next theorem rests on.
THEOREM SumInductive ==
  ProgramsSpec => []Sum!SumInv
<1>1. ProgramsInit => Sum!SumInv
  BY SumStart DEF ProgramsInit
<1>2. Sum!SumInv /\ [ProgramsNext]_allVars => Sum!SumInv'
  <2> SUFFICES ASSUME Sum!SumInv, [ProgramsNext]_allVars PROVE Sum!SumInv'
    OBVIOUS
  <2>1. Sum!Next \/ UNCHANGED sumVars
    BY DEF ProgramsNext, allVars, sumVars
  <2>2. CASE Sum!Divide
    <3>1. n' = n /\ m' = m /\ m \in Nat
      BY <2>2, SummaryAssumption DEF Sum!Divide, Sum!SumInv, Sum!SumTypes
    <3>2. m # 0 => 0 < m
      BY <3>1
    <3> QED
      BY <2>2, <3>1, <3>2
      DEF Sum!Divide, Sum!SumInv, Sum!SumTypes, Sum!PartsAreSummed,
          Sum!MainKnowsItsPlace, Sum!End, Sum!PartialSize
  <2>3. CASE UNCHANGED sumVars
    BY <2>3
    DEF sumVars, Sum!SumInv, Sum!SumTypes, Sum!PartsAreSummed,
        Sum!MainKnowsItsPlace, Sum!End, Sum!PartialSize
  <2> QED
    BY <2>1, <2>2, <2>3, SumStepCreate, SumStepAdd, SumStepJoin DEF Sum!Next
<1> QED
  BY <1>1, <1>2, PTL DEF ProgramsSpec

\* TH-1: however the array's length and the number of threads relate, the sum
\* that is printed has every element in it, and none of them twice.
THEOREM EveryElementOnce ==
  ProgramsSpec => []SummedOnce
<1>1. Sum!SumInv => SummedOnce
  <2> SUFFICES ASSUME Sum!SumInv, main = "printed"
               PROVE  total = [e \in 0 .. MaxN - 1 |-> IF e < n THEN 1 ELSE 0]
    BY DEF SummedOnce, Sum!SummedOnce
  <2>1. total = Sum!Once(0, n)
    BY DEF Sum!SumInv, Sum!MainKnowsItsPlace
  <2> QED
    BY <2>1, SummaryAssumption DEF Sum!Once
<1> QED
  BY <1>1, SumInductive, PTL
-----------------------------------------------------------------------------
(***************************************************************************)
(* The chat server: any number of chatters.                                *)
(***************************************************************************)

LEMMA ChatStart == Chat!Init => Chat!ChatInv
<1> SUFFICES ASSUME Chat!Init PROVE Chat!ChatInv
  OBVIOUS
<1> USE DEF Chat!Init
<1>1. Chat!ChatTypes
  BY DEF Chat!ChatTypes
<1>2. Chat!ThreadsAreListed /\ Chat!ListIsOwned /\ Chat!SendersStay
  BY DEF Chat!ThreadsAreListed, Chat!ListIsOwned, Chat!SendersStay
<1>3. Chat!NewsIsOfSenders /\ Chat!LateIsStuck
  BY DEF Chat!NewsIsOfSenders, Chat!LateIsStuck
<1> QED
  BY <1>1, <1>2, <1>3 DEF Chat!ChatInv

\* Who is on the list stays at its place.
LEMMA ListGrows ==
  ASSUME listed \in Seq(Chatters), newcomer \in Chatters,
         listed' = Append(listed, newcomer)
  PROVE  /\ listed' \in Seq(Chatters)
         /\ \A k \in DOMAIN listed : k \in DOMAIN listed' /\ listed'[k] = listed[k]
         /\ \E k \in DOMAIN listed' : listed'[k] = newcomer
OBVIOUS

\* The steps that leave the list alone and start or end no broadcast.
LEMMA ChatStepOfMain ==
  ASSUME Chat!ChatInv,
         \/ \E c \in Chatters : Chat!Accept(c)
         \/ Chat!AcceptFails \/ Chat!MainLock \/ Chat!PushBack \/ Chat!MainUnlock
         \/ Chat!CreateThread
  PROVE  Chat!ChatInv'
<1> USE ChatAssumption
        DEF Chat!ChatInv, Chat!ChatTypes, Chat!ThreadsAreListed, Chat!ListIsOwned,
            Chat!SendersStay, Chat!NewsIsOfSenders, Chat!LateIsStuck, Chat!OnList,
            Chat!Before, Chat!Broadcasting, Chat!Nobody, Chat!Main
<1>1. ASSUME NEW c \in Chatters, Chat!Accept(c)
      PROVE  Chat!ChatInv'
  BY <1>1 DEF Chat!Accept
<1>2. CASE Chat!AcceptFails
  BY <1>2 DEF Chat!AcceptFails
<1>3. CASE Chat!MainLock
  BY <1>3 DEF Chat!MainLock
<1>4. CASE Chat!PushBack
  BY <1>4, ListGrows DEF Chat!PushBack
<1>5. CASE Chat!MainUnlock
  BY <1>5 DEF Chat!MainUnlock
<1>6. CASE Chat!CreateThread
  BY <1>6 DEF Chat!CreateThread
<1> QED
  BY <1>1, <1>2, <1>3, <1>4, <1>5, <1>6

LEMMA ChatStepOfThread ==
  ASSUME Chat!ChatInv, NEW c \in Chatters, Chat!SendLock(c) \/ Chat!Send(c)
  PROVE  Chat!ChatInv'
<1> USE ChatAssumption
        DEF Chat!ChatInv, Chat!ChatTypes, Chat!ThreadsAreListed, Chat!ListIsOwned,
            Chat!SendersStay, Chat!NewsIsOfSenders, Chat!LateIsStuck, Chat!OnList,
            Chat!Before, Chat!Broadcasting, Chat!Nobody, Chat!Main
<1>1. CASE Chat!SendLock(c)
  <2>1. /\ thread[c] = "joining" /\ thread'[c] = "sending"
        /\ \A d \in Chatters : d # c => thread'[d] = thread[d] /\ thread[d] # "sending"
        /\ listOwner = "nobody" /\ listOwner' = c
        /\ UNCHANGED <<accepter, newcomer, listed, entry, mail, heard, late>>
    BY <1>1 DEF Chat!SendLock
  <2>2. PICK k \in DOMAIN listed : listed[k] = c
    BY <2>1
  <2>3. k \in DOMAIN listed /\ entry[c] = 1 /\ entry[c] <= k
    BY <2>1, <2>2
  <2>4. Chat!ThreadsAreListed' /\ Chat!ListIsOwned'
    BY <2>1, <2>2
  <2>5. Chat!SendersStay'
    BY <2>1, <2>2, <2>3
  <2>6. Chat!ChatTypes' /\ Chat!NewsIsOfSenders' /\ Chat!LateIsStuck'
    BY <1>1, <2>1 DEF Chat!SendLock
  <2> QED
    BY <2>4, <2>5, <2>6
<1>2. CASE Chat!Send(c)
  <2>1. PICK k \in DOMAIN listed : listed[k] = c /\ entry[c] <= k
    BY <1>2 DEF Chat!Send
  <2>2. /\ entry[c] \in DOMAIN listed /\ entry[c] # k /\ listed[entry[c]] # c
        /\ mail' = [mail EXCEPT ![listed[entry[c]]] = @ \cup {c}]
        /\ entry' = [entry EXCEPT ![c] = @ + 1]
        /\ UNCHANGED <<listOwner, thread, accepter, newcomer, listed, heard, late>>
    BY <1>2, <2>1 DEF Chat!Send
  <2> DEFINE to == listed[entry[c]]
  <2>3. /\ to \in Chatters /\ mail'[to] = mail[to] \cup {c}
        /\ \A d \in Chatters : d # to => mail'[d] = mail[d]
        /\ entry'[c] = entry[c] + 1 /\ entry'[c] <= k
        /\ \A d \in Chatters : d # c => entry'[d] = entry[d]
        /\ thread[c] = "sending"
    BY <1>2, <2>1, <2>2 DEF Chat!Send
  <2>4. Chat!ChatTypes'
    BY <2>2, <2>3
  <2>5. Chat!ThreadsAreListed' /\ Chat!ListIsOwned' /\ Chat!LateIsStuck'
    BY <2>2
  <2>6. Chat!SendersStay'
    BY <2>1, <2>2, <2>3
  <2>7. Chat!Before(to, c)
    BY <2>1, <2>2
  <2>8. Chat!NewsIsOfSenders'
    <3> HIDE DEF to
    <3> SUFFICES ASSUME NEW d \in Chatters, NEW e \in heard[d] \cup mail'[d]
                 PROVE  Chat!Before(d, e) /\ (accepter # "failed" => thread[e] = "sending")
      BY <2>2
    <3>1. CASE d = to /\ e = c
      BY <2>3, <2>7, <3>1
    <3>2. CASE e \in heard[d] \cup mail[d]
      BY <3>2
    <3> QED
      BY <2>3, <3>1, <3>2
  <2> QED
    BY <2>4, <2>5, <2>6, <2>8
<1> QED
  BY <1>1, <1>2

LEMMA ChatStepOfChatter ==
  ASSUME Chat!ChatInv, NEW c \in Chatters,
         Chat!Connect(c) \/ Chat!Hear(c) \/ Chat!Leave(c)
  PROVE  Chat!ChatInv'
<1> USE DEF Chat!ChatInv, Chat!ChatTypes, Chat!ThreadsAreListed, Chat!ListIsOwned,
            Chat!SendersStay, Chat!NewsIsOfSenders, Chat!LateIsStuck, Chat!OnList,
            Chat!Before, Chat!Broadcasting
<1>1. CASE Chat!Connect(c) \/ Chat!Leave(c)
  BY <1>1 DEF Chat!Connect, Chat!Leave
<1>2. CASE Chat!Hear(c)
  BY <1>2 DEF Chat!Hear
<1> QED
  BY <1>1, <1>2

\* Senders stay in front of their own entries, with the mutex: the invariant the
\* next theorem rests on.
THEOREM ChatInductive ==
  ProgramsSpec => []Chat!ChatInv
<1>1. ProgramsInit => Chat!ChatInv
  BY ChatStart DEF ProgramsInit
<1>2. Chat!ChatInv /\ [ProgramsNext]_allVars => Chat!ChatInv'
  <2> SUFFICES ASSUME Chat!ChatInv, [ProgramsNext]_allVars PROVE Chat!ChatInv'
    OBVIOUS
  <2>1. Chat!Next \/ UNCHANGED chatVars
    BY DEF ProgramsNext, allVars, chatVars
  <2>2. CASE UNCHANGED chatVars
    BY <2>2
    DEF chatVars, Chat!ChatInv, Chat!ChatTypes, Chat!ThreadsAreListed,
        Chat!ListIsOwned, Chat!SendersStay, Chat!NewsIsOfSenders, Chat!LateIsStuck,
        Chat!OnList, Chat!Before, Chat!Broadcasting
  <2> QED
    BY <2>1, <2>2, ChatStepOfMain, ChatStepOfThread, ChatStepOfChatter
    DEF Chat!Next, Chat!Server
<1> QED
  BY <1>1, <1>2, PTL DEF ProgramsSpec

\* chat_on_sockets: however many chatters come, no thread ever receives, one
\* chatter at most is accepted after a broadcast has begun, and nobody hears
\* anything but that the one sender joined, who stands behind him on the list.
THEOREM NothingAfterTheFirstBroadcast ==
  ProgramsSpec => []FirstBroadcastIsTheLast
<1>1. Chat!ChatInv => FirstBroadcastIsTheLast
  <2> SUFFICES ASSUME Chat!ChatInv PROVE FirstBroadcastIsTheLast
    OBVIOUS
  <2>1. \A c \in Chatters : thread[c] # "receiving"
    BY DEF Chat!ChatInv, Chat!ChatTypes
  <2>2. \A c, d \in late : c = d
    BY DEF Chat!ChatInv, Chat!LateIsStuck
  <2>3. \A c, d \in Chatters : thread[c] = "sending" /\ thread[d] = "sending" => c = d
    BY DEF Chat!ChatInv, Chat!ListIsOwned
  <2> QED
    BY <2>1, <2>2, <2>3
    DEF Chat!ChatInv, Chat!NewsIsOfSenders, FirstBroadcastIsTheLast,
        Chat!FirstBroadcastIsTheLast
<1> QED
  BY <1>1, ChatInductive, PTL

(***************************************************************************)
(* The printing server.                                                    *)
(***************************************************************************)

LEMMA TalkStart == Talk!Init => Talk!TalkInv
<1> SUFFICES ASSUME Talk!Init PROVE Talk!TalkInv
  OBVIOUS
<1> USE DEF Talk!Init
<1>1. Talk!TalkTypes /\ Talk!Greeting /\ Talk!OneAtATime
  BY DEF Talk!TalkTypes, Talk!Greeting, Talk!OneAtATime
<1>2. \A t \in Talkers : Talk!Bodies(t) = {} /\ Talk!Printed(t) = {}
  BY DEF Talk!Bodies, Talk!Printed, Talk!PrintedBefore
<1>3. ASSUME NEW t \in Talkers
      PROVE  /\ 0 \in 0 .. sent[t] /\ Talk!Printed(t) = 1 .. 0
             /\ Talk!Pending(t) = Talk!Units(0, 0) /\ stream[t] = Talk!Units(0, sent[t])
  BY <1>2 DEF Talk!Pending, Talk!Units
<1>4. \A t \in Talkers : Talk!NothingOvertakes(t) /\ Talk!EndIsLast(t)
  BY <1>3 DEF Talk!NothingOvertakes, Talk!EndIsLast
<1> QED
  BY <1>1, <1>2, <1>4 DEF Talk!TalkInv

\* Units is a sequence of numbers that can be cut and goes on.
LEMMA UnitsAreCut ==
  ASSUME NEW a \in Nat, NEW b \in Nat, a <= b
  PROVE  /\ Talk!Units(a, b) \in Seq(Nat) /\ Len(Talk!Units(a, b)) = b - a
         /\ {Talk!Units(a, b)[j] : j \in DOMAIN Talk!Units(a, b)} = a + 1 .. b
         /\ Append(Talk!Units(a, b), b + 1) = Talk!Units(a, b + 1)
         /\ \A c \in 1 .. b - a :
              /\ SubSeq(Talk!Units(a, b), 1, c) = Talk!Units(a, a + c)
              /\ SubSeq(Talk!Units(a, b), c + 1, b - a) = Talk!Units(a + c, b)
         /\ Talk!Units(a, b) = << >> => a = b
<1> DEFINE u == Talk!Units(a, b)
<1>1. /\ u \in Seq(Nat) /\ Len(u) = b - a /\ DOMAIN u = 1 .. b - a
      /\ \A j \in 1 .. b - a : u[j] = a + j
  BY DEF Talk!Units
<1>2. {u[j] : j \in DOMAIN u} = a + 1 .. b
  <2>1. \A x \in a + 1 .. b : x - a \in 1 .. b - a /\ u[x - a] = x
    BY <1>1
  <2> HIDE DEF u
  <2> QED
    BY <1>1, <2>1
<1>3. Append(u, b + 1) = Talk!Units(a, b + 1)
  BY DEF Talk!Units
<1>4. ASSUME NEW c \in 1 .. b - a
      PROVE  /\ SubSeq(u, 1, c) = Talk!Units(a, a + c)
             /\ SubSeq(u, c + 1, b - a) = Talk!Units(a + c, b)
  BY DEF Talk!Units
<1>5. u = << >> => a = b
  BY <1>1
<1> QED
  BY <1>1, <1>2, <1>3, <1>4, <1>5

\* What an insertion changes: nothing of what stands in front of it.
LEMMA Insertion ==
  ASSUME Talk!TalkTypes, NEW what, NEW who \in Talkers, NEW units \in Seq(Nat),
         what \in {"connected", "from", "body", "disconnected"},
         Talk!Insert(what, who, units)
  PROVE  /\ out' \in Seq(Talk!Insertions) /\ Len(out') = Len(out) + 1
         /\ \A k \in DOMAIN out : k \in DOMAIN out' /\ out'[k] = out[k]
         /\ out'[Len(out) + 1] = [what |-> what, who |-> who, data |-> units]
BY DEF Talk!TalkTypes, Talk!Insert, Talk!Insertions

LEMMA BodiesAfterInsertion ==
  ASSUME Talk!TalkTypes, NEW what, NEW who \in Talkers, NEW units \in Seq(Nat),
         what \in {"connected", "from", "body", "disconnected"},
         Talk!Insert(what, who, units), NEW t \in Talkers
  PROVE  /\ Talk!Bodies(t)' = Talk!Bodies(t)
                                \cup (IF what = "body" /\ who = t THEN {Len(out) + 1} ELSE {})
         /\ \A k \in 1 .. Len(out) + 1 :
              Talk!PrintedBefore(t, k)' = Talk!PrintedBefore(t, k)
         /\ Talk!Printed(t)' =
              Talk!Printed(t)
                \cup (IF what = "body" /\ who = t THEN {units[j] : j \in DOMAIN units} ELSE {})
<1>1. /\ out' \in Seq(Talk!Insertions) /\ Len(out') = Len(out) + 1
      /\ \A k \in DOMAIN out : k \in DOMAIN out' /\ out'[k] = out[k]
      /\ out'[Len(out) + 1] = [what |-> what, who |-> who, data |-> units]
      /\ out \in Seq(Talk!Insertions)
  BY Insertion DEF Talk!TalkTypes
<1>2. DOMAIN out = 1 .. Len(out) /\ DOMAIN out' = 1 .. Len(out) + 1 /\ Len(out) \in Nat
  BY <1>1
<1>3. Talk!Bodies(t)' = Talk!Bodies(t)
                          \cup (IF what = "body" /\ who = t THEN {Len(out) + 1} ELSE {})
  BY <1>1, <1>2 DEF Talk!Bodies
<1>4. ASSUME NEW k \in 1 .. Len(out) + 1
      PROVE  Talk!PrintedBefore(t, k)' = Talk!PrintedBefore(t, k)
  <2>1. {b \in Talk!Bodies(t) : b < k}' = {b \in Talk!Bodies(t) : b < k}
    BY <1>2, <1>3
  <2>2. \A b \in Talk!Bodies(t) : out'[b] = out[b]
    BY <1>1 DEF Talk!Bodies
  <2> QED
    BY <2>1, <2>2 DEF Talk!PrintedBefore
<1>5. Talk!Printed(t)' = Talk!Printed(t)
        \cup (IF what = "body" /\ who = t THEN {units[j] : j \in DOMAIN units} ELSE {})
  <2>1. /\ {b \in Talk!Bodies(t)' : b < Len(out') + 1} = Talk!Bodies(t)'
        /\ {b \in Talk!Bodies(t) : b < Len(out) + 1} = Talk!Bodies(t)
    BY <1>1, <1>2, <1>3 DEF Talk!Bodies
  <2>2. \A b \in Talk!Bodies(t) : out'[b] = out[b]
    BY <1>1 DEF Talk!Bodies
  <2>3. Talk!Printed(t)' =
          UNION {{out'[b].data[j] : j \in DOMAIN out'[b].data} : b \in Talk!Bodies(t)'}
    BY <2>1 DEF Talk!Printed, Talk!PrintedBefore
  <2>4. Talk!Printed(t) =
          UNION {{out[b].data[j] : j \in DOMAIN out[b].data} : b \in Talk!Bodies(t)}
    BY <2>1 DEF Talk!Printed, Talk!PrintedBefore
  <2>5. out'[Len(out) + 1].data = units
    BY <1>1
  <2>6. CASE what = "body" /\ who = t
    <3>1. Talk!Bodies(t)' = Talk!Bodies(t) \cup {Len(out) + 1}
      BY <1>3, <2>6
    <3> HIDE DEF Talk!Bodies
    <3> QED
      BY <2>2, <2>3, <2>4, <2>5, <2>6, <3>1
  <2>7. CASE ~(what = "body" /\ who = t)
    <3>1. Talk!Bodies(t)' = Talk!Bodies(t)
      BY <1>3, <2>7
    <3> QED
      BY <2>2, <2>3, <2>4, <2>7, <3>1
  <2> QED
    BY <2>6, <2>7
<1> QED
  BY <1>3, <1>4, <1>5

\* What stands under its header stays there.
LEMMA HeadersAfterInsertion ==
  ASSUME Talk!TalkTypes, NEW what, NEW who \in Talkers, NEW units \in Seq(Nat),
         what \in {"connected", "from", "body", "disconnected"},
         Talk!Insert(what, who, units), NEW t \in Talkers
  PROVE  /\ \A k \in 1 .. Len(out) + 1 :
              Talk!UnderItsHeader(t, k) => Talk!UnderItsHeader(t, k)'
         /\ what \in {"connected", "disconnected"} /\ Talk!UnderItsHeader(t, Len(out) + 1)
              => Talk!UnderItsHeader(t, Len(out) + 1)'
         /\ what = "from" /\ who = t => Talk!UnderItsHeader(t, Len(out) + 1)'
<1>1. /\ out' \in Seq(Talk!Insertions) /\ Len(out') = Len(out) + 1
      /\ \A k \in DOMAIN out : k \in DOMAIN out' /\ out'[k] = out[k]
      /\ out'[Len(out) + 1] = [what |-> what, who |-> who, data |-> units]
      /\ out \in Seq(Talk!Insertions)
  BY Insertion DEF Talk!TalkTypes
<1>2. /\ Len(out) \in Nat /\ Len(out') = Len(out) + 1
      /\ \A k \in 1 .. Len(out) : out'[k] = out[k]
      /\ out'[Len(out) + 1].what = what /\ out'[Len(out) + 1].who = who
  BY <1>1
<1>3. ASSUME NEW k \in 1 .. Len(out) + 1, Talk!UnderItsHeader(t, k)
      PROVE  Talk!UnderItsHeader(t, k)'
  <2>1. PICK h \in 1 .. k - 1 :
          /\ out[h].what = "from" /\ out[h].who = t
          /\ \A j \in h + 1 .. k - 1 : out[j].what \in {"connected", "disconnected"}
    BY <1>3 DEF Talk!UnderItsHeader
  <2>2. \A j \in 1 .. k - 1 : out'[j] = out[j]
    BY <1>2
  <2>3. /\ out'[h].what = "from" /\ out'[h].who = t
        /\ \A j \in h + 1 .. k - 1 : out'[j].what \in {"connected", "disconnected"}
    BY <2>1, <2>2
  <2> QED
    BY <2>1, <2>3 DEF Talk!UnderItsHeader
<1>4. ASSUME what \in {"connected", "disconnected"}, Talk!UnderItsHeader(t, Len(out) + 1)
      PROVE  Talk!UnderItsHeader(t, Len(out) + 1)'
  <2>1. PICK h \in 1 .. Len(out) :
          /\ out[h].what = "from" /\ out[h].who = t
          /\ \A j \in h + 1 .. Len(out) : out[j].what \in {"connected", "disconnected"}
    BY <1>2, <1>4 DEF Talk!UnderItsHeader
  <2>2. \A j \in h + 1 .. Len(out) + 1 : j \in h + 1 .. Len(out) \/ j = Len(out) + 1
    BY <1>2, <2>1
  <2>3. \A j \in h + 1 .. Len(out) : out'[j] = out[j]
    BY <1>2, <2>1
  <2>4. /\ out'[h].what = "from" /\ out'[h].who = t
        /\ \A j \in h + 1 .. Len(out) + 1 : out'[j].what \in {"connected", "disconnected"}
    BY <1>2, <1>4, <2>1, <2>2, <2>3
  <2>5. (Len(out) + 1) + 1 - 1 = Len(out) + 1 /\ h \in 1 .. Len(out) + 1
    BY <1>2
  <2> QED
    BY <1>2, <2>4, <2>5 DEF Talk!UnderItsHeader
<1>5. ASSUME what = "from", who = t
      PROVE  Talk!UnderItsHeader(t, Len(out) + 1)'
  <2>1. /\ (Len(out) + 1) + 1 - 1 = Len(out) + 1 /\ Len(out) + 1 \in 1 .. Len(out) + 1
        /\ (Len(out) + 1) + 1 .. Len(out) + 1 = {}
    BY <1>2
  <2> QED
    BY <1>2, <1>5, <2>1 DEF Talk!UnderItsHeader
<1> QED
  BY <1>3, <1>4, <1>5

LEMMA NothingInserted ==
  ASSUME UNCHANGED out
  PROVE  \A t \in Talkers :
           /\ Talk!Bodies(t)' = Talk!Bodies(t) /\ Talk!Printed(t)' = Talk!Printed(t)
           /\ \A k \in Nat : /\ Talk!PrintedBefore(t, k)' = Talk!PrintedBefore(t, k)
                             /\ Talk!UnderItsHeader(t, k)' = Talk!UnderItsHeader(t, k)
BY DEF Talk!Bodies, Talk!Printed, Talk!PrintedBefore, Talk!UnderItsHeader

\* What is printed stays as it is when nothing is inserted and nothing sent is
\* taken back.
LEMMA BodiesStay ==
  ASSUME Talk!TalkInv, Talk!TalkTypes', UNCHANGED out,
         \A t \in Talkers : sent[t] <= sent'[t]
  PROVE  /\ \A t \in Talkers :
              \A k \in Talk!Bodies(t)' : Talk!UnderItsHeader(t, k)' /\ Talk!Continues(t, k)'
         /\ \A t \in Talkers :
              Talk!UnderItsHeader(t, Len(out) + 1)' = Talk!UnderItsHeader(t, Len(out) + 1)
<1>1. ASSUME NEW t \in Talkers, NEW k \in Talk!Bodies(t)'
      PROVE  Talk!UnderItsHeader(t, k)' /\ Talk!Continues(t, k)'
  <2>1. k \in Talk!Bodies(t) /\ k \in Nat
    BY NothingInserted DEF Talk!Bodies, Talk!TalkInv, Talk!TalkTypes
  <2>2. Talk!UnderItsHeader(t, k) /\ Talk!Continues(t, k)
    BY <2>1 DEF Talk!TalkInv
  <2>3. PICK a \in 0 .. sent[t] :
          /\ Talk!PrintedBefore(t, k) = 1 .. a
          /\ out[k].data = Talk!Units(a, a + Len(out[k].data))
    BY <2>2 DEF Talk!Continues
  <2>4. a \in 0 .. sent'[t]
    BY <2>3 DEF Talk!TalkInv, Talk!TalkTypes
  <2>5. Talk!Continues(t, k)'
    BY <2>1, <2>3, <2>4, NothingInserted DEF Talk!Continues, Talk!Units
  <2> QED
    BY <2>1, <2>2, <2>5, NothingInserted
<1>2. Len(out) + 1 \in Nat
  BY DEF Talk!TalkInv, Talk!TalkTypes
<1> QED
  BY <1>1, <1>2, NothingInserted

\* What there is of a talker whose row of the state no step has touched.
LEMMA OthersStay ==
  ASSUME Talk!TalkInv, NEW t \in Talkers,
         UNCHANGED <<sent[t], stream[t], buffer[t], talker[t]>>,
         greeter' # "failed" => greeter # "failed" /\ UNCHANGED printer[t],
         UNCHANGED printer[t] \/ printer'[t] = "none",
         Talk!Printed(t)' = Talk!Printed(t)
  PROVE  Talk!NothingOvertakes(t)' /\ Talk!EndIsLast(t)'
<1>1. PICK a \in 0 .. sent[t] :
        /\ Talk!Printed(t) = 1 .. a
        /\ greeter # "failed" =>
             \E b \in a .. sent[t] :
               Talk!Pending(t) = Talk!Units(a, b) /\ stream[t] = Talk!Units(b, sent[t])
  BY DEF Talk!TalkInv, Talk!NothingOvertakes
<1>2. greeter' # "failed" => greeter # "failed" /\ Talk!Pending(t)' = Talk!Pending(t)
  BY DEF Talk!Pending
<1>3. Talk!NothingOvertakes(t)'
  BY <1>1, <1>2 DEF Talk!NothingOvertakes, Talk!Units
<1> QED
  BY <1>3 DEF Talk!TalkInv, Talk!EndIsLast

\* The steps of the talkers' programs.
LEMMA TalkStepOfTalker ==
  ASSUME Talk!TalkInv, NEW t \in Talkers,
         Talk!Connect(t) \/ Talk!Send(t) \/ Talk!Close(t)
  PROVE  Talk!TalkInv'
<1>1. /\ Talk!TalkTypes /\ Talk!Greeting /\ Talk!OneAtATime
      /\ \A u \in Talkers : Talk!NothingOvertakes(u) /\ Talk!EndIsLast(u)
  BY DEF Talk!TalkInv
<1>2. /\ UNCHANGED <<greeter, greeted, printer, buffer, printOwner, out>>
      /\ \A u \in Talkers : u # t => UNCHANGED <<talker[u], sent[u], stream[u]>>
      /\ sent[t] \in Nat /\ sent'[t] \in {sent[t], sent[t] + 1} /\ Talk!TalkTypes'
  <2>1. CASE Talk!Connect(t) \/ Talk!Close(t)
    BY <1>1, <2>1 DEF Talk!Connect, Talk!Close, Talk!TalkTypes
  <2>2. CASE Talk!Send(t)
    <3>1. /\ sent'[t] = sent[t] + 1 /\ sent[t] + 1 \in Nat
          /\ stream'[t] = Append(stream[t], sent[t] + 1)
          /\ \A u \in Talkers : u # t => UNCHANGED <<sent[u], stream[u]>>
          /\ UNCHANGED <<talker, greeter, greeted, printer, buffer, printOwner, out>>
      BY <1>1, <2>2 DEF Talk!Send, Talk!TalkTypes
    <3>2. stream[t] \in Seq(Nat) /\ Append(stream[t], sent[t] + 1) \in Seq(Nat)
      BY <1>1, <3>1 DEF Talk!TalkTypes
    <3>3. sent' \in [Talkers -> Nat] /\ stream' \in [Talkers -> Seq(Nat)]
      BY <1>1, <2>2, <3>1, <3>2 DEF Talk!Send, Talk!TalkTypes
    <3> QED
      BY <1>1, <3>1, <3>3 DEF Talk!TalkTypes
  <2> QED
    BY <2>1, <2>2
<1>3. Talk!Greeting'
  BY <1>1, <1>2 DEF Talk!Greeting
<1>4. ASSUME NEW u \in Talkers PROVE sent[u] <= sent'[u]
  <2>1. sent[u] \in Nat
    BY <1>1 DEF Talk!TalkTypes
  <2> QED
    BY <1>2, <2>1
<1>5. Talk!OneAtATime'
  BY <1>1, <1>2, <1>4, BodiesStay DEF Talk!OneAtATime
<1>6. \A u \in Talkers : Talk!Printed(u)' = Talk!Printed(u) /\ Talk!Pending(u)' = Talk!Pending(u)
  BY <1>2, NothingInserted DEF Talk!Pending
<1>7. \A u \in Talkers : u # t => Talk!NothingOvertakes(u)' /\ Talk!EndIsLast(u)'
  BY <1>2, <1>6, OthersStay
<1>8. Talk!NothingOvertakes(t)' /\ Talk!EndIsLast(t)'
  <2>1. CASE Talk!Connect(t) \/ Talk!Close(t)
    <3>1. UNCHANGED <<sent[t], stream[t], greeter>> /\ talker[t] # "closed"
      BY <1>1, <2>1 DEF Talk!Connect, Talk!Close, Talk!TalkTypes
    <3>2. Talk!NothingOvertakes(t)'
      <4>1. PICK a \in 0 .. sent[t] :
              /\ Talk!Printed(t) = 1 .. a
              /\ greeter # "failed" =>
                   \E b \in a .. sent[t] :
                     Talk!Pending(t) = Talk!Units(a, b) /\ stream[t] = Talk!Units(b, sent[t])
        BY <1>1 DEF Talk!NothingOvertakes
      <4> QED
        BY <1>6, <3>1, <4>1 DEF Talk!NothingOvertakes, Talk!Units
    <3> QED
      BY <1>1, <1>2, <3>1, <3>2 DEF Talk!EndIsLast
  <2>2. CASE Talk!Send(t)
    <3>1. /\ talker[t] = "open" /\ sent'[t] = sent[t] + 1 /\ sent[t] \in Nat
          /\ stream'[t] = Append(stream[t], sent[t] + 1)
      BY <1>1, <2>2 DEF Talk!Send, Talk!TalkTypes
    <3>2. PICK a \in 0 .. sent[t] :
            /\ Talk!Printed(t) = 1 .. a
            /\ greeter # "failed" =>
                 \E b \in a .. sent[t] :
                   Talk!Pending(t) = Talk!Units(a, b) /\ stream[t] = Talk!Units(b, sent[t])
      BY <1>1 DEF Talk!NothingOvertakes
    <3>3. ASSUME greeter # "failed"
          PROVE  \E b \in a .. sent'[t] :
                   Talk!Pending(t) = Talk!Units(a, b) /\ stream'[t] = Talk!Units(b, sent'[t])
      <4>1. PICK b \in a .. sent[t] :
              Talk!Pending(t) = Talk!Units(a, b) /\ stream[t] = Talk!Units(b, sent[t])
        BY <3>2, <3>3
      <4>2. b \in Nat /\ b <= sent[t]
        BY <3>1, <4>1
      <4>3. Append(Talk!Units(b, sent[t]), sent[t] + 1) = Talk!Units(b, sent[t] + 1)
        BY <3>1, <4>2, UnitsAreCut
      <4> QED
        BY <3>1, <4>1, <4>2, <4>3
    <3>4. a \in 0 .. sent'[t]
      BY <3>1
    <3>5. Talk!NothingOvertakes(t)'
      BY <1>2, <1>6, <3>2, <3>3, <3>4 DEF Talk!NothingOvertakes, Talk!Units
    <3>6. Talk!EndIsLast(t)'
      BY <1>1, <1>2, <3>1 DEF Talk!EndIsLast
    <3> QED
      BY <3>5, <3>6
  <2> QED
    BY <2>1, <2>2
<1> QED
  BY <1>2, <1>3, <1>4, <1>5, <1>7, <1>8, BodiesStay DEF Talk!TalkInv

\* The steps of main.
LEMMA TalkStepOfMain ==
  ASSUME Talk!TalkInv,
         \/ \E t \in Talkers : Talk!Accept(t)
         \/ Talk!AcceptFails \/ Talk!CreateThread
  PROVE  Talk!TalkInv'
<1>1. /\ Talk!TalkTypes /\ Talk!Greeting /\ Talk!OneAtATime
      /\ \A u \in Talkers : Talk!NothingOvertakes(u) /\ Talk!EndIsLast(u)
  BY DEF Talk!TalkInv
<1>2. UNCHANGED <<talker, sent, stream, buffer, printOwner, out>> /\ Talk!TalkTypes'
  BY <1>1 DEF Talk!Accept, Talk!AcceptFails, Talk!CreateThread, Talk!TalkTypes, Talk!Greeting
<1>3. Talk!Greeting'
  BY <1>1 DEF Talk!Accept, Talk!AcceptFails, Talk!CreateThread, Talk!TalkTypes, Talk!Greeting
<1>4. \A u \in Talkers : sent[u] <= sent'[u]
  BY <1>1, <1>2 DEF Talk!TalkTypes
<1>5. \A u \in Talkers : printer'[u] \in {"header", "body", "unlock"} => UNCHANGED printer[u]
  BY <1>1 DEF Talk!Accept, Talk!AcceptFails, Talk!CreateThread, Talk!TalkTypes, Talk!Greeting
<1>6. Talk!OneAtATime'
  BY <1>1, <1>2, <1>4, <1>5, BodiesStay DEF Talk!OneAtATime
<1>7. ASSUME NEW u \in Talkers
      PROVE  Talk!NothingOvertakes(u)' /\ Talk!EndIsLast(u)'
  <2>1. Talk!Printed(u)' = Talk!Printed(u)
    BY <1>2, NothingInserted
  <2>2. CASE Talk!CreateThread /\ u = greeted
    <3>1. /\ printer[u] = "none" /\ printer'[u] = "recv"
          /\ greeter # "failed" /\ greeter' # "failed"
      BY <1>1, <2>2 DEF Talk!CreateThread, Talk!Greeting, Talk!TalkTypes
    <3>2. Talk!Pending(u)' = Talk!Pending(u)
      BY <3>1 DEF Talk!Pending
    <3>3. UNCHANGED <<sent[u], stream[u]>>
      BY <1>2
    <3>4. Talk!NothingOvertakes(u)
      BY <1>1
    <3>5. Talk!NothingOvertakes(u)'
      BY <2>1, <3>1, <3>2, <3>3, <3>4 DEF Talk!NothingOvertakes, Talk!Units
    <3> QED
      BY <3>1, <3>5 DEF Talk!EndIsLast
  <2>3. CASE ~(Talk!CreateThread /\ u = greeted)
    <3>1. /\ greeter' # "failed" => greeter # "failed" /\ UNCHANGED printer[u]
          /\ UNCHANGED printer[u] \/ printer'[u] = "none"
      BY <1>1, <2>3
      DEF Talk!Accept, Talk!AcceptFails, Talk!CreateThread, Talk!TalkTypes
    <3> QED
      BY <1>2, <2>1, <3>1, OthersStay
  <2> QED
    BY <2>2, <2>3
<1> QED
  BY <1>2, <1>3, <1>4, <1>6, <1>7, BodiesStay DEF Talk!TalkInv

\* The steps of a thread that insert nothing.
LEMMA TalkStepOfThread ==
  ASSUME Talk!TalkInv, NEW t \in Talkers,
         Talk!Receive(t) \/ Talk!Lock(t) \/ Talk!Unlock(t)
  PROVE  Talk!TalkInv'
<1>1. /\ Talk!TalkTypes /\ Talk!Greeting /\ Talk!OneAtATime
      /\ \A u \in Talkers : Talk!NothingOvertakes(u) /\ Talk!EndIsLast(u)
  BY DEF Talk!TalkInv
<1>2. /\ UNCHANGED <<talker, greeter, greeted, sent, out>>
      /\ \A u \in Talkers : u # t => UNCHANGED <<printer[u], stream[u], buffer[u]>>
      /\ printer'[t] \in {"lock", "header", "recv"}
      /\ printer[t] \in {"recv", "lock", "unlock"}
  BY <1>1 DEF Talk!Receive, Talk!Lock, Talk!Unlock, Talk!Step, Talk!TalkTypes
<1>3. Talk!TalkTypes'
  <2>1. CASE Talk!Receive(t)
    <3>1. PICK k \in 1 .. Len(stream[t]) :
            /\ buffer' = [buffer EXCEPT ![t] = SubSeq(stream[t], 1, k)]
            /\ stream' = [stream EXCEPT ![t] = SubSeq(@, k + 1, Len(@))]
      BY <2>1 DEF Talk!Receive
    <3>2. stream[t] \in Seq(Nat)
      BY <1>1 DEF Talk!TalkTypes
    <3>3. /\ SubSeq(stream[t], 1, k) \in Seq(Nat)
          /\ SubSeq(stream[t], k + 1, Len(stream[t])) \in Seq(Nat)
      BY <3>1, <3>2
    <3>4. buffer' \in [Talkers -> Seq(Nat)] /\ stream' \in [Talkers -> Seq(Nat)]
      BY <1>1, <3>1, <3>3 DEF Talk!TalkTypes
    <3> QED
      BY <1>1, <2>1, <3>4 DEF Talk!Receive, Talk!Step, Talk!TalkTypes
  <2>2. CASE Talk!Lock(t) \/ Talk!Unlock(t)
    BY <1>1, <2>2 DEF Talk!Lock, Talk!Unlock, Talk!Step, Talk!TalkTypes
  <2> QED
    BY <2>1, <2>2
<1>4. Talk!Greeting' /\ greeter # "failed"
  BY <1>1, <1>2 DEF Talk!Greeting
<1>5. Talk!OneAtATime'
  <2>1. ASSUME NEW u \in Talkers, printer'[u] \in {"header", "body", "unlock"}
        PROVE  printOwner' = u
    BY <1>1, <1>2, <2>1, TalkAssumption
    DEF Talk!OneAtATime, Talk!Receive, Talk!Lock, Talk!Unlock, Talk!Step, Talk!None,
        Talk!TalkTypes
  <2>2. ASSUME NEW u \in Talkers, printer'[u] = "body"
        PROVE  Talk!UnderItsHeader(u, Len(out) + 1)'
    <3>1. u # t /\ printer[u] = "body"
      BY <1>2, <2>2
    <3> QED
      BY <1>1, <1>2, <1>3, <3>1, BodiesStay DEF Talk!OneAtATime, Talk!TalkTypes
  <2> QED
    BY <1>2, <2>1, <2>2 DEF Talk!OneAtATime
<1>6. \A u \in Talkers : Talk!Printed(u)' = Talk!Printed(u)
  BY <1>2, NothingInserted
<1>7. \A u \in Talkers : u # t => Talk!NothingOvertakes(u)' /\ Talk!EndIsLast(u)'
  BY <1>2, <1>4, <1>6, OthersStay
<1>8. PICK a \in 0 .. sent[t] :
        /\ Talk!Printed(t) = 1 .. a
        /\ \E b \in a .. sent[t] :
             Talk!Pending(t) = Talk!Units(a, b) /\ stream[t] = Talk!Units(b, sent[t])
  BY <1>1, <1>4 DEF Talk!NothingOvertakes
<1>9. PICK b \in a .. sent[t] :
        Talk!Pending(t) = Talk!Units(a, b) /\ stream[t] = Talk!Units(b, sent[t])
  BY <1>8
<1>10. \E c \in a .. sent[t] :
         Talk!Pending(t)' = Talk!Units(a, c) /\ stream'[t] = Talk!Units(c, sent[t])
  <2>1. CASE Talk!Receive(t)
    <3>1. PICK k \in 1 .. Len(stream[t]) :
            /\ buffer'[t] = SubSeq(stream[t], 1, k)
            /\ stream'[t] = SubSeq(stream[t], k + 1, Len(stream[t]))
      BY <1>1, <2>1 DEF Talk!Receive, Talk!TalkTypes
    <3>2. printer[t] = "recv" /\ printer'[t] = "lock"
      BY <1>1, <2>1 DEF Talk!Receive, Talk!Step, Talk!TalkTypes
    <3>3. a \in Nat /\ b \in Nat /\ sent[t] \in Nat /\ a <= b /\ b <= sent[t]
      BY <1>1 DEF Talk!TalkTypes
    <3>4. Len(stream[t]) = sent[t] - b /\ k \in 1 .. sent[t] - b
      BY <1>9, <3>1, <3>3, UnitsAreCut
    <3>5. buffer'[t] = Talk!Units(b, b + k) /\ stream'[t] = Talk!Units(b + k, sent[t])
      <4>1. /\ SubSeq(Talk!Units(b, sent[t]), 1, k) = Talk!Units(b, b + k)
            /\ SubSeq(Talk!Units(b, sent[t]), k + 1, sent[t] - b) = Talk!Units(b + k, sent[t])
        BY <3>3, <3>4, UnitsAreCut
      <4> QED
        BY <1>9, <3>1, <3>4, <4>1
    <3>6. a = b
      <4>1. Talk!Units(a, b) = << >>
        BY <1>9, <3>2 DEF Talk!Pending
      <4> QED
        BY <3>3, <4>1, UnitsAreCut
    <3>7. b + k \in a .. sent[t] /\ Talk!Pending(t)' = buffer'[t]
      BY <3>2, <3>3, <3>4 DEF Talk!Pending
    <3> QED
      BY <3>5, <3>6, <3>7
  <2>2. CASE Talk!Lock(t) \/ Talk!Unlock(t)
    <3>1. /\ UNCHANGED <<stream[t], buffer[t]>>
          /\ \/ printer[t] = "lock" /\ printer'[t] = "header"
             \/ printer[t] = "unlock" /\ printer'[t] = "recv"
      BY <1>1, <2>2 DEF Talk!Lock, Talk!Unlock, Talk!Step, Talk!TalkTypes
    <3> QED
      BY <1>9, <3>1 DEF Talk!Pending
  <2> QED
    BY <2>1, <2>2
<1>11. Talk!NothingOvertakes(t)' /\ Talk!EndIsLast(t)'
  BY <1>2, <1>6, <1>8, <1>10 DEF Talk!NothingOvertakes, Talk!EndIsLast, Talk!Units
<1>12. \A u \in Talkers : sent[u] <= sent'[u]
  BY <1>1, <1>2 DEF Talk!TalkTypes
<1> QED
  BY <1>2, <1>3, <1>4, <1>5, <1>7, <1>11, <1>12, BodiesStay DEF Talk!TalkInv

\* An insertion disturbs no body that stands already.
LEMMA BodiesStandStill ==
  ASSUME Talk!TalkInv, UNCHANGED sent, NEW what, NEW who \in Talkers,
         NEW units \in Seq(Nat), what \in {"connected", "from", "body", "disconnected"},
         Talk!Insert(what, who, units), NEW t \in Talkers, NEW k \in Talk!Bodies(t)
  PROVE  Talk!UnderItsHeader(t, k)' /\ Talk!Continues(t, k)'
<1>1. Talk!TalkTypes /\ Talk!UnderItsHeader(t, k) /\ Talk!Continues(t, k)
  BY DEF Talk!TalkInv
<1>2. k \in DOMAIN out /\ k \in 1 .. Len(out) + 1
  BY <1>1 DEF Talk!Bodies, Talk!TalkTypes
<1>3. Talk!UnderItsHeader(t, k)'
  BY <1>1, <1>2, HeadersAfterInsertion
<1>4. Talk!PrintedBefore(t, k)' = Talk!PrintedBefore(t, k)
  BY <1>1, <1>2, BodiesAfterInsertion
<1>5. out'[k] = out[k]
  BY <1>1, <1>2, Insertion
<1> QED
  BY <1>1, <1>3, <1>4, <1>5 DEF Talk!Continues, Talk!Units

\* The insertions that are no bodies.
LEMMA TalkStepOfNews ==
  ASSUME Talk!TalkInv,
         Talk!Greet \/ \E t \in Talkers : Talk!Header(t) \/ Talk!Disconnected(t)
  PROVE  Talk!TalkInv'
<1>1. /\ Talk!TalkTypes /\ Talk!Greeting /\ Talk!OneAtATime
      /\ \A u \in Talkers : Talk!NothingOvertakes(u) /\ Talk!EndIsLast(u)
  BY DEF Talk!TalkInv
<1>2. UNCHANGED <<talker, greeted, sent, stream, buffer, printOwner>>
  BY DEF Talk!Greet, Talk!Header, Talk!Disconnected
<1>3. PICK what \in {"connected", "from", "disconnected"}, who \in Talkers :
        /\ Talk!Insert(what, who, << >>)
        /\ \/ what = "connected" /\ Talk!Greet
           \/ what = "from" /\ Talk!Header(who)
           \/ what = "disconnected" /\ Talk!Disconnected(who)
  BY <1>1 DEF Talk!Greet, Talk!Header, Talk!Disconnected, Talk!Greeting
<1>4. << >> \in Seq(Nat) /\ {<< >>[j] : j \in DOMAIN << >>} = {}
  OBVIOUS
<1>5. /\ out' \in Seq(Talk!Insertions) /\ Len(out') = Len(out) + 1
      /\ \A u \in Talkers : /\ Talk!Bodies(u)' = Talk!Bodies(u)
                            /\ Talk!Printed(u)' = Talk!Printed(u)
  <2>1. what # "body" /\ what \in {"connected", "from", "body", "disconnected"}
    BY <1>3
  <2>2. out' \in Seq(Talk!Insertions) /\ Len(out') = Len(out) + 1
    BY <1>1, <1>3, <1>4, <2>1, Insertion
  <2>3. ASSUME NEW u \in Talkers
        PROVE  Talk!Bodies(u)' = Talk!Bodies(u) /\ Talk!Printed(u)' = Talk!Printed(u)
    <3>1. /\ Talk!Bodies(u)' = Talk!Bodies(u)
                \cup (IF what = "body" /\ who = u THEN {Len(out) + 1} ELSE {})
          /\ Talk!Printed(u)' = Talk!Printed(u)
                \cup (IF what = "body" /\ who = u THEN {<< >>[j] : j \in DOMAIN << >>} ELSE {})
      BY <1>1, <1>3, <1>4, <2>1, BodiesAfterInsertion
    <3> QED
      BY <2>1, <3>1
  <2> QED
    BY <2>2, <2>3
<1>6. /\ greeter # "failed" /\ greeter' # "failed"
      /\ \A u \in Talkers : u # who \/ what = "connected" => UNCHANGED printer[u]
      /\ what = "from" => printer[who] = "header" /\ printer'[who] = "body"
      /\ what = "disconnected" =>
           /\ printer[who] = "recv" /\ printer'[who] = "closed"
           /\ talker[who] = "closed" /\ stream[who] = << >>
  BY <1>1, <1>3
  DEF Talk!Greet, Talk!Header, Talk!Disconnected, Talk!Step, Talk!Greeting, Talk!TalkTypes
<1>7. Talk!TalkTypes'
  BY <1>1, <1>2, <1>3, <1>5
  DEF Talk!Greet, Talk!Header, Talk!Disconnected, Talk!Step, Talk!TalkTypes
<1>8. Talk!Greeting'
  BY <1>1, <1>3, <1>6
  DEF Talk!Greet, Talk!Header, Talk!Disconnected, Talk!Step, Talk!Greeting, Talk!TalkTypes
<1>9. Talk!OneAtATime'
  <2>1. ASSUME NEW u \in Talkers
        PROVE  /\ printer'[u] \in {"header", "body", "unlock"} => printOwner = u
               /\ printer'[u] = "body" => \/ u = who /\ what = "from"
                                          \/ printer[u] = "body" /\ what # "from"
    <3>1. /\ printer[u] \in {"header", "body", "unlock"} => printOwner = u
          /\ printer[who] \in {"header", "body", "unlock"} => printOwner = who
      BY <1>1 DEF Talk!OneAtATime
    <3>2. CASE what = "connected"
      BY <1>6, <3>1, <3>2
    <3>3. CASE what = "from"
      <4>1. printer[who] = "header" /\ printer'[who] = "body" /\ printOwner = who
        BY <1>6, <3>1, <3>3
      <4>2. CASE u = who
        BY <3>3, <4>1, <4>2
      <4>3. CASE u # who
        <5>1. printer'[u] = printer[u]
          BY <1>6, <4>3
        <5> QED
          BY <3>1, <4>1, <4>3, <5>1
      <4> QED
        BY <4>2, <4>3
    <3>4. CASE what = "disconnected"
      BY <1>6, <3>1, <3>4
    <3> QED
      BY <1>3, <3>2, <3>3, <3>4
  <2>2. ASSUME NEW u \in Talkers, printer'[u] = "body"
        PROVE  Talk!UnderItsHeader(u, Len(out) + 1)'
    <3>1. CASE u = who /\ what = "from"
      BY <1>1, <1>3, <1>4, <3>1, HeadersAfterInsertion
    <3>2. CASE printer[u] = "body" /\ what \in {"connected", "disconnected"}
      BY <1>1, <1>3, <1>4, <3>2, HeadersAfterInsertion DEF Talk!OneAtATime
    <3> QED
      BY <1>3, <2>1, <2>2, <3>1, <3>2
  <2> QED
    BY <1>2, <2>1, <2>2 DEF Talk!OneAtATime
<1>10. ASSUME NEW u \in Talkers
       PROVE  Talk!NothingOvertakes(u)' /\ Talk!EndIsLast(u)'
  <2>1. Talk!Pending(u)' = Talk!Pending(u)
    BY <1>2, <1>3, <1>6 DEF Talk!Pending
  <2>2. Talk!NothingOvertakes(u) /\ Talk!EndIsLast(u)
    BY <1>1
  <2>3. Talk!NothingOvertakes(u)'
    <3>1. /\ UNCHANGED <<sent[u], stream[u]>> /\ Talk!Printed(u)' = Talk!Printed(u)
          /\ greeter # "failed" /\ greeter' # "failed"
      BY <1>2, <1>5, <1>6
    <3>2. PICK a \in 0 .. sent[u] :
            /\ Talk!Printed(u) = 1 .. a
            /\ \E b \in a .. sent[u] :
                 Talk!Pending(u) = Talk!Units(a, b) /\ stream[u] = Talk!Units(b, sent[u])
      BY <2>2, <3>1 DEF Talk!NothingOvertakes
    <3> QED
      BY <2>1, <3>1, <3>2 DEF Talk!NothingOvertakes, Talk!Units
  <2> QED
    BY <1>2, <1>3, <1>6, <2>2, <2>3 DEF Talk!EndIsLast
<1>11. ASSUME NEW u \in Talkers, NEW k \in Talk!Bodies(u)'
       PROVE  Talk!UnderItsHeader(u, k)' /\ Talk!Continues(u, k)'
  BY <1>2, <1>3, <1>4, <1>5, BodiesStandStill
<1> QED
  BY <1>7, <1>8, <1>9, <1>10, <1>11 DEF Talk!TalkInv

LEMMA TalkStepOfBody ==
  ASSUME Talk!TalkInv, NEW t \in Talkers, Talk!Body(t)
  PROVE  Talk!TalkInv'
<1>1. /\ Talk!TalkTypes /\ Talk!Greeting /\ Talk!OneAtATime
      /\ \A u \in Talkers : Talk!NothingOvertakes(u) /\ Talk!EndIsLast(u)
  BY DEF Talk!TalkInv
<1>2. /\ UNCHANGED <<talker, greeter, greeted, sent, stream, buffer, printOwner>>
      /\ Talk!Insert("body", t, buffer[t]) /\ buffer[t] \in Seq(Nat)
      /\ printer[t] = "body" /\ printer'[t] = "unlock"
      /\ \A u \in Talkers : u # t => UNCHANGED printer[u]
      /\ printer' = [printer EXCEPT ![t] = "unlock"]
  BY <1>1 DEF Talk!Body, Talk!Step, Talk!TalkTypes
<1>3. /\ out' \in Seq(Talk!Insertions) /\ Len(out') = Len(out) + 1 /\ Len(out) \in Nat
      /\ out'[Len(out) + 1] = [what |-> "body", who |-> t, data |-> buffer[t]]
  <2>1. Len(out) \in Nat
    BY <1>1 DEF Talk!TalkTypes
  <2>2. "body" \in {"connected", "from", "body", "disconnected"}
    OBVIOUS
  <2> QED
    BY <1>1, <1>2, <2>1, <2>2, Insertion
<1>end. PICK last \in Nat : last = Len(out) + 1
  BY <1>3
<1>4. /\ \A u \in Talkers : u # t => /\ Talk!Bodies(u)' = Talk!Bodies(u)
                                     /\ Talk!Printed(u)' = Talk!Printed(u)
      /\ Talk!Bodies(t)' = Talk!Bodies(t) \cup {last}
      /\ Talk!Printed(t)' = Talk!Printed(t) \cup {buffer[t][j] : j \in DOMAIN buffer[t]}
      /\ Talk!PrintedBefore(t, last)' = Talk!Printed(t)
  <2>1. PICK what \in {"connected", "from", "body", "disconnected"} : what = "body"
    OBVIOUS
  <2>2. PICK units \in Seq(Nat) : units = buffer[t]
    BY <1>2
  <2>3. Talk!Insert(what, t, units) /\ last \in 1 .. Len(out) + 1
    BY <1>2, <1>3, <1>end, <2>1, <2>2
  <2>4. ASSUME NEW u \in Talkers
        PROVE  /\ Talk!Bodies(u)' = Talk!Bodies(u)
                    \cup (IF what = "body" /\ t = u THEN {Len(out) + 1} ELSE {})
               /\ Talk!PrintedBefore(u, last)' = Talk!PrintedBefore(u, last)
               /\ Talk!Printed(u)' = Talk!Printed(u)
                    \cup (IF what = "body" /\ t = u
                          THEN {units[j] : j \in DOMAIN units} ELSE {})
    BY <1>1, <2>3, BodiesAfterInsertion
  <2>5. Talk!PrintedBefore(t, last) = Talk!Printed(t)
    BY <1>end DEF Talk!Printed
  <2> QED
    BY <1>end, <2>1, <2>2, <2>4, <2>5
<1>5. Talk!TalkTypes' /\ Talk!Greeting' /\ greeter # "failed"
  BY <1>1, <1>2, <1>3 DEF Talk!TalkTypes, Talk!Greeting
<1>6. Talk!OneAtATime'
  <2>1. \A u \in Talkers : /\ printer'[u] \in {"header", "body", "unlock"} => printOwner = u
                           /\ printer'[u] # "body"
    BY <1>1, <1>2 DEF Talk!OneAtATime
  <2> QED
    BY <1>2, <2>1 DEF Talk!OneAtATime
<1>7. \A u \in Talkers : u # t => Talk!NothingOvertakes(u)' /\ Talk!EndIsLast(u)'
  BY <1>2, <1>4, <1>5, OthersStay
<1>8. PICK a \in 0 .. sent[t] :
        /\ Talk!Printed(t) = 1 .. a
        /\ \E b \in a .. sent[t] :
             Talk!Pending(t) = Talk!Units(a, b) /\ stream[t] = Talk!Units(b, sent[t])
  BY <1>1, <1>5 DEF Talk!NothingOvertakes
<1>9. PICK b \in a .. sent[t] :
        Talk!Pending(t) = Talk!Units(a, b) /\ stream[t] = Talk!Units(b, sent[t])
  BY <1>8
<1>10. a \in Nat /\ b \in Nat /\ a <= b /\ b <= sent[t] /\ sent[t] \in Nat
  BY <1>1 DEF Talk!TalkTypes
<1>11. buffer[t] = Talk!Units(a, b) /\ Len(buffer[t]) = b - a /\ a + (b - a) = b
       /\ {buffer[t][j] : j \in DOMAIN buffer[t]} = a + 1 .. b
  <2>1. buffer[t] = Talk!Units(a, b)
    BY <1>2, <1>9 DEF Talk!Pending
  <2>2. /\ Len(Talk!Units(a, b)) = b - a
        /\ {Talk!Units(a, b)[j] : j \in DOMAIN Talk!Units(a, b)} = a + 1 .. b
    BY <1>10, UnitsAreCut, Zenon
  <2>3. a + (b - a) = b
    BY <1>10
  <2> QED
    BY <2>1, <2>2, <2>3
<1>12. Talk!NothingOvertakes(t)' /\ Talk!EndIsLast(t)'
  <2>1. Talk!Printed(t)' = 1 .. b
    BY <1>4, <1>8, <1>10, <1>11
  <2>2. Talk!Pending(t)' = Talk!Units(b, b)
    BY <1>2, <1>10 DEF Talk!Pending, Talk!Units
  <2>3. b \in 0 .. sent[t] /\ b \in b .. sent[t]
    BY <1>10
  <2> QED
    BY <1>2, <1>9, <2>1, <2>2, <2>3 DEF Talk!NothingOvertakes, Talk!EndIsLast, Talk!Units
<1>13. ASSUME NEW u \in Talkers, NEW k \in Talk!Bodies(u)'
       PROVE  Talk!UnderItsHeader(u, k)' /\ Talk!Continues(u, k)'
  <2>1. CASE k \in Talk!Bodies(u)
    BY <1>2, <2>1, BodiesStandStill
  <2>2. CASE k \notin Talk!Bodies(u)
    <3>1. u = t /\ k = last
      BY <1>4, <2>2
    <3>2. Talk!UnderItsHeader(t, last)'
      <4>1. /\ last \in 1 .. Len(out) + 1 /\ Talk!UnderItsHeader(t, last)
            /\ "body" \in {"connected", "from", "body", "disconnected"}
        BY <1>1, <1>2, <1>3, <1>end DEF Talk!OneAtATime
      <4> QED
        BY <1>1, <1>2, <4>1, HeadersAfterInsertion
    <3>3. out'[last].data = buffer[t]
      BY <1>3, <1>end
    <3>4. /\ Talk!PrintedBefore(t, last)' = 1 .. a
          /\ out'[last].data = Talk!Units(a, a + Len(out'[last].data))
      BY <1>4, <1>8, <1>11, <3>3
    <3>5. Talk!Continues(t, last)'
      BY <1>2, <3>4 DEF Talk!Continues, Talk!Units
    <3> QED
      BY <3>1, <3>2, <3>5
  <2> QED
    BY <2>1, <2>2
<1> QED
  BY <1>5, <1>6, <1>7, <1>12, <1>13 DEF Talk!TalkInv

\* What was sent is printed, received or in the stream, in this order, and who
\* prints holds the mutex: the invariant the next theorem rests on.
THEOREM TalkInductive ==
  ProgramsSpec => []Talk!TalkInv
<1>1. ProgramsInit => Talk!TalkInv
  BY TalkStart DEF ProgramsInit
<1>2. Talk!TalkInv /\ [ProgramsNext]_allVars => Talk!TalkInv'
  <2> SUFFICES ASSUME Talk!TalkInv, [ProgramsNext]_allVars PROVE Talk!TalkInv'
    OBVIOUS
  <2>1. Talk!Next \/ UNCHANGED talkVars
    BY DEF ProgramsNext, allVars, talkVars
  <2>2. CASE UNCHANGED talkVars
    <3> USE <2>2 DEF talkVars
    <3>1. Talk!TalkTypes' /\ Talk!Greeting'
      BY DEF Talk!TalkInv, Talk!TalkTypes, Talk!Greeting
    <3>2. \A t \in Talkers : sent[t] \in Nat /\ sent[t] <= sent'[t]
      BY DEF Talk!TalkInv, Talk!TalkTypes
    <3>3. Talk!OneAtATime'
      BY <3>1, <3>2, BodiesStay DEF Talk!TalkInv, Talk!OneAtATime
    <3>4. \A t \in Talkers : Talk!NothingOvertakes(t)' /\ Talk!EndIsLast(t)'
      BY NothingInserted, OthersStay
    <3> QED
      BY <3>1, <3>2, <3>3, <3>4, BodiesStay DEF Talk!TalkInv
  <2>3. CASE Talk!Next
    <3>1. CASE \E t \in Talkers : Talk!Connect(t) \/ Talk!Send(t) \/ Talk!Close(t)
      BY <3>1, TalkStepOfTalker
    <3>2. CASE \/ \E t \in Talkers : Talk!Accept(t)
               \/ Talk!AcceptFails \/ Talk!CreateThread
      BY <3>2, TalkStepOfMain
    <3>3. CASE Talk!Greet \/ \E t \in Talkers : Talk!Header(t) \/ Talk!Disconnected(t)
      BY <3>3, TalkStepOfNews
    <3>4. CASE \E t \in Talkers : Talk!Receive(t) \/ Talk!Lock(t) \/ Talk!Unlock(t)
      BY <3>4, TalkStepOfThread
    <3>5. CASE \E t \in Talkers : Talk!Body(t)
      BY <3>5, TalkStepOfBody
    <3> QED
      BY <2>3, <3>1, <3>2, <3>3, <3>4, <3>5 DEF Talk!Next, Talk!Server
  <2> QED
    BY <2>1, <2>2, <2>3
<1> QED
  BY <1>1, <1>2, PTL DEF ProgramsSpec

\* server-client: for any number of talkers and however their streams are cut
\* up, every message is printed under its own header, what is printed of a
\* talker is what it sent, in order, and it is all of it once its end is
\* announced.
THEOREM MessagesStayWhole ==
  ProgramsSpec => []MessagesAreWhole
<1>1. Talk!TalkInv => MessagesAreWhole
  <2> SUFFICES ASSUME Talk!TalkInv PROVE MessagesAreWhole
    OBVIOUS
  <2>1. ASSUME NEW t \in Talkers
        PROVE  \E a \in 0 .. sent[t] :
                 Talk!Printed(t) = 1 .. a /\ (printer[t] = "closed" => a = sent[t])
    <3>1. PICK a \in 0 .. sent[t] :
            /\ Talk!Printed(t) = 1 .. a
            /\ greeter # "failed" =>
                 \E b \in a .. sent[t] :
                   Talk!Pending(t) = Talk!Units(a, b) /\ stream[t] = Talk!Units(b, sent[t])
      BY DEF Talk!TalkInv, Talk!NothingOvertakes
    <3>2. ASSUME printer[t] = "closed" PROVE a = sent[t]
      <4>1. greeter # "failed" /\ stream[t] = << >> /\ Talk!Pending(t) = << >>
        BY <3>2 DEF Talk!TalkInv, Talk!Greeting, Talk!EndIsLast, Talk!Pending
      <4>2. PICK b \in a .. sent[t] :
              Talk!Units(a, b) = << >> /\ Talk!Units(b, sent[t]) = << >>
        BY <3>1, <4>1
      <4>3. a \in Nat /\ b \in Nat /\ a <= b /\ b <= sent[t] /\ sent[t] \in Nat
        BY DEF Talk!TalkInv, Talk!TalkTypes
      <4>4. a = b
        BY <4>2, <4>3, UnitsAreCut
      <4>5. b = sent[t]
        BY <4>2, <4>3, UnitsAreCut
      <4> QED
        BY <4>4, <4>5
    <3> QED
      BY <3>1, <3>2
  <2> QED
    BY <2>1 DEF Talk!TalkInv, MessagesAreWhole, Talk!MessagesAreWhole
<1> QED
  BY <1>1, TalkInductive, PTL

(***************************************************************************)
(* The shell: lines of any length over any names.                          *)
(***************************************************************************)

\* Every set of numbers has a smallest element.
LEMMA SmallestNumber ==
  ASSUME NEW T, T \subseteq Nat, T # {}
  PROVE  \E x \in T : \A y \in T : ~(y < x)
<1> DEFINE Below == {p \in Nat \X Nat : p[1] < p[2]}
<1>1. IsWellFoundedOn(Below, Nat)
  BY NatLessThanWellFounded DEF OpToRel
<1>2. PICK x \in T : \A y \in T : ~(<<y, x>> \in Below)
  <2> HIDE DEF Below
  <2> QED
    BY <1>1, WFMin
<1> QED
  BY <1>2

\* The operator the module of the shell counts with is the one that the
\* theorems about finite sets are about.
LEMMA ShellCardinality == \A S : Sh!Cardinality(S) = Cardinality(S)
BY DEF Sh!Cardinality, Cardinality

\* Which words are files is decided from left to right after all: the word
\* behind > or >>, unless that is a file itself.
LEMMA FileAfter ==
  ASSUME line \in Seq(Sh!Tokens), NEW p \in 1 .. Len(line)
  PROVE  Sh!IsFile(p + 1) <=> line[p] \in Sh!Redirects /\ ~Sh!IsFile(p)
<1> DEFINE Row(r, x) == /\ \A q \in x - r .. x - 1 : line[q] \in Sh!Redirects
                        /\ x - r > 1 => line[x - r - 1] \notin Sh!Redirects
<1>1. \A x : Sh!IsFile(x) <=> \E r \in 1 .. x - 1 : r % 2 = 1 /\ Row(r, x)
  BY DEF Sh!IsFile
<1>2. ASSUME Sh!IsFile(p + 1) PROVE line[p] \in Sh!Redirects /\ ~Sh!IsFile(p)
  <2>1. PICK r \in 1 .. p : r % 2 = 1 /\ Row(r, p + 1)
    BY <1>1, <1>2
  <2>2. line[p] \in Sh!Redirects
    BY <2>1
  <2>3. ASSUME NEW k \in 1 .. p - 1, k % 2 = 1, Row(k, p) PROVE FALSE
    <3>1. CASE p - k < p + 1 - r
      <4>1. p + 1 - r > 1 /\ p + 1 - r - 1 \in p - k .. p - 1
        BY <3>1
      <4> QED
        BY <2>1, <2>3, <4>1
    <3>2. CASE p + 1 - r < p - k
      <4>1. p - k > 1 /\ p - k - 1 \in p + 1 - r .. p + 1 - 1
        BY <3>2
      <4> QED
        BY <2>1, <2>3, <4>1
    <3>3. CASE p + 1 - r = p - k
      <4>1. r = k + 1
        BY <3>3
      <4> QED
        BY <2>1, <2>3, <4>1
    <3> QED
      BY <3>1, <3>2, <3>3
  <2> QED
    BY <1>1, <2>2, <2>3
<1>3. ASSUME line[p] \in Sh!Redirects, ~Sh!IsFile(p) PROVE Sh!IsFile(p + 1)
  <2> DEFINE T == {x \in 1 .. p : \A q \in x .. p : line[q] \in Sh!Redirects}
  <2>1. p \in T
    BY <1>3
  <2>2. PICK x \in T : \A y \in T : ~(y < x)
    <3>1. T \subseteq Nat
      OBVIOUS
    <3> HIDE DEF T
    <3> QED
      BY <2>1, <3>1, SmallestNumber
  <2>3. x > 1 => line[x - 1] \notin Sh!Redirects
    <3> SUFFICES ASSUME x > 1, line[x - 1] \in Sh!Redirects PROVE FALSE
      OBVIOUS
    <3>1. x - 1 \in T
      OBVIOUS
    <3> QED
      BY <2>2, <3>1
  <2> DEFINE r == p + 1 - x
  <2>4. r \in 1 .. p /\ p + 1 - r = x
    OBVIOUS
  <2>5. Row(r, p + 1)
    BY <2>3, <2>4
  <2>6. r % 2 = 1
    <3> SUFFICES ASSUME r % 2 = 0 PROVE FALSE
      BY <2>4
    <3>1. r - 1 \in 1 .. p - 1 /\ (r - 1) % 2 = 1 /\ p - (r - 1) = x
      BY <2>4
    <3>2. Row(r - 1, p)
      BY <2>3, <3>1
    <3> HIDE DEF Row, r
    <3> QED
      BY <1>1, <1>3, <3>1, <3>2
  <2> HIDE DEF Row, r
  <2> QED
    BY <1>1, <2>4, <2>5, <2>6
<1> QED
  BY <1>2, <1>3

\* Which positions end a command, and which ones are files.
LEMMA EndsAndFiles ==
  ASSUME line \in Seq(Sh!Tokens)
  PROVE  /\ ~Sh!IsFile(1)
         /\ Len(line) \in Nat
         /\ Sh!Ends \subseteq 1 .. Len(line) + 1
         /\ \A p \in 1 .. Len(line) :
              p \in Sh!Ends <=> line[p] \in Sh!Connectors /\ ~Sh!IsFile(p)
         /\ Len(line) + 1 \in Sh!Ends
BY DEF Sh!IsFile, Sh!Ends

\* A part grows by the word that does not end it.
LEMMA PartGrows ==
  ASSUME line \in Seq(Sh!Tokens), NEW p \in 1 .. Len(line), p \notin Sh!Ends
  PROVE  Sh!Part(p + 1) = Sh!Part(p) \cup {p}
<1>1. Sh!Ends \subseteq Int
  BY EndsAndFiles
<1>2. \A d \in Sh!Ends : d < p + 1 <=> d < p
  BY <1>1
<1> QED
  BY <1>1, <1>2 DEF Sh!Part

\* Behind an end a new part begins.
LEMMA PartBegins ==
  ASSUME line \in Seq(Sh!Tokens), NEW p \in 1 .. Len(line), p \in Sh!Ends
  PROVE  Sh!Part(p + 1) = {}
BY DEF Sh!Part

\* The largest position of a set that has got one behind the others.
LEMMA LargestAdded ==
  ASSUME NEW p \in Int, NEW S, \A q \in S : q \in Int /\ q < p
  PROVE  Sh!Max(S \cup {p}) = p
BY DEF Sh!Max

\* The words of a command, counted.
LEMMA OwnIsFinite ==
  ASSUME NEW p \in Nat
  PROVE  /\ IsFiniteSet(Sh!Own(p)) /\ Cardinality(Sh!Own(p)) \in Nat
         /\ \A q \in Sh!Own(p) : q \in Nat /\ q < p
         /\ \A q \in Sh!Own(p) :
              Cardinality({x \in Sh!Own(p) : x <= q}) \in 1 .. Cardinality(Sh!Own(p))
<1>1. Sh!Own(p) \subseteq 1 .. p - 1
  BY DEF Sh!Own, Sh!Part
<1>2. IsFiniteSet(1 .. p - 1)
  BY FS_Interval
<1>3. IsFiniteSet(Sh!Own(p)) /\ Cardinality(Sh!Own(p)) \in Nat
  BY <1>1, <1>2, FS_Subset, FS_CardinalityType
<1>4. ASSUME NEW q \in Sh!Own(p)
      PROVE  Cardinality({x \in Sh!Own(p) : x <= q}) \in 1 .. Cardinality(Sh!Own(p))
  <2> DEFINE S == {x \in Sh!Own(p) : x <= q}
  <2>1. S \subseteq Sh!Own(p) /\ q \in S
    BY <1>1
  <2> HIDE DEF S
  <2>2. IsFiniteSet(S) /\ Cardinality(S) <= Cardinality(Sh!Own(p))
    BY <1>3, <2>1, FS_Subset
  <2>3. Cardinality(S) \in Nat /\ Cardinality(S) # 0
    BY <2>1, <2>2, FS_CardinalityType, FS_EmptySet
  <2> QED
    BY <1>3, <2>2, <2>3 DEF S
<1> QED
  BY <1>1, <1>3, <1>4

\* A command that gets a word more.
LEMMA ArgsGrow ==
  ASSUME line \in Seq(Sh!Tokens), NEW p \in 1 .. Len(line), NEW words \in Seq(Words),
         Sh!AreArgsOf(p, words), Sh!Own(p + 1) = Sh!Own(p) \cup {p},
         line[p] \in Words
  PROVE  Sh!AreArgsOf(p + 1, Append(words, line[p]))
<1> DEFINE S == Sh!Own(p)
           R(q) == {x \in S : x <= q}
           R2(q) == {x \in S \cup {p} : x <= q}
           w == Append(words, line[p])
<1>0. p \in Nat /\ \A q \in S : q \in Nat /\ q < p
  BY OwnIsFinite
<1>1. /\ IsFiniteSet(S) /\ Cardinality(S) \in Nat /\ p \notin S
      /\ \A q \in S : Cardinality(R(q)) \in 1 .. Cardinality(S)
  <2>1. p \notin S
    BY <1>0
  <2> QED
    BY <1>0, <2>1, OwnIsFinite
<1>2. Len(words) = Cardinality(S) /\ \A q \in S : words[Cardinality(R(q))] = line[q]
  BY ShellCardinality DEF Sh!AreArgsOf
<1>3. Cardinality(S \cup {p}) = Cardinality(S) + 1
  BY <1>1, FS_AddElement
<1>4. R2(p) = S \cup {p} /\ \A q \in S : R2(q) = R(q)
  <2> HIDE DEF S
  <2>1. \A q \in S : ~(p <= q)
    BY <1>0
  <2>2. R2(p) = S \cup {p}
    BY <1>0
  <2>3. \A q \in S : R2(q) = R(q)
    BY <2>1
  <2> QED
    BY <2>2, <2>3
<1>5. /\ Len(w) = Len(words) + 1 /\ w[Len(words) + 1] = line[p]
      /\ \A k \in 1 .. Len(words) : w[k] = words[k]
  OBVIOUS
<1>6. \A q \in S \cup {p} : w[Cardinality(R2(q))] = line[q]
  <2> HIDE DEF S, R, R2, w
  <2>1. \A q \in S : w[Cardinality(R2(q))] = line[q]
    BY <1>1, <1>2, <1>4, <1>5
  <2>2. w[Cardinality(R2(p))] = line[p]
    BY <1>2, <1>3, <1>4, <1>5
  <2> QED
    BY <2>1, <2>2
<1> QED
  BY <1>2, <1>3, <1>5, <1>6, ShellCardinality DEF Sh!AreArgsOf

\* A command that has no words yet.
LEMMA NoArgs ==
  ASSUME NEW p, Sh!Own(p) = {}
  PROVE  Sh!AreArgsOf(p, << >>)
BY FS_EmptySet, ShellCardinality DEF Sh!AreArgsOf

\* What a line means does not change while it is read.
LEMMA MeaningKept ==
  ASSUME line' = line
  PROVE  /\ \A p : Sh!IsFile(p)' <=> Sh!IsFile(p)
         /\ Sh!Ends' = Sh!Ends
         /\ \A p : /\ Sh!Part(p)' = Sh!Part(p) /\ Sh!Own(p)' = Sh!Own(p)
                   /\ Sh!FilesOf(p)' = Sh!FilesOf(p) /\ Sh!SignsOf(p)' = Sh!SignsOf(p)
                   /\ Sh!OutputOf(p)' = Sh!OutputOf(p) /\ Sh!AppendOf(p)' = Sh!AppendOf(p)
         /\ \A p, w : Sh!AreArgsOf(p, w)' <=> Sh!AreArgsOf(p, w)
<1>1. \A p : Sh!IsFile(p)' <=> Sh!IsFile(p)
  BY DEF Sh!IsFile
<1>2. Sh!Ends' = Sh!Ends
  BY <1>1 DEF Sh!Ends
<1>3. \A p : Sh!Part(p)' = Sh!Part(p)
  BY <1>2 DEF Sh!Part
<1>4. \A p : /\ Sh!Own(p)' = Sh!Own(p)
             /\ Sh!FilesOf(p)' = Sh!FilesOf(p) /\ Sh!SignsOf(p)' = Sh!SignsOf(p)
  BY <1>1, <1>3 DEF Sh!Own, Sh!FilesOf, Sh!SignsOf
<1>5. \A p : Sh!OutputOf(p)' = Sh!OutputOf(p) /\ Sh!AppendOf(p)' = Sh!AppendOf(p)
  BY <1>4 DEF Sh!OutputOf, Sh!AppendOf
<1>6. \A p, w : Sh!AreArgsOf(p, w)' <=> Sh!AreArgsOf(p, w)
  BY <1>4 DEF Sh!AreArgsOf, Sh!Cardinality
<1> QED
  BY <1>1, <1>2, <1>3, <1>4, <1>5, <1>6

\* The status before a command depends on the commands before it only.
LEMMA StatusKept ==
  ASSUME NEW e, {c \in ran' : c.at < e} = {c \in ran : c.at < e}
  PROVE  Sh!StatusBefore(e)' = Sh!StatusBefore(e)
BY DEF Sh!StatusBefore

\* The last command that was executed gives the status before the next ones.
LEMMA StatusOfLast ==
  ASSUME NEW e, NEW p \in Int, NEW c, c.at = p,
         ran' = ran \cup {c}, \A d \in ran : d.at \in Int /\ d.at < p,
         e = p + 1
  PROVE  Sh!StatusBefore(e)' = c.status
<1>1. {d \in ran' : d.at < e} = ran' /\ ran' # {}
  OBVIOUS
<1>2. \A x \in ran' : (\A d \in ran' : d.at <= x.at) <=> x = c
  OBVIOUS
<1>3. (CHOOSE x \in ran' : \A d \in ran' : d.at <= x.at) = c
  BY <1>2
<1> QED
  BY <1>1, <1>3 DEF Sh!StatusBefore, Sh!LastOf

\* Reading on without executing anything keeps what was decided.
LEMMA DecisionsKept ==
  ASSUME line' = line, ran' = ran
  PROVE  /\ \A e : Sh!StatusBefore(e)' = Sh!StatusBefore(e)
         /\ \A e : Sh!FollowsRule(e)' <=> Sh!FollowsRule(e)
         /\ Sh!CommandsAreTheirOwn => Sh!CommandsAreTheirOwn'
<1>1. \A e : Sh!StatusBefore(e)' = Sh!StatusBefore(e)
  BY StatusKept
<1>2. ASSUME NEW e PROVE Sh!FollowsRule(e)' <=> Sh!FollowsRule(e)
  <2>1. Sh!Own(e)' = Sh!Own(e)
    BY MeaningKept
  <2> QED
    BY <1>1, <2>1 DEF Sh!FollowsRule
<1>3. Sh!CommandsAreTheirOwn => Sh!CommandsAreTheirOwn'
  BY MeaningKept DEF Sh!CommandsAreTheirOwn
<1> QED
  BY <1>1, <1>2, <1>3

\* Executing a command at p keeps what was decided at the earlier ends.
LEMMA EarlierDecisionsKept ==
  ASSUME line' = line, NEW p \in Int, NEW c, c.at = p,
         ran' = ran \cup {c}, \A d \in ran : d.at \in Int /\ d.at < p
  PROVE  \A e \in Int : e <= p =>
           /\ Sh!StatusBefore(e)' = Sh!StatusBefore(e)
           /\ e < p => (Sh!FollowsRule(e)' <=> Sh!FollowsRule(e))
<1> SUFFICES ASSUME NEW e \in Int, e <= p
             PROVE  /\ Sh!StatusBefore(e)' = Sh!StatusBefore(e)
                    /\ e < p => (Sh!FollowsRule(e)' <=> Sh!FollowsRule(e))
  OBVIOUS
<1>1. {d \in ran' : d.at < e} = {d \in ran : d.at < e}
  OBVIOUS
<1>2. Sh!StatusBefore(e)' = Sh!StatusBefore(e)
  BY <1>1, StatusKept
<1>3. ASSUME e < p PROVE Sh!FollowsRule(e)' <=> Sh!FollowsRule(e)
  <2>1. (\E d \in ran' : d.at = e) <=> (\E d \in ran : d.at = e)
    BY <1>3
  <2> QED
    BY <1>2, <2>1, MeaningKept DEF Sh!FollowsRule
<1> QED
  BY <1>2, <1>3

\* Words that end no command are read without a decision.
LEMMA ReadsOn ==
  ASSUME Sh!DecidesInOrder, Sh!CommandsAreTheirOwn, line \in Seq(Sh!Tokens),
         pos \in Nat, NEW p \in Nat, pos <= p, \A e \in Sh!Ends : ~(pos <= e /\ e < p),
         shell = "parse", line' = line, ran' = ran, status' = status, pos' = p
  PROVE  Sh!DecidesInOrder'
<1>1. \A c \in ran : c.at \in Int /\ c.at < pos
  BY EndsAndFiles DEF Sh!DecidesInOrder, Sh!CommandsAreTheirOwn
<1>2. {c \in ran : c.at < p} = {c \in ran : c.at < pos}
  BY <1>1
<1>3. Sh!StatusBefore(p) = Sh!StatusBefore(pos)
  BY <1>2 DEF Sh!StatusBefore
<1>4. \A e \in Sh!Ends : e < p => e < pos
  BY EndsAndFiles
<1> QED
  BY <1>1, <1>3, <1>4, MeaningKept, DecisionsKept DEF Sh!DecidesInOrder

LEMMA ShellStart == Sh!Init => Sh!ShellInv
<1> SUFFICES ASSUME Sh!Init PROVE Sh!ShellInv
  OBVIOUS
<1> USE DEF Sh!Init
<1>1. Sh!ShellTypes
  <2>1. line \in Seq(Sh!Tokens) /\ args \in Seq(Words)
    BY EmptySeq
  <2>2. pos = 1 /\ Len(line) = 0
    BY EmptySeq
  <2>3. pos \in 1 .. Len(line) + 1
    <3> HIDE DEF Sh!Init
    <3> QED
      BY <2>2
  <2>4. status \in Sh!Statuses
    BY DEF Sh!Statuses
  <2> QED
    BY <2>1, <2>3, <2>4 DEF Sh!ShellTypes
<1> QED
  BY <1>1 DEF Sh!ShellInv, Sh!NothingRanYet, Sh!CollectsItsOwn, Sh!DecidesInOrder,
              Sh!CommandsAreTheirOwn, Sh!SignsLookBack

\* A new line: nothing is collected and nothing decided.
LEMMA ShellStepOfPrompt ==
  ASSUME Sh!ShellInv, Sh!ReadLine \/ Sh!Exit \/ Sh!Abort \/ Sh!Return
  PROVE  Sh!ShellInv'
<1> USE DEF Sh!ShellInv
<1>1. CASE Sh!ReadLine
  <2> USE <1>1 DEF Sh!ReadLine
  <2>1. /\ args = << >> /\ output = "" /\ append = FALSE /\ status = 0 /\ ran = {}
        /\ pos = 1
    <3>1. line = << >> /\ Len(<< >>) = 0
      BY DEF Sh!NothingRanYet
    <3>2. pos = 1
      BY <3>1 DEF Sh!ShellTypes
    <3> QED
      BY <3>2 DEF Sh!NothingRanYet
  <2>2. line' \in Seq(Sh!Tokens) /\ pos' \in 1 .. Len(line') + 1
    <3>1. PICK k \in 0 .. MaxTokens : line' \in [1 .. k -> Sh!Tokens]
      BY DEF Sh!Lines
    <3>2. line' \in Seq(Sh!Tokens)
      <4>1. MaxTokens \in Nat
        BY LineAssumption
      <4>2. k \in Nat
        BY <4>1
      <4> QED
        BY <3>1, <4>2, SeqDef, Zenon
    <3>3. Len(line') \in Nat
      BY <3>2
    <3>4. pos' = 1
      BY <2>1
    <3> QED
      BY <3>2, <3>3, <3>4
  <2>3. Sh!ShellTypes'
    BY <2>1, <2>2 DEF Sh!ShellTypes
  <2>4. Sh!Part(1)' = {} /\ ~Sh!IsFile(1)'
    BY DEF Sh!Part, Sh!IsFile
  <2>5. Sh!Own(1)' = {} /\ Sh!FilesOf(1)' = {} /\ Sh!SignsOf(1)' = {}
    BY <2>4 DEF Sh!Own, Sh!FilesOf, Sh!SignsOf
  <2>6. Sh!AreArgsOf(1, << >>)'
    BY <2>5, FS_EmptySet, ShellCardinality DEF Sh!AreArgsOf
  <2>7. Sh!OutputOf(1)' = "" /\ Sh!AppendOf(1)' = FALSE
    BY <2>5 DEF Sh!OutputOf, Sh!AppendOf
  <2>8. Sh!CollectsItsOwn'
    BY <2>1, <2>4, <2>6, <2>7 DEF Sh!CollectsItsOwn
  <2>9. Sh!StatusBefore(1)' = 0 /\ \A e \in Sh!Ends' : ~(e < 1)
    <3>1. Len(line') \in Nat
      BY <2>2
    <3>2. Sh!StatusBefore(1)' = 0
      BY <2>1 DEF Sh!StatusBefore
    <3> QED
      BY <3>1, <3>2 DEF Sh!Ends
  <2>10. Sh!DecidesInOrder' /\ Sh!CommandsAreTheirOwn'
    BY <2>1, <2>9 DEF Sh!DecidesInOrder, Sh!CommandsAreTheirOwn
  <2> QED
    BY <2>3, <2>8, <2>10 DEF Sh!NothingRanYet, Sh!SignsLookBack
<1>2. CASE Sh!Exit \/ Sh!Abort
  <2> USE <1>2 DEF Sh!Exit, Sh!Abort
  <2>1. Sh!ShellTypes' /\ Sh!NothingRanYet' /\ ran' = {} /\ shell' \in {"exited", "aborted"}
    BY DEF Sh!ShellTypes, Sh!NothingRanYet
  <2> QED
    BY <2>1 DEF Sh!CollectsItsOwn, Sh!DecidesInOrder, Sh!CommandsAreTheirOwn,
                Sh!SignsLookBack
<1>3. CASE Sh!Return
  <2>1. /\ line' = << >> /\ pos' = 1 /\ args' = << >> /\ output' = "" /\ append' = FALSE
        /\ status' = 0 /\ ran' = {} /\ shell' = "prompt"
    BY <1>3 DEF Sh!Return, Sh!NoLocals
  <2>2. Sh!NothingRanYet'
    BY <2>1 DEF Sh!NothingRanYet
  <2>3. Sh!ShellTypes'
    <3>1. line' \in Seq(Sh!Tokens) /\ args' \in Seq(Words) /\ Len(line') = 0
      BY <2>1, EmptySeq
    <3>2. pos' \in 1 .. Len(line') + 1
      <4>1. pos' = 1
        BY <2>1
      <4> QED
        BY <3>1, <4>1
    <3>3. status' \in Sh!Statuses
      BY <2>1 DEF Sh!Statuses
    <3> QED
      BY <2>1, <3>1, <3>2, <3>3 DEF Sh!ShellTypes
  <2> QED
    BY <2>1, <2>2, <2>3 DEF Sh!CollectsItsOwn, Sh!DecidesInOrder,
                            Sh!CommandsAreTheirOwn, Sh!SignsLookBack
<1> QED
  BY <1>1, <1>2, <1>3

\* A word of the command that is read.
LEMMA ShellStepOfArgument ==
  ASSUME Sh!ShellInv, Sh!Argument
  PROVE  Sh!ShellInv'
<1> USE DEF Sh!ShellInv
<1>1. /\ shell = "parse" /\ shell' = "parse" /\ line' = line /\ ran' = ran
      /\ pos \in 1 .. Len(line) /\ pos' = pos + 1 /\ line[pos] \in Words
      /\ args' = Append(args, line[pos]) /\ status' = status
      /\ output' = output /\ append' = append
  BY DEF Sh!Argument, Sh!Reads, Sh!ShellTypes
<1>2. line \in Seq(Sh!Tokens) /\ args \in Seq(Words)
  BY DEF Sh!ShellTypes
<1>3. ~Sh!IsFile(pos)
  BY <1>1 DEF Sh!CollectsItsOwn
<1>4. line[pos] \notin Sh!Connectors /\ line[pos] \notin Sh!Redirects
  BY <1>1, LineAssumption DEF Sh!Connectors, Sh!Redirects
<1>5. pos \notin Sh!Ends /\ ~Sh!IsFile(pos + 1)
  BY <1>1, <1>2, <1>4, EndsAndFiles, FileAfter
<1>6. Sh!Part(pos + 1) = Sh!Part(pos) \cup {pos}
  BY <1>1, <1>2, <1>5, PartGrows
<1>7. Sh!Own(pos + 1) = Sh!Own(pos) \cup {pos}
  BY <1>1, <1>3, <1>6 DEF Sh!Own
<1>8. Sh!FilesOf(pos + 1) = Sh!FilesOf(pos) /\ Sh!SignsOf(pos + 1) = Sh!SignsOf(pos)
  BY <1>3, <1>4, <1>6 DEF Sh!FilesOf, Sh!SignsOf
<1>9. Sh!CollectsItsOwn'
  <2>1. Sh!AreArgsOf(pos + 1, Append(args, line[pos]))
    BY <1>1, <1>2, <1>7, ArgsGrow DEF Sh!CollectsItsOwn
  <2>2. output = Sh!OutputOf(pos + 1) /\ append = Sh!AppendOf(pos + 1)
    BY <1>1, <1>8 DEF Sh!CollectsItsOwn, Sh!OutputOf, Sh!AppendOf
  <2>3. PICK p : p = pos + 1
    OBVIOUS
  <2> QED
    BY <1>1, <1>5, <2>1, <2>2, <2>3, MeaningKept DEF Sh!CollectsItsOwn
<1>10. Sh!DecidesInOrder'
  <2>1. PICK p \in Nat : p = pos + 1
    BY <1>1
  <2>2. \A e \in Sh!Ends : ~(pos <= e /\ e < p)
    BY <1>1, <1>2, <1>5, <2>1, EndsAndFiles
  <2> QED
    BY <1>1, <1>2, <2>1, <2>2, ReadsOn
<1>11. Sh!ShellTypes' /\ Sh!CommandsAreTheirOwn'
  BY <1>1, DecisionsKept DEF Sh!ShellTypes
<1> QED
  BY <1>1, <1>9, <1>10, <1>11 DEF Sh!NothingRanYet, Sh!SignsLookBack

\* > or >>, with the word behind it if there is one.
LEMMA ShellStepOfRedirect ==
  ASSUME Sh!ShellInv, Sh!Redirect
  PROVE  Sh!ShellInv'
<1> USE DEF Sh!ShellInv
<1>1. /\ shell = "parse" /\ shell' = "parse" /\ line' = line /\ ran' = ran
      /\ pos \in 1 .. Len(line) /\ line[pos] \in Sh!Redirects
      /\ args' = args /\ status' = status
      /\ append' = (line[pos] = ">>")
  BY DEF Sh!Redirect, Sh!Reads, Sh!ShellTypes
<1>2. line \in Seq(Sh!Tokens) /\ args \in Seq(Words) /\ Len(line) \in Nat /\ pos \in Nat
  BY DEF Sh!ShellTypes
<1>3. ~Sh!IsFile(pos)
  BY <1>1 DEF Sh!CollectsItsOwn
<1>4. line[pos] \notin Sh!Connectors /\ line[pos] \notin Words
  BY <1>1, LineAssumption DEF Sh!Connectors, Sh!Redirects
<1>5. pos \notin Sh!Ends /\ Sh!IsFile(pos + 1)
  BY <1>1, <1>2, <1>3, <1>4, EndsAndFiles, FileAfter
<1>6. Sh!Part(pos + 1) = Sh!Part(pos) \cup {pos}
  BY <1>1, <1>2, <1>5, PartGrows
<1>7. /\ Sh!Own(pos + 1) = Sh!Own(pos) /\ Sh!FilesOf(pos + 1) = Sh!FilesOf(pos)
      /\ Sh!SignsOf(pos + 1) = Sh!SignsOf(pos) \cup {pos}
  BY <1>1, <1>3, <1>4, <1>6 DEF Sh!Own, Sh!FilesOf, Sh!SignsOf
<1>8. \A q \in Sh!SignsOf(pos) \cup Sh!FilesOf(pos) : q \in Int /\ q < pos
  BY <1>1 DEF Sh!SignsOf, Sh!FilesOf, Sh!Part
<1>9. Sh!AppendOf(pos + 1) = (line[pos] = ">>")
  <2>1. pos \in Int /\ \A q \in Sh!SignsOf(pos) : q \in Int /\ q < pos
    BY <1>2, <1>8
  <2>2. Sh!Max(Sh!SignsOf(pos) \cup {pos}) = pos
    BY <2>1, LargestAdded
  <2> QED
    BY <1>7, <2>2 DEF Sh!AppendOf
<1>10. Sh!CommandsAreTheirOwn'
  BY <1>1, DecisionsKept
<1>11. CASE pos = Len(line)
  <2>1. output' = output /\ pos' = pos + 1
    BY <1>11 DEF Sh!Redirect
  <2>2. Sh!AreArgsOf(pos + 1, args) /\ output = Sh!OutputOf(pos + 1)
    BY <1>1, <1>7 DEF Sh!CollectsItsOwn, Sh!AreArgsOf, Sh!OutputOf
  <2>3. PICK p \in Nat : p = pos + 1
    BY <1>1
  <2>4. Sh!CollectsItsOwn'
    BY <1>1, <1>9, <1>11, <2>1, <2>2, <2>3, MeaningKept DEF Sh!CollectsItsOwn
  <2>5. \A e \in Sh!Ends : ~(pos <= e /\ e < p)
    BY <1>1, <1>2, <1>5, <2>3, EndsAndFiles
  <2>6. Sh!DecidesInOrder'
    BY <1>1, <1>2, <2>1, <2>3, <2>5, ReadsOn
  <2>7. Sh!ShellTypes'
    BY <1>1, <1>2, <2>1 DEF Sh!ShellTypes
  <2> QED
    BY <1>1, <1>10, <2>4, <2>6, <2>7 DEF Sh!NothingRanYet, Sh!SignsLookBack
<1>12. CASE pos < Len(line)
  <2>1. output' = line[pos + 1] /\ pos' = pos + 2 /\ pos + 1 \in 1 .. Len(line)
    BY <1>1, <1>2, <1>12 DEF Sh!Redirect
  <2>2. pos + 1 \notin Sh!Ends /\ ~Sh!IsFile(pos + 1 + 1)
    BY <1>2, <1>5, <2>1, EndsAndFiles, FileAfter
  <2>3. PICK p \in Nat : p = pos + 1 + 1
    BY <1>1
  <2>4. pos' = p /\ ~Sh!IsFile(p)
    BY <1>1, <2>1, <2>2, <2>3
  <2>5. Sh!Part(p) = Sh!Part(pos + 1) \cup {pos + 1}
    BY <1>2, <2>1, <2>2, <2>3, PartGrows
  <2>6. /\ Sh!Own(p) = Sh!Own(pos) /\ Sh!SignsOf(p) = Sh!SignsOf(pos + 1)
        /\ Sh!FilesOf(p) = Sh!FilesOf(pos) \cup {pos + 1}
    <3>1. /\ Sh!Own(p) = Sh!Own(pos + 1) /\ Sh!SignsOf(p) = Sh!SignsOf(pos + 1)
          /\ Sh!FilesOf(p) = Sh!FilesOf(pos + 1) \cup {pos + 1}
      BY <1>5, <2>5 DEF Sh!Own, Sh!FilesOf, Sh!SignsOf
    <3> QED
      BY <1>7, <3>1
  <2>7. Sh!OutputOf(p) = line[pos + 1]
    <3>1. pos + 1 \in Int /\ \A q \in Sh!FilesOf(pos) : q \in Int /\ q < pos + 1
      BY <1>1, <1>8
    <3>2. Sh!Max(Sh!FilesOf(pos) \cup {pos + 1}) = pos + 1
      BY <3>1, LargestAdded
    <3> QED
      BY <2>6, <3>2 DEF Sh!OutputOf
  <2>8. Sh!AreArgsOf(p, args) /\ Sh!AppendOf(p) = (line[pos] = ">>")
    <3>1. Sh!AreArgsOf(pos, args)
      BY <1>1 DEF Sh!CollectsItsOwn
    <3>2. Sh!AreArgsOf(p, args)
      BY <2>6, <3>1 DEF Sh!AreArgsOf
    <3>3. Sh!AppendOf(p) = Sh!AppendOf(pos + 1)
      BY <2>6 DEF Sh!AppendOf
    <3> QED
      BY <1>9, <3>2, <3>3
  <2>9. Sh!CollectsItsOwn'
    BY <1>1, <2>1, <2>4, <2>7, <2>8, MeaningKept DEF Sh!CollectsItsOwn
  <2>10. \A e \in Sh!Ends : ~(pos <= e /\ e < p)
    BY <1>1, <1>2, <1>5, <2>2, <2>3, EndsAndFiles
  <2>11. Sh!DecidesInOrder'
    BY <1>1, <1>2, <2>3, <2>4, <2>10, ReadsOn
  <2>12. Sh!ShellTypes'
    BY <1>1, <1>2, <2>1 DEF Sh!ShellTypes
  <2> QED
    BY <1>1, <1>10, <2>9, <2>11, <2>12 DEF Sh!NothingRanYet, Sh!SignsLookBack
<1> QED
  BY <1>1, <1>2, <1>11, <1>12

\* A command that is executed at p is decided, and its own.
LEMMA ExecutedAt ==
  ASSUME line' = line, Sh!CommandsAreTheirOwn,
         \A d \in ran : d.at \in Int /\ d.at < pos,
         pos \in Sh!Ends, Sh!AreArgsOf(pos, args),
         output = Sh!OutputOf(pos), append = Sh!AppendOf(pos),
         NEW s, Sh!Execute(s)
  PROVE  Sh!CommandsAreTheirOwn' /\ \E c \in ran' : c.at = pos
<1> DEFINE new == [at |-> pos, args |-> args, output |-> output,
                   append |-> append, status |-> s]
<1>1. ran' = ran \cup {new}
  BY DEF Sh!Execute
<1>2. /\ new.at = pos /\ new.args = args /\ new.output = output /\ new.append = append
  OBVIOUS
<1>3. ASSUME NEW c \in ran'
      PROVE  /\ c.at \in Sh!Ends /\ Sh!AreArgsOf(c.at, c.args)
             /\ c.output = Sh!OutputOf(c.at) /\ c.append = Sh!AppendOf(c.at)
  <2> HIDE DEF new
  <2> QED
    BY <1>1, <1>2 DEF Sh!CommandsAreTheirOwn
<1> QED
  BY <1>1, <1>2, <1>3, MeaningKept DEF Sh!CommandsAreTheirOwn

\* A sign: the command on its left is executed or not, and forgotten.
LEMMA ShellStepOfConnect ==
  ASSUME Sh!ShellInv, Sh!Connect
  PROVE  Sh!ShellInv'
<1> USE DEF Sh!ShellInv
<1>1. /\ shell = "parse" /\ shell' = "parse" /\ line' = line
      /\ pos <= Len(line) /\ line[pos] \in Sh!Connectors /\ pos' = pos + 1
      /\ args' = << >> /\ output' = "" /\ append' = FALSE
  BY DEF Sh!Connect, Sh!Reads, Sh!Clear
<1>2. line \in Seq(Sh!Tokens) /\ Len(line) \in Nat /\ pos \in 1 .. Len(line)
  <2>1. line \in Seq(Sh!Tokens) /\ pos \in 1 .. Len(line) + 1
    BY DEF Sh!ShellTypes
  <2>2. pos <= Len(line)
    BY <1>1
  <2> QED
    BY <2>1, <2>2
<1>3. PICK x \in 1 .. Len(line), p \in Nat : x = pos /\ p = x + 1
  BY <1>2
<1>4. /\ Sh!AreArgsOf(x, args) /\ output = Sh!OutputOf(x) /\ append = Sh!AppendOf(x)
      /\ ~Sh!IsFile(x)
  BY <1>1, <1>3 DEF Sh!CollectsItsOwn
<1>5. line[x] \notin Sh!Redirects
  BY <1>1, <1>3 DEF Sh!Connectors, Sh!Redirects
<1>6. x \in Sh!Ends /\ ~Sh!IsFile(p)
  BY <1>1, <1>2, <1>3, <1>4, <1>5, EndsAndFiles, FileAfter
<1>7. /\ status = Sh!StatusBefore(x) /\ \A e \in Sh!Ends : e < x => Sh!FollowsRule(e)
      /\ \A c \in ran : c.at < x
  BY <1>1, <1>3 DEF Sh!DecidesInOrder
<1>8. \A d \in ran : d.at \in Int /\ d.at < x
  <2>1. \A d \in ran : d.at \in Sh!Ends
    BY DEF Sh!CommandsAreTheirOwn
  <2> QED
    BY <1>2, <1>7, <2>1, EndsAndFiles
<1>9. /\ Sh!Own(p) = {} /\ Sh!FilesOf(p) = {} /\ Sh!SignsOf(p) = {}
  <2>1. Sh!Part(p) = {}
    BY <1>2, <1>3, <1>6, PartBegins
  <2> QED
    BY <2>1 DEF Sh!Own, Sh!FilesOf, Sh!SignsOf
<1>10. Sh!CollectsItsOwn'
  <2>1. Sh!AreArgsOf(p, << >>) /\ Sh!OutputOf(p) = "" /\ Sh!AppendOf(p) = FALSE
    BY <1>9, NoArgs DEF Sh!OutputOf, Sh!AppendOf
  <2>2. pos' = p
    BY <1>1, <1>3
  <2> QED
    BY <1>1, <1>6, <2>1, <2>2, MeaningKept DEF Sh!CollectsItsOwn
<1>11. ASSUME status' \in Sh!Statuses, Sh!CommandsAreTheirOwn',
              \A c \in ran' : c.at < p,
              status' = Sh!StatusBefore(p)',
              \A e \in Sh!Ends : e <= x => Sh!FollowsRule(e)'
       PROVE  Sh!ShellInv'
  <2>1. Sh!ShellTypes'
    <3>1. pos' \in 1 .. Len(line') + 1 /\ line' \in Seq(Sh!Tokens)
      <4>1. line' = line /\ pos' = pos + 1
        BY <1>1
      <4> QED
        BY <1>2, <4>1
    <3>2. args' \in Seq(Words)
      BY <1>1, EmptySeq
    <3> QED
      BY <1>1, <1>11, <3>1, <3>2 DEF Sh!ShellTypes
  <2>2. \A e \in Sh!Ends : e < p => e <= x
    <3>1. Sh!Ends \subseteq Int
      BY <1>2, EndsAndFiles
    <3> QED
      BY <1>3, <3>1
  <2>3. Sh!DecidesInOrder'
    <3>1. pos' = p /\ Sh!Ends' = Sh!Ends
      BY <1>1, <1>3, MeaningKept
    <3> QED
      BY <1>11, <2>2, <3>1 DEF Sh!DecidesInOrder
  <2> QED
    BY <1>1, <1>10, <1>11, <2>1, <2>3 DEF Sh!NothingRanYet, Sh!SignsLookBack
<1>12. line[x] = ";" \/ line[x] = "&&" \/ line[x] = "||"
  BY <1>1, <1>3 DEF Sh!Connectors
<1>13. ASSUME Sh!Runs(line[x]) PROVE Sh!ShellInv'
  <2>1. PICK s \in Sh!Outcomes : Sh!Execute(s) /\ status' = s
    BY <1>3, <1>13 DEF Sh!Connect
  <2>2. s \in Sh!Statuses
    BY DEF Sh!Outcomes
  <2>3. PICK c : c = [at |-> pos, args |-> args, output |-> output,
                      append |-> append, status |-> s]
    OBVIOUS
  <2>4. ran' = ran \cup {c} /\ c.at = x /\ c.status = s
    BY <1>3, <2>1, <2>3 DEF Sh!Execute
  <2>5. Sh!CommandsAreTheirOwn'
    BY <1>1, <1>3, <1>4, <1>6, <1>8, <2>1, ExecutedAt
  <2>6. \A e \in Int : e <= x =>
          /\ Sh!StatusBefore(e)' = Sh!StatusBefore(e)
          /\ e < x => (Sh!FollowsRule(e)' <=> Sh!FollowsRule(e))
    <3>1. x \in Int
      BY <1>2, <1>3
    <3>2. line' = line
      BY <1>1
    <3> QED
      BY <1>8, <2>4, <3>1, <3>2, EarlierDecisionsKept
  <2>7. Sh!StatusBefore(p)' = s
    BY <1>3, <1>8, <2>4, StatusOfLast
  <2>8. Sh!FollowsRule(x)'
    <3>1. Sh!StatusBefore(x)' = status /\ ~(x > Len(line'))
      <4>1. x \in Int /\ x <= x /\ ~(x > Len(line))
        BY <1>2, <1>3
      <4>2. line' = line
        BY <1>1
      <4> QED
        BY <1>7, <2>6, <4>1, <4>2
    <3>2. line'[x] = ";" \/ (line'[x] = "&&") = (status = 0)
      BY <1>1, <1>12, <1>13 DEF Sh!Runs
    <3>3. \E d \in ran' : d.at = x
      BY <2>4
    <3> QED
      BY <3>1, <3>2, <3>3 DEF Sh!FollowsRule
  <2>9. \A e \in Sh!Ends : e <= x => Sh!FollowsRule(e)'
    <3>1. Sh!Ends \subseteq Int
      BY <1>2, EndsAndFiles
    <3> QED
      BY <1>3, <1>7, <2>6, <2>8, <3>1
  <2>10. \A d \in ran' : d.at < p
    BY <1>3, <1>8, <2>4
  <2> QED
    BY <1>11, <2>1, <2>2, <2>5, <2>7, <2>9, <2>10
<1>14. ASSUME ~Sh!Runs(line[x]) PROVE Sh!ShellInv'
  <2>1. ran' = ran /\ status' = status
    BY <1>3, <1>14 DEF Sh!Connect
  <2>2. Sh!StatusBefore(p)' = status
    <3>1. {d \in ran : d.at < p} = {d \in ran : d.at < x}
      BY <1>3, <1>8
    <3>2. Sh!StatusBefore(p) = Sh!StatusBefore(x)
      BY <3>1 DEF Sh!StatusBefore
    <3> QED
      BY <1>1, <1>7, <2>1, <3>2, DecisionsKept
  <2>3. Sh!FollowsRule(x)'
    <3>1. Sh!StatusBefore(x)' = status /\ ~(x > Len(line'))
      <4>1. ~(x > Len(line))
        BY <1>2, <1>3
      <4>2. line' = line
        BY <1>1
      <4> QED
        BY <1>7, <2>1, <4>1, <4>2, DecisionsKept
    <3>2. line'[x] # ";" /\ ~((line'[x] = "&&") = (status = 0))
      BY <1>1, <1>12, <1>14 DEF Sh!Runs
    <3>3. ~(\E d \in ran' : d.at = x)
      BY <1>3, <1>8, <2>1
    <3> QED
      BY <3>1, <3>2, <3>3 DEF Sh!FollowsRule
  <2>4. \A e \in Sh!Ends : e <= x => Sh!FollowsRule(e)'
    <3>1. Sh!Ends \subseteq Int
      BY <1>2, EndsAndFiles
    <3>2. \A e \in Sh!Ends : e < x => Sh!FollowsRule(e)'
      BY <1>1, <1>7, <2>1, DecisionsKept
    <3> QED
      BY <1>3, <2>3, <3>1, <3>2
  <2>5. status' \in Sh!Statuses /\ Sh!CommandsAreTheirOwn'
    BY <1>1, <2>1, DecisionsKept DEF Sh!ShellTypes
  <2>6. \A d \in ran' : d.at < p
    BY <1>3, <1>8, <2>1
  <2> QED
    BY <1>11, <2>1, <2>2, <2>4, <2>5, <2>6
<1> QED
  BY <1>13, <1>14

\* The end of the line: what is left is executed.
LEMMA ShellStepOfEndOfLine ==
  ASSUME Sh!ShellInv, Sh!EndOfLine
  PROVE  Sh!ShellInv'
<1> USE DEF Sh!ShellInv
<1>1. /\ shell = "parse" /\ shell' = "done" /\ line' = line /\ pos > Len(line)
      /\ pos' = pos /\ args' = args /\ status' = status
  BY DEF Sh!EndOfLine
<1>2. /\ line \in Seq(Sh!Tokens) /\ args \in Seq(Words) /\ Len(line) \in Nat
      /\ pos = Len(line) + 1
  BY <1>1 DEF Sh!ShellTypes
<1>3. PICK x \in Nat : x = pos
  BY <1>2
<1>4. Sh!AreArgsOf(x, args) /\ output = Sh!OutputOf(x) /\ append = Sh!AppendOf(x)
  BY <1>1, <1>3 DEF Sh!CollectsItsOwn
<1>5. x \in Sh!Ends /\ \A e \in Sh!Ends : e \in Int /\ (e < x \/ e = x)
  BY <1>2, <1>3, EndsAndFiles
<1>6. \A e \in Sh!Ends : e < x => Sh!FollowsRule(e)
  BY <1>1, <1>3 DEF Sh!DecidesInOrder
<1>7. \A d \in ran : d.at \in Int /\ d.at < x
  BY <1>1, <1>3, <1>5 DEF Sh!DecidesInOrder, Sh!CommandsAreTheirOwn
<1>8. args # << >> <=> Sh!Own(x) # {}
  <2>1. Len(args) = Cardinality(Sh!Own(x))
    BY <1>4, ShellCardinality DEF Sh!AreArgsOf
  <2>2. Cardinality(Sh!Own(x)) = 0 <=> Sh!Own(x) = {}
    BY OwnIsFinite, FS_EmptySet
  <2>3. Len(args) = 0 <=> args = << >>
    BY <1>2, EmptySeq
  <2> QED
    BY <2>1, <2>2, <2>3
<1>9. ASSUME Sh!CommandsAreTheirOwn', \A e \in Sh!Ends : e < x => Sh!FollowsRule(e)',
             (\E d \in ran' : d.at = x) <=> Sh!Own(x) # {}
      PROVE  Sh!ShellInv'
  <2>1. Sh!FollowsRule(x)'
    <3>1. x > Len(line') /\ Sh!Own(x)' = Sh!Own(x)
      BY <1>1, <1>3, MeaningKept
    <3> QED
      BY <1>9, <3>1 DEF Sh!FollowsRule
  <2>2. \A e \in Sh!Ends' : Sh!FollowsRule(e)'
    BY <1>1, <1>5, <1>9, <2>1, MeaningKept
  <2>3. Sh!ShellTypes'
    BY <1>1 DEF Sh!ShellTypes
  <2> QED
    BY <1>1, <1>9, <2>2, <2>3
       DEF Sh!NothingRanYet, Sh!CollectsItsOwn, Sh!DecidesInOrder, Sh!SignsLookBack
<1>10. ASSUME args # << >> PROVE Sh!ShellInv'
  <2>1. PICK s \in Sh!Outcomes : Sh!Execute(s)
    BY <1>10 DEF Sh!EndOfLine
  <2>2. PICK c : c = [at |-> pos, args |-> args, output |-> output,
                      append |-> append, status |-> s]
    OBVIOUS
  <2>3. ran' = ran \cup {c} /\ c.at = x
    BY <1>3, <2>1, <2>2 DEF Sh!Execute
  <2>4. Sh!CommandsAreTheirOwn'
    BY <1>1, <1>3, <1>4, <1>5, <1>7, <2>1, ExecutedAt
  <2>5. \A e \in Int : e <= x =>
          (e < x => (Sh!FollowsRule(e)' <=> Sh!FollowsRule(e)))
    BY <1>1, <1>3, <1>7, <2>3, EarlierDecisionsKept
  <2>6. \A e \in Sh!Ends : e < x => Sh!FollowsRule(e)'
    BY <1>5, <1>6, <2>5
  <2>7. (\E d \in ran' : d.at = x) <=> Sh!Own(x) # {}
    BY <1>8, <1>10, <2>3
  <2> QED
    BY <1>9, <2>4, <2>6, <2>7
<1>11. ASSUME args = << >> PROVE Sh!ShellInv'
  <2>1. ran' = ran
    BY <1>11 DEF Sh!EndOfLine
  <2>2. Sh!CommandsAreTheirOwn' /\ \A e \in Sh!Ends : e < x => Sh!FollowsRule(e)'
    BY <1>1, <1>6, <2>1, DecisionsKept
  <2>3. (\E d \in ran' : d.at = x) <=> Sh!Own(x) # {}
    BY <1>7, <1>8, <1>11, <2>1
  <2> QED
    BY <1>9, <2>2, <2>3
<1> QED
  BY <1>10, <1>11

\* What the shell has collected and decided when it stands at a word is what
\* the line up to there means: the invariant the next two theorems rest on.
THEOREM ShellInductive ==
  ProgramsSpec => []Sh!ShellInv
<1>1. ProgramsInit => Sh!ShellInv
  BY ShellStart DEF ProgramsInit
<1>2. Sh!ShellInv /\ [ProgramsNext]_allVars => Sh!ShellInv'
  <2> SUFFICES ASSUME Sh!ShellInv, [ProgramsNext]_allVars PROVE Sh!ShellInv'
    OBVIOUS
  <2>1. Sh!Next \/ UNCHANGED shVars
    BY DEF ProgramsNext, allVars, shVars
  <2>2. CASE UNCHANGED shVars
    <3>1. /\ line' = line /\ ran' = ran /\ shell' = shell /\ pos' = pos
          /\ args' = args /\ output' = output /\ append' = append /\ status' = status
      BY <2>2 DEF shVars
    <3>2. Sh!ShellTypes' /\ Sh!NothingRanYet' /\ Sh!CommandsAreTheirOwn'
      BY <3>1, DecisionsKept DEF Sh!ShellInv, Sh!ShellTypes, Sh!NothingRanYet
    <3>3. PICK x : x = pos
      OBVIOUS
    <3>4. Sh!CollectsItsOwn'
      BY <3>1, <3>3, MeaningKept DEF Sh!ShellInv, Sh!CollectsItsOwn
    <3>5. Sh!DecidesInOrder'
      BY <3>1, <3>3, MeaningKept, DecisionsKept DEF Sh!ShellInv, Sh!DecidesInOrder
    <3>6. Sh!SignsLookBack'
      BY <3>1, MeaningKept, DecisionsKept DEF Sh!ShellInv, Sh!SignsLookBack
    <3> QED
      BY <3>2, <3>4, <3>5, <3>6 DEF Sh!ShellInv
  <2>3. CASE Sh!Next
    BY <2>3, ShellStepOfPrompt, ShellStepOfArgument, ShellStepOfRedirect,
       ShellStepOfConnect, ShellStepOfEndOfLine DEF Sh!Next
  <2> QED
    BY <2>1, <2>2, <2>3
<1> QED
  BY <1>1, <1>2, PTL DEF ProgramsSpec

\* PS-2: in a line of any length every command is executed with its own words
\* and its own last redirection, whatever was skipped before it.
THEOREM CommandsKeepTheirOwn ==
  ProgramsSpec => []CommandsAreTheirOwn
<1>1. Sh!ShellInv => CommandsAreTheirOwn
  BY DEF Sh!ShellInv, CommandsAreTheirOwn
<1> QED
  BY <1>1, ShellInductive, PTL

\* PS-2: in a line of any length a command is executed exactly if the sign
\* behind it and the status of the last command executed before it say so.
THEOREM SignsDecide ==
  ProgramsSpec => []SignsLookBack
<1>1. Sh!ShellInv => SignsLookBack
  BY DEF Sh!ShellInv, SignsLookBack
<1> QED
  BY <1>1, ShellInductive, PTL

(***************************************************************************)
(* FS-10: files and buffers of any length, with any holes.                 *)
(***************************************************************************)

\* What Min and Max are of the sets they are applied to.
LEMMA SmallestOf ==
  ASSUME NEW S, S \subseteq Nat, S # {}
  PROVE  Holes!Min(S) \in S /\ \A x \in S : Holes!Min(S) <= x
<1>1. PICK x \in S : \A y \in S : ~(y < x)
  BY SmallestNumber
<1>2. \A y \in S : x <= y
  BY <1>1
<1> QED
  BY <1>2 DEF Holes!Min

LEMMA OfTwo ==
  ASSUME NEW a \in Int, NEW c \in Int
  PROVE  /\ Holes!Min({a, c}) = IF a <= c THEN a ELSE c
         /\ Holes!Max({a, c}) = IF a <= c THEN c ELSE a
BY DEF Holes!Min, Holes!Max

LEMMA MultipleOf ==
  ASSUME NEW b \in Int, b > 0, NEW x \in Int, x % b = 0
  PROVE  \E q \in Int : x = q * b
<1>1. PICK q \in Int, r \in Int : q = x \div b /\ r = x % b /\ x = q * b + r
  BY DivMod
<1>2. x = q * b
  BY <1>1
<1> QED
  BY <1>2

\* The boundaries of buffers: the next multiple of the buffer's size, and none
\* before it.
LEMMA Boundaries ==
  ASSUME NEW x \in Nat, x % BufferSize = 0
  PROVE  /\ (x + BufferSize) % BufferSize = 0
         /\ \A y \in Nat : x < y /\ y < x + BufferSize => y % BufferSize # 0
<1> DEFINE B == BufferSize
<1>1. B \in Int /\ B > 0
  BY CopyAssumption
<1>0. x % B = 0
  OBVIOUS
<1> HIDE DEF B
<1>2. PICK q \in Int : x = q * B
  BY <1>0, <1>1, MultipleOf
<1>3. ASSUME NEW y \in Nat, x < y, y < x + B, y % B = 0 PROVE FALSE
  <2>1. PICK r \in Int : y = r * B
    BY <1>1, <1>3, MultipleOf
  <2>2. (r - q) * B = y - x
    BY <1>1, <1>2, <2>1
  <2>3. r - q = 0
    <3>1. r - q \in Int /\ -B < (r - q) * B /\ (r - q) * B < B
      BY <1>1, <1>3, <2>2
    <3> QED
      BY <1>1, <3>1, SmallMultiple
  <2>4. y = x
    BY <1>2, <2>1, <2>3
  <2> QED
    BY <1>3, <2>4
<1>4. (x + B) % B = 0
  <2> DEFINE y == x + B
             r == y % B
             p == y \div B
  <2>1. /\ p \in Int /\ r \in Int /\ y = p * B + r /\ 0 <= r /\ r < B
    BY <1>1, DivMod
  <2> HIDE DEF p, r
  <2>2. (q + 1 - p) * B = r
    <3>1. (q + 1 - p) * B = q * B + B - p * B
      BY <1>1, <2>1
    <3> QED
      BY <1>1, <1>2, <2>1, <3>1
  <2>3. q + 1 - p = 0
    <3>1. q + 1 - p \in Int /\ -B < (q + 1 - p) * B /\ (q + 1 - p) * B < B
      BY <1>1, <2>1, <2>2
    <3> QED
      BY <1>1, <3>1, SmallMultiple
  <2>4. r = 0
    BY <1>1, <2>2, <2>3
  <2> QED
    BY <2>4 DEF r
<1> QED
  BY <1>3, <1>4 DEF B

\* What lseek finds: the data and the hole at or behind a position.
LEMMA Seeks ==
  ASSUME Holes!CopyTypes, NEW q \in Nat
  PROVE  /\ Holes!DataFrom(q) = {} => \A k \in q + 1 .. length : k \notin data
         /\ Holes!DataFrom(q) # {} =>
              /\ Holes!Min(Holes!DataFrom(q)) \in q .. length - 1
              /\ Holes!Min(Holes!DataFrom(q)) + 1 \in data
              /\ \A k \in q + 1 .. Holes!Min(Holes!DataFrom(q)) : k \notin data
              /\ Holes!Min(Holes!HoleFrom(q)) \in q .. length
              /\ Holes!Min(Holes!HoleFrom(q)) + 1 \notin data
              /\ \A k \in q + 1 .. Holes!Min(Holes!HoleFrom(q)) : k \in data
<1> DEFINE D == Holes!DataFrom(q)
           H == Holes!HoleFrom(q)
<1>1. length \in Nat /\ data \subseteq 1 .. length
  BY DEF Holes!CopyTypes
<1>2. /\ D \subseteq Nat /\ \A k \in q .. length - 1 : k \in D <=> k + 1 \in data
      /\ D \subseteq q .. length - 1
  BY <1>1 DEF Holes!DataFrom
<1>3. \A k \in q + 1 .. length : k - 1 \in q .. length - 1 /\ k = (k - 1) + 1
  BY <1>1
<1>4. ASSUME D = {}, NEW k \in q + 1 .. length PROVE k \notin data
  BY <1>2, <1>3, <1>4
<1>5. ASSUME D # {}
      PROVE  /\ Holes!Min(D) \in q .. length - 1 /\ Holes!Min(D) + 1 \in data
             /\ \A k \in q + 1 .. Holes!Min(D) : k \notin data
             /\ Holes!Min(H) \in q .. length /\ Holes!Min(H) + 1 \notin data
             /\ \A k \in q + 1 .. Holes!Min(H) : k \in data
  <2>1. PICK d : d = Holes!Min(D)
    OBVIOUS
  <2>2. d \in D /\ \A x \in D : d <= x
    <3> HIDE DEF D
    <3> QED
      BY <1>2, <1>5, <2>1, SmallestOf
  <2>3. d \in q .. length - 1 /\ d + 1 \in data
    BY <1>2, <2>2
  <2>4. ASSUME NEW k \in q + 1 .. d, k \in data PROVE FALSE
    <3>1. k - 1 \in q .. length - 1 /\ (k - 1) + 1 = k /\ ~(d <= k - 1)
      BY <1>1, <2>3
    <3> QED
      BY <1>2, <2>2, <2>4, <3>1
  <2>5. q <= length
    BY <1>1, <2>3
  <2>6. /\ H \subseteq q .. length /\ length \in H
        /\ \A k \in q .. length - 1 : k \in H <=> k + 1 \notin data
    BY <1>1, <2>5 DEF Holes!HoleFrom
  <2>7. PICK h : h = Holes!Min(H)
    OBVIOUS
  <2>8. h \in H /\ \A x \in H : h <= x
    <3>1. H \subseteq Nat /\ H # {}
      BY <1>1, <2>6
    <3> HIDE DEF H
    <3> QED
      BY <2>7, <3>1, SmallestOf
  <2>9. h \in q .. length
    BY <2>6, <2>8
  <2>10. h + 1 \notin data
    <3>1. CASE h = length
      BY <1>1, <3>1
    <3>2. CASE h \in q .. length - 1
      BY <2>6, <2>8, <3>2
    <3> QED
      BY <1>1, <2>9, <3>1, <3>2
  <2>11. ASSUME NEW k \in q + 1 .. h, k \notin data PROVE FALSE
    <3>1. k - 1 \in q .. length - 1 /\ (k - 1) + 1 = k /\ ~(h <= k - 1)
      BY <1>1, <2>9
    <3> QED
      BY <2>6, <2>8, <2>11, <3>1
  <2> HIDE DEF D, H
  <2> QED
    BY <2>1, <2>3, <2>4, <2>7, <2>9, <2>10, <2>11
<1> QED
  BY <1>4, <1>5

\* What a write leaves in the destination.
LEMMA WrittenIs ==
  ASSUME Holes!CopyTypes, NEW w \in Nat, NEW k \in Nat, NEW file,
         file = Holes!Written(Holes!FromBuffer(k, w), write)
  PROVE  /\ file \in Seq(Int) /\ Len(file) = write + w
         /\ \A x \in 1 .. write : file[x] = IF x <= Len(dest) THEN dest[x] ELSE 0
         /\ \A j \in 1 .. w :
              file[write + j] = IF k + j <= Len(block) THEN block[k + j] ELSE -1
<1> DEFINE blocks == Holes!FromBuffer(k, w)
<1>1. /\ dest \in Seq(Int) /\ Len(dest) \in Nat /\ write \in Nat /\ Len(dest) <= write
      /\ block \in Seq(Int) /\ Len(block) \in Nat
  BY DEF Holes!CopyTypes
<1>2. /\ blocks \in Seq(Int) /\ Len(blocks) = w
      /\ \A j \in 1 .. w : blocks[j] = IF k + j <= Len(block) THEN block[k + j] ELSE -1
  BY <1>1 DEF Holes!FromBuffer, Holes!Junk
<1> HIDE DEF blocks
<1>3. Holes!Max({Len(dest), write + Len(blocks)}) = write + w
  <2>1. Len(dest) \in Int /\ write + w \in Int /\ Len(dest) <= write + w
    BY <1>1
  <2> QED
    BY <1>2, <2>1, OfTwo
<1>4. file = [x \in 1 .. write + w |->
               IF x \in write + 1 .. write + w THEN blocks[x - write]
               ELSE IF x \in DOMAIN dest THEN dest[x] ELSE 0]
  BY <1>2, <1>3 DEF blocks, Holes!Written, Holes!Zero
<1>5. /\ file \in Seq(Int) /\ Len(file) = write + w
      /\ \A x \in 1 .. write + w :
           file[x] = IF x \in write + 1 .. write + w THEN blocks[x - write]
                     ELSE IF x \in DOMAIN dest THEN dest[x] ELSE 0
  <2>1. \A x \in write + 1 .. write + w : blocks[x - write] \in Int
    BY <1>1, <1>2
  <2>2. \A x \in DOMAIN dest : dest[x] \in Int
    BY <1>1
  <2>3. write + w \in Nat
    BY <1>1
  <2> QED
    BY <1>4, <2>1, <2>2, <2>3
<1>6. \A x \in 1 .. write : file[x] = IF x <= Len(dest) THEN dest[x] ELSE 0
  BY <1>1, <1>5
<1>7. ASSUME NEW j \in 1 .. w
      PROVE  file[write + j] = IF k + j <= Len(block) THEN block[k + j] ELSE -1
  <2>1. write + j \in 1 .. write + w /\ write + j \in write + 1 .. write + w
        /\ (write + j) - write = j
    BY <1>1
  <2> QED
    BY <1>2, <1>5, <2>1
<1> QED
  BY <1>5, <1>6, <1>7

\* What the source is does not change.
LEMMA SourceKept ==
  ASSUME length' = length, data' = data
  PROVE  /\ \A x : Holes!AlignedUpTo(x)' <=> Holes!AlignedUpTo(x)
         /\ Holes!Aligned' <=> Holes!Aligned
         /\ Holes!Source' = Holes!Source
BY DEF Holes!AlignedUpTo, Holes!Aligned, Holes!Source

\* A block of the source holds its number, or zero in a hole.
LEMMA SourceIs ==
  ASSUME Holes!CopyTypes
  PROVE  /\ Holes!Source \in Seq(Int) /\ Len(Holes!Source) = length
         /\ \A k \in 1 .. length : Holes!Source[k] = IF k \in data THEN k ELSE 0
BY DEF Holes!CopyTypes, Holes!Source, Holes!Zero

\* An aligned beginning goes on over a boundary that is clean, and to the end
\* of the file in its last buffer.
LEMMA AlignedFurther ==
  ASSUME Holes!CopyTypes, NEW x \in Nat, x % BufferSize = 0, Holes!AlignedUpTo(x),
         NEW y \in Nat, y <= x + BufferSize,
         y = x + BufferSize /\ y < length => y \in data /\ y + 1 \notin data,
         y < x + BufferSize => y = length
  PROVE  /\ Holes!AlignedUpTo(y)
         /\ y = length \/ y % BufferSize = 0
<1>1. length \in Nat /\ BufferSize \in Nat
  BY CopyAssumption DEF Holes!CopyTypes
<1>2. /\ (x + BufferSize) % BufferSize = 0
      /\ \A z \in Nat : x < z /\ z < x + BufferSize => z % BufferSize # 0
  BY Boundaries
<1>3. ASSUME NEW b \in 1 .. length - 1, b <= y, b % BufferSize = 0
      PROVE  b \in data /\ b + 1 \notin data
  <2>1. CASE b <= x
    BY <1>3, <2>1 DEF Holes!AlignedUpTo
  <2>2. CASE x < b /\ b < x + BufferSize
    BY <1>1, <1>2, <1>3, <2>2
  <2>3. CASE b = x + BufferSize
    <3>1. b = y
      BY <1>1, <1>3, <2>3
    <3> QED
      BY <1>1, <1>3, <2>3, <3>1
  <2> QED
    BY <1>1, <1>3, <2>1, <2>2, <2>3
<1>4. y = length \/ y % BufferSize = 0
  <2>1. CASE y = x + BufferSize
    BY <1>2, <2>1
  <2> QED
    BY <1>1, <2>1
<1> QED
  BY <1>3, <1>4 DEF Holes!AlignedUpTo

\* A boundary that is not clean makes the file one that is not aligned.
LEMMA NotAligned ==
  ASSUME Holes!CopyTypes, NEW x \in Nat, x % BufferSize = 0, x + BufferSize < length,
         ~(x + BufferSize \in data /\ x + BufferSize + 1 \notin data)
  PROVE  ~Holes!Aligned
<1>1. length \in Nat /\ BufferSize \in Nat /\ BufferSize > 0
  BY CopyAssumption DEF Holes!CopyTypes
<1>2. PICK b \in 1 .. length - 1 : b = x + BufferSize
  BY <1>1
<1>3. b % BufferSize = 0 /\ b <= length
  BY <1>1, <1>2, Boundaries
<1> QED
  BY <1>2, <1>3 DEF Holes!Aligned, Holes!AlignedUpTo

LEMMA CopyStart == Holes!Init => Holes!CopyInv
<1> SUFFICES ASSUME Holes!Init PROVE Holes!CopyInv
  OBVIOUS
<1> USE DEF Holes!Init
<1>1. length \in Nat /\ data \subseteq 1 .. length
  <2>1. MaxLength \in Nat /\ length \in 0 .. MaxLength
    BY CopyAssumption
  <2>2. \A d \in data : d \in 1 .. MaxLength /\ d <= length
    OBVIOUS
  <2> QED
    BY <2>1, <2>2
<1>2. /\ dest \in Seq(Int) /\ block \in Seq(Int) /\ Len(dest) = 0 /\ Len(block) = 0
  BY EmptySeq
<1>3. 0 \in 0 .. length /\ 0 \in 0 .. BufferSize /\ 0 <= BufferSize
  BY <1>1, CopyAssumption
<1>4. Holes!CopyTypes
  BY <1>1, <1>2, <1>3 DEF Holes!CopyTypes
<1>5. Holes!OnTrack
  <2>1. Holes!AlignedUpTo(0)
    BY DEF Holes!AlignedUpTo
  <2>2. 0 % BufferSize = 0
    BY CopyAssumption
  <2> QED
    BY <1>2, <2>1, <2>2 DEF Holes!OnTrack
<1> QED
  BY <1>4, <1>5 DEF Holes!CopyInv, Holes!ExactIffAligned

\* The next buffer, or the end.
LEMMA CopyStepOfRead ==
  ASSUME Holes!CopyInv, Holes!ReadOn
  PROVE  Holes!CopyInv'
<1>1. /\ copy = "read" /\ read' = read + got' /\ cur' = 0
      /\ length' = length /\ data' = data /\ offset' = offset /\ dest' = dest
      /\ write' = write /\ copy' = IF got' = 0 THEN "success" ELSE "seek"
  BY DEF Holes!ReadOn
<1>2. Holes!CopyTypes /\ (Holes!OnTrack \/ (~Holes!Aligned /\ (Holes!OffTrack \/ Holes!Wrong)))
  BY <1>1 DEF Holes!CopyInv
<1>3. /\ length \in Nat /\ data \subseteq 1 .. length /\ read \in 0 .. length
      /\ BufferSize \in Nat /\ BufferSize > 0 /\ offset \in Nat /\ write \in Nat
      /\ dest \in Seq(Int) /\ Len(dest) \in Nat /\ Len(dest) <= write
  BY <1>2, CopyAssumption DEF Holes!CopyTypes
<1>4. got' = IF BufferSize <= length - read THEN BufferSize ELSE length - read
  BY <1>3, OfTwo DEF Holes!ReadOn
<1>num. length \in Nat /\ read \in 0 .. length /\ BufferSize \in Nat /\ BufferSize > 0
  BY <1>3
<1>5. PICK g \in 0 .. BufferSize : /\ g = got' /\ read + g <= length
                                   /\ g = BufferSize \/ read + g = length
  <2>1. PICK g : g = IF BufferSize <= length - read THEN BufferSize ELSE length - read
    OBVIOUS
  <2>2. /\ g \in 0 .. BufferSize /\ read + g <= length
        /\ g = BufferSize \/ read + g = length
    BY <1>num, <2>1
  <2> QED
    BY <1>4, <2>1, <2>2
<1>g. g \in Nat /\ read + g <= length /\ (g = BufferSize \/ read + g = length)
  <2>1. \A y \in 0 .. BufferSize : y \in Nat
    BY <1>num
  <2> QED
    BY <1>5, <2>1
<1>6. /\ block' \in Seq(Int) /\ Len(block') = BufferSize
      /\ \A k \in 1 .. g : block'[k] = Holes!Source[read + k]
  <2>1. block' = [k \in 1 .. BufferSize |->
                    IF k <= g THEN Holes!Source[read + k]
                    ELSE IF k \in DOMAIN block THEN block[k] ELSE Holes!Junk]
    BY <1>5 DEF Holes!ReadOn
  <2>2. \A k \in 1 .. g : Holes!Source[read + k] \in Int
    <3>2. \A k \in 1 .. g : read + k \in 1 .. length
      BY <1>num, <1>g
    <3> QED
      BY <1>2, <3>2, SourceIs
  <2>3. block \in Seq(Int) /\ Holes!Junk \in Int
    BY <1>2 DEF Holes!CopyTypes, Holes!Junk
  <2>4. ASSUME NEW k \in 1 .. BufferSize
        PROVE  (IF k <= g THEN Holes!Source[read + k]
                ELSE IF k \in DOMAIN block THEN block[k] ELSE Holes!Junk) \in Int
    BY <1>5, <2>2, <2>3
  <2> QED
    BY <1>3, <1>5, <2>1, <2>4
<1>7. Holes!CopyTypes'
  <2>1. read' \in 0 .. length'
    <3>1. read + g \in 0 .. length
      BY <1>num, <1>g
    <3> QED
      BY <1>1, <1>5, <3>1
  <2>2. /\ got' \in 0 .. BufferSize /\ (copy' = "seek" => got' > 0)
        /\ copy' \in {"read", "seek", "success", "failed"}
    BY <1>1, <1>5
  <2>3. /\ block' \in Seq(Int) /\ Len(block') <= BufferSize
        /\ copy' = "seek" => Len(block') = BufferSize
    BY <1>num, <1>6
  <2>4. cur' \in Nat
    BY <1>1
  <2> QED
    BY <1>1, <1>3, <2>1, <2>2, <2>3, <2>4 DEF Holes!CopyTypes
<1>8. ASSUME Holes!OnTrack PROVE Holes!CopyInv'
  <2>1. /\ read = offset /\ write = offset /\ Len(dest) = offset
        /\ Holes!AlignedUpTo(offset) /\ (offset = length => offset \in data \cup {0})
        /\ offset = length \/ offset % BufferSize = 0
        /\ \A k \in 1 .. write : dest[k] = Holes!Source[k]
    BY <1>1, <1>3, <1>8 DEF Holes!OnTrack
  <2>2. CASE g = 0
    <3>1. offset = length
      BY <1>3, <1>5, <2>1, <2>2
    <3>2. Holes!Aligned
      BY <2>1, <3>1 DEF Holes!Aligned
    <3>3. dest = Holes!Source
      <4>1. Holes!Source \in Seq(Int) /\ Len(Holes!Source) = length
        BY <1>2, SourceIs
      <4> QED
        BY <1>3, <2>1, <3>1, <4>1, SeqEqual
    <3>4. copy' = "success" /\ dest' = Holes!Source' /\ Holes!Aligned'
      BY <1>1, <1>5, <2>2, <3>2, <3>3, SourceKept
    <3> QED
      BY <1>7, <3>4 DEF Holes!CopyInv, Holes!ExactIffAligned
  <2>3. CASE g # 0
    <3>1. copy' = "seek" /\ ~(0 = g)
      BY <1>1, <1>5, <2>3
    <3>2. offset # length
      <4>1. read # length
        BY <1>num, <1>g, <2>3
      <4> QED
        BY <2>1, <4>1
    <3>3. Holes!OnTrack'
      <4>1. \A k \in 1 .. write' : IF k <= Len(dest') THEN dest'[k] = Holes!Source'[k]
                                                      ELSE k \notin data'
        BY <1>1, <1>3, <2>1, SourceKept
      <4>2. \A k \in 1 .. got' : block'[k] = Holes!Source'[offset' + k]
        BY <1>1, <1>5, <1>6, <2>1, SourceKept
      <4>3. Holes!AlignedUpTo(offset)' /\ offset' = offset
        BY <1>1, <2>1, SourceKept
      <4>4. /\ got' = BufferSize \/ offset' + got' = length'
            /\ offset' + got' <= length'
        BY <1>1, <1>5, <2>1
      <4>5. write' = offset' + cur' /\ cur' <= got' /\ ~(cur' = got')
        BY <1>1, <1>3, <1>5, <2>1, <2>3
      <4> QED
        BY <1>1, <2>1, <3>1, <4>1, <4>2, <4>3, <4>4, <4>5 DEF Holes!OnTrack
    <3> QED
      BY <1>7, <3>1, <3>3 DEF Holes!CopyInv, Holes!ExactIffAligned
  <2> QED
    BY <2>2, <2>3
<1>9. ASSUME ~Holes!Aligned, Holes!OffTrack PROVE Holes!CopyInv'
  <2>1. /\ offset <= write /\ write + 1 \in data /\ read + 1 \notin data
        /\ \A k \in offset + 1 .. write : k \notin data
    BY <1>1, <1>9 DEF Holes!OffTrack
  <2>2. ~Holes!Aligned'
    BY <1>1, <1>9, SourceKept
  <2>3. CASE g = 0
    <3>1. dest # Holes!Source
      <4>1. Len(dest) < length
        BY <1>3, <2>1
      <4> QED
        BY <1>2, <1>3, <4>1, SourceIs
    <3>2. copy' = "success" /\ dest' # Holes!Source'
      BY <1>1, <1>5, <2>3, <3>1, SourceKept
    <3> QED
      BY <1>7, <2>2, <3>2 DEF Holes!CopyInv, Holes!ExactIffAligned
  <2>4. CASE g # 0
    <3>1. copy' = "seek" /\ cur' < got' /\ cur' = 0 /\ ~(cur' >= got')
      BY <1>1, <1>5, <2>4
    <3>2. block'[1] = Holes!Zero
      <4>1. 1 \in 1 .. g /\ read + 1 \in 1 .. length
        BY <1>num, <1>g, <2>4
      <4> QED
        BY <1>2, <1>6, <2>1, <4>1, SourceIs DEF Holes!Zero
    <3>3. Holes!OffTrack'
      BY <1>1, <2>1, <3>1, <3>2 DEF Holes!OffTrack
    <3> QED
      BY <1>7, <2>2, <3>1, <3>3 DEF Holes!CopyInv, Holes!ExactIffAligned
  <2> QED
    BY <2>3, <2>4
<1>10. ASSUME ~Holes!Aligned, Holes!Wrong PROVE Holes!CopyInv'
  <2>1. PICK p \in data : p <= write /\ (p <= Len(dest) => dest[p] # p)
    BY <1>10 DEF Holes!Wrong
  <2>2. dest # Holes!Source
    <3>1. p \in 1 .. length
      BY <1>3
    <3>2. Holes!Source[p] = p /\ Len(Holes!Source) = length
      BY <1>2, <3>1, SourceIs
    <3> QED
      BY <1>3, <2>1, <3>1, <3>2
  <2>3. ~Holes!Aligned' /\ Holes!Wrong' /\ dest' # Holes!Source'
    BY <1>1, <1>10, <2>2, SourceKept DEF Holes!Wrong
  <2> QED
    BY <1>1, <1>7, <2>3 DEF Holes!CopyInv, Holes!ExactIffAligned
<1> QED
  BY <1>2, <1>8, <1>9, <1>10

\* A buffer that has been gone through.
LEMMA CopyStepOfNextBuffer ==
  ASSUME Holes!CopyInv, Holes!NextBuffer
  PROVE  Holes!CopyInv'
<1>1. /\ copy = "seek" /\ copy' = "read" /\ cur >= got /\ offset' = offset + got
      /\ length' = length /\ data' = data /\ read' = read /\ block' = block
      /\ got' = got /\ cur' = cur /\ dest' = dest /\ write' = write
  BY DEF Holes!NextBuffer
<1>2. Holes!CopyTypes /\ (Holes!OnTrack \/ (~Holes!Aligned /\ (Holes!OffTrack \/ Holes!Wrong)))
  BY <1>1 DEF Holes!CopyInv
<1>3. /\ length \in Nat /\ data \subseteq 1 .. length /\ read \in 0 .. length
      /\ BufferSize \in Nat /\ BufferSize > 0 /\ offset \in Nat /\ write \in Nat
      /\ got \in 0 .. BufferSize /\ got > 0 /\ cur \in Nat
  BY <1>1, <1>2, CopyAssumption DEF Holes!CopyTypes
<1>4. Holes!CopyTypes'
  <2>1. offset' \in Nat
    BY <1>1, <1>3
  <2> QED
    BY <1>1, <1>2, <2>1 DEF Holes!CopyTypes
<1>5. ASSUME Holes!OnTrack PROVE Holes!OnTrack'
  <2>1. /\ got = BufferSize \/ offset + got = length
        /\ offset + got <= length
        /\ write = offset + cur /\ cur <= got
        /\ Holes!AlignedUpTo(offset) /\ (offset = length \/ offset % BufferSize = 0)
    BY <1>1, <1>5 DEF Holes!OnTrack
  <2>2. cur = got /\ offset # length
    BY <1>1, <1>3, <2>1
  <2>3. read = write /\ Len(dest) = write /\ write \in data /\ write + 1 \notin data
    BY <1>1, <1>5, <2>2 DEF Holes!OnTrack
  <2>4. PICK y \in Nat : y = offset + got
    BY <1>3
  <2>5. y = write /\ y = offset'
    BY <1>1, <2>1, <2>2, <2>4
  <2>6. Holes!AlignedUpTo(y) /\ (y = length \/ y % BufferSize = 0)
    <3>1. /\ offset % BufferSize = 0 /\ y <= offset + BufferSize
          /\ (y < offset + BufferSize => y = length)
      BY <1>3, <2>1, <2>2, <2>4
    <3> QED
      BY <1>2, <1>3, <2>1, <2>3, <2>5, <3>1, AlignedFurther
  <2>7. Holes!AlignedUpTo(y)'
    BY <1>1, <2>6, SourceKept
  <2>8. \A k \in 1 .. write' : IF k <= Len(dest') THEN dest'[k] = Holes!Source'[k]
                                                  ELSE k \notin data'
    BY <1>1, <1>5, SourceKept DEF Holes!OnTrack
  <2> QED
    BY <1>1, <2>3, <2>5, <2>6, <2>7, <2>8 DEF Holes!OnTrack
<1>6. ASSUME Holes!OffTrack PROVE Holes!OffTrack'
  <2>1. ~(cur < got)
    BY <1>1, <1>3
  <2>2. /\ offset + got <= write /\ write + 1 \in data /\ read + 1 \notin data
        /\ \A k \in offset + got + 1 .. write : k \notin data
    BY <1>1, <1>6, <2>1 DEF Holes!OffTrack
  <2> QED
    BY <1>1, <2>2 DEF Holes!OffTrack
<1>7. Holes!Wrong => Holes!Wrong'
  BY <1>1 DEF Holes!Wrong
<1>8. Holes!Aligned' <=> Holes!Aligned
  BY <1>1, SourceKept
<1> QED
  BY <1>1, <1>2, <1>4, <1>5, <1>6, <1>7, <1>8 DEF Holes!CopyInv, Holes!ExactIffAligned

\* Without data behind the position the file does not end in data.
LEMMA CopyStepOfSeekFails ==
  ASSUME Holes!CopyInv, Holes!SeekFails
  PROVE  Holes!CopyInv'
<1>1. /\ copy = "seek" /\ copy' = "failed" /\ cur < got /\ Holes!DataFrom(offset + cur) = {}
      /\ length' = length /\ data' = data /\ read' = read /\ block' = block
      /\ got' = got /\ cur' = cur /\ dest' = dest /\ write' = write /\ offset' = offset
  BY DEF Holes!SeekFails
<1>2. Holes!CopyTypes /\ (Holes!OnTrack \/ (~Holes!Aligned /\ (Holes!OffTrack \/ Holes!Wrong)))
  BY <1>1 DEF Holes!CopyInv
<1>3. /\ length \in Nat /\ offset \in Nat /\ cur \in Nat /\ got \in Nat
  BY <1>2, CopyAssumption DEF Holes!CopyTypes
<1>4. Holes!CopyTypes'
  BY <1>1, <1>2 DEF Holes!CopyTypes
<1>5. ~Holes!Aligned
  <2>1. ASSUME Holes!OnTrack PROVE ~Holes!Aligned
    <3>1. offset + got <= length
      BY <1>1, <2>1 DEF Holes!OnTrack
    <3>2. offset + cur \in Nat /\ length \in offset + cur + 1 .. length /\ length # 0
      BY <1>1, <1>3, <3>1
    <3>3. length \notin data
      BY <1>1, <1>2, <3>2, Seeks
    <3> QED
      BY <3>2, <3>3 DEF Holes!Aligned
  <2> QED
    BY <1>2, <2>1
<1>6. ~Holes!Aligned'
  BY <1>1, <1>5, SourceKept
<1> QED
  BY <1>1, <1>4, <1>6 DEF Holes!CopyInv, Holes!ExactIffAligned

\* The two outcomes of a turn of the inner loop.
LEMMA ExtentIs ==
  ASSUME Holes!CopyTypes, Holes!CopyExtent
  PROVE  \E q \in Nat, d \in Nat, h \in Nat :
           /\ q = offset + cur /\ q <= d /\ d < length /\ q <= h /\ h <= length
           /\ read' = h /\ d + 1 \in data /\ h + 1 \notin data
           /\ \A k \in q + 1 .. d : k \notin data
           /\ \A k \in q + 1 .. h : k \in data
           /\ \/ /\ q < d /\ h = q
                 /\ write' = write + (d - q) /\ cur' = cur + (d - q) /\ dest' = dest
              \/ /\ d = q /\ q < h /\ cur' = cur + (h - q)
                 /\ \E w \in 1 .. h - q :
                      /\ w = h - q \/ cur + w >= BufferSize
                      /\ dest' = Holes!Written(Holes!FromBuffer(cur, w), write)
                      /\ write' = write + w
<1>1. PICK q, d, h : /\ q = offset + cur /\ d = Holes!Min(Holes!DataFrom(q))
                     /\ h = Holes!Min(Holes!HoleFrom(q))
  OBVIOUS
<1>2. length \in Nat /\ q \in Nat /\ cur \in Nat
  BY <1>1 DEF Holes!CopyTypes
<1>3. /\ Holes!DataFrom(q) # {} /\ read' = h
      /\ \/ /\ d > q
            /\ write' = Holes!SkipHole(d - q) /\ cur' = cur + (d - q) /\ UNCHANGED dest
         \/ /\ h > d
            /\ \E w \in Holes!Writable(cur, h - d) :
                 /\ dest' = Holes!Written(Holes!FromBuffer(cur, w), write)
                 /\ write' = write + w
            /\ cur' = cur + (h - d)
  BY <1>1 DEF Holes!CopyExtent
<1>4. /\ d \in q .. length - 1 /\ d + 1 \in data /\ h \in q .. length /\ h + 1 \notin data
      /\ \A k \in q + 1 .. d : k \notin data
      /\ \A k \in q + 1 .. h : k \in data
  BY <1>1, <1>2, <1>3, Seeks
<1>5. d \in Nat /\ h \in Nat /\ q <= d /\ d < length /\ q <= h /\ h <= length
  BY <1>2, <1>4
<1>6. CASE q < d
  <2>1. h = q
    <3>1. q + 1 \in q + 1 .. d
      BY <1>2, <1>5, <1>6
    <3>2. q < h => q + 1 \in q + 1 .. h
      BY <1>2, <1>5
    <3>3. ~(q < h)
      BY <1>4, <3>1, <3>2
    <3> QED
      BY <1>2, <1>5, <3>3
  <2>2. ~(h > d)
    BY <1>2, <1>5, <1>6, <2>1
  <2>3. write' = write + (d - q) /\ cur' = cur + (d - q) /\ dest' = dest
    BY <1>3, <2>2 DEF Holes!SkipHole
  <2> QED
    BY <1>1, <1>2, <1>3, <1>4, <1>5, <1>6, <2>1, <2>3
<1>7. CASE d = q
  <2>1. PICK w \in Holes!Writable(cur, h - d) :
          /\ dest' = Holes!Written(Holes!FromBuffer(cur, w), write)
          /\ write' = write + w
    BY <1>2, <1>3, <1>7
  <2>2. q < h /\ cur' = cur + (h - q)
    <3>1. h > d /\ cur' = cur + (h - d)
      BY <1>2, <1>3, <1>7
    <3> QED
      BY <1>2, <1>5, <1>7, <3>1
  <2>3. w \in 1 .. h - q /\ (w = h - q \/ cur + w >= BufferSize)
    BY <1>7 DEF Holes!Writable
  <2> QED
    BY <1>1, <1>2, <1>3, <1>4, <1>5, <1>7, <2>1, <2>2, <2>3
<1> QED
  BY <1>2, <1>5, <1>6, <1>7

\* A hole is skipped in the destination.
LEMMA CopySkips ==
  ASSUME Holes!CopyInv, copy = "seek", cur < got,
         NEW q \in Nat, NEW d \in Nat, q = offset + cur, q < d, d < length,
         d + 1 \in data, q + 1 \notin data, \A k \in q + 1 .. d : k \notin data,
         read' = q, write' = write + (d - q), cur' = cur + (d - q), dest' = dest,
         length' = length, data' = data, block' = block, got' = got,
         offset' = offset, copy' = copy
  PROVE  Holes!CopyInv'
<1>1. Holes!CopyTypes /\ (Holes!OnTrack \/ (~Holes!Aligned /\ (Holes!OffTrack \/ Holes!Wrong)))
  BY DEF Holes!CopyInv
<1>2. /\ length \in Nat /\ data \subseteq 1 .. length
      /\ BufferSize \in Nat /\ BufferSize > 0 /\ offset \in Nat /\ write \in Nat
      /\ got \in Nat /\ got <= BufferSize /\ cur \in Nat
      /\ Len(dest) \in Nat /\ Len(dest) <= write
  <2>1. got \in 0 .. BufferSize /\ BufferSize \in Nat /\ BufferSize > 0
    BY <1>1, CopyAssumption DEF Holes!CopyTypes
  <2>2. got \in Nat /\ got <= BufferSize
    BY <2>1
  <2> QED
    BY <1>1, <2>1, <2>2 DEF Holes!CopyTypes
<1>3. PICK v \in Nat, c \in Nat : /\ v = write + (d - q) /\ c = cur + (d - q)
                                  /\ write' = v /\ cur' = c /\ write < v /\ cur < c
  BY <1>2
<1>4. Holes!CopyTypes'
  <2>1. q \in 0 .. length /\ Len(dest) <= v
    BY <1>2, <1>3
  <2> QED
    BY <1>1, <1>3, <2>1 DEF Holes!CopyTypes
<1>5. Holes!Aligned' <=> Holes!Aligned
  BY SourceKept
<1>6. ASSUME Holes!OnTrack
      PROVE  Holes!OnTrack' \/ (~Holes!Aligned /\ Holes!OffTrack')
  <2>1. /\ got = BufferSize \/ offset + got = length
        /\ offset + got <= length /\ write = offset + cur
        /\ Holes!AlignedUpTo(offset) /\ (offset = length \/ offset % BufferSize = 0)
        /\ \A k \in 1 .. write : IF k <= Len(dest) THEN dest[k] = Holes!Source[k]
                                                   ELSE k \notin data
        /\ \A k \in 1 .. got : block[k] = Holes!Source[offset + k]
    BY <1>6 DEF Holes!OnTrack
  <2>2. v = offset + c /\ v = d /\ write = q
    <3>1. write = q
      BY <2>1
    <3>2. v = q + (d - q) /\ c = cur + (d - q)
      BY <1>3, <3>1
    <3> QED
      BY <1>2, <3>1, <3>2
  <2>3. CASE c < got
    <3>1. \A k \in 1 .. v : IF k <= Len(dest) THEN dest[k] = Holes!Source[k]
                                              ELSE k \notin data
      <4>1. ASSUME NEW k \in 1 .. v
            PROVE  IF k <= Len(dest) THEN dest[k] = Holes!Source[k] ELSE k \notin data
        <5>1. CASE k <= write
          BY <1>2, <2>1, <5>1
        <5>2. CASE ~(k <= write)
          <6>1. k \in q + 1 .. d /\ ~(k <= Len(dest))
            BY <1>2, <2>2, <5>2
          <6> QED
            BY <6>1
        <5> QED
          BY <5>1, <5>2
      <4> QED
        BY <4>1
    <3>2. Holes!AlignedUpTo(offset)' /\ Holes!Source' = Holes!Source
      BY <2>1, SourceKept
    <3>3. c <= got /\ ~(c = got)
      BY <1>2, <2>3
    <3> QED
      BY <1>3, <2>1, <2>2, <3>1, <3>2, <3>3 DEF Holes!OnTrack
  <2>4. CASE ~(c < got)
    <3>1. got = BufferSize /\ offset + BufferSize < length /\ offset + BufferSize <= d
          /\ offset + BufferSize \in q + 1 .. d
      <4>1. offset + got <= d /\ q < offset + got
        BY <1>2, <2>2, <2>4
      <4> QED
        BY <1>2, <2>1, <4>1
    <3>2. ~Holes!Aligned
      <4>1. offset % BufferSize = 0
        BY <1>2, <2>1, <3>1
      <4> QED
        BY <1>1, <1>2, <3>1, <4>1, NotAligned
    <3>3. Holes!OffTrack'
      <4>1. c >= got /\ offset + got <= v
        BY <1>2, <2>2, <2>4
      <4>2. \A k \in offset + got + 1 .. v : k \notin data
        <5>1. \A k \in offset + got + 1 .. v : k \in q + 1 .. d
          BY <1>2, <2>2, <3>1
        <5> QED
          BY <5>1
      <4>3. v + 1 \in data /\ ~(c < got)
        BY <2>2, <2>4
      <4> QED
        BY <1>3, <4>1, <4>2, <4>3 DEF Holes!OffTrack
    <3> QED
      BY <3>2, <3>3
  <2> QED
    BY <2>3, <2>4
<1>7. ASSUME Holes!OffTrack PROVE Holes!Wrong'
  <2>1. ~(cur >= got)
    BY <1>2
  <2>2. /\ cur = 0 /\ offset <= write /\ write + 1 \in data
        /\ \A k \in offset + 1 .. write : k \notin data
    BY <1>7, <2>1 DEF Holes!OffTrack
  <2>3. q = offset
    BY <1>2, <2>2
  <2>4. write + 1 <= v /\ ~(write + 1 <= Len(dest))
    BY <1>2, <1>3
  <2> QED
    BY <1>3, <2>2, <2>4 DEF Holes!Wrong
<1>8. ASSUME Holes!Wrong PROVE Holes!Wrong'
  <2>1. PICK p \in data : p <= write /\ (p <= Len(dest) => dest[p] # p)
    BY <1>8 DEF Holes!Wrong
  <2>2. p \in Nat /\ p <= v
    BY <1>2, <1>3, <2>1
  <2> QED
    BY <1>3, <2>1, <2>2 DEF Holes!Wrong
<1> QED
  BY <1>1, <1>4, <1>5, <1>6, <1>7, <1>8 DEF Holes!CopyInv, Holes!ExactIffAligned

\* An extent is written, from the buffer and from what lies behind it.
LEMMA CopyWrites ==
  ASSUME Holes!CopyInv, copy = "seek", cur < got,
         NEW q \in Nat, NEW h \in Nat, q = offset + cur, q < h, h <= length,
         h + 1 \notin data, \A k \in q + 1 .. h : k \in data,
         NEW w \in 1 .. h - q, w = h - q \/ cur + w >= BufferSize,
         dest' = Holes!Written(Holes!FromBuffer(cur, w), write),
         read' = h, write' = write + w, cur' = cur + (h - q),
         length' = length, data' = data, block' = block, got' = got,
         offset' = offset, copy' = copy
  PROVE  Holes!CopyInv'
<1>1. Holes!CopyTypes /\ (Holes!OnTrack \/ (~Holes!Aligned /\ (Holes!OffTrack \/ Holes!Wrong)))
  BY DEF Holes!CopyInv
<1>2. /\ length \in Nat /\ data \subseteq 1 .. length
      /\ BufferSize \in Nat /\ BufferSize > 0 /\ offset \in Nat /\ write \in Nat
      /\ got \in Nat /\ got <= BufferSize /\ cur \in Nat
      /\ Len(dest) \in Nat /\ Len(dest) <= write
      /\ Len(block) = BufferSize /\ w \in Nat /\ w > 0 /\ w <= h - q
  <2>1. got \in 0 .. BufferSize /\ BufferSize \in Nat /\ BufferSize > 0
    BY <1>1, CopyAssumption DEF Holes!CopyTypes
  <2>2. got \in Nat /\ got <= BufferSize
    BY <2>1
  <2>3. w \in Nat /\ w > 0 /\ w <= h - q
    OBVIOUS
  <2> QED
    BY <1>1, <2>1, <2>2, <2>3 DEF Holes!CopyTypes
<1>3. PICK v \in Nat, c \in Nat : /\ v = write + w /\ c = cur + (h - q)
                                  /\ write' = v /\ cur' = c /\ write < v /\ cur < c
  BY <1>2
<1>4. PICK file : /\ dest' = file /\ file \in Seq(Int) /\ Len(file) = v
                  /\ \A x \in 1 .. write :
                       file[x] = IF x <= Len(dest) THEN dest[x] ELSE 0
                  /\ \A j \in 1 .. w :
                       file[write + j] = IF cur + j <= BufferSize THEN block[cur + j] ELSE -1
  <2>1. PICK file : file = Holes!Written(Holes!FromBuffer(cur, w), write)
    OBVIOUS
  <2>2. /\ file \in Seq(Int) /\ Len(file) = write + w
        /\ \A x \in 1 .. write : file[x] = IF x <= Len(dest) THEN dest[x] ELSE 0
        /\ \A j \in 1 .. w :
             file[write + j] = IF cur + j <= Len(block) THEN block[cur + j] ELSE -1
    <3>1. w \in Nat /\ cur \in Nat /\ Holes!CopyTypes
      BY <1>1, <1>2
    <3>2. \A f : f = Holes!Written(Holes!FromBuffer(cur, w), write) =>
            /\ f \in Seq(Int) /\ Len(f) = write + w
            /\ \A x \in 1 .. write : f[x] = IF x <= Len(dest) THEN dest[x] ELSE 0
            /\ \A j \in 1 .. w :
                 f[write + j] = IF cur + j <= Len(block) THEN block[cur + j] ELSE -1
      BY ONLY <3>1, WrittenIs
    <3> QED
      BY <2>1, <3>2
  <2> QED
    BY <1>2, <1>3, <2>1, <2>2
<1>5. Holes!CopyTypes'
  <2>1. h \in 0 .. length /\ Len(file) <= v
    BY <1>2, <1>3, <1>4
  <2> QED
    BY <1>1, <1>3, <1>4, <2>1 DEF Holes!CopyTypes
<1>6. Holes!Aligned' <=> Holes!Aligned
  BY SourceKept
<1>7. ASSUME Holes!OnTrack
      PROVE  Holes!OnTrack' \/ (~Holes!Aligned /\ (Holes!OffTrack' \/ Holes!Wrong'))
  <2>1. /\ got = BufferSize \/ offset + got = length
        /\ offset + got <= length /\ write = offset + cur
        /\ Holes!AlignedUpTo(offset) /\ (offset = length \/ offset % BufferSize = 0)
        /\ \A k \in 1 .. write : IF k <= Len(dest) THEN dest[k] = Holes!Source[k]
                                                   ELSE k \notin data
        /\ \A k \in 1 .. got : block[k] = Holes!Source[offset + k]
    BY <1>7 DEF Holes!OnTrack
  <2>2. write = q
    BY <2>1
  <2>3. CASE c <= got
    <3>1. w = h - q /\ v = offset + c /\ v = h
      <4>1. cur + w >= BufferSize => w >= h - q
        BY <1>2, <1>3, <2>3
      <4> QED
        BY <1>2, <1>3, <2>2, <4>1
    <3>2. ASSUME NEW k \in 1 .. v PROVE file[k] = Holes!Source[k]
      <4>1. CASE k <= write
        <5>1. k \in 1 .. write /\ k \in 1 .. length
          BY <1>2, <2>2, <4>1
        <5>2. ~(k <= Len(dest)) => Holes!Source[k] = 0
          BY <1>1, <2>1, <5>1, SourceIs
        <5> QED
          BY <1>4, <2>1, <5>1, <5>2
      <4>2. CASE ~(k <= write)
        <5>1. PICK j \in 1 .. w : k = write + j
          <6>1. k - write \in 1 .. w /\ k = write + (k - write)
            BY <1>2, <1>3, <4>2
          <6> QED
            BY <6>1
        <5>2. cur + j \in 1 .. got /\ cur + j <= BufferSize /\ offset + (cur + j) = k
          BY <1>2, <1>3, <2>1, <2>3, <3>1, <5>1
        <5> QED
          BY <1>4, <2>1, <5>1, <5>2
      <4> QED
        BY <4>1, <4>2
    <3>3. c = got => h = v /\ v \in data
      <4>1. h \in q + 1 .. h
        BY <1>2
      <4> QED
        BY <3>1, <4>1
    <3>4. Holes!AlignedUpTo(offset)' /\ Holes!Source' = Holes!Source
      BY <2>1, SourceKept
    <3>5. \A k \in 1 .. v : k <= v
      BY <1>2
    <3> QED
      BY <1>3, <1>4, <2>1, <2>3, <3>1, <3>2, <3>3, <3>4, <3>5 DEF Holes!OnTrack
  <2>4. CASE ~(c <= got)
    <3>1. PICK b \in Nat : b = offset + got
      BY <1>2
    <3>2. q < b /\ b < h /\ b < length /\ got = BufferSize
      <4>1. cur + (h - q) > got /\ q < offset + got
        BY <1>2, <1>3, <2>4
      <4>2. offset + got < h
        BY <1>2, <4>1
      <4>3. offset + got < length
        BY <1>2, <4>2
      <4>4. got = BufferSize
        BY <1>2, <2>1, <4>3
      <4> QED
        BY <3>1, <4>1, <4>2, <4>3, <4>4
    <3>3. b \in data /\ b + 1 \in data
      <4>1. b \in q + 1 .. h /\ b + 1 \in q + 1 .. h
        BY <3>2
      <4> QED
        BY <4>1
    <3>4. ~Holes!Aligned
      <4>1. offset % BufferSize = 0
        BY <1>2, <2>1, <3>1, <3>2
      <4> QED
        BY <1>1, <1>2, <3>1, <3>2, <3>3, <4>1, NotAligned
    <3>5. cur + w >= BufferSize /\ v >= b
      <4>1. w = h - q => cur + w >= BufferSize
        BY <1>2, <3>1, <3>2
      <4>2. cur + w >= BufferSize
        BY <4>1
      <4> QED
        BY <1>2, <1>3, <2>1, <3>1, <3>2, <4>2
    <3>6. CASE v = b
      <4>1. c >= got /\ b <= v /\ ~(c < got)
        BY <1>2, <1>3, <2>4, <3>6
      <4>2. \A k \in b + 1 .. v : FALSE
        BY <3>6
      <4>3. Holes!OffTrack'
        BY <1>3, <3>1, <3>3, <3>6, <4>1, <4>2 DEF Holes!OffTrack
      <4> QED
        BY <3>4, <4>3
    <3>7. CASE v > b
      <4>1. PICK j \in Nat : j = b + 1 - write
        BY <1>2, <2>2, <3>2
      <4>2. j \in 1 .. w /\ write + j = b + 1 /\ ~(cur + j <= BufferSize)
        BY <1>2, <1>3, <2>1, <3>1, <3>2, <3>7, <4>1
      <4>3. file[b + 1] = -1
        BY <1>4, <4>2
      <4>4. b + 1 <= v /\ -1 # b + 1
        BY <3>7
      <4>5. Holes!Wrong'
        BY <1>3, <1>4, <3>3, <4>3, <4>4 DEF Holes!Wrong
      <4> QED
        BY <3>4, <4>5
    <3> QED
      BY <3>5, <3>6, <3>7
  <2> QED
    BY <2>3, <2>4
<1>8. ASSUME Holes!OffTrack PROVE Holes!Wrong'
  <2>1. ~(cur >= got)
    BY <1>2
  <2>2. /\ cur = 0 /\ offset <= write /\ write + 1 \in data /\ block[1] = 0
        /\ \A k \in offset + 1 .. write : k \notin data
    BY <1>8, <2>1 DEF Holes!OffTrack, Holes!Zero
  <2>3. 1 \in 1 .. w /\ cur + 1 <= BufferSize /\ cur + 1 = 1
    BY <1>2, <2>2
  <2>4. file[write + 1] = 0
    BY <1>4, <2>2, <2>3
  <2>5. write + 1 <= v /\ 0 # write + 1
    BY <1>2, <1>3
  <2> QED
    BY <1>3, <1>4, <2>2, <2>4, <2>5 DEF Holes!Wrong
<1>9. ASSUME Holes!Wrong PROVE Holes!Wrong'
  <2>1. PICK p \in data : p <= write /\ (p <= Len(dest) => dest[p] # p)
    BY <1>9 DEF Holes!Wrong
  <2>2. p \in Nat /\ p <= v /\ p \in 1 .. write /\ p # 0
    BY <1>2, <1>3, <2>1
  <2>3. file[p] # p
    BY <1>4, <2>1, <2>2
  <2> QED
    BY <1>3, <1>4, <2>2, <2>3 DEF Holes!Wrong
<1> QED
  BY <1>1, <1>5, <1>6, <1>7, <1>8, <1>9 DEF Holes!CopyInv, Holes!ExactIffAligned

LEMMA CopyStepOfExtent ==
  ASSUME Holes!CopyInv, Holes!CopyExtent
  PROVE  Holes!CopyInv'
<1>1. /\ copy = "seek" /\ cur < got /\ length' = length /\ data' = data
      /\ block' = block /\ got' = got /\ offset' = offset /\ copy' = copy
  BY DEF Holes!CopyExtent
<1>2. PICK q \in Nat, d \in Nat, h \in Nat :
        /\ q = offset + cur /\ q <= d /\ d < length /\ q <= h /\ h <= length
        /\ read' = h /\ d + 1 \in data /\ h + 1 \notin data
        /\ \A k \in q + 1 .. d : k \notin data
        /\ \A k \in q + 1 .. h : k \in data
        /\ \/ /\ q < d /\ h = q
              /\ write' = write + (d - q) /\ cur' = cur + (d - q) /\ dest' = dest
           \/ /\ d = q /\ q < h /\ cur' = cur + (h - q)
              /\ \E w \in 1 .. h - q :
                   /\ w = h - q \/ cur + w >= BufferSize
                   /\ dest' = Holes!Written(Holes!FromBuffer(cur, w), write)
                   /\ write' = write + w
  BY ExtentIs DEF Holes!CopyInv
<1>3. CASE /\ q < d /\ h = q
           /\ write' = write + (d - q) /\ cur' = cur + (d - q) /\ dest' = dest
  BY <1>1, <1>2, <1>3, CopySkips
<1>4. CASE /\ d = q /\ q < h /\ cur' = cur + (h - q)
           /\ \E w \in 1 .. h - q :
                /\ w = h - q \/ cur + w >= BufferSize
                /\ dest' = Holes!Written(Holes!FromBuffer(cur, w), write)
                /\ write' = write + w
  BY <1>1, <1>2, <1>4, CopyWrites
<1> QED
  BY <1>2, <1>3, <1>4

\* While the file is aligned the copy is exact; behind the first boundary that
\* is not clean a block of data is missed or overwritten for good: the
\* invariant the next theorem rests on.
THEOREM CopyInductive ==
  ProgramsSpec => []Holes!CopyInv
<1>1. ProgramsInit => Holes!CopyInv
  BY CopyStart DEF ProgramsInit
<1>2. Holes!CopyInv /\ [ProgramsNext]_allVars => Holes!CopyInv'
  <2> SUFFICES ASSUME Holes!CopyInv, [ProgramsNext]_allVars PROVE Holes!CopyInv'
    OBVIOUS
  <2>1. Holes!Next \/ UNCHANGED holesVars
    BY DEF ProgramsNext, allVars, holesVars
  <2>2. CASE UNCHANGED holesVars
    <3> USE <2>2 DEF holesVars
    <3>1. Holes!CopyTypes'
      BY DEF Holes!CopyInv, Holes!CopyTypes
    <3>2. (Holes!Aligned' <=> Holes!Aligned) /\ (Holes!OnTrack => Holes!OnTrack')
      BY SourceKept DEF Holes!OnTrack
    <3>3. (Holes!OffTrack => Holes!OffTrack') /\ (Holes!Wrong => Holes!Wrong')
      BY DEF Holes!OffTrack, Holes!Wrong
    <3>4. Holes!ExactIffAligned'
      BY <3>2, SourceKept DEF Holes!CopyInv, Holes!ExactIffAligned
    <3> QED
      BY <3>1, <3>2, <3>3, <3>4 DEF Holes!CopyInv
  <2>3. CASE Holes!Next
    BY <2>3, CopyStepOfRead, CopyStepOfNextBuffer, CopyStepOfSeekFails, CopyStepOfExtent
       DEF Holes!Next
  <2> QED
    BY <2>1, <2>2, <2>3
<1> QED
  BY <1>1, <1>2, PTL DEF ProgramsSpec

\* FS-10: of the sparse files of any length exactly the aligned ones are copied
\* without a difference, whatever the size of the buffer and however much is
\* written of what lies behind it.
THEOREM WhichFilesAreCopied ==
  ProgramsSpec => []ExactIffAligned
<1>1. Holes!CopyInv => ExactIffAligned
  BY DEF Holes!CopyInv, ExactIffAligned
<1> QED
  BY <1>1, CopyInductive, PTL
=============================================================================
