-------------------------- MODULE WorkerLimitProofs ---------------------------
(***************************************************************************)
(* For any number of threads, names and slots, parser_worker_limit() lets  *)
(* no more than max_workers threads into a section, and no permit is lost. *)
(* The argument rests on the lock: a name has at most one semaphore, so    *)
(* every thread inside a section was counted by the same one.              *)
(***************************************************************************)
EXTENDS WorkerLimit, FiniteSetTheorems, TLAPS

\* Who is where in _get_limiter(): the lock guards lookup and insertion.
LockOK ==
  /\ \A t \in Tasks : step[t] \in {"get", "create"} <=> lock = t
  /\ \A t \in Tasks : step[t] = "create" => limiters[name[t]] = 0

\* What a thread carries: a name while it is in a section or on its way to
\* one, a semaphore once it has got it, and that is the one of the name.
CarriesOK ==
  /\ \A t \in Tasks : step[t] = "out" <=> name[t] = NoName
  /\ \A t \in Tasks : step[t] \in {"lock", "get", "create", "acquire"} =>
       MaxWorkers[name[t]] > 0
  /\ \A t \in Tasks : step[t] \in {"out", "lock", "get", "create"} => limiter[t] = 0
  /\ \A t \in Tasks : step[t] = "acquire" => limiter[t] = limiters[name[t]]
  /\ \A t \in Tasks : step[t] = "inside" =>
       limiter[t] = IF MaxWorkers[name[t]] > 0 THEN limiters[name[t]] ELSE 0
  /\ \A t \in Tasks : step[t] = "acquire" => limiter[t] # 0
  /\ \A t \in Tasks : step[t] = "inside" /\ MaxWorkers[name[t]] > 0 => limiter[t] # 0

\* Every semaphore belongs to one name.
OwnSemaphore ==
  /\ \A m, n \in Names : limiters[m] # 0 /\ limiters[m] = limiters[n] => m = n
  /\ \A n \in Names : limiters[n] # 0 => MaxWorkers[n] > 0

LimitInv ==
  /\ LimitTypeOK
  /\ LockOK
  /\ CarriesOK
  /\ OwnSemaphore
  /\ PermitsConserved

\* The sets of threads inside are finite.
LEMMA InsideFinite ==
  ASSUME NEW n
  PROVE  IsFiniteSet(Inside(n)) /\ Cardinality(Inside(n)) \in Nat
BY LimitAssumption, FS_Subset, FS_CardinalityType DEF Inside

\* The same of the next state.
LEMMA InsideFiniteNext ==
  ASSUME NEW n
  PROVE  IsFiniteSet(Inside(n)') /\ Cardinality(Inside(n)') \in Nat
BY LimitAssumption, FS_Subset, FS_CardinalityType DEF Inside

\* A section without threads: the count starts at zero.
LEMMA InitLimitInv == LimitInit => LimitInv
<1> SUFFICES ASSUME LimitInit PROVE LimitInv
  OBVIOUS
<1>1. LimitTypeOK
  BY DEF LimitInit, LimitTypeOK, Steps
<1>2. LockOK /\ CarriesOK /\ OwnSemaphore /\ PermitsConserved
  BY LimitAssumption
  DEF LimitInit, LockOK, CarriesOK, OwnSemaphore, PermitsConserved
<1> QED
  BY <1>1, <1>2 DEF LimitInv

\* A step that moves one thread between places outside the sections leaves
\* the sections alone.
LEMMA OutsideStep ==
  ASSUME LimitTypeOK, NEW t \in Tasks, NEW place \in Steps \ {"inside"},
         step[t] # "inside", step' = [step EXCEPT ![t] = place],
         \A u \in Tasks \ {t} : name'[u] = name[u],
         NEW n \in Names
  PROVE  Inside(n)' = Inside(n)
BY DEF LimitTypeOK, Inside, Steps

\* A thread goes inside: one more in its section.
LEMMA InsideGrows ==
  ASSUME LimitTypeOK, NEW t \in Tasks, step[t] # "inside",
         step' = [step EXCEPT ![t] = "inside"],
         \A u \in Tasks \ {t} : name'[u] = name[u], NEW n \in Names
  PROVE  /\ name'[t] = n => Inside(n)' = Inside(n) \cup {t}
         /\ name'[t] = n => Cardinality(Inside(n)') = Cardinality(Inside(n)) + 1
         /\ name'[t] # n => Inside(n)' = Inside(n)
<1>1. name'[t] = n => Inside(n)' = Inside(n) \cup {t}
  BY DEF LimitTypeOK, Inside
<1>2. name'[t] # n => Inside(n)' = Inside(n)
  BY DEF LimitTypeOK, Inside
<1>3. t \notin Inside(n)
  BY DEF Inside
<1> QED
  BY <1>1, <1>2, <1>3, InsideFinite, FS_AddElement

\* A thread goes out: one less in its section.
LEMMA InsideShrinks ==
  ASSUME LimitTypeOK, NEW t \in Tasks, step[t] = "inside",
         step' = [step EXCEPT ![t] = "out"],
         \A u \in Tasks \ {t} : name'[u] = name[u], NEW n \in Names
  PROVE  /\ name[t] = n => Inside(n)' = Inside(n) \ {t}
         /\ name[t] = n => Cardinality(Inside(n)') = Cardinality(Inside(n)) - 1
         /\ name[t] # n => Inside(n)' = Inside(n)
<1>1. name[t] = n => Inside(n)' = Inside(n) \ {t}
  BY DEF LimitTypeOK, Inside
<1>2. name[t] # n => Inside(n)' = Inside(n)
  BY DEF LimitTypeOK, Inside
<1>3. name[t] = n => t \in Inside(n)
  BY DEF Inside
<1> QED
  BY <1>1, <1>2, <1>3, InsideFinite, FS_RemoveElement

\* Entering: the thread goes to the lock, or straight in without a limit.
LEMMA EnterLimitInv ==
  ASSUME LimitInv, NEW t \in Tasks, NEW n \in Names, Enter(t, n)
  PROVE  LimitInv'
<1> USE DEF LimitInv, Enter
<1>1. LimitTypeOK'
  BY DEF LimitTypeOK, Steps
<1>2. LockOK'
  BY DEF LimitTypeOK, LockOK, Steps
<1>3. CarriesOK'
  BY LimitAssumption DEF LimitTypeOK, CarriesOK, Steps
<1>4. OwnSemaphore'
  BY DEF OwnSemaphore
<1>5. PermitsConserved'
  <2> SUFFICES ASSUME NEW m \in Names, limiters[m] # 0
               PROVE  value[limiters[m]] + Cardinality(Inside(m)') = MaxWorkers[m]
    BY DEF PermitsConserved
  <2>1. CASE MaxWorkers[n] <= 0
    <3>1. m # n
      BY <2>1, LimitAssumption DEF OwnSemaphore
    <3>2. Inside(m)' = Inside(m)
      BY <2>1, <3>1, InsideGrows DEF LimitTypeOK
    <3> QED
      BY <3>2 DEF PermitsConserved
  <2>2. CASE ~ (MaxWorkers[n] <= 0)
    <3>1. Inside(m)' = Inside(m)
      BY <2>2, OutsideStep DEF LimitTypeOK, Steps
    <3> QED
      BY <3>1 DEF PermitsConserved
  <2> QED
    BY <2>1, <2>2
<1> QED
  BY <1>1, <1>2, <1>3, <1>4, <1>5

\* Taking the lock.
LEMMA TakeLockLimitInv ==
  ASSUME LimitInv, NEW t \in Tasks, TakeLock(t)
  PROVE  LimitInv'
<1> USE DEF LimitInv, TakeLock
<1>1. LimitTypeOK'
  BY DEF LimitTypeOK, Steps
<1>2. LockOK'
  BY LimitAssumption DEF LimitTypeOK, LockOK, Steps
<1>3. CarriesOK'
  BY LimitAssumption DEF LimitTypeOK, CarriesOK, Steps
<1>4. OwnSemaphore'
  BY DEF OwnSemaphore
<1>5. PermitsConserved'
  BY OutsideStep DEF PermitsConserved, Steps
<1> QED
  BY <1>1, <1>2, <1>3, <1>4, <1>5

\* The name has a semaphore already.
LEMMA GetLimitInv ==
  ASSUME LimitInv, NEW t \in Tasks, GetLimiter(t)
  PROVE  LimitInv'
<1> USE DEF LimitInv, GetLimiter
<1>0. name[t] \in Names
  BY DEF LimitTypeOK, CarriesOK
<1>1. LimitTypeOK'
  BY <1>0 DEF LimitTypeOK, Steps
<1>2. LockOK'
  BY LimitAssumption DEF LimitTypeOK, LockOK, Steps
<1>3. CarriesOK'
  BY <1>0, LimitAssumption DEF LimitTypeOK, CarriesOK, Steps
<1>4. OwnSemaphore'
  BY DEF OwnSemaphore
<1>5. PermitsConserved'
  BY OutsideStep DEF PermitsConserved, Steps
<1> QED
  BY <1>1, <1>2, <1>3, <1>4, <1>5

\* The name has none yet.
LEMMA MissLimitInv ==
  ASSUME LimitInv, NEW t \in Tasks, MissLimiter(t)
  PROVE  LimitInv'
<1> USE DEF LimitInv, MissLimiter
<1>1. LimitTypeOK'
  BY DEF LimitTypeOK, Steps
<1>2. LockOK'
  BY LimitAssumption DEF LimitTypeOK, LockOK, Steps
<1>3. CarriesOK'
  BY LimitAssumption DEF LimitTypeOK, CarriesOK, Steps
<1>4. OwnSemaphore'
  BY DEF OwnSemaphore
<1>5. PermitsConserved'
  BY OutsideStep DEF PermitsConserved, Steps
<1> QED
  BY <1>1, <1>2, <1>3, <1>4, <1>5

\* A name without a semaphore has nobody inside, if it has a limit: an
\* invariant of its own, because a new semaphore starts with all permits.
NobodyBefore ==
  \A n \in Names : limiters[n] = 0 /\ MaxWorkers[n] > 0 => Inside(n) = {}

\* It follows from what the threads inside carry.
LEMMA NobodyBeforeHolds == LimitInv => NobodyBefore
BY DEF LimitInv, LimitTypeOK, CarriesOK, NobodyBefore, Inside

\* A new semaphore has all its permits, and no other name has it.
LEMMA CreateLimitInv ==
  ASSUME LimitInv, NEW t \in Tasks, CreateLimiter(t)
  PROVE  LimitInv'
<1> USE DEF LimitInv, CreateLimiter
<1> DEFINE k == name[t]
<1>e. k \in Names
  BY DEF LimitTypeOK, CarriesOK
<1>f. limiters[k] = 0 /\ MaxWorkers[k] > 0
  BY DEF CarriesOK, LockOK
<1>0. k \in Names /\ limiters[k] = 0 /\ MaxWorkers[k] > 0 /\ MaxWorkers[k] \in Nat
  <2> HIDE DEF k
  <2> QED
    BY <1>e, <1>f, LimitAssumption
<1>a. /\ value' \in Seq(Nat)
      /\ Len(value') = Len(value) + 1
      /\ value'[Len(value) + 1] = MaxWorkers[k]
      /\ \A i \in 1 .. Len(value) : value'[i] = value[i]
  BY <1>0 DEF LimitTypeOK
<1>b. limiters' = [limiters EXCEPT ![k] = Len(value) + 1]
  BY <1>a
<1>c. limiter' = [limiter EXCEPT ![t] = Len(value) + 1]
  BY <1>a
<1>d. Len(value) \in Nat
  BY DEF LimitTypeOK
<1> HIDE DEF k
<1>1. LimitTypeOK'
  BY <1>0, <1>a, <1>b, <1>c, <1>d, SMTT(30) DEF LimitTypeOK, Steps
<1>2. LockOK'
  BY LimitAssumption DEF LimitTypeOK, LockOK, Steps, k
<1>3. CarriesOK'
  <2>1. \A u \in Tasks \ {t} : step'[u] = step[u] /\ limiter'[u] = limiter[u]
    BY DEF LimitTypeOK
  <2>2. step'[t] = "acquire" /\ limiter'[t] = Len(value) + 1
        /\ limiters'[name[t]] = Len(value) + 1
    BY <1>0, <1>b, <1>c DEF LimitTypeOK, k
  <2>3. \A u \in Tasks \ {t} : step[u] \in {"acquire", "inside"} /\ MaxWorkers[name[u]] > 0 =>
          limiters'[name[u]] = limiters[name[u]]
    BY <1>0, <1>b DEF LimitTypeOK, CarriesOK, k
  <2> QED
    BY <1>0, <1>d, <2>1, <2>2, <2>3, LimitAssumption DEF LimitTypeOK, CarriesOK, Steps, k
<1>4. OwnSemaphore'
  BY <1>0, <1>b, <1>d DEF OwnSemaphore, LimitTypeOK
<1>5. PermitsConserved'
  <2> SUFFICES ASSUME NEW m \in Names, limiters'[m] # 0
               PROVE  value'[limiters'[m]] + Cardinality(Inside(m)') = MaxWorkers[m]
    BY DEF PermitsConserved
  <2>1. Inside(m)' = Inside(m)
    BY OutsideStep DEF Steps
  <2>2. CASE m = k
    <3>1. Inside(m) = {}
      BY <1>0, <2>2, NobodyBeforeHolds DEF NobodyBefore
    <3>2. Cardinality(Inside(m)') = 0
      BY <2>1, <3>1, FS_EmptySet
    <3>3. value'[limiters'[m]] = MaxWorkers[m]
      BY <1>0, <1>a, <1>b, <2>2 DEF LimitTypeOK
    <3> QED
      BY <1>0, <2>2, <3>2, <3>3
  <2>3. CASE m # k
    <3>1. limiters'[m] = limiters[m] /\ limiters[m] \in 1 .. Len(value)
      BY <1>b, <2>3 DEF LimitTypeOK
    <3>2. value'[limiters'[m]] = value[limiters[m]]
      BY <1>a, <3>1
    <3> QED
      BY <2>1, <3>1, <3>2 DEF PermitsConserved
  <2> QED
    BY <2>2, <2>3
<1> QED
  BY <1>1, <1>2, <1>3, <1>4, <1>5

\* Taking a permit.
LEMMA AcquireLimitInv ==
  ASSUME LimitInv, NEW t \in Tasks, Acquire(t)
  PROVE  LimitInv'
<1> USE DEF LimitInv, Acquire
<1> DEFINE k == limiter[t]
<1>0. /\ name[t] \in Names
      /\ k = limiters[name[t]]
      /\ k \in 1 .. Len(value)
      /\ value[k] \in Nat \ {0}
      /\ MaxWorkers[name[t]] > 0
  BY DEF LimitTypeOK, CarriesOK
<1>a. /\ value' \in Seq(Nat)
      /\ Len(value') = Len(value)
      /\ value'[k] = value[k] - 1
      /\ \A i \in 1 .. Len(value) : i # k => value'[i] = value[i]
  BY <1>0 DEF LimitTypeOK
<1> HIDE DEF k
<1>1. LimitTypeOK'
  BY <1>0, <1>a DEF LimitTypeOK, Steps
<1>2. LockOK'
  BY LimitAssumption DEF LimitTypeOK, LockOK, Steps
<1>3. CarriesOK'
  BY <1>0, LimitAssumption DEF LimitTypeOK, CarriesOK, Steps, k
<1>4. OwnSemaphore'
  BY DEF OwnSemaphore
<1>5. PermitsConserved'
  <2> SUFFICES ASSUME NEW m \in Names, limiters[m] # 0
               PROVE  value'[limiters[m]] + Cardinality(Inside(m)') = MaxWorkers[m]
    BY DEF PermitsConserved
  <2>0. limiters[m] \in 1 .. Len(value) /\ value[limiters[m]] \in Nat
    BY DEF LimitTypeOK
  <2>1. value[limiters[m]] + Cardinality(Inside(m)) = MaxWorkers[m]
    BY DEF PermitsConserved
  <2>2. CASE m = name[t]
    <3>1. Cardinality(Inside(m)') = Cardinality(Inside(m)) + 1
      BY <2>2, InsideGrows
    <3>2. k = limiters[m] /\ value'[limiters[m]] = value[limiters[m]] - 1
      BY <1>0, <1>a, <2>2
    <3>3. Cardinality(Inside(m)) \in Nat
      BY InsideFinite
    <3> QED
      BY <2>0, <2>1, <3>1, <3>2, <3>3
  <2>3. CASE m # name[t]
    <3>1. Inside(m)' = Inside(m)
      BY <2>3, InsideGrows
    <3>2. limiters[m] # k
      BY <1>0, <2>3 DEF OwnSemaphore
    <3> QED
      BY <1>a, <2>0, <2>1, <3>1, <3>2
  <2> QED
    BY <2>2, <2>3
<1> QED
  BY <1>1, <1>2, <1>3, <1>4, <1>5

\* Giving the permit back.
LEMMA LeaveLimitInv ==
  ASSUME LimitInv, NEW t \in Tasks, Leave(t)
  PROVE  LimitInv'
<1> USE DEF LimitInv, Leave
<1> DEFINE k == limiter[t]
<1>0. /\ name[t] \in Names
      /\ k \in 0 .. Len(value)
      /\ Len(value) \in Nat
      /\ MaxWorkers[name[t]] > 0 => k = limiters[name[t]] /\ k # 0
      /\ ~ (MaxWorkers[name[t]] > 0) => k = 0
  BY DEF LimitTypeOK, CarriesOK
<1>a. /\ value' \in Seq(Nat)
      /\ Len(value') = Len(value)
      /\ k # 0 => value'[k] = value[k] + 1
      /\ \A i \in 1 .. Len(value) : i # k => value'[i] = value[i]
  BY <1>0 DEF LimitTypeOK
<1> HIDE DEF k
<1>1. LimitTypeOK'
  BY <1>0, <1>a DEF LimitTypeOK, Steps
<1>2. LockOK'
  BY LimitAssumption DEF LimitTypeOK, LockOK, Steps
<1>3. CarriesOK'
  BY <1>0, LimitAssumption DEF LimitTypeOK, CarriesOK, Steps, k
<1>4. OwnSemaphore'
  BY DEF OwnSemaphore
<1>5. PermitsConserved'
  <2> SUFFICES ASSUME NEW m \in Names, limiters[m] # 0
               PROVE  value'[limiters[m]] + Cardinality(Inside(m)') = MaxWorkers[m]
    BY DEF PermitsConserved
  <2>0. limiters[m] \in 1 .. Len(value) /\ value[limiters[m]] \in Nat /\ MaxWorkers[m] > 0
    BY DEF LimitTypeOK, OwnSemaphore
  <2>1. value[limiters[m]] + Cardinality(Inside(m)) = MaxWorkers[m]
    BY DEF PermitsConserved
  <2>2. CASE m = name[t]
    <3>1. Cardinality(Inside(m)') = Cardinality(Inside(m)) - 1
      BY <2>2, InsideShrinks DEF LimitTypeOK
    <3>2. k = limiters[m] /\ k # 0
      BY <1>0, <2>0, <2>2
    <3> QED
      BY <1>a, <2>0, <2>1, <3>1, <3>2, InsideFinite
  <2>3. CASE m # name[t]
    <3>1. Inside(m)' = Inside(m)
      BY <2>3, InsideShrinks DEF LimitTypeOK
    <3>2. limiters[m] # k
      BY <1>0, <2>0, <2>3 DEF OwnSemaphore
    <3> QED
      BY <1>a, <2>0, <2>1, <3>1, <3>2
  <2> QED
    BY <2>2, <2>3
<1> QED
  BY <1>1, <1>2, <1>3, <1>4, <1>5

\* Every step of the limiter keeps the invariant.
LEMMA NextLimitInv == LimitInv /\ [LimitNext]_limitVars => LimitInv'
<1> SUFFICES ASSUME LimitInv, [LimitNext]_limitVars PROVE LimitInv'
  OBVIOUS
<1>1. ASSUME NEW t \in Tasks, NEW n \in Names, Enter(t, n) PROVE LimitInv'
  BY <1>1, EnterLimitInv
<1>2. ASSUME NEW t \in Tasks, Proceed(t) PROVE LimitInv'
  BY <1>2, TakeLockLimitInv, GetLimitInv, MissLimitInv, CreateLimitInv, AcquireLimitInv
  DEF Proceed
<1>3. ASSUME NEW t \in Tasks, Leave(t) PROVE LimitInv'
  BY <1>3, LeaveLimitInv
<1>4. CASE UNCHANGED limitVars
  BY <1>4 DEF limitVars, LimitInv, LimitTypeOK, LockOK, CarriesOK, OwnSemaphore,
              PermitsConserved, Inside
<1> QED
  BY <1>1, <1>2, <1>3, <1>4 DEF LimitNext

\* The invariant of the registry and its semaphores.
THEOREM LimitInvariant == LimitSpec => []LimitInv
BY InitLimitInv, NextLimitInv, PTL DEF LimitSpec

(***************************************************************************)
(* No permit is lost and none is made up, however the sections are left    *)
(* (PermitsConserved), for any number of threads and slots.                *)
(***************************************************************************)
THEOREM PermitsCorrect == LimitSpec => []PermitsConserved
BY LimitInvariant, PTL DEF LimitInv

(***************************************************************************)
(* The limiter implements SlotPool: at most max_workers threads are in the *)
(* section of a name, and a thread is in one section only.                 *)
(***************************************************************************)
PoolOf == [n \in Names |-> Inside(n)]

\* Nobody is inside at first.
LEMMA InitPool == LimitInit => Slots!Init
BY DEF LimitInit, Slots!Init, Inside

\* A step that moves no thread in or out is a stutter of the pool.
LEMMA StutterPool ==
  ASSUME \A n \in Names : Inside(n)' = Inside(n)
  PROVE  UNCHANGED PoolOf
BY DEF PoolOf

\* A thread goes in.
LEMMA InPool ==
  ASSUME LimitInv, NEW t \in Tasks, NEW n \in Names, step[t] # "inside",
         step' = [step EXCEPT ![t] = "inside"], name'[t] = n,
         \A u \in Tasks \ {t} : name'[u] = name[u],
         MaxWorkers[n] > 0 => Cardinality(Inside(n)) < MaxWorkers[n]
  PROVE  Slots!Enter(t, n)
<1>1. \A m \in Names : t \notin Inside(m)
  BY DEF Inside
<1>2. \A m \in Names : Inside(m)' = IF m = n THEN Inside(n) \cup {t} ELSE Inside(m)
  BY InsideGrows DEF LimitInv
<1>3. PoolOf' = [PoolOf EXCEPT ![n] = @ \cup {t}]
  BY <1>2 DEF PoolOf
<1>4. Slots!HasRoom(n)
  BY DEF Slots!HasRoom, Slots!Cardinality, Cardinality
<1> QED
  BY <1>1, <1>3, <1>4 DEF Slots!Enter, PoolOf

\* Every step of the limiter is a step or a stutter of the pool.
LEMMA NextPool ==
  ASSUME LimitInv, [LimitNext]_limitVars
  PROVE  [Slots!Next]_PoolOf
<1>1. ASSUME NEW t \in Tasks, NEW n \in Names, Enter(t, n) PROVE [Slots!Next]_PoolOf
  <2>1. CASE MaxWorkers[n] <= 0
    <3>0. ~ (MaxWorkers[n] > 0)
      BY <2>1, LimitAssumption
    <3>1. Slots!Enter(t, n)
      BY <1>1, <2>1, <3>0, InPool DEF Enter, LimitInv, LimitTypeOK
    <3> QED
      BY <3>1 DEF Slots!Next
  <2>2. CASE ~ (MaxWorkers[n] <= 0)
    <3>1. \A m \in Names : Inside(m)' = Inside(m)
      BY <1>1, <2>2, OutsideStep DEF Enter, LimitInv, LimitTypeOK, Steps
    <3> QED
      BY <3>1, StutterPool
  <2> QED
    BY <2>1, <2>2
<1>2. ASSUME NEW t \in Tasks,
             TakeLock(t) \/ GetLimiter(t) \/ MissLimiter(t) \/ CreateLimiter(t)
      PROVE  [Slots!Next]_PoolOf
  <2>1. \A m \in Names : Inside(m)' = Inside(m)
    BY <1>2, OutsideStep
    DEF TakeLock, GetLimiter, MissLimiter, CreateLimiter, LimitInv, Steps
  <2> QED
    BY <2>1, StutterPool
<1>3. ASSUME NEW t \in Tasks, Acquire(t) PROVE [Slots!Next]_PoolOf
  <2> DEFINE n == name[t]
  <2>1. n \in Names /\ limiter[t] = limiters[n] /\ limiters[n] # 0 /\ limiters[n] \in 1 .. Len(value)
    BY <1>3 DEF Acquire, LimitInv, LimitTypeOK, CarriesOK
  <2>2. value[limiters[n]] > 0 /\ value[limiters[n]] \in Nat
    BY <1>3, <2>1 DEF Acquire, LimitInv, LimitTypeOK
  <2>3. value[limiters[n]] + Cardinality(Inside(n)) = MaxWorkers[n]
    BY <2>1 DEF LimitInv, PermitsConserved
  <2>4. Cardinality(Inside(n)) < MaxWorkers[n]
    BY <2>2, <2>3, InsideFinite
  <2>5. Slots!Enter(t, n)
    BY <1>3, <2>1, <2>4, InPool DEF Acquire
  <2> QED
    BY <2>1, <2>5 DEF Slots!Next
<1>4. ASSUME NEW t \in Tasks, Leave(t) PROVE [Slots!Next]_PoolOf
  <2> DEFINE n == name[t]
  <2>1. n \in Names /\ t \in Inside(n)
    BY <1>4 DEF Leave, LimitInv, LimitTypeOK, CarriesOK, Inside
  <2>2. \A u \in Tasks \ {t} : name'[u] = name[u]
    BY <1>4 DEF Leave, LimitInv, LimitTypeOK
  <2>3. \A m \in Names : Inside(m)' = IF m = n THEN Inside(n) \ {t} ELSE Inside(m)
    BY <1>4, <2>2, InsideShrinks DEF Leave, LimitInv
  <2>4. PoolOf' = [PoolOf EXCEPT ![n] = @ \ {t}]
    BY <2>3 DEF PoolOf
  <2>5. Slots!Leave(t, n)
    BY <2>1, <2>4 DEF Slots!Leave, PoolOf
  <2> QED
    BY <2>1, <2>5 DEF Slots!Next
<1>5. CASE UNCHANGED limitVars
  BY <1>5, StutterPool DEF limitVars, Inside
<1> QED
  BY <1>1, <1>2, <1>3, <1>4, <1>5 DEF LimitNext, Proceed

\* parser_worker_limit() implements its promise, for any number of threads,
\* names and slots.
THEOREM LimitCorrect == LimitSpec => SectionsAreLimited
<1>1. LimitInit => Slots!Init
  BY InitPool
<1>2. LimitInv /\ [LimitNext]_limitVars => [Slots!Next]_PoolOf
  BY NextPool
<1> QED
  BY <1>1, <1>2, LimitInvariant, PTL
  DEF LimitSpec, SectionsAreLimited, Slots!Spec, PoolOf
===============================================================================
