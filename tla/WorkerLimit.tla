----------------------------- MODULE WorkerLimit ------------------------------
(***************************************************************************)
(* docreader/parser/concurrency.py: the process-wide registry of bounded   *)
(* semaphores and the context manager that takes one around a heavy        *)
(* section.  The lookup in the registry and the insertion of a new         *)
(* semaphore are separate steps: what makes them one is _LIMITERS_LOCK.    *)
(***************************************************************************)
EXTENDS Integers, Sequences, FiniteSets

CONSTANTS
  Tasks,       \* the threads, named for the requests they run
  Names,       \* the names that parser_worker_limit() is called with
  MaxWorkers,  \* max_workers of each name: a constant of the configuration
  NoTask,      \* nobody holds _LIMITERS_LOCK
  NoName       \* the task is in no section and waits for none

ASSUME LimitAssumption ==
  /\ IsFiniteSet(Tasks)
  /\ NoTask \notin Tasks
  /\ NoName \notin Names
  /\ MaxWorkers \in [Names -> Int]

VARIABLES
  lock,      \* the holder of _LIMITERS_LOCK
  limiters,  \* _LIMITERS: the semaphore of each name, 0 if there is none yet
  value,     \* the counter of every semaphore made so far
  step,      \* where each task is in parser_worker_limit()
  name,      \* the name it was called with, NoName outside
  limiter    \* the semaphore it got, 0 if none

limitVars == <<lock, limiters, value, step, name, limiter>>

Steps == {"out", "lock", "get", "create", "acquire", "inside"}

LimitInit ==
  /\ lock = NoTask
  /\ limiters = [n \in Names |-> 0]
  /\ value = <<>>
  /\ step = [t \in Tasks |-> "out"]
  /\ name = [t \in Tasks |-> NoName]
  /\ limiter = [t \in Tasks |-> 0]

\* "max_workers <= 0 disables throttling".
Enter(t, n) ==
  /\ step[t] = "out"
  /\ name' = [name EXCEPT ![t] = n]
  /\ step' = [step EXCEPT ![t] = IF MaxWorkers[n] <= 0 THEN "inside" ELSE "lock"]
  /\ UNCHANGED <<lock, limiters, value, limiter>>

\* Fault: _get_limiter() works without the lock.
GoWithoutLock(t) ==
  /\ step[t] = "lock"
  /\ step' = [step EXCEPT ![t] = "get"]
  /\ UNCHANGED <<lock, limiters, value, name, limiter>>

\* with _LIMITERS_LOCK
TakeLock(t) ==
  /\ step[t] = "lock"
  /\ lock = NoTask
  /\ lock' = t
  /\ step' = [step EXCEPT ![t] = "get"]
  /\ UNCHANGED <<limiters, value, name, limiter>>

\* The name has a semaphore: return it.
GetLimiter(t) ==
  /\ step[t] = "get"
  /\ limiters[name[t]] # 0
  /\ limiter' = [limiter EXCEPT ![t] = limiters[name[t]]]
  /\ step' = [step EXCEPT ![t] = "acquire"]
  /\ lock' = NoTask
  /\ UNCHANGED <<limiters, value, name>>

MissLimiter(t) ==
  /\ step[t] = "get"
  /\ limiters[name[t]] = 0
  /\ step' = [step EXCEPT ![t] = "create"]
  /\ UNCHANGED <<lock, limiters, value, name, limiter>>

\* Fault: the new semaphore is used before it exists.
CreateUnregistered(t) ==
  /\ step[t] = "create"
  /\ limiters' = [limiters EXCEPT ![name[t]] = Len(value) + 1]
  /\ limiter' = [limiter EXCEPT ![t] = Len(value) + 1]
  /\ step' = [step EXCEPT ![t] = "acquire"]
  /\ lock' = NoTask
  /\ UNCHANGED <<value, name>>

\* The name gets its semaphore, with all permits.
CreateLimiter(t) ==
  /\ step[t] = "create"
  /\ value' = Append(value, MaxWorkers[name[t]])
  /\ limiters' = [limiters EXCEPT ![name[t]] = Len(value')]
  /\ limiter' = [limiter EXCEPT ![t] = Len(value')]
  /\ step' = [step EXCEPT ![t] = "acquire"]
  /\ lock' = NoTask
  /\ UNCHANGED name

Acquire(t) ==
  /\ step[t] = "acquire"
  /\ value[limiter[t]] > 0
  /\ value' = [value EXCEPT ![limiter[t]] = @ - 1]
  /\ step' = [step EXCEPT ![t] = "inside"]
  /\ UNCHANGED <<lock, limiters, name, limiter>>

\* The section is left, by return or by exception: finally release.
Leave(t) ==
  /\ step[t] = "inside"
  /\ value' = IF limiter[t] = 0 THEN value
              ELSE [value EXCEPT ![limiter[t]] = @ + 1]
  /\ limiter' = [limiter EXCEPT ![t] = 0]
  /\ name' = [name EXCEPT ![t] = NoName]
  /\ step' = [step EXCEPT ![t] = "out"]
  /\ UNCHANGED <<lock, limiters>>

\* The steps between the call and the body of the with statement.
Proceed(t) ==
  \/ TakeLock(t)
  \/ GetLimiter(t)
  \/ MissLimiter(t)
  \/ CreateLimiter(t)
  \/ Acquire(t)

LimitNext ==
  \E t \in Tasks : Proceed(t) \/ Leave(t) \/ \E n \in Names : Enter(t, n)

LimitSpec == LimitInit /\ [][LimitNext]_limitVars

-------------------------------------------------------------------------------
LimitTypeOK ==
  /\ lock \in Tasks \cup {NoTask}
  /\ value \in Seq(Nat)
  /\ limiters \in [Names -> 0 .. Len(value)]
  /\ step \in [Tasks -> Steps]
  /\ name \in [Tasks -> Names \cup {NoName}]
  /\ limiter \in [Tasks -> 0 .. Len(value)]

Inside(n) == {t \in Tasks : step[t] = "inside" /\ name[t] = n}

(***************************************************************************)
(* A bounded semaphore neither loses a permit nor gains one, whatever way  *)
(* the sections are left: what is free and what is in use add up to        *)
(* max_workers.                                                            *)
(***************************************************************************)
PermitsConserved ==
  \A n \in Names : limiters[n] # 0 =>
    value[limiters[n]] + Cardinality(Inside(n)) = MaxWorkers[n]

(***************************************************************************)
(* parser_worker_limit() keeps its promise: "limit concurrent access to    *)
(* heavy, process-wide parser operations".                                 *)
(***************************************************************************)
Slots == INSTANCE SlotPool WITH inside <- [n \in Names |-> Inside(n)]

SectionsAreLimited == Slots!Spec
===============================================================================
