------------------------------- MODULE SlotPool -------------------------------
(***************************************************************************)
(* What parser_worker_limit(name, max_workers) promises: at most           *)
(* max_workers threads are inside the heavy section of that name, any      *)
(* number when max_workers is not positive, and a thread is in one section *)
(* at a time.                                                              *)
(***************************************************************************)
EXTENDS Integers, FiniteSets

CONSTANTS
  Tasks,      \* the threads, named for the requests they run
  Names,      \* the heavy sections
  MaxWorkers  \* max_workers of each section

VARIABLE inside  \* the tasks inside each section

Init == inside = [n \in Names |-> {}]

HasRoom(n) == MaxWorkers[n] > 0 => Cardinality(inside[n]) < MaxWorkers[n]

Enter(t, n) ==
  /\ HasRoom(n)
  /\ \A m \in Names : t \notin inside[m]
  /\ inside' = [inside EXCEPT ![n] = @ \cup {t}]

Leave(t, n) ==
  /\ t \in inside[n]
  /\ inside' = [inside EXCEPT ![n] = @ \ {t}]

Next == \E t \in Tasks, n \in Names : Enter(t, n) \/ Leave(t, n)

Spec == Init /\ [][Next]_inside
===============================================================================
