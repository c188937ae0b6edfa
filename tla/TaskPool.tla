------------------------------ MODULE TaskPool ------------------------------
(***************************************************************************)
(* What do_in_parallel_with_idx promises to main and to validateQueries.py *)
(* over all the calls of a process.  Calls follow one another.  A call     *)
(* returns with what its workers did, which is every task unless they once *)
(* met an empty queue too early; or it raises, hands over nothing, and     *)
(* spoils all later calls with as many processes; its workers may go on.   *)
(***************************************************************************)
EXTENDS Integers

CONSTANTS
  Calls,     \* the numbers of the calls, 1..n
  MaxTasks,  \* tasks of a call
  CpuNo      \* processes of a pool

VARIABLES
  stage,   \* [Calls -> {"none", "running", "returned", "raised"}]
  tasks,   \* [Calls -> Nat] how many tasks the call has
  size,    \* [Calls -> Nat] and how many processes
  taken,   \* [Calls -> Nat] tasks its workers have begun: the first ones
  early,   \* [Calls -> BOOLEAN] a worker found no task while there was one
  handed   \* [Calls -> SUBSET Nat] tasks whose results the caller got

vars == <<stage, tasks, size, taken, early, handed>>

Init ==
  /\ stage  = [k \in Calls |-> "none"]
  /\ tasks  = [k \in Calls |-> 0]
  /\ size   = [k \in Calls |-> 0]
  /\ taken  = [k \in Calls |-> 0]
  /\ early  = [k \in Calls |-> FALSE]
  /\ handed = [k \in Calls |-> {}]

Over(k) == stage[k] \in {"returned", "raised"}

Begin(k) ==
  /\ stage[k] = "none"
  /\ \A j \in Calls : (j < k => Over(j)) /\ (j > k => stage[j] = "none")
  /\ \E n \in 1..MaxTasks, s \in 1..CpuNo :
       /\ s <= n
       /\ tasks' = [tasks EXCEPT ![k] = n]
       /\ size' = [size EXCEPT ![k] = s]
  /\ stage' = [stage EXCEPT ![k] = "running"]
  /\ UNCHANGED <<taken, early, handed>>

AtWork(k) == stage[k] \in {"running", "raised"}

Take(k) ==
  /\ AtWork(k) /\ taken[k] < tasks[k]
  /\ taken' = [taken EXCEPT ![k] = @ + 1]
  /\ UNCHANGED <<stage, tasks, size, early, handed>>

MissTask(k) ==
  /\ AtWork(k) /\ taken[k] < tasks[k]
  /\ early' = [early EXCEPT ![k] = TRUE]
  /\ UNCHANGED <<stage, tasks, size, taken, handed>>

\* No earlier call with as many processes has raised.
Unspoiled(k) == \A j \in Calls : j < k /\ size[j] = size[k] => stage[j] # "raised"

Return(k) ==
  /\ stage[k] = "running" /\ Unspoiled(k)
  /\ taken[k] = tasks[k] \/ early[k]
  /\ handed' = [handed EXCEPT ![k] = 1..taken[k]]
  /\ stage' = [stage EXCEPT ![k] = "returned"]
  /\ UNCHANGED <<tasks, size, taken, early>>

Raise(k) ==
  /\ stage[k] = "running"
  /\ stage' = [stage EXCEPT ![k] = "raised"]
  /\ UNCHANGED <<tasks, size, taken, early, handed>>

Next == \E k \in Calls : Begin(k) \/ Take(k) \/ MissTask(k) \/ Return(k) \/ Raise(k)

Spec == Init /\ [][Next]_vars
=============================================================================
