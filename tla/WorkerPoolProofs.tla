-------------------------- MODULE WorkerPoolProofs --------------------------
(***************************************************************************)
(* Theorems about WorkerPool, for every number of calls, tasks, processes, *)
(* and every capacity of the pipe and the semaphore.                       *)
(***************************************************************************)
EXTENDS WorkerPool, SequenceTheorems, FiniteSetTheorems, TLAPS

-----------------------------------------------------------------------------
(***************************************************************************)
(* The inductive invariant, first part: the pools and the global lists of  *)
(* queues.  A cached pool serves the right queues because the lists only   *)
(* lose their last entry, so that what a pool was forked with stays a      *)
(* prefix of them.                                                         *)
(***************************************************************************)

\* The call's queues are in the lists.
Queued(k) == outcome[k] \in {"running", "raised"}

\* The worker has found its queues and has not ended.
Inside == {"getidx", "polling", "reading", "task", "request"}

CallsInOrder ==
  /\ \A k \in Calls : k > call => outcome[k] = "none"
  /\ \A k \in Calls : k <= call => outcome[k] # "none" /\ para[k] \in 1..CpuNo
  /\ \A k \in Calls : outcome[k] = "running" => k = call

QueuesInPlace ==
  /\ \A i \in 1..Len(idxQs) : Queued(idxQs[i]) /\ iQid[idxQs[i]] = i
  /\ \A k \in Calls : Queued(k) => iQid[k] \in 1..Len(idxQs) /\ idxQs[iQid[k]] = k
  /\ \A k \in Calls : outcome[k] = "running" => iQid[k] = Len(idxQs)

ViewsArePrefixes ==
  /\ \A p \in 1..CpuNo :
       /\ Len(view[p]) <= Len(idxQs)
       /\ \A i \in 1..Len(view[p]) : view[p][i] = idxQs[i]
  /\ \A k \in Calls : Queued(k) => view[para[k]] # NoPool
  /\ \A k \in Calls : outcome[k] = "running" =>
       \A p \in 1..CpuNo : p # para[k] => Len(view[p]) < Len(idxQs)

\* Once a call has raised, the queues of later calls are beyond what the
\* processes of its pool have seen.
RaisePoisons ==
  \A j, k \in Calls :
    j < k /\ outcome[j] = "raised" /\ outcome[k] # "none" /\ para[j] = para[k] =>
      outcome[k] # "returned" /\ iQid[k] > Len(view[para[k]])

WorkersInStep ==
  \A w \in Workers :
    /\ pc[w] # "absent" => w[1] <= call /\ w[2] <= para[w[1]]
    /\ w[1] <= call /\ w[2] <= para[w[1]] => pc[w] # "absent"
    /\ pc[w] \in Inside => serves[w] = w[1]
    /\ outcome[w[1]] = "returned" => pc[w] \in {"absent", "collected"}
    /\ outcome[w[1]] = "running" /\ iQid[w[1]] > Len(view[para[w[1]]])
         => pc[w] \in {"absent", "submitted", "failed"}

PoolInv ==
  CallsInOrder /\ QueuesInPlace /\ ViewsArePrefixes /\ RaisePoisons /\ WorkersInStep
  /\ ServesItsOwnCall

-----------------------------------------------------------------------------
(***************************************************************************)
(* The types.                                                              *)
(***************************************************************************)
TasksTyped == \A w \in Workers : InTask(w) => task[w] >= 1

\* _choose_para chooses a number of processes.
LEMMA ChooseParaType ==
  ASSUME NEW n \in 1..MaxTasks, NEW p \in 1..(CpuNo + 1)
  PROVE  ChoosePara(n, p) \in 1..CpuNo
BY WorkerPoolAssumption DEF ChoosePara

\* Removing the last element, which occurs only there, leaves the others.
LEMMA RemoveFirstOfLast ==
  ASSUME NEW S, NEW s \in Seq(S), s # << >>,
         \A i \in 1..(Len(s) - 1) : s[i] # s[Len(s)]
  PROVE  RemoveFirst(s, s[Len(s)]) = SubSeq(s, 1, Len(s) - 1)
<1> DEFINE n == Len(s)
           I == { i \in 1..n : s[i] = s[n] }
<1>1. n \in Nat \ {0}
  OBVIOUS
<1>2. I = {n}
  BY <1>1
<1>3. Min(I) = n
  BY <1>1, <1>2 DEF Min
<1>4. RemoveFirst(s, s[n]) = RemoveAt(s, n)
  BY <1>1, <1>2, <1>3 DEF RemoveFirst, SelectInSeq
<1>5. RemoveAt(s, n) = SubSeq(s, 1, n - 1) \o SubSeq(s, n + 1, n)
  BY <1>1 DEF RemoveAt
<1>6. SubSeq(s, n + 1, n) = << >>
  BY <1>1
<1>7. SubSeq(s, 1, n - 1) \in Seq(S)
  BY <1>1
<1>8. SubSeq(s, 1, n - 1) \o << >> = SubSeq(s, 1, n - 1)
  BY <1>7
<1> QED
  BY <1>4, <1>5, <1>6, <1>8

\* The queues of the running call are the last ones of the lists.
LEMMA ReturnRemovesLast ==
  ASSUME TypeInv, QueuesInPlace, NEW k \in Calls, outcome[k] = "running"
  PROVE  /\ Len(idxQs) \in Nat \ {0} /\ idxQs[Len(idxQs)] = k
         /\ RemoveFirst(idxQs, k) = SubSeq(idxQs, 1, Len(idxQs) - 1)
         /\ RemoveFirst(idxQs, k) \in Seq(Calls)
<1> DEFINE n == Len(idxQs)
<1>1. idxQs \in Seq(Calls) /\ n \in Nat
  BY DEF TypeInv
<1>2. iQid[k] = n /\ n \in 1..n /\ idxQs[n] = k
  BY <1>1 DEF QueuesInPlace, Queued
<1>3. idxQs # << >> /\ n # 0
  BY <1>1, <1>2
<1>4. \A i \in 1..(n - 1) : idxQs[i] # idxQs[n]
  BY <1>1, <1>2 DEF QueuesInPlace
<1>5. RemoveFirst(idxQs, k) = SubSeq(idxQs, 1, n - 1)
  BY <1>1, <1>2, <1>3, <1>4, RemoveFirstOfLast
<1>6. SubSeq(idxQs, 1, n - 1) \in Seq(Calls)
  BY <1>1, <1>3
<1> QED
  BY <1>1, <1>2, <1>3, <1>5, <1>6

\* A call that has an outcome was begun, with its number of processes.
LEMMA MadeCall ==
  ASSUME TypeInv, CallsInOrder, NEW k \in Calls, outcome[k] # "none"
  PROVE  k <= call /\ para[k] \in 1..CpuNo
<1>1. k <= call
  BY DEF CallsInOrder, TypeInv, Calls
<1> QED
  BY <1>1 DEF CallsInOrder

\* A worker that serves a call serves that of its pool.
LEMMA ServedIsCall ==
  ASSUME TypeInv, WorkersInStep, NEW w \in Workers, pc[w] \in Inside
  PROVE  serves[w] = w[1] /\ w[1] \in Calls
BY DEF WorkersInStep, Workers

\* Every step keeps the types.
LEMMA TypeStep ==
  TypeInv /\ PoolInv /\ TasksTyped /\ [Next]_vars => TypeInv' /\ TasksTyped'
<1> SUFFICES ASSUME TypeInv, PoolInv, TasksTyped, [Next]_vars
             PROVE  TypeInv' /\ TasksTyped'
  OBVIOUS
<1> USE WorkerPoolAssumption
<1>1. ASSUME NEW n \in 1..MaxTasks, NEW p \in 1..(CpuNo + 1), Call(n, p)
      PROVE  TypeInv' /\ TasksTyped'
  <2> DEFINE c == call + 1
  <2>1. c \in Calls /\ ChoosePara(n, p) \in 1..CpuNo
    BY <1>1, ChooseParaType DEF Call, Calls, TypeInv
  <2>2. idxQs' \in Seq(Calls)
    BY <1>1, <2>1 DEF Call, TypeInv
  <2>3. view' \in [1..CpuNo -> Seq(Calls)]
    BY <1>1, <2>1, <2>2 DEF Call, TypeInv
  <2>4. pc' \in [Workers -> PC]
    BY <1>1 DEF Call, TypeInv, PC
  <2>5. iQid' \in [Calls -> Nat]
    <3>1. iQid' = [iQid EXCEPT ![c] = Len(idxQs) + 1]
      BY <1>1 DEF Call
    <3>2. iQid \in [Calls -> Nat] /\ idxQs \in Seq(Calls)
      BY DEF TypeInv
    <3>3. Len(idxQs) + 1 \in Nat
      BY <3>2
    <3> QED
      BY <3>1, <3>2, <3>3
  <2>6. /\ call' \in 0..MaxCalls
        /\ ntask' \in [Calls -> 0..MaxTasks]
        /\ para' \in [Calls -> 0..CpuNo]
        /\ manager' \in [Calls -> BOOLEAN]
        /\ outcome' \in [Calls -> {"none", "running", "returned", "raised"}]
    <3>1. /\ call' = c
          /\ ntask' = [ntask EXCEPT ![c] = n]
          /\ para' = [para EXCEPT ![c] = ChoosePara(n, p)]
          /\ manager' = [manager EXCEPT ![c] = TRUE]
          /\ outcome' = [outcome EXCEPT ![c] = "running"]
      BY <1>1 DEF Call
    <3>2. c \in 0..MaxCalls /\ n \in 0..MaxTasks /\ ChoosePara(n, p) \in 0..CpuNo
      BY <2>1 DEF Calls
    <3> QED
      BY <3>1, <3>2 DEF TypeInv
  <2>8. UNCHANGED <<flushed, taken, idxTaken, reader, early, serves, idx, task, results, rsltList>>
    BY <1>1 DEF Call, queueVars
  <2>9. TypeInv'
    BY <2>2, <2>3, <2>4, <2>5, <2>6, <2>8 DEF TypeInv
  <2>7. TasksTyped'
    BY <1>1 DEF Call, TasksTyped, InTask, queueVars
  <2> QED
    BY <2>7, <2>9
<1>2. ASSUME NEW w \in Workers, Collect(w) \/ Raise(w)
      PROVE  TypeInv' /\ TasksTyped'
  <2>1. w[1] \in Calls
    BY DEF Workers
  <2>2. /\ pc' \in [Workers -> PC]
        /\ rsltList' \in [Calls -> SUBSET (1..MaxTasks)]
        /\ outcome' \in [Calls -> {"none", "running", "returned", "raised"}]
    <3>1. "collected" \in PC
      BY DEF PC
    <3>2. pc' = [pc EXCEPT ![w] = "collected"] /\ pc \in [Workers -> PC]
      BY <1>2 DEF Collect, Raise, TypeInv
    <3>3. pc' \in [Workers -> PC]
      BY <3>1, <3>2
    <3>4. CASE Collect(w)
      <4>1. rsltList[w[1]] \cup results[w] \subseteq 1..MaxTasks
        BY <2>1 DEF TypeInv
      <4>2. /\ rsltList' = [rsltList EXCEPT ![w[1]] = rsltList[w[1]] \cup results[w]]
            /\ outcome' = outcome
        BY <3>4 DEF Collect
      <4> QED
        BY <3>3, <4>1, <4>2 DEF TypeInv
    <3>5. CASE Raise(w)
      <4>1. rsltList' = rsltList /\ outcome' = [outcome EXCEPT ![w[1]] = "raised"]
        BY <3>5 DEF Raise
      <4> QED
        BY <2>1, <3>3, <4>1 DEF TypeInv
    <3> QED
      BY <1>2, <3>4, <3>5
  <2>4. UNCHANGED <<callVars, globalVars, queueVars, serves, idx, task, results, manager>>
    BY <1>2 DEF Collect, Raise
  <2>5. TypeInv'
    BY <2>2, <2>4 DEF TypeInv, callVars, globalVars, queueVars
  <2>3. TasksTyped'
    BY <1>2 DEF Collect, Raise, TypeInv, TasksTyped, InTask
  <2> QED
    BY <2>3, <2>5
<1>3. ASSUME NEW k \in Calls, Return(k) \/ LoseManager(k) \/ Feed(k)
      PROVE  TypeInv' /\ TasksTyped'
  <2>1. CASE Return(k)
    <3>1. idxQs' \in Seq(Calls) /\ view' \in [1..CpuNo -> Seq(Calls)]
      <4>1. RemoveFirst(idxQs, k) \in Seq(Calls)
        BY <2>1, ReturnRemovesLast DEF TypeInv, PoolInv, Return
      <4>2. NoPool \in Seq(Calls)
        BY DEF NoPool
      <4> QED
        BY <2>1, <4>1, <4>2 DEF Return, TypeInv
    <3>2. /\ outcome' \in [Calls -> {"none", "running", "returned", "raised"}]
          /\ manager' \in [Calls -> BOOLEAN]
      BY <2>1 DEF Return, TypeInv
    <3>3. UNCHANGED <<callVars, queueVars, workerVars, rsltList>>
      BY <2>1 DEF Return
    <3> QED
      BY <3>1, <3>2, <3>3 DEF TypeInv, TasksTyped, InTask, callVars, queueVars, workerVars
  <2>2. CASE LoseManager(k)
    BY <2>2 DEF LoseManager, TypeInv, TasksTyped, InTask, callVars, globalVars,
       queueVars, workerVars
  <2>3. CASE Feed(k)
    <3>1. flushed' \in [Calls -> 0..MaxTasks]
      <4>1. flushed[k] < ntask[k] /\ flushed[k] \in 0..MaxTasks /\ ntask[k] \in 0..MaxTasks
        BY <2>3 DEF Feed, TypeInv
      <4>2. flushed[k] + 1 \in 0..MaxTasks
        BY <4>1
      <4> QED
        BY <2>3, <4>2 DEF Feed, TypeInv
    <3>2. UNCHANGED <<callVars, globalVars, taken, idxTaken, reader, early, workerVars, callerVars>>
      BY <2>3 DEF Feed
    <3> QED
      BY <3>1, <3>2 DEF TypeInv, TasksTyped, InTask, callVars, globalVars, workerVars, callerVars
  <2> QED
    BY <1>3, <2>1, <2>2, <2>3
<1>4. ASSUME NEW w \in Workers, LookUp(w)
      PROVE  TypeInv' /\ TasksTyped'
  <2> DEFINE k == w[1]
  <2>1. k \in Calls /\ para[k] \in 0..CpuNo /\ pc[w] = "submitted"
    BY <1>4 DEF Workers, TypeInv, LookUp
  <2>2. pc' \in [Workers -> PC]
    BY <1>4 DEF LookUp, TypeInv, PC
  <2>3. serves' \in [Workers -> 0..MaxCalls]
    <3>1. CASE iQid[k] > Len(view[para[k]])
      BY <1>4, <3>1 DEF LookUp, TypeInv
    <3>2. CASE ~(iQid[k] > Len(view[para[k]]))
      <4>1. para[k] \in 1..CpuNo
        BY <2>1 DEF PoolInv, WorkersInStep, CallsInOrder
      <4>2. view[para[k]] \in Seq(Calls) /\ iQid[k] \in Nat
        BY <2>1, <4>1 DEF TypeInv
      <4>3. Queued(k)
        <5>1. k <= call /\ outcome[k] # "returned"
          BY <2>1 DEF PoolInv, WorkersInStep
        <5>2. outcome[k] # "none"
          BY <2>1, <5>1 DEF PoolInv, CallsInOrder
        <5> QED
          BY <2>1, <5>1, <5>2 DEF TypeInv, Queued
      <4>4. iQid[k] \in 1..Len(view[para[k]])
        BY <2>1, <3>2, <4>2, <4>3 DEF PoolInv, QueuesInPlace
      <4>5. view[para[k]][iQid[k]] \in 0..MaxCalls
        BY <4>2, <4>4 DEF Calls
      <4> QED
        BY <1>4, <3>2, <4>5 DEF LookUp, TypeInv
    <3> QED
      BY <3>1, <3>2
  <2>4. UNCHANGED <<callVars, globalVars, queueVars, idx, task, results, callerVars>>
    BY <1>4 DEF LookUp
  <2>5. TypeInv'
    BY <2>2, <2>3, <2>4 DEF TypeInv, callVars, globalVars, queueVars, callerVars
  <2>6. TasksTyped'
    BY <1>4, <2>1, <2>4 DEF LookUp, TypeInv, TasksTyped, InTask
  <2> QED
    BY <2>5, <2>6
<1>5. ASSUME NEW w \in Workers, GetIdx(w) \/ TryLock(w) \/ Contended(w) \/ FindEmpty(w)
      PROVE  TypeInv' /\ TasksTyped'
  <2>1. serves[w] \in Calls /\ pc[w] \in Inside /\ ~InTask(w)
    BY <1>5, ServedIsCall DEF PoolInv, GetIdx, TryLock, Contended, FindEmpty, Inside, InTask
  <2>2. /\ pc' \in [Workers -> PC]
        /\ idx' \in [Workers -> Int]
        /\ idxTaken' \in [Calls -> Nat]
        /\ reader' \in [Calls -> Workers \cup {NoWorker}]
        /\ early' \in [Calls -> BOOLEAN]
    <3>1. CASE GetIdx(w)
      BY <2>1, <3>1, SMTT(30) DEF GetIdx, TypeInv, PC
    <3>2. CASE TryLock(w)
      BY <2>1, <3>2 DEF TryLock, TypeInv, PC
    <3>3. CASE Contended(w)
      BY <2>1, <3>3 DEF Contended, TypeInv, PC, queueVars
    <3>4. CASE FindEmpty(w)
      BY <2>1, <3>4 DEF FindEmpty, TypeInv, PC
    <3> QED
      BY <1>5, <3>1, <3>2, <3>3, <3>4
  <2>3. UNCHANGED <<callVars, globalVars, flushed, taken, serves, task, results, callerVars>>
    BY <1>5 DEF GetIdx, TryLock, Contended, FindEmpty, queueVars
  <2>4. TypeInv'
    BY <2>2, <2>3 DEF TypeInv, callVars, globalVars, callerVars
  <2>5. \A v \in Workers : InTask(v)' => InTask(v)
    BY <1>5 DEF GetIdx, TryLock, Contended, FindEmpty, TypeInv, InTask
  <2> QED
    BY <2>3, <2>4, <2>5 DEF TasksTyped
<1>6. ASSUME NEW w \in Workers, Take(w)
      PROVE  TypeInv' /\ TasksTyped'
  <2> DEFINE q == serves[w]
  <2>1. q \in Calls
    BY <1>6, ServedIsCall DEF PoolInv, Take, Inside
  <2>2. taken[q] + 1 \in 0..MaxTasks /\ taken[q] + 1 >= 1
    <3>1. flushed[q] > taken[q] /\ flushed[q] \in 0..MaxTasks /\ taken[q] \in 0..MaxTasks
      BY <1>6, <2>1 DEF Take, TypeInv
    <3> QED
      BY <3>1
  <2>3. /\ pc' = [pc EXCEPT ![w] = "task"]
        /\ task' = [task EXCEPT ![w] = taken[q] + 1]
        /\ taken' = [taken EXCEPT ![q] = @ + 1]
        /\ reader' = [reader EXCEPT ![q] = NoWorker]
        /\ UNCHANGED <<callVars, globalVars, flushed, idxTaken, early, serves, idx,
                       results, callerVars>>
    BY <1>6 DEF Take
  <2>4. /\ pc' \in [Workers -> PC]
        /\ task' \in [Workers -> 0..MaxTasks]
        /\ taken' \in [Calls -> 0..MaxTasks]
        /\ reader' \in [Calls -> Workers \cup {NoWorker}]
    BY <2>1, <2>2, <2>3 DEF TypeInv, PC
  <2>5. TypeInv'
    BY <2>3, <2>4 DEF TypeInv, callVars, globalVars, callerVars
  <2>6. TasksTyped'
    BY <2>2, <2>3 DEF TypeInv, TasksTyped, InTask
  <2> QED
    BY <2>5, <2>6
<1>7. ASSUME NEW w \in Workers, Acquire(w) \/ Release(w) \/ FinishTask(w) \/ FailTask(w)
      PROVE  TypeInv' /\ TasksTyped'
  <2>1. InTask(w) /\ task[w] \in 1..MaxTasks
    BY <1>7 DEF Acquire, Release, FinishTask, FailTask, InTask, TasksTyped, TypeInv
  <2>2. /\ pc' \in [Workers -> PC]
        /\ task' \in [Workers -> 0..MaxTasks]
        /\ results' \in [Workers -> SUBSET (1..MaxTasks)]
    <3>1. CASE Acquire(w) \/ Release(w)
      BY <3>1 DEF Acquire, Release, TypeInv, PC
    <3>2. CASE FinishTask(w)
      BY <2>1, <3>2 DEF FinishTask, TypeInv, PC
    <3>3. CASE FailTask(w)
      BY <3>3 DEF FailTask, TypeInv, PC
    <3> QED
      BY <1>7, <3>1, <3>2, <3>3
  <2>3. UNCHANGED <<callVars, globalVars, queueVars, serves, idx, callerVars>>
    BY <1>7 DEF Acquire, Release, FinishTask, FailTask
  <2>4. TypeInv'
    BY <2>2, <2>3 DEF TypeInv, callVars, globalVars, queueVars, callerVars
  <2>5. TasksTyped'
    BY <1>7, <2>1 DEF Acquire, Release, FinishTask, FailTask, TypeInv, TasksTyped, InTask
  <2> QED
    BY <2>4, <2>5
<1>8. CASE UNCHANGED vars
  BY <1>8 DEF vars, callVars, globalVars, queueVars, workerVars, callerVars,
     TypeInv, TasksTyped, InTask
<1> QED
  BY <1>1, <1>2, <1>3, <1>4, <1>5, <1>6, <1>7, <1>8
     DEF Next, CallerStep, WorkerStep, Finished, Workers

-----------------------------------------------------------------------------
(***************************************************************************)
(* The pools and the lists, step by step.                                  *)
(***************************************************************************)

\* A call puts its queues at the end of the lists; its pool is new, and sees
\* them, or it is older than they are.
LEMMA PoolCall ==
  ASSUME TypeInv, PoolInv, NEW n \in 1..MaxTasks, NEW p \in 1..(CpuNo + 1), Call(n, p)
  PROVE  PoolInv'
<1> DEFINE c == call + 1
           q == ChoosePara(n, p)
           m == Len(idxQs)
<1> USE WorkerPoolAssumption
<1>1. c \in Calls /\ q \in 1..CpuNo /\ call \in Nat /\ c > call
  BY ChooseParaType DEF Call, Calls, TypeInv
<1>2. /\ call' = c
      /\ para' = [para EXCEPT ![c] = q]
      /\ idxQs' = Append(idxQs, c)
      /\ iQid' = [iQid EXCEPT ![c] = m + 1]
      /\ view' = IF view[q] = NoPool THEN [view EXCEPT ![q] = idxQs'] ELSE view
      /\ pc' = [w \in Workers |-> IF w[1] = c /\ w[2] <= q THEN "submitted" ELSE pc[w]]
      /\ outcome' = [outcome EXCEPT ![c] = "running"]
      /\ serves' = serves
      /\ \A k \in Calls : outcome[k] # "running"
  BY DEF Call, Idle
<1>3. /\ idxQs \in Seq(Calls) /\ m \in Nat /\ Len(idxQs') = m + 1 /\ idxQs'[m + 1] = c
      /\ \A i \in 1..m : idxQs'[i] = idxQs[i] /\ idxQs[i] \in Calls
  <2>1. idxQs \in Seq(Calls) /\ c \in Calls
    BY <1>1 DEF TypeInv
  <2>2. idxQs' = Append(idxQs, c)
    BY <1>2
  <2> HIDE DEF c
  <2> QED
    BY <2>1, <2>2
<1>4. \A k \in Calls : /\ k # c => /\ para'[k] = para[k] /\ iQid'[k] = iQid[k]
                                  /\ outcome'[k] = outcome[k]
                       /\ k = c => /\ para'[k] = q /\ iQid'[k] = m + 1
                                   /\ outcome'[k] = "running"
  BY <1>1, <1>2 DEF TypeInv
<1>5. \A k \in Calls : k # c => ~(k > call /\ k <= c)
  BY <1>1 DEF Calls
<1>6. outcome[c] = "none" /\ \A i \in 1..m : idxQs[i] # c
  BY <1>1, <1>3 DEF PoolInv, CallsInOrder, QueuesInPlace, Queued
<1>7. \A r \in 1..CpuNo : view[r] \in Seq(Calls)
  BY DEF TypeInv
<1>8. CallsInOrder'
  BY <1>1, <1>2, <1>4, <1>5, SMTT(30) DEF PoolInv, CallsInOrder, Calls
<1>9. QueuesInPlace'
  <2>1. ASSUME NEW i \in 1..(m + 1)
        PROVE  outcome'[idxQs'[i]] \in {"running", "raised"} /\ iQid'[idxQs'[i]] = i
    <3>1. CASE i \in 1..m
      <4>1. idxQs'[i] = idxQs[i] /\ idxQs[i] \in Calls /\ idxQs[i] # c
        BY <3>1, <1>3, <1>6
      <4>2. outcome[idxQs[i]] \in {"running", "raised"} /\ iQid[idxQs[i]] = i
        BY <3>1 DEF PoolInv, QueuesInPlace, Queued
      <4> QED
        BY <4>1, <4>2, <1>4
    <3>2. CASE i = m + 1
      <4>1. idxQs'[i] = c
        BY <3>2, <1>3
      <4> QED
        BY <3>2, <4>1, <1>1, <1>4
    <3> QED
      BY <3>1, <3>2, <1>3
  <2>2. ASSUME NEW k \in Calls, Queued(k)'
        PROVE  iQid'[k] \in 1..(m + 1) /\ idxQs'[iQid'[k]] = k
    <3>1. CASE k = c
      BY <3>1, <1>3, <1>4
    <3>2. CASE k # c
      <4>1. iQid[k] \in 1..m /\ idxQs[iQid[k]] = k
        BY <3>2, <2>2, <1>4 DEF PoolInv, QueuesInPlace, Queued
      <4> QED
        BY <4>1, <3>2, <1>3, <1>4
    <3> QED
      BY <3>1, <3>2
  <2>3. \A k \in Calls : outcome'[k] = "running" => iQid'[k] = m + 1
    BY <1>2, <1>4
  <2> QED
    BY <2>1, <2>2, <2>3, <1>3 DEF QueuesInPlace, Queued
<1>10. \A r \in 1..CpuNo :
         \/ view'[r] = view[r]
         \/ r = q /\ view[q] = NoPool /\ view'[r] = idxQs'
  BY <1>1, <1>2 DEF TypeInv
<1>11. \A r \in 1..CpuNo : Len(view[r]) \in Nat /\ Len(view[r]) <= m
  BY <1>7 DEF PoolInv, ViewsArePrefixes
<1>12. view'[q] # NoPool
  <2>1. idxQs' # << >>
    BY <1>3
  <2>2. CASE view[q] = NoPool
    BY <2>1, <2>2, <1>1, <1>2 DEF NoPool, TypeInv
  <2>3. CASE view[q] # NoPool
    BY <2>3, <1>2
  <2> QED
    BY <2>2, <2>3
<1>13. ViewsArePrefixes'
  <2>1. ASSUME NEW r \in 1..CpuNo
        PROVE  /\ Len(view'[r]) <= Len(idxQs')
               /\ \A i \in 1..Len(view'[r]) : view'[r][i] = idxQs'[i]
    <3>1. CASE view'[r] = view[r]
      <4>1. \A i \in 1..Len(view[r]) : view[r][i] = idxQs[i] /\ i \in 1..m
        BY <1>3, <1>11 DEF PoolInv, ViewsArePrefixes
      <4> QED
        BY <3>1, <4>1, <1>3, <1>11
    <3>2. CASE view'[r] = idxQs'
      BY <3>2, <1>3
    <3> QED
      BY <3>1, <3>2, <1>10
  <2>2. ASSUME NEW k \in Calls, Queued(k)'
        PROVE  view'[para'[k]] # NoPool
    <3>1. CASE k = c
      BY <3>1, <1>4, <1>12
    <3>2. CASE k # c
      <4>1. Queued(k) /\ view[para[k]] # NoPool
        BY <3>2, <2>2, <1>4 DEF PoolInv, ViewsArePrefixes, Queued
      <4>2. para[k] \in 1..CpuNo
        BY <4>1 DEF PoolInv, CallsInOrder, Queued, TypeInv, Calls
      <4> QED
        BY <3>2, <4>1, <4>2, <1>4, <1>10, <1>12
    <3> QED
      BY <3>1, <3>2
  <2>3. ASSUME NEW k \in Calls, outcome'[k] = "running",
               NEW r \in 1..CpuNo, r # para'[k]
        PROVE  Len(view'[r]) < Len(idxQs')
    <3>1. k = c /\ r # q
      BY <2>3, <1>2, <1>4
    <3> QED
      BY <3>1, <1>3, <1>10, <1>11
  <2> QED
    BY <2>1, <2>2, <2>3 DEF ViewsArePrefixes
<1>14. RaisePoisons'
  <2> SUFFICES ASSUME NEW j \in Calls, NEW k \in Calls, j < k, outcome'[j] = "raised",
                      outcome'[k] # "none", para'[j] = para'[k]
               PROVE  outcome'[k] # "returned" /\ iQid'[k] > Len(view'[para'[k]])
    BY DEF RaisePoisons
  <2>1. j # c /\ Queued(j) /\ outcome[j] = "raised" /\ para'[j] = para[j]
    BY <1>4 DEF Queued
  <2>2. para[j] \in 1..CpuNo /\ view[para[j]] # NoPool
    BY <2>1, MadeCall DEF PoolInv, ViewsArePrefixes
  <2>3. view'[para[j]] = view[para[j]]
    BY <2>2, <1>10
  <2>4. CASE k = c
    BY <2>1, <2>2, <2>3, <2>4, <1>3, <1>4, <1>11
  <2>5. CASE k # c
    BY <2>1, <2>3, <2>5, <1>4, ZenonT(40) DEF PoolInv, RaisePoisons
  <2> QED
    BY <2>4, <2>5
<1>15. WorkersInStep' /\ ServesItsOwnCall'
  <2>1. ASSUME NEW w \in Workers, w[1] = c
        PROVE  /\ pc[w] = "absent"
               /\ pc'[w] \in {"submitted", "absent"}
               /\ pc'[w] = "submitted" => w[2] <= q
               /\ w[2] <= q => pc'[w] = "submitted"
    BY <2>1, <1>1, <1>2 DEF PoolInv, WorkersInStep
  <2>2. ASSUME NEW w \in Workers, w[1] # c
        PROVE  pc'[w] = pc[w] /\ w[1] \in Calls
    BY <2>2, <1>2 DEF Workers
  <2>3. ServesItsOwnCall'
    BY <1>2 DEF PoolInv, ServesItsOwnCall
  <2>4. ASSUME NEW w \in Workers
        PROVE  /\ pc'[w] # "absent" => w[1] <= c /\ w[2] <= para'[w[1]]
               /\ w[1] <= c /\ w[2] <= para'[w[1]] => pc'[w] # "absent"
               /\ pc'[w] \in Inside => serves'[w] = w[1]
               /\ outcome'[w[1]] = "returned" => pc'[w] \in {"absent", "collected"}
               /\ outcome'[w[1]] = "running" /\ iQid'[w[1]] > Len(view'[para'[w[1]]])
                    => pc'[w] \in {"absent", "submitted", "failed"}
    <3>1. CASE w[1] = c
      BY <3>1, <2>1, <1>1, <1>4 DEF Inside, Workers
    <3>2. CASE w[1] # c
      <4>1. outcome'[w[1]] # "running"
        BY <3>2, <2>2, <1>2, <1>4
      <4>2. w[1] <= c <=> w[1] <= call
        BY <3>2, <1>1 DEF Workers, Calls
      <4> QED
        BY <3>2, <4>1, <4>2, <2>2, <1>1, <1>2, <1>4 DEF PoolInv, WorkersInStep, Workers, Calls
    <3> QED
      BY <3>1, <3>2
  <2> QED
    BY <2>3, <2>4, <1>2 DEF WorkersInStep
<1> QED
  BY <1>8, <1>9, <1>13, <1>14, <1>15 DEF PoolInv

\* The pool of a call that returns is cleared; it is not the pool of a call
\* that raised, for with such a pool no worker would have been collected.
LEMMA PoolReturn ==
  ASSUME TypeInv, PoolInv, NEW k \in Calls, Return(k)
  PROVE  PoolInv'
<1> DEFINE q == para[k]
           m == Len(idxQs)
<1>1. /\ outcome[k] = "running"
      /\ \A i \in 1..q : pc[<<k, i>>] = "collected"
      /\ outcome' = [outcome EXCEPT ![k] = "returned"]
      /\ view' = [view EXCEPT ![q] = NoPool]
      /\ idxQs' = RemoveFirst(idxQs, k)
      /\ UNCHANGED <<call, para, iQid, pc, serves>>
  BY DEF Return, callVars, workerVars
<1>2. /\ idxQs \in Seq(Calls) /\ m \in Nat \ {0} /\ idxQs[m] = k
      /\ idxQs' = SubSeq(idxQs, 1, m - 1)
  BY <1>1, ReturnRemovesLast DEF PoolInv, TypeInv
<1>3. Len(idxQs') = m - 1 /\ \A i \in 1..(m - 1) : idxQs'[i] = idxQs[i]
  <2>1. m \in Int /\ m >= 1
    BY <1>2
  <2>2. /\ Len(SubSeq(idxQs, 1, m - 1)) = IF 1 <= m - 1 THEN (m - 1) - 1 + 1 ELSE 0
        /\ \A i \in 1..((m - 1) - 1 + 1) : SubSeq(idxQs, 1, m - 1)[i] = idxQs[1 + i - 1]
    BY <1>2, <2>1, SubSeqProperties
  <2> HIDE DEF m
  <2>3. (IF 1 <= m - 1 THEN (m - 1) - 1 + 1 ELSE 0) = m - 1 /\ (m - 1) - 1 + 1 = m - 1
    BY <2>1
  <2>4. Len(idxQs') = m - 1
    BY <1>2, <2>2, <2>3
  <2>5. ASSUME NEW i \in 1..(m - 1)
        PROVE  idxQs'[i] = idxQs[i]
    <3>1. SubSeq(idxQs, 1, m - 1)[i] = idxQs[1 + i - 1]
      BY <2>2, <2>3
    <3>2. 1 + i - 1 = i
      BY <2>1
    <3> QED
      BY <3>1, <3>2, <1>2
  <2> QED
    BY <2>4, <2>5
<1>4. q \in 1..CpuNo
  BY <1>1, MadeCall DEF PoolInv
<1>5. \A j \in Calls : /\ j # k => outcome'[j] = outcome[j] /\ outcome[j] # "running"
                       /\ j = k => outcome'[j] = "returned"
  BY <1>1 DEF TypeInv, PoolInv, CallsInOrder
<1>6. iQid[k] = m
  BY <1>1 DEF PoolInv, QueuesInPlace
<1>7. \A r \in 1..CpuNo : /\ r # q => view'[r] = view[r] /\ Len(view[r]) < m
                          /\ r = q => view'[r] = << >>
                          /\ Len(view[r]) \in Nat
  <2>1. \A r \in 1..CpuNo : view[r] \in Seq(Calls)
    BY DEF TypeInv
  <2> QED
    BY <2>1, <1>1, <1>4 DEF PoolInv, ViewsArePrefixes, NoPool, TypeInv
<1>8. \A j \in Calls : outcome[j] = "raised" => para[j] # q
  <2> SUFFICES ASSUME NEW j \in Calls, outcome[j] = "raised", para[j] = q
               PROVE  FALSE
    OBVIOUS
  <2>1. j < k
    BY <1>1, MadeCall DEF PoolInv, CallsInOrder, Calls, TypeInv
  <2>2. iQid[k] > Len(view[q])
    BY <2>1, <1>1 DEF PoolInv, RaisePoisons
  <2>3. <<k, 1>> \in Workers /\ 1 \in 1..q
    BY <1>4, WorkerPoolAssumption DEF Workers
  <2>4. pc[<<k, 1>>] \in {"absent", "submitted", "failed"}
    BY <2>2, <2>3, <1>1 DEF PoolInv, WorkersInStep
  <2> QED
    BY <2>3, <2>4, <1>1
<1>9. CallsInOrder'
  BY <1>1, <1>5 DEF PoolInv, CallsInOrder
<1>10. QueuesInPlace'
  <2>1. ASSUME NEW i \in 1..(m - 1)
        PROVE  outcome'[idxQs'[i]] \in {"running", "raised"} /\ iQid[idxQs'[i]] = i
    <3>1. idxQs'[i] = idxQs[i] /\ idxQs[i] \in Calls
      BY <1>2, <1>3
    <3>2. outcome[idxQs[i]] \in {"running", "raised"} /\ iQid[idxQs[i]] = i
      BY <1>2 DEF PoolInv, QueuesInPlace, Queued
    <3>3. idxQs[i] # k
      BY <3>2, <1>2, <1>6
    <3> QED
      BY <3>1, <3>2, <3>3, <1>5
  <2>2. ASSUME NEW j \in Calls, outcome'[j] \in {"running", "raised"}
        PROVE  iQid[j] \in 1..(m - 1) /\ idxQs'[iQid[j]] = j /\ outcome'[j] # "running"
    <3>1. j # k /\ outcome[j] = outcome'[j] /\ outcome[j] # "running"
      BY <2>2, <1>5
    <3>2. iQid[j] \in 1..m /\ idxQs[iQid[j]] = j
      BY <2>2, <3>1 DEF PoolInv, QueuesInPlace, Queued
    <3>3. iQid[j] # m
      BY <3>1, <3>2, <1>2
    <3> QED
      BY <3>1, <3>2, <3>3, <1>2, <1>3
  <2> QED
    BY <2>1, <2>2, <1>1, <1>3 DEF QueuesInPlace, Queued
<1>11. ViewsArePrefixes'
  <2>1. ASSUME NEW r \in 1..CpuNo
        PROVE  /\ Len(view'[r]) <= Len(idxQs')
               /\ \A i \in 1..Len(view'[r]) : view'[r][i] = idxQs'[i]
    <3>1. CASE r = q
      <4>1. Len(view'[r]) = 0
        BY <3>1, <1>7
      <4> QED
        BY <4>1, <1>2, <1>3
    <3>2. CASE r # q
      <4>1. view'[r] = view[r] /\ Len(view[r]) < m /\ Len(view[r]) \in Nat
        BY <3>2, <1>7
      <4>2. \A i \in 1..Len(view[r]) : view[r][i] = idxQs[i]
        BY DEF PoolInv, ViewsArePrefixes
      <4> QED
        BY <4>1, <4>2, <1>2, <1>3
    <3> QED
      BY <3>1, <3>2
  <2>2. ASSUME NEW j \in Calls, outcome'[j] \in {"running", "raised"}
        PROVE  view'[para[j]] # NoPool
    <3>1. outcome[j] = "raised"
      BY <2>2, <1>5
    <3>2. para[j] \in 1..CpuNo /\ para[j] # q /\ view[para[j]] # NoPool
      BY <3>1, <1>8, MadeCall DEF PoolInv, ViewsArePrefixes, Queued
    <3> QED
      BY <3>2, <1>7
  <2>3. \A j \in Calls : outcome'[j] # "running"
    BY <1>5
  <2> QED
    BY <2>1, <2>2, <2>3, <1>1 DEF ViewsArePrefixes, Queued
<1>12. RaisePoisons'
  <2> SUFFICES ASSUME NEW i \in Calls, NEW j \in Calls, i < j, outcome'[i] = "raised",
                      outcome'[j] # "none", para[i] = para[j]
               PROVE  outcome'[j] # "returned" /\ iQid[j] > Len(view'[para[j]])
    BY <1>1 DEF RaisePoisons
  <2>1. i # k /\ outcome[i] = "raised" /\ para[i] # q /\ para[i] \in 1..CpuNo
    BY <1>5, <1>8, MadeCall DEF PoolInv
  <2>2. j # k
    BY <2>1
  <2>3. outcome[j] = outcome'[j] /\ view'[para[j]] = view[para[j]]
    BY <2>1, <2>2, <1>5, <1>7
  <2> QED
    BY <2>1, <2>3 DEF PoolInv, RaisePoisons
<1>13. WorkersInStep' /\ ServesItsOwnCall'
  <2>1. ASSUME NEW w \in Workers, outcome'[w[1]] = "returned"
        PROVE  pc[w] \in {"absent", "collected"}
    <3>1. CASE w[1] = k
      <4>1. w = <<k, w[2]>> /\ w[2] \in 1..CpuNo
        BY <3>1 DEF Workers
      <4>2. CASE w[2] <= q
        BY <4>1, <4>2, <1>1, <1>4
      <4>3. CASE ~(w[2] <= q)
        BY <3>1, <4>3 DEF PoolInv, WorkersInStep
      <4> QED
        BY <4>2, <4>3
    <3>2. CASE w[1] # k
      BY <3>2, <2>1, <1>5 DEF PoolInv, WorkersInStep, Workers
    <3> QED
      BY <3>1, <3>2
  <2>2. \A w \in Workers : outcome'[w[1]] # "running"
    BY <1>5 DEF Workers
  <2> QED
    BY <2>1, <2>2, <1>1 DEF PoolInv, WorkersInStep, ServesItsOwnCall
<1> QED
  BY <1>9, <1>10, <1>11, <1>12, <1>13 DEF PoolInv

\* The caller consumes a chunk.
LEMMA PoolConsume ==
  ASSUME TypeInv, PoolInv, NEW w \in Workers, Collect(w) \/ Raise(w)
  PROVE  PoolInv'
<1> DEFINE k == w[1]
<1>1. /\ outcome[k] = "running" /\ k \in Calls
      /\ pc[w] \in {"done", "failed"}
      /\ pc' = [pc EXCEPT ![w] = "collected"]
      /\ UNCHANGED <<call, para, iQid, idxQs, view, serves>>
  BY DEF Collect, Raise, callVars, globalVars, Workers
<1>2. \/ pc[w] = "done" /\ outcome' = outcome
      \/ pc[w] = "failed" /\ outcome' = [outcome EXCEPT ![k] = "raised"]
  BY DEF Collect, Raise
<1>3. \A j \in Calls : \/ outcome'[j] = outcome[j]
                       \/ j = k /\ outcome'[j] = "raised" /\ outcome[j] = "running"
  BY <1>1, <1>2 DEF TypeInv
<1>4. CallsInOrder'
  BY <1>1, <1>3 DEF PoolInv, CallsInOrder
<1>5. QueuesInPlace'
  <2>1. \A i \in 1..Len(idxQs) : idxQs[i] \in Calls
    BY DEF TypeInv
  <2> QED
    BY <1>1, <1>3, <2>1 DEF PoolInv, QueuesInPlace, Queued
<1>6. ViewsArePrefixes'
  BY <1>1, <1>3 DEF PoolInv, ViewsArePrefixes, Queued
<1>7. RaisePoisons'
  <2> SUFFICES ASSUME NEW i \in Calls, NEW j \in Calls, i < j, outcome'[i] = "raised",
                      outcome'[j] # "none", para[i] = para[j]
               PROVE  outcome'[j] # "returned" /\ iQid[j] > Len(view[para[j]])
    BY <1>1 DEF RaisePoisons
  <2>1. CASE outcome[i] = "raised"
    BY <2>1, <1>3 DEF PoolInv, RaisePoisons
  <2>2. CASE outcome[i] # "raised"
    \* i is the running call, hence the last one
    <3>1. i = k /\ k = call
      BY <2>2, <1>1, <1>3 DEF PoolInv, CallsInOrder
    <3>2. outcome[j] = "none"
      BY <3>1 DEF PoolInv, CallsInOrder
    <3> QED
      BY <3>1, <3>2, <1>3
  <2> QED
    BY <2>1, <2>2
<1>8. WorkersInStep'
  <2>1. ASSUME NEW v \in Workers
        PROVE  /\ pc'[v] # "absent" <=> pc[v] # "absent"
               /\ pc'[v] \in Inside => pc[v] \in Inside
               /\ outcome'[v[1]] = "returned" => v # w /\ outcome[v[1]] = "returned"
               /\ outcome'[v[1]] = "running" => outcome[v[1]] = "running"
               /\ v # w => pc'[v] = pc[v]
    BY <1>1, <1>3 DEF TypeInv, Inside, Workers
  <2>2. outcome'[k] = "running" => ~(iQid[k] > Len(view[para[k]]))
    <3>1. CASE pc[w] = "done"
      BY <3>1, <1>1 DEF PoolInv, WorkersInStep
    <3>2. CASE pc[w] = "failed"
      BY <3>2, <1>1, <1>2 DEF TypeInv
    <3> QED
      BY <3>1, <3>2, <1>1
  <2>3. ASSUME NEW v \in Workers
        PROVE  /\ pc'[v] # "absent" => v[1] <= call /\ v[2] <= para[v[1]]
               /\ v[1] <= call /\ v[2] <= para[v[1]] => pc'[v] # "absent"
               /\ pc'[v] \in Inside => serves[v] = v[1]
    BY <2>1 DEF PoolInv, WorkersInStep
  <2>4. ASSUME NEW v \in Workers
        PROVE  /\ outcome'[v[1]] = "returned" => pc'[v] \in {"absent", "collected"}
               /\ outcome'[v[1]] = "running" /\ iQid[v[1]] > Len(view[para[v[1]]])
                    => pc'[v] \in {"absent", "submitted", "failed"}
    BY <2>1, <2>2 DEF PoolInv, WorkersInStep
  <2> QED
    BY <1>1, <2>3, <2>4 DEF WorkersInStep
<1>9. ServesItsOwnCall'
  BY <1>1 DEF PoolInv, ServesItsOwnCall
<1> QED
  BY <1>4, <1>5, <1>6, <1>7, <1>8, <1>9 DEF PoolInv

\* A worker that starts finds its own queues, or fails.
LEMMA PoolLookUp ==
  ASSUME TypeInv, PoolInv, NEW w \in Workers, LookUp(w)
  PROVE  PoolInv'
<1> DEFINE k == w[1]
<1>1. /\ k \in Calls /\ pc[w] = "submitted"
      /\ UNCHANGED <<call, para, iQid, idxQs, view, outcome>>
  BY DEF LookUp, callVars, globalVars, callerVars, Workers
<1>2. k <= call /\ Queued(k) /\ para[k] \in 1..CpuNo
  <2>1. k <= call /\ outcome[k] # "returned"
    BY <1>1 DEF PoolInv, WorkersInStep
  <2>2. outcome[k] # "none" /\ para[k] \in 1..CpuNo
    BY <1>1, <2>1 DEF PoolInv, CallsInOrder
  <2> QED
    BY <1>1, <2>1, <2>2 DEF TypeInv, Queued
<1>3. \/ pc' = [pc EXCEPT ![w] = "failed"] /\ serves' = serves
      \/ /\ pc' = [pc EXCEPT ![w] = "getidx"]
         /\ serves' = [serves EXCEPT ![w] = k]
         /\ ~(iQid[k] > Len(view[para[k]]))
  <2>1. CASE iQid[k] > Len(view[para[k]])
    BY <2>1 DEF LookUp
  <2>2. CASE ~(iQid[k] > Len(view[para[k]]))
    <3>1. iQid[k] \in 1..Len(idxQs) /\ idxQs[iQid[k]] = k
      BY <1>1, <1>2 DEF PoolInv, QueuesInPlace
    <3>2. view[para[k]] \in Seq(Calls)
      BY <1>2 DEF TypeInv
    <3>3. iQid[k] \in 1..Len(view[para[k]])
      BY <2>2, <3>1, <3>2
    <3>4. view[para[k]][iQid[k]] = k
      BY <1>2, <3>1, <3>3 DEF PoolInv, ViewsArePrefixes
    <3> QED
      BY <2>2, <3>4 DEF LookUp
  <2> QED
    BY <2>1, <2>2
<1>4. ASSUME NEW v \in Workers
      PROVE  /\ v # w => pc'[v] = pc[v] /\ serves'[v] = serves[v]
             /\ v = w => /\ pc'[v] \in {"failed", "getidx"}
                         /\ pc'[v] = "getidx" => serves'[v] = k /\ ~(iQid[k] > Len(view[para[k]]))
                         /\ serves'[v] \in {0, k}
  BY <1>3 DEF TypeInv, PoolInv, ServesItsOwnCall
<1>5. ServesItsOwnCall'
  BY <1>4 DEF PoolInv, ServesItsOwnCall
<1>6. WorkersInStep'
  BY <1>1, <1>2, <1>4 DEF PoolInv, WorkersInStep, Queued, Inside
<1>7. CallsInOrder' /\ QueuesInPlace' /\ ViewsArePrefixes' /\ RaisePoisons'
  BY <1>1 DEF PoolInv, CallsInOrder, QueuesInPlace, ViewsArePrefixes, RaisePoisons, Queued
<1> QED
  BY <1>5, <1>6, <1>7 DEF PoolInv

\* The other steps of a worker concern neither the lists nor the pools.
LEMMA PoolInside ==
  ASSUME TypeInv, PoolInv, NEW w \in Workers, pc[w] \in Inside,
         NEW x \in Inside \cup {"done", "failed"}, pc' = [pc EXCEPT ![w] = x],
         UNCHANGED <<call, para, iQid, idxQs, view, outcome, serves>>
  PROVE  PoolInv'
<1>1. ASSUME NEW v \in Workers
      PROVE  /\ v # w => pc'[v] = pc[v]
             /\ v = w => pc'[v] = x
  BY DEF TypeInv
<1>2. WorkersInStep'
  BY <1>1 DEF PoolInv, WorkersInStep, Inside
<1>3. CallsInOrder' /\ QueuesInPlace' /\ ViewsArePrefixes' /\ RaisePoisons' /\ ServesItsOwnCall'
  BY DEF PoolInv, CallsInOrder, QueuesInPlace, ViewsArePrefixes, RaisePoisons, Queued,
         ServesItsOwnCall
<1> QED
  BY <1>2, <1>3 DEF PoolInv

\* Every step keeps the invariant of the pools, one case per action.
LEMMA PoolStep == TypeInv /\ PoolInv /\ [Next]_vars => PoolInv'
<1> SUFFICES ASSUME TypeInv, PoolInv, [Next]_vars
             PROVE  PoolInv'
  OBVIOUS
<1>1. ASSUME NEW k \in Calls, LoseManager(k) \/ Feed(k)
      PROVE  PoolInv'
  <2>1. UNCHANGED <<call, para, iQid, idxQs, view, outcome, serves, pc>>
    BY <1>1 DEF LoseManager, Feed, callVars, globalVars, workerVars, callerVars
  <2> QED
    BY <2>1 DEF PoolInv, CallsInOrder, QueuesInPlace, ViewsArePrefixes, RaisePoisons,
       Queued, ServesItsOwnCall, WorkersInStep
<1>2. ASSUME NEW w \in Workers,
             \/ GetIdx(w) \/ TryLock(w) \/ Contended(w) \/ FindEmpty(w) \/ Take(w)
             \/ Release(w) \/ Acquire(w) \/ FinishTask(w) \/ FailTask(w)
      PROVE  PoolInv'
  <2>1. pc[w] \in Inside /\ \E x \in Inside \cup {"done", "failed"} : pc' = [pc EXCEPT ![w] = x]
    BY <1>2 DEF GetIdx, TryLock, Contended, FindEmpty, Take, Release, Acquire, FinishTask,
       FailTask, InTask, Inside
  <2>2. UNCHANGED <<call, para, iQid, idxQs, view, outcome, serves>>
    BY <1>2 DEF GetIdx, TryLock, Contended, FindEmpty, Take, Release, Acquire, FinishTask,
       FailTask, callVars, globalVars, callerVars
  <2> QED
    BY <2>1, <2>2, PoolInside
<1>3. CASE UNCHANGED vars
  BY <1>3 DEF vars, callVars, globalVars, workerVars, callerVars, PoolInv, CallsInOrder,
     QueuesInPlace, ViewsArePrefixes, RaisePoisons, Queued, ServesItsOwnCall, WorkersInStep
<1>4. ASSUME NEW k \in Calls, CallerStep(k)
      PROVE  PoolInv'
  <2>1. \A i \in 1..CpuNo : <<k, i>> \in Workers
    BY DEF Workers
  <2> QED
    BY <1>4, <2>1, PoolReturn, PoolConsume DEF CallerStep
<1> QED
  BY <1>1, <1>2, <1>3, <1>4, PoolCall, PoolLookUp DEF Next, WorkerStep, Finished

-----------------------------------------------------------------------------
\* It holds to begin with.
LEMMA InitInv == Init => TypeInv /\ PoolInv /\ TasksTyped
<1> SUFFICES ASSUME Init
             PROVE  TypeInv /\ PoolInv /\ TasksTyped
  OBVIOUS
<1> USE WorkerPoolAssumption DEF Init
<1>1. TypeInv
  BY DEF TypeInv, PC, NoPool
<1>2. PoolInv
  BY DEF PoolInv, CallsInOrder, QueuesInPlace, ViewsArePrefixes, RaisePoisons,
     WorkersInStep, ServesItsOwnCall, Queued, Inside, NoPool, Calls, Workers
<1>3. TasksTyped
  BY DEF TasksTyped, InTask
<1> QED
  BY <1>1, <1>2, <1>3

\* The invariant of the pools holds throughout.
LEMMA PoolInvariance == Spec => [](TypeInv /\ PoolInv /\ TasksTyped)
BY InitInv, TypeStep, PoolStep, PTL DEF Spec

\* The state of the calls, the pools and the workers is well typed.
THEOREM TypeCorrect == Spec => []TypeInv
BY PoolInvariance, PTL

\* A worker of a cached pool drains the queue of its own call or none, however
\* many calls raised before and left their queues in the lists.
THEOREM OwnQueueOnly == Spec => []ServesItsOwnCall
<1>1. PoolInv => ServesItsOwnCall
  BY DEF PoolInv
<1> QED
  BY <1>1, PoolInvariance, PTL

\* A raise poisons the cached pool: no later call with the same number of
\* processes returns.
PoisonedPool ==
  \A j, k \in Calls :
    j < k /\ outcome[j] = "raised" /\ para[j] = para[k] => outcome[k] # "returned"

\* No call returns from a pool whose number of processes an earlier call that
\* raised had.
THEOREM RaisePoisonsPool == Spec => []PoisonedPool
<1>1. TypeInv /\ PoolInv => PoisonedPool
  BY DEF PoolInv, RaisePoisons, PoisonedPool
<1> QED
  BY <1>1, PoolInvariance, PTL

-----------------------------------------------------------------------------
(***************************************************************************)
(* The inductive invariant, second part: what becomes of the tasks of a    *)
(* call, and of the workdirs its workers use.                              *)
(***************************************************************************)
WorkersOf(k) == { w \in Workers : w[1] = k }

Numbers ==
  \A k \in Calls : /\ taken[k] <= flushed[k]
                   /\ flushed[k] <= ntask[k]
                   /\ outcome[k] = "none" => ntask[k] = 0

\* The reader lock of a call is held by one of its workers that reads.
ReaderInStep ==
  \A k \in Calls : reader[k] # NoWorker => reader[k] \in WorkersOf(k)
                                           /\ pc[reader[k]] = "reading"

\* Results of the call are dropped, or were: the exception surfaces, or has.
Dropped(k) == outcome[k] = "raised" \/ \E w \in WorkersOf(k) : pc[w] = "failed"

\* Where task t of call k can be when it is in no queue any more.
Held(k, t) ==
  \/ t \in rsltList[k]
  \/ \E w \in WorkersOf(k) :
       pc[w] # "collected" /\ (t \in results[w] \/ (InTask(w) /\ task[w] = t))

WorkersHold ==
  \A w \in Workers :
    /\ results[w] \subseteq 1..taken[w[1]]
    /\ InTask(w) => task[w] \in 1..taken[w[1]]
    /\ pc[w] \in {"absent", "submitted", "getidx"} => results[w] = {}

CallsHold ==
  \A k \in Calls : /\ rsltList[k] \subseteq 1..taken[k]
                   /\ \A t \in 1..taken[k] : Dropped(k) \/ Held(k, t)

\* A worker will yet poll the queue of the call.
SomeonePolls(k) == \E w \in WorkersOf(k) : pc[w] \in Inside \cup {"submitted"}

\* The workers of a call do not all leave before its queue is empty, but for
\* the two reasons the property names.
NoneLeft ==
  \A k \in Calls :
    \/ outcome[k] = "none" \/ Dropped(k) \/ early[k] = TRUE
    \/ taken[k] = ntask[k] \/ SomeonePolls(k)

\* The indices of a call are given out once each.
IndicesInStep ==
  /\ \A w \in Workers : /\ idx[w] < idxTaken[w[1]]
                        /\ pc[w] \in Inside \ {"getidx"} => idx[w] >= 0
  /\ \A v, w \in Workers : v # w /\ v[1] = w[1] /\ idx[v] = idx[w] => idx[w] < 0

ResultInv ==
  Numbers /\ ReaderInStep /\ WorkersHold /\ CallsHold /\ NoneLeft /\ IndicesInStep
  /\ ReturnsWhatWasTaken

-----------------------------------------------------------------------------
\* A worker that is in its call: the call has neither returned nor is it yet
\* to be made, and the worker is at its own queue.
LEMMA AtWork ==
  ASSUME TypeInv, PoolInv, NEW w \in Workers, pc[w] \notin {"absent", "collected"}
  PROVE  /\ w[1] \in Calls /\ w \in WorkersOf(w[1])
         /\ outcome[w[1]] \in {"running", "raised"}
         /\ pc[w] \in Inside => serves[w] = w[1]
<1>1. w[1] \in Calls /\ w \in WorkersOf(w[1])
  BY DEF Workers, WorkersOf
<1>2. w[1] <= call /\ outcome[w[1]] # "returned" /\ (pc[w] \in Inside => serves[w] = w[1])
  BY DEF PoolInv, WorkersInStep
<1>3. outcome[w[1]] # "none"
  BY <1>1, <1>2 DEF PoolInv, CallsInOrder
<1> QED
  BY <1>1, <1>2, <1>3 DEF TypeInv

\* A worker that goes on with its results and its task, the calls being as they
\* were but for the lock, the indices and what the feeder wrote.
LEMMA WorkerGoesOn ==
  ASSUME TypeInv, PoolInv, ResultInv, NEW w \in Workers,
         pc[w] \in Inside \cup {"submitted"}, NEW x \in Inside \cup {"done", "failed"},
         pc' = [pc EXCEPT ![w] = x], x # "getidx" \/ pc[w] = "submitted",
         InTask(w) <=> x \in {"task", "request"},
         UNCHANGED <<outcome, ntask, taken, flushed, results, task, rsltList>>
  PROVE  Numbers' /\ WorkersHold' /\ CallsHold'
<1> DEFINE k == w[1]
<1>1. /\ \A v \in Workers : v # w => pc'[v] = pc[v]
      /\ pc'[w] = x
  BY DEF TypeInv
<1>2. \A v \in Workers : InTask(v)' <=> InTask(v)
  BY <1>1 DEF InTask
<1>3. Numbers'
  BY DEF ResultInv, Numbers
<1>4. WorkersHold'
  <2>1. ASSUME NEW v \in Workers
        PROVE  /\ results[v] \subseteq 1..taken[v[1]]
               /\ InTask(v)' => task[v] \in 1..taken[v[1]]
               /\ pc'[v] \in {"absent", "submitted", "getidx"} => results[v] = {}
    BY <1>1, <1>2 DEF ResultInv, WorkersHold, Inside
  <2> QED
    BY <2>1 DEF WorkersHold
<1>5. CallsHold'
  <2>1. ASSUME NEW j \in Calls, NEW t \in 1..taken[j]
        PROVE  Dropped(j)' \/ Held(j, t)'
    <3>1. CASE Dropped(j)
      BY <3>1, <1>1 DEF Dropped, WorkersOf, Inside
    <3>2. CASE t \in rsltList[j]
      BY <3>2 DEF Held
    <3>3. CASE \E v \in WorkersOf(j) :
                 pc[v] # "collected" /\ (t \in results[v] \/ (InTask(v) /\ task[v] = t))
      <4>1. PICK v \in WorkersOf(j) :
                 pc[v] # "collected" /\ (t \in results[v] \/ (InTask(v) /\ task[v] = t))
        BY <3>3
      <4>2. v \in Workers
        BY DEF WorkersOf
      <4>3. pc'[v] # "collected" /\ (InTask(v) => InTask(v)')
        BY <4>1, <4>2, <1>1, <1>2 DEF Inside
      <4>4. \E u \in WorkersOf(j) :
              pc'[u] # "collected" /\ (t \in results[u] \/ (InTask(u)' /\ task[u] = t))
        BY <4>1, <4>3
      <4> QED
        BY <4>4 DEF Held, WorkersOf
    <3> QED
      BY <3>1, <3>2, <3>3 DEF ResultInv, CallsHold, Held
  <2> QED
    BY <2>1 DEF ResultInv, CallsHold
<1> QED
  BY <1>3, <1>4, <1>5

\* What a step keeps of a call it does not touch, and of one that has returned.
LEMMA OthersReturned ==
  ASSUME TypeInv, ResultInv, NEW k \in Calls, outcome'[k] # "returned",
         \A j \in Calls : j # k => /\ outcome'[j] = outcome[j] /\ ntask'[j] = ntask[j]
                                   /\ taken'[j] = taken[j] /\ rsltList'[j] = rsltList[j]
                                   /\ early'[j] = early[j]
  PROVE  ReturnsWhatWasTaken'
BY DEF ResultInv, ReturnsWhatWasTaken

\* A worker that stays, or of which the call is told by an exception, keeps
\* the others from being the last to leave.
LEMMA OneStays ==
  ASSUME TypeInv, PoolInv, ResultInv, NEW w \in Workers,
         pc[w] \in Inside \cup {"submitted"}, NEW x \in Inside \cup {"failed"},
         pc' = [pc EXCEPT ![w] = x],
         \A j \in Calls : j # w[1] => taken'[j] = taken[j] /\ early'[j] = early[j],
         UNCHANGED <<outcome, ntask>>
  PROVE  NoneLeft'
<1>1. \A v \in Workers : v # w => pc'[v] = pc[v]
  BY DEF TypeInv
<1>2. pc'[w] = x
  BY DEF TypeInv
<1>3. ASSUME NEW j \in Calls, j # w[1]
      PROVE  \A v \in WorkersOf(j) : v \in Workers /\ pc'[v] = pc[v]
  BY <1>1, <1>3 DEF WorkersOf
<1>4. SomeonePolls(w[1])' \/ Dropped(w[1])'
  <2>1. w \in WorkersOf(w[1])
    BY DEF WorkersOf
  <2> QED
    BY <1>2, <2>1 DEF SomeonePolls, Dropped, WorkersOf
<1>5. ASSUME NEW j \in Calls
      PROVE  \/ outcome'[j] = "none" \/ Dropped(j)' \/ early'[j] = TRUE
             \/ taken'[j] = ntask'[j] \/ SomeonePolls(j)'
  <2>1. CASE j = w[1]
    BY <1>4, <2>1
  <2>2. CASE j # w[1]
    <3>1. Dropped(j) => Dropped(j)'
      BY <2>2, <1>3 DEF Dropped, WorkersOf
    <3>2. SomeonePolls(j) => SomeonePolls(j)'
      BY <2>2, <1>3 DEF SomeonePolls, WorkersOf
    <3> QED
      BY <2>2, <3>1, <3>2 DEF ResultInv, NoneLeft
  <2> QED
    BY <2>1, <2>2
<1> QED
  BY <1>5 DEF NoneLeft

\* LookUp, GetIdx, TryLock, Contended, Acquire and Release leave tasks and
\* results alone.
LEMMA ResultWorkerWaits ==
  ASSUME TypeInv, PoolInv, ResultInv, NEW w \in Workers,
         \/ LookUp(w) \/ GetIdx(w) \/ TryLock(w) \/ Contended(w)
         \/ Acquire(w) \/ Release(w)
  PROVE  ResultInv'
<1> DEFINE k == w[1]
<1>1. PICK x \in Inside \cup {"done", "failed"} :
        /\ pc' = [pc EXCEPT ![w] = x]
        /\ x \in {"task", "request"} <=> InTask(w)
        /\ x = "getidx" => pc[w] = "submitted"
        /\ x = "done" => pc[w] = "polling" /\ Contended(w)
        /\ x = "reading" => TryLock(w)
        /\ pc[w] # "reading"
  BY DEF LookUp, GetIdx, TryLock, Contended, Acquire, Release, InTask, Inside
<1>2. pc[w] \in Inside \cup {"submitted"}
  BY DEF LookUp, GetIdx, TryLock, Contended, Acquire, Release, Inside
<1>3. UNCHANGED <<outcome, ntask, taken, flushed, results, task, rsltList, early>>
  BY DEF LookUp, GetIdx, TryLock, Contended, Acquire, Release, callVars, queueVars, callerVars
<1>4. /\ k \in Calls /\ w \in WorkersOf(k)
      /\ outcome[k] \in {"running", "raised"}
      /\ pc[w] \in Inside => serves[w] = k
  BY <1>2, AtWork DEF Inside
<1>5. /\ \A v \in Workers : v # w => pc'[v] = pc[v]
      /\ pc'[w] = x
  BY <1>1 DEF TypeInv
<1>6. Numbers' /\ WorkersHold' /\ CallsHold'
  BY <1>1, <1>2, <1>3, WorkerGoesOn
<1>7. ReaderInStep'
  <2>1. CASE TryLock(w)
    <3>1. reader' = [reader EXCEPT ![k] = w] /\ pc'[w] = "reading"
      BY <2>1, <1>4, <1>5 DEF TryLock, Inside, TypeInv
    <3> QED
      BY <3>1, <1>4, <1>5, ZenonT(40) DEF TypeInv, ResultInv, ReaderInStep, WorkersOf
  <2>2. CASE ~TryLock(w)
    <3>1. reader' = reader /\ pc[w] # "reading"
      BY <1>1, <2>2 DEF LookUp, GetIdx, TryLock, Contended, Acquire, Release, queueVars
    <3> QED
      BY <3>1, <1>5 DEF ResultInv, ReaderInStep, WorkersOf
  <2> QED
    BY <2>1, <2>2
<1>8. NoneLeft'
  <2>1. CASE x # "done"
    BY <2>1, <1>1, <1>2, <1>3, OneStays
  <2>2. CASE x = "done"
    <3>1. reader[k] # NoWorker
      BY <2>2, <1>1, <1>4 DEF Contended, Inside
    <3>2. reader[k] \in WorkersOf(k) /\ pc[reader[k]] = "reading"
      BY <3>1, <1>4 DEF ResultInv, ReaderInStep
    <3>3. SomeonePolls(k)'
      <4>1. pc'[reader[k]] = "reading"
        BY <3>2, <1>1, <1>5, <2>2 DEF WorkersOf
      <4> QED
        BY <3>2, <4>1 DEF SomeonePolls, WorkersOf, Inside
    <3>4. ASSUME NEW j \in Calls, j # k
          PROVE  (Dropped(j) => Dropped(j)') /\ (SomeonePolls(j) => SomeonePolls(j)')
      <4>1. \A v \in WorkersOf(j) : pc'[v] = pc[v]
        BY <3>4, <1>5 DEF WorkersOf
      <4> QED
        BY <4>1, <1>3 DEF Dropped, SomeonePolls, WorkersOf
    <3> QED
      BY <3>3, <3>4, <1>3 DEF ResultInv, NoneLeft
  <2> QED
    BY <2>1, <2>2
<1>9. IndicesInStep'
  <2>1. CASE GetIdx(w)
    <3>1. /\ idx' = [idx EXCEPT ![w] = idxTaken[k]]
          /\ idxTaken' = [idxTaken EXCEPT ![k] = @ + 1]
          /\ pc[w] = "getidx"
      BY <2>1, <1>4 DEF GetIdx, Inside
    <3>2. /\ \A v \in Workers : v # w => idx'[v] = idx[v] /\ idx[v] \in Int
          /\ idx'[w] = idxTaken[k]
          /\ \A j \in Calls : j # k => idxTaken'[j] = idxTaken[j]
          /\ idxTaken'[k] = idxTaken[k] + 1 /\ idxTaken[k] \in Nat
      BY <3>1, <1>4 DEF TypeInv
    <3>3. \A v \in Workers : v[1] \in Calls /\ idxTaken[v[1]] \in Nat
      BY DEF TypeInv, Workers
    <3>4. ASSUME NEW v \in Workers
          PROVE  /\ idx'[v] < idxTaken'[v[1]]
                 /\ pc'[v] \in Inside \ {"getidx"} => idx'[v] >= 0
      <4>1. CASE v = w
        BY <4>1, <3>2
      <4>2. CASE v # w
        BY <4>2, <3>2, <3>3, <1>5 DEF ResultInv, IndicesInStep
      <4> QED
        BY <4>1, <4>2
    <3>5. ASSUME NEW u \in Workers, NEW v \in Workers, u # v, u[1] = v[1], idx'[u] = idx'[v]
          PROVE  idx'[v] < 0
      <4>1. CASE u # w /\ v # w
        BY <3>5, <4>1, <3>2 DEF ResultInv, IndicesInStep
      <4>2. CASE u = w \/ v = w
        <5>1. \A z \in Workers : z[1] = k => idx[z] < idxTaken[k]
          BY DEF ResultInv, IndicesInStep
        <5> QED
          BY <5>1, <3>5, <4>2, <3>2
      <4> QED
        BY <4>1, <4>2
    <3> QED
      BY <3>4, <3>5 DEF IndicesInStep
  <2>2. CASE ~GetIdx(w)
    <3>1. UNCHANGED <<idx, idxTaken>>
      BY <2>2 DEF LookUp, TryLock, Contended, Acquire, Release, queueVars
    <3>2. pc'[w] \in Inside \ {"getidx"} => pc[w] \in Inside \ {"getidx"}
      BY <1>5, <2>2 DEF LookUp, TryLock, Contended, Acquire, Release, Inside, TypeInv
    <3> QED
      BY <3>1, <3>2, <1>5 DEF ResultInv, IndicesInStep
  <2> QED
    BY <2>1, <2>2
<1>10. ReturnsWhatWasTaken'
  BY <1>3 DEF ResultInv, ReturnsWhatWasTaken
<1> QED
  BY <1>6, <1>7, <1>8, <1>9, <1>10 DEF ResultInv

\* A worker that finds the pipe empty leaves: the queue is then empty, or the
\* feeder was late, which is what the property is told.
LEMMA ResultFindEmpty ==
  ASSUME TypeInv, PoolInv, ResultInv, NEW w \in Workers, FindEmpty(w)
  PROVE  ResultInv'
<1> DEFINE k == w[1]
<1>1. pc[w] = "reading" /\ pc[w] \in Inside
  BY DEF FindEmpty, Inside
<1>2. /\ k \in Calls /\ w \in WorkersOf(k)
      /\ outcome[k] \in {"running", "raised"}
      /\ serves[w] = k
  BY <1>1, AtWork
<1>3. /\ flushed[k] = taken[k]
      /\ reader' = [reader EXCEPT ![k] = NoWorker]
      /\ pc' = [pc EXCEPT ![w] = "done"]
      /\ UNCHANGED <<outcome, ntask, taken, flushed, results, task, rsltList, idx, idxTaken>>
  BY <1>2 DEF FindEmpty, callVars, callerVars
<1>4. \A j \in Calls : j # k => early'[j] = early[j]
  BY <1>2 DEF FindEmpty, TypeInv
<1>5. flushed[k] < ntask[k] => early'[k] = TRUE
  BY <1>2 DEF FindEmpty, TypeInv
<1>6. /\ \A v \in Workers : v # w => pc'[v] = pc[v]
      /\ pc'[w] = "done"
  BY <1>3 DEF TypeInv
<1>7. Numbers' /\ WorkersHold' /\ CallsHold'
  BY <1>1, <1>3, WorkerGoesOn DEF InTask
<1>8. ReaderInStep'
  BY <1>3, <1>6 DEF ResultInv, ReaderInStep, WorkersOf, TypeInv
<1>9. NoneLeft'
  <2>1. ASSUME NEW j \in Calls, j # k
        PROVE  (Dropped(j) => Dropped(j)') /\ (SomeonePolls(j) => SomeonePolls(j)')
    <3>1. \A v \in WorkersOf(j) : pc'[v] = pc[v]
      BY <2>1, <1>6 DEF WorkersOf
    <3> QED
      BY <3>1, <1>3 DEF Dropped, SomeonePolls, WorkersOf
  <2>2. early'[k] = TRUE \/ taken[k] = ntask[k]
    <3>1. flushed[k] <= ntask[k] /\ flushed[k] \in Nat /\ ntask[k] \in Nat
      BY <1>2 DEF ResultInv, Numbers, TypeInv
    <3> QED
      BY <3>1, <1>3, <1>5
  <2> QED
    BY <2>1, <2>2, <1>3, <1>4 DEF ResultInv, NoneLeft
<1>10. IndicesInStep'
  BY <1>3, <1>6 DEF ResultInv, IndicesInStep, Inside
<1>11. ReturnsWhatWasTaken'
  BY <1>2, <1>3, <1>4, OthersReturned
<1> QED
  BY <1>7, <1>8, <1>9, <1>10, <1>11 DEF ResultInv

\* The task that is taken is in the hands of its worker.
LEMMA ResultTake ==
  ASSUME TypeInv, PoolInv, ResultInv, NEW w \in Workers, Take(w)
  PROVE  ResultInv'
<1> DEFINE k == w[1]
<1>1. pc[w] = "reading" /\ pc[w] \in Inside
  BY DEF Take, Inside
<1>2. /\ k \in Calls /\ w \in WorkersOf(k)
      /\ outcome[k] \in {"running", "raised"}
      /\ serves[w] = k
  BY <1>1, AtWork
<1>3. /\ flushed[k] > taken[k]
      /\ task' = [task EXCEPT ![w] = taken[k] + 1]
      /\ taken' = [taken EXCEPT ![k] = @ + 1]
      /\ reader' = [reader EXCEPT ![k] = NoWorker]
      /\ pc' = [pc EXCEPT ![w] = "task"]
      /\ UNCHANGED <<outcome, ntask, flushed, results, rsltList, early, idx, idxTaken>>
  BY <1>2 DEF Take, callVars, callerVars
<1>4. /\ \A v \in Workers : v # w => pc'[v] = pc[v] /\ task'[v] = task[v]
      /\ pc'[w] = "task" /\ task'[w] = taken[k] + 1
      /\ \A j \in Calls : j # k => taken'[j] = taken[j]
      /\ taken'[k] = taken[k] + 1
      /\ \A j \in Calls : taken[j] \in Nat /\ flushed[j] \in Nat
  BY <1>2, <1>3 DEF TypeInv
<1>5. Numbers'
  <2>1. taken[k] + 1 <= flushed[k]
    BY <1>2, <1>3, <1>4
  <2> QED
    BY <2>1, <1>3, <1>4 DEF ResultInv, Numbers
<1>6. ReaderInStep'
  BY <1>3, <1>4, SMTT(30) DEF ResultInv, ReaderInStep, WorkersOf, TypeInv
<1>7. \A v \in Workers : v[1] \in Calls /\ 1..taken[v[1]] \subseteq 1..taken'[v[1]]
  BY <1>4 DEF Workers
<1>8. WorkersHold'
  <2>1. ASSUME NEW v \in Workers
        PROVE  /\ results[v] \subseteq 1..taken'[v[1]]
               /\ InTask(v)' => task'[v] \in 1..taken'[v[1]]
               /\ pc'[v] \in {"absent", "submitted", "getidx"} => results[v] = {}
    <3>1. CASE v = w
      BY <3>1, <1>2, <1>4, <1>7 DEF ResultInv, WorkersHold
    <3>2. CASE v # w
      BY <3>2, <1>4, <1>7 DEF ResultInv, WorkersHold, InTask
    <3> QED
      BY <3>1, <3>2
  <2> QED
    BY <2>1, <1>3 DEF WorkersHold
<1>9. CallsHold'
  <2>1. ASSUME NEW j \in Calls, NEW t \in 1..taken[j]
        PROVE  Dropped(j)' \/ Held(j, t)'
    <3>1. CASE Dropped(j)
      BY <3>1, <1>1, <1>3, <1>4 DEF Dropped, WorkersOf
    <3>2. CASE t \in rsltList[j]
      BY <3>2, <1>3 DEF Held
    <3>3. CASE \E v \in WorkersOf(j) :
                 pc[v] # "collected" /\ (t \in results[v] \/ (InTask(v) /\ task[v] = t))
      <4>1. PICK v \in WorkersOf(j) :
                 pc[v] # "collected" /\ (t \in results[v] \/ (InTask(v) /\ task[v] = t))
        BY <3>3
      <4>2. pc'[v] # "collected" /\ (t \in results[v] \/ (InTask(v)' /\ task'[v] = t))
        BY <4>1, <1>1, <1>4 DEF WorkersOf, InTask
      <4> QED
        BY <4>1, <4>2, <1>3 DEF Held, WorkersOf
    <3> QED
      BY <3>1, <3>2, <3>3 DEF ResultInv, CallsHold, Held
  <2>2. ASSUME NEW t \in Nat, t = taken[k] + 1
        PROVE  Held(k, t)'
    <3>1. InTask(w)' /\ task'[w] = t /\ pc'[w] # "collected"
      BY <2>2, <1>4 DEF InTask
    <3> QED
      BY <3>1, <1>2 DEF Held, WorkersOf
  <2>3. ASSUME NEW j \in Calls, NEW t \in 1..taken'[j]
        PROVE  Dropped(j)' \/ Held(j, t)'
    <3>1. t \in 1..taken[j] \/ (j = k /\ t \in Nat /\ t = taken[k] + 1)
      BY <1>2, <1>4
    <3> QED
      BY <3>1, <2>1, <2>2
  <2>4. \A j \in Calls : rsltList'[j] \subseteq 1..taken'[j]
    BY <1>3, <1>4 DEF ResultInv, CallsHold
  <2> QED
    BY <2>3, <2>4 DEF CallsHold
<1>10. NoneLeft'
  BY <1>1, <1>3, <1>4, OneStays DEF Inside
<1>11. IndicesInStep'
  BY <1>1, <1>3, <1>4 DEF ResultInv, IndicesInStep, Inside
<1>12. ReturnsWhatWasTaken'
  BY <1>2, <1>3, <1>4, OthersReturned
<1> QED
  BY <1>5, <1>6, <1>8, <1>9, <1>10, <1>11, <1>12 DEF ResultInv

\* A task that ends is a result of its worker, or drops what the worker had.
LEMMA ResultEndTask ==
  ASSUME TypeInv, PoolInv, ResultInv, NEW w \in Workers, FinishTask(w) \/ FailTask(w)
  PROVE  ResultInv'
<1> DEFINE k == w[1]
<1>1. InTask(w) /\ pc[w] \in Inside /\ pc[w] # "getidx"
  BY DEF FinishTask, FailTask, Inside, InTask
<1>2. /\ k \in Calls /\ w \in WorkersOf(k)
      /\ outcome[k] \in {"running", "raised"}
  BY <1>1, AtWork DEF Inside
<1>3. /\ task' = [task EXCEPT ![w] = 0]
      /\ UNCHANGED <<outcome, ntask, flushed, taken, rsltList, early, idx, idxTaken, reader>>
  BY DEF FinishTask, FailTask, callVars, callerVars, queueVars
<1>4. PICK x \in {"polling", "failed"} : pc' = [pc EXCEPT ![w] = x]
  BY DEF FinishTask, FailTask
<1>5. /\ \A v \in Workers : /\ v # w => /\ pc'[v] = pc[v] /\ task'[v] = task[v]
                                        /\ results'[v] = results[v]
                            /\ v = w => pc'[v] = x
  BY <1>3, <1>4 DEF FinishTask, FailTask, TypeInv
<1>6. Numbers' /\ ReturnsWhatWasTaken'
  BY <1>3 DEF ResultInv, Numbers, ReturnsWhatWasTaken
<1>7. ReaderInStep'
  BY <1>1, <1>3, <1>5 DEF ResultInv, ReaderInStep, WorkersOf, InTask
<1>8. x = "failed" \/ results'[w] = results[w] \cup {task[w]}
  BY <1>4 DEF FinishTask, FailTask, TypeInv
<1>9. results'[w] \subseteq results[w] \cup {task[w]}
  BY DEF FinishTask, FailTask, TypeInv
<1>10. WorkersHold'
  <2>1. task[w] \in 1..taken[k] /\ results[w] \subseteq 1..taken[k]
    BY <1>1 DEF ResultInv, WorkersHold
  <2>2. results'[w] \subseteq 1..taken[k]
    BY <2>1, <1>9
  <2>3. ASSUME NEW v \in Workers
        PROVE  /\ results'[v] \subseteq 1..taken[v[1]]
               /\ InTask(v)' => task'[v] \in 1..taken[v[1]]
               /\ pc'[v] \in {"absent", "submitted", "getidx"} => results'[v] = {}
    <3>1. CASE v = w
      BY <3>1, <2>2, <1>5 DEF InTask
    <3>2. CASE v # w
      BY <3>2, <1>5 DEF ResultInv, WorkersHold, InTask
    <3> QED
      BY <3>1, <3>2
  <2> QED
    BY <2>3, <1>3 DEF WorkersHold
<1>11. CallsHold'
  <2>1. ASSUME NEW j \in Calls, NEW t \in 1..taken[j]
        PROVE  Dropped(j)' \/ Held(j, t)'
    <3>1. CASE Dropped(j)
      BY <3>1, <1>1, <1>3, <1>5 DEF Dropped, WorkersOf, Inside
    <3>2. CASE t \in rsltList[j]
      BY <3>2, <1>3 DEF Held
    <3>3. CASE \E v \in WorkersOf(j) :
                 pc[v] # "collected" /\ (t \in results[v] \/ (InTask(v) /\ task[v] = t))
      <4>1. PICK v \in WorkersOf(j) :
                 pc[v] # "collected" /\ (t \in results[v] \/ (InTask(v) /\ task[v] = t))
        BY <3>3
      <4>2. v \in Workers
        BY DEF WorkersOf
      <4>3. CASE v # w
        <5>1. pc'[v] # "collected" /\ (t \in results'[v] \/ (InTask(v)' /\ task'[v] = t))
          BY <4>1, <4>2, <4>3, <1>5 DEF InTask
        <5> QED
          BY <4>1, <5>1 DEF Held, WorkersOf
      <4>4. CASE v = w /\ x = "failed"
        BY <4>1, <4>4, <1>5 DEF Dropped, WorkersOf
      <4>5. CASE v = w /\ x # "failed"
        <5>1. pc'[v] # "collected" /\ t \in results'[v]
          BY <4>1, <4>5, <1>5, <1>8
        <5> QED
          BY <4>1, <5>1 DEF Held, WorkersOf
      <4> QED
        BY <4>3, <4>4, <4>5
    <3> QED
      BY <3>1, <3>2, <3>3 DEF ResultInv, CallsHold, Held
  <2> QED
    BY <2>1, <1>3 DEF ResultInv, CallsHold
<1>12. NoneLeft'
  BY <1>1, <1>3, <1>4, OneStays DEF Inside
<1>13. IndicesInStep'
  BY <1>1, <1>3, <1>5 DEF ResultInv, IndicesInStep, Inside
<1> QED
  BY <1>6, <1>7, <1>10, <1>11, <1>12, <1>13 DEF ResultInv

\* A chunk goes to the caller, or its exception does.
LEMMA ResultConsume ==
  ASSUME TypeInv, PoolInv, ResultInv, NEW w \in Workers, Collect(w) \/ Raise(w)
  PROVE  ResultInv'
<1> DEFINE k == w[1]
<1>1. pc[w] \in {"done", "failed"} /\ outcome[k] = "running"
  BY DEF Collect, Raise
<1>2. k \in Calls /\ w \in WorkersOf(k)
  BY DEF Workers, WorkersOf
<1>3. /\ pc' = [pc EXCEPT ![w] = "collected"]
      /\ UNCHANGED <<ntask, flushed, taken, early, idx, idxTaken, reader, results, task>>
  BY DEF Collect, Raise, callVars, queueVars
<1>4. /\ \A v \in Workers : v # w => pc'[v] = pc[v]
      /\ pc'[w] = "collected"
  BY <1>3 DEF TypeInv
<1>5. /\ \A j \in Calls : j # k => outcome'[j] = outcome[j] /\ rsltList'[j] = rsltList[j]
      /\ outcome'[k] \in {"running", "raised"}
      /\ \/ outcome'[k] = "raised" /\ rsltList'[k] = rsltList[k]
         \/ /\ outcome'[k] = "running" /\ pc[w] = "done"
            /\ rsltList'[k] = rsltList[k] \cup results[w]
  BY <1>1, <1>2 DEF Collect, Raise, TypeInv
<1>6. Numbers' /\ ReaderInStep' /\ WorkersHold' /\ IndicesInStep'
  <2>1. \A v \in Workers : /\ InTask(v)' <=> InTask(v)
                           /\ pc'[v] \in {"absent", "submitted", "getidx", "reading"} \cup Inside
                                => pc'[v] = pc[v]
    BY <1>1, <1>4 DEF InTask, Inside
  <2>2. Numbers'
    BY <1>3, <1>5 DEF ResultInv, Numbers
  <2>3. ReaderInStep'
    BY <1>1, <1>3, <1>4 DEF ResultInv, ReaderInStep, WorkersOf
  <2>4. WorkersHold'
    BY <2>1, <1>3 DEF ResultInv, WorkersHold
  <2>5. IndicesInStep'
    BY <2>1, <1>3 DEF ResultInv, IndicesInStep
  <2> QED
    BY <2>2, <2>3, <2>4, <2>5
<1>7. CallsHold'
  <2>1. ASSUME NEW j \in Calls, NEW t \in 1..taken[j]
        PROVE  Dropped(j)' \/ Held(j, t)'
    <3>1. CASE outcome'[j] = "raised"
      BY <3>1 DEF Dropped
    <3>2. CASE outcome'[j] # "raised" /\ Dropped(j)
      <4>1. PICK v \in WorkersOf(j) : pc[v] = "failed"
        BY <3>2, <1>1, <1>5 DEF Dropped
      <4>2. v # w
        BY <4>1, <3>2, <1>5, <1>2 DEF WorkersOf
      <4> QED
        BY <4>1, <4>2, <1>4 DEF Dropped, WorkersOf
    <3>3. CASE outcome'[j] # "raised" /\ t \in rsltList[j]
      BY <3>3, <1>5 DEF Held
    <3>4. CASE /\ outcome'[j] # "raised"
               /\ \E v \in WorkersOf(j) :
                    pc[v] # "collected" /\ (t \in results[v] \/ (InTask(v) /\ task[v] = t))
      <4>1. PICK v \in WorkersOf(j) :
                 pc[v] # "collected" /\ (t \in results[v] \/ (InTask(v) /\ task[v] = t))
        BY <3>4
      <4>2. CASE v = w
        <5>1. j = k /\ t \in results[w]
          BY <4>1, <4>2, <1>1 DEF InTask, WorkersOf
        <5>2. t \in rsltList'[j]
          BY <5>1, <3>4, <1>5
        <5> QED
          BY <5>2 DEF Held
      <4>3. CASE v # w
        <5>1. pc'[v] # "collected" /\ (t \in results'[v] \/ (InTask(v)' /\ task'[v] = t))
          BY <4>1, <4>3, <1>3, <1>4 DEF WorkersOf, InTask
        <5> QED
          BY <4>1, <5>1 DEF Held, WorkersOf
      <4> QED
        BY <4>2, <4>3
    <3> QED
      BY <3>1, <3>2, <3>3, <3>4 DEF ResultInv, CallsHold, Held
  <2>2. ASSUME NEW j \in Calls
        PROVE  rsltList'[j] \subseteq 1..taken[j]
    BY <1>2, <1>5 DEF ResultInv, CallsHold, WorkersHold
  <2> QED
    BY <2>1, <2>2, <1>3 DEF CallsHold
<1>8. NoneLeft'
  <2>1. ASSUME NEW j \in Calls
        PROVE  \/ outcome'[j] = "none" \/ Dropped(j)' \/ early'[j] = TRUE
               \/ taken'[j] = ntask'[j] \/ SomeonePolls(j)'
    <3>1. SomeonePolls(j) => SomeonePolls(j)'
      BY <1>1, <1>4 DEF SomeonePolls, WorkersOf, Inside
    <3>2. CASE Dropped(j)
      <4>1. CASE outcome'[j] = "raised"
        BY <4>1 DEF Dropped
      <4>2. CASE outcome'[j] # "raised"
        <5>1. PICK v \in WorkersOf(j) : pc[v] = "failed"
          BY <3>2, <4>2, <1>1, <1>5 DEF Dropped
        <5>2. v # w
          BY <5>1, <4>2, <1>5, <1>2 DEF WorkersOf
        <5> QED
          BY <5>1, <5>2, <1>4 DEF Dropped, WorkersOf
      <4> QED
        BY <4>1, <4>2
    <3>3. CASE outcome[j] = "none"
      BY <3>3, <1>1, <1>5
    <3> QED
      BY <3>1, <3>2, <3>3, <1>3 DEF ResultInv, NoneLeft
  <2> QED
    BY <2>1 DEF NoneLeft
<1>9. ReturnsWhatWasTaken'
  BY <1>2, <1>3, <1>5, OthersReturned
<1> QED
  BY <1>6, <1>7, <1>8, <1>9 DEF ResultInv

\* All chunks are in: nothing was dropped, nothing is held by a worker, and no
\* worker can still poll.
LEMMA ResultReturn ==
  ASSUME TypeInv, PoolInv, ResultInv, NEW k \in Calls, Return(k)
  PROVE  ResultInv'
<1>1. /\ outcome[k] = "running"
      /\ \A i \in 1..para[k] : pc[<<k, i>>] = "collected"
      /\ outcome' = [outcome EXCEPT ![k] = "returned"]
      /\ UNCHANGED <<ntask, flushed, taken, early, idx, idxTaken, reader, results, task, pc,
                     rsltList>>
  BY DEF Return, callVars, queueVars, workerVars
<1>2. \A v \in WorkersOf(k) : v \in Workers /\ pc[v] \in {"absent", "collected"}
  <2> SUFFICES ASSUME NEW v \in WorkersOf(k)
               PROVE  v \in Workers /\ pc[v] \in {"absent", "collected"}
    OBVIOUS
  <2>1. v \in Workers /\ v = <<k, v[2]>> /\ v[1] = k /\ v[2] \in 1..CpuNo
    BY DEF WorkersOf, Workers
  <2>2. CASE v[2] <= para[k]
    <3>1. para[k] \in Nat
      BY DEF TypeInv
    <3>2. v[2] \in 1..para[k]
      BY <2>1, <2>2, <3>1
    <3> QED
      BY <1>1, <2>1, <3>2
  <2>3. CASE ~(v[2] <= para[k])
    BY <2>1, <2>3 DEF PoolInv, WorkersInStep
  <2> QED
    BY <2>1, <2>2, <2>3
<1>3. \A j \in Calls : /\ j # k => outcome'[j] = outcome[j]
                       /\ j = k => outcome'[j] = "returned"
  BY <1>1 DEF TypeInv
<1>4. ~Dropped(k) /\ ~SomeonePolls(k)
  BY <1>1, <1>2 DEF Dropped, SomeonePolls, Inside
<1>5. \A t \in 1..taken[k] : t \in rsltList[k]
  <2>1. ASSUME NEW t \in 1..taken[k], NEW v \in WorkersOf(k), pc[v] # "collected"
        PROVE  t \notin results[v] /\ ~InTask(v)
    BY <2>1, <1>2 DEF ResultInv, WorkersHold, InTask
  <2> QED
    BY <1>4, <2>1 DEF ResultInv, CallsHold, Held
<1>6. rsltList[k] = 1..taken[k]
  BY <1>5 DEF ResultInv, CallsHold
<1>7. early[k] = TRUE \/ taken[k] = ntask[k]
  BY <1>1, <1>4 DEF ResultInv, NoneLeft
<1>8. ReturnsWhatWasTaken'
  <2>1. ASSUME NEW j \in Calls, outcome'[j] = "returned"
        PROVE  rsltList[j] = 1..taken[j] /\ (~early[j] => taken[j] = ntask[j])
    <3>1. CASE j = k
      BY <3>1, <1>6, <1>7
    <3>2. CASE j # k
      BY <2>1, <3>2, <1>3 DEF ResultInv, ReturnsWhatWasTaken
    <3> QED
      BY <3>1, <3>2
  <2> QED
    BY <2>1, <1>1 DEF ReturnsWhatWasTaken
<1>9. Numbers' /\ ReaderInStep' /\ WorkersHold' /\ IndicesInStep'
  BY <1>1, <1>3 DEF ResultInv, Numbers, ReaderInStep, WorkersHold, IndicesInStep,
     WorkersOf, InTask
<1>10. \A j \in Calls : Dropped(j) => Dropped(j)'
  BY <1>1, <1>3 DEF Dropped, WorkersOf
<1>11. CallsHold'
  <2>1. ASSUME NEW j \in Calls, NEW t \in 1..taken[j]
        PROVE  Dropped(j)' \/ Held(j, t)'
    <3>1. Held(j, t) => Held(j, t)'
      BY <1>1 DEF Held, WorkersOf, InTask
    <3> QED
      BY <3>1, <1>10 DEF ResultInv, CallsHold
  <2> QED
    BY <2>1, <1>1 DEF ResultInv, CallsHold
<1>12. NoneLeft'
  <2>1. \A j \in Calls : SomeonePolls(j) => SomeonePolls(j)'
    BY <1>1 DEF SomeonePolls, WorkersOf
  <2> QED
    BY <2>1, <1>1, <1>3, <1>10 DEF ResultInv, NoneLeft
<1> QED
  BY <1>8, <1>9, <1>11, <1>12 DEF ResultInv

\* The feeder, and the end of a manager, change nothing a worker holds.
LEMMA ResultBackground ==
  ASSUME TypeInv, PoolInv, ResultInv, NEW k \in Calls, LoseManager(k) \/ Feed(k)
  PROVE  ResultInv'
<1>1. UNCHANGED <<outcome, ntask, taken, early, idx, idxTaken, reader, results, task, pc,
                  rsltList>>
  BY DEF LoseManager, Feed, callVars, queueVars, workerVars, callerVars
<1>2. Numbers'
  <2>1. CASE LoseManager(k)
    BY <2>1, <1>1 DEF LoseManager, queueVars, ResultInv, Numbers
  <2>2. CASE Feed(k)
    <3>1. /\ \A j \in Calls : j # k => flushed'[j] = flushed[j]
          /\ flushed'[k] = flushed[k] + 1 /\ flushed[k] < ntask[k]
          /\ flushed[k] \in Nat /\ ntask[k] \in Nat /\ taken[k] \in Nat
      BY <2>2 DEF Feed, TypeInv
    <3> QED
      BY <3>1, <1>1 DEF ResultInv, Numbers
  <2> QED
    BY <2>1, <2>2
<1>3. ReaderInStep' /\ WorkersHold' /\ IndicesInStep' /\ ReturnsWhatWasTaken'
  BY <1>1 DEF ResultInv, ReaderInStep, WorkersHold, IndicesInStep, WorkersOf, InTask,
     ReturnsWhatWasTaken
<1>4. CallsHold'
  BY <1>1 DEF ResultInv, CallsHold, Held, Dropped, WorkersOf, InTask
<1>5. NoneLeft'
  BY <1>1 DEF ResultInv, NoneLeft, Dropped, SomeonePolls, WorkersOf
<1> QED
  BY <1>2, <1>3, <1>4, <1>5 DEF ResultInv

\* A call begins with workers that hold nothing.
LEMMA ResultCall ==
  ASSUME TypeInv, PoolInv, ResultInv, NEW n \in 1..MaxTasks, NEW p \in 1..(CpuNo + 1),
         Call(n, p)
  PROVE  ResultInv'
<1> DEFINE c == call + 1
           q == ChoosePara(n, p)
<1> USE WorkerPoolAssumption
<1>1. c \in Calls /\ q \in 1..CpuNo /\ call \in Nat /\ c > call
  BY ChooseParaType DEF Call, Calls, TypeInv
<1>2. /\ ntask' = [ntask EXCEPT ![c] = n]
      /\ pc' = [w \in Workers |-> IF w[1] = c /\ w[2] <= q THEN "submitted" ELSE pc[w]]
      /\ outcome' = [outcome EXCEPT ![c] = "running"]
      /\ UNCHANGED <<flushed, taken, idxTaken, reader, early, idx, task, results, rsltList>>
  BY DEF Call, queueVars
<1>3. \A j \in Calls : /\ j # c => ntask'[j] = ntask[j] /\ outcome'[j] = outcome[j]
                       /\ j = c => ntask'[j] = n /\ outcome'[j] = "running"
  BY <1>1, <1>2 DEF TypeInv
<1>4. outcome[c] = "none" /\ ntask[c] = 0 /\ taken[c] = 0 /\ flushed[c] = 0
  <2>1. outcome[c] = "none"
    BY <1>1 DEF PoolInv, CallsInOrder
  <2>2. taken[c] \in Nat /\ flushed[c] \in Nat
    BY <1>1 DEF TypeInv
  <2> QED
    BY <2>1, <2>2, <1>1 DEF ResultInv, Numbers
<1>5. \A w \in Workers : /\ w[1] # c => pc'[w] = pc[w]
                         /\ w[1] = c => pc[w] = "absent" /\ pc'[w] \in {"absent", "submitted"}
  BY <1>1, <1>2 DEF PoolInv, WorkersInStep
<1>6. <<c, 1>> \in WorkersOf(c) /\ pc'[<<c, 1>>] = "submitted"
  BY <1>1, <1>2 DEF Workers, WorkersOf
<1>7. Numbers'
  BY <1>1, <1>2, <1>3, <1>4 DEF ResultInv, Numbers
<1>8. \A w \in Workers : /\ InTask(w)' <=> InTask(w)
                         /\ pc'[w] \in {"reading"} \cup (Inside \ {"getidx"}) <=>
                              pc[w] \in {"reading"} \cup (Inside \ {"getidx"})
  BY <1>5 DEF InTask, Inside
<1>9. ReaderInStep'
  BY <1>2, <1>5 DEF ResultInv, ReaderInStep, WorkersOf
<1>10. WorkersHold'
  BY <1>2, <1>5, <1>8 DEF ResultInv, WorkersHold
<1>11. IndicesInStep'
  BY <1>2, <1>8 DEF ResultInv, IndicesInStep, Inside
<1>12. CallsHold'
  <2>1. ASSUME NEW j \in Calls, NEW t \in 1..taken[j]
        PROVE  Dropped(j)' \/ Held(j, t)'
    <3>1. j # c
      BY <2>1, <1>4
    <3>2. \A v \in WorkersOf(j) : pc'[v] = pc[v] /\ (InTask(v)' <=> InTask(v))
      BY <3>1, <1>5, <1>8 DEF WorkersOf
    <3>3. Dropped(j) => Dropped(j)'
      BY <3>1, <3>2, <1>3 DEF Dropped, WorkersOf
    <3>4. Held(j, t) => Held(j, t)'
      BY <3>2, <1>2 DEF Held, WorkersOf
    <3> QED
      BY <3>3, <3>4 DEF ResultInv, CallsHold
  <2> QED
    BY <2>1, <1>2 DEF ResultInv, CallsHold
<1>13. NoneLeft'
  <2>1. ASSUME NEW j \in Calls
        PROVE  \/ outcome'[j] = "none" \/ Dropped(j)' \/ early'[j] = TRUE
               \/ taken'[j] = ntask'[j] \/ SomeonePolls(j)'
    <3>1. CASE j = c
      BY <3>1, <1>6 DEF SomeonePolls, WorkersOf
    <3>2. CASE j # c
      <4>1. \A v \in WorkersOf(j) : pc'[v] = pc[v]
        BY <3>2, <1>5 DEF WorkersOf
      <4>2. Dropped(j) => Dropped(j)'
        BY <3>2, <4>1, <1>3 DEF Dropped, WorkersOf
      <4>3. SomeonePolls(j) => SomeonePolls(j)'
        BY <4>1 DEF SomeonePolls, WorkersOf
      <4> QED
        BY <3>2, <4>2, <4>3, <1>2, <1>3 DEF ResultInv, NoneLeft
    <3> QED
      BY <3>1, <3>2
  <2> QED
    BY <2>1 DEF NoneLeft
<1>14. ReturnsWhatWasTaken'
  BY <1>1, <1>2, <1>3, OthersReturned
<1> QED
  BY <1>7, <1>9, <1>10, <1>11, <1>12, <1>13, <1>14 DEF ResultInv

-----------------------------------------------------------------------------
\* Every step keeps the invariant of the results, one case per action.
LEMMA ResultStep == TypeInv /\ PoolInv /\ ResultInv /\ [Next]_vars => ResultInv'
<1> SUFFICES ASSUME TypeInv, PoolInv, ResultInv, [Next]_vars
             PROVE  ResultInv'
  OBVIOUS
<1>1. CASE UNCHANGED vars
  BY <1>1 DEF vars, callVars, queueVars, workerVars, callerVars, ResultInv, Numbers,
     ReaderInStep, WorkersHold, CallsHold, Held, Dropped, NoneLeft, SomeonePolls,
     IndicesInStep, WorkersOf, InTask, ReturnsWhatWasTaken
<1>2. ASSUME NEW k \in Calls, CallerStep(k)
      PROVE  ResultInv'
  <2>1. \A i \in 1..CpuNo : <<k, i>> \in Workers
    BY DEF Workers
  <2> QED
    BY <1>2, <2>1, ResultReturn, ResultConsume DEF CallerStep
<1> QED
  BY <1>1, <1>2, ResultCall, ResultBackground, ResultWorkerWaits, ResultFindEmpty,
     ResultTake, ResultEndTask DEF Next, WorkerStep, Finished

\* It holds to begin with.
LEMMA ResultInit == Init => ResultInv
<1> SUFFICES ASSUME Init
             PROVE  ResultInv
  OBVIOUS
<1>1. \A k \in Calls : /\ taken[k] = 0 /\ flushed[k] = 0 /\ ntask[k] = 0 /\ outcome[k] = "none"
                       /\ reader[k] = NoWorker /\ rsltList[k] = {} /\ idxTaken[k] = 0
  BY DEF Init
<1>2. \A w \in Workers : /\ results[w] = {} /\ idx[w] = -1 /\ pc[w] = "absent"
                         /\ w[1] \in Calls
  BY DEF Init, Workers
<1> QED
  BY <1>1, <1>2 DEF ResultInv, Numbers, ReaderInStep, WorkersHold, CallsHold, NoneLeft,
     IndicesInStep, ReturnsWhatWasTaken, InTask, Inside

\* The invariant of the results holds throughout.
LEMMA ResultInvariance == Spec => [](TypeInv /\ PoolInv /\ ResultInv)
BY ResultInit, ResultStep, PoolInvariance, PTL DEF Spec

\* A call that returns hands on every result its workers took a task for, and
\* all the tasks unless a worker looked before the feeder had written the last.
THEOREM ReturnedAreTaken == Spec => []ReturnsWhatWasTaken
<1>1. ResultInv => ReturnsWhatWasTaken
  BY DEF ResultInv
<1> QED
  BY <1>1, ResultInvariance, PTL

\* Two tasks are in one workdir at a time only when one of them is left over
\* from a call that raised: a call gives every index to one worker, and
\* another call begins only when the last one has returned or raised.
THEOREM WorkdirsExclusive == Spec => []WorkdirExclusive
<1>1. TypeInv /\ PoolInv /\ ResultInv => WorkdirExclusive
  <2> SUFFICES ASSUME TypeInv, PoolInv, ResultInv, NEW v \in Workers, NEW w \in Workers,
                      v # w, InTask(v), InTask(w), idx[v] = idx[w],
                      outcome[v[1]] # "raised", outcome[w[1]] # "raised"
               PROVE  FALSE
    BY DEF WorkdirExclusive
  <2>1. /\ v[1] \in Calls /\ outcome[v[1]] = "running"
        /\ w[1] \in Calls /\ outcome[w[1]] = "running"
    BY AtWork DEF InTask
  <2>2. v[1] = w[1]
    BY <2>1 DEF PoolInv, CallsInOrder
  <2>3. idx[w] < 0 /\ idx[w] >= 0
    BY <2>2 DEF ResultInv, IndicesInStep, InTask, Inside
  <2>4. idx[w] \in Int
    BY DEF TypeInv
  <2> QED
    BY <2>3, <2>4
<1> QED
  BY <1>1, ResultInvariance, PTL

-----------------------------------------------------------------------------
(***************************************************************************)
(* The calls implement TaskPool.                                           *)
(***************************************************************************)
PoolInvs == TypeInv /\ PoolInv /\ ResultInv

\* What the callers got.
Handed == [k \in Calls |-> IF outcome[k] = "returned" THEN rsltList[k] ELSE {}]

\* The first state is the first one of TaskPool.
LEMMA InitRefines == Init => Pool!Init
<1> SUFFICES ASSUME Init PROVE Pool!Init
  OBVIOUS
<1>1. Handed = [k \in Calls |-> {}]
  BY DEF Init, Handed
<1> QED
  BY <1>1 DEF Init, Pool!Init, Handed

\* A step that leaves the calls' numbers and outcomes, and the results of those
\* that returned, is a stutter.
LEMMA QuietStep ==
  ASSUME UNCHANGED <<outcome, ntask, para, taken, early>>,
         \A k \in Calls : outcome[k] = "returned" => rsltList'[k] = rsltList[k]
  PROVE  UNCHANGED Pool!vars
<1>1. Handed' = Handed
  BY DEF Handed
<1> QED
  BY <1>1 DEF Pool!vars, Handed

\* A call begins when the one before is over.
LEMMA CallRefines ==
  ASSUME PoolInvs, NEW n \in 1..MaxTasks, NEW p \in 1..(CpuNo + 1), Call(n, p)
  PROVE  \E k \in Calls : Pool!Begin(k)
<1> DEFINE k == call + 1
           s == ChoosePara(n, p)
<1>1. /\ k \in Calls /\ call \in Nat
      /\ ntask' = [ntask EXCEPT ![k] = n] /\ para' = [para EXCEPT ![k] = s]
      /\ outcome' = [outcome EXCEPT ![k] = "running"]
      /\ \A j \in Calls : outcome[j] # "running"
      /\ UNCHANGED <<taken, early, rsltList>>
  BY WorkerPoolAssumption DEF Call, Idle, queueVars, PoolInvs, TypeInv, Calls
<1>2. s \in 1..CpuNo /\ s <= n
  BY ChooseParaType, WorkerPoolAssumption DEF ChoosePara
<1>3. \A j \in Calls : /\ j < k => outcome[j] \in {"returned", "raised"}
                       /\ j >= k => outcome[j] = "none"
  <2>1. \A j \in Calls : outcome[j] \in {"none", "running", "returned", "raised"}
    BY DEF PoolInvs, TypeInv
  <2>2. \A j \in Calls : /\ j > call => outcome[j] = "none"
                         /\ j <= call => outcome[j] # "none"
    BY DEF PoolInvs, PoolInv, CallsInOrder
  <2>3. \A j \in Calls : j \in Nat
    BY DEF Calls
  <2> QED
    BY <1>1, <2>1, <2>2, <2>3
<1> HIDE DEF k, s
<1>4. Handed' = Handed
  <2>1. k \in Nat /\ outcome[k] = "none"
    BY <1>1, <1>3 DEF Calls
  <2>2. \A j \in Calls : outcome'[j] = "returned" <=> outcome[j] = "returned"
    BY <1>1, <2>1 DEF PoolInvs, TypeInv
  <2> QED
    BY <1>1, <2>2 DEF Handed
<1>5. Pool!Begin(k)
  <2>1. outcome[k] = "none" /\ \A j \in Calls : (j < k => Pool!Over(j)) /\ (j > k => outcome[j] = "none")
    BY <1>1, <1>3 DEF Pool!Over, Calls
  <2>2. \E m \in 1..MaxTasks, q \in 1..CpuNo :
          q <= m /\ ntask' = [ntask EXCEPT ![k] = m] /\ para' = [para EXCEPT ![k] = q]
    BY <1>1, <1>2
  <2> QED
    BY <1>1, <1>4, <2>1, <2>2 DEF Pool!Begin, Handed
<1> QED
  BY <1>1, <1>5

\* The first exception raises in the caller.
LEMMA RaiseRefines ==
  ASSUME PoolInvs, NEW w \in Workers, Raise(w)
  PROVE  Pool!Raise(w[1])
<1> DEFINE k == w[1]
<1>1. /\ k \in Calls /\ outcome[k] = "running"
      /\ outcome' = [outcome EXCEPT ![k] = "raised"]
      /\ UNCHANGED <<ntask, para, taken, early, rsltList>>
  BY DEF Raise, Workers, callVars, queueVars
<1>2. Handed' = Handed
  BY <1>1 DEF Handed, PoolInvs, TypeInv
<1> QED
  BY <1>1, <1>2 DEF Pool!Raise, Handed

\* A call that returns hands over what was taken, from a pool that no call
\* spoiled.
LEMMA ReturnRefines ==
  ASSUME PoolInvs, PoolInvs', NEW k \in Calls, Return(k)
  PROVE  Pool!Return(k)
<1>1. /\ outcome[k] = "running"
      /\ outcome' = [outcome EXCEPT ![k] = "returned"]
      /\ UNCHANGED <<ntask, para, taken, early, rsltList>>
  BY DEF Return, callVars, queueVars
<1>2. outcome'[k] = "returned" /\ \A j \in Calls : j # k => outcome'[j] = outcome[j]
  BY <1>1 DEF PoolInvs, TypeInv
<1>3. rsltList[k] = 1..taken[k] /\ (~early[k] => taken[k] = ntask[k])
  BY <1>1, <1>2 DEF PoolInvs, ResultInv, ReturnsWhatWasTaken
<1>4. \A j \in Calls : j < k /\ para[j] = para[k] => outcome[j] # "raised"
  <2> SUFFICES ASSUME NEW j \in Calls, j < k, para[j] = para[k], outcome[j] = "raised"
               PROVE  FALSE
    OBVIOUS
  <2>1. j # k
    BY <1>1
  <2> QED
    BY <1>1, <1>2, <2>1 DEF PoolInvs, PoolInv, RaisePoisons
<1>5. Handed' = [Handed EXCEPT ![k] = 1..taken[k]]
  BY <1>1, <1>2, <1>3 DEF Handed
<1> QED
  BY <1>1, <1>3, <1>4, <1>5 DEF Pool!Return, Pool!Unspoiled, Handed

\* A worker takes a task while there are any.
LEMMA TakeRefines ==
  ASSUME PoolInvs, NEW w \in Workers, Take(w)
  PROVE  Pool!Take(w[1])
<1> DEFINE k == w[1]
<1>1. pc[w] = "reading" /\ UNCHANGED <<outcome, ntask, para, early, rsltList>>
  BY DEF Take, callVars, callerVars
<1>2. k \in Calls /\ outcome[k] \in {"running", "raised"} /\ serves[w] = k
  BY <1>1, AtWork DEF PoolInvs, Inside
<1>3. flushed[k] > taken[k] /\ taken' = [taken EXCEPT ![k] = @ + 1]
  BY <1>2 DEF Take
<1>4. taken[k] < ntask[k]
  BY <1>2, <1>3 DEF PoolInvs, TypeInv, ResultInv, Numbers
<1>5. Handed' = Handed
  BY <1>1 DEF Handed
<1> QED
  BY <1>1, <1>2, <1>3, <1>4, <1>5 DEF Pool!Take, Pool!AtWork, Handed

\* A worker that meets Empty misses a task if the feeder has one left.
LEMMA FindEmptyRefines ==
  ASSUME PoolInvs, NEW w \in Workers, FindEmpty(w)
  PROVE  Pool!MissTask(w[1]) \/ UNCHANGED Pool!vars
<1> DEFINE k == w[1]
<1>1. pc[w] = "reading" /\ UNCHANGED <<outcome, ntask, para, taken, rsltList>>
  BY DEF FindEmpty, callVars, callerVars
<1>2. k \in Calls /\ outcome[k] \in {"running", "raised"} /\ serves[w] = k
  BY <1>1, AtWork DEF PoolInvs, Inside
<1>3. flushed[k] = taken[k] /\ early' = [early EXCEPT ![k] = @ \/ flushed[k] < ntask[k]]
  BY <1>2 DEF FindEmpty
<1>4. early \in [Calls -> BOOLEAN]
  BY DEF PoolInvs, TypeInv
<1>5. Handed' = Handed
  BY <1>1 DEF Handed
<1>6. CASE flushed[k] < ntask[k]
  <2>1. early' = [early EXCEPT ![k] = TRUE] /\ taken[k] < ntask[k]
    BY <1>3, <1>6
  <2> QED
    BY <1>1, <1>2, <1>5, <2>1 DEF Pool!MissTask, Pool!AtWork, Handed
<1>7. CASE ~(flushed[k] < ntask[k])
  <2>1. early' = early
    BY <1>2, <1>3, <1>4, <1>7
  <2> QED
    BY <1>1, <2>1, QuietStep
<1> QED
  BY <1>6, <1>7

\* Every step of the pool is one of TaskPool, or a stutter.
LEMMA StepsRefine == PoolInvs /\ PoolInvs' /\ [Next]_vars => [Pool!Next]_(Pool!vars)
<1> SUFFICES ASSUME PoolInvs, PoolInvs', [Next]_vars
             PROVE  [Pool!Next]_(Pool!vars)
  OBVIOUS
<1>0. \A w \in Workers : w[1] \in Calls
  BY DEF Workers
<1>1. ASSUME NEW n \in 1..MaxTasks, NEW p \in 1..(CpuNo + 1), Call(n, p)
      PROVE  [Pool!Next]_(Pool!vars)
  BY <1>1, CallRefines DEF Pool!Next
<1>2. ASSUME NEW k \in Calls, Return(k)
      PROVE  [Pool!Next]_(Pool!vars)
  BY <1>2, ReturnRefines DEF Pool!Next
<1>3. ASSUME NEW w \in Workers, Raise(w) \/ Take(w) \/ FindEmpty(w)
      PROVE  [Pool!Next]_(Pool!vars)
  BY <1>0, <1>3, RaiseRefines, TakeRefines, FindEmptyRefines DEF Pool!Next
<1>4. ASSUME NEW w \in Workers, Collect(w)
      PROVE  [Pool!Next]_(Pool!vars)
  <2>1. /\ outcome[w[1]] = "running" /\ UNCHANGED <<outcome, ntask, para, taken, early>>
        /\ rsltList' = [rsltList EXCEPT ![w[1]] = @ \cup results[w]]
    BY <1>4 DEF Collect, callVars, queueVars
  <2>2. \A k \in Calls : outcome[k] = "returned" => rsltList'[k] = rsltList[k]
    BY <2>1 DEF PoolInvs, TypeInv
  <2> QED
    BY <2>1, <2>2, QuietStep
<1>5. ASSUME NEW k \in Calls, LoseManager(k) \/ Feed(k)
      PROVE  [Pool!Next]_(Pool!vars)
  <2>1. UNCHANGED <<outcome, ntask, para, taken, early, rsltList>>
    BY <1>5 DEF LoseManager, Feed, callVars, queueVars, callerVars
  <2> QED
    BY <2>1, QuietStep
<1>6. ASSUME NEW w \in Workers,
             \/ LookUp(w) \/ GetIdx(w) \/ TryLock(w) \/ Contended(w) \/ Release(w)
             \/ Acquire(w) \/ FinishTask(w) \/ FailTask(w)
      PROVE  [Pool!Next]_(Pool!vars)
  <2>1. UNCHANGED <<outcome, ntask, para, taken, early, rsltList>>
    BY <1>6 DEF LookUp, GetIdx, TryLock, Contended, Release, Acquire, FinishTask, FailTask,
       callVars, queueVars, callerVars
  <2> QED
    BY <2>1, QuietStep
<1>7. CASE UNCHANGED vars
  <2>1. UNCHANGED <<outcome, ntask, para, taken, early, rsltList>>
    BY <1>7 DEF vars, callVars, queueVars, callerVars
  <2> QED
    BY <2>1, QuietStep
<1>8. ASSUME NEW k \in Calls, CallerStep(k)
      PROVE  [Pool!Next]_(Pool!vars)
  <2>1. \A i \in 1..CpuNo : <<k, i>> \in Workers
    BY DEF Workers
  <2> QED
    BY <1>2, <1>3, <1>4, <1>8, <2>1 DEF CallerStep
<1> QED
  BY <1>1, <1>3, <1>5, <1>6, <1>7, <1>8 DEF Next, WorkerStep, Finished

\* The calls of a process are those of a TaskPool, for every number of calls,
\* tasks and processes, and whichever tasks raise: what a call hands over is
\* what its workers took, and after a raise no call with as many processes
\* returns.
THEOREM Refinement == Spec => ImplementsTaskPool
<1>1. Spec => []PoolInvs
  BY ResultInvariance, PTL DEF PoolInvs
<1>2. PoolInvs /\ PoolInvs' /\ [Next]_vars => [Pool!Next]_(Pool!vars)
  BY StepsRefine
<1> QED
  BY <1>1, <1>2, InitRefines, PTL DEF Spec, ImplementsTaskPool, Pool!Spec

-----------------------------------------------------------------------------
(***************************************************************************)
(* Nobody waits in vain: as many indices of a call are gone as invocations *)
(* of it hold one, and one that waits holds none yet.                      *)
(***************************************************************************)
Waiting == {"absent", "submitted", "getidx"}

Holders(k) == { i \in 1..CpuNo : idx[<<k, i>>] >= 0 }

IndicesLast ==
  /\ \A w \in Workers : pc[w] \in Waiting => idx[w] < 0
  /\ \A k \in Calls : idxTaken[k] = Cardinality(Holders(k))

\* The numbers of invocations are finitely many.
LEMMA HoldersFinite ==
  ASSUME NEW k
  PROVE  IsFiniteSet(Holders(k))
<1>1. IsFiniteSet(1..CpuNo)
  BY WorkerPoolAssumption, FS_Interval
<1>2. Holders(k) \in SUBSET (1..CpuNo)
  BY DEF Holders
<1> QED
  BY <1>1, <1>2, FS_Subset

\* The one step that takes an index gives it to somebody who had none.
LEMMA IndicesGetIdx ==
  ASSUME PoolInvs, IndicesLast, NEW w \in Workers, GetIdx(w)
  PROVE  IndicesLast'
<1> DEFINE k == w[1]
           n == w[2]
<1>1. w = <<k, n>> /\ k \in Calls /\ n \in 1..CpuNo
  BY DEF Workers
<1>2. serves[w] = k
  BY DEF GetIdx, PoolInvs, PoolInv, WorkersInStep, Inside
<1>3. /\ pc[w] = "getidx" /\ pc' = [pc EXCEPT ![w] = "polling"]
      /\ idx' = [idx EXCEPT ![w] = idxTaken[k]]
      /\ idxTaken' = [idxTaken EXCEPT ![k] = @ + 1]
  BY <1>2 DEF GetIdx
<1>4. /\ pc'[w] = "polling" /\ idx'[w] = idxTaken[k] /\ idxTaken[k] \in Nat
      /\ idxTaken'[k] = idxTaken[k] + 1
      /\ \A v \in Workers : v # w => pc'[v] = pc[v] /\ idx'[v] = idx[v]
      /\ \A j \in Calls : j # k => idxTaken'[j] = idxTaken[j]
  BY <1>1, <1>3 DEF PoolInvs, TypeInv
<1>5. \A v \in Workers : pc'[v] \in Waiting => idx'[v] < 0
  BY <1>4 DEF IndicesLast, Waiting
<1>6. ASSUME NEW j \in Calls
      PROVE  idxTaken'[j] = Cardinality(Holders(j)')
  <2>1. \A i \in 1..CpuNo : <<j, i>> \in Workers
    BY DEF Workers
  <2>2. CASE j # k
    <3>1. \A i \in 1..CpuNo : <<j, i>> # w
      BY <1>1, <2>2
    <3>2. Holders(j)' = Holders(j)
      BY <2>1, <3>1, <1>4 DEF Holders
    <3> QED
      BY <2>2, <3>2, <1>4 DEF IndicesLast
  <2>3. CASE j = k
    <3>1. idx[w] < 0 /\ idx[w] \in Int
      BY <1>3 DEF IndicesLast, Waiting, PoolInvs, TypeInv
    <3>2. \A i \in 1..CpuNo : i # n => <<j, i>> # w
      BY <1>1
    <3>3. n \notin Holders(j)
      BY <3>1, <1>1, <2>3 DEF Holders
    <3>4. Holders(j)' = Holders(j) \cup {n}
      BY <2>1, <2>3, <3>2, <1>1, <1>4 DEF Holders
    <3>5. Cardinality(Holders(j) \cup {n}) = Cardinality(Holders(j)) + 1
      BY <3>3, HoldersFinite, FS_AddElement
    <3> QED
      BY <2>3, <3>4, <3>5, <1>4 DEF IndicesLast
  <2> QED
    BY <2>2, <2>3
<1> QED
  BY <1>5, <1>6 DEF IndicesLast

\* In every other step nobody gets an index, and nobody begins to wait who
\* holds one.
LEMMA IndicesStay ==
  ASSUME IndicesLast, UNCHANGED <<idx, idxTaken>>,
         \A w \in Workers : pc'[w] \in Waiting => pc[w] \in Waiting
  PROVE  IndicesLast'
<1>1. \A k \in Calls : Holders(k)' = Holders(k)
  BY DEF Holders
<1> QED
  BY <1>1 DEF IndicesLast

\* Every step keeps it.
LEMMA IndicesStep == PoolInvs /\ IndicesLast /\ [Next]_vars => IndicesLast'
<1> SUFFICES ASSUME PoolInvs, IndicesLast, [Next]_vars
             PROVE  IndicesLast'
  OBVIOUS
<1>1. pc \in [Workers -> PC]
  BY DEF PoolInvs, TypeInv
<1>2. CASE \E n \in 1..MaxTasks, p \in 1..(CpuNo + 1) : Call(n, p)
  <2>1. PICK n \in 1..MaxTasks, p \in 1..(CpuNo + 1) : Call(n, p)
    BY <1>2
  <2>2. /\ UNCHANGED <<idx, idxTaken>>
        /\ pc' = [w \in Workers |->
                    IF w[1] = call + 1 /\ w[2] <= ChoosePara(n, p) THEN "submitted" ELSE pc[w]]
    BY <2>1 DEF Call, queueVars
  <2>3. call \in Nat
    BY DEF PoolInvs, TypeInv
  <2>4. \A w \in Workers : w[1] = call + 1 => pc[w] = "absent"
    BY <2>3 DEF PoolInvs, PoolInv, WorkersInStep
  <2> QED
    BY <2>2, <2>4, IndicesStay DEF Waiting
<1>3. ASSUME NEW k \in Calls, Return(k) \/ LoseManager(k) \/ Feed(k)
      PROVE  IndicesLast'
  <2>1. UNCHANGED <<idx, idxTaken, pc>>
    BY <1>3 DEF Return, LoseManager, Feed, queueVars, workerVars
  <2> QED
    BY <2>1, IndicesStay
<1>4. ASSUME NEW w \in Workers, Collect(w) \/ Raise(w) \/ LookUp(w) \/ TryLock(w)
             \/ Contended(w) \/ FindEmpty(w) \/ Take(w) \/ Acquire(w) \/ Release(w)
             \/ FinishTask(w) \/ FailTask(w)
      PROVE  IndicesLast'
  <2>1. UNCHANGED <<idx, idxTaken>>
    BY <1>4 DEF Collect, Raise, LookUp, TryLock, Contended, FindEmpty, Take, Acquire,
       Release, FinishTask, FailTask, queueVars
  <2>2. PICK x \in PC : /\ pc' = [pc EXCEPT ![w] = x]
                        /\ x \in Waiting => pc[w] \in Waiting
    <3>1. CASE LookUp(w)
      BY <3>1 DEF LookUp, PC, Waiting
    <3>2. CASE Collect(w) \/ Raise(w) \/ FindEmpty(w) \/ Take(w)
      BY <3>2 DEF Collect, Raise, FindEmpty, Take, PC, Waiting
    <3>3. CASE TryLock(w) \/ Contended(w) \/ Acquire(w) \/ Release(w)
      BY <3>3 DEF TryLock, Contended, Acquire, Release, PC, Waiting
    <3>4. CASE FinishTask(w) \/ FailTask(w)
      BY <3>4 DEF FinishTask, FailTask, PC, Waiting
    <3> QED
      BY <1>4, <3>1, <3>2, <3>3, <3>4
  <2> QED
    BY <1>1, <2>1, <2>2, IndicesStay
<1>5. CASE UNCHANGED vars
  BY <1>5, IndicesStay DEF vars, queueVars, workerVars
<1>6. ASSUME NEW k \in Calls, CallerStep(k)
      PROVE  IndicesLast'
  <2>1. \A i \in 1..CpuNo : <<k, i>> \in Workers
    BY DEF Workers
  <2> QED
    BY <1>3, <1>4, <1>6, <2>1 DEF CallerStep
<1> QED
  BY <1>2, <1>3, <1>4, <1>5, <1>6, IndicesGetIdx DEF Next, WorkerStep, Finished

\* Nobody holds an index before the first call.
LEMMA IndicesInit == Init => IndicesLast
<1> SUFFICES ASSUME Init
             PROVE  IndicesLast
  OBVIOUS
<1>1. \A w \in Workers : idx[w] = -1
  BY DEF Init
<1>2. ASSUME NEW k \in Calls
      PROVE  idxTaken[k] = 0 /\ Holders(k) = {}
  <2>1. \A i \in 1..CpuNo : <<k, i>> \in Workers
    BY DEF Workers
  <2> QED
    BY <1>1, <2>1 DEF Init, Holders
<1> QED
  BY <1>1, <1>2, FS_EmptySet DEF IndicesLast

\* A worker that asks for an index finds one: those that hold one are other
\* invocations of its call, of which there are as many as indices.
LEMMA IndexIsThere ==
  ASSUME PoolInvs, IndicesLast, NEW w \in Workers, pc[w] = "getidx"
  PROVE  idxTaken[serves[w]] < para[serves[w]]
<1> DEFINE k == w[1]
           n == w[2]
<1>1. w = <<k, n>> /\ k \in Calls /\ n \in 1..CpuNo
  BY DEF Workers
<1>2. serves[w] = k /\ n <= para[k] /\ para[k] \in 0..CpuNo
  BY <1>1 DEF PoolInvs, PoolInv, WorkersInStep, Inside, TypeInv
<1>3. n \notin Holders(k)
  <2>1. idx[w] < 0 /\ idx[w] \in Int
    BY DEF IndicesLast, Waiting, PoolInvs, TypeInv
  <2> QED
    BY <2>1, <1>1 DEF Holders
<1>4. Holders(k) \subseteq 1..para[k]
  <2> SUFFICES ASSUME NEW i \in Holders(k)
               PROVE  i <= para[k]
    BY <1>2 DEF Holders
  <2>1. i \in 1..CpuNo /\ <<k, i>> \in Workers /\ idx[<<k, i>>] >= 0
    BY <1>1 DEF Holders, Workers
  <2>2. idx[<<k, i>>] \in Int
    BY <2>1 DEF PoolInvs, TypeInv
  <2>3. pc[<<k, i>>] # "absent"
    BY <2>1, <2>2 DEF IndicesLast, Waiting
  <2> QED
    BY <2>1, <2>3 DEF PoolInvs, PoolInv, WorkersInStep
<1>5. IsFiniteSet(1..para[k]) /\ Cardinality(1..para[k]) = para[k]
  BY <1>2, FS_Interval
<1>6. Cardinality((1..para[k]) \ {n}) = para[k] - 1 /\ IsFiniteSet((1..para[k]) \ {n})
  <2>1. n \in 1..para[k]
    BY <1>1, <1>2
  <2> HIDE DEF k, n
  <2> QED
    BY <2>1, <1>5, FS_RemoveElement
<1>7. Holders(k) \in SUBSET ((1..para[k]) \ {n})
  BY <1>3, <1>4
<1>8. Cardinality(Holders(k)) <= para[k] - 1
  BY <1>6, <1>7, FS_Subset
<1>9. idxTaken[k] = Cardinality(Holders(k)) /\ idxTaken[k] \in Nat
  BY <1>1 DEF IndicesLast, PoolInvs, TypeInv
<1> QED
  BY <1>2, <1>8, <1>9

\* No process of a pool waits for ever for an index, for any number of calls,
\* raises and processes, and a call whose caller waits has a process in its pool
\* that can go on: everyone never waits for everyone.
THEOREM NobodyIsStuck == Spec => []NeverStuck
<1>1. PoolInvs /\ IndicesLast => NeverStuck
  <2> SUFFICES ASSUME PoolInvs, IndicesLast
               PROVE  NeverStuck
    OBVIOUS
  <2>1. \A w \in Workers : pc[w] = "getidx" => GoesOn(w)
    BY IndexIsThere DEF GoesOn
  <2>2. \A w \in Workers : Active(w) => GoesOn(w)
    BY <2>1 DEF Active, GoesOn, InTask
  <2>3. ASSUME NEW k \in Calls, outcome[k] = "running",
               NEW i \in 1..para[k], pc[<<k, i>>] \notin {"collected", "done", "failed"}
        PROVE  \E w \in Workers : para[w[1]] = para[k] /\ GoesOn(w)
    <3> DEFINE w == <<k, i>>
    <3>1. para[k] \in 1..CpuNo /\ k <= call
      BY <2>3, MadeCall DEF PoolInvs, PoolInv
    <3>2. w \in Workers /\ w[1] = k /\ w[2] = i /\ i <= para[k]
      <4>1. i \in 1..CpuNo /\ i <= para[k]
        BY <3>1, WorkerPoolAssumption
      <4> QED
        BY <4>1 DEF Workers
    <3>3. pc[w] # "absent" /\ pc[w] \in PC
      <4> HIDE DEF w
      <4>1. pc[w] \in PC
        BY <3>2 DEF PoolInvs, TypeInv
      <4> QED
        BY <4>1, <3>1, <3>2 DEF PoolInvs, PoolInv, WorkersInStep
    <3>4. CASE Active(w)
      BY <3>2, <3>4, <2>2
    <3>5. CASE ~Active(w)
      <4>1. pc[w] = "submitted"
        BY <2>3, <3>3, <3>5 DEF PC, Active
      <4>2. CASE Occupying(para[k]) = {}
        <5>1. Cardinality(Occupying(para[k])) < para[k]
          BY <4>2, <3>1, FS_EmptySet
        <5> QED
          BY <5>1, <4>1, <3>2 DEF GoesOn
      <4>3. CASE Occupying(para[k]) # {}
        <5>1. PICK v \in Occupying(para[k]) : TRUE
          BY <4>3
        <5> QED
          BY <5>1, <2>2 DEF Occupying
      <4> QED
        BY <4>2, <4>3
    <3> QED
      BY <3>4, <3>5
  <2> QED
    BY <2>1, <2>3 DEF NeverStuck
<1>2. Spec => []PoolInvs
  BY ResultInvariance, PTL DEF PoolInvs
<1>3. Spec => []IndicesLast
  BY <1>2, IndicesInit, IndicesStep, PTL DEF Spec
<1> QED
  BY <1>1, <1>2, <1>3, PTL

-----------------------------------------------------------------------------
(***************************************************************************)
(* Why the workers of a call end: the loop of loop_wrapper_with_idx takes  *)
(* a task off the queue each time round.                                   *)
(***************************************************************************)
Place(loc) ==
  CASE loc = "absent"              -> 0
    [] loc = "submitted"           -> 1
    [] loc = "getidx"              -> 2
    [] loc \in {"task", "request"} -> 3
    [] loc = "polling"             -> 4
    [] loc = "reading"             -> 5
    [] loc \in {"done", "failed"}  -> 6
    [] loc = "collected"           -> 7

\* Worker w is further than it was, or its call has one task less to give.
Advances(w) ==
  taken'[w[1]] > taken[w[1]] \/ Place(pc'[w]) > Place(pc[w])

WorkersOnlyAdvance ==
  [][ \A w \in Workers :
        /\ taken'[w[1]] >= taken[w[1]] /\ taken'[w[1]] <= MaxTasks
        /\ pc'[w] # pc[w] => Advances(w) \/ (InTask(w) /\ InTask(w)') ]_vars

\* One worker that goes forward, while no task comes back.
LEMMA OneAdvances ==
  ASSUME TypeInv, TypeInv', NEW w \in Workers, NEW x \in PC, pc' = [pc EXCEPT ![w] = x],
         Place(x) > Place(pc[w]) \/ {x, pc[w]} \subseteq {"task", "request"},
         UNCHANGED taken
  PROVE  \A v \in Workers :
           /\ taken'[v[1]] >= taken[v[1]] /\ taken'[v[1]] <= MaxTasks
           /\ pc'[v] # pc[v] => Advances(v) \/ (InTask(v) /\ InTask(v)')
<1>1. \A v \in Workers : /\ v[1] \in Calls /\ taken[v[1]] \in 0..MaxTasks
                         /\ v # w => pc'[v] = pc[v]
  BY DEF TypeInv, Workers
<1>2. pc'[w] = x
  BY DEF TypeInv
<1> QED
  BY <1>1, <1>2, WorkerPoolAssumption DEF Advances, InTask

\* A worker does boundedly many steps outside its docker requests: each step of
\* one brings it nearer to its end, or takes one of the tasks of its call, and
\* tasks never come back.  With NobodyIsStuck this is what the end of a call
\* rests on; the rest is that the processes are scheduled and the tasks end.
THEOREM WorkersGoForward == Spec => WorkersOnlyAdvance
<1> DEFINE Forward ==
             \A w \in Workers :
               /\ taken'[w[1]] >= taken[w[1]] /\ taken'[w[1]] <= MaxTasks
               /\ pc'[w] # pc[w] => Advances(w) \/ (InTask(w) /\ InTask(w)')
<1>1. PoolInvs /\ PoolInvs' /\ [Next]_vars => Forward
  <2> SUFFICES ASSUME PoolInvs, PoolInvs', [Next]_vars
               PROVE  Forward
    OBVIOUS
  <2>1. TypeInv /\ TypeInv'
    BY DEF PoolInvs
  <2>2. \A w \in Workers : w[1] \in Calls /\ taken[w[1]] \in 0..MaxTasks
    BY <2>1 DEF TypeInv, Workers
  <2>3. CASE \E n \in 1..MaxTasks, p \in 1..(CpuNo + 1) : Call(n, p)
    <3>1. PICK n \in 1..MaxTasks, p \in 1..(CpuNo + 1) : Call(n, p)
      BY <2>3
    <3>2. /\ UNCHANGED taken
          /\ pc' = [w \in Workers |->
                      IF w[1] = call + 1 /\ w[2] <= ChoosePara(n, p) THEN "submitted" ELSE pc[w]]
      BY <3>1 DEF Call, queueVars
    <3>3. call \in Nat
      BY <2>1 DEF TypeInv
    <3>4. \A w \in Workers : w[1] = call + 1 => pc[w] = "absent"
      BY <3>3 DEF PoolInvs, PoolInv, WorkersInStep
    <3>5. Place("submitted") > Place("absent")
      BY DEF Place
    <3> QED
      BY <2>2, <3>2, <3>4, <3>5 DEF Advances
  <2>4. CASE UNCHANGED <<pc, taken>>
    BY <2>2, <2>4
  <2>5. ASSUME NEW w \in Workers, Take(w)
        PROVE  Forward
    <3>1. serves[w] = w[1] /\ w[1] \in Calls
      BY <2>2, <2>5 DEF Take, PoolInvs, PoolInv, WorkersInStep, Inside
    <3>2. /\ taken' = [taken EXCEPT ![w[1]] = @ + 1]
          /\ pc' = [pc EXCEPT ![w] = "task"]
      BY <2>5, <3>1 DEF Take
    <3>3. \A v \in Workers : v # w => pc'[v] = pc[v]
      BY <2>1, <3>2 DEF TypeInv
    <3>4. /\ taken'[w[1]] = taken[w[1]] + 1
          /\ \A k \in Calls : k # w[1] => taken'[k] = taken[k]
          /\ \A k \in Calls : taken[k] \in 0..MaxTasks /\ taken'[k] \in 0..MaxTasks
      BY <2>1, <3>1, <3>2 DEF TypeInv
    <3> QED
      BY <2>2, <3>3, <3>4, WorkerPoolAssumption DEF Advances
  <2>6. ASSUME NEW w \in Workers, Collect(w) \/ Raise(w) \/ LookUp(w) \/ GetIdx(w) \/ TryLock(w)
               \/ Contended(w) \/ FindEmpty(w) \/ Acquire(w) \/ Release(w)
               \/ FinishTask(w) \/ FailTask(w)
        PROVE  Forward
    <3>1. UNCHANGED taken
      BY <2>6 DEF Collect, Raise, LookUp, GetIdx, TryLock, Contended, FindEmpty, Acquire,
         Release, FinishTask, FailTask, queueVars
    <3>2. PICK x \in PC : /\ pc' = [pc EXCEPT ![w] = x]
                          /\ \/ Place(x) > Place(pc[w])
                             \/ {x, pc[w]} \subseteq {"task", "request"}
      <4>1. CASE LookUp(w)
        BY <4>1 DEF LookUp, PC, Place
      <4>2. CASE Collect(w) \/ Raise(w)
        BY <4>2 DEF Collect, Raise, PC, Place
      <4>3. CASE GetIdx(w) \/ TryLock(w) \/ Contended(w) \/ FindEmpty(w)
        BY <4>3 DEF GetIdx, TryLock, Contended, FindEmpty, PC, Place
      <4>4. CASE FinishTask(w) \/ FailTask(w)
        BY <4>4 DEF FinishTask, FailTask, InTask, PC, Place
      <4>5. CASE Acquire(w) \/ Release(w)
        BY <4>5 DEF Acquire, Release, PC
      <4> QED
        BY <2>6, <4>1, <4>2, <4>3, <4>4, <4>5
    <3> QED
      BY <2>1, <3>1, <3>2, OneAdvances
  <2>7. ASSUME NEW k \in Calls, CallerStep(k) \/ LoseManager(k) \/ Feed(k)
        PROVE  Forward
    <3>1. \A i \in 1..CpuNo : <<k, i>> \in Workers
      BY DEF Workers
    <3>2. CASE Return(k) \/ LoseManager(k) \/ Feed(k)
      BY <2>4, <3>2 DEF Return, LoseManager, Feed, queueVars, workerVars
    <3> QED
      BY <2>6, <2>7, <3>1, <3>2 DEF CallerStep
  <2>8. CASE UNCHANGED vars
    BY <2>4, <2>8 DEF vars, queueVars, workerVars
  <2> QED
    BY <2>3, <2>5, <2>6, <2>7, <2>8 DEF Next, WorkerStep, Finished
<1>2. Spec => []PoolInvs
  BY ResultInvariance, PTL DEF PoolInvs
<1>3. PoolInvs /\ PoolInvs' /\ [Next]_vars => [Forward]_vars
  BY <1>1
<1> QED
  BY <1>2, <1>3, PTL DEF Spec, WorkersOnlyAdvance
=============================================================================
