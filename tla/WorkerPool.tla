----------------------------- MODULE WorkerPool -----------------------------
(***************************************************************************)
(* utils.do_in_parallel_with_idx and loop_wrapper_with_idx: a call hands a *)
(* list of tasks to para invocations of one wrapper, which drain a shared  *)
(* argument queue.  Several calls follow each other in one process, as in  *)
(* the server mode of validateQueries.py, and share what the code keeps    *)
(* between calls: the global lists of queues (idxQs, argQs), and the       *)
(* pathos pools, which are cached by their number of processes.            *)
(*                                                                         *)
(* The tasks of a call are 1..ntask in the order of all_args.  A task goes *)
(* from the buffer of the queue's feeder thread to the pipe, and from      *)
(* there to one worker:                                                    *)
(*                                                                         *)
(*     1 .. taken   |   taken+1 .. flushed   |   flushed+1 .. ntask        *)
(*     (workers)    |   (pipe)               |   (feeder's buffer)         *)
(***************************************************************************)
EXTENDS Integers, SequencesExt

CONSTANTS
  MaxCalls,   \* bound: calls of do_in_parallel_with_idx one process makes
  MaxTasks,   \* bound: length of all_args
  CpuNo,      \* cpunum()
  PipeCap,    \* tasks that fit in the pipe of a multiprocessing.Queue
  Sema        \* bound of the BoundedSemaphore the tasks get as their lock

ASSUME WorkerPoolAssumption ==
  /\ MaxCalls \in Nat \ {0}
  /\ MaxTasks \in Nat \ {0}
  /\ CpuNo \in Nat \ {0}
  /\ PipeCap \in Nat \ {0}
  /\ Sema \in Nat \ {0}

Calls   == 1..MaxCalls
Workers == Calls \X (1..CpuNo)      \* <<call, number of the invocation>>
NoWorker == <<0, 0>>
NoPool   == << >>

(***************************************************************************)
(* Control points of one invocation of loop_wrapper_with_idx.              *)
(***************************************************************************)
PC == { "absent",     \* the call has fewer invocations
        "submitted",  \* in the pool's task queue
        "getidx",     \* blocked in idxQ.get()
        "polling",    \* about to call argQ.get_nowait()
        "reading",    \* in get_nowait, holding the queue's reader lock
        "task",       \* in do_func, outside a docker request
        "request",    \* in do_func, inside "with lock"
        "done",       \* returned several_rslts
        "failed",     \* returned an ExceptionWrapper, or raised
        "collected" } \* its chunk was consumed by the caller

VARIABLES
  call,      \* number of calls made so far
  ntask,     \* [Calls -> Nat] number of tasks of the call
  para,      \* [Calls -> Nat] its number of invocations and pool processes
  idxQs,     \* the global lists idxQs and argQs: the calls with queues there
  iQid,      \* [Calls -> Nat] position of the call's queues in that list
  view,      \* [1..CpuNo -> Seq(Calls)] idxQs as forked by the cached pool
  flushed,   \* [Calls -> Nat] tasks the feeder thread wrote to the pipe
  taken,     \* [Calls -> Nat] tasks read from the pipe
  idxTaken,  \* [Calls -> Nat] indices read from the call's idxQ
  reader,    \* [Calls -> Workers \cup {NoWorker}] holder of argQ's reader lock
  manager,   \* [Calls -> BOOLEAN] the semaphore's manager process is alive
  pc,        \* [Workers -> PC]
  serves,    \* [Workers -> 0..MaxCalls] call whose queues the worker uses
  idx,       \* [Workers -> Int] index got from idxQ, -1 before
  task,      \* [Workers -> Nat] task being executed, 0 if none
  results,   \* [Workers -> SUBSET Nat] several_rslts, as the tasks done
  rsltList,  \* [Calls -> SUBSET Nat] rslt_list, as the tasks done
  outcome,   \* [Calls -> {"none","running","returned","raised"}]
  early      \* history: a worker met Empty while the feeder was not done

callVars   == <<call, ntask, para, iQid>>
globalVars == <<idxQs, view>>
queueVars  == <<flushed, taken, idxTaken, reader, early>>
workerVars == <<pc, serves, idx, task, results>>
callerVars == <<rsltList, outcome, manager>>
vars == <<callVars, globalVars, queueVars, workerVars, callerVars>>

TypeInv ==
  /\ call \in 0..MaxCalls
  /\ ntask \in [Calls -> 0..MaxTasks]
  /\ para \in [Calls -> 0..CpuNo]
  /\ idxQs \in Seq(Calls)
  /\ iQid \in [Calls -> Nat]
  /\ view \in [1..CpuNo -> Seq(Calls)]
  /\ flushed \in [Calls -> 0..MaxTasks]
  /\ taken \in [Calls -> 0..MaxTasks]
  /\ idxTaken \in [Calls -> Nat]
  /\ reader \in [Calls -> Workers \cup {NoWorker}]
  /\ manager \in [Calls -> BOOLEAN]
  /\ pc \in [Workers -> PC]
  /\ serves \in [Workers -> 0..MaxCalls]
  /\ idx \in [Workers -> Int]
  /\ task \in [Workers -> 0..MaxTasks]
  /\ results \in [Workers -> SUBSET (1..MaxTasks)]
  /\ rsltList \in [Calls -> SUBSET (1..MaxTasks)]
  /\ outcome \in [Calls -> {"none", "running", "returned", "raised"}]
  /\ early \in [Calls -> BOOLEAN]

Init ==
  /\ call = 0
  /\ ntask = [k \in Calls |-> 0]
  /\ para = [k \in Calls |-> 0]
  /\ idxQs = << >>
  /\ iQid = [k \in Calls |-> 0]
  /\ view = [p \in 1..CpuNo |-> NoPool]
  /\ flushed = [k \in Calls |-> 0]
  /\ taken = [k \in Calls |-> 0]
  /\ idxTaken = [k \in Calls |-> 0]
  /\ reader = [k \in Calls |-> NoWorker]
  /\ manager = [k \in Calls |-> FALSE]
  /\ pc = [w \in Workers |-> "absent"]
  /\ serves = [w \in Workers |-> 0]
  /\ idx = [w \in Workers |-> -1]
  /\ task = [w \in Workers |-> 0]
  /\ results = [w \in Workers |-> {}]
  /\ rsltList = [k \in Calls |-> {}]
  /\ outcome = [k \in Calls |-> "none"]
  /\ early = [k \in Calls |-> FALSE]

-----------------------------------------------------------------------------
(***************************************************************************)
(* The caller.                                                             *)
(***************************************************************************)

\* The caller's thread is outside do_in_parallel_with_idx.
Idle == \A k \in Calls : outcome[k] # "running"

\* The parallelism of a call with n tasks for which p processes are asked.
ChoosePara(n, p) ==
  LET byTasks == IF n < p THEN n ELSE p
  IN  IF byTasks > CpuNo THEN CpuNo ELSE byTasks

\* A call up to pool.uimap: both queues are filled (into their feeders'
\* buffers) and appended to the global lists, the pool is forked now, or is
\* the cached one, which was forked with the lists of an earlier call.
Call(n, p) ==
  LET c == call + 1
      q == ChoosePara(n, p)
  IN  /\ Idle
      /\ call < MaxCalls
      /\ call' = c
      /\ ntask' = [ntask EXCEPT ![c] = n]
      /\ para' = [para EXCEPT ![c] = q]
      /\ idxQs' = Append(idxQs, c)
      /\ iQid' = [iQid EXCEPT ![c] = Len(idxQs) + 1]
      /\ view' = IF view[q] = NoPool THEN [view EXCEPT ![q] = idxQs'] ELSE view
      /\ manager' = [manager EXCEPT ![c] = TRUE]
      /\ pc' = [w \in Workers |->
                 IF w[1] = c /\ w[2] <= q THEN "submitted" ELSE pc[w]]
      /\ outcome' = [outcome EXCEPT ![c] = "running"]
      /\ UNCHANGED <<queueVars, serves, idx, task, results, rsltList>>

\* Mutant of Collect: the chunk is not examined for an ExceptionWrapper.
CollectAnything(w) ==
  /\ outcome[w[1]] = "running"
  /\ pc[w] \in {"done", "failed"}
  /\ pc' = [pc EXCEPT ![w] = "collected"]
  /\ rsltList' = [rsltList EXCEPT ![w[1]] = @ \cup results[w]]
  /\ UNCHANGED <<callVars, globalVars, queueVars, serves, idx, task, results,
                 outcome, manager>>

\* The caller extends rslt_list by the chunk of an invocation that ended.
Collect(w) ==
  LET k == w[1]
  IN  /\ outcome[k] = "running"
      /\ pc[w] = "done"
      /\ pc' = [pc EXCEPT ![w] = "collected"]
      /\ rsltList' = [rsltList EXCEPT ![k] = @ \cup results[w]]
      /\ UNCHANGED <<callVars, globalVars, queueVars, serves, idx, task, results,
                     outcome, manager>>

\* Mutant of Raise: the queues of the call leave the lists (a "finally" around
\* the loop), and the pool stays cached.
RaiseAndForgetQueues(w) ==
  /\ outcome[w[1]] = "running"
  /\ pc[w] = "failed"
  /\ pc' = [pc EXCEPT ![w] = "collected"]
  /\ outcome' = [outcome EXCEPT ![w[1]] = "raised"]
  /\ idxQs' = RemoveFirst(idxQs, w[1])
  /\ UNCHANGED <<callVars, view, queueVars, serves, idx, task, results, rsltList,
                 manager>>

\* The chunk is an exception: it is raised in the caller at once.  The pool
\* is not closed, the queues stay in the lists, the other invocations go on.
Raise(w) ==
  LET k == w[1]
  IN  /\ outcome[k] = "running"
      /\ pc[w] = "failed"
      /\ pc' = [pc EXCEPT ![w] = "collected"]
      /\ outcome' = [outcome EXCEPT ![k] = "raised"]
      /\ UNCHANGED <<callVars, globalVars, queueVars, serves, idx, task, results,
                     rsltList, manager>>

\* Mutant of Return: the caller goes on after the first chunk.
ReturnAtFirstChunk(k) ==
  /\ outcome[k] = "running"
  /\ \E i \in 1..para[k] : pc[<<k, i>>] = "collected"
  /\ outcome' = [outcome EXCEPT ![k] = "returned"]
  /\ view' = [view EXCEPT ![para[k]] = NoPool]
  /\ idxQs' = RemoveFirst(idxQs, k)
  /\ manager' = [manager EXCEPT ![k] = FALSE]
  /\ UNCHANGED <<callVars, queueVars, workerVars, rsltList>>

\* All chunks are in: rslt_handle(rslt_list), the pool is closed, joined and
\* cleared, the queues leave the lists, the manager goes with the frame.
Return(k) ==
  /\ outcome[k] = "running"
  /\ \A i \in 1..para[k] : pc[<<k, i>>] = "collected"
  /\ outcome' = [outcome EXCEPT ![k] = "returned"]
  /\ view' = [view EXCEPT ![para[k]] = NoPool]
  /\ idxQs' = RemoveFirst(idxQs, k)
  /\ manager' = [manager EXCEPT ![k] = FALSE]
  /\ UNCHANGED <<callVars, queueVars, workerVars, rsltList>>

\* After a raise the frame of the call is garbage (in a reference cycle);
\* once it is collected, the finaliser of its Manager stops the server
\* process of the semaphore.
LoseManager(k) ==
  /\ outcome[k] = "raised"
  /\ manager[k]
  /\ manager' = [manager EXCEPT ![k] = FALSE]
  /\ UNCHANGED <<callVars, globalVars, queueVars, workerVars, rsltList, outcome>>

\* The feeder thread of argQ, in the caller's process.
Feed(k) ==
  /\ flushed[k] < ntask[k]
  /\ flushed[k] - taken[k] < PipeCap
  /\ flushed' = [flushed EXCEPT ![k] = @ + 1]
  /\ UNCHANGED <<callVars, globalVars, taken, idxTaken, reader, early,
                 workerVars, callerVars>>

-----------------------------------------------------------------------------
(***************************************************************************)
(* loop_wrapper_with_idx in a pool process.                                *)
(***************************************************************************)
InTask(w)  == pc[w] \in {"task", "request"}
Active(w)  == pc[w] \in {"getidx", "polling", "reading", "task", "request"}

\* The invocations that occupy a process of the pool with p processes.
Occupying(p) == { w \in Workers : para[w[1]] = p /\ Active(w) }

\* The invocations inside "with lock" with the semaphore of call k.
Requesting(k) == { w \in Workers : w[1] = k /\ pc[w] = "request" }

\* idxQs[iQid], argQs[aQid] in the forked lists: an IndexError when the
\* process is older than the queues.
LookUp(w) ==
  LET k == w[1]
  IN  /\ pc[w] = "submitted"
      /\ Cardinality(Occupying(para[k])) < para[k]
      /\ IF iQid[k] > Len(view[para[k]])
         THEN pc' = [pc EXCEPT ![w] = "failed"] /\ UNCHANGED serves
         ELSE /\ pc' = [pc EXCEPT ![w] = "getidx"]
              /\ serves' = [serves EXCEPT ![w] = view[para[k]][iQid[k]]]
      /\ UNCHANGED <<callVars, globalVars, queueVars, idx, task, results, callerVars>>

\* idx = idxQ.get(): blocks while the queue is empty.
GetIdx(w) ==
  LET q == serves[w]
  IN  /\ pc[w] = "getidx"
      /\ idxTaken[q] < para[q]
      /\ idx' = [idx EXCEPT ![w] = idxTaken[q]]
      /\ idxTaken' = [idxTaken EXCEPT ![q] = @ + 1]
      /\ pc' = [pc EXCEPT ![w] = "polling"]
      /\ UNCHANGED <<callVars, globalVars, flushed, taken, reader, early, serves,
                     task, results, callerVars>>

\* argQ.get_nowait() tries the reader lock without waiting.
TryLock(w) ==
  /\ pc[w] = "polling"
  /\ reader[serves[w]] = NoWorker
  /\ reader' = [reader EXCEPT ![serves[w]] = w]
  /\ pc' = [pc EXCEPT ![w] = "reading"]
  /\ UNCHANGED <<callVars, globalVars, flushed, taken, idxTaken, early, serves,
                 idx, task, results, callerVars>>

\* Another worker is reading: get_nowait raises Empty, and the loop ends.
Contended(w) ==
  /\ pc[w] = "polling"
  /\ reader[serves[w]] # NoWorker
  /\ pc' = [pc EXCEPT ![w] = "done"]
  /\ UNCHANGED <<callVars, globalVars, queueVars, serves, idx, task, results,
                 callerVars>>

\* Nothing in the pipe: Empty, whatever is still in the feeder's buffer.
FindEmpty(w) ==
  LET q == serves[w]
  IN  /\ pc[w] = "reading"
      /\ flushed[q] = taken[q]
      /\ reader' = [reader EXCEPT ![q] = NoWorker]
      /\ pc' = [pc EXCEPT ![w] = "done"]
      /\ early' = [early EXCEPT ![q] = @ \/ flushed[q] < ntask[q]]
      /\ UNCHANGED <<callVars, globalVars, flushed, taken, idxTaken, serves, idx,
                     task, results, callerVars>>

\* Mutant of Take: the pipe is polled before the reader lock is taken.
TakeUnchecked(w) ==
  LET q == serves[w]
  IN  /\ pc[w] = "reading"
      /\ task' = [task EXCEPT ![w] = taken[q] + 1]
      /\ taken' = [taken EXCEPT ![q] = @ + 1]
      /\ reader' = [reader EXCEPT ![q] = NoWorker]
      /\ pc' = [pc EXCEPT ![w] = "task"]
      /\ UNCHANGED <<callVars, globalVars, flushed, idxTaken, early, serves, idx,
                     results, callerVars>>

\* The next (do_func, args) is received, do_func is entered.
Take(w) ==
  LET q == serves[w]
  IN  /\ pc[w] = "reading"
      /\ flushed[q] > taken[q]
      /\ task' = [task EXCEPT ![w] = taken[q] + 1]
      /\ taken' = [taken EXCEPT ![q] = @ + 1]
      /\ reader' = [reader EXCEPT ![q] = NoWorker]
      /\ pc' = [pc EXCEPT ![w] = "task"]
      /\ UNCHANGED <<callVars, globalVars, flushed, idxTaken, early, serves, idx,
                     results, callerVars>>

\* do_func enters "with lock".
Acquire(w) ==
  /\ pc[w] = "task"
  /\ manager[w[1]]
  /\ Cardinality(Requesting(w[1])) < Sema
  /\ pc' = [pc EXCEPT ![w] = "request"]
  /\ UNCHANGED <<callVars, globalVars, queueVars, serves, idx, task, results,
                 callerVars>>

\* do_func leaves "with lock".
Release(w) ==
  /\ pc[w] = "request"
  /\ manager[w[1]]
  /\ pc' = [pc EXCEPT ![w] = "task"]
  /\ UNCHANGED <<callVars, globalVars, queueVars, serves, idx, task, results,
                 callerVars>>

\* do_func returns: its result is appended to several_rslts.
FinishTask(w) ==
  /\ pc[w] = "task"
  /\ results' = [results EXCEPT ![w] = @ \cup {task[w]}]
  /\ task' = [task EXCEPT ![w] = 0]
  /\ pc' = [pc EXCEPT ![w] = "polling"]
  /\ UNCHANGED <<callVars, globalVars, queueVars, serves, idx, callerVars>>

\* Mutant of FailTask: the exception ends the loop like Empty does.
FailTaskSilently(w) ==
  /\ InTask(w)
  /\ pc' = [pc EXCEPT ![w] = "done"]
  /\ task' = [task EXCEPT ![w] = 0]
  /\ UNCHANGED <<callVars, globalVars, queueVars, serves, idx, results, callerVars>>

\* do_func raises (the lock is released by "with"): the wrapper returns the
\* exception alone, the results it had are dropped.
FailTask(w) ==
  /\ InTask(w)
  /\ pc' = [pc EXCEPT ![w] = "failed"]
  /\ task' = [task EXCEPT ![w] = 0]
  /\ results' = [results EXCEPT ![w] = {}]
  /\ UNCHANGED <<callVars, globalVars, queueVars, serves, idx, callerVars>>

\* Leaving (or entering) "with lock" when the semaphore's server is gone
\* raises too.
LockLost(w) == ~manager[w[1]] /\ pc[w] = "request" /\ FailTask(w)

-----------------------------------------------------------------------------
\* The caller has made its calls, and nothing runs in the background.
Finished ==
  /\ call = MaxCalls
  /\ Idle
  /\ \A w \in Workers : pc[w] \in {"absent", "done", "failed", "collected"}
  /\ \A k \in Calls : outcome[k] # "raised" \/ ~manager[k]
  /\ UNCHANGED vars

WorkerStep(w) ==
  \/ LookUp(w) \/ GetIdx(w)
  \/ TryLock(w) \/ Contended(w) \/ FindEmpty(w) \/ Take(w)
  \/ Release(w)

CallerStep(k) ==
  \/ Return(k)
  \/ \E i \in 1..CpuNo : Collect(<<k, i>>) \/ Raise(<<k, i>>)

Next ==
  \/ \E n \in 1..MaxTasks, p \in 1..(CpuNo + 1) : Call(n, p)
  \/ \E k \in Calls : CallerStep(k) \/ LoseManager(k) \/ Feed(k)
  \/ \E w \in Workers :
       WorkerStep(w) \/ Acquire(w) \/ FinishTask(w) \/ FailTask(w)
  \/ Finished

(***************************************************************************)
(* The operating system schedules the caller, its feeder thread and every  *)
(* pool process; a task ends after finitely many docker requests.          *)
(***************************************************************************)
Fairness ==
  /\ \A k \in Calls : WF_vars(CallerStep(k)) /\ WF_vars(Feed(k))
  /\ \A w \in Workers : /\ WF_vars(WorkerStep(w))
                        /\ WF_vars(LockLost(w))
                        /\ SF_vars(FinishTask(w))

Spec     == Init /\ [][Next]_vars
FairSpec == Spec /\ Fairness

-----------------------------------------------------------------------------
(***************************************************************************)
(* Properties.                                                             *)
(***************************************************************************)

\* A call that returns hands rslt_handle no less than its workers took from the
\* queue: results dropped by an exception always surface as a raise.  And that
\* is every task, unless some worker met Empty before the feeder thread was
\* done: workers that leave because the reader lock was contended never leave
\* the last tasks behind.
ReturnsWhatWasTaken ==
  \A k \in Calls :
    outcome[k] = "returned" => /\ rsltList[k] = 1..taken[k]
                               /\ ~early[k] => taken[k] = ntask[k]

\* Two tasks in the same workdir (para-<taskid><idx>) at the same time: at
\* least one of them was left behind by a call that raised.
WorkdirExclusive ==
  \A v, w \in Workers :
    v # w /\ InTask(v) /\ InTask(w) /\ idx[v] = idx[w]
      => "raised" \in {outcome[v[1]], outcome[w[1]]}

\* A process of a cached pool never drains the queue of another call.
ServesItsOwnCall ==
  \A w \in Workers : serves[w] \in {0, w[1]}

\* The calls implement TaskPool: they follow one another; a call that returns
\* hands over exactly what its workers took; a raise poisons the cached pool, so
\* that no later call with the same number of processes returns.
Pool == INSTANCE TaskPool WITH
          stage  <- outcome,
          tasks  <- ntask,
          size   <- para,
          handed <- [k \in Calls |-> IF outcome[k] = "returned" THEN rsltList[k] ELSE {}]

ImplementsTaskPool == Pool!Spec

\* Worker w is at a step that waits for nobody else.
GoesOn(w) ==
  \/ pc[w] = "submitted" /\ Cardinality(Occupying(para[w[1]])) < para[w[1]]
  \/ pc[w] = "getidx" /\ idxTaken[serves[w]] < para[serves[w]]
  \/ pc[w] \in {"polling", "reading"}
  \/ InTask(w)

\* idxQ.get() blocks, and so does a pool that is full; but there is an index for
\* every worker that asks for one, also for those that a raise left behind, and
\* as long as the caller waits for a chunk some process of its pool, perhaps one
\* that is busy with an older call, can go on by itself.
NeverStuck ==
  /\ \A w \in Workers : pc[w] = "getidx" => GoesOn(w)
  /\ \A k \in Calls :
       outcome[k] = "running" =>
         \/ \A i \in 1..para[k] : pc[<<k, i>>] = "collected"
         \/ \E i \in 1..para[k] : pc[<<k, i>>] \in {"done", "failed"}
         \/ \E w \in Workers : para[w[1]] = para[k] /\ GoesOn(w)

\* Every call returns or raises: no worker waits for ever for an index, for
\* the reader lock or for a place in a pool that still runs older tasks.
CallEnds ==
  \A k \in Calls : outcome[k] = "running" ~> outcome[k] \in {"returned", "raised"}

\* validateQueries.py: "the fuzz driver whose index matches the pattern will
\* be evaluated".
EveryTaskEvaluated ==
  \A k \in Calls : outcome[k] = "returned" => rsltList[k] = 1..ntask[k]
=============================================================================
