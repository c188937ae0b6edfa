# FuzzDriverGPT: a TLA+ model, its checks and its proofs

FuzzDriverGPT searches for fuzz drivers: it asks a language model for a driver
of one API, builds and runs the answer in docker containers, and improves the
prompt by the verdict. The code is short Python, but it is spread over several
programs that talk through files, queues, HTTP and a docker daemon, and it is
there that it is hard to test. This directory holds TLA+ modules of these
parts, TLC configurations that check them on small instances, and TLAPS proofs
for all instances. `PROJECT.json` lists components, runs, mutants, the source
lines of every definition, hazards, findings and theorems.

    tlc -workers 2 -config MCWorkerPool.cfg MCWorkerPool.tla
    tlapm WorkerPoolProofs.tla

## 1. Inventory of the system

| Component | Code | State | Operations | Talks to |
|---|---|---|---|---|
| Search | `main.py`, `generation/libIterative.py` | rounds, iterations; the record's queries, current, leaf and acceptable ids; `_roundN.json` | start a round, generate, query, validate, judge, save, collect | prompt generation, model query, validation (a child process), API usages |
| Verdicts, prompt improvement | `validation/libVR.py`, `generation/libImprovePrompt.py`, `generation/libPrompt.py` | none | classify a log; make prompts from a verdict | search, driver checks |
| Model query | `generation/libQuery.py`, `libGPTResultPostProcess.py` | the query's prompt, status and solutions; current ids | choose a prompt, shrink it, ask with retries, cut the code out of the answer | OpenAI's API, search |
| Batch validation | `validateQueries.py` (`run_cmdline_validation`) | the list `rslts` | split into tasks, merge the results, write the output | worker pool |
| Worker pool | `utils.py` | global lists of queues, pools cached by size, queues and their feeder threads, a semaphore | call, poll, take, do, collect, return, raise | its tasks: container validation |
| Container validation | `validateQueries.py` (`ContainerValidator`), `validation/libValidator.py` | the container; driver, executable and status file in the workdir | reset, run, wait, kill, read, remove; in the container: truncate, compile, link, fuzz, semantic check | docker daemon, files |
| Validation server | `validateQueries.py` (`run_server_mode`), `libIterative.py` (`_do_validation_remotely`) | queue, statuses, handler threads | post, poll, main task loop | batch validation, clients |
| Driver checks | `validation/libValidator.py`, `libSemanticChecker.py`, `libVR.py` | `status`; the driver file and the executable; the shell, the fuzzer and its log | truncate, compile, link, fuzz and wait, read the log, test | container validation, the driver it runs |
| API usage cache | `apiusage/libAPIUsage.py`, `libContainerWrapper.py`, `libProjAnalyzer.py` (its main program), `libSourceGraph.py` | `apiusages.json`, `sgusage.json`; parameters and result file in the workdir; the container | load, crawl, analyse in a container, add documents | search, docker, sourcegraph |
| Image preparation | `prepareOSSFuzzImage.py` | docker images, the list of targets to build | check, remove, build, commit | docker daemon, API usage cache (its containers use the images) |
| Prompt generation | `generation/libPrompt.py`, `genQueries.py` | none | fill templates | search |
| Usage collection | `libProjAnalyzer.py` (the analysis), `libAPIDocManualCollector.py` | none but the files above | read headers, sources, search results | API usage cache |
| Settings, tools, targets | `cfgs.py`, `libTarget.py`, `jsonOps.py`, `ossfuzz-targets/`, `meta/`, `yml/`, `examples/` | files | read | all |

How they interact: `main.py` (one sequential process) holds an
`IterativeQueryRecord`. It writes the current query to a file and runs
`validateQueries.py` on it until that exits with 0, then reads its output. With
the server it would post the two paths and poll; but the call of
`_do_validation_remotely` is commented out (`libIterative.py:313`), so in `main.py` as it
stands that path is dormant, and the server serves only a client that has it restored. `validateQueries.py` cuts the
queries into tasks, and `do_in_parallel_with_idx` has a pool of processes do
them; each process works in the workdir `para-<taskid><its index>` and runs one
container after the other there; `libValidator.py` in the container answers
through the status file. The results go back up the same way, in lists that are
thinned out where results are missing.

What is hard in it, with the lines, is the list "hazards" of `PROJECT.json`. In
short: queues that look empty when they are not; a pool cache that survives an
exception; workers that survive their call; files shared by processes, programs and containers that may
be killed at any line; timeouts that race the end of a container; a status that
is set after the work it announces; retries without a limit; verdicts for which
the next step has no answer.

What makes each component correct:

- *Search*: it stops; it keeps its budget; it reports what it saved, and all of
  it; a driver that is good is never improved away; what a query is judged by is its own
  validation; a verdict stays.
- *Batch validation*: validations stay paired with their solutions; no result
  that came back gets lost.
- *Worker pool*: every task that was taken is in the result or the call raises;
  a call never drains another call's queue; two tasks never share a workdir;
  every call ends.
- *Container validation*: the verdict recorded for a driver is about this driver;
  an unsettled one means that the host cut the run; containers do not pile up; a
  hanging container does not hold the task.
- *Driver checks*: a driver is called valid only after every check, by a run that
  was clean or found a known bug; what a log is taken to say holds of the run, also when
  the fuzzer is still writing it; what is run is what is stored; the verdicts the
  host sees come in the order of the checks, none after an error.
- *Validation server*: every posted task is handled, once; a client loads its own
  result; it is told 'unknown' only after a restart.
- *Model query*: the prompt that was generated is the one that is sent, whole; what
  is validated is code from the answer, and the right piece of it.
- *API usage cache*: nothing an earlier or another run left is taken for one's own;
  the usages that are loaded have the manual documents, once.
- *Image preparation*: no image gets lost between the pass that removes and the pass
  that builds; a run that ends normally leaves every target with an image.

## 2. Modules

| Module | Models | Extends or instantiates |
|---|---|---|
| `TaskPool` | what the calls of the pool promise the programs (abstract) | |
| `WorkerPool` | `utils.do_in_parallel_with_idx`, `loop_wrapper_with_idx`; implements `TaskPool` | `TaskPool` |
| `WorkerPoolProofs` | theorems about it, the refinement among them | `WorkerPool` |
| `Verdicts` | the verdict types; what can be made of each | |
| `DriverSearch` | what the search promises its user (abstract) | |
| `IterativeSearch` | `main_workflow`, `iterative_workflow`, `IterativeQueryRecord`; implements `DriverSearch` | `Verdicts`, `DriverSearch` |
| `IterativeSearchProofs` | theorems about it, the refinement among them | `IterativeSearch` |
| `ModelQuery` | `doRemoteQuery` inside: `libQuery.py`, `handleSingleResult` | |
| `ModelQueryProofs` | theorems about it | `ModelQuery` |
| `ValidationBatch` | `run_cmdline_validation`, the batches of the server | |
| `ValidationBatchProofs` | theorems about it | `ValidationBatch` |
| `TaskService` | what the server promises its clients (abstract) | |
| `ValidationServer` | `run_server_mode`, `_do_validation_remotely`; implements `TaskService` | `TaskService` |
| `ValidationServerProofs` | theorems about it, the refinement among them | `ValidationServer` |
| `ContainerValidation` | `validate_do_func`, `ContainerValidator`, `libValidator.py` | |
| `ContainerValidationProofs` | theorems about it | `ContainerValidation` |
| `CheckPipeline` | what the host is promised of a validation (abstract) | `Verdicts` |
| `DriverChecks` | `validate_impl` and its checks, the fuzzer they start; implements `CheckPipeline` | `Verdicts`, `CheckPipeline` |
| `DriverChecksProofs` | theorems about it | `DriverChecks` |
| `APIUsageCache` | `buildAPIUsages`, its containers, the files of several runs | |
| `PrepareImages` | the two passes of `prepareOSSFuzzImage.py` | |
| `Setup` | the two together, over the image of one target | `APIUsageCache`, `PrepareImages` |
| `SetupProofs` | theorems about `Setup` | `Setup` |
| `MC...` | instances for TLC: model values and sets of inputs; bounds are in the `.cfg` | the module |

The operators named `...` in a comment that begins with "Mutant of" are changed
versions of the definition that follows them, each with a bug such a piece of
code could have. No specification uses them; TLC finds the property that the
bug breaks when one takes the place of the original ("mutants" in
`PROJECT.json`), which shows that the property can fail.

### WorkerPool

A worker is the pair of its call and its number in the call. `pc[w]` follows
`loop_wrapper_with_idx` line by line. The tasks of a call are numbered, so
three numbers say where each of them is: the workers have those up to `taken`,
the pipe of the `multiprocessing.Queue` those up to `flushed`, and the rest is
in the buffer of the feeder thread (`Feed`), which runs in the caller's process
beside everything else. `get_nowait` is three steps, as in the library: it tries
the reader lock (`TryLock`, `Contended`), then looks into the pipe (`FindEmpty`,
`Take`); it raises the same `Empty` if the lock is held.

`view[p]` is the list of queues as the pool with p processes was forked with it.
A pathos pool is cached by its number of processes until `clear`, so `Call`
forks it only if it is not cached. `Raise` leaves pool, queues and running
workers as they are, as `re_raise` does. `LookUp` is the `idxQs[iQid]` of the
wrapper, with its IndexError. `Acquire` and `Release` stand for the `with lock`
blocks of the tasks; the semaphore lives in the `Manager` of the call, which a
garbage collection stops after a raise (`LoseManager`).

`TaskPool` is the promise to `main` and `validateQueries.py`, over all the calls of a
process: calls follow one another; one returns with exactly what its workers did, and
that is every task unless one of them once met Empty too early (`early`); or it raises
and spoils all later calls of its size. The mapping names what is there: the stage of
a call is its `outcome`, its tasks and size are `ntask` and `para`, and what was handed
over is `rsltList` of a call that returned. Queues, feeder, locks and the cached pools
are not in the abstract specification.

### IterativeSearch

One action per step of `iterative_workflow`; `pc` is the place in it. Each list
of "current" queries has at most one element, since every step picks one
candidate, so `cur` is an id or 0. A query keeps its kind, its improveHistory,
the status of the answer and its verdict; texts are left out. The id suffix
`len(self.queries)` is the position in `queries`. A crash of `main.py` is a
place of its own (`"crashed"`), reached where the code raises: an improvement
that raises, a result without verdict that is judged. `NoVerdict` stands for a
validation without `vali_result` and for a lost one (None); the code raises on
both. `DoRemoteQuery` is the whole of `doquery` with its retries.

`output` is the file at `localOutPath`, one for the whole round: which query it is of,
and the verdict in it. A validation exits with an error before, while or after it writes the
file, and is retried (`ValidationFails`), or exits with 0 and has written it
(`ValidationExits`); that of a `"fatal"` solution never gets so far. `Load` reads
whatever is there and puts it into the query that it names, as the code does: that this is
the current query, and the verdict its own, is `JudgedAsValidated`.

`DriverSearch` is the promise to the user: within the budget, the first valid driver
is kept in the file of its round, reported, and ends the search; the report says
nothing else; the search may break, but not while it has a valid driver. The mapping
counts the queries of the round (`asked`), takes the acceptable ids for what was found,
the drivers in the saved files for what was kept, and `pc` for the stage. A limit of 0
still leads to one round and one query, as the loops test it at their end; `AtLeastOne`
says so in the mapping.

### ValidationBatch

A solution is its index in the input, and a validation is the index of the
solution it is of, so that "paired" is equality of two sequences. The input is
any choice of solutions, projects, `-n`, `-a` and `-i` (`Init`); a batch is all
projects, or `projectpara` of them in the server. `PoolReturns` loses any of the
tasks: `WorkerPool` shows that this happens. `RsltHandle` merges the results
and thins the lists out as `rslt_handle` does. A set of indices stands for the
sorted list of them: `Position` is the place of an index in it (what the slices of
`-n` are cut by), `Nth` the index at a place (what the thinning keeps), so that no
list is built by recursion and the module can be proved about.

### ValidationServer

`Enqueue` and `SetInqueue` are the two halves of the handler thread of
`/validate`; between them anything may happen. `GetTask`, `BeginTask`, `Work`,
`WriteOutput`, `EndTask` are the main task loop; `Work` and `WriteOutput` may raise.
`output[c]` is the file of client c, as the number of the post it was written for, or
`Torn` from its opening (the end of `Work`) until it is written, and for good if the
server raises or goes down in between. `Restart` loses queue and
statuses and breaks requests in flight. A poll whose answer is neither 'unknown'
nor 'done' changes nothing, and is no step.

`TaskService` is the promise: a task goes from new to waiting to handled, or is lost
with all others that wait, and only a handled one gives its client a result. The
mapping (`Stage`) reads the stage of a task off the places it can be in: the
handler, the queue, the main loop, `finished`; a task that had been handled and were
in one of them again would have a stage the abstract specification does not know.

### ContainerValidation

One task: the host's steps through `validate_do_func` for each solution, the
containers it created so far, and the files they share. A driver is the number
of its solution, so a verdict says what it is *about* (`of`). The status file is
truncated and written in two steps, because the container may be killed in
between; so is the driver file when the container rewrites it (`OpenCode`, `Rewrite`). A
code of 0 stands for no driver file and for one that was opened and not written to its
end. The program writes the same file twice more (when the truncation passes, and in
`check_link` for one API); these writes are left out: a kill in the first leaves what a kill in
`Rewrite` leaves, and what the second changes is in `DriverChecks`. A request to the daemon may fail (`Fault`), `wait` may time out at any
moment (the model has no clock: 120 s are enough or not), the container may die
or hang at any line. `kill` raises for a container that has stopped. A task that
raises is run again (`Retry`), as `_do_validation_locally` runs the script again.
`CleanWorkdir` covers `rmtree(ignore_errors=True)`: usually it takes the
directory from the containers that are still there (they find nothing of theirs
any more); while one of them writes it may fail, and the directory stays shared
(`shared`).

### DriverChecks

`ContainerValidation` lets a check have any outcome it can have; `DriverChecks`
computes the outcome. A driver is what the checks look for in it: whether there
is a function, whether it is closed, how the line it ends on ends, and which of the
two searched words are in the prompt, in the function and behind it. A log is the
sequence of its lines of interest. `at` is the place in `validate_impl`, and
`status` what the status file says, with the phase as a number; texts of the same
file are "query" (prompt and whole answer), "cut" and "cpp" (rewritten by
`check_link`), and `outexe` is the text the executable was built from.

The processes are separate actors. The fuzzer (`PrintLine`, `Exit`) is a child of
`bash -x fuzz.sh`, so `Kill` ends the shell only: the fuzzer writes on while
`Analyze` reads, and after it, and `ret`, the result of `poll`, is None (-1) when
the killed shell was not reaped yet. `Oracle` is `analyze_fuzz_result`, `Effect` its
last branch. A line of the kind "hash" begins with # and has no blank: the search
for its round leaves None, `int(None)` raises a TypeError that nobody catches before the
end of the function, and the verdict is UNK-EXP whatever else is in the log
(`libVR.py:643-651`, `523-529`, `696`). A test case of a semantic tester is a step that need not happen.
That the program dies in a check (an exception, a signal) is in `ContainerValidation`.

`CheckPipeline` is the contract with the host: a phase and a verdict, each step
one check, which passes or ends with an error of its own kinds. `DriverChecks`
instantiates it with the two fields of `status`.

### ModelQuery

The step `DoRemoteQuery` of `IterativeSearch`, from inside, and the choice before it.
A prompt is a sequence of lines of three kinds, the ones `shrink_query_usage_if_can`
tells apart, each one token long; an answer is a sequence of fences, text, and text
with the driver's name. `GenerateNext` picks any of the generated prompts that fit
(`generateNextQueries`), `Shrink` leaves as much of the example as fits, `CheckLength`
is the test in `resilient_wrapper_query`. A request is answered, refused as too long
(`TooLong`), or fails and is sent again (`RequestFails`, `AskAgain`). `Fixed` is
`handleSingleResult`: everything but the fences for a first answer, the last block with
a driver for an improvement. It walks over the answer; `BlockEnd(a, k)` is the end of the
stretch that the walk is in at k, and `Text` the answer without its fences, a recursive
function.

### APIUsageCache, PrepareImages, Setup

`APIUsageCache` follows `buildAPIUsages` for several runs of the two programs on one
target, one action for each access to a shared file; a file is absent, torn
(truncated, or half written), or whole, and of the cached usages it counts how often
they have the manual documents. The container is an actor of its own (`Boot`, `Work`,
`OpenOutput`, `WriteOutput`, `BoxFails`): it reads the parameters when it starts, not
when the host wrote them, it goes on when the host is killed (`Crash`), and the host
waits for it without a limit. A run whose file is missing or torn ends in `"misread"`.
Two history variables follow every step: `met`, the runs that were at work at the same
time as another one, and `spoiled`, that a build was cut off after it had touched the
cache (or the search results), or that two runs clashed: both were building, or both
analysed in one workdir.

`PrepareImages` follows the two passes over the list of targets. An image is a number;
`untagged` are those that lost their name to a newer one but exist; `Remove` fails while
a container was made of the image (`users`, given by other programs). `Raise` is an error of
any request.

`Setup` composes the two over one target: the image that the analyses run in is the one
that may be removed, and a container an analysis left holds it.

## 3. What the runs check

| Run | Instance | Result |
|---|---|---|
| `worker_pool` | 2 calls, 2 tasks, 2 CPUs, pipe for 1 task, semaphore 1; 81k states | seven properties hold |
| `worker_pool_lag` | 1 call, 2 tasks | **violated**: a call returns without a task |
| `search` | 2 rounds of 3 iterations, strategy ABA, all verdicts; 82k states | seven properties hold |
| `search_none` | 1 round of 2 iterations | **violated**: None is iterated over |
| `search_fatal` | 1 iteration, fatal answers | **violated**: retries for ever |
| `model_query` | every prompt of 4 lines or less for a limit of 3, every answer of 5 pieces or less; 219k states | three properties hold |
| `batch` | 2 queries of up to 3 solutions, 2 projects, all options; 67k states | four properties hold |
| `validation_server` | 2 clients, 2 posts each, 1 restart, tasks may raise; 14k states | four properties hold |
| `server_race` | 2 clients, 1 post, nothing fails | **violated**: a client waits for ever |
| `driver_checks` | 5 answers, 2 prompts, logs of 3 lines, 2 test cases; 971k states | six properties hold |
| `container` | 2 solutions, 2 attempts, 1 daemon fault; 2.1M states | five properties hold, `TaskEnds` among them |
| `setup` | 2 runs of main.py, 1 crash, 1 preparation of two targets, one of them without configuration in one list; 943k states | four properties hold |

*Worker pool.* A call that returns handed over exactly what its workers took
and all tasks unless a worker met Empty before the
feeder was done (`ReturnsWhatWasTaken`): contention on the reader lock, which also
makes workers leave, is harmless, because the holder of the lock always polls
again, and results that an exception drops always surface as a raise. `EveryTaskEvaluated` shows that the exception is real. After a raise the
cached pool never serves a wrong queue (`ServesItsOwnCall`): the leaked queue
keeps later positions beyond its old list, so later calls of that size fail, all
of them, as `ImplementsTaskPool` says (`Unspoiled` in `TaskPool`). The two facts belong together: removing the queues in
a `finally`, and nothing else, breaks the first. `WorkdirExclusive`: two tasks
meet in one workdir only when one is left over from a call that raised. `NeverStuck`:
the two places at which a process waits without a timeout are safe, each worker that
fetches its index has one to come, and while the caller waits for the pool some
process of it can go on.

*Search.* `HistoryIsChain` carries most of the rest: a query's history is all
earlier queries of the round, all validated and found wanting. A query that is taken
for acceptable is never improved (`AcceptAreLeaves`). All validations of a round write one
file, and one that failed may have left anything there; still the verdict a query is judged by is
what its own validation came to (`JudgedAsValidated`), since nothing is loaded but after
exit status 0, and it stays (`VerdictsAreFinal`). `ImplementsSearch` holds the
rest of what a user relies on: the budget, that a valid driver ends the search, that
what is reported is in a file, and that all of it is. `Terminates` holds when no answer is
fatal to the validation, and is refuted otherwise.

*Batch.* Whatever is lost, solutions and validations of the output stay paired
in the input's order (`OutputIsPaired`). `OnlyLossesShow` is the other half: every
result that came back is there, every solution that matches is in exactly one task
and missing only if that task was lost, and a None remains only in a query without
any result. No batch of the server touches the queries of another one's projects
(`OtherBatchesUntouched`), although all are in the one list each batch changes.

*Server.* A task is never handled twice and never forgotten while the server runs
(`ImplementsTaskService`, `PostedIsHandled`), a client that was told 'done' loads the
output of its own task, even though all its outputs have one path, and 'unknown'
means a restart (`ToldTheTruth`). Whether a
client's wait ends is another matter: it does not when the handler's 'inqueue' comes
last, as `server_race` shows, and it does not when the task raises, as its status
then is 'err-...', which the client polls over (`validateQueries.py:474`,
`libIterative.py:286-290`; the same module with TasksMayFail = TRUE). The run
`server_race` has no failing tasks, so that second end has no run of its own, and
`PostedIsHandled` says of a failed task only that the server is done with it.

*Container.* A recorded verdict, and the code stored beside it, are of the right
driver, with timeouts, kills, faults and retries in between (`OwnVerdict`), as
long as no leftover container kept the workdir; a kill may leave the driver file half
written, and it is stored like that, but never with a final verdict. A verdict that is not final
comes only from a container the host cut (`UnsettledOnlyIfCut`). Each failed attempt
leaves at most one container behind, and one runs beside the current one only after a
daemon fault (`NothingPilesUp`). A container that hangs does not hold the task
(`TaskEnds`).

*Driver checks.* VAL is earned: the function is complete, the run that was judged
either ended by itself with status 0, without a leak or memory error and with more
coverage than at its start, or showed a known bug; and the checker of the API was
passed (`ValidIsEarned`), although the fuzzer outlives its shell and goes on
printing while its log is read. The executable was built from the text that is
stored (`RunsWhatIsStored`), cut at its function and rewritten before the build. What the
fuzz check says holds of the run (`JudgedByItsRun`): a run that ended by itself is judged
by all it printed, and a clean one never counts against the driver here; one that was given up is
never judged by its coverage, and passes only by a known bug it had shown when its log was read.
(That a known bug always comes first, as the code means it, is not true: see "hash" in
section 2.)
`ImplementsPipeline` is the refinement. `EndsOrTests` is as far as termination
goes: the test cases have no timeout, and the host's own timeout ends a container
that hangs in one (`TaskEnds`).

*Model query.* The three places that look at the length of a prompt agree: what is sent
is the prompt that was generated, whole (`GeneratedIsAsked`). In other words the
cut of the example never happens, as a prompt that would need it is not chosen. `Shrink`
itself is compared with what it is for (`ShrinkIsLeast`), over all prompts of five
lines in `MCModelQuery` and for all prompts in section 4: the longest prompt that fits
and lacks only lines of the example.
The solution of an improvement is the last stretch of code of the answer that has the
driver in it, and the mark FAILED TO FIX appears only if there is none
(`SolutionIsFromAnswer`, stated by positions and not by a walk over the answer).
That a query ends is not claimed: every error but an overlong prompt is answered by the same
request again, without a limit (`libQuery.py:59-66`).

*Setup.* A run that met no other one is never misled by what lies about: parameters,
results and usages of earlier runs, of failed analyses, of leftover containers
(`UndisturbedRunIsWell`); unless a build before it was cut off, or had another one
in its way: then it may find a torn cache, or one without the documents, or with the
documents twice. The exceptions are real: each of them is a state TLC reaches, and
they are the reason the property names them. An image is missing only between the two
passes of a forced preparation or after an error in one (`MissingOnlyIfCut`),
and a preparation that ends normally has left all its images (`DoneIsPrepared`).

### Bounds

Each bound is a CONSTANT, commented "bound" where it is declared.
Two calls are what a poisoned pool needs; two tasks and two workers are what a
lost task, contention and a reader that lags need; a pipe for one task makes the
feeder wait. Three iterations give a history of length two, the shortest one
that can be wrong in its order; two rounds let a result of the first be confused
with the second. Two queries let one change the other; three solutions with
slices of two have a short last slice. Two posts of a client share its output
path; two clients share the queue. Two solutions share a workdir, two attempts
are a retry, and one fault leaves a container running. A log of three lines can
have a known bug of two lines and one more, or start, end and something else; two
test cases let one be passed over and the other decide. A prompt of four lines has an
example, its end, and one line more than the limit; five pieces make two blocks and an open
one. Two runs share a workdir, one crash leaves a torn file to the other one; two targets
in one list put an error between the removal of the first image and its rebuilding. That two
runs are too few for one case came out of the proof (section 4). The proofs
have none of these bounds.

### Fairness

- `WorkerPool`: the caller, its feeder thread and each pool process are scheduled
  (weak fairness); a task that is begun ends (strong fairness of `FinishTask`, as
  a task may enter any number of docker requests before it ends). That is what
  `TaskEnds` of `ContainerValidation` says of it. Nothing is assumed of `Acquire`
  or of a failure, except that a worker at a dead semaphore gets its error.
- `IterativeSearch`: `main.py` is sequential and runs on; a validation that can
  succeed does not fail for ever (strong fairness of `ValidationExits`).
- `ValidationServer`: main loop, handlers and polling clients are scheduled.
- `ContainerValidation`: the host only. Containers run code a model wrote.
- `DriverChecks`: `validate_impl` runs on, and libclang and the build return. Nothing
  is assumed of the fuzzer, the shell and the test cases.
- `ModelQuery`: none. That a repeated request is answered some day would have to be
  assumed of the service, and with it everything that could be shown.
- `Setup`: none, as it states no liveness: the host waits for the analysis without a limit.

### Disagreements between the code and its words

The four runs that end in a violation are described under "findings". Others were
met on the way and have no run:

- *Search and server.* `-MR` is refused together with `-DV`
(`main.py:162`), though technical_overview.md says that all commands can be
repeated; `leafQueryIDs` still holds the last query while the round's summary is
printed if the model failed to answer the next one (`main.py:68`);
the semaphore of `-dj` does not bound the docker requests of the workers a call
left behind (`utils.py:132`), nor `wait`, `kill` and `logs`; a container whose
`reload` fails is killed at once, not "after passing a safe & long time period"
(`validateQueries.py:32-41`); with `-DV` the first query is saved and then judged
although it has no validation (KeyError after the dump).
- *Checks.* "Fuzz check has passed with FN detected" is meant for every log with a known
bug (`libVR.py:659-661`), but a line such as `#0x1f` makes it UNK-EXP before that; the code checkers skip
comments and declarations line by line and then search the whole file, so that
a `parse_msg(` in the prompt's comments is enough (`libSemanticChecker.py:446-452`);
in the same way the declaration of the API in the prompt satisfies the search for
the API (`libValidator.py:173`); "any one case works is ok"
(`libSemanticChecker.py:137`), but the first test case that shows its content
decides, by its exit status; the checkers of class AlwaysInvalid are not in
`checker_list`, and would be run by the wrong method (`libValidator.py:408`); the last
line of a driver is never cut behind its closing brace, as the branch that would do it
is covered by the one before (`libValidator.py:158-161`).
- *Model query.* "we give a second chance by shrinking the max token num of the response"
  (`libQuery.py:59`): a shorter `max_tokens` is computed, but no request has it
  (`libQuery.py:28-34`): the same request is sent again, and again. The cut of the
  example is idle, since `generateNextQueries` takes only prompts that fit. An
  improvement whose answer has no fences counts as FAILED TO FIX even if it is
  all code, and a fence with "cpp" leaves "pp" in the driver.
- *API usages.* A run that overlaps another one's build may load usages without the
  manual documents, or, when a third run overwrites the parameters of the workdir, with
  the documents twice (`libAPIUsage.py:82-97`). In the analysis, which is not modelled,
  `(filename, funcname) not in tmp_dict` resets a list at each entry
  (`libProjAnalyzer.py:189`), and an inner loop shadows `result_id` (`:308`).
- *Images.* "remove the image first if it exists and rebuild" reads as one step for each
  target; it is two passes over all of them. The container of a failed analysis is left,
  and its image cannot be removed by `-f` until somebody removes the container. "ALL
  means all" of the targets' help has no code: it is taken for a target's name.

## 4. What is proved

Theorems hold for every value of the constants that satisfies the module's
ASSUME, which says only what the code checks or needs.

`IterativeSearchProofs`:

- `TypeCorrect`, `HistoriesAreChains`, `AcceptedAreLeaves`. `HistoryIsChain` is
  not inductive: that the next history is right follows from the current query
  being the last one (`CurIsLast`) and from its state at each place of the
  program (`CurIsInStep`: pending before the answer, finished and not validated
  before the validation, and so on). `AcceptAreLeaves` needs the chain: an
  acceptable query that had been improved would be an earlier one, and those are
  not acceptable. `IndInv` is the conjunction.
- `BudgetIsKept` with `BudgetInv`: how many queries there are at each place,
  measured by `iterations`, and that the limit has not been reached where
  another iteration may still follow.
- `ReportIsSaved` and `NoneIgnored` with `SavedInv`: one dump for each round that
  was summarised, the earlier ones without a valid driver, the current one equal
  to the record. These two and the budget are what `ImplementsSearch` consists of when
  it is read as invariants; they are stated as theorems and have no run of their own.
- `Refinement` (`ImplementsSearch`), one lemma for each step of `main.py`: a round that starts
  is `Begin`, a generated query `Ask`, a validation that exits with VAL `Find`, `Save` is
  `Keep`, and `Collect` is `Stop` or a stutter; whatever raises is `Break`. It needs
  `SavedInv` (what `Collect` reads in the files is what the rounds had), and that only the
  last query can be acceptable, so that nothing was found when judging it raises
  (`OnlyLast`, `NoneGoodIfRaised`).
- `JudgedRight` (`JudgedAsValidated`): at `"load"` the file is of the current query, because
  the validation that exited with 0 wrote it and nothing else runs (`CurIsInStep`).
- `OnlyRetriesRepeat`: rounds and iterations stay within their limits, and every step but
  the retry of a failed validation advances them or the place in an iteration. It is
  the safe half of `Terminates`, for all limits.
- `VerdictsStay`: an action property; the only step that writes a verdict is `Load`, which by
  `IndInv` writes it to the current query, and that has none.

`WorkerPoolProofs`, on queues and pools:

- `TypeCorrect` (`TypeInv`). It needs that `serves` points to a call that was made.
- `OwnQueueOnly` (`ServesItsOwnCall`) and `RaisePoisonsPool` (no call of a size returns
  after a raise at that size) with
  one inductive invariant: the global list consists of the calls that raised, in
  order, and the running one at its end; every cached pool's list is a prefix of
  it, and every position handed out points to its call or beyond the prefix.
  The lemmas `RemoveFirstOfLast` and `ReturnRemovesLast` say that the call that
  returns is the last of the list, so its removal shifts no other position. That
  is why the positions, which the code takes from a list that shrinks, are right.

and on top of that on results, workdirs and waiting:

- `ReturnedAreTaken` (`ReturnsWhatWasTaken`) and `WorkdirsExclusive` (`WorkdirExclusive`)
  with `ResultInv`. Every task that left the queue is somewhere: in a worker's hands,
  in its results, in those the caller collected, or dropped with a failure that the
  caller will meet (`CallsHold`). As long as tasks are left, some worker of the call
  will yet poll, unless one met Empty too early (`NoneLeft`): the worker that holds
  the reader lock is one of them, which is why contention is harmless (`ReaderInStep`).
  The indices of a call are given out once each (`IndicesInStep`), so two tasks in
  one workdir are of two calls, and the earlier one has not returned: it raised.
- `Refinement` (`ImplementsTaskPool`): `Take` is a task begun, `FindEmpty` with a task left is
  `MissTask`, the caller's call, return and raise are `Begin`, `Return` and `Raise`; feeder,
  locks, indices and the workers' other steps are stutters. That `Unspoiled` holds at a
  return is the poisoned pool, that all is handed over `ReturnsWhatWasTaken`.
- `NobodyIsStuck` (`NeverStuck`) by counting: as many workers hold an index as were
  taken off the index queue (`IndicesLast`), so the one that still waits for its own finds
  one; and a chunk that waits for a place in its pool waits for workers that are at
  their index, at the queue, or in a task, which (by the fairness of section 3) ends.
- `WorkersGoForward`: each step of a worker brings it forward or to its next task, of
  which there are finitely many. With `NobodyIsStuck` this is the safe half of
  `CallEnds`; what is left of it to TLC is fairness.

`DriverChecksProofs`:

- `TypeCorrect`, `ValidEarned` (`ValidIsEarned`) and `StoredIsRun`
  (`RunsWhatIsStored`) with one inductive invariant: what is reported at each place
  (`InStep`), that only a closed function is linked, which text each file has, and,
  for the processes, that a shell with a status leaves no fuzzer behind and that a
  killed shell never shows status 0 (`FuzzInStep`). That is why the log a clean run is
  judged by cannot change any more, while one with a known bug may grow.
- `JudgedByRun` (`JudgedByItsRun`): `OracleIsFair` says what each verdict of `Oracle` needs of
  the log and of the shell's status; the invariant adds that a killed shell has no status 0 and
  that the log of one that ended does not grow.
- `Refinement`: `Spec => ImplementsPipeline`, one step for each action: a check that
  reports is a `Check` of `CheckPipeline`, all else is a stutter.
- `ChecksGoForward`: every step of the program advances it, it never waits for a shell
  that is gone, the fuzzer's own steps are bounded and change neither the program
  nor a verdict; the safe half of `EndsOrTests`.

`ValidationServerProofs`:

- `TypeCorrect` and `ClientsAreToldTheTruth` (`ToldTheTruth`). That an output is the
  client's own rests on two facts about time: what waits in the server is the last post
  of a client that is not done with it (`WaitingIsLast`), and 'done' is said only of
  a finished task, whose output is in the file until the client posts again
  (`DoneIsWritten`). A client that polls an unknown task has seen a restart
  (`ClientsInStep`).
- `Refinement` (`ImplementsTaskService`): `OnePlace` says that a task is in the handler,
  once in the queue, or in the loop, so every step moves it by at most one stage; a
  restart is `LoseAll`, and setting a status is a stutter.
- `PostedMovesOn`: while the server runs a posted task only moves forward (request, queue,
  loop, handled), the ones before it in the queue get fewer, and none is put
  before it; the safe half of `PostedIsHandled`.

`ContainerValidationProofs`:

- `TypeCorrect`, `VerdictsAreOwn` (`OwnVerdict`), `UnsettledWasCut`
  (`UnsettledOnlyIfCut`). While the workdir is not shared, every container that still has
  it is the present one, and the files (`FilesAreOwn`) and what is in that container's memory
  (`WorksOnOwn`) are about the present solution: `WorkdirIsOwn` joins the two; a container that ended by itself has left a final
  verdict (`ExitIsFinal`), since "Partly checked" is written before the last phase only.
- `ContainersAreFew` (`NothingPilesUp`) by counting: the sets of containers that exist, and
  of those that run unattended, grow by one only with an attempt, or with a fault
  (`Counts`).
- `HostOnlyAdvances`: every step of the host advances it over attempts, solutions and
  the steps of one validation, and no step of a container sets it back; the safe half of
  `TaskEnds`.

`ModelQueryProofs`:

- `ShrinkLeavesTheMost`: for every prompt and every limit `Shrink` meets `ShrinkIsLeast`.
- `TypeCorrect`, `PromptIsAsked` (`GeneratedIsAsked`) and `SolutionsAreFromAnswers`
  (`SolutionIsFromAnswer`) with `QueryInv`. The second half is about the operators, for answers
  of every length: that the blocks with a driver are the stretches of the property
  (`BlocksAreStretches`, which counts the fences before a place), that the last one with a driver is the last stretch of the property,
  and that `Text` keeps every piece but the fences, in order (`TextIsPlain`). `Text` is a
  recursive function, so its values must first be shown to exist (`TextIsKept`): functions
  that satisfy the recursion up to n are extended to n + 1. That induction, and the one over
  an answer's pieces, is the lemma `Induction` about a set of numbers, which follows from
  `LeastNatural` (every set of numbers has a least element); the library's induction
  theorems take operators, which no prover here can instantiate.
- `OnlyRequestsRepeat`: a query goes back only to send the same request again, and every other
  step advances it. The loop has no limit, so no more than this is true of the code.

`ValidationBatchProofs`:

- `TypeCorrect`, `OutputPaired`, `OnlyLosses` and `OthersUntouched`, with one invariant that
  says for a query of a later batch that it is untouched (`Fresh`), for one of the present
  batch that its lists are those of the input (`InBatch`) and that its tasks have each
  wanted solution exactly once (`Covers`), and for one of an earlier batch that it has
  nothing but its results, in order (`Settled`). The lemmas about positions carry it:
  positions in a finite set of numbers grow with the numbers, every position below the
  cardinality has one element (`NthIsThere`, by an injection between sets of the
  same size), so the slices cover (`SlicesCover`) and thinning two lists of the same
  length by the same positions keeps them paired (`ThinnedOut`).

`SetupProofs`:

- `ImagesAreNotLost` (`MissingOnlyIfCut`) and `PreparedIsPrepared` (`DoneIsPrepared`), for any
  number of preparations at once, with `ImageInv`: a target whose image a run removed
  is on its list to build, or about to be put there (`RemovedIsListed`), and a missing image
  is owed by somebody (`MissingIsOwed`).
- `UndisturbedRunsAreWell` (`UndisturbedRunIsWell`) with `UsageInv`: as long as nothing is
  spoiled there is at most one builder, its place says what is in the cache
  (`BuilderInStep`), its container works by its parameters (`BoxInStep`), and without a
  builder the cache is absent or has the documents once (`Orderly`). With the two runs
  TLC has, a disturbance always involves the run that is harmed. The attempt to prove it
  for more showed that this is not so: two other runs may clash in one workdir, so that an
  analysis collects usages where it was to list APIs, and rewrites a cache a third
  one then loads. That is why `spoiled` records clashes (`Clash`) as well as cuts.
- `TypeCorrect`.

Only model-checked: the liveness itself (`CallEnds`, `Terminates`, `PostedIsHandled`,
`TaskEnds`, `EndsOrTests`), since TLAPS proves neither liveness under fairness
nor ENABLED. For each of them the half that is a safety property is proved: a measure
that every step but the named retries advances, within limits, and for the pool and the
checks that nobody waits in vain. Every invariant and action property that a passing run checks
is a theorem, and so is every refinement. No module declares a RECURSIVE operator.

## 5. Not modelled

- The texts of prompts and answers, logs and their wording (`libPrompt.py`, `genQueries.py`):
  templates without state. Which of them yield prompts is a choice in the search.
- The analysis in the container (`libProjAnalyzer.py` below `BaseAnalyzer`: headers,
  call graphs, similarity of search results) and the table of documents: pure functions
  of files, one step of `APIUsageCache`.
- Verdicts: the stacks and lines `libVR.py` extracts, and the prompts
  `libImprovePrompt.py` writes from them. What kinds of prompts a verdict leads to is in
  `Verdicts`.
- Settings and paths (`cfgs.py`, `libTarget.py`), `jsonOps.py`, the build scripts and data of
  the targets.
- Debug modes, the asynchronous branch of `validate_wrap` (`sync=False`), `summary()` and
  `doAdditionalCheckForLeaves` of `libIterative.py`, which nothing calls; `skipsgcrawl` and
  the mode `listapisfromnm`, which nothing asks for; the serial mode of the worker pool, a
  loop.
- `examples/`: 144 files of C, some 24,600 lines, the largest part of the repository. They
  are drivers the program generated: each is a list of headers, the prompt in comments, and
  one function of a few dozen lines that calls a third-party library. They are outputs, no
  part of the program, and no definition here maps to them. The program is 6,851 lines
  of Python, of which the map covers two fifths; the rest is the text processing above.

## 6. Plan

Done: all components with state of their own, `WorkerPool`, `IterativeSearch`, `ModelQuery`,
`ValidationBatch`, `ValidationServer`, `ContainerValidation`, `DriverChecks`, `APIUsageCache` and
`PrepareImages`; the refinements `CheckPipeline`, `TaskService`, `TaskPool` and
`DriverSearch`; the composition `Setup`; the proofs of section 4.

Next:

1. Link the levels by their contracts: `ValidationBatch` over `TaskPool` (what
   `PoolReturns` may lose is what a call may miss), `IterativeSearch` over `TaskService`,
   `ContainerValidation` over `CheckPipeline`, each as a refinement.
2. Two searches on one workdir (`libIterative.py:59`), which share more than
   `APIUsageCache` has: the files of the queries and of their results.
