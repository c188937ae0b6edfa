--------------------------- MODULE ValidationBatch ---------------------------
(***************************************************************************)
(* How validateQueries.py splits the queries of a json into tasks, and     *)
(* merges the results into the output: run_cmdline_validation, and around  *)
(* it main (all queries in one batch) or main_task_loop of the server (the *)
(* queries of at most projectpara projects in each batch).                 *)
(*                                                                         *)
(* A query is its index ridx in the list, a solution its index sidx in the *)
(* query of the input, and a validation the sidx of the solution it is of; *)
(* None is 0.  What the tasks do is ContainerValidation, and how they are  *)
(* run is WorkerPool: here each one is done or lost, or the pool raises.   *)
(***************************************************************************)
EXTENDS Integers, Sequences, FiniteSets, Functions

CONSTANTS
  MaxQueries,    \* bound: length of the list of queries
  MaxSolutions,  \* bound: solutions of a query
  Projects,      \* target projects of the queries
  ProjectPara    \* -pj

ASSUME BatchAssumption ==
  /\ MaxQueries \in Nat \ {0}
  /\ MaxSolutions \in Nat \ {0}
  /\ IsFiniteSet(Projects)
  /\ ProjectPara \in Nat \ {0}

Ridxs == 1..MaxQueries
Sidxs == 1..MaxSolutions
None  == 0
Task  == [ridx : Ridxs, sidxs : SUBSET Sidxs]

VARIABLES
  total,        \* [Ridxs -> Nat] number of solutions of the query in the input
  target,       \* [Ridxs -> Projects]
  scope,        \* queries that match -a, and are marked if they need to be
  pattern,      \* sidxs that match -i
  per,          \* -n, valinumperdocker
  todo,         \* projects of the batches that are to come
  batch,        \* idxset of the batch that is run
  pc,           \* where the script is
  waiting,      \* tasks of the batch that are neither done nor lost
  done,         \* tasks of the batch whose results the pool returned
  solutions,    \* [Ridxs -> Seq(Sidxs)] result['solutions']
  validations,  \* [Ridxs -> Seq(Sidxs \cup {None})] result['validations']
  everDone,     \* history: tasks of all batches that were done
  lost          \* history: tasks of all batches that were lost

inputVars == <<total, target, scope, pattern, per>>
vars == <<inputVars, todo, batch, pc, waiting, done, solutions, validations,
          everDone, lost>>

TypeInv ==
  /\ total \in [Ridxs -> 0..MaxSolutions]
  /\ target \in [Ridxs -> Projects]
  /\ scope \subseteq Ridxs
  /\ pattern \subseteq Sidxs
  /\ per \in 0..MaxSolutions
  /\ todo \subseteq Projects
  /\ batch \subseteq Ridxs
  /\ pc \in {"split", "running", "merge", "written", "raised"}
  /\ waiting \subseteq Task
  /\ done \subseteq Task
  /\ solutions \in [Ridxs -> Seq(Sidxs)]
  /\ validations \in [Ridxs -> Seq(Sidxs \cup {None})]
  /\ everDone \subseteq Task
  /\ lost \subseteq Task

UpTo(n) == [i \in 1..n |-> i]

Init ==
  /\ total \in [Ridxs -> 0..MaxSolutions]
  /\ target \in [Ridxs -> Projects]
  /\ scope \in SUBSET Ridxs
  /\ pattern \in SUBSET Sidxs
  /\ per \in 0..MaxSolutions
  /\ todo = { target[r] : r \in Ridxs }
  /\ batch = {}
  /\ pc = "split"
  /\ waiting = {} /\ done = {}
  /\ solutions = [r \in Ridxs |-> UpTo(total[r])]
  /\ validations = [r \in Ridxs |-> << >>]
  /\ everDone = {} /\ lost = {}

-----------------------------------------------------------------------------
\* The elements of S below n; their number is the position of n in the list of S.
Below(S, n)    == { m \in S : m < n }
Position(S, n) == Cardinality(Below(S, n))

\* Mutant of SidxList: the solutions are counted from 0 on.
SidxListFromZero(r) == { s - 1 : s \in pattern \cap 1..Len(solutions[r]) }

\* sidxlist: the solutions of query r that match the pattern.
SidxList(r) == pattern \cap 1..Len(solutions[r])

\* Mutant of Slices: the last, shorter slice is not made.
FullSlices(r) ==
  LET list == SidxList(r)
      slice(s) == { n \in list : Position(list, n) \div per = Position(list, s) \div per }
  IN  IF per = 0 THEN { list }
      ELSE { slice(s) : s \in { n \in list : Cardinality(slice(n)) = per } }

\* The sidxs of the tasks for query r: one task with all of them (it may have
\* none), or slices of per, the last of which may be shorter.
Slices(r) ==
  LET list == SidxList(r)
      slice(s) == { n \in list : Position(list, n) \div per = Position(list, s) \div per }
  IN  IF per = 0 THEN { list } ELSE { slice(s) : s \in list }

\* all_args of a batch of the queries in idxset.
AllArgs(idxset) ==
  UNION { [ridx : {r}, sidxs : Slices(r)] : r \in idxset \cap scope }

\* Mutant of Split: the validations of the queries of earlier batches are
\* reset too.
SplitAndResetAll(projects) ==
  LET idxset == { r \in Ridxs : target[r] \in projects }
  IN  /\ pc = "split"
      /\ batch' = idxset
      /\ todo' = todo \ projects
      /\ waiting' = AllArgs(idxset)
      /\ validations' = [r \in Ridxs |->
           IF r \in scope THEN [i \in 1..Len(solutions[r]) |-> None] ELSE validations[r]]
      /\ done' = {}
      /\ pc' = "running"
      /\ UNCHANGED <<inputVars, solutions, everDone, lost>>

\* A batch is begun: its tasks are made, and the validations of its queries
\* in scope become a list of None.
Split(projects) ==
  LET idxset == { r \in Ridxs : target[r] \in projects }
  IN  /\ pc = "split"
      /\ batch' = idxset
      /\ todo' = todo \ projects
      /\ waiting' = AllArgs(idxset)
      /\ validations' = [r \in Ridxs |->
           IF r \in idxset \cap scope THEN [i \in 1..Len(solutions[r]) |-> None]
                                      ELSE validations[r]]
      /\ done' = {}
      /\ pc' = "running"
      /\ UNCHANGED <<inputVars, solutions, everDone, lost>>

\* The pool returns: some of the tasks are done, the others are lost.
PoolReturns ==
  /\ pc = "running"
  /\ done' \in SUBSET waiting
  /\ everDone' = everDone \cup done'
  /\ lost' = lost \cup (waiting \ done')
  /\ waiting' = {}
  /\ pc' = "merge"
  /\ UNCHANGED <<inputVars, todo, batch, solutions, validations>>

\* A task raised, and the pool with it: no output is written.
PoolRaises ==
  /\ pc = "running"
  /\ waiting # {}
  /\ pc' = "raised"
  /\ UNCHANGED <<inputVars, todo, batch, waiting, done, solutions, validations,
                 everDone, lost>>

\* The validations of query r with the results of the batch in their places.
Merged(r) == [s \in DOMAIN validations[r] |->
               IF \E t \in done : t.ridx = r /\ s \in t.sidxs THEN s
                                                              ELSE validations[r][s]]

\* validated_ridxs: queries for which the results have an entry.
Validated == { r \in Ridxs : \E t \in done : t.ridx = r /\ t.sidxs # {} }

\* The elements of list at the positions that have a validation, in order.
Nth(S, i) == CHOOSE n \in S : Position(S, n) = i - 1

WithValidation(list, valis) ==
  LET kept == { i \in DOMAIN list : valis[i] # None }
  IN  [i \in 1..Cardinality(kept) |-> list[Nth(kept, i)]]

\* Mutant of RsltHandle: only the validations are thinned out.
RsltHandleHalf ==
  /\ pc = "merge"
  /\ validations' = [r \in Ridxs |->
       IF r \in Validated THEN WithValidation(Merged(r), Merged(r)) ELSE validations[r]]
  /\ pc' = IF todo = {} THEN "written" ELSE "split"
  /\ UNCHANGED <<inputVars, todo, batch, waiting, done, solutions, everDone, lost>>

\* rslt_handle: the results are merged, then the solutions without one leave
\* the queries that have any; the next batch, or the output is written.
RsltHandle ==
  /\ pc = "merge"
  /\ validations' = [r \in Ridxs |->
       IF r \in Validated THEN WithValidation(Merged(r), Merged(r)) ELSE validations[r]]
  /\ solutions' = [r \in Ridxs |->
       IF r \in Validated THEN WithValidation(solutions[r], Merged(r)) ELSE solutions[r]]
  /\ pc' = IF todo = {} THEN "written" ELSE "split"
  /\ UNCHANGED <<inputVars, todo, batch, waiting, done, everDone, lost>>

\* The script has exited, or the server is done with its task.
Ended == pc \in {"written", "raised"} /\ UNCHANGED vars

\* The projects of the next batch: all of them, from the command line; as
\* many as projectpara allows in the server, where -i matches everything.
NextProjects(projects) ==
  \/ batch = {} /\ projects = todo
  \/ /\ pattern = Sidxs
     /\ \/ Cardinality(projects) = ProjectPara
        \/ projects = todo /\ Cardinality(todo) < ProjectPara

Next ==
  \/ \E projects \in SUBSET todo : NextProjects(projects) /\ Split(projects)
  \/ PoolReturns \/ PoolRaises \/ RsltHandle
  \/ Ended

Spec == Init /\ [][Next]_vars

-----------------------------------------------------------------------------
(***************************************************************************)
(* Properties.                                                             *)
(***************************************************************************)

\* In the output a query with at least one result has exactly one validation
\* for each of its solutions, at the same position, in the order of the input.
OutputIsPaired ==
  pc = "written" =>
    \A t \in everDone :
      t.sidxs # {} =>
        /\ validations[t.ridx] = solutions[t.ridx]
        /\ \A i, j \in 1..Len(solutions[t.ridx]) :
             i < j => solutions[t.ridx][i] < solutions[t.ridx][j]

\* No result that came back is missing from the output, however the tasks
\* were cut, which others were lost, and whatever later batches did.
DoneIsInOutput ==
  pc = "written" =>
    \A t \in everDone : t.sidxs \subseteq Range(validations[t.ridx])

\* A solution that is in scope and matches the pattern leaves the output only
\* if its task was lost: each such solution is in exactly one task.
OnlyLostAreDropped ==
  pc = "written" =>
    \A r \in scope : \A s \in pattern \cap (1..total[r]) :
      /\ Cardinality({ t \in everDone \cup lost : t.ridx = r /\ s \in t.sidxs }) = 1
      /\ s \in Range(solutions[r]) \/ \E t \in lost : t.ridx = r /\ s \in t.sidxs

\* A None is in the output only for a query none of whose solutions has a
\* result; then it has nothing but None, and all its solutions.
NoneOnlyIfNothingDone ==
  pc = "written" =>
    \A r \in Ridxs :
      None \in Range(validations[r]) =>
        /\ \A t \in everDone : t.ridx = r => t.sidxs = {}
        /\ solutions[r] = UpTo(total[r])
        /\ Range(validations[r]) = {None}

\* Between the split and the output nothing gets lost but what the pool lost.
OnlyLossesShow == DoneIsInOutput /\ OnlyLostAreDropped /\ NoneOnlyIfNothingDone

\* A batch changes the queries of its own projects only.
OtherBatchesUntouched ==
  [][ \A r \in Ridxs :
        solutions'[r] # solutions[r] \/ validations'[r] # validations[r]
          => r \in batch' ]_vars
=============================================================================
