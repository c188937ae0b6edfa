--------------------------- MODULE IterativeSearch ---------------------------
(***************************************************************************)
(* The search for a fuzz driver: main_workflow and iterative_workflow of   *)
(* main.py with the IterativeQueryRecord of generation/libIterative.py.    *)
(* A round starts with one prompt, asks the model, validates the answer,   *)
(* and improves the prompt by the verdict until a driver is acceptable.    *)
(*                                                                         *)
(* Every list of the code that holds "current" queries has at most one     *)
(* element, since each step picks one candidate at random: cur is its id,  *)
(* or 0.  The id of a query ends in '-' + str(len(self.queries)); here it  *)
(* is the position of the query in the round.                              *)
(***************************************************************************)
EXTENDS Verdicts, Integers, Sequences

CONSTANTS
  MaxIterations,      \* -MI
  MaxRounds,          \* -MR
  Iterative,          \* -q is ITER-BA or ITER-ALL
  ImproveStrategy,    \* "BA" or "ABA", improvestrategy
  DisableValidation,  \* -DV
  PossibleVerdicts,   \* bound: the verdicts a validation may come to
  FatalSolutions      \* whether an answer may be one the validator dies of

\* The checks main() makes before the search.
ASSUME SearchAssumption ==
  /\ MaxIterations \in Nat
  /\ MaxRounds \in Nat
  /\ Iterative \in BOOLEAN
  /\ ImproveStrategy \in {"BA", "ABA"}
  /\ DisableValidation \in BOOLEAN
  /\ PossibleVerdicts \subseteq VerdictTypes \cup {NoVerdict}
  /\ FatalSolutions \in BOOLEAN
  /\ DisableValidation => MaxIterations = 1 /\ MaxRounds = 1 /\ ~Iterative
  /\ MaxIterations # 1 => Iterative

VARIABLES
  pc,          \* where main is
  rounds,      \* rounds started
  iterations,  \* iterations started in this round
  queries,     \* the record's queries, in the order of their ids
  cur,         \* curQueryIDs
  output,      \* the file at localOutPath, where all validations of the round write
  leaf,        \* leafQueryIDs
  accept,      \* acceptQueryIDs
  saved,       \* the json of each round that was dumped: its size, its VALs
  valid        \* valid_driver_locations of the last round

vars == <<pc, rounds, iterations, queries, cur, output, leaf, accept, saved, valid>>

Ids == 1..Len(queries)

Locations == { "round", "generate", "query", "validate", "validating", "load",
               "judge", "summary", "collect", "done", "crashed" }

Kinds == {"INITIAL", "AAIMPROVE", "BAIMPROVE"}

\* The kinds an improvement can have under the strategy.
ImproveKinds == IF ImproveStrategy = "BA" THEN {"BAIMPROVE"} ELSE {"AAIMPROVE", "BAIMPROVE"}

\* One query: what its result says.  "pending" has no result yet, "error"
\* has a status other than FinishedNormally; verdict is "none" while the
\* result has no validations.
Query == [ kind     : Kinds,
           history  : Seq(Nat),
           status   : {"pending", "finished", "error"},
           solution : {"code", "fatal"},
           verdict  : VerdictTypes \cup {NoVerdict, "none"} ]

NewQuery(kind, history) ==
  [ kind |-> kind, history |-> history, status |-> "pending",
    solution |-> "code", verdict |-> "none" ]

\* The query and the verdict the file holds; no file, or one that was not
\* written to its end.
NoOutput == [of |-> 0, is |-> "none"]

TypeInv ==
  /\ pc \in Locations
  /\ rounds \in Nat
  /\ iterations \in Nat
  /\ queries \in Seq(Query)
  /\ cur \in 0..Len(queries)
  /\ output \in [of : 0..Len(queries), is : VerdictTypes \cup {NoVerdict, "none"}]
  /\ leaf \subseteq Ids
  /\ accept \subseteq Ids
  /\ saved \in Seq([size : Nat, vals : SUBSET Nat])
  /\ valid \subseteq (Nat \X Nat)

Init ==
  /\ pc = "round"
  /\ rounds = 0
  /\ iterations = 0
  /\ queries = << >>
  /\ cur = 0
  /\ output = NoOutput
  /\ leaf = {}
  /\ accept = {}
  /\ saved = << >>
  /\ valid = {}

-----------------------------------------------------------------------------
(***************************************************************************)
(* refreshResultsIDs and isAcceptableResult.                               *)
(***************************************************************************)
IsAcceptable(q) == q.status = "finished" /\ q.verdict = "VAL"

\* isAcceptableResult raises: the result has no validations (KeyError
\* 'validations'), or its validation no verdict (KeyError 'vali_result').
JudgingRaises(q) == q.status = "finished" /\ q.verdict \in {"none", NoVerdict}

Acceptable == { i \in Ids : IsAcceptable(queries[i]) }

\* Queries that are in the improveHistory of another one.
Improved == { i \in Ids : \E j \in Ids, n \in 1..Len(queries) :
                n <= Len(queries[j].history) /\ queries[j].history[n] = i }

\* Mutant of Leaves: the edges of improveHistory are followed the other way.
Roots == { i \in Ids : queries[i].history = << >> }

Leaves == Ids \ Improved

-----------------------------------------------------------------------------
(***************************************************************************)
(* The actions.                                                            *)
(***************************************************************************)

\* A new round: a new IterativeQueryRecord, with paths of its own.
StartRound ==
  /\ pc = "round"
  /\ pc' = "generate"
  /\ rounds' = rounds + 1
  /\ iterations' = 0
  /\ queries' = << >>
  /\ cur' = 0
  /\ output' = NoOutput
  /\ leaf' = {}
  /\ accept' = {}
  /\ UNCHANGED <<saved, valid>>

\* The prompts of the initial mode that fit the model, one of them picked.
GenerateInitial ==
  /\ pc = "generate"
  /\ queries = << >>
  /\ iterations' = iterations + 1
  /\ \/ /\ queries' = << NewQuery("INITIAL", << >>) >>
        /\ cur' = 1
        /\ pc' = "query"
     \/ \* no prompt, or none that fits: the round is over
        /\ pc' = "summary"
        /\ UNCHANGED <<queries, cur>>
  /\ UNCHANGED <<rounds, output, leaf, accept, saved, valid>>

\* Mutant of GenerateImproved: improveHistory is not carried over.
GenerateImprovedForgetful ==
  /\ pc = "generate"
  /\ queries # << >>
  /\ iterations' = iterations + 1
  /\ queries' = Append(queries, NewQuery("BAIMPROVE", <<cur>>))
  /\ cur' = Len(queries) + 1
  /\ pc' = "query"
  /\ UNCHANGED <<rounds, output, leaf, accept, saved, valid>>

\* Mutant of GenerateImproved: the id is computed after the query was added.
GenerateImprovedMisnumbered ==
  /\ pc = "generate"
  /\ queries # << >>
  /\ iterations' = iterations + 1
  /\ queries' = Append(queries, NewQuery("BAIMPROVE", Append(queries[cur].history, cur)))
  /\ cur' = Len(queries') + 1
  /\ pc' = "query"
  /\ UNCHANGED <<rounds, output, leaf, accept, saved, valid>>

\* Prompts made from the verdict on the current query, one of them picked.
GenerateImproved ==
  /\ pc = "generate"
  /\ queries # << >>
  /\ iterations' = iterations + 1
  /\ \E outcome \in ImproveOutcomes(queries[cur].verdict) :
       \/ /\ outcome = "raises"
          /\ pc' = "crashed"
          /\ UNCHANGED <<queries, cur, leaf>>
       \/ /\ outcome = "some"
          /\ \E kind \in ImproveKinds :
               queries' = Append(queries,
                 NewQuery(kind, Append(queries[cur].history, cur)))
          /\ cur' = Len(queries) + 1
          /\ pc' = "query"
          /\ UNCHANGED leaf
       \/ \* no prompt, or none that fits the model ("some" too)
          /\ outcome \in {"nothing", "some"}
          /\ leaf' = leaf \cup {cur}
          /\ cur' = 0
          /\ pc' = "summary"
          /\ UNCHANGED queries
  /\ UNCHANGED <<rounds, output, accept, saved, valid>>

\* doRemoteQuery: an answer, or an error for which the query leaves the
\* current ones, and the round is over.
DoRemoteQuery ==
  /\ pc = "query"
  /\ \/ /\ \E s \in {"code"} \cup (IF FatalSolutions THEN {"fatal"} ELSE {}) :
             queries' = [queries EXCEPT ![cur].status = "finished", ![cur].solution = s]
        /\ pc' = IF DisableValidation THEN "summary" ELSE "validate"
        /\ UNCHANGED cur
     \/ /\ queries' = [queries EXCEPT ![cur].status = "error"]
        /\ cur' = 0
        /\ pc' = "summary"
  /\ UNCHANGED <<rounds, iterations, output, leaf, accept, saved, valid>>

\* _do_validation_locally starts validateQueries.py on the current query.
StartValidation ==
  /\ pc = "validate"
  /\ pc' = "validating"
  /\ UNCHANGED <<rounds, iterations, queries, cur, output, leaf, accept, saved, valid>>

\* What a run of validateQueries.py can leave at the path: a fatal solution
\* ends it before it gets there (the validator dies in its container on every
\* attempt: libclang crashes on it, or its linker log is not UTF-8).
Written ==
  IF queries[cur].solution = "fatal" THEN {}
  ELSE { [of |-> cur, is |-> v] : v \in PossibleVerdicts }

\* Mutant of ValidationFails: what is there is loaded all the same.
ValidationFailsToLoad ==
  /\ pc = "validating"
  /\ UNCHANGED output
  /\ pc' = "load"
  /\ UNCHANGED <<rounds, iterations, queries, cur, leaf, accept, saved, valid>>

\* It exits with an error, before, while or after it writes the file: "Failed
\* to validate queries, retrying...".
ValidationFails ==
  /\ pc = "validating"
  /\ \/ UNCHANGED output
     \/ Written # {} /\ output' \in {NoOutput} \cup Written
  /\ pc' = "validate"
  /\ UNCHANGED <<rounds, iterations, queries, cur, leaf, accept, saved, valid>>

\* Mutant of ValidationExits: the script refuses to overwrite the output of
\* the record's earlier validation.
ValidationExitsOnce ==
  /\ pc = "validating"
  /\ output.of = 0
  /\ output' \in Written
  /\ pc' = "load"
  /\ UNCHANGED <<rounds, iterations, queries, cur, leaf, accept, saved, valid>>

\* It exits with 0, and has written the result.
ValidationExits ==
  /\ pc = "validating"
  /\ output' \in Written
  /\ pc' = "load"
  /\ UNCHANGED <<rounds, iterations, queries, cur, leaf, accept, saved, valid>>

\* Mutant of Load: the result is given to every query.
LoadForAll ==
  /\ pc = "load"
  /\ output.of # 0
  /\ queries' = [i \in Ids |-> [queries[i] EXCEPT !.verdict = output.is]]
  /\ pc' = "judge"
  /\ UNCHANGED <<rounds, iterations, cur, output, leaf, accept, saved, valid>>

\* The file is read, and replaces the result of the query it names; open or
\* json.load raises if it is not there or not whole.
Load ==
  /\ pc = "load"
  /\ IF output.of = 0
     THEN pc' = "crashed" /\ UNCHANGED queries
     ELSE /\ queries' = [queries EXCEPT ![output.of].verdict = output.is]
          /\ pc' = "judge"
  /\ UNCHANGED <<rounds, iterations, cur, output, leaf, accept, saved, valid>>

\* getValidationBrief and hasAcceptableResults, then the iteration limit.
Judge ==
  /\ pc = "judge"
  /\ IF JudgingRaises(queries[cur])
     THEN pc' = "crashed" /\ UNCHANGED <<accept, leaf>>
     ELSE /\ accept' = Acceptable
          /\ leaf' = Leaves
          /\ pc' = IF Acceptable # {} \/ iterations >= MaxIterations
                   THEN "summary" ELSE "generate"
  /\ UNCHANGED <<rounds, iterations, queries, cur, output, saved, valid>>

\* The summary of the leaves is logged, the queries are dumped into
\* <output>_round<rounds>.json.
Save ==
  /\ pc = "summary"
  /\ saved' = Append(saved, [size |-> Len(queries), vals |-> Acceptable])
  /\ pc' = "collect"
  /\ UNCHANGED <<rounds, iterations, queries, cur, output, leaf, accept, valid>>

\* Mutant of Collect: the results are not refreshed before they are reported.
CollectStale ==
  /\ pc = "collect"
  /\ valid' = { <<rounds, i>> : i \in leaf }
  /\ pc' = IF valid' # {} \/ rounds >= MaxRounds THEN "done" ELSE "round"
  /\ UNCHANGED <<rounds, iterations, queries, cur, output, leaf, accept, saved>>

\* getAcceptableResults, and main_workflow's decision on another round.
Collect ==
  /\ pc = "collect"
  /\ IF \E i \in Ids : JudgingRaises(queries[i])
     THEN pc' = "crashed" /\ UNCHANGED <<accept, leaf, valid>>
     ELSE /\ accept' = Acceptable
          /\ leaf' = Leaves
          /\ valid' = { <<rounds, i>> : i \in Acceptable }
          /\ pc' = IF (~DisableValidation /\ Acceptable # {}) \/ rounds >= MaxRounds
                   THEN "done" ELSE "round"
  /\ UNCHANGED <<rounds, iterations, queries, cur, output, saved>>

\* main has exited.
Ended == pc \in {"done", "crashed"} /\ UNCHANGED vars

Generate == GenerateInitial \/ GenerateImproved

Next ==
  \/ StartRound \/ Generate \/ DoRemoteQuery
  \/ StartValidation \/ ValidationFails \/ ValidationExits \/ Load
  \/ Judge \/ Save \/ Collect
  \/ Ended

(***************************************************************************)
(* main is a sequential program, and runs on.  DoRemoteQuery stands for    *)
(* doquery's retries until the API answers.  validateQueries.py may fail   *)
(* for passing reasons, but not for ever on a driver it can validate.      *)
(***************************************************************************)
Fairness == WF_vars(Next) /\ SF_vars(ValidationExits)

Spec     == Init /\ [][Next]_vars
FairSpec == Spec /\ Fairness

-----------------------------------------------------------------------------
(***************************************************************************)
(* Properties.                                                             *)
(***************************************************************************)

\* The improveHistory of a query names exactly the queries of the round that
\* came before it, in order, and each of those was answered, was validated,
\* and was found wanting: an acceptable driver is never "improved".
HistoryIsChain ==
  \A i \in Ids :
    /\ queries[i].history = [n \in 1..(i - 1) |-> n]
    /\ \A j \in 1..(i - 1) : /\ queries[j].status = "finished"
                             /\ queries[j].verdict \notin {"none", NoVerdict, "VAL"}

\* "acceptQueryIDs: queries that have acceptable validation results, it is a
\* subset of leafQueryIDs", whenever the search looks at them.
AcceptAreLeaves == accept \subseteq leaf

\* The search implements DriverSearch: a round asks the model at most
\* MaxIterations times and the process makes at most MaxRounds rounds (one, if
\* that is 0); a query found acceptable is the last of its round, it is dumped,
\* it is what main reports, and it ends the search; whatever makes main raise,
\* no acceptable driver is lost by it.
AtLeastOne(n) == IF n = 0 THEN 1 ELSE n

Search == INSTANCE DriverSearch WITH
            MaxAsked  <- AtLeastOne(MaxIterations),
            MaxRounds <- AtLeastOne(MaxRounds),
            stage  <- CASE pc = "done" -> "stopped" [] pc = "crashed" -> "broken"
                        [] OTHER -> "searching",
            asked  <- Len(queries),
            good   <- Acceptable,
            kept   <- [r \in 1..Len(saved) |-> saved[r].vals],
            report <- valid

ImplementsSearch == Search!Spec

\* The verdict that is judged, and by which a driver is accepted or improved, is
\* what a validation of that very query came to, and not what an earlier one or
\* a failed attempt left at the path they share.
JudgedAsValidated ==
  pc = "judge" => output = [of |-> cur, is |-> queries[cur].verdict]

\* A round's queries only grow, and no verdict on one is ever replaced.
VerdictsAreFinal ==
  [][ rounds' = rounds =>
        /\ Len(queries') >= Len(queries)
        /\ \A i \in Ids : queries[i].verdict # "none"
             => queries'[i].verdict = queries[i].verdict ]_vars

\* The search stops.
Terminates == <>(pc \in {"done", "crashed"})

\* libImprovePrompt.py: "If the function returns a None, no need to query
\* again for improving it".
NoneEndsTheImprovement ==
  pc = "crashed" /\ queries # << >> => queries[Len(queries)].verdict \notin ReturnsNone
=============================================================================
