----------------------------- MODULE ModelQuery -----------------------------
(***************************************************************************)
(* From the prompts that were generated to the driver that is validated:   *)
(* the choice in generateNextQueries and doRemoteQuery (libIterative.py),  *)
(* with the limits and the retries of libQuery.py and what                 *)
(* libGPTResultPostProcess.py makes of the answer.                         *)
(*                                                                         *)
(* A prompt is a sequence of lines, an answer one of pieces of text.  Of a *)
(* line it matters what shrink_query_usage_if_can looks for in it; every   *)
(* line is one token.                                                      *)
(***************************************************************************)
EXTENDS Integers, Sequences, FiniteSets, FiniteSetsExt

CONSTANTS
  TokenLimit,  \* token_length_exceeded: 3600 or 6000
  Generated,   \* bound: what genQueries may yield, sets of prompts
  Answers      \* bound: what the model may answer

\* "usage" starts the example ('// @ examples of API usage from'), "decl" is a
\* declaration ('extern ...;').
LineKinds == {"usage", "decl", "text"}

\* The marks around a block of code, with and without the language; "driver" is
\* text with LLVMFuzzerTestOneInput in it.
Fences     == {"fence", "cfence"}
PieceKinds == Fences \cup {"driver", "text"}

ASSUME QueryAssumption ==
  /\ TokenLimit \in Nat
  /\ Generated \subseteq SUBSET Seq(LineKinds)
  /\ Answers \subseteq Seq(PieceKinds)

VARIABLES
  pc,        \* where doRemoteQuery is
  improving, \* whether the id of the query has IMPROVE in it
  chosen,    \* the prompt generateNextQueries picked
  prompt,    \* query['query']
  answer,    \* what the model answered: raw_solutions
  status,    \* result['status']
  solution,  \* result['solutions']
  current    \* whether the query is in curQueryIDs

vars == <<pc, improving, chosen, prompt, answer, status, solution, current>>

FailedToFix == <<"failed to fix">>

TypeInv ==
  /\ pc \in {"generate", "shrink", "check", "ask", "again", "process", "done"}
  /\ improving \in BOOLEAN
  /\ chosen \in Seq(LineKinds)
  /\ prompt \in Seq(LineKinds)
  /\ answer \in Answers \cup {<< >>}
  /\ status \in {"pending", "ERRLONGQUERY", "FinishedNormally", "PromptExceedsLimit"}
  /\ solution \in Seq(PieceKinds) \cup {FailedToFix}
  /\ current \in BOOLEAN

Init ==
  /\ pc = "generate"
  /\ improving \in BOOLEAN
  /\ chosen = << >> /\ prompt = << >>
  /\ answer = << >>
  /\ status = "pending"
  /\ solution = << >>
  /\ current = FALSE

-----------------------------------------------------------------------------
(***************************************************************************)
(* Limits.                                                                 *)
(***************************************************************************)
Fits(p) == Len(p) <= TokenLimit

\* The first usage line, and the first declaration after it.
Starts(p)  == { i \in DOMAIN p : p[i] = "usage" }
EndsOf(p)  == { j \in DOMAIN p : p[j] = "decl" /\ \E i \in Starts(p) : i <= j }

\* The prompt without the usage lines from i on.
Without(p, i, end) == SubSeq(p, 1, i - 1) \o SubSeq(p, end, Len(p))

\* shrink_query_usage_if_can: as much of the example as fits.
Shrink(p) ==
  IF Fits(p) \/ EndsOf(p) = {} THEN p
  ELSE LET start == Min(Starts(p))
           end   == Min(EndsOf(p))
           cuts  == { i \in start..end : Fits(Without(p, i, end)) }
       IN  IF cuts = {} THEN p ELSE Without(p, Max(cuts), end)

(***************************************************************************)
(* handleSingleResult (the ids of main.py's queries have CHATGPT in them). *)
(***************************************************************************)
FencesOf(a) == { i \in DOMAIN a : a[i] \in Fences }

\* The answer without its fences, line by line.
Text(a) ==
  LET kept[n \in 0..Len(a)] ==
        IF n = 0 THEN << >>
        ELSE IF a[n] \in Fences THEN kept[n - 1] ELSE Append(kept[n - 1], a[n])
  IN  kept[Len(a)]

\* Mutant of Opening: every fence opens a block.
OpeningAny(a) == FencesOf(a)

\* The blocks of an improved answer: from each fence with an even number of
\* fences before it to the next one, or to the end.
Opening(a) == { i \in FencesOf(a) : Cardinality({ j \in FencesOf(a) : j < i }) % 2 = 0 }
BlockEnd(a, i) ==
  LET later == { j \in FencesOf(a) : j > i }
  IN  IF later = {} THEN Len(a) ELSE Min(later) - 1
Block(a, i) == SubSeq(a, i + 1, BlockEnd(a, i))

HasDriver(a) == \E i \in DOMAIN a : a[i] = "driver"

\* The last block with a driver; of the first answer of a round, everything
\* but the fences.
Fixed(a) ==
  LET blocks == { i \in Opening(a) : HasDriver(Block(a, i)) }
  IN  IF ~improving THEN Text(a)
      ELSE IF blocks = {} THEN FailedToFix ELSE Block(a, Max(blocks))

-----------------------------------------------------------------------------
\* Mutant of GenerateNext: the length is left to doRemoteQuery.
GenerateAny ==
  /\ pc = "generate"
  /\ \E gen \in Generated :
       \/ /\ gen = {}
          /\ pc' = "done"
          /\ UNCHANGED <<chosen, prompt, current>>
       \/ /\ chosen' \in gen
          /\ prompt' = chosen'
          /\ current' = TRUE
          /\ pc' = "shrink"
  /\ UNCHANGED <<improving, answer, status, solution>>

\* generateNextQueries: one of the prompts that fit; none ends the round.
GenerateNext ==
  /\ pc = "generate"
  /\ \E gen \in Generated :
       LET fitting == { p \in gen : Fits(p) }
       IN  \/ /\ fitting = {}
              /\ pc' = "done"
              /\ UNCHANGED <<chosen, prompt, current>>
           \/ /\ chosen' \in fitting
              /\ prompt' = chosen'
              /\ current' = TRUE
              /\ pc' = "shrink"
  /\ UNCHANGED <<improving, answer, status, solution>>

ShrinkUsage ==
  /\ pc = "shrink"
  /\ prompt' = Shrink(prompt)
  /\ pc' = "check"
  /\ UNCHANGED <<improving, chosen, answer, status, solution, current>>

\* resilient_wrapper_query
CheckLength ==
  /\ pc = "check"
  /\ IF Fits(prompt) THEN pc' = "ask" /\ UNCHANGED status
     ELSE pc' = "process" /\ status' = "ERRLONGQUERY"
  /\ UNCHANGED <<improving, chosen, prompt, answer, solution, current>>

\* The request is answered.
Answered ==
  /\ pc = "ask"
  /\ answer' \in Answers
  /\ status' = "FinishedNormally"
  /\ pc' = "process"
  /\ UNCHANGED <<improving, chosen, prompt, solution, current>>

\* "reduce your prompt": with numbers that leave less than ten tokens for the
\* answer, or without numbers, it is the end.
TooLong ==
  /\ pc = "ask"
  /\ status' = "PromptExceedsLimit"
  /\ pc' = "process"
  /\ UNCHANGED <<improving, chosen, prompt, answer, solution, current>>

\* With other numbers there is "a second chance by shrinking the max token num",
\* but no request has the max_tokens that is computed; after any other error
\* doquery sleeps.  Either way the same request is sent again.
RequestFails ==
  /\ pc = "ask"
  /\ pc' = "again"
  /\ UNCHANGED <<improving, chosen, prompt, answer, status, solution, current>>

AskAgain ==
  /\ pc = "again"
  /\ pc' = "ask"
  /\ UNCHANGED <<improving, chosen, prompt, answer, status, solution, current>>

\* Mutant of Process: what was received of a failed query is its solution.
ProcessAnything ==
  /\ pc = "process"
  /\ solution' = IF status = "FinishedNormally" THEN Fixed(answer) ELSE <<status>>
  /\ current' = (status = "FinishedNormally")
  /\ pc' = "done"
  /\ UNCHANGED <<improving, chosen, prompt, answer, status>>

\* handleSingleResult, and a query that failed leaves curQueryIDs.
Process ==
  /\ pc = "process"
  /\ solution' = IF status = "FinishedNormally" THEN Fixed(answer) ELSE solution
  /\ current' = (status = "FinishedNormally")
  /\ pc' = "done"
  /\ UNCHANGED <<improving, chosen, prompt, answer, status>>

\* The validation, or the end of the round, follows.
Ended == pc = "done" /\ UNCHANGED vars

Next ==
  \/ GenerateNext \/ ShrinkUsage \/ CheckLength
  \/ Answered \/ TooLong \/ RequestFails \/ AskAgain \/ Process
  \/ Ended

(***************************************************************************)
(* Nothing is said about the end of a query: the retries have no limit and *)
(* send the same request, so that it ends is up to the service.            *)
(***************************************************************************)
Spec == Init /\ [][Next]_vars

-----------------------------------------------------------------------------
(***************************************************************************)
(* Properties.                                                             *)
(***************************************************************************)

\* The choice of prompts, the cut of the example and the last test of the
\* length agree: what is sent to the model is the prompt that was generated,
\* whole, and never comes back as too long by the program's own count.
GeneratedIsAsked ==
  pc # "generate" => prompt = chosen /\ status # "ERRLONGQUERY"

\* What a shrunk prompt may be: the prompt itself; or, if that is too long, one
\* that fits and lacks only lines of the example, from the i-th line to the
\* first declaration behind its start, and as few of them as possible.
IsCut(p, i, j) ==
  /\ i <= j /\ p[j] = "decl"
  /\ \E n \in 1..i : p[n] = "usage"
  /\ \A n \in 1..(j - 1) : p[n] = "decl" => \A m \in 1..n : p[m] # "usage"

Cuts(p) == { c \in (1..Len(p)) \X (1..Len(p)) : IsCut(p, c[1], c[2]) }
FittingCuts(p) == { q \in { Without(p, c[1], c[2]) : c \in Cuts(p) } : Fits(q) }

ShrinkIsLeast(p) ==
  IF Fits(p) \/ FittingCuts(p) = {} THEN Shrink(p) = p
  ELSE /\ Shrink(p) \in FittingCuts(p)
       /\ \A q \in FittingCuts(p) : Len(q) <= Len(Shrink(p))

\* A query that is still current has the solution of its own, finished answer:
\* for an improvement a stretch of code between two fences that has the driver
\* in it, never the prose around the code, and the last such stretch; the mark
\* FAILED TO FIX only if there is none.  For a first query it is all of the
\* answer but the fences, in order.  Any other query has none.
IsCode(a, from, to) ==
  /\ Cardinality({ j \in 1..(from - 1) : a[j] \in Fences }) % 2 = 1
  /\ a[from - 1] \in Fences
  /\ to = Len(a) \/ a[to + 1] \in Fences
  /\ \A i \in from..to : a[i] \notin Fences
  /\ \E i \in from..to : a[i] = "driver"

Plain(a, n) == { i \in 1..n : a[i] \notin Fences }

IsPlainText(s, a) ==
  /\ Len(s) = Cardinality(Plain(a, Len(a)))
  /\ \A i \in Plain(a, Len(a)) : s[Cardinality(Plain(a, i))] = a[i]

Stretches(a) == { s \in (2..Len(a)) \X (2..Len(a)) : s[1] <= s[2] /\ IsCode(a, s[1], s[2]) }

SolutionIsFromAnswer ==
  pc = "done" =>
    IF ~current THEN solution = << >> /\ (chosen # << >> => status = "PromptExceedsLimit")
    ELSE /\ status = "FinishedNormally"
         /\ improving =>
              \/ solution = FailedToFix /\ Stretches(answer) = {}
              \/ \E s \in Stretches(answer) :
                   /\ solution = SubSeq(answer, s[1], s[2])
                   /\ \A o \in Stretches(answer) : o[1] <= s[1]
         /\ ~improving => IsPlainText(solution, answer)
=============================================================================
