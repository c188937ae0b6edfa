------------------------- MODULE DriverChecksProofs -------------------------
(***************************************************************************)
(* Theorems about DriverChecks, for all prompts, answers, known bugs, and  *)
(* lengths of the log and of the list of test cases.                       *)
(***************************************************************************)
EXTENDS DriverChecks, TLAPS

-----------------------------------------------------------------------------
(***************************************************************************)
(* The inductive invariant.                                                *)
(***************************************************************************)

\* Where the program is, and what it has reported so far.
InStep ==
  /\ at = "text_truncation" => status = [phase |-> 0, is |-> "UNCK"]
  /\ at = "compile" => status = [phase |-> 1, is |-> "PTCK"]
  /\ at = "link" => status = [phase |-> 2, is |-> "PTCK"]
  /\ at \in {"fuzz", "wait", "kill", "analyze"} => status = [phase |-> 3, is |-> "PTCK"]
  /\ at \in {"semantic", "test"} => status = [phase |-> 4, is |-> "PTCK"]
  /\ at = "end" => status.is \notin {"UNCK", "PTCK"}
  /\ at = "test" => sema /\ checker = "tester" /\ Len(tests) < Cases
  /\ at \notin {"test", "end"} => tests = << >>

\* The function is complete once libclang has found no error.
FuncInStep ==
  status.phase >= 3 \/ (status.phase = 2 /\ status.is = "PTCK") => query.func = "closed"

\* The files: the driver is cut before it is compiled, and built from what is
\* stored.
FilesInStep ==
  /\ status.phase >= 1 /\ status.is # "ERR-CORR" => outfile \in {"cut", "cpp"}
  /\ status.phase >= 3 => status.is # "ERR-CORR"
  /\ status.phase >= 3 /\ status.is # "ERR-LINK" => outexe = outfile

\* The processes: a shell that has a status has no fuzzer left, and one that
\* was killed never shows the status 0.
FuzzInStep ==
  /\ at \in {"text_truncation", "compile", "link", "fuzz"} => shell = "none"
  /\ shell = "none" => fuzzer = "none"
  /\ shell = "exited" => fuzzer = "exited"
  /\ shell = "killed" => ret # 0
  /\ at = "wait" => shell \in {"running", "exited"}
  /\ at = "kill" => shell \in {"running", "exited"}
  /\ at = "analyze" => shell \in {"exited", "killed"}
  /\ at \in {"semantic", "test"} => shell \in {"exited", "killed"}

\* What the last two checks rest on.
Earned ==
  /\ at \in {"semantic", "test"} \/ status.is = "VAL" =>
       CleanRun \/ (fns /\ ShowsKnownBug(log))
  /\ status.is = "VAL" =>
       /\ status.phase = 5
       /\ sema /\ checker = "code" => Mentions(outfile, "msg")
       /\ sema /\ checker = "tester" =>
            \E i \in DOMAIN tests : tests[i].shows /\ tests[i].ok

IInv == TypeInv /\ InStep /\ FuncInStep /\ FilesInStep /\ FuzzInStep /\ Earned

\* The verdicts and the order of the checks, spelled out for the solver.
LEMMA Types ==
  /\ {"ERR-CORR", "ERR-PRSE", "ERR-LINK", "ERR-SEMA", "PTCK", "VAL", "CORR-LOG"}
       \subseteq VerdictTypes
  /\ Checks[1] = "text_truncation" /\ Checks[2] = "compile" /\ Checks[3] = "link"
  /\ Checks[4] = "fuzz" /\ Checks[5] = "semantic"
BY DEF VerdictTypes, FuzzOracles, Checks

\* What the fuzz check makes of a run and its log is one of its verdicts.
LEMMA OracleType ==
  ASSUME NEW r, NEW lines
  PROVE  Oracle(r, lines) \in FuzzOracles \cup {"PTCK"}
BY DEF Oracle, Effect, FuzzOracles

\* Only a clean run, or a known bug, passes the fuzz check.
LEMMA OraclePasses ==
  ASSUME Oracle(ret, log) = "PTCK"
  PROVE  \/ fns /\ ShowsKnownBug(log)
         \/ /\ ret = 0 /\ Effect(log) = "PTCK"
            /\ ~Has(log, "hash") /\ ~Has(log, "leak") /\ ~Has(log, "oom")
BY DEF Oracle

\* What the verdict of the fuzz check rests on stays when the processes and
\* the log do.
LEMMA RunStays ==
  ASSUME UNCHANGED <<shell, ret, log, fns>>, CleanRun \/ (fns /\ ShowsKnownBug(log))
  PROVE  CleanRun' \/ (fns' /\ ShowsKnownBug(log)')
BY DEF CleanRun

\* Every step keeps the invariant.
LEMMA Step == IInv /\ [Next]_vars => IInv'
<1> SUFFICES ASSUME IInv, [Next]_vars PROVE IInv'
  OBVIOUS
<1> USE DriverChecksAssumption, Types DEF IInv
<1>1. CASE Truncate
  BY <1>1 DEF Truncate, Report, TypeInv, InStep, FuncInStep, FilesInStep, FuzzInStep, Earned, optionVars, fuzzVars
<1>2. CASE Compile
  BY <1>2 DEF Compile, Report, TypeInv, InStep, FuncInStep, FilesInStep, FuzzInStep, Earned, optionVars, fuzzVars, fileVars
<1>3. CASE Link
  BY <1>3 DEF Link, Report, TypeInv, InStep, FuncInStep, FilesInStep, FuzzInStep, Earned, optionVars, fuzzVars, fileVars
<1>4. CASE StartFuzz
  BY <1>4 DEF StartFuzz, Report, TypeInv, InStep, FuncInStep, FilesInStep, FuzzInStep, Earned, optionVars, fuzzVars, fileVars
<1>5. CASE Waited
  BY <1>5 DEF Waited, Report, TypeInv, InStep, FuncInStep, FilesInStep, FuzzInStep, Earned, optionVars, fuzzVars, fileVars
<1>6. CASE Expire
  BY <1>6 DEF Expire, Report, TypeInv, InStep, FuncInStep, FilesInStep, FuzzInStep, Earned, optionVars, fuzzVars, fileVars
<1>7. CASE Kill
  BY <1>7 DEF Kill, Report, TypeInv, InStep, FuncInStep, FilesInStep, FuzzInStep, Earned, optionVars, fuzzVars, fileVars
<1>8. CASE Analyze
  <2>1. PICK v \in FuzzOracles \cup {"PTCK"} :
          /\ status' = [phase |-> 4, is |-> v]
          /\ at' = IF v = "PTCK" THEN "semantic" ELSE "end"
          /\ v = "PTCK" => Oracle(ret, log) = "PTCK"
    BY <1>8, OracleType DEF Analyze, Report, FuzzOracles
  <2>2. /\ at = "analyze" /\ seen' = log
        /\ UNCHANGED <<query, sema, fns, checker, cpp, outfile, outexe, shell, fuzzer, log, ret, tests>>
    BY <1>8 DEF Analyze, optionVars, fileVars
  <2>3. v \in VerdictTypes /\ v \notin {"UNCK", "VAL", "ERR-CORR", "ERR-LINK"}
    BY <2>1 DEF FuzzOracles, VerdictTypes
  <2>4. v = "PTCK" => CleanRun' \/ (fns' /\ ShowsKnownBug(log)')
    <3>1. shell = "killed" => ret # 0
      BY DEF FuzzInStep
    <3>2. shell \in {"exited", "killed"}
      BY <2>2 DEF FuzzInStep
    <3>3. v = "PTCK" => CleanRun \/ (fns /\ ShowsKnownBug(log))
      BY <2>1, <3>1, <3>2, OraclePasses DEF CleanRun
    <3> QED
      BY <2>2, <3>3, RunStays
  <2>5. TypeInv'
    BY <2>1, <2>2, <2>3 DEF TypeInv
  <2>6. InStep' /\ FuncInStep' /\ FilesInStep' /\ FuzzInStep'
    BY <2>1, <2>2, <2>3 DEF InStep, FuncInStep, FilesInStep, FuzzInStep
  <2>7. Earned'
    BY <2>1, <2>2, <2>3, <2>4 DEF Earned
  <2> QED
    BY <2>5, <2>6, <2>7
<1>9. CASE NoSemantics
  <2>1. /\ at = "semantic" /\ at' = "end" /\ status' = [phase |-> 5, is |-> "VAL"]
        /\ sema => checker = "none"
        /\ UNCHANGED <<optionVars, fileVars, fuzzVars, tests>>
    BY <1>9 DEF NoSemantics, Report
  <2>2. CleanRun' \/ (fns' /\ ShowsKnownBug(log)')
    BY <2>1, RunStays DEF Earned, optionVars, fuzzVars
  <2>3. TypeInv'
    BY <2>1 DEF TypeInv, optionVars, fileVars, fuzzVars
  <2>4. InStep' /\ FuncInStep' /\ FilesInStep' /\ FuzzInStep'
    BY <2>1 DEF InStep, FuncInStep, FilesInStep, FuzzInStep, optionVars, fileVars, fuzzVars
  <2>5. Earned'
    BY <2>1, <2>2 DEF Earned, optionVars
  <2> QED
    BY <2>3, <2>4, <2>5
<1>10. CASE CodeCheck
  <2>1. /\ at = "semantic" /\ at' = "end" /\ sema /\ checker = "code"
        /\ status' = [phase |-> 5, is |-> IF Mentions(outfile, "msg") THEN "VAL" ELSE "ERR-SEMA"]
        /\ UNCHANGED <<optionVars, fileVars, fuzzVars, tests>>
    BY <1>10 DEF CodeCheck, Report
  <2>2. CleanRun' \/ (fns' /\ ShowsKnownBug(log)')
    BY <2>1, RunStays DEF Earned, optionVars, fuzzVars
  <2>3. TypeInv'
    BY <2>1 DEF TypeInv, optionVars, fileVars, fuzzVars
  <2>4. InStep' /\ FuncInStep' /\ FilesInStep' /\ FuzzInStep'
    BY <2>1 DEF InStep, FuncInStep, FilesInStep, FuzzInStep, optionVars, fileVars, fuzzVars
  <2>5. Mentions(outfile, "msg") => Mentions(outfile, "msg")'
    BY <2>1 DEF Mentions, optionVars, fileVars
  <2>6. Earned'
    BY <2>1, <2>2, <2>5 DEF Earned, optionVars
  <2> QED
    BY <2>3, <2>4, <2>6
<1>11. CASE BuildTest
  <2>1. /\ at = "semantic" /\ sema /\ checker = "tester"
        /\ \/ at' = "test" /\ status' = status
           \/ at' = "end" /\ status' = [phase |-> 5, is |-> "ERR-SEMA"]
        /\ UNCHANGED <<optionVars, fileVars, fuzzVars, tests>>
    BY <1>11 DEF BuildTest, Report
  <2>2. CleanRun' \/ (fns' /\ ShowsKnownBug(log)')
    BY <2>1, RunStays DEF Earned, optionVars, fuzzVars
  <2>3. TypeInv'
    BY <2>1 DEF TypeInv, optionVars, fileVars, fuzzVars
  <2>4. InStep' /\ FuncInStep' /\ FilesInStep' /\ FuzzInStep'
    BY <2>1 DEF InStep, FuncInStep, FilesInStep, FuzzInStep, optionVars, fileVars, fuzzVars
  <2>5. Earned'
    BY <2>1, <2>2 DEF Earned, InStep
  <2> QED
    BY <2>3, <2>4, <2>5
<1>12. CASE RunTest
  <2>1. PICK t \in [shows : BOOLEAN, ok : BOOLEAN] : tests' = Append(tests, t)
    BY <1>12 DEF RunTest
  <2>2. /\ tests' \in Seq([shows : BOOLEAN, ok : BOOLEAN])
        /\ Len(tests') = Len(tests) + 1 /\ tests'[Len(tests')] = t
    BY <2>1 DEF TypeInv
  <2>3. TestVerdict(tests') = IF t.shows THEN IF t.ok THEN "VAL" ELSE "ERR-SEMA"
                              ELSE IF Len(tests') = Cases THEN "ERR-SEMA" ELSE "PTCK"
    BY <2>2 DEF TestVerdict
  <2>4. /\ at = "test"
        /\ UNCHANGED <<optionVars, fileVars, fuzzVars>>
        /\ \/ /\ at' = "test" /\ status' = status /\ TestVerdict(tests') = "PTCK"
           \/ /\ at' = "end" /\ status' = [phase |-> 5, is |-> TestVerdict(tests')]
              /\ TestVerdict(tests') # "PTCK"
    BY <1>12 DEF RunTest, Report
  <2>5. TestVerdict(tests') \in {"VAL", "ERR-SEMA", "PTCK"}
    BY <2>3
  <2>6. TestVerdict(tests') = "VAL" => \E i \in DOMAIN tests' : tests'[i].shows /\ tests'[i].ok
    <3> SUFFICES ASSUME TestVerdict(tests') = "VAL"
                 PROVE  \E i \in DOMAIN tests' : tests'[i].shows /\ tests'[i].ok
      OBVIOUS
    <3>1. t.shows /\ t.ok
      BY <2>3
    <3>2. Len(tests') \in DOMAIN tests'
      BY <2>1, <2>2 DEF TypeInv
    <3> QED
      BY <2>2, <3>1, <3>2
  <2>7. CleanRun' \/ (fns' /\ ShowsKnownBug(log)')
    BY <2>4, RunStays DEF Earned, optionVars, fuzzVars
  <2>8. /\ Len(tests') <= Cases
        /\ TestVerdict(tests') = "PTCK" => Len(tests') < Cases
    <3>1. Len(tests) < Cases /\ Len(tests) \in Nat
      BY <2>4 DEF InStep, TypeInv
    <3>2. Len(tests') <= Cases
      BY <2>2, <3>1
    <3>3. TestVerdict(tests') = "PTCK" => Len(tests') # Cases
      BY <2>3
    <3> QED
      BY <2>2, <3>1, <3>2, <3>3
  <2>9. TypeInv'
    BY <2>2, <2>4, <2>5, <2>8 DEF TypeInv, optionVars, fileVars, fuzzVars
  <2>10. InStep' /\ FuncInStep' /\ FilesInStep' /\ FuzzInStep'
    BY <2>4, <2>5, <2>8 DEF InStep, FuncInStep, FilesInStep, FuzzInStep, optionVars, fileVars, fuzzVars
  <2>11. Earned'
    BY <2>4, <2>5, <2>6, <2>7 DEF Earned, InStep, optionVars
  <2> QED
    BY <2>9, <2>10, <2>11
<1>13. CASE PrintLine
  <2>1. PICK l \in Lines : log' = Append(log, l)
    BY <1>13 DEF PrintLine
  <2>2. /\ fuzzer = "running" /\ at # "end" /\ Len(log) < MaxLog
        /\ UNCHANGED <<optionVars, fileVars, shell, fuzzer, ret, seen, at, status, tests>>
    BY <1>13 DEF PrintLine
  <2>3. log' \in Seq(Lines) /\ Len(log') <= MaxLog
    BY <2>1, <2>2 DEF TypeInv
  <2>4. ShowsKnownBug(log) => ShowsKnownBug(log)'
    <3>1. \A i \in DOMAIN log : i \in DOMAIN log' /\ log'[i] = log[i]
      BY <2>1 DEF TypeInv
    <3>2. \A word : Has(log, word) => Has(log, word)'
      BY <3>1 DEF Has
    <3> QED
      BY <3>2 DEF ShowsKnownBug
  <2>5. shell # "exited"
    BY <2>2 DEF FuzzInStep
  <2>6. ~CleanRun
    BY <2>5 DEF CleanRun
  <2>7. TypeInv'
    BY <2>2, <2>3 DEF TypeInv, optionVars, fileVars
  <2>8. InStep' /\ FuncInStep' /\ FilesInStep' /\ FuzzInStep'
    BY <2>2 DEF InStep, FuncInStep, FilesInStep, FuzzInStep, optionVars, fileVars
  <2>9. Earned'
    BY <2>2, <2>4, <2>6 DEF Earned, InStep, optionVars, fileVars, Mentions
  <2> QED
    BY <2>7, <2>8, <2>9
<1>14. CASE Exit
  <2>1. /\ fuzzer = "running" /\ fuzzer' = "exited" /\ at # "end"
        /\ \/ shell = "running" /\ shell' = "exited" /\ ret' \in {0, 1}
           \/ shell # "running" /\ shell' = shell /\ ret' = ret
        /\ UNCHANGED <<optionVars, fileVars, log, seen, at, status, tests>>
    BY <1>14 DEF Exit
  <2>2. shell # "exited"
    BY <2>1 DEF FuzzInStep
  <2>3. ~CleanRun
    BY <2>2 DEF CleanRun
  <2>4. TypeInv'
    BY <2>1 DEF TypeInv, optionVars, fileVars
  <2>5. InStep' /\ FuncInStep' /\ FilesInStep' /\ FuzzInStep'
    BY <2>1 DEF InStep, FuncInStep, FilesInStep, FuzzInStep, optionVars, fileVars
  <2>6. Earned'
    BY <2>1, <2>3 DEF Earned, InStep, optionVars, fileVars, Mentions
  <2> QED
    BY <2>4, <2>5, <2>6
<1>15. CASE UNCHANGED vars
  BY <1>15 DEF vars, TypeInv, InStep, FuncInStep, FilesInStep, FuzzInStep, Earned, optionVars, fuzzVars, fileVars, CleanRun, Mentions
<1> QED
  BY <1>1, <1>2, <1>3, <1>4, <1>5, <1>6, <1>7, <1>8, <1>9, <1>10, <1>11, <1>12, <1>13, <1>14, <1>15 DEF Next, Program, Ended

\* It holds to begin with.
LEMMA Start == Init => IInv
<1> SUFFICES ASSUME Init PROVE IInv
  OBVIOUS
<1>1. TypeInv
  <2>1. PICK p \in Prompts, s \in Solutions : query = Concat(p, s)
    BY DEF Init
  <2>2. query \in [ func  : {"none", "open", "closed"}, last : {"brace", "other"},
                    words : [Places -> SUBSET Words] ]
    BY <2>1, DriverChecksAssumption DEF Concat, Solution, Places
  <2> QED
    BY <2>2, DriverChecksAssumption DEF Init, TypeInv, Checks
<1>2. InStep /\ FuncInStep /\ FilesInStep /\ FuzzInStep /\ Earned
  BY DEF Init, InStep, FuncInStep, FilesInStep, FuzzInStep, Earned
<1> QED
  BY <1>1, <1>2 DEF IInv

\* The inductive invariant holds throughout.
LEMMA Inductive == Spec => []IInv
BY Start, Step, PTL DEF Spec

-----------------------------------------------------------------------------
(***************************************************************************)
(* The theorems.                                                           *)
(***************************************************************************)

\* The types of the variables.
THEOREM TypeCorrect == Spec => []TypeInv
<1>1. IInv => TypeInv
  BY DEF IInv
<1> QED
  BY <1>1, Inductive, PTL

\* A driver that validate_impl calls valid has earned it, whatever its fuzzer
\* does before and after it is given up.
THEOREM ValidEarned == Spec => []ValidIsEarned
<1>1. IInv => ValidIsEarned
  BY DEF IInv, InStep, FuncInStep, Earned, ValidIsEarned
<1> QED
  BY <1>1, Inductive, PTL

\* The host stores the code that was built and run.
THEOREM StoredIsRun == Spec => []RunsWhatIsStored
<1>1. IInv => RunsWhatIsStored
  <2> SUFFICES ASSUME IInv, status.phase >= 3, status.is # "ERR-LINK"
               PROVE  outexe = outfile /\ outfile # "query"
    BY DEF RunsWhatIsStored
  <2> QED
    BY DEF IInv, FilesInStep, TypeInv
<1> QED
  BY <1>1, Inductive, PTL

\* A successful run passes the fuzz check, and one that was given up passes it by
\* a known bug only and is never judged by its coverage.
LEMMA OracleIsFair ==
  /\ CleanRun => Oracle(ret, log) = "PTCK"
  /\ ret # 0 => /\ Oracle(ret, log) \notin {"NONEFF", "NOINIT-LOG", "VAL", "ERR-SEMA"}
                /\ Oracle(ret, log) = "PTCK" => fns /\ ShowsKnownBug(log)
BY DEF Oracle, CleanRun

\* The fuzz check judges a driver by the run of its fuzzer: by all of it if it
\* ended, and never by the coverage of a run that was given up.
THEOREM JudgedByRun == Spec => []JudgedByItsRun
<1>1. Init => JudgedByItsRun
  BY DEF Init, JudgedByItsRun
<1>2. IInv /\ JudgedByItsRun /\ [Next]_vars => JudgedByItsRun'
  <2> SUFFICES ASSUME IInv, JudgedByItsRun, [Next]_vars
               PROVE  JudgedByItsRun'
    OBVIOUS
  <2>0. InStep /\ FuzzInStep
    BY DEF IInv
  <2>1. CASE Analyze
    <3>1. /\ seen' = log /\ at = "analyze"
          /\ UNCHANGED <<shell, ret, log, fns>>
          /\ \/ status' = [phase |-> 4, is |-> Oracle(ret, log)]
             \/ status' = [phase |-> 4, is |-> "CORR-LOG"]
      BY <2>1 DEF Analyze, Report, optionVars
    <3>2. shell = "killed" => ret # 0
      BY <2>0 DEF FuzzInStep
    <3>3. CleanRun' => CleanRun
      BY <3>1 DEF CleanRun
    <3>4. ShowsKnownBug(seen)' <=> ShowsKnownBug(log)
      BY <3>1 DEF ShowsKnownBug, Has
    <3> QED
      BY <3>1, <3>2, <3>3, <3>4, OracleIsFair DEF JudgedByItsRun
  <2>2. CASE Truncate \/ Compile \/ Link
    <3>1. ~(status'.phase >= 4)
      BY <2>2 DEF Truncate, Compile, Link, Report
    <3> QED
      BY <3>1 DEF JudgedByItsRun
  <2>3. CASE NoSemantics \/ CodeCheck \/ BuildTest \/ RunTest
    <3>1. status = [phase |-> 4, is |-> "PTCK"]
      BY <2>0, <2>3 DEF NoSemantics, CodeCheck, BuildTest, RunTest, InStep
    <3>2. /\ UNCHANGED <<shell, ret, log, seen, fns>>
          /\ status'.is \in {"PTCK", "VAL", "ERR-SEMA"}
      BY <2>3, <3>1 DEF NoSemantics, CodeCheck, BuildTest, RunTest, Report, TestVerdict,
         optionVars, fuzzVars
    <3>3. ShowsKnownBug(seen)' <=> ShowsKnownBug(seen)
      BY <3>2 DEF ShowsKnownBug, Has
    <3> QED
      BY <3>1, <3>2, <3>3 DEF JudgedByItsRun
  <2>4. CASE StartFuzz \/ Waited \/ Expire \/ Kill
    <3>1. status' = [phase |-> 3, is |-> "PTCK"]
      BY <2>0, <2>4 DEF StartFuzz, Waited, Expire, Kill, InStep
    <3> QED
      BY <3>1 DEF JudgedByItsRun
  <2>5. CASE PrintLine
    <3>1. shell # "exited" /\ UNCHANGED <<shell, seen, status, fns>>
      BY <2>0, <2>5 DEF PrintLine, FuzzInStep, optionVars
    <3>2. ShowsKnownBug(seen)' <=> ShowsKnownBug(seen)
      BY <3>1 DEF ShowsKnownBug, Has
    <3> QED
      BY <3>1, <3>2 DEF JudgedByItsRun
  <2>6. CASE Exit
    <3>1. UNCHANGED <<log, seen, status, fns>>
      BY <2>6 DEF Exit, optionVars
    <3>2. ShowsKnownBug(seen)' <=> ShowsKnownBug(seen)
      BY <3>1 DEF ShowsKnownBug, Has
    <3>3. CASE shell = "running"
      <4>1. at \in {"text_truncation", "compile", "link", "fuzz", "wait", "kill", "analyze"}
        BY <2>0, <2>6, <3>3, Types DEF Exit, FuzzInStep, IInv, TypeInv
      <4>2. ~(status'.phase >= 4)
        BY <2>0, <3>1, <4>1 DEF InStep
      <4> QED
        BY <4>2 DEF JudgedByItsRun
    <3>4. CASE shell # "running"
      <4>1. UNCHANGED shell /\ shell # "exited"
        BY <2>0, <2>6, <3>4 DEF Exit, FuzzInStep
      <4> QED
        BY <3>1, <3>2, <4>1 DEF JudgedByItsRun
    <3> QED
      BY <3>3, <3>4
  <2>7. CASE UNCHANGED vars
    BY <2>7 DEF vars, optionVars, fuzzVars, JudgedByItsRun, CleanRun, ShowsKnownBug, Has
  <2> QED
    BY <2>1, <2>2, <2>3, <2>4, <2>5, <2>6, <2>7 DEF Next, Program, Ended
<1> QED
  BY <1>1, <1>2, Inductive, PTL DEF Spec

\* validate_impl implements what the host is promised.
THEOREM Refinement == Spec => ImplementsPipeline
<1>1. Init => Pipeline!Init
  BY DEF Init, Pipeline!Init, Pipeline!Unchecked
<1>2. IInv /\ [Next]_vars => [Pipeline!Check]_<<status.phase, status.is>>
  <2> SUFFICES ASSUME IInv, [Next]_vars
               PROVE  [Pipeline!Check]_<<status.phase, status.is>>
    OBVIOUS
  <2> USE Types DEF IInv, InStep, Pipeline!Check, Pipeline!ErrorsOf, Pipeline!Passed, Pipeline!Unchecked, Report
  <2>1. CASE Truncate
    BY <2>1 DEF Truncate
  <2>2. CASE Compile
    BY <2>2 DEF Compile
  <2>3. CASE Link
    BY <2>3 DEF Link
  <2>4. CASE Analyze
    <3>1. PICK v \in FuzzOracles \cup {"PTCK"} : status' = [phase |-> 4, is |-> v]
      BY <2>4, OracleType DEF Analyze, FuzzOracles
    <3>2. status = [phase |-> 3, is |-> "PTCK"]
      BY <2>4 DEF Analyze
    <3>3. Pipeline!ErrorsOf[4] = FuzzOracles /\ Pipeline!Passed(4) = "PTCK"
      BY DEF FuzzOracles, Pipeline!FuzzOracles
    <3> QED
      BY <3>1, <3>2, <3>3
  <2>5. CASE NoSemantics \/ CodeCheck
    BY <2>5 DEF NoSemantics, CodeCheck
  <2>6. CASE BuildTest
    BY <2>6 DEF BuildTest
  <2>7. CASE RunTest
    BY <2>7 DEF RunTest, TestVerdict
  <2>8. CASE StartFuzz \/ Waited \/ Expire \/ Kill \/ PrintLine \/ Exit \/ UNCHANGED vars
    BY <2>8 DEF StartFuzz, Waited, Expire, Kill, PrintLine, Exit, vars
  <2> QED
    BY <2>1, <2>2, <2>3, <2>4, <2>5, <2>6, <2>7, <2>8 DEF Next, Program, Ended
<1> QED
  BY <1>1, <1>2, Inductive, PTL DEF Spec, ImplementsPipeline, Pipeline!Spec

-----------------------------------------------------------------------------
(***************************************************************************)
(* Why a validation ends, or gets to a test case, as far as the program    *)
(* goes: it has no loop but the one over the test cases, and whatever the  *)
(* fuzzer and the shell do, it does not wait for something that has been.  *)
(***************************************************************************)
Stations == { Checks[p] : p \in 1..5 } \cup {"wait", "kill", "analyze", "test", "end"}

Place ==
  [ loc \in Stations |->
      CASE loc = "text_truncation" -> 1
        [] loc = "compile"  -> 2
        [] loc = "link"     -> 3
        [] loc = "fuzz"     -> 4
        [] loc = "wait"     -> 5
        [] loc = "kill"     -> 6
        [] loc = "analyze"  -> 7
        [] loc = "semantic" -> 8
        [] loc = "test"     -> 9
        [] loc = "end"      -> 10 ]

\* The next check, or the next step of one.
Advances == Place[at'] > Place[at]

\* One of the test cases that are left.
TestsOn ==
  /\ at = "test" /\ at' = at
  /\ Len(tests') = Len(tests) + 1 /\ Len(tests') < Cases

\* The fuzzer writes to its log or ends, and nothing the program has made of
\* it changes.
FuzzerActs ==
  /\ UNCHANGED <<optionVars, fileVars, at, status, tests, seen>>
  /\ \/ Len(log') = Len(log) + 1 /\ Len(log') <= MaxLog
     \/ fuzzer = "running" /\ fuzzer' = "exited"

\* One of the steps of the program, or of the test, has its guard: the shell
\* it waits for runs or has ended, and there is a test case left.
GoesOn ==
  /\ at = "wait" => shell \in {"running", "exited"}
  /\ at = "test" => Len(tests) < Cases

\* Every step of the program advances it, it is never held up by a process that
\* is gone, and what the fuzzer does in between, a bounded number of times, moves
\* neither the program nor what it reported.  This is the safe half of
\* EndsOrTests.
THEOREM ChecksGoForward ==
  Spec => []GoesOn /\ [][Advances \/ TestsOn \/ FuzzerActs]_vars
<1>1. IInv => GoesOn
  BY DEF IInv, InStep, FuzzInStep, GoesOn
<1>2. IInv /\ IInv' /\ [Next]_vars => [Advances \/ TestsOn \/ FuzzerActs]_vars
  <2> SUFFICES ASSUME IInv, IInv', Next, ~UNCHANGED vars
               PROVE  Advances \/ TestsOn \/ FuzzerActs
    OBVIOUS
  <2>0. /\ Place["text_truncation"] = 1 /\ Place["compile"] = 2 /\ Place["link"] = 3
        /\ Place["fuzz"] = 4 /\ Place["wait"] = 5 /\ Place["kill"] = 6
        /\ Place["analyze"] = 7 /\ Place["semantic"] = 8 /\ Place["test"] = 9
        /\ Place["end"] = 10
    BY Types DEF Place, Stations
  <2> HIDE DEF Place
  <2>1. CASE Truncate \/ Compile \/ Link \/ Analyze
    <3>1. \/ at = "text_truncation" /\ at' \in {"compile", "end"}
          \/ at = "compile" /\ at' \in {"link", "end"}
          \/ at = "link" /\ at' \in {"fuzz", "end"}
          \/ at = "analyze" /\ at' \in {"semantic", "end"}
      BY <2>1, Types DEF Truncate, Compile, Link, Analyze, Report
    <3> QED
      BY <2>0, <3>1 DEF Advances
  <2>2. CASE StartFuzz \/ Waited \/ Expire \/ Kill
    <3>1. \/ at = "fuzz" /\ at' = "wait"
          \/ at = "wait" /\ at' \in {"analyze", "kill"}
          \/ at = "kill" /\ at' = "analyze"
      BY <2>2 DEF StartFuzz, Waited, Expire, Kill
    <3> QED
      BY <2>0, <3>1 DEF Advances
  <2>3. CASE NoSemantics \/ CodeCheck \/ BuildTest
    <3>1. at = "semantic" /\ at' \in {"test", "end"}
      BY <2>3 DEF NoSemantics, CodeCheck, BuildTest, Report
    <3> QED
      BY <2>0, <3>1 DEF Advances
  <2>4. CASE RunTest
    <3>1. at = "test" /\ at' \in {"test", "end"}
      BY <2>4 DEF RunTest, TestVerdict, Report
    <3>2. Len(tests') = Len(tests) + 1
      BY <2>4 DEF RunTest, IInv, TypeInv
    <3>3. at' = "test" => Len(tests') < Cases
      BY DEF IInv, InStep
    <3>4. CASE at' = "end"
      BY <2>0, <3>1, <3>4 DEF Advances
    <3>5. CASE at' = "test"
      BY <3>1, <3>2, <3>3, <3>5 DEF TestsOn
    <3> QED
      BY <3>1, <3>4, <3>5
  <2>5. CASE PrintLine
    <3>1. Len(log') = Len(log) + 1
      BY <2>5 DEF PrintLine, IInv, TypeInv
    <3>2. Len(log') <= MaxLog
      BY DEF IInv, TypeInv
    <3> QED
      BY <2>5, <3>1, <3>2 DEF PrintLine, FuzzerActs
  <2>6. CASE Exit
    BY <2>6 DEF Exit, FuzzerActs
  <2> QED
    BY <2>1, <2>2, <2>3, <2>4, <2>5, <2>6 DEF Next, Program, Ended
<1> QED
  BY <1>1, <1>2, Inductive, PTL DEF Spec
=============================================================================
