---------------------------- MODULE DriverChecks ----------------------------
(***************************************************************************)
(* validate_impl of validation/libValidator.py: the checks one driver goes *)
(* through in its container, with the processes it starts there.  Where    *)
(* ContainerValidation has any outcome of a check, here it is computed     *)
(* from the text of the driver, from the log of the fuzzer, and from what  *)
(* the test cases of the API's semantic checker do.                        *)
(*                                                                         *)
(* The fuzzer runs below a shell.  The program waits 90 seconds for the    *)
(* shell and then kills it: the fuzzer goes on and writes to the log that  *)
(* is read meanwhile.                                                      *)
(***************************************************************************)
EXTENDS Verdicts, Integers, Sequences

CONSTANTS
  Prompts,     \* bound: the prompts, as the words they contain
  Solutions,   \* bound: the answers of the model
  KnownBugs,   \* fn_conds: sets of lines that show together a bug of the API
  MaxLog,      \* bound: lines of interest in a fuzz log
  Cases        \* number of test cases of a semantic tester

(***************************************************************************)
(* A text is what the checks look for in it: "api" stands for the name of  *)
(* the API with a parenthesis, "msg" for "parse_msg(".                     *)
(***************************************************************************)
Words  == {"api", "msg"}
Places == { "prompt",      \* the prompt, mostly as comments
            "function",    \* the answer, up to the line its function ends on
            "rest" }       \* the lines after it
Solution ==
  [ func  : {"none", "open", "closed"},    \* LLVMFuzzerTestOneInput
    last  : {"brace", "other"},            \* end of the line it ends on
    words : [Places \ {"prompt"} -> SUBSET Words] ]

\* Lines of a fuzz log; the first two with their coverage, if they have one,
\* "trace" for a frame of a stack, "hash" for a line that begins with # and has
\* no blank: what the driver prints itself, or a line cut short.  No oracle but
\* the known bugs looks at the messages of ASAN and libFuzzer when it decides
\* whether a run is good.
Inited == [is : {"INITED"}, cov : {-1, 0}]
Done   == [is : {"DONE"}, cov : {-1, 0, 1}]
Lines  == Inited \cup Done \cup [is : {"leak", "oom", "trace", "hash"}, cov : {-1}]

ASSUME DriverChecksAssumption ==
  /\ Prompts \subseteq SUBSET Words
  /\ Solutions \subseteq Solution
  /\ KnownBugs \subseteq SUBSET {"leak", "oom", "trace"}
  /\ MaxLog \in Nat
  /\ Cases \in Nat \ {0}

VARIABLES
  query,      \* query_result
  sema,       \* the option semantic_check of the query
  fns,        \* its option check_fuzz_fns
  checker,    \* the semantic checker of the API
  cpp,        \* the API is the one that check_link builds as C++
  at,         \* where validate_impl is
  outfile,    \* what is in it: "query", or the driver "cut" or made "cpp"
  outexe,     \* what it was built from
  status,     \* vali_phase, as a number, and vali_result
  shell,      \* the process bash -x fuzz.sh
  fuzzer,     \* the process of the driver below it
  log,        \* fuzzlog, the lines the fuzzer has printed
  ret,        \* self.process.poll(): 0, 1 for any other status, -1 for None
  seen,       \* the log as analyze_fuzz_result read it
  tests       \* what the test cases did so far

optionVars == <<query, sema, fns, checker, cpp>>
fileVars   == <<outfile, outexe>>
fuzzVars   == <<shell, fuzzer, log, ret, seen>>
vars == <<optionVars, fileVars, fuzzVars, at, status, tests>>

Pipeline == INSTANCE CheckPipeline WITH phase <- status.phase, verdict <- status.is

Checks == << "text_truncation", "compile", "link", "fuzz", "semantic" >>

TypeInv ==
  /\ query \in [ func  : {"none", "open", "closed"}, last : {"brace", "other"},
                 words : [Places -> SUBSET Words] ]
  /\ sema \in BOOLEAN /\ fns \in BOOLEAN /\ cpp \in BOOLEAN
  /\ checker \in {"none", "tester", "code"}
  /\ at \in { Checks[p] : p \in 1..5 } \cup {"wait", "kill", "analyze", "test", "end"}
  /\ outfile \in {"query", "cut", "cpp"}
  /\ outexe \in {"none", "cut", "cpp"}
  /\ status \in [phase : 0..5, is : VerdictTypes \cup {"UNCK"}]
  /\ shell \in {"none", "running", "exited", "killed"}
  /\ fuzzer \in {"none", "running", "exited"}
  /\ log \in Seq(Lines) /\ Len(log) <= MaxLog
  /\ ret \in {-1, 0, 1}
  /\ seen \in Seq(Lines)
  /\ tests \in Seq([shows : BOOLEAN, ok : BOOLEAN]) /\ Len(tests) <= Cases

-----------------------------------------------------------------------------
\* concat_queried_code puts the prompt before the answer.  Its lines become
\* comments, or the declarations among them do: a comment is no code, but
\* the checks below that search for words see it.
Concat(prompt, solution) ==
  [ func  |-> solution.func, last |-> solution.last,
    words |-> [p \in Places |-> IF p = "prompt" THEN prompt ELSE solution.words[p]] ]

\* reset(), and what main reads.
Init ==
  /\ \E p \in Prompts, s \in Solutions : query = Concat(p, s)
  /\ sema \in BOOLEAN /\ fns \in BOOLEAN /\ cpp \in BOOLEAN
  /\ checker \in IF cpp THEN {"none"} ELSE {"none", "tester", "code"}
  /\ at = "text_truncation"
  /\ outfile = "query" /\ outexe = "none"
  /\ status = [phase |-> 0, is |-> "UNCK"]
  /\ shell = "none" /\ fuzzer = "none"
  /\ log = << >> /\ ret = -1 /\ seen = << >>
  /\ tests = << >>

\* The file with this content has word w.
Mentions(code, w) ==
  \E p \in Places : w \in query.words[p] /\ (code = "query" \/ p # "rest")

\* Check number p ends with verdict v: the status file is written, and only
\* one that has passed is followed by the next.
Report(p, v) ==
  /\ status' = [phase |-> p, is |-> v]
  /\ at' = IF v = "PTCK" THEN Checks[p + 1] ELSE "end"

\* Mutant of Truncate: what was cut is not written back.
TruncateInMemory ==
  /\ at = "text_truncation"
  /\ \/ Report(1, "ERR-CORR") /\ UNCHANGED outfile
     \/ /\ query.func # "none" /\ query.last = "brace"
        /\ Report(1, "PTCK")
        /\ outfile' = "query"
  /\ UNCHANGED <<optionVars, outexe, fuzzVars, tests>>

\* text_truncation: libclang raises, or there is no function, or the line it
\* ends on does not end with a brace, or the API is nowhere in what is left.
Truncate ==
  /\ at = "text_truncation"
  /\ \/ Report(1, "ERR-CORR") /\ UNCHANGED outfile
     \/ /\ query.func # "none" /\ query.last = "brace" /\ Mentions("cut", "api")
        /\ Report(1, "PTCK")
        /\ outfile' = "cut"
  /\ UNCHANGED <<optionVars, outexe, fuzzVars, tests>>

\* Mutant of Compile: error_detected is not set.
CompileAndGoOn ==
  /\ at = "compile"
  /\ status' \in [phase : {2}, is : {"ERR-PRSE", "PTCK"}]
  /\ at' = "link"
  /\ UNCHANGED <<optionVars, fileVars, fuzzVars, tests>>

\* check_compile: libclang raises or finds an error, as it does in a function
\* that is not closed.
Compile ==
  /\ at = "compile"
  /\ \/ \E v \in {"ERR-CORR", "ERR-PRSE"} : Report(2, v)
     \/ query.func = "closed" /\ Report(2, "PTCK")
  /\ UNCHANGED <<optionVars, fileVars, fuzzVars, tests>>

\* Mutant of Link: the code is rewritten after the build.
LinkThenRewrite ==
  /\ at = "link"
  /\ \/ Report(3, "ERR-LINK") /\ UNCHANGED outexe
     \/ Report(3, "PTCK") /\ outexe' = outfile
  /\ outfile' = IF cpp THEN "cpp" ELSE outfile
  /\ UNCHANGED <<optionVars, fuzzVars, tests>>

\* check_link, with the rewriting of the driver of the C++ case.
Link ==
  /\ at = "link"
  /\ outfile' = IF cpp THEN "cpp" ELSE outfile
  /\ \/ Report(3, "ERR-LINK") /\ UNCHANGED outexe
     \/ Report(3, "PTCK") /\ outexe' = outfile'
  /\ UNCHANGED <<optionVars, fuzzVars, tests>>

-----------------------------------------------------------------------------
(***************************************************************************)
(* check_fuzz.                                                             *)
(***************************************************************************)

\* subprocess.Popen(["bash", "-x", "/tmp/fuzz.sh"])
StartFuzz ==
  /\ at = "fuzz"
  /\ shell' = "running" /\ fuzzer' = "running"
  /\ at' = "wait"
  /\ UNCHANGED <<optionVars, fileVars, log, ret, seen, status, tests>>

\* The fuzzer runs, until the container ends.
PrintLine ==
  /\ fuzzer = "running" /\ at # "end"
  /\ Len(log) < MaxLog
  /\ \E l \in Lines : log' = Append(log, l)
  /\ UNCHANGED <<optionVars, fileVars, shell, fuzzer, ret, seen, at, status, tests>>

\* It ends with status 0 or another one; the shell, if it is still there,
\* ends with the same status.
Exit ==
  /\ fuzzer = "running" /\ at # "end"
  /\ fuzzer' = "exited"
  /\ IF shell = "running" THEN shell' = "exited" /\ ret' \in {0, 1}
                          ELSE UNCHANGED <<shell, ret>>
  /\ UNCHANGED <<optionVars, fileVars, log, seen, at, status, tests>>

\* self.process.wait(timeout=90) returns
Waited ==
  /\ at = "wait"
  /\ shell = "exited"
  /\ at' = "analyze"
  /\ UNCHANGED <<optionVars, fileVars, fuzzVars, status, tests>>

\* Mutant of Expire: the wait has no timeout.
ExpireNever ==
  /\ at = "wait"
  /\ shell = "killed"
  /\ at' = "kill"
  /\ UNCHANGED <<optionVars, fileVars, fuzzVars, status, tests>>

\* Mutant of Expire: the log is read without a kill.
ExpireUnkilled ==
  /\ at = "wait"
  /\ shell = "running"
  /\ at' = "analyze"
  /\ UNCHANGED <<optionVars, fileVars, fuzzVars, status, tests>>

\* TimeoutExpired; the shell may still end before it is killed.
Expire ==
  /\ at = "wait"
  /\ shell = "running"
  /\ at' = "kill"
  /\ UNCHANGED <<optionVars, fileVars, fuzzVars, status, tests>>

\* self.process.kill() and poll(): a process that has ended is not killed,
\* one that was killed may or may not have been reaped by now.
Kill ==
  /\ at = "kill"
  /\ at' = "analyze"
  /\ IF shell = "running" THEN shell' = "killed" /\ ret' \in {-1, 1}
                          ELSE UNCHANGED <<shell, ret>>
  /\ UNCHANGED <<optionVars, fileVars, fuzzer, log, seen, status, tests>>

Has(lines, word) == \E i \in DOMAIN lines : lines[i].is = word

ShowsKnownBug(lines) == \E bug \in KnownBugs : \A word \in bug : Has(lines, word)

\* The last line with this word.
LastOf(lines, word) ==
  CHOOSE i \in DOMAIN lines : /\ lines[i].is = word
                              /\ \A j \in DOMAIN lines : lines[j].is = word => j <= i

\* The verdicts of a run with status 0: by the coverage of its INITED and
\* its DONE line, and an exception if one of them has none.
Effect(lines) ==
  IF ~Has(lines, "INITED") \/ ~Has(lines, "DONE") THEN "NOINIT-LOG"
  ELSE LET before == lines[LastOf(lines, "INITED")].cov
           after  == lines[LastOf(lines, "DONE")].cov
       IN  IF before = -1 \/ after = -1 THEN "UNK-EXP"
           ELSE IF before = after THEN "NONEFF" ELSE "PTCK"

\* Mutant of Oracle: "elif ret:", to which None is like 0.
OracleOfFalsy(r, lines) ==
  IF Has(lines, "hash") THEN "UNK-EXP"
  ELSE IF fns /\ ShowsKnownBug(lines) THEN "PTCK"
  ELSE IF Has(lines, "leak") THEN "MEMLEAK"
  ELSE IF Has(lines, "oom") THEN "OOM"
  ELSE IF r = 1 THEN "CRASH"
  ELSE Effect(lines)

\* FuzzErrVR.analyze_fuzz_result on what was read.  A line that begins with #
\* and has no blank leaves roundstr None, and int(None) raises, before anything
\* else is looked for.  Then a known bug of the API, when these are looked for,
\* comes before every oracle.
Oracle(r, lines) ==
  IF Has(lines, "hash") THEN "UNK-EXP"
  ELSE IF fns /\ ShowsKnownBug(lines) THEN "PTCK"
  ELSE IF Has(lines, "leak") THEN "MEMLEAK"
  ELSE IF Has(lines, "oom") THEN "OOM"
  ELSE IF r # 0 THEN "CRASH"
  ELSE Effect(lines)

\* The log is read, which may be too much for the memory, and judged.
Analyze ==
  /\ at = "analyze"
  /\ seen' = log
  /\ Report(4, Oracle(ret, log)) \/ Report(4, "CORR-LOG")
  /\ UNCHANGED <<optionVars, fileVars, shell, fuzzer, log, ret, tests>>

-----------------------------------------------------------------------------
(***************************************************************************)
(* check_semantic, for an API with at most one checker, as all have.       *)
(***************************************************************************)

\* Disabled, or no checker for this API.
NoSemantics ==
  /\ at = "semantic"
  /\ sema => checker = "none"
  /\ Report(5, "VAL")
  /\ UNCHANGED <<optionVars, fileVars, fuzzVars, tests>>

\* check_by_code_checker searches the whole file for the call.
CodeCheck ==
  /\ at = "semantic"
  /\ sema /\ checker = "code"
  /\ Report(5, IF Mentions(outfile, "msg") THEN "VAL" ELSE "ERR-SEMA")
  /\ UNCHANGED <<optionVars, fileVars, fuzzVars, tests>>

\* check_by_semantic_tester builds the hooked driver.
BuildTest ==
  /\ at = "semantic"
  /\ sema /\ checker = "tester"
  /\ \/ at' = "test" /\ UNCHANGED status
     \/ Report(5, "ERR-SEMA")
  /\ UNCHANGED <<optionVars, fileVars, fuzzVars, tests>>

\* do_check after these test cases: the first one that shows its content in
\* the API decides, by its exit status; one that fails without it is passed
\* over.  Without an answer the next case is run.
TestVerdict(results) ==
  LET latest == results[Len(results)]
  IN  IF latest.shows THEN IF latest.ok THEN "VAL" ELSE "ERR-SEMA"
      ELSE IF Len(results) = Cases THEN "ERR-SEMA" ELSE "PTCK"

\* do_test runs the hooked driver on the next case.  It may hang, for there
\* is no timeout here: then there is no such step.
RunTest ==
  /\ at = "test"
  /\ \E shows, ok \in BOOLEAN : tests' = Append(tests, [shows |-> shows, ok |-> ok])
  /\ IF TestVerdict(tests') = "PTCK" THEN UNCHANGED <<at, status>>
                                    ELSE Report(5, TestVerdict(tests'))
  /\ UNCHANGED <<optionVars, fileVars, fuzzVars>>

-----------------------------------------------------------------------------
\* validate_impl has returned.
Ended == at = "end" /\ UNCHANGED vars

Program ==
  Truncate \/ Compile \/ Link \/ StartFuzz \/ Waited \/ Expire \/ Kill \/ Analyze
  \/ NoSemantics \/ CodeCheck \/ BuildTest

Next == Program \/ RunTest \/ PrintLine \/ Exit \/ Ended

\* The program runs; libclang and the build come back.  Nothing is assumed of
\* the fuzzer and of the test cases, which run the driver.
Fairness == WF_vars(Program)

Spec     == Init /\ [][Next]_vars
FairSpec == Spec /\ Fairness

-----------------------------------------------------------------------------
(***************************************************************************)
(* Properties.                                                             *)
(***************************************************************************)

\* The run of the fuzzer is a success: it ended by itself with status 0, and
\* its whole log can be parsed and has a coverage that grew and no report of an
\* error.
CleanRun ==
  /\ shell = "exited" /\ ret = 0
  /\ ~Has(log, "hash")
  /\ ~Has(log, "leak") /\ ~Has(log, "oom")
  /\ Effect(log) = "PTCK"

\* A driver is valid only if its function is complete, and its fuzzer has
\* run well up to its end, or has shown a bug of the API that is known, and
\* the semantic checker of the API, if it is asked, was satisfied.  What the
\* fuzzer prints or does after it was given up, and a shell whose status is
\* not there yet, never make a driver valid.
ValidIsEarned ==
  status.is = "VAL" =>
    /\ query.func = "closed"
    /\ CleanRun \/ (fns /\ ShowsKnownBug(log))
    /\ sema /\ checker = "code" => Mentions(outfile, "msg")
    /\ sema /\ checker = "tester" =>
         \E i \in DOMAIN tests : tests[i].shows /\ tests[i].ok

\* From the link on, the executable that is run is built from the code in
\* the file, which the host stores with the verdict, cut at its function.
RunsWhatIsStored ==
  status.phase >= 3 /\ status.is # "ERR-LINK" => outexe = outfile /\ outfile # "query"

\* The fuzz check reads the log while the fuzzer may be writing it, yet what it
\* says holds of the run.  A driver whose run ended by itself is judged by all
\* that run has printed, and is not held wrong by this check if the run was a
\* success.  A run that was given up is never judged by its coverage, and passes
\* only if it had shown a known bug by the time it was read, whatever it prints
\* or does later.
JudgedByItsRun ==
  status.phase >= 4 /\ status.is # "CORR-LOG" =>
    /\ shell = "exited" =>
         /\ seen = log
         /\ CleanRun => status.is \in {"PTCK", "VAL", "ERR-SEMA"}
    /\ shell = "killed" =>
         /\ status.is \notin {"NONEFF", "NOINIT-LOG"}
         /\ status.is \in {"PTCK", "VAL", "ERR-SEMA"} => fns /\ ShowsKnownBug(seen)

\* The host sees the checks in their order, no check after an error, and VAL
\* after all of them only.
ImplementsPipeline == Pipeline!Spec

\* Whatever the fuzzer does, the validation ends, unless it gets to a test
\* case of a semantic tester, which runs without a timeout.
EndsOrTests == <>(at \in {"end", "test"})
=============================================================================
