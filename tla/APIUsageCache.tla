--------------------------- MODULE APIUsageCache ---------------------------
(***************************************************************************)
(* How a run of main.py or genQueries.py comes to the API usages of its    *)
(* target: APIUsage.buildAPIUsages (apiusage/libAPIUsage.py) loads them    *)
(* from apiusages.json, or builds this file first: a container lists the   *)
(* APIs (ContainerAnalyzer, libProjAnalyzer.py), their use is searched for *)
(* at sourcegraph (libSourceGraph.py), a second container collects the     *)
(* usages into the file, and the host adds the manual documents to it.     *)
(*                                                                         *)
(* All runs on a target share apiusages.json and sgusage.json; those of    *)
(* one program share a workdir too: para-iter-account-0- for main.py, solo *)
(* for genQueries.py.  A run may die at any line; its container goes on.   *)
(***************************************************************************)
EXTENDS Integers

CONSTANTS
  Runs,       \* runs of the programs on one target
  Program,    \* the program of each run
  MaxCrashes  \* bound: runs that die

CacheAssumption ==
  /\ Program \in [Runs -> {"main", "gen"}]
  /\ MaxCrashes \in Nat

Programs == {"main", "gen"}

VARIABLES
  pc,       \* [Runs -> ...] where the run is
  mode,     \* [Runs -> ...] the analysis it is at, params['anamode']
  box,      \* [Runs -> ...] self.docker, the container of its present analysis
  docs,     \* [Runs -> Nat] copies of the documents in its apiusages
  params,   \* [Programs -> ...] headerparampickle of the workdir
  result,   \* [Programs -> ...] projanaresult of the workdir
  sg,       \* sgusagejson
  cache,    \* apiusagecache
  env,      \* the target's fuzzdrivergpt image: its id, 0 if there is none
  crashes,  \* runs that died
  met,      \* history: runs that were active at the same time as another one
  spoiled   \* history: a build was cut, or runs were in each other's way

files   == <<params, result, sg, cache>>
history == <<met, spoiled>>
vars    == <<pc, mode, box, docs, files, env, crashes, history>>

Dir(r) == Program[r]

\* A file is absent, torn (truncated or half written), or whole; of the
\* usages it matters how often they have the manual documents.
Torn     == [is |-> "torn", docs |-> 0]
Whole(n) == [is |-> "whole", docs |-> n]

NoBox == [state |-> "none", at |-> "boot", mode |-> "list", image |-> 0]

Ends   == {"done", "raised", "misread", "crashed"}
Places == {"idle", "reset", "params", "run", "wait", "readlist", "crawl", "crawling",
           "crawlwrite", "readcache", "truncate", "write", "load"} \cup Ends

Box == [ state : {"none", "running", "exited", "failed"},
         at    : {"boot", "work", "open", "write"},
         mode  : {"list", "collect"},
         image : Nat ]

TypeInv ==
  /\ pc \in [Runs -> Places]
  /\ mode \in [Runs -> {"list", "collect"}]
  /\ box \in [Runs -> Box]
  /\ docs \in [Runs -> Nat]
  /\ params \in [Programs -> {"absent", "list", "collect"}]
  /\ result \in [Programs -> {"absent", "torn", "list"}]
  /\ sg \in {"absent", "torn", "whole"}
  /\ cache \in [is : {"absent", "torn", "whole"}, docs : Nat]
  /\ env \in Nat
  /\ crashes \in 0..MaxCrashes
  /\ met \subseteq Runs
  /\ spoiled \in BOOLEAN

Init ==
  /\ pc = [r \in Runs |-> "idle"]
  /\ mode = [r \in Runs |-> "list"]
  /\ box = [r \in Runs |-> NoBox]
  /\ docs = [r \in Runs |-> 0]
  /\ params = [d \in Programs |-> "absent"]
  /\ result = [d \in Programs |-> "absent"]
  /\ sg = "absent"
  /\ cache = [is |-> "absent", docs |-> 0]
  /\ env \in {0, 1}
  /\ crashes = 0
  /\ met = {}
  /\ spoiled = FALSE

BoxRuns(r) == box[r].state = "running"

\* The run, or the container it left, is at work.
Active(r) == pc[r] \notin {"idle"} \cup Ends \/ BoxRuns(r)

\* From the second container on, until the documents are in the cache.
Building(r) ==
  \/ pc[r] \in {"readcache", "truncate", "write"}
  \/ pc[r] = "wait" /\ mode[r] = "collect"
  \/ BoxRuns(r) /\ box[r].mode = "collect"

\* While the parameters in the workdir have to be its own.
Analysing(r) == pc[r] = "run" \/ BoxRuns(r)

\* Two runs in each other's way: both build, or both use the workdir.
Clash(r, q) ==
  /\ r # q
  /\ \/ Building(r) /\ Building(q)
     \/ Dir(r) = Dir(q) /\ Analysing(r) /\ Analysing(q)

GoTo(r, place) == pc' = [pc EXCEPT ![r] = place]

-----------------------------------------------------------------------------
(***************************************************************************)
(* The host: buildAPIUsages and the calls it makes.  Where the code raises *)
(* the run ends: "misread" if it was for a file that is missing or torn.   *)
(***************************************************************************)

\* main.py refuses to start without the image, genQueries.py does not look;
\* then an existing cache is loaded.
Start(r) ==
  /\ pc[r] = "idle"
  /\ GoTo(r, IF Program[r] = "main" /\ env = 0 THEN "raised"
             ELSE IF cache.is # "absent" THEN "load" ELSE "reset")
  /\ UNCHANGED <<mode, box, docs, files>>

\* ContainerAnalyzer(): BaseAnalyzer.reset looks for the result file and deletes
\* it; it raises when the file is gone by then.
Reset(r) ==
  /\ pc[r] = "reset"
  /\ result' = [result EXCEPT ![Dir(r)] = "absent"]
  /\ \E place \in {"params", "raised"} : GoTo(r, place)
  /\ UNCHANGED <<mode, box, docs, params, sg, cache>>

\* Mutant of WriteParams: parameters that are there are taken to be right.
WriteParamsOnce(r) ==
  /\ pc[r] = "params"
  /\ params' = [params EXCEPT ![Dir(r)] = IF @ = "absent" THEN mode[r] ELSE @]
  /\ GoTo(r, "run")
  /\ UNCHANGED <<mode, box, docs, result, sg, cache>>

\* analyze_wrap dumps configuration and parameters.
WriteParams(r) ==
  /\ pc[r] = "params"
  /\ params' = [params EXCEPT ![Dir(r)] = mode[r]]
  /\ GoTo(r, "run")
  /\ UNCHANGED <<mode, box, docs, result, sg, cache>>

\* containers.run needs the image, and may raise; so may the reload that
\* follows it.
RunBox(r) ==
  /\ pc[r] = "run"
  /\ \/ /\ env # 0
        /\ box' = [box EXCEPT ![r] = [NoBox EXCEPT !.state = "running", !.image = env]]
        /\ \E place \in {"wait", "raised"} : GoTo(r, place)
     \/ GoTo(r, "raised") /\ UNCHANGED box
  /\ UNCHANGED <<mode, docs, files>>

\* The wait has no limit.  A container that failed is left, and so is one
\* whose removal fails.
Wait(r) ==
  /\ pc[r] = "wait"
  /\ ~BoxRuns(r)
  /\ \/ /\ box[r].state = "exited"
        /\ box' = [box EXCEPT ![r] = NoBox]
        /\ GoTo(r, IF mode[r] = "list" THEN "readlist" ELSE "readcache")
     \/ GoTo(r, "raised") /\ UNCHANGED box
  /\ UNCHANGED <<mode, docs, files>>

\* get_ana_results: the list of APIs.
ReadList(r) ==
  /\ pc[r] = "readlist"
  /\ GoTo(r, IF result[Dir(r)] = "list" THEN "crawl" ELSE "misread")
  /\ UNCHANGED <<mode, box, docs, files>>

\* crawl_sg_usage loads what was found before, ...
Crawl(r) ==
  /\ pc[r] = "crawl"
  /\ GoTo(r, IF sg = "torn" THEN "misread" ELSE "crawling")
  /\ UNCHANGED <<mode, box, docs, files>>

\* ... asks for every API that is new until it is answered (do_sg_query), ...
CrawlAnswered(r) ==
  /\ pc[r] = "crawling"
  /\ sg' = "torn"
  /\ GoTo(r, "crawlwrite")
  /\ UNCHANGED <<mode, box, docs, params, result, cache>>

\* ... and rewrites the file.  Then the second analysis starts.
CrawlWrite(r) ==
  /\ pc[r] = "crawlwrite"
  /\ sg' = "whole"
  /\ mode' = [mode EXCEPT ![r] = "collect"]
  /\ GoTo(r, "params")
  /\ UNCHANGED <<box, docs, params, result, cache>>

\* The usages the container collected; the documents are added in memory.
ReadCache(r) ==
  /\ pc[r] = "readcache"
  /\ IF cache.is = "whole"
     THEN docs' = [docs EXCEPT ![r] = cache.docs + 1] /\ GoTo(r, "truncate")
     ELSE GoTo(r, "misread") /\ UNCHANGED docs
  /\ UNCHANGED <<mode, box, files>>

\* open(apiusagecache, 'w')
Truncate(r) ==
  /\ pc[r] = "truncate"
  /\ cache' = Torn
  /\ GoTo(r, "write")
  /\ UNCHANGED <<mode, box, docs, params, result, sg>>

WriteCache(r) ==
  /\ pc[r] = "write"
  /\ cache' = Whole(docs[r])
  /\ GoTo(r, "load")
  /\ UNCHANGED <<mode, box, docs, params, result, sg>>

\* loadAPIUsagesFromFiles
Load(r) ==
  /\ pc[r] = "load"
  /\ IF cache.is = "whole"
     THEN docs' = [docs EXCEPT ![r] = cache.docs] /\ GoTo(r, "done")
     ELSE GoTo(r, "misread") /\ UNCHANGED docs
  /\ UNCHANGED <<mode, box, files>>

\* The process is killed; its container was started detached, and stays.
Crash(r) ==
  /\ pc[r] \notin {"idle"} \cup Ends
  /\ crashes < MaxCrashes
  /\ crashes' = crashes + 1
  /\ GoTo(r, "crashed")
  /\ UNCHANGED <<mode, box, docs, files>>

-----------------------------------------------------------------------------
(***************************************************************************)
(* libProjAnalyzer.py in the container of run r.                           *)
(***************************************************************************)
BoxAt(r, place) == BoxRuns(r) /\ box[r].at = place

\* The parameters that are there now, whoever wrote them; reset().
Boot(r) ==
  /\ BoxAt(r, "boot")
  /\ box' = [box EXCEPT ![r].mode = params[Dir(r)], ![r].at = "work"]
  /\ result' = [result EXCEPT ![Dir(r)] = "absent"]
  /\ UNCHANGED <<pc, mode, docs, params, sg, cache>>

\* The analysis; 'collectapiusage' reads what sourcegraph found.
Work(r) ==
  /\ BoxAt(r, "work")
  /\ box[r].mode = "collect" => sg # "torn"
  /\ box' = [box EXCEPT ![r].at = "open"]
  /\ UNCHANGED <<pc, mode, docs, files>>

OpenOutput(r) ==
  /\ BoxAt(r, "open")
  /\ box' = [box EXCEPT ![r].at = "write"]
  /\ IF box[r].mode = "list"
     THEN result' = [result EXCEPT ![Dir(r)] = "torn"] /\ UNCHANGED cache
     ELSE cache' = Torn /\ UNCHANGED result
  /\ UNCHANGED <<pc, mode, docs, params, sg>>

WriteOutput(r) ==
  /\ BoxAt(r, "write")
  /\ box' = [box EXCEPT ![r].state = "exited", ![r].at = "boot", ![r].mode = "list"]
  /\ IF box[r].mode = "list"
     THEN result' = [result EXCEPT ![Dir(r)] = "list"] /\ UNCHANGED cache
     ELSE cache' = Whole(0) /\ UNCHANGED result
  /\ UNCHANGED <<pc, mode, docs, params, sg>>

\* The program raises or is killed: the setup of java, the analysis, a torn
\* parameter or input file, the container itself.
BoxFails(r) ==
  /\ BoxRuns(r)
  /\ box' = [box EXCEPT ![r].state = "failed", ![r].at = "boot", ![r].mode = "list"]
  /\ UNCHANGED <<pc, mode, docs, files>>

-----------------------------------------------------------------------------
Host(r) ==
  \/ Start(r) \/ Reset(r) \/ WriteParams(r) \/ RunBox(r) \/ Wait(r) \/ ReadList(r)
  \/ Crawl(r) \/ CrawlAnswered(r) \/ CrawlWrite(r) \/ ReadCache(r) \/ Truncate(r)
  \/ WriteCache(r) \/ Load(r)

Container(r) == Boot(r) \/ Work(r) \/ OpenOutput(r) \/ WriteOutput(r) \/ BoxFails(r)

\* A build ends without having reached the load, and leaves something in the
\* cache; or the search results are not rewritten.
Cut(r) ==
  \/ Building(r) /\ ~Building(r)' /\ pc'[r] # "load" /\ cache'.is # "absent"
  \/ pc[r] = "crawlwrite" /\ pc'[r] = "crashed"

\* The two history variables follow every step.
Watch ==
  /\ met' = met \cup { r \in Runs : Active(r)' /\ \E q \in Runs \ {r} : Active(q)' }
  /\ spoiled' = \/ spoiled
                \/ \E r \in Runs : Cut(r)
                \/ \E r, q \in Runs : Clash(r, q)'

HostStep(r)      == Host(r) /\ UNCHANGED crashes /\ Watch
ContainerStep(r) == Container(r) /\ UNCHANGED crashes /\ Watch

Step(r) == HostStep(r) \/ ContainerStep(r) \/ (Crash(r) /\ Watch)

-----------------------------------------------------------------------------
(***************************************************************************)
(* Properties.                                                             *)
(***************************************************************************)

\* A run that met no other one finds every file as it needs it, and loads
\* usages with the manual documents in them, once, unless an earlier build
\* was cut or had another run in its way: nothing an earlier run left in the
\* workdir, its analyses failed or not, is taken for its own.
UndisturbedRunIsWell ==
  \A r \in Runs \ met :
    ~spoiled => /\ pc[r] # "misread"
                /\ pc[r] = "done" => docs[r] = 1
=============================================================================
