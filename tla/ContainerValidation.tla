------------------------ MODULE ContainerValidation ------------------------
(***************************************************************************)
(* One task of the validation: validate_do_func of validateQueries.py runs *)
(* a docker container for each solution of the task, one after the other,  *)
(* in one workdir.  The host (ContainerValidator) and the program in the   *)
(* container (libValidator.py) talk only through files in that directory:  *)
(* outfile, the driver; outexe, what is built from it; statusfile, the     *)
(* verdict.  A task that raises makes its script fail, and the script is   *)
(* run again (_do_validation_locally) with the same workdir.               *)
(*                                                                         *)
(* The code of a driver is the number of its solution; 0 stands for no     *)
(* file, and for one that was opened to be written and holds nothing or a  *)
(* part of the code so far.                                                *)
(***************************************************************************)
EXTENDS Integers, FiniteSets, Sequences

CONSTANTS
  Solutions,    \* number of solutions of the task
  MaxAttempts,  \* bound: runs of the task
  MaxFaults     \* bound: requests to the docker daemon that fail

ASSUME ContainerAssumption ==
  /\ Solutions \in Nat \ {0}
  /\ MaxAttempts \in Nat \ {0}
  /\ MaxFaults \in Nat

Codes    == 0..Solutions
Boxes    == 1..(Solutions * MaxAttempts)   \* containers, as they are created
Phases   == << "text_truncation", "compile", "link", "fuzz", "semantic" >>
Verdicts == { "PTCK", "VAL", "ERR" }   \* "ERR": that of the phase, see CheckPipeline
Final    == { "VAL", "ERR" }

\* What the status file holds: no file, a file that was truncated or partly
\* written, or a verdict and the code it is about.
NoStatus == [is |-> "absent", of |-> 0]
Partial  == [is |-> "partial", of |-> 0]

VARIABLES
  host,        \* where validate_do_func is
  sol,         \* sidx: the solution being validated
  attempt,     \* runs of the task so far
  made,        \* containers created so far
  docker,      \* self.docker, 0 for None
  read,        \* status, as read by the host
  validated,   \* vali_rslt
  box,         \* [Boxes -> ...] the containers
  outfile, outexe, statusfile,   \* the shared files
  faults,      \* failed requests so far
  shared,      \* history: a container outlived its task and kept the workdir
  cut          \* history: solutions whose container was killed, and why

hostVars == <<host, sol, attempt, docker, read, validated>>
fileVars == <<outfile, outexe, statusfile>>
vars == <<hostVars, fileVars, made, box, faults, shared, cut>>

Box == [ state    : {"none", "running", "exited", "failed", "killed", "removed"},
         at       : {"boot", "reset", "rewrite", "rewriting", "check", "open", "write"},
         attached : BOOLEAN,            \* its mount is the present workdir
         code     : Codes,              \* query
         phase    : 1..Len(Phases),
         verdict  : Verdicts,           \* self.status
         of       : Codes ]

TypeInv ==
  /\ host \in { "reset", "update", "run", "wait", "kill", "status", "remove",
                "cleanup", "done", "failed" }
  /\ sol \in 1..Solutions
  /\ attempt \in 1..MaxAttempts
  /\ made \in 0..(Solutions * MaxAttempts)
  /\ docker \in 0..made
  /\ read \in [is : Verdicts \cup {"absent", "none"}, of : Codes, code : Codes]
  /\ validated \in [1..Solutions -> [is : Verdicts \cup {"absent", "none"},
                                     of : Codes, code : Codes]]
  /\ box \in [Boxes -> Box]
  /\ outfile \in Codes
  /\ outexe \in Codes
  /\ statusfile \in [is : Verdicts \cup {"absent", "partial"}, of : Codes]
  /\ faults \in 0..MaxFaults
  /\ shared \in BOOLEAN
  /\ cut \in [1..Solutions -> {"no", "timeout", "fault"}]

NoResult == [is |-> "none", of |-> 0, code |-> 0]
NewBox == [ state |-> "none", at |-> "boot", attached |-> TRUE, code |-> 0,
            phase |-> 1, verdict |-> "PTCK", of |-> 0 ]

Init ==
  /\ host = "reset" /\ sol = 1 /\ attempt = 1
  /\ made = 0 /\ docker = 0
  /\ read = NoResult
  /\ validated = [s \in 1..Solutions |-> NoResult]
  /\ box = [b \in Boxes |-> NewBox]
  /\ outfile = 0 /\ outexe = 0 /\ statusfile = NoStatus
  /\ faults = 0
  /\ shared = FALSE
  /\ cut = [s \in 1..Solutions |-> "no"]

\* A container that is about to run, or has stopped: nothing of its past
\* matters any more.
WithState(state) == [NewBox EXCEPT !.state = state]

\* One that lost its workdir: every access to a file raises, nothing more.
Detached(b) == IF box[b].state = "running"
               THEN [WithState("running") EXCEPT !.attached = FALSE]
               ELSE box[b]

Running(b)  == box[b].state = "running"
Leftovers   == { b \in Boxes : Running(b) /\ box[b].attached }

\* A request to the docker daemon fails.
Fault == faults < MaxFaults /\ faults' = faults + 1

-----------------------------------------------------------------------------
(***************************************************************************)
(* The host.                                                               *)
(***************************************************************************)

\* Mutant of NoFiles: the status file stays.
NoFilesButStatus == outfile' = 0 /\ outexe' = 0 /\ UNCHANGED statusfile

\* The files that reset() deletes.
NoFiles == outfile' = 0 /\ outexe' = 0 /\ statusfile' = NoStatus

\* The workdir is removed and made anew, which takes it from the containers
\* that still have it mounted; but rmtree ignores its errors, and one that
\* writes at the same time may keep the directory in place.  reset() deletes
\* the files in any case.
CleanWorkdir ==
  /\ NoFiles
  /\ \/ /\ box' = [b \in Boxes |-> Detached(b)]
        /\ UNCHANGED shared
     \/ /\ Leftovers # {}
        /\ shared' = TRUE
        /\ UNCHANGED box

\* reset_fuzz() before the solution; an error of docker.remove is eaten.
ResetFuzz ==
  /\ host = "reset"
  /\ CleanWorkdir
  /\ docker' = 0
  /\ host' = "update"
  /\ UNCHANGED <<sol, attempt, made, read, validated, faults, cut>>

\* pickleTo and update_code; no container of this task is there yet to see
\* the file between its opening and the end of the writing.
UpdateCode ==
  /\ host = "update"
  /\ outfile' = sol
  /\ host' = "run"
  /\ UNCHANGED <<sol, attempt, made, docker, read, validated, box, outexe,
                 statusfile, faults, shared, cut>>

\* containers.run and the first reload; when one of them raises, the task
\* does, and after a failed reload the container runs on.
Run ==
  /\ host = "run"
  /\ \/ /\ made' = made + 1
        /\ docker' = made'
        /\ box' = [box EXCEPT ![made'] = WithState("running")]
        /\ \/ host' = "wait" /\ UNCHANGED faults
           \/ Fault /\ host' = "failed"
     \/ /\ Fault
        /\ host' = "failed"
        /\ UNCHANGED <<made, docker, box>>
  /\ UNCHANGED <<sol, attempt, read, validated, fileVars, shared, cut>>

\* Mutant of Wait: the wait has no timeout.
WaitForever ==
  /\ host = "wait"
  /\ ~Running(docker)
  /\ host' = IF box[docker].state = "exited" THEN "status" ELSE "kill"
  /\ UNCHANGED <<sol, attempt, docker, read, validated, fileVars, made, box,
                 faults, shared, cut>>

\* Mutant of Wait: the exit status of the container is not looked at.
WaitAnyStatus ==
  /\ host = "wait"
  /\ \/ ~Running(docker) /\ host' = "status" /\ UNCHANGED cut
     \/ Running(docker) /\ host' = "kill" /\ cut' = [cut EXCEPT ![sol] = "timeout"]
  /\ UNCHANGED <<sol, attempt, docker, read, validated, fileVars, made, box,
                 faults, shared>>

\* docker_wait_and_kill up to its kill: the wait ends with the container or
\* after 120 seconds, or a request fails; only exit status 0 spares the kill.
Wait ==
  /\ host = "wait"
  /\ \/ /\ ~Running(docker)
        /\ host' = IF box[docker].state = "exited" THEN "status" ELSE "kill"
        /\ UNCHANGED <<faults, cut>>
     \/ /\ Running(docker)
        /\ host' = "kill"
        /\ cut' = [cut EXCEPT ![sol] = "timeout"]
        /\ UNCHANGED faults
     \/ /\ Fault
        /\ host' = "kill"
        /\ cut' = [cut EXCEPT ![sol] = "fault"]
  /\ UNCHANGED <<sol, attempt, docker, read, validated, fileVars, made, box, shared>>

\* docker_ref.kill() raises for a container that does not run any more.
Kill ==
  /\ host = "kill"
  /\ \/ /\ Running(docker)
        /\ box' = [box EXCEPT ![docker] = WithState("killed")]
        /\ host' = "status"
        /\ UNCHANGED faults
     \/ /\ ~Running(docker)
        /\ host' = "failed"
        /\ UNCHANGED <<box, faults>>
     \/ Fault /\ host' = "failed" /\ UNCHANGED box
  /\ UNCHANGED <<sol, attempt, docker, read, validated, fileVars, made, shared, cut>>

\* Mutant of GetValiStatus: a partial file is taken for a status.
GetValiStatusLenient ==
  /\ host = "status"
  /\ host' = "remove"
  /\ read' = [is |-> statusfile.is, of |-> statusfile.of, code |-> outfile]
  /\ UNCHANGED <<sol, attempt, docker, validated, fileVars, made, box, faults,
                 shared, cut>>

\* get_vali_status: json.load raises on a partial file; the code is read back
\* from outfile.
GetValiStatus ==
  /\ host = "status"
  /\ IF statusfile.is = "partial"
     THEN host' = "failed" /\ UNCHANGED read
     ELSE /\ host' = "remove"
          /\ read' = [is |-> statusfile.is, of |-> statusfile.of, code |-> outfile]
  /\ UNCHANGED <<sol, attempt, docker, validated, fileVars, made, box, faults,
                 shared, cut>>

\* Mutant of Remove: the container is left to reset_fuzz, which only tries
\* while docker is set.
RemoveLater ==
  /\ host = "remove"
  /\ docker' = 0
  /\ host' = "cleanup"
  /\ UNCHANGED <<sol, attempt, read, validated, fileVars, made, box, faults, shared, cut>>

\* docker.remove(force=True)
Remove ==
  /\ host = "remove"
  /\ \/ /\ box' = [box EXCEPT ![docker] = WithState("removed")]
        /\ host' = "cleanup"
        /\ UNCHANGED faults
     \/ Fault /\ host' = "failed" /\ UNCHANGED box
  /\ UNCHANGED <<sol, attempt, docker, read, validated, fileVars, made, shared, cut>>

\* reset_fuzz() after the solution, the entry in vali_rslt, and the loop.
Cleanup ==
  /\ host = "cleanup"
  /\ CleanWorkdir
  /\ docker' = 0
  /\ validated' = [validated EXCEPT ![sol] = read]
  /\ read' = NoResult
  /\ IF sol < Solutions THEN sol' = sol + 1 /\ host' = "reset"
                        ELSE host' = "done" /\ UNCHANGED sol
  /\ UNCHANGED <<attempt, made, faults, cut>>

\* The task raised: it is run again from its first solution.  The reset() of
\* the new ContainerValidator deletes the files, its docker is None.
Retry ==
  /\ host = "failed"
  /\ attempt < MaxAttempts
  /\ attempt' = attempt + 1
  /\ host' = "reset"
  /\ sol' = 1
  /\ docker' = 0
  /\ validated' = [s \in 1..Solutions |-> NoResult]
  /\ cut' = [s \in 1..Solutions |-> "no"]
  /\ NoFiles
  /\ read' = NoResult
  /\ UNCHANGED <<made, box, faults, shared>>

-----------------------------------------------------------------------------
(***************************************************************************)
(* libValidator.py in container b.                                         *)
(***************************************************************************)
At(b, loc) == Running(b) /\ box[b].attached /\ box[b].at = loc

\* main reads outfile, and raises if there is none; a file that another
\* container is writing is read as far as it is written.
Boot(b) ==
  /\ At(b, "boot")
  /\ \/ outfile = 0 /\ box' = [box EXCEPT ![b] = WithState("failed")]
     \/ box' = [box EXCEPT ![b].code = outfile, ![b].at = "reset"]
  /\ UNCHANGED <<hostVars, fileVars, made, faults, shared, cut>>

\* reset(), by the constructor and by validate_impl.
ResetBox(b) ==
  /\ At(b, "reset")
  /\ NoFiles
  /\ box' = [box EXCEPT ![b].at = "rewrite"]
  /\ UNCHANGED <<hostVars, made, faults, shared, cut>>

\* text_truncation calls update_code, which opens the file and so truncates it.
\* Two later writes of the same code are left out: that of the truncated code
\* when text_truncation passes, before the status is written, where a kill
\* leaves what a kill here does, and that of check_link for one igraph API
\* (DriverChecks has it).
OpenCode(b) ==
  /\ At(b, "rewrite")
  /\ outfile' = 0
  /\ box' = [box EXCEPT ![b].at = "rewriting"]
  /\ UNCHANGED <<hostVars, outexe, statusfile, made, faults, shared, cut>>

\* The code is in the file; the program does not need its own copy again,
\* which the 0 stands for.
Rewrite(b) ==
  /\ At(b, "rewriting")
  /\ outfile' = box[b].code
  /\ box' = [box EXCEPT ![b].at = "check", ![b].code = 0]
  /\ UNCHANGED <<hostVars, outexe, statusfile, made, faults, shared, cut>>

\* The phase passes ("Partly checked" before the last one) or finds an error;
\* a link that passes leaves the executable, which is what fuzz looks at.
Check(b) ==
  LET p       == box[b].phase
      subject == IF Phases[p] = "fuzz" THEN outexe ELSE outfile
      passed  == IF p = Len(Phases) THEN "VAL" ELSE "PTCK"
  IN  /\ At(b, "check")
      /\ \E v \in {passed, "ERR"} :
           /\ box' = [box EXCEPT ![b].verdict = v, ![b].of = subject, ![b].at = "open"]
           /\ outexe' = IF Phases[p] = "link" /\ v = passed THEN outfile ELSE outexe
      /\ UNCHANGED <<hostVars, outfile, statusfile, made, faults, shared, cut>>

\* sync_statusfile: open(statusfile, 'w') truncates the file.
OpenStatus(b) ==
  /\ At(b, "open")
  /\ statusfile' = Partial
  /\ box' = [box EXCEPT ![b].at = "write"]
  /\ UNCHANGED <<hostVars, outfile, outexe, made, faults, shared, cut>>

\* The status is written; the next phase, which forgets what this one looked
\* at, or exit status 0.
WriteStatus(b) ==
  /\ At(b, "write")
  /\ statusfile' = [is |-> box[b].verdict, of |-> box[b].of]
  /\ box' = IF box[b].verdict = "PTCK"
            THEN [box EXCEPT ![b].phase = @ + 1, ![b].at = "check", ![b].of = 0]
            ELSE [box EXCEPT ![b] = WithState("exited")]
  /\ UNCHANGED <<hostVars, outfile, outexe, made, faults, shared, cut>>

\* The program raises, crashes with libclang or the driver's build, or finds
\* its workdir gone.  It may also hang, for which there is no step.
Die(b) ==
  /\ Running(b)
  /\ box' = [box EXCEPT ![b] = WithState("failed")]
  /\ UNCHANGED <<hostVars, fileVars, made, faults, shared, cut>>

-----------------------------------------------------------------------------
\* The task has returned, or is given up.
Ended ==
  /\ host = "done" \/ (host = "failed" /\ attempt = MaxAttempts)
  /\ UNCHANGED vars

Host ==
  ResetFuzz \/ UpdateCode \/ Run \/ Wait \/ Kill \/ GetValiStatus \/ Remove
  \/ Cleanup \/ Retry

Container(b) ==
  Boot(b) \/ ResetBox(b) \/ OpenCode(b) \/ Rewrite(b) \/ Check(b)
  \/ OpenStatus(b) \/ WriteStatus(b) \/ Die(b)

Next == Host \/ (\E b \in Boxes : Container(b)) \/ Ended

\* The host's process is scheduled.  Nothing is assumed of the containers,
\* which run code that a model wrote.
Fairness == WF_vars(Host)

Spec     == Init /\ [][Next]_vars
FairSpec == Spec /\ Fairness

-----------------------------------------------------------------------------
(***************************************************************************)
(* Properties.                                                             *)
(***************************************************************************)
Recorded(s) == validated[s].is # "none"

\* The verdict recorded for a solution, and the code stored with it, are of
\* that solution and of no other one of the task, whatever was killed and
\* retried before, unless a container that was left running kept the workdir;
\* and a driver that a kill left missing or half written in its file is never
\* stored with a final verdict.
OwnVerdict ==
  \A s \in 1..Solutions :
    Recorded(s) /\ ~shared =>
      /\ {validated[s].of, validated[s].code} \subseteq {0, s}
      /\ validated[s].is \in Final => validated[s].of = s /\ validated[s].code = s

\* A verdict that is not final (partly checked, or no status file at all) is
\* recorded only for a solution whose container the host has stopped.
UnsettledOnlyIfCut ==
  \A s \in 1..Solutions :
    validated[s].is \in {"PTCK", "absent"} => cut[s] # "no" \/ shared

\* Whatever is recorded, no container is left behind for it: every attempt
\* that failed leaves at most one, and the running attempt has at most one.
AtMostOneLeftPerAttempt ==
  Cardinality({ b \in Boxes : box[b].state \notin {"none", "removed"} })
    <= IF host = "done" THEN attempt - 1 ELSE attempt

\* A container runs beside the one the host waits for only after a request
\* to the docker daemon failed.
RunsAloneUnlessFault ==
  Cardinality({ b \in Boxes : Running(b) /\ b # docker }) <= faults

\* Containers do not pile up, nor run side by side, over the faults, timeouts
\* and retries of a task.
NothingPilesUp == AtMostOneLeftPerAttempt /\ RunsAloneUnlessFault

\* A container that hangs does not hold the task.
TaskEnds == <>(host = "done" \/ (host = "failed" /\ attempt = MaxAttempts))
=============================================================================
