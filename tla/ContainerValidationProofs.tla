--------------------- MODULE ContainerValidationProofs ---------------------
(***************************************************************************)
(* What is proved of the validation in containers for any number of        *)
(* solutions, attempts and faults: its types, whose verdicts are recorded, *)
(* and how many containers are left. The argument: as long as no container *)
(* keeps the workdir, the files, and what the container read from them,    *)
(* are of the solution the host is at or of none.                          *)
(***************************************************************************)
EXTENDS ContainerValidation, FiniteSetTheorems, TLAPS

(***************************************************************************)
(* The inductive invariant.                                                *)
(***************************************************************************)
Waiting == {"wait", "kill", "status", "remove", "cleanup"}

\* Only a phase before the last one ends with "Partly checked".
Proper(x) == x.at \in {"open", "write"} /\ x.verdict = "PTCK" => x.phase < Len(Phases)

\* The container the host is at, and what has become of it.
DockerInStep ==
  /\ \A b \in Boxes : box[b].state = "none" <=> b > made
  /\ \A b \in Boxes : Proper(box[b])
  /\ host \in {"reset", "update", "run", "done"} => docker = 0
  /\ host \in Waiting => docker # 0
  /\ host \in {"wait", "kill"} => box[docker].state \in {"running", "exited", "failed"}
  /\ host \in {"status", "remove"} => box[docker].state \in {"exited", "killed"}
  /\ host = "cleanup" => box[docker].state = "removed"

\* There is a container left for every solution to come.
EnoughBoxes ==
  made <= (attempt - 1) * Solutions
          + (IF host \in {"reset", "update", "run"} THEN sol - 1 ELSE sol)

\* The files hold something of the present solution or nothing; a final
\* verdict comes with the driver it is about.
FilesAreOwn ==
  /\ {outfile, outexe, statusfile.of} \subseteq {0, sol}
  /\ statusfile.is \in Final => statusfile.of = sol /\ outfile = sol

\* Container b works on the present solution: it finds the driver, or has it in
\* hand while the file is deleted and written; what it found is about it.
WorksOnOwn(b) ==
  /\ {box[b].code, box[b].of} \subseteq {0, sol}
  /\ box[b].at \in {"boot", "check", "open", "write"} => outfile = sol
  /\ box[b].at \in {"reset", "rewrite", "rewriting"} => box[b].code = sol
  /\ box[b].at \in {"boot", "reset", "rewrite", "rewriting"} => box[b].phase = 1
  /\ \/ box[b].phase > 3
     \/ box[b].phase = 3 /\ box[b].at \in {"open", "write"} /\ box[b].verdict = "PTCK"
     => outexe = sol
  /\ box[b].at \in {"open", "write"} => box[b].of = sol
  /\ statusfile.is \notin Final

\* The workdir belongs to the present container, which is about its solution.
WorkdirIsOwn ==
  ~shared =>
    /\ host \in {"update", "run"} => Leftovers = {}
    /\ host \in {"update", "run"} => outexe = 0 /\ statusfile = NoStatus
    /\ host = "run" => outfile = sol
    /\ host \in {"run"} \cup Waiting =>
         /\ Leftovers \subseteq {docker}
         /\ FilesAreOwn
         /\ \A b \in Leftovers : WorksOnOwn(b)
    /\ host \in {"remove", "cleanup"} =>
         /\ {read.of, read.code} \subseteq {0, sol}
         /\ read.is \in Final => read.of = sol /\ read.code = sol

\* A container that ended by itself has left a final verdict.
ExitIsFinal ==
  /\ host \in {"kill", "status"} /\ cut[sol] = "no" =>
       ~Running(docker) /\ (host = "status" => box[docker].state = "exited")
  /\ ~shared =>
       /\ host \in {"wait", "kill", "status"} /\ box[docker].state = "exited" =>
            statusfile.is \in {"VAL", "ERR"}
       /\ host \in {"remove", "cleanup"} /\ cut[sol] = "no" => read.is \in {"VAL", "ERR"}

\* The containers that still exist, and those that run unattended.
Left    == { b \in Boxes : box[b].state \notin {"none", "removed"} }
Strayed == { b \in Boxes : Running(b) /\ b # docker }

Counts ==
  /\ Cardinality(Left) <= IF host \in {"wait", "kill", "status", "remove", "failed"}
                          THEN attempt ELSE attempt - 1
  /\ Cardinality(Strayed) <= IF host = "failed" /\ docker # 0 /\ Running(docker)
                             THEN faults - 1 ELSE faults

IndInv ==
  /\ TypeInv
  /\ DockerInStep
  /\ EnoughBoxes
  /\ WorkdirIsOwn
  /\ ExitIsFinal
  /\ OwnVerdict
  /\ UnsettledOnlyIfCut

-----------------------------------------------------------------------------
(***************************************************************************)
(* Arithmetic of the containers, and the records.                          *)
(***************************************************************************)

\* The attempts up to this one need no more containers than there are.
LEMMA BoxesSuffice ==
  ASSUME NEW a \in 1..MaxAttempts
  PROVE  /\ (a - 1) * Solutions \in Nat
         /\ (a - 1) * Solutions + Solutions = a * Solutions
         /\ a * Solutions \in Nat
         /\ a * Solutions <= Solutions * MaxAttempts
         /\ Solutions * MaxAttempts \in Nat
<1>1. /\ a \in Nat \ {0} /\ a - 1 \in Nat /\ MaxAttempts - a \in Nat
      /\ Solutions \in Nat /\ MaxAttempts \in Nat
  BY ContainerAssumption
<1>2. \A m, n \in Nat : m * n \in Nat /\ m * n = n * m
  OBVIOUS
<1>3. (a - 1) * Solutions + Solutions = a * Solutions
  BY <1>1
<1>4. Solutions * MaxAttempts = a * Solutions + (MaxAttempts - a) * Solutions
  BY <1>1
<1>5. /\ (a - 1) * Solutions \in Nat /\ a * Solutions \in Nat
      /\ (MaxAttempts - a) * Solutions \in Nat /\ Solutions * MaxAttempts \in Nat
  BY <1>1, <1>2
<1> QED
  BY <1>3, <1>4, <1>5

\* A container in any state is a box, at rest, with the code and verdict 0.
LEMMA StatesAreBoxes ==
  /\ \A s \in {"none", "running", "exited", "failed", "killed", "removed"} :
       /\ WithState(s) \in Box
       /\ WithState(s).state = s /\ WithState(s).at = "boot" /\ WithState(s).attached
       /\ WithState(s).code = 0 /\ WithState(s).of = 0 /\ WithState(s).phase = 1
       /\ Proper(WithState(s))
  /\ \A b \in Boxes : box[b] \in Box =>
       /\ Detached(b) \in Box /\ Detached(b).state = box[b].state
       /\ Detached(b).state = "running" => ~Detached(b).attached
       /\ Proper(box[b]) => Proper(Detached(b))
<1>1. NewBox \in Box
  BY ContainerAssumption DEF NewBox, Box, Codes, Phases, Verdicts
<1>2. \A s \in {"none", "running", "exited", "failed", "killed", "removed"} :
        /\ WithState(s) \in Box
        /\ WithState(s).state = s /\ WithState(s).at = "boot" /\ WithState(s).attached
        /\ WithState(s).code = 0 /\ WithState(s).of = 0 /\ WithState(s).phase = 1
       /\ Proper(WithState(s))
  BY <1>1 DEF WithState, NewBox, Box, Proper
<1>3. ASSUME NEW b \in Boxes, box[b] \in Box
      PROVE  /\ Detached(b) \in Box /\ Detached(b).state = box[b].state
             /\ Detached(b).state = "running" => ~Detached(b).attached
             /\ Proper(box[b]) => Proper(Detached(b))
  <2>1. [WithState("running") EXCEPT !.attached = FALSE] \in Box
    BY <1>2 DEF Box
  <2>2. /\ [WithState("running") EXCEPT !.attached = FALSE].state = "running"
        /\ [WithState("running") EXCEPT !.attached = FALSE].attached = FALSE
        /\ Proper([WithState("running") EXCEPT !.attached = FALSE])
    BY <1>2 DEF Box, Proper
  <2> QED
    BY <1>3, <2>1, <2>2 DEF Detached
<1> QED
  BY <1>2, <1>3

-----------------------------------------------------------------------------
(***************************************************************************)
(* The steps of the host.                                                  *)
(***************************************************************************)
LEMMA InitHolds == Init => IndInv
<1> SUFFICES ASSUME Init PROVE IndInv
  OBVIOUS
<1> USE ContainerAssumption
<1>1. /\ NewBox \in Box /\ NewBox.state = "none" /\ Proper(NewBox)
      /\ 1 \in 1..MaxAttempts /\ 1 \in 1..Solutions
  BY DEF NewBox, Box, Codes, Phases, Verdicts, Proper
<1>2. Solutions * MaxAttempts \in Nat
  BY <1>1, BoxesSuffice
<1>3. TypeInv
  <2>1. NoResult \in [is : Verdicts \cup {"absent", "none"}, of : Codes, code : Codes]
    BY DEF NoResult, Codes
  <2>2. NoStatus \in [is : Verdicts \cup {"absent", "partial"}, of : Codes]
    BY DEF NoStatus, Codes
  <2>3. /\ box \in [Boxes -> Box] /\ cut \in [1..Solutions -> {"no", "timeout", "fault"}]
        /\ made \in 0..(Solutions * MaxAttempts) /\ docker \in 0..made
    BY <1>1, <1>2 DEF Init
  <2>4. /\ read \in [is : Verdicts \cup {"absent", "none"}, of : Codes, code : Codes]
        /\ validated \in [1..Solutions -> [is : Verdicts \cup {"absent", "none"},
                                           of : Codes, code : Codes]]
        /\ statusfile \in [is : Verdicts \cup {"absent", "partial"}, of : Codes]
    BY <2>1, <2>2 DEF Init
  <2>5. /\ host = "reset" /\ sol \in 1..Solutions /\ attempt \in 1..MaxAttempts
        /\ outfile \in Codes /\ outexe \in Codes
        /\ faults \in 0..MaxFaults
    BY <1>1 DEF Init, Codes
  <2>6. shared \in BOOLEAN
    BY DEF Init
  <2> QED
    BY <2>3, <2>4, <2>5, <2>6 DEF TypeInv
<1>4. DockerInStep /\ EnoughBoxes
  BY <1>1, <1>2 DEF Init, DockerInStep, EnoughBoxes, Waiting, Boxes
<1>5. WorkdirIsOwn /\ ExitIsFinal
  BY DEF Init, WorkdirIsOwn, FilesAreOwn, WorksOnOwn, ExitIsFinal, Waiting
<1>6. OwnVerdict /\ UnsettledOnlyIfCut
  BY DEF Init, OwnVerdict, UnsettledOnlyIfCut, Recorded, NoResult
<1> QED
  BY <1>3, <1>4, <1>5, <1>6 DEF IndInv

\* reset(): no files, and no container that has the workdir, or it is shared.
LEMMA CleanLeavesNone ==
  ASSUME TypeInv, CleanWorkdir
  PROVE  /\ outfile' = 0 /\ outexe' = 0 /\ statusfile' = NoStatus
         /\ box' \in [Boxes -> Box]
         /\ \A b \in Boxes : box'[b].state = box[b].state
                             /\ (Proper(box[b]) => Proper(box'[b]))
         /\ shared' = shared \/ shared'
         /\ shared' \in BOOLEAN
         /\ ~shared' => ~shared /\ Leftovers' = {}
<1>1. CASE shared' = TRUE /\ box' = box
  BY <1>1 DEF CleanWorkdir, NoFiles, TypeInv
<1>2. CASE shared' = shared /\ box' = [b \in Boxes |-> Detached(b)]
  BY <1>2, StatesAreBoxes DEF CleanWorkdir, NoFiles, TypeInv, Leftovers, Running
<1> QED
  BY <1>1, <1>2 DEF CleanWorkdir

\* The cleaning before a solution.
LEMMA ResetFuzzKeeps == ASSUME IndInv, ResetFuzz PROVE IndInv'
<1> USE ContainerAssumption DEF IndInv
<1>1. /\ host = "reset" /\ host' = "update" /\ docker' = 0
      /\ UNCHANGED <<sol, attempt, made, read, validated, faults, cut>>
      /\ outfile' = 0 /\ outexe' = 0 /\ statusfile' = NoStatus
      /\ box' \in [Boxes -> Box] /\ shared' \in BOOLEAN
      /\ \A b \in Boxes : box'[b].state = box[b].state
                          /\ (Proper(box[b]) => Proper(box'[b]))
      /\ ~shared' => ~shared /\ Leftovers' = {}
  BY CleanLeavesNone DEF ResetFuzz
<1>2. TypeInv'
  BY <1>1 DEF TypeInv, NoStatus, Codes
<1>3. DockerInStep' /\ EnoughBoxes'
  BY <1>1 DEF DockerInStep, EnoughBoxes, Waiting, TypeInv
<1>4. WorkdirIsOwn' /\ ExitIsFinal'
  BY <1>1 DEF WorkdirIsOwn, FilesAreOwn, WorksOnOwn, ExitIsFinal, Waiting
<1>5. OwnVerdict' /\ UnsettledOnlyIfCut'
  BY <1>1 DEF OwnVerdict, UnsettledOnlyIfCut, Recorded
<1> QED
  BY <1>2, <1>3, <1>4, <1>5

\* The driver is written: outfile becomes the number of the solution.
LEMMA UpdateCodeKeeps == ASSUME IndInv, UpdateCode PROVE IndInv'
<1> USE ContainerAssumption DEF IndInv
<1>1. /\ host = "update" /\ host' = "run" /\ outfile' = sol
      /\ UNCHANGED <<sol, attempt, made, docker, read, validated, box, outexe,
                     statusfile, faults, shared, cut>>
  BY DEF UpdateCode
<1>2. TypeInv'
  BY <1>1 DEF TypeInv, Codes
<1>3. DockerInStep' /\ EnoughBoxes'
  BY <1>1 DEF DockerInStep, EnoughBoxes, Waiting
<1>4. WorkdirIsOwn' /\ ExitIsFinal'
  BY <1>1 DEF WorkdirIsOwn, FilesAreOwn, WorksOnOwn, ExitIsFinal, Waiting, Leftovers, Running,
              NoStatus, Final
<1>5. OwnVerdict' /\ UnsettledOnlyIfCut'
  BY <1>1 DEF OwnVerdict, UnsettledOnlyIfCut, Recorded
<1> QED
  BY <1>2, <1>3, <1>4, <1>5

\* A container is created, for which a box is left.
LEMMA RunKeeps == ASSUME IndInv, Run PROVE IndInv'
<1> USE ContainerAssumption DEF IndInv
<1>1. /\ host = "run" /\ docker = 0 /\ faults' \in 0..MaxFaults
      /\ UNCHANGED <<sol, attempt, read, validated, fileVars, shared, cut>>
  BY DEF Run, DockerInStep, Fault, TypeInv
<1>2. OwnVerdict' /\ UnsettledOnlyIfCut'
  BY <1>1 DEF OwnVerdict, UnsettledOnlyIfCut, Recorded
<1>3. CASE /\ made' = made + 1 /\ docker' = made + 1
           /\ box' = [box EXCEPT ![made + 1] = WithState("running")]
           /\ host' \in {"wait", "failed"}
  <2>1. made + 1 \in Boxes /\ made + 1 \in 0..(Solutions * MaxAttempts) /\ made \in Nat
    BY <1>1, BoxesSuffice DEF EnoughBoxes, TypeInv, Boxes
  <2>2. /\ box' \in [Boxes -> Box] /\ box'[made + 1] = WithState("running")
        /\ \A b \in Boxes : b # made + 1 => box'[b] = box[b]
    BY <1>3, <2>1, StatesAreBoxes DEF TypeInv
  <2>3. TypeInv'
    BY <1>1, <1>3, <2>1, <2>2 DEF TypeInv, fileVars
  <2>4. DockerInStep'
    BY <1>3, <2>1, <2>2, StatesAreBoxes DEF DockerInStep, Waiting, Boxes
  <2>5. EnoughBoxes'
    BY <1>1, <1>3, <2>1, BoxesSuffice DEF EnoughBoxes, TypeInv
  <2>6. WorkdirIsOwn'
    <3>1. host' # "update" /\ host' # "run" /\ host' # "remove" /\ host' # "cleanup"
      BY <1>3
    <3>2. ASSUME ~shared, host' \in Waiting
          PROVE  /\ Leftovers' \subseteq {docker'} /\ FilesAreOwn'
                 /\ \A b \in Leftovers' : WorksOnOwn(b)'
      <4>1. /\ Leftovers = {} /\ outfile' = sol /\ outexe' = 0 /\ statusfile' = NoStatus
            /\ sol' = sol
        BY <1>1, <3>2 DEF WorkdirIsOwn, fileVars
      <4>0. PICK n \in Boxes : n = made + 1
        BY <2>1
      <4>2. Leftovers' \subseteq {n} /\ docker' = n
        BY <1>3, <2>2, <4>0, <4>1 DEF Leftovers, Running
      <4>3. FilesAreOwn'
        BY <4>1 DEF FilesAreOwn, NoStatus, Final
      <4>4. WorksOnOwn(n)'
        BY <2>2, <4>0, <4>1, StatesAreBoxes DEF WorksOnOwn, NoStatus, Final
      <4> QED
        BY <4>2, <4>3, <4>4
    <3> QED
      BY <1>1, <3>1, <3>2 DEF WorkdirIsOwn
  <2>7. ExitIsFinal'
    BY <1>3, <2>1, <2>2, StatesAreBoxes DEF ExitIsFinal
  <2> QED
    BY <1>2, <2>3, <2>4, <2>5, <2>6, <2>7
<1>4. CASE host' = "failed" /\ UNCHANGED <<made, docker, box>>
  <2>1. TypeInv' /\ DockerInStep'
    BY <1>1, <1>4 DEF TypeInv, DockerInStep, Waiting, fileVars
  <2>2. EnoughBoxes'
    BY <1>1, <1>4, BoxesSuffice DEF EnoughBoxes, TypeInv
  <2>3. WorkdirIsOwn' /\ ExitIsFinal'
    BY <1>4 DEF WorkdirIsOwn, FilesAreOwn, WorksOnOwn, ExitIsFinal, Waiting
  <2> QED
    BY <1>2, <2>1, <2>2, <2>3
<1> QED
  BY <1>3, <1>4 DEF Run

\* The wait ends, and only then by a cut.
LEMMA WaitKeeps == ASSUME IndInv, Wait PROVE IndInv'
<1> USE ContainerAssumption DEF IndInv
<1>1. /\ host = "wait" /\ host' \in {"kill", "status"} /\ faults' \in 0..MaxFaults
      /\ UNCHANGED <<sol, attempt, docker, read, validated, fileVars, made, box, shared>>
      /\ docker \in Boxes
  BY DEF Wait, TypeInv, Fault, DockerInStep, Waiting, Boxes
<1>2. \/ cut' = cut /\ ~Running(docker)
         /\ (host' = "status" <=> box[docker].state = "exited")
      \/ host' = "kill" /\ cut' \in [1..Solutions -> {"no", "timeout", "fault"}]
         /\ cut'[sol] # "no" /\ \A s \in 1..Solutions : s # sol => cut'[s] = cut[s]
  BY <1>1 DEF Wait, TypeInv
<1>3. TypeInv'
  BY <1>1, <1>2 DEF TypeInv, fileVars
<1>4. DockerInStep'
  BY <1>1, <1>2 DEF DockerInStep, Waiting
<1>5. EnoughBoxes'
  BY <1>1 DEF EnoughBoxes
<1>6. WorkdirIsOwn'
  BY <1>1 DEF WorkdirIsOwn, FilesAreOwn, WorksOnOwn, Waiting, Leftovers, Running, fileVars
<1>7. ExitIsFinal'
  BY <1>1, <1>2 DEF ExitIsFinal, Running, fileVars
<1>8. OwnVerdict' /\ UnsettledOnlyIfCut'
  BY <1>1, <1>2 DEF OwnVerdict, UnsettledOnlyIfCut, Recorded
<1> QED
  BY <1>3, <1>4, <1>5, <1>6, <1>7, <1>8

\* The kill, or the failure that ends the attempt.
LEMMA KillKeeps == ASSUME IndInv, Kill PROVE IndInv'
<1> USE ContainerAssumption DEF IndInv
<1>1. /\ host = "kill" /\ faults' \in 0..MaxFaults /\ docker \in Boxes
      /\ UNCHANGED <<sol, attempt, docker, read, validated, fileVars, made, shared, cut>>
  BY DEF Kill, TypeInv, Fault, DockerInStep, Waiting, Boxes
<1>2. EnoughBoxes' /\ OwnVerdict' /\ UnsettledOnlyIfCut'
  BY <1>1 DEF Kill, EnoughBoxes, OwnVerdict, UnsettledOnlyIfCut, Recorded
<1>3. CASE /\ Running(docker) /\ host' = "status"
           /\ box' = [box EXCEPT ![docker] = WithState("killed")]
  <2>1. /\ box' \in [Boxes -> Box] /\ box'[docker].state = "killed" /\ Proper(box'[docker])
        /\ \A b \in Boxes : b # docker => box'[b] = box[b]
    BY <1>1, <1>3, StatesAreBoxes DEF TypeInv
  <2>2. TypeInv'
    BY <1>1, <1>3, <2>1 DEF TypeInv, fileVars
  <2>3. DockerInStep'
    BY <1>1, <1>3, <2>1 DEF DockerInStep, Waiting, Running
  <2>4. WorkdirIsOwn'
    BY <1>1, <1>3, <2>1 DEF WorkdirIsOwn, FilesAreOwn, WorksOnOwn, Waiting, Leftovers, Running, fileVars
  <2>5. ExitIsFinal'
    BY <1>1, <1>3, <2>1 DEF ExitIsFinal
  <2> QED
    BY <1>2, <2>2, <2>3, <2>4, <2>5
<1>4. CASE host' = "failed" /\ box' = box
  <2>1. TypeInv' /\ DockerInStep'
    BY <1>1, <1>4 DEF TypeInv, DockerInStep, Waiting, fileVars
  <2>2. WorkdirIsOwn' /\ ExitIsFinal'
    BY <1>4 DEF WorkdirIsOwn, FilesAreOwn, WorksOnOwn, ExitIsFinal, Waiting
  <2> QED
    BY <1>2, <2>1, <2>2
<1> QED
  BY <1>3, <1>4 DEF Kill

\* The status is read, of this solution or of no code at all.
LEMMA GetValiStatusKeeps == ASSUME IndInv, GetValiStatus PROVE IndInv'
<1> USE ContainerAssumption DEF IndInv
<1>1. /\ host = "status" /\ docker \in Boxes
      /\ UNCHANGED <<sol, attempt, docker, validated, fileVars, made, box, faults, shared, cut>>
  BY DEF GetValiStatus, TypeInv, DockerInStep, Waiting, Boxes
<1>2. CASE host' = "failed" /\ read' = read
  <2>1. TypeInv' /\ DockerInStep'
    BY <1>1, <1>2 DEF TypeInv, DockerInStep, Waiting, fileVars
  <2>2. EnoughBoxes' /\ WorkdirIsOwn' /\ ExitIsFinal'
    BY <1>1, <1>2 DEF EnoughBoxes, WorkdirIsOwn, FilesAreOwn, WorksOnOwn, ExitIsFinal, Waiting
  <2>3. OwnVerdict' /\ UnsettledOnlyIfCut'
    BY <1>1 DEF OwnVerdict, UnsettledOnlyIfCut, Recorded
  <2> QED
    BY <2>1, <2>2, <2>3
<1>3. CASE /\ host' = "remove" /\ statusfile.is # "partial"
           /\ read' = [is |-> statusfile.is, of |-> statusfile.of, code |-> outfile]
  <2>1. TypeInv' /\ DockerInStep'
    BY <1>1, <1>3 DEF TypeInv, DockerInStep, Waiting, fileVars
  <2>2. EnoughBoxes'
    BY <1>1, <1>3 DEF EnoughBoxes
  <2>3. WorkdirIsOwn'
    BY <1>1, <1>3 DEF WorkdirIsOwn, FilesAreOwn, WorksOnOwn, Waiting, Leftovers, Running, fileVars
  <2>4. ExitIsFinal'
    BY <1>1, <1>3 DEF ExitIsFinal
  <2>5. OwnVerdict' /\ UnsettledOnlyIfCut'
    BY <1>1 DEF OwnVerdict, UnsettledOnlyIfCut, Recorded
  <2> QED
    BY <2>1, <2>2, <2>3, <2>4, <2>5
<1> QED
  BY <1>2, <1>3 DEF GetValiStatus

\* The container is removed.
LEMMA RemoveKeeps == ASSUME IndInv, Remove PROVE IndInv'
<1> USE ContainerAssumption DEF IndInv
<1>1. /\ host = "remove" /\ faults' \in 0..MaxFaults /\ docker \in Boxes
      /\ UNCHANGED <<sol, attempt, docker, read, validated, fileVars, made, shared, cut>>
  BY DEF Remove, TypeInv, Fault, DockerInStep, Waiting, Boxes
<1>2. EnoughBoxes' /\ OwnVerdict' /\ UnsettledOnlyIfCut'
  BY <1>1 DEF Remove, EnoughBoxes, OwnVerdict, UnsettledOnlyIfCut, Recorded
<1>3. CASE host' = "cleanup" /\ box' = [box EXCEPT ![docker] = WithState("removed")]
  <2>1. /\ box' \in [Boxes -> Box] /\ box'[docker].state = "removed" /\ Proper(box'[docker])
        /\ \A b \in Boxes : b # docker => box'[b] = box[b]
    BY <1>1, <1>3, StatesAreBoxes DEF TypeInv
  <2>2. TypeInv'
    BY <1>1, <1>3, <2>1 DEF TypeInv, fileVars
  <2>3. DockerInStep'
    BY <1>1, <1>3, <2>1 DEF DockerInStep, Waiting
  <2>4. WorkdirIsOwn' /\ ExitIsFinal'
    BY <1>1, <1>3, <2>1 DEF WorkdirIsOwn, FilesAreOwn, WorksOnOwn, ExitIsFinal, Waiting, Leftovers, Running, fileVars
  <2> QED
    BY <1>2, <2>2, <2>3, <2>4
<1>4. CASE host' = "failed" /\ box' = box
  <2>1. TypeInv' /\ DockerInStep'
    BY <1>1, <1>4 DEF TypeInv, DockerInStep, Waiting, fileVars
  <2>2. WorkdirIsOwn' /\ ExitIsFinal'
    BY <1>4 DEF WorkdirIsOwn, FilesAreOwn, WorksOnOwn, ExitIsFinal, Waiting
  <2> QED
    BY <1>2, <2>1, <2>2
<1> QED
  BY <1>3, <1>4 DEF Remove

\* The verdict is recorded, as it was read.
LEMMA CleanupKeeps == ASSUME IndInv, Cleanup PROVE IndInv'
<1> USE ContainerAssumption DEF IndInv
<1>1. /\ host = "cleanup" /\ docker' = 0 /\ read' = NoResult
      /\ validated' = [validated EXCEPT ![sol] = read]
      /\ \/ host' = "reset" /\ sol < Solutions /\ sol' = sol + 1
         \/ host' = "done" /\ sol' = sol
      /\ UNCHANGED <<attempt, made, faults, cut>>
      /\ outfile' = 0 /\ outexe' = 0 /\ statusfile' = NoStatus
      /\ box' \in [Boxes -> Box] /\ shared' \in BOOLEAN
      /\ \A b \in Boxes : box'[b].state = box[b].state
                          /\ (Proper(box[b]) => Proper(box'[b]))
      /\ ~shared' => ~shared
  BY CleanLeavesNone DEF Cleanup
<1>2. TypeInv'
  BY <1>1 DEF TypeInv, NoStatus, NoResult, Codes
<1>3. DockerInStep'
  BY <1>1 DEF DockerInStep, Waiting, TypeInv
<1>4. EnoughBoxes' /\ WorkdirIsOwn' /\ ExitIsFinal'
  <2>1. EnoughBoxes'
    BY <1>1, BoxesSuffice DEF EnoughBoxes, TypeInv
  <2> QED
    BY <1>1, <2>1 DEF WorkdirIsOwn, FilesAreOwn, WorksOnOwn, ExitIsFinal, Waiting
<1>5. OwnVerdict'
  BY <1>1 DEF OwnVerdict, Recorded, WorkdirIsOwn, FilesAreOwn, WorksOnOwn, TypeInv
<1>6. UnsettledOnlyIfCut'
  BY <1>1 DEF UnsettledOnlyIfCut, ExitIsFinal, TypeInv
<1> QED
  BY <1>2, <1>3, <1>4, <1>5, <1>6

\* The task runs again, with nothing recorded.
LEMMA RetryKeeps == ASSUME IndInv, Retry PROVE IndInv'
<1> USE ContainerAssumption DEF IndInv
<1>1. /\ attempt \in 1..MaxAttempts /\ attempt + 1 \in 1..MaxAttempts
      /\ attempt' = attempt + 1 /\ host' = "reset" /\ sol' = 1 /\ docker' = 0
      /\ validated' = [s \in 1..Solutions |-> NoResult]
      /\ cut' = [s \in 1..Solutions |-> "no"] /\ read' = NoResult
      /\ outfile' = 0 /\ outexe' = 0 /\ statusfile' = NoStatus
      /\ UNCHANGED <<made, box, faults, shared>>
  BY DEF Retry, NoFiles, TypeInv
<1>2. TypeInv'
  BY <1>1 DEF TypeInv, NoStatus, NoResult, Codes
<1>3. DockerInStep'
  BY <1>1 DEF DockerInStep, Waiting
<1>4. EnoughBoxes'
  <2>1. made <= (attempt - 1) * Solutions + Solutions
    BY <1>1, BoxesSuffice DEF EnoughBoxes, TypeInv
  <2>2. (attempt' - 1) * Solutions = attempt * Solutions
    BY <1>1
  <2> QED
    BY <1>1, <2>1, <2>2, BoxesSuffice DEF EnoughBoxes, TypeInv
<1>5. WorkdirIsOwn' /\ ExitIsFinal'
  BY <1>1 DEF WorkdirIsOwn, FilesAreOwn, WorksOnOwn, ExitIsFinal, Waiting
<1>6. OwnVerdict' /\ UnsettledOnlyIfCut'
  BY <1>1 DEF OwnVerdict, UnsettledOnlyIfCut, Recorded, NoResult
<1> QED
  BY <1>2, <1>3, <1>4, <1>5, <1>6

-----------------------------------------------------------------------------
(***************************************************************************)
(* The steps of the containers.                                            *)
(***************************************************************************)

\* What a step of a container leaves alone is in order afterwards.
LEMMA BoxStepKeeps ==
  ASSUME IndInv, NEW b \in Boxes, Running(b),
         \E x \in Box : /\ x.state \in {"running", "failed", "exited"} /\ Proper(x)
                        /\ box' = [box EXCEPT ![b] = x],
         UNCHANGED <<hostVars, made, faults, shared, cut>>,
         outfile' \in Codes, outexe' \in Codes,
         statusfile' \in [is : Verdicts \cup {"absent", "partial"}, of : Codes]
  PROVE  /\ TypeInv' /\ DockerInStep' /\ EnoughBoxes' /\ OwnVerdict' /\ UnsettledOnlyIfCut'
         /\ box' \in [Boxes -> Box]
         /\ box'[b].state \in {"running", "failed", "exited"}
         /\ \A c \in Boxes : c # b => box'[c] = box[c]
<1> USE ContainerAssumption DEF IndInv
<1>1. /\ box' \in [Boxes -> Box]
      /\ box'[b].state \in {"running", "failed", "exited"}
      /\ Proper(box'[b])
      /\ \A c \in Boxes : c # b => box'[c] = box[c]
  <2>1. PICK x \in Box : /\ x.state \in {"running", "failed", "exited"} /\ Proper(x)
                         /\ box' = [box EXCEPT ![b] = x]
    OBVIOUS
  <2>2. box'[b] = x
    BY <2>1 DEF TypeInv
  <2> QED
    BY <2>1, <2>2 DEF TypeInv
<1>2. TypeInv'
  BY <1>1 DEF TypeInv, hostVars
<1>3. DockerInStep'
  BY <1>1 DEF DockerInStep, Waiting, Running, hostVars
<1>4. EnoughBoxes' /\ OwnVerdict' /\ UnsettledOnlyIfCut'
  BY DEF EnoughBoxes, OwnVerdict, UnsettledOnlyIfCut, Recorded, hostVars
<1> QED
  BY <1>1, <1>2, <1>3, <1>4

\* The container that writes is the one the host waits for.
LEMMA WriterIsDocker ==
  ASSUME IndInv, NEW b \in Boxes, Running(b), box[b].attached, ~shared,
         host \in {"update", "run"} \cup Waiting
  PROVE  /\ b = docker /\ host \in {"wait", "kill"}
         /\ Leftovers \subseteq {docker}
         /\ FilesAreOwn /\ WorksOnOwn(b)
BY DEF IndInv, WorkdirIsOwn, Leftovers, Waiting, DockerInStep, Running

\* Of a step of a container that keeps the files, and what it knows of them,
\* those of the solution, if they were.
LEMMA OwnStepKeeps ==
  ASSUME IndInv, NEW b \in Boxes, Running(b), box[b].attached,
         \E x \in Box : /\ x.state \in {"running", "failed", "exited"} /\ Proper(x)
                        /\ x.state = "exited" => statusfile'.is \in Final
                        /\ box' = [box EXCEPT ![b] = x],
         UNCHANGED <<hostVars, made, faults, shared, cut>>,
         outfile' \in Codes, outexe' \in Codes,
         statusfile' \in [is : Verdicts \cup {"absent", "partial"}, of : Codes],
         FilesAreOwn /\ WorksOnOwn(b) =>
           FilesAreOwn' /\ (box'[b].state = "running" => WorksOnOwn(b)')
  PROVE  IndInv'
<1> USE ContainerAssumption
<1>1. /\ TypeInv' /\ DockerInStep' /\ EnoughBoxes' /\ OwnVerdict' /\ UnsettledOnlyIfCut'
      /\ \A c \in Boxes : c # b => box'[c] = box[c]
  BY BoxStepKeeps
<1>2. box'[b].state = "exited" => statusfile'.is \in Final
  BY DEF IndInv, TypeInv
<1>3. WorkdirIsOwn'
  <2> SUFFICES ASSUME ~shared, host \in {"update", "run"} \cup Waiting
               PROVE  /\ host \notin {"update", "run", "remove", "cleanup"}
                      /\ Leftovers' \subseteq {docker}
                      /\ FilesAreOwn'
                      /\ \A c \in Leftovers' : WorksOnOwn(c)'
    BY DEF WorkdirIsOwn, hostVars, Waiting
  <2>1. /\ b = docker /\ host \in {"wait", "kill"}
        /\ Leftovers \subseteq {docker}
        /\ FilesAreOwn /\ WorksOnOwn(b)
    BY WriterIsDocker
  <2>2. Leftovers' \subseteq {docker}
    BY <1>1, <2>1 DEF Leftovers, Running
  <2>3. docker \in Leftovers' => box'[docker].state = "running"
    BY DEF Leftovers, Running
  <2> QED
    BY <2>1, <2>2, <2>3
<1>4. ExitIsFinal'
  <2>1. host \in {"kill", "status"} /\ cut[sol] = "no" => b # docker /\ docker \in Boxes
    BY DEF IndInv, ExitIsFinal, DockerInStep, Waiting, TypeInv, Boxes
  <2>2. ASSUME ~shared, host \in {"wait", "kill", "status"}, box'[docker].state = "exited"
        PROVE  statusfile'.is \in {"VAL", "ERR"}
    BY <2>2, <1>2, WriterIsDocker DEF Waiting, Final
  <2>3. ~shared => host \notin {"remove", "cleanup"}
    BY WriterIsDocker DEF Waiting
  <2> QED
    BY <1>1, <2>1, <2>2, <2>3 DEF IndInv, ExitIsFinal, Running, hostVars
<1> QED
  BY <1>1, <1>3, <1>4 DEF IndInv

\* The phases, for the solver, which does not count a tuple by itself.
LEMMA PhaseCount == Len(Phases) = 5 /\ \A p \in 1..5 : (Phases[p] = "link" <=> p = 3)
                                                   /\ (Phases[p] = "fuzz" <=> p = 4)
BY DEF Phases

\* Each step of a container, by way of the box it leaves.
LEMMA ContainerKeeps == ASSUME IndInv, NEW b \in Boxes, Container(b) PROVE IndInv'
<1> USE ContainerAssumption
<1>1. /\ box[b] \in Box /\ outfile \in Codes /\ outexe \in Codes /\ 0 \in Codes
      /\ statusfile \in [is : Verdicts \cup {"absent", "partial"}, of : Codes]
      /\ Proper(box[b])
      /\ \A s \in {"failed", "exited"} : WithState(s) \in Box /\ Proper(WithState(s))
  BY StatesAreBoxes DEF IndInv, TypeInv, Codes, DockerInStep
<1>9. /\ \A x : box' = [box EXCEPT ![b] = x] => box'[b] = x
      /\ "PTCK" \notin Final /\ "absent" \notin Final /\ "partial" \notin Final
  BY DEF IndInv, TypeInv, Final
<1>2. CASE Boot(b)
  <2>0. /\ Running(b) /\ box[b].attached /\ box[b].at = "boot"
        /\ UNCHANGED <<hostVars, fileVars, made, faults, shared, cut>>
    BY <1>2 DEF Boot, At
  <2>1. CASE box' = [box EXCEPT ![b] = WithState("failed")]
    <3>1. box'[b].state = "failed"
      BY <1>9, <2>1, StatesAreBoxes
    <3>2. FilesAreOwn => FilesAreOwn'
      BY <2>0 DEF FilesAreOwn, hostVars, fileVars
    <3> QED
      BY <1>1, <2>0, <2>1, <3>1, <3>2, StatesAreBoxes, OwnStepKeeps DEF fileVars
  <2>2. CASE box' = [box EXCEPT ![b].code = outfile, ![b].at = "reset"]
    <3> DEFINE x == [box[b] EXCEPT !.code = outfile, !.at = "reset"]
    <3>1. /\ x \in Box /\ x.state = "running" /\ Proper(x) /\ x.code = outfile
          /\ x.of = box[b].of /\ x.at = "reset" /\ x.phase = box[b].phase
      BY <1>1, <2>0 DEF Box, Running, Proper
    <3>2. box' = [box EXCEPT ![b] = x]
      BY <2>2
    <3>3. box'[b] = x
      BY <1>9, <3>2
    <3> HIDE DEF x
    <3>4. FilesAreOwn /\ WorksOnOwn(b) =>
            FilesAreOwn' /\ (box'[b].state = "running" => WorksOnOwn(b)')
      BY <2>0, <3>1, <3>3 DEF FilesAreOwn, WorksOnOwn, hostVars, fileVars
    <3> QED
      BY <1>1, <2>0, <3>1, <3>2, <3>4, OwnStepKeeps DEF fileVars
  <2> QED
    BY <1>2, <2>1, <2>2 DEF Boot
<1>3. CASE ResetBox(b)
  <2> DEFINE x == [box[b] EXCEPT !.at = "rewrite"]
  <2>1. /\ x \in Box /\ Proper(x) /\ x.state = "running" /\ x.at = "rewrite"
        /\ x.code = box[b].code /\ x.of = box[b].of /\ x.phase = box[b].phase
        /\ x.verdict = box[b].verdict
    BY <1>1, <1>3 DEF Box, ResetBox, At, Running, Proper
  <2>2. box' = [box EXCEPT ![b] = x]
    BY <1>1, <1>3 DEF ResetBox, Box
  <2>3. box'[b] = x
    BY <1>9, <2>2
  <2>4. /\ Running(b) /\ box[b].attached /\ box[b].at = "reset"
        /\ UNCHANGED <<hostVars, made, faults, shared, cut>>
        /\ statusfile' \in [is : Verdicts \cup {"absent", "partial"}, of : Codes]
        /\ outfile' \in Codes /\ outexe' \in Codes
    BY <1>1, <1>3 DEF ResetBox, At, Box, NoFiles, NoStatus
  <2> HIDE DEF x
  <2>5. FilesAreOwn /\ WorksOnOwn(b) =>
          FilesAreOwn' /\ (box'[b].state = "running" => WorksOnOwn(b)')
    BY <1>1, <1>9, <1>3, <2>1, <2>3, <2>4
    DEF FilesAreOwn, WorksOnOwn, ResetBox, hostVars, Box, Proper, NoFiles, NoStatus
  <2> QED
    BY <1>1, <2>1, <2>2, <2>4, <2>5, OwnStepKeeps
<1>10. CASE OpenCode(b)
  <2> DEFINE x == [box[b] EXCEPT !.at = "rewriting"]
  <2>1. /\ x \in Box /\ Proper(x) /\ x.state = "running" /\ x.at = "rewriting"
        /\ x.code = box[b].code /\ x.of = box[b].of /\ x.phase = box[b].phase
        /\ x.verdict = box[b].verdict
    BY <1>1, <1>10 DEF Box, OpenCode, At, Running, Proper
  <2>2. box' = [box EXCEPT ![b] = x]
    BY <1>1, <1>10 DEF OpenCode, Box
  <2>3. box'[b] = x
    BY <1>9, <2>2
  <2>4. /\ Running(b) /\ box[b].attached /\ box[b].at = "rewrite"
        /\ UNCHANGED <<hostVars, made, faults, shared, cut>>
        /\ statusfile' \in [is : Verdicts \cup {"absent", "partial"}, of : Codes]
        /\ outfile' \in Codes /\ outexe' \in Codes
    BY <1>1, <1>10 DEF OpenCode, At, Box
  <2> HIDE DEF x
  <2>5. FilesAreOwn /\ WorksOnOwn(b) =>
          FilesAreOwn' /\ (box'[b].state = "running" => WorksOnOwn(b)')
    BY <1>1, <1>9, <1>10, <2>1, <2>3, <2>4
    DEF FilesAreOwn, WorksOnOwn, OpenCode, hostVars, Box, Proper
  <2> QED
    BY <1>1, <2>1, <2>2, <2>4, <2>5, OwnStepKeeps
<1>4. CASE Rewrite(b)
  <2> DEFINE x == [box[b] EXCEPT !.at = "check", !.code = 0]
  <2>1. /\ x \in Box /\ Proper(x) /\ x.state = "running" /\ x.at = "check"
        /\ x.code = 0 /\ x.of = box[b].of /\ x.phase = box[b].phase
        /\ x.verdict = box[b].verdict
    BY <1>1, <1>4 DEF Box, Rewrite, At, Running, Proper
  <2>2. box' = [box EXCEPT ![b] = x]
    BY <1>1, <1>4 DEF Rewrite, Box
  <2>3. box'[b] = x
    BY <1>9, <2>2
  <2>4. /\ Running(b) /\ box[b].attached /\ box[b].at = "rewriting"
        /\ UNCHANGED <<hostVars, made, faults, shared, cut>>
        /\ statusfile' \in [is : Verdicts \cup {"absent", "partial"}, of : Codes]
        /\ outfile' \in Codes /\ outexe' \in Codes
    BY <1>1, <1>4 DEF Rewrite, At, Box
  <2> HIDE DEF x
  <2>5. FilesAreOwn /\ WorksOnOwn(b) =>
          FilesAreOwn' /\ (box'[b].state = "running" => WorksOnOwn(b)')
    BY <1>1, <1>9, <1>4, <2>1, <2>3, <2>4
    DEF FilesAreOwn, WorksOnOwn, Rewrite, hostVars, Box, Proper
  <2> QED
    BY <1>1, <2>1, <2>2, <2>4, <2>5, OwnStepKeeps
<1>5. CASE Check(b)
  <2> DEFINE s == IF Phases[box[b].phase] = "fuzz" THEN outexe ELSE outfile
             passed == IF box[b].phase = Len(Phases) THEN "VAL" ELSE "PTCK"
  <2>1. PICK v \in {passed, "ERR"} :
          /\ box' = [box EXCEPT ![b].verdict = v, ![b].of = s, ![b].at = "open"]
          /\ outexe' = IF Phases[box[b].phase] = "link" /\ v = passed THEN outfile ELSE outexe
    BY <1>5 DEF Check
  <2> DEFINE x == [box[b] EXCEPT !.verdict = v, !.of = s, !.at = "open"]
  <2>2. /\ v \in Verdicts /\ s \in {outfile, outexe} /\ (v = "PTCK" => box[b].phase < Len(Phases))
        /\ outexe' \in Codes
        /\ box[b].phase = 4 => s = outexe
        /\ box[b].phase # 4 => s = outfile
        /\ box[b].phase # 3 => outexe' = outexe
        /\ box[b].phase = 3 /\ v = "PTCK" => outexe' = outfile
        /\ outexe' \in {outfile, outexe}
    BY <1>1, <2>1, PhaseCount DEF Verdicts, Box
  <2>4. /\ Running(b) /\ box[b].attached /\ box[b].at = "check"
        /\ UNCHANGED <<hostVars, outfile, statusfile, made, faults, shared, cut>>
    BY <1>5 DEF Check, At
  <2>5. /\ x \in Box /\ Proper(x) /\ x.state = "running" /\ x.at = "open"
        /\ x.code = box[b].code /\ x.of = s /\ x.verdict = v /\ x.phase = box[b].phase
    BY <1>1, <2>2, <2>4 DEF Box, Running, Proper
  <2>6. box' = [box EXCEPT ![b] = x]
    BY <1>1, <2>1
  <2>8. box'[b] = x
    BY <1>9, <2>6
  <2> HIDE DEF x, s, passed
  <2>7. FilesAreOwn /\ WorksOnOwn(b) =>
          FilesAreOwn' /\ (box'[b].state = "running" => WorksOnOwn(b)')
    <3>1. FilesAreOwn /\ WorksOnOwn(b) => s = sol /\ outfile = sol
      BY <1>1, <2>2, <2>4 DEF WorksOnOwn, Box
    <3> QED
      BY <1>1, <2>2, <2>4, <2>5, <2>8, <3>1 DEF FilesAreOwn, WorksOnOwn, hostVars, Box
  <2> QED
    BY <1>1, <2>2, <2>4, <2>5, <2>6, <2>7, OwnStepKeeps
<1>6. CASE OpenStatus(b)
  <2> DEFINE x == [box[b] EXCEPT !.at = "write"]
  <2>1. /\ x \in Box /\ Proper(x) /\ x.state = "running" /\ x.at = "write"
        /\ x.code = box[b].code /\ x.of = box[b].of /\ x.phase = box[b].phase
        /\ x.verdict = box[b].verdict
    BY <1>1, <1>6 DEF Box, OpenStatus, At, Running, Proper
  <2>2. box' = [box EXCEPT ![b] = x]
    BY <1>1, <1>6 DEF OpenStatus, Box
  <2>3. box'[b] = x
    BY <1>9, <2>2
  <2>4. /\ Running(b) /\ box[b].attached /\ box[b].at = "open"
        /\ UNCHANGED <<hostVars, made, faults, shared, cut>>
        /\ statusfile' \in [is : Verdicts \cup {"absent", "partial"}, of : Codes]
        /\ outfile' \in Codes /\ outexe' \in Codes
    BY <1>1, <1>6 DEF OpenStatus, At, Box, Partial
  <2> HIDE DEF x
  <2>5. FilesAreOwn /\ WorksOnOwn(b) =>
          FilesAreOwn' /\ (box'[b].state = "running" => WorksOnOwn(b)')
    BY <1>1, <1>9, <1>6, <2>1, <2>3, <2>4
    DEF FilesAreOwn, WorksOnOwn, OpenStatus, hostVars, Box, Proper, Partial
  <2> QED
    BY <1>1, <2>1, <2>2, <2>4, <2>5, OwnStepKeeps
<1>7. CASE WriteStatus(b)
  <2>0. /\ Running(b) /\ box[b].attached /\ box[b].at = "write"
        /\ UNCHANGED <<hostVars, outfile, outexe, made, faults, shared, cut>>
        /\ statusfile' \in [is : Verdicts \cup {"absent", "partial"}, of : Codes]
        /\ statusfile'.is = box[b].verdict /\ statusfile'.of = box[b].of
    BY <1>1, <1>7 DEF WriteStatus, At, Box
  <2>1. CASE box[b].verdict = "PTCK"
    <3> DEFINE x == [box[b] EXCEPT !.phase = box[b].phase + 1, !.at = "check", !.of = 0]
    <3>1. box[b].phase + 1 \in 1..Len(Phases)
      BY <1>1, <2>0, <2>1, PhaseCount DEF Box, Proper
    <3>2. /\ x \in Box /\ x.state = "running" /\ Proper(x) /\ x.at = "check"
          /\ x.code = box[b].code /\ x.of = 0 /\ x.phase = box[b].phase + 1
      BY <1>1, <2>0, <2>1, <3>1 DEF Box, Running, Proper
    <3>3. box' = [box EXCEPT ![b] = x]
      BY <1>1, <1>7, <2>1 DEF WriteStatus
    <3>5. box'[b] = x
      BY <1>9, <3>3
    <3> HIDE DEF x
    <3>4. FilesAreOwn /\ WorksOnOwn(b) =>
            FilesAreOwn' /\ (box'[b].state = "running" => WorksOnOwn(b)')
      BY <1>1, <1>9, <2>0, <2>1, <3>2, <3>5 DEF FilesAreOwn, WorksOnOwn, hostVars, Box
    <3> QED
      BY <1>1, <2>0, <3>2, <3>3, <3>4, OwnStepKeeps
  <2>2. CASE box[b].verdict # "PTCK"
    <3>1. box' = [box EXCEPT ![b] = WithState("exited")] /\ statusfile'.is \in Final
      BY <1>1, <1>7, <2>0, <2>2 DEF WriteStatus, Box, Verdicts, Final
    <3>3. box'[b].state = "exited"
      BY <1>9, <3>1, StatesAreBoxes
    <3>2. FilesAreOwn /\ WorksOnOwn(b) =>
            FilesAreOwn' /\ (box'[b].state = "running" => WorksOnOwn(b)')
      BY <2>0, <3>1, <3>3 DEF FilesAreOwn, WorksOnOwn, hostVars
    <3> QED
      BY <1>1, <2>0, <3>1, <3>2, StatesAreBoxes, OwnStepKeeps
  <2> QED
    BY <2>1, <2>2
<1>8. CASE Die(b)
  <2>1. /\ WithState("failed").state = "failed" /\ Running(b)
        /\ box' = [box EXCEPT ![b] = WithState("failed")]
        /\ UNCHANGED <<hostVars, fileVars, made, faults, shared, cut>>
    BY <1>8, StatesAreBoxes DEF Die
  <2>2. /\ TypeInv' /\ DockerInStep' /\ EnoughBoxes' /\ OwnVerdict' /\ UnsettledOnlyIfCut'
        /\ \A c \in Boxes : c # b => box'[c] = box[c]
    BY <1>1, <2>1, BoxStepKeeps DEF fileVars
  <2>3. box'[b].state = "failed"
    BY <1>1, <2>1 DEF IndInv, TypeInv
  <2>4. Leftovers' \subseteq Leftovers /\ \A c \in Leftovers' : box'[c] = box[c]
    BY <2>2, <2>3 DEF Leftovers, Running
  <2>5. WorkdirIsOwn'
    BY <2>1, <2>4 DEF IndInv, WorkdirIsOwn, FilesAreOwn, WorksOnOwn, hostVars, fileVars, Waiting
  <2>6. ExitIsFinal'
    BY <2>1, <2>2, <2>3 DEF IndInv, ExitIsFinal, Running, hostVars, fileVars, DockerInStep
  <2> QED
    BY <2>2, <2>5, <2>6 DEF IndInv
<1> QED
  BY <1>2, <1>3, <1>4, <1>5, <1>6, <1>7, <1>8, <1>10 DEF Container

\* A step that changes nothing.
LEMMA StutterKeeps == ASSUME IndInv, UNCHANGED vars PROVE IndInv'
BY DEF vars, hostVars, fileVars, IndInv, TypeInv, DockerInStep, EnoughBoxes, WorkdirIsOwn,
       ExitIsFinal, OwnVerdict, UnsettledOnlyIfCut, Recorded, Leftovers, Running, Waiting,
       FilesAreOwn, WorksOnOwn

\* Every step keeps the invariant.
LEMMA NextKeeps == IndInv /\ [Next]_vars => IndInv'
BY ResetFuzzKeeps, UpdateCodeKeeps, RunKeeps, WaitKeeps, KillKeeps, GetValiStatusKeeps,
   RemoveKeeps, CleanupKeeps, RetryKeeps, ContainerKeeps, StutterKeeps
DEF Next, Host, Ended

\* The inductive invariant holds throughout.
LEMMA Inductive == Spec => []IndInv
BY InitHolds, NextKeeps, PTL DEF Spec

-----------------------------------------------------------------------------
(***************************************************************************)
(* Counting the containers.                                                *)
(***************************************************************************)

\* The containers are finitely many, and so are those of any kind.
LEMMA LeftIsFinite ==
  /\ TypeInv => IsFiniteSet(Boxes) /\ IsFiniteSet(Left) /\ IsFiniteSet(Strayed)
                /\ Cardinality(Left) \in Nat /\ Cardinality(Strayed) \in Nat
<1> SUFFICES ASSUME TypeInv
             PROVE  /\ IsFiniteSet(Boxes) /\ IsFiniteSet(Left) /\ IsFiniteSet(Strayed)
                    /\ Cardinality(Left) \in Nat /\ Cardinality(Strayed) \in Nat
  OBVIOUS
<1>1. Solutions * MaxAttempts \in Nat
  BY BoxesSuffice DEF TypeInv
<1>2. IsFiniteSet(Boxes)
  BY <1>1, FS_Interval DEF Boxes
<1>3. Left \subseteq Boxes /\ Strayed \subseteq Boxes
  BY DEF Left, Strayed
<1> QED
  BY <1>2, <1>3, FS_Subset, FS_CardinalityType

\* Steps that add no container to either kind.
LEMMA FewerIsFine ==
  ASSUME TypeInv, Left' \subseteq Left, Strayed' \subseteq Strayed
  PROVE  Cardinality(Left') <= Cardinality(Left)
         /\ Cardinality(Strayed') <= Cardinality(Strayed)
         /\ Cardinality(Left') \in Nat /\ Cardinality(Strayed') \in Nat
BY LeftIsFinite, FS_Subset, FS_CardinalityType

\* No container yet.
LEMMA CountsInit == Init => Counts
<1> SUFFICES ASSUME Init PROVE Counts
  OBVIOUS
<1>1. Left = {} /\ Strayed = {}
  BY DEF Init, Left, Strayed, Running, NewBox
<1> QED
  BY <1>1, FS_EmptySet DEF Counts, Init

\* The sets that are counted grow by one box, when one is created, or shrink.
LEMMA CountsKept == IndInv /\ IndInv' /\ Counts /\ [Next]_vars => Counts'
<1> SUFFICES ASSUME IndInv, IndInv', Counts, [Next]_vars PROVE Counts'
  OBVIOUS
<1> USE ContainerAssumption
<1>1. /\ TypeInv /\ attempt \in Nat /\ attempt > 0 /\ faults \in Nat
      /\ Cardinality(Left) \in Nat /\ Cardinality(Strayed) \in Nat
      /\ \A b \in Boxes : box[b] \in Box
  BY LeftIsFinite DEF IndInv, TypeInv
<1>2. CASE ResetFuzz \/ Cleanup
  <2>1. /\ \A b \in Boxes : box'[b].state = box[b].state
        /\ docker' = 0 /\ UNCHANGED <<attempt, faults>>
        /\ host \in {"reset", "cleanup"} /\ host' \in {"update", "reset", "done"}
    BY <1>1, <1>2, CleanLeavesNone DEF ResetFuzz, Cleanup
  <2>2. docker = 0 \/ box[docker].state = "removed"
    BY <2>1 DEF IndInv, DockerInStep
  <2>3. Left' = Left /\ Strayed' = Strayed
    BY <2>1, <2>2 DEF Left, Strayed, Running, Boxes
  <2> QED
    BY <2>1, <2>3 DEF Counts
<1>3. CASE UpdateCode
  <2>1. Left' = Left /\ Strayed' = Strayed
    BY <1>3 DEF UpdateCode, Left, Strayed, Running
  <2> QED
    BY <1>3, <2>1 DEF Counts, UpdateCode
<1>4. CASE Run
  <2>1. host = "run" /\ docker = 0 /\ attempt' = attempt
    BY <1>4 DEF Run, IndInv, DockerInStep
  <2>2. CASE /\ made' = made + 1 /\ docker' = made'
             /\ box' = [box EXCEPT ![made'] = WithState("running")]
             /\ \/ host' = "wait" /\ faults' = faults
                \/ Fault /\ host' = "failed"
    <3>0. made + 1 \in Boxes
      <4>1. /\ made \in Nat /\ sol \in Nat /\ Solutions \in Nat /\ sol <= Solutions
            /\ attempt \in 1..MaxAttempts
            /\ made <= (attempt - 1) * Solutions + (sol - 1)
        BY <2>1, BoxesSuffice DEF IndInv, EnoughBoxes, TypeInv
      <4>2. /\ (attempt - 1) * Solutions + Solutions <= Solutions * MaxAttempts
            /\ (attempt - 1) * Solutions \in Nat /\ Solutions * MaxAttempts \in Nat
        BY <4>1, BoxesSuffice
      <4> QED
        BY ONLY <4>1, <4>2 DEF Boxes
    <3>1. PICK n \in Boxes : n = made + 1
      BY ONLY <3>0
    <3>2. /\ box[n].state = "none" /\ box'[n].state = "running"
          /\ \A b \in Boxes : b # n => box'[b] = box[b]
      BY <2>2, <3>1, StatesAreBoxes DEF IndInv, DockerInStep, TypeInv
    <3>3. Left' = Left \cup {n} /\ n \notin Left
      BY <3>2 DEF Left
    <3>4. Strayed' = Strayed
      BY <2>1, <2>2, <3>1, <3>2 DEF Strayed, Running, Boxes
    <3>5. Cardinality(Left') = Cardinality(Left) + 1
      BY <1>1, <3>3, LeftIsFinite, FS_AddElement
    <3> QED
      BY <1>1, <2>1, <2>2, <3>4, <3>5 DEF Counts, Fault
  <2>3. CASE Fault /\ host' = "failed" /\ UNCHANGED <<docker, box>>
    <3>1. Left' = Left /\ Strayed' = Strayed
      BY <2>3 DEF Left, Strayed, Running
    <3> QED
      BY <1>1, <2>1, <2>3, <3>1 DEF Counts, Fault
  <2> QED
    BY <1>4, <2>2, <2>3 DEF Run
<1>5. CASE Wait
  <2>1. Left' = Left /\ Strayed' = Strayed
    BY <1>5 DEF Wait, Left, Strayed, Running
  <2>2. /\ host = "wait" /\ host' \in {"kill", "status"} /\ attempt' = attempt
        /\ faults' \in {faults, faults + 1}
    BY <1>5 DEF Wait, Fault
  <2> QED
    BY <1>1, <2>1, <2>2 DEF Counts
<1>6. CASE Kill
  <2>1. host = "kill" /\ UNCHANGED <<attempt, docker>> /\ docker \in Boxes
    BY <1>6 DEF Kill, IndInv, DockerInStep, TypeInv, Waiting, Boxes
  <2>2. CASE /\ Running(docker) /\ host' = "status" /\ faults' = faults
             /\ box' = [box EXCEPT ![docker] = WithState("killed")]
    <3>1. /\ box'[docker].state = "killed" /\ box[docker].state = "running"
          /\ \A b \in Boxes : b # docker => box'[b] = box[b]
      BY <2>1, <2>2, StatesAreBoxes DEF IndInv, TypeInv, Running
    <3>2. Left' = Left /\ Strayed' = Strayed
      BY <2>1, <3>1 DEF Left, Strayed, Running
    <3> QED
      BY <2>1, <2>2, <3>2 DEF Counts
  <2>3. CASE /\ box' = box /\ host' = "failed"
             /\ (~Running(docker) /\ faults' = faults) \/ Fault
    <3>1. Left' = Left /\ Strayed' = Strayed /\ Running(docker)' = Running(docker)
      BY <2>1, <2>3 DEF Left, Strayed, Running
    <3> QED
      BY <1>1, <2>1, <2>3, <3>1 DEF Counts, Fault
  <2> QED
    BY <1>6, <2>2, <2>3 DEF Kill
<1>7. CASE GetValiStatus
  <2>1. /\ host = "status" /\ host' \in {"failed", "remove"}
        /\ UNCHANGED <<attempt, docker, faults, box>>
        /\ ~Running(docker)
    BY <1>7 DEF GetValiStatus, IndInv, DockerInStep, Running
  <2>2. Left' = Left /\ Strayed' = Strayed /\ ~Running(docker)'
    BY <2>1 DEF Left, Strayed, Running
  <2> QED
    BY <2>1, <2>2 DEF Counts
<1>8. CASE Remove
  <2>1. /\ host = "remove" /\ UNCHANGED <<attempt, docker>>
        /\ box[docker].state \in {"exited", "killed"} /\ docker \in Boxes
    BY <1>8 DEF Remove, IndInv, DockerInStep, TypeInv, Waiting, Boxes
  <2>2. CASE /\ host' = "cleanup" /\ faults' = faults
             /\ box' = [box EXCEPT ![docker] = WithState("removed")]
    <3>1. /\ box'[docker].state = "removed"
          /\ \A b \in Boxes : b # docker => box'[b] = box[b]
      BY <2>1, <2>2, StatesAreBoxes DEF IndInv, TypeInv
    <3>2. Left' = Left \ {docker} /\ docker \in Left
      BY <2>1, <3>1 DEF Left
    <3>3. Strayed' = Strayed
      BY <2>1, <3>1 DEF Strayed, Running
    <3>4. Cardinality(Left') = Cardinality(Left) - 1
      BY <1>1, <3>2, LeftIsFinite, FS_RemoveElement
    <3> QED
      BY <1>1, <2>1, <2>2, <3>3, <3>4 DEF Counts
  <2>3. CASE Fault /\ host' = "failed" /\ box' = box
    <3>1. Left' = Left /\ Strayed' = Strayed /\ ~Running(docker)'
      BY <2>1, <2>3 DEF Left, Strayed, Running
    <3> QED
      BY <1>1, <2>1, <2>3, <3>1 DEF Counts, Fault
  <2> QED
    BY <1>8, <2>2, <2>3 DEF Remove
<1>9. CASE Retry
  <2>1. /\ host = "failed" /\ host' = "reset" /\ docker' = 0
        /\ attempt' = attempt + 1 /\ UNCHANGED <<faults, box>>
    BY <1>9 DEF Retry
  <2>2. Left' = Left
    BY <2>1 DEF Left
  <2>3. CASE docker # 0 /\ Running(docker)
    <3>1. PICK d \in Boxes : d = docker
      BY <2>3 DEF IndInv, TypeInv, Boxes
    <3>2. Strayed' = Strayed \cup {d} /\ d \notin Strayed
      BY <2>1, <2>3, <3>1 DEF Strayed, Running, Boxes
    <3>3. Cardinality(Strayed') = Cardinality(Strayed) + 1
      BY <1>1, <3>2, LeftIsFinite, FS_AddElement
    <3> QED
      BY <1>1, <2>1, <2>2, <2>3, <3>3 DEF Counts
  <2>4. CASE docker = 0 \/ ~Running(docker)
    <3>1. Strayed' = Strayed
      BY <2>1, <2>4 DEF Strayed, Running, Boxes
    <3> QED
      BY <1>1, <2>1, <2>2, <2>4, <3>1 DEF Counts
  <2> QED
    BY <2>3, <2>4
<1>10. ASSUME NEW b \in Boxes, Container(b) PROVE Counts'
  <2>1. /\ Running(b) /\ UNCHANGED <<hostVars, faults>>
        /\ \A c \in Boxes : c # b => box'[c] = box[c]
    <3>1. Running(b) /\ UNCHANGED <<hostVars, faults>>
      BY <1>10 DEF Container, Boot, ResetBox, OpenCode, Rewrite, Check, OpenStatus, WriteStatus, Die, At
    <3>2. box \in [Boxes -> Box] /\ (box' = box \/ \E v : box' = [box EXCEPT ![b] = v])
      BY <1>1, <1>10, SMTT(30) DEF Container, Boot, ResetBox, OpenCode, Rewrite, Check, OpenStatus, WriteStatus,
                         Die, IndInv, TypeInv
    <3> QED
      BY <3>1, <3>2
  <2>2. box'[b].state \in {"running", "exited", "failed"}
    <3>1. box[b].state = "running" /\ box[b] \in Box /\ box \in [Boxes -> Box]
      BY <1>1, <2>1 DEF Running, TypeInv
    <3>2. CASE Boot(b)
      <4>1. /\ WithState("failed").state = "failed"
            /\ [box[b] EXCEPT !.code = outfile, !.at = "reset"].state = "running"
        BY <3>1, StatesAreBoxes DEF Box
      <4> QED
        BY <3>1, <3>2, <4>1 DEF Boot
    <3>6. CASE Die(b)
      BY <3>1, <3>6, StatesAreBoxes DEF Die
    <3>3. CASE ResetBox(b) \/ OpenCode(b) \/ Rewrite(b) \/ OpenStatus(b)
      BY <3>1, <3>3 DEF ResetBox, OpenCode, Rewrite, OpenStatus, Box
    <3>4. CASE Check(b)
      BY <3>1, <3>4 DEF Check, Box
    <3>5. CASE WriteStatus(b)
      <4>1. CASE box[b].verdict = "PTCK"
        BY <3>1, <3>5, <4>1 DEF WriteStatus, Box
      <4>2. CASE box[b].verdict # "PTCK"
        BY <3>1, <3>5, <4>2, StatesAreBoxes DEF WriteStatus
      <4> QED
        BY <4>1, <4>2
    <3> QED
      BY <1>10, <3>2, <3>3, <3>4, <3>5, <3>6 DEF Container
  <2>3. Left' = Left /\ Strayed' \subseteq Strayed
    BY <2>1, <2>2 DEF Left, Strayed, Running, hostVars
  <2>4. Cardinality(Strayed') <= Cardinality(Strayed) /\ Cardinality(Strayed') \in Nat
    BY <1>1, <2>3, FewerIsFine
  <2>5. docker # 0 => docker \in Boxes
    BY DEF IndInv, TypeInv, Boxes
  <2>6. (docker # 0 /\ Running(docker)') => Running(docker)
    BY <2>1, <2>5 DEF Running, hostVars
  <2> QED
    BY <1>1, <2>1, <2>3, <2>4, <2>6 DEF Counts, hostVars
<1>11. CASE UNCHANGED vars
  <2>1. Left' = Left /\ Strayed' = Strayed
    BY <1>11 DEF vars, hostVars, Left, Strayed, Running
  <2> QED
    BY <1>11, <2>1 DEF vars, hostVars, Counts, Running
<1> QED
  BY <1>2, <1>3, <1>4, <1>5, <1>6, <1>7, <1>8, <1>9, <1>10, <1>11 DEF Next, Host, Ended

-----------------------------------------------------------------------------
(***************************************************************************)
(* The theorems.                                                           *)
(***************************************************************************)

\* The types of the host, the containers and the files they share.
THEOREM TypeCorrect == Spec => []TypeInv
<1>1. IndInv => TypeInv
  BY DEF IndInv
<1> QED
  BY <1>1, Inductive, PTL

\* A recorded verdict is about the solution it is recorded for, over timeouts,
\* kills, faults of the daemon and retries, as long as the workdir was not kept.
THEOREM VerdictsAreOwn == Spec => []OwnVerdict
<1>1. IndInv => OwnVerdict
  BY DEF IndInv
<1> QED
  BY <1>1, Inductive, PTL

\* A verdict that is not final is recorded only if the host cut the container.
THEOREM UnsettledWasCut == Spec => []UnsettledOnlyIfCut
<1>1. IndInv => UnsettledOnlyIfCut
  BY DEF IndInv
<1> QED
  BY <1>1, Inductive, PTL

\* Containers do not pile up, nor run side by side, over the faults, timeouts
\* and retries of a task.
THEOREM ContainersAreFew == Spec => []NothingPilesUp
<1>1. IndInv /\ Counts => NothingPilesUp
  <2> SUFFICES ASSUME IndInv, Counts PROVE NothingPilesUp
    OBVIOUS
  <2>1. attempt \in Nat /\ faults \in Nat
        /\ Cardinality(Left) \in Nat /\ Cardinality(Strayed) \in Nat
    BY ContainerAssumption, LeftIsFinite DEF IndInv, TypeInv
  <2> QED
    BY <2>1 DEF Counts, NothingPilesUp, AtMostOneLeftPerAttempt, RunsAloneUnlessFault,
                Left, Strayed
<1>2. Spec => []Counts
  BY CountsInit, CountsKept, Inductive, PTL DEF Spec
<1> QED
  BY <1>1, <1>2, Inductive, PTL

-----------------------------------------------------------------------------
(***************************************************************************)
(* Why the task ends: attempt, solution and the place in validate_do_func  *)
(* only grow, and the containers have no part in it.                       *)
(***************************************************************************)
Place(h) ==
  CASE h = "reset"   -> 1
    [] h = "update"  -> 2
    [] h = "run"     -> 3
    [] h = "wait"    -> 4
    [] h = "kill"    -> 5
    [] h = "status"  -> 6
    [] h = "remove"  -> 7
    [] h = "cleanup" -> 8
    [] OTHER         -> 9

Advances ==
  \/ attempt' > attempt
  \/ attempt' = attempt /\ sol' > sol
  \/ attempt' = attempt /\ sol' = sol /\ Place(host') > Place(host)

\* Every step of the host brings the task forward, over attempts, solutions and
\* the steps of each, all of which are limited (TypeCorrect); no step of a
\* container, whatever it does or leaves undone, sets the task back.
THEOREM HostOnlyAdvances ==
  Spec => [][IF Host THEN Advances ELSE UNCHANGED <<attempt, sol, host>>]_vars
<1>1. TypeInv /\ Next => IF Host THEN Advances ELSE UNCHANGED <<attempt, sol, host>>
  <2> SUFFICES ASSUME TypeInv, Next
               PROVE  IF Host THEN Advances ELSE UNCHANGED <<attempt, sol, host>>
    OBVIOUS
  <2>1. attempt \in Nat /\ sol \in Nat
    BY ContainerAssumption DEF TypeInv
  <2>2. CASE Host
    <3> SUFFICES Advances
      BY <2>2
    <3>1. CASE Retry
      BY <3>1, <2>1 DEF Retry, Advances
    <3>2. CASE Cleanup
      <4>1. \/ sol' = sol + 1
            \/ sol' = sol /\ host' = "done"
        BY <3>2 DEF Cleanup
      <4>2. attempt' = attempt /\ host = "cleanup"
        BY <3>2 DEF Cleanup
      <4> QED
        BY <4>1, <4>2, <2>1 DEF Advances, Place
    <3>3. CASE ResetFuzz \/ UpdateCode \/ Run \/ Wait \/ Kill \/ GetValiStatus \/ Remove
      <4>1. attempt' = attempt /\ sol' = sol
        BY <3>3 DEF ResetFuzz, UpdateCode, Run, Wait, Kill, GetValiStatus, Remove
      <4>2. \/ host = "reset" /\ host' = "update"
            \/ host = "update" /\ host' = "run"
            \/ host = "run" /\ host' \in {"wait", "failed"}
            \/ host = "wait" /\ host' \in {"status", "kill"}
            \/ host = "kill" /\ host' \in {"status", "failed"}
            \/ host = "status" /\ host' \in {"remove", "failed"}
            \/ host = "remove" /\ host' \in {"cleanup", "failed"}
        BY <3>3 DEF ResetFuzz, UpdateCode, Run, Wait, Kill, GetValiStatus, Remove
      <4>3. Place(host') > Place(host)
        BY <4>2 DEF Place
      <4> QED
        BY <4>1, <4>3 DEF Advances
    <3> QED
      BY <2>2, <3>1, <3>2, <3>3 DEF Host
  <2>3. CASE ~Host
    <3>1. ASSUME NEW b \in Boxes, Container(b)
          PROVE  UNCHANGED <<attempt, sol, host>>
      BY <3>1 DEF Container, Boot, ResetBox, OpenCode, Rewrite, Check, OpenStatus, WriteStatus, Die,
         hostVars
    <3> QED
      BY <2>3, <3>1 DEF Next, Ended, vars, hostVars
  <2> QED
    BY <2>2, <2>3
<1> QED
  BY <1>1, TypeCorrect, PTL DEF Spec
=============================================================================
