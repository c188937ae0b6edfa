----------------------------- MODULE SetupProofs -----------------------------
(***************************************************************************)
(* What is proved of the preparation of the images and of the API usage    *)
(* cache for any number of targets, processes and runs: their types, and   *)
(* what is found when they end. The argument has a part for each of them,  *)
(* and the two parts meet only in the images.                              *)
(***************************************************************************)
EXTENDS Setup, SequenceTheorems, TLAPS

(***************************************************************************)
(* The invariant of the preparation of the images.                         *)
(***************************************************************************)
FirstPass  == {"look", "remove", "base"}
SecondPass == {"build", "commit"}

InTodo(p, t)  == \E j \in 1..Len(todo[p]) : todo[p][j] = t
ToBuild(p, t) == \E j \in idx[p]..Len(todo[p]) : todo[p][j] = t

\* Another run has taken the image of t away.
Taken(p, t) == \E o \in Preps \ {p} : t \in removed[o]

\* Where the loops are, and what was checked before them.
PrepInStep(p) ==
  /\ ppc[p] = "idle" => idx[p] = 1 /\ removed[p] = {}
  /\ ppc[p] \in FirstPass => idx[p] \in 1..Len(args[p])
  /\ ppc[p] \in SecondPass => idx[p] \in 1..Len(todo[p])
  /\ ppc[p] \in FirstPass \cup SecondPass =>
       \A i \in 1..Len(args[p]) : args[p][i] \in Configured
  /\ ppc[p] = "remove" => force[p]
  /\ builder[p] => ppc[p] \in {"commit", "raised"}

\* Only forced runs remove images, and in the first pass each one is on the list
\* of those to be built, or about to be put there.
RemovedIsListed(p) ==
  /\ removed[p] # {} => force[p]
  /\ ppc[p] \in FirstPass => \A t \in removed[p] :
       InTodo(p, t) \/ (ppc[p] = "base" /\ t = args[p][idx[p]])

\* The targets that are done with, in either pass and at the end.
DealtWith(p) ==
  /\ ppc[p] \in FirstPass => \A i \in 1..(idx[p] - 1) :
       \/ InTodo(p, args[p][i])
       \/ ~force[p] /\ (image[args[p][i]] # 0 \/ Taken(p, args[p][i]))
  /\ ppc[p] \in SecondPass => \A i \in 1..Len(args[p]) :
       \/ ToBuild(p, args[p][i])
       \/ image[args[p][i]] # 0
       \/ Taken(p, args[p][i])
  /\ ppc[p] = "done" => \A i \in 1..Len(args[p]) :
       image[args[p][i]] # 0 \/ Taken(p, args[p][i])

\* A run that is to rebuild the image of t, which it removed.
Owing(p, t) ==
  /\ t \in removed[p]
  /\ ppc[p] \in FirstPass \/ (ppc[p] \in SecondPass /\ ToBuild(p, t))

MissingIsOwed ==
  \A t \in Targets : image[t] = 0 /\ lastId[t] > 0 =>
    \E p \in Preps : Owing(p, t) \/ (t \in removed[p] /\ ppc[p] = "raised")

ImageInv ==
  /\ Images!TypeInv
  /\ \A p \in Preps : PrepInStep(p) /\ RemovedIsListed(p) /\ DealtWith(p)
  /\ MissingIsOwed

(***************************************************************************)
(* The invariant of the usage cache.                                       *)
(***************************************************************************)
\* Once an analysis is on its way, the parameters were written; a container runs
\* only while its run waits for it, or after that run has ended.
ParamsAreThere ==
  /\ cache.is = "absent" => cache.docs = 0
  /\ \A r \in Runs :
       /\ pc[r] = "run" \/ box[r].state = "running" => params[Program[r]] # "absent"
       /\ Usages!BoxRuns(r) => pc[r] \in {"wait", "raised", "crashed"}

\* What the builder of the cache has made of it.
BuilderInStep(r) ==
  /\ Usages!BoxRuns(r) /\ box[r].mode = "collect" =>
       cache \in (IF box[r].at = "write" THEN {Usages!Torn}
                  ELSE {[is |-> "absent", docs |-> 0], Usages!Whole(1)})
  /\ pc[r] = "wait" /\ mode[r] = "collect" /\ Usages!BoxRuns(r) /\ box[r].at = "boot" =>
       cache \in {[is |-> "absent", docs |-> 0], Usages!Whole(1)}
  /\ pc[r] = "wait" /\ mode[r] = "collect" /\ box[r].state = "exited" => cache = Usages!Whole(0)
  /\ pc[r] = "readcache" => cache = Usages!Whole(0)
  /\ pc[r] = "truncate" => cache = Usages!Whole(0) /\ docs[r] = 1
  /\ pc[r] = "write" => docs[r] = 1

BoxInStep(r) ==
  /\ pc[r] = "run" => params[Program[r]] = mode[r]
  /\ Usages!BoxRuns(r) => mode[r] = IF box[r].at = "boot" THEN params[Program[r]] ELSE box[r].mode

\* As long as nothing was spoiled: one builder at most, and without one the
\* usages in the cache have their documents once.
Orderly ==
  ~spoiled =>
    /\ \A r, q \in Runs : ~Usages!Clash(r, q)
    /\ \A r \in Runs : BuilderInStep(r) /\ BoxInStep(r)
    /\ (\A r \in Runs : ~Usages!Building(r)) =>
         cache \in {[is |-> "absent", docs |-> 0], Usages!Whole(1)}
    /\ sg = "torn" => \E r \in Runs : pc[r] = "crawlwrite"

\* A run that met no other one is alone as long as it is at work, and finds
\* the list its own container wrote.
Undisturbed ==
  \A r \in Runs \ met :
    /\ Usages!Active(r) => \A q \in Runs \ {r} : ~Usages!Active(q)
    /\ pc[r] = "load" => cache.is # "absent"
    /\ ~spoiled /\ pc[r] = "wait" /\ box[r].state = "exited" /\ mode[r] = "list" =>
         result[Program[r]] = "list"
    /\ ~spoiled /\ pc[r] = "readlist" => result[Program[r]] = "list"

UsageInv ==
  /\ Usages!TypeInv
  /\ ParamsAreThere
  /\ Orderly
  /\ Undisturbed
  /\ UndisturbedRunIsWell

-----------------------------------------------------------------------------
(***************************************************************************)
(* The steps of the preparation.                                           *)
(***************************************************************************)

\* What the constants are assumed to be.
LEMMA Assumed ==
  /\ Configured \subseteq Targets /\ ArgLists \subseteq Seq(Targets) \ {<< >>}
  /\ SearchTarget \in Targets /\ Program \in [Runs -> {"main", "gen"}] /\ MaxCrashes \in Nat
BY SetupAssumption DEF Usages!CacheAssumption, Images!PrepareAssumption

\* The lists a run works on are never left.
LEMMA ListsAreUsable ==
  ASSUME Images!TypeInv, NEW p \in Preps, PrepInStep(p)
  PROVE  /\ args[p] \in Seq(Targets) /\ Len(args[p]) \in Nat \ {0} /\ Len(todo[p]) \in Nat
         /\ idx[p] \in Nat \ {0} /\ todo[p] \in Seq(Configured)
         /\ \A i \in 1..Len(args[p]) : args[p][i] \in Targets
         /\ \A i \in 1..Len(todo[p]) : todo[p][i] \in Configured
         /\ ppc[p] \in FirstPass =>
              Images!TargetOf(p) = args[p][idx[p]] /\ Images!TargetOf(p) \in Configured
         /\ ppc[p] \in SecondPass =>
              Images!TargetOf(p) = todo[p][idx[p]] /\ Images!TargetOf(p) \in Configured
<1>1. /\ args[p] \in Seq(Targets) /\ args[p] # << >> /\ todo[p] \in Seq(Configured)
      /\ idx[p] \in Nat \ {0}
  BY Assumed DEF Images!TypeInv
<1>3. /\ Len(args[p]) \in Nat \ {0} /\ Len(todo[p]) \in Nat
      /\ \A i \in 1..Len(args[p]) : args[p][i] \in Targets
      /\ \A i \in 1..Len(todo[p]) : todo[p][i] \in Configured
  BY <1>1
<1> QED
  BY <1>1, <1>3 DEF PrepInStep, FirstPass, SecondPass, Images!TargetOf

\* The invariant of the images holds at the start.
LEMMA ImageInit == Init => ImageInv
<1> SUFFICES ASSUME Images!Init PROVE ImageInv
  BY DEF Init
<1>1. Images!TypeInv
  <2>1. /\ args \in [Preps -> ArgLists] /\ force \in [Preps -> BOOLEAN]
        /\ builder \in [Preps -> BOOLEAN]
    BY DEF Images!Init
  <2>2. /\ ppc \in [Preps -> {"idle"}] /\ idx \in [Preps -> Nat \ {0}] /\ img \in [Preps -> Nat]
        /\ untagged \in [Targets -> SUBSET Nat] /\ removed \in [Preps -> SUBSET Targets]
        /\ image \in [Targets -> Nat] /\ lastId = image
    BY DEF Images!Init
  <2>3. todo \in [Preps -> Seq(Configured)]
    BY DEF Images!Init
  <2>4. ppc \in [Preps -> {"idle", "look", "remove", "base", "build", "commit"} \cup Images!PrepEnds]
    BY <2>2
  <2>5. \A t \in Targets : image[t] <= lastId[t]
    BY <2>2
  <2> QED
    BY <2>1, <2>2, <2>3, <2>4, <2>5 DEF Images!TypeInv
<1>2. \A p \in Preps : PrepInStep(p) /\ RemovedIsListed(p) /\ DealtWith(p)
  BY DEF Images!Init, PrepInStep, RemovedIsListed, DealtWith, FirstPass, SecondPass
<1>3. MissingIsOwed
  BY DEF Images!Init, MissingIsOwed
<1> QED
  BY <1>1, <1>2, <1>3 DEF ImageInv

\* A step of run p that leaves the images alone.
LEMMA QuietStepKeeps ==
  ASSUME ImageInv, NEW p \in Preps, ppc[p] # "raised",
         UNCHANGED <<args, force, image, untagged, lastId, removed>>,
         Images!TypeInv',
         \A o \in Preps \ {p} : /\ ppc'[o] = ppc[o] /\ idx'[o] = idx[o]
                                /\ todo'[o] = todo[o] /\ builder'[o] = builder[o],
         PrepInStep(p)', RemovedIsListed(p)', DealtWith(p)',
         ppc'[p] # "raised" => \A t \in Targets : Owing(p, t) => Owing(p, t)' \/ image[t] # 0
  PROVE  ImageInv'
<1>1. \A o \in Preps \ {p} : PrepInStep(o)' /\ RemovedIsListed(o)'
  BY DEF ImageInv, PrepInStep, RemovedIsListed, InTodo
<1>2. \A o \in Preps \ {p} : DealtWith(o)'
  BY DEF ImageInv, DealtWith, InTodo, ToBuild, Taken
<1>3. MissingIsOwed'
  <2> SUFFICES ASSUME NEW t \in Targets, image[t] = 0, lastId[t] > 0
               PROVE  \E o \in Preps :
                        Owing(o, t)' \/ (t \in removed[o] /\ ppc'[o] = "raised")
    BY DEF MissingIsOwed
  <2>1. PICK o \in Preps : Owing(o, t) \/ (t \in removed[o] /\ ppc[o] = "raised")
    BY DEF ImageInv, MissingIsOwed
  <2>2. CASE o # p
    <3>1. Owing(o, t) => Owing(o, t)'
      BY <2>2 DEF Owing, ToBuild
    <3> QED
      BY <2>1, <2>2, <3>1
  <2>3. CASE o = p
    <3>1. Owing(p, t) => t \in removed[p]
      BY DEF Owing
    <3> QED
      BY <2>1, <2>3, <3>1
  <2> QED
    BY <2>2, <2>3
<1> QED
  BY <1>1, <1>2, <1>3 DEF ImageInv

\* Where Images!TypeInv puts the places of a run.
PrepPlaces == {"idle", "look", "remove", "base", "build", "commit", "done", "raised"}

\* The variables of run p that a quiet step changes, at p only.
OnlyAt(p) ==
  /\ ppc' = [ppc EXCEPT ![p] = ppc'[p]]
  /\ idx' = [idx EXCEPT ![p] = idx'[p]]
  /\ img' = [img EXCEPT ![p] = img'[p]]
  /\ todo' = [todo EXCEPT ![p] = todo'[p]]
  /\ builder' = [builder EXCEPT ![p] = builder'[p]]

\* Such a step keeps the types, and the other runs.
LEMMA QuietTypes ==
  ASSUME Images!TypeInv, NEW p \in Preps, OnlyAt(p),
         UNCHANGED <<args, force, image, untagged, lastId, removed>>,
         ppc'[p] \in PrepPlaces, idx'[p] \in Nat \ {0}, img'[p] \in Nat,
         todo'[p] \in Seq(Configured), builder'[p] \in BOOLEAN
  PROVE  /\ Images!TypeInv'
         /\ \A o \in Preps \ {p} : /\ ppc'[o] = ppc[o] /\ idx'[o] = idx[o]
                                   /\ todo'[o] = todo[o] /\ builder'[o] = builder[o]
<1>1. /\ ppc \in [Preps -> PrepPlaces] /\ idx \in [Preps -> Nat \ {0}]
      /\ img \in [Preps -> Nat] /\ todo \in [Preps -> Seq(Configured)]
      /\ builder \in [Preps -> BOOLEAN]
  BY DEF Images!TypeInv, PrepPlaces, Images!PrepEnds
<1>2. /\ ppc' \in [Preps -> PrepPlaces] /\ idx' \in [Preps -> Nat \ {0}]
      /\ img' \in [Preps -> Nat] /\ todo' \in [Preps -> Seq(Configured)]
  BY <1>1 DEF OnlyAt
<1>3. builder' \in [Preps -> BOOLEAN]
  BY <1>1 DEF OnlyAt
<1>4. Images!TypeInv'
  BY <1>2, <1>3 DEF Images!TypeInv, PrepPlaces, Images!PrepEnds
<1> QED
  BY <1>1, <1>4 DEF OnlyAt

\* What a step leaves alone it changes at p only.
LEMMA UnchangedOnlyAt ==
  ASSUME Images!TypeInv, NEW p \in Preps
  PROVE  /\ ppc = [ppc EXCEPT ![p] = ppc[p]] /\ idx = [idx EXCEPT ![p] = idx[p]]
         /\ img = [img EXCEPT ![p] = img[p]] /\ todo = [todo EXCEPT ![p] = todo[p]]
         /\ builder = [builder EXCEPT ![p] = builder[p]]
         /\ ppc \in [Preps -> PrepPlaces] /\ idx[p] \in Nat \ {0} /\ img[p] \in Nat
         /\ todo[p] \in Seq(Configured) /\ builder[p] \in BOOLEAN
         /\ DOMAIN ppc = Preps /\ DOMAIN idx = Preps /\ DOMAIN img = Preps
         /\ DOMAIN todo = Preps /\ DOMAIN builder = Preps
BY DEF Images!TypeInv, PrepPlaces, Images!PrepEnds

\* The first pass begins, or the files of a target are missing.
LEMMA PrepStartKeeps == ASSUME ImageInv, NEW p \in Preps, Images!Start(p) PROVE ImageInv'
<1> USE DEF FirstPass, SecondPass
<1>0. Images!TypeInv
  BY DEF ImageInv
<1>1. /\ ppc[p] = "idle" /\ ppc'[p] \in {"look", "raised"}
      /\ ppc'[p] = "look" => \A i \in 1..Len(args[p]) : args[p][i] \in Configured
      /\ UNCHANGED <<args, force, idx, img, todo, builder, image, untagged, lastId, removed>>
  BY <1>0, UnchangedOnlyAt DEF Images!Start, Images!GoTo
<1>2. OnlyAt(p) /\ ppc'[p] \in PrepPlaces /\ idx'[p] \in Nat \ {0} /\ img'[p] \in Nat
      /\ todo'[p] \in Seq(Configured) /\ builder'[p] \in BOOLEAN
  BY <1>0, <1>1, UnchangedOnlyAt DEF OnlyAt, Images!Start, Images!GoTo, PrepPlaces
<1>3. /\ Images!TypeInv'
      /\ \A o \in Preps \ {p} : /\ ppc'[o] = ppc[o] /\ idx'[o] = idx[o]
                                /\ todo'[o] = todo[o] /\ builder'[o] = builder[o]
  BY <1>0, <1>1, <1>2, QuietTypes
<1>4. /\ PrepInStep(p) /\ RemovedIsListed(p) /\ DealtWith(p)
      /\ Len(args[p]) \in Nat \ {0} /\ Len(todo[p]) \in Nat
  BY ListsAreUsable DEF ImageInv
<1>5. PrepInStep(p)' /\ RemovedIsListed(p)' /\ DealtWith(p)'
  BY <1>1, <1>4 DEF PrepInStep, RemovedIsListed, DealtWith
<1>6. \A t \in Targets : Owing(p, t) => Owing(p, t)' \/ image[t] # 0
  BY <1>1 DEF Owing
<1> QED
  BY <1>1, <1>3, <1>5, <1>6, QuietStepKeeps

\* A request raises.
LEMMA RaiseKeeps == ASSUME ImageInv, NEW p \in Preps, Images!Raise(p) PROVE ImageInv'
<1> USE DEF FirstPass, SecondPass
<1>0. Images!TypeInv
  BY DEF ImageInv
<1>1. /\ ppc[p] \in FirstPass \cup SecondPass /\ ppc'[p] = "raised"
      /\ UNCHANGED <<args, force, idx, img, todo, builder, image, untagged, lastId, removed>>
  BY <1>0, UnchangedOnlyAt DEF Images!Raise, Images!GoTo, PrepPlaces, Images!PrepEnds
<1>2. OnlyAt(p) /\ ppc'[p] \in PrepPlaces /\ idx'[p] \in Nat \ {0} /\ img'[p] \in Nat
      /\ todo'[p] \in Seq(Configured) /\ builder'[p] \in BOOLEAN
  BY <1>0, <1>1, UnchangedOnlyAt DEF OnlyAt, Images!Raise, Images!GoTo, PrepPlaces
<1>3. /\ Images!TypeInv'
      /\ \A o \in Preps \ {p} : /\ ppc'[o] = ppc[o] /\ idx'[o] = idx[o]
                                /\ todo'[o] = todo[o] /\ builder'[o] = builder[o]
  BY <1>0, <1>1, <1>2, QuietTypes
<1>4. /\ PrepInStep(p) /\ RemovedIsListed(p) /\ DealtWith(p)
      /\ Len(args[p]) \in Nat \ {0} /\ Len(todo[p]) \in Nat
  BY ListsAreUsable DEF ImageInv
<1>5. PrepInStep(p)' /\ RemovedIsListed(p)' /\ DealtWith(p)'
  BY <1>1, <1>4 DEF PrepInStep, RemovedIsListed, DealtWith
<1> QED
  BY <1>1, <1>3, <1>5, QuietStepKeeps

\* The container in which an image is built is started.
LEMMA BuildKeeps == ASSUME ImageInv, NEW p \in Preps, Images!Build(p) PROVE ImageInv'
<1> USE DEF FirstPass, SecondPass
<1>0. Images!TypeInv
  BY DEF ImageInv
<1>1. /\ ppc[p] = "build" /\ ppc'[p] = "commit" /\ builder'[p] = TRUE
      /\ UNCHANGED <<args, force, idx, img, todo, image, untagged, lastId, removed>>
  BY <1>0, UnchangedOnlyAt DEF Images!Build, Images!GoTo
<1>2. OnlyAt(p) /\ ppc'[p] \in PrepPlaces /\ idx'[p] \in Nat \ {0} /\ img'[p] \in Nat
      /\ todo'[p] \in Seq(Configured) /\ builder'[p] \in BOOLEAN
  BY <1>0, <1>1, UnchangedOnlyAt DEF OnlyAt, Images!Build, Images!GoTo, PrepPlaces
<1>3. /\ Images!TypeInv'
      /\ \A o \in Preps \ {p} : /\ ppc'[o] = ppc[o] /\ idx'[o] = idx[o]
                                /\ todo'[o] = todo[o] /\ builder'[o] = builder[o]
  BY <1>0, <1>1, <1>2, QuietTypes
<1>4. /\ PrepInStep(p) /\ RemovedIsListed(p) /\ DealtWith(p)
      /\ Len(args[p]) \in Nat \ {0} /\ Len(todo[p]) \in Nat
  BY ListsAreUsable DEF ImageInv
<1>5. PrepInStep(p)' /\ RemovedIsListed(p)' /\ DealtWith(p)'
  BY <1>1, <1>4 DEF PrepInStep, RemovedIsListed, DealtWith, ToBuild, Taken
<1>6. \A t \in Targets : Owing(p, t) => Owing(p, t)' \/ image[t] # 0
  BY <1>1 DEF Owing, ToBuild
<1> QED
  BY <1>1, <1>3, <1>5, <1>6, QuietStepKeeps

\* A target is skipped, or its image is to be removed, or its base image looked for.
LEMMA LookKeeps == ASSUME ImageInv, NEW p \in Preps, Images!Look(p) PROVE ImageInv'
<1> USE DEF FirstPass, SecondPass
<1>0. Images!TypeInv
  BY DEF ImageInv
<1>a. /\ PrepInStep(p) /\ RemovedIsListed(p) /\ DealtWith(p)
      /\ Len(args[p]) \in Nat \ {0} /\ Len(todo[p]) \in Nat /\ idx[p] \in Nat \ {0}
      /\ todo[p] \in Seq(Configured)
  BY <1>0, ListsAreUsable DEF ImageInv
<1>b. /\ ppc[p] = "look" /\ idx[p] \in 1..Len(args[p]) /\ Images!TargetOf(p) = args[p][idx[p]]
      /\ Images!TargetOf(p) \in Configured /\ Images!TargetOf(p) \in Targets
  BY <1>0, <1>a, ListsAreUsable, Assumed DEF Images!Look, PrepInStep
<1>1. /\ UNCHANGED <<args, force, todo, builder, image, untagged, lastId, removed>>
      /\ img'[p] = image[args[p][idx[p]]] /\ img' = [img EXCEPT ![p] = img'[p]]
      /\ \/ ppc'[p] \in {"base", "remove"} /\ UNCHANGED idx
            /\ (ppc'[p] = "remove" => force[p])
            /\ ppc' = [ppc EXCEPT ![p] = ppc'[p]]
         \/ /\ ~force[p] /\ image[args[p][idx[p]]] # 0 /\ idx[p] < Len(args[p])
            /\ idx' = [idx EXCEPT ![p] = idx[p] + 1] /\ ppc' = [ppc EXCEPT ![p] = "look"]
         \/ /\ ~force[p] /\ image[args[p][idx[p]]] # 0 /\ ~(idx[p] < Len(args[p]))
            /\ idx' = [idx EXCEPT ![p] = 1]
            /\ ppc' = [ppc EXCEPT ![p] = IF todo[p] = << >> THEN "done" ELSE "build"]
  <2>1. /\ UNCHANGED <<args, force, todo, builder, image, untagged, lastId, removed>>
        /\ img' = [img EXCEPT ![p] = image[args[p][idx[p]]]]
        /\ img'[p] = image[args[p][idx[p]]]
    BY <1>0, <1>b, UnchangedOnlyAt DEF Images!Look
  <2>2. CASE img'[p] = 0
    <3>1. Images!GoTo(p, "base") /\ UNCHANGED idx
      BY <2>2 DEF Images!Look
    <3>2. ppc' = [ppc EXCEPT ![p] = ppc'[p]] /\ ppc'[p] = "base"
      BY <1>0, <3>1, UnchangedOnlyAt DEF Images!GoTo
    <3>3. ppc'[p] = "remove" => force[p]
      BY <2>2, <3>2
    <3> QED
      BY <2>1, <3>1, <3>2, <3>3
  <2>3. CASE img'[p] # 0 /\ force[p]
    <3>1. Images!GoTo(p, "remove") /\ UNCHANGED idx
      BY <2>3 DEF Images!Look
    <3>2. ppc' = [ppc EXCEPT ![p] = ppc'[p]] /\ ppc'[p] = "remove"
      BY <1>0, <3>1, UnchangedOnlyAt DEF Images!GoTo
    <3>3. ppc'[p] = "remove" => force[p]
      BY <2>3, <3>2
    <3> QED
      BY <2>1, <3>1, <3>2, <3>3
  <2>4. CASE img'[p] # 0 /\ ~force[p]
    <3>1. Images!NextTarget(p, todo[p])
      BY <2>4 DEF Images!Look
    <3> QED
      BY <2>1, <2>4, <3>1 DEF Images!NextTarget, Images!GoTo
  <2> QED
    BY <2>2, <2>3, <2>4
<1>2. OnlyAt(p) /\ ppc'[p] \in PrepPlaces /\ idx'[p] \in Nat \ {0} /\ img'[p] \in Nat
      /\ todo'[p] \in Seq(Configured) /\ builder'[p] \in BOOLEAN
  <2>1. /\ ppc' = [ppc EXCEPT ![p] = ppc'[p]] /\ ppc'[p] \in PrepPlaces
        /\ idx' = [idx EXCEPT ![p] = idx'[p]] /\ idx'[p] \in Nat \ {0}
    BY <1>0, <1>a, <1>1, UnchangedOnlyAt DEF PrepPlaces
  <2>2. img'[p] \in Nat
    BY <1>0, <1>1, <1>b DEF Images!TypeInv
  <2> QED
    BY <1>0, <1>1, <2>1, <2>2, UnchangedOnlyAt DEF OnlyAt
<1>3. /\ Images!TypeInv'
      /\ \A o \in Preps \ {p} : /\ ppc'[o] = ppc[o] /\ idx'[o] = idx[o]
                                /\ todo'[o] = todo[o] /\ builder'[o] = builder[o]
  BY <1>0, <1>1, <1>2, QuietTypes
<1>4. CASE /\ ppc'[p] \in {"base", "remove"} /\ UNCHANGED idx
           /\ (ppc'[p] = "remove" => force[p])
  <2>1. PrepInStep(p)' /\ RemovedIsListed(p)' /\ DealtWith(p)'
    BY <1>a, <1>b, <1>1, <1>4 DEF PrepInStep, RemovedIsListed, DealtWith, InTodo, Taken
  <2>2. \A t \in Targets : Owing(p, t) => Owing(p, t)' \/ image[t] # 0
    BY <1>1, <1>4 DEF Owing
  <2> QED
    BY <1>b, <1>1, <1>3, <2>1, <2>2, QuietStepKeeps
<1>5. CASE /\ ~force[p] /\ image[args[p][idx[p]]] # 0 /\ idx[p] < Len(args[p])
           /\ idx' = [idx EXCEPT ![p] = idx[p] + 1] /\ ppc' = [ppc EXCEPT ![p] = "look"]
  <2>0. ppc'[p] = "look" /\ idx'[p] = idx[p] + 1 /\ removed[p] = {}
    BY <1>0, <1>a, <1>5, UnchangedOnlyAt DEF RemovedIsListed
  <2>1. PrepInStep(p)' /\ RemovedIsListed(p)'
    BY <1>a, <1>b, <1>1, <1>5, <2>0 DEF PrepInStep, RemovedIsListed
  <2>3. DealtWith(p)'
    <3> SUFFICES ASSUME NEW i \in 1..idx[p]
                 PROVE  \/ InTodo(p, args[p][i])'
                        \/ ~force'[p] /\ (image'[args[p][i]] # 0 \/ Taken(p, args[p][i])')
      BY <1>1, <2>0, <1>a DEF DealtWith
    <3>1. CASE i = idx[p]
      BY <1>1, <1>5, <3>1
    <3>2. CASE i \in 1..(idx[p] - 1)
      BY <1>a, <1>b, <1>1, <3>2 DEF DealtWith, InTodo, Taken
    <3> QED
      BY <1>a, <3>1, <3>2
  <2>2. \A t \in Targets : ~Owing(p, t)
    BY <2>0 DEF Owing
  <2> QED
    BY <1>b, <1>1, <1>3, <2>1, <2>2, <2>3, QuietStepKeeps
<1>6. CASE /\ ~force[p] /\ image[args[p][idx[p]]] # 0 /\ ~(idx[p] < Len(args[p]))
           /\ idx' = [idx EXCEPT ![p] = 1]
           /\ ppc' = [ppc EXCEPT ![p] = IF todo[p] = << >> THEN "done" ELSE "build"]
  <2>0. /\ ppc'[p] = IF todo[p] = << >> THEN "done" ELSE "build"
        /\ idx'[p] = 1 /\ removed[p] = {} /\ idx[p] = Len(args[p])
    BY <1>0, <1>a, <1>b, <1>6, UnchangedOnlyAt DEF RemovedIsListed
  <2>1. PrepInStep(p)' /\ RemovedIsListed(p)'
    BY <1>a, <1>b, <1>1, <1>6, <2>0 DEF PrepInStep, RemovedIsListed
  <2>3. DealtWith(p)'
    <3>1. \A i \in 1..Len(args[p]) :
            InTodo(p, args[p][i]) \/ image[args[p][i]] # 0 \/ Taken(p, args[p][i])
      BY <1>a, <1>b, <1>6, <2>0 DEF DealtWith
    <3>2. todo[p] = << >> => \A t : ~InTodo(p, t)
      BY DEF InTodo
    <3>3. \A t : /\ InTodo(p, t) => ToBuild(p, t)'
                 /\ Taken(p, t)' <=> Taken(p, t)
      BY <1>1, <2>0 DEF InTodo, ToBuild, Taken
    <3> QED
      BY <1>1, <2>0, <3>1, <3>2, <3>3 DEF DealtWith
  <2>2. \A t \in Targets : ~Owing(p, t)
    BY <2>0 DEF Owing
  <2> QED
    BY <1>b, <1>1, <1>3, <2>0, <2>1, <2>2, <2>3, QuietStepKeeps
<1> QED
  BY <1>1, <1>4, <1>5, <1>6

\* The target is put on the list of those to be built.
LEMMA BaseKeeps == ASSUME ImageInv, NEW p \in Preps, Images!Base(p) PROVE ImageInv'
<1> USE DEF FirstPass, SecondPass
<1>0. Images!TypeInv
  BY DEF ImageInv
<1>a. /\ PrepInStep(p) /\ RemovedIsListed(p) /\ DealtWith(p)
      /\ Len(args[p]) \in Nat \ {0} /\ Len(todo[p]) \in Nat /\ idx[p] \in Nat \ {0}
      /\ todo[p] \in Seq(Configured)
  BY <1>0, ListsAreUsable DEF ImageInv
<1>b. /\ ppc[p] = "base" /\ idx[p] \in 1..Len(args[p]) /\ Images!TargetOf(p) = args[p][idx[p]]
      /\ Images!TargetOf(p) \in Configured /\ Images!TargetOf(p) \in Targets
  BY <1>0, <1>a, ListsAreUsable, Assumed DEF Images!Base, PrepInStep
<1>x. PICK x \in Configured : x = args[p][idx[p]]
  BY <1>b
<1>1. /\ UNCHANGED <<args, force, img, builder, image, untagged, lastId, removed>>
      /\ todo' = [todo EXCEPT ![p] = Append(todo[p], args[p][idx[p]])]
      /\ todo'[p] = Append(todo[p], args[p][idx[p]])
      /\ \/ /\ idx[p] < Len(args[p])
            /\ idx' = [idx EXCEPT ![p] = idx[p] + 1] /\ ppc' = [ppc EXCEPT ![p] = "look"]
         \/ /\ ~(idx[p] < Len(args[p]))
            /\ idx' = [idx EXCEPT ![p] = 1]
            /\ ppc' = [ppc EXCEPT ![p] = IF todo'[p] = << >> THEN "done" ELSE "build"]
  BY <1>0, <1>b, UnchangedOnlyAt DEF Images!Base, Images!GoTo, Images!NextTarget
<1>c. /\ todo'[p] \in Seq(Configured) /\ Len(todo'[p]) = Len(todo[p]) + 1
      /\ \A j \in 1..Len(todo[p]) : todo'[p][j] = todo[p][j]
      /\ todo'[p][Len(todo[p]) + 1] = args[p][idx[p]]
  BY <1>1, <1>a, <1>b
<1>d. \A t : /\ InTodo(p, t) => InTodo(p, t)'
             /\ InTodo(p, x)'
             /\ Taken(p, t)' <=> Taken(p, t)
  BY <1>1, <1>a, <1>c, <1>x, SMTT(30) DEF InTodo, Taken
<1>2. OnlyAt(p) /\ ppc'[p] \in PrepPlaces /\ idx'[p] \in Nat \ {0} /\ img'[p] \in Nat
      /\ todo'[p] \in Seq(Configured) /\ builder'[p] \in BOOLEAN
  <2>1. /\ ppc' = [ppc EXCEPT ![p] = ppc'[p]] /\ ppc'[p] \in PrepPlaces
        /\ idx' = [idx EXCEPT ![p] = idx'[p]] /\ idx'[p] \in Nat \ {0}
    BY <1>0, <1>a, <1>1, UnchangedOnlyAt DEF PrepPlaces
  <2>2. todo' = [todo EXCEPT ![p] = todo'[p]]
    BY <1>1
  <2> QED
    BY <1>0, <1>1, <1>c, <2>1, <2>2, UnchangedOnlyAt DEF OnlyAt
<1>3. /\ Images!TypeInv'
      /\ \A o \in Preps \ {p} : /\ ppc'[o] = ppc[o] /\ idx'[o] = idx[o]
                                /\ todo'[o] = todo[o] /\ builder'[o] = builder[o]
  BY <1>0, <1>1, <1>2, QuietTypes
<1>4. \A t \in removed[p] : InTodo(p, t)'
  BY <1>a, <1>b, <1>d, <1>x DEF RemovedIsListed
<1>5. \A i \in 1..idx[p] :
        \/ InTodo(p, args[p][i])'
        \/ ~force[p] /\ (image[args[p][i]] # 0 \/ Taken(p, args[p][i]))
  <2> SUFFICES ASSUME NEW i \in 1..idx[p]
               PROVE  \/ InTodo(p, args[p][i])'
                      \/ ~force[p] /\ (image[args[p][i]] # 0 \/ Taken(p, args[p][i]))
    OBVIOUS
  <2>1. CASE i = idx[p]
    BY <1>1, <1>d, <1>x, <2>1
  <2>2. CASE i \in 1..(idx[p] - 1)
    BY <1>1, <1>a, <1>b, <1>d, <2>2 DEF DealtWith
  <2> QED
    BY <1>a, <2>1, <2>2
<1>6. CASE /\ idx[p] < Len(args[p])
           /\ idx' = [idx EXCEPT ![p] = idx[p] + 1] /\ ppc' = [ppc EXCEPT ![p] = "look"]
  <2>0. ppc'[p] = "look" /\ idx'[p] = idx[p] + 1
    BY <1>0, <1>6, UnchangedOnlyAt
  <2>1. PrepInStep(p)' /\ RemovedIsListed(p)'
    BY <1>a, <1>b, <1>1, <1>4, <1>6, <2>0, SMTT(30) DEF PrepInStep, RemovedIsListed
  <2>2. DealtWith(p)'
    BY <1>a, <1>1, <1>5, <1>d, <2>0 DEF DealtWith
  <2>3. \A t \in Targets : Owing(p, t) => Owing(p, t)' \/ image[t] # 0
    BY <1>1, <2>0 DEF Owing
  <2> QED
    BY <1>b, <1>1, <1>3, <2>1, <2>2, <2>3, QuietStepKeeps
<1>7. CASE /\ ~(idx[p] < Len(args[p]))
           /\ idx' = [idx EXCEPT ![p] = 1]
           /\ ppc' = [ppc EXCEPT ![p] = IF todo'[p] = << >> THEN "done" ELSE "build"]
  <2>0. ppc'[p] = "build" /\ idx'[p] = 1 /\ idx[p] = Len(args[p])
    BY <1>0, <1>a, <1>b, <1>c, <1>7, UnchangedOnlyAt
  <2>1. PrepInStep(p)' /\ RemovedIsListed(p)'
    BY <1>a, <1>b, <1>c, <1>1, <1>4, <1>7, <2>0 DEF PrepInStep, RemovedIsListed
  <2>4. \A t : InTodo(p, t)' <=> ToBuild(p, t)'
    BY <2>0 DEF InTodo, ToBuild
  <2>2. DealtWith(p)'
    BY <1>a, <1>1, <1>5, <1>d, <2>0, <2>4 DEF DealtWith
  <2>3. \A t \in Targets : Owing(p, t) => Owing(p, t)' \/ image[t] # 0
    BY <1>1, <1>4, <2>0, <2>4 DEF Owing
  <2> QED
    BY <1>b, <1>1, <1>3, <2>0, <2>1, <2>2, <2>3, QuietStepKeeps
<1> QED
  BY <1>1, <1>6, <1>7

\* The only step that takes an image away: it is listed at once as one to be rebuilt.
LEMMA RemoveKeeps == ASSUME ImageInv, NEW p \in Preps, Images!Remove(p) PROVE ImageInv'
<1> USE DEF FirstPass, SecondPass
<1>0. Images!TypeInv
  BY DEF ImageInv
<1>a. /\ PrepInStep(p) /\ RemovedIsListed(p) /\ DealtWith(p)
      /\ Len(args[p]) \in Nat \ {0} /\ Len(todo[p]) \in Nat /\ idx[p] \in Nat \ {0}
      /\ todo[p] \in Seq(Configured)
  BY <1>0, ListsAreUsable DEF ImageInv
<1>b. /\ ppc[p] = "remove" /\ idx[p] \in 1..Len(args[p]) /\ Images!TargetOf(p) = args[p][idx[p]]
      /\ Images!TargetOf(p) \in Targets /\ force[p] = TRUE
  BY <1>0, <1>a, ListsAreUsable, Assumed DEF Images!Remove, PrepInStep, Images!TypeInv
<1>x. PICK x \in Targets : x = args[p][idx[p]]
  BY <1>b
<1>1. /\ UNCHANGED <<args, force, idx, img, todo, builder, lastId>>
      /\ ppc' = [ppc EXCEPT ![p] = "base"]
      /\ image' = [image EXCEPT ![x] = IF image[x] = img[p] THEN 0 ELSE image[x]]
      /\ untagged' = [untagged EXCEPT ![x] = untagged[x] \ {img[p]}]
      /\ removed' = [removed EXCEPT ![p] = removed[p] \cup {x}]
  BY <1>b, <1>x DEF Images!Remove, Images!GoTo
<1>2. /\ ppc'[p] = "base" /\ \A o \in Preps \ {p} : ppc'[o] = ppc[o] /\ removed'[o] = removed[o]
      /\ removed'[p] = removed[p] \cup {x}
      /\ image'[x] \in {0, image[x]} /\ \A t \in Targets \ {x} : image'[t] = image[t]
  BY <1>0, <1>1 DEF Images!TypeInv
<1>3. Images!TypeInv'
  <2>1. ppc' \in [Preps -> PrepPlaces] /\ removed' \in [Preps -> SUBSET Targets]
    BY <1>0, <1>1 DEF Images!TypeInv, Images!PrepEnds, PrepPlaces
  <2>2. image' \in [Targets -> Nat] /\ untagged' \in [Targets -> SUBSET Nat]
    BY <1>0, <1>1 DEF Images!TypeInv
  <2>3. \A t \in Targets : image'[t] <= lastId'[t]
    <3>1. \A t \in Targets : image[t] <= lastId[t] /\ lastId[t] \in Nat /\ lastId'[t] = lastId[t]
      BY <1>0, <1>1 DEF Images!TypeInv
    <3> QED
      BY <3>1, <1>2
  <2> QED
    BY <1>0, <1>1, <2>1, <2>2, <2>3 DEF Images!TypeInv, Images!PrepEnds, PrepPlaces
<1>4. \A o \in Preps \ {p} : PrepInStep(o)' /\ RemovedIsListed(o)'
  BY <1>1, <1>2 DEF ImageInv, PrepInStep, RemovedIsListed, InTodo
<1>5. \A o \in Preps \ {p} : DealtWith(o)'
  <2> SUFFICES ASSUME NEW o \in Preps \ {p} PROVE DealtWith(o)'
    OBVIOUS
  <2>1. \A i \in 1..Len(args[o]) :
          image[args[o][i]] # 0 \/ Taken(o, args[o][i]) =>
            image'[args[o][i]] # 0 \/ Taken(o, args[o][i])'
    <3>1. \A i \in 1..Len(args[o]) : args[o][i] \in Targets
      BY <1>0, ListsAreUsable DEF ImageInv
    <3>2. \A t : (Taken(o, t) \/ t = x) => Taken(o, t)'
      BY <1>2 DEF Taken
    <3>3. \A i \in 1..Len(args[o]) : Taken(o, args[o][i])' <=> (\E q \in Preps \ {o} : args[o][i] \in removed'[q])
      BY <1>1 DEF Taken
    <3>4. \A i \in 1..Len(args[o]) : Taken(o, args[o][i]) \/ args[o][i] = x => Taken(o, args[o][i])'
      BY <1>2, <3>3 DEF Taken
    <3> QED
      BY <1>2, <3>1, <3>4
  <2>2. /\ DealtWith(o) /\ PrepInStep(o) /\ Len(args[o]) \in Nat
    BY <1>0, ListsAreUsable DEF ImageInv
  <2>3. \A t : /\ InTodo(o, t)' <=> InTodo(o, t)
               /\ ToBuild(o, t)' <=> ToBuild(o, t)
    BY <1>1 DEF InTodo, ToBuild
  <2>5. /\ UNCHANGED <<args, force, idx>> /\ ppc'[o] = ppc[o]
    BY <1>1, <1>2
  <2>4. /\ ppc[o] \in FirstPass => \A i \in 1..(idx[o] - 1) : i \in 1..Len(args[o])
    BY <2>2 DEF PrepInStep
  <2> QED
    BY <2>1, <2>2, <2>3, <2>4, <2>5 DEF DealtWith, InTodo, ToBuild
<1>6. PrepInStep(p)' /\ RemovedIsListed(p)' /\ DealtWith(p)'
  <2>1. PrepInStep(p)'
    BY <1>a, <1>b, <1>1, <1>2 DEF PrepInStep
  <2>2. RemovedIsListed(p)'
    BY <1>a, <1>b, <1>1, <1>2, <1>x DEF RemovedIsListed, InTodo
  <2>3. DealtWith(p)'
    BY <1>a, <1>b, <1>1, <1>2 DEF DealtWith, InTodo
  <2> QED
    BY <2>1, <2>2, <2>3
<1>7. MissingIsOwed'
  <2> SUFFICES ASSUME NEW t \in Targets, image'[t] = 0, lastId'[t] > 0
               PROVE  \E o \in Preps :
                        Owing(o, t)' \/ (t \in removed'[o] /\ ppc'[o] = "raised")
    BY DEF MissingIsOwed
  <2>1. CASE t = x
    BY <1>2, <2>1 DEF Owing
  <2>2. CASE t # x
    <3>1. PICK o \in Preps : Owing(o, t) \/ (t \in removed[o] /\ ppc[o] = "raised")
      BY <1>1, <1>2, <2>2 DEF ImageInv, MissingIsOwed
    <3>2. CASE o = p
      BY <1>b, <1>2, <3>1, <3>2 DEF Owing
    <3>3. CASE o # p
      BY <1>1, <1>2, <3>1, <3>3 DEF Owing, ToBuild
    <3> QED
      BY <3>2, <3>3
  <2> QED
    BY <2>1, <2>2
<1> QED
  BY <1>3, <1>4, <1>5, <1>6, <1>7 DEF ImageInv

\* The image is there again.
LEMMA CommitKeeps == ASSUME ImageInv, NEW p \in Preps, Images!Commit(p) PROVE ImageInv'
<1> USE DEF FirstPass, SecondPass
<1>0. Images!TypeInv
  BY DEF ImageInv
<1>a. /\ PrepInStep(p) /\ RemovedIsListed(p) /\ DealtWith(p)
      /\ Len(args[p]) \in Nat \ {0} /\ Len(todo[p]) \in Nat /\ idx[p] \in Nat \ {0}
      /\ todo[p] \in Seq(Configured)
  BY <1>0, ListsAreUsable DEF ImageInv
<1>b. /\ ppc[p] = "commit" /\ idx[p] \in 1..Len(todo[p]) /\ Images!TargetOf(p) = todo[p][idx[p]]
      /\ Images!TargetOf(p) \in Targets
  BY <1>0, <1>a, ListsAreUsable, Assumed DEF Images!Commit, PrepInStep
<1>x. PICK x \in Targets : x = todo[p][idx[p]]
  BY <1>b
<1>1. /\ UNCHANGED <<args, force, img, todo, removed>>
      /\ lastId' = [lastId EXCEPT ![x] = lastId[x] + 1]
      /\ image' = [image EXCEPT ![x] = lastId'[x]]
      /\ untagged' = [untagged EXCEPT ![x] =
                        IF image[x] = 0 THEN untagged[x] ELSE untagged[x] \cup {image[x]}]
      /\ \/ /\ idx[p] < Len(todo[p]) /\ builder' = [builder EXCEPT ![p] = FALSE]
            /\ idx' = [idx EXCEPT ![p] = idx[p] + 1] /\ ppc' = [ppc EXCEPT ![p] = "build"]
         \/ /\ ~(idx[p] < Len(todo[p])) /\ builder' = [builder EXCEPT ![p] = FALSE]
            /\ idx' = idx /\ ppc' = [ppc EXCEPT ![p] = "done"]
         \/ UNCHANGED <<builder, idx>> /\ ppc' = [ppc EXCEPT ![p] = "raised"]
  BY <1>b, <1>x DEF Images!Commit, Images!GoTo
<1>2. /\ \/ ppc'[p] = "build" /\ idx[p] < Len(todo[p]) /\ idx'[p] = idx[p] + 1 /\ ~builder'[p]
         \/ ppc'[p] = "done" /\ idx[p] = Len(todo[p]) /\ ~builder'[p]
         \/ ppc'[p] = "raised"
      /\ \A o \in Preps \ {p} : /\ ppc'[o] = ppc[o] /\ idx'[o] = idx[o]
                                /\ builder'[o] = builder[o]
  <2>1. CASE /\ idx[p] < Len(todo[p]) /\ builder' = [builder EXCEPT ![p] = FALSE]
             /\ idx' = [idx EXCEPT ![p] = idx[p] + 1] /\ ppc' = [ppc EXCEPT ![p] = "build"]
    BY <1>0, <2>1, UnchangedOnlyAt
  <2>2. CASE /\ ~(idx[p] < Len(todo[p])) /\ builder' = [builder EXCEPT ![p] = FALSE]
             /\ idx' = idx /\ ppc' = [ppc EXCEPT ![p] = "done"]
    BY <1>0, <1>a, <1>b, <2>2, UnchangedOnlyAt
  <2>3. CASE UNCHANGED <<builder, idx>> /\ ppc' = [ppc EXCEPT ![p] = "raised"]
    BY <1>0, <2>3, UnchangedOnlyAt
  <2> QED
    BY <1>1, <2>1, <2>2, <2>3
<1>3. /\ image'[x] # 0 /\ \A t \in Targets \ {x} : image'[t] = image[t] /\ lastId'[t] = lastId[t]
  BY <1>0, <1>1 DEF Images!TypeInv
<1>4. Images!TypeInv'
  <2>1. image' \in [Targets -> Nat] /\ lastId' \in [Targets -> Nat]
    BY <1>0, <1>1 DEF Images!TypeInv
  <2>2. untagged' \in [Targets -> SUBSET Nat]
    BY <1>0, <1>1 DEF Images!TypeInv
  <2>3. \A t \in Targets : image'[t] <= lastId'[t]
    <3>1. image'[x] = lastId'[x] /\ lastId'[x] \in Nat
      BY <1>0, <1>1, <2>1 DEF Images!TypeInv
    <3>2. \A t \in Targets : image[t] <= lastId[t]
      BY <1>0 DEF Images!TypeInv
    <3> QED
      BY <1>3, <3>1, <3>2
  <2>4. ppc' \in [Preps -> PrepPlaces] /\ idx' \in [Preps -> Nat \ {0}]
    <3>1. ppc \in [Preps -> PrepPlaces] /\ idx \in [Preps -> Nat \ {0}] /\ idx[p] + 1 \in Nat \ {0}
      BY <1>0, <1>a DEF Images!TypeInv, Images!PrepEnds, PrepPlaces
    <3>2. {"build", "done", "raised"} \subseteq PrepPlaces
      BY DEF PrepPlaces
    <3>3. ppc' \in [Preps -> PrepPlaces]
      BY <1>1, <3>1, <3>2
    <3>4. idx' \in [Preps -> Nat \ {0}]
      BY <1>1, <3>1
    <3> QED
      BY <3>3, <3>4
  <2>5. builder' \in [Preps -> BOOLEAN]
    BY <1>0, <1>1 DEF Images!TypeInv
  <2> QED
    BY <1>0, <1>1, <2>1, <2>2, <2>3, <2>4, <2>5
    DEF Images!TypeInv, Images!PrepEnds, PrepPlaces
<1>5. \A o \in Preps \ {p} : PrepInStep(o)' /\ RemovedIsListed(o)'
  BY <1>1, <1>2 DEF ImageInv, PrepInStep, RemovedIsListed, InTodo
<1>6. \A o \in Preps : \A i \in 1..Len(args[o]) :
        /\ image[args[o][i]] # 0 => image'[args[o][i]] # 0
        /\ Taken(o, args[o][i])' <=> Taken(o, args[o][i])
  <2>1. \A o \in Preps : \A i \in 1..Len(args[o]) : args[o][i] \in Targets
    BY <1>0, ListsAreUsable DEF ImageInv
  <2> QED
    BY <1>1, <1>3, <2>1 DEF Taken
<1>7. \A o \in Preps \ {p} : DealtWith(o)'
  <2> SUFFICES ASSUME NEW o \in Preps \ {p} PROVE DealtWith(o)'
    OBVIOUS
  <2>1. DealtWith(o) /\ PrepInStep(o) /\ Len(args[o]) \in Nat
    BY <1>0, ListsAreUsable DEF ImageInv
  <2>2. ppc[o] \in FirstPass => \A i \in 1..(idx[o] - 1) : i \in 1..Len(args[o])
    BY <2>1 DEF PrepInStep
  <2>3. UNCHANGED <<args, force, todo>> /\ ppc'[o] = ppc[o] /\ idx'[o] = idx[o]
    BY <1>1, <1>2
  <2> QED
    BY <1>6, <2>1, <2>2, <2>3 DEF DealtWith, InTodo, ToBuild
<1>8. PrepInStep(p)' /\ RemovedIsListed(p)'
  BY <1>a, <1>b, <1>1, <1>2 DEF PrepInStep, RemovedIsListed
<1>9. \A t \in Targets \ {x} : ppc'[p] # "raised" /\ ToBuild(p, t) => ppc'[p] = "build" /\ ToBuild(p, t)'
  BY <1>a, <1>b, <1>x, <1>1, <1>2 DEF ToBuild
<1>10. DealtWith(p)'
  <2> SUFFICES ASSUME ppc'[p] \in {"build", "done"}, NEW i \in 1..Len(args[p])
               PROVE  \/ ppc'[p] = "build" /\ ToBuild(p, args[p][i])'
                      \/ image'[args[p][i]] # 0
                      \/ Taken(p, args[p][i])'
    BY <1>1, <1>2 DEF DealtWith
  <2>1. PICK t \in Targets : t = args[p][i]
    BY <1>0, <1>a, ListsAreUsable
  <2>2. ToBuild(p, t) \/ image[t] # 0 \/ Taken(p, t)
    BY <1>a, <1>b, <2>1 DEF DealtWith
  <2>3. ToBuild(p, args[p][i])' <=> ToBuild(p, t)'
    BY <1>1, <2>1 DEF ToBuild
  <2> QED
    BY <1>3, <1>6, <1>9, <2>1, <2>2, <2>3
<1>11. MissingIsOwed'
  <2> SUFFICES ASSUME NEW t \in Targets, image'[t] = 0, lastId'[t] > 0
               PROVE  \E o \in Preps :
                        Owing(o, t)' \/ (t \in removed'[o] /\ ppc'[o] = "raised")
    BY DEF MissingIsOwed
  <2>1. t # x
    BY <1>3
  <2>2. PICK o \in Preps : Owing(o, t) \/ (t \in removed[o] /\ ppc[o] = "raised")
    BY <1>3, <2>1 DEF ImageInv, MissingIsOwed
  <2>3. CASE o = p
    BY <1>b, <1>1, <1>2, <1>9, <2>1, <2>2, <2>3 DEF Owing
  <2>4. CASE o # p
    BY <1>1, <1>2, <2>2, <2>4 DEF Owing, ToBuild
  <2> QED
    BY <2>3, <2>4
<1> QED
  BY <1>4, <1>5, <1>7, <1>8, <1>10, <1>11 DEF ImageInv

\* The invariant is what the two properties say, and more.
LEMMA ImageConsequences == ImageInv => MissingOnlyIfCut /\ DoneIsPrepared
<1> SUFFICES ASSUME ImageInv PROVE MissingOnlyIfCut /\ DoneIsPrepared
  OBVIOUS
<1>1. \A t \in Targets, p \in Preps : Owing(p, t) => Images!Owes(p, t)
  BY DEF Owing, Images!Owes, FirstPass, SecondPass, ToBuild
<1>2. \A t \in Targets, p \in Preps : t \in removed[p] => force[p]
  BY DEF ImageInv, RemovedIsListed
<1>3. \A t \in Targets, p \in Preps : Owing(p, t) => t \in removed[p]
  BY DEF Owing
<1>4. MissingOnlyIfCut
  BY <1>1, <1>2, <1>3 DEF MissingOnlyIfCut, Images!MissingOnlyIfCut, ImageInv, MissingIsOwed
<1>5. DoneIsPrepared
  BY DEF DoneIsPrepared, Images!DoneIsPrepared, ImageInv, PrepInStep, DealtWith, Taken
<1> QED
  BY <1>4, <1>5

-----------------------------------------------------------------------------
(***************************************************************************)
(* The steps of the runs on the usages.                                    *)
(***************************************************************************)

Fresh == {[is |-> "absent", docs |-> 0], Usages!Whole(1)}

\* The variables of run r that a step of it, or of its container, changes.
RunOnly(r) ==
  /\ pc' = [pc EXCEPT ![r] = pc'[r]]
  /\ mode' = [mode EXCEPT ![r] = mode'[r]]
  /\ box' = [box EXCEPT ![r] = box'[r]]
  /\ docs' = [docs EXCEPT ![r] = docs'[r]]

\* What the step makes of them.
RunTyped(r) ==
  /\ pc'[r] \in Usages!Places
  /\ mode'[r] \in {"list", "collect"}
  /\ box'[r] \in Usages!Box
  /\ docs'[r] \in Nat
  /\ params' \in [Usages!Programs -> {"absent", "list", "collect"}]
  /\ result' \in [Usages!Programs -> {"absent", "torn", "list"}]
  /\ sg' \in {"absent", "torn", "whole"}
  /\ cache' \in [is : {"absent", "torn", "whole"}, docs : Nat]
  /\ crashes' \in 0..MaxCrashes

Others(r) ==
  \A q \in Runs \ {r} : /\ pc'[q] = pc[q] /\ mode'[q] = mode[q]
                        /\ box'[q] = box[q] /\ docs'[q] = docs[q]

\* A step of that form keeps the types.
LEMMA RunTypes ==
  ASSUME Usages!TypeInv, NEW r \in Runs, Usages!Watch, RunOnly(r), RunTyped(r), image' = image
  PROVE  Usages!TypeInv' /\ Others(r)
<1>1. /\ pc' \in [Runs -> Usages!Places] /\ mode' \in [Runs -> {"list", "collect"}]
      /\ box' \in [Runs -> Usages!Box] /\ docs' \in [Runs -> Nat]
      /\ Others(r)
  BY DEF Usages!TypeInv, RunOnly, RunTyped, Others
<1>2. met' \subseteq Runs
  BY DEF Usages!TypeInv, Usages!Watch
<1>3. spoiled' \in BOOLEAN
  BY DEF Usages!Watch
<1> QED
  BY <1>1, <1>2, <1>3 DEF Usages!TypeInv, RunTyped

\* What a step does not name it leaves alone.
LEMMA UnchangedRunOnly ==
  ASSUME Usages!TypeInv, NEW r \in Runs
  PROVE  /\ pc = [pc EXCEPT ![r] = pc[r]] /\ mode = [mode EXCEPT ![r] = mode[r]]
         /\ box = [box EXCEPT ![r] = box[r]] /\ docs = [docs EXCEPT ![r] = docs[r]]
         /\ pc[r] \in Usages!Places /\ mode[r] \in {"list", "collect"}
         /\ box[r] \in Usages!Box /\ docs[r] \in Nat
         /\ DOMAIN pc = Runs /\ DOMAIN mode = Runs /\ DOMAIN box = Runs /\ DOMAIN docs = Runs
         /\ Program[r] \in Usages!Programs
         /\ params \in [Usages!Programs -> {"absent", "list", "collect"}]
         /\ result \in [Usages!Programs -> {"absent", "torn", "list"}]
         /\ sg \in {"absent", "torn", "whole"}
         /\ cache \in [is : {"absent", "torn", "whole"}, docs : Nat]
         /\ crashes \in 0..MaxCrashes
BY Assumed DEF Usages!TypeInv, Usages!Programs

\* The history that is kept: nothing was spoiled, so nothing is now.
LEMMA NothingSpoiled ==
  ASSUME Usages!Watch, ~spoiled', Orderly
  PROVE  /\ ~spoiled
         /\ \A r \in Runs : ~Usages!Cut(r) /\ BuilderInStep(r) /\ BoxInStep(r)
         /\ \A r, q \in Runs : ~Usages!Clash(r, q) /\ ~Usages!Clash(r, q)'
         /\ (\A r \in Runs : ~Usages!Building(r)) => cache \in Fresh
         /\ sg = "torn" => \E r \in Runs : pc[r] = "crawlwrite"
<1>1. ~spoiled
  BY DEF Usages!Watch
<1>2. \A r \in Runs : ~Usages!Cut(r)
  BY DEF Usages!Watch
<1>3. \A r, q \in Runs : ~Usages!Clash(r, q)'
  BY DEF Usages!Watch
<1> QED
  BY <1>1, <1>2, <1>3 DEF Orderly, Fresh

\* The builder is at work, and no one else has anything to keep in order.
LEMMA BuilderIsActive ==
  ASSUME NEW r \in Runs
  PROVE  /\ Usages!Building(r) => Usages!Active(r)
         /\ ~Usages!Building(r) => BuilderInStep(r)
BY DEF Usages!Building, Usages!Active, Usages!Ends, BuilderInStep

\* What a step of r has to do for the cache to stay in order.
CacheStep(r) ==
  /\ BuilderInStep(r)' /\ BoxInStep(r)'
  /\ cache' = cache \/ Usages!Building(r) \/ Usages!Building(r)'
  /\ \/ params' = params
     \/ /\ Usages!Analysing(r)'
        /\ \A d \in Usages!Programs \ {Program[r]} : params'[d] = params[d]
  /\ Usages!Building(r) /\ ~Usages!Building(r)' => cache' \in Fresh
  /\ sg' = "torn" => pc'[r] = "crawlwrite" \/ (sg = "torn" /\ pc[r] # "crawlwrite")

\* Then it stays in order: there is one builder at most, and its steps are the
\* only ones that change the cache.
LEMMA OrderlyKept ==
  ASSUME UsageInv, NEW r \in Runs, Usages!Watch, Others(r), ~spoiled' => CacheStep(r)
  PROVE  Orderly'
<1> SUFFICES ASSUME ~spoiled'
             PROVE  /\ \A p, q \in Runs : ~Usages!Clash(p, q)'
                    /\ \A q \in Runs : BuilderInStep(q)' /\ BoxInStep(q)'
                    /\ (\A q \in Runs : ~Usages!Building(q)') => cache' \in Fresh'
                    /\ sg' = "torn" => \E q \in Runs : pc'[q] = "crawlwrite"
  BY DEF Orderly, Fresh
<1>1. /\ \A q \in Runs : BuilderInStep(q) /\ BoxInStep(q)
      /\ \A p, q \in Runs : ~Usages!Clash(p, q) /\ ~Usages!Clash(p, q)'
      /\ (\A q \in Runs : ~Usages!Building(q)) => cache \in Fresh
      /\ sg = "torn" => \E q \in Runs : pc[q] = "crawlwrite"
      /\ CacheStep(r)
  BY NothingSpoiled DEF UsageInv
<1>2. \A q \in Runs \ {r} : /\ Usages!Building(q)' <=> Usages!Building(q)
                            /\ Usages!Analysing(q)' <=> Usages!Analysing(q)
  BY DEF Others, Usages!Building, Usages!Analysing, Usages!BoxRuns
<1>3. ASSUME NEW q \in Runs \ {r} PROVE BuilderInStep(q)'
  <2>1. CASE Usages!Building(q)
    <3>1. cache' = cache
      BY <1>1, <1>2, <2>1 DEF Usages!Clash, CacheStep
    <3> QED
      BY <1>1, <3>1 DEF BuilderInStep, Others, Usages!BoxRuns, Usages!Torn, Usages!Whole
  <2>2. CASE ~Usages!Building(q)
    <3>1. ~Usages!Building(q)'
      BY <1>2, <2>2
    <3> QED
      BY <3>1 DEF Usages!Building, BuilderInStep
  <2> QED
    BY <2>1, <2>2
<1>4. ASSUME NEW q \in Runs \ {r} PROVE BoxInStep(q)'
  <2>1. CASE Usages!Analysing(q)
    <3>1. params'[Program[q]] = params[Program[q]]
      <4>1. Program[q] \in Usages!Programs
        BY Assumed DEF Usages!Programs
      <4>2. ~Usages!Clash(q, r)' /\ Usages!Analysing(q)'
        BY <1>1, <1>2, <2>1
      <4> QED
        BY <1>1, <4>1, <4>2 DEF CacheStep, Usages!Clash, Usages!Dir
    <3> QED
      BY <1>1, <3>1 DEF BoxInStep, Others, Usages!BoxRuns
  <2>2. CASE ~Usages!Analysing(q)
    BY <2>2 DEF BoxInStep, Others, Usages!Analysing, Usages!BoxRuns
  <2> QED
    BY <2>1, <2>2
<1>5. (\A q \in Runs : ~Usages!Building(q)') => cache' \in Fresh'
  <2> SUFFICES ASSUME \A q \in Runs : ~Usages!Building(q)' PROVE cache' \in Fresh
    BY DEF Fresh, Usages!Whole
  <2>1. CASE Usages!Building(r)
    BY <1>1, <2>1 DEF CacheStep
  <2>2. CASE ~Usages!Building(r)
    BY <1>1, <1>2, <2>2 DEF CacheStep
  <2> QED
    BY <2>1, <2>2
<1>6. sg' = "torn" => \E q \in Runs : pc'[q] = "crawlwrite"
  BY <1>1 DEF CacheStep, Others
<1> QED
  BY <1>1, <1>3, <1>4, <1>5, <1>6 DEF CacheStep

\* What a step of r has to do for r, as long as it met no other run.
OwnStep(r) ==
  /\ pc'[r] = "load" => cache'.is # "absent"
  /\ ~spoiled' =>
       /\ pc'[r] = "wait" /\ box'[r].state = "exited" /\ mode'[r] = "list" =>
            result'[Program[r]] = "list"
       /\ pc'[r] = "readlist" => result'[Program[r]] = "list"
       /\ pc'[r] # "misread"
       /\ pc'[r] = "done" => docs'[r] = 1

\* Then the runs that met no other one are well: while one of them is at work
\* no other run takes a step that matters to it.
LEMMA UndisturbedKept ==
  ASSUME UsageInv, NEW r \in Runs, Usages!Watch, Others(r),
         Usages!Active(r) \/ result' = result,
         cache.is # "absent" => cache'.is # "absent",
         r \notin met' => OwnStep(r)
  PROVE  Undisturbed' /\ UndisturbedRunIsWell'
<1>1. \A q \in Runs \ met' : Usages!Active(q)' => \A p \in Runs \ {q} : ~Usages!Active(p)'
  BY DEF Usages!Watch
<1>2. \A q \in Runs \ met' : q \notin met /\ (~spoiled' => ~spoiled)
  BY DEF Usages!Watch
<1>3. ASSUME NEW q \in Runs \ met', q # r
      PROVE  /\ pc'[q] = "load" => cache'.is # "absent"
             /\ ~spoiled' /\ pc'[q] = "wait" /\ box'[q].state = "exited" /\ mode'[q] = "list" =>
                  result'[Program[q]] = "list"
             /\ ~spoiled' /\ pc'[q] = "readlist" => result'[Program[q]] = "list"
             /\ ~spoiled' => /\ pc'[q] # "misread"
                             /\ pc'[q] = "done" => docs'[q] = 1
  <2>1. /\ pc'[q] = pc[q] /\ mode'[q] = mode[q] /\ box'[q] = box[q] /\ docs'[q] = docs[q]
    BY <1>3 DEF Others
  <2>2. pc[q] \in {"wait", "readlist"} => result' = result
    <3>1. pc[q] \in {"wait", "readlist"} => Usages!Active(q)
      BY DEF Usages!Active, Usages!Ends
    <3>2. Usages!Active(q) => ~Usages!Active(r)
      BY <1>2, <1>3 DEF UsageInv, Undisturbed
    <3> QED
      BY <3>1, <3>2
  <2>3. /\ pc[q] = "load" => cache.is # "absent"
        /\ ~spoiled /\ pc[q] = "wait" /\ box[q].state = "exited" /\ mode[q] = "list" =>
             result[Program[q]] = "list"
        /\ ~spoiled /\ pc[q] = "readlist" => result[Program[q]] = "list"
    BY <1>2 DEF UsageInv, Undisturbed
  <2>4. ~spoiled => pc[q] # "misread" /\ (pc[q] = "done" => docs[q] = 1)
    BY <1>2 DEF UsageInv, UndisturbedRunIsWell, Usages!UndisturbedRunIsWell
  <2> QED
    BY <1>2, <2>1, <2>2, <2>3, <2>4
<1>4. Undisturbed'
  BY <1>1, <1>3 DEF Undisturbed, OwnStep
<1>5. UndisturbedRunIsWell'
  BY <1>3 DEF UndisturbedRunIsWell, Usages!UndisturbedRunIsWell, OwnStep
<1> QED
  BY <1>4, <1>5

\* The obligations of a step, together.
GoodStep(r) ==
  /\ RunOnly(r) /\ RunTyped(r) /\ image' = image
  /\ ParamsAreThere'
  /\ Usages!Active(r) \/ result' = result
  /\ cache.is # "absent" => cache'.is # "absent"
  /\ ~spoiled' => CacheStep(r)
  /\ r \notin met' => OwnStep(r)

\* Steps that meet them keep the invariant.
LEMMA GoodStepKeeps ==
  ASSUME UsageInv, NEW r \in Runs, Usages!Watch, GoodStep(r)
  PROVE  UsageInv'
<1>1. Usages!TypeInv' /\ Others(r)
  BY RunTypes DEF UsageInv, GoodStep
<1>2. Orderly'
  BY <1>1, OrderlyKept DEF GoodStep
<1>3. Undisturbed' /\ UndisturbedRunIsWell'
  BY <1>1, UndisturbedKept DEF GoodStep
<1> QED
  BY <1>1, <1>2, <1>3 DEF UsageInv, GoodStep

\* What the invariant says of the run that takes the step.
LEMMA BeforeStep ==
  ASSUME UsageInv, NEW r \in Runs, Usages!Watch
  PROVE  /\ Usages!TypeInv /\ ParamsAreThere
         /\ ~spoiled' =>
              /\ ~spoiled /\ ~Usages!Cut(r) /\ BuilderInStep(r) /\ BoxInStep(r)
              /\ \A q \in Runs : ~Usages!Clash(r, q) /\ ~Usages!Clash(r, q)'
              /\ (\A q \in Runs : ~Usages!Building(q)) => cache \in Fresh
              /\ sg = "torn" => \E q \in Runs : pc[q] = "crawlwrite"
         /\ r \notin met' =>
              /\ r \notin met
              /\ Usages!Active(r) => \A q \in Runs \ {r} : ~Usages!Active(q)
              /\ Usages!Active(r)' => \A q \in Runs \ {r} : ~Usages!Active(q)'
              /\ pc[r] = "load" => cache.is # "absent"
              /\ ~spoiled' => /\ pc[r] = "wait" /\ box[r].state = "exited" /\ mode[r] = "list" =>
                                   result[Program[r]] = "list"
                              /\ pc[r] = "readlist" => result[Program[r]] = "list"
<1>1. r \notin met' => r \notin met /\ (Usages!Active(r)' => \A q \in Runs \ {r} : ~Usages!Active(q)')
  BY DEF Usages!Watch
<1>2. ~spoiled' => ~spoiled
  BY DEF Usages!Watch
<1> QED
  BY <1>1, <1>2, NothingSpoiled DEF UsageInv, Undisturbed

\* A run that starts to build finds the cache in order, as nobody else builds.
LEMMA NewBuilder ==
  ASSUME UsageInv, NEW r \in Runs, Usages!Watch, Others(r), ~spoiled',
         ~Usages!Building(r), Usages!Building(r)'
  PROVE  cache \in Fresh
<1>1. \A q \in Runs \ {r} : ~Usages!Building(q)'
  BY BeforeStep DEF Usages!Clash
<1>2. \A q \in Runs \ {r} : ~Usages!Building(q)
  BY <1>1 DEF Others, Usages!Building, Usages!BoxRuns
<1> QED
  BY <1>2, BeforeStep

\* A run that is undisturbed at its load finds the usages in order.
LEMMA LoadsFresh ==
  ASSUME UsageInv, NEW r \in Runs, Usages!Watch, r \notin met', ~spoiled', pc[r] = "load"
  PROVE  cache = Usages!Whole(1)
<1>1. Usages!Active(r) /\ ~Usages!Building(r)
  BY BeforeStep DEF Usages!Active, Usages!Ends, Usages!Building, Usages!BoxRuns, ParamsAreThere
<1>2. \A q \in Runs : ~Usages!Building(q)
  BY <1>1, BeforeStep, BuilderIsActive
<1> QED
  BY <1>2, BeforeStep DEF Fresh

\* The parameters stay where they are.
LEMMA ParamsKept ==
  ASSUME Usages!TypeInv, ParamsAreThere, NEW r \in Runs, Others(r),
         cache'.is = "absent" => cache'.docs = 0,
         \A d \in Usages!Programs : params[d] # "absent" => params'[d] # "absent",
         pc'[r] = "run" \/ box'[r].state = "running" => params'[Program[r]] # "absent",
         box'[r].state = "running" => pc'[r] \in {"wait", "raised", "crashed"}
  PROVE  ParamsAreThere'
<1>1. ASSUME NEW q \in Runs, q # r
      PROVE  /\ pc'[q] = "run" \/ box'[q].state = "running" => params'[Program[q]] # "absent"
             /\ box'[q].state = "running" => pc'[q] \in {"wait", "raised", "crashed"}
  BY <1>1, UnchangedRunOnly DEF ParamsAreThere, Others, Usages!BoxRuns
<1> QED
  BY <1>1 DEF ParamsAreThere, Usages!BoxRuns

\* The cache is loaded if it is there.
LEMMA StartGood ==
  ASSUME UsageInv, NEW r \in Runs, Usages!Watch, Usages!Start(r), crashes' = crashes,
         image' = image
  PROVE  GoodStep(r)
<1>0. Usages!TypeInv /\ ParamsAreThere
  BY BeforeStep
<1>1. /\ pc[r] = "idle" /\ pc'[r] \in {"raised", "load", "reset"}
      /\ pc'[r] = "load" => cache.is # "absent"
      /\ UNCHANGED <<mode, box, docs, params, result, sg, cache>>
  BY <1>0, UnchangedRunOnly DEF Usages!Start, Usages!files, Usages!GoTo
<1>2. RunOnly(r)
  BY <1>0, <1>1, UnchangedRunOnly DEF Usages!Start, Usages!files, Usages!GoTo, RunOnly
<1>3. RunTyped(r)
  BY <1>0, <1>1, UnchangedRunOnly DEF RunTyped, Usages!Places, Usages!Ends, Usages!Box
<1>4. Others(r)
  BY <1>0, <1>2, <1>3, RunTypes
<1>5. ParamsAreThere'
  <2>1. /\ cache'.is = "absent" => cache'.docs = 0
        /\ \A d \in Usages!Programs : params[d] # "absent" => params'[d] # "absent"
        /\ pc'[r] = "run" \/ box'[r].state = "running" => params'[Program[r]] # "absent"
        /\ box'[r].state = "running" => pc'[r] \in {"wait", "raised", "crashed"}
    BY <1>0, <1>1, UnchangedRunOnly DEF ParamsAreThere, Usages!BoxRuns
  <2> QED
    BY <1>0, <1>4, <2>1, ParamsKept
<1>6. ASSUME ~spoiled' PROVE CacheStep(r)
  BY <1>0, <1>1, <1>4, <1>6, BeforeStep, UnchangedRunOnly
  DEF CacheStep, BuilderInStep, BoxInStep, Fresh, Usages!Building, Usages!Analysing,
      Usages!BoxRuns, Usages!Cut, Usages!Whole, Usages!Torn, ParamsAreThere
<1>7. ASSUME r \notin met' PROVE OwnStep(r)
  BY <1>0, <1>1, <1>7, BeforeStep, UnchangedRunOnly
  DEF OwnStep, BuilderInStep, BoxInStep, ParamsAreThere, Usages!Whole, Usages!Active,
      Usages!Ends, Usages!BoxRuns
<1>8. Usages!Active(r) \/ result' = result
  BY <1>1 DEF Usages!Active, Usages!Ends, Usages!BoxRuns
<1> QED
  BY <1>1, <1>2, <1>3, <1>5, <1>6, <1>7, <1>8 DEF GoodStep

\* The result of an earlier analysis is deleted.
LEMMA ResetGood ==
  ASSUME UsageInv, NEW r \in Runs, Usages!Watch, Usages!Reset(r), crashes' = crashes,
         image' = image
  PROVE  GoodStep(r)
<1>0. Usages!TypeInv /\ ParamsAreThere
  BY BeforeStep
<1>1. /\ pc[r] = "reset" /\ pc'[r] \in {"params", "raised"}
      /\ UNCHANGED <<mode, box, docs, params, sg, cache>>
      /\ result' = [result EXCEPT ![Program[r]] = "absent"]
  BY <1>0, UnchangedRunOnly DEF Usages!Reset, Usages!Dir, Usages!GoTo
<1>2. RunOnly(r)
  BY <1>0, <1>1, UnchangedRunOnly DEF Usages!Reset, Usages!GoTo, RunOnly
<1>3. RunTyped(r)
  BY <1>0, <1>1, UnchangedRunOnly DEF RunTyped, Usages!Places, Usages!Ends, Usages!Box
<1>4. Others(r)
  BY <1>0, <1>2, <1>3, RunTypes
<1>5. ParamsAreThere'
  <2>1. /\ cache'.is = "absent" => cache'.docs = 0
        /\ \A d \in Usages!Programs : params[d] # "absent" => params'[d] # "absent"
        /\ pc'[r] = "run" \/ box'[r].state = "running" => params'[Program[r]] # "absent"
        /\ box'[r].state = "running" => pc'[r] \in {"wait", "raised", "crashed"}
    BY <1>0, <1>1, UnchangedRunOnly DEF ParamsAreThere, Usages!BoxRuns
  <2> QED
    BY <1>0, <1>4, <2>1, ParamsKept
<1>6. ASSUME ~spoiled' PROVE CacheStep(r)
  BY <1>0, <1>1, <1>4, <1>6, BeforeStep, UnchangedRunOnly
  DEF CacheStep, BuilderInStep, BoxInStep, Fresh, Usages!Building, Usages!Analysing,
      Usages!BoxRuns, Usages!Cut, Usages!Whole, Usages!Torn, ParamsAreThere
<1>7. ASSUME r \notin met' PROVE OwnStep(r)
  BY <1>0, <1>1, <1>7, BeforeStep, UnchangedRunOnly
  DEF OwnStep, BuilderInStep, BoxInStep, ParamsAreThere, Usages!Whole, Usages!Active,
      Usages!Ends, Usages!BoxRuns
<1>8. Usages!Active(r) \/ result' = result
  BY <1>1 DEF Usages!Active, Usages!Ends, Usages!BoxRuns
<1> QED
  BY <1>1, <1>2, <1>3, <1>5, <1>6, <1>7, <1>8 DEF GoodStep

\* The parameters are written: two runs of one program that are at it clash.
LEMMA WriteParamsGood ==
  ASSUME UsageInv, NEW r \in Runs, Usages!Watch, Usages!WriteParams(r), crashes' = crashes,
         image' = image
  PROVE  GoodStep(r)
<1>0. Usages!TypeInv /\ ParamsAreThere
  BY BeforeStep
<1>1. /\ pc[r] = "params" /\ pc'[r] = "run"
      /\ UNCHANGED <<mode, box, docs, result, sg, cache>>
      /\ params' = [params EXCEPT ![Program[r]] = mode[r]]
  BY <1>0, UnchangedRunOnly DEF Usages!WriteParams, Usages!Dir, Usages!GoTo
<1>2. RunOnly(r)
  BY <1>0, <1>1, UnchangedRunOnly DEF Usages!WriteParams, Usages!GoTo, RunOnly
<1>3. RunTyped(r)
  BY <1>0, <1>1, UnchangedRunOnly DEF RunTyped, Usages!Places, Usages!Ends, Usages!Box
<1>4. Others(r)
  BY <1>0, <1>2, <1>3, RunTypes
<1>5. ParamsAreThere'
  <2>1. /\ cache'.is = "absent" => cache'.docs = 0
        /\ \A d \in Usages!Programs : params[d] # "absent" => params'[d] # "absent"
        /\ pc'[r] = "run" \/ box'[r].state = "running" => params'[Program[r]] # "absent"
        /\ box'[r].state = "running" => pc'[r] \in {"wait", "raised", "crashed"}
    BY <1>0, <1>1, UnchangedRunOnly DEF ParamsAreThere, Usages!BoxRuns
  <2> QED
    BY <1>0, <1>4, <2>1, ParamsKept
<1>6. ASSUME ~spoiled' PROVE CacheStep(r)
  BY <1>0, <1>1, <1>4, <1>6, BeforeStep, UnchangedRunOnly
  DEF CacheStep, BuilderInStep, BoxInStep, Fresh, Usages!Building, Usages!Analysing,
      Usages!BoxRuns, Usages!Cut, Usages!Whole, Usages!Torn, ParamsAreThere
<1>7. ASSUME r \notin met' PROVE OwnStep(r)
  BY <1>0, <1>1, <1>7, BeforeStep, UnchangedRunOnly
  DEF OwnStep, BuilderInStep, BoxInStep, ParamsAreThere, Usages!Whole, Usages!Active,
      Usages!Ends, Usages!BoxRuns
<1>8. Usages!Active(r) \/ result' = result
  BY <1>1 DEF Usages!Active, Usages!Ends, Usages!BoxRuns
<1> QED
  BY <1>1, <1>2, <1>3, <1>5, <1>6, <1>7, <1>8 DEF GoodStep

\* The container has ended.
LEMMA WaitGood ==
  ASSUME UsageInv, NEW r \in Runs, Usages!Watch, Usages!Wait(r), crashes' = crashes,
         image' = image
  PROVE  GoodStep(r)
<1>0. Usages!TypeInv /\ ParamsAreThere
  BY BeforeStep
<1>1. /\ pc[r] = "wait" /\ box[r].state # "running"
      /\ UNCHANGED <<mode, docs, params, result, sg, cache>>
      /\ \/ box[r].state = "exited" /\ box'[r] = Usages!NoBox /\ pc'[r] = (IF mode[r] = "list" THEN "readlist" ELSE "readcache")
         \/ pc'[r] = "raised" /\ box'[r] = box[r]
  BY <1>0, UnchangedRunOnly DEF Usages!Wait, Usages!files, Usages!GoTo, Usages!BoxRuns,
      Usages!NoBox
<1>2. RunOnly(r)
  BY <1>0, <1>1, UnchangedRunOnly DEF Usages!Wait, Usages!files, Usages!GoTo, RunOnly
<1>3. RunTyped(r)
  BY <1>0, <1>1, UnchangedRunOnly DEF RunTyped, Usages!Places, Usages!Ends, Usages!Box,
      Usages!NoBox
<1>4. Others(r)
  BY <1>0, <1>2, <1>3, RunTypes
<1>5. ParamsAreThere'
  <2>1. /\ cache'.is = "absent" => cache'.docs = 0
        /\ \A d \in Usages!Programs : params[d] # "absent" => params'[d] # "absent"
        /\ pc'[r] = "run" \/ box'[r].state = "running" => params'[Program[r]] # "absent"
        /\ box'[r].state = "running" => pc'[r] \in {"wait", "raised", "crashed"}
    BY <1>0, <1>1, UnchangedRunOnly DEF ParamsAreThere, Usages!BoxRuns, Usages!NoBox
  <2> QED
    BY <1>0, <1>4, <2>1, ParamsKept
<1>6. ASSUME ~spoiled' PROVE CacheStep(r)
  BY <1>0, <1>1, <1>4, <1>6, BeforeStep, UnchangedRunOnly
  DEF CacheStep, BuilderInStep, BoxInStep, Fresh, Usages!Building, Usages!Analysing,
      Usages!BoxRuns, Usages!Cut, Usages!Whole, Usages!Torn, ParamsAreThere, Usages!NoBox
<1>7. ASSUME r \notin met' PROVE OwnStep(r)
  BY <1>0, <1>1, <1>7, BeforeStep, UnchangedRunOnly
  DEF OwnStep, BuilderInStep, BoxInStep, ParamsAreThere, Usages!Whole, Usages!Active,
      Usages!Ends, Usages!BoxRuns, Usages!NoBox
<1>8. Usages!Active(r) \/ result' = result
  BY <1>1 DEF Usages!Active, Usages!Ends, Usages!BoxRuns
<1> QED
  BY <1>1, <1>2, <1>3, <1>5, <1>6, <1>7, <1>8 DEF GoodStep

\* The container is started; the second one makes its run a builder.
LEMMA RunBoxGood ==
  ASSUME UsageInv, NEW r \in Runs, Usages!Watch, Usages!RunBox(r), crashes' = crashes,
         image' = image
  PROVE  GoodStep(r)
<1>0. Usages!TypeInv /\ ParamsAreThere
  BY BeforeStep
<1>1. /\ pc[r] = "run"
      /\ UNCHANGED <<mode, docs, params, result, sg, cache>>
      /\ \/ /\ box'[r].state = "running" /\ box'[r].at = "boot" /\ box'[r].mode = "list"
            /\ box'[r].image = image[SearchTarget] /\ box'[r] \in Usages!Box /\ pc'[r] \in {"wait", "raised"}
         \/ pc'[r] = "raised" /\ box'[r] = box[r]
  <2>1. pc[r] = "run" /\ UNCHANGED <<mode, docs, params, result, sg, cache>>
    BY DEF Usages!RunBox, Usages!files
  <2>2. CASE /\ box' = [box EXCEPT ![r] = [Usages!NoBox EXCEPT !.state = "running", !.image = image[SearchTarget]]]
             /\ \E place \in {"wait", "raised"} : Usages!GoTo(r, place)
    <3>1. [Usages!NoBox EXCEPT !.state = "running", !.image = image[SearchTarget]] \in Usages!Box
      BY <1>0 DEF Usages!TypeInv, Usages!NoBox, Usages!Box
    <3>2. box'[r] = [Usages!NoBox EXCEPT !.state = "running", !.image = image[SearchTarget]]
      BY <1>0, <2>2, UnchangedRunOnly
    <3>3. pc'[r] \in {"wait", "raised"}
      BY <1>0, <2>2, UnchangedRunOnly DEF Usages!GoTo
    <3> QED
      BY <2>1, <3>1, <3>2, <3>3 DEF Usages!NoBox
  <2>3. CASE Usages!GoTo(r, "raised") /\ UNCHANGED box
    BY <1>0, <2>1, <2>3, UnchangedRunOnly DEF Usages!GoTo
  <2> QED
    BY <2>2, <2>3 DEF Usages!RunBox
<1>2. RunOnly(r)
  BY <1>0, <1>1, UnchangedRunOnly DEF Usages!RunBox, Usages!files, Usages!GoTo, RunOnly
<1>3. RunTyped(r)
  BY <1>0, <1>1, UnchangedRunOnly DEF RunTyped, Usages!Places, Usages!Ends, Usages!Box,
      Usages!NoBox
<1>4. Others(r)
  BY <1>0, <1>2, <1>3, RunTypes
<1>5. ParamsAreThere'
  <2>1. /\ cache'.is = "absent" => cache'.docs = 0
        /\ \A d \in Usages!Programs : params[d] # "absent" => params'[d] # "absent"
        /\ pc'[r] = "run" \/ box'[r].state = "running" => params'[Program[r]] # "absent"
        /\ box'[r].state = "running" => pc'[r] \in {"wait", "raised", "crashed"}
    BY <1>0, <1>1, UnchangedRunOnly DEF ParamsAreThere, Usages!BoxRuns, Usages!NoBox
  <2> QED
    BY <1>0, <1>4, <2>1, ParamsKept
<1>6. ASSUME ~spoiled' PROVE CacheStep(r)
  <2>1. ~Usages!Building(r) /\ Usages!Building(r)' => cache \in Fresh
    BY <1>4, <1>6, NewBuilder
  <2> QED
    BY <1>0, <1>1, <1>4, <1>6, <2>1, BeforeStep, UnchangedRunOnly
    DEF CacheStep, BuilderInStep, BoxInStep, Fresh, Usages!Building, Usages!Analysing,
      Usages!BoxRuns, Usages!Cut, Usages!Whole, Usages!Torn, ParamsAreThere, Usages!NoBox
<1>7. ASSUME r \notin met' PROVE OwnStep(r)
  BY <1>0, <1>1, <1>7, BeforeStep, UnchangedRunOnly
  DEF OwnStep, BuilderInStep, BoxInStep, ParamsAreThere, Usages!Whole, Usages!Active,
      Usages!Ends, Usages!BoxRuns, Usages!NoBox
<1>8. Usages!Active(r) \/ result' = result
  BY <1>1 DEF Usages!Active, Usages!Ends, Usages!BoxRuns
<1> QED
  BY <1>1, <1>2, <1>3, <1>5, <1>6, <1>7, <1>8 DEF GoodStep

\* The list of APIs is read.
LEMMA ReadListGood ==
  ASSUME UsageInv, NEW r \in Runs, Usages!Watch, Usages!ReadList(r), crashes' = crashes,
         image' = image
  PROVE  GoodStep(r)
<1>0. Usages!TypeInv /\ ParamsAreThere
  BY BeforeStep
<1>1. /\ pc[r] = "readlist"
      /\ UNCHANGED <<mode, box, docs, params, result, sg, cache>>
      /\ pc'[r] = (IF result[Program[r]] = "list" THEN "crawl" ELSE "misread")
  BY <1>0, UnchangedRunOnly DEF Usages!ReadList, Usages!files, Usages!Dir, Usages!GoTo
<1>2. RunOnly(r)
  BY <1>0, <1>1, UnchangedRunOnly DEF Usages!ReadList, Usages!files, Usages!GoTo, RunOnly
<1>3. RunTyped(r)
  BY <1>0, <1>1, UnchangedRunOnly DEF RunTyped, Usages!Places, Usages!Ends, Usages!Box
<1>4. Others(r)
  BY <1>0, <1>2, <1>3, RunTypes
<1>5. ParamsAreThere'
  <2>1. /\ cache'.is = "absent" => cache'.docs = 0
        /\ \A d \in Usages!Programs : params[d] # "absent" => params'[d] # "absent"
        /\ pc'[r] = "run" \/ box'[r].state = "running" => params'[Program[r]] # "absent"
        /\ box'[r].state = "running" => pc'[r] \in {"wait", "raised", "crashed"}
    BY <1>0, <1>1, UnchangedRunOnly DEF ParamsAreThere, Usages!BoxRuns
  <2> QED
    BY <1>0, <1>4, <2>1, ParamsKept
<1>6. ASSUME ~spoiled' PROVE CacheStep(r)
  BY <1>0, <1>1, <1>4, <1>6, BeforeStep, UnchangedRunOnly
  DEF CacheStep, BuilderInStep, BoxInStep, Fresh, Usages!Building, Usages!Analysing,
      Usages!BoxRuns, Usages!Cut, Usages!Whole, Usages!Torn, ParamsAreThere
<1>7. ASSUME r \notin met' PROVE OwnStep(r)
  BY <1>0, <1>1, <1>7, BeforeStep, UnchangedRunOnly
  DEF OwnStep, BuilderInStep, BoxInStep, ParamsAreThere, Usages!Whole, Usages!Active,
      Usages!Ends, Usages!BoxRuns
<1>8. Usages!Active(r) \/ result' = result
  BY <1>1 DEF Usages!Active, Usages!Ends, Usages!BoxRuns
<1> QED
  BY <1>1, <1>2, <1>3, <1>5, <1>6, <1>7, <1>8 DEF GoodStep

\* What sourcegraph found before is read.
LEMMA CrawlGood ==
  ASSUME UsageInv, NEW r \in Runs, Usages!Watch, Usages!Crawl(r), crashes' = crashes,
         image' = image
  PROVE  GoodStep(r)
<1>0. Usages!TypeInv /\ ParamsAreThere
  BY BeforeStep
<1>1. /\ pc[r] = "crawl"
      /\ UNCHANGED <<mode, box, docs, params, result, sg, cache>>
      /\ pc'[r] = (IF sg = "torn" THEN "misread" ELSE "crawling")
  BY <1>0, UnchangedRunOnly DEF Usages!Crawl, Usages!files, Usages!GoTo
<1>2. RunOnly(r)
  BY <1>0, <1>1, UnchangedRunOnly DEF Usages!Crawl, Usages!files, Usages!GoTo, RunOnly
<1>3. RunTyped(r)
  BY <1>0, <1>1, UnchangedRunOnly DEF RunTyped, Usages!Places, Usages!Ends, Usages!Box
<1>4. Others(r)
  BY <1>0, <1>2, <1>3, RunTypes
<1>5. ParamsAreThere'
  <2>1. /\ cache'.is = "absent" => cache'.docs = 0
        /\ \A d \in Usages!Programs : params[d] # "absent" => params'[d] # "absent"
        /\ pc'[r] = "run" \/ box'[r].state = "running" => params'[Program[r]] # "absent"
        /\ box'[r].state = "running" => pc'[r] \in {"wait", "raised", "crashed"}
    BY <1>0, <1>1, UnchangedRunOnly DEF ParamsAreThere, Usages!BoxRuns
  <2> QED
    BY <1>0, <1>4, <2>1, ParamsKept
<1>6. ASSUME ~spoiled' PROVE CacheStep(r)
  BY <1>0, <1>1, <1>4, <1>6, BeforeStep, UnchangedRunOnly
  DEF CacheStep, BuilderInStep, BoxInStep, Fresh, Usages!Building, Usages!Analysing,
      Usages!BoxRuns, Usages!Cut, Usages!Whole, Usages!Torn, ParamsAreThere
<1>7. ASSUME r \notin met' PROVE OwnStep(r)
  BY <1>0, <1>1, <1>7, BeforeStep, UnchangedRunOnly
  DEF OwnStep, BuilderInStep, BoxInStep, ParamsAreThere, Usages!Whole, Usages!Active,
      Usages!Ends, Usages!BoxRuns
<1>8. Usages!Active(r) \/ result' = result
  BY <1>1 DEF Usages!Active, Usages!Ends, Usages!BoxRuns
<1> QED
  BY <1>1, <1>2, <1>3, <1>5, <1>6, <1>7, <1>8 DEF GoodStep

\* The search results are truncated.
LEMMA CrawlAnsweredGood ==
  ASSUME UsageInv, NEW r \in Runs, Usages!Watch, Usages!CrawlAnswered(r), crashes' = crashes,
         image' = image
  PROVE  GoodStep(r)
<1>0. Usages!TypeInv /\ ParamsAreThere
  BY BeforeStep
<1>1. /\ pc[r] = "crawling" /\ pc'[r] = "crawlwrite" /\ sg' = "torn"
      /\ UNCHANGED <<mode, box, docs, params, result, cache>>
  BY <1>0, UnchangedRunOnly DEF Usages!CrawlAnswered, Usages!GoTo
<1>2. RunOnly(r)
  BY <1>0, <1>1, UnchangedRunOnly DEF Usages!CrawlAnswered, Usages!GoTo, RunOnly
<1>3. RunTyped(r)
  BY <1>0, <1>1, UnchangedRunOnly DEF RunTyped, Usages!Places, Usages!Ends, Usages!Box
<1>4. Others(r)
  BY <1>0, <1>2, <1>3, RunTypes
<1>5. ParamsAreThere'
  <2>1. /\ cache'.is = "absent" => cache'.docs = 0
        /\ \A d \in Usages!Programs : params[d] # "absent" => params'[d] # "absent"
        /\ pc'[r] = "run" \/ box'[r].state = "running" => params'[Program[r]] # "absent"
        /\ box'[r].state = "running" => pc'[r] \in {"wait", "raised", "crashed"}
    BY <1>0, <1>1, UnchangedRunOnly DEF ParamsAreThere, Usages!BoxRuns
  <2> QED
    BY <1>0, <1>4, <2>1, ParamsKept
<1>6. ASSUME ~spoiled' PROVE CacheStep(r)
  BY <1>0, <1>1, <1>4, <1>6, BeforeStep, UnchangedRunOnly
  DEF CacheStep, BuilderInStep, BoxInStep, Fresh, Usages!Building, Usages!Analysing,
      Usages!BoxRuns, Usages!Cut, Usages!Whole, Usages!Torn, ParamsAreThere
<1>7. ASSUME r \notin met' PROVE OwnStep(r)
  BY <1>0, <1>1, <1>7, BeforeStep, UnchangedRunOnly
  DEF OwnStep, BuilderInStep, BoxInStep, ParamsAreThere, Usages!Whole, Usages!Active,
      Usages!Ends, Usages!BoxRuns
<1>8. Usages!Active(r) \/ result' = result
  BY <1>1 DEF Usages!Active, Usages!Ends, Usages!BoxRuns
<1> QED
  BY <1>1, <1>2, <1>3, <1>5, <1>6, <1>7, <1>8 DEF GoodStep

\* The search results are whole again.
LEMMA CrawlWriteGood ==
  ASSUME UsageInv, NEW r \in Runs, Usages!Watch, Usages!CrawlWrite(r), crashes' = crashes,
         image' = image
  PROVE  GoodStep(r)
<1>0. Usages!TypeInv /\ ParamsAreThere
  BY BeforeStep
<1>1. /\ pc[r] = "crawlwrite" /\ pc'[r] = "params" /\ sg' = "whole" /\ mode'[r] = "collect"
      /\ UNCHANGED <<box, docs, params, result, cache>>
  BY <1>0, UnchangedRunOnly DEF Usages!CrawlWrite, Usages!GoTo
<1>2. RunOnly(r)
  BY <1>0, <1>1, UnchangedRunOnly DEF Usages!CrawlWrite, Usages!GoTo, RunOnly
<1>3. RunTyped(r)
  BY <1>0, <1>1, UnchangedRunOnly DEF RunTyped, Usages!Places, Usages!Ends, Usages!Box
<1>4. Others(r)
  BY <1>0, <1>2, <1>3, RunTypes
<1>5. ParamsAreThere'
  <2>1. /\ cache'.is = "absent" => cache'.docs = 0
        /\ \A d \in Usages!Programs : params[d] # "absent" => params'[d] # "absent"
        /\ pc'[r] = "run" \/ box'[r].state = "running" => params'[Program[r]] # "absent"
        /\ box'[r].state = "running" => pc'[r] \in {"wait", "raised", "crashed"}
    BY <1>0, <1>1, UnchangedRunOnly DEF ParamsAreThere, Usages!BoxRuns
  <2> QED
    BY <1>0, <1>4, <2>1, ParamsKept
<1>6. ASSUME ~spoiled' PROVE CacheStep(r)
  BY <1>0, <1>1, <1>4, <1>6, BeforeStep, UnchangedRunOnly
  DEF CacheStep, BuilderInStep, BoxInStep, Fresh, Usages!Building, Usages!Analysing,
      Usages!BoxRuns, Usages!Cut, Usages!Whole, Usages!Torn, ParamsAreThere
<1>7. ASSUME r \notin met' PROVE OwnStep(r)
  BY <1>0, <1>1, <1>7, BeforeStep, UnchangedRunOnly
  DEF OwnStep, BuilderInStep, BoxInStep, ParamsAreThere, Usages!Whole, Usages!Active,
      Usages!Ends, Usages!BoxRuns
<1>8. Usages!Active(r) \/ result' = result
  BY <1>1 DEF Usages!Active, Usages!Ends, Usages!BoxRuns
<1> QED
  BY <1>1, <1>2, <1>3, <1>5, <1>6, <1>7, <1>8 DEF GoodStep

\* The builder reads what its container wrote.
LEMMA ReadCacheGood ==
  ASSUME UsageInv, NEW r \in Runs, Usages!Watch, Usages!ReadCache(r), crashes' = crashes,
         image' = image
  PROVE  GoodStep(r)
<1>0. Usages!TypeInv /\ ParamsAreThere
  BY BeforeStep
<1>1. /\ pc[r] = "readcache"
      /\ UNCHANGED <<mode, box, params, result, sg, cache>>
      /\ \/ cache.is = "whole" /\ docs'[r] = cache.docs + 1 /\ pc'[r] = "truncate"
         \/ cache.is # "whole" /\ docs'[r] = docs[r] /\ pc'[r] = "misread"
  BY <1>0, UnchangedRunOnly DEF Usages!ReadCache, Usages!files, Usages!GoTo
<1>2. RunOnly(r)
  BY <1>0, <1>1, UnchangedRunOnly DEF Usages!ReadCache, Usages!files, Usages!GoTo, RunOnly
<1>3. RunTyped(r)
  BY <1>0, <1>1, UnchangedRunOnly DEF RunTyped, Usages!Places, Usages!Ends, Usages!Box
<1>4. Others(r)
  BY <1>0, <1>2, <1>3, RunTypes
<1>5. ParamsAreThere'
  <2>1. /\ cache'.is = "absent" => cache'.docs = 0
        /\ \A d \in Usages!Programs : params[d] # "absent" => params'[d] # "absent"
        /\ pc'[r] = "run" \/ box'[r].state = "running" => params'[Program[r]] # "absent"
        /\ box'[r].state = "running" => pc'[r] \in {"wait", "raised", "crashed"}
    BY <1>0, <1>1, UnchangedRunOnly DEF ParamsAreThere, Usages!BoxRuns
  <2> QED
    BY <1>0, <1>4, <2>1, ParamsKept
<1>6. ASSUME ~spoiled' PROVE CacheStep(r)
  BY <1>0, <1>1, <1>4, <1>6, BeforeStep, UnchangedRunOnly
  DEF CacheStep, BuilderInStep, BoxInStep, Fresh, Usages!Building, Usages!Analysing,
      Usages!BoxRuns, Usages!Cut, Usages!Whole, Usages!Torn, ParamsAreThere
<1>7. ASSUME r \notin met' PROVE OwnStep(r)
  BY <1>0, <1>1, <1>7, BeforeStep, UnchangedRunOnly
  DEF OwnStep, BuilderInStep, BoxInStep, ParamsAreThere, Usages!Whole, Usages!Active,
      Usages!Ends, Usages!BoxRuns
<1>8. Usages!Active(r) \/ result' = result
  BY <1>1 DEF Usages!Active, Usages!Ends, Usages!BoxRuns
<1> QED
  BY <1>1, <1>2, <1>3, <1>5, <1>6, <1>7, <1>8 DEF GoodStep

\* The builder truncates the cache.
LEMMA TruncateGood ==
  ASSUME UsageInv, NEW r \in Runs, Usages!Watch, Usages!Truncate(r), crashes' = crashes,
         image' = image
  PROVE  GoodStep(r)
<1>0. Usages!TypeInv /\ ParamsAreThere
  BY BeforeStep
<1>1. /\ pc[r] = "truncate" /\ pc'[r] = "write" /\ cache' = Usages!Torn
      /\ UNCHANGED <<mode, box, docs, params, result, sg>>
  BY <1>0, UnchangedRunOnly DEF Usages!Truncate, Usages!GoTo, Usages!Torn
<1>2. RunOnly(r)
  BY <1>0, <1>1, UnchangedRunOnly DEF Usages!Truncate, Usages!GoTo, RunOnly
<1>3. RunTyped(r)
  BY <1>0, <1>1, UnchangedRunOnly DEF RunTyped, Usages!Places, Usages!Ends, Usages!Box,
      Usages!Torn
<1>4. Others(r)
  BY <1>0, <1>2, <1>3, RunTypes
<1>5. ParamsAreThere'
  <2>1. /\ cache'.is = "absent" => cache'.docs = 0
        /\ \A d \in Usages!Programs : params[d] # "absent" => params'[d] # "absent"
        /\ pc'[r] = "run" \/ box'[r].state = "running" => params'[Program[r]] # "absent"
        /\ box'[r].state = "running" => pc'[r] \in {"wait", "raised", "crashed"}
    BY <1>0, <1>1, UnchangedRunOnly DEF ParamsAreThere, Usages!Torn, Usages!BoxRuns
  <2> QED
    BY <1>0, <1>4, <2>1, ParamsKept
<1>6. ASSUME ~spoiled' PROVE CacheStep(r)
  BY <1>0, <1>1, <1>4, <1>6, BeforeStep, UnchangedRunOnly
  DEF CacheStep, BuilderInStep, BoxInStep, Fresh, Usages!Building, Usages!Analysing,
      Usages!BoxRuns, Usages!Cut, Usages!Whole, Usages!Torn, ParamsAreThere
<1>7. ASSUME r \notin met' PROVE OwnStep(r)
  BY <1>0, <1>1, <1>7, BeforeStep, UnchangedRunOnly
  DEF OwnStep, BuilderInStep, BoxInStep, ParamsAreThere, Usages!Whole, Usages!Active,
      Usages!Ends, Usages!BoxRuns
<1>8. Usages!Active(r) \/ result' = result
  BY <1>1 DEF Usages!Active, Usages!Ends, Usages!BoxRuns
<1> QED
  BY <1>1, <1>2, <1>3, <1>5, <1>6, <1>7, <1>8 DEF GoodStep, Usages!Torn

\* The builder has put the documents in, and builds no longer.
LEMMA WriteCacheGood ==
  ASSUME UsageInv, NEW r \in Runs, Usages!Watch, Usages!WriteCache(r), crashes' = crashes,
         image' = image
  PROVE  GoodStep(r)
<1>0. Usages!TypeInv /\ ParamsAreThere
  BY BeforeStep
<1>1. /\ pc[r] = "write" /\ pc'[r] = "load" /\ cache' = Usages!Whole(docs[r])
      /\ UNCHANGED <<mode, box, docs, params, result, sg>>
  BY <1>0, UnchangedRunOnly DEF Usages!WriteCache, Usages!GoTo, Usages!Whole
<1>2. RunOnly(r)
  BY <1>0, <1>1, UnchangedRunOnly DEF Usages!WriteCache, Usages!GoTo, RunOnly
<1>3. RunTyped(r)
  BY <1>0, <1>1, UnchangedRunOnly DEF RunTyped, Usages!Places, Usages!Ends, Usages!Box,
      Usages!Whole
<1>4. Others(r)
  BY <1>0, <1>2, <1>3, RunTypes
<1>5. ParamsAreThere'
  <2>1. /\ cache'.is = "absent" => cache'.docs = 0
        /\ \A d \in Usages!Programs : params[d] # "absent" => params'[d] # "absent"
        /\ pc'[r] = "run" \/ box'[r].state = "running" => params'[Program[r]] # "absent"
        /\ box'[r].state = "running" => pc'[r] \in {"wait", "raised", "crashed"}
    BY <1>0, <1>1, UnchangedRunOnly DEF ParamsAreThere, Usages!Whole, Usages!BoxRuns
  <2> QED
    BY <1>0, <1>4, <2>1, ParamsKept
<1>6. ASSUME ~spoiled' PROVE CacheStep(r)
  BY <1>0, <1>1, <1>4, <1>6, BeforeStep, UnchangedRunOnly
  DEF CacheStep, BuilderInStep, BoxInStep, Fresh, Usages!Building, Usages!Analysing,
      Usages!BoxRuns, Usages!Cut, Usages!Whole, Usages!Torn, ParamsAreThere
<1>7. ASSUME r \notin met' PROVE OwnStep(r)
  BY <1>0, <1>1, <1>7, BeforeStep, UnchangedRunOnly
  DEF OwnStep, BuilderInStep, BoxInStep, ParamsAreThere, Usages!Whole, Usages!Active,
      Usages!Ends, Usages!BoxRuns
<1>8. Usages!Active(r) \/ result' = result
  BY <1>1 DEF Usages!Active, Usages!Ends, Usages!BoxRuns
<1> QED
  BY <1>1, <1>2, <1>3, <1>5, <1>6, <1>7, <1>8 DEF GoodStep, Usages!Whole

\* The usages are loaded.
LEMMA LoadGood ==
  ASSUME UsageInv, NEW r \in Runs, Usages!Watch, Usages!Load(r), crashes' = crashes,
         image' = image
  PROVE  GoodStep(r)
<1>0. Usages!TypeInv /\ ParamsAreThere
  BY BeforeStep
<1>1. /\ pc[r] = "load"
      /\ UNCHANGED <<mode, box, params, result, sg, cache>>
      /\ \/ cache.is = "whole" /\ docs'[r] = cache.docs /\ pc'[r] = "done"
         \/ cache.is # "whole" /\ docs'[r] = docs[r] /\ pc'[r] = "misread"
  BY <1>0, UnchangedRunOnly DEF Usages!Load, Usages!files, Usages!GoTo
<1>2. RunOnly(r)
  BY <1>0, <1>1, UnchangedRunOnly DEF Usages!Load, Usages!files, Usages!GoTo, RunOnly
<1>3. RunTyped(r)
  BY <1>0, <1>1, UnchangedRunOnly DEF RunTyped, Usages!Places, Usages!Ends, Usages!Box
<1>4. Others(r)
  BY <1>0, <1>2, <1>3, RunTypes
<1>5. ParamsAreThere'
  <2>1. /\ cache'.is = "absent" => cache'.docs = 0
        /\ \A d \in Usages!Programs : params[d] # "absent" => params'[d] # "absent"
        /\ pc'[r] = "run" \/ box'[r].state = "running" => params'[Program[r]] # "absent"
        /\ box'[r].state = "running" => pc'[r] \in {"wait", "raised", "crashed"}
    BY <1>0, <1>1, UnchangedRunOnly DEF ParamsAreThere, Usages!BoxRuns
  <2> QED
    BY <1>0, <1>4, <2>1, ParamsKept
<1>6. ASSUME ~spoiled' PROVE CacheStep(r)
  BY <1>0, <1>1, <1>4, <1>6, BeforeStep, UnchangedRunOnly
  DEF CacheStep, BuilderInStep, BoxInStep, Fresh, Usages!Building, Usages!Analysing,
      Usages!BoxRuns, Usages!Cut, Usages!Whole, Usages!Torn, ParamsAreThere
<1>7. ASSUME r \notin met' PROVE OwnStep(r)
  BY <1>1, <1>7, LoadsFresh DEF OwnStep, Usages!Whole
<1>8. Usages!Active(r) \/ result' = result
  BY <1>1 DEF Usages!Active, Usages!Ends, Usages!BoxRuns
<1> QED
  BY <1>1, <1>2, <1>3, <1>5, <1>6, <1>7, <1>8 DEF GoodStep

\* The container takes the mode the parameters say.
LEMMA BootGood ==
  ASSUME UsageInv, NEW r \in Runs, Usages!Watch, Usages!Boot(r), crashes' = crashes,
         image' = image
  PROVE  GoodStep(r)
<1>0. Usages!TypeInv /\ ParamsAreThere
  BY BeforeStep
<1> DEFINE x == [box[r] EXCEPT !.mode = params[Program[r]], !.at = "work"]
<1>b. box[r].state = "running" /\ box[r] \in Usages!Box /\ params[Program[r]] # "absent"
      /\ params[Program[r]] \in {"absent", "list", "collect"}
  BY <1>0, UnchangedRunOnly DEF Usages!Boot, Usages!BoxAt, Usages!BoxRuns, ParamsAreThere
<1>x. x \in Usages!Box
  BY <1>b DEF Usages!Box
<1>c. box' = [box EXCEPT ![r] = x] /\ box'[r] = x
  BY <1>0, UnchangedRunOnly DEF Usages!Boot, Usages!Dir
<1>d. box' = [box EXCEPT ![r] = box'[r]]
  BY <1>c
<1>1. /\ box[r].state = "running" /\ box[r].at = "boot"
      /\ box'[r].state = "running" /\ box'[r].at = "work" /\ box'[r].mode = params[Program[r]] /\ box'[r] \in Usages!Box
      /\ result' = [result EXCEPT ![Program[r]] = "absent"]
      /\ UNCHANGED <<pc, mode, docs, params, sg, cache>>
  BY <1>0, <1>b, <1>x, <1>c, UnchangedRunOnly DEF Usages!Box, Usages!Boot, Usages!Dir,
      Usages!BoxAt, Usages!BoxRuns
<1>2. RunOnly(r)
  BY <1>0, <1>1, <1>d, UnchangedRunOnly DEF RunOnly
<1>3. RunTyped(r)
  BY <1>0, <1>1, UnchangedRunOnly DEF RunTyped, Usages!Places, Usages!Ends, Usages!Box
<1>4. Others(r)
  BY <1>0, <1>2, <1>3, RunTypes
<1>5. ParamsAreThere'
  <2>1. /\ cache'.is = "absent" => cache'.docs = 0
        /\ \A d \in Usages!Programs : params[d] # "absent" => params'[d] # "absent"
        /\ pc'[r] = "run" \/ box'[r].state = "running" => params'[Program[r]] # "absent"
        /\ box'[r].state = "running" => pc'[r] \in {"wait", "raised", "crashed"}
    BY <1>0, <1>1, UnchangedRunOnly DEF ParamsAreThere, Usages!BoxRuns
  <2> QED
    BY <1>0, <1>4, <2>1, ParamsKept
<1>6. ASSUME ~spoiled' PROVE CacheStep(r)
  <2>1. ~Usages!Building(r) /\ Usages!Building(r)' => cache \in Fresh
    BY <1>4, <1>6, NewBuilder
  <2> QED
    BY <1>0, <1>1, <1>4, <1>6, <2>1, BeforeStep, UnchangedRunOnly
    DEF CacheStep, BuilderInStep, BoxInStep, Fresh, Usages!Building, Usages!Analysing,
      Usages!BoxRuns, Usages!Cut, Usages!Whole, Usages!Torn, ParamsAreThere, Usages!NoBox
<1>7. ASSUME r \notin met' PROVE OwnStep(r)
  BY <1>0, <1>1, <1>7, BeforeStep, UnchangedRunOnly
  DEF OwnStep, BuilderInStep, BoxInStep, ParamsAreThere, Usages!Whole, Usages!Active,
      Usages!Ends, Usages!BoxRuns
<1>8. Usages!Active(r) \/ result' = result
  BY <1>1 DEF Usages!Active, Usages!Ends, Usages!BoxRuns
<1> QED
  BY <1>1, <1>2, <1>3, <1>5, <1>6, <1>7, <1>8 DEF GoodStep

\* The analysis.
LEMMA WorkGood ==
  ASSUME UsageInv, NEW r \in Runs, Usages!Watch, Usages!Work(r), crashes' = crashes,
         image' = image
  PROVE  GoodStep(r)
<1>0. Usages!TypeInv /\ ParamsAreThere
  BY BeforeStep
<1> DEFINE x == [box[r] EXCEPT !.at = "open"]
<1>b. box[r].state = "running" /\ box[r] \in Usages!Box /\ params[Program[r]] # "absent"
      /\ params[Program[r]] \in {"absent", "list", "collect"}
  BY <1>0, UnchangedRunOnly DEF Usages!Work, Usages!BoxAt, Usages!BoxRuns, ParamsAreThere
<1>x. x \in Usages!Box
  BY <1>b DEF Usages!Box
<1>c. box' = [box EXCEPT ![r] = x] /\ box'[r] = x
  BY <1>0, UnchangedRunOnly DEF Usages!Work, Usages!Dir
<1>d. box' = [box EXCEPT ![r] = box'[r]]
  BY <1>c
<1>1. /\ box[r].state = "running" /\ box[r].at = "work"
      /\ box'[r].state = "running" /\ box'[r].at = "open" /\ box'[r].mode = box[r].mode /\ box'[r] \in Usages!Box
      /\ UNCHANGED <<pc, mode, docs, params, result, sg, cache>>
  BY <1>0, <1>b, <1>x, <1>c, UnchangedRunOnly DEF Usages!Box, Usages!Work, Usages!files,
      Usages!BoxAt, Usages!BoxRuns
<1>2. RunOnly(r)
  BY <1>0, <1>1, <1>d, UnchangedRunOnly DEF RunOnly
<1>3. RunTyped(r)
  BY <1>0, <1>1, UnchangedRunOnly DEF RunTyped, Usages!Places, Usages!Ends, Usages!Box
<1>4. Others(r)
  BY <1>0, <1>2, <1>3, RunTypes
<1>5. ParamsAreThere'
  <2>1. /\ cache'.is = "absent" => cache'.docs = 0
        /\ \A d \in Usages!Programs : params[d] # "absent" => params'[d] # "absent"
        /\ pc'[r] = "run" \/ box'[r].state = "running" => params'[Program[r]] # "absent"
        /\ box'[r].state = "running" => pc'[r] \in {"wait", "raised", "crashed"}
    BY <1>0, <1>1, UnchangedRunOnly DEF ParamsAreThere, Usages!BoxRuns
  <2> QED
    BY <1>0, <1>4, <2>1, ParamsKept
<1>6. ASSUME ~spoiled' PROVE CacheStep(r)
  BY <1>0, <1>1, <1>4, <1>6, BeforeStep, UnchangedRunOnly
  DEF CacheStep, BuilderInStep, BoxInStep, Fresh, Usages!Building, Usages!Analysing,
      Usages!BoxRuns, Usages!Cut, Usages!Whole, Usages!Torn, ParamsAreThere
<1>7. ASSUME r \notin met' PROVE OwnStep(r)
  BY <1>0, <1>1, <1>7, BeforeStep, UnchangedRunOnly
  DEF OwnStep, BuilderInStep, BoxInStep, ParamsAreThere, Usages!Whole, Usages!Active,
      Usages!Ends, Usages!BoxRuns
<1>8. Usages!Active(r) \/ result' = result
  BY <1>1 DEF Usages!Active, Usages!Ends, Usages!BoxRuns
<1> QED
  BY <1>1, <1>2, <1>3, <1>5, <1>6, <1>7, <1>8 DEF GoodStep

\* The container truncates its output.
LEMMA OpenOutputGood ==
  ASSUME UsageInv, NEW r \in Runs, Usages!Watch, Usages!OpenOutput(r), crashes' = crashes,
         image' = image
  PROVE  GoodStep(r)
<1>0. Usages!TypeInv /\ ParamsAreThere
  BY BeforeStep
<1> DEFINE x == [box[r] EXCEPT !.at = "write"]
<1>b. box[r].state = "running" /\ box[r] \in Usages!Box /\ params[Program[r]] # "absent"
      /\ params[Program[r]] \in {"absent", "list", "collect"}
  BY <1>0, UnchangedRunOnly DEF Usages!OpenOutput, Usages!BoxAt, Usages!BoxRuns, ParamsAreThere
<1>x. x \in Usages!Box
  BY <1>b DEF Usages!Box
<1>c. box' = [box EXCEPT ![r] = x] /\ box'[r] = x
  BY <1>0, UnchangedRunOnly DEF Usages!OpenOutput, Usages!Dir
<1>d. box' = [box EXCEPT ![r] = box'[r]]
  BY <1>c
<1>1. /\ box[r].state = "running" /\ box[r].at = "open"
      /\ box'[r].state = "running" /\ box'[r].at = "write" /\ box'[r].mode = box[r].mode /\ box'[r] \in Usages!Box
      /\ \/ box[r].mode = "list" /\ result' = [result EXCEPT ![Program[r]] = "torn"] /\ cache' = cache
         \/ box[r].mode # "list" /\ cache' = Usages!Torn /\ result' = result
      /\ UNCHANGED <<pc, mode, docs, params, sg>>
  BY <1>0, <1>b, <1>x, <1>c, UnchangedRunOnly DEF Usages!Box, Usages!OpenOutput, Usages!Dir,
      Usages!BoxAt, Usages!BoxRuns, Usages!Torn
<1>2. RunOnly(r)
  BY <1>0, <1>1, <1>d, UnchangedRunOnly DEF RunOnly
<1>3. RunTyped(r)
  BY <1>0, <1>1, UnchangedRunOnly DEF RunTyped, Usages!Places, Usages!Ends, Usages!Box,
      Usages!Torn
<1>4. Others(r)
  BY <1>0, <1>2, <1>3, RunTypes
<1>5. ParamsAreThere'
  <2>1. /\ cache'.is = "absent" => cache'.docs = 0
        /\ \A d \in Usages!Programs : params[d] # "absent" => params'[d] # "absent"
        /\ pc'[r] = "run" \/ box'[r].state = "running" => params'[Program[r]] # "absent"
        /\ box'[r].state = "running" => pc'[r] \in {"wait", "raised", "crashed"}
    BY <1>0, <1>1, UnchangedRunOnly DEF ParamsAreThere, Usages!Torn, Usages!BoxRuns
  <2> QED
    BY <1>0, <1>4, <2>1, ParamsKept
<1>6. ASSUME ~spoiled' PROVE CacheStep(r)
  BY <1>0, <1>1, <1>4, <1>6, BeforeStep, UnchangedRunOnly
  DEF CacheStep, BuilderInStep, BoxInStep, Fresh, Usages!Building, Usages!Analysing,
      Usages!BoxRuns, Usages!Cut, Usages!Whole, Usages!Torn, ParamsAreThere
<1>7. ASSUME r \notin met' PROVE OwnStep(r)
  BY <1>0, <1>1, <1>7, BeforeStep, UnchangedRunOnly
  DEF OwnStep, BuilderInStep, BoxInStep, ParamsAreThere, Usages!Whole, Usages!Active,
      Usages!Ends, Usages!BoxRuns
<1>8. Usages!Active(r) \/ result' = result
  BY <1>1 DEF Usages!Active, Usages!Ends, Usages!BoxRuns
<1> QED
  BY <1>1, <1>2, <1>3, <1>5, <1>6, <1>7, <1>8 DEF GoodStep, Usages!Torn

\* The container writes its output and exits.
LEMMA WriteOutputGood ==
  ASSUME UsageInv, NEW r \in Runs, Usages!Watch, Usages!WriteOutput(r), crashes' = crashes,
         image' = image
  PROVE  GoodStep(r)
<1>0. Usages!TypeInv /\ ParamsAreThere
  BY BeforeStep
<1> DEFINE x == [box[r] EXCEPT !.state = "exited", !.at = "boot", !.mode = "list"]
<1>b. box[r].state = "running" /\ box[r] \in Usages!Box /\ params[Program[r]] # "absent"
      /\ params[Program[r]] \in {"absent", "list", "collect"}
  BY <1>0, UnchangedRunOnly DEF Usages!WriteOutput, Usages!BoxAt, Usages!BoxRuns, ParamsAreThere
<1>x. x \in Usages!Box
  BY <1>b DEF Usages!Box
<1>c. box' = [box EXCEPT ![r] = x] /\ box'[r] = x
  BY <1>0, UnchangedRunOnly, ZenonT(40) DEF Usages!WriteOutput, Usages!Dir
<1>d. box' = [box EXCEPT ![r] = box'[r]]
  BY <1>c
<1>1. /\ box[r].state = "running" /\ box[r].at = "write"
      /\ box'[r].state = "exited" /\ box'[r].at = "boot" /\ box'[r].mode = "list" /\ box'[r] \in Usages!Box
      /\ \/ box[r].mode = "list" /\ result' = [result EXCEPT ![Program[r]] = "list"] /\ cache' = cache
         \/ box[r].mode # "list" /\ cache' = Usages!Whole(0) /\ result' = result
      /\ UNCHANGED <<pc, mode, docs, params, sg>>
  BY <1>0, <1>b, <1>x, <1>c, UnchangedRunOnly DEF Usages!Box, Usages!WriteOutput, Usages!Dir,
      Usages!BoxAt, Usages!BoxRuns, Usages!Whole
<1>2. RunOnly(r)
  BY <1>0, <1>1, <1>d, UnchangedRunOnly DEF RunOnly
<1>3. RunTyped(r)
  BY <1>0, <1>1, UnchangedRunOnly DEF RunTyped, Usages!Places, Usages!Ends, Usages!Box,
      Usages!Whole
<1>4. Others(r)
  BY <1>0, <1>2, <1>3, RunTypes
<1>5. ParamsAreThere'
  <2>1. /\ cache'.is = "absent" => cache'.docs = 0
        /\ \A d \in Usages!Programs : params[d] # "absent" => params'[d] # "absent"
        /\ pc'[r] = "run" \/ box'[r].state = "running" => params'[Program[r]] # "absent"
        /\ box'[r].state = "running" => pc'[r] \in {"wait", "raised", "crashed"}
    BY <1>0, <1>1, UnchangedRunOnly DEF ParamsAreThere, Usages!Whole, Usages!BoxRuns
  <2> QED
    BY <1>0, <1>4, <2>1, ParamsKept
<1>6. ASSUME ~spoiled' PROVE CacheStep(r)
  BY <1>0, <1>1, <1>4, <1>6, BeforeStep, UnchangedRunOnly
  DEF CacheStep, BuilderInStep, BoxInStep, Fresh, Usages!Building, Usages!Analysing,
      Usages!BoxRuns, Usages!Cut, Usages!Whole, Usages!Torn, ParamsAreThere
<1>7. ASSUME r \notin met' PROVE OwnStep(r)
  BY <1>0, <1>1, <1>7, BeforeStep, UnchangedRunOnly
  DEF OwnStep, BuilderInStep, BoxInStep, ParamsAreThere, Usages!Whole, Usages!Active,
      Usages!Ends, Usages!BoxRuns
<1>8. Usages!Active(r) \/ result' = result
  BY <1>1 DEF Usages!Active, Usages!Ends, Usages!BoxRuns
<1> QED
  BY <1>1, <1>2, <1>3, <1>5, <1>6, <1>7, <1>8 DEF GoodStep, Usages!Whole

\* The container fails.
LEMMA BoxFailsGood ==
  ASSUME UsageInv, NEW r \in Runs, Usages!Watch, Usages!BoxFails(r), crashes' = crashes,
         image' = image
  PROVE  GoodStep(r)
<1>0. Usages!TypeInv /\ ParamsAreThere
  BY BeforeStep
<1> DEFINE x == [box[r] EXCEPT !.state = "failed", !.at = "boot", !.mode = "list"]
<1>b. box[r].state = "running" /\ box[r] \in Usages!Box /\ params[Program[r]] # "absent"
      /\ params[Program[r]] \in {"absent", "list", "collect"}
  BY <1>0, UnchangedRunOnly DEF Usages!BoxFails, Usages!BoxAt, Usages!BoxRuns, ParamsAreThere
<1>x. x \in Usages!Box
  BY <1>b DEF Usages!Box
<1>c. box' = [box EXCEPT ![r] = x] /\ box'[r] = x
  BY <1>0, UnchangedRunOnly, ZenonT(40) DEF Usages!BoxFails, Usages!Dir
<1>d. box' = [box EXCEPT ![r] = box'[r]]
  BY <1>c
<1>1. /\ box[r].state = "running"
      /\ box'[r].state = "failed" /\ box'[r].at = "boot" /\ box'[r].mode = "list" /\ box'[r] \in Usages!Box
      /\ UNCHANGED <<pc, mode, docs, params, result, sg, cache>>
  BY <1>0, <1>b, <1>x, <1>c, UnchangedRunOnly DEF Usages!Box, Usages!BoxFails, Usages!files,
      Usages!BoxRuns
<1>2. RunOnly(r)
  BY <1>0, <1>1, <1>d, UnchangedRunOnly DEF RunOnly
<1>3. RunTyped(r)
  BY <1>0, <1>1, UnchangedRunOnly DEF RunTyped, Usages!Places, Usages!Ends, Usages!Box
<1>4. Others(r)
  BY <1>0, <1>2, <1>3, RunTypes
<1>5. ParamsAreThere'
  <2>1. /\ cache'.is = "absent" => cache'.docs = 0
        /\ \A d \in Usages!Programs : params[d] # "absent" => params'[d] # "absent"
        /\ pc'[r] = "run" \/ box'[r].state = "running" => params'[Program[r]] # "absent"
        /\ box'[r].state = "running" => pc'[r] \in {"wait", "raised", "crashed"}
    BY <1>0, <1>1, UnchangedRunOnly DEF ParamsAreThere, Usages!BoxRuns
  <2> QED
    BY <1>0, <1>4, <2>1, ParamsKept
<1>6. ASSUME ~spoiled' PROVE CacheStep(r)
  BY <1>0, <1>1, <1>4, <1>6, BeforeStep, UnchangedRunOnly
  DEF CacheStep, BuilderInStep, BoxInStep, Fresh, Usages!Building, Usages!Analysing,
      Usages!BoxRuns, Usages!Cut, Usages!Whole, Usages!Torn, ParamsAreThere
<1>7. ASSUME r \notin met' PROVE OwnStep(r)
  BY <1>0, <1>1, <1>7, BeforeStep, UnchangedRunOnly
  DEF OwnStep, BuilderInStep, BoxInStep, ParamsAreThere, Usages!Whole, Usages!Active,
      Usages!Ends, Usages!BoxRuns
<1>8. Usages!Active(r) \/ result' = result
  BY <1>1 DEF Usages!Active, Usages!Ends, Usages!BoxRuns
<1> QED
  BY <1>1, <1>2, <1>3, <1>5, <1>6, <1>7, <1>8 DEF GoodStep

\* The run dies; the cache is spoiled if it was a builder.
LEMMA CrashGood ==
  ASSUME UsageInv, NEW r \in Runs, Usages!Watch, Usages!Crash(r),
         image' = image
  PROVE  GoodStep(r)
<1>0. Usages!TypeInv /\ ParamsAreThere
  BY BeforeStep
<1>1. /\ pc[r] \notin {"idle"} \cup Usages!Ends /\ pc'[r] = "crashed" /\ crashes < MaxCrashes /\ crashes' = crashes + 1
      /\ UNCHANGED <<mode, box, docs, params, result, sg, cache>>
  BY <1>0, UnchangedRunOnly DEF Usages!Crash, Usages!files, Usages!GoTo
<1>2. RunOnly(r)
  BY <1>0, <1>1, UnchangedRunOnly DEF Usages!Crash, Usages!files, Usages!GoTo, RunOnly
<1>3. RunTyped(r)
  BY <1>0, <1>1, Assumed, UnchangedRunOnly DEF RunTyped, Usages!Places, Usages!Ends, Usages!Box
<1>4. Others(r)
  BY <1>0, <1>2, <1>3, RunTypes
<1>5. ParamsAreThere'
  <2>1. /\ cache'.is = "absent" => cache'.docs = 0
        /\ \A d \in Usages!Programs : params[d] # "absent" => params'[d] # "absent"
        /\ pc'[r] = "run" \/ box'[r].state = "running" => params'[Program[r]] # "absent"
        /\ box'[r].state = "running" => pc'[r] \in {"wait", "raised", "crashed"}
    BY <1>0, <1>1, UnchangedRunOnly DEF ParamsAreThere, Usages!BoxRuns
  <2> QED
    BY <1>0, <1>4, <2>1, ParamsKept
<1>6. ASSUME ~spoiled' PROVE CacheStep(r)
  BY <1>0, <1>1, <1>4, <1>6, BeforeStep, UnchangedRunOnly
  DEF CacheStep, BuilderInStep, BoxInStep, Fresh, Usages!Building, Usages!Analysing,
      Usages!BoxRuns, Usages!Cut, Usages!Whole, Usages!Torn, ParamsAreThere
<1>7. ASSUME r \notin met' PROVE OwnStep(r)
  BY <1>0, <1>1, <1>7, BeforeStep, UnchangedRunOnly
  DEF OwnStep, BuilderInStep, BoxInStep, ParamsAreThere, Usages!Whole, Usages!Active,
      Usages!Ends, Usages!BoxRuns
<1>8. Usages!Active(r) \/ result' = result
  BY <1>1 DEF Usages!Active, Usages!Ends, Usages!BoxRuns
<1> QED
  BY <1>1, <1>2, <1>3, <1>5, <1>6, <1>7, <1>8 DEF GoodStep

-----------------------------------------------------------------------------
(***************************************************************************)
(* The invariant.                                                          *)
(***************************************************************************)

\* The invariant of the usages holds at the start.
LEMMA UsageInit == Init => UsageInv
<1> SUFFICES ASSUME Init PROVE UsageInv
  OBVIOUS
<1>1. Usages!Init /\ Images!TypeInv
  BY ImageInit DEF Init, ImageInv
<1>2. Usages!TypeInv
  <2>1. Usages!NoBox \in Usages!Box
    BY DEF Usages!NoBox, Usages!Box
  <2>2. /\ pc \in [Runs -> Usages!Places] /\ mode \in [Runs -> {"list", "collect"}]
        /\ box \in [Runs -> Usages!Box] /\ docs \in [Runs -> Nat]
    BY <1>1, <2>1 DEF Usages!Init, Usages!Places
  <2>3. /\ params \in [Usages!Programs -> {"absent", "list", "collect"}]
        /\ result \in [Usages!Programs -> {"absent", "torn", "list"}]
    BY <1>1 DEF Usages!Init
  <2>4. /\ sg \in {"absent", "torn", "whole"} /\ met \subseteq Runs
        /\ cache \in [is : {"absent", "torn", "whole"}, docs : Nat]
    BY <1>1 DEF Usages!Init
  <2>6. crashes \in 0..MaxCrashes
    BY <1>1, Assumed DEF Usages!Init
  <2>7. spoiled \in BOOLEAN
    BY <1>1 DEF Usages!Init
  <2>5. image[SearchTarget] \in Nat
    BY <1>1, Assumed DEF Images!TypeInv
  <2> QED
    BY <2>2, <2>3, <2>4, <2>5, <2>6, <2>7 DEF Usages!TypeInv
<1>3. ParamsAreThere /\ Undisturbed /\ UndisturbedRunIsWell
  BY <1>1 DEF Usages!Init, Usages!NoBox, Usages!BoxRuns, ParamsAreThere, Undisturbed,
              UndisturbedRunIsWell, Usages!UndisturbedRunIsWell, Usages!Active, Usages!Ends
<1>4. \A r \in Runs : ~Usages!Building(r) /\ ~Usages!Analysing(r)
  BY <1>1 DEF Usages!Init, Usages!NoBox, Usages!BoxRuns, Usages!Building, Usages!Analysing
<1>5. \A r \in Runs : BuilderInStep(r) /\ BoxInStep(r)
  BY <1>1 DEF Usages!Init, Usages!NoBox, Usages!BoxRuns, BuilderInStep, BoxInStep
<1>6. Orderly
  BY <1>1, <1>4, <1>5 DEF Orderly, Usages!Clash, Usages!Init
<1> QED
  BY <1>2, <1>3, <1>6 DEF UsageInv

\* Each step of a run, or of its container, is good.
LEMMA UsageStepKeeps == UsageInv /\ UsageStep => UsageInv'
<1> SUFFICES ASSUME UsageInv, NEW r \in Runs, Usages!Step(r), image' = image
             PROVE  UsageInv'
  BY DEF UsageStep, imageVars
<1>1. Usages!Watch
  BY DEF Usages!Step, Usages!HostStep, Usages!ContainerStep
<1>2. CASE Usages!Host(r) /\ crashes' = crashes
  <2>1. GoodStep(r)
    BY <1>1, <1>2, StartGood, ResetGood, WriteParamsGood, RunBoxGood, WaitGood, ReadListGood,
       CrawlGood, CrawlAnsweredGood, CrawlWriteGood, ReadCacheGood, TruncateGood,
       WriteCacheGood, LoadGood
    DEF Usages!Host
  <2> QED
    BY <1>1, <2>1, GoodStepKeeps
<1>3. CASE Usages!Container(r) /\ crashes' = crashes
  <2>1. GoodStep(r)
    BY <1>1, <1>3, BootGood, WorkGood, OpenOutputGood, WriteOutputGood, BoxFailsGood
    DEF Usages!Container
  <2> QED
    BY <1>1, <2>1, GoodStepKeeps
<1>4. CASE Usages!Crash(r)
  BY <1>1, <1>4, CrashGood, GoodStepKeeps
<1> QED
  BY <1>2, <1>3, <1>4 DEF Usages!Step, Usages!HostStep, Usages!ContainerStep

\* Each step of a preparation keeps its invariant.
LEMMA ImageStepKeeps == ImageInv /\ ImageStep => ImageInv'
<1> SUFFICES ASSUME ImageInv, NEW p \in Preps, Images!Prepare(p) PROVE ImageInv'
  BY DEF ImageStep
<1> QED
  BY PrepStartKeeps, RaiseKeeps, LookKeeps, RemoveKeeps, BaseKeeps, BuildKeeps, CommitKeeps
  DEF Images!Prepare

\* A step of the one leaves the other's variables alone, but for the image.
LEMMA UsagesUntouched == ASSUME UsageInv, UNCHANGED usageVars, Images!TypeInv' PROVE UsageInv'
<1>1. Usages!TypeInv'
  BY Assumed DEF UsageInv, usageVars, Usages!TypeInv, Images!TypeInv
<1>2. ParamsAreThere'
  BY DEF UsageInv, usageVars, ParamsAreThere, Usages!BoxRuns
<1>3. Orderly'
  BY DEF UsageInv, usageVars, Orderly, Usages!Clash, Usages!Building, Usages!Analysing,
         Usages!BoxRuns, Usages!Dir, BuilderInStep, BoxInStep, Usages!Whole, Usages!Torn
<1>4. Undisturbed' /\ UndisturbedRunIsWell'
  BY DEF UsageInv, usageVars, Undisturbed, UndisturbedRunIsWell,
         Usages!UndisturbedRunIsWell, Usages!Active, Usages!BoxRuns, Usages!Ends
<1> QED
  BY <1>1, <1>2, <1>3, <1>4 DEF UsageInv

\* The steps on the usages do not change the images.
LEMMA ImagesUntouched == ASSUME ImageInv, UNCHANGED imageVars PROVE ImageInv'
<1>1. Images!TypeInv'
  BY DEF ImageInv, imageVars, Images!TypeInv, Images!PrepEnds
<1>2. \A p \in Preps : PrepInStep(p)' /\ RemovedIsListed(p)' /\ DealtWith(p)'
  BY SMTT(30) DEF ImageInv, imageVars, PrepInStep, RemovedIsListed, DealtWith, InTodo, ToBuild, Taken
<1>3. MissingIsOwed'
  BY DEF ImageInv, imageVars, MissingIsOwed, Owing, ToBuild
<1> QED
  BY <1>1, <1>2, <1>3 DEF ImageInv

\* The two invariants together are inductive.
LEMMA Invariance == Spec => [](ImageInv /\ UsageInv)
<1>1. Init => ImageInv /\ UsageInv
  BY ImageInit, UsageInit
<1>2. ImageInv /\ UsageInv /\ [Next]_vars => (ImageInv /\ UsageInv)'
  <2> SUFFICES ASSUME ImageInv, UsageInv, [Next]_vars PROVE ImageInv' /\ UsageInv'
    OBVIOUS
  <2>1. CASE UsageStep
    BY <2>1, UsageStepKeeps, ImagesUntouched DEF UsageStep
  <2>2. CASE ImageStep
    <3>1. ImageInv'
      BY <2>2, ImageStepKeeps
    <3> QED
      BY <2>2, <3>1, UsagesUntouched DEF ImageStep, ImageInv
  <2>3. CASE UNCHANGED vars
    <3>1. UNCHANGED usageVars /\ UNCHANGED imageVars
      BY <2>3 DEF vars
    <3>2. ImageInv'
      BY <3>1, ImagesUntouched
    <3> QED
      BY <3>1, <3>2, UsagesUntouched DEF ImageInv
  <2> QED
    BY <2>1, <2>2, <2>3 DEF Next, Ended
<1> QED
  BY <1>1, <1>2, PTL DEF Spec

-----------------------------------------------------------------------------
(***************************************************************************)
(* The theorems.                                                           *)
(***************************************************************************)

\* Both parts keep their types, whoever crashes or raises.
THEOREM TypeCorrect == Spec => []TypeInv
<1>1. ImageInv /\ UsageInv => TypeInv
  BY DEF ImageInv, UsageInv, TypeInv
<1> QED
  BY <1>1, Invariance, PTL

\* No image gets lost between the two passes of the preparation, unless a
\* forced run is cut.
THEOREM ImagesAreNotLost == Spec => []MissingOnlyIfCut
BY Invariance, ImageConsequences, PTL

\* A preparation that ends normally has prepared every target.
THEOREM PreparedIsPrepared == Spec => []DoneIsPrepared
BY Invariance, ImageConsequences, PTL

\* However many runs there are, one that met no other finds every file as it
\* needs it, and loads the usages with their documents once.
THEOREM UndisturbedRunsAreWell == Spec => []UndisturbedRunIsWell
<1>1. UsageInv => UndisturbedRunIsWell
  BY DEF UsageInv
<1> QED
  BY <1>1, Invariance, PTL

=============================================================================
