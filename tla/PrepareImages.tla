---------------------------- MODULE PrepareImages ----------------------------
(***************************************************************************)
(* prepareOSSFuzzImage.py -t fuzzdrivergpt-env: a first pass over the      *)
(* targets skips those that have an image, or removes it with -f; a second *)
(* pass builds the images, each in a container of the base image that is   *)
(* then committed.  Every request to the docker daemon may raise, which    *)
(* ends the script where it is.  (The vanilla-ossfuzz type has the same    *)
(* two passes over other image names, without the check of the files.)     *)
(***************************************************************************)
EXTENDS Integers, Sequences

CONSTANTS
  Preps,       \* runs of the script
  Targets,     \* OSS-Fuzz projects
  Configured,  \* those with a cfg.yml and a fuzzdrivergpt_build.sh
  ArgLists     \* bound: the target lists the script is given

PrepareAssumption ==
  /\ Configured \subseteq Targets
  /\ ArgLists \subseteq Seq(Targets) \ {<< >>}

VARIABLES
  ppc,      \* [Preps -> ...] where the run is
  args,     \* [Preps -> ...] its targets
  force,    \* [Preps -> BOOLEAN] -f
  idx,      \* [Preps -> Nat] the place of its loop in args, or in todo
  img,      \* [Preps -> Nat] the image it found for the target
  todo,     \* [Preps -> ...] inlist_targets
  builder,  \* [Preps -> BOOLEAN] whether a container it built in exists
  image,    \* [Targets -> Nat] fuzzdrivergpt/<target>:env: its id, 0 for none
  untagged, \* [Targets -> SUBSET Nat] images that lost their name to newer ones
  lastId,   \* [Targets -> Nat] the last id that was given
  removed   \* history: [Preps -> SUBSET Targets] whose image it removed

\* [Targets -> SUBSET Nat] the images that containers were made of.  Changed by
\* other programs only.
VARIABLE users

PrepEnds == {"done", "raised"}

TypeInv ==
  /\ ppc \in [Preps -> {"idle", "look", "remove", "base", "build", "commit"} \cup PrepEnds]
  /\ args \in [Preps -> ArgLists]
  /\ force \in [Preps -> BOOLEAN]
  /\ idx \in [Preps -> Nat \ {0}]
  /\ img \in [Preps -> Nat]
  /\ todo \in [Preps -> Seq(Configured)]
  /\ builder \in [Preps -> BOOLEAN]
  /\ image \in [Targets -> Nat]
  /\ untagged \in [Targets -> SUBSET Nat]
  /\ lastId \in [Targets -> Nat]
  /\ removed \in [Preps -> SUBSET Targets]
  /\ \A t \in Targets : image[t] <= lastId[t]

\* Any of the targets that can have an image may have one.
Init ==
  /\ ppc = [p \in Preps |-> "idle"]
  /\ args \in [Preps -> ArgLists]
  /\ force \in [Preps -> BOOLEAN]
  /\ idx = [p \in Preps |-> 1]
  /\ img = [p \in Preps |-> 0]
  /\ todo = [p \in Preps |-> << >>]
  /\ builder = [p \in Preps |-> FALSE]
  /\ image \in [Targets -> {0, 1}] /\ \A t \in Targets \ Configured : image[t] = 0
  /\ untagged = [t \in Targets |-> {}]
  /\ lastId = image
  /\ removed = [p \in Preps |-> {}]

GoTo(p, place) == ppc' = [ppc EXCEPT ![p] = place]
TargetOf(p)    == IF ppc[p] \in {"build", "commit"} THEN todo[p][idx[p]] ELSE args[p][idx[p]]

\* The first pass goes on to the next target, or the second pass begins.
NextTarget(p, list) ==
  IF idx[p] < Len(args[p])
  THEN idx' = [idx EXCEPT ![p] = @ + 1] /\ GoTo(p, "look")
  ELSE idx' = [idx EXCEPT ![p] = 1] /\ GoTo(p, IF list = << >> THEN "done" ELSE "build")

-----------------------------------------------------------------------------
\* Mutant of Start: the files are not checked.
StartUnchecked(p) ==
  /\ ppc[p] = "idle"
  /\ GoTo(p, "look")
  /\ UNCHANGED <<args, force, idx, img, todo, builder, image, untagged, lastId, removed>>

\* The files of all targets are checked before anything is done.
Start(p) ==
  /\ ppc[p] = "idle"
  /\ GoTo(p, IF \A i \in 1..Len(args[p]) : args[p][i] \in Configured
             THEN "look" ELSE "raised")
  /\ UNCHANGED <<args, force, idx, img, todo, builder, image, untagged, lastId, removed>>

\* A request raises, or the first pass meets a target without a base image.
Raise(p) ==
  /\ ppc[p] \notin {"idle"} \cup PrepEnds
  /\ GoTo(p, "raised")
  /\ UNCHANGED <<args, force, idx, img, todo, builder, image, untagged, lastId, removed>>

\* Mutant of Look: an image that is there is removed, forced or not.
LookAndRemove(p) ==
  /\ ppc[p] = "look"
  /\ img' = [img EXCEPT ![p] = image[TargetOf(p)]]
  /\ GoTo(p, IF img'[p] = 0 THEN "base" ELSE "remove")
  /\ UNCHANGED <<args, force, idx, todo, builder, image, untagged, lastId, removed>>

\* get_image: skip, remove, or go on to the base image.
Look(p) ==
  /\ ppc[p] = "look"
  /\ img' = [img EXCEPT ![p] = image[TargetOf(p)]]
  /\ IF img'[p] = 0 THEN GoTo(p, "base") /\ UNCHANGED idx
     ELSE IF force[p] THEN GoTo(p, "remove") /\ UNCHANGED idx
     ELSE NextTarget(p, todo[p])
  /\ UNCHANGED <<args, force, todo, builder, image, untagged, lastId, removed>>

\* client.images.remove(img.id) raises if the image is gone, or a container,
\* running or not, was made of it.
Exists(t, id) == id = image[t] \/ id \in untagged[t]

Remove(p) ==
  LET t == TargetOf(p)
  IN  /\ ppc[p] = "remove"
      /\ Exists(t, img[p]) /\ img[p] \notin users[t]
      /\ image' = [image EXCEPT ![t] = IF @ = img[p] THEN 0 ELSE @]
      /\ untagged' = [untagged EXCEPT ![t] = @ \ {img[p]}]
      /\ removed' = [removed EXCEPT ![p] = @ \cup {t}]
      /\ GoTo(p, "base")
      /\ UNCHANGED <<args, force, idx, img, todo, builder, lastId>>

\* Mutant of Base: a target whose image was removed is not built.
BaseOfMissing(p) ==
  /\ ppc[p] = "base"
  /\ todo' = [todo EXCEPT ![p] = IF img[p] = 0 THEN Append(@, TargetOf(p)) ELSE @]
  /\ NextTarget(p, todo'[p])
  /\ UNCHANGED <<args, force, img, builder, image, untagged, lastId, removed>>

\* The base image is there (if not: Raise).
Base(p) ==
  /\ ppc[p] = "base"
  /\ todo' = [todo EXCEPT ![p] = Append(@, TargetOf(p))]
  /\ NextTarget(p, todo'[p])
  /\ UNCHANGED <<args, force, img, builder, image, untagged, lastId, removed>>

\* build_image runs the container of the base image and waits for it; a run
\* that raises from here on, for the script in it failed or a request did,
\* leaves the container.
Build(p) ==
  /\ ppc[p] = "build"
  /\ builder' = [builder EXCEPT ![p] = TRUE]
  /\ GoTo(p, "commit")
  /\ UNCHANGED <<args, force, idx, img, todo, image, untagged, lastId, removed>>

\* commit gives the name to the new image; the container is removed, unless
\* that raises; then the next target.
Commit(p) ==
  LET t == TargetOf(p)
  IN  /\ ppc[p] = "commit"
      /\ lastId' = [lastId EXCEPT ![t] = @ + 1]
      /\ image' = [image EXCEPT ![t] = lastId'[t]]
      /\ untagged' = [untagged EXCEPT ![t] = IF image[t] = 0 THEN @ ELSE @ \cup {image[t]}]
      /\ \/ /\ builder' = [builder EXCEPT ![p] = FALSE]
            /\ IF idx[p] < Len(todo[p])
               THEN idx' = [idx EXCEPT ![p] = @ + 1] /\ GoTo(p, "build")
               ELSE GoTo(p, "done") /\ UNCHANGED idx
         \/ GoTo(p, "raised") /\ UNCHANGED <<builder, idx>>
      /\ UNCHANGED <<args, force, img, todo, removed>>

-----------------------------------------------------------------------------
Prepare(p) ==
  Start(p) \/ Raise(p) \/ Look(p) \/ Remove(p) \/ Base(p) \/ Build(p) \/ Commit(p)

-----------------------------------------------------------------------------
(***************************************************************************)
(* Properties.                                                             *)
(***************************************************************************)
\* A run that has removed the image of t, and has neither rebuilt it nor given
\* the attempt up.
Owes(p, t) ==
  /\ t \in removed[p]
  /\ \/ ppc[p] \in {"look", "remove", "base"}
     \/ ppc[p] \in {"build", "commit"} /\ \E i \in idx[p]..Len(todo[p]) : todo[p][i] = t

\* An image is missing (that was there, or that a run reported as prepared)
\* only while a forced run is going to rebuild it, or after such a run was
\* ended by an error: no image gets lost between the two passes otherwise.
MissingOnlyIfCut ==
  \A t \in Targets :
    image[t] = 0 /\ lastId[t] > 0 =>
      \E p \in Preps : force[p] /\ (Owes(p, t) \/ (t \in removed[p] /\ ppc[p] = "raised"))

\* A run that ends normally leaves every one of its targets with an image,
\* unless another one took it away, and none of its containers.
DoneIsPrepared ==
  \A p \in Preps : ppc[p] = "done" =>
    /\ ~builder[p]
    /\ \A i \in 1..Len(args[p]) :
         image[args[p][i]] # 0 \/ \E o \in Preps \ {p} : args[p][i] \in removed[o]
=============================================================================
