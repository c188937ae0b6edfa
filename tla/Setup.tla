-------------------------------- MODULE Setup --------------------------------
(***************************************************************************)
(* What has to be there before a search: the docker image of the target    *)
(* (PrepareImages) and its API usages (APIUsageCache).  The two meet in    *)
(* the image: an analysis needs it, and removing it fails while a          *)
(* container that was made of it exists, a stopped one too.                *)
(***************************************************************************)
EXTENDS Integers, Sequences

CONSTANTS Runs, Program, MaxCrashes, Preps, Targets, Configured, ArgLists,
          SearchTarget  \* the target the runs are about

VARIABLES pc, mode, box, docs, params, result, sg, cache, crashes, met, spoiled
VARIABLES ppc, args, force, idx, img, todo, builder, image, untagged, lastId, removed

usageVars == <<pc, mode, box, docs, params, result, sg, cache, crashes, met, spoiled>>
imageVars == <<ppc, args, force, idx, img, todo, builder, image, untagged, lastId, removed>>
vars      == <<usageVars, imageVars>>

Usages == INSTANCE APIUsageCache WITH env <- image[SearchTarget]
Images == INSTANCE PrepareImages WITH
            users <- [t \in Targets |->
                       IF t = SearchTarget
                       THEN { box[r].image : r \in { q \in Runs : box[q].state # "none" } }
                       ELSE {}]

ASSUME SetupAssumption ==
  SearchTarget \in Targets /\ Usages!CacheAssumption /\ Images!PrepareAssumption

Init == Images!Init /\ Usages!Init

UsageStep == (\E r \in Runs : Usages!Step(r)) /\ UNCHANGED imageVars
ImageStep == (\E p \in Preps : Images!Prepare(p)) /\ UNCHANGED usageVars

\* All programs have ended, and their containers too.
Ended ==
  /\ \A r \in Runs : pc[r] \in Usages!Ends /\ ~Usages!BoxRuns(r)
  /\ \A p \in Preps : ppc[p] \in Images!PrepEnds
  /\ UNCHANGED vars

Next == UsageStep \/ ImageStep \/ Ended

Spec == Init /\ [][Next]_vars

-----------------------------------------------------------------------------
TypeInv == Usages!TypeInv /\ Images!TypeInv

UndisturbedRunIsWell == Usages!UndisturbedRunIsWell
MissingOnlyIfCut     == Images!MissingOnlyIfCut
DoneIsPrepared       == Images!DoneIsPrepared
==============================================================================
