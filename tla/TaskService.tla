----------------------------- MODULE TaskService -----------------------------
(***************************************************************************)
(* What the validation server promises its clients: a task that is         *)
(* accepted is handled once or lost, the latter only together with all     *)
(* others that are waiting; and only for a task that was handled a client  *)
(* comes to a result, once.                                                *)
(***************************************************************************)
CONSTANT Tasks

VARIABLES
  stage,  \* [Tasks -> {"new", "waiting", "handled", "lost"}]
  got     \* tasks whose clients have loaded a result

vars == <<stage, got>>

Init == stage = [t \in Tasks |-> "new"] /\ got = {}

MoveTo(t, from, to) == stage[t] = from /\ stage' = [stage EXCEPT ![t] = to]

Accept(t) == MoveTo(t, "new", "waiting") /\ UNCHANGED got
Handle(t) == MoveTo(t, "waiting", "handled") /\ UNCHANGED got

Get(t) ==
  /\ stage[t] = "handled" /\ t \notin got
  /\ got' = got \cup {t}
  /\ UNCHANGED stage

LoseAll ==
  /\ stage' = [t \in Tasks |-> IF stage[t] = "waiting" THEN "lost" ELSE stage[t]]
  /\ UNCHANGED got

Next == LoseAll \/ \E t \in Tasks : Accept(t) \/ Handle(t) \/ Get(t)

Spec == Init /\ [][Next]_vars
==============================================================================
