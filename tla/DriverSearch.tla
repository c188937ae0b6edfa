---------------------------- MODULE DriverSearch ----------------------------
(***************************************************************************)
(* What the search for a driver promises its user: within the budget of    *)
(* rounds and questions, the first valid driver that is found is kept in   *)
(* the file of its round, reported, and ends the search; the report says   *)
(* nothing else.  The search may break, but never with a valid driver that *)
(* was found.                                                              *)
(***************************************************************************)
EXTENDS Integers, Sequences

CONSTANTS
  MaxAsked,   \* questions in a round
  MaxRounds   \* rounds

VARIABLES
  stage,   \* "searching", "stopped" or "broken"
  rounds,  \* rounds begun
  asked,   \* questions asked in this round
  good,    \* the questions of this round whose answer is a valid driver
  kept,    \* of each finished round: the valid drivers in its file
  report   \* what was reported, as <<round, question>>

vars == <<stage, rounds, asked, good, kept, report>>

Init ==
  /\ stage = "searching"
  /\ rounds = 0 /\ asked = 0
  /\ good = {} /\ kept = << >> /\ report = {}

\* The round is under way: its file is not written yet.
InRound == stage = "searching" /\ Len(kept) < rounds

\* No round so far had a valid driver.
NothingKept == \A r \in 1..Len(kept) : kept[r] = {}

Begin ==
  /\ stage = "searching" /\ Len(kept) = rounds /\ NothingKept
  /\ rounds < MaxRounds
  /\ rounds' = rounds + 1
  /\ asked' = 0 /\ good' = {}
  /\ UNCHANGED <<stage, kept, report>>

Ask ==
  /\ InRound /\ good = {}
  /\ asked < MaxAsked
  /\ asked' = asked + 1
  /\ UNCHANGED <<stage, rounds, good, kept, report>>

\* The answer to the last question is a valid driver.
Find ==
  /\ InRound /\ good = {}
  /\ asked > 0
  /\ good' = {asked}
  /\ UNCHANGED <<stage, rounds, asked, kept, report>>

Keep ==
  /\ InRound
  /\ kept' = Append(kept, good)
  /\ UNCHANGED <<stage, rounds, asked, good, report>>

Stop ==
  /\ stage = "searching" /\ Len(kept) = rounds /\ rounds > 0
  /\ good # {} \/ rounds = MaxRounds
  /\ report' = { <<rounds, i>> : i \in good }
  /\ stage' = "stopped"
  /\ UNCHANGED <<rounds, asked, good, kept>>

Break ==
  /\ stage = "searching" /\ good = {}
  /\ stage' = "broken"
  /\ UNCHANGED <<rounds, asked, good, kept, report>>

Next == Begin \/ Ask \/ Find \/ Keep \/ Stop \/ Break

Spec == Init /\ [][Next]_vars
=============================================================================
