----------------------- MODULE IterativeSearchProofs -----------------------
(***************************************************************************)
(* Theorems about IterativeSearch, for every bound, strategy and set of    *)
(* verdicts.                                                               *)
(***************************************************************************)
EXTENDS IterativeSearch, SequenceTheorems, TLAPS

(***************************************************************************)
(* The inductive invariant.  The type of the state is not inductive alone: *)
(* GenerateImproved reads queries[cur].history, so that cur must name a    *)
(* query whenever a driver is about to be improved.  And HistoryIsChain    *)
(* needs to know, when a query is appended, that the last one was answered *)
(* and found wanting.                                                      *)
(***************************************************************************)

\* While the search works on a query, it is the last of the round.
CurIsLast ==
  /\ pc \in {"query", "validate", "validating", "load", "judge"} =>
       queries # << >> /\ cur = Len(queries)
  /\ pc = "generate" /\ queries # << >> => cur = Len(queries)

\* What its result holds, by the place the search is at.
CurIsInStep ==
  /\ pc = "query" => queries[cur].verdict = "none"
  /\ pc \in {"validate", "validating", "load"} =>
       queries[cur].status = "finished" /\ queries[cur].verdict = "none"
  /\ pc = "load" => output.of = cur
  /\ pc = "judge" => queries[cur].status = "finished"
  /\ pc = "generate" /\ queries # << >> =>
       queries[cur].status = "finished" /\ queries[cur].verdict \notin {"none", NoVerdict, "VAL"}

IndInv ==
  TypeInv /\ CurIsLast /\ CurIsInStep /\ HistoryIsChain /\ AcceptAreLeaves /\ JudgedAsValidated

-----------------------------------------------------------------------------

\* A query that was just made is a query.
LEMMA NewQueryType ==
  ASSUME NEW kind \in Kinds, NEW history \in Seq(Nat)
  PROVE  NewQuery(kind, history) \in Query
BY DEF NewQuery, Query

\* What is acceptable is in no other query's improveHistory.
LEMMA AcceptableIsLeaf ==
  ASSUME TypeInv, HistoryIsChain
  PROVE  Acceptable \subseteq Leaves
<1> SUFFICES ASSUME NEW i \in Acceptable, i \in Improved
             PROVE  FALSE
  BY DEF Acceptable, Leaves
<1>1. PICK j \in Ids, n \in 1..Len(queries) :
        n <= Len(queries[j].history) /\ queries[j].history[n] = i
  BY DEF Improved
<1>2. j \in 1..Len(queries) /\ queries[j] \in Query
  BY DEF TypeInv, Ids
<1>3. queries[j].history = [m \in 1..(j - 1) |-> m]
  BY DEF HistoryIsChain
<1>4. queries[j].history \in Seq(Nat)
  BY <1>2 DEF Query
<1>5. Len(queries[j].history) = j - 1
  BY <1>2, <1>3, <1>4
<1>6. n \in 1..(j - 1) /\ i = n
  BY <1>1, <1>2, <1>3, <1>5
<1>7. queries[i].verdict # "VAL"
  BY <1>6 DEF HistoryIsChain
<1> QED
  BY <1>7 DEF Acceptable, IsAcceptable

-----------------------------------------------------------------------------
\* The search begins in the invariant.
LEMMA InitIndInv == Init => IndInv
BY DEF Init, IndInv, TypeInv, CurIsLast, CurIsInStep, HistoryIsChain,
       AcceptAreLeaves, JudgedAsValidated, NoOutput, Ids, Locations

\* What an append of a query that was made from the last one preserves.
LEMMA AppendKeepsChain ==
  ASSUME TypeInv, HistoryIsChain,
         NEW kind \in Kinds,
         queries # << >>,
         queries[Len(queries)].status = "finished",
         queries[Len(queries)].verdict \notin {"none", NoVerdict, "VAL"},
         queries' = Append(queries,
                      NewQuery(kind, Append(queries[Len(queries)].history, Len(queries))))
  PROVE  queries' \in Seq(Query) /\ HistoryIsChain'
<1> DEFINE n == Len(queries)
           h == Append(queries[n].history, n)
<1>1. n \in Nat \ {0} /\ queries \in Seq(Query) /\ queries[n] \in Query
  BY DEF TypeInv
<1>2. queries[n].history \in Seq(Nat)
  BY <1>1 DEF Query
<1>3. queries[n].history = [m \in 1..(n - 1) |-> m]
  BY <1>1 DEF HistoryIsChain, Ids
<1>4. Len(queries[n].history) = n - 1
  BY <1>1, <1>2, <1>3
<1>5. h \in Seq(Nat) /\ h = [m \in 1..n |-> m]
  BY <1>1, <1>2, <1>3, <1>4
<1>6. NewQuery(kind, h) \in Query
  BY <1>5, NewQueryType
<1>7. queries' \in Seq(Query) /\ Len(queries') = n + 1
  BY <1>1, <1>6
<1>8. \A i \in 1..n : queries'[i] = queries[i]
  BY <1>1
<1>9. queries'[n + 1].history = h
  BY <1>1 DEF NewQuery
<1>10. ASSUME NEW i \in Ids'
       PROVE  /\ queries'[i].history = [m \in 1..(i - 1) |-> m]
              /\ \A j \in 1..(i - 1) : /\ queries'[j].status = "finished"
                                       /\ queries'[j].verdict \notin {"none", NoVerdict, "VAL"}
  <2>1. CASE i \in 1..n
    BY <2>1, <1>1, <1>8 DEF HistoryIsChain, Ids
  <2>2. CASE i = n + 1
    <3>1. queries'[i].history = [m \in 1..(i - 1) |-> m]
      BY <2>2, <1>1, <1>5, <1>9
    <3>2. ASSUME NEW j \in 1..n
          PROVE  queries'[j].status = "finished" /\ queries'[j].verdict \notin {"none", NoVerdict, "VAL"}
      <4>1. CASE j = n
        BY <4>1, <1>1, <1>8
      <4>2. CASE j \in 1..(n - 1)
        <5>1. n \in Ids
          BY <1>1 DEF Ids
        <5>2. queries[j].status = "finished" /\ queries[j].verdict \notin {"none", NoVerdict, "VAL"}
          BY <4>2, <5>1 DEF HistoryIsChain
        <5> QED
          BY <5>2, <1>8
      <4> QED
        BY <4>1, <4>2, <1>1
    <3> QED
      BY <3>1, <3>2, <2>2, <1>1
  <2> QED
    BY <2>1, <2>2, <1>1, <1>7 DEF Ids
<1> QED
  BY <1>7, <1>10 DEF HistoryIsChain

\* What a change of the last query's result preserves.
LEMMA UpdateKeepsChain ==
  ASSUME TypeInv, HistoryIsChain,
         queries # << >>,
         NEW q \in Query,
         q.history = queries[Len(queries)].history,
         queries' = [queries EXCEPT ![Len(queries)] = q]
  PROVE  queries' \in Seq(Query) /\ HistoryIsChain' /\ Len(queries') = Len(queries)
<1> DEFINE n == Len(queries)
<1>1. n \in Nat \ {0} /\ queries \in Seq(Query)
  BY DEF TypeInv
<1>2. queries' \in Seq(Query) /\ Len(queries') = n
  BY <1>1
<1>3. \A i \in 1..n : queries'[i].history = queries[i].history
  BY <1>1
<1>4. \A i \in 1..(n - 1) : queries'[i] = queries[i]
  BY <1>1
<1>5. ASSUME NEW i \in 1..n
      PROVE  /\ queries'[i].history = [m \in 1..(i - 1) |-> m]
             /\ \A j \in 1..(i - 1) : /\ queries'[j].status = "finished"
                                      /\ queries'[j].verdict \notin {"none", NoVerdict, "VAL"}
  BY <1>1, <1>3, <1>4 DEF HistoryIsChain, Ids
<1> QED
  BY <1>2, <1>5 DEF HistoryIsChain, Ids

\* What a run of the validation writes is about the current query.
LEMMA WrittenType ==
  ASSUME TypeInv
  PROVE  /\ \A w \in Written : w.of = cur
         /\ {NoOutput} \cup Written
              \subseteq [of : 0..Len(queries), is : VerdictTypes \cup {NoVerdict, "none"}]
<1>1. /\ cur \in 0..Len(queries) /\ 0 \in 0..Len(queries)
      /\ PossibleVerdicts \subseteq VerdictTypes \cup {NoVerdict}
  BY SearchAssumption DEF TypeInv
<1> QED
  BY <1>1 DEF Written, NoOutput

\* Every step keeps it, one case per action.
LEMMA StepIndInv == IndInv /\ [Next]_vars => IndInv'
<1> SUFFICES ASSUME IndInv, [Next]_vars
             PROVE  IndInv'
  OBVIOUS
<1>0. TypeInv /\ CurIsLast /\ CurIsInStep /\ HistoryIsChain /\ AcceptAreLeaves
      /\ JudgedAsValidated
  BY DEF IndInv
<1>1. CASE StartRound
  BY <1>0, <1>1 DEF StartRound, IndInv, TypeInv, CurIsLast, CurIsInStep,
     HistoryIsChain, AcceptAreLeaves, JudgedAsValidated, NoOutput, Ids, Locations
<1>2. CASE GenerateInitial
  <2>1. NewQuery("INITIAL", << >>) \in Query
    <3>1. << >> \in Seq(Nat)
      OBVIOUS
    <3> QED
      BY <3>1, NewQueryType DEF Kinds
  <2>2. CASE queries' = << NewQuery("INITIAL", << >>) >> /\ cur' = 1 /\ pc' = "query"
    <3>1. /\ Len(queries') = 1
          /\ queries'[1] = NewQuery("INITIAL", << >>)
          /\ queries' \in Seq(Query)
      BY <2>1, <2>2
    <3>2. TypeInv'
      BY <1>0, <1>2, <2>2, <3>1 DEF GenerateInitial, TypeInv, Ids, Locations
    <3>3. HistoryIsChain'
      BY <3>1 DEF HistoryIsChain, Ids, NewQuery
    <3>4. CurIsLast' /\ CurIsInStep'
      BY <2>2, <3>1 DEF CurIsLast, CurIsInStep, NewQuery
    <3>5. AcceptAreLeaves' /\ JudgedAsValidated'
      BY <1>0, <1>2, <2>2 DEF GenerateInitial, AcceptAreLeaves, JudgedAsValidated
    <3> QED
      BY <3>2, <3>3, <3>4, <3>5 DEF IndInv
  <2>3. CASE pc' = "summary" /\ UNCHANGED <<queries, cur>>
    BY <1>0, <1>2, <2>3 DEF GenerateInitial, IndInv, TypeInv, CurIsLast,
       CurIsInStep, HistoryIsChain, AcceptAreLeaves, JudgedAsValidated, Ids, Locations
  <2> QED
    BY <1>2, <2>2, <2>3 DEF GenerateInitial
<1>3. CASE GenerateImproved
  <2>1. /\ queries # << >> /\ cur = Len(queries) /\ cur \in Nat \ {0}
        /\ queries[cur].status = "finished"
        /\ queries[cur].verdict \notin {"none", NoVerdict, "VAL"}
    BY <1>0, <1>3 DEF GenerateImproved, TypeInv, CurIsLast, CurIsInStep
  <2>2. CASE pc' = "crashed" /\ UNCHANGED <<queries, cur, leaf>>
    BY <1>0, <1>3, <2>2 DEF GenerateImproved, IndInv, TypeInv, CurIsLast,
       CurIsInStep, HistoryIsChain, AcceptAreLeaves, JudgedAsValidated, Ids, Locations
  <2>3. CASE /\ \E kind \in ImproveKinds :
                  queries' = Append(queries,
                    NewQuery(kind, Append(queries[cur].history, cur)))
             /\ cur' = Len(queries) + 1
             /\ pc' = "query"
             /\ UNCHANGED leaf
    <3>1. PICK kind \in Kinds :
            queries' = Append(queries, NewQuery(kind, Append(queries[cur].history, cur)))
      BY <2>3 DEF ImproveKinds, Kinds
    <3>2. queries' \in Seq(Query) /\ HistoryIsChain'
      BY <1>0, <2>1, <3>1, AppendKeepsChain
    <3>3. /\ Len(queries') = cur'
          /\ queries'[cur'] = NewQuery(kind, Append(queries[cur].history, cur))
      BY <1>0, <2>1, <2>3, <3>1 DEF TypeInv
    <3>4. TypeInv'
      BY <1>0, <1>3, <2>1, <2>3, <3>2, <3>3 DEF GenerateImproved, TypeInv, Ids, Locations
    <3>5. CurIsLast' /\ CurIsInStep'
      BY <2>1, <2>3, <3>3 DEF CurIsLast, CurIsInStep, NewQuery
    <3>6. AcceptAreLeaves' /\ JudgedAsValidated'
      BY <1>0, <1>3, <2>3 DEF GenerateImproved, AcceptAreLeaves, JudgedAsValidated
    <3> QED
      BY <3>2, <3>4, <3>5, <3>6 DEF IndInv
  <2>4. CASE /\ leaf' = leaf \cup {cur}
             /\ cur' = 0
             /\ pc' = "summary"
             /\ UNCHANGED queries
    <3>1. UNCHANGED <<rounds, output, accept, saved, valid>> /\ iterations' = iterations + 1
      BY <1>3 DEF GenerateImproved
    <3>2. TypeInv'
      <4>1. cur \in Ids /\ leaf \subseteq Ids /\ Len(queries) \in Nat
        BY <1>0, <2>1 DEF TypeInv, Ids
      <4>2. leaf' \subseteq Ids' /\ cur' \in 0..Len(queries')
        BY <2>4, <4>1 DEF Ids
      <4>3. accept' \subseteq Ids'
        BY <1>0, <2>4, <3>1 DEF TypeInv, Ids
      <4> QED
        BY <1>0, <2>4, <3>1, <4>2, <4>3 DEF TypeInv, Locations
    <3>3. CurIsLast' /\ CurIsInStep'
      BY <2>4 DEF CurIsLast, CurIsInStep
    <3>4. HistoryIsChain'
      BY <1>0, <2>4 DEF HistoryIsChain, Ids
    <3>5. AcceptAreLeaves' /\ JudgedAsValidated'
      BY <1>0, <2>4, <3>1 DEF AcceptAreLeaves, JudgedAsValidated
    <3> QED
      BY <3>2, <3>3, <3>4, <3>5 DEF IndInv
  <2> QED
    BY <1>3, <2>2, <2>3, <2>4 DEF GenerateImproved
<1>4. CASE DoRemoteQuery
  <2>1. queries # << >> /\ cur = Len(queries) /\ queries[cur].verdict = "none"
    BY <1>0, <1>4 DEF DoRemoteQuery, CurIsLast, CurIsInStep
  <2>2. PICK q \in Query :
          /\ q.history = queries[cur].history
          /\ q.verdict = "none"
          /\ queries' = [queries EXCEPT ![cur] = q]
          /\ \/ q.status = "finished" /\ pc' \in {"summary", "validate"} /\ UNCHANGED cur
             \/ q.status = "error" /\ pc' = "summary" /\ cur' = 0
    <3>1. queries[cur] \in Query
      BY <1>0, <2>1 DEF TypeInv
    <3>2. CASE /\ \E s \in {"code"} \cup (IF FatalSolutions THEN {"fatal"} ELSE {}) :
                    queries' = [queries EXCEPT ![cur].status = "finished", ![cur].solution = s]
               /\ pc' = IF DisableValidation THEN "summary" ELSE "validate"
               /\ UNCHANGED cur
      <4>1. PICK s \in {"code", "fatal"} :
              queries' = [queries EXCEPT ![cur].status = "finished", ![cur].solution = s]
        BY <3>2
      <4> DEFINE q == [queries[cur] EXCEPT !.status = "finished", !.solution = s]
      <4>2. q \in Query /\ q.history = queries[cur].history /\ q.verdict = "none"
            /\ q.status = "finished"
        BY <2>1, <3>1 DEF Query
      <4>3. queries' = [queries EXCEPT ![cur] = q]
        BY <1>0, <2>1, <4>1 DEF TypeInv
      <4> QED
        BY <3>2, <4>2, <4>3
    <3>3. CASE /\ queries' = [queries EXCEPT ![cur].status = "error"]
               /\ cur' = 0
               /\ pc' = "summary"
      <4> DEFINE q == [queries[cur] EXCEPT !.status = "error"]
      <4>1. q \in Query /\ q.history = queries[cur].history /\ q.verdict = "none"
            /\ q.status = "error"
        BY <2>1, <3>1 DEF Query
      <4> QED
        BY <3>3, <4>1
    <3> QED
      BY <1>4, <3>2, <3>3 DEF DoRemoteQuery
  <2>3. queries' \in Seq(Query) /\ HistoryIsChain' /\ Len(queries') = Len(queries)
    BY <1>0, <2>1, <2>2, UpdateKeepsChain
  <2>4. queries'[cur] = q /\ queries' # << >> /\ cur \in Nat
    BY <1>0, <2>1, <2>2, <2>3 DEF TypeInv
  <2>5. TypeInv'
    <3>1. UNCHANGED <<rounds, iterations, output, leaf, accept, saved, valid>>
      BY <1>4 DEF DoRemoteQuery
    <3>2. cur' \in 0..Len(queries)
      BY <1>0, <2>2 DEF TypeInv
    <3> QED
      BY <1>0, <2>2, <2>3, <3>1, <3>2 DEF TypeInv, Ids, Locations
  <2>6. CurIsLast' /\ CurIsInStep'
    BY <2>1, <2>2, <2>3, <2>4 DEF CurIsLast, CurIsInStep
  <2>7. AcceptAreLeaves' /\ JudgedAsValidated'
    BY <1>0, <1>4, <2>2 DEF DoRemoteQuery, AcceptAreLeaves, JudgedAsValidated
  <2> QED
    BY <2>3, <2>5, <2>6, <2>7 DEF IndInv
<1>5. CASE StartValidation
  BY <1>0, <1>5 DEF StartValidation, IndInv, TypeInv, CurIsLast, CurIsInStep,
     HistoryIsChain, AcceptAreLeaves, JudgedAsValidated, Ids, Locations
<1>6. CASE ValidationFails
  <2>1. output' \in {output, NoOutput} \cup Written
    BY <1>6 DEF ValidationFails
  <2>2. output' \in [of : 0..Len(queries), is : VerdictTypes \cup {NoVerdict, "none"}]
    BY <1>0, <2>1, WrittenType DEF TypeInv
  <2> QED
    BY <1>0, <1>6, <2>2 DEF ValidationFails, IndInv, TypeInv, CurIsLast, CurIsInStep,
       HistoryIsChain, AcceptAreLeaves, JudgedAsValidated, Ids, Locations
<1>7. CASE ValidationExits
  <2>1. /\ output' \in [of : 0..Len(queries), is : VerdictTypes \cup {NoVerdict, "none"}]
        /\ output'.of = cur
    BY <1>0, <1>7, WrittenType DEF ValidationExits
  <2> QED
    BY <1>0, <1>7, <2>1 DEF ValidationExits, IndInv, TypeInv, CurIsLast, CurIsInStep,
       HistoryIsChain, AcceptAreLeaves, JudgedAsValidated, Ids, Locations
<1>13. CASE Load
  <2>1. /\ queries # << >> /\ cur = Len(queries) /\ queries[cur].status = "finished"
        /\ output.of = cur /\ pc = "load" /\ cur \in Nat \ {0} /\ queries[cur] \in Query
    BY <1>0, <1>13 DEF Load, TypeInv, CurIsLast, CurIsInStep
  <2>2. /\ queries' = [queries EXCEPT ![cur].verdict = output.is] /\ pc' = "judge"
        /\ UNCHANGED <<rounds, iterations, cur, output, leaf, accept, saved, valid>>
    BY <1>13, <2>1 DEF Load
  <2> DEFINE q == [queries[cur] EXCEPT !.verdict = output.is]
  <2>3. output \in [of : 0..Len(queries), is : VerdictTypes \cup {NoVerdict, "none"}]
    BY <1>0 DEF TypeInv
  <2>5. q \in Query /\ q.history = queries[cur].history /\ q.status = "finished"
        /\ q.verdict = output.is
    BY <2>1, <2>3 DEF Query
  <2>6. queries' = [queries EXCEPT ![cur] = q]
    BY <2>2
  <2>7. queries' \in Seq(Query) /\ HistoryIsChain' /\ Len(queries') = Len(queries)
    BY <1>0, <2>1, <2>5, <2>6, UpdateKeepsChain
  <2>8. queries'[cur] = q /\ queries' # << >>
    BY <1>0, <2>1, <2>6, <2>7 DEF TypeInv
  <2>9. TypeInv'
    BY <1>0, <2>2, <2>7 DEF TypeInv, Ids, Locations
  <2> HIDE DEF q
  <2>10. CurIsLast' /\ CurIsInStep'
    BY <2>1, <2>2, <2>5, <2>7, <2>8 DEF CurIsLast, CurIsInStep
  <2>11. AcceptAreLeaves'
    BY <1>0, <2>2 DEF AcceptAreLeaves
  <2>12. JudgedAsValidated'
    BY <2>1, <2>2, <2>3, <2>5, <2>8 DEF JudgedAsValidated
  <2> QED
    BY <2>7, <2>9, <2>10, <2>11, <2>12 DEF IndInv
<1>8. CASE Judge
  <2>1. queries # << >> /\ cur = Len(queries) /\ queries[cur].status = "finished"
    BY <1>0, <1>8 DEF Judge, CurIsLast, CurIsInStep
  <2>2. CASE JudgingRaises(queries[cur])
    BY <1>0, <1>8, <2>2 DEF Judge, IndInv, TypeInv, CurIsLast, CurIsInStep,
       HistoryIsChain, AcceptAreLeaves, JudgedAsValidated, Ids, Locations
  <2>3. CASE ~JudgingRaises(queries[cur])
    <3>1. /\ accept' = Acceptable /\ leaf' = Leaves
          /\ pc' = IF Acceptable # {} \/ iterations >= MaxIterations
                   THEN "summary" ELSE "generate"
      BY <1>8, <2>3 DEF Judge
    <3>2. AcceptAreLeaves'
      BY <1>0, <3>1, AcceptableIsLeaf DEF AcceptAreLeaves
    <3>7. JudgedAsValidated'
      BY <3>1 DEF JudgedAsValidated
    <3>3. TypeInv'
      BY <1>0, <1>8, <3>1 DEF Judge, TypeInv, Acceptable, Leaves, Ids, Locations
    <3>4. ASSUME pc' = "generate"
          PROVE  queries[cur].verdict \notin {"none", NoVerdict, "VAL"}
      <4>1. Acceptable = {}
        BY <3>1, <3>4
      <4>2. cur \in Ids
        BY <1>0, <2>1 DEF TypeInv, Ids
      <4> QED
        BY <2>1, <2>3, <4>1, <4>2 DEF JudgingRaises, Acceptable, IsAcceptable
    <3>5. CurIsLast' /\ CurIsInStep'
      BY <1>8, <2>1, <3>1, <3>4 DEF Judge, CurIsLast, CurIsInStep
    <3>6. HistoryIsChain'
      BY <1>0, <1>8 DEF Judge, HistoryIsChain, Ids
    <3> QED
      BY <3>2, <3>3, <3>5, <3>6, <3>7 DEF IndInv
  <2> QED
    BY <2>2, <2>3
<1>9. CASE Save
  <2>1. [size |-> Len(queries), vals |-> Acceptable] \in [size : Nat, vals : SUBSET Nat]
    BY <1>0 DEF TypeInv, Acceptable, Ids
  <2> QED
    BY <1>0, <1>9, <2>1 DEF Save, IndInv, TypeInv, CurIsLast, CurIsInStep,
       HistoryIsChain, AcceptAreLeaves, JudgedAsValidated, Ids, Locations
<1>10. CASE Collect
  <2>1. CASE \E i \in Ids : JudgingRaises(queries[i])
    BY <1>0, <1>10, <2>1 DEF Collect, IndInv, TypeInv, CurIsLast, CurIsInStep,
       HistoryIsChain, AcceptAreLeaves, JudgedAsValidated, Ids, Locations
  <2>2. CASE ~ \E i \in Ids : JudgingRaises(queries[i])
    <3>1. /\ accept' = Acceptable /\ leaf' = Leaves
          /\ valid' = { <<rounds, i>> : i \in Acceptable }
          /\ pc' \in {"done", "round"}
          /\ UNCHANGED <<rounds, iterations, queries, cur, output, saved>>
      BY <1>10, <2>2 DEF Collect
    <3>2. AcceptAreLeaves'
      BY <1>0, <3>1, AcceptableIsLeaf DEF AcceptAreLeaves
    <3>3. TypeInv'
      BY <1>0, <3>1 DEF TypeInv, Acceptable, Leaves, Ids, Locations
    <3>4. CurIsLast' /\ CurIsInStep' /\ HistoryIsChain' /\ JudgedAsValidated'
      BY <1>0, <3>1 DEF CurIsLast, CurIsInStep, HistoryIsChain, JudgedAsValidated, Ids
    <3> QED
      BY <3>2, <3>3, <3>4 DEF IndInv
  <2> QED
    BY <2>1, <2>2
<1>11. CASE Ended
  BY <1>0, <1>11 DEF Ended, vars, IndInv, TypeInv, CurIsLast, CurIsInStep,
     HistoryIsChain, AcceptAreLeaves, JudgedAsValidated, Ids
<1>12. CASE UNCHANGED vars
  BY <1>0, <1>12 DEF vars, IndInv, TypeInv, CurIsLast, CurIsInStep,
     HistoryIsChain, AcceptAreLeaves, JudgedAsValidated, Ids
<1> QED
  BY <1>1, <1>2, <1>3, <1>4, <1>5, <1>6, <1>7, <1>8, <1>9, <1>10, <1>11, <1>12, <1>13
     DEF Next, Generate

\* The state of the search is well typed, whatever the model answers and the
\* validator finds.
THEOREM TypeCorrect == Spec => []TypeInv
<1>1. Spec => []IndInv
  BY InitIndInv, StepIndInv, PTL DEF Spec
<1> QED
  BY <1>1, PTL DEF IndInv

\* An improveHistory lists all the earlier queries of the round in order, and
\* only drivers that were found wanting are improved.
THEOREM HistoriesAreChains == Spec => []HistoryIsChain
<1>1. Spec => []IndInv
  BY InitIndInv, StepIndInv, PTL DEF Spec
<1> QED
  BY <1>1, PTL DEF IndInv

\* acceptQueryIDs is a subset of leafQueryIDs.
THEOREM AcceptedAreLeaves == Spec => []AcceptAreLeaves
<1>1. Spec => []IndInv
  BY InitIndInv, StepIndInv, PTL DEF Spec
<1> QED
  BY <1>1, PTL DEF IndInv

\* The verdict that is judged is what a validation of that very query came to.
THEOREM JudgedRight == Spec => []JudgedAsValidated
<1>1. Spec => []IndInv
  BY InitIndInv, StepIndInv, PTL DEF Spec
<1> QED
  BY <1>1, PTL DEF IndInv

-----------------------------------------------------------------------------
(***************************************************************************)
(* The budget.  A round that asks for one more query has not exceeded its  *)
(* iterations, because Judge sends it back only below the limit.           *)
(***************************************************************************)
BudgetInv ==
  /\ Len(queries) <= iterations
  /\ pc = "generate" => Len(queries) = iterations /\ (iterations < MaxIterations \/ iterations = 0)
  /\ iterations <= MaxIterations \/ iterations <= 1
  /\ pc = "round" => rounds < MaxRounds \/ rounds = 0
  /\ rounds <= MaxRounds \/ rounds <= 1
  /\ pc = "judge" => Len(queries) = iterations
  /\ pc \in {"query", "validate", "validating", "load"} => Len(queries) = iterations

\* Every step keeps the count of the queries within the round.
LEMMA StepBudgetInv == IndInv /\ BudgetInv /\ [Next]_vars => BudgetInv'
<1> SUFFICES ASSUME IndInv, BudgetInv, [Next]_vars
             PROVE  BudgetInv'
  OBVIOUS
<1>0. /\ MaxIterations \in Nat /\ MaxRounds \in Nat /\ rounds \in Nat /\ iterations \in Nat
      /\ queries \in Seq(Query) /\ Len(queries) \in Nat
      /\ DisableValidation => MaxIterations = 1 /\ MaxRounds = 1
  BY SearchAssumption DEF IndInv, TypeInv
<1>1. CASE StartRound
  BY <1>0, <1>1 DEF StartRound, BudgetInv
<1>2. CASE GenerateInitial
  <2>1. Len(queries) = 0 /\ Len(queries') <= 1 /\ (pc' = "query" => Len(queries') = 1)
        /\ Len(queries') \in Nat
    <3>1. Len(queries) = 0
      BY <1>2 DEF GenerateInitial
    <3>2. CASE queries' = << NewQuery("INITIAL", << >>) >>
      BY <3>1, <3>2
    <3>3. CASE UNCHANGED queries /\ pc' = "summary"
      BY <3>1, <3>3
    <3> QED
      BY <1>2, <3>2, <3>3 DEF GenerateInitial
  <2>2. pc = "generate" /\ pc' \in {"query", "summary"} /\ iterations' = iterations + 1
        /\ UNCHANGED rounds
    BY <1>2 DEF GenerateInitial
  <2> QED
    BY <1>0, <2>1, <2>2 DEF BudgetInv
<1>3. CASE GenerateImproved
  <2>1. \/ Len(queries') = Len(queries) + 1
        \/ queries' = queries /\ pc' \in {"crashed", "summary"}
    BY <1>0, <1>3 DEF GenerateImproved
  <2>2. pc = "generate" /\ pc' \in {"query", "summary", "crashed"} /\ iterations' = iterations + 1
        /\ UNCHANGED rounds
    BY <1>3 DEF GenerateImproved
  <2> QED
    BY <1>0, <2>1, <2>2 DEF BudgetInv
<1>4. CASE DoRemoteQuery
  <2>1. /\ pc = "query" /\ pc' \in {"summary", "validate"}
        /\ UNCHANGED <<rounds, iterations>>
    BY <1>4 DEF DoRemoteQuery
  <2>2. Len(queries') = Len(queries)
    BY <1>0, <1>4 DEF DoRemoteQuery
  <2> QED
    BY <1>0, <2>1, <2>2 DEF BudgetInv
<1>5. CASE StartValidation \/ ValidationFails \/ ValidationExits
  BY <1>0, <1>5 DEF StartValidation, ValidationFails, ValidationExits, BudgetInv
<1>6. CASE Load
  <2>1. Len(queries') = Len(queries)
    BY <1>0, <1>6 DEF Load
  <2>2. pc = "load" /\ pc' \in {"crashed", "judge"} /\ UNCHANGED <<rounds, iterations>>
    BY <1>6 DEF Load
  <2> QED
    BY <1>0, <2>1, <2>2 DEF BudgetInv
<1>7. CASE Judge
  <2>1. /\ pc = "judge" /\ UNCHANGED <<rounds, iterations, queries>>
        /\ \/ pc' \in {"crashed", "summary"}
           \/ pc' = "generate" /\ ~(iterations >= MaxIterations)
    BY <1>7 DEF Judge
  <2> QED
    BY <1>0, <2>1 DEF BudgetInv
<1>8. CASE Save
  BY <1>0, <1>8 DEF Save, BudgetInv
<1>9. CASE Collect
  <2>1. /\ pc = "collect" /\ UNCHANGED <<rounds, iterations, queries>>
        /\ \/ pc' \in {"crashed", "done"}
           \/ pc' = "round" /\ ~(rounds >= MaxRounds)
    BY <1>9 DEF Collect
  <2> QED
    BY <1>0, <2>1 DEF BudgetInv
<1>10. CASE UNCHANGED vars
  BY <1>10 DEF vars, BudgetInv
<1> QED
  BY <1>1, <1>2, <1>3, <1>4, <1>5, <1>6, <1>7, <1>8, <1>9, <1>10
     DEF Next, Generate, Ended

\* What follows from it: a round asks the model at most MaxIterations times
\* (once, if that is 0), the process makes at most MaxRounds rounds (one, if
\* that is 0).
BudgetKept ==
  /\ Len(queries) <= MaxIterations \/ Len(queries) <= 1
  /\ rounds <= MaxRounds \/ rounds <= 1

\* The model is asked at most MaxIterations times in each of MaxRounds rounds.
THEOREM BudgetIsKept == Spec => []BudgetKept
<1>1. Init => BudgetInv
  BY DEF Init, BudgetInv
<1>2. IndInv /\ BudgetInv => BudgetKept
  BY SearchAssumption DEF IndInv, TypeInv, BudgetInv, BudgetKept
<1> QED
  BY <1>1, <1>2, InitIndInv, StepIndInv, StepBudgetInv, PTL DEF Spec

-----------------------------------------------------------------------------
(***************************************************************************)
(* Why the search stops, as far as main.py goes: rounds, iterations and    *)
(* the place in an iteration only grow, and the first two are limited.     *)
(***************************************************************************)
Place ==
  [ loc \in Locations |->
      CASE loc = "query"      -> 1
        [] loc = "validate"   -> 2
        [] loc = "validating" -> 3
        [] loc = "load"       -> 4
        [] loc = "judge"      -> 5
        [] loc = "generate"   -> 6
        [] loc = "summary"    -> 7
        [] loc = "collect"    -> 8
        [] loc = "round"      -> 9
        [] loc \in {"done", "crashed"} -> 10 ]

Advances ==
  \/ rounds' > rounds
  \/ rounds' = rounds /\ iterations' > iterations
  \/ /\ rounds' = rounds /\ iterations' = iterations
     /\ Place[pc'] > Place[pc]

WithinLimits ==
  /\ rounds <= AtLeastOne(MaxRounds)
  /\ iterations <= AtLeastOne(MaxIterations)

\* Every step of main.py but the retry of a failed validation brings it forward
\* within its limits, so that nothing else can keep the search from its end.
\* The code has no other loop than the two it counts and that one.
THEOREM OnlyRetriesRepeat ==
  Spec => []WithinLimits /\ [][ValidationFails \/ Advances]_vars
<1>1. IndInv /\ BudgetInv => WithinLimits
  BY SearchAssumption DEF IndInv, TypeInv, BudgetInv, WithinLimits, AtLeastOne
<1>2. IndInv /\ IndInv' /\ [Next]_vars => [ValidationFails \/ Advances]_vars
  <2> SUFFICES ASSUME IndInv, IndInv', Next, ~ValidationFails, ~UNCHANGED vars
               PROVE  Advances
    OBVIOUS
  <2>1. rounds \in Nat /\ iterations \in Nat
    BY DEF IndInv, TypeInv
  <2>2. CASE StartRound
    BY <2>1, <2>2 DEF StartRound, Advances
  <2>3. CASE Generate
    BY <2>1, <2>3 DEF Generate, GenerateInitial, GenerateImproved, Advances
  <2>4. CASE DoRemoteQuery \/ StartValidation \/ ValidationExits \/ Load \/ Judge \/ Save \/ Collect
    <3>1. rounds' = rounds /\ iterations' = iterations
      BY <2>4 DEF DoRemoteQuery, StartValidation, ValidationExits, Load, Judge, Save, Collect
    <3>2. \/ pc = "query" /\ pc' \in {"validate", "summary"}
          \/ pc = "validate" /\ pc' = "validating"
          \/ pc = "validating" /\ pc' = "load"
          \/ pc = "load" /\ pc' \in {"judge", "crashed"}
          \/ pc = "judge" /\ pc' \in {"generate", "summary", "crashed"}
          \/ pc = "summary" /\ pc' = "collect"
          \/ pc = "collect" /\ pc' \in {"round", "done", "crashed"}
      BY <2>4 DEF DoRemoteQuery, StartValidation, ValidationExits, Load, Judge, Save, Collect
    <3>3. /\ Place["query"] = 1 /\ Place["validate"] = 2 /\ Place["validating"] = 3
          /\ Place["load"] = 4 /\ Place["judge"] = 5 /\ Place["generate"] = 6
          /\ Place["summary"] = 7 /\ Place["collect"] = 8 /\ Place["round"] = 9
          /\ Place["done"] = 10 /\ Place["crashed"] = 10
      BY DEF Place, Locations
    <3> HIDE DEF Place
    <3>4. Place[pc'] > Place[pc]
      BY <3>2, <3>3
    <3> QED
      BY <3>1, <3>4 DEF Advances
  <2> QED
    BY <2>2, <2>3, <2>4 DEF Next, Ended
<1>3. Init => BudgetInv
  BY DEF Init, BudgetInv
<1> QED
  BY <1>1, <1>2, <1>3, InitIndInv, StepIndInv, StepBudgetInv, PTL DEF Spec

-----------------------------------------------------------------------------
\* A step of a round replaces no verdict and loses no query.
LEMMA StepKeepsVerdicts ==
  IndInv /\ [Next]_vars /\ rounds' = rounds =>
    /\ Len(queries') >= Len(queries)
    /\ \A i \in Ids : queries[i].verdict # "none"
         => queries'[i].verdict = queries[i].verdict
<1> SUFFICES ASSUME IndInv, [Next]_vars, rounds' = rounds
             PROVE  /\ Len(queries') >= Len(queries)
                    /\ \A i \in Ids : queries[i].verdict # "none"
                         => queries'[i].verdict = queries[i].verdict
  OBVIOUS
<1>0. queries \in Seq(Query) /\ Len(queries) \in Nat /\ rounds \in Nat
  BY DEF IndInv, TypeInv
<1>1. CASE UNCHANGED queries
  BY <1>0, <1>1
<1>2. CASE StartRound
  BY <1>0, <1>2 DEF StartRound
<1>3. CASE GenerateInitial
  <2>1. Len(queries) = 0 /\ Len(queries') \in Nat
    BY <1>3, <1>0 DEF GenerateInitial
  <2> QED
    BY <2>1 DEF Ids
<1>4. CASE GenerateImproved
  <2>1. \/ UNCHANGED queries
        \/ \E q : queries' = Append(queries, q)
    BY <1>4 DEF GenerateImproved
  <2> QED
    BY <2>1, <1>0 DEF Ids
<1>5. CASE DoRemoteQuery
  <2>1. Len(queries') = Len(queries)
    BY <1>0, <1>5 DEF DoRemoteQuery
  <2>2. ASSUME NEW i \in Ids
        PROVE  queries'[i].verdict = queries[i].verdict
    <3>1. queries[i] \in Query /\ i \in DOMAIN queries
      BY <1>0 DEF Ids
    <3>2. CASE \E s : queries' = [queries EXCEPT ![cur].status = "finished", ![cur].solution = s]
      BY <3>1, <3>2 DEF Query
    <3>3. CASE queries' = [queries EXCEPT ![cur].status = "error"]
      BY <3>1, <3>3 DEF Query
    <3> QED
      BY <1>5, <3>2, <3>3 DEF DoRemoteQuery
  <2> QED
    BY <1>0, <2>1, <2>2
<1>6. CASE Load /\ output.of # 0
  <2>1. queries[cur].verdict = "none" /\ output.of = cur
    BY <1>6 DEF Load, IndInv, CurIsInStep
  <2>2. PICK v : queries' = [queries EXCEPT ![cur].verdict = v]
    BY <1>6, <2>1 DEF Load
  <2>3. Len(queries') = Len(queries) /\ \A i \in Ids : i # cur => queries'[i] = queries[i]
    BY <1>0, <2>2 DEF Ids
  <2> QED
    BY <1>0, <2>1, <2>3
<1> QED
  BY <1>1, <1>2, <1>3, <1>4, <1>5, <1>6
     DEF Next, Generate, StartValidation, ValidationFails, ValidationExits, Load, Judge, Save,
         Collect, Ended, vars

\* No verdict is ever replaced, and no query of a round is ever lost.
THEOREM VerdictsStay == Spec => VerdictsAreFinal
<1>1. IndInv /\ [Next]_vars =>
        [ rounds' = rounds =>
            /\ Len(queries') >= Len(queries)
            /\ \A i \in Ids : queries[i].verdict # "none"
                 => queries'[i].verdict = queries[i].verdict ]_vars
  BY StepKeepsVerdicts
<1> QED
  BY <1>1, InitIndInv, StepIndInv, PTL DEF Spec, VerdictsAreFinal

-----------------------------------------------------------------------------
(***************************************************************************)
(* What is dumped and what is reported.  Only the json of the last round   *)
(* may hold a valid driver, since a round that has one ends the search.    *)
(***************************************************************************)
InRound == {"generate", "query", "validate", "validating", "load", "judge", "summary"}

SavedInv ==
  /\ pc # "round" => rounds >= 1
  /\ pc \in InRound => Len(saved) = rounds - 1
  /\ pc \in {"round", "collect", "done"} => Len(saved) = rounds
  /\ pc \in {"collect", "done"} => saved[rounds].vals = Acceptable
  /\ valid = IF pc = "done" THEN { <<rounds, i>> : i \in Acceptable } ELSE {}
  /\ \A r \in 1..Len(saved) :
       saved[r].vals # {} => r = Len(saved) /\ pc \in {"collect", "done", "crashed"}

\* Every step keeps the files of the earlier rounds and what they hold.
LEMMA StepSavedInv == IndInv /\ SavedInv /\ [Next]_vars => SavedInv'
<1> SUFFICES ASSUME IndInv, SavedInv, [Next]_vars
             PROVE  SavedInv'
  OBVIOUS
<1>0. /\ saved \in Seq([size : Nat, vals : SUBSET Nat]) /\ Len(saved) \in Nat
      /\ rounds \in Nat /\ MaxRounds \in Nat
      /\ DisableValidation => MaxRounds = 1
  BY SearchAssumption DEF IndInv, TypeInv
<1>1. CASE StartRound
  BY <1>0, <1>1 DEF StartRound, SavedInv, InRound
<1>2. CASE /\ GenerateInitial \/ GenerateImproved \/ DoRemoteQuery \/ StartValidation
              \/ ValidationFails \/ ValidationExits \/ Load \/ Judge
  <2>1. /\ pc \in InRound /\ pc' \in InRound \cup {"crashed"}
        /\ UNCHANGED <<rounds, saved, valid>>
    BY <1>2 DEF GenerateInitial, GenerateImproved, DoRemoteQuery, StartValidation,
       ValidationFails, ValidationExits, Load, Judge, InRound
  <2> QED
    BY <1>0, <2>1 DEF SavedInv, InRound
<1>3. CASE Save
  <2> DEFINE e == [size |-> Len(queries), vals |-> Acceptable]
  <2>1. /\ pc = "summary" /\ pc' = "collect" /\ saved' = Append(saved, e)
        /\ UNCHANGED <<rounds, queries, valid>>
    BY <1>3 DEF Save
  <2>2. Len(saved) = rounds - 1 /\ rounds >= 1 /\ valid = {}
    BY <2>1 DEF SavedInv, InRound
  <2>3. Len(saved') = rounds /\ saved'[rounds] = e
        /\ \A r \in 1..(rounds - 1) : saved'[r] = saved[r]
    BY <1>0, <2>1, <2>2
  <2>4. Acceptable' = Acceptable
    BY <2>1 DEF Acceptable, Ids
  <2>5. \A r \in 1..(rounds - 1) : saved[r].vals = {}
    BY <2>1, <2>2 DEF SavedInv
  <2>6. saved'[rounds].vals = Acceptable'
    BY <2>3, <2>4
  <2>7. \A r \in 1..Len(saved') : saved'[r].vals # {} => r = Len(saved')
    BY <1>0, <2>3, <2>5
  <2> QED
    BY <1>0, <2>1, <2>2, <2>3, <2>6, <2>7 DEF SavedInv, InRound
<1>4. CASE Collect
  <2>0. /\ pc = "collect" /\ UNCHANGED <<rounds, queries, saved>>
        /\ Len(saved) = rounds /\ rounds >= 1 /\ saved[rounds].vals = Acceptable
        /\ valid = {}
        /\ \A r \in 1..Len(saved) : saved[r].vals # {} => r = Len(saved)
    BY <1>4 DEF Collect, SavedInv
  <2>1. Acceptable' = Acceptable
    BY <2>0 DEF Acceptable, Ids
  <2>2. CASE pc' = "crashed" /\ UNCHANGED valid
    BY <1>0, <2>0, <2>2 DEF SavedInv, InRound
  <2>3. CASE pc' = "done" /\ valid' = { <<rounds, i>> : i \in Acceptable }
    BY <1>0, <2>0, <2>1, <2>3 DEF SavedInv, InRound
  <2>4. CASE pc' = "round" /\ valid' = {} /\ Acceptable = {}
    BY <1>0, <2>0, <2>1, <2>4 DEF SavedInv, InRound
  <2>5. \/ pc' = "crashed" /\ UNCHANGED valid
        \/ pc' = "done" /\ valid' = { <<rounds, i>> : i \in Acceptable }
        \/ pc' = "round" /\ valid' = {} /\ Acceptable = {}
    BY <1>0, <1>4, <2>0 DEF Collect
  <2> QED
    BY <2>2, <2>3, <2>4, <2>5
<1>5. CASE UNCHANGED vars
  BY <1>5 DEF vars, SavedInv, Acceptable, Ids
<1> QED
  BY <1>1, <1>2, <1>3, <1>4, <1>5 DEF Next, Generate, Ended

\* No file to begin with.
LEMMA InitSavedInv == Init => SavedInv
BY DEF Init, SavedInv, InRound

\* What main reports as a valid driver is in a file that was dumped, as a query
\* with verdict VAL, and nothing else is reported.
ReportedIsSaved ==
  \A loc \in valid : loc[1] \in 1..Len(saved) /\ loc[2] \in saved[loc[1]].vals

\* A driver that main reports is in a file that was dumped, with verdict VAL.
THEOREM ReportIsSaved == Spec => []ReportedIsSaved
<1>1. IndInv /\ SavedInv => ReportedIsSaved
  BY DEF IndInv, TypeInv, SavedInv, ReportedIsSaved
<1> QED
  BY <1>1, InitIndInv, StepIndInv, InitSavedInv, StepSavedInv, PTL DEF Spec

\* main exits normally only with every valid driver of the last round
\* reported, and goes on to another round only if no round had one.
NoValidDriverIgnored ==
  pc \in {"done", "round", "generate"} =>
    \A r \in 1..Len(saved) :
      \A i \in saved[r].vals : pc = "done" /\ r = rounds /\ <<r, i>> \in valid

\* No valid driver is left out of the report, or buried by another round.
THEOREM NoneIgnored == Spec => []NoValidDriverIgnored
<1>1. IndInv /\ SavedInv => NoValidDriverIgnored
  <2> SUFFICES ASSUME IndInv, SavedInv, pc \in {"done", "round", "generate"},
                      NEW r \in 1..Len(saved), NEW i \in saved[r].vals
               PROVE  pc = "done" /\ r = rounds /\ <<r, i>> \in valid
    BY DEF NoValidDriverIgnored
  <2>1. r = Len(saved) /\ pc = "done"
    BY DEF SavedInv
  <2>2. r = rounds /\ i \in Acceptable
    BY <2>1 DEF SavedInv
  <2> QED
    BY <2>1, <2>2 DEF SavedInv
<1> QED
  BY <1>1, InitIndInv, StepIndInv, InitSavedInv, StepSavedInv, PTL DEF Spec

-----------------------------------------------------------------------------
(***************************************************************************)
(* The search implements DriverSearch.                                     *)
(***************************************************************************)
SearchInv == IndInv /\ BudgetInv /\ SavedInv

\* The invariants hold together.
LEMMA SearchInvariance == Spec => []SearchInv
<1>1. Init => BudgetInv
  BY DEF Init, BudgetInv
<1> QED
  BY <1>1, InitIndInv, StepIndInv, StepBudgetInv, InitSavedInv, StepSavedInv, PTL
     DEF Spec, SearchInv

\* Only the last query of a round can be acceptable, or make the judgement raise.
LEMMA OnlyLast ==
  ASSUME IndInv, NEW i \in Ids, IsAcceptable(queries[i]) \/ JudgingRaises(queries[i])
  PROVE  i = Len(queries) /\ Len(queries) > 0
<1>1. Len(queries) \in Nat /\ i \in 1..Len(queries)
  BY DEF IndInv, TypeInv, Ids
<1>2. CASE i < Len(queries)
  <2>1. Len(queries) \in Ids /\ i \in 1..(Len(queries) - 1)
    BY <1>1, <1>2 DEF Ids
  <2>2. queries[i].verdict \notin {"none", NoVerdict, "VAL"}
    BY <2>1 DEF IndInv, HistoryIsChain
  <2> QED
    BY <2>2 DEF IsAcceptable, JudgingRaises
<1> QED
  BY <1>1, <1>2

\* When the last query is not acceptable none is.
LEMMA NoneGood ==
  ASSUME IndInv, queries # << >> => ~IsAcceptable(queries[Len(queries)])
  PROVE  Acceptable = {}
<1> SUFFICES ASSUME NEW i \in Acceptable PROVE FALSE
  OBVIOUS
<1>1. i \in Ids /\ IsAcceptable(queries[i])
  BY DEF Acceptable
<1>2. i = Len(queries) /\ Len(queries) > 0
  BY <1>1, OnlyLast
<1> QED
  BY <1>1, <1>2

\* A search that is judged to break has found nothing.
LEMMA NoneGoodIfRaised ==
  ASSUME IndInv, NEW i \in Ids, JudgingRaises(queries[i])
  PROVE  Acceptable = {}
<1>1. i = Len(queries)
  BY OnlyLast
<1>2. ~IsAcceptable(queries[i])
  BY DEF IsAcceptable, JudgingRaises, NoVerdict
<1> QED
  BY <1>1, <1>2, NoneGood

\* The files, as DriverSearch sees them.
SavedVals == [r \in 1..Len(saved) |-> saved[r].vals]

\* The first state is the first one of DriverSearch.
LEMMA InitRefines == Init => Search!Init
<1> SUFFICES ASSUME Init PROVE Search!Init
  OBVIOUS
<1>1. Len(queries) = 0 /\ Len(saved) = 0 /\ Acceptable = {} /\ pc = "round"
  BY DEF Init, Acceptable, Ids
<1>2. [r \in 1..Len(saved) |-> saved[r].vals] = << >>
  BY <1>1
<1> QED
  BY <1>1, <1>2 DEF Init, Search!Init

\* What the files hold is a sequence as long as they are.
LEMMA SavedValsLen ==
  ASSUME IndInv
  PROVE  SavedVals \in Seq(SUBSET Nat) /\ Len(SavedVals) = Len(saved)
<1>1. saved \in Seq([size : Nat, vals : SUBSET Nat]) /\ Len(saved) \in Nat
  BY DEF IndInv, TypeInv
<1>2. \A r \in 1..Len(saved) : saved[r] \in [size : Nat, vals : SUBSET Nat]
  BY <1>1, ElementOfSeq
<1>3. \A r \in 1..Len(saved) : saved[r].vals \in SUBSET Nat
  BY <1>2
<1> QED
  BY <1>1, <1>3 DEF SavedVals

\* A step within the round that leaves the number of its queries, what is
\* acceptable of them, the files and the report is a stutter.
LEMMA QuietStep ==
  ASSUME pc \notin {"done", "crashed"}, pc' \notin {"done", "crashed"},
         UNCHANGED <<rounds, saved, valid>>, Len(queries') = Len(queries),
         Acceptable' = Acceptable
  PROVE  UNCHANGED Search!vars
BY DEF Search!vars

\* A search that raises breaks, as nothing was found.
LEMMA RaiseBreaks ==
  ASSUME pc \notin {"done", "crashed"}, pc' = "crashed", Acceptable = {},
         UNCHANGED <<rounds, queries, saved, valid>>
  PROVE  Search!Break
<1>1. Acceptable' = Acceptable
  BY DEF Acceptable, Ids
<1> QED
  BY <1>1 DEF Search!Break

\* The round is under way when it is for DriverSearch.
LEMMA RoundUnderWay ==
  ASSUME SearchInv, pc \in InRound
  PROVE  Search!InRound
<1>1. Len(saved) = rounds - 1 /\ rounds \in Nat /\ Len(saved) \in Nat
  BY DEF SearchInv, IndInv, TypeInv, SavedInv
<1>2. Len(SavedVals) < rounds
  BY <1>1, SavedValsLen DEF SearchInv
<1> QED
  BY <1>2 DEF Search!InRound, SavedVals, InRound

\* A new query is a question within the budget.
LEMMA GenerateRefines ==
  ASSUME SearchInv, SearchInv', Generate
  PROVE  [Search!Next]_(Search!vars)
<1>0. /\ pc = "generate" /\ UNCHANGED <<rounds, saved, valid>>
      /\ queries \in Seq(Query) /\ Len(queries) \in Nat /\ MaxIterations \in Nat
      /\ Len(queries) < MaxIterations \/ Len(queries) = 0
  BY SearchAssumption
     DEF Generate, GenerateInitial, GenerateImproved, SearchInv, IndInv, TypeInv, BudgetInv
<1>1. queries # << >> => ~IsAcceptable(queries[Len(queries)])
  BY <1>0 DEF SearchInv, IndInv, CurIsLast, CurIsInStep, IsAcceptable
<1>2. Acceptable = {}
  BY <1>1, NoneGood DEF SearchInv
<1>3. ASSUME NEW q, q.verdict = "none", queries' = Append(queries, q), pc' = "query"
      PROVE  Search!Ask
  <2>1. Len(queries') = Len(queries) + 1 /\ queries'[Len(queries) + 1] = q
    BY <1>0, <1>3
  <2>2. Len(queries)' = Len(queries) + 1
    BY <2>1
  <2>4. Acceptable' = {}
    <3> SUFFICES ASSUME NEW i \in 1..(Len(queries) + 1), IsAcceptable(queries'[i])
                 PROVE  FALSE
      BY <2>2 DEF Acceptable, Ids, IsAcceptable
    <3>1. CASE i \in 1..Len(queries)
      <4>1. queries'[i] = queries[i]
        BY <1>0, <1>3, <3>1
      <4> QED
        BY <1>2, <3>1, <4>1 DEF Acceptable, Ids
    <3>2. CASE i = Len(queries) + 1
      BY <1>3, <2>1, <3>2 DEF IsAcceptable
    <3> QED
      BY <1>0, <3>1, <3>2
  <2>5. Len(queries) < AtLeastOne(MaxIterations)
    BY <1>0 DEF AtLeastOne
  <2>6. Search!InRound
    BY <1>0, RoundUnderWay DEF InRound
  <2> QED
    BY <1>0, <1>2, <1>3, <2>2, <2>4, <2>5, <2>6 DEF Search!Ask
<1>4. CASE GenerateInitial
  <2>1. CASE queries' = << NewQuery("INITIAL", << >>) >> /\ pc' = "query"
    <3>1. queries' = Append(queries, NewQuery("INITIAL", << >>))
      BY <1>4, <2>1 DEF GenerateInitial
    <3>2. NewQuery("INITIAL", << >>).verdict = "none"
      BY DEF NewQuery
    <3> QED
      BY <1>3, <2>1, <3>1, <3>2 DEF Search!Next
  <2>2. CASE pc' = "summary" /\ UNCHANGED queries
    <3>1. Acceptable' = Acceptable
      BY <2>2 DEF Acceptable, Ids
    <3> QED
      BY <1>0, <2>2, <3>1, QuietStep
  <2> QED
    BY <1>4, <2>1, <2>2 DEF GenerateInitial
<1>5. CASE GenerateImproved
  <2>1. CASE pc' = "crashed" /\ UNCHANGED queries
    BY <1>0, <1>2, <2>1, RaiseBreaks DEF Search!Next
  <2>2. CASE \E kind \in ImproveKinds :
               queries' = Append(queries, NewQuery(kind, Append(queries[cur].history, cur)))
             /\ pc' = "query"
    <3>1. PICK kind \in ImproveKinds :
            queries' = Append(queries, NewQuery(kind, Append(queries[cur].history, cur)))
      BY <2>2
    <3>2. NewQuery(kind, Append(queries[cur].history, cur)).verdict = "none" /\ pc' = "query"
      BY <2>2 DEF NewQuery
    <3> QED
      BY <1>3, <3>1, <3>2 DEF Search!Next
  <2>3. CASE pc' = "summary" /\ UNCHANGED queries
    <3>1. Acceptable' = Acceptable
      BY <2>3 DEF Acceptable, Ids
    <3> QED
      BY <1>0, <2>3, <3>1, QuietStep
  <2> QED
    BY <1>5, <2>1, <2>2, <2>3 DEF GenerateImproved
<1> QED
  BY <1>4, <1>5 DEF Generate

\* An answer, or none, is not a valid driver yet.
LEMMA QueryRefines ==
  ASSUME SearchInv, DoRemoteQuery
  PROVE  UNCHANGED Search!vars
<1>0. /\ pc = "query" /\ pc' \in {"summary", "validate"} /\ UNCHANGED <<rounds, saved, valid>>
      /\ queries \in Seq(Query) /\ Len(queries) \in Nat
      /\ cur = Len(queries) /\ queries # << >> /\ queries[cur].verdict = "none"
  BY DEF DoRemoteQuery, SearchInv, IndInv, TypeInv, CurIsLast, CurIsInStep
<1>1. Len(queries') = Len(queries)
  BY <1>0 DEF DoRemoteQuery
<1>2. ASSUME NEW i \in Ids
      PROVE  IsAcceptable(queries'[i]) <=> IsAcceptable(queries[i])
  <2>1. queries[i] \in Query /\ i \in 1..Len(queries)
    BY <1>0 DEF Ids
  <2>2. CASE i = cur
    <3>1. queries'[i].verdict = "none"
      <4>1. CASE \E s : queries' = [queries EXCEPT ![cur].status = "finished", ![cur].solution = s]
        BY <1>0, <2>1, <2>2, <4>1 DEF Query
      <4>2. CASE queries' = [queries EXCEPT ![cur].status = "error"]
        BY <1>0, <2>1, <2>2, <4>2 DEF Query
      <4> QED
        BY <4>1, <4>2 DEF DoRemoteQuery
    <3> QED
      BY <1>0, <2>2, <3>1 DEF IsAcceptable
  <2>3. CASE i # cur
    <3>1. queries'[i] = queries[i]
      BY <1>0, <2>1, <2>3 DEF DoRemoteQuery
    <3> QED
      BY <3>1
  <2> QED
    BY <2>2, <2>3
<1>3. Acceptable' = Acceptable
  BY <1>1, <1>2 DEF Acceptable, Ids, IsAcceptable
<1> QED
  BY <1>0, <1>1, <1>3, QuietStep

\* A verdict VAL finds the driver of the last question.
LEMMA VerdictRefines ==
  ASSUME SearchInv, Load
  PROVE  [Search!Next]_(Search!vars)
<1>0. /\ pc = "load" /\ pc' = "judge" /\ UNCHANGED <<rounds, saved, valid>>
      /\ queries \in Seq(Query) /\ Len(queries) \in Nat
      /\ cur = Len(queries) /\ queries # << >> /\ queries[cur].verdict = "none"
      /\ queries[cur].status = "finished" /\ output.of = cur
  BY DEF Load, SearchInv, IndInv, TypeInv, CurIsLast, CurIsInStep
<1>1. PICK v : queries' = [queries EXCEPT ![cur].verdict = v]
  BY <1>0 DEF Load
<1>2. Acceptable = {}
  BY <1>0, NoneGood DEF SearchInv, IsAcceptable
<1>3. /\ Len(queries') = Len(queries) /\ cur \in 1..Len(queries)
      /\ queries'[cur] = [queries[cur] EXCEPT !.verdict = v]
      /\ \A i \in Ids : i # cur => queries'[i] = queries[i]
  BY <1>0, <1>1 DEF Ids
<1>4. queries'[cur].verdict = v /\ queries'[cur].status = "finished"
  <2>1. queries[cur] \in Query
    BY <1>0, <1>3
  <2> QED
    BY <1>0, <1>3, <2>1 DEF Query
<1>5. \A i \in Ids : IsAcceptable(queries'[i]) <=> i = cur /\ v = "VAL"
  BY <1>2, <1>3, <1>4 DEF Acceptable, IsAcceptable
<1>6. CASE v = "VAL"
  <2>1. Acceptable' = {cur}
    BY <1>3, <1>5, <1>6 DEF Acceptable, Ids, IsAcceptable
  <2>2. Search!InRound
    BY <1>0, RoundUnderWay DEF InRound
  <2>3. Acceptable' = {Len(queries)} /\ Len(queries) > 0 /\ Len(queries)' = Len(queries)
    BY <1>0, <1>3, <2>1
  <2> QED
    BY <1>0, <1>2, <2>2, <2>3 DEF Search!Next, Search!Find
<1>7. CASE v # "VAL"
  <2>1. Acceptable' = {}
    BY <1>3, <1>5, <1>7 DEF Acceptable, Ids, IsAcceptable
  <2> QED
    BY <1>0, <1>2, <1>3, <2>1, QuietStep
<1> QED
  BY <1>6, <1>7

\* The last query raises when it is judged, or the round goes on.
LEMMA JudgeRefines ==
  ASSUME SearchInv, Judge
  PROVE  [Search!Next]_(Search!vars)
<1>0. /\ pc = "judge" /\ UNCHANGED <<rounds, queries, saved, valid>>
      /\ cur = Len(queries) /\ queries # << >> /\ queries \in Seq(Query)
      /\ \/ pc' = "crashed" /\ JudgingRaises(queries[cur])
         \/ pc' \in {"summary", "generate"}
  BY DEF Judge, SearchInv, IndInv, TypeInv, CurIsLast
<1>1. CASE pc' = "crashed" /\ JudgingRaises(queries[cur])
  <2>1. cur \in Ids
    BY <1>0 DEF Ids
  <2>2. Acceptable = {}
    BY <1>1, <2>1, NoneGoodIfRaised DEF SearchInv
  <2> QED
    BY <1>0, <1>1, <2>2, RaiseBreaks DEF Search!Next
<1>2. CASE pc' \in {"summary", "generate"}
  <2>1. Acceptable' = Acceptable
    BY <1>0 DEF Acceptable, Ids
  <2> QED
    BY <1>0, <1>2, <2>1, QuietStep
<1> QED
  BY <1>0, <1>1, <1>2

\* The dump keeps what was found.
LEMMA SaveRefines ==
  ASSUME SearchInv, Save
  PROVE  Search!Keep
<1>0. /\ pc = "summary" /\ pc' = "collect" /\ UNCHANGED <<rounds, queries, valid>>
      /\ saved' = Append(saved, [size |-> Len(queries), vals |-> Acceptable])
      /\ saved \in Seq([size : Nat, vals : SUBSET Nat]) /\ Len(saved) \in Nat
  BY DEF Save, SearchInv, IndInv, TypeInv
<1>1. Search!InRound
  BY <1>0, RoundUnderWay DEF InRound
<1>2. Acceptable' = Acceptable
  BY <1>0 DEF Acceptable, Ids
<1>3. SavedVals \in Seq(SUBSET Nat) /\ Len(SavedVals) = Len(saved)
  BY SavedValsLen DEF SearchInv
<1>4. SavedVals' = Append(SavedVals, Acceptable)
  <2>1. /\ Len(saved') = Len(saved) + 1
        /\ saved'[Len(saved) + 1] = [size |-> Len(queries), vals |-> Acceptable]
        /\ \A r \in 1..Len(saved) : saved'[r] = saved[r]
    BY <1>0
  <2> DEFINE t == Append(SavedVals, Acceptable)
  <2>2. SavedVals' = [r \in 1..(Len(saved) + 1) |-> saved'[r].vals]
    BY <2>1 DEF SavedVals
  <2>3. /\ t \in Seq(SUBSET Nat) /\ Len(t) = Len(saved) + 1
        /\ \A r \in 1..(Len(saved) + 1) :
              t[r] = IF r = Len(saved) + 1 THEN Acceptable ELSE SavedVals[r]
    <3>1. Acceptable \in SUBSET Nat
      BY DEF Acceptable, Ids
    <3> QED
      BY <1>0, <1>3, <3>1, AppendProperties
  <2>4. \A r \in 1..(Len(saved) + 1) :
          saved'[r].vals = IF r = Len(saved) + 1 THEN Acceptable ELSE SavedVals[r]
    <3> SUFFICES ASSUME NEW r \in 1..(Len(saved) + 1)
                 PROVE  saved'[r].vals = IF r = Len(saved) + 1 THEN Acceptable ELSE SavedVals[r]
      OBVIOUS
    <3>1. CASE r = Len(saved) + 1
      BY <2>1, <3>1
    <3>2. CASE r \in 1..Len(saved)
      BY <1>0, <2>1, <3>2 DEF SavedVals
    <3> QED
      BY <1>0, <3>1, <3>2
  <2>5. t = [r \in 1..(Len(saved) + 1) |-> t[r]]
    BY <2>3, LenProperties
  <2> HIDE DEF t
  <2> QED
    BY <2>2, <2>3, <2>4, <2>5 DEF t
<1> QED
  BY <1>0, <1>1, <1>2, <1>4 DEF Search!Keep, SavedVals

\* A valid driver, or the last round, stops the search with the report; what
\* raises finds nothing; else the next round follows.
LEMMA CollectRefines ==
  ASSUME SearchInv, Collect
  PROVE  [Search!Next]_(Search!vars)
<1>0. /\ pc = "collect" /\ UNCHANGED <<rounds, queries, saved>>
      /\ rounds \in Nat /\ rounds >= 1 /\ MaxRounds \in Nat /\ Len(saved) = rounds
      /\ rounds <= MaxRounds \/ rounds <= 1
      /\ DisableValidation => MaxRounds = 1
      /\ valid = {}
  BY SearchAssumption DEF Collect, SearchInv, IndInv, TypeInv, BudgetInv, SavedInv
<1>1. Acceptable' = Acceptable
  BY <1>0 DEF Acceptable, Ids
<1>2. Len(SavedVals) = rounds
  BY <1>0, SavedValsLen DEF SearchInv
<1>3. \/ pc' = "crashed" /\ UNCHANGED valid /\ \E i \in Ids : JudgingRaises(queries[i])
      \/ pc' = "done" /\ valid' = { <<rounds, i>> : i \in Acceptable }
                      /\ (Acceptable # {} \/ rounds >= MaxRounds)
      \/ pc' = "round" /\ valid' = {}
  <2>1. CASE pc' = "round" /\ valid' = { <<rounds, i>> : i \in Acceptable } /\ ~(rounds >= MaxRounds)
             /\ (DisableValidation \/ Acceptable = {})
    <3>1. ~DisableValidation
      BY <1>0, <2>1
    <3>2. Acceptable = {}
      BY <2>1, <3>1
    <3>3. { <<rounds, i>> : i \in Acceptable } = {}
      BY <3>2
    <3> QED
      BY <2>1, <3>3
  <2>2. \/ pc' = "crashed" /\ UNCHANGED valid /\ \E i \in Ids : JudgingRaises(queries[i])
        \/ pc' = "done" /\ valid' = { <<rounds, i>> : i \in Acceptable }
                        /\ (Acceptable # {} \/ rounds >= MaxRounds)
        \/ pc' = "round" /\ valid' = { <<rounds, i>> : i \in Acceptable } /\ ~(rounds >= MaxRounds)
             /\ (DisableValidation \/ Acceptable = {})
    BY DEF Collect
  <2> QED
    BY <2>1, <2>2
<1>4. CASE pc' = "crashed" /\ UNCHANGED valid /\ \E i \in Ids : JudgingRaises(queries[i])
  <2>1. Acceptable = {}
    BY <1>4, NoneGoodIfRaised DEF SearchInv
  <2> QED
    BY <1>0, <1>4, <2>1, RaiseBreaks DEF Search!Next
<1>5. CASE pc' = "done" /\ valid' = { <<rounds, i>> : i \in Acceptable }
           /\ (Acceptable # {} \/ rounds >= MaxRounds)
  <2>1. Acceptable # {} \/ rounds = AtLeastOne(MaxRounds)
    BY <1>0, <1>5 DEF AtLeastOne
  <2>2. Search!Stop
    BY <1>0, <1>1, <1>2, <1>5, <2>1 DEF Search!Stop, SavedVals
  <2> QED
    BY <2>2 DEF Search!Next
<1>6. CASE pc' = "round" /\ valid' = {}
  BY <1>0, <1>1, <1>6, QuietStep
<1> QED
  BY <1>3, <1>4, <1>5, <1>6

\* Another round follows only rounds that kept nothing.
LEMMA StartRefines ==
  ASSUME SearchInv, StartRound
  PROVE  Search!Begin
<1>0. /\ pc = "round" /\ pc' = "generate" /\ rounds' = rounds + 1 /\ queries' = << >>
      /\ UNCHANGED <<saved, valid>>
      /\ rounds \in Nat /\ MaxRounds \in Nat /\ Len(saved) = rounds
      /\ rounds < MaxRounds \/ rounds = 0
  BY SearchAssumption DEF StartRound, SearchInv, IndInv, TypeInv, BudgetInv, SavedInv
<1>1. Len(queries)' = 0 /\ Acceptable' = {}
  BY <1>0 DEF Acceptable, Ids
<1>2. rounds < AtLeastOne(MaxRounds)
  BY <1>0 DEF AtLeastOne
<1>3. Len(SavedVals) = rounds
  BY <1>0, SavedValsLen DEF SearchInv
<1>4. \A r \in 1..Len(SavedVals) : SavedVals[r] = {}
  BY <1>0, <1>3 DEF SavedVals, SearchInv, SavedInv
<1>5. Search!NothingKept
  BY <1>4 DEF Search!NothingKept, SavedVals
<1> QED
  BY <1>0, <1>1, <1>2, <1>3, <1>5 DEF Search!Begin, SavedVals

\* Every step of the search is one of DriverSearch, or a stutter.
LEMMA StepsRefine == SearchInv /\ SearchInv' /\ [Next]_vars => [Search!Next]_(Search!vars)
<1> SUFFICES ASSUME SearchInv, SearchInv', [Next]_vars
             PROVE  [Search!Next]_(Search!vars)
  OBVIOUS
<1>1. CASE StartRound
  BY <1>1, StartRefines DEF Search!Next
<1>2. CASE Generate
  BY <1>2, GenerateRefines
<1>3. CASE DoRemoteQuery
  BY <1>3, QueryRefines
<1>4. CASE StartValidation \/ ValidationFails \/ ValidationExits
  <2>1. pc \notin {"done", "crashed"} /\ pc' \notin {"done", "crashed"}
        /\ UNCHANGED <<rounds, saved, valid, queries>>
    BY <1>4 DEF StartValidation, ValidationFails, ValidationExits
  <2>2. Acceptable' = Acceptable /\ Len(queries') = Len(queries)
    BY <2>1 DEF Acceptable, Ids
  <2> QED
    BY <2>1, <2>2, QuietStep
<1>5. CASE Load
  BY <1>5, VerdictRefines
<1>6. CASE Judge
  BY <1>6, JudgeRefines
<1>7. CASE Save
  BY <1>7, SaveRefines DEF Search!Next
<1>8. CASE Collect
  BY <1>8, CollectRefines
<1>9. CASE UNCHANGED vars
  <2>1. Acceptable' = Acceptable
    BY <1>9 DEF vars, Acceptable, Ids
  <2> QED
    BY <1>9, <2>1 DEF vars, Search!vars
<1> QED
  BY <1>1, <1>2, <1>3, <1>4, <1>5, <1>6, <1>7, <1>8, <1>9 DEF Next, Ended

\* The search is a DriverSearch: whatever the verdicts are and wherever main
\* raises, it keeps to its budget, and the first valid driver is dumped,
\* reported, and the end of it.
THEOREM Refinement == Spec => ImplementsSearch
<1>1. SearchInv /\ SearchInv' /\ [Next]_vars => [Search!Next]_(Search!vars)
  BY StepsRefine
<1> QED
  BY <1>1, InitRefines, SearchInvariance, PTL DEF Spec, ImplementsSearch, Search!Spec
=============================================================================
