----------------------- MODULE ValidationBatchProofs -----------------------
(***************************************************************************)
(* Theorems about ValidationBatch, for every number of queries, solutions, *)
(* and projects, every slice and batch size, and every loss of tasks.      *)
(***************************************************************************)
EXTENDS ValidationBatch, FiniteSetTheorems, FunctionTheorems,
        SequenceTheorems, TLAPS

-----------------------------------------------------------------------------
(***************************************************************************)
(* The inductive invariant.                                                *)
(***************************************************************************)
TasksOf(r, tasks) == { t \in tasks : t.ridx = r }

\* The solutions that are to be validated.
Wanted(r) == pattern \cap 1..total[r]

\* The tasks are some of query r, and have each solution that is wanted once.
Covers(r, tasks) ==
  /\ \A t \in tasks : t.ridx = r /\ t.sidxs \subseteq Wanted(r)
  /\ \A s \in Wanted(r) : \E t \in tasks : { u \in tasks : s \in u.sidxs } = {t}

\* The solutions a result came back for.
Results(r) == UNION { t.sidxs : t \in TasksOf(r, everDone) }

Nones(r) == [i \in 1..total[r] |-> None]

\* Queries of later batches.
Fresh ==
  \A r \in Ridxs : target[r] \in todo =>
    /\ r \notin batch
    /\ solutions[r] = UpTo(total[r]) /\ validations[r] = << >>
    /\ \A t \in waiting \cup done \cup everDone \cup lost : t.ridx # r

\* Queries of the batch that is run.
InBatch ==
  pc \in {"running", "merge"} =>
    \A r \in batch : /\ solutions[r] = UpTo(total[r])
                     /\ validations[r] = IF r \in scope THEN Nones(r) ELSE << >>

Running ==
  pc = "running" =>
    /\ \A t \in waiting : t.ridx \in batch \cap scope
    /\ \A r \in batch : TasksOf(r, everDone \cup lost) = {}
    /\ \A r \in batch \cap scope : Covers(r, TasksOf(r, waiting))

Merging ==
  pc = "merge" =>
    /\ \A t \in done : t.ridx \in batch \cap scope
    /\ \A r \in batch : TasksOf(r, everDone) = TasksOf(r, done)

\* Queries of earlier batches.
Settled(r) ==
  IF Results(r) = {}
  THEN solutions[r] = UpTo(total[r]) /\ validations[r] \in {<< >>, Nones(r)}
  ELSE /\ validations[r] = solutions[r]
       /\ \A i, j \in 1..Len(solutions[r]) : i < j => solutions[r][i] < solutions[r][j]
       /\ Range(solutions[r]) = Results(r)

AllCovered ==
  pc # "raised" =>
    \A r \in scope : target[r] \notin todo /\ ~(r \in batch /\ pc = "running")
      => Covers(r, TasksOf(r, everDone \cup lost))

AllSettled ==
  pc # "raised" =>
    \A r \in Ridxs : target[r] \notin todo /\ ~(r \in batch /\ pc \in {"running", "merge"})
      => Settled(r)

BatchInv ==
  /\ \A t \in everDone \cup lost : t.ridx \in scope
  /\ pc = "written" => todo = {}
  /\ Fresh /\ InBatch /\ Running /\ Merging /\ AllCovered /\ AllSettled

-----------------------------------------------------------------------------
(***************************************************************************)
(* Positions in a finite set of numbers.                                   *)
(***************************************************************************)

\* A smaller number has a smaller position.
LEMMA PositionGrows ==
  ASSUME NEW S \in SUBSET Nat, IsFiniteSet(S), NEW m \in S, NEW n \in S, m < n
  PROVE  Position(S, m) < Position(S, n)
<1>1. /\ Below(S, n) \in SUBSET S /\ Below(S, m) \in SUBSET Below(S, n)
      /\ m \in Below(S, n) /\ m \notin Below(S, m)
  <2>1. m \in Nat /\ n \in Nat /\ \A k \in S : k \in Nat
    OBVIOUS
  <2>2. ~(m < m) /\ \A k \in S : k < m => k < n
    BY <2>1
  <2> QED
    BY <2>2 DEF Below
<1>2. IsFiniteSet(Below(S, n))
  BY <1>1, FS_Subset
<1>3. /\ IsFiniteSet(Below(S, m))
      /\ Cardinality(Below(S, m)) <= Cardinality(Below(S, n))
      /\ Cardinality(Below(S, n)) # Cardinality(Below(S, m))
  BY <1>1, <1>2, FS_Subset
<1>4. Cardinality(Below(S, m)) \in Nat /\ Cardinality(Below(S, n)) \in Nat
  BY <1>2, <1>3, FS_CardinalityType
<1> QED
  BY <1>3, <1>4 DEF Position

\* Position points into the list it searches.
LEMMA PositionType ==
  ASSUME NEW S \in SUBSET Nat, IsFiniteSet(S), NEW n \in S
  PROVE  Position(S, n) \in 0..(Cardinality(S) - 1)
<1>1. Below(S, n) \in SUBSET S /\ n \notin Below(S, n)
  BY DEF Below
<1>2. /\ IsFiniteSet(Below(S, n)) /\ Cardinality(Below(S, n)) <= Cardinality(S)
      /\ Cardinality(S) # Cardinality(Below(S, n))
  BY <1>1, FS_Subset
<1>3. Cardinality(Below(S, n)) \in Nat /\ Cardinality(S) \in Nat
  BY <1>2, FS_CardinalityType
<1> QED
  BY <1>2, <1>3 DEF Position

\* There is one element at each position, and none elsewhere.
LEMMA NthIsThere ==
  ASSUME NEW S \in SUBSET Nat, IsFiniteSet(S)
  PROVE  /\ Cardinality(S) \in Nat
         /\ \A i \in 1..Cardinality(S) : Nth(S, i) \in S /\ Position(S, Nth(S, i)) = i - 1
         /\ \A i, j \in 1..Cardinality(S) : i < j => Nth(S, i) < Nth(S, j)
         /\ \A n \in S : \E i \in 1..Cardinality(S) : Nth(S, i) = n
<1> DEFINE c == Cardinality(S)
           f == [n \in S |-> Position(S, n)]
<1>1. c \in Nat
  BY FS_CardinalityType
<1>2. f \in [S -> 0..(c - 1)]
  BY PositionType
<1>3. \A m, n \in S : f[m] = f[n] => m = n
  <2> SUFFICES ASSUME NEW m \in S, NEW n \in S, Position(S, m) = Position(S, n), m # n
               PROVE  FALSE
    OBVIOUS
  <2>1. Position(S, m) \in Nat /\ Position(S, n) \in Nat
    BY <1>1, PositionType
  <2>2. m < n \/ n < m
    OBVIOUS
  <2> QED
    BY <2>1, <2>2, PositionGrows
<1>4. f \in Injection(S, 0..(c - 1))
  BY <1>2, <1>3, Fun_IsInj
<1>5. IsFiniteSet(0..(c - 1)) /\ Cardinality(0..(c - 1)) = c
  <2> HIDE DEF c
  <2>1. c - 1 \in Int /\ 0 \in Int
    BY <1>1
  <2>2. /\ IsFiniteSet(0..(c - 1))
        /\ Cardinality(0..(c - 1)) = IF 0 > c - 1 THEN 0 ELSE (c - 1) - 0 + 1
    BY <2>1, FS_Interval
  <2> QED
    BY <1>1, <2>2
<1>6. f \in Surjection(S, 0..(c - 1))
  <2> DEFINE T == 0..(c - 1)
  <2>1. f \in Injection(S, T) /\ IsFiniteSet(T) /\ Cardinality(S) = Cardinality(T)
    BY <1>4, <1>5
  <2> HIDE DEF f, T
  <2>2. f \in Surjection(S, T)
    BY <2>1, FS_Injection
  <2> QED
    BY <2>2 DEF T
<1>7. \A p \in 0..(c - 1) : \E n \in S : f[n] = p
  <2> DEFINE T == 0..(c - 1)
  <2>1. f \in Surjection(S, T)
    BY <1>6
  <2> HIDE DEF f, T
  <2>2. \A p \in T : \E n \in S : f[n] = p
    BY <2>1, Fun_SurjectionProperties
  <2> QED
    BY <2>2 DEF T
<1>8. ASSUME NEW i \in 1..c
      PROVE  Nth(S, i) \in S /\ Position(S, Nth(S, i)) = i - 1
  <2>1. i - 1 \in 0..(c - 1)
    BY <1>1
  <2>2. \E n \in S : Position(S, n) = i - 1
    BY <2>1, <1>7
  <2> QED
    BY <2>2 DEF Nth
<1>9. ASSUME NEW i \in 1..c, NEW j \in 1..c, i < j
      PROVE  Nth(S, i) < Nth(S, j)
  <2>1. /\ Nth(S, i) \in S /\ Position(S, Nth(S, i)) = i - 1
        /\ Nth(S, j) \in S /\ Position(S, Nth(S, j)) = j - 1
    BY <1>8
  <2>2. i - 1 < j - 1 /\ i \in Nat /\ j \in Nat
    BY <1>1, <1>9
  <2>3. Nth(S, i) # Nth(S, j)
    BY <2>1, <2>2
  <2>4. ASSUME Nth(S, j) < Nth(S, i)
        PROVE  FALSE
    <3>1. Position(S, Nth(S, j)) < Position(S, Nth(S, i))
      BY <2>1, <2>4, PositionGrows
    <3> QED
      BY <2>1, <2>2, <3>1
  <2>5. Nth(S, i) \in Nat /\ Nth(S, j) \in Nat
    BY <2>1
  <2> QED
    BY <2>3, <2>4, <2>5
<1>10. ASSUME NEW n \in S
       PROVE  \E i \in 1..c : Nth(S, i) = n
  <2>1. Position(S, n) \in 0..(c - 1)
    BY PositionType
  <2>2. Position(S, n) + 1 \in 1..c /\ (Position(S, n) + 1) - 1 = Position(S, n)
    BY <2>1, <1>1
  <2>3. Nth(S, Position(S, n) + 1) \in S
        /\ Position(S, Nth(S, Position(S, n) + 1)) = Position(S, n)
    BY <2>2, <1>8
  <2>4. Nth(S, Position(S, n) + 1) = n
    BY <2>3, <1>3
  <2> QED
    BY <2>2, <2>4
<1> QED
  BY <1>1, <1>8, <1>9, <1>10

\* Two intervals of naturals that have the same members have the same end.
LEMMA SameInterval ==
  ASSUME NEW a \in Nat, NEW b \in Nat, 1..a = 1..b
  PROVE  a = b
<1>1. ASSUME a < b
      PROVE  FALSE
  <2>1. b \in 1..b /\ b \notin 1..a
    BY <1>1
  <2> QED
    BY <2>1
<1>2. ASSUME b < a
      PROVE  FALSE
  <2>1. a \in 1..a /\ a \notin 1..b
    BY <1>2
  <2> QED
    BY <2>1
<1> QED
  BY <1>1, <1>2

\* A function on 1..n is a sequence of length n.
LEMMA ListIsSeq ==
  ASSUME NEW n \in Nat, NEW S, NEW f \in [1..n -> S]
  PROVE  f \in Seq(S) /\ Len(f) = n
<1>1. f \in UNION { [1..m -> S] : m \in Nat }
  OBVIOUS
<1>2. f \in Seq(S)
  BY <1>1, SeqDef
<1>3. DOMAIN f = 1..Len(f) /\ Len(f) \in Nat
  BY <1>2, LenProperties
<1>4. 1..Len(f) = 1..n
  BY <1>3
<1> QED
  BY <1>2, <1>3, <1>4, SameInterval

\* The list has the elements of K, each one once and in order.
IsListOf(thin, K) ==
  /\ thin = [i \in 1..Cardinality(K) |-> Nth(K, i)]
  /\ thin \in Seq(K) /\ Len(thin) = Cardinality(K) /\ Range(thin) = K
  /\ \A i, j \in 1..Len(thin) : i < j => thin[i] < thin[j]

\* Thinning out a list that is its own positions.
LEMMA ThinnedOut ==
  ASSUME NEW n \in Nat, NEW list \in [1..n -> Nat], NEW valis, NEW K \in SUBSET (1..n),
         \A i \in K : list[i] = i,
         \A i \in 1..n : i \in K <=> valis[i] # None
  PROVE  IsListOf(WithValidation(list, valis), K)
<1> DEFINE thin == WithValidation(list, valis)
           c == Cardinality(K)
<1>1. IsFiniteSet(K) /\ K \in SUBSET Nat
  <2>1. IsFiniteSet(1..n)
    BY FS_Interval
  <2>2. IsFiniteSet(K)
    BY <2>1, FS_Subset
  <2> QED
    BY <2>2
<1>2. /\ c \in Nat
      /\ \A i \in 1..c : Nth(K, i) \in K
      /\ \A i, j \in 1..c : i < j => Nth(K, i) < Nth(K, j)
      /\ \A k \in K : \E i \in 1..c : Nth(K, i) = k
  BY <1>1, NthIsThere
<1>3. thin = [i \in 1..c |-> list[Nth(K, i)]]
  <2>1. { i \in DOMAIN list : valis[i] # None } = K
    OBVIOUS
  <2> QED
    BY <2>1 DEF WithValidation
<1>4. thin = [i \in 1..c |-> Nth(K, i)]
  BY <1>2, <1>3
<1>5. thin \in [1..c -> K]
  BY <1>2, <1>4
<1>6. thin \in Seq(K) /\ Len(thin) = c
  <2> HIDE DEF thin, c
  <2> QED
    BY <1>2, <1>5, ListIsSeq
<1>7. Range(thin) = K
  <2>1. DOMAIN thin = 1..c /\ \A i \in 1..c : thin[i] = Nth(K, i)
    BY <1>4
  <2> HIDE DEF thin
  <2> HIDE DEF c
  <2>2. Range(thin) = { Nth(K, i) : i \in 1..c }
    BY <2>1 DEF Range
  <2>3. \A i \in 1..c : Nth(K, i) \in K
    BY <1>2
  <2>4. \A k \in K : \E i \in 1..c : Nth(K, i) = k
    BY <1>2
  <2>5. ASSUME NEW k
        PROVE  k \in { Nth(K, i) : i \in 1..c } <=> k \in K
    BY <2>3, <2>4
  <2> QED
    BY <2>2, <2>5
<1>8. \A i, j \in 1..c : i < j => thin[i] < thin[j]
  BY <1>2, <1>4
<1> QED
  BY <1>2, <1>4, <1>6, <1>7, <1>8 DEF IsListOf

-----------------------------------------------------------------------------
(***************************************************************************)
(* The operators of the module.                                            *)
(***************************************************************************)
LEMMA Listed ==
  ASSUME TypeInv, NEW r \in Ridxs
  PROVE  /\ total[r] \in Nat /\ 1..total[r] \subseteq Sidxs
         /\ UpTo(total[r]) \in Seq(Sidxs) /\ Len(UpTo(total[r])) = total[r]
         /\ UpTo(total[r]) \in [1..total[r] -> Nat]
         /\ \A i \in 1..total[r] : UpTo(total[r])[i] = i
         /\ Nones(r) \in Seq(Sidxs \cup {None})
<1>1. total[r] \in Nat /\ 1..total[r] \subseteq Sidxs
  BY BatchAssumption DEF TypeInv, Sidxs
<1>2. UpTo(total[r]) \in [1..total[r] -> Sidxs] /\ Nones(r) \in [1..total[r] -> Sidxs \cup {None}]
  BY <1>1 DEF UpTo, Nones
<1>3. UpTo(total[r]) \in [1..total[r] -> Nat] /\ \A i \in 1..total[r] : UpTo(total[r])[i] = i
  BY <1>1 DEF UpTo
<1> QED
  BY <1>1, <1>2, <1>3, ListIsSeq

\* The shape of Covers, for a set of tasks given as such.
LEMMA CoversIf ==
  ASSUME NEW r, NEW T,
         \A t \in T : t.ridx = r /\ t.sidxs \subseteq Wanted(r),
         \A s \in Wanted(r) : \E t \in T : { u \in T : s \in u.sidxs } = {t}
  PROVE  Covers(r, T)
  BY DEF Covers

\* However a query is cut, each of its solutions that match is in one task.
LEMMA SlicesCover ==
  ASSUME TypeInv, NEW r \in Ridxs, solutions[r] = UpTo(total[r])
  PROVE  /\ SidxList(r) = Wanted(r)
         /\ Covers(r, [ridx : {r}, sidxs : Slices(r)])
<1> DEFINE list == Wanted(r)
           slice(s) == { n \in list : Position(list, n) \div per = Position(list, s) \div per }
<1>1. SidxList(r) = list
  BY Listed DEF SidxList, Wanted
<1>2. CASE per = 0
  <2>1. Slices(r) = {list}
    BY <1>1, <1>2 DEF Slices
  <2> DEFINE T == [ridx : {r}, sidxs : {list}]
  <2>2. \A t \in T : t.ridx = r /\ t.sidxs \subseteq Wanted(r)
    OBVIOUS
  <2>3. ASSUME NEW s \in Wanted(r)
        PROVE  \E t \in T : { u \in T : s \in u.sidxs } = {t}
    <3> DEFINE one == [ridx |-> r, sidxs |-> list]
    <3>1. one \in T /\ s \in one.sidxs
      OBVIOUS
    <3>2. \A u \in T : u = one
      OBVIOUS
    <3> HIDE DEF T, one, list
    <3> QED
      BY <3>1, <3>2
  <2> HIDE DEF T
  <2>4. Covers(r, T)
    BY <2>2, <2>3, CoversIf
  <2>5. [ridx : {r}, sidxs : Slices(r)] = T
    BY <2>1 DEF T
  <2> QED
    BY <1>1, <2>4, <2>5
<1>3. CASE per # 0
  <2> DEFINE cut == { slice(s) : s \in list }
             T == [ridx : {r}, sidxs : cut]
  <2>1. Slices(r) = cut
    BY <1>1, <1>3 DEF Slices
  <2>2. \A t \in T : t.ridx = r /\ t.sidxs \subseteq Wanted(r)
    OBVIOUS
  <2>3. ASSUME NEW s \in Wanted(r)
        PROVE  \E t \in T : { u \in T : s \in u.sidxs } = {t}
    <3> DEFINE one == [ridx |-> r, sidxs |-> slice(s)]
    <3>1. one \in T /\ s \in one.sidxs
      OBVIOUS
    <3>2. ASSUME NEW u \in T, s \in u.sidxs
          PROVE  u = one
      <4>1. PICK z \in list : u = [ridx |-> r, sidxs |-> slice(z)]
        OBVIOUS
      <4>2. Position(list, s) \div per = Position(list, z) \div per
        BY <3>2, <4>1
      <4>3. slice(z) = slice(s)
        BY <4>2
      <4> QED
        BY <4>1, <4>3
    <3> HIDE DEF T, one
    <3> QED
      BY <3>1, <3>2
  <2> HIDE DEF T
  <2>4. Covers(r, T)
    BY <2>2, <2>3, CoversIf
  <2> HIDE DEF cut
  <2>5. [ridx : {r}, sidxs : Slices(r)] = T
    BY <2>1 DEF T
  <2> QED
    BY <1>1, <2>4, <2>5
<1> QED
  BY <1>2, <1>3

-----------------------------------------------------------------------------
(***************************************************************************)
(* Types.                                                                  *)
(***************************************************************************)
LEMMA ThinnedType ==
  ASSUME NEW n \in Nat, NEW S, NEW list \in [1..n -> S], NEW valis
  PROVE  WithValidation(list, valis) \in Seq(S)
<1> DEFINE kept == { i \in 1..n : valis[i] # None }
<1>1. IsFiniteSet(kept) /\ kept \in SUBSET Nat /\ kept \subseteq 1..n
  <2>1. IsFiniteSet(1..n)
    BY FS_Interval
  <2> QED
    BY <2>1, FS_Subset
<1>2. { i \in DOMAIN list : valis[i] # None } = kept
  OBVIOUS
<1> HIDE DEF kept
<1>3. /\ Cardinality(kept) \in Nat
      /\ \A i \in 1..Cardinality(kept) : Nth(kept, i) \in kept
  BY <1>1, NthIsThere
<1>4. WithValidation(list, valis) \in [1..Cardinality(kept) -> S]
  BY <1>1, <1>2, <1>3 DEF WithValidation
<1> QED
  BY <1>3, <1>4, ListIsSeq

\* The types hold to begin with.
LEMMA TypeInit == Init => TypeInv
<1> SUFFICES ASSUME Init
             PROVE  TypeInv
  OBVIOUS
<1>1. ASSUME NEW r \in Ridxs
      PROVE  UpTo(total[r]) \in Seq(Sidxs)
  <2>1. total[r] \in Nat /\ 1..total[r] \subseteq Sidxs
    BY BatchAssumption DEF Init, Sidxs
  <2>2. UpTo(total[r]) \in [1..total[r] -> Sidxs]
    BY <2>1 DEF UpTo
  <2> QED
    BY <2>1, <2>2, ListIsSeq
<1>2. solutions \in [Ridxs -> Seq(Sidxs)]
  BY <1>1 DEF Init
<1>3. << >> \in Seq(Sidxs \cup {None})
  OBVIOUS
<1>4. validations \in [Ridxs -> Seq(Sidxs \cup {None})]
  BY <1>3 DEF Init
<1>5. todo \subseteq Projects
  BY DEF Init
<1> QED
  BY <1>2, <1>4, <1>5 DEF Init, TypeInv

\* A merge fills each position with a solution or None.
LEMMA MergedType ==
  ASSUME TypeInv, NEW r \in Ridxs
  PROVE  /\ Len(validations[r]) \in Nat
         /\ Merged(r) \in [1..Len(validations[r]) -> Sidxs \cup {None}]
<1>1. validations[r] \in Seq(Sidxs \cup {None})
  BY DEF TypeInv
<1>2. /\ Len(validations[r]) \in Nat /\ DOMAIN validations[r] = 1..Len(validations[r])
      /\ \A i \in 1..Len(validations[r]) : validations[r][i] \in Sidxs \cup {None}
  BY <1>1, LenProperties, ElementOfSeq
<1>3. \A s : (\E t \in done : t.ridx = r /\ s \in t.sidxs) => s \in Sidxs
  BY DEF TypeInv, Task
<1> QED
  BY <1>2, <1>3 DEF Merged

\* Every step keeps the types.
LEMMA TypeStep == TypeInv /\ [Next]_vars => TypeInv'
<1> SUFFICES ASSUME TypeInv, [Next]_vars
             PROVE  TypeInv'
  OBVIOUS
<1>1. ASSUME NEW projects \in SUBSET todo, Split(projects)
      PROVE  TypeInv'
  <2> DEFINE idxset == { r \in Ridxs : target[r] \in projects }
  <2>1. AllArgs(idxset) \subseteq Task
    <3>1. ASSUME NEW r \in Ridxs, NEW x \in Slices(r)
          PROVE  x \subseteq Sidxs
      <4>1. SidxList(r) \subseteq Sidxs
        BY DEF SidxList, TypeInv
      <4>2. x \subseteq SidxList(r)
        BY DEF Slices
      <4> QED
        BY <4>1, <4>2
    <3> QED
      BY <3>1 DEF AllArgs, Task
  <2>2. validations' \in [Ridxs -> Seq(Sidxs \cup {None})]
    <3>1. ASSUME NEW r \in Ridxs
          PROVE  [i \in 1..Len(solutions[r]) |-> None] \in Seq(Sidxs \cup {None})
      <4>1. Len(solutions[r]) \in Nat
        BY LenProperties DEF TypeInv
      <4>2. [i \in 1..Len(solutions[r]) |-> None] \in [1..Len(solutions[r]) -> Sidxs \cup {None}]
        OBVIOUS
      <4> QED
        BY <4>1, <4>2, ListIsSeq
    <3> QED
      BY <1>1, <3>1 DEF Split, TypeInv
  <2>3. batch' \subseteq Ridxs /\ todo' \subseteq Projects /\ waiting' \subseteq Task
    BY <1>1, <2>1 DEF Split, TypeInv
  <2> QED
    BY <1>1, <2>2, <2>3 DEF Split, TypeInv, inputVars
<1>2. CASE PoolReturns
  BY <1>2 DEF PoolReturns, TypeInv, inputVars
<1>3. CASE PoolRaises
  BY <1>3 DEF PoolRaises, TypeInv, inputVars
<1>4. CASE RsltHandle
  <2>1. ASSUME NEW r \in Ridxs
        PROVE  /\ WithValidation(Merged(r), Merged(r)) \in Seq(Sidxs \cup {None})
               /\ WithValidation(solutions[r], Merged(r)) \in Seq(Sidxs)
    <3>1. WithValidation(Merged(r), Merged(r)) \in Seq(Sidxs \cup {None})
      BY MergedType, ThinnedType
    <3>2. Len(solutions[r]) \in Nat /\ solutions[r] \in [1..Len(solutions[r]) -> Sidxs]
      BY LenProperties DEF TypeInv
    <3>3. WithValidation(solutions[r], Merged(r)) \in Seq(Sidxs)
      BY <3>2, ThinnedType
    <3> QED
      BY <3>1, <3>3
  <2>2. validations' \in [Ridxs -> Seq(Sidxs \cup {None})]
    BY <1>4, <2>1 DEF RsltHandle, TypeInv
  <2>3. solutions' \in [Ridxs -> Seq(Sidxs)]
    BY <1>4, <2>1 DEF RsltHandle, TypeInv
  <2>4. pc' \in {"written", "split"}
    BY <1>4 DEF RsltHandle
  <2> QED
    BY <1>4, <2>2, <2>3, <2>4 DEF RsltHandle, TypeInv, inputVars
<1>5. CASE UNCHANGED vars
  BY <1>5 DEF vars, inputVars, TypeInv
<1> QED
  BY <1>1, <1>2, <1>3, <1>4, <1>5 DEF Next, Ended

\* The state of the split and of the merge has its type: results, positions
\* and lists stay within the queries and the solutions that there are.
THEOREM TypeCorrect == Spec => []TypeInv
<1> QED
  BY TypeInit, TypeStep, PTL DEF Spec

-----------------------------------------------------------------------------
(***************************************************************************)
(* The invariant.                                                          *)
(***************************************************************************)
LEMMA BatchInit == Init => BatchInv
<1> SUFFICES ASSUME Init
             PROVE  BatchInv
  OBVIOUS
<1>1. \A r \in Ridxs : target[r] \in todo
  BY DEF Init
<1>2. \A r \in Ridxs : solutions[r] = UpTo(total[r]) /\ validations[r] = << >>
  BY DEF Init
<1>3. Fresh
  BY <1>2 DEF Init, Fresh
<1>4. AllCovered /\ AllSettled
  BY <1>1, BatchAssumption DEF AllCovered, AllSettled, Init
<1>5. InBatch /\ Running /\ Merging
  BY DEF Init, InBatch, Running, Merging
<1> QED
  BY <1>3, <1>4, <1>5 DEF Init, BatchInv

\* A batch is begun.
LEMMA SplitStep ==
  ASSUME TypeInv, BatchInv, NEW projects \in SUBSET todo, Split(projects)
  PROVE  BatchInv'
<1> DEFINE idxset == { r \in Ridxs : target[r] \in projects }
<1>1. /\ pc = "split" /\ pc' = "running" /\ batch' = idxset /\ todo' = todo \ projects
      /\ waiting' = AllArgs(idxset) /\ done' = {}
      /\ validations' = [r \in Ridxs |->
           IF r \in idxset \cap scope THEN [i \in 1..Len(solutions[r]) |-> None]
                                      ELSE validations[r]]
  BY DEF Split
<1>2. /\ solutions' = solutions /\ everDone' = everDone /\ lost' = lost
      /\ total' = total /\ target' = target /\ scope' = scope /\ pattern' = pattern
  BY DEF Split, inputVars
<1>3. \A r \in idxset : /\ target[r] \in todo /\ r \in Ridxs
                        /\ solutions[r] = UpTo(total[r]) /\ validations[r] = << >>
                        /\ \A t \in everDone \cup lost : t.ridx # r
  BY DEF BatchInv, Fresh
<1>4. \A t \in waiting' : t.ridx \in idxset \cap scope
  BY <1>1 DEF AllArgs
<1>5. ASSUME NEW r \in idxset \cap scope
      PROVE  TasksOf(r, AllArgs(idxset)) = [ridx : {r}, sidxs : Slices(r)]
  <2>1. ASSUME NEW t
        PROVE  t \in TasksOf(r, AllArgs(idxset)) <=> t \in [ridx : {r}, sidxs : Slices(r)]
    <3>1. ASSUME t \in TasksOf(r, AllArgs(idxset))
          PROVE  t \in [ridx : {r}, sidxs : Slices(r)]
      <4>1. PICK q \in idxset \cap scope : t \in [ridx : {q}, sidxs : Slices(q)]
        BY <3>1 DEF TasksOf, AllArgs
      <4>2. q = r
        BY <3>1, <4>1 DEF TasksOf
      <4> QED
        BY <4>1, <4>2
    <3>2. ASSUME t \in [ridx : {r}, sidxs : Slices(r)]
          PROVE  t \in TasksOf(r, AllArgs(idxset))
      BY <3>2 DEF TasksOf, AllArgs
    <3> QED
      BY <3>1, <3>2
  <2> HIDE DEF idxset
  <2> QED
    BY <2>1
<1> HIDE DEF idxset
<1>6. Fresh'
  <2> SUFFICES ASSUME NEW r \in Ridxs, target[r] \in todo'
               PROVE  /\ r \notin batch'
                      /\ solutions'[r] = UpTo(total[r]) /\ validations'[r] = << >>
                      /\ \A t \in waiting' \cup done' \cup everDone' \cup lost' : t.ridx # r
    BY <1>2 DEF Fresh, UpTo
  <2>1. r \notin idxset /\ target[r] \in todo
    BY <1>1 DEF idxset
  <2>2. /\ solutions[r] = UpTo(total[r]) /\ validations[r] = << >>
        /\ \A t \in everDone \cup lost : t.ridx # r
    BY <2>1 DEF BatchInv, Fresh
  <2> QED
    BY <1>1, <1>2, <1>4, <2>1, <2>2
<1>7. InBatch'
  <2> SUFFICES ASSUME NEW r \in idxset
               PROVE  /\ solutions'[r] = UpTo(total[r])
                      /\ validations'[r] = IF r \in scope THEN Nones(r) ELSE << >>
    BY <1>1, <1>2 DEF InBatch, UpTo, Nones
  <2>1. r \in Ridxs /\ solutions[r] = UpTo(total[r]) /\ validations[r] = << >>
    BY <1>3
  <2>2. Len(solutions[r]) = total[r]
    BY <2>1, Listed
  <2> QED
    BY <1>1, <1>2, <2>1, <2>2 DEF Nones
<1>8. Running'
  <2>1. \A r \in idxset : TasksOf(r, everDone \cup lost) = {}
    BY <1>3 DEF TasksOf
  <2>2. ASSUME NEW r \in idxset \cap scope
        PROVE  Covers(r, TasksOf(r, AllArgs(idxset)))
    <3>1. r \in Ridxs /\ solutions[r] = UpTo(total[r])
      BY <1>3
    <3> QED
      BY <3>1, <1>5, SlicesCover
  <2> QED
    BY <1>1, <1>2, <1>4, <2>1, <2>2 DEF Running, TasksOf, Covers, Wanted
<1>9. Merging'
  BY <1>1 DEF Merging
<1>10. \A r \in Ridxs : target[r] \notin todo' /\ r \notin batch' => target[r] \notin todo
  BY <1>1 DEF idxset
<1>11. AllCovered'
  <2> SUFFICES ASSUME NEW r \in scope, target[r] \notin todo', r \notin batch'
               PROVE  Covers(r, TasksOf(r, everDone \cup lost))
    BY <1>1, <1>2 DEF AllCovered, Covers, TasksOf, Wanted
  <2>1. target[r] \notin todo
    BY <1>10 DEF TypeInv
  <2> QED
    BY <1>1, <2>1 DEF BatchInv, AllCovered
<1>12. AllSettled'
  <2> SUFFICES ASSUME NEW r \in Ridxs, target[r] \notin todo', r \notin batch'
               PROVE  Settled(r)'
    BY <1>1, <1>2 DEF AllSettled
  <2>1. Settled(r)
    BY <1>1, <1>10 DEF BatchInv, AllSettled
  <2>2. validations'[r] = validations[r] /\ solutions'[r] = solutions[r]
    BY <1>1, <1>2
  <2> QED
    BY <1>2, <2>1, <2>2 DEF Settled, Results, TasksOf, UpTo, Nones
<1> QED
  BY <1>1, <1>2, <1>6, <1>7, <1>8, <1>9, <1>11, <1>12 DEF BatchInv

\* The pool returns.
LEMMA ReturnStep ==
  ASSUME TypeInv, BatchInv, PoolReturns
  PROVE  BatchInv'
<1>1. /\ pc = "running" /\ pc' = "merge" /\ done' \subseteq waiting /\ waiting' = {}
      /\ everDone' = everDone \cup done' /\ lost' = lost \cup (waiting \ done')
      /\ todo' = todo /\ batch' = batch /\ solutions' = solutions /\ validations' = validations
      /\ total' = total /\ target' = target /\ scope' = scope /\ pattern' = pattern
  BY DEF PoolReturns, inputVars
<1>2. /\ \A t \in waiting : t.ridx \in batch \cap scope
      /\ \A r \in batch : TasksOf(r, everDone \cup lost) = {}
      /\ \A r \in batch \cap scope : Covers(r, TasksOf(r, waiting))
  BY <1>1 DEF BatchInv, Running
<1>3. everDone' \cup lost' = everDone \cup lost \cup waiting
  BY <1>1
<1>4. \A t \in everDone' \cup lost' : t.ridx \in scope
  BY <1>2, <1>3 DEF BatchInv
<1>5. Fresh'
  BY <1>1, <1>3 DEF BatchInv, Fresh, UpTo
<1>6. InBatch'
  BY <1>1 DEF BatchInv, InBatch, UpTo, Nones
<1>7. Running'
  BY <1>1 DEF Running
<1>8. Merging'
  <2>1. ASSUME NEW r \in batch
        PROVE  TasksOf(r, everDone') = TasksOf(r, done')
    <3>1. TasksOf(r, everDone) = {}
      BY <1>2 DEF TasksOf
    <3> QED
      BY <1>1, <3>1 DEF TasksOf
  <2> QED
    BY <1>1, <1>2, <2>1 DEF Merging, TasksOf
<1>9. AllCovered'
  <2> SUFFICES ASSUME NEW r \in scope, target[r] \notin todo
               PROVE  Covers(r, TasksOf(r, everDone' \cup lost'))
    BY <1>1 DEF AllCovered, Covers, TasksOf, Wanted
  <2>1. CASE r \in batch
    <3>1. TasksOf(r, everDone' \cup lost') = TasksOf(r, waiting)
      BY <1>2, <1>3, <2>1 DEF TasksOf
    <3> QED
      BY <1>2, <2>1, <3>1
  <2>2. CASE r \notin batch
    <3>1. TasksOf(r, everDone' \cup lost') = TasksOf(r, everDone \cup lost)
      BY <1>2, <1>3, <2>2 DEF TasksOf
    <3> QED
      BY <1>1, <2>2, <3>1 DEF BatchInv, AllCovered
  <2> QED
    BY <2>1, <2>2
<1>10. AllSettled'
  <2> SUFFICES ASSUME NEW r \in Ridxs, target[r] \notin todo, r \notin batch
               PROVE  Settled(r)'
    BY <1>1 DEF AllSettled
  <2>1. Settled(r)
    BY <1>1 DEF BatchInv, AllSettled
  <2>2. TasksOf(r, everDone') = TasksOf(r, everDone)
    BY <1>1, <1>2 DEF TasksOf
  <2>3. Results(r)' = Results(r)
    BY <2>2 DEF Results, TasksOf
  <2> QED
    BY <1>1, <2>1, <2>3 DEF Settled, UpTo, Nones
<1> QED
  BY <1>1, <1>4, <1>5, <1>6, <1>7, <1>8, <1>9, <1>10 DEF BatchInv

\* What the merge makes of one query.
LEMMA MergeOne ==
  ASSUME TypeInv, BatchInv, pc = "merge", NEW r \in Validated
  PROVE  LET vali == WithValidation(Merged(r), Merged(r))
             sol  == WithValidation(solutions[r], Merged(r))
         IN  /\ r \in batch \cap scope
             /\ Results(r) # {}
             /\ vali = sol
             /\ \A i, j \in 1..Len(sol) : i < j => sol[i] < sol[j]
             /\ Range(sol) = Results(r)
<1> DEFINE n == total[r]
           K == Results(r)
           vali == WithValidation(Merged(r), Merged(r))
           sol == WithValidation(solutions[r], Merged(r))
<1>1. r \in Ridxs /\ \E t \in done : t.ridx = r /\ t.sidxs # {}
  BY DEF Validated
<1>2. r \in batch \cap scope
  BY <1>1 DEF BatchInv, Merging
<1>3. TasksOf(r, everDone) = TasksOf(r, done)
  BY <1>2 DEF BatchInv, Merging
<1>4. Covers(r, TasksOf(r, everDone \cup lost))
  <2>1. target[r] \notin todo
    BY <1>1, <1>2 DEF BatchInv, Fresh
  <2> QED
    BY <1>2, <2>1 DEF BatchInv, AllCovered
<1>5. solutions[r] = UpTo(n) /\ validations[r] = Nones(r)
  BY <1>2 DEF BatchInv, InBatch
<1>6. n \in Nat /\ UpTo(n) \in [1..n -> Nat] /\ \A i \in 1..n : UpTo(n)[i] = i
  BY <1>1, Listed
<1>7. K \in SUBSET (1..n)
  <2>1. \A t \in TasksOf(r, everDone) : t.sidxs \subseteq Wanted(r)
    BY <1>4 DEF Covers, TasksOf
  <2>2. Wanted(r) \subseteq 1..n
    BY DEF Wanted
  <2>3. \A t \in TasksOf(r, everDone) : t.sidxs \subseteq 1..n
    BY <2>1, <2>2
  <2> HIDE DEF n
  <2> QED
    BY <2>3 DEF Results
<1>8. K # {}
  <2>1. PICK t \in TasksOf(r, done) : t.sidxs # {}
    BY <1>1 DEF TasksOf
  <2> QED
    BY <1>3, <2>1 DEF Results
<1>9. Merged(r) = [s \in 1..n |-> IF s \in K THEN s ELSE None]
  <2>1. \A s : (\E t \in done : t.ridx = r /\ s \in t.sidxs) <=> s \in K
    <3>1. K = UNION { t.sidxs : t \in TasksOf(r, done) }
      BY <1>3 DEF Results
    <3> QED
      BY <3>1 DEF TasksOf
  <2>2. DOMAIN validations[r] = 1..n /\ \A s \in 1..n : validations[r][s] = None
    BY <1>5 DEF Nones
  <2> HIDE DEF K, n
  <2> QED
    BY <2>1, <2>2 DEF Merged
<1>10. \A i \in 1..n : i \in K <=> Merged(r)[i] # None
  <2>1. \A i \in 1..n : i # None
    BY <1>6 DEF None
  <2> HIDE DEF K
  <2> QED
    BY <1>7, <1>9, <2>1
<1>11. /\ Merged(r) \in [1..n -> Nat]
       /\ \A i \in K : Merged(r)[i] = i
  <2> HIDE DEF K
  <2> QED
    BY <1>6, <1>7, <1>9 DEF None
<1> HIDE DEF n, K
<1>12. IsListOf(vali, K)
  <2> DEFINE valis == Merged(r)
  <2>1. valis \in [1..n -> Nat] /\ \A i \in K : valis[i] = i
    BY <1>11
  <2>2. \A i \in 1..n : i \in K <=> valis[i] # None
    BY <1>10
  <2> HIDE DEF valis
  <2>3. IsListOf(WithValidation(valis, valis), K)
    BY <1>6, <1>7, <2>1, <2>2, ThinnedOut
  <2> QED
    BY <2>3 DEF valis
<1>13. IsListOf(sol, K)
  <2> DEFINE list == solutions[r]
             valis == Merged(r)
  <2>1. list \in [1..n -> Nat] /\ \A i \in K : list[i] = i
    BY <1>5, <1>6, <1>7
  <2>2. \A i \in 1..n : i \in K <=> valis[i] # None
    BY <1>10
  <2> HIDE DEF list, valis
  <2>3. IsListOf(WithValidation(list, valis), K)
    BY <1>6, <1>7, <2>1, <2>2, ThinnedOut
  <2> QED
    BY <2>3 DEF list, valis
<1> HIDE DEF vali, sol
<1>14. vali = sol
  BY <1>12, <1>13 DEF IsListOf
<1> QED
  BY <1>2, <1>8, <1>13, <1>14 DEF K, vali, sol, IsListOf

\* The results are merged.
LEMMA MergeStep ==
  ASSUME TypeInv, BatchInv, RsltHandle
  PROVE  BatchInv'
<1>1. /\ pc = "merge" /\ pc' \in {"written", "split"} /\ (pc' = "written" => todo = {})
      /\ validations' = [r \in Ridxs |->
           IF r \in Validated THEN WithValidation(Merged(r), Merged(r)) ELSE validations[r]]
      /\ solutions' = [r \in Ridxs |->
           IF r \in Validated THEN WithValidation(solutions[r], Merged(r)) ELSE solutions[r]]
  BY DEF RsltHandle
<1>2. /\ todo' = todo /\ batch' = batch /\ waiting' = waiting /\ done' = done
      /\ everDone' = everDone /\ lost' = lost
      /\ total' = total /\ target' = target /\ scope' = scope /\ pattern' = pattern
  BY DEF RsltHandle, inputVars
<1>3. ASSUME NEW r \in Ridxs, r \notin batch
      PROVE  validations'[r] = validations[r] /\ solutions'[r] = solutions[r]
  <2>1. r \notin Validated
    BY <1>1, <1>3 DEF BatchInv, Merging, Validated
  <2> QED
    BY <1>1, <2>1
<1>4. Fresh'
  <2> SUFFICES ASSUME NEW r \in Ridxs, target[r] \in todo
               PROVE  /\ r \notin batch
                      /\ solutions'[r] = UpTo(total[r]) /\ validations'[r] = << >>
                      /\ \A t \in waiting \cup done \cup everDone \cup lost : t.ridx # r
    BY <1>2 DEF Fresh, UpTo
  <2> QED
    BY <1>3 DEF BatchInv, Fresh
<1>5. InBatch' /\ Running' /\ Merging'
  BY <1>1 DEF InBatch, Running, Merging
<1>6. AllCovered'
  <2> SUFFICES ASSUME NEW r \in scope, target[r] \notin todo
               PROVE  Covers(r, TasksOf(r, everDone \cup lost))
    BY <1>2 DEF AllCovered, Covers, TasksOf, Wanted
  <2> QED
    BY <1>1 DEF BatchInv, AllCovered
<1>7. AllSettled'
  <2> SUFFICES ASSUME NEW r \in Ridxs, target[r] \notin todo
               PROVE  Settled(r)'
    BY <1>2 DEF AllSettled
  <2>1. Results(r)' = Results(r) /\ UpTo(total[r])' = UpTo(total[r]) /\ Nones(r)' = Nones(r)
    BY <1>2 DEF Results, TasksOf, UpTo, Nones
  <2>2. CASE r \in Validated
    <3>1. /\ Results(r) # {}
          /\ validations'[r] = solutions'[r]
          /\ \A i, j \in 1..Len(solutions'[r]) : i < j => solutions'[r][i] < solutions'[r][j]
          /\ Range(solutions'[r]) = Results(r)
      <4>1. /\ validations'[r] = WithValidation(Merged(r), Merged(r))
            /\ solutions'[r] = WithValidation(solutions[r], Merged(r))
        BY <1>1, <2>2
      <4> QED
        BY <1>1, <2>2, <4>1, MergeOne
    <3> QED
      BY <2>1, <3>1 DEF Settled
  <2>3. CASE r \in batch \ Validated
    <3>1. validations'[r] = validations[r] /\ solutions'[r] = solutions[r]
      BY <1>1, <2>3
    <3>2. solutions[r] = UpTo(total[r]) /\ validations[r] \in {<< >>, Nones(r)}
      BY <1>1, <2>3 DEF BatchInv, InBatch
    <3>3. TasksOf(r, everDone) = TasksOf(r, done)
      BY <1>1, <2>3 DEF BatchInv, Merging
    <3>4. \A t \in TasksOf(r, done) : t.sidxs = {}
      BY <2>3 DEF TasksOf, Validated
    <3>5. Results(r) = {}
      BY <3>3, <3>4 DEF Results
    <3> QED
      BY <2>1, <3>1, <3>2, <3>5 DEF Settled
  <2>4. CASE r \notin batch
    <3>1. Settled(r)
      BY <1>1, <2>4 DEF BatchInv, AllSettled
    <3> QED
      BY <1>3, <2>1, <2>4, <3>1 DEF Settled
  <2>5. r \in Validated => r \in batch
    BY <1>1 DEF BatchInv, Merging, Validated
  <2> QED
    BY <2>2, <2>3, <2>4
<1> QED
  BY <1>1, <1>2, <1>4, <1>5, <1>6, <1>7 DEF BatchInv

\* Every step keeps the invariant, one case per action.
LEMMA BatchStep ==
  ASSUME TypeInv, BatchInv, [Next]_vars
  PROVE  BatchInv'
<1>1. ASSUME NEW projects \in SUBSET todo, Split(projects)
      PROVE  BatchInv'
  BY <1>1, SplitStep
<1>2. CASE PoolReturns
  BY <1>2, ReturnStep
<1>3. CASE PoolRaises
  <2>1. pc' = "raised"
    BY <1>3 DEF PoolRaises
  <2>2. /\ Fresh' /\ \A t \in everDone' \cup lost' : t.ridx \in scope'
    BY <1>3 DEF PoolRaises, inputVars, BatchInv, Fresh, UpTo
  <2>3. InBatch' /\ Running' /\ Merging' /\ AllCovered' /\ AllSettled'
    BY <2>1 DEF InBatch, Running, Merging, AllCovered, AllSettled
  <2> QED
    BY <2>1, <2>2, <2>3 DEF BatchInv
<1>4. CASE RsltHandle
  BY <1>4, MergeStep
<1>5. CASE UNCHANGED vars
  <2>1. /\ Fresh' /\ InBatch' /\ Running' /\ Merging'
    BY <1>5 DEF vars, inputVars, BatchInv, Fresh, InBatch, Running, Merging, UpTo, Nones,
                TasksOf, Covers, Wanted
  <2>2. AllCovered'
    BY <1>5 DEF vars, inputVars, BatchInv, AllCovered, TasksOf, Covers, Wanted
  <2>3. AllSettled'
    <3> SUFFICES ASSUME NEW r \in Ridxs, Settled(r)
                 PROVE  Settled(r)'
      BY <1>5 DEF vars, inputVars, BatchInv, AllSettled
    <3> QED
      BY <1>5 DEF vars, inputVars, Settled, Results, TasksOf, UpTo, Nones
  <2> QED
    BY <1>5, <2>1, <2>2, <2>3 DEF vars, inputVars, BatchInv
<1> QED
  BY <1>1, <1>2, <1>3, <1>4, <1>5 DEF Next, Ended

\* The inductive invariant holds throughout.
LEMMA Invariance == Spec => [](TypeInv /\ BatchInv)
<1>1. Init => TypeInv /\ BatchInv
  BY TypeInit, BatchInit
<1>2. TypeInv /\ BatchInv /\ [Next]_vars => TypeInv' /\ BatchInv'
  BY TypeStep, BatchStep
<1> QED
  BY <1>1, <1>2, PTL DEF Spec

-----------------------------------------------------------------------------
(***************************************************************************)
(* The theorems.                                                           *)
(***************************************************************************)

\* At the end every query is settled.
LEMMA AtTheEnd ==
  ASSUME BatchInv, pc = "written"
  PROVE  /\ \A r \in Ridxs : Settled(r)
         /\ \A r \in Ridxs \cap scope : Covers(r, TasksOf(r, everDone \cup lost))
  BY DEF BatchInv, AllSettled, AllCovered

\* In the output each query with a result has its solutions and validations
\* at the same positions and in the order of the input, however the tasks
\* were cut and merged, over all batches.
THEOREM OutputPaired == Spec => []OutputIsPaired
<1>1. TypeInv /\ BatchInv => OutputIsPaired
  <2> SUFFICES ASSUME TypeInv, BatchInv, pc = "written", NEW t \in everDone, t.sidxs # {}
               PROVE  /\ validations[t.ridx] = solutions[t.ridx]
                      /\ \A i, j \in 1..Len(solutions[t.ridx]) :
                           i < j => solutions[t.ridx][i] < solutions[t.ridx][j]
    BY DEF OutputIsPaired
  <2>1. t.ridx \in Ridxs
    BY DEF TypeInv, Task
  <2>2. Settled(t.ridx)
    BY <2>1, AtTheEnd
  <2>3. Results(t.ridx) # {}
    BY DEF Results, TasksOf
  <2> QED
    BY <2>2, <2>3 DEF Settled
<1> QED
  BY <1>1, Invariance, PTL

\* What the pool did not lose is in the output, what matches and is missing
\* from it was in exactly one task, a lost one, and a None is left only
\* where nothing came back.
THEOREM OnlyLosses == Spec => []OnlyLossesShow
<1>1. ASSUME TypeInv, BatchInv
      PROVE  DoneIsInOutput
  <2> SUFFICES ASSUME pc = "written", NEW t \in everDone, NEW s \in t.sidxs
               PROVE  s \in Range(validations[t.ridx])
    BY DEF DoneIsInOutput
  <2>1. t.ridx \in Ridxs
    BY <1>1 DEF TypeInv, Task
  <2>2. Settled(t.ridx)
    BY <1>1, <2>1, AtTheEnd
  <2>3. s \in Results(t.ridx)
    BY DEF Results, TasksOf
  <2> QED
    BY <2>2, <2>3 DEF Settled
<1>2. ASSUME TypeInv, BatchInv
      PROVE  OnlyLostAreDropped
  <2> SUFFICES ASSUME pc = "written", NEW r \in scope, NEW s \in pattern \cap (1..total[r])
               PROVE  /\ Cardinality({ t \in everDone \cup lost : t.ridx = r /\ s \in t.sidxs }) = 1
                      /\ s \in Range(solutions[r]) \/ \E t \in lost : t.ridx = r /\ s \in t.sidxs
    BY DEF OnlyLostAreDropped
  <2>1. r \in Ridxs /\ s \in Wanted(r)
    BY <1>2 DEF TypeInv, Wanted
  <2>2. Settled(r) /\ Covers(r, TasksOf(r, everDone \cup lost))
    BY <1>2, <2>1, AtTheEnd
  <2>3. PICK t \in TasksOf(r, everDone \cup lost) :
          { u \in TasksOf(r, everDone \cup lost) : s \in u.sidxs } = {t}
    BY <2>1, <2>2 DEF Covers
  <2>4. { u \in everDone \cup lost : u.ridx = r /\ s \in u.sidxs } = {t}
    BY <2>3 DEF TasksOf
  <2>5. Cardinality({t}) = 1
    BY FS_Singleton
  <2>6. t \in everDone \cup lost /\ t.ridx = r /\ s \in t.sidxs
    BY <2>4
  <2>7. ASSUME t \in everDone
        PROVE  s \in Range(solutions[r])
    <3>1. s \in Results(r)
      BY <2>6, <2>7 DEF Results, TasksOf
    <3> QED
      BY <2>2, <3>1 DEF Settled
  <2> QED
    BY <2>4, <2>5, <2>6, <2>7
<1>3. ASSUME TypeInv, BatchInv
      PROVE  NoneOnlyIfNothingDone
  <2> SUFFICES ASSUME pc = "written", NEW r \in Ridxs, None \in Range(validations[r])
               PROVE  /\ \A t \in everDone : t.ridx = r => t.sidxs = {}
                      /\ solutions[r] = UpTo(total[r])
                      /\ Range(validations[r]) = {None}
    BY DEF NoneOnlyIfNothingDone
  <2>1. Settled(r)
    BY <1>3, AtTheEnd
  <2>2. None \notin Results(r)
    <3>1. None \notin Sidxs
      BY BatchAssumption DEF None, Sidxs
    <3>2. \A t \in everDone : t.sidxs \subseteq Sidxs
      BY <1>3 DEF TypeInv, Task
    <3> QED
      BY <3>1, <3>2 DEF Results, TasksOf
  <2>3. Results(r) = {}
    BY <2>1, <2>2 DEF Settled
  <2>4. solutions[r] = UpTo(total[r]) /\ validations[r] \in {<< >>, Nones(r)}
    BY <2>1, <2>3 DEF Settled
  <2>5. \A t \in everDone : t.ridx = r => t.sidxs = {}
    BY <2>3 DEF Results, TasksOf
  <2>6. validations[r] = Nones(r)
    <3>1. Range(<< >>) = {}
      BY DEF Range
    <3> QED
      BY <2>4, <3>1
  <2>7. Range(validations[r]) = {None}
    <3>1. \A i \in DOMAIN validations[r] : validations[r][i] = None
      BY <2>6 DEF Nones
    <3> QED
      BY <3>1 DEF Range
  <2> QED
    BY <2>4, <2>5, <2>7
<1>4. TypeInv /\ BatchInv => OnlyLossesShow
  BY <1>1, <1>2, <1>3 DEF OnlyLossesShow
<1> QED
  BY <1>4, Invariance, PTL

\* A batch neither begins nor merges anything of another batch's projects.
THEOREM OthersUntouched == Spec => OtherBatchesUntouched
<1> DEFINE Untouched == \A r \in Ridxs :
             solutions'[r] # solutions[r] \/ validations'[r] # validations[r] => r \in batch'
<1>1. TypeInv /\ BatchInv /\ [Next]_vars => [Untouched]_vars
  <2> SUFFICES ASSUME TypeInv, BatchInv, Next, NEW r \in Ridxs,
                      solutions'[r] # solutions[r] \/ validations'[r] # validations[r]
               PROVE  r \in batch'
    OBVIOUS
  <2>1. ASSUME NEW projects \in SUBSET todo, Split(projects)
        PROVE  r \in batch'
    BY <2>1 DEF Split
  <2>2. ~PoolReturns /\ ~PoolRaises /\ ~Ended
    BY DEF PoolReturns, PoolRaises, Ended, vars
  <2>3. ASSUME RsltHandle
        PROVE  r \in batch'
    <3>1. r \in Validated
      BY <2>3 DEF RsltHandle
    <3>2. pc = "merge" /\ batch' = batch
      BY <2>3 DEF RsltHandle
    <3> QED
      BY <3>1, <3>2 DEF BatchInv, Merging, Validated
  <2> QED
    BY <2>1, <2>2, <2>3 DEF Next
<1> QED
  BY <1>1, Invariance, PTL DEF Spec, OtherBatchesUntouched

=============================================================================
