--------------------------- MODULE ModelQueryProofs ---------------------------
(***************************************************************************)
(* What is proved of a query for every limit, every set of prompts and     *)
(* every answer, of any length: its types, that the generated prompt is    *)
(* the one that is sent, and what the solution is.  The last of them is    *)
(* about operators on sequences, so most of the lemmas are.                *)
(*                                                                         *)
(* Where an induction is needed it is over a set of numbers (Induction)    *)
(* and rests on the least element of such a set (LeastNatural).            *)
(***************************************************************************)
EXTENDS ModelQuery, FiniteSetTheorems, SequenceTheorems, WellFoundedInduction, TLAPS

(***************************************************************************)
(* Numbers.                                                                *)
(***************************************************************************)

\* A set of naturals has a least element.
LEMMA LeastNatural ==
  ASSUME NEW T \in SUBSET Nat, T # {}
  PROVE  \E m \in T : \A k \in T : m <= k
<1>1. PICK m \in T : \A y \in T : ~(<<y, m>> \in OpToRel(<, Nat))
  BY WFMin, NatLessThanWellFounded
<1>2. \A y \in T : ~(y < m)
  BY <1>1 DEF OpToRel
<1> QED
  BY <1>2

\* Induction up to n: a set with 0, and with the successor of each of its
\* members below n, has all numbers up to n.
LEMMA Induction ==
  ASSUME NEW n \in Nat, NEW S, 0 \in S, \A m \in 0..(n - 1) : m \in S => m + 1 \in S
  PROVE  \A m \in 0..n : m \in S
<1> SUFFICES ASSUME (0..n) \ S # {}
             PROVE  FALSE
  OBVIOUS
<1> DEFINE T == (0..n) \ S
<1>0. T \in SUBSET Nat /\ T # {}
  OBVIOUS
<1>1. PICK m \in T : \A k \in T : m <= k
  BY <1>0, LeastNatural
<1>2. m # 0 /\ m - 1 \in 0..(n - 1)
  BY <1>1
<1>3. m - 1 \in S
  BY <1>1, <1>2
<1> QED
  BY <1>1, <1>2, <1>3

\* Min and Max of a set of positions.
LEMMA MinOfPositions ==
  ASSUME NEW T \in SUBSET Nat, T # {}
  PROVE  Min(T) \in T /\ \A k \in T : Min(T) <= k
BY LeastNatural DEF Min

LEMMA MaxOfPositions ==
  ASSUME NEW n \in Nat, NEW T \in SUBSET (0..n), T # {}
  PROVE  Max(T) \in T /\ \A k \in T : k <= Max(T)
<1> DEFINE Below == { n - k : k \in T }
<1>1. \A k \in T : n - k \in Nat /\ k \in Nat
  OBVIOUS
<1>5. Below \in SUBSET Nat /\ Below # {}
  BY <1>1
<1>2. PICK b \in Below : \A c \in Below : b <= c
  BY <1>5, LeastNatural
<1>3. PICK m \in T : b = n - m
  OBVIOUS
<1>4. \A k \in T : m >= k
  <2> SUFFICES ASSUME NEW k \in T PROVE m >= k
    OBVIOUS
  <2>1. n - m <= n - k
    BY <1>2, <1>3
  <2> QED
    BY <1>1, <2>1
<1> QED
  BY <1>1, <1>4 DEF Max

-----------------------------------------------------------------------------
(***************************************************************************)
(* Shrink.                                                                 *)
(***************************************************************************)

\* Without(p, i, end) is p without its lines from i up to, but not with, end.
LEMMA WithoutLines ==
  ASSUME NEW p \in Seq(LineKinds), NEW i \in 1..Len(p), NEW end \in i..Len(p)
  PROVE  /\ Without(p, i, end) \in Seq(LineKinds)
         /\ Len(Without(p, i, end)) = Len(p) - (end - i)
<1>1. /\ SubSeq(p, 1, i - 1) \in Seq(LineKinds) /\ Len(SubSeq(p, 1, i - 1)) = i - 1
      /\ SubSeq(p, end, Len(p)) \in Seq(LineKinds)
      /\ Len(SubSeq(p, end, Len(p))) = Len(p) - end + 1
  BY SubSeqProperties
<1> QED
  BY <1>1, ConcatProperties DEF Without

\* The end of a cut is the first declaration after the first line of usage, and
\* its start is between the two.
LEMMA CutsAreInExample ==
  ASSUME NEW p \in Seq(LineKinds), EndsOf(p) # {}
  PROVE  /\ Min(Starts(p)) \in 1..Len(p) /\ Min(EndsOf(p)) \in Min(Starts(p))..Len(p)
         /\ Cuts(p) = { <<i, Min(EndsOf(p))>> : i \in Min(Starts(p))..Min(EndsOf(p)) }
<1> DEFINE start == Min(Starts(p))
           end   == Min(EndsOf(p))
<1>1. Starts(p) \in SUBSET Nat /\ Starts(p) # {} /\ EndsOf(p) \in SUBSET Nat
  BY DEF Starts, EndsOf
<1>2. /\ start \in Starts(p) /\ \A k \in Starts(p) : start <= k
      /\ end \in EndsOf(p) /\ \A k \in EndsOf(p) : end <= k
  BY <1>1, MinOfPositions
<1>3. start \in 1..Len(p) /\ end \in start..Len(p) /\ p[end] = "decl" /\ p[start] = "usage"
  <2>1. DOMAIN p = 1..Len(p) /\ Len(p) \in Nat
    OBVIOUS
  <2>2. start \in 1..Len(p) /\ p[start] = "usage"
    BY <1>2, <2>1 DEF Starts
  <2>3. end \in 1..Len(p) /\ p[end] = "decl" /\ \E i \in Starts(p) : i <= end
    BY <1>2, <2>1 DEF EndsOf
  <2>4. start <= end
    BY <1>1, <1>2, <2>2, <2>3
  <2> QED
    BY <2>1, <2>2, <2>3, <2>4
<1>4. ASSUME NEW i \in 1..Len(p), NEW j \in 1..Len(p), IsCut(p, i, j)
      PROVE  j = end /\ i \in start..end
  <2>1. PICK n \in 1..i : p[n] = "usage"
    BY <1>4 DEF IsCut
  <2>2. n \in Starts(p) /\ i <= j /\ p[j] = "decl" /\ start <= n
    BY <1>2, <1>4, <2>1 DEF IsCut, Starts
  <2>3. j \in EndsOf(p)
    BY <2>2, <1>1 DEF EndsOf
  <2>4. ~(end < j)
    <3> SUFFICES ASSUME end < j PROVE FALSE
      OBVIOUS
    <3>1. end \in 1..(j - 1) /\ start \in 1..end
      BY <1>3
    <3> QED
      BY <1>3, <1>4, <3>1 DEF IsCut
  <2> QED
    BY <1>2, <1>3, <2>2, <2>3, <2>4
<1>5. ASSUME NEW i \in start..end
      PROVE  i \in 1..Len(p) /\ end \in 1..Len(p) /\ IsCut(p, i, end)
  <2>1. i \in 1..Len(p) /\ end \in 1..Len(p) /\ i <= end /\ start \in 1..i
    BY <1>3
  <2>2. ASSUME NEW n \in 1..(end - 1), p[n] = "decl", NEW m \in 1..n, p[m] = "usage"
        PROVE  FALSE
    <3>1. n \in 1..Len(p) /\ m \in Starts(p) /\ m <= n
      BY <1>3, <2>2 DEF Starts
    <3>2. n \in EndsOf(p)
      BY <2>2, <3>1 DEF EndsOf
    <3> QED
      BY <1>2, <1>3, <3>2
  <2> QED
    BY <1>3, <2>1, <2>2 DEF IsCut
<1> HIDE DEF start, end
<1>6. Cuts(p) = { <<i, end>> : i \in start..end }
  BY <1>4, <1>5 DEF Cuts
<1> QED
  BY <1>3, <1>6 DEF start, end

\* shrink_query_usage_if_can leaves a prompt that fits, or that no cut of its
\* example would make fit, alone; of all other prompts it leaves the longest
\* that fits and lacks only lines of the example.
THEOREM ShrinkLeavesTheMost ==
  ASSUME NEW p \in Seq(LineKinds)
  PROVE  ShrinkIsLeast(p)
<1>1. CASE Fits(p)
  BY <1>1 DEF ShrinkIsLeast, Shrink
<1>2. CASE ~Fits(p) /\ EndsOf(p) = {}
  <2>1. Shrink(p) = p
    BY <1>2 DEF Shrink
  <2>2. Cuts(p) = {}
    <3> SUFFICES ASSUME NEW i \in 1..Len(p), NEW j \in 1..Len(p), IsCut(p, i, j)
                 PROVE  FALSE
      BY DEF Cuts
    <3>1. PICK n \in 1..i : p[n] = "usage"
      BY DEF IsCut
    <3>2. n \in Starts(p) /\ n <= j /\ p[j] = "decl"
      BY <3>1 DEF IsCut, Starts
    <3> QED
      BY <1>2, <3>2 DEF EndsOf
  <2> QED
    BY <1>2, <2>1, <2>2 DEF ShrinkIsLeast, FittingCuts
<1>3. CASE ~Fits(p) /\ EndsOf(p) # {}
  <2> DEFINE start == Min(Starts(p))
             end   == Min(EndsOf(p))
             cuts  == { i \in start..end : Fits(Without(p, i, end)) }
  <2>1. /\ start \in 1..Len(p) /\ end \in start..Len(p) /\ Len(p) \in Nat
        /\ Cuts(p) = { <<i, end>> : i \in start..end }
    BY <1>3, CutsAreInExample
  <2>2. Shrink(p) = IF cuts = {} THEN p ELSE Without(p, Max(cuts), end)
    BY <1>3 DEF Shrink
  <2> HIDE DEF start, end
  <2>3. FittingCuts(p) = { Without(p, i, end) : i \in cuts }
    <3>1. ASSUME NEW q \in FittingCuts(p)
          PROVE  \E i \in cuts : q = Without(p, i, end)
      <4>1. PICK c \in Cuts(p) : q = Without(p, c[1], c[2]) /\ Fits(q)
        BY DEF FittingCuts
      <4>2. PICK i \in start..end : c = <<i, end>>
        BY <2>1
      <4>3. q = Without(p, i, end)
        BY <4>1, <4>2
      <4> QED
        BY <4>1, <4>3
    <3>2. ASSUME NEW i \in cuts
          PROVE  Without(p, i, end) \in FittingCuts(p)
      <4> DEFINE c == <<i, end>>
      <4>1. c \in Cuts(p) /\ c[1] = i /\ c[2] = end
        BY <2>1
      <4>2. Without(p, c[1], c[2]) \in FittingCuts(p)
        <5> HIDE DEF c
        <5> QED
          BY <4>1 DEF FittingCuts
      <4> QED
        BY <4>1, <4>2
    <3> QED
      BY <3>1, <3>2
  <2>4. CASE cuts = {}
    BY <1>3, <2>2, <2>3, <2>4 DEF ShrinkIsLeast
  <2>5. CASE cuts # {}
    <3>1. cuts \in SUBSET (0..end) /\ end \in Nat
      BY <2>1
    <3>2. Max(cuts) \in cuts /\ \A k \in cuts : k <= Max(cuts)
      BY <2>5, <3>1, MaxOfPositions
    <3>3. \A i \in cuts : i \in Nat /\ Len(Without(p, i, end)) = Len(p) - (end - i)
      <4> SUFFICES ASSUME NEW i \in cuts
                   PROVE  i \in Nat /\ Len(Without(p, i, end)) = Len(p) - (end - i)
        OBVIOUS
      <4>1. i \in 1..Len(p) /\ end \in i..Len(p)
        BY <2>1
      <4> QED
        BY <4>1, WithoutLines
    <3>4. \A i \in cuts : Len(Without(p, i, end)) <= Len(Without(p, Max(cuts), end))
      BY <2>1, <3>1, <3>2, <3>3
    <3> HIDE DEF cuts
    <3> QED
      BY <1>3, <2>2, <2>3, <2>5, <3>2, <3>4 DEF ShrinkIsLeast
  <2> QED
    BY <2>4, <2>5
<1> QED
  BY <1>1, <1>2, <1>3

-----------------------------------------------------------------------------
(***************************************************************************)
(* The blocks of an improved answer.                                       *)
(***************************************************************************)

\* Where a block from i on ends, of a set of fences F in 1..n.
EndIn(F, i, n) ==
  LET later == { j \in F : j > i }
  IN  IF later = {} THEN n ELSE Min(later) - 1

\* It is before the next fence or at the end, and there is no other such place.
LEMMA EndsIn ==
  ASSUME NEW n \in Nat, NEW F \in SUBSET (1..n), NEW i \in 1..n
  PROVE  /\ EndIn(F, i, n) \in i..n
         /\ \A k \in (i + 1)..EndIn(F, i, n) : k \notin F
         /\ EndIn(F, i, n) = n \/ EndIn(F, i, n) + 1 \in F
         /\ \A to \in (i + 1)..n :
              (\A k \in (i + 1)..to : k \notin F) /\ (to = n \/ to + 1 \in F)
              => to = EndIn(F, i, n)
<1> DEFINE later == { j \in F : j > i }
           end   == EndIn(F, i, n)
<1>0. /\ \A k \in F : k \in 1..n
      /\ \A k \in 1..n : k > i <=> k \in (i + 1)..n
  OBVIOUS
<1>1. \A k : k \in later <=> k \in F /\ k \in (i + 1)..n
  <2> SUFFICES ASSUME NEW k
               PROVE  k \in later <=> k \in F /\ k \in (i + 1)..n
    OBVIOUS
  <2>1. k \in later <=> k \in F /\ k > i
    OBVIOUS
  <2> QED
    BY <1>0, <2>1
<1>2. /\ end \in i..n
      /\ \A k \in (i + 1)..end : k \notin later
      /\ end = n \/ end + 1 \in later
  <2>1. CASE later = {}
    <3>1. end = n
      BY <2>1 DEF EndIn
    <3> QED
      BY <2>1, <3>1
  <2>2. CASE later # {}
    <3>1. later \in SUBSET Nat
      BY <1>1
    <3>2. Min(later) \in later /\ \A k \in later : Min(later) <= k
      BY <2>2, <3>1, MinOfPositions
    <3>3. end = Min(later) - 1
      BY <2>2 DEF EndIn
    <3> HIDE DEF later, end
    <3>4. Min(later) \in (i + 1)..n
      BY <1>1, <3>2
    <3> DEFINE next == Min(later)
    <3>5. next \in (i + 1)..n /\ end = next - 1 /\ next \in later
          /\ \A k \in later : next <= k
      BY <3>2, <3>3, <3>4
    <3> HIDE DEF next
    <3> QED
      BY <3>5
  <2> QED
    BY <2>1, <2>2
<1> HIDE DEF later, end
<1>3. \A k \in (i + 1)..end : k \notin F
  BY <1>1, <1>2
<1>4. end = n \/ end + 1 \in F
  BY <1>1, <1>2
<1>5. ASSUME NEW to \in (i + 1)..n, \A k \in (i + 1)..to : k \notin F, to = n \/ to + 1 \in F
      PROVE  to = end
  <2>1. ~(end < to)
    BY <1>2, <1>4, <1>5
  <2>2. ~(to < end)
    BY <1>2, <1>3, <1>5
  <2> QED
    BY <1>2, <2>1, <2>2
<1> QED
  BY <1>2, <1>3, <1>4, <1>5 DEF end

\* The same of a block of an answer.
LEMMA BlockEnds ==
  ASSUME NEW a \in Seq(PieceKinds), NEW i \in FencesOf(a)
  PROVE  /\ i \in 1..Len(a) /\ a[i] \in Fences
         /\ BlockEnd(a, i) \in i..Len(a)
         /\ \A k \in (i + 1)..BlockEnd(a, i) : a[k] \notin Fences
         /\ BlockEnd(a, i) = Len(a) \/ a[BlockEnd(a, i) + 1] \in Fences
         /\ \A to \in (i + 1)..Len(a) :
              (\A k \in (i + 1)..to : a[k] \notin Fences) /\ (to = Len(a) \/ a[to + 1] \in Fences)
              => to = BlockEnd(a, i)
<1> DEFINE n == Len(a)
           F == FencesOf(a)
           end == EndIn(F, i, n)
<1>1. n \in Nat /\ F \in SUBSET (1..n) /\ i \in 1..n /\ a[i] \in Fences
  BY DEF FencesOf
<1>2. \A k \in 1..n : a[k] \in Fences <=> k \in F
  BY <1>1 DEF FencesOf
<1>3. BlockEnd(a, i) = end
  BY DEF BlockEnd, EndIn
<1> HIDE DEF n, F, end
<1>4. /\ end \in i..n
      /\ \A k \in (i + 1)..end : k \notin F
      /\ end = n \/ end + 1 \in F
      /\ \A to \in (i + 1)..n :
           (\A k \in (i + 1)..to : k \notin F) /\ (to = n \/ to + 1 \in F) => to = end
  BY <1>1, EndsIn DEF end
<1>5. \A k \in (i + 1)..end : a[k] \notin Fences
  BY <1>1, <1>2, <1>4
<1>6. end = n \/ a[end + 1] \in Fences
  <2>1. CASE end = n
    BY <2>1
  <2>2. CASE end + 1 \in F
    BY <1>1, <1>2, <2>2
  <2> QED
    BY <1>4, <2>1, <2>2
<1>7. ASSUME NEW to \in (i + 1)..n, \A k \in (i + 1)..to : a[k] \notin Fences,
             to = n \/ a[to + 1] \in Fences
      PROVE  to = end
  <2>1. \A k \in (i + 1)..to : k \notin F
    BY <1>1, <1>2, <1>7
  <2>2. to = n \/ to + 1 \in F
    BY <1>1, <1>2, <1>7
  <2> QED
    BY <1>4, <2>1, <2>2
<1> QED
  BY <1>1, <1>3, <1>4, <1>5, <1>6, <1>7 DEF n

\* A fence opens a block iff it is an odd one.
LEMMA OddFencesOpen ==
  ASSUME NEW a \in Seq(PieceKinds), NEW i \in FencesOf(a)
  PROVE  i \in Opening(a) <=> Cardinality({ j \in 1..i : a[j] \in Fences }) % 2 = 1
<1> DEFINE Before == { j \in FencesOf(a) : j < i }
           UpTo   == { j \in 1..i : a[j] \in Fences }
<1>1. Len(a) \in Nat /\ DOMAIN a = 1..Len(a) /\ i \in 1..Len(a) /\ a[i] \in Fences
  BY DEF FencesOf
<1>2. UpTo = Before \cup {i} /\ i \notin Before
  <2>1. ASSUME NEW j \in UpTo
        PROVE  j \in Before \cup {i}
    BY <1>1 DEF FencesOf
  <2>2. ASSUME NEW j \in Before
        PROVE  j \in UpTo
    BY <1>1 DEF FencesOf
  <2>3. i \in UpTo /\ i \notin Before
    BY <1>1
  <2> QED
    BY <2>1, <2>2, <2>3
<1>3. IsFiniteSet(Before)
  <2>1. Before \subseteq 1..i
    BY <1>1, <1>2
  <2>2. IsFiniteSet(1..i)
    BY <1>1, FS_Interval
  <2> QED
    BY <2>1, <2>2, FS_Subset
<1>4. Cardinality(UpTo) = Cardinality(Before) + 1 /\ Cardinality(Before) \in Nat
  BY <1>2, <1>3, FS_AddElement, FS_CardinalityType
<1>5. i \in Opening(a) <=> Cardinality(Before) % 2 = 0
  BY DEF Opening
<1> HIDE DEF Before, UpTo
<1>6. \A n \in Nat : n % 2 = 0 <=> (n + 1) % 2 = 1
  OBVIOUS
<1> QED
  BY <1>4, <1>5, <1>6 DEF UpTo

\* A block has a driver iff one of its pieces is one.
LEMMA BlockHasDriver ==
  ASSUME NEW a \in Seq(PieceKinds), NEW i \in FencesOf(a)
  PROVE  HasDriver(Block(a, i)) <=> \E k \in (i + 1)..BlockEnd(a, i) : a[k] = "driver"
<1> DEFINE end == BlockEnd(a, i)
<1>1. Len(a) \in Nat /\ i \in 1..Len(a) /\ end \in i..Len(a)
  BY BlockEnds
<1> HIDE DEF end
<1> DEFINE b == SubSeq(a, i + 1, end)
<1>2. \A k \in (i + 1)..end : a[k] \in PieceKinds
  BY <1>1, ElementOfSeq
<1>3. i + 1 \in Int /\ end \in Int
  BY <1>1
<1>4. /\ b \in Seq(PieceKinds)
      /\ Len(b) = IF i + 1 <= end THEN end - (i + 1) + 1 ELSE 0
      /\ \A m \in 1..(end - (i + 1) + 1) : b[m] = a[i + 1 + m - 1]
  BY <1>2, <1>3, SubSeqProperties
<1>5. DOMAIN b = 1..Len(b)
  BY <1>4
<1>6. Block(a, i) = b
  BY DEF Block, end
<1> HIDE DEF b
<1>7. DOMAIN b = 1..(end - i) /\ \A m \in 1..(end - i) : b[m] = a[i + m]
  BY <1>1, <1>4, <1>5
<1>8. ASSUME NEW m \in 1..(end - i), b[m] = "driver"
      PROVE  \E k \in (i + 1)..end : a[k] = "driver"
  <2>1. i + m \in (i + 1)..end /\ a[i + m] = "driver"
    BY <1>1, <1>7, <1>8
  <2> QED
    BY <2>1
<1>9. ASSUME NEW k \in (i + 1)..end, a[k] = "driver"
      PROVE  \E m \in 1..(end - i) : b[m] = "driver"
  <2>1. k - i \in 1..(end - i) /\ i + (k - i) = k
    BY <1>1
  <2>2. b[k - i] = a[i + (k - i)]
    BY <1>7, <2>1
  <2> QED
    BY <1>9, <2>1, <2>2
<1> QED
  BY <1>6, <1>7, <1>8, <1>9 DEF HasDriver, end

\* The stretches of code with a driver are the blocks with one.
LEMMA BlocksAreStretches ==
  ASSUME NEW a \in Seq(PieceKinds)
  PROVE  /\ \A i \in Opening(a) :
              HasDriver(Block(a, i)) => <<i + 1, BlockEnd(a, i)>> \in Stretches(a)
         /\ \A s \in Stretches(a) :
              /\ s[1] \in Nat /\ s[1] - 1 \in Opening(a)
              /\ HasDriver(Block(a, s[1] - 1)) /\ s[2] = BlockEnd(a, s[1] - 1)
<1>1. Len(a) \in Nat /\ DOMAIN a = 1..Len(a)
  OBVIOUS
<1>2. ASSUME NEW i \in Opening(a), HasDriver(Block(a, i))
      PROVE  <<i + 1, BlockEnd(a, i)>> \in Stretches(a)
  <2> DEFINE end == BlockEnd(a, i)
  <2>1. i \in FencesOf(a)
    BY DEF Opening
  <2>2. /\ i \in 1..Len(a) /\ a[i] \in Fences /\ end \in i..Len(a)
        /\ \A k \in (i + 1)..end : a[k] \notin Fences
        /\ end = Len(a) \/ a[end + 1] \in Fences
    BY <2>1, BlockEnds
  <2>3. PICK k \in (i + 1)..end : a[k] = "driver"
    BY <1>2, <2>1, BlockHasDriver
  <2>4. Cardinality({ j \in 1..i : a[j] \in Fences }) % 2 = 1
    BY <2>1, OddFencesOpen
  <2> HIDE DEF end
  <2>5. i + 1 \in 2..Len(a) /\ end \in 2..Len(a) /\ i + 1 <= end /\ (i + 1) - 1 = i
    <3>1. i \in 1..Len(a) /\ end \in i..Len(a) /\ k \in (i + 1)..end
      BY <2>2
    <3> DEFINE n == Len(a)
    <3>2. n \in Nat /\ i \in 1..n /\ end \in i..n
      BY <1>1, <3>1
    <3>3. k \in Int /\ i + 1 <= k /\ k <= end
      BY <3>2
    <3> HIDE DEF n
    <3>4. i + 1 \in 2..n /\ end \in 2..n /\ i + 1 <= end /\ (i + 1) - 1 = i
      BY <3>2, <3>3
    <3> QED
      BY <3>4 DEF n
  <2>6. IsCode(a, i + 1, end)
    BY <2>2, <2>3, <2>4, <2>5 DEF IsCode
  <2> DEFINE s == <<i + 1, end>>
  <2>7. s \in (2..Len(a)) \X (2..Len(a)) /\ s[1] = i + 1 /\ s[2] = end
    BY <2>5
  <2> HIDE DEF s
  <2>8. s \in Stretches(a)
    BY <2>5, <2>6, <2>7 DEF Stretches
  <2> QED
    BY <2>8 DEF s, end
<1>3. ASSUME NEW s \in Stretches(a)
      PROVE  /\ s[1] \in Nat /\ s[1] - 1 \in Opening(a)
             /\ HasDriver(Block(a, s[1] - 1)) /\ s[2] = BlockEnd(a, s[1] - 1)
  <2> DEFINE i == s[1] - 1
  <2>1. /\ s[1] \in 2..Len(a) /\ s[2] \in 2..Len(a) /\ s[1] <= s[2]
        /\ IsCode(a, s[1], s[2])
    BY DEF Stretches
  <2>2. i \in 1..Len(a) /\ s[1] = i + 1
    BY <1>1, <2>1
  <2> HIDE DEF i
  <2>3. /\ Cardinality({ j \in 1..i : a[j] \in Fences }) % 2 = 1
        /\ a[i] \in Fences
        /\ s[2] = Len(a) \/ a[s[2] + 1] \in Fences
        /\ \A k \in (i + 1)..s[2] : a[k] \notin Fences
        /\ \E k \in (i + 1)..s[2] : a[k] = "driver"
    BY <2>1, <2>2 DEF IsCode, i
  <2>4. i \in FencesOf(a)
    BY <1>1, <2>2, <2>3 DEF FencesOf
  <2>5. i \in Opening(a)
    BY <2>3, <2>4, OddFencesOpen
  <2>6. s[2] \in (i + 1)..Len(a)
    BY <1>1, <2>1, <2>2
  <2>7. s[2] = BlockEnd(a, i)
    BY <2>3, <2>4, <2>6, BlockEnds
  <2>8. HasDriver(Block(a, i))
    BY <2>3, <2>4, <2>7, BlockHasDriver
  <2> QED
    BY <1>1, <2>1, <2>5, <2>7, <2>8 DEF i
<1> QED
  BY <1>2, <1>3

\* The solution of an improvement is the last stretch of code with a driver in
\* it, or the mark that there is none.
LEMMA LastStretchIsFixed ==
  ASSUME NEW a \in Seq(PieceKinds), improving
  PROVE  \/ Fixed(a) = FailedToFix /\ Stretches(a) = {}
         \/ \E s \in Stretches(a) :
              /\ Fixed(a) = SubSeq(a, s[1], s[2])
              /\ \A o \in Stretches(a) : o[1] <= s[1]
<1> DEFINE blocks == { i \in Opening(a) : HasDriver(Block(a, i)) }
           last   == Max(blocks)
<1>1. Fixed(a) = IF blocks = {} THEN FailedToFix ELSE Block(a, last)
  BY DEF Fixed
<1>2. blocks \in SUBSET (0..Len(a)) /\ Len(a) \in Nat
  BY DEF Opening, FencesOf
<1>3. \A s \in Stretches(a) : s[1] \in Nat /\ s[1] - 1 \in blocks
  BY BlocksAreStretches
<1>4. CASE blocks = {}
  BY <1>1, <1>3, <1>4
<1>5. CASE blocks # {}
  <2>1. last \in blocks /\ \A k \in blocks : k <= last
    BY <1>2, <1>5, MaxOfPositions
  <2> DEFINE s == <<last + 1, BlockEnd(a, last)>>
  <2>2. s \in Stretches(a) /\ s[1] = last + 1 /\ s[2] = BlockEnd(a, last)
    BY <2>1, BlocksAreStretches
  <2>3. Fixed(a) = SubSeq(a, last + 1, BlockEnd(a, last))
    BY <1>1, <1>5 DEF Block
  <2>4. last \in Nat
    BY <1>2, <2>1
  <2> HIDE DEF s, last, blocks
  <2>5. \A o \in Stretches(a) : o[1] <= s[1]
    BY <1>3, <2>1, <2>2, <2>4
  <2> QED
    BY <2>2, <2>3, <2>5
<1> QED
  BY <1>4, <1>5

-----------------------------------------------------------------------------
(***************************************************************************)
(* The text of a first answer.                                             *)
(***************************************************************************)

\* What a step of the loop over the answer adds.
Kept(a, k, n) ==
  IF n = 0 THEN << >>
  ELSE IF a[n] \in Fences THEN k[n - 1] ELSE Append(k[n - 1], a[n])

\* Text is what the loop has kept at its end, for there is such a loop.
LEMMA TextIsKept ==
  ASSUME NEW a \in Seq(PieceKinds)
  PROVE  \E k : /\ k = [n \in 0..Len(a) |-> Kept(a, k, n)]
                /\ Text(a) = k[Len(a)]
<1> DEFINE IsLoop(k, m) == k = [n \in 0..m |-> Kept(a, k, n)]
           S == { m \in 0..Len(a) : \E k : IsLoop(k, m) }
<1>1. Len(a) \in Nat
  OBVIOUS
<1>2. 0 \in S
  <2> DEFINE k == [n \in 0..0 |-> << >>]
  <2>1. IsLoop(k, 0)
    BY DEF Kept
  <2> QED
    BY <1>1, <2>1
<1>3. ASSUME NEW m \in 0..(Len(a) - 1), m \in S
      PROVE  m + 1 \in S
  <2>1. PICK k : IsLoop(k, m)
    BY <1>3
  <2> DEFINE l == [n \in 0..(m + 1) |-> IF n = m + 1 THEN Kept(a, k, m + 1) ELSE k[n]]
  <2>2. ASSUME NEW n \in 0..(m + 1)
        PROVE  l[n] = Kept(a, l, n)
    <3>1. CASE n = m + 1
      <4>1. n - 1 \in 0..(m + 1) /\ n - 1 # m + 1
        BY <3>1
      <4>2. l[n - 1] = k[n - 1]
        BY <4>1
      <4> QED
        BY <3>1, <4>2 DEF Kept
    <3>2. CASE n # m + 1
      <4>1. n \in 0..m /\ l[n] = k[n] /\ (n # 0 => n - 1 \in 0..m)
        BY <3>2
      <4>2. n # 0 => l[n - 1] = k[n - 1]
        BY <4>1
      <4>3. k[n] = Kept(a, k, n)
        BY <2>1, <4>1
      <4> HIDE DEF l
      <4> QED
        BY <4>1, <4>2, <4>3 DEF Kept
    <3> QED
      BY <3>1, <3>2
  <2>3. IsLoop(l, m + 1)
    <3> DEFINE r == [n \in 0..(m + 1) |-> Kept(a, l, n)]
    <3>1. l = [n \in 0..(m + 1) |-> l[n]]
      OBVIOUS
    <3> HIDE DEF l
    <3> QED
      BY <2>2, <3>1
  <2>4. m + 1 \in 0..Len(a)
    BY <1>1
  <2> QED
    BY <2>3, <2>4
<1>4. Len(a) \in S
  <2> HIDE DEF S
  <2>1. \A m \in 0..Len(a) : m \in S
    BY <1>1, <1>2, <1>3, Induction
  <2> QED
    BY <1>1, <2>1
<1>5. \E k : IsLoop(k, Len(a))
  BY <1>4
<1> DEFINE f == CHOOSE k : IsLoop(k, Len(a))
<1>6. IsLoop(f, Len(a))
  BY <1>5
<1>7. Text(a) = f[Len(a)]
  BY DEF Text, Kept
<1> QED
  BY <1>6, <1>7

\* The pieces of an answer that are not fences are counted one by one.
LEMMA PlainCounts ==
  ASSUME NEW a, NEW n \in Nat
  PROVE  /\ Cardinality(Plain(a, n)) \in Nat
         /\ \A i \in Plain(a, n) : Cardinality(Plain(a, i)) \in 1..Cardinality(Plain(a, n))
         /\ IF a[n + 1] \in Fences THEN Plain(a, n + 1) = Plain(a, n)
            ELSE /\ Plain(a, n + 1) = Plain(a, n) \cup {n + 1}
                 /\ Cardinality(Plain(a, n + 1)) = Cardinality(Plain(a, n)) + 1
<1>1. ASSUME NEW m \in Nat
      PROVE  IsFiniteSet(Plain(a, m)) /\ Cardinality(Plain(a, m)) \in Nat
  <2>1. IsFiniteSet(1..m) /\ Plain(a, m) \subseteq 1..m
    BY FS_Interval DEF Plain
  <2> QED
    BY <2>1, FS_Subset, FS_CardinalityType
<1>2. ASSUME NEW i \in Plain(a, n)
      PROVE  Cardinality(Plain(a, i)) \in 1..Cardinality(Plain(a, n))
  <2>1. i \in Nat /\ i \in Plain(a, i) /\ Plain(a, i) \subseteq Plain(a, n)
    BY DEF Plain
  <2>2. Cardinality(Plain(a, i)) <= Cardinality(Plain(a, n))
    BY <1>1, <2>1, FS_Subset
  <2>3. Cardinality(Plain(a, i)) # 0
    BY <1>1, <2>1, FS_EmptySet
  <2> QED
    BY <1>1, <2>1, <2>2, <2>3
<1>3. IF a[n + 1] \in Fences THEN Plain(a, n + 1) = Plain(a, n)
      ELSE Plain(a, n + 1) = Plain(a, n) \cup {n + 1} /\ n + 1 \notin Plain(a, n)
  BY DEF Plain
<1>4. a[n + 1] \notin Fences
      => Cardinality(Plain(a, n) \cup {n + 1}) = Cardinality(Plain(a, n)) + 1
  BY <1>1, <1>3, FS_AddElement
<1> QED
  BY <1>1, <1>2, <1>3, <1>4

\* The text of an answer is all of it but the fences, in order.
LEMMA TextIsPlain ==
  ASSUME NEW a \in Seq(PieceKinds)
  PROVE  Text(a) \in Seq(PieceKinds) /\ IsPlainText(Text(a), a)
<1> DEFINE IsText(s, n) == /\ s \in Seq(PieceKinds)
                           /\ Len(s) = Cardinality(Plain(a, n))
                           /\ \A i \in Plain(a, n) : s[Cardinality(Plain(a, i))] = a[i]
<1>1. PICK k : k = [n \in 0..Len(a) |-> Kept(a, k, n)] /\ Text(a) = k[Len(a)]
  BY TextIsKept
<1> DEFINE S == { n \in 0..Len(a) : IsText(k[n], n) }
<1>2. Len(a) \in Nat
  OBVIOUS
<1>3. \A n \in 0..Len(a) : k[n] = Kept(a, k, n)
  BY <1>1
<1>4. 0 \in S
  <2>1. k[0] = << >>
    BY <1>2, <1>3 DEF Kept
  <2>2. Plain(a, 0) = {}
    BY DEF Plain
  <2>3. k[0] \in Seq(PieceKinds) /\ Len(k[0]) = 0 /\ Cardinality(Plain(a, 0)) = 0
    BY <2>1, <2>2, FS_EmptySet, EmptySeq
  <2>4. IsText(k[0], 0)
    BY <2>2, <2>3
  <2> QED
    BY <1>2, <2>4
<1>5. ASSUME NEW n \in 0..(Len(a) - 1), n \in S
      PROVE  n + 1 \in S
  <2> DEFINE s == k[n]
  <2>1. /\ n \in Nat /\ n + 1 \in 1..Len(a) /\ n + 1 \in 0..Len(a)
        /\ (n + 1) - 1 = n /\ n + 1 # 0
    BY <1>2
  <2>2. IsText(s, n)
    BY <1>5
  <2>3. k[n + 1] = IF a[n + 1] \in Fences THEN s ELSE Append(s, a[n + 1])
    BY <1>3, <2>1 DEF Kept
  <2>4. CASE a[n + 1] \in Fences
    <3>1. Plain(a, n + 1) = Plain(a, n)
      BY <2>1, <2>4, PlainCounts
    <3> QED
      BY <2>1, <2>2, <2>3, <2>4, <3>1
  <2>5. CASE a[n + 1] \notin Fences
    <3> DEFINE t == Append(s, a[n + 1])
    <3>1. /\ Cardinality(Plain(a, n)) \in Nat
          /\ \A i \in Plain(a, n) : Cardinality(Plain(a, i)) \in 1..Cardinality(Plain(a, n))
          /\ Plain(a, n + 1) = Plain(a, n) \cup {n + 1}
          /\ Cardinality(Plain(a, n + 1)) = Cardinality(Plain(a, n)) + 1
      BY <2>1, <2>5, PlainCounts
    <3>2. a[n + 1] \in PieceKinds
      BY <2>1, ElementOfSeq
    <3>3. /\ t \in Seq(PieceKinds) /\ Len(t) = Len(s) + 1
          /\ \A i \in 1..Len(s) : t[i] = s[i]
          /\ t[Len(s) + 1] = a[n + 1]
      BY <2>2, <3>2, AppendProperties
    <3> HIDE DEF t, s
    <3>4. ASSUME NEW i \in Plain(a, n + 1)
          PROVE  t[Cardinality(Plain(a, i))] = a[i]
      <4>1. CASE i \in Plain(a, n)
        BY <2>2, <3>1, <3>3, <4>1
      <4>2. CASE i = n + 1
        BY <2>2, <3>1, <3>3, <4>2
      <4> QED
        BY <3>1, <4>1, <4>2
    <3>5. IsText(t, n + 1)
      BY <2>2, <3>1, <3>3, <3>4
    <3> QED
      BY <2>1, <2>3, <2>5, <3>5 DEF t
  <2> QED
    BY <2>4, <2>5
<1>6. IsText(k[Len(a)], Len(a))
  <2> HIDE DEF S
  <2>1. \A n \in 0..Len(a) : n \in S
    BY <1>2, <1>4, <1>5, Induction
  <2>2. Len(a) \in S
    BY <1>2, <2>1
  <2> QED
    BY <2>2 DEF S
<1> QED
  BY <1>1, <1>6 DEF IsPlainText

\* A solution is text of the answer or the mark.
LEMMA FixedType ==
  ASSUME NEW a \in Seq(PieceKinds), improving \in BOOLEAN
  PROVE  Fixed(a) \in Seq(PieceKinds) \cup {FailedToFix}
<1>1. CASE ~improving
  BY <1>1, TextIsPlain DEF Fixed
<1>2. CASE improving
  <2>1. ASSUME NEW s \in Stretches(a)
        PROVE  SubSeq(a, s[1], s[2]) \in Seq(PieceKinds)
    <3>1. s[1] \in 2..Len(a) /\ s[2] \in 2..Len(a) /\ Len(a) \in Nat
      BY DEF Stretches
    <3>2. s[1] \in Int /\ s[2] \in Int /\ \A k \in s[1]..s[2] : k \in 1..Len(a)
      BY <3>1
    <3>3. \A k \in s[1]..s[2] : a[k] \in PieceKinds
      BY <3>2, ElementOfSeq
    <3> QED
      BY <3>2, <3>3, SubSeqProperties
  <2> QED
    BY <1>2, <2>1, LastStretchIsFixed
<1> QED
  BY <1>1, <1>2

-----------------------------------------------------------------------------
(***************************************************************************)
(* The query.                                                              *)
(***************************************************************************)

\* Until it is processed a query keeps the prompt it was generated with and has
\* no solution; from then on the solution is the one of its answer.
Asked ==
  pc \in {"shrink", "check", "ask", "again"} =>
    Fits(prompt) /\ current /\ solution = << >>

Underway ==
  /\ pc = "generate" => chosen = << >> /\ prompt = << >> /\ ~current /\ solution = << >>
  /\ pc \notin {"process", "done"} => status = "pending"

Processed ==
  /\ pc = "process" =>
       /\ solution = << >>
       /\ \/ status = "PromptExceedsLimit"
          \/ status = "FinishedNormally" /\ answer \in Answers
  /\ pc = "done" =>
       IF current THEN status = "FinishedNormally" /\ answer \in Answers /\ solution = Fixed(answer)
       ELSE solution = << >> /\ (status = "PromptExceedsLimit" \/ chosen = << >>)

QueryInv == TypeInv /\ GeneratedIsAsked /\ Asked /\ Underway /\ Processed

LEMMA QueryInvInit == Init => QueryInv
BY EmptySeq DEF Init, QueryInv, TypeInv, GeneratedIsAsked, Asked, Underway, Processed

LEMMA QueryInvNext == QueryInv /\ [Next]_vars => QueryInv'
<1> SUFFICES ASSUME QueryInv, [Next]_vars
             PROVE  QueryInv'
  OBVIOUS
<1>0. /\ Answers \subseteq Seq(PieceKinds)
      /\ \A gen \in Generated : \A p \in gen : p \in Seq(LineKinds)
  BY QueryAssumption
<1> USE DEF QueryInv, TypeInv, GeneratedIsAsked, Asked, Underway, Processed
<1>1. CASE GenerateNext
  <2>1. PICK gen \in Generated :
          \/ /\ pc' = "done"
             /\ UNCHANGED <<chosen, prompt, current>>
          \/ /\ chosen' \in gen /\ Fits(chosen')
             /\ prompt' = chosen' /\ current' = TRUE /\ pc' = "shrink"
    BY <1>1 DEF GenerateNext
  <2>2. pc = "generate" /\ UNCHANGED <<improving, answer, status, solution>>
    BY <1>1 DEF GenerateNext
  <2>3. CASE pc' = "done" /\ UNCHANGED <<chosen, prompt, current>>
    BY <2>2, <2>3
  <2>4. CASE /\ chosen' \in gen /\ Fits(chosen')
             /\ prompt' = chosen' /\ current' = TRUE /\ pc' = "shrink"
    <3>1. chosen' \in Seq(LineKinds) /\ Fits(prompt)'
      BY <1>0, <2>4 DEF Fits
    <3> QED
      BY <2>2, <2>4, <3>1
  <2> QED
    BY <2>1, <2>3, <2>4
<1>2. CASE ShrinkUsage
  <2>1. Shrink(prompt) = prompt
    BY <1>2 DEF ShrinkUsage, Shrink
  <2> QED
    BY <1>2, <2>1 DEF ShrinkUsage
<1>3. CASE CheckLength
  BY <1>3 DEF CheckLength
<1>4. CASE Answered
  BY <1>4 DEF Answered
<1>5. CASE TooLong
  BY <1>5 DEF TooLong
<1>6. CASE RequestFails
  BY <1>6 DEF RequestFails
<1>7. CASE AskAgain
  BY <1>7 DEF AskAgain
<1>8. CASE Process
  <2>1. answer \in Answers => Fixed(answer) \in Seq(PieceKinds) \cup {FailedToFix}
    BY <1>0, FixedType
  <2>2. answer' = answer /\ improving' = improving
    BY <1>8 DEF Process
  <2>3. Fixed(answer)' = Fixed(answer)
    BY <2>2 DEF Fixed
  <2> QED
    BY <1>8, <2>1, <2>3 DEF Process
<1>9. CASE UNCHANGED vars
  <2>1. Fixed(answer)' = Fixed(answer)
    BY <1>9 DEF vars, Fixed
  <2> QED
    BY <1>9, <2>1 DEF vars
<1> QED
  BY <1>1, <1>2, <1>3, <1>4, <1>5, <1>6, <1>7, <1>8, <1>9 DEF Next, Ended

LEMMA QueryInvHolds == Spec => []QueryInv
BY QueryInvInit, QueryInvNext, PTL DEF Spec

\* Every variable has its type.
THEOREM TypeCorrect == Spec => []TypeInv
BY QueryInvHolds, PTL DEF QueryInv

\* The prompt that is sent is the generated one, and no query is refused for its
\* length by the program itself.
THEOREM PromptIsAsked == Spec => []GeneratedIsAsked
BY QueryInvHolds, PTL DEF QueryInv

\* Of every answer of any length the solution is what it is for: the last
\* stretch of code with the driver in it, or all of the answer but the fences;
\* a query that failed has none.
THEOREM SolutionsAreFromAnswers == Spec => []SolutionIsFromAnswer
<1>1. QueryInv => SolutionIsFromAnswer
  <2> SUFFICES ASSUME QueryInv, pc = "done"
               PROVE  IF ~current
                      THEN solution = << >> /\ (chosen # << >> => status = "PromptExceedsLimit")
                      ELSE /\ status = "FinishedNormally"
                           /\ improving =>
                                \/ solution = FailedToFix /\ Stretches(answer) = {}
                                \/ \E s \in Stretches(answer) :
                                     /\ solution = SubSeq(answer, s[1], s[2])
                                     /\ \A o \in Stretches(answer) : o[1] <= s[1]
                           /\ ~improving => IsPlainText(solution, answer)
    BY DEF SolutionIsFromAnswer
  <2>1. CASE ~current
    BY <2>1 DEF QueryInv, Processed
  <2>2. CASE current
    <3>1. status = "FinishedNormally" /\ answer \in Answers /\ solution = Fixed(answer)
      BY <2>2 DEF QueryInv, Processed
    <3>2. answer \in Seq(PieceKinds)
      BY <3>1, QueryAssumption
    <3>3. ~improving => IsPlainText(solution, answer)
      BY <3>1, <3>2, TextIsPlain DEF Fixed
    <3> QED
      BY <2>2, <3>1, <3>2, <3>3, LastStretchIsFixed
  <2> QED
    BY <2>1, <2>2
<1> QED
  BY <1>1, QueryInvHolds, PTL

-----------------------------------------------------------------------------
(***************************************************************************)
(* What may keep a query from its end.                                     *)
(***************************************************************************)
Place ==
  [ loc \in {"generate", "shrink", "check", "ask", "again", "process", "done"} |->
      CASE loc = "generate" -> 1
        [] loc = "shrink"   -> 2
        [] loc = "check"    -> 3
        [] loc = "ask"      -> 4
        [] loc = "again"    -> 5
        [] loc = "process"  -> 6
        [] loc = "done"     -> 7 ]

\* The same request is sent once more: the prompt, and all that is known of the
\* query, is what it was.
SameRequest ==
  /\ pc = "again" /\ pc' = "ask"
  /\ UNCHANGED <<improving, chosen, prompt, answer, status, solution, current>>

\* A query only goes back for a request that failed, and then with nothing
\* changed.  Every other step advances it, so this loop of doquery, which has no
\* limit, is the only thing that can keep a query from its end.
THEOREM OnlyRequestsRepeat == Spec => [][SameRequest \/ Place[pc'] > Place[pc]]_vars
<1>1. Next => SameRequest \/ Place[pc'] > Place[pc] \/ UNCHANGED vars
  <2> SUFFICES ASSUME Next, ~UNCHANGED vars
               PROVE  SameRequest \/ Place[pc'] > Place[pc]
    OBVIOUS
  <2>0. /\ Place["generate"] = 1 /\ Place["shrink"] = 2 /\ Place["check"] = 3
        /\ Place["ask"] = 4 /\ Place["again"] = 5 /\ Place["process"] = 6
        /\ Place["done"] = 7
    BY DEF Place
  <2> HIDE DEF Place
  <2>1. CASE AskAgain
    BY <2>1 DEF AskAgain, SameRequest
  <2>2. CASE GenerateNext \/ ShrinkUsage \/ CheckLength \/ Answered \/ TooLong \/ RequestFails \/ Process
    <3>1. \/ pc = "generate" /\ pc' \in {"shrink", "done"}
          \/ pc = "shrink" /\ pc' = "check"
          \/ pc = "check" /\ pc' \in {"ask", "process"}
          \/ pc = "ask" /\ pc' \in {"again", "process"}
          \/ pc = "process" /\ pc' = "done"
      BY <2>2 DEF GenerateNext, ShrinkUsage, CheckLength, Answered, TooLong, RequestFails, Process
    <3> QED
      BY <2>0, <3>1
  <2> QED
    BY <2>1, <2>2 DEF Next, Ended
<1> QED
  BY <1>1, PTL DEF Spec
===============================================================================
