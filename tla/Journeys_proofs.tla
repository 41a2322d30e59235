--------------------------- MODULE Journeys_proofs ---------------------------
(***************************************************************************)
(* Proofs about journeys, for every number of clients, employees, days and *)
(* attendances, and every size of the chunks of run_batch.                 *)
(***************************************************************************)
EXTENDS Journeys, FiniteSetTheorems, NaturalsInduction, WellFoundedInduction, TLAPS

(***************************************************************************)
(* Lists                                                                   *)
(***************************************************************************)
LEMMA LeastNat ==
  ASSUME NEW T, T \subseteq Nat, T # {}
  PROVE  \E n \in T : \A m \in T : n <= m
<1>1. PICK x \in T : \A y \in T : ~ (<<y, x>> \in OpToRel(<, Nat))
  BY WFMin, NatLessThanWellFounded
<1>2. \A y \in T : ~(y < x)
  BY <1>1 DEF OpToRel
<1>3. \A y \in T : y \in Nat
  OBVIOUS
<1>4. \A y \in T : x <= y
  BY <1>2, <1>3
<1> QED
  BY <1>4

LEMMA SetInduction ==
  ASSUME NEW P, 0 \in P, \A n \in Nat : n \in P => n + 1 \in P
  PROVE  Nat \subseteq P
<1>1. SUFFICES ASSUME Nat \ P # {} PROVE FALSE
  OBVIOUS
<1>2. PICK n \in Nat \ P : \A m \in Nat \ P : n <= m
  BY <1>1, LeastNat
<1>3. n # 0 /\ n - 1 \in Nat /\ n - 1 \in P
  BY <1>2
<1>4. n - 1 + 1 \in P
  BY <1>3
<1> QED
  BY <1>2, <1>4

(* A finite set has a last element in a total order, and can be listed in  *)
(* that order.                                                             *)
Ordering(S) ==
  {R \in SUBSET (S \X S) :
     /\ \A x, y \in S : <<x, y>> \in R \/ <<y, x>> \in R
     /\ \A x, y, z \in S : <<x, y>> \in R /\ <<y, z>> \in R => <<x, z>> \in R}

LEMMA LastExists ==
  ASSUME NEW S, NEW R \in Ordering(S), NEW T \in SUBSET S, IsFiniteSet(T), T # {}
  PROVE  \E x \in T : \A y \in T : <<y, x>> \in R
<1> DEFINE P == {n \in Nat : \A U \in SUBSET S :
                   IsFiniteSet(U) /\ Cardinality(U) = n /\ U # {} =>
                     \E x \in U : \A y \in U : <<y, x>> \in R}
<1>1. 0 \in P
  BY FS_EmptySet
<1>2. ASSUME NEW n \in Nat, n \in P PROVE n + 1 \in P
  <2>1. SUFFICES ASSUME NEW U \in SUBSET S, IsFiniteSet(U), Cardinality(U) = n + 1, U # {}
                 PROVE  \E x \in U : \A y \in U : <<y, x>> \in R
    BY <1>2
  <2>2. PICK z \in U : TRUE
    BY <2>1
  <2>3. IsFiniteSet(U \ {z}) /\ Cardinality(U \ {z}) = n
    <3>1. IsFiniteSet(U \ {z}) /\ Cardinality(U \ {z}) = Cardinality(U) - 1
      BY <2>1, <2>2, FS_RemoveElement
    <3> QED
      BY <1>2, <2>1, <3>1
  <2>4. <<z, z>> \in R
    BY <2>2 DEF Ordering
  <2>5. CASE U \ {z} = {}
    BY <2>2, <2>4, <2>5
  <2>6. CASE U \ {z} # {}
    <3>1. PICK x \in U \ {z} : \A y \in U \ {z} : <<y, x>> \in R
      BY <1>2, <2>3, <2>6
    <3>2. CASE <<z, x>> \in R
      BY <3>1, <3>2
    <3>3. CASE <<x, z>> \in R
      BY <2>2, <2>4, <3>1, <3>3 DEF Ordering
    <3> QED
      BY <3>1, <3>2, <3>3 DEF Ordering
  <2> QED
    BY <2>5, <2>6
<1> HIDE DEF P
<1>3. Nat \subseteq P
  BY <1>1, <1>2, SetInduction
<1>4. Cardinality(T) \in P
  BY <1>3, FS_CardinalityType
<1> QED
  BY <1>4 DEF P

Lists(S, R) ==
  {f \in [1 .. Cardinality(S) -> S] :
     \A m, n \in 1 .. Cardinality(S) : m < n => f[m] # f[n] /\ <<f[m], f[n]>> \in R}

LEMMA ListExists ==
  ASSUME NEW S, IsFiniteSet(S), NEW R \in Ordering(S)
  PROVE  Lists(S, R) # {}
<1> DEFINE P == {n \in Nat : \A T \in SUBSET S :
                   IsFiniteSet(T) /\ Cardinality(T) = n => Lists(T, R) # {}}
<1>1. 0 \in P
  <2>1. SUFFICES ASSUME NEW T \in SUBSET S, IsFiniteSet(T), Cardinality(T) = 0
                 PROVE  Lists(T, R) # {}
    OBVIOUS
  <2>2. [i \in 1 .. 0 |-> i] \in Lists(T, R)
    BY <2>1 DEF Lists
  <2> QED
    BY <2>2
<1>2. ASSUME NEW n \in Nat, n \in P PROVE n + 1 \in P
  <2>1. SUFFICES ASSUME NEW T \in SUBSET S, IsFiniteSet(T), Cardinality(T) = n + 1
                 PROVE  Lists(T, R) # {}
    BY <1>2
  <2>2. T # {}
    BY <2>1, FS_EmptySet
  <2>3. PICK x \in T : \A y \in T : <<y, x>> \in R
    BY <2>1, <2>2, LastExists
  <2>4. IsFiniteSet(T \ {x}) /\ Cardinality(T \ {x}) = n
    <3>1. IsFiniteSet(T \ {x}) /\ Cardinality(T \ {x}) = Cardinality(T) - 1
      BY <2>1, <2>3, FS_RemoveElement
    <3> QED
      BY <1>2, <2>1, <3>1
  <2>5. PICK f : f \in Lists(T \ {x}, R)
    BY <1>2, <2>4
  <2> DEFINE g == [i \in 1 .. n + 1 |-> IF i <= n THEN f[i] ELSE x]
  <2>6. /\ f \in [1 .. n -> T \ {x}]
        /\ \A k, m \in 1 .. n : k < m => f[k] # f[m] /\ <<f[k], f[m]>> \in R
    BY <2>4, <2>5 DEF Lists
  <2>7. g \in [1 .. n + 1 -> T]
    BY <2>3, <2>6
  <2>8. ASSUME NEW k \in 1 .. n + 1, NEW m \in 1 .. n + 1, k < m
        PROVE  g[k] # g[m] /\ <<g[k], g[m]>> \in R
    <3>1. k \in 1 .. n /\ g[k] = f[k] /\ f[k] \in T \ {x}
      BY <2>6, <2>8
    <3>2. CASE m <= n
      BY <2>6, <2>8, <3>1, <3>2
    <3>3. CASE m = n + 1
      BY <2>3, <3>1, <3>3
    <3> QED
      BY <3>2, <3>3
  <2> QED
    BY <2>1, <2>7, <2>8 DEF Lists
<1> HIDE DEF P
<1>3. Nat \subseteq P
  BY <1>1, <1>2, SetInduction
<1>4. Cardinality(S) \in P
  BY <1>3, FS_CardinalityType
<1> QED
  BY <1>4 DEF P

(* A list without repetition, as long as the set is large, has all of it.  *)
LEMMA ListHasAll ==
  ASSUME NEW S, IsFiniteSet(S), NEW f \in [1 .. Cardinality(S) -> S],
         \A m, n \in 1 .. Cardinality(S) : m < n => f[m] # f[n]
  PROVE  \A x \in S : \E n \in 1 .. Cardinality(S) : f[n] = x
<1>1. Cardinality(S) \in Nat
  BY FS_CardinalityType
<1> DEFINE D == 1 .. Cardinality(S)
<1>2. IsFiniteSet(D) /\ Cardinality(D) = Cardinality(S)
  BY <1>1, FS_Interval
<1>3. f \in Injection(D, S)
  BY <1>1 DEF Injection, IsInjective
<1>4. f \in Surjection(D, S)
  BY <1>2, <1>3, FS_Injection
<1> QED
  BY <1>4 DEF Surjection

(***************************************************************************)
(* Sums                                                                    *)
(***************************************************************************)
LEMMA Sums ==
  ASSUME NEW f, Len(f) \in Nat, \A n \in 1 .. Len(f) : f[n] \in Int
  PROVE  /\ PartialSums(f) \in [0 .. Len(f) -> Int]
         /\ PartialSums(f)[0] = 0
         /\ \A n \in 1 .. Len(f) : PartialSums(f)[n] = PartialSums(f)[n - 1] + f[n]
<1> DEFINE L == Len(f)
           Good(n) == {g \in [0 .. n -> Int] :
                         g[0] = 0 /\ \A m \in 1 .. n : g[m] = g[m - 1] + f[m]}
           P == {n \in Nat : n <= L => Good(n) # {}}
<1>1. 0 \in P
  <2>1. [n \in 0 .. 0 |-> 0] \in Good(0)
    OBVIOUS
  <2> QED
    BY <2>1
<1>2. ASSUME NEW n \in Nat, n \in P PROVE n + 1 \in P
  <2>1. SUFFICES ASSUME n + 1 <= L PROVE Good(n + 1) # {}
    OBVIOUS
  <2>2. PICK g : g \in Good(n)
    BY <1>2, <2>1
  <2> DEFINE h == [m \in 0 .. n + 1 |-> IF m <= n THEN g[m] ELSE g[n] + f[n + 1]]
  <2>3. /\ g \in [0 .. n -> Int] /\ g[0] = 0
        /\ \A m \in 1 .. n : g[m] = g[m - 1] + f[m]
        /\ n + 1 \in 1 .. L /\ f[n + 1] \in Int
    BY <1>2, <2>1, <2>2
  <2>4. h \in [0 .. n + 1 -> Int] /\ h[0] = 0
    BY <2>3
  <2>5. ASSUME NEW m \in 1 .. n + 1 PROVE h[m] = h[m - 1] + f[m]
    <3>1. CASE m <= n
      BY <2>3, <2>5, <3>1
    <3>2. CASE m = n + 1
      BY <2>3, <2>5, <3>2
    <3> QED
      BY <2>5, <3>1, <3>2
  <2> HIDE DEF h
  <2>6. h \in Good(n + 1)
    BY <2>4, <2>5
  <2> QED
    BY <2>6
<1> HIDE DEF P
<1>3. L \in P
  BY <1>1, <1>2, SetInduction
<1>4. PICK g : g \in Good(L)
  BY <1>3 DEF P
<1>5. g \in [0 .. L -> Int] /\ g[0] = 0 /\ \A m \in 1 .. L : g[m] = g[m - 1] + f[m]
  BY <1>4
<1>6. g = [n \in 0 .. L |-> IF n = 0 THEN 0 ELSE g[n - 1] + f[n]]
  BY <1>5
<1>7. PartialSums(f) = CHOOSE s : s = [n \in 0 .. L |-> IF n = 0 THEN 0 ELSE s[n - 1] + f[n]]
  BY DEF PartialSums
<1>8. PartialSums(f) = [n \in 0 .. L |-> IF n = 0 THEN 0 ELSE PartialSums(f)[n - 1] + f[n]]
  BY <1>6, <1>7
<1>9. PartialSums(f)[0] = 0
  BY <1>8
<1>10. \A n \in 1 .. L : PartialSums(f)[n] = PartialSums(f)[n - 1] + f[n]
  BY <1>8
<1> DEFINE Q == {n \in Nat : n <= L => PartialSums(f)[n] = g[n]}
<1>11. 0 \in Q
  BY <1>5, <1>9
<1>12. ASSUME NEW n \in Nat, n \in Q PROVE n + 1 \in Q
  <2>1. SUFFICES ASSUME n + 1 <= L PROVE PartialSums(f)[n + 1] = g[n + 1]
    OBVIOUS
  <2>2. n + 1 \in 1 .. L /\ PartialSums(f)[n] = g[n] /\ n + 1 - 1 = n
    BY <1>12, <2>1
  <2> QED
    BY <1>5, <1>10, <2>2
<1> HIDE DEF Q
<1>13. Nat \subseteq Q
  BY <1>11, <1>12, SetInduction
<1>14. \A n \in 0 .. L : PartialSums(f)[n] = g[n]
  BY <1>13 DEF Q
<1>15. PartialSums(f) = [n \in 0 .. L |-> PartialSums(f)[n]]
  BY <1>8
<1>16. PartialSums(f) \in [0 .. L -> Int]
  BY <1>5, <1>14, <1>15
<1> QED
  BY <1>9, <1>10, <1>16

(* Numbers that are not negative have a sum that is not either.            *)
LEMMA TotalIsNat ==
  ASSUME NEW f, Len(f) \in Nat, \A n \in 1 .. Len(f) : f[n] \in Nat
  PROVE  Total(f) \in Nat
<1>1. /\ PartialSums(f)[0] = 0
      /\ \A n \in 1 .. Len(f) : PartialSums(f)[n] = PartialSums(f)[n - 1] + f[n]
  BY Sums
<1> DEFINE P == {n \in Nat : n <= Len(f) => PartialSums(f)[n] \in Nat}
<1>2. 0 \in P
  BY <1>1
<1>3. ASSUME NEW n \in Nat, n \in P PROVE n + 1 \in P
  <2>1. SUFFICES ASSUME n + 1 <= Len(f) PROVE PartialSums(f)[n + 1] \in Nat
    OBVIOUS
  <2>2. n + 1 \in 1 .. Len(f) /\ PartialSums(f)[n] \in Nat /\ n + 1 - 1 = n
    BY <1>3, <2>1
  <2> QED
    BY <1>1, <2>2
<1> HIDE DEF P
<1>4. Len(f) \in P
  BY <1>2, <1>3, SetInduction
<1> QED
  BY <1>4 DEF P, Total

(***************************************************************************)
(* What a journey depends on, and its type                                 *)
(***************************************************************************)
LEMMA AttendedType ==
  ASSUME NEW a \in Table, NEW k \in Keys
  PROVE  /\ Attended(a, k) \in SUBSET AttendanceIds /\ IsFiniteSet(Attended(a, k))
         /\ Cardinality(Attended(a, k)) \in Nat
         /\ Attended(a, k) # {} => Cardinality(Attended(a, k)) # 0
         /\ \A i \in Attended(a, k) : a[i] \in Shift /\ a[i].in \in Nat
<1>1. Attended(a, k) \in SUBSET AttendanceIds /\ IsFiniteSet(AttendanceIds)
  BY JourneyAssumption DEF Attended
<1>2. IsFiniteSet(Attended(a, k)) /\ Cardinality(Attended(a, k)) \in Nat
  BY <1>1, FS_Subset, FS_CardinalityType
<1>3. \A i \in Attended(a, k) : a[i] \in Shifts
  BY DEF Attended, KeyPairs, Table
<1>4. \A i \in Attended(a, k) : a[i] \in Shift /\ a[i].in \in Nat
  BY <1>3, JourneyAssumption DEF Shift
<1> QED
  BY <1>1, <1>2, <1>4, FS_EmptySet

LEMMA SegmentOrder ==
  ASSUME NEW a \in Table, NEW ids \in SUBSET AttendanceIds, IsFiniteSet(ids),
         \A i \in ids : a[i].in \in Nat
  PROVE  /\ ListOf(InOrder(a, ids)) \in InOrder(a, ids)
         /\ \A i \in ids : \E n \in 1 .. Cardinality(ids) : ListOf(InOrder(a, ids))[n] = i
<1> DEFINE R == {p \in ids \X ids : SegmentBefore(a, p[1], p[2])}
<1>1. R \in Ordering(ids)
  <2>1. \A i \in ids : i \in Nat
    BY JourneyAssumption
  <2>2. \A x, y \in ids : <<x, y>> \in R <=> SegmentBefore(a, x, y)
    OBVIOUS
  <2>3. \A x, y \in ids : SegmentBefore(a, x, y) \/ SegmentBefore(a, y, x)
    BY <2>1 DEF SegmentBefore
  <2>4. \A x, y, z \in ids : SegmentBefore(a, x, y) /\ SegmentBefore(a, y, z)
                             => SegmentBefore(a, x, z)
    BY <2>1 DEF SegmentBefore
  <2>5. R \in SUBSET (ids \X ids)
    OBVIOUS
  <2> HIDE DEF R
  <2> QED
    BY <2>2, <2>3, <2>4, <2>5 DEF Ordering
<1>2. Lists(ids, R) \subseteq InOrder(a, ids)
  BY DEF Lists, InOrder
<1>3. InOrder(a, ids) # {}
  BY <1>1, <1>2, ListExists
<1>4. ListOf(InOrder(a, ids)) \in InOrder(a, ids)
  BY <1>3 DEF ListOf
<1>5. /\ ListOf(InOrder(a, ids)) \in [1 .. Cardinality(ids) -> ids]
      /\ \A m, n \in 1 .. Cardinality(ids) :
           m < n => ListOf(InOrder(a, ids))[m] # ListOf(InOrder(a, ids))[n]
  BY <1>4 DEF InOrder
<1> QED
  BY <1>4, <1>5, ListHasAll

(* The segments of a day, in the order they are listed.                    *)
LEMMA SegmentsType ==
  ASSUME NEW a \in Table, NEW k \in Keys
  PROVE  LET segments == BuildSegments(a, Attended(a, k))
             count == Cardinality(Attended(a, k))
         IN  /\ segments \in Seq(Segment) /\ Len(segments) = count
             /\ TotalGap(segments) \in Nat
             /\ DayState(segments) \in DayStates
<1> DEFINE ids == Attended(a, k)
           c == Cardinality(ids)
           f == ListOf(InOrder(a, ids))
           s == BuildSegments(a, ids)
<1>1. /\ ids \in SUBSET AttendanceIds /\ c \in Nat
      /\ \A i \in ids : a[i] \in Shift /\ a[i].in \in Nat
      /\ f \in [1 .. c -> ids]
  <2>1. /\ ids \in SUBSET AttendanceIds /\ c \in Nat /\ IsFiniteSet(ids)
        /\ \A i \in ids : a[i] \in Shift /\ a[i].in \in Nat
    BY AttendedType
  <2>2. f \in InOrder(a, ids)
    BY <2>1, SegmentOrder
  <2> QED
    BY <2>1, <2>2 DEF InOrder
<1>2. s = [n \in 1 .. c |->
             [id |-> f[n], in |-> a[f[n]].in, out |-> a[f[n]].out, state |-> SegmentState(a[f[n]]),
              gap |-> IF n = 1 THEN 0 ELSE GapBefore(a[f[n - 1]], a[f[n]])]]
  BY DEF BuildSegments
<1> HIDE DEF s, c, f, ids
<1>3. ASSUME NEW n \in 1 .. c PROVE s[n] \in Segment
  <2>1. f[n] \in AttendanceIds /\ a[f[n]] \in Shift
    BY <1>1
  <2>2. a[f[n]].in \in Nat /\ a[f[n]].out \in Nat \cup {Open}
    BY <2>1 DEF Shift
  <2>3. SegmentState(a[f[n]]) \in DayStates
    BY DEF SegmentState, DayStates
  <2>4. (IF n = 1 THEN 0 ELSE GapBefore(a[f[n - 1]], a[f[n]])) \in Nat
    <3>1. CASE n = 1
      BY <3>1
    <3>2. CASE n # 1
      <4>1. n - 1 \in 1 .. c
        BY <1>1, <1>3, <3>2
      <4>2. a[f[n - 1]] \in Shift
        BY <1>1, <4>1
      <4>3. a[f[n - 1]].out \in Nat \cup {Open}
        BY <4>2 DEF Shift
      <4> QED
        BY <2>2, <3>2, <4>3 DEF GapBefore, Open
    <3> QED
      BY <3>1, <3>2
  <2> QED
    BY <1>2, <2>1, <2>2, <2>3, <2>4 DEF Segment
<1>4. s \in Seq(Segment) /\ Len(s) = c
  BY <1>1, <1>2, <1>3
<1>5. TotalGap(s) \in Nat
  <2> DEFINE g == [n \in DOMAIN s |-> s[n].gap]
  <2>1. DOMAIN s = 1 .. c
    BY <1>2
  <2>2. g = [n \in 1 .. c |-> s[n].gap]
    BY <2>1
  <2>3. \A n \in 1 .. c : s[n].gap \in Nat
    BY <1>3 DEF Segment
  <2>4. Len(g) = c /\ \A n \in 1 .. c : g[n] \in Nat
    BY <1>1, <2>2, <2>3
  <2> HIDE DEF g
  <2>5. Total(g) \in Nat
    BY <1>1, <2>4, TotalIsNat
  <2> QED
    BY <2>5 DEF TotalGap, g
<1>6. DayState(s) \in DayStates
  BY DEF DayState, DayStates
<1> QED
  BY <1>4, <1>5, <1>6 DEF s, c, ids

LEMMA JourneyType ==
  ASSUME NEW a \in Table, NEW r, NEW k \in Keys
  PROVE  /\ JourneyOf(a, r, k) \in JourneyRow \cup {NoJourney}
         /\ JourneyOf(a, r, k) = NoJourney <=> Attended(a, k) = {}
<1> DEFINE s == BuildSegments(a, Attended(a, k))
           row == [segments |-> s, gap |-> TotalGap(s), state |-> DayState(s), review |-> k \in r]
<1>1. /\ s \in Seq(Segment) /\ Len(s) = Cardinality(Attended(a, k))
      /\ TotalGap(s) \in Nat /\ DayState(s) \in DayStates
  BY SegmentsType
<1>2. JourneyOf(a, r, k) = IF Attended(a, k) = {} THEN NoJourney ELSE row
  BY DEF JourneyOf
<1> HIDE DEF s
<1>3. ASSUME Attended(a, k) # {} PROVE row \in JourneyRow
  <2>1. Len(s) # 0
    BY <1>1, <1>3, AttendedType
  <2>2. s # <<>>
    BY <2>1
  <2> QED
    BY <1>1, <2>2 DEF JourneyRow
<1> HIDE DEF row
<1> QED
  BY <1>2, <1>3, JourneyAssumption

(* The journey of a day depends on the attendances of that day only.       *)
SameDay(a, b, k) ==
  \A i \in AttendanceIds : a[i] = b[i] \/ (k \notin KeyPairs(a[i]) /\ k \notin KeyPairs(b[i]))

LEMMA SameJourney ==
  ASSUME NEW a \in Table, NEW b \in Table, NEW k \in Keys, SameDay(a, b, k),
         NEW r, NEW q, k \in r <=> k \in q
  PROVE  JourneyOf(a, r, k) = JourneyOf(b, q, k)
<1> DEFINE ids == Attended(a, k)
<1>1. Attended(b, k) = ids /\ \A i \in ids : a[i] = b[i]
  BY DEF Attended, SameDay
<1> HIDE DEF ids
<1>2. InOrder(a, ids) = InOrder(b, ids)
  <2> DEFINE F == [1 .. Cardinality(ids) -> ids]
             D == 1 .. Cardinality(ids)
  <2>1. ASSUME NEW f \in F, NEW m \in D, NEW n \in D
        PROVE  SegmentBefore(a, f[m], f[n]) <=> SegmentBefore(b, f[m], f[n])
    <3>1. a[f[m]] = b[f[m]] /\ a[f[n]] = b[f[n]]
      BY <1>1
    <3> QED
      BY <3>1 DEF SegmentBefore
  <2>2. /\ InOrder(a, ids) = {f \in F : \A m, n \in D : m < n => f[m] # f[n] /\ SegmentBefore(a, f[m], f[n])}
        /\ InOrder(b, ids) = {f \in F : \A m, n \in D : m < n => f[m] # f[n] /\ SegmentBefore(b, f[m], f[n])}
    BY DEF InOrder
  <2> HIDE DEF F, D
  <2> QED
    BY <2>1, <2>2
<1>3. ids \in SUBSET AttendanceIds /\ Cardinality(ids) \in Nat
      /\ ListOf(InOrder(a, ids)) \in [1 .. Cardinality(ids) -> ids]
  <2>1. /\ IsFiniteSet(ids) /\ ids \in SUBSET AttendanceIds /\ Cardinality(ids) \in Nat
        /\ \A i \in ids : a[i].in \in Nat
    BY AttendedType DEF ids
  <2> QED
    BY <2>1, SegmentOrder DEF InOrder
<1> DEFINE f == ListOf(InOrder(a, ids))
<1>4. BuildSegments(a, ids) = BuildSegments(b, ids)
  <2>1. f = ListOf(InOrder(b, ids))
    BY <1>2
  <2> HIDE DEF f
  <2>2. \A n \in 1 .. Cardinality(ids) : a[f[n]] = b[f[n]]
    BY <1>1, <1>3 DEF f
  <2>3. \A n \in 1 .. Cardinality(ids) : n # 1 => a[f[n - 1]] = b[f[n - 1]]
    BY <1>3, <2>2
  <2>4. /\ BuildSegments(a, ids) = [n \in 1 .. Cardinality(ids) |->
             [id |-> f[n], in |-> a[f[n]].in, out |-> a[f[n]].out, state |-> SegmentState(a[f[n]]),
              gap |-> IF n = 1 THEN 0 ELSE GapBefore(a[f[n - 1]], a[f[n]])]]
        /\ BuildSegments(b, ids) = [n \in 1 .. Cardinality(ids) |->
             [id |-> f[n], in |-> b[f[n]].in, out |-> b[f[n]].out, state |-> SegmentState(b[f[n]]),
              gap |-> IF n = 1 THEN 0 ELSE GapBefore(b[f[n - 1]], b[f[n]])]]
    BY <2>1 DEF BuildSegments, f
  <2> QED
    BY <2>2, <2>3, <2>4
<1>5. (k \in r) = (k \in q)
  OBVIOUS
<1> QED
  BY <1>1, <1>4, <1>5 DEF JourneyOf, ids

(***************************************************************************)
(* The inductive invariant                                                 *)
(***************************************************************************)

(* What the view v of a transaction has to do with the committed tables:   *)
(* an attendance nobody wrote is the committed one; on a day that nobody   *)
(* else rebuilt or bypassed, or that v did not, the others' writes, or its *)
(* own, change nothing; a day it rebuilt shows its attendances.            *)
Alike(shift, other, k) == shift = other \/ (k \notin KeyPairs(shift) /\ k \notin KeyPairs(other))

Agrees(v, a, r) ==
  /\ \A i \in AttendanceIds : i \notin v.mine.wrote /\ i \notin v.others.wrote => v.att[i] = a[i]
  /\ \A i \in AttendanceIds, k \in Keys :
       i \notin v.mine.wrote /\ k \notin v.others.built /\ k \notin v.others.bypassed
       => Alike(v.att[i], a[i], k)
  /\ \A i \in AttendanceIds, k \in Keys :
       i \in v.mine.wrote /\ i \notin v.others.wrote
       /\ k \notin v.mine.built /\ k \notin v.mine.bypassed
       => Alike(v.att[i], a[i], k)
  /\ \A k \in Keys : k \in v.mine.built /\ k \notin v.mine.bypassed
                     => v.jour[k] = JourneyOf(v.att, v.review, k)
  /\ v.review \subseteq r

(* The batch edits nothing.                                                *)
ViewsInv ==
  /\ \A s \in Sessions : txn[s] # NoTxn => Agrees(txn[s], att, review)
  /\ txn[Batch] # NoTxn => txn[Batch].mine.wrote = {} /\ txn[Batch].mine.bypassed = {}

JourInv == TypeOK /\ ViewsInv /\ JourneyMatches

(* What the run still owes: a day is to come, is rebuilt in the chunk, or  *)
(* its committed row is right; and so is a row another one committed.      *)
Fresh(k) == jour[k] = JourneyOf(att, review, k)

OwedInv ==
  \A k \in owed :
    /\ k \notin txn[Batch].others.bypassed
    /\ k \in review => k \in txn[Batch].review
    /\ k \in txn[Batch].others.built => Fresh(k)
    /\ k \in txn[Batch].mine.built \/ Fresh(k) \/ \E n \in 1 .. Len(todo) : todo[n] = k

UntouchedInv ==
  \A k \in Keys : k \notin txn[Batch].mine.built /\ k \notin txn[Batch].others.built
                  => txn[Batch].jour[k] = jour[k]

RepairInv ==
  /\ txn[Batch] = NoTxn => owed = {}
  /\ txn[Batch] # NoTxn => OwedInv /\ UntouchedInv

(***************************************************************************)
(* Rebuilding and editing in a view                                        *)
(***************************************************************************)
LEMMA KeysOfShift ==
  ASSUME NEW shift \in Shifts \cup {NoShift} PROVE KeyPairs(shift) \in SUBSET Keys
<1>1. CASE shift = NoShift
  BY <1>1 DEF KeyPairs
<1>2. CASE shift \in Shifts
  <2>1. shift.emp \in Employees /\ shift.in \div DayLen \in Days
    BY <1>2, JourneyAssumption DEF Shift
  <2> QED
    BY <2>1 DEF KeyPairs, Keys
<1> QED
  BY <1>1, <1>2

LEMMA ViewParts ==
  ASSUME NEW v \in TxnView
  PROVE  /\ v.att \in Table /\ v.jour \in JourneyTable /\ v.review \in SUBSET LateKeys
         /\ v.mine \in Effects /\ v.others \in Effects
         /\ v = [att |-> v.att, jour |-> v.jour, review |-> v.review,
                 mine |-> v.mine, others |-> v.others]
         /\ \A e \in {v.mine, v.others} :
              /\ e.wrote \in SUBSET AttendanceIds /\ e.gone \in SUBSET AttendanceIds
              /\ e.refs \in SUBSET AttendanceIds
              /\ e.built \in SUBSET Keys /\ e.bypassed \in SUBSET Keys
  BY DEF TxnView, Effects

LEMMA SegmentIdsType ==
  ASSUME NEW j \in JourneyRow \cup {NoJourney} PROVE SegmentIds(j) \in SUBSET AttendanceIds
<1>1. CASE j = NoJourney
  BY <1>1 DEF SegmentIds
<1>2. CASE j # NoJourney
  <2>1. j.segments \in Seq(Segment)
    BY <1>2 DEF JourneyRow
  <2>2. \A n \in DOMAIN j.segments : j.segments[n] \in Segment
    BY <2>1
  <2>3. \A n \in DOMAIN j.segments : j.segments[n].id \in AttendanceIds
    BY <2>2 DEF Segment
  <2> QED
    BY <1>2, <2>3 DEF SegmentIds
<1> QED
  BY <1>1, <1>2

LEMMA Rebuilt ==
  ASSUME NEW v \in TxnView, NEW keys \in SUBSET Keys, NEW w, w = Rebuild(v, keys)
  PROVE  /\ w \in TxnView
         /\ w.att = v.att /\ w.review = v.review /\ w.others = v.others
         /\ w.mine.wrote = v.mine.wrote /\ w.mine.bypassed = v.mine.bypassed \ keys
         /\ v.mine.built \subseteq w.mine.built /\ w.mine.built \subseteq v.mine.built \cup keys
         /\ \A k \in keys : w.jour[k] = JourneyOf(v.att, v.review, k)
         /\ \A k \in Keys : k \notin keys => w.jour[k] = v.jour[k]
         /\ \A k \in keys : k \notin w.mine.built =>
              v.jour[k] = NoJourney /\ w.jour[k] = NoJourney
<1> DEFINE new == [k \in keys |-> JourneyOf(v.att, v.review, k)]
           b == {k \in keys : v.jour[k] # NoJourney \/ new[k] # NoJourney}
           refs == UNION {SegmentIds(new[k]) : k \in keys}
           table == [k \in Keys |-> IF k \in keys THEN new[k] ELSE v.jour[k]]
<1>1. /\ v.att \in Table /\ v.jour \in JourneyTable /\ v.review \in SUBSET LateKeys
      /\ v.mine \in Effects /\ v.others \in Effects
  BY ViewParts
<1>2. \A k \in keys : new[k] = JourneyOf(v.att, v.review, k) /\ new[k] \in JourneyRow \cup {NoJourney}
  BY <1>1, JourneyType
<1>3. refs \in SUBSET AttendanceIds
  BY <1>2, SegmentIdsType
<1>4. w = [v EXCEPT !.jour = table, !.mine.built = @ \cup b, !.mine.refs = @ \cup refs,
                    !.mine.bypassed = @ \ keys]
  BY DEF Rebuild
<1>5. table \in JourneyTable
  BY <1>1, <1>2 DEF JourneyTable
<1>6. b \in SUBSET Keys
  OBVIOUS
<1>7. /\ \A k \in keys : table[k] = JourneyOf(v.att, v.review, k)
      /\ \A k \in Keys : k \notin keys => table[k] = v.jour[k]
      /\ \A k \in keys : k \notin b => v.jour[k] = NoJourney /\ table[k] = NoJourney
      /\ b \subseteq keys
  BY <1>2
<1> HIDE DEF new, b, refs, table
<1> DEFINE m == [wrote |-> v.mine.wrote, gone |-> v.mine.gone, refs |-> v.mine.refs \cup refs,
                 built |-> v.mine.built \cup b, bypassed |-> v.mine.bypassed \ keys]
<1>8. w = [att |-> v.att, jour |-> table, review |-> v.review, mine |-> m, others |-> v.others]
  <2>1. v = [att |-> v.att, jour |-> v.jour, review |-> v.review, mine |-> v.mine, others |-> v.others]
    BY ViewParts
  <2>2. v.mine = [wrote |-> v.mine.wrote, gone |-> v.mine.gone, refs |-> v.mine.refs,
                  built |-> v.mine.built, bypassed |-> v.mine.bypassed]
    BY <1>1 DEF Effects
  <2> QED
    BY <1>4, <2>1, <2>2
<1>9. m \in Effects
  BY <1>1, <1>3, <1>6 DEF Effects
<1>10. m.wrote = v.mine.wrote /\ m.bypassed = v.mine.bypassed \ keys
       /\ m.built = v.mine.built \cup b
  OBVIOUS
<1> HIDE DEF m
<1>11. w \in TxnView
  BY <1>1, <1>5, <1>8, <1>9 DEF TxnView
<1>12. /\ w.att = v.att /\ w.review = v.review /\ w.others = v.others /\ w.jour = table
       /\ w.mine = m
  BY <1>8
<1> QED
  BY <1>7, <1>10, <1>11, <1>12

LEMMA Saved ==
  ASSUME NEW v \in TxnView, NEW id \in AttendanceIds, NEW shift \in Shifts \cup {NoShift},
         NEW skip \in BOOLEAN, NEW w, w = Save(v, id, shift, skip)
  PROVE  LET keys == EditedKeys(v.att[id], shift)
         IN  /\ w \in TxnView
             /\ w.att = [v.att EXCEPT ![id] = shift] /\ w.review = v.review /\ w.others = v.others
             /\ w.mine.wrote = v.mine.wrote \cup {id}
             /\ \A k \in keys : k \in w.mine.built \/ k \in w.mine.bypassed
             /\ \A k \in Keys : k \in v.mine.built => k \in w.mine.built
             /\ \A k \in Keys : k \notin keys =>
                  /\ w.jour[k] = v.jour[k]
                  /\ k \in w.mine.built <=> k \in v.mine.built
                  /\ k \in w.mine.bypassed <=> k \in v.mine.bypassed
             /\ \A k \in keys : k \in w.mine.built /\ k \notin w.mine.bypassed =>
                  w.jour[k] = JourneyOf(w.att, w.review, k)
             /\ \A k \in Keys : w.jour[k] = v.jour[k] \/ w.jour[k] = JourneyOf(w.att, w.review, k)
<1> DEFINE keys == EditedKeys(v.att[id], shift)
           del == IF shift = NoShift THEN {id} ELSE {}
           m == [wrote |-> v.mine.wrote \cup {id}, gone |-> v.mine.gone \cup del, refs |-> v.mine.refs,
                 built |-> v.mine.built, bypassed |-> v.mine.bypassed]
           table == [v.att EXCEPT ![id] = shift]
           x == [att |-> table, jour |-> v.jour, review |-> v.review, mine |-> m, others |-> v.others]
           y == IF skip THEN x ELSE Rebuild(x, keys)
           more == IF skip THEN keys ELSE keys \ y.mine.built
<1>1. /\ v.att \in Table /\ v.jour \in JourneyTable /\ v.review \in SUBSET LateKeys
      /\ v.mine \in Effects /\ v.others \in Effects
      /\ v = [att |-> v.att, jour |-> v.jour, review |-> v.review, mine |-> v.mine,
              others |-> v.others]
  BY ViewParts
<1>2. v.mine = [wrote |-> v.mine.wrote, gone |-> v.mine.gone, refs |-> v.mine.refs,
                built |-> v.mine.built, bypassed |-> v.mine.bypassed]
  BY <1>1 DEF Effects
<1>3. keys \in SUBSET Keys
  BY <1>1, KeysOfShift DEF EditedKeys, Table
<1>4. table \in Table
  BY <1>1 DEF Table
<1>5. del \in SUBSET AttendanceIds
  OBVIOUS
<1>6. [v EXCEPT !.att[id] = shift, !.mine.wrote = @ \cup {id}, !.mine.gone = @ \cup del] = x
  <2> DEFINE v1 == [v EXCEPT !.att[id] = shift]
             v2 == [v1 EXCEPT !.mine.wrote = @ \cup {id}]
             m2 == [wrote |-> v.mine.wrote \cup {id}, gone |-> v.mine.gone, refs |-> v.mine.refs,
                    built |-> v.mine.built, bypassed |-> v.mine.bypassed]
  <2>1. v1 = [att |-> table, jour |-> v.jour, review |-> v.review, mine |-> v.mine,
              others |-> v.others]
    BY <1>1
  <2>2. v2 = [att |-> table, jour |-> v.jour, review |-> v.review, mine |-> m2,
              others |-> v.others]
    <3>1. [v.mine EXCEPT !.wrote = @ \cup {id}] = m2
      BY <1>2
    <3> HIDE DEF m2, table
    <3>2. v1.mine = v.mine
      BY <2>1
    <3>3. v2 = [v1 EXCEPT !.mine = m2]
      BY <3>1, <3>2
    <3> HIDE DEF v1
    <3> QED
      BY <2>1, <3>3
  <2>3. [v EXCEPT !.att[id] = shift, !.mine.wrote = @ \cup {id}, !.mine.gone = @ \cup del]
        = [v2 EXCEPT !.mine.gone = @ \cup del]
    <3> HIDE DEF del
    <3> QED
      OBVIOUS
  <2> HIDE DEF v1, v2
  <2>4. [v2 EXCEPT !.mine.gone = @ \cup del] = x
    <3> HIDE DEF del
    <3>0. PICK g : g = m2.gone \cup del
      OBVIOUS
    <3>1. [m2 EXCEPT !.gone = @ \cup del] = m
      <4>1. m2.gone = v.mine.gone
        OBVIOUS
      <4>2. [m2 EXCEPT !.gone = g]
            = [wrote |-> v.mine.wrote \cup {id}, gone |-> g, refs |-> v.mine.refs,
               built |-> v.mine.built, bypassed |-> v.mine.bypassed]
        OBVIOUS
      <4> HIDE DEF m2
      <4> QED
        BY <3>0, <4>1, <4>2
    <3> HIDE DEF m2, table, m
    <3>2. v2.mine = m2
      BY <2>2
    <3>3. [v2 EXCEPT !.mine.gone = @ \cup del] = [v2 EXCEPT !.mine = m]
      BY <3>1, <3>2
    <3> QED
      BY <2>2, <3>3
  <2> QED
    BY <2>3, <2>4
<1>7. w = [y EXCEPT !.mine.bypassed = @ \cup more]
  BY <1>6 DEF Save
<1> HIDE DEF keys, del, table
<1>8. m \in Effects
  BY <1>1, <1>5 DEF Effects
<1>9. m.wrote = v.mine.wrote \cup {id} /\ m.built = v.mine.built /\ m.bypassed = v.mine.bypassed
  OBVIOUS
<1> HIDE DEF m
<1>10. x \in TxnView
  BY <1>1, <1>4, <1>8 DEF TxnView
<1>11. /\ x.att = table /\ x.jour = v.jour /\ x.review = v.review /\ x.mine = m
       /\ x.others = v.others
  OBVIOUS
<1> HIDE DEF x
<1>12. CASE skip
  <2>1. y = x /\ more = keys
    BY <1>12
  <2>2. w = [att |-> table, jour |-> v.jour, review |-> v.review,
             mine |-> [wrote |-> m.wrote, gone |-> m.gone, refs |-> m.refs, built |-> m.built,
                       bypassed |-> m.bypassed \cup keys],
             others |-> v.others]
    <3>1. m = [wrote |-> m.wrote, gone |-> m.gone, refs |-> m.refs, built |-> m.built,
               bypassed |-> m.bypassed]
      BY <1>8 DEF Effects
    <3>2. x = [att |-> table, jour |-> v.jour, review |-> v.review, mine |-> m,
               others |-> v.others]
      BY <1>10, <1>11, ViewParts
    <3>3. w = [x EXCEPT !.mine.bypassed = @ \cup keys]
      BY <1>7, <2>1
    <3> HIDE DEF y, more
    <3> QED
      BY <3>1, <3>2, <3>3
  <2>3. [wrote |-> m.wrote, gone |-> m.gone, refs |-> m.refs, built |-> m.built,
         bypassed |-> m.bypassed \cup keys] \in Effects
    BY <1>3, <1>8 DEF Effects
  <2>4. w \in TxnView
    BY <1>1, <1>4, <2>2, <2>3 DEF TxnView
  <2>5. /\ w.att = table /\ w.jour = v.jour /\ w.review = v.review /\ w.others = v.others
        /\ w.mine.wrote = m.wrote /\ w.mine.built = m.built
        /\ w.mine.bypassed = m.bypassed \cup keys
    BY <2>2
  <2> QED
    BY <1>9, <2>4, <2>5 DEF keys, table
<1>13. CASE ~skip
  <2>1. y = Rebuild(x, keys) /\ more = keys \ y.mine.built
    BY <1>13
  <2>2. /\ y \in TxnView
        /\ y.att = table /\ y.review = v.review /\ y.others = v.others
        /\ y.mine.wrote = m.wrote /\ y.mine.bypassed = m.bypassed \ keys
        /\ m.built \subseteq y.mine.built /\ y.mine.built \subseteq m.built \cup keys
        /\ \A k \in keys : y.jour[k] = JourneyOf(table, v.review, k)
        /\ \A k \in Keys : k \notin keys => y.jour[k] = v.jour[k]
    BY <1>3, <1>10, <1>11, <2>1, Rebuilt
  <2> HIDE DEF y
  <2> DEFINE n == [wrote |-> y.mine.wrote, gone |-> y.mine.gone, refs |-> y.mine.refs,
                   built |-> y.mine.built, bypassed |-> y.mine.bypassed \cup more]
  <2>3. w = [att |-> y.att, jour |-> y.jour, review |-> y.review, mine |-> n, others |-> y.others]
    <3>1. y.mine = [wrote |-> y.mine.wrote, gone |-> y.mine.gone, refs |-> y.mine.refs,
                    built |-> y.mine.built, bypassed |-> y.mine.bypassed]
      BY <2>2 DEF TxnView, Effects
    <3>2. y = [att |-> y.att, jour |-> y.jour, review |-> y.review, mine |-> y.mine,
               others |-> y.others]
      BY <2>2, ViewParts
    <3> HIDE DEF more
    <3> QED
      BY <1>7, <3>1, <3>2
  <2>4. more \in SUBSET Keys /\ more = keys \ y.mine.built
    BY <1>3, <2>1
  <2> HIDE DEF more
  <2>5. n \in Effects
    BY <2>2, <2>4 DEF TxnView, Effects
  <2>6. w \in TxnView
    BY <2>2, <2>3, <2>5 DEF TxnView
  <2>7. /\ w.att = table /\ w.jour = y.jour /\ w.review = v.review /\ w.others = v.others
        /\ w.mine.wrote = m.wrote /\ w.mine.built = y.mine.built
        /\ w.mine.bypassed = (m.bypassed \ keys) \cup (keys \ y.mine.built)
    BY <2>2, <2>3, <2>4
  <2> QED
    BY <1>9, <2>2, <2>6, <2>7 DEF keys, table
<1> QED
  BY <1>12, <1>13

(* An edit keeps its view in agreement with the committed tables.          *)
LEMMA SaveAgrees ==
  ASSUME NEW v \in TxnView, NEW a \in Table, NEW r, Agrees(v, a, r),
         NEW id \in AttendanceIds, NEW shift \in Shifts \cup {NoShift},
         NEW skip \in BOOLEAN, NEW w, w = Save(v, id, shift, skip)
  PROVE  w \in TxnView /\ Agrees(w, a, r)
<1> DEFINE keys == EditedKeys(v.att[id], shift)
<1>1. /\ w \in TxnView
      /\ w.att = [v.att EXCEPT ![id] = shift] /\ w.review = v.review /\ w.others = v.others
      /\ w.mine.wrote = v.mine.wrote \cup {id}
      /\ \A k \in keys : k \in w.mine.built \/ k \in w.mine.bypassed
      /\ \A k \in Keys : k \in v.mine.built => k \in w.mine.built
      /\ \A k \in Keys : k \notin keys =>
           /\ w.jour[k] = v.jour[k]
           /\ k \in w.mine.built <=> k \in v.mine.built
           /\ k \in w.mine.bypassed <=> k \in v.mine.bypassed
      /\ \A k \in keys : k \in w.mine.built /\ k \notin w.mine.bypassed =>
           w.jour[k] = JourneyOf(w.att, w.review, k)
  BY Saved
<1>2. v.att \in Table /\ w.att \in Table
  BY <1>1, ViewParts
<1>3. /\ w.att[id] = shift
      /\ \A i \in AttendanceIds : i # id => w.att[i] = v.att[i]
  BY <1>1, <1>2 DEF Table
<1>4. \A k \in Keys : k \notin keys => k \notin KeyPairs(v.att[id]) /\ k \notin KeyPairs(shift)
  BY DEF EditedKeys
<1> HIDE DEF keys
<1>5. ASSUME NEW i \in AttendanceIds, i \notin w.mine.wrote, i \notin w.others.wrote
      PROVE  w.att[i] = a[i]
  BY <1>1, <1>3, <1>5 DEF Agrees
<1>6. ASSUME NEW i \in AttendanceIds, NEW k \in Keys, i \notin w.mine.wrote,
             k \notin w.others.built, k \notin w.others.bypassed
      PROVE  Alike(w.att[i], a[i], k)
  BY <1>1, <1>3, <1>6 DEF Agrees
<1>7. ASSUME NEW i \in AttendanceIds, NEW k \in Keys, i \in w.mine.wrote, i \notin w.others.wrote,
             k \notin w.mine.built, k \notin w.mine.bypassed
      PROVE  Alike(w.att[i], a[i], k)
  <2>1. k \notin keys /\ k \notin v.mine.built /\ k \notin v.mine.bypassed
    BY <1>1, <1>7
  <2>2. CASE i # id
    BY <1>1, <1>3, <1>7, <2>1, <2>2 DEF Agrees
  <2>3. CASE i = id
    <3>1. Alike(v.att[id], a[id], k)
      <4>1. CASE id \in v.mine.wrote
        BY <1>1, <1>7, <2>1, <2>3, <4>1 DEF Agrees
      <4>2. CASE id \notin v.mine.wrote
        BY <1>1, <1>7, <2>3, <4>2 DEF Agrees, Alike
      <4> QED
        BY <4>1, <4>2
    <3> QED
      BY <1>3, <1>4, <2>1, <2>3, <3>1 DEF Alike
  <2> QED
    BY <2>2, <2>3
<1>8. ASSUME NEW k \in Keys, k \in w.mine.built, k \notin w.mine.bypassed
      PROVE  w.jour[k] = JourneyOf(w.att, w.review, k)
  <2>1. CASE k \in keys
    BY <1>1, <1>8, <2>1
  <2>2. CASE k \notin keys
    <3>1. w.jour[k] = JourneyOf(v.att, v.review, k)
      BY <1>1, <1>8, <2>2 DEF Agrees
    <3>2. SameDay(v.att, w.att, k)
      BY <1>3, <1>4, <2>2 DEF SameDay
    <3>3. JourneyOf(v.att, v.review, k) = JourneyOf(w.att, w.review, k)
      BY <1>1, <1>2, <3>2, SameJourney
    <3> QED
      BY <3>1, <3>3
  <2> QED
    BY <2>1, <2>2
<1>9. w.review \subseteq r
  BY <1>1 DEF Agrees
<1> QED
  BY <1>1, <1>5, <1>6, <1>7, <1>8, <1>9 DEF Agrees

(* So does the batch's rebuild of a day.                                   *)
LEMMA RebuildAgrees ==
  ASSUME NEW v \in TxnView, NEW a, NEW r, Agrees(v, a, r), v.mine.wrote = {}, v.mine.bypassed = {},
         NEW keys \in SUBSET Keys, NEW w, w = Rebuild(v, keys)
  PROVE  w \in TxnView /\ Agrees(w, a, r) /\ w.mine.wrote = {} /\ w.mine.bypassed = {}
<1>1. /\ w \in TxnView
      /\ w.att = v.att /\ w.review = v.review /\ w.others = v.others
      /\ w.mine.wrote = v.mine.wrote /\ w.mine.bypassed = v.mine.bypassed \ keys
      /\ v.mine.built \subseteq w.mine.built /\ w.mine.built \subseteq v.mine.built \cup keys
      /\ \A k \in keys : w.jour[k] = JourneyOf(v.att, v.review, k)
      /\ \A k \in Keys : k \notin keys => w.jour[k] = v.jour[k]
  BY Rebuilt
<1>2. \A k \in Keys : k \in w.mine.built => w.jour[k] = JourneyOf(w.att, w.review, k)
  BY <1>1 DEF Agrees
<1> QED
  BY <1>1, <1>2 DEF Agrees

(* A transaction begins in agreement with the tables it reads.             *)
LEMMA SnapshotAgrees ==
  ASSUME NEW a \in Table, NEW j \in JourneyTable, NEW r \in SUBSET LateKeys,
         NEW v, v = Snapshot(a, j, r)
  PROVE  /\ v \in TxnView /\ Agrees(v, a, r)
         /\ v.att = a /\ v.jour = j /\ v.review = r
         /\ v.mine.wrote = {} /\ v.mine.built = {} /\ v.mine.bypassed = {}
         /\ v.others.built = {} /\ v.others.bypassed = {}
<1>1. NoEffects \in Effects
  BY DEF NoEffects, Effects
<1>2. /\ NoEffects.wrote = {} /\ NoEffects.built = {} /\ NoEffects.bypassed = {}
  BY DEF NoEffects
<1>3. /\ v = [att |-> a, jour |-> j, review |-> r, mine |-> NoEffects, others |-> NoEffects]
  BY DEF Snapshot
<1>4. /\ v \in TxnView /\ v.att = a /\ v.jour = j /\ v.review = r
      /\ v.mine = NoEffects /\ v.others = NoEffects
  BY <1>1, <1>3 DEF TxnView
<1> QED
  BY <1>2, <1>4 DEF Agrees, Alike

(***************************************************************************)
(* Commits                                                                 *)
(***************************************************************************)

(* On a day a transaction did not rebuild, its commit changes nothing; on  *)
(* one it did rebuild, the tables then hold what it has seen.              *)
LEMMA CommitShows ==
  ASSUME NEW v \in TxnView, NEW a \in Table, NEW j \in JourneyTable, NEW r,
         Agrees(v, a, r), ~Conflict(v),
         NEW b, b = [i \in AttendanceIds |-> IF i \in v.mine.wrote THEN v.att[i] ELSE a[i]],
         NEW l, l = [k \in Keys |-> IF k \in v.mine.built THEN v.jour[k] ELSE j[k]]
  PROVE  /\ b \in Table /\ l \in JourneyTable
         /\ \A k \in Keys : k \notin v.mine.built => l[k] = j[k]
         /\ \A k \in Keys : k \notin v.mine.built /\ k \notin v.mine.bypassed => SameDay(a, b, k)
         /\ \A k \in Keys : k \in v.mine.built /\ k \notin v.mine.bypassed
                            /\ k \notin v.others.bypassed =>
              l[k] = JourneyOf(v.att, v.review, k) /\ SameDay(v.att, b, k)
<1>1. v.att \in Table /\ v.jour \in JourneyTable
  BY ViewParts
<1>2. b \in Table /\ l \in JourneyTable
  BY <1>1 DEF Table, JourneyTable
<1>3. \A i \in v.mine.wrote : i \notin v.others.wrote
  BY DEF Conflict
<1>4. \A k \in v.mine.built : k \notin v.others.built
  BY DEF Conflict
<1>5. \A i \in AttendanceIds : b[i] = IF i \in v.mine.wrote THEN v.att[i] ELSE a[i]
  OBVIOUS
<1>6. ASSUME NEW k \in Keys, k \notin v.mine.built, k \notin v.mine.bypassed
      PROVE  SameDay(a, b, k)
  <2>1. \A i \in AttendanceIds : i \in v.mine.wrote => Alike(v.att[i], a[i], k)
    BY <1>3, <1>6 DEF Agrees
  <2> QED
    BY <1>5, <2>1 DEF SameDay, Alike
<1>7. ASSUME NEW k \in Keys, k \in v.mine.built, k \notin v.mine.bypassed, k \notin v.others.bypassed
      PROVE  l[k] = JourneyOf(v.att, v.review, k) /\ SameDay(v.att, b, k)
  <2>1. l[k] = JourneyOf(v.att, v.review, k)
    BY <1>7 DEF Agrees
  <2>2. \A i \in AttendanceIds : i \notin v.mine.wrote => Alike(v.att[i], a[i], k)
    BY <1>4, <1>7 DEF Agrees
  <2> QED
    BY <1>5, <2>1, <2>2 DEF SameDay, Alike
<1> QED
  BY <1>2, <1>6, <1>7

(* The other transactions keep their agreement.                            *)
LEMMA OthersLearn ==
  ASSUME NEW v \in TxnView, NEW a \in Table, NEW r, Agrees(v, a, r), ~Conflict(v),
         NEW b, \A i \in AttendanceIds : b[i] = IF i \in v.mine.wrote THEN v.att[i] ELSE a[i],
         NEW o \in TxnView, Agrees(o, a, r),
         NEW e, e = Both(o.others, v.mine),
         NEW w, w = [att |-> o.att, jour |-> o.jour, review |-> o.review, mine |-> o.mine,
                     others |-> e]
  PROVE  /\ w \in TxnView /\ Agrees(w, b, r)
         /\ w.att = o.att /\ w.jour = o.jour /\ w.review = o.review /\ w.mine = o.mine
         /\ w.others.built = o.others.built \cup v.mine.built
         /\ w.others.bypassed = o.others.bypassed \cup v.mine.bypassed
<1>1. v.mine \in Effects /\ o.others \in Effects /\ o.mine \in Effects
  BY ViewParts
<1>2. e = [wrote |-> o.others.wrote \cup v.mine.wrote, gone |-> o.others.gone \cup v.mine.gone,
           refs |-> o.others.refs \cup v.mine.refs, built |-> o.others.built \cup v.mine.built,
           bypassed |-> o.others.bypassed \cup v.mine.bypassed]
  <2>1. DOMAIN o.others = {"wrote", "gone", "refs", "built", "bypassed"}
    BY <1>1 DEF Effects
  <2>2. e = [f \in {"wrote", "gone", "refs", "built", "bypassed"} |-> o.others[f] \cup v.mine[f]]
    BY <2>1 DEF Both
  <2> QED
    BY <2>2
<1>3. e \in Effects
  BY <1>1, <1>2 DEF Effects
<1>4. /\ e.wrote = o.others.wrote \cup v.mine.wrote /\ e.built = o.others.built \cup v.mine.built
      /\ e.bypassed = o.others.bypassed \cup v.mine.bypassed
  BY <1>2
<1>7. /\ w \in TxnView /\ w.att = o.att /\ w.jour = o.jour /\ w.review = o.review
      /\ w.mine = o.mine /\ w.others = e
  <2>1. /\ o.att \in Table /\ o.jour \in JourneyTable /\ o.review \in SUBSET LateKeys
        /\ o.mine \in Effects
    BY ViewParts
  <2> QED
    BY <1>3, <2>1 DEF TxnView
<1>8. \A i \in AttendanceIds : b[i] = IF i \in v.mine.wrote THEN v.att[i] ELSE a[i]
  OBVIOUS
<1>9. \A i \in v.mine.wrote : i \notin v.others.wrote
  BY DEF Conflict
<1>10. ASSUME NEW i \in AttendanceIds, i \notin w.mine.wrote, i \notin w.others.wrote
       PROVE  w.att[i] = b[i]
  BY <1>4, <1>7, <1>8, <1>10 DEF Agrees
<1>11. ASSUME NEW i \in AttendanceIds, NEW k \in Keys, i \notin w.mine.wrote,
              k \notin w.others.built, k \notin w.others.bypassed
       PROVE  Alike(w.att[i], b[i], k)
  <2>1. Alike(o.att[i], a[i], k)
    BY <1>4, <1>7, <1>11 DEF Agrees
  <2>2. i \in v.mine.wrote => Alike(v.att[i], a[i], k)
    BY <1>4, <1>7, <1>9, <1>11 DEF Agrees
  <2> QED
    BY <1>7, <1>8, <2>1, <2>2 DEF Alike
<1>12. ASSUME NEW i \in AttendanceIds, NEW k \in Keys, i \in w.mine.wrote, i \notin w.others.wrote,
              k \notin w.mine.built, k \notin w.mine.bypassed
       PROVE  Alike(w.att[i], b[i], k)
  <2>1. b[i] = a[i] /\ i \in o.mine.wrote /\ i \notin o.others.wrote
    BY <1>4, <1>7, <1>8, <1>12
  <2> QED
    BY <1>7, <1>12, <2>1 DEF Agrees
<1>13. /\ \A k \in Keys : k \in w.mine.built /\ k \notin w.mine.bypassed
                         => w.jour[k] = JourneyOf(w.att, w.review, k)
       /\ w.review \subseteq r
  BY <1>7 DEF Agrees
<1> QED
  BY <1>4, <1>7, <1>10, <1>11, <1>12, <1>13 DEF Agrees

(* What a journey shows does not depend on the late punches.               *)
LEMMA ShownWithoutReview ==
  ASSUME NEW a \in Table, NEW r, NEW k \in Keys
  PROVE  Shown(JourneyOf(a, r, k)) = Shown(JourneyOf(a, {}, k))
<1>1. CASE Attended(a, k) = {}
  BY <1>1 DEF JourneyOf
<1>2. CASE Attended(a, k) # {}
  <2>1. JourneyOf(a, r, k) # NoJourney /\ JourneyOf(a, {}, k) # NoJourney
    BY <1>2, JourneyType
  <2> DEFINE s == BuildSegments(a, Attended(a, k))
  <2>2. /\ JourneyOf(a, r, k) = [segments |-> s, gap |-> TotalGap(s), state |-> DayState(s),
                                 review |-> k \in r]
        /\ JourneyOf(a, {}, k) = [segments |-> s, gap |-> TotalGap(s), state |-> DayState(s),
                                  review |-> k \in {}]
    BY <1>2 DEF JourneyOf
  <2> HIDE DEF s
  <2> QED
    BY <2>1, <2>2 DEF Shown
<1> QED
  BY <1>1, <1>2

(***************************************************************************)
(* Every action keeps the invariant                                        *)
(***************************************************************************)

(* The keys of a run are listed, each of them.                             *)
LEMMA KeysListed ==
  ASSUME NEW S \in SUBSET Keys
  PROVE  /\ ListOf(KeysInOrder(S)) \in Seq(Keys)
         /\ \A k \in S : \E n \in 1 .. Len(ListOf(KeysInOrder(S))) : ListOf(KeysInOrder(S))[n] = k
<1> DEFINE R == {p \in S \X S : KeyBefore(p[1], p[2])}
           c == Cardinality(S)
           list == ListOf(KeysInOrder(S))
<1>1. IsFiniteSet(S) /\ c \in Nat
  <2>1. IsFiniteSet(Keys)
    BY JourneyAssumption, FS_Product DEF Keys
  <2> QED
    BY <2>1, FS_Subset, FS_CardinalityType
<1>2. R \in Ordering(S)
  <2>1. \A x \in S : x[1] \in Nat /\ x[2] \in Nat
    BY JourneyAssumption DEF Keys
  <2>2. \A x, y \in S : <<x, y>> \in R <=> KeyBefore(x, y)
    OBVIOUS
  <2>3. \A x, y \in S : KeyBefore(x, y) \/ KeyBefore(y, x)
    BY <2>1 DEF KeyBefore
  <2>4. \A x, y, z \in S : KeyBefore(x, y) /\ KeyBefore(y, z) => KeyBefore(x, z)
    BY <2>1 DEF KeyBefore
  <2>5. R \in SUBSET (S \X S)
    OBVIOUS
  <2> HIDE DEF R
  <2> QED
    BY <2>2, <2>3, <2>4, <2>5 DEF Ordering
<1>3. Lists(S, R) \subseteq KeysInOrder(S)
  BY DEF Lists, KeysInOrder
<1>4. list \in KeysInOrder(S)
  BY <1>1, <1>2, <1>3, ListExists DEF ListOf
<1>5. list \in [1 .. c -> S] /\ \A m, n \in 1 .. c : m < n => list[m] # list[n]
  BY <1>4 DEF KeysInOrder
<1> HIDE DEF list
<1>6. \A k \in S : \E n \in 1 .. c : list[n] = k
  BY <1>1, <1>5, ListHasAll
<1>7. list \in Seq(Keys) /\ Len(list) = c
  BY <1>1, <1>5
<1> QED
  BY <1>6, <1>7 DEF list

LEMMA EditKeeps ==
  ASSUME JourInv, NEW s \in Clients, NEW id \in AttendanceIds, NEW shift \in Shifts \cup {NoShift},
         NEW skip \in BOOLEAN, Edit(s, id, shift, skip)
  PROVE  JourInv' /\ txn'[Batch] = txn[Batch]
<1>1. PICK v : v = View(s)
  OBVIOUS
<1>2. PICK w : w = Save(v, id, shift, skip)
  OBVIOUS
<1>3. /\ att \in Table /\ jour \in JourneyTable /\ review \in SUBSET LateKeys
      /\ txn \in [Sessions -> TxnView \cup {NoTxn}] /\ s \in Sessions /\ s # Batch
      /\ Batch \in Sessions
  BY JourneyAssumption DEF JourInv, TypeOK, Sessions
<1>4. v \in TxnView /\ Agrees(v, att, review)
  <2>1. CASE txn[s] # NoTxn
    BY <1>1, <1>3, <2>1 DEF View, IsOpen, JourInv, ViewsInv
  <2>2. CASE txn[s] = NoTxn
    BY <1>1, <1>3, <2>2, SnapshotAgrees DEF View, IsOpen
  <2> QED
    BY <2>1, <2>2
<1>5. w \in TxnView /\ Agrees(w, att, review)
  BY <1>2, <1>3, <1>4, SaveAgrees
<1>6. /\ txn' = [txn EXCEPT ![s] = w] /\ edits < MaxEdits /\ edits' = edits + 1
      /\ UNCHANGED <<att, jour, review, todo, chunk, skipped, owed>>
  BY <1>1, <1>2 DEF Edit
<1>7. edits' \in 0 .. MaxEdits
  BY <1>6, JourneyAssumption DEF JourInv, TypeOK
<1>8. txn' \in [Sessions -> TxnView \cup {NoTxn}]
  BY <1>3, <1>5, <1>6
<1>9. TypeOK'
  BY <1>6, <1>7, <1>8 DEF JourInv, TypeOK
<1>10. txn'[s] = w /\ \A o \in Sessions \ {s} : txn'[o] = txn[o]
  BY <1>3, <1>6
<1>11. ViewsInv'
  BY <1>3, <1>5, <1>6, <1>10 DEF JourInv, ViewsInv
<1>12. JourneyMatches'
  BY <1>6 DEF JourInv, JourneyMatches, Matches
<1> QED
  BY <1>3, <1>9, <1>10, <1>11, <1>12 DEF JourInv

(* What every commit of a session does.                                    *)
CommitOf(s) ==
  /\ ~Conflict(txn[s])
  /\ att' = [i \in AttendanceIds |-> IF i \in txn[s].mine.wrote THEN txn[s].att[i] ELSE att[i]]
  /\ jour' = [k \in Keys |-> IF k \in txn[s].mine.built THEN txn[s].jour[k] ELSE jour[k]]
  /\ txn' = [o \in Sessions |->
               IF o = s THEN txn'[s]
               ELSE IF txn[o] = NoTxn THEN NoTxn
               ELSE [txn[o] EXCEPT !.others = Both(@, txn[s].mine)]]
  /\ skipped' = (skipped \ txn[s].mine.built) \cup MayBeStale(txn[s])
  /\ UNCHANGED review

LEMMA CommitKeeps ==
  ASSUME JourInv, NEW s \in Sessions, txn[s] # NoTxn, CommitOf(s),
         txn'[s] = NoTxn \/ txn'[s] = Snapshot(att', jour', review')
  PROVE  /\ att' \in Table /\ jour' \in JourneyTable /\ review' \subseteq LateKeys
         /\ txn' \in [Sessions -> TxnView \cup {NoTxn}] /\ skipped' \subseteq Keys
         /\ ViewsInv' /\ JourneyMatches'
         /\ \A o \in Sessions \ {s} : txn[o] # NoTxn =>
              /\ txn'[o] # NoTxn
              /\ txn'[o].jour = txn[o].jour /\ txn'[o].review = txn[o].review
              /\ txn'[o].mine = txn[o].mine
              /\ txn'[o].others.built = txn[o].others.built \cup txn[s].mine.built
              /\ txn'[o].others.bypassed = txn[o].others.bypassed \cup txn[s].mine.bypassed
         /\ \A o \in Sessions \ {s} : txn[o] = NoTxn => txn'[o] = NoTxn
<1>1. PICK v : v = txn[s]
  OBVIOUS
<1>2. PICK b : b = att'
  OBVIOUS
<1>3. PICK l : l = jour'
  OBVIOUS
<1>4. /\ att \in Table /\ jour \in JourneyTable /\ review \in SUBSET LateKeys
      /\ txn \in [Sessions -> TxnView \cup {NoTxn}] /\ skipped \subseteq Keys
      /\ Batch \in Sessions /\ NoTxn \notin TxnView
  BY JourneyAssumption DEF JourInv, TypeOK, Sessions
<1>5. v \in TxnView /\ Agrees(v, att, review) /\ ~Conflict(v)
  BY <1>1, <1>4 DEF CommitOf, JourInv, ViewsInv
<1>6. /\ b = [i \in AttendanceIds |-> IF i \in v.mine.wrote THEN v.att[i] ELSE att[i]]
      /\ l = [k \in Keys |-> IF k \in v.mine.built THEN v.jour[k] ELSE jour[k]]
      /\ review' = review
  BY <1>1, <1>2, <1>3 DEF CommitOf
<1>7. /\ b \in Table /\ l \in JourneyTable
      /\ \A k \in Keys : k \notin v.mine.built => l[k] = jour[k]
      /\ \A k \in Keys : k \notin v.mine.built /\ k \notin v.mine.bypassed => SameDay(att, b, k)
      /\ \A k \in Keys : k \in v.mine.built /\ k \notin v.mine.bypassed
                         /\ k \notin v.others.bypassed =>
           l[k] = JourneyOf(v.att, v.review, k) /\ SameDay(v.att, b, k)
  BY <1>4, <1>5, <1>6, CommitShows
<1>8. txn'[s] = NoTxn \/ (txn'[s] \in TxnView /\ Agrees(txn'[s], b, review)
        /\ txn'[s].mine.wrote = {} /\ txn'[s].mine.bypassed = {})
  <2>1. txn'[s] = NoTxn \/ txn'[s] = Snapshot(b, l, review)
    BY <1>2, <1>3, <1>6
  <2>2. PICK x : x = Snapshot(b, l, review)
    OBVIOUS
  <2>3. x \in TxnView /\ Agrees(x, b, review) /\ x.mine.wrote = {} /\ x.mine.bypassed = {}
    BY <1>4, <1>7, <2>2, SnapshotAgrees
  <2> QED
    BY <2>1, <2>2, <2>3
<1>9. ASSUME NEW o \in Sessions, o # s, txn[o] # NoTxn
      PROVE  /\ txn'[o] \in TxnView /\ Agrees(txn'[o], b, review)
             /\ txn'[o].jour = txn[o].jour /\ txn'[o].review = txn[o].review
             /\ txn'[o].mine = txn[o].mine
             /\ txn'[o].others.built = txn[o].others.built \cup v.mine.built
             /\ txn'[o].others.bypassed = txn[o].others.bypassed \cup v.mine.bypassed
  <2>1. PICK u : u = txn[o]
    OBVIOUS
  <2>2. PICK e, w :
          /\ e = Both(u.others, v.mine)
          /\ w = [att |-> u.att, jour |-> u.jour, review |-> u.review, mine |-> u.mine, others |-> e]
    OBVIOUS
  <2>3. u \in TxnView /\ Agrees(u, att, review)
    BY <1>4, <1>9, <2>1 DEF JourInv, ViewsInv
  <2>4. /\ w \in TxnView /\ Agrees(w, b, review)
        /\ w.att = u.att /\ w.jour = u.jour /\ w.review = u.review /\ w.mine = u.mine
        /\ w.others.built = u.others.built \cup v.mine.built
        /\ w.others.bypassed = u.others.bypassed \cup v.mine.bypassed
    <3>1. \A i \in AttendanceIds : b[i] = IF i \in v.mine.wrote THEN v.att[i] ELSE att[i]
      BY <1>6
    <3> QED
      BY <1>4, <1>5, <2>2, <2>3, <3>1, OthersLearn
  <2>5. txn'[o] = w
    <3>1. txn'[o] = [u EXCEPT !.others = e]
      BY <1>1, <1>9, <2>1, <2>2 DEF CommitOf
    <3> QED
      BY <2>2, <2>3, <3>1, ViewParts
  <2> QED
    BY <2>1, <2>4, <2>5
<1>10. \A o \in Sessions \ {s} : txn[o] = NoTxn => txn'[o] = NoTxn
  BY DEF CommitOf
<1>11. txn' \in [Sessions -> TxnView \cup {NoTxn}]
  <2>1. txn' = [o \in Sessions |-> txn'[o]]
    BY DEF CommitOf
  <2>2. \A o \in Sessions : txn'[o] \in TxnView \cup {NoTxn}
    BY <1>8, <1>9, <1>10
  <2> QED
    BY <2>1, <2>2
<1>12. /\ skipped' = (skipped \ v.mine.built) \cup v.mine.bypassed
                     \cup (v.mine.built \cap v.others.bypassed)
  BY <1>1 DEF CommitOf, MayBeStale
<1>13. skipped' \subseteq Keys
  <2>1. v.mine.built \subseteq Keys /\ v.mine.bypassed \subseteq Keys
    BY <1>5, ViewParts
  <2> QED
    BY <1>4, <1>12, <2>1
<1>14. ViewsInv'
  <2>1. \A o \in Sessions : txn'[o] # NoTxn => Agrees(txn'[o], att', review')
    BY <1>2, <1>6, <1>8, <1>9, <1>10
  <2>2. txn'[Batch] # NoTxn => txn'[Batch].mine.wrote = {} /\ txn'[Batch].mine.bypassed = {}
    BY <1>4, <1>8, <1>9, <1>10 DEF JourInv, ViewsInv
  <2> QED
    BY <2>1, <2>2 DEF ViewsInv
<1>15. JourneyMatches'
  <2>1. SUFFICES ASSUME NEW k \in Keys, k \notin skipped'
                 PROVE  Shown(l[k]) = Shown(JourneyOf(b, {}, k))
    BY <1>2, <1>3 DEF JourneyMatches, Matches
  <2>2. k \notin v.mine.bypassed
    BY <1>12, <2>1
  <2>3. CASE k \in v.mine.built
    <3>1. l[k] = JourneyOf(v.att, v.review, k) /\ SameDay(v.att, b, k)
      BY <1>7, <1>12, <2>1, <2>2, <2>3
    <3>2. v.att \in Table
      BY <1>5, ViewParts
    <3>3. JourneyOf(v.att, {}, k) = JourneyOf(b, {}, k)
      BY <1>7, <3>1, <3>2, SameJourney
    <3> QED
      BY <3>1, <3>2, <3>3, ShownWithoutReview
  <2>4. CASE k \notin v.mine.built
    <3>1. l[k] = jour[k] /\ SameDay(att, b, k)
      BY <1>7, <2>2, <2>4
    <3>2. Shown(jour[k]) = Shown(JourneyOf(att, {}, k))
      BY <1>12, <2>1, <2>4 DEF JourInv, JourneyMatches, Matches
    <3>3. JourneyOf(att, {}, k) = JourneyOf(b, {}, k)
      BY <1>4, <1>7, <3>1, SameJourney
    <3> QED
      BY <3>1, <3>2, <3>3
  <2> QED
    BY <2>3, <2>4
<1> QED
  BY <1>1, <1>2, <1>3, <1>4, <1>6, <1>7, <1>9, <1>10, <1>11, <1>13, <1>14, <1>15

LEMMA RollbackKeeps ==
  ASSUME JourInv, NEW s \in Sessions, txn' = [txn EXCEPT ![s] = NoTxn],
         todo' \in Seq(Keys), chunk' \in 0 .. BatchSize, owed' \subseteq Keys,
         UNCHANGED <<att, jour, review, edits, skipped>>
  PROVE  JourInv'
<1>1. txn \in [Sessions -> TxnView \cup {NoTxn}]
  BY DEF JourInv, TypeOK
<1>2. txn'[s] = NoTxn /\ \A o \in Sessions \ {s} : txn'[o] = txn[o]
  BY <1>1
<1>3. txn' \in [Sessions -> TxnView \cup {NoTxn}]
  BY <1>1
<1>4. TypeOK'
  BY <1>3 DEF JourInv, TypeOK
<1>5. ViewsInv'
  BY <1>2 DEF JourInv, ViewsInv, Sessions
<1>6. JourneyMatches'
  BY DEF JourInv, JourneyMatches, Matches
<1> QED
  BY <1>4, <1>5, <1>6 DEF JourInv

LEMMA StageKeeps ==
  ASSUME JourInv, NEW key \in LateKeys, StageReview(key)
  PROVE  JourInv'
<1>1. /\ review' = review \cup {key} /\ owed' = owed \ {key}
      /\ UNCHANGED <<att, jour, txn, todo, chunk, edits, skipped>>
  BY DEF StageReview
<1>2. TypeOK'
  BY <1>1 DEF JourInv, TypeOK
<1>3. ASSUME NEW v, Agrees(v, att, review) PROVE Agrees(v, att, review')
  <2>1. v.review \subseteq review'
    BY <1>1, <1>3 DEF Agrees
  <2> QED
    BY <1>3, <2>1 DEF Agrees
<1>4. ViewsInv'
  BY <1>1, <1>3 DEF JourInv, ViewsInv
<1>5. JourneyMatches'
  BY <1>1 DEF JourInv, JourneyMatches, Matches
<1> QED
  BY <1>2, <1>4, <1>5 DEF JourInv

LEMMA StartKeeps ==
  ASSUME JourInv, NEW from \in Days, NEW to \in Days, NEW who \in SUBSET Employees,
         StartRun(from, to, who)
  PROVE  /\ JourInv'
         /\ \A k \in owed' : (\E n \in 1 .. Len(todo') : todo'[n] = k)
                             \/ (jour[k] = NoJourney /\ Attended(att, k) = {})
<1> DEFINE range == who \X (from .. to \cap Days)
           keys == CollectRangeKeys(att, jour, range)
<1>1. /\ todo' = ListOf(KeysInOrder(keys)) /\ owed' = range /\ chunk' = 0
      /\ txn' = [txn EXCEPT ![Batch] = Snapshot(att, jour, review)]
      /\ UNCHANGED <<att, jour, review, edits, skipped>>
  BY DEF StartRun
<1>2. range \in SUBSET Keys
  BY DEF Keys
<1>3. /\ keys \in SUBSET Keys
      /\ \A k \in range : k \in keys \/ (jour[k] = NoJourney /\ Attended(att, k) = {})
  BY <1>2 DEF CollectRangeKeys
<1> HIDE DEF keys, range
<1>4. /\ todo' \in Seq(Keys)
      /\ \A k \in keys : \E n \in 1 .. Len(todo') : todo'[n] = k
  BY <1>1, <1>3, KeysListed
<1>5. PICK x : x = Snapshot(att, jour, review)
  OBVIOUS
<1>6. /\ att \in Table /\ jour \in JourneyTable /\ review \in SUBSET LateKeys
      /\ txn \in [Sessions -> TxnView \cup {NoTxn}] /\ Batch \in Sessions
  BY DEF JourInv, TypeOK, Sessions
<1>7. x \in TxnView /\ Agrees(x, att, review) /\ x.mine.wrote = {} /\ x.mine.bypassed = {}
  BY <1>5, <1>6, SnapshotAgrees
<1>8. txn' = [txn EXCEPT ![Batch] = x]
  BY <1>1, <1>5
<1>9. txn' \in [Sessions -> TxnView \cup {NoTxn}]
  BY <1>6, <1>7, <1>8
<1>10. TypeOK'
  BY <1>1, <1>2, <1>4, <1>9, JourneyAssumption DEF JourInv, TypeOK
<1>11. txn'[Batch] = x /\ \A o \in Sessions \ {Batch} : txn'[o] = txn[o]
  BY <1>6, <1>8
<1>12. ViewsInv'
  BY <1>1, <1>7, <1>11 DEF JourInv, ViewsInv
<1>13. JourneyMatches'
  BY <1>1 DEF JourInv, JourneyMatches, Matches
<1> QED
  BY <1>1, <1>3, <1>4, <1>10, <1>12, <1>13 DEF JourInv

LEMMA RebuildKeeps ==
  ASSUME JourInv, RebuildNext
  PROVE  /\ JourInv' /\ todo # <<>> /\ Head(todo) \in Keys
         /\ txn'[Batch] = Rebuild(txn[Batch], {Head(todo)})
<1>1. /\ txn[Batch] # NoTxn /\ todo # <<>> /\ chunk < BatchSize
      /\ txn' = [txn EXCEPT ![Batch] = Rebuild(@, {Head(todo)})]
      /\ todo' = Tail(todo) /\ chunk' = chunk + 1
      /\ UNCHANGED <<att, jour, review, edits, skipped, owed>>
  BY DEF RebuildNext, IsOpen
<1>2. /\ att \in Table /\ txn \in [Sessions -> TxnView \cup {NoTxn}] /\ Batch \in Sessions
      /\ todo \in Seq(Keys) /\ chunk \in 0 .. BatchSize
  BY DEF JourInv, TypeOK, Sessions
<1>3. Head(todo) \in Keys /\ Tail(todo) \in Seq(Keys)
  BY <1>1, <1>2
<1>4. PICK v : v = txn[Batch]
  OBVIOUS
<1>5. PICK w : w = Rebuild(v, {Head(todo)})
  OBVIOUS
<1>6. v \in TxnView /\ Agrees(v, att, review) /\ v.mine.wrote = {} /\ v.mine.bypassed = {}
  BY <1>1, <1>2, <1>4 DEF JourInv, ViewsInv
<1>7. w \in TxnView /\ Agrees(w, att, review) /\ w.mine.wrote = {} /\ w.mine.bypassed = {}
  BY <1>3, <1>5, <1>6, RebuildAgrees
<1>8. txn' = [txn EXCEPT ![Batch] = w]
  BY <1>1, <1>4, <1>5
<1>9. txn' \in [Sessions -> TxnView \cup {NoTxn}]
  BY <1>2, <1>7, <1>8
<1>10. chunk' \in 0 .. BatchSize
  BY <1>1, <1>2, JourneyAssumption
<1>11. TypeOK'
  BY <1>1, <1>3, <1>9, <1>10 DEF JourInv, TypeOK
<1>12. txn'[Batch] = w /\ \A o \in Sessions \ {Batch} : txn'[o] = txn[o]
  BY <1>2, <1>8
<1>13. ViewsInv'
  BY <1>1, <1>7, <1>12 DEF JourInv, ViewsInv
<1>14. JourneyMatches'
  BY <1>1 DEF JourInv, JourneyMatches, Matches
<1> QED
  BY <1>1, <1>3, <1>4, <1>5, <1>11, <1>12, <1>13, <1>14 DEF JourInv

LEMMA CommitsAre ==
  /\ \A s \in Clients : JourInv /\ Commit(s) =>
       txn[s] # NoTxn /\ CommitOf(s) /\ txn'[s] = NoTxn
  /\ JourInv /\ CommitChunk =>
       txn[Batch] # NoTxn /\ CommitOf(Batch) /\ txn'[Batch] = Snapshot(att', jour', review')
  /\ JourInv /\ EndRun =>
       txn[Batch] # NoTxn /\ CommitOf(Batch) /\ txn'[Batch] = NoTxn
<1>1. Batch \in Sessions /\ Clients \subseteq Sessions
  BY DEF Sessions
<1>2. ASSUME NEW s \in Sessions, CommitTxn(s, NoTxn) PROVE CommitOf(s) /\ txn'[s] = NoTxn
  BY <1>2 DEF CommitTxn, CommitOf
<1>3. ASSUME NEW s \in Clients, Commit(s)
      PROVE  txn[s] # NoTxn /\ CommitOf(s) /\ txn'[s] = NoTxn
  <2>1. s \in Sessions /\ CommitTxn(s, NoTxn) /\ txn[s] # NoTxn
    BY <1>1, <1>3 DEF Commit, IsOpen
  <2> QED
    BY <1>2, <2>1
<1>4. ASSUME CommitChunk
      PROVE  txn[Batch] # NoTxn /\ CommitOf(Batch) /\ txn'[Batch] = Snapshot(att', jour', review')
  BY <1>1, <1>4 DEF CommitChunk, CommitTxn, CommitOf, IsOpen
<1>5. ASSUME EndRun
      PROVE  txn[Batch] # NoTxn /\ CommitOf(Batch) /\ txn'[Batch] = NoTxn
  <2>1. CommitTxn(Batch, NoTxn) /\ txn[Batch] # NoTxn
    BY <1>5 DEF EndRun, IsOpen
  <2> QED
    BY <1>1, <1>2, <2>1
<1> QED
  BY <1>3, <1>4, <1>5

LEMMA JourStep ==
  ASSUME JourInv, [Next]_vars
  PROVE  JourInv'
<1>1. CASE UNCHANGED vars
  BY <1>1 DEF vars, JourInv, TypeOK, ViewsInv, JourneyMatches, Matches
<1>2. ASSUME NEW s \in Clients, ClientStep(s) PROVE JourInv'
  <2>1. s \in Sessions /\ TypeOK
    BY DEF Sessions, JourInv
  <2>2. ASSUME NEW id \in AttendanceIds, NEW shift \in Shifts, NEW skip \in BOOLEAN,
               Create(s, id, shift, skip) \/ Write(s, id, shift, skip)
        PROVE  JourInv'
    <3>1. Edit(s, id, shift, skip)
      BY <2>2 DEF Create, Write
    <3> QED
      BY <3>1, EditKeeps
  <2>3. ASSUME NEW id \in AttendanceIds, Unlink(s, id) PROVE JourInv'
    <3>1. Edit(s, id, NoShift, FALSE)
      BY <2>3 DEF Unlink
    <3> QED
      BY <3>1, EditKeeps
  <2>4. CASE Commit(s)
    <3>1. txn[s] # NoTxn /\ CommitOf(s) /\ txn'[s] = NoTxn
      BY <2>4, CommitsAre
    <3>2. /\ att' \in Table /\ jour' \in JourneyTable /\ review' \subseteq LateKeys
          /\ txn' \in [Sessions -> TxnView \cup {NoTxn}] /\ skipped' \subseteq Keys
          /\ ViewsInv' /\ JourneyMatches'
      BY <2>1, <3>1, CommitKeeps
    <3>3. owed' \subseteq Keys /\ UNCHANGED <<todo, chunk, edits>>
      BY <2>1, <2>4 DEF Commit, TypeOK
    <3> QED
      BY <2>1, <3>2, <3>3 DEF JourInv, TypeOK
  <2>5. CASE Rollback(s)
    <3>1. /\ txn' = [txn EXCEPT ![s] = NoTxn]
          /\ UNCHANGED <<att, jour, review, todo, chunk, edits, skipped, owed>>
      BY <2>5 DEF Rollback
    <3>2. todo' \in Seq(Keys) /\ chunk' \in 0 .. BatchSize /\ owed' \subseteq Keys
      BY <2>1, <3>1 DEF TypeOK
    <3> QED
      BY <2>1, <3>1, <3>2, RollbackKeeps
  <2> QED
    BY <1>2, <2>2, <2>3, <2>4, <2>5 DEF ClientStep
<1>3. ASSUME NEW key \in LateKeys, StageReview(key) PROVE JourInv'
  BY <1>3, StageKeeps
<1>4. CASE BatchStep
  <2>1. Batch \in Sessions /\ TypeOK
    BY DEF Sessions, JourInv
  <2>2. 0 \in 0 .. BatchSize /\ <<>> \in Seq(Keys) /\ {} \subseteq Keys
    BY JourneyAssumption
  <2>3. ASSUME NEW from \in Days, NEW to \in Days, NEW who \in SUBSET Employees,
               StartRun(from, to, who)
        PROVE  JourInv'
    BY <2>3, StartKeeps
  <2>4. CASE RebuildNext
    BY <2>4, RebuildKeeps
  <2>5. CASE CommitChunk
    <3>1. txn[Batch] # NoTxn /\ CommitOf(Batch) /\ txn'[Batch] = Snapshot(att', jour', review')
      BY <2>5, CommitsAre
    <3>2. /\ att' \in Table /\ jour' \in JourneyTable /\ review' \subseteq LateKeys
          /\ txn' \in [Sessions -> TxnView \cup {NoTxn}] /\ skipped' \subseteq Keys
          /\ ViewsInv' /\ JourneyMatches'
      BY <2>1, <3>1, CommitKeeps
    <3>3. chunk' = 0 /\ UNCHANGED <<todo, edits, owed>>
      BY <2>5 DEF CommitChunk
    <3> QED
      BY <2>1, <2>2, <3>2, <3>3 DEF JourInv, TypeOK
  <2>6. CASE EndRun
    <3>1. txn[Batch] # NoTxn /\ CommitOf(Batch) /\ txn'[Batch] = NoTxn
      BY <2>6, CommitsAre
    <3>2. /\ att' \in Table /\ jour' \in JourneyTable /\ review' \subseteq LateKeys
          /\ txn' \in [Sessions -> TxnView \cup {NoTxn}] /\ skipped' \subseteq Keys
          /\ ViewsInv' /\ JourneyMatches'
      BY <2>1, <3>1, CommitKeeps
    <3>3. todo' = <<>> /\ chunk' = 0 /\ owed' = {} /\ UNCHANGED edits
      BY <2>6 DEF EndRun
    <3> QED
      BY <2>1, <2>2, <3>2, <3>3 DEF JourInv, TypeOK
  <2>7. CASE RunAborted
    BY <2>1, <2>2, <2>7, RollbackKeeps DEF RunAborted
  <2> QED
    BY <1>4, <2>3, <2>4, <2>5, <2>6, <2>7 DEF BatchStep, FinishRun, RunRaises
<1> QED
  BY <1>1, <1>2, <1>3, <1>4 DEF Next

LEMMA JourInit ==
  ASSUME Init
  PROVE  JourInv
<1>1. att \in Table /\ jour \in JourneyTable
  BY DEF Init, Table, JourneyTable
<1>2. TypeOK
  BY <1>1, JourneyAssumption DEF Init, TypeOK
<1>3. ViewsInv
  BY DEF Init, ViewsInv, Sessions
<1>4. ASSUME NEW k \in Keys PROVE Matches(att, jour, k)
  <2>1. Attended(att, k) = {}
    BY DEF Init, Attended, KeyPairs
  <2>2. JourneyOf(att, {}, k) = NoJourney
    BY <1>1, <2>1, JourneyType
  <2> QED
    BY <2>2 DEF Init, Matches
<1> QED
  BY <1>2, <1>3, <1>4 DEF JourInv, JourneyMatches

LEMMA JourInvariant == Spec => []JourInv
<1>1. Init => JourInv
  BY JourInit
<1>2. JourInv /\ [Next]_vars => JourInv'
  BY JourStep
<1> QED
  BY <1>1, <1>2, PTL DEF Spec

(* The tables, the open transactions and the run of run_batch hold what    *)
(* the code puts in them, and a chunk never exceeds the batch size.        *)
THEOREM JourneysTyped == Spec => []TypeOK
<1>1. JourInv => TypeOK
  BY DEF JourInv
<1> QED
  BY <1>1, JourInvariant, PTL

(* Whichever transactions are interleaved, the journey of every day shows  *)
(* its attendances as committed, except where an edit bypassed the hook.   *)
THEOREM JourneysMatch == Spec => []JourneyMatches
<1>1. JourInv => JourneyMatches
  BY DEF JourInv
<1> QED
  BY <1>1, JourInvariant, PTL

(***************************************************************************)
(* What a run of run_batch repairs                                         *)
(***************************************************************************)

(* A commit leaves right the days it rebuilt in time, and the days that    *)
(* were right and that it did not bypass.                                  *)
LEMMA CommitFreshens ==
  ASSUME JourInv, NEW s \in Sessions, txn[s] # NoTxn, CommitOf(s),
         NEW k \in Keys, k \notin MayBeStale(txn[s]), k \notin FlagMayBeStale(txn[s])
  PROVE  /\ k \in txn[s].mine.built => Fresh(k)'
         /\ Fresh(k) => Fresh(k)'
         /\ k \notin txn[s].mine.bypassed
         /\ k \notin txn[s].mine.built => jour'[k] = jour[k]
         /\ k \in txn[s].mine.built => k \notin txn[s].others.built
<1>1. PICK v : v = txn[s]
  OBVIOUS
<1>2. PICK b, l : b = att' /\ l = jour'
  OBVIOUS
<1>3. /\ att \in Table /\ jour \in JourneyTable /\ txn \in [Sessions -> TxnView \cup {NoTxn}]
  BY DEF JourInv, TypeOK
<1>4. v \in TxnView /\ Agrees(v, att, review) /\ ~Conflict(v) /\ v.att \in Table
  <2>1. v \in TxnView /\ Agrees(v, att, review) /\ ~Conflict(v)
    BY <1>1, <1>3 DEF CommitOf, JourInv, ViewsInv
  <2> QED
    BY <2>1, ViewParts
<1>5. /\ b = [i \in AttendanceIds |-> IF i \in v.mine.wrote THEN v.att[i] ELSE att[i]]
      /\ l = [i \in Keys |-> IF i \in v.mine.built THEN v.jour[i] ELSE jour[i]]
      /\ review' = review
  BY <1>1, <1>2 DEF CommitOf
<1>6. /\ b \in Table
      /\ k \notin v.mine.built => l[k] = jour[k]
      /\ k \notin v.mine.built /\ k \notin v.mine.bypassed => SameDay(att, b, k)
      /\ k \in v.mine.built /\ k \notin v.mine.bypassed /\ k \notin v.others.bypassed =>
           l[k] = JourneyOf(v.att, v.review, k) /\ SameDay(v.att, b, k)
  BY <1>3, <1>4, <1>5, CommitShows
<1>7. /\ k \notin v.mine.bypassed
      /\ k \in v.mine.built => k \notin v.others.bypassed /\ (k \in review => k \in v.review)
  BY <1>1 DEF MayBeStale, FlagMayBeStale
<1>8. k \in v.mine.built => k \notin v.others.built
  BY <1>4 DEF Conflict
<1>9. ASSUME k \in v.mine.built PROVE l[k] = JourneyOf(b, review, k)
  <2>1. k \in v.review <=> k \in review
    BY <1>4, <1>7, <1>9 DEF Agrees
  <2>2. l[k] = JourneyOf(v.att, v.review, k) /\ SameDay(v.att, b, k)
    BY <1>6, <1>7, <1>9
  <2>3. JourneyOf(v.att, v.review, k) = JourneyOf(b, review, k)
    BY <1>4, <1>6, <2>1, <2>2, SameJourney
  <2> QED
    BY <2>2, <2>3
<1>10. ASSUME jour[k] = JourneyOf(att, review, k) PROVE l[k] = JourneyOf(b, review, k)
  <2>1. CASE k \in v.mine.built
    BY <1>9, <2>1
  <2>2. CASE k \notin v.mine.built
    <3>1. l[k] = jour[k] /\ SameDay(att, b, k)
      BY <1>6, <1>7, <2>2
    <3>2. JourneyOf(att, review, k) = JourneyOf(b, review, k)
      BY <1>3, <1>6, <3>1, SameJourney
    <3> QED
      BY <1>10, <3>1, <3>2
  <2> QED
    BY <2>1, <2>2
<1> QED
  BY <1>1, <1>2, <1>5, <1>6, <1>7, <1>8, <1>9, <1>10 DEF Fresh

(* What a run owes has been rebuilt in the chunk, is right, or is to come; *)
(* once the list is done, a commit of the chunk leaves it all right.       *)
LEMMA BatchFreshens ==
  ASSUME JourInv, RepairInv, txn[Batch] # NoTxn, CommitOf(Batch), NEW k \in owed
  PROVE  Fresh(k)' \/ \E n \in 1 .. Len(todo) : todo[n] = k
<1>1. k \in Keys /\ Batch \in Sessions
  BY DEF JourInv, TypeOK, Sessions
<1>2. /\ k \notin txn[Batch].others.bypassed /\ (k \in review => k \in txn[Batch].review)
      /\ k \in txn[Batch].mine.built \/ Fresh(k) \/ \E n \in 1 .. Len(todo) : todo[n] = k
  BY DEF RepairInv, OwedInv
<1>3. txn[Batch].mine.bypassed = {}
  BY DEF JourInv, ViewsInv
<1>4. k \notin MayBeStale(txn[Batch]) /\ k \notin FlagMayBeStale(txn[Batch])
  BY <1>2, <1>3 DEF MayBeStale, FlagMayBeStale
<1>5. (k \in txn[Batch].mine.built => Fresh(k)') /\ (Fresh(k) => Fresh(k)')
  BY <1>1, <1>4, CommitFreshens
<1> QED
  BY <1>2, <1>5

LEMMA RepairKept ==
  ASSUME RepairInv, UNCHANGED <<att, jour, review, todo, owed>>, txn'[Batch] = txn[Batch]
  PROVE  RepairInv'
<1>1. /\ att' = att /\ jour' = jour /\ review' = review /\ todo' = todo /\ owed' = owed
      /\ txn'[Batch] = txn[Batch]
  OBVIOUS
<1> QED
  BY <1>1 DEF RepairInv, OwedInv, UntouchedInv, Fresh

LEMMA RepairCommit ==
  ASSUME JourInv, RepairInv, NEW s \in Clients, Commit(s)
  PROVE  RepairInv'
<1>1. txn[s] # NoTxn /\ CommitOf(s) /\ txn'[s] = NoTxn
  BY CommitsAre
<1>2. s \in Sessions /\ Batch \in Sessions /\ s # Batch
  BY JourneyAssumption DEF Sessions
<1>3. /\ owed' = owed \ (MayBeStale(txn[s]) \cup FlagMayBeStale(txn[s])) /\ todo' = todo
      /\ review' = review
  BY <1>1 DEF Commit, CommitOf
<1>4. txn[Batch] = NoTxn => txn'[Batch] = NoTxn
  BY <1>1, <1>2, CommitKeeps
<1>5. CASE txn[Batch] = NoTxn
  BY <1>3, <1>4, <1>5 DEF RepairInv
<1>6. CASE txn[Batch] # NoTxn
  <2>1. /\ txn'[Batch] # NoTxn
        /\ txn'[Batch].jour = txn[Batch].jour /\ txn'[Batch].review = txn[Batch].review
        /\ txn'[Batch].mine = txn[Batch].mine
        /\ txn'[Batch].others.built = txn[Batch].others.built \cup txn[s].mine.built
        /\ txn'[Batch].others.bypassed = txn[Batch].others.bypassed \cup txn[s].mine.bypassed
    BY <1>1, <1>2, <1>6, CommitKeeps
  <2>2. OwedInv /\ UntouchedInv
    BY <1>6 DEF RepairInv
  <2>3. ASSUME NEW k \in owed'
        PROVE  /\ k \notin txn'[Batch].others.bypassed
               /\ k \in review' => k \in txn'[Batch].review
               /\ k \in txn'[Batch].others.built => Fresh(k)'
               /\ k \in txn'[Batch].mine.built \/ Fresh(k)' \/ \E n \in 1 .. Len(todo') : todo'[n] = k
    <3>1. k \in owed /\ k \notin MayBeStale(txn[s]) /\ k \notin FlagMayBeStale(txn[s])
      BY <1>3, <2>3
    <3>2. k \in Keys
      BY <3>1 DEF JourInv, TypeOK
    <3>3. /\ k \in txn[s].mine.built => Fresh(k)'
          /\ Fresh(k) => Fresh(k)'
          /\ k \notin txn[s].mine.bypassed
      BY <1>1, <1>2, <3>1, <3>2, CommitFreshens
    <3>4. /\ k \notin txn[Batch].others.bypassed
          /\ k \in review => k \in txn[Batch].review
          /\ k \in txn[Batch].others.built => Fresh(k)
          /\ k \in txn[Batch].mine.built \/ Fresh(k) \/ \E n \in 1 .. Len(todo) : todo[n] = k
      BY <2>2, <3>1 DEF OwedInv
    <3> QED
      BY <1>3, <2>1, <3>3, <3>4
  <2>4. ASSUME NEW k \in Keys, k \notin txn'[Batch].mine.built, k \notin txn'[Batch].others.built
        PROVE  txn'[Batch].jour[k] = jour'[k]
    <3>1. k \notin txn[Batch].mine.built /\ k \notin txn[Batch].others.built
          /\ k \notin txn[s].mine.built
      BY <2>1, <2>4
    <3>2. jour'[k] = jour[k]
      BY <1>1, <3>1 DEF CommitOf
    <3> QED
      BY <2>1, <2>2, <3>1, <3>2 DEF UntouchedInv
  <2>5. OwedInv'
    BY <2>3 DEF OwedInv
  <2>6. UntouchedInv'
    BY <2>4 DEF UntouchedInv
  <2> QED
    BY <2>1, <2>5, <2>6 DEF RepairInv
<1> QED
  BY <1>5, <1>6

LEMMA RepairStage ==
  ASSUME JourInv, RepairInv, NEW key \in LateKeys, StageReview(key)
  PROVE  RepairInv'
<1>1. /\ review' = review \cup {key} /\ owed' = owed \ {key}
      /\ UNCHANGED <<att, jour, txn, todo, chunk, edits, skipped>>
  BY DEF StageReview
<1>2. ASSUME NEW k \in owed' PROVE Fresh(k) => Fresh(k)'
  <2>1. k \in Keys /\ att \in Table /\ (k \in review <=> k \in review')
    BY <1>1, <1>2 DEF JourInv, TypeOK
  <2>2. JourneyOf(att, review, k) = JourneyOf(att, review', k)
    BY <2>1, SameJourney DEF SameDay
  <2> QED
    BY <1>1, <2>2 DEF Fresh
<1>3. txn[Batch] # NoTxn => OwedInv'
  BY <1>1, <1>2 DEF RepairInv, OwedInv
<1>4. txn[Batch] # NoTxn => UntouchedInv'
  BY <1>1 DEF RepairInv, UntouchedInv
<1> QED
  BY <1>1, <1>3, <1>4 DEF RepairInv

LEMMA RepairStart ==
  ASSUME JourInv, RepairInv, NEW from \in Days, NEW to \in Days, NEW who \in SUBSET Employees,
         StartRun(from, to, who)
  PROVE  RepairInv'
<1>1. /\ txn' = [txn EXCEPT ![Batch] = Snapshot(att, jour, review)]
      /\ UNCHANGED <<att, jour, review, edits, skipped>>
  BY DEF StartRun
<1>2. PICK x : x = Snapshot(att, jour, review)
  OBVIOUS
<1>3. /\ att \in Table /\ jour \in JourneyTable /\ review \in SUBSET LateKeys
      /\ txn \in [Sessions -> TxnView \cup {NoTxn}] /\ Batch \in Sessions
      /\ owed' \subseteq Keys
  <2>1. JourInv'
    BY StartKeeps
  <2> QED
    BY <2>1 DEF JourInv, TypeOK, Sessions
<1>4. /\ x \in TxnView /\ x.jour = jour /\ x.review = review
      /\ x.mine.built = {} /\ x.others.built = {} /\ x.others.bypassed = {}
  BY <1>2, <1>3, SnapshotAgrees
<1>5. txn'[Batch] = x /\ x # NoTxn
  BY <1>1, <1>2, <1>3, <1>4, JourneyAssumption
<1>6. ASSUME NEW k \in owed'
      PROVE  Fresh(k)' \/ \E n \in 1 .. Len(todo') : todo'[n] = k
  <2>1. (\E n \in 1 .. Len(todo') : todo'[n] = k) \/ (jour[k] = NoJourney /\ Attended(att, k) = {})
    BY StartKeeps
  <2>2. ASSUME jour[k] = NoJourney, Attended(att, k) = {} PROVE Fresh(k)'
    <3>1. JourneyOf(att, review, k) = NoJourney
      BY <1>3, <2>2, JourneyType
    <3> QED
      BY <1>1, <2>2, <3>1 DEF Fresh
  <2> QED
    BY <2>1, <2>2
<1>7. OwedInv'
  BY <1>1, <1>4, <1>5, <1>6 DEF OwedInv
<1>8. UntouchedInv'
  BY <1>1, <1>4, <1>5 DEF UntouchedInv
<1> QED
  BY <1>5, <1>7, <1>8 DEF RepairInv

LEMMA RepairRebuild ==
  ASSUME JourInv, RepairInv, RebuildNext
  PROVE  RepairInv'
<1>1. /\ txn[Batch] # NoTxn /\ todo # <<>> /\ todo' = Tail(todo)
      /\ UNCHANGED <<att, jour, review, edits, skipped, owed>>
  BY DEF RebuildNext, IsOpen
<1>2. PICK v, w, h : v = txn[Batch] /\ w = txn'[Batch] /\ h = Head(todo)
  OBVIOUS
<1>3. /\ att \in Table /\ jour \in JourneyTable /\ todo \in Seq(Keys) /\ owed \subseteq Keys
      /\ v \in TxnView /\ Agrees(v, att, review) /\ v.mine.wrote = {} /\ v.mine.bypassed = {}
      /\ v.att \in Table
  <2>1. Batch \in Sessions /\ TypeOK
    BY DEF JourInv, Sessions
  <2>2. v \in TxnView /\ Agrees(v, att, review) /\ v.mine.wrote = {} /\ v.mine.bypassed = {}
    BY <1>1, <1>2, <2>1 DEF TypeOK, JourInv, ViewsInv
  <2> QED
    BY <2>1, <2>2, ViewParts DEF TypeOK
<1>4. h \in Keys /\ w = Rebuild(v, {h})
  BY <1>2, RebuildKeeps
<1>5. /\ w \in TxnView
      /\ w.review = v.review /\ w.others = v.others
      /\ v.mine.built \subseteq w.mine.built /\ w.mine.built \subseteq v.mine.built \cup {h}
      /\ w.jour[h] = JourneyOf(v.att, v.review, h)
      /\ \A k \in Keys : k # h => w.jour[k] = v.jour[k]
      /\ h \notin w.mine.built => v.jour[h] = NoJourney /\ w.jour[h] = NoJourney
  BY <1>3, <1>4, Rebuilt
<1>6. OwedInv /\ UntouchedInv
  BY <1>1 DEF RepairInv
<1>7. ASSUME h \in owed, h \notin w.mine.built PROVE Fresh(h)
  <2>1. v.jour[h] = NoJourney /\ JourneyOf(v.att, v.review, h) = NoJourney /\ h \notin v.mine.built
    BY <1>5, <1>7
  <2>2. h \notin v.others.bypassed /\ (h \in review => h \in v.review)
        /\ (h \in v.others.built => Fresh(h))
    BY <1>2, <1>6, <1>7 DEF OwedInv
  <2>3. CASE h \in v.others.built
    BY <2>2, <2>3
  <2>4. CASE h \notin v.others.built
    <3>1. jour[h] = NoJourney
      BY <1>2, <1>4, <1>6, <2>1, <2>4 DEF UntouchedInv
    <3>2. SameDay(v.att, att, h)
      BY <1>3, <1>4, <2>2, <2>4 DEF Agrees, SameDay, Alike
    <3>3. h \in v.review <=> h \in review
      BY <1>3, <2>2 DEF Agrees
    <3>4. JourneyOf(v.att, v.review, h) = JourneyOf(att, review, h)
      BY <1>3, <1>4, <3>2, <3>3, SameJourney
    <3> QED
      BY <2>1, <3>1, <3>4 DEF Fresh
  <2> QED
    BY <2>3, <2>4
<1>8. \A n \in 1 .. Len(todo) : todo[n] = h \/ \E m \in 1 .. Len(todo') : todo'[m] = todo[n]
  <2>1. SUFFICES ASSUME NEW n \in 1 .. Len(todo), n # 1
                 PROVE  \E m \in 1 .. Len(todo') : todo'[m] = todo[n]
    BY <1>1, <1>2, <1>3
  <2>2. n - 1 \in 1 .. Len(todo') /\ todo'[n - 1] = todo[n]
    BY <1>1, <1>3, <2>1
  <2> QED
    BY <2>2
<1>9. ASSUME NEW k \in owed'
      PROVE  /\ k \notin txn'[Batch].others.bypassed
             /\ k \in review' => k \in txn'[Batch].review
             /\ k \in txn'[Batch].others.built => Fresh(k)'
             /\ k \in txn'[Batch].mine.built \/ Fresh(k)' \/ \E n \in 1 .. Len(todo') : todo'[n] = k
  <2>1. k \in owed /\ (Fresh(k) => Fresh(k)') /\ review' = review
    BY <1>1, <1>9 DEF Fresh
  <2>2. /\ k \notin v.others.bypassed /\ (k \in review => k \in v.review)
        /\ k \in v.others.built => Fresh(k)
        /\ k \in v.mine.built \/ Fresh(k) \/ \E n \in 1 .. Len(todo) : todo[n] = k
    BY <1>2, <1>6, <2>1 DEF OwedInv
  <2>3. k \in w.mine.built \/ Fresh(k)' \/ \E n \in 1 .. Len(todo') : todo'[n] = k
    BY <1>5, <1>7, <1>8, <2>1, <2>2
  <2> QED
    BY <1>2, <1>5, <2>1, <2>2, <2>3
<1>10. ASSUME NEW k \in Keys, k \notin txn'[Batch].mine.built, k \notin txn'[Batch].others.built
       PROVE  txn'[Batch].jour[k] = jour'[k]
  <2>1. k \notin v.mine.built /\ k \notin v.others.built
    BY <1>2, <1>5, <1>10
  <2>2. v.jour[k] = jour[k]
    BY <1>2, <1>6, <2>1 DEF UntouchedInv
  <2> QED
    BY <1>1, <1>2, <1>5, <1>10, <2>2
<1>11. txn'[Batch] # NoTxn
  BY <1>2, <1>5, JourneyAssumption
<1>12. OwedInv'
  BY <1>9 DEF OwedInv
<1>13. UntouchedInv'
  BY <1>10 DEF UntouchedInv
<1> QED
  BY <1>11, <1>12, <1>13 DEF RepairInv

LEMMA RepairChunk ==
  ASSUME JourInv, RepairInv, CommitChunk
  PROVE  RepairInv'
<1>1. txn[Batch] # NoTxn /\ CommitOf(Batch) /\ txn'[Batch] = Snapshot(att', jour', review')
  BY CommitsAre
<1>2. Batch \in Sessions
  BY DEF Sessions
<1>3. att' \in Table /\ jour' \in JourneyTable /\ review' \in SUBSET LateKeys
  BY <1>1, <1>2, CommitKeeps
<1>4. PICK a, j, r, x : a = att' /\ j = jour' /\ r = review' /\ x = txn'[Batch]
  OBVIOUS
<1>5. /\ x \in TxnView /\ x.jour = j /\ x.review = r
      /\ x.mine.built = {} /\ x.others.built = {} /\ x.others.bypassed = {}
  <2>1. x = Snapshot(a, j, r)
    BY <1>1, <1>4
  <2> QED
    BY <1>3, <1>4, <2>1, SnapshotAgrees
<1>6. todo' = todo /\ owed' = owed
  BY DEF CommitChunk
<1>7. \A k \in owed' : Fresh(k)' \/ \E n \in 1 .. Len(todo') : todo'[n] = k
  BY <1>1, <1>6, BatchFreshens
<1>8. txn'[Batch] # NoTxn
  BY <1>4, <1>5, JourneyAssumption
<1>9. OwedInv'
  BY <1>4, <1>5, <1>7 DEF OwedInv
<1>10. UntouchedInv'
  BY <1>4, <1>5 DEF UntouchedInv
<1> QED
  BY <1>8, <1>9, <1>10 DEF RepairInv

LEMMA RepairStep ==
  ASSUME JourInv, RepairInv, [Next]_vars
  PROVE  RepairInv'
<1>1. CASE UNCHANGED vars
  BY <1>1, RepairKept DEF vars
<1>2. ASSUME NEW s \in Clients, ClientStep(s) PROVE RepairInv'
  <2>1. ASSUME NEW id \in AttendanceIds, NEW shift \in Shifts \cup {NoShift}, NEW skip \in BOOLEAN,
               Edit(s, id, shift, skip)
        PROVE  RepairInv'
    <3>1. txn'[Batch] = txn[Batch]
      BY <2>1, EditKeeps
    <3>2. UNCHANGED <<att, jour, review, todo, owed>>
      BY <2>1 DEF Edit
    <3> QED
      BY <3>1, <3>2, RepairKept
  <2>2. ASSUME NEW id \in AttendanceIds, NEW shift \in Shifts, NEW skip \in BOOLEAN,
               Create(s, id, shift, skip) \/ Write(s, id, shift, skip)
        PROVE  RepairInv'
    <3>1. Edit(s, id, shift, skip)
      BY <2>2 DEF Create, Write
    <3> QED
      BY <2>1, <3>1
  <2>3. ASSUME NEW id \in AttendanceIds, Unlink(s, id) PROVE RepairInv'
    <3>1. Edit(s, id, NoShift, FALSE)
      BY <2>3 DEF Unlink
    <3> QED
      BY <2>1, <3>1
  <2>4. CASE Commit(s)
    BY <2>4, RepairCommit
  <2>5. CASE Rollback(s)
    <3>1. s # Batch /\ txn \in [Sessions -> TxnView \cup {NoTxn}] /\ Batch \in Sessions
      BY JourneyAssumption DEF JourInv, TypeOK, Sessions
    <3>2. txn'[Batch] = txn[Batch] /\ UNCHANGED <<att, jour, review, todo, owed>>
      BY <2>5, <3>1 DEF Rollback
    <3> QED
      BY <3>2, RepairKept
  <2> QED
    BY <1>2, <2>2, <2>3, <2>4, <2>5 DEF ClientStep
<1>3. ASSUME NEW key \in LateKeys, StageReview(key) PROVE RepairInv'
  BY <1>3, RepairStage
<1>4. CASE BatchStep
  <2>1. ASSUME NEW from \in Days, NEW to \in Days, NEW who \in SUBSET Employees,
               StartRun(from, to, who)
        PROVE  RepairInv'
    BY <2>1, RepairStart
  <2>2. ASSUME EndRun PROVE RepairInv'
    <3>1. txn'[Batch] = NoTxn
      BY <2>2, CommitsAre
    <3>2. owed' = {}
      BY <2>2 DEF EndRun
    <3> QED
      BY <3>1, <3>2 DEF RepairInv
  <2>3. CASE RunAborted
    <3>1. txn \in [Sessions -> TxnView \cup {NoTxn}] /\ Batch \in Sessions
      BY DEF JourInv, TypeOK, Sessions
    <3>2. txn'[Batch] = NoTxn /\ owed' = {}
      BY <2>3, <3>1 DEF RunAborted
    <3> QED
      BY <3>2 DEF RepairInv
  <2> QED
    BY <1>4, <2>1, <2>2, <2>3, RepairRebuild, RepairChunk DEF BatchStep, FinishRun, RunRaises
<1> QED
  BY <1>1, <1>2, <1>3, <1>4 DEF Next

(* A run of run_batch that finishes leaves right every day of its range    *)
(* that no edit bypassed and no late punch came for while it ran: the days *)
(* the backfill left without a rebuild are repaired.                       *)
THEOREM RunsRepair == Spec => BatchRepairs
<1>1. Init => JourInv /\ RepairInv
  <2>1. Init => RepairInv
    BY DEF Init, RepairInv, Sessions
  <2> QED
    BY <2>1, JourInit
<1>2. JourInv /\ RepairInv /\ [Next]_vars => (JourInv /\ RepairInv)'
  BY JourStep, RepairStep
<1>3. JourInv /\ RepairInv /\ [Next]_vars
      => [FinishRun => \A k \in owed : jour'[k] = JourneyOf(att', review', k)]_vars
  <2>1. SUFFICES ASSUME JourInv, RepairInv, FinishRun, NEW k \in owed
                 PROVE  jour'[k] = JourneyOf(att', review', k)
    OBVIOUS
  <2>2. txn[Batch] # NoTxn /\ CommitOf(Batch)
    BY <2>1, CommitsAre DEF FinishRun
  <2>3. todo = <<>>
    BY <2>1 DEF FinishRun
  <2>4. Fresh(k)' \/ \E n \in 1 .. Len(todo) : todo[n] = k
    BY <2>1, <2>2, BatchFreshens
  <2>5. Fresh(k)'
    BY <2>3, <2>4
  <2> QED
    BY <2>5 DEF Fresh
<1> QED
  BY <1>1, <1>2, <1>3, PTL DEF Spec, BatchRepairs

(***************************************************************************)
(* Gaps                                                                    *)
(***************************************************************************)

(* Of the closed segments of a day that do not overlap, those worked and   *)
(* the gaps between them add up to the span of the day.                    *)
LEMMA SpanOfDay ==
  ASSUME NEW a \in Table, NEW k \in Keys, Attended(a, k) # {},
         NEW s, s = BuildSegments(a, Attended(a, k)),
         \A n \in DOMAIN s : s[n].out # Open,
         \A m, n \in DOMAIN s : m # n /\ s[m].in <= s[n].in => s[m].out <= s[n].in
  PROVE  Total([n \in DOMAIN s |-> s[n].out - s[n].in]) + TotalGap(s)
           = Max({s[n].out : n \in DOMAIN s}) - Min({s[n].in : n \in DOMAIN s})
<1> DEFINE ids == Attended(a, k)
           c == Cardinality(ids)
           f == ListOf(InOrder(a, ids))
           work == [n \in DOMAIN s |-> s[n].out - s[n].in]
           gaps == [n \in DOMAIN s |-> s[n].gap]
<1>1. /\ c \in Nat /\ c # 0 /\ f \in [1 .. c -> ids]
      /\ \A m, n \in 1 .. c : m < n => SegmentBefore(a, f[m], f[n])
  <2>1. /\ ids \in SUBSET AttendanceIds /\ c \in Nat /\ c # 0 /\ IsFiniteSet(ids)
        /\ \A i \in ids : a[i] \in Shift /\ a[i].in \in Nat
    BY AttendedType
  <2>2. f \in InOrder(a, ids)
    BY <2>1, SegmentOrder
  <2> QED
    BY <2>1, <2>2 DEF InOrder
<1>2. \A i \in ids : /\ a[i].in \in Nat /\ a[i].out \in Nat \cup {Open}
                     /\ a[i].out = Open \/ a[i].in <= a[i].out
  <2>1. \A i \in ids : a[i] \in Shifts
    BY DEF Attended, KeyPairs, Table
  <2> QED
    BY <2>1, JourneyAssumption DEF Shift
<1>3. s = [n \in 1 .. c |->
             [id |-> f[n], in |-> a[f[n]].in, out |-> a[f[n]].out, state |-> SegmentState(a[f[n]]),
              gap |-> IF n = 1 THEN 0 ELSE GapBefore(a[f[n - 1]], a[f[n]])]]
  BY DEF BuildSegments
<1> HIDE DEF ids, c, f
<1>4. /\ DOMAIN s = 1 .. c
      /\ \A n \in 1 .. c : /\ s[n].in = a[f[n]].in /\ s[n].out = a[f[n]].out
                           /\ s[n].gap = IF n = 1 THEN 0 ELSE GapBefore(a[f[n - 1]], a[f[n]])
  BY <1>3
<1>5. \A n \in 1 .. c : s[n].in \in Nat /\ s[n].out \in Nat /\ s[n].in <= s[n].out
  <2>1. \A n \in 1 .. c : f[n] \in ids /\ a[f[n]].out # Open
    BY <1>1, <1>4
  <2> QED
    BY <1>2, <1>4, <2>1
<1>6. \A m, n \in 1 .. c : m < n => s[m].in <= s[n].in /\ s[m].out <= s[n].in
  <2>1. SUFFICES ASSUME NEW m \in 1 .. c, NEW n \in 1 .. c, m < n
                 PROVE  s[m].in <= s[n].in /\ s[m].out <= s[n].in
    OBVIOUS
  <2>2. SegmentBefore(a, f[m], f[n])
    BY <1>1, <2>1
  <2>3. s[m].in <= s[n].in
    BY <1>4, <1>5, <2>1, <2>2 DEF SegmentBefore
  <2>4. m # n
    BY <2>1
  <2> QED
    BY <1>4, <2>1, <2>3, <2>4
<1>7. \A n \in 1 .. c : s[n].gap = IF n = 1 THEN 0 ELSE s[n].in - s[n - 1].out
  <2>1. SUFFICES ASSUME NEW n \in 1 .. c, n # 1 PROVE s[n].gap = s[n].in - s[n - 1].out
    BY <1>4
  <2>2. n - 1 \in 1 .. c /\ n - 1 < n
    BY <1>1, <2>1
  <2>3. s[n].gap = GapBefore(a[f[n - 1]], a[f[n]])
    BY <1>4, <2>1
  <2>4. /\ a[f[n - 1]].out = s[n - 1].out /\ a[f[n]].in = s[n].in
        /\ s[n - 1].out \in Nat /\ s[n].in \in Nat /\ s[n - 1].out <= s[n].in
    BY <1>4, <1>5, <1>6, <2>2
  <2> QED
    BY <2>3, <2>4 DEF GapBefore, Open
<1>8. /\ work = [n \in 1 .. c |-> s[n].out - s[n].in] /\ Len(work) = c
      /\ \A n \in 1 .. c : work[n] = s[n].out - s[n].in /\ work[n] \in Int
  BY <1>1, <1>4, <1>5
<1>9. /\ gaps = [n \in 1 .. c |-> s[n].gap] /\ Len(gaps) = c
      /\ \A n \in 1 .. c : gaps[n] = s[n].gap /\ gaps[n] \in Int
  <2>1. \A n \in 1 .. c : s[n].gap \in Int
    <3>1. SUFFICES ASSUME NEW n \in 1 .. c, n # 1 PROVE s[n].in - s[n - 1].out \in Int
      BY <1>7
    <3>2. n - 1 \in 1 .. c
      BY <1>1, <3>1
    <3> QED
      BY <1>5, <3>2
  <2> QED
    BY <1>1, <1>4, <2>1
<1> HIDE DEF work, gaps
<1>10. /\ PartialSums(work) \in [0 .. c -> Int] /\ PartialSums(work)[0] = 0
       /\ \A n \in 1 .. c : PartialSums(work)[n] = PartialSums(work)[n - 1] + work[n]
  BY <1>1, <1>8, Sums
<1>11. /\ PartialSums(gaps) \in [0 .. c -> Int] /\ PartialSums(gaps)[0] = 0
       /\ \A n \in 1 .. c : PartialSums(gaps)[n] = PartialSums(gaps)[n - 1] + gaps[n]
  BY <1>1, <1>9, Sums
<1> DEFINE P == {n \in Nat : n + 1 <= c =>
                   PartialSums(work)[n + 1] + PartialSums(gaps)[n + 1] = s[n + 1].out - s[1].in}
<1>12. 0 \in P
  <2>1. 1 \in 1 .. c
    BY <1>1
  <2>2. PartialSums(work)[1] = 0 + (s[1].out - s[1].in) /\ PartialSums(gaps)[1] = 0 + 0
    <3>1. work[1] = s[1].out - s[1].in /\ gaps[1] = 0
      BY <1>7, <1>8, <1>9, <2>1
    <3>2. /\ PartialSums(work)[1] = PartialSums(work)[1 - 1] + work[1]
          /\ PartialSums(gaps)[1] = PartialSums(gaps)[1 - 1] + gaps[1]
      BY <1>10, <1>11, <2>1
    <3>3. 1 - 1 = 0
      OBVIOUS
    <3> QED
      BY <1>10, <1>11, <3>1, <3>2, <3>3
  <2> QED
    BY <1>5, <2>1, <2>2
<1>13. ASSUME NEW n \in Nat, n \in P PROVE n + 1 \in P
  <2>1. SUFFICES ASSUME n + 1 + 1 <= c
                 PROVE  PartialSums(work)[n + 1 + 1] + PartialSums(gaps)[n + 1 + 1]
                          = s[n + 1 + 1].out - s[1].in
    OBVIOUS
  <2>2. PICK m : m = n + 1 + 1
    OBVIOUS
  <2>3. m \in 1 .. c /\ m # 1 /\ m - 1 = n + 1 /\ m - 1 \in 1 .. c /\ m - 1 \in 0 .. c /\ 1 \in 1 .. c
    BY <1>1, <2>1, <2>2
  <2>4. PartialSums(work)[m - 1] + PartialSums(gaps)[m - 1] = s[m - 1].out - s[1].in
    BY <1>13, <2>3
  <2>5. /\ PartialSums(work)[m] = PartialSums(work)[m - 1] + (s[m].out - s[m].in)
        /\ PartialSums(gaps)[m] = PartialSums(gaps)[m - 1] + (s[m].in - s[m - 1].out)
    <3>1. work[m] = s[m].out - s[m].in
      BY <1>8, <2>3
    <3>2. gaps[m] = s[m].in - s[m - 1].out
      BY <1>7, <1>9, <2>3
    <3>3. /\ PartialSums(work)[m] = PartialSums(work)[m - 1] + work[m]
          /\ PartialSums(gaps)[m] = PartialSums(gaps)[m - 1] + gaps[m]
      BY <1>10, <1>11, <2>3
    <3> QED
      BY <3>1, <3>2, <3>3
  <2>6. /\ PartialSums(work)[m - 1] \in Int /\ PartialSums(gaps)[m - 1] \in Int
        /\ s[m].out \in Nat /\ s[m].in \in Nat /\ s[m - 1].out \in Nat /\ s[1].in \in Nat
    BY <1>5, <1>10, <1>11, <2>3
  <2>7. PartialSums(work)[m] + PartialSums(gaps)[m] = s[m].out - s[1].in
    BY <2>4, <2>5, <2>6
  <2> QED
    BY <2>2, <2>7
<1> HIDE DEF P
<1>14. PartialSums(work)[c] + PartialSums(gaps)[c] = s[c].out - s[1].in
  <2>1. c - 1 \in P /\ c - 1 + 1 = c
    BY <1>1, <1>12, <1>13, SetInduction
  <2> QED
    BY <2>1 DEF P
<1>15. /\ 1 \in 1 .. c /\ c \in 1 .. c
       /\ \A n \in 1 .. c : s[n].out <= s[c].out /\ s[1].in <= s[n].in
  <2>1. 1 \in 1 .. c /\ c \in 1 .. c
    BY <1>1
  <2>2. ASSUME NEW n \in 1 .. c, n # c PROVE s[n].out <= s[c].out
    <3>1. n < c
      BY <1>1, <2>2
    <3> QED
      BY <1>5, <1>6, <2>1, <3>1
  <2>3. ASSUME NEW n \in 1 .. c, n # 1 PROVE s[1].in <= s[n].in
    <3>1. 1 < n
      BY <1>1, <2>3
    <3> QED
      BY <1>6, <2>1, <3>1
  <2> QED
    BY <1>5, <2>1, <2>2, <2>3
<1> DEFINE outs == {s[n].out : n \in DOMAIN s}
           ins == {s[n].in : n \in DOMAIN s}
<1>16. Max(outs) = s[c].out
  <2>1. s[c].out \in outs /\ outs \subseteq Nat /\ \A y \in outs : s[c].out >= y
    BY <1>4, <1>5, <1>15
  <2> HIDE DEF outs
  <2>2. Max(outs) \in outs /\ \A y \in outs : Max(outs) >= y
    BY <2>1 DEF Max
  <2>3. PICK x, y : x = Max(outs) /\ y = s[c].out
    OBVIOUS
  <2>4. x \in Nat /\ y \in Nat /\ x >= y /\ y >= x
    BY <2>1, <2>2, <2>3
  <2> QED
    BY <2>3, <2>4
<1>17. Min(ins) = s[1].in
  <2>1. s[1].in \in ins /\ ins \subseteq Nat /\ \A y \in ins : s[1].in <= y
    BY <1>4, <1>5, <1>15
  <2> HIDE DEF ins
  <2>2. Min(ins) \in ins /\ \A y \in ins : Min(ins) <= y
    BY <2>1 DEF Min
  <2>3. PICK x, y : x = Min(ins) /\ y = s[1].in
    OBVIOUS
  <2>4. x \in Nat /\ y \in Nat /\ x <= y /\ y <= x
    BY <2>1, <2>2, <2>3
  <2> QED
    BY <2>3, <2>4
<1>18. Total(work) = PartialSums(work)[c] /\ TotalGap(s) = PartialSums(gaps)[c]
  <2>1. TotalGap(s) = Total(gaps)
    BY DEF TotalGap, gaps
  <2> QED
    BY <1>8, <1>9, <2>1 DEF Total
<1> HIDE DEF outs, ins
<1>19. Total(work) + TotalGap(s) = Max(outs) - Min(ins)
  BY <1>14, <1>16, <1>17, <1>18
<1> QED
  BY <1>19 DEF work, outs, ins

(* Every row, committed or of an open transaction, was built from a table. *)
Built(j) ==
  \A k \in Keys : j[k] # NoJourney => \E a \in Table, r \in SUBSET LateKeys : j[k] = JourneyOf(a, r, k)

BuiltInv ==
  /\ Built(jour)
  /\ \A s \in Sessions : txn[s] # NoTxn => Built(txn[s].jour)

LEMMA RebuildBuilds ==
  ASSUME NEW v \in TxnView, Built(v.jour), NEW keys \in SUBSET Keys, NEW w, w = Rebuild(v, keys)
  PROVE  Built(w.jour)
<1>1. /\ \A k \in keys : w.jour[k] = JourneyOf(v.att, v.review, k)
      /\ \A k \in Keys : k \notin keys => w.jour[k] = v.jour[k]
  BY Rebuilt
<1>2. v.att \in Table /\ v.review \in SUBSET LateKeys
  BY ViewParts
<1> QED
  BY <1>1, <1>2 DEF Built

LEMMA SaveBuilds ==
  ASSUME NEW v \in TxnView, Built(v.jour),
         NEW id \in AttendanceIds, NEW shift \in Shifts \cup {NoShift},
         NEW skip \in BOOLEAN, NEW w, w = Save(v, id, shift, skip)
  PROVE  Built(w.jour)
<1> DEFINE keys == EditedKeys(v.att[id], shift)
<1>1. w \in TxnView
  BY Saved
<1>2. /\ w \in TxnView
      /\ w.att = [v.att EXCEPT ![id] = shift] /\ w.review = v.review /\ w.others = v.others
      /\ w.mine.wrote = v.mine.wrote \cup {id}
      /\ \A k \in keys : k \in w.mine.built \/ k \in w.mine.bypassed
      /\ \A k \in Keys : k \in v.mine.built => k \in w.mine.built
      /\ \A k \in Keys : k \notin keys =>
           /\ w.jour[k] = v.jour[k]
           /\ k \in w.mine.built <=> k \in v.mine.built
           /\ k \in w.mine.bypassed <=> k \in v.mine.bypassed
      /\ \A k \in keys : k \in w.mine.built /\ k \notin w.mine.bypassed =>
           w.jour[k] = JourneyOf(w.att, w.review, k)
      /\ \A k \in Keys : w.jour[k] = v.jour[k] \/ w.jour[k] = JourneyOf(w.att, w.review, k)
  BY Saved
<1>3. w.att \in Table /\ w.review \in SUBSET LateKeys
  BY <1>1, ViewParts
<1> QED
  BY <1>2, <1>3 DEF Built

LEMMA BuiltCommit ==
  ASSUME JourInv, BuiltInv, NEW s \in Sessions, txn[s] # NoTxn, CommitOf(s),
         txn'[s] = NoTxn \/ txn'[s] = Snapshot(att', jour', review')
  PROVE  BuiltInv'
<1>1. Built(jour) /\ Built(txn[s].jour)
  BY DEF BuiltInv
<1>2. \A k \in Keys : jour'[k] = jour[k] \/ jour'[k] = txn[s].jour[k]
  BY DEF CommitOf
<1>3. Built(jour')
  BY <1>1, <1>2 DEF Built
<1>4. txn'[s] # NoTxn => txn'[s].jour = jour'
  BY DEF Snapshot
<1>5. \A o \in Sessions \ {s} : txn'[o] # NoTxn =>
        txn[o] # NoTxn /\ txn'[o].jour = txn[o].jour
  BY CommitKeeps
<1>6. \A o \in Sessions : txn'[o] # NoTxn => Built(txn'[o].jour)
  BY <1>3, <1>4, <1>5 DEF BuiltInv
<1> QED
  BY <1>3, <1>6 DEF BuiltInv

LEMMA BuiltEdit ==
  ASSUME JourInv, BuiltInv, NEW s \in Clients, NEW id \in AttendanceIds,
         NEW shift \in Shifts \cup {NoShift}, NEW skip \in BOOLEAN, Edit(s, id, shift, skip)
  PROVE  BuiltInv'
<1>1. PICK v : v = View(s)
  OBVIOUS
<1>2. PICK w : w = Save(v, id, shift, skip)
  OBVIOUS
<1>3. /\ att \in Table /\ jour \in JourneyTable /\ review \in SUBSET LateKeys
      /\ txn \in [Sessions -> TxnView \cup {NoTxn}] /\ s \in Sessions
  BY DEF JourInv, TypeOK, Sessions
<1>4. v \in TxnView /\ Built(v.jour)
  <2>1. CASE txn[s] # NoTxn
    BY <1>1, <1>3, <2>1 DEF View, IsOpen, BuiltInv
  <2>2. CASE txn[s] = NoTxn
    <3>1. v \in TxnView /\ v.jour = jour
      BY <1>1, <1>3, <2>2, SnapshotAgrees DEF View, IsOpen
    <3> QED
      BY <3>1 DEF BuiltInv
  <2> QED
    BY <2>1, <2>2
<1>5. Built(w.jour)
  BY <1>2, <1>4, SaveBuilds
<1>6. txn' = [txn EXCEPT ![s] = w] /\ jour' = jour
  BY <1>1, <1>2 DEF Edit
<1>7. txn'[s] = w /\ \A o \in Sessions \ {s} : txn'[o] = txn[o]
  BY <1>3, <1>6
<1> QED
  BY <1>5, <1>6, <1>7 DEF BuiltInv

LEMMA BuiltRest ==
  ASSUME BuiltInv, jour' = jour,
         \A o \in Sessions : txn'[o] = NoTxn \/ txn'[o] = txn[o] \/ Built(txn'[o].jour)
  PROVE  BuiltInv'
<1>1. \A o \in Sessions : txn'[o] # NoTxn => Built(txn'[o].jour)
  BY DEF BuiltInv
<1>2. Built(jour')
  BY DEF BuiltInv
<1> QED
  BY <1>1, <1>2 DEF BuiltInv

LEMMA BuiltStep ==
  ASSUME JourInv, BuiltInv, [Next]_vars
  PROVE  BuiltInv'
<1>1. /\ att \in Table /\ jour \in JourneyTable /\ review \in SUBSET LateKeys
      /\ txn \in [Sessions -> TxnView \cup {NoTxn}] /\ Batch \in Sessions
  BY DEF JourInv, TypeOK, Sessions
<1>2. CASE UNCHANGED vars
  BY <1>2, BuiltRest DEF vars
<1>3. ASSUME NEW s \in Clients, ClientStep(s) PROVE BuiltInv'
  <2>1. s \in Sessions
    BY DEF Sessions
  <2>2. ASSUME NEW id \in AttendanceIds, NEW shift \in Shifts, NEW skip \in BOOLEAN,
               Create(s, id, shift, skip) \/ Write(s, id, shift, skip)
        PROVE  BuiltInv'
    <3>1. Edit(s, id, shift, skip)
      BY <2>2 DEF Create, Write
    <3> QED
      BY <3>1, BuiltEdit
  <2>3. ASSUME NEW id \in AttendanceIds, Unlink(s, id) PROVE BuiltInv'
    <3>1. Edit(s, id, NoShift, FALSE)
      BY <2>3 DEF Unlink
    <3> QED
      BY <3>1, BuiltEdit
  <2>4. CASE Commit(s)
    BY <2>1, <2>4, CommitsAre, BuiltCommit
  <2>5. CASE Rollback(s)
    <3>1. jour' = jour /\ \A o \in Sessions : txn'[o] = NoTxn \/ txn'[o] = txn[o]
      BY <1>1, <2>5 DEF Rollback
    <3> QED
      BY <3>1, BuiltRest
  <2> QED
    BY <1>3, <2>2, <2>3, <2>4, <2>5 DEF ClientStep
<1>4. ASSUME NEW key \in LateKeys, StageReview(key) PROVE BuiltInv'
  <2>1. jour' = jour /\ txn' = txn
    BY <1>4 DEF StageReview
  <2> QED
    BY <2>1, BuiltRest
<1>5. CASE BatchStep
  <2>1. ASSUME NEW from \in Days, NEW to \in Days, NEW who \in SUBSET Employees,
               StartRun(from, to, who)
        PROVE  BuiltInv'
    <3>1. jour' = jour /\ txn' = [txn EXCEPT ![Batch] = Snapshot(att, jour, review)]
      BY <2>1 DEF StartRun
    <3>2. txn'[Batch].jour = jour
      BY <1>1, <3>1 DEF Snapshot
    <3>3. \A o \in Sessions \ {Batch} : txn'[o] = txn[o]
      BY <1>1, <3>1
    <3>4. Built(txn'[Batch].jour)
      BY <3>2 DEF BuiltInv
    <3> QED
      BY <3>1, <3>3, <3>4, BuiltRest
  <2>2. CASE RebuildNext
    <3>1. PICK v, w : v = txn[Batch] /\ w = txn'[Batch]
      OBVIOUS
    <3>2. Head(todo) \in Keys /\ w = Rebuild(v, {Head(todo)})
      BY <2>2, <3>1, RebuildKeeps
    <3>3. v \in TxnView /\ Built(v.jour)
      BY <1>1, <2>2, <3>1 DEF RebuildNext, IsOpen, BuiltInv
    <3>4. Built(w.jour)
      BY <3>2, <3>3, RebuildBuilds
    <3>5. jour' = jour /\ \A o \in Sessions \ {Batch} : txn'[o] = txn[o]
      BY <1>1, <2>2 DEF RebuildNext
    <3>6. Built(txn'[Batch].jour)
      BY <3>1, <3>4
    <3> QED
      BY <3>5, <3>6, BuiltRest
  <2>3. CASE CommitChunk
    BY <1>1, <2>3, CommitsAre, BuiltCommit
  <2>4. CASE EndRun
    BY <1>1, <2>4, CommitsAre, BuiltCommit
  <2>5. CASE RunAborted
    <3>1. jour' = jour /\ \A o \in Sessions : txn'[o] = NoTxn \/ txn'[o] = txn[o]
      BY <1>1, <2>5 DEF RunAborted
    <3> QED
      BY <3>1, BuiltRest
  <2> QED
    BY <1>5, <2>1, <2>2, <2>3, <2>4, <2>5 DEF BatchStep, FinishRun, RunRaises
<1> QED
  BY <1>2, <1>3, <1>4, <1>5 DEF Next

(* On every day of closed attendances that do not overlap, the minutes     *)
(* worked and total_gap_minutes add up to the span of the day.             *)
THEOREM SpansAccounted == Spec => []SpanIsAccounted
<1>1. Init => JourInv /\ BuiltInv
  <2>1. Init => BuiltInv
    BY DEF Init, BuiltInv, Built, Sessions
  <2> QED
    BY <2>1, JourInit
<1>2. JourInv /\ BuiltInv /\ [Next]_vars => (JourInv /\ BuiltInv)'
  BY JourStep, BuiltStep
<1>3. BuiltInv => SpanIsAccounted
  <2>1. SUFFICES ASSUME BuiltInv, NEW k \in Keys, jour[k] # NoJourney,
                        \A n \in DOMAIN jour[k].segments : jour[k].segments[n].out # Open,
                        \A m, n \in DOMAIN jour[k].segments :
                          m # n /\ jour[k].segments[m].in <= jour[k].segments[n].in
                          => jour[k].segments[m].out <= jour[k].segments[n].in
                 PROVE  LET s == jour[k].segments
                        IN  Total([n \in DOMAIN s |-> s[n].out - s[n].in]) + jour[k].gap
                              = Max({s[n].out : n \in DOMAIN s}) - Min({s[n].in : n \in DOMAIN s})
    BY DEF SpanIsAccounted
  <2>2. PICK a \in Table, r \in SUBSET LateKeys : jour[k] = JourneyOf(a, r, k)
    BY <2>1 DEF BuiltInv, Built
  <2>3. PICK s : s = BuildSegments(a, Attended(a, k))
    OBVIOUS
  <2>4. Attended(a, k) # {}
    BY <2>1, <2>2, JourneyType
  <2>5. jour[k] = [segments |-> s, gap |-> TotalGap(s), state |-> DayState(s), review |-> k \in r]
    BY <2>2, <2>3, <2>4 DEF JourneyOf
  <2>6. jour[k].segments = s /\ jour[k].gap = TotalGap(s)
    BY <2>5
  <2>7. Total([n \in DOMAIN s |-> s[n].out - s[n].in]) + TotalGap(s)
          = Max({s[n].out : n \in DOMAIN s}) - Min({s[n].in : n \in DOMAIN s})
    <3>1. /\ \A n \in DOMAIN s : s[n].out # Open
          /\ \A m, n \in DOMAIN s : m # n /\ s[m].in <= s[n].in => s[m].out <= s[n].in
      BY <2>1, <2>6
    <3> QED
      BY <2>3, <2>4, <3>1, SpanOfDay
  <2> QED
    BY <2>6, <2>7
<1> QED
  BY <1>1, <1>2, <1>3, PTL DEF Spec
=============================================================================
