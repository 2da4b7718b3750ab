---------------------------- MODULE SelectionProofs ----------------------------
(***************************************************************************)
(* Facts about the choices the system makes: the quorum of a price phase,  *)
(* the opponent of a matchmaker, the bye of a league round. Each is        *)
(* written with CHOOSE, and means something only when the set chosen from  *)
(* has a least element. The rule of the quorum orders the candidates       *)
(* strictly and totally. The pairing of a league round, which rests on two *)
(* such choices, is a perfect matching of its players.                     *)
(***************************************************************************)
EXTENDS CompatibleQuorum, SwissPairing, WellFoundedInduction, FiniteSetTheorems, TLAPS

Smaller == {ss \in Nat \X Nat : ss[1] < ss[2]}

\* R orders C strictly.
StrictOrderOn(R, C) ==
    /\ \A x \in C : <<x, x>> \notin R
    /\ \A x, y, z \in C : <<x, y>> \in R /\ <<y, z>> \in R => <<x, z>> \in R

LEMMA SmallerWellFounded == IsWellFoundedOn(Smaller, Nat)
BY NatLessThanWellFounded DEF OpToRel, Smaller

(***************************************************************************)
(* A set of naturals that is not empty has a least element.                *)
(***************************************************************************)
LEMMA LeastNatural ==
    ASSUME NEW T, T \subseteq Nat, T # {}
    PROVE  \E n \in T : \A m \in T : n <= m
<1>1. PICK n \in T : \A m \in T : <<m, n>> \notin Smaller
    BY SmallerWellFounded, WFMin
<1>2. ASSUME NEW m \in T PROVE n <= m
    <2>1. <<m, n>> \in Nat \X Nat /\ <<m, n>>[1] = m /\ <<m, n>>[2] = n
        OBVIOUS
    <2>2. ~ (m < n)
        BY <1>1, <2>1 DEF Smaller
    <2> QED BY <2>2
<1> QED BY <1>2

(***************************************************************************)
(* A finite set that is not empty has a minimal element in every strict    *)
(* order: the one with the fewest elements below it.                       *)
(***************************************************************************)
LEMMA MinimalElement ==
    ASSUME NEW C, IsFiniteSet(C), C # {}, NEW R, StrictOrderOn(R, C)
    PROVE  \E x \in C : \A y \in C : <<y, x>> \notin R
<1> DEFINE below(x) == {y \in C : <<y, x>> \in R}
           sizes == {Cardinality(below(x)) : x \in C}
<1>1. \A x \in C : IsFiniteSet(below(x))
    BY FS_Subset
<1>2. sizes \subseteq Nat /\ sizes # {}
    BY <1>1, FS_CardinalityType
<1>3. PICK n \in sizes : \A m \in sizes : n <= m
    <2> HIDE DEF sizes
    <2> QED BY <1>2, LeastNatural
<1>4. PICK x \in C : n = Cardinality(below(x))
    BY <1>3
<1>5. ASSUME NEW y \in C, <<y, x>> \in R PROVE FALSE
    <2>1. below(y) \subseteq below(x)
        BY <1>5 DEF StrictOrderOn
    <2>2. y \in below(x) /\ y \notin below(y)
        BY <1>5 DEF StrictOrderOn
    <2>3. Cardinality(below(y)) < Cardinality(below(x))
        <3>1. below(y) # below(x) /\ IsFiniteSet(below(x))
            BY <2>2, <1>1
        <3> HIDE DEF below, sizes
        <3>2. Cardinality(below(y)) <= Cardinality(below(x))
            BY <2>1, <3>1, FS_Subset
        <3>3. Cardinality(below(y)) # Cardinality(below(x))
            BY <2>1, <3>1, FS_Subset
        <3> QED BY <3>2, <3>3, <1>1, FS_CardinalityType
    <2>4. Cardinality(below(y)) \in Nat /\ Cardinality(below(x)) \in Nat
        BY <1>1, FS_CardinalityType
    <2>5. Cardinality(below(x)) <= Cardinality(below(y))
        BY <1>3, <1>4
    <2> QED BY <2>3, <2>4, <2>5
<1> QED BY <1>5

(***************************************************************************)
(* So a finite set that is not empty has a least element when any two of   *)
(* its elements compare, transitively: one that no other is strictly below.*)
(***************************************************************************)
LEMMA LeastElement ==
    ASSUME NEW C, IsFiniteSet(C), C # {}, NEW R,
           \A x, y \in C : <<x, y>> \in R \/ <<y, x>> \in R,
           \A x, y, z \in C : <<x, y>> \in R /\ <<y, z>> \in R => <<x, z>> \in R
    PROVE  \E x \in C : \A y \in C : <<x, y>> \in R
<1> DEFINE below == {xy \in C \X C : <<xy[2], xy[1]>> \notin R}
<1>1. \A x, y \in C : <<x, y>> \in below <=> <<y, x>> \notin R
    <2> TAKE x, y \in C
    <2>1. <<x, y>> \in C \X C /\ <<x, y>>[1] = x /\ <<x, y>>[2] = y
        OBVIOUS
    <2> QED BY <2>1
<1> HIDE DEF below
<1>2. \A x \in C : <<x, x>> \notin below
    BY <1>1
<1>3. ASSUME NEW x \in C, NEW y \in C, NEW z \in C,
             <<x, y>> \in below, <<y, z>> \in below
      PROVE  <<x, z>> \in below
    <2>1. <<y, x>> \notin R /\ <<z, y>> \notin R
        BY <1>3, <1>1
    <2>2. <<y, z>> \in R
        BY <2>1
    <2>3. <<z, x>> \notin R
        BY <2>1, <2>2
    <2> QED BY <2>3, <1>1
<1>4. StrictOrderOn(below, C)
    BY <1>2, <1>3 DEF StrictOrderOn
<1>5. PICK x \in C : \A y \in C : <<y, x>> \notin below
    BY <1>4, MinimalElement
<1> QED BY <1>5, <1>1

(***************************************************************************)
(* A finite set of integers that is not empty has a least and a greatest   *)
(* element.                                                                *)
(***************************************************************************)
LEMMA ExtremeIntegers ==
    ASSUME NEW C, IsFiniteSet(C), C # {}, C \subseteq Int
    PROVE  /\ \E x \in C : \A y \in C : x <= y
           /\ \E x \in C : \A y \in C : x >= y
<1> DEFINE up == {ss \in Int \X Int : ss[1] < ss[2]}
           down == {ss \in Int \X Int : ss[1] > ss[2]}
<1>1. \A x, y \in C : <<x, y>> \in up <=> x < y
    <2> TAKE x, y \in C
    <2>1. <<x, y>> \in Int \X Int /\ <<x, y>>[1] = x /\ <<x, y>>[2] = y
        OBVIOUS
    <2> QED BY <2>1
<1>2. \A x, y \in C : <<x, y>> \in down <=> x > y
    <2> TAKE x, y \in C
    <2>1. <<x, y>> \in Int \X Int /\ <<x, y>>[1] = x /\ <<x, y>>[2] = y
        OBVIOUS
    <2> QED BY <2>1
<1> HIDE DEF up, down
<1>3. \A x, y, z \in C : /\ ~ (x < x)
                         /\ x < y /\ y < z => x < z
                         /\ x > y /\ y > z => x > z
    OBVIOUS
<1>4. StrictOrderOn(up, C) /\ StrictOrderOn(down, C)
    BY <1>1, <1>2, <1>3 DEF StrictOrderOn
<1>5. PICK x \in C : \A y \in C : <<y, x>> \notin up
    BY <1>4, MinimalElement
<1>6. PICK z \in C : \A y \in C : <<y, z>> \notin down
    BY <1>4, MinimalElement
<1>7. ASSUME NEW y \in C PROVE x <= y /\ z >= y
    <2>1. ~ (y < x) /\ ~ (y > z)
        BY <1>1, <1>2, <1>5, <1>6
    <2>2. x \in Int /\ y \in Int /\ z \in Int
        OBVIOUS
    <2> QED BY <2>1, <2>2
<1> QED BY <1>7

(***************************************************************************)
(* Induction over the subsets of a finite set: what holds of the empty set *)
(* and of any set with one more element holds of all.                      *)
(***************************************************************************)
LEMMA SubsetInduction ==
    ASSUME NEW S, IsFiniteSet(S), NEW good, {} \in good,
           \A T \in SUBSET S : \A x \in S \ T : T \in good => T \union {x} \in good
    PROVE  S \in good
<1> DEFINE bad == {T \in SUBSET S : T \notin good}
           sizes == {Cardinality(T) : T \in bad}
<1>1. \A T \in SUBSET S : IsFiniteSet(T) /\ Cardinality(T) \in Nat
    BY FS_Subset, FS_CardinalityType
<1>2. bad = {}
    <2> SUFFICES ASSUME bad # {} PROVE FALSE
        OBVIOUS
    <2>1. PICK n \in sizes : \A m \in sizes : n <= m
        <3>1. sizes \subseteq Nat /\ sizes # {}
            BY <1>1
        <3> HIDE DEF sizes
        <3> QED BY <3>1, LeastNatural
    <2>2. PICK T \in bad : n = Cardinality(T)
        OBVIOUS
    <2>3. PICK x \in T : TRUE
        OBVIOUS
    <2> DEFINE U == T \ {x}
    <2>4. IsFiniteSet(T) /\ Cardinality(T) \in Nat
        BY <1>1
    <2>5. Cardinality(U) = Cardinality(T) - 1
        BY <2>3, <2>4, FS_RemoveElement
    <2>6. U \in good
        <3>1. U \in bad => Cardinality(T) <= Cardinality(T) - 1
            BY <2>1, <2>2, <2>5
        <3>2. U \in SUBSET S
            OBVIOUS
        <3> HIDE DEF U
        <3> QED BY <2>4, <3>1, <3>2
    <2>7. U \union {x} = T /\ U \in SUBSET S /\ x \in S \ U
        BY <2>3
    <2> HIDE DEF U
    <2> QED BY <2>6, <2>7
<1> QED BY <1>2

-----------------------------------------------------------------------------
\* Reports as the program stores them: natural numbers, NoReport for none.
ReportFunctions == [Attestors -> Nat]

-----------------------------------------------------------------------------
(***************************************************************************)
(* Selections that agree on a set of attestors agree on its compatibility. *)
(***************************************************************************)
LEMMA SameReportsSameVerdict ==
    ASSUME NEW r, NEW q, NEW S, \A a \in S : r[a] = q[a]
    PROVE  /\ Compatible(r, S) <=> Compatible(q, S)
           /\ SpreadBps(r, S) = SpreadBps(q, S)
<1>1. PricesOf(r, S) = PricesOf(q, S)
    BY DEF PricesOf
<1> QED
    BY <1>1 DEF Compatible, SpreadBps, Midpoint

(***************************************************************************)
(* More evidence never loses a quorum.                                     *)
(***************************************************************************)
LEMMA QuorumIsMonotone ==
    ASSUME NEW r, NEW q,
           \A a \in Attestors : r[a] # NoReport => q[a] = r[a],
           HasQuorum(r)
    PROVE  HasQuorum(q)
<1>1. PICK S \in SUBSET Reporters(r) : Compatible(r, S)
    BY DEF HasQuorum, CompatibleSets
<1>2. \A a \in S : r[a] = q[a] /\ a \in Reporters(q)
    BY DEF Reporters
<1>3. Compatible(q, S)
    BY <1>1, <1>2, SameReportsSameVerdict
<1> QED
    BY <1>2, <1>3 DEF HasQuorum, CompatibleSets

(***************************************************************************)
(* A finalizer that withholds reports sees no quorum that is not there.    *)
(***************************************************************************)
LEMMA SuppliedQuorumExists ==
    ASSUME NEW r, NEW S, HasQuorum(Supplied(r, S))
    PROVE  HasQuorum(r)
<1>1. \A a \in Attestors : Supplied(r, S)[a] # NoReport => r[a] = Supplied(r, S)[a]
    BY DEF Supplied
<1> QED
    BY <1>1, QuorumIsMonotone

(***************************************************************************)
(* No reports, no quorum.                                                  *)
(***************************************************************************)
LEMMA NoQuorumOfNothing ==
    ~ HasQuorum([a \in Attestors |-> NoReport])
<1>1. Reporters([a \in Attestors |-> NoReport]) = {}
    BY DEF Reporters
<1>2. Cardinality({}) = 0
    BY FS_EmptySet
<1>3. ~ Compatible([a \in Attestors |-> NoReport], {})
    BY <1>2 DEF Compatible
<1> QED
    BY <1>1, <1>3 DEF HasQuorum, CompatibleSets

-----------------------------------------------------------------------------
(***************************************************************************)
(* The reports of a set of attestors have a least and a greatest price.    *)
(***************************************************************************)
LEMMA PricesHaveExtremes ==
    ASSUME NEW r \in ReportFunctions, NEW S \in SUBSET Reporters(r), S # {}
    PROVE  /\ IsFiniteSet(S) /\ IsFiniteSet(PricesOf(r, S))
           /\ PricesOf(r, S) \subseteq Nat \ {0}
           /\ Min(PricesOf(r, S)) \in PricesOf(r, S)
           /\ Max(PricesOf(r, S)) \in PricesOf(r, S)
           /\ \A q \in PricesOf(r, S) :
                  Min(PricesOf(r, S)) <= q /\ q <= Max(PricesOf(r, S))
<1> DEFINE P == PricesOf(r, S)
<1>1. S \subseteq Attestors /\ IsFiniteSet(S)
    BY AttestorsAssumption, FS_Subset DEF Reporters
<1>2. P \subseteq Nat \ {0} /\ P # {}
    BY <1>1 DEF PricesOf, Reporters, NoReport, ReportFunctions
<1>3. IsFiniteSet(P)
    <2> DEFINE priceOf == [a \in S |-> r[a]]
    <2>1. priceOf \in Surjection(S, P)
        BY DEF PricesOf, Surjection
    <2> QED BY <1>1, <2>1, FS_Surjection
<1> HIDE DEF P
<1>4. /\ \E x \in P : \A y \in P : x <= y
      /\ \E x \in P : \A y \in P : x >= y
    <2>1. P \subseteq Int
        BY <1>2
    <2> QED BY <1>2, <1>3, <2>1, ExtremeIntegers
<1>5. Min(P) \in P /\ \A y \in P : Min(P) <= y
    BY <1>4 DEF Min
<1>6. Max(P) \in P /\ \A y \in P : Max(P) >= y
    BY <1>4 DEF Max
<1>7. \A q \in P : Min(P) <= q /\ q <= Max(P)
    BY <1>2, <1>5, <1>6
<1> QED BY <1>1, <1>2, <1>3, <1>5, <1>6, <1>7 DEF P

(***************************************************************************)
(* The midpoint lies between the extremes and is positive, so the spread   *)
(* is a natural number.                                                    *)
(***************************************************************************)
LEMMA SpreadIsNatural ==
    ASSUME NEW r \in ReportFunctions, NEW S \in SUBSET Reporters(r), S # {}
    PROVE  /\ Midpoint(r, S) \in Nat \ {0}
           /\ Min(PricesOf(r, S)) <= Midpoint(r, S)
           /\ Midpoint(r, S) <= Max(PricesOf(r, S))
           /\ SpreadBps(r, S) \in Nat
<1> DEFINE lo == Min(PricesOf(r, S))
           hi == Max(PricesOf(r, S))
<1>1. lo \in Nat \ {0} /\ hi \in Nat \ {0} /\ lo <= hi
    BY PricesHaveExtremes
<1>2. Midpoint(r, S) = (lo + hi) \div 2
    BY DEF Midpoint
<1>3. SpreadBps(r, S) = ((hi - lo) * 10000) \div Midpoint(r, S)
    BY DEF SpreadBps
<1> HIDE DEF lo, hi
<1>4. Midpoint(r, S) \in Nat \ {0} /\ lo <= Midpoint(r, S) /\ Midpoint(r, S) <= hi
    BY <1>1, <1>2
<1>5. (hi - lo) * 10000 \in Nat
    BY <1>1
<1>6. SpreadBps(r, S) \in Nat
    <2> DEFINE n == (hi - lo) * 10000
               m == Midpoint(r, S)
    <2>1. n \in Nat /\ m \in Nat /\ m > 0
        BY <1>4, <1>5
    <2>2. SpreadBps(r, S) = n \div m
        BY <1>3
    <2> HIDE DEF n, m
    <2>3. n \div m \in Nat
        BY <2>1
    <2> QED BY <2>2, <2>3
<1> QED BY <1>4, <1>6 DEF lo, hi

(***************************************************************************)
(* The median of a set of reports is the report of one of its attestors:   *)
(* the least price that at most half of the reports exceed.                *)
(***************************************************************************)
LEMMA MedianExists ==
    ASSUME NEW r \in ReportFunctions, NEW S \in SUBSET Reporters(r), S # {}
    PROVE  /\ MedianPrice(r, S) \in PricesOf(r, S)
           /\ Cardinality({a \in S : r[a] < MedianPrice(r, S)}) <= Cardinality(S) \div 2
           /\ Cardinality({a \in S : r[a] > MedianPrice(r, S)}) <= Cardinality(S) \div 2
<1> DEFINE P == PricesOf(r, S)
           under(m) == {a \in S : r[a] < m}
           over(m) == {a \in S : r[a] > m}
           half == Cardinality(S) \div 2
           low == {m \in P : Cardinality(over(m)) <= half}
<1>1. /\ IsFiniteSet(S) /\ IsFiniteSet(P) /\ P \subseteq Nat \ {0} /\ P # {}
      /\ Max(P) \in P /\ \A q \in P : q <= Max(P)
    BY PricesHaveExtremes
<1>2. \A a \in S : r[a] \in P
    BY DEF PricesOf
<1>3. \A m : /\ IsFiniteSet(under(m)) /\ IsFiniteSet(over(m))
             /\ Cardinality(under(m)) \in Nat /\ Cardinality(over(m)) \in Nat
    BY <1>1, FS_Subset, FS_CardinalityType
<1>4. Cardinality(S) \in Nat /\ half \in Nat
    BY <1>1, FS_CardinalityType
<1>5. Max(P) \in low
    <2>1. over(Max(P)) = {}
        BY <1>1, <1>2
    <2>2. Cardinality(over(Max(P))) = 0
        BY <2>1, FS_EmptySet
    <2> QED BY <1>1, <1>4, <2>2
<1>6. PICK m \in low : \A n \in low : m <= n
    <2>1. low \subseteq Nat /\ low # {}
        BY <1>1, <1>5
    <2> HIDE DEF low
    <2> QED BY <2>1, LeastNatural
<1>7. Cardinality(under(m)) <= half
    <2> SUFFICES ASSUME Cardinality(under(m)) > half PROVE FALSE
        BY <1>3, <1>4
    <2> DEFINE lower == {q \in P : q < m}
    <2>1. under(m) # {}
        BY <1>4, FS_EmptySet
    <2>2. lower # {} /\ IsFiniteSet(lower) /\ lower \subseteq Int
        BY <1>1, <1>2, <2>1, FS_Subset
    <2>3. PICK n \in lower : \A q \in lower : n >= q
        <3> HIDE DEF lower
        <3> QED BY <2>2, ExtremeIntegers
    <2>4. over(n) = S \ under(m)
        <3>1. m \in Nat /\ n \in Nat /\ n < m
            BY <1>1, <1>6, <2>3
        <3>2. ASSUME NEW a \in S PROVE r[a] > n <=> ~ (r[a] < m)
            <4>1. r[a] \in P /\ r[a] \in Nat
                BY <1>1, <1>2
            <4>2. r[a] < m => n >= r[a]
                BY <2>3, <4>1
            <4> QED BY <3>1, <4>1, <4>2
        <3> QED BY <3>2
    <2>5. Cardinality(S \ under(m)) = Cardinality(S) - Cardinality(under(m))
        <3>1. S \cap under(m) = under(m)
            OBVIOUS
        <3> HIDE DEF under
        <3> QED BY <1>1, <3>1, FS_Difference
    <2>6. Cardinality(over(n)) <= half
        <3> DEFINE c == Cardinality(under(m))
                   k == Cardinality(S)
        <3>1. c \in Nat /\ k \in Nat /\ c > k \div 2
            BY <1>3, <1>4
        <3>2. Cardinality(over(n)) = k - c
            BY <2>4, <2>5
        <3> HIDE DEF c, k, over
        <3>3. k - c <= k \div 2
            BY <3>1
        <3> QED BY <3>2, <3>3 DEF k
    <2>7. n \in low /\ n < m /\ n \in Nat /\ m \in Nat
        BY <1>1, <1>6, <2>3, <2>6
    <2> QED BY <1>6, <2>7
<1>8. /\ m \in P
      /\ Cardinality({a \in S : r[a] < m}) <= Cardinality(S) \div 2
      /\ Cardinality({a \in S : r[a] > m}) <= Cardinality(S) \div 2
    BY <1>6, <1>7
<1> HIDE DEF under, over, half, low
<1> QED BY <1>8 DEF MedianPrice

-----------------------------------------------------------------------------
(***************************************************************************)
(* Two different sets of keys part at a first key, and the order of sets   *)
(* says which of them holds it.                                            *)
(***************************************************************************)
LEMMA FirstDifference ==
    ASSUME NEW S \in SUBSET Attestors, NEW T \in SUBSET Attestors, S # T
    PROVE  LET d == Min(SymDiff(S, T))
           IN /\ d \in Nat /\ d \in Attestors
              /\ d \in S <=> d \notin T
              /\ \A k \in Attestors : k < d => (k \in S <=> k \in T)
              /\ \A k \in Attestors : (k \in S <=> k \notin T) => d <= k
<1> DEFINE D == SymDiff(S, T)
<1>1. \A k : k \in D <=> k \in S \cup T /\ (k \in S <=> k \notin T)
    BY DEF SymDiff
<1>2. D # {} /\ D \subseteq Attestors
    BY <1>1
<1>3. D \subseteq Nat
    BY <1>2, AttestorsAssumption
<1> HIDE DEF D
<1>4. \E x \in D : \A y \in D : x <= y
    BY <1>2, <1>3, LeastNatural
<1>5. Min(D) \in D /\ \A y \in D : Min(D) <= y
    BY <1>4 DEF Min
<1>6. ASSUME NEW k \in Attestors, k < Min(D) PROVE k \notin D
    <2>1. k \in Nat /\ Min(D) \in Nat
        BY <1>3, <1>5, AttestorsAssumption
    <2>2. ~ (Min(D) <= k)
        BY <1>6, <2>1
    <2> QED BY <1>5, <2>2
<1>7. \A k \in Attestors : k \notin D => (k \in S <=> k \in T)
    BY <1>1
<1>8. \A k \in Attestors : (k \in S <=> k \notin T) => Min(D) <= k
    BY <1>1, <1>5
<1> QED BY <1>1, <1>2, <1>3, <1>5, <1>6, <1>7, <1>8 DEF D

(***************************************************************************)
(* The order of the sorted keys is strict and total.                       *)
(***************************************************************************)
LEMMA PrecedesIsTotal ==
    ASSUME NEW S \in SUBSET Attestors, NEW T \in SUBSET Attestors, S # T
    PROVE  Precedes(S, T) <=> ~ Precedes(T, S)
<1>1. SymDiff(S, T) = SymDiff(T, S)
    BY DEF SymDiff
<1> QED BY <1>1, FirstDifference DEF Precedes

LEMMA PrecedesIsTransitive ==
    ASSUME NEW S \in SUBSET Attestors, NEW T \in SUBSET Attestors,
           NEW U \in SUBSET Attestors, Precedes(S, T), Precedes(T, U)
    PROVE  Precedes(S, U)
<1> DEFINE d == Min(SymDiff(S, T))
           e == Min(SymDiff(T, U))
           f == Min(SymDiff(S, U))
<1>1. /\ S # T /\ T # U
      /\ d \in S /\ e \in T
    BY DEF Precedes
<1>2. /\ d \in Nat /\ d \in Attestors /\ d \notin T
      /\ \A k \in Attestors : k < d => (k \in S <=> k \in T)
    BY <1>1, FirstDifference
<1>3. /\ e \in Nat /\ e \in Attestors /\ e \notin U
      /\ \A k \in Attestors : k < e => (k \in T <=> k \in U)
    BY <1>1, FirstDifference
<1> HIDE DEF d, e
<1>4. d # e
    BY <1>1, <1>2
<1>5. CASE d < e
    <2>1. d \notin U
        BY <1>2, <1>3, <1>5
    <2>2. S # U /\ (d \in S <=> d \notin U)
        BY <1>1, <2>1
    <2>3. /\ f \in Nat /\ f \in Attestors /\ (f \in S <=> f \notin U) /\ f <= d
        BY <1>2, <2>2, FirstDifference
    <2>4. f = d
        <3> SUFFICES ASSUME f < d PROVE FALSE
            BY <1>2, <2>3
        <3>1. f < e
            BY <1>2, <1>3, <1>5, <2>3
        <3> QED BY <1>2, <1>3, <2>3, <3>1
    <2> QED BY <1>1, <2>2, <2>4 DEF Precedes
<1>6. CASE e < d
    <2>1. e \in S
        BY <1>1, <1>2, <1>3, <1>6
    <2>2. S # U /\ (e \in S <=> e \notin U)
        BY <1>3, <2>1
    <2>3. /\ f \in Nat /\ f \in Attestors /\ (f \in S <=> f \notin U) /\ f <= e
        BY <1>3, <2>2, FirstDifference
    <2>4. f = e
        <3> SUFFICES ASSUME f < e PROVE FALSE
            BY <1>3, <2>3
        <3>1. f < d
            BY <1>2, <1>3, <1>6, <2>3
        <3> QED BY <1>2, <1>3, <2>3, <3>1
    <2> QED BY <2>1, <2>2, <2>4 DEF Precedes
<1> QED BY <1>2, <1>3, <1>4, <1>5, <1>6

-----------------------------------------------------------------------------
(***************************************************************************)
(* Candidates have two attestors at least, and their sizes and spreads are *)
(* natural numbers.                                                        *)
(***************************************************************************)
LEMMA CandidatesAreMeasured ==
    ASSUME NEW r \in ReportFunctions, NEW S \in CompatibleSets(r)
    PROVE  /\ S \in SUBSET Reporters(r) /\ S \in SUBSET Attestors
           /\ S # {} /\ IsFiniteSet(S)
           /\ Cardinality(S) \in Nat /\ Cardinality(S) >= 2
           /\ SpreadBps(r, S) \in Nat /\ SpreadBps(r, S) <= MaxSpreadBps
<1>1. /\ S \in SUBSET Reporters(r) /\ S \in SUBSET Attestors
      /\ Cardinality(S) >= 2 /\ SpreadBps(r, S) <= MaxSpreadBps
    BY DEF CompatibleSets, Compatible, Reporters
<1>2. IsFiniteSet(S) /\ Cardinality(S) \in Nat
    BY <1>1, AttestorsAssumption, FS_Subset, FS_CardinalityType
<1>3. S # {}
    BY <1>1, FS_EmptySet
<1> QED BY <1>1, <1>2, <1>3, SpreadIsNatural

(***************************************************************************)
(* The rule of choose_compatible_quorum orders the candidates strictly and *)
(* totally.                                                                *)
(***************************************************************************)
LEMMA BetterIsStrictTotalOrder ==
    ASSUME NEW r \in ReportFunctions
    PROVE  /\ \A S, T \in CompatibleSets(r) :
                  S # T => (Better(r, S, T) <=> ~ Better(r, T, S))
           /\ \A S \in CompatibleSets(r) : ~ Better(r, S, S)
           /\ \A S, T, U \in CompatibleSets(r) :
                  Better(r, S, T) /\ Better(r, T, U) => Better(r, S, U)
<1> DEFINE C == CompatibleSets(r)
<1>1. \A S \in C : /\ S \in SUBSET Attestors
                   /\ Cardinality(S) \in Int /\ SpreadBps(r, S) \in Int
    BY CandidatesAreMeasured
<1> HIDE DEF C
<1>2. ASSUME NEW S \in C, NEW T \in C, S # T
      PROVE  Better(r, S, T) <=> ~ Better(r, T, S)
    <2>1. Precedes(S, T) <=> ~ Precedes(T, S)
        BY <1>1, <1>2, PrecedesIsTotal
    <2> QED BY <1>1, <2>1 DEF Better
<1>3. ASSUME NEW S \in C PROVE ~ Better(r, S, S)
    BY <1>1 DEF Better, Precedes
<1>4. ASSUME NEW S \in C, NEW T \in C, NEW U \in C, Better(r, S, T), Better(r, T, U)
      PROVE  Better(r, S, U)
    <2>1. Precedes(S, T) /\ Precedes(T, U) => Precedes(S, U)
        BY <1>1, PrecedesIsTransitive
    <2> QED BY <1>1, <1>4, <2>1 DEF Better
<1> QED BY <1>2, <1>3, <1>4 DEF C

(***************************************************************************)
(* The selection rule always selects: where a quorum exists, exactly one   *)
(* candidate is better than all the others, whatever the attestors and     *)
(* their prices.                                                           *)
(***************************************************************************)
THEOREM SelectionIsDeterministic ==
    ASSUME NEW r \in ReportFunctions, HasQuorum(r)
    PROVE  /\ BestQuorum(r) \in CompatibleSets(r)
           /\ \A S \in CompatibleSets(r) :
                  \/ S = BestQuorum(r)
                  \/ Better(r, BestQuorum(r), S) /\ ~ Better(r, S, BestQuorum(r))
<1> DEFINE C == CompatibleSets(r)
           order == {SS \in C \X C : Better(r, SS[1], SS[2])}
<1>1. C # {} /\ IsFiniteSet(C)
    <2>1. C \subseteq SUBSET Attestors /\ IsFiniteSet(SUBSET Attestors)
        BY AttestorsAssumption, FS_SUBSET DEF CompatibleSets, Reporters
    <2> QED BY <2>1, FS_Subset DEF HasQuorum
<1>2. \A S, T \in C : <<S, T>> \in order <=> Better(r, S, T)
    <2> TAKE S, T \in C
    <2>1. <<S, T>> \in C \X C /\ <<S, T>>[1] = S /\ <<S, T>>[2] = T
        OBVIOUS
    <2> QED BY <2>1
<1>3. StrictOrderOn(order, C)
    <2> HIDE DEF order
    <2> QED BY <1>2, BetterIsStrictTotalOrder DEF StrictOrderOn
<1>4. PICK S \in C : \A T \in C : <<T, S>> \notin order
    <2> HIDE DEF C, order
    <2> QED BY <1>1, <1>3, MinimalElement
<1>5. \A T \in C \ {S} : Better(r, S, T)
    BY <1>2, <1>4, BetterIsStrictTotalOrder
<1>6. BestQuorum(r) \in C /\ \A T \in C \ {BestQuorum(r)} : Better(r, BestQuorum(r), T)
    BY <1>5 DEF BestQuorum
<1> QED BY <1>6, BetterIsStrictTotalOrder

(***************************************************************************)
(* The price of a candidate lies between the reports of two different      *)
(* attestors of it that agree within the spread.                           *)
(***************************************************************************)
THEOREM QuorumPriceIsBacked ==
    ASSUME NEW r \in ReportFunctions, NEW S \in CompatibleSets(r)
    PROVE  \E a, b \in S :
               /\ a # b
               /\ r[a] <= PriceOf(r, S) /\ PriceOf(r, S) <= r[b]
               /\ SpreadBps(r, {a, b}) <= MaxSpreadBps
<1> DEFINE P == PricesOf(r, S)
           lo == Min(P)
           hi == Max(P)
<1>1. /\ S \in SUBSET Reporters(r) /\ S # {} /\ IsFiniteSet(S)
      /\ Cardinality(S) >= 2 /\ SpreadBps(r, S) <= MaxSpreadBps
    BY CandidatesAreMeasured
<1>2. /\ lo \in P /\ hi \in P /\ P \subseteq Nat \ {0}
      /\ \A q \in P : lo <= q /\ q <= hi
    BY <1>1, PricesHaveExtremes
<1>3. lo <= PriceOf(r, S) /\ PriceOf(r, S) <= hi
    <2>1. lo <= Midpoint(r, S) /\ Midpoint(r, S) <= hi
        BY <1>1, SpreadIsNatural
    <2>2. MedianPrice(r, S) \in P
        BY <1>1, MedianExists
    <2> QED BY <1>2, <2>1, <2>2 DEF PriceOf
<1>4. PICK a \in S : r[a] = lo
    BY <1>2 DEF PricesOf
<1>5. PICK b \in S : b # a /\ r[b] = hi
    <2>1. CASE lo = hi
        <3>1. PICK b \in S : b # a
            <4>1. S # {a}
                BY <1>1, FS_Singleton
            <4> QED BY <4>1
        <3>2. r[b] \in P
            BY DEF PricesOf
        <3>3. r[b] = hi
            BY <1>2, <2>1, <3>2
        <3> QED BY <3>1, <3>3
    <2>2. CASE lo # hi
        BY <1>2, <1>4, <2>2 DEF PricesOf
    <2> QED BY <2>1, <2>2
<1>6. SpreadBps(r, {a, b}) = SpreadBps(r, S)
    <2> DEFINE Q == PricesOf(r, {a, b})
    <2>1. Q = {lo, hi}
        BY <1>4, <1>5 DEF PricesOf
    <2>2. lo \in Nat /\ hi \in Nat /\ lo <= hi
        BY <1>2
    <2> HIDE DEF lo, hi, Q
    <2>3. Min(Q) = lo /\ Max(Q) = hi
        <3>1. Min(Q) \in Q /\ \A y \in Q : Min(Q) <= y
            BY <2>1, <2>2 DEF Min
        <3>2. Max(Q) \in Q /\ \A y \in Q : Max(Q) >= y
            BY <2>1, <2>2 DEF Max
        <3> QED BY <2>1, <2>2, <3>1, <3>2
    <2> QED BY <2>3 DEF SpreadBps, Midpoint, Q, lo, hi
<1> QED BY <1>1, <1>3, <1>4, <1>5, <1>6

-----------------------------------------------------------------------------
(***************************************************************************)
(* The pairing of a league round. Points and keys order the players, so    *)
(* that the best of any of them is one of them.                            *)
(***************************************************************************)
RanksAll(table, key) ==
    \A v, w \in DOMAIN table :
        /\ table[v].points \in Int /\ key[v] \in Int
        /\ v # w => key[v] # key[w]

LEMMA FirstIsAmong ==
    ASSUME NEW table, NEW key, RanksAll(table, key), IsFiniteSet(DOMAIN table),
           NEW S, S \subseteq DOMAIN table, S # {}
    PROVE  FirstOf(table, key, S) \in S
<1> DEFINE first(v, w) == \/ table[v].points > table[w].points
                          \/ table[v].points = table[w].points /\ key[v] < key[w]
           R == {vw \in S \X S : first(vw[1], vw[2])}
<1>1. \A v, w \in S : /\ table[v].points \in Int /\ key[v] \in Int
                      /\ v # w => key[v] # key[w]
    BY DEF RanksAll
<1>2. \A v, w \in S : <<v, w>> \in R <=> first(v, w)
    <2> TAKE v, w \in S
    <2>1. <<v, w>> \in S \X S /\ <<v, w>>[1] = v /\ <<v, w>>[2] = w
        OBVIOUS
    <2> QED BY <2>1
<1> HIDE DEF R
<1>3. /\ \A v \in S : ~ first(v, v)
      /\ \A u, v, w \in S : first(u, v) /\ first(v, w) => first(u, w)
      /\ \A v, w \in S : v # w => first(v, w) \/ first(w, v)
    BY <1>1
<1> HIDE DEF first
<1>4. StrictOrderOn(R, S) /\ IsFiniteSet(S)
    BY <1>2, <1>3, FS_Subset DEF StrictOrderOn
<1>5. PICK v \in S : \A w \in S : <<w, v>> \notin R
    BY <1>4, MinimalElement
<1>6. \A w \in S \ {v} : first(v, w)
    BY <1>2, <1>3, <1>5
<1> QED BY <1>6 DEF FirstOf, first

(***************************************************************************)
(* The search of pair_swiss, as equations of a function of the players     *)
(* that are left. It is defined: such a function exists.                   *)
(***************************************************************************)
WithPair(pair, found) == {{pair} \union pairs : pairs \in found}

Completing(table, first, f, S, avoid) ==
    {w \in {v \in S \ {first} : avoid => ~ HasMet(table, first, v)} : f[S \ {first, w}] # {}}

Partners(table, first, f, S, avoid) ==
    FirstThatCompletes(table, first, {v \in S \ {first} : avoid => ~ HasMet(table, first, v)},
                       Completing(table, first, f, S, avoid))

Found(table, key, f, S, avoid) ==
    LET first == FirstOf(table, key, S)
    IN  IF S = {} THEN {{}}
        ELSE IF Cardinality(S) % 2 = 1 THEN {}
        ELSE UNION {WithPair({first, w}, f[S \ {first, w}]) :
                        w \in Partners(table, first, f, S, avoid)}

SearchEquation(table, key, f, D, avoid) == f = [S \in D |-> Found(table, key, f, S, avoid)]

LEMMA PartnersAreAmong ==
    ASSUME NEW table, NEW first, NEW f, NEW S, NEW avoid,
           NEW w \in Partners(table, first, f, S, avoid)
    PROVE  w \in S /\ w # first /\ (avoid => ~ HasMet(table, first, w))
BY DEF Partners, FirstThatCompletes, Completing

\* What is found for S depends on what is found for less than S.
LEMMA FoundFromSmaller ==
    ASSUME NEW table, NEW key, NEW f, NEW g, NEW S, NEW avoid,
           \A w \in S : LET T == S \ {FirstOf(table, key, S), w} IN f[T] = g[T]
    PROVE  Found(table, key, f, S, avoid) = Found(table, key, g, S, avoid)
<1> DEFINE first == FirstOf(table, key, S)
<1>1. \A w \in S : f[S \ {first, w}] = g[S \ {first, w}]
    OBVIOUS
<1> HIDE DEF first
<1>2. Completing(table, first, f, S, avoid) = Completing(table, first, g, S, avoid)
    BY <1>1 DEF Completing
<1>3. Partners(table, first, f, S, avoid) = Partners(table, first, g, S, avoid)
    BY <1>2 DEF Partners
<1>4. \A w \in Partners(table, first, f, S, avoid) : w \in S
    BY PartnersAreAmong
<1>5. {WithPair({first, w}, f[S \ {first, w}]) : w \in Partners(table, first, f, S, avoid)}
          = {WithPair({first, w}, g[S \ {first, w}]) : w \in Partners(table, first, g, S, avoid)}
    BY <1>1, <1>3, <1>4
<1> QED BY <1>5 DEF Found, first

LEMMA SmallerWithout ==
    ASSUME NEW S, IsFiniteSet(S), NEW v, NEW w \in S
    PROVE  /\ S \ {v, w} \subseteq S /\ IsFiniteSet(S \ {v, w})
           /\ Cardinality(S \ {v, w}) < Cardinality(S)
           /\ Cardinality(S) \in Nat /\ Cardinality(S \ {v, w}) \in Nat
<1>1. S \ {v, w} \subseteq S /\ S \ {v, w} # S
    OBVIOUS
<1>2. /\ IsFiniteSet(S \ {v, w}) /\ Cardinality(S \ {v, w}) <= Cardinality(S)
      /\ Cardinality(S \ {v, w}) # Cardinality(S)
    BY <1>1, FS_Subset
<1> QED BY <1>1, <1>2, FS_CardinalityType

LEMMA SearchIsDefined ==
    ASSUME NEW table, NEW key, NEW avoid, NEW players, IsFiniteSet(players)
    PROVE  \E f : SearchEquation(table, key, f, SUBSET players, avoid)
<1> DEFINE D(n) == {S \in SUBSET players : Cardinality(S) <= n}
           Defined(n) == \E f : SearchEquation(table, key, f, D(n), avoid)
           bad == {n \in Nat : ~ Defined(n)}
<1>0. \A S \in SUBSET players : IsFiniteSet(S) /\ Cardinality(S) \in Nat
    BY FS_Subset, FS_CardinalityType
<1>1. bad = {}
    <2> SUFFICES ASSUME bad # {} PROVE FALSE
        OBVIOUS
    <2>1. PICK n \in bad : \A m \in bad : n <= m
        <3>1. bad \subseteq Nat
            OBVIOUS
        <3> HIDE DEF bad
        <3> QED BY <3>1, LeastNatural
    <2>2. \E f : \A S \in D(n) : \A v, w : w \in S =>
              f[S \ {v, w}] = Found(table, key, f, S \ {v, w}, avoid)
        <3>1. CASE n = 0
            <4>1. \A S \in D(n) : S = {}
                BY <1>0, <3>1, FS_EmptySet
            <4> QED BY <4>1
        <3>2. CASE n # 0
            <4>1. n \in Nat /\ n - 1 \in Nat /\ n - 1 \notin bad
                <5>1. n \in Nat
                    OBVIOUS
                <5> HIDE DEF bad
                <5> QED BY <2>1, <3>2, <5>1
            <4>2. PICK f : SearchEquation(table, key, f, D(n - 1), avoid)
                BY <4>1
            <4>3. ASSUME NEW S \in D(n), NEW v, NEW w \in S
                  PROVE  S \ {v, w} \in D(n - 1)
                <5>1. /\ S \ {v, w} \in SUBSET players /\ Cardinality(S \ {v, w}) < Cardinality(S)
                      /\ Cardinality(S) \in Nat /\ Cardinality(S \ {v, w}) \in Nat
                    BY <1>0, <4>3, SmallerWithout
                <5>2. n \in Nat /\ Cardinality(S) <= n
                    OBVIOUS
                <5>3. Cardinality(S \ {v, w}) <= n - 1
                    BY <5>1, <5>2
                <5> QED BY <5>1, <5>3
            <4>4. \A S \in D(n - 1) : f[S] = Found(table, key, f, S, avoid)
                BY <4>2 DEF SearchEquation
            <4> HIDE DEF D
            <4> QED BY <4>3, <4>4
        <3> QED BY <3>1, <3>2
    <2>3. PICK f : \A S \in D(n) : \A v, w : w \in S =>
              f[S \ {v, w}] = Found(table, key, f, S \ {v, w}, avoid)
        BY <2>2
    <2> DEFINE g == [S \in D(n) |-> Found(table, key, f, S, avoid)]
    <2>4. \A S \in D(n) : \A v, w : w \in S => S \ {v, w} \in D(n)
        <3> TAKE S \in D(n)
        <3> TAKE v, w
        <3> HAVE w \in S
        <3>1. /\ S \ {v, w} \in SUBSET players /\ Cardinality(S \ {v, w}) < Cardinality(S)
              /\ Cardinality(S) \in Nat /\ Cardinality(S \ {v, w}) \in Nat
            BY <1>0, SmallerWithout
        <3>2. n \in Nat /\ Cardinality(S) <= n
            OBVIOUS
        <3> QED BY <3>1, <3>2
    <2>5. \A S \in D(n) : Found(table, key, f, S, avoid) = Found(table, key, g, S, avoid)
        <3> TAKE S \in D(n)
        <3>1. \A w \in S : LET T == S \ {FirstOf(table, key, S), w} IN f[T] = g[T]
            BY <2>3, <2>4
        <3> HIDE DEF g, D
        <3> QED BY <3>1, FoundFromSmaller
    <2>6. SearchEquation(table, key, g, D(n), avoid)
        BY <2>5 DEF SearchEquation
    <2> QED BY <2>6
<1>2. Cardinality(players) \in Nat /\ D(Cardinality(players)) = SUBSET players
    <2>1. \A S \in SUBSET players : Cardinality(S) <= Cardinality(players)
        BY FS_Subset
    <2> QED BY <1>0, <2>1
<1>3. Defined(Cardinality(players))
    BY <1>1, <1>2
<1> QED BY <1>2, <1>3

SearchedBy(table, key, f, players, avoid) ==
    /\ SearchEquation(table, key, f, SUBSET players, avoid)
    /\ SearchPairing(table, key, players, avoid) = f[players]

LEMMA SearchFollowsEquation ==
    ASSUME NEW table, NEW key, NEW avoid, NEW players, IsFiniteSet(players)
    PROVE  \E f : SearchedBy(table, key, f, players, avoid)
<1> DEFINE f == CHOOSE f : SearchEquation(table, key, f, SUBSET players, avoid)
<1>1. SearchEquation(table, key, f, SUBSET players, avoid)
    BY SearchIsDefined
<1>2. SearchPairing(table, key, players, avoid) = f[players]
    BY DEF SearchPairing, SearchEquation, Found, Partners, Completing, WithPair
<1> QED BY <1>1, <1>2 DEF SearchedBy

(***************************************************************************)
(* What the search finds is a perfect matching of the players it is given: *)
(* pairs of two of them, none in two pairs and none left over.             *)
(***************************************************************************)
PerfectMatching(P, S) ==
    /\ \A x \in P : \E v, w \in S : v # w /\ x = {v, w}
    /\ \A x, y \in P : x \intersect y # {} => x = y
    /\ UNION P = S

LEMMA PairCompletesMatching ==
    ASSUME NEW S, NEW v \in S, NEW w \in S, v # w, NEW Q, PerfectMatching(Q, S \ {v, w})
    PROVE  PerfectMatching({{v, w}} \union Q, S)
<1> DEFINE P == {{v, w}} \union Q
<1>1. \A x \in Q : x \subseteq S \ {v, w}
    BY DEF PerfectMatching
<1>2. \A x \in P : \E a, b \in S : a # b /\ x = {a, b}
    BY DEF PerfectMatching
<1>3. \A x, y \in P : x \intersect y # {} => x = y
    BY <1>1 DEF PerfectMatching
<1>4. UNION P = {v, w} \union UNION Q
    OBVIOUS
<1>5. UNION P = S
    <2>1. UNION Q = S \ {v, w}
        BY DEF PerfectMatching
    <2>2. \A x : x \in {v, w} \union (S \ {v, w}) <=> x \in S
        OBVIOUS
    <2> HIDE DEF P
    <2> QED BY <1>4, <2>1, <2>2
<1> QED BY <1>2, <1>3, <1>5 DEF PerfectMatching

LEMMA SearchFindsMatchings ==
    ASSUME NEW table, NEW key, NEW avoid, RanksAll(table, key), IsFiniteSet(DOMAIN table),
           NEW players, players \subseteq DOMAIN table,
           NEW P \in SearchPairing(table, key, players, avoid)
    PROVE  PerfectMatching(P, players)
<1>0. \A S \in SUBSET players : /\ S \subseteq DOMAIN table
                                /\ IsFiniteSet(S) /\ Cardinality(S) \in Nat
    BY FS_Subset, FS_CardinalityType
<1>1. PICK f : SearchedBy(table, key, f, players, avoid)
    <2>1. players \in SUBSET players
        OBVIOUS
    <2>2. IsFiniteSet(players)
        BY <1>0, <2>1
    <2> QED BY <2>2, SearchFollowsEquation
<1>2. \A S \in SUBSET players : f[S] = Found(table, key, f, S, avoid)
    BY <1>1 DEF SearchedBy, SearchEquation
<1> DEFINE bad == {S \in SUBSET players : \E Q \in f[S] : ~ PerfectMatching(Q, S)}
           sizes == {Cardinality(S) : S \in bad}
<1>3. bad = {}
    <2> SUFFICES ASSUME bad # {} PROVE FALSE
        OBVIOUS
    <2>1. PICK n \in sizes : \A m \in sizes : n <= m
        <3>1. sizes \subseteq Nat /\ sizes # {}
            BY <1>0
        <3> HIDE DEF sizes
        <3> QED BY <3>1, LeastNatural
    <2>2. PICK S \in bad : n = Cardinality(S)
        OBVIOUS
    <2>3. PICK Q \in f[S] : ~ PerfectMatching(Q, S)
        OBVIOUS
    <2>4. S # {}
        <3>1. f[{}] = {{}}
            BY <1>2 DEF Found
        <3>2. PerfectMatching({}, {})
            BY DEF PerfectMatching
        <3> QED BY <2>3, <3>1, <3>2
    <2> DEFINE first == FirstOf(table, key, S)
    <2>5. first \in S
        BY <1>0, <2>4, FirstIsAmong
    <2>6. f[S] = Found(table, key, f, S, avoid)
        BY <1>2
    <2>7. PICK w \in Partners(table, first, f, S, avoid) :
              Q \in WithPair({first, w}, f[S \ {first, w}])
        <3>1. Cardinality(S) % 2 # 1
            BY <2>3, <2>4, <2>6 DEF Found
        <3>2. f[S] = UNION {WithPair({first, w}, f[S \ {first, w}]) :
                                w \in Partners(table, first, f, S, avoid)}
            BY <2>4, <2>6, <3>1 DEF Found
        <3> HIDE DEF first
        <3> QED BY <2>3, <3>2
    <2>8. w \in S /\ w # first
        BY PartnersAreAmong
    <2>9. PICK R \in f[S \ {first, w}] : Q = {{first, w}} \union R
        BY <2>7 DEF WithPair
    <2> HIDE DEF first
    <2>10. S \ {first, w} \notin bad
        <3>1. /\ Cardinality(S \ {first, w}) < Cardinality(S)
              /\ Cardinality(S) \in Nat /\ Cardinality(S \ {first, w}) \in Nat
            BY <1>0, <2>8, SmallerWithout
        <3>2. S \ {first, w} \in bad => Cardinality(S) <= Cardinality(S \ {first, w})
            BY <2>1, <2>2
        <3> QED BY <3>1, <3>2
    <2>11. PerfectMatching(R, S \ {first, w})
        BY <2>9, <2>10
    <2> QED BY <2>3, <2>5, <2>8, <2>9, <2>11, PairCompletesMatching
<1> QED BY <1>1, <1>3 DEF SearchedBy

\* Of the candidates for the bye there is a first one.
LEMMA FirstByeIsAmong ==
    ASSUME NEW table, NEW key, RanksAll(table, key), IsFiniteSet(DOMAIN table),
           NEW S, S # {}, \A B \in S : \E v \in DOMAIN table : B = {v}
    PROVE  \E B \in S : \A C \in S \ {B} : \E v \in B, w \in C : ByeBefore(table, key, v, w)
<1> DEFINE V == {v \in DOMAIN table : {v} \in S}
           R == {vw \in V \X V : ByeBefore(table, key, vw[1], vw[2])}
<1>1. \A v, w \in V : /\ table[v].points \in Int /\ key[v] \in Int
                      /\ v # w => key[v] # key[w]
    BY DEF RanksAll
<1>2. \A v, w \in V : <<v, w>> \in R <=> ByeBefore(table, key, v, w)
    <2> TAKE v, w \in V
    <2>1. <<v, w>> \in V \X V /\ <<v, w>>[1] = v /\ <<v, w>>[2] = w
        OBVIOUS
    <2> QED BY <2>1
<1>3. V # {} /\ IsFiniteSet(V)
    <2>1. PICK B \in S, v \in DOMAIN table : B = {v}
        OBVIOUS
    <2>2. v \in V /\ V \subseteq DOMAIN table
        BY <2>1
    <2> HIDE DEF V
    <2> QED BY <2>2, FS_Subset
<1>4. \A C \in S : \E w \in V : C = {w}
    OBVIOUS
<1>5. \A v \in V : {v} \in S
    OBVIOUS
<1> HIDE DEF R, V
<1>6. /\ \A v \in V : ~ ByeBefore(table, key, v, v)
      /\ \A u, v, w \in V : ByeBefore(table, key, u, v) /\ ByeBefore(table, key, v, w)
                                => ByeBefore(table, key, u, w)
      /\ \A v, w \in V : v # w => ByeBefore(table, key, v, w) \/ ByeBefore(table, key, w, v)
    BY <1>1 DEF ByeBefore
<1>7. StrictOrderOn(R, V)
    BY <1>2, <1>6 DEF StrictOrderOn
<1>8. PICK v \in V : \A w \in V : <<w, v>> \notin R
    BY <1>3, <1>7, MinimalElement
<1>9. \A w \in V \ {v} : ByeBefore(table, key, v, w)
    BY <1>2, <1>6, <1>8
<1>10. ASSUME NEW C \in S \ {{v}}
       PROVE  \E x \in {v}, w \in C : ByeBefore(table, key, x, w)
    BY <1>4, <1>9
<1> QED BY <1>5, <1>10

(***************************************************************************)
(* What pair_swiss returns: the bye is one of the candidates when the      *)
(* number of players is odd, and the pairs are found without repeats or,   *)
(* when there are none, with them.                                         *)
(***************************************************************************)
ByeChoices(table) ==
    IF Cardinality(DOMAIN table) % 2 = 1 THEN {{v} : v \in ByeCandidates(table)} ELSE {{}}

LEMMA PairSwissChooses ==
    ASSUME NEW table, NEW key, RanksAll(table, key), IsFiniteSet(DOMAIN table),
           NEW pairing \in PairSwiss(table, key)
    PROVE  /\ IF Cardinality(DOMAIN table) % 2 = 1
              THEN \E v \in ByeCandidates(table) : pairing.bye = {v}
              ELSE pairing.bye = {}
           /\ pairing.bye \subseteq DOMAIN table
           /\ LET players == DOMAIN table \ pairing.bye
              IN  \/ pairing.pairs \in SearchPairing(table, key, players, TRUE)
                  \/ /\ \A B \in ByeChoices(table) :
                            SearchPairing(table, key, DOMAIN table \ B, TRUE) = {}
                     /\ pairing.pairs \in SearchPairing(table, key, players, FALSE)
<1> DEFINE players == DOMAIN table
           odd == Cardinality(players) % 2 = 1
           byes == IF odd THEN {{v} : v \in ByeCandidates(table)} ELSE {{}}
           before(B, C) == \E v \in B, w \in C : ByeBefore(table, key, v, w)
           search(B, avoid) == SearchPairing(table, key, players \ B, avoid)
           firstBye(S) == CHOOSE B \in S : \A C \in S \ {B} : before(B, C)
           fair == {B \in byes : search(B, TRUE) # {}}
           among == IF fair # {} THEN fair ELSE byes
           bye == firstBye(among)
<1>1. pairing.bye = bye /\ pairing.pairs \in search(bye, fair # {})
    <2>1. pairing \in {[pairs |-> pairs, bye |-> bye] : pairs \in search(bye, fair # {})}
        BY DEF PairSwiss
    <2> HIDE DEF bye, fair, search
    <2> QED BY <2>1
<1>2. ByeCandidates(table) \subseteq players /\ (odd => ByeCandidates(table) # {})
    <2>1. odd => players # {}
        BY FS_EmptySet
    <2> QED BY <2>1 DEF ByeCandidates
<1>3. among \subseteq byes /\ among # {} /\ byes \subseteq SUBSET players
    BY <1>2
<1>4. \E B \in among : \A C \in among \ {B} : before(B, C)
    <2>1. CASE odd
        <3>1. \A B \in among : \E v \in players : B = {v}
            BY <1>2, <1>3, <2>1
        <3> HIDE DEF among
        <3>2. \E B \in among : \A C \in among \ {B} :
                  \E v \in B, w \in C : ByeBefore(table, key, v, w)
            BY <1>3, <3>1, FirstByeIsAmong
        <3> QED BY <3>2
    <2>2. CASE ~ odd
        <3>1. \A B \in among : B = {}
            BY <1>3, <2>2
        <3> HIDE DEF among, before
        <3>2. {} \in among /\ among \ {{}} = {}
            BY <1>3, <3>1
        <3> QED BY <3>2
    <2> QED BY <2>1, <2>2
<1>5. bye \in among
    <2> HIDE DEF among
    <2> QED BY <1>4
<1>6. bye \in byes /\ bye \subseteq players
    BY <1>3, <1>5
<1>7. fair = {} => \A B \in byes : search(B, TRUE) = {}
    <2> HIDE DEF search, byes
    <2> QED OBVIOUS
<1>8. IF fair # {} THEN pairing.pairs \in search(bye, TRUE)
                   ELSE pairing.pairs \in search(bye, FALSE)
    <2>1. CASE fair # {}
        <3>1. (fair # {}) = TRUE
            BY <2>1
        <3> HIDE DEF fair, search, bye
        <3> QED BY <1>1, <2>1, <3>1
    <2>2. CASE ~ (fair # {})
        <3>1. (fair # {}) = FALSE
            BY <2>2
        <3> HIDE DEF fair, search, bye
        <3> QED BY <1>1, <2>2, <3>1
    <2> QED BY <2>1, <2>2
<1>9. IF odd THEN \E v \in ByeCandidates(table) : bye = {v} ELSE bye = {}
    <2> HIDE DEF bye
    <2> QED BY <1>6
<1>10. \/ pairing.pairs \in search(bye, TRUE)
       \/ /\ \A B \in byes : search(B, TRUE) = {}
          /\ pairing.pairs \in search(bye, FALSE)
    <2> HIDE DEF fair, bye, search, byes
    <2> QED BY <1>7, <1>8
<1>11. byes = ByeChoices(table)
    BY DEF ByeChoices
<1> HIDE DEF bye, byes
<1> QED BY <1>1, <1>6, <1>9, <1>10, <1>11

(***************************************************************************)
(* The pairing of a league round: at most one player has the bye, and the  *)
(* others are matched perfectly.                                           *)
(***************************************************************************)
THEOREM PairSwissIsMatching ==
    ASSUME NEW table, NEW key, RanksAll(table, key), IsFiniteSet(DOMAIN table),
           NEW pairing \in PairSwiss(table, key)
    PROVE  /\ pairing.bye \subseteq DOMAIN table
           /\ PerfectMatching(pairing.pairs, DOMAIN table \ pairing.bye)
<1> DEFINE players == DOMAIN table \ pairing.bye
<1>1. /\ pairing.bye \subseteq DOMAIN table
      /\ \E avoid \in BOOLEAN : pairing.pairs \in SearchPairing(table, key, players, avoid)
    BY PairSwissChooses
<1>2. players \subseteq DOMAIN table
    OBVIOUS
<1> HIDE DEF players
<1>3. PerfectMatching(pairing.pairs, players)
    BY <1>1, <1>2, SearchFindsMatchings
<1> QED BY <1>1, <1>3 DEF players

(***************************************************************************)
(* A perfect matching has half as many pairs as players.                   *)
(***************************************************************************)
LEMMA MatchingHalves ==
    ASSUME NEW S, IsFiniteSet(S), NEW P, PerfectMatching(P, S)
    PROVE  IsFiniteSet(P) /\ Cardinality(P) \in Nat /\ Cardinality(S) = 2 * Cardinality(P)
<1>1. P \subseteq SUBSET S
    BY DEF PerfectMatching
<1>2. IsFiniteSet(P) /\ Cardinality(P) \in Nat
    BY <1>1, FS_SUBSET, FS_Subset, FS_CardinalityType
<1> DEFINE good == {Q \in SUBSET P : /\ IsFiniteSet(UNION Q) /\ IsFiniteSet(Q)
                                     /\ Cardinality(UNION Q) = 2 * Cardinality(Q)}
<1>3. {} \in good
    <2>1. UNION {} = {}
        OBVIOUS
    <2> QED BY <2>1, FS_EmptySet
<1>4. ASSUME NEW Q \in SUBSET P, NEW x \in P \ Q, Q \in good
      PROVE  Q \union {x} \in good
    <2>1. PICK v \in S, w \in S : v # w /\ x = {v, w}
        BY DEF PerfectMatching
    <2> DEFINE U == UNION Q
    <2>2. v \notin U /\ w \notin U
        BY <2>1 DEF PerfectMatching
    <2>3. UNION (Q \union {x}) = (U \union {v}) \union {w}
        BY <2>1
    <2>4. /\ IsFiniteSet(U) /\ Cardinality(U) \in Nat
          /\ IsFiniteSet(Q) /\ Cardinality(Q) \in Nat
          /\ Cardinality(U) = 2 * Cardinality(Q)
        BY <1>4, FS_CardinalityType
    <2> HIDE DEF good, U
    <2> DEFINE V == U \union {v}
    <2>5. IsFiniteSet(V) /\ Cardinality(V) = Cardinality(U) + 1
        BY <2>2, <2>4, FS_AddElement
    <2>6. w \notin V
        BY <2>1, <2>2
    <2> HIDE DEF V
    <2>7. IsFiniteSet(V \union {w}) /\ Cardinality(V \union {w}) = Cardinality(V) + 1
        BY <2>5, <2>6, FS_AddElement
    <2>8. IsFiniteSet(Q \union {x}) /\ Cardinality(Q \union {x}) = Cardinality(Q) + 1
        BY <2>4, FS_AddElement
    <2>9. Cardinality(UNION (Q \union {x})) = 2 * Cardinality(Q \union {x})
        <3>1. Cardinality(UNION (Q \union {x})) = Cardinality(V \union {w})
            BY <2>3 DEF V
        <3> QED BY <2>4, <2>5, <2>7, <2>8, <3>1
    <2>10. IsFiniteSet(UNION (Q \union {x}))
        BY <2>3, <2>7 DEF V
    <2> QED BY <2>8, <2>9, <2>10 DEF good
<1>5. P \in good
    <2> HIDE DEF good
    <2> QED BY <1>2, <1>3, <1>4, SubsetInduction
<1> QED BY <1>2, <1>5 DEF PerfectMatching

LEMMA MatchingWithout ==
    ASSUME NEW S, NEW P, PerfectMatching(P, S), NEW v, NEW w, v # w, {v, w} \in P
    PROVE  PerfectMatching(P \ {{v, w}}, S \ {v, w}) /\ v \in S /\ w \in S
<1>1. v \in S /\ w \in S
    BY DEF PerfectMatching
<1>2. ASSUME NEW x \in P \ {{v, w}}
      PROVE  \E a, b \in S \ {v, w} : a # b /\ x = {a, b}
    <2>1. x \intersect {v, w} = {}
        BY DEF PerfectMatching
    <2>2. PICK a \in S, b \in S : a # b /\ x = {a, b}
        BY DEF PerfectMatching
    <2> QED BY <2>1, <2>2
<1>3. UNION (P \ {{v, w}}) = S \ {v, w}
    <2>1. UNION (P \ {{v, w}}) \subseteq S \ {v, w}
        BY <1>2
    <2>2. ASSUME NEW y \in S \ {v, w} PROVE y \in UNION (P \ {{v, w}})
        <3>1. PICK x \in P : y \in x
            BY DEF PerfectMatching
        <3> QED BY <3>1
    <2> QED BY <2>1, <2>2
<1>4. \A x, y \in P \ {{v, w}} : x \intersect y # {} => x = y
    BY DEF PerfectMatching
<1> QED BY <1>1, <1>2, <1>3, <1>4 DEF PerfectMatching

(***************************************************************************)
(* The search is complete: if the players can be divided into pairs at all *)
(* (into pairs of players who have not met, when repeats are avoided), it  *)
(* finds a pairing. Giving a candidate up for the next one is what makes   *)
(* it so.                                                                  *)
(***************************************************************************)
RatesAll(table) == \A v \in DOMAIN table : table[v].points \in Int /\ table[v].rating \in Int

NobodyMeetsAgain(table, P) == \A v, w : v # w /\ {v, w} \in P => ~ HasMet(table, v, w)

\* Of the candidates that leave the others a pairing there is a nearest one.
LEMMA NearestExists ==
    ASSUME NEW table, RatesAll(table), IsFiniteSet(DOMAIN table), NEW first \in DOMAIN table,
           NEW C, C \subseteq DOMAIN table, C # {}, NEW open
    PROVE  FirstThatCompletes(table, first, open, C) # {}
<1> DEFINE R == {vw \in C \X C : CloserMatch(table, first, vw[1], vw[2])}
<1>1. \A v, w \in C : <<v, w>> \in R <=> CloserMatch(table, first, v, w)
    <2> TAKE v, w \in C
    <2>1. <<v, w>> \in C \X C /\ <<v, w>>[1] = v /\ <<v, w>>[2] = w
        OBVIOUS
    <2> QED BY <2>1
<1> HIDE DEF R
<1>2. \A v \in DOMAIN table : /\ Apart(table[first].points, table[v].points) \in Int
                              /\ Apart(table[first].rating, table[v].rating) \in Int
    BY DEF RatesAll, Apart
<1>3. /\ \A v \in C : ~ CloserMatch(table, first, v, v)
      /\ \A u, v, w \in C : CloserMatch(table, first, u, v) /\ CloserMatch(table, first, v, w)
                                => CloserMatch(table, first, u, w)
    BY <1>2 DEF CloserMatch
<1>4. StrictOrderOn(R, C) /\ IsFiniteSet(C)
    BY <1>1, <1>3, FS_Subset DEF StrictOrderOn
<1>5. PICK v \in C : \A w \in C : <<w, v>> \notin R
    BY <1>4, MinimalElement
<1> QED BY <1>1, <1>5 DEF FirstThatCompletes

LEMMA SearchIsComplete ==
    ASSUME NEW table, NEW key, NEW avoid, RanksAll(table, key), RatesAll(table),
           IsFiniteSet(DOMAIN table), NEW players, players \subseteq DOMAIN table,
           NEW P, PerfectMatching(P, players), avoid => NobodyMeetsAgain(table, P)
    PROVE  SearchPairing(table, key, players, avoid) # {}
<1>0. \A S \in SUBSET players : /\ S \subseteq DOMAIN table
                                /\ IsFiniteSet(S) /\ Cardinality(S) \in Nat
    BY FS_Subset, FS_CardinalityType
<1>1. PICK f : SearchedBy(table, key, f, players, avoid)
    <2>1. players \in SUBSET players
        OBVIOUS
    <2>2. IsFiniteSet(players)
        BY <1>0, <2>1
    <2> QED BY <2>2, SearchFollowsEquation
<1>2. \A S \in SUBSET players : f[S] = Found(table, key, f, S, avoid)
    BY <1>1 DEF SearchedBy, SearchEquation
<1> DEFINE fits(Q, S) == PerfectMatching(Q, S) /\ (avoid => NobodyMeetsAgain(table, Q))
           bad == {S \in SUBSET players : (\E Q : fits(Q, S)) /\ f[S] = {}}
           sizes == {Cardinality(S) : S \in bad}
<1>3. bad = {}
    <2> SUFFICES ASSUME bad # {} PROVE FALSE
        OBVIOUS
    <2>1. PICK n \in sizes : \A m \in sizes : n <= m
        <3>1. sizes \subseteq Nat /\ sizes # {}
            BY <1>0
        <3> HIDE DEF sizes
        <3> QED BY <3>1, LeastNatural
    <2>2. PICK S \in bad : n = Cardinality(S)
        OBVIOUS
    <2>3. PICK Q : fits(Q, S)
        OBVIOUS
    <2>4. S # {}
        <3>1. f[{}] = {{}}
            BY <1>2 DEF Found
        <3> QED BY <3>1
    <2>5. Cardinality(S) % 2 # 1
        <3>1. Cardinality(Q) \in Nat /\ Cardinality(S) = 2 * Cardinality(Q)
            BY <1>0, <2>3, MatchingHalves
        <3> QED BY <3>1
    <2> DEFINE first == FirstOf(table, key, S)
               open == {v \in S \ {first} : avoid => ~ HasMet(table, first, v)}
               completing == Completing(table, first, f, S, avoid)
    <2>6. first \in S
        BY <1>0, <2>4, FirstIsAmong
    <2>7. f[S] = UNION {WithPair({first, w}, f[S \ {first, w}]) :
                            w \in Partners(table, first, f, S, avoid)}
        BY <1>2, <2>4, <2>5 DEF Found
    <2> HIDE DEF first
    <2>8. PICK w \in S \ {first} : {first, w} \in Q
        <3>1. PICK x \in Q : first \in x
            BY <2>3, <2>6 DEF PerfectMatching
        <3>2. PICK a \in S, b \in S : a # b /\ x = {a, b}
            BY <2>3 DEF PerfectMatching
        <3>3. CASE first = a
            BY <3>1, <3>2, <3>3
        <3>4. CASE first = b
            <4>1. x = {first, a}
                BY <3>2, <3>4
            <4> QED BY <3>1, <3>2, <3>4, <4>1
        <3> QED BY <3>1, <3>2, <3>3, <3>4
    <2>9. f[S \ {first, w}] # {}
        <3>1. PerfectMatching(Q \ {{first, w}}, S \ {first, w})
            BY <2>3, <2>8, MatchingWithout
        <3>2. avoid => NobodyMeetsAgain(table, Q \ {{first, w}})
            BY <2>3 DEF NobodyMeetsAgain
        <3>3. /\ Cardinality(S \ {first, w}) < Cardinality(S)
              /\ Cardinality(S) \in Nat /\ Cardinality(S \ {first, w}) \in Nat
            BY <1>0, <2>8, SmallerWithout
        <3>4. S \ {first, w} \in bad => Cardinality(S) <= Cardinality(S \ {first, w})
            BY <2>1, <2>2
        <3>5. fits(Q \ {{first, w}}, S \ {first, w}) /\ S \ {first, w} \in SUBSET players
            BY <3>1, <3>2
        <3> HIDE DEF fits
        <3>6. f[S \ {first, w}] = {} => S \ {first, w} \in bad
            BY <3>5
        <3> HIDE DEF bad
        <3> QED BY <3>3, <3>4, <3>6
    <2>10. avoid => ~ HasMet(table, first, w)
        BY <2>3, <2>8 DEF NobodyMeetsAgain
    <2>11. w \in completing /\ completing \subseteq S
        BY <2>8, <2>9, <2>10 DEF Completing
    <2>12. FirstThatCompletes(table, first, open, completing) # {}
        <3>1. first \in DOMAIN table /\ completing \subseteq DOMAIN table /\ completing # {}
            BY <1>0, <2>6, <2>11
        <3> HIDE DEF completing, open
        <3> QED BY <3>1, NearestExists
    <2>13. PICK v \in Partners(table, first, f, S, avoid) : TRUE
        BY <2>12 DEF Partners
    <2>14. f[S \ {first, v}] # {}
        BY <2>13 DEF Partners, FirstThatCompletes, Completing
    <2>15. WithPair({first, v}, f[S \ {first, v}]) # {}
        <3>1. PICK R \in f[S \ {first, v}] : TRUE
            BY <2>14
        <3>2. {{first, v}} \union R \in WithPair({first, v}, f[S \ {first, v}])
            BY <3>1 DEF WithPair
        <3> QED BY <3>2
    <2>16. f[S] # {}
        <3> HIDE DEF completing, open, bad, sizes
        <3> QED BY <2>7, <2>13, <2>15
    <2> QED BY <2>16
<1> QED BY <1>1, <1>3 DEF SearchedBy

\* A pairing found without repeats has none.
LEMMA SearchAvoidsRepeats ==
    ASSUME NEW table, NEW key, RanksAll(table, key), IsFiniteSet(DOMAIN table),
           NEW players, players \subseteq DOMAIN table,
           NEW P \in SearchPairing(table, key, players, TRUE)
    PROVE  NobodyMeetsAgain(table, P)
<1>0. \A S \in SUBSET players : /\ S \subseteq DOMAIN table
                                /\ IsFiniteSet(S) /\ Cardinality(S) \in Nat
    BY FS_Subset, FS_CardinalityType
<1>1. PICK f : SearchedBy(table, key, f, players, TRUE)
    <2>1. players \in SUBSET players
        OBVIOUS
    <2>2. IsFiniteSet(players)
        BY <1>0, <2>1
    <2> QED BY <2>2, SearchFollowsEquation
<1>2. \A S \in SUBSET players : f[S] = Found(table, key, f, S, TRUE)
    BY <1>1 DEF SearchedBy, SearchEquation
<1> DEFINE bad == {S \in SUBSET players : \E Q \in f[S] : ~ NobodyMeetsAgain(table, Q)}
           sizes == {Cardinality(S) : S \in bad}
<1>3. bad = {}
    <2> SUFFICES ASSUME bad # {} PROVE FALSE
        OBVIOUS
    <2>1. PICK n \in sizes : \A m \in sizes : n <= m
        <3>1. sizes \subseteq Nat /\ sizes # {}
            BY <1>0
        <3> HIDE DEF sizes
        <3> QED BY <3>1, LeastNatural
    <2>2. PICK S \in bad : n = Cardinality(S)
        OBVIOUS
    <2>3. PICK Q \in f[S] : ~ NobodyMeetsAgain(table, Q)
        OBVIOUS
    <2>4. S # {}
        <3>1. f[{}] = {{}}
            BY <1>2 DEF Found
        <3>2. NobodyMeetsAgain(table, {})
            BY DEF NobodyMeetsAgain
        <3> QED BY <2>3, <3>1, <3>2
    <2> DEFINE first == FirstOf(table, key, S)
    <2>5. f[S] = Found(table, key, f, S, TRUE)
        BY <1>2
    <2>6. PICK w \in Partners(table, first, f, S, TRUE) :
              Q \in WithPair({first, w}, f[S \ {first, w}])
        <3>1. Cardinality(S) % 2 # 1
            BY <2>3, <2>4, <2>5 DEF Found
        <3>2. f[S] = UNION {WithPair({first, w}, f[S \ {first, w}]) :
                                w \in Partners(table, first, f, S, TRUE)}
            BY <2>4, <2>5, <3>1 DEF Found
        <3> HIDE DEF first
        <3> QED BY <2>3, <3>2
    <2>7. w \in S /\ w # first /\ ~ HasMet(table, first, w)
        BY PartnersAreAmong
    <2>8. PICK R \in f[S \ {first, w}] : Q = {{first, w}} \union R
        BY <2>6 DEF WithPair
    <2> HIDE DEF first
    <2>9. S \ {first, w} \notin bad
        <3>1. /\ Cardinality(S \ {first, w}) < Cardinality(S)
              /\ Cardinality(S) \in Nat /\ Cardinality(S \ {first, w}) \in Nat
            BY <1>0, <2>7, SmallerWithout
        <3>2. S \ {first, w} \in bad => Cardinality(S) <= Cardinality(S \ {first, w})
            BY <2>1, <2>2
        <3> QED BY <3>1, <3>2
    <2>10. NobodyMeetsAgain(table, R)
        BY <2>8, <2>9
    <2>11. ASSUME NEW v, NEW u, v # u, {v, u} \in Q
           PROVE  ~ HasMet(table, v, u)
        <3>1. CASE {v, u} = {first, w}
            <4>1. (v = first /\ u = w) \/ (v = w /\ u = first)
                BY <2>11, <3>1
            <4> QED BY <2>7, <4>1 DEF HasMet
        <3>2. CASE {v, u} \in R
            BY <2>10, <2>11, <3>2 DEF NobodyMeetsAgain
        <3> QED BY <2>8, <2>11, <3>1, <3>2
    <2> QED BY <2>3, <2>11 DEF NobodyMeetsAgain
<1> QED BY <1>1, <1>3 DEF SearchedBy

(***************************************************************************)
(* Two players who have met are paired again only when, whichever of the   *)
(* candidates has the bye, every way to pair the others has such a pair.   *)
(***************************************************************************)
THEOREM PairSwissRepeatsWhenForced ==
    ASSUME NEW table, NEW key, RanksAll(table, key), RatesAll(table),
           IsFiniteSet(DOMAIN table), NEW pairing \in PairSwiss(table, key),
           NEW bye \in ByeChoices(table),
           NEW P, PerfectMatching(P, DOMAIN table \ bye), NobodyMeetsAgain(table, P)
    PROVE  NobodyMeetsAgain(table, pairing.pairs)
<1> DEFINE others == DOMAIN table \ bye
           players == DOMAIN table \ pairing.bye
<1>1. others \subseteq DOMAIN table /\ players \subseteq DOMAIN table
    OBVIOUS
<1>2. \/ pairing.pairs \in SearchPairing(table, key, players, TRUE)
      \/ SearchPairing(table, key, others, TRUE) = {}
    BY PairSwissChooses
<1>3. SearchPairing(table, key, others, TRUE) # {}
    <2> HIDE DEF others
    <2> QED BY <1>1, SearchIsComplete DEF others
<1> HIDE DEF others, players
<1> QED BY <1>1, <1>2, <1>3, SearchAvoidsRepeats

=============================================================================
