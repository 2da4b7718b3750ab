----------------------------- MODULE AlgorithmProofs -----------------------------
(***************************************************************************)
(* The two algorithms that MCAlgorithms runs. The selection loop reaches   *)
(* the rule of the quorum, in whatever order the accounts are listed. And  *)
(* a league round by round: byes go around, repeats are forced, and the    *)
(* standings add up, whatever the results of the battles.                  *)
(***************************************************************************)
EXTENDS QuorumScan, LeagueTournament, SelectionProofs

(***************************************************************************)
(* Sums. SumFunction is a fold that takes the elements in an order nobody  *)
(* knows; it is defined, and one more element adds its value.              *)
(***************************************************************************)
Summed(v, g, T) ==
    IF T = {} THEN 0 ELSE LET x == CHOOSE x \in T : TRUE IN v[x] + g[T \ {x}]

SumEquation(v, g, D) == g = [T \in D |-> Summed(v, g, T)]

LEMMA SumIsDefined ==
    ASSUME NEW v, NEW S, IsFiniteSet(S)
    PROVE  \E g : SumEquation(v, g, SUBSET S)
<1> DEFINE D(n) == {T \in SUBSET S : Cardinality(T) <= n}
           Defined(n) == \E g : SumEquation(v, g, D(n))
           bad == {n \in Nat : ~ Defined(n)}
<1>0. \A T \in SUBSET S : IsFiniteSet(T) /\ Cardinality(T) \in Nat
    BY FS_Subset, FS_CardinalityType
<1>1. bad = {}
    <2> SUFFICES ASSUME bad # {} PROVE FALSE
        OBVIOUS
    <2>1. PICK n \in bad : \A m \in bad : n <= m
        <3>1. bad \subseteq Nat
            OBVIOUS
        <3> HIDE DEF bad
        <3> QED BY <3>1, LeastNatural
    <2>2. n \in Nat
        OBVIOUS
    <2>3. \A T \in D(n) : \A x \in T : T \ {x} \in D(n - 1) /\ T \ {x} \in D(n)
        <3> TAKE T \in D(n)
        <3> TAKE x \in T
        <3>1. IsFiniteSet(T) /\ Cardinality(T) \in Nat /\ Cardinality(T) <= n
            BY <1>0
        <3>2. Cardinality(T \ {x}) = Cardinality(T) - 1
            BY <3>1, FS_RemoveElement
        <3>3. Cardinality(T \ {x}) <= n - 1 /\ Cardinality(T \ {x}) <= n
            BY <2>2, <3>1, <3>2
        <3> QED BY <3>3
    <2>4. PICK g : \A T \in D(n) : \A x \in T : g[T \ {x}] = Summed(v, g, T \ {x})
        <3>1. CASE n = 0
            <4>1. \A T \in D(n) : T = {}
                BY <1>0, <3>1, FS_EmptySet
            <4> QED BY <4>1
        <3>2. CASE n # 0
            <4>1. n - 1 \in Nat /\ n - 1 \notin bad
                <5> HIDE DEF bad
                <5> QED BY <2>1, <2>2, <3>2
            <4>2. PICK g : SumEquation(v, g, D(n - 1))
                BY <4>1
            <4>3. \A T \in D(n - 1) : g[T] = Summed(v, g, T)
                BY <4>2 DEF SumEquation
            <4> HIDE DEF D
            <4> QED BY <2>3, <4>3
        <3> QED BY <3>1, <3>2
    <2> DEFINE h == [T \in D(n) |-> Summed(v, g, T)]
    <2>5. \A T \in D(n) : Summed(v, g, T) = Summed(v, h, T)
        <3> TAKE T \in D(n)
        <3>1. \A x \in T : g[T \ {x}] = h[T \ {x}]
            BY <2>3, <2>4
        <3>2. T # {} => (CHOOSE x \in T : TRUE) \in T
            OBVIOUS
        <3> HIDE DEF h, D
        <3> QED BY <3>1, <3>2 DEF Summed
    <2>6. SumEquation(v, h, D(n))
        BY <2>5 DEF SumEquation
    <2> QED BY <2>6
<1>2. Cardinality(S) \in Nat /\ D(Cardinality(S)) = SUBSET S
    <2>1. \A T \in SUBSET S : Cardinality(T) <= Cardinality(S)
        BY FS_Subset
    <2> QED BY <1>0, <2>1
<1>3. Defined(Cardinality(S))
    BY <1>1, <1>2
<1> QED BY <1>2, <1>3

\* The sum over a set has one value, that of SumFunctionOnSet.
SumsUpTo(v, g, S) == \A T \in SUBSET S : g[T] = Summed(v, g, T)

LEMMA SumsAgree ==
    ASSUME NEW v, NEW w, NEW g, NEW h, NEW S, IsFiniteSet(S),
           SumsUpTo(v, g, S), SumsUpTo(w, h, S), \A x \in S : v[x] = w[x]
    PROVE  g[S] = h[S]
<1> DEFINE bad == {T \in SUBSET S : g[T] # h[T]}
           sizes == {Cardinality(T) : T \in bad}
<1>0. \A T \in SUBSET S : IsFiniteSet(T) /\ Cardinality(T) \in Nat
    BY FS_Subset, FS_CardinalityType
<1>1. \A T \in SUBSET S : g[T] = Summed(v, g, T) /\ h[T] = Summed(w, h, T)
    BY DEF SumsUpTo
<1>2. bad = {}
    <2> SUFFICES ASSUME bad # {} PROVE FALSE
        OBVIOUS
    <2>1. PICK n \in sizes : \A m \in sizes : n <= m
        <3>1. sizes \subseteq Nat /\ sizes # {}
            BY <1>0
        <3> HIDE DEF sizes
        <3> QED BY <3>1, LeastNatural
    <2>2. PICK T \in bad : n = Cardinality(T)
        OBVIOUS
    <2> DEFINE x == CHOOSE x \in T : TRUE
    <2>3. T # {}
        BY <1>1 DEF Summed
    <2>4. x \in T
        BY <2>3
    <2>5. Summed(v, g, T) = v[x] + g[T \ {x}] /\ Summed(w, h, T) = w[x] + h[T \ {x}]
        BY <2>3 DEF Summed
    <2> HIDE DEF x
    <2>6. g[T \ {x}] = h[T \ {x}]
        <3>1. Cardinality(T) \in Nat /\ Cardinality(T \ {x}) = Cardinality(T) - 1
            BY <1>0, <2>4, FS_RemoveElement
        <3>2. T \ {x} \in bad => Cardinality(T) <= Cardinality(T) - 1
            BY <2>1, <2>2, <3>1
        <3>3. T \ {x} \in SUBSET S
            OBVIOUS
        <3> QED BY <3>1, <3>2, <3>3
    <2>7. v[x] = w[x]
        BY <2>4
    <2> QED BY <1>1, <2>5, <2>6, <2>7
<1> QED BY <1>2

SumOver(v, S) == SumFunctionOnSet(v, S)

LEMMA SumOverEquation ==
    ASSUME NEW v, NEW S, IsFiniteSet(S)
    PROVE  \E g : SumEquation(v, g, SUBSET S) /\ \A T \in SUBSET S : SumOver(v, T) = g[T]
<1> DEFINE sum(T) == CHOOSE g : SumEquation(v, g, SUBSET T)
<1>1. \A T \in SUBSET S : IsFiniteSet(T)
    BY FS_Subset
<1>2. \A T \in SUBSET S : SumEquation(v, sum(T), SUBSET T)
    BY <1>1, SumIsDefined
<1>3. \A T : SumOver(v, T) = sum(T)[T]
    BY DEF SumOver, SumFunctionOnSet, FoldFunctionOnSet, MapThenFoldSet, SumEquation, Summed
<1>4. ASSUME NEW T \in SUBSET S PROVE sum(T)[T] = sum(S)[T]
    <2>1. SumEquation(v, sum(T), SUBSET T) /\ SumEquation(v, sum(S), SUBSET S)
        BY <1>2
    <2> HIDE DEF sum
    <2>2. SumsUpTo(v, sum(T), T) /\ SumsUpTo(v, sum(S), T)
        BY <2>1 DEF SumEquation, SumsUpTo
    <2>3. IsFiniteSet(T) /\ \A x \in T : v[x] = v[x]
        BY <1>1
    <2> QED BY <2>2, <2>3, SumsAgree
<1>5. \A T \in SUBSET S : SumOver(v, T) = sum(S)[T]
    BY <1>3, <1>4
<1> HIDE DEF sum
<1> QED BY <1>2, <1>5

LEMMA SumOverNothing ==
    ASSUME NEW v
    PROVE  SumOver(v, {}) = 0
<1>1. PICK g : SumEquation(v, g, SUBSET {}) /\ \A T \in SUBSET {} : SumOver(v, T) = g[T]
    BY FS_EmptySet, SumOverEquation
<1>2. SumOver(v, {}) = g[{}] /\ g[{}] = Summed(v, g, {})
    BY <1>1 DEF SumEquation
<1> QED BY <1>2 DEF Summed

LEMMA SumOverSteps ==
    ASSUME NEW v, NEW S, IsFiniteSet(S), S # {}
    PROVE  \E x \in S : SumOver(v, S) = v[x] + SumOver(v, S \ {x})
<1>1. PICK g : SumEquation(v, g, SUBSET S) /\ \A T \in SUBSET S : SumOver(v, T) = g[T]
    BY SumOverEquation
<1> DEFINE x == CHOOSE x \in S : TRUE
<1>2. x \in S
    OBVIOUS
<1>3. g[S] = Summed(v, g, S)
    BY <1>1 DEF SumEquation
<1>4. g[S] = v[x] + g[S \ {x}]
    BY <1>3 DEF Summed
<1> HIDE DEF x
<1>5. g[S] = SumOver(v, S) /\ g[S \ {x}] = SumOver(v, S \ {x})
    <2>1. S \in SUBSET S /\ S \ {x} \in SUBSET S
        OBVIOUS
    <2> QED BY <1>1, <2>1
<1> QED BY <1>2, <1>4, <1>5

LEMMA SumOverAgrees ==
    ASSUME NEW v, NEW w, NEW S, IsFiniteSet(S), \A x \in S : v[x] = w[x]
    PROVE  SumOver(v, S) = SumOver(w, S)
<1>1. PICK g : SumEquation(v, g, SUBSET S) /\ \A T \in SUBSET S : SumOver(v, T) = g[T]
    BY SumOverEquation
<1>2. PICK h : SumEquation(w, h, SUBSET S) /\ \A T \in SUBSET S : SumOver(w, T) = h[T]
    BY SumOverEquation
<1>3. g[S] = h[S]
    <2>1. SumsUpTo(v, g, S) /\ SumsUpTo(w, h, S)
        BY <1>1, <1>2 DEF SumEquation, SumsUpTo
    <2> QED BY <2>1, SumsAgree
<1>4. S \in SUBSET S
    OBVIOUS
<1> QED BY <1>1, <1>2, <1>3, <1>4

LEMMA SumIsInteger ==
    ASSUME NEW v, NEW S, IsFiniteSet(S), \A x \in S : v[x] \in Int
    PROVE  SumOver(v, S) \in Int /\ ((\A x \in S : v[x] >= 0) => SumOver(v, S) >= 0)
<1> DEFINE signed(T) == (\A x \in T : v[x] >= 0) => SumOver(v, T) >= 0
           bad == {T \in SUBSET S : ~ (SumOver(v, T) \in Int /\ signed(T))}
           sizes == {Cardinality(T) : T \in bad}
<1>0. \A T \in SUBSET S : IsFiniteSet(T) /\ Cardinality(T) \in Nat
    BY FS_Subset, FS_CardinalityType
<1>1. bad = {}
    <2> SUFFICES ASSUME bad # {} PROVE FALSE
        OBVIOUS
    <2>1. PICK n \in sizes : \A m \in sizes : n <= m
        <3>1. sizes \subseteq Nat /\ sizes # {}
            BY <1>0
        <3> HIDE DEF sizes
        <3> QED BY <3>1, LeastNatural
    <2>2. PICK T \in bad : n = Cardinality(T)
        OBVIOUS
    <2>3. T # {}
        BY SumOverNothing
    <2>4. IsFiniteSet(T) /\ Cardinality(T) \in Nat /\ T \subseteq S
        BY <1>0
    <2>5. PICK x \in T : SumOver(v, T) = v[x] + SumOver(v, T \ {x})
        BY <2>3, <2>4, SumOverSteps
    <2>6. SumOver(v, T \ {x}) \in Int /\ signed(T \ {x})
        <3>1. Cardinality(T \ {x}) = Cardinality(T) - 1
            BY <2>4, FS_RemoveElement
        <3>2. T \ {x} \in bad => Cardinality(T) <= Cardinality(T) - 1
            BY <2>1, <2>2, <3>1
        <3> QED BY <2>4, <3>2
    <2>7. v[x] \in Int
        BY <2>4
    <2>8. SumOver(v, T) \in Int /\ signed(T)
        BY <2>5, <2>6, <2>7
    <2> QED BY <2>8
<1> QED BY <1>1

\* The order in which the elements are taken does not matter.
LEMMA SumOverInsert ==
    ASSUME NEW v, NEW S, IsFiniteSet(S), \A x \in S : v[x] \in Int,
           NEW y \in S
    PROVE  SumOver(v, S) = v[y] + SumOver(v, S \ {y})
<1> DEFINE bad == {T \in SUBSET S : \E x \in T : SumOver(v, T) # v[x] + SumOver(v, T \ {x})}
           sizes == {Cardinality(T) : T \in bad}
<1>0. \A T \in SUBSET S : IsFiniteSet(T) /\ Cardinality(T) \in Nat
    BY FS_Subset, FS_CardinalityType
<1>1. bad = {}
    <2> SUFFICES ASSUME bad # {} PROVE FALSE
        OBVIOUS
    <2>1. PICK n \in sizes : \A m \in sizes : n <= m
        <3>1. sizes \subseteq Nat /\ sizes # {}
            BY <1>0
        <3> HIDE DEF sizes
        <3> QED BY <3>1, LeastNatural
    <2>2. PICK T \in bad : n = Cardinality(T)
        OBVIOUS
    <2>3. PICK x \in T : SumOver(v, T) # v[x] + SumOver(v, T \ {x})
        OBVIOUS
    <2>4. IsFiniteSet(T) /\ Cardinality(T) \in Nat /\ T \subseteq S
        BY <1>0
    <2>5. PICK z \in T : SumOver(v, T) = v[z] + SumOver(v, T \ {z})
        BY <2>3, <2>4, SumOverSteps
    <2>6. z # x
        BY <2>3, <2>5
    <2>7. ASSUME NEW u \in T PROVE T \ {u} \notin bad
        <3>1. Cardinality(T \ {u}) = Cardinality(T) - 1
            BY <2>4, FS_RemoveElement
        <3>2. T \ {u} \in bad => Cardinality(T) <= Cardinality(T) - 1
            BY <2>1, <2>2, <3>1
        <3> HIDE DEF bad
        <3> QED BY <2>4, <3>2
    <2>8. /\ SumOver(v, T \ {z}) = v[x] + SumOver(v, (T \ {z}) \ {x})
          /\ SumOver(v, T \ {x}) = v[z] + SumOver(v, (T \ {x}) \ {z})
        BY <2>4, <2>6, <2>7
    <2>9. (T \ {z}) \ {x} = (T \ {x}) \ {z}
        OBVIOUS
    <2>10. v[x] \in Int /\ v[z] \in Int /\ SumOver(v, (T \ {x}) \ {z}) \in Int
        <3>1. (T \ {x}) \ {z} \in SUBSET S
            BY <2>4
        <3>2. \A u \in (T \ {x}) \ {z} : v[u] \in Int
            BY <3>1
        <3> QED BY <1>0, <2>4, <3>1, <3>2, SumIsInteger
    <2> DEFINE rest == SumOver(v, (T \ {x}) \ {z})
    <2>11. /\ SumOver(v, T \ {z}) = v[x] + rest /\ SumOver(v, T \ {x}) = v[z] + rest
           /\ v[x] \in Int /\ v[z] \in Int /\ rest \in Int
        <3>1. SumOver(v, (T \ {z}) \ {x}) = rest
            BY <2>9
        <3> HIDE DEF bad, sizes, rest
        <3> QED BY <2>8, <2>10, <3>1 DEF rest
    <2> HIDE DEF bad, sizes, rest
    <2> QED BY <2>3, <2>5, <2>11
<1> QED BY <1>1

LEMMA SumOverOneMore ==
    ASSUME NEW v, NEW S, IsFiniteSet(S), NEW y, y \notin S, \A x \in S \union {y} : v[x] \in Int
    PROVE  SumOver(v, S \union {y}) = v[y] + SumOver(v, S)
<1>1. IsFiniteSet(S \union {y}) /\ y \in S \union {y} /\ (S \union {y}) \ {y} = S
    BY FS_AddElement
<1> QED BY <1>1, SumOverInsert

(***************************************************************************)
(* Sums add up, and a sum is what its values other than zero come to.      *)
(***************************************************************************)
LEMMA SumOfSums ==
    ASSUME NEW S, IsFiniteSet(S), NEW u, NEW v, NEW w,
           \A x \in S : v[x] \in Int /\ w[x] \in Int /\ u[x] = v[x] + w[x]
    PROVE  SumOver(u, S) = SumOver(v, S) + SumOver(w, S)
<1> DEFINE good == {T \in SUBSET S : SumOver(u, T) = SumOver(v, T) + SumOver(w, T)}
<1>1. {} \in good
    BY SumOverNothing
<1>2. ASSUME NEW T \in SUBSET S, NEW x \in S \ T, T \in good
      PROVE  T \union {x} \in good
    <2>1. IsFiniteSet(T)
        BY FS_Subset
    <2>2. \A y \in T \union {x} : u[y] \in Int /\ v[y] \in Int /\ w[y] \in Int
        OBVIOUS
    <2>3. /\ SumOver(u, T \union {x}) = u[x] + SumOver(u, T)
          /\ SumOver(v, T \union {x}) = v[x] + SumOver(v, T)
          /\ SumOver(w, T \union {x}) = w[x] + SumOver(w, T)
        BY <2>1, <2>2, SumOverOneMore
    <2>4. SumOver(v, T) \in Int /\ SumOver(w, T) \in Int
        BY <2>1, <2>2, SumIsInteger
    <2>5. u[x] = v[x] + w[x] /\ v[x] \in Int /\ w[x] \in Int
        OBVIOUS
    <2>6. SumOver(u, T) = SumOver(v, T) + SumOver(w, T)
        BY <1>2
    <2>7. SumOver(u, T \union {x}) = SumOver(v, T \union {x}) + SumOver(w, T \union {x})
        BY <2>3, <2>4, <2>5, <2>6
    <2> QED BY <2>7
<1> HIDE DEF good
<1>3. S \in good
    BY <1>1, <1>2, SubsetInduction
<1> QED BY <1>3 DEF good

LEMMA SumOfRest ==
    ASSUME NEW S, IsFiniteSet(S), NEW v, \A x \in S : v[x] \in Int,
           NEW R, R \subseteq S, \A x \in S \ R : v[x] = 0
    PROVE  SumOver(v, S) = SumOver(v, R)
<1> DEFINE good == {T \in SUBSET (S \ R) : SumOver(v, R \union T) = SumOver(v, R)}
<1>1. {} \in good
    <2>1. R \union {} = R
        OBVIOUS
    <2> QED BY <2>1
<1>2. ASSUME NEW T \in SUBSET (S \ R), NEW x \in (S \ R) \ T, T \in good
      PROVE  T \union {x} \in good
    <2>1. IsFiniteSet(R \union T) /\ IsFiniteSet(R)
        BY FS_Subset
    <2>2. R \union (T \union {x}) = (R \union T) \union {x} /\ x \notin R \union T
        OBVIOUS
    <2>3. \A y \in (R \union T) \union {x} : v[y] \in Int
        OBVIOUS
    <2>4. SumOver(v, (R \union T) \union {x}) = v[x] + SumOver(v, R \union T)
        BY <2>1, <2>2, <2>3, SumOverOneMore
    <2>5. SumOver(v, R) \in Int
        BY <2>1, SumIsInteger
    <2>6. SumOver(v, R \union T) = SumOver(v, R) /\ v[x] = 0
        BY <1>2
    <2>7. SumOver(v, (R \union T) \union {x}) = SumOver(v, R)
        BY <2>4, <2>5, <2>6
    <2> QED BY <2>2, <2>7
<1> HIDE DEF good
<1>3. S \ R \in good
    <2>1. IsFiniteSet(S \ R)
        BY FS_Subset
    <2> QED BY <1>1, <1>2, <2>1, SubsetInduction
<1>4. R \union (S \ R) = S
    OBVIOUS
<1> QED BY <1>3, <1>4 DEF good

LEMMA SumOfZeros ==
    ASSUME NEW S, IsFiniteSet(S), NEW v, \A x \in S : v[x] = 0
    PROVE  SumOver(v, S) = 0
<1>1. SumOver(v, S) = SumOver(v, {})
    BY SumOfRest
<1> QED BY <1>1, SumOverNothing

LEMMA SumOfOne ==
    ASSUME NEW S, IsFiniteSet(S), NEW v, NEW a \in S, v[a] \in Int,
           \A x \in S \ {a} : v[x] = 0
    PROVE  SumOver(v, S) = v[a]
<1>1. \A x \in S : v[x] \in Int
    OBVIOUS
<1>2. SumOver(v, S) = v[a] + SumOver(v, S \ {a})
    BY <1>1, SumOverInsert
<1>3. SumOver(v, S \ {a}) = 0
    BY FS_Subset, SumOfZeros
<1> QED BY <1>2, <1>3

LEMMA SumOfTwo ==
    ASSUME NEW S, IsFiniteSet(S), NEW v, NEW a \in S, NEW b \in S, a # b,
           v[a] \in Int, v[b] \in Int, \A x \in S \ {a, b} : v[x] = 0
    PROVE  SumOver(v, S) = v[a] + v[b]
<1>1. \A x \in S : v[x] \in Int
    OBVIOUS
<1>2. SumOver(v, S) = v[a] + SumOver(v, S \ {a})
    BY <1>1, SumOverInsert
<1>3. SumOver(v, S \ {a}) = v[b]
    <2>1. b \in S \ {a} /\ IsFiniteSet(S \ {a}) /\ \A x \in (S \ {a}) \ {b} : v[x] = 0
        BY FS_Subset
    <2> QED BY <2>1, SumOfOne
<1> QED BY <1>2, <1>3

(***************************************************************************)
(* A sum over pairs may be taken by the first or by the second.            *)
(***************************************************************************)
LEMMA DoubleCounting ==
    ASSUME NEW M, IsFiniteSet(M), NEW N, \A x \in M : N[x] \subseteq M,
           NEW p, \A x \in M : p[x] \in Int
    PROVE  SumOver([x \in M |-> SumOver(p, N[x])], M)
               = SumOver([y \in M |-> p[y] * Cardinality({x \in M : y \in N[x]})], M)
<1> DEFINE L == [x \in M |-> SumOver(p, N[x])]
           from(T, y) == {x \in T : y \in N[x]}
           R(T) == [y \in M |-> p[y] * Cardinality(from(T, y))]
           good == {T \in SUBSET M : SumOver(L, T) = SumOver(R(T), M)}
<1>0. \A T \in SUBSET M : \A y : /\ IsFiniteSet(T) /\ IsFiniteSet(from(T, y))
                                 /\ Cardinality(from(T, y)) \in Nat
    <2> TAKE T \in SUBSET M
    <2> TAKE y
    <2>1. from(T, y) \in SUBSET M
        OBVIOUS
    <2> HIDE DEF from
    <2> QED BY <2>1, FS_Subset, FS_CardinalityType
<1>1. {} \in good
    <2>1. \A y \in M : R({})[y] = 0
        <3> TAKE y \in M
        <3>1. from({}, y) = {}
            OBVIOUS
        <3>2. p[y] \in Int
            OBVIOUS
        <3> QED BY <3>1, <3>2, FS_EmptySet
    <2> HIDE DEF R, L
    <2>2. SumOver(R({}), M) = 0
        BY <2>1, SumOfZeros
    <2> QED BY <2>2, SumOverNothing
<1>2. ASSUME NEW T \in SUBSET M, NEW x \in M \ T, T \in good
      PROVE  T \union {x} \in good
    <2> DEFINE part == [y \in M |-> IF y \in N[x] THEN p[y] ELSE 0]
               more == R(T \union {x})
               less == R(T)
    <2>1. \A y \in M : SumOver(p, N[y]) \in Int
        <3> TAKE y \in M
        <3>1. N[y] \in SUBSET M /\ \A z \in N[y] : p[z] \in Int
            OBVIOUS
        <3> QED BY <3>1, FS_Subset, SumIsInteger
    <2>2. SumOver(L, T \union {x}) = SumOver(p, N[x]) + SumOver(L, T)
        <3>1. \A y \in T \union {x} : L[y] \in Int
            BY <2>1
        <3>2. L[x] = SumOver(p, N[x]) /\ x \notin T /\ IsFiniteSet(T)
            BY <1>0
        <3> HIDE DEF L
        <3> QED BY <3>1, <3>2, SumOverOneMore
    <2>3. \A y \in M : less[y] \in Int /\ part[y] \in Int /\ more[y] = less[y] + part[y]
        <3> TAKE y \in M
        <3> DEFINE c == Cardinality(from(T, y))
        <3>1. c \in Nat /\ p[y] \in Int
            BY <1>0
        <3>2. less[y] = p[y] * c /\ part[y] = IF y \in N[x] THEN p[y] ELSE 0
            OBVIOUS
        <3>3. more[y] = p[y] * (IF y \in N[x] THEN c + 1 ELSE c)
            <4>1. y \in N[x] => from(T \union {x}, y) = from(T, y) \union {x}
                OBVIOUS
            <4>2. y \notin N[x] => from(T \union {x}, y) = from(T, y)
                OBVIOUS
            <4>3. x \notin from(T, y) /\ IsFiniteSet(from(T, y))
                BY <1>0
            <4>4. more[y] = p[y] * Cardinality(from(T \union {x}, y))
                OBVIOUS
            <4> HIDE DEF from, more
            <4>5. Cardinality(from(T, y) \union {x}) = c + 1
                BY <4>3, FS_AddElement
            <4> QED BY <4>1, <4>2, <4>4, <4>5
        <3> HIDE DEF less, more, part, c
        <3>4. p[y] * (c + 1) = p[y] * c + p[y] /\ p[y] * c \in Int
            BY <3>1
        <3> QED BY <3>1, <3>2, <3>3, <3>4
    <2> HIDE DEF less, more
    <2>4. SumOver(more, M) = SumOver(less, M) + SumOver(part, M)
        <3> HIDE DEF part
        <3> QED BY <2>3, SumOfSums
    <2>5. SumOver(part, M) = SumOver(p, N[x])
        <3>1. \A y \in M : part[y] \in Int
            BY <2>3
        <3>2. N[x] \subseteq M /\ \A y \in M \ N[x] : part[y] = 0
            OBVIOUS
        <3>3. \A y \in N[x] : part[y] = p[y]
            BY <3>2
        <3>4. IsFiniteSet(N[x])
            BY <3>2, FS_Subset
        <3> HIDE DEF part
        <3>5. SumOver(part, M) = SumOver(part, N[x])
            BY <3>1, <3>2, SumOfRest
        <3>6. SumOver(part, N[x]) = SumOver(p, N[x])
            BY <3>3, <3>4, SumOverAgrees
        <3> QED BY <3>5, <3>6
    <2>6. SumOver(L, T) = SumOver(less, M)
        BY <1>2 DEF less
    <2>7. SumOver(less, M) \in Int /\ SumOver(p, N[x]) \in Int
        BY <2>1, <2>3, SumIsInteger
    <2>8. SumOver(L, T \union {x}) = SumOver(more, M)
        <3> HIDE DEF L, part, good
        <3> QED BY <2>2, <2>4, <2>5, <2>6, <2>7
    <2> QED BY <2>8 DEF more
<1> HIDE DEF good
<1>3. M \in good
    BY <1>1, <1>2, SubsetInduction
<1> QED BY <1>3 DEF good

(***************************************************************************)
(* The ranks of a total order of n elements are 1 to n.                    *)
(***************************************************************************)
LEMMA RanksOfOrder ==
    ASSUME NEW S, IsFiniteSet(S), NEW R, StrictOrderOn(R, S),
           \A v, w \in S : v # w => <<v, w>> \in R \/ <<w, v>> \in R
    PROVE  {1 + Cardinality({v \in S \ {w} : <<v, w>> \in R}) : w \in S} = 1..Cardinality(S)
<1> DEFINE above(w) == {v \in S \ {w} : <<v, w>> \in R}
           n == Cardinality(S)
           rank == [w \in S |-> 1 + Cardinality(above(w))]
<1>1. \A w \in S : /\ IsFiniteSet(above(w)) /\ Cardinality(above(w)) \in Nat
                   /\ Cardinality(above(w)) < n
    <2> TAKE w \in S
    <2>1. above(w) \in SUBSET S /\ above(w) # S
        OBVIOUS
    <2> HIDE DEF above
    <2>2. /\ IsFiniteSet(above(w)) /\ Cardinality(above(w)) <= n
          /\ Cardinality(above(w)) # n
        BY <2>1, FS_Subset
    <2> QED BY <2>2, FS_CardinalityType
<1>2. n \in Nat
    BY FS_CardinalityType
<1>3. \A v, w \in S : <<v, w>> \in R => Cardinality(above(v)) < Cardinality(above(w))
    <2> TAKE v, w \in S
    <2> HAVE <<v, w>> \in R
    <2>1. above(v) \subseteq above(w) /\ v \in above(w) /\ v \notin above(v)
        BY DEF StrictOrderOn
    <2>2. above(v) \in SUBSET above(w) /\ above(v) # above(w)
        BY <2>1
    <2> HIDE DEF above
    <2>3. /\ Cardinality(above(v)) <= Cardinality(above(w))
          /\ Cardinality(above(v)) # Cardinality(above(w))
        BY <1>1, <2>2, FS_Subset
    <2> QED BY <1>1, <2>3
<1>4. rank \in Injection(S, 1..n)
    <2>1. \A w \in S : rank[w] \in 1..n
        <3> TAKE w \in S
        <3>1. rank[w] = 1 + Cardinality(above(w))
            OBVIOUS
        <3> HIDE DEF rank, above
        <3> QED BY <1>1, <1>2, <3>1
    <2>2. \A v, w \in S : rank[v] = rank[w] => v = w
        <3> TAKE v, w \in S
        <3>1. rank[v] = 1 + Cardinality(above(v)) /\ rank[w] = 1 + Cardinality(above(w))
            OBVIOUS
        <3> HIDE DEF rank, above
        <3>2. v # w => \/ Cardinality(above(v)) < Cardinality(above(w))
                       \/ Cardinality(above(w)) < Cardinality(above(v))
            BY <1>3
        <3>3. Cardinality(above(v)) \in Nat /\ Cardinality(above(w)) \in Nat
            BY <1>1
        <3> QED BY <3>1, <3>2, <3>3
    <2> QED BY <2>1, <2>2 DEF Injection, IsInjective
<1>5. IsFiniteSet(1..n) /\ Cardinality(1..n) = n
    BY <1>2, FS_Interval
<1> HIDE DEF rank
<1>6. rank \in Surjection(S, 1..n)
    BY <1>4, <1>5, FS_Injection
<1>7. \A k \in 1..n : \E w \in S : k = rank[w]
    BY <1>6 DEF Surjection
<1>8. \A w \in S : rank[w] \in 1..n
    BY <1>4 DEF Injection
<1>9. {rank[w] : w \in S} = 1..n
    BY <1>7, <1>8
<1> QED BY <1>9 DEF rank

-----------------------------------------------------------------------------
(***************************************************************************)
(* Standings, for any battles and byes of the members.                     *)
(***************************************************************************)
Sound(F, B) ==
    /\ IsFiniteSet(F) /\ IsFiniteSet(B)
    /\ \A f \in F : f.a \in Members /\ f.b \in Members /\ f.a # f.b /\ f.margin \in Int
    /\ \A y \in B : y.wallet \in Members

LEMMA SumFunctionIsSum ==
    ASSUME NEW v
    PROVE  SumFunction(v) = SumOver(v, DOMAIN v)
BY DEF SumFunction, SumOver

LEMMA PointsAsSum ==
    ASSUME NEW F, NEW B, NEW w
    PROVE  LeaguePoints(F, B, w) = SumOver([f \in F |-> PointsFrom(w, f)], F)
                                       + 3 * Cardinality({y \in B : y.wallet = w})
<1> DEFINE v == [f \in F |-> PointsFrom(w, f)]
<1>1. DOMAIN v = F
    OBVIOUS
<1>2. LeaguePoints(F, B, w) = SumFunction(v) + 3 * Cardinality({y \in B : y.wallet = w})
    BY DEF LeaguePoints
<1> HIDE DEF v
<1>3. SumFunction(v) = SumOver(v, F)
    BY <1>1, SumFunctionIsSum
<1> QED BY <1>2, <1>3 DEF v

LEMMA PointsAreNatural ==
    ASSUME NEW F, NEW B, IsFiniteSet(F), IsFiniteSet(B), NEW w
    PROVE  LeaguePoints(F, B, w) \in Nat
<1> DEFINE v == [f \in F |-> PointsFrom(w, f)]
           had == {y \in B : y.wallet = w}
<1>1. \A f \in F : v[f] \in Int /\ v[f] >= 0
    BY DEF PointsFrom
<1>2. IsFiniteSet(had) /\ Cardinality(had) \in Nat
    BY FS_Subset, FS_CardinalityType
<1>3. LeaguePoints(F, B, w) = SumOver(v, F) + 3 * Cardinality(had)
    BY PointsAsSum
<1> HIDE DEF v, had
<1>4. SumOver(v, F) \in Int /\ SumOver(v, F) >= 0
    BY <1>1, SumIsInteger
<1> QED BY <1>2, <1>3, <1>4

Decided(F) == {f \in F : \E w \in {f.a, f.b} : WinsOf(w, f)}

Drawn(F) == {f \in F : f.result = "DRAW"}

\* A battle gives three points to the winner, or one to each of the two.
LEMMA PointsOfBattle ==
    ASSUME NEW f, f.a \in Members, f.b \in Members, f.a # f.b
    PROVE  SumOver([w \in Members |-> PointsFrom(w, f)], Members)
               = (IF f \in Decided({f}) THEN 3 ELSE 0) + (IF f \in Drawn({f}) THEN 2 ELSE 0)
<1> DEFINE v == [w \in Members |-> PointsFrom(w, f)]
<1>1. \A w \in Members \ {f.a, f.b} : v[w] = 0
    BY DEF PointsFrom, WinsOf, Plays
<1>2. v[f.a] = PointsFrom(f.a, f) /\ v[f.b] = PointsFrom(f.b, f)
    OBVIOUS
<1> HIDE DEF v
<1>3. v[f.a] \in Int /\ v[f.b] \in Int
    BY <1>2 DEF PointsFrom
<1>4. SumOver(v, Members) = v[f.a] + v[f.b]
    BY <1>1, <1>3, MembersAssumption, SumOfTwo
<1>5. v[f.a] + v[f.b] = (IF f \in Decided({f}) THEN 3 ELSE 0) + (IF f \in Drawn({f}) THEN 2 ELSE 0)
    <2>1. f \in Decided({f}) <=> WinsOf(f.a, f) \/ WinsOf(f.b, f)
        BY DEF Decided
    <2>2. f \in Drawn({f}) <=> f.result = "DRAW"
        BY DEF Drawn
    <2>3. CASE f.result = "DRAW"
        <3>1. ~ WinsOf(f.a, f) /\ ~ WinsOf(f.b, f) /\ Plays(f.a, f) /\ Plays(f.b, f)
            BY <2>3 DEF WinsOf, Plays
        <3>2. v[f.a] = 1 /\ v[f.b] = 1
            BY <1>2, <2>3, <3>1 DEF PointsFrom
        <3> QED BY <2>1, <2>2, <2>3, <3>1, <3>2
    <2>4. CASE f.result # "DRAW" /\ WinsOf(f.a, f)
        <3>1. ~ WinsOf(f.b, f)
            BY <2>4 DEF WinsOf
        <3>2. v[f.a] = 3 /\ v[f.b] = 0
            BY <1>2, <2>4, <3>1 DEF PointsFrom
        <3> QED BY <2>1, <2>2, <2>4, <3>2
    <2>5. CASE f.result # "DRAW" /\ ~ WinsOf(f.a, f)
        <3>1. v[f.a] = 0 /\ v[f.b] = IF WinsOf(f.b, f) THEN 3 ELSE 0
            BY <1>2, <2>5 DEF PointsFrom
        <3> QED BY <2>1, <2>2, <2>5, <3>1
    <2> QED BY <2>3, <2>4, <2>5
<1> QED BY <1>4, <1>5 DEF v

LEMMA PointsOfBattles ==
    ASSUME NEW F, NEW B, Sound(F, B)
    PROVE  SumOver([w \in Members |-> SumOver([f \in F |-> PointsFrom(w, f)], F)], Members)
               = 3 * Cardinality(Decided(F)) + 2 * Cardinality(Drawn(F))
<1> DEFINE v(w) == [f \in F |-> PointsFrom(w, f)]
           W(G) == [w \in Members |-> SumOver(v(w), G)]
           good == {G \in SUBSET F : SumOver(W(G), Members)
                        = 3 * Cardinality(Decided(G)) + 2 * Cardinality(Drawn(G))}
<1>9. IsFiniteSet(Members)
    BY MembersAssumption
<1>0. \A G \in SUBSET F : /\ IsFiniteSet(G)
                          /\ IsFiniteSet(Decided(G)) /\ Cardinality(Decided(G)) \in Nat
                          /\ IsFiniteSet(Drawn(G)) /\ Cardinality(Drawn(G)) \in Nat
    <2> TAKE G \in SUBSET F
    <2>1. Decided(G) \in SUBSET F /\ Drawn(G) \in SUBSET F
        BY DEF Decided, Drawn
    <2> QED BY <2>1, FS_Subset, FS_CardinalityType DEF Sound
<1>1. {} \in good
    <2>1. \A w \in Members : W({})[w] = 0
        BY SumOverNothing
    <2>2. Decided({}) = {} /\ Drawn({}) = {}
        BY DEF Decided, Drawn
    <2> HIDE DEF W
    <2>3. SumOver(W({}), Members) = 0
        BY <2>1, <1>9, SumOfZeros
    <2> QED BY <2>2, <2>3, FS_EmptySet
<1>2. ASSUME NEW G \in SUBSET F, NEW f \in F \ G, G \in good
      PROVE  G \union {f} \in good
    <2> DEFINE each == [w \in Members |-> PointsFrom(w, f)]
               less == W(G)
               more == W(G \union {f})
    <2>1. \A w \in Members : less[w] \in Int /\ each[w] \in Int /\ more[w] = less[w] + each[w]
        <3> TAKE w \in Members
        <3>1. \A g \in F : v(w)[g] \in Int
            BY DEF PointsFrom
        <3>2. v(w)[f] = each[w] /\ each[w] \in Int
            BY DEF PointsFrom
        <3>3. less[w] = SumOver(v(w), G) /\ more[w] = SumOver(v(w), G \union {f})
            OBVIOUS
        <3>4. IsFiniteSet(G) /\ f \notin G /\ \A g \in G \union {f} : v(w)[g] \in Int
            BY <1>0, <3>1
        <3> HIDE DEF v, each, less, more
        <3>5. SumOver(v(w), G \union {f}) = v(w)[f] + SumOver(v(w), G)
            BY <3>4, SumOverOneMore
        <3>6. SumOver(v(w), G) \in Int
            BY <3>4, SumIsInteger
        <3> QED BY <3>2, <3>3, <3>5, <3>6
    <2>2. SumOver(each, Members) = (IF f \in Decided({f}) THEN 3 ELSE 0)
                                       + (IF f \in Drawn({f}) THEN 2 ELSE 0)
        BY PointsOfBattle DEF Sound
    <2>3. SumOver(less, Members) = 3 * Cardinality(Decided(G)) + 2 * Cardinality(Drawn(G))
        BY <1>2
    <2> HIDE DEF each, less, more
    <2>4. SumOver(more, Members) = SumOver(less, Members) + SumOver(each, Members)
        BY <2>1, <1>9, SumOfSums
    <2>5. Cardinality(Decided(G \union {f}))
              = Cardinality(Decided(G)) + IF f \in Decided({f}) THEN 1 ELSE 0
        <3>1. Decided(G \union {f}) = IF f \in Decided({f}) THEN Decided(G) \union {f} ELSE Decided(G)
            BY DEF Decided
        <3>2. f \notin Decided(G)
            BY DEF Decided
        <3> QED BY <1>0, <3>1, <3>2, FS_AddElement
    <2>6. Cardinality(Drawn(G \union {f}))
              = Cardinality(Drawn(G)) + IF f \in Drawn({f}) THEN 1 ELSE 0
        <3>1. Drawn(G \union {f}) = IF f \in Drawn({f}) THEN Drawn(G) \union {f} ELSE Drawn(G)
            BY DEF Drawn
        <3>2. f \notin Drawn(G)
            BY DEF Drawn
        <3> QED BY <1>0, <3>1, <3>2, FS_AddElement
    <2>7. SumOver(more, Members) = 3 * Cardinality(Decided(G \union {f}))
                                       + 2 * Cardinality(Drawn(G \union {f}))
        <3>1. Cardinality(Decided(G)) \in Nat /\ Cardinality(Drawn(G)) \in Nat
            BY <1>0
        <3> HIDE DEF good
        <3> QED BY <2>2, <2>3, <2>4, <2>5, <2>6, <3>1
    <2> QED BY <2>7 DEF more
<1> HIDE DEF good
<1>3. F \in good
    BY <1>1, <1>2, SubsetInduction DEF Sound
<1> QED BY <1>3 DEF good

LEMMA PointsOfByes ==
    ASSUME NEW F, NEW B, Sound(F, B)
    PROVE  SumOver([w \in Members |-> 3 * Cardinality({y \in B : y.wallet = w})], Members)
               = 3 * Cardinality(B)
<1> DEFINE had(T, w) == {y \in T : y.wallet = w}
           C(T) == [w \in Members |-> 3 * Cardinality(had(T, w))]
           good == {T \in SUBSET B : SumOver(C(T), Members) = 3 * Cardinality(T)}
<1>9. IsFiniteSet(Members)
    BY MembersAssumption
<1>0. \A T \in SUBSET B : \A w : /\ IsFiniteSet(T) /\ Cardinality(T) \in Nat
                                 /\ IsFiniteSet(had(T, w)) /\ Cardinality(had(T, w)) \in Nat
    <2> TAKE T \in SUBSET B
    <2> TAKE w
    <2>1. had(T, w) \in SUBSET B
        OBVIOUS
    <2> HIDE DEF had
    <2> QED BY <2>1, FS_Subset, FS_CardinalityType DEF Sound
<1>1. {} \in good
    <2>1. \A w \in Members : C({})[w] = 0
        <3> TAKE w \in Members
        <3>1. had({}, w) = {}
            OBVIOUS
        <3> QED BY <3>1, FS_EmptySet
    <2> HIDE DEF C
    <2>2. SumOver(C({}), Members) = 0
        BY <2>1, <1>9, SumOfZeros
    <2> QED BY <2>2, FS_EmptySet
<1>2. ASSUME NEW T \in SUBSET B, NEW y \in B \ T, T \in good
      PROVE  T \union {y} \in good
    <2> DEFINE part == [w \in Members |-> IF w = y.wallet THEN 3 ELSE 0]
               less == C(T)
               more == C(T \union {y})
    <2>1. \A w \in Members : less[w] \in Int /\ part[w] \in Int /\ more[w] = less[w] + part[w]
        <3> TAKE w \in Members
        <3>1. less[w] = 3 * Cardinality(had(T, w)) /\ more[w] = 3 * Cardinality(had(T \union {y}, w))
            OBVIOUS
        <3>2. had(T \union {y}, w) = IF w = y.wallet THEN had(T, w) \union {y} ELSE had(T, w)
            OBVIOUS
        <3>3. y \notin had(T, w)
            OBVIOUS
        <3>4. part[w] = IF w = y.wallet THEN 3 ELSE 0
            OBVIOUS
        <3> HIDE DEF had, part, less, more
        <3>5. Cardinality(had(T \union {y}, w)) =
                  IF w = y.wallet THEN Cardinality(had(T, w)) + 1 ELSE Cardinality(had(T, w))
            BY <1>0, <3>2, <3>3, FS_AddElement
        <3>6. Cardinality(had(T, w)) \in Nat
            BY <1>0
        <3> QED BY <3>1, <3>4, <3>5, <3>6
    <2>2. SumOver(part, Members) = 3
        <3>1. y.wallet \in Members
            BY DEF Sound
        <3>2. part[y.wallet] = 3 /\ \A w \in Members \ {y.wallet} : part[w] = 0
            BY <3>1
        <3> HIDE DEF part
        <3> QED BY <3>1, <3>2, <1>9, SumOfOne
    <2>3. SumOver(less, Members) = 3 * Cardinality(T)
        BY <1>2
    <2> HIDE DEF part, less, more
    <2>4. SumOver(more, Members) = SumOver(less, Members) + SumOver(part, Members)
        BY <2>1, <1>9, SumOfSums
    <2>5. Cardinality(T \union {y}) = Cardinality(T) + 1 /\ Cardinality(T) \in Nat
        BY <1>0, FS_AddElement
    <2>6. SumOver(more, Members) = 3 * Cardinality(T \union {y})
        <3> HIDE DEF good
        <3> QED BY <2>2, <2>3, <2>4, <2>5
    <2> QED BY <2>6 DEF more
<1> HIDE DEF good
<1>3. B \in good
    BY <1>1, <1>2, SubsetInduction DEF Sound
<1> QED BY <1>3 DEF good

LEMMA PointsOfAll ==
    ASSUME NEW F, NEW B, Sound(F, B)
    PROVE  SumFunction([w \in Members |-> LeaguePoints(F, B, w)])
               = 3 * Cardinality(Decided(F)) + 2 * Cardinality(Drawn(F)) + 3 * Cardinality(B)
<1> DEFINE p == [w \in Members |-> LeaguePoints(F, B, w)]
           won == [w \in Members |-> SumOver([f \in F |-> PointsFrom(w, f)], F)]
           had == [w \in Members |-> 3 * Cardinality({y \in B : y.wallet = w})]
<1>9. IsFiniteSet(Members)
    BY MembersAssumption
<1>1. SumFunction(p) = SumOver(p, Members)
    BY SumFunctionIsSum
<1>2. \A w \in Members : won[w] \in Int /\ had[w] \in Int /\ p[w] = won[w] + had[w]
    <2> TAKE w \in Members
    <2> DEFINE v == [f \in F |-> PointsFrom(w, f)]
               mine == {y \in B : y.wallet = w}
    <2>1. \A f \in F : v[f] \in Int
        BY DEF PointsFrom
    <2>2. Cardinality(mine) \in Nat
        BY FS_Subset, FS_CardinalityType DEF Sound
    <2>3. SumOver(v, F) \in Int
        <3> HIDE DEF v
        <3> QED BY <2>1, SumIsInteger DEF Sound
    <2>4. p[w] = SumOver(v, F) + 3 * Cardinality(mine)
        BY PointsAsSum
    <2>5. won[w] = SumOver(v, F) /\ had[w] = 3 * Cardinality(mine)
        OBVIOUS
    <2> HIDE DEF p, won, had, v, mine
    <2> QED BY <2>2, <2>3, <2>4, <2>5
<1>3. SumOver(won, Members) = 3 * Cardinality(Decided(F)) + 2 * Cardinality(Drawn(F))
    BY PointsOfBattles
<1>4. SumOver(had, Members) = 3 * Cardinality(B)
    BY PointsOfByes
<1> HIDE DEF p, won, had
<1>5. SumOver(p, Members) = SumOver(won, Members) + SumOver(had, Members)
    BY <1>2, <1>9, SumOfSums, Z3
<1> QED BY <1>1, <1>3, <1>4, <1>5 DEF p

(***************************************************************************)
(* No margin is won that another member did not lose.                      *)
(***************************************************************************)
LEMMA MarginAsSum ==
    ASSUME NEW F, NEW B, Sound(F, B), NEW w
    PROVE  LET c == [f \in F |-> Clamp(f.margin)]
           IN  CumulativeMargin(F, w)
                   = SumOver(c, {g \in F : g.a = w}) - SumOver(c, {g \in F : g.b = w})
<1> DEFINE c == [f \in F |-> Clamp(f.margin)]
           A == {g \in F : g.a = w}
           E == {g \in F : g.b = w}
           c1 == [f \in A |-> Clamp(f.margin)]
           c2 == [f \in E |-> Clamp(f.margin)]
<1>1. IsFiniteSet(A) /\ IsFiniteSet(E)
    BY FS_Subset DEF Sound
<1>2. (\A f \in A : c1[f] = c[f]) /\ (\A f \in E : c2[f] = c[f])
    OBVIOUS
<1>3. DOMAIN c1 = A /\ DOMAIN c2 = E
    OBVIOUS
<1>4. CumulativeMargin(F, w) = SumFunction(c1) - SumFunction(c2)
    BY DEF CumulativeMargin
<1> HIDE DEF c, A, E, c1, c2
<1>5. SumFunction(c1) = SumOver(c1, A) /\ SumFunction(c2) = SumOver(c2, E)
    BY <1>3, SumFunctionIsSum
<1>6. SumOver(c1, A) = SumOver(c, A) /\ SumOver(c2, E) = SumOver(c, E)
    BY <1>1, <1>2, SumOverAgrees
<1>7. CumulativeMargin(F, w) = SumOver(c, A) - SumOver(c, E)
    BY <1>4, <1>5, <1>6
<1> QED BY <1>7 DEF c, A, E

LEMMA ClampIsInteger ==
    ASSUME NEW x \in Int
    PROVE  Clamp(x) \in Int
BY MarginAssumption DEF Clamp

LEMMA MarginsOfAll ==
    ASSUME NEW F, NEW B, Sound(F, B)
    PROVE  SumFunction([w \in Members |-> CumulativeMargin(F, w)]) = 0
<1> DEFINE c == [f \in F |-> Clamp(f.margin)]
           asA(G, w) == {g \in G : g.a = w}
           asB(G, w) == {g \in G : g.b = w}
           D(G) == [w \in Members |-> SumOver(c, asA(G, w)) - SumOver(c, asB(G, w))]
           good == {G \in SUBSET F : SumOver(D(G), Members) = 0}
           m == [w \in Members |-> CumulativeMargin(F, w)]
<1>1. IsFiniteSet(Members)
    BY MembersAssumption
<1>2. \A f \in F : c[f] \in Int
    BY ClampIsInteger DEF Sound
<1>3. \A G \in SUBSET F : \A w : /\ IsFiniteSet(asA(G, w)) /\ IsFiniteSet(asB(G, w))
                                 /\ SumOver(c, asA(G, w)) \in Int /\ SumOver(c, asB(G, w)) \in Int
    <2> TAKE G \in SUBSET F
    <2> TAKE w
    <2>1. asA(G, w) \in SUBSET F /\ asB(G, w) \in SUBSET F
        OBVIOUS
    <2> HIDE DEF asA, asB, c
    <2>2. IsFiniteSet(asA(G, w)) /\ IsFiniteSet(asB(G, w))
        BY <2>1, FS_Subset DEF Sound
    <2>3. (\A f \in asA(G, w) : c[f] \in Int) /\ (\A f \in asB(G, w) : c[f] \in Int)
        BY <1>2, <2>1
    <2> QED BY <2>2, <2>3, SumIsInteger
<1>4. {} \in good
    <2>1. \A w \in Members : D({})[w] = 0
        <3> TAKE w \in Members
        <3>1. asA({}, w) = {} /\ asB({}, w) = {}
            OBVIOUS
        <3>2. D({})[w] = SumOver(c, asA({}, w)) - SumOver(c, asB({}, w))
            OBVIOUS
        <3> HIDE DEF D, c, asA, asB
        <3> QED BY <3>1, <3>2, SumOverNothing
    <2> HIDE DEF D
    <2>2. SumOver(D({}), Members) = 0
        BY <1>1, <2>1, SumOfZeros
    <2> QED BY <2>2
<1>5. ASSUME NEW G \in SUBSET F, NEW f \in F \ G, G \in good
      PROVE  G \union {f} \in good
    <2> DEFINE part == [w \in Members |-> IF w = f.a THEN c[f] ELSE IF w = f.b THEN - c[f] ELSE 0]
               less == D(G)
               more == D(G \union {f})
    <2>1. \A w \in Members : less[w] \in Int /\ part[w] \in Int /\ more[w] = less[w] + part[w]
        <3> TAKE w \in Members
        <3>1. /\ less[w] = SumOver(c, asA(G, w)) - SumOver(c, asB(G, w))
              /\ more[w] = SumOver(c, asA(G \union {f}, w)) - SumOver(c, asB(G \union {f}, w))
            OBVIOUS
        <3>2. /\ asA(G \union {f}, w) = IF w = f.a THEN asA(G, w) \union {f} ELSE asA(G, w)
              /\ asB(G \union {f}, w) = IF w = f.b THEN asB(G, w) \union {f} ELSE asB(G, w)
            OBVIOUS
        <3>3. /\ f \notin asA(G, w) /\ \A g \in asA(G, w) \union {f} : c[g] \in Int
              /\ f \notin asB(G, w) /\ \A g \in asB(G, w) \union {f} : c[g] \in Int
            BY <1>2
        <3>4. part[w] = IF w = f.a THEN c[f] ELSE IF w = f.b THEN - c[f] ELSE 0
            OBVIOUS
        <3>5. f.a # f.b /\ c[f] \in Int
            BY <1>2 DEF Sound
        <3> HIDE DEF asA, asB, c, less, more, part
        <3>6. /\ SumOver(c, asA(G, w) \union {f}) = c[f] + SumOver(c, asA(G, w))
              /\ SumOver(c, asB(G, w) \union {f}) = c[f] + SumOver(c, asB(G, w))
            BY <1>3, <3>3, SumOverOneMore
        <3>7. SumOver(c, asA(G, w)) \in Int /\ SumOver(c, asB(G, w)) \in Int
            BY <1>3
        <3>8. /\ SumOver(c, asA(G \union {f}, w)) =
                     IF w = f.a THEN c[f] + SumOver(c, asA(G, w)) ELSE SumOver(c, asA(G, w))
              /\ SumOver(c, asB(G \union {f}, w)) =
                     IF w = f.b THEN c[f] + SumOver(c, asB(G, w)) ELSE SumOver(c, asB(G, w))
            BY <3>2, <3>6
        <3> QED BY <3>1, <3>4, <3>5, <3>7, <3>8
    <2>2. SumOver(part, Members) = 0
        <3>1. f.a \in Members /\ f.b \in Members /\ f.a # f.b /\ c[f] \in Int
            BY <1>2 DEF Sound
        <3> HIDE DEF c
        <3>2. /\ part[f.a] = c[f] /\ part[f.b] = - c[f]
              /\ \A w \in Members \ {f.a, f.b} : part[w] = 0
            BY <3>1
        <3> HIDE DEF part
        <3>3. part[f.a] \in Int /\ part[f.b] \in Int
            BY <3>1, <3>2
        <3>4. SumOver(part, Members) = part[f.a] + part[f.b]
            BY <1>1, <3>1, <3>2, <3>3, SumOfTwo
        <3> QED BY <3>1, <3>2, <3>4
    <2>3. SumOver(less, Members) = 0
        BY <1>5
    <2> HIDE DEF part, less, more
    <2>4. SumOver(more, Members) = SumOver(less, Members) + SumOver(part, Members)
        BY <1>1, <2>1, SumOfSums
    <2>5. SumOver(more, Members) = 0
        <3> HIDE DEF good
        <3> QED BY <2>2, <2>3, <2>4
    <2> QED BY <2>5 DEF more
<1>6. F \in good
    <2> HIDE DEF good
    <2> QED BY <1>4, <1>5, SubsetInduction DEF Sound
<1>7. \A w \in Members : m[w] = D(F)[w]
    BY MarginAsSum
<1>8. DOMAIN m = Members
    OBVIOUS
<1>9. SumOver(D(F), Members) = 0
    BY <1>6
<1> HIDE DEF m, D, good
<1>10. SumOver(m, Members) = 0
    BY <1>1, <1>7, <1>9, SumOverAgrees
<1>11. SumFunction(m) = 0
    BY <1>8, <1>10, SumFunctionIsSum
<1> QED BY <1>11 DEF m

(***************************************************************************)
(* Who has met whom is the same seen from both sides, so that the points   *)
(* of all opponents are the points of all members, each as often as the    *)
(* member has opponents.                                                   *)
(***************************************************************************)
LEMMA OpponentsAreMutual ==
    ASSUME NEW F, NEW B, Sound(F, B), NEW v \in Members, NEW w \in Members
    PROVE  (v \in Opponents(F, w) <=> w \in Opponents(F, v)) /\ Opponents(F, w) \subseteq Members
<1>1. \A x, y \in Members : x \in Opponents(F, y) <=>
          \E f \in F : f.result # "VOIDED" /\ {f.a, f.b} = {x, y}
    <2> TAKE x, y \in Members
    <2>1. ASSUME x \in Opponents(F, y)
          PROVE  \E f \in F : f.result # "VOIDED" /\ {f.a, f.b} = {x, y}
        <3>1. PICK f \in F : /\ y \in {f.a, f.b} /\ f.result # "VOIDED"
                             /\ x = IF f.a = y THEN f.b ELSE f.a
            BY <2>1 DEF Opponents, Plays
        <3> QED BY <3>1
    <2>2. ASSUME NEW f \in F, f.result # "VOIDED", {f.a, f.b} = {x, y}
          PROVE  x \in Opponents(F, y)
        <3>1. f.a # f.b
            BY DEF Sound
        <3>2. y \in {f.a, f.b} /\ x = IF f.a = y THEN f.b ELSE f.a
            BY <2>2, <3>1
        <3> QED BY <2>2, <3>2 DEF Opponents, Plays
    <2> QED BY <2>1, <2>2
<1>2. Opponents(F, w) \subseteq Members
    BY DEF Opponents, Sound
<1>3. {v, w} = {w, v}
    OBVIOUS
<1> QED BY <1>1, <1>2, <1>3

LEMMA OpponentsOfAll ==
    ASSUME NEW F, NEW B, Sound(F, B)
    PROVE  SumFunction([w \in Members |-> BuchholzSos(F, B, w)])
               = SumFunction([w \in Members |-> LeaguePoints(F, B, w)
                                                    * Cardinality(Opponents(F, w))])
<1> DEFINE p == [w \in Members |-> LeaguePoints(F, B, w)]
           N == [w \in Members |-> Opponents(F, w)]
           sos == [w \in Members |-> BuchholzSos(F, B, w)]
           by == [w \in Members |-> LeaguePoints(F, B, w) * Cardinality(Opponents(F, w))]
           L == [x \in Members |-> SumOver(p, N[x])]
           R == [y \in Members |-> p[y] * Cardinality({x \in Members : y \in N[x]})]
<1>1. IsFiniteSet(Members)
    BY MembersAssumption
<1>2. \A w \in Members : p[w] \in Int
    BY PointsAreNatural DEF Sound
<1>3. \A w \in Members : N[w] \subseteq Members
    BY OpponentsAreMutual
<1>4. SumOver(L, Members) = SumOver(R, Members)
    <2> HIDE DEF p, N
    <2> QED BY <1>1, <1>2, <1>3, DoubleCounting
<1>5. \A w \in Members : sos[w] = L[w]
    <2> TAKE w \in Members
    <2> DEFINE q == [v \in Opponents(F, w) |-> LeaguePoints(F, B, v)]
    <2>1. sos[w] = SumFunction(q)
        BY DEF BuchholzSos
    <2>2. DOMAIN q = Opponents(F, w) /\ N[w] = Opponents(F, w)
        OBVIOUS
    <2>3. \A v \in N[w] : q[v] = p[v]
        BY <1>3
    <2>4. IsFiniteSet(N[w])
        BY <1>1, <1>3, FS_Subset
    <2>5. L[w] = SumOver(p, N[w])
        OBVIOUS
    <2> HIDE DEF q, p, N, sos, L
    <2>6. SumFunction(q) = SumOver(q, N[w])
        BY <2>2, SumFunctionIsSum
    <2>7. SumOver(q, N[w]) = SumOver(p, N[w])
        BY <2>3, <2>4, SumOverAgrees
    <2> QED BY <2>1, <2>5, <2>6, <2>7
<1>6. \A w \in Members : by[w] = R[w]
    <2> TAKE w \in Members
    <2>1. {x \in Members : w \in N[x]} = Opponents(F, w)
        BY OpponentsAreMutual
    <2> QED BY <2>1
<1>7. DOMAIN sos = Members /\ DOMAIN by = Members
    OBVIOUS
<1> HIDE DEF sos, by, L, R
<1>8. SumFunction(sos) = SumOver(sos, Members) /\ SumFunction(by) = SumOver(by, Members)
    BY <1>7, SumFunctionIsSum
<1>9. SumOver(sos, Members) = SumOver(L, Members)
    BY <1>1, <1>5, SumOverAgrees
<1>10. SumOver(by, Members) = SumOver(R, Members)
    BY <1>1, <1>6, SumOverAgrees
<1>11. SumFunction(sos) = SumFunction(by)
    BY <1>4, <1>8, <1>9, <1>10
<1> QED BY <1>11 DEF sos, by

(***************************************************************************)
(* The standings order the members: of two different ones exactly one is   *)
(* above the other. So the ranks have no gaps and no ties.                 *)
(***************************************************************************)
LEMMA ScoresAreIntegers ==
    ASSUME NEW F, NEW B, Sound(F, B), NEW w \in Members
    PROVE  /\ LeaguePoints(F, B, w) \in Int
           /\ BuchholzSos(F, B, w) \in Int
           /\ \A group : HeadToHead(F, group, w) \in Int
           /\ CumulativeMargin(F, w) \in Int
<1>1. LeaguePoints(F, B, w) \in Int
    BY PointsAreNatural DEF Sound
<1>2. BuchholzSos(F, B, w) \in Int
    <2> DEFINE q == [v \in Opponents(F, w) |-> LeaguePoints(F, B, v)]
    <2>1. BuchholzSos(F, B, w) = SumFunction(q)
        BY DEF BuchholzSos
    <2>2. DOMAIN q = Opponents(F, w) /\ IsFiniteSet(Opponents(F, w))
        <3>1. Opponents(F, w) \in SUBSET Members /\ IsFiniteSet(Members)
            BY OpponentsAreMutual, MembersAssumption
        <3> QED BY <3>1, FS_Subset
    <2>3. \A v \in Opponents(F, w) : q[v] \in Int
        BY PointsAreNatural DEF Sound
    <2> HIDE DEF q
    <2> QED BY <2>1, <2>2, <2>3, SumFunctionIsSum, SumIsInteger
<1>3. ASSUME NEW group PROVE HeadToHead(F, group, w) \in Int
    <2> DEFINE G == {g \in F : Plays(w, g) /\ {g.a, g.b} \subseteq group}
               q == [f \in G |-> PointsFrom(w, f)]
    <2>1. HeadToHead(F, group, w) = SumFunction(q)
        BY DEF HeadToHead
    <2>2. DOMAIN q = G /\ IsFiniteSet(G)
        BY FS_Subset DEF Sound
    <2>3. \A f \in G : q[f] \in Int
        BY DEF PointsFrom
    <2> HIDE DEF q, G
    <2> QED BY <2>1, <2>2, <2>3, SumFunctionIsSum, SumIsInteger
<1>4. CumulativeMargin(F, w) \in Int
    <2> DEFINE c == [f \in F |-> Clamp(f.margin)]
               A == {g \in F : g.a = w}
               E == {g \in F : g.b = w}
    <2>1. CumulativeMargin(F, w) = SumOver(c, A) - SumOver(c, E)
        BY MarginAsSum
    <2>2. IsFiniteSet(A) /\ IsFiniteSet(E)
        BY FS_Subset DEF Sound
    <2>3. (\A f \in A : c[f] \in Int) /\ (\A f \in E : c[f] \in Int)
        BY ClampIsInteger DEF Sound
    <2> HIDE DEF c, A, E
    <2>4. SumOver(c, A) \in Int /\ SumOver(c, E) \in Int
        BY <2>2, <2>3, SumIsInteger
    <2> QED BY <2>1, <2>4
<1> QED BY <1>1, <1>2, <1>3, <1>4

LEMMA RanksOfAll ==
    ASSUME NEW F, NEW B, Sound(F, B), NEW key \in [Members -> Int], IsInjective(key)
    PROVE  {Rank(F, B, key, w) : w \in Members} = 1..Cardinality(Members)
<1> DEFINE points(x) == LeaguePoints(F, B, x)
           sos(x) == BuchholzSos(F, B, x)
           group(x) == TieGroup(F, B, x)
           own(x) == HeadToHead(F, group(x), x)
           margin(x) == CumulativeMargin(F, x)
           before(v, w) ==
               \/ points(v) > points(w)
               \/ points(v) = points(w) /\ sos(v) > sos(w)
               \/ /\ points(v) = points(w) /\ sos(v) = sos(w)
                  /\ \/ own(v) > own(w)
                     \/ own(v) = own(w) /\ margin(v) > margin(w)
                     \/ own(v) = own(w) /\ margin(v) = margin(w) /\ key[v] < key[w]
           R == {vw \in Members \X Members : before(vw[1], vw[2])}
<1>1. \A x \in Members : /\ points(x) \in Int /\ sos(x) \in Int /\ own(x) \in Int
                         /\ margin(x) \in Int /\ key[x] \in Int
    BY ScoresAreIntegers
<1>2. \A v, w \in Members : v # w => key[v] # key[w]
    BY DEF IsInjective
<1>3. \A v, w \in Members : points(v) = points(w) /\ sos(v) = sos(w) => group(v) = group(w)
    BY DEF TieGroup
<1>4. \A v, w \in Members : Above(F, B, key, v, w) <=> before(v, w)
    <2> TAKE v, w \in Members
    <2>1. CASE points(v) = points(w) /\ sos(v) = sos(w)
        <3>1. HeadToHead(F, group(v), v) = own(v) /\ HeadToHead(F, group(v), w) = own(w)
            BY <1>3, <2>1
        <3> QED BY <2>1, <3>1 DEF Above
    <2>2. CASE ~ (points(v) = points(w) /\ sos(v) = sos(w))
        BY <2>2 DEF Above
    <2> QED BY <2>1, <2>2
<1>5. \A v, w \in Members : <<v, w>> \in R <=> before(v, w)
    <2> TAKE v, w \in Members
    <2>1. <<v, w>> \in Members \X Members /\ <<v, w>>[1] = v /\ <<v, w>>[2] = w
        OBVIOUS
    <2> HIDE DEF before
    <2> QED BY <2>1
<1> HIDE DEF points, sos, own, margin, group, R
<1>6. /\ \A v \in Members : ~ before(v, v)
      /\ \A u, v, w \in Members : before(u, v) /\ before(v, w) => before(u, w)
      /\ \A v, w \in Members : v # w => before(v, w) \/ before(w, v)
    <2>1. \A v \in Members : ~ before(v, v)
        BY <1>1
    <2>2. \A u, v, w \in Members : before(u, v) /\ before(v, w) => before(u, w)
        BY <1>1
    <2>3. \A v, w \in Members : v # w => before(v, w) \/ before(w, v)
        BY <1>1, <1>2
    <2> QED BY <2>1, <2>2, <2>3
<1> HIDE DEF before
<1>7. StrictOrderOn(R, Members)
    BY <1>5, <1>6 DEF StrictOrderOn
<1>8. IsFiniteSet(Members)
    BY MembersAssumption
<1>9. {1 + Cardinality({v \in Members \ {w} : <<v, w>> \in R}) : w \in Members}
          = 1..Cardinality(Members)
    <2>1. \A v, w \in Members : v # w => <<v, w>> \in R \/ <<w, v>> \in R
        BY <1>5, <1>6
    <2> QED BY <1>7, <1>8, <2>1, RanksOfOrder
<1>10. \A w \in Members :
           Rank(F, B, key, w) = 1 + Cardinality({v \in Members \ {w} : <<v, w>> \in R})
    <2> TAKE w \in Members
    <2>1. {v \in Members \ {w} : Above(F, B, key, v, w)}
              = {v \in Members \ {w} : <<v, w>> \in R}
        BY <1>4, <1>5
    <2> QED BY <2>1 DEF Rank
<1> QED BY <1>9, <1>10

-----------------------------------------------------------------------------
(***************************************************************************)
(* The rounds of a tournament.                                             *)
(***************************************************************************)
Row == [round : Nat, a : Members, b : Members,
        result : {"PENDING"} \union {o.result : o \in Outcomes}, margin : Int]

RowsTyped ==
    /\ IsFiniteSet(pairings) /\ pairings \subseteq Row
    /\ \A p \in pairings : p.a # p.b /\ ScoresExplain(p)
    /\ IsFiniteSet(byes) /\ byes \subseteq [round : Nat, wallet : Members]

RoundsInOrder ==
    /\ RoundsPaired = 1..Cardinality(RoundsPaired)
    /\ \A y \in byes : y.round \in RoundsPaired

OneRowAPair ==
    \A p, q \in pairings : p.round = q.round /\ {p.a, p.b} = {q.a, q.b} => p = q

ByesOf(n) == {y.wallet : y \in {z \in byes : z.round = n}}

RoundsMatch ==
    \A n \in RoundsPaired :
        ByesOf(n) \subseteq Members /\ PerfectMatching(PairsOfRound(n), Members \ ByesOf(n))

RepeatsForced ==
    \A n \in RoundsPaired : PairsOfRound(n) \intersect MetBefore(n) # {} =>
        \A P \in PerfectPairings(Members \ ByesOf(n)) : P \intersect MetBefore(n) # {}

Met == {{p.a, p.b} : p \in pairings}

ByeCount(w) == Cardinality({y \in byes : y.wallet = w})

TournamentInv ==
    /\ RowsTyped /\ RoundsInOrder /\ OneRowAPair
    /\ RoundsMatch /\ RepeatsForced /\ ByesGoAround

LEMMA RoundsAreCounted ==
    ASSUME RowsTyped
    PROVE  IsFiniteSet(RoundsPaired) /\ Cardinality(RoundsPaired) \in Nat
<1> DEFINE f == [p \in pairings |-> p.round]
<1>1. f \in Surjection(pairings, RoundsPaired)
    BY DEF Surjection, RoundsPaired
<1> HIDE DEF f
<1> QED BY <1>1, FS_Surjection, FS_CardinalityType DEF RowsTyped

LEMMA MinMaxOfPair ==
    ASSUME NEW v \in Members, NEW w \in Members, v # w
    PROVE  /\ Min({v, w}) \in Members /\ Max({v, w}) \in Members
           /\ Min({v, w}) # Max({v, w}) /\ {Min({v, w}), Max({v, w})} = {v, w}
<1>1. v \in Int /\ w \in Int
    BY MembersAssumption
<1>2. CASE v < w
    <2>1. Min({v, w}) = v
        BY <1>1, <1>2 DEF Min
    <2>2. Max({v, w}) = w
        BY <1>1, <1>2 DEF Max
    <2> QED BY <2>1, <2>2
<1>3. CASE w < v
    <2>1. Min({v, w}) = w
        BY <1>1, <1>3 DEF Min
    <2>2. Max({v, w}) = v
        BY <1>1, <1>3 DEF Max
    <2> QED BY <2>1, <2>2
<1> QED BY <1>1, <1>2, <1>3

(***************************************************************************)
(* The table that a round is paired from.                                  *)
(***************************************************************************)
LEMMA TableIsSound ==
    ASSUME RowsTyped, NEW key \in Keys
    PROVE  /\ DOMAIN Table = Members /\ IsFiniteSet(DOMAIN Table)
           /\ RanksAll(Table, key) /\ RatesAll(Table)
           /\ \A w \in Members : Table[w].byes = ByeCount(w)
           /\ \A v, w \in Members : v # w => (HasMet(Table, v, w) <=> {v, w} \in Met)
<1>1. DOMAIN Table = Members /\ IsFiniteSet(DOMAIN Table)
    BY MembersAssumption DEF Table
<1>2. \A w \in Members : Table[w].points = LeaguePoints(Finished, byes, w)
    BY DEF Table
<1>3. \A w \in Members : Table[w].rating = Ratings[w] /\ Table[w].byes = ByeCount(w)
    BY DEF Table, ByeCount
<1>4. \A w \in Members :
          Table[w].met = UNION {{p.a, p.b} \ {w} : p \in {q \in pairings : w \in {q.a, q.b}}}
    BY DEF Table
<1>5. \A w \in Members : Table[w].points \in Int
    <2>1. IsFiniteSet(Finished) /\ IsFiniteSet(byes)
        BY FS_Subset DEF Finished, RowsTyped
    <2> QED BY <1>2, <2>1, PointsAreNatural
<1>6. \A w \in Members : Table[w].rating \in Int
    BY <1>3, TournamentAssumption
<1>7. \A v, w \in Members : key[v] \in Int /\ (v # w => key[v] # key[w])
    BY KeysAssumption DEF IsInjective
<1>8. \A v, w \in Members : v # w => (w \in Table[v].met <=> {v, w} \in Met)
    <2> TAKE v, w \in Members
    <2> HAVE v # w
    <2>1. ASSUME w \in Table[v].met PROVE {v, w} \in Met
        <3>1. PICK p \in pairings : v \in {p.a, p.b} /\ w \in {p.a, p.b} \ {v}
            BY <1>4, <2>1
        <3>2. {p.a, p.b} = {v, w}
            BY <3>1
        <3> QED BY <3>2 DEF Met
    <2>2. ASSUME {v, w} \in Met PROVE w \in Table[v].met
        <3>1. PICK p \in pairings : {p.a, p.b} = {v, w}
            BY <2>2 DEF Met
        <3>2. v \in {p.a, p.b} /\ w \in {p.a, p.b} \ {v}
            BY <3>1
        <3> QED BY <1>4, <3>2
    <2> QED BY <2>1, <2>2
<1>9. \A v, w \in Members : v # w => (HasMet(Table, v, w) <=> {v, w} \in Met)
    <2> TAKE v, w \in Members
    <2> HAVE v # w
    <2>1. {w, v} = {v, w}
        OBVIOUS
    <2> QED BY <1>8, <2>1 DEF HasMet
<1>10. RanksAll(Table, key) /\ RatesAll(Table)
    BY <1>1, <1>5, <1>6, <1>7 DEF RanksAll, RatesAll
<1> QED BY <1>1, <1>3, <1>9, <1>10

LEMMA PairingIsMatching ==
    ASSUME NEW S, IsFiniteSet(S), NEW P \in PerfectPairings(S)
    PROVE  PerfectMatching(P, S)
<1>1. ASSUME NEW x \in P PROVE \E v, w \in S : v # w /\ x = {v, w}
    <2>1. x \in SUBSET S /\ Cardinality(x) = 2
        BY DEF PerfectPairings, kSubset
    <2>2. IsFiniteSet(x)
        BY <2>1, FS_Subset
    <2>3. PICK v \in x : TRUE
        BY <2>1, <2>2, FS_EmptySet
    <2>4. IsFiniteSet(x \ {v}) /\ Cardinality(x \ {v}) = 1
        BY <2>1, <2>2, <2>3, FS_RemoveElement
    <2>5. PICK w : x \ {v} = {w}
        BY <2>4, FS_Singleton
    <2>6. x = {v, w} /\ v # w /\ v \in S /\ w \in S
        BY <2>1, <2>3, <2>5
    <2> QED BY <2>6
<1>2. UNION P = S /\ \A x, y \in P : x \intersect y # {} => x = y
    BY DEF PerfectPairings
<1> QED BY <1>1, <1>2 DEF PerfectMatching

(***************************************************************************)
(* What pairing a round does: it adds the rows R for the pairs P, and the  *)
(* bye if there is one.                                                    *)
(***************************************************************************)
RowsFor(n, P) ==
    {[round |-> n, a |-> Min(pair), b |-> Max(pair), result |-> "PENDING", margin |-> 0] :
        pair \in P}

RoundAdded(n, P, bye) ==
    /\ n = Cardinality(RoundsPaired) + 1
    /\ bye \subseteq Members /\ P # {} /\ PerfectMatching(P, Members \ bye)
    /\ pairings' = pairings \union RowsFor(n, P)
    /\ byes' = byes \union {[round |-> n, wallet |-> w] : w \in bye}
    /\ P \intersect Met # {} =>
           \A Q \in PerfectPairings(Members \ bye) : Q \intersect Met # {}
    /\ bye # {} => \E u \in Members : /\ bye = {u}
                                      /\ (\E w \in Members : ByeCount(w) = 0) => ByeCount(u) = 0

LEMMA RoundIsAdded ==
    ASSUME RowsTyped, NEW key \in Keys, PairRound(key)
    PROVE  \E n, P, bye : RoundAdded(n, P, bye)
<1>1. PICK new \in PairSwiss(Table, key) :
          LET n == Cardinality(RoundsPaired) + 1
          IN  /\ pairings' = pairings \union
                     {[round |-> n, a |-> Min(pair), b |-> Max(pair),
                       result |-> "PENDING", margin |-> 0] : pair \in new.pairs}
              /\ byes' = byes \union {[round |-> n, wallet |-> w] : w \in new.bye}
    BY DEF PairRound
<1> DEFINE n == Cardinality(RoundsPaired) + 1
           P == new.pairs
           bye == new.bye
<1>2. pairings' = pairings \union RowsFor(n, P)
    BY <1>1 DEF RowsFor
<1>3. byes' = byes \union {[round |-> n, wallet |-> w] : w \in bye}
    BY <1>1
<1>4. /\ DOMAIN Table = Members /\ IsFiniteSet(DOMAIN Table)
      /\ RanksAll(Table, key) /\ RatesAll(Table)
      /\ \A w \in Members : Table[w].byes = ByeCount(w)
      /\ \A v, w \in Members : v # w => (HasMet(Table, v, w) <=> {v, w} \in Met)
    BY TableIsSound
<1>5. bye \subseteq Members /\ PerfectMatching(P, Members \ bye)
    <2>1. bye \subseteq DOMAIN Table /\ PerfectMatching(P, DOMAIN Table \ bye)
        BY <1>4, PairSwissIsMatching
    <2> QED BY <1>4, <2>1
<1>6. IF Cardinality(Members) % 2 = 1
      THEN \E v \in ByeCandidates(Table) : bye = {v}
      ELSE bye = {}
    <2>1. IF Cardinality(DOMAIN Table) % 2 = 1
          THEN \E v \in ByeCandidates(Table) : bye = {v}
          ELSE bye = {}
        BY <1>4, PairSwissChooses
    <2> QED BY <1>4, <2>1
<1>7. P # {}
    <2> SUFFICES ASSUME P = {} PROVE FALSE
        OBVIOUS
    <2>1. Members \ bye = {}
        BY <1>5 DEF PerfectMatching
    <2>2. Members = {} \/ \E v : Members = {v}
        BY <1>5, <1>6, <2>1
    <2>3. Cardinality(Members) = 0 \/ Cardinality(Members) = 1
        BY <2>2, FS_EmptySet, FS_Singleton
    <2> QED BY <2>3 DEF PairRound
<1>8. ASSUME NEW Q \in PerfectPairings(Members \ bye), Q \intersect Met = {}
      PROVE  P \intersect Met = {}
    <2>1. IsFiniteSet(Members \ bye)
        BY MembersAssumption, FS_Subset
    <2>2. PerfectMatching(Q, Members \ bye)
        BY <2>1, PairingIsMatching
    <2>3. NobodyMeetsAgain(Table, Q)
        <3>1. ASSUME NEW v, NEW w, v # w, {v, w} \in Q
              PROVE  ~ HasMet(Table, v, w)
            <4>1. v \in Members /\ w \in Members
                BY <2>2, <3>1 DEF PerfectMatching
            <4>2. {v, w} \notin Met
                BY <1>8, <3>1
            <4> QED BY <1>4, <3>1, <4>1, <4>2
        <3> QED BY <3>1 DEF NobodyMeetsAgain
    <2>4. NobodyMeetsAgain(Table, P)
        <3>1. PerfectMatching(Q, DOMAIN Table \ new.bye) /\ new.bye \in ByeChoices(Table)
            BY <1>4, <1>6, <2>2 DEF ByeChoices
        <3> HIDE DEF P, bye
        <3>2. NobodyMeetsAgain(Table, new.pairs)
            BY <1>4, <2>3, <3>1, PairSwissRepeatsWhenForced
        <3> QED BY <3>2 DEF P
    <2>5. ASSUME NEW x \in P PROVE x \notin Met
        <3>1. PICK v \in Members, w \in Members : v # w /\ x = {v, w}
            BY <1>5 DEF PerfectMatching
        <3>2. ~ HasMet(Table, v, w)
            BY <2>4, <2>5, <3>1 DEF NobodyMeetsAgain
        <3> QED BY <1>4, <3>1, <3>2
    <2> QED BY <2>5
<1>9. ASSUME bye # {}
      PROVE  \E u \in Members : /\ bye = {u}
                                /\ (\E w \in Members : ByeCount(w) = 0) => ByeCount(u) = 0
    <2>1. PICK u \in ByeCandidates(Table) : bye = {u}
        BY <1>6, <1>9
    <2>2. u \in Members
        BY <1>5, <2>1
    <2>3. (\E w \in Members : ByeCount(w) = 0) => ByeCount(u) = 0
        BY <1>4, <2>1 DEF ByeCandidates
    <2> QED BY <2>1, <2>2, <2>3
<1> HIDE DEF P, bye
<1>10. RoundAdded(n, P, bye)
    BY <1>2, <1>3, <1>5, <1>7, <1>8, <1>9 DEF RoundAdded
<1> QED BY <1>10

LEMMA AddedRows ==
    ASSUME RowsTyped, NEW n, NEW P, NEW bye, RoundAdded(n, P, bye)
    PROVE  /\ n \in Nat /\ IsFiniteSet(RowsFor(n, P)) /\ RowsFor(n, P) \subseteq Row
           /\ \A r \in RowsFor(n, P) : /\ r.round = n /\ r.a # r.b /\ {r.a, r.b} \in P
                                       /\ r.result = "PENDING"
           /\ \A x \in P : \E r \in RowsFor(n, P) : {r.a, r.b} = x
           /\ \A r, s \in RowsFor(n, P) : {r.a, r.b} = {s.a, s.b} => r = s
<1> DEFINE row(x) == [round |-> n, a |-> Min(x), b |-> Max(x), result |-> "PENDING", margin |-> 0]
<1>1. n \in Nat
    BY RoundsAreCounted DEF RoundAdded
<1>2. \A x \in P : /\ Min(x) \in Members /\ Max(x) \in Members
                   /\ Min(x) # Max(x) /\ {Min(x), Max(x)} = x
    <2> TAKE x \in P
    <2>1. PICK v \in Members, w \in Members : v # w /\ x = {v, w}
        BY DEF RoundAdded, PerfectMatching
    <2> QED BY <2>1, MinMaxOfPair
<1>3. \A x \in P : /\ row(x) \in Row /\ row(x).round = n /\ row(x).a # row(x).b
                   /\ {row(x).a, row(x).b} = x /\ row(x).result = "PENDING"
    BY <1>1, <1>2 DEF Row
<1>4. \A r : r \in RowsFor(n, P) <=> \E x \in P : r = row(x)
    BY DEF RowsFor
<1>5. IsFiniteSet(P)
    <2>1. IsFiniteSet(Members \ bye)
        BY MembersAssumption, FS_Subset
    <2> QED BY <2>1, MatchingHalves DEF RoundAdded
<1> DEFINE f == [x \in P |-> row(x)]
<1>6. f \in Surjection(P, RowsFor(n, P))
    <2>1. \A x \in P : f[x] = row(x)
        OBVIOUS
    <2> HIDE DEF row
    <2> QED BY <1>4, <2>1 DEF Surjection
<1> HIDE DEF f, row
<1>7. IsFiniteSet(RowsFor(n, P))
    BY <1>5, <1>6, FS_Surjection
<1>8. ASSUME NEW r \in RowsFor(n, P)
      PROVE  r \in Row /\ r.round = n /\ r.a # r.b /\ {r.a, r.b} \in P /\ r.result = "PENDING"
    <2>1. PICK x \in P : r = row(x)
        BY <1>4
    <2> QED BY <1>3, <2>1
<1>9. ASSUME NEW x \in P PROVE \E r \in RowsFor(n, P) : {r.a, r.b} = x
    <2>1. row(x) \in RowsFor(n, P)
        BY <1>4
    <2> QED BY <1>3, <2>1
<1>10. ASSUME NEW r \in RowsFor(n, P), NEW s \in RowsFor(n, P), {r.a, r.b} = {s.a, s.b}
       PROVE  r = s
    <2>1. PICK x \in P : r = row(x)
        BY <1>4
    <2>2. PICK y \in P : s = row(y)
        BY <1>4
    <2>3. {r.a, r.b} = x
        BY <1>3, <2>1
    <2>4. {s.a, s.b} = y
        BY <1>3, <2>2
    <2> QED BY <1>10, <2>1, <2>2, <2>3, <2>4
<1> QED BY <1>1, <1>7, <1>8, <1>9, <1>10

\* What a new round adds to the tables, and what it leaves alone.
LEMMA RoundAddedChanges ==
    ASSUME RowsTyped, RoundsInOrder, NEW n, NEW P, NEW bye, RoundAdded(n, P, bye)
    PROVE  /\ RoundsPaired = 1..(n - 1) /\ RoundsPaired' = 1..n /\ n \in Nat \ {0}
           /\ PairsOfRound(n)' = P /\ ByesOf(n)' = bye
           /\ MetBefore(n)' = Met
           /\ \A m \in RoundsPaired : /\ PairsOfRound(m)' = PairsOfRound(m)
                                      /\ ByesOf(m)' = ByesOf(m)
                                      /\ MetBefore(m)' = MetBefore(m)
<1> DEFINE R == RowsFor(n, P)
           Y == {[round |-> n, wallet |-> w] : w \in bye}
<1>1. /\ n \in Nat
      /\ \A r \in R : r.round = n /\ {r.a, r.b} \in P
      /\ \A x \in P : \E r \in R : {r.a, r.b} = x
    BY AddedRows
<1>2. pairings' = pairings \union R /\ byes' = byes \union Y /\ P # {}
    BY DEF RoundAdded
<1>3. RoundsPaired = 1..(n - 1) /\ n \in Nat \ {0}
    <2>1. Cardinality(RoundsPaired) \in Nat /\ n = Cardinality(RoundsPaired) + 1
        BY RoundsAreCounted DEF RoundAdded
    <2>2. Cardinality(RoundsPaired) = n - 1
        BY <2>1
    <2> QED BY <2>1, <2>2 DEF RoundsInOrder
<1>4. \A y \in Y : y.round = n /\ y.wallet \in bye
    OBVIOUS
<1>5. ASSUME NEW w \in bye PROVE \E y \in Y : y.wallet = w
    <2>1. [round |-> n, wallet |-> w] \in Y
        OBVIOUS
    <2> QED BY <2>1
<1> HIDE DEF R, Y
<1>6. \A p \in pairings : p.round \in 1..(n - 1) /\ p.round # n
    <2> TAKE p \in pairings
    <2>1. p.round \in RoundsPaired
        BY DEF RoundsPaired
    <2> QED BY <1>3, <2>1
<1>7. \A y \in byes : y.round \in 1..(n - 1) /\ y.round # n
    BY <1>3 DEF RoundsInOrder
<1>8. RoundsPaired' = 1..n
    <2>1. RoundsPaired' = RoundsPaired \union {n}
        <3>1. \E r \in R : r.round = n
            BY <1>1, <1>2
        <3> QED BY <1>1, <1>2, <3>1 DEF RoundsPaired
    <2>2. (1..(n - 1)) \union {n} = 1..n
        BY <1>3
    <2> QED BY <1>3, <2>1, <2>2
<1>9. PairsOfRound(n)' = P
    BY <1>1, <1>2, <1>6 DEF PairsOfRound
<1>10. ByesOf(n)' = bye
    BY <1>2, <1>4, <1>5, <1>7 DEF ByesOf
<1>11. \A m : m # n => PairsOfRound(m)' = PairsOfRound(m) /\ ByesOf(m)' = ByesOf(m)
    BY <1>1, <1>2, <1>4 DEF PairsOfRound, ByesOf
<1>12. \A m \in 1..n : MetBefore(m)' = MetBefore(m)
    <2> TAKE m \in 1..n
    <2>1. \A k \in 1..(m - 1) : k # n
        BY <1>3
    <2>2. \A k \in 1..(m - 1) : PairsOfRound(k)' = PairsOfRound(k)
        BY <1>11, <2>1
    <2> QED BY <2>2 DEF MetBefore
<1>13. MetBefore(n) = Met
    <2>1. ASSUME NEW x \in MetBefore(n) PROVE x \in Met
        <3>1. PICK k \in 1..(n - 1) : x \in PairsOfRound(k)
            BY <2>1 DEF MetBefore
        <3> QED BY <3>1 DEF PairsOfRound, Met
    <2>2. ASSUME NEW x \in Met PROVE x \in MetBefore(n)
        <3>1. PICK p \in pairings : x = {p.a, p.b}
            BY <2>2 DEF Met
        <3>2. x \in PairsOfRound(p.round)
            BY <3>1 DEF PairsOfRound
        <3>3. p.round \in 1..(n - 1)
            BY <1>6
        <3> HIDE DEF R, Y
        <3> QED BY <3>2, <3>3 DEF MetBefore
    <2> QED BY <2>1, <2>2
<1>14. \A m \in RoundsPaired : m \in 1..n /\ m # n
    BY <1>3
<1>15. n \in 1..n
    BY <1>3
<1> QED BY <1>3, <1>8, <1>9, <1>10, <1>11, <1>12, <1>13, <1>14, <1>15

LEMMA RoundAddedKeepsRows ==
    ASSUME RowsTyped, RoundsInOrder, OneRowAPair,
           NEW n, NEW P, NEW bye, RoundAdded(n, P, bye)
    PROVE  RowsTyped' /\ RoundsInOrder' /\ OneRowAPair'
<1> DEFINE R == RowsFor(n, P)
           Y == {[round |-> n, wallet |-> w] : w \in bye}
<1>1. /\ n \in Nat /\ IsFiniteSet(R) /\ R \subseteq Row
      /\ \A r \in R : r.round = n /\ r.a # r.b /\ {r.a, r.b} \in P /\ r.result = "PENDING"
      /\ \A r, s \in R : {r.a, r.b} = {s.a, s.b} => r = s
    BY AddedRows
<1>2. pairings' = pairings \union R /\ byes' = byes \union Y /\ bye \subseteq Members
    BY DEF RoundAdded
<1>3. RoundsPaired = 1..(n - 1) /\ RoundsPaired' = 1..n /\ n \in Nat \ {0}
    BY RoundAddedChanges
<1>4. Y \subseteq [round : Nat, wallet : Members] /\ \A y \in Y : y.round = n
    BY <1>1, <1>2
<1>5. IsFiniteSet(Y)
    <2> DEFINE f == [w \in bye |-> [round |-> n, wallet |-> w]]
    <2>1. f \in Surjection(bye, Y)
        BY DEF Surjection
    <2>2. IsFiniteSet(bye)
        BY <1>2, MembersAssumption, FS_Subset
    <2> HIDE DEF f, Y
    <2> QED BY <2>1, <2>2, FS_Surjection
<1> HIDE DEF R, Y
<1>6. \A r \in R : ScoresExplain(r)
    BY <1>1 DEF ScoresExplain
<1>7. RowsTyped'
    <2>1. IsFiniteSet(pairings \union R) /\ IsFiniteSet(byes \union Y)
        BY <1>1, <1>5, FS_Union DEF RowsTyped
    <2>2. /\ pairings \union R \subseteq Row
          /\ \A p \in pairings \union R : p.a # p.b /\ ScoresExplain(p)
          /\ byes \union Y \subseteq [round : Nat, wallet : Members]
        BY <1>1, <1>4, <1>6 DEF RowsTyped
    <2> QED BY <1>2, <2>1, <2>2 DEF RowsTyped, ScoresExplain
<1>8. RoundsInOrder'
    <2>1. Cardinality(1..n) = n
        BY <1>3, FS_Interval
    <2>2. \A y \in byes' : y.round \in 1..n
        <3>1. \A y \in byes : y.round \in 1..(n - 1)
            BY <1>3 DEF RoundsInOrder
        <3>2. \A k \in 1..(n - 1) : k \in 1..n
            BY <1>3
        <3>3. n \in 1..n
            BY <1>3
        <3> QED BY <1>2, <1>4, <3>1, <3>2, <3>3
    <2>3. Cardinality(RoundsPaired') = n
        BY <1>3, <2>1
    <2> QED BY <1>3, <2>2, <2>3 DEF RoundsInOrder
<1>9. OneRowAPair'
    <2>1. \A p \in pairings : p.round # n
        <3> TAKE p \in pairings
        <3>1. p.round \in RoundsPaired
            BY DEF RoundsPaired
        <3> QED BY <1>3, <3>1
    <2> QED BY <1>1, <1>2, <2>1 DEF OneRowAPair
<1> QED BY <1>7, <1>8, <1>9

LEMMA RoundAddedKeepsRounds ==
    ASSUME RowsTyped, RoundsInOrder, RoundsMatch, RepeatsForced,
           NEW n, NEW P, NEW bye, RoundAdded(n, P, bye)
    PROVE  RoundsMatch' /\ RepeatsForced'
<1>1. /\ RoundsPaired = 1..(n - 1) /\ RoundsPaired' = 1..n /\ n \in Nat \ {0}
      /\ PairsOfRound(n)' = P /\ ByesOf(n)' = bye /\ MetBefore(n)' = Met
      /\ \A m \in RoundsPaired : /\ PairsOfRound(m)' = PairsOfRound(m)
                                 /\ ByesOf(m)' = ByesOf(m)
                                 /\ MetBefore(m)' = MetBefore(m)
    BY RoundAddedChanges
<1>2. \A m \in RoundsPaired' : m = n \/ m \in RoundsPaired
    BY <1>1
<1>3. RoundsMatch'
    <2>1. bye \subseteq Members /\ PerfectMatching(P, Members \ bye)
        BY DEF RoundAdded
    <2> SUFFICES ASSUME NEW m \in RoundsPaired'
                 PROVE  /\ ByesOf(m)' \subseteq Members
                        /\ PerfectMatching(PairsOfRound(m)', Members \ ByesOf(m)')
        BY DEF RoundsMatch, PerfectMatching
    <2> QED BY <1>1, <1>2, <2>1 DEF RoundsMatch
<1>4. RepeatsForced'
    <2>1. P \intersect Met # {} =>
              \A Q \in PerfectPairings(Members \ bye) : Q \intersect Met # {}
        BY DEF RoundAdded
    <2> SUFFICES ASSUME NEW m \in RoundsPaired', PairsOfRound(m)' \intersect MetBefore(m)' # {},
                        NEW Q \in PerfectPairings(Members \ ByesOf(m)')
                 PROVE  Q \intersect MetBefore(m)' # {}
        BY DEF RepeatsForced, PerfectPairings
    <2> QED BY <1>1, <1>2, <2>1 DEF RepeatsForced
<1> QED BY <1>3, <1>4

(***************************************************************************)
(* Byes: a new one goes to a member without one, as long as there is such  *)
(* a member.                                                               *)
(***************************************************************************)
LEMMA ByesGoAroundAsCounts ==
    ByesGoAround <=>
        ((\E v \in Members : ByeCount(v) > 1) => \A w \in Members : ByeCount(w) > 0)
BY DEF ByesGoAround, ByeCount

LEMMA RoundAddedKeepsByes ==
    ASSUME RowsTyped, RowsTyped', ByesGoAround,
           NEW n, NEW P, NEW bye, RoundAdded(n, P, bye)
    PROVE  ByesGoAround'
<1> DEFINE old(w) == {y \in byes : y.wallet = w}
           new(w) == {y \in byes' : y.wallet = w}
           now(w) == Cardinality(new(w))
           before(w) == Cardinality(old(w))
<1>1. \A w : /\ IsFiniteSet(old(w)) /\ before(w) \in Nat
             /\ IsFiniteSet(new(w)) /\ now(w) \in Nat
    <2> TAKE w
    <2>1. IsFiniteSet(byes) /\ IsFiniteSet(byes')
        BY DEF RowsTyped
    <2>2. old(w) \in SUBSET byes /\ new(w) \in SUBSET byes'
        OBVIOUS
    <2> HIDE DEF old, new
    <2> QED BY <2>1, <2>2, FS_Subset, FS_CardinalityType
<1>2. \A w : before(w) = ByeCount(w)
    BY DEF ByeCount
<1>3. (\E v \in Members : before(v) > 1) => \A w \in Members : before(w) > 0
    BY <1>2 DEF ByesGoAround
<1>4. SUFFICES (\E v \in Members : now(v) > 1) => \A w \in Members : now(w) > 0
    BY DEF ByesGoAround
<1>5. byes' = byes \union {[round |-> n, wallet |-> w] : w \in bye}
    BY DEF RoundAdded
<1>6. CASE bye = {}
    <2>1. byes' = byes
        BY <1>5, <1>6
    <2> QED BY <1>3, <2>1
<1>7. CASE bye # {}
    <2>1. PICK u \in Members : /\ bye = {u}
                               /\ (\E w \in Members : ByeCount(w) = 0) => ByeCount(u) = 0
        BY <1>7 DEF RoundAdded
    <2> DEFINE y == [round |-> n, wallet |-> u]
    <2>2. byes' = byes \union {y} /\ y.wallet = u
        BY <1>5, <2>1
    <2> HIDE DEF y
    <2>3. new(u) = old(u) \union {y} /\ \A w : w # u => new(w) = old(w)
        BY <2>2
    <2> HIDE DEF old, new
    <2>4. /\ before(u) <= now(u) /\ now(u) <= before(u) + 1 /\ now(u) > 0
          /\ \A w : w # u => now(w) = before(w)
        <3>1. now(u) = IF y \in old(u) THEN before(u) ELSE before(u) + 1
            BY <1>1, <2>3, FS_AddElement
        <3>2. y \in old(u) => before(u) # 0
            BY <1>1, FS_EmptySet
        <3>3. before(u) \in Nat
            BY <1>1
        <3>4. \A w : w # u => now(w) = before(w)
            BY <2>3
        <3> HIDE DEF now, before
        <3> QED BY <3>1, <3>2, <3>3, <3>4
    <2>5. \A w : before(w) \in Nat /\ now(w) \in Nat
        BY <1>1
    <2>6. (\E w \in Members : before(w) = 0) => before(u) = 0
        BY <1>2, <2>1
    <2> HIDE DEF now, before
    <2>7. ASSUME NEW v \in Members, now(v) > 1, NEW w \in Members
          PROVE  now(w) > 0
        <3>1. CASE \E x \in Members : before(x) > 1
            <4>1. before(w) > 0
                BY <1>3, <3>1
            <4> QED BY <2>4, <2>5, <4>1
        <3>2. CASE ~ \E x \in Members : before(x) > 1
            <4>1. v = u
                BY <2>4, <2>7, <3>2
            <4>2. before(u) # 0
                BY <2>4, <2>5, <2>7, <4>1
            <4>3. before(w) # 0
                BY <2>6, <4>2
            <4> QED BY <2>4, <2>5, <4>3
        <3> QED BY <3>1, <3>2
    <2> QED BY <2>7
<1> QED BY <1>6, <1>7

(***************************************************************************)
(* What the end of a battle does: one row gets its result, in the same     *)
(* round and between the same two.                                         *)
(***************************************************************************)
Same(p, q) == q.round = p.round /\ q.a = p.a /\ q.b = p.b

LEMMA EndChangesOneRow ==
    ASSUME RowsTyped, NEW p \in Unfinished, NEW o \in Outcomes, EndBattle(p, o)
    PROVE  \E q \in Row : /\ Same(p, q) /\ ScoresExplain(q)
                          /\ pairings' = (pairings \ {p}) \union {q}
<1> DEFINE q == [p EXCEPT !.result = o.result, !.margin = o.margin]
<1>1. p \in Row
    BY DEF Unfinished, RowsTyped
<1>2. o.margin \in Int
    BY TournamentAssumption
<1>3. q \in Row
    BY <1>1, <1>2 DEF Row
<1>4. Same(p, q) /\ q.result = o.result /\ q.margin = o.margin
    BY <1>1 DEF Row, Same
<1>5. ScoresExplain(o) /\ pairings' = (pairings \ {p}) \union {q}
    BY DEF EndBattle
<1> HIDE DEF q
<1>6. ScoresExplain(q)
    BY <1>4, <1>5 DEF ScoresExplain
<1> QED BY <1>3, <1>4, <1>5, <1>6

LEMMA EndChangesNoRound ==
    ASSUME RowsTyped, NEW p \in pairings, NEW q \in Row, Same(p, q),
           pairings' = (pairings \ {p}) \union {q}, byes' = byes
    PROVE  /\ RoundsPaired' = RoundsPaired
           /\ \A n : /\ PairsOfRound(n)' = PairsOfRound(n)
                     /\ ByesOf(n)' = ByesOf(n)
                     /\ MetBefore(n)' = MetBefore(n)
<1>1. \A r \in pairings : \E s \in pairings' : Same(r, s)
    BY DEF Same
<1>2. \A s \in pairings' : \E r \in pairings : Same(r, s)
    BY DEF Same
<1>3. RoundsPaired' = RoundsPaired
    BY <1>1, <1>2 DEF RoundsPaired, Same
<1>4. \A n : PairsOfRound(n)' = PairsOfRound(n)
    <2> TAKE n
    <2>1. ASSUME NEW x \in PairsOfRound(n)' PROVE x \in PairsOfRound(n)
        <3>1. PICK s \in pairings' : s.round = n /\ x = {s.a, s.b}
            BY <2>1 DEF PairsOfRound
        <3>2. PICK r \in pairings : Same(r, s)
            BY <1>2
        <3> QED BY <3>1, <3>2 DEF PairsOfRound, Same
    <2>2. ASSUME NEW x \in PairsOfRound(n) PROVE x \in PairsOfRound(n)'
        <3>1. PICK r \in pairings : r.round = n /\ x = {r.a, r.b}
            BY <2>2 DEF PairsOfRound
        <3>2. PICK s \in pairings' : Same(r, s)
            BY <1>1
        <3> QED BY <3>1, <3>2 DEF PairsOfRound, Same
    <2> QED BY <2>1, <2>2
<1>5. \A n : ByesOf(n)' = ByesOf(n)
    BY DEF ByesOf
<1>6. \A n : MetBefore(n)' = MetBefore(n)
    BY <1>4 DEF MetBefore
<1> QED BY <1>3, <1>4, <1>5, <1>6

LEMMA EndBattleKeeps ==
    ASSUME TournamentInv, NEW p \in Unfinished, NEW o \in Outcomes, EndBattle(p, o)
    PROVE  TournamentInv'
<1>1. RowsTyped /\ p \in pairings
    BY DEF TournamentInv, Unfinished
<1>2. PICK q \in Row : /\ Same(p, q) /\ ScoresExplain(q)
                       /\ pairings' = (pairings \ {p}) \union {q}
    BY <1>1, EndChangesOneRow
<1>3. byes' = byes
    BY DEF EndBattle
<1>4. /\ RoundsPaired' = RoundsPaired
      /\ \A n : /\ PairsOfRound(n)' = PairsOfRound(n)
                /\ ByesOf(n)' = ByesOf(n)
                /\ MetBefore(n)' = MetBefore(n)
    BY <1>1, <1>2, <1>3, EndChangesNoRound
<1>5. RowsTyped'
    <2>1. IsFiniteSet((pairings \ {p}) \union {q})
        <3>1. IsFiniteSet(pairings \ {p}) /\ IsFiniteSet({q})
            BY <1>1, FS_Subset, FS_Singleton DEF RowsTyped
        <3> QED BY <3>1, FS_Union
    <2>2. q.a # q.b
        BY <1>1, <1>2 DEF RowsTyped, Same
    <2>3. \A r \in (pairings \ {p}) \union {q} : r \in Row /\ r.a # r.b /\ ScoresExplain(r)
        BY <1>1, <1>2, <2>2 DEF RowsTyped
    <2> QED BY <1>1, <1>2, <1>3, <2>1, <2>3 DEF RowsTyped, ScoresExplain
<1>6. RoundsInOrder'
    BY <1>3, <1>4 DEF TournamentInv, RoundsInOrder
<1>7. OneRowAPair'
    <2>1. \A r, s \in pairings : r.round = s.round /\ {r.a, r.b} = {s.a, s.b} => r = s
        BY DEF TournamentInv, OneRowAPair
    <2>2. \A s \in pairings' : (s = q /\ Same(p, s)) \/ (s \in pairings /\ s # p)
        BY <1>2
    <2> QED BY <1>1, <2>1, <2>2 DEF OneRowAPair, Same
<1>8. RoundsMatch'
    <2> SUFFICES ASSUME NEW n \in RoundsPaired'
                 PROVE  /\ ByesOf(n)' \subseteq Members
                        /\ PerfectMatching(PairsOfRound(n)', Members \ ByesOf(n)')
        BY DEF RoundsMatch, PerfectMatching
    <2> QED BY <1>4 DEF TournamentInv, RoundsMatch
<1>9. RepeatsForced'
    <2> SUFFICES ASSUME NEW n \in RoundsPaired', PairsOfRound(n)' \intersect MetBefore(n)' # {},
                        NEW Q \in PerfectPairings(Members \ ByesOf(n)')
                 PROVE  Q \intersect MetBefore(n)' # {}
        BY DEF RepeatsForced, PerfectPairings
    <2> QED BY <1>4 DEF TournamentInv, RepeatsForced
<1>10. ByesGoAround'
    BY <1>3 DEF TournamentInv, ByesGoAround
<1> QED BY <1>5, <1>6, <1>7, <1>8, <1>9, <1>10 DEF TournamentInv

LEMMA TournamentStarts == TournamentInit => TournamentInv
<1> SUFFICES ASSUME TournamentInit PROVE TournamentInv
    OBVIOUS
<1>1. pairings = {} /\ byes = {}
    BY DEF TournamentInit
<1>2. RowsTyped
    BY <1>1, FS_EmptySet DEF RowsTyped
<1>3. RoundsPaired = {}
    BY <1>1 DEF RoundsPaired
<1>4. RoundsInOrder
    <2>1. Cardinality({}) = 0 /\ 1..0 = {}
        BY FS_EmptySet
    <2> QED BY <1>1, <1>3, <2>1 DEF RoundsInOrder
<1>5. OneRowAPair /\ RoundsMatch /\ RepeatsForced
    BY <1>1, <1>3 DEF OneRowAPair, RoundsMatch, RepeatsForced
<1>6. ByesGoAround
    <2>1. \A w : ByeCount(w) = 0
        <3> TAKE w
        <3>1. {y \in byes : y.wallet = w} = {}
            BY <1>1
        <3> QED BY <3>1, FS_EmptySet DEF ByeCount
    <2> QED BY <2>1, ByesGoAroundAsCounts
<1> QED BY <1>2, <1>4, <1>5, <1>6 DEF TournamentInv

LEMMA TournamentKeepsInv ==
    TournamentInv /\ [TournamentNext]_tournamentVars => TournamentInv'
<1> SUFFICES ASSUME TournamentInv, [TournamentNext]_tournamentVars
             PROVE  TournamentInv'
    OBVIOUS
<1>1. ASSUME NEW key \in Keys, PairRound(key)
      PROVE  TournamentInv'
    <2>1. /\ RowsTyped /\ RoundsInOrder /\ OneRowAPair
          /\ RoundsMatch /\ RepeatsForced /\ ByesGoAround
        BY DEF TournamentInv
    <2>2. PICK n, P, bye : RoundAdded(n, P, bye)
        BY <1>1, <2>1, RoundIsAdded
    <2>3. RowsTyped' /\ RoundsInOrder' /\ OneRowAPair'
        BY <2>1, <2>2, RoundAddedKeepsRows
    <2>4. RoundsMatch' /\ RepeatsForced'
        BY <2>1, <2>2, RoundAddedKeepsRounds
    <2>5. ByesGoAround'
        BY <2>1, <2>2, <2>3, RoundAddedKeepsByes
    <2> QED BY <2>3, <2>4, <2>5 DEF TournamentInv
<1>2. ASSUME NEW p \in Unfinished, NEW o \in Outcomes, EndBattle(p, o)
      PROVE  TournamentInv'
    BY <1>2, EndBattleKeeps
<1>3. CASE UNCHANGED tournamentVars
    <2>1. pairings' = pairings /\ byes' = byes
        BY <1>3 DEF tournamentVars
    <2>2. RowsTyped'
        BY <2>1 DEF TournamentInv, RowsTyped, ScoresExplain
    <2>3. RoundsInOrder' /\ OneRowAPair'
        BY <2>1 DEF TournamentInv, RoundsInOrder, OneRowAPair, RoundsPaired
    <2>4. RoundsPaired' = RoundsPaired
        BY <2>1 DEF RoundsPaired
    <2>5. \A n : PairsOfRound(n)' = PairsOfRound(n) /\ ByesOf(n)' = ByesOf(n)
        BY <2>1 DEF PairsOfRound, ByesOf
    <2>6. \A n : MetBefore(n)' = MetBefore(n)
        BY <2>5 DEF MetBefore
    <2>7. RoundsMatch'
        BY <2>4, <2>5 DEF TournamentInv, RoundsMatch, PerfectMatching
    <2>8. RepeatsForced'
        BY <2>4, <2>5, <2>6 DEF TournamentInv, RepeatsForced, PerfectPairings
    <2>9. ByesGoAround'
        BY <2>1 DEF TournamentInv, ByesGoAround
    <2> QED BY <2>2, <2>3, <2>7, <2>8, <2>9 DEF TournamentInv
<1> QED BY <1>1, <1>2, <1>3 DEF TournamentNext

LEMMA TournamentKeeps == TournamentSpec => []TournamentInv
BY TournamentStarts, TournamentKeepsInv, PTL DEF TournamentSpec

-----------------------------------------------------------------------------
(***************************************************************************)
(* ByesGoAround: whatever the points and the seeds do to the order of the  *)
(* candidates, nobody has a second bye while another member has had none.  *)
(***************************************************************************)
THEOREM ByesAlwaysGoAround == TournamentSpec => []ByesGoAround
<1>1. TournamentInv => ByesGoAround
    BY DEF TournamentInv
<1> QED BY <1>1, TournamentKeeps, PTL

LEMMA RepeatsAreForced == TournamentInv => RepeatsOnlyWhenForced
<1> SUFFICES ASSUME TournamentInv, NEW n \in RoundsPaired
             PROVE  LET playing == UNION PairsOfRound(n)
                    IN  /\ Cardinality(playing) = 2 * Cardinality(PairsOfRound(n))
                        /\ {y.wallet : y \in {z \in byes : z.round = n}} = Members \ playing
                        /\ PairsOfRound(n) \intersect MetBefore(n) # {} =>
                               \A pairs \in PerfectPairings(playing) :
                                   pairs \intersect MetBefore(n) # {}
    BY DEF RepeatsOnlyWhenForced
<1> DEFINE playing == UNION PairsOfRound(n)
<1>1. ByesOf(n) \subseteq Members /\ PerfectMatching(PairsOfRound(n), Members \ ByesOf(n))
    BY DEF TournamentInv, RoundsMatch
<1>2. playing = Members \ ByesOf(n)
    BY <1>1 DEF PerfectMatching
<1>3. Cardinality(playing) = 2 * Cardinality(PairsOfRound(n))
    <2>1. IsFiniteSet(Members \ ByesOf(n))
        BY MembersAssumption, FS_Subset
    <2>2. Cardinality(Members \ ByesOf(n)) = 2 * Cardinality(PairsOfRound(n))
        BY <1>1, <2>1, MatchingHalves
    <2> QED BY <1>2, <2>2
<1>4. ByesOf(n) = Members \ playing
    BY <1>1, <1>2
<1>5. PairsOfRound(n) \intersect MetBefore(n) # {} =>
          \A pairs \in PerfectPairings(playing) : pairs \intersect MetBefore(n) # {}
    BY <1>2 DEF TournamentInv, RepeatsForced
<1> HIDE DEF playing
<1>6. {y.wallet : y \in {z \in byes : z.round = n}} = Members \ playing
    BY <1>4 DEF ByesOf
<1> QED BY <1>3, <1>5, <1>6 DEF playing

(***************************************************************************)
(* RepeatsOnlyWhenForced: a round with a pair that has met before is one   *)
(* whose players have no pairing without such a pair, and every member is  *)
(* in one battle of the round or has its bye.                              *)
(***************************************************************************)
THEOREM RepeatsAlwaysForced == TournamentSpec => []RepeatsOnlyWhenForced
BY RepeatsAreForced, TournamentKeeps, PTL

LEMMA FinishedAreSound ==
    ASSUME TournamentInv
    PROVE  /\ Sound(Finished, EarnedByes) /\ Finished \subseteq pairings
           /\ EarnedByes \subseteq byes
<1>1. RowsTyped
    BY DEF TournamentInv
<1>2. Finished \subseteq pairings /\ EarnedByes \subseteq byes
    BY DEF Finished, EarnedByes
<1>3. IsFiniteSet(Finished) /\ IsFiniteSet(EarnedByes)
    BY <1>1, <1>2, FS_Subset DEF RowsTyped
<1>4. \A f \in Finished : f.a \in Members /\ f.b \in Members /\ f.a # f.b /\ f.margin \in Int
    BY <1>1, <1>2 DEF RowsTyped, Row
<1>5. \A y \in EarnedByes : y.wallet \in Members
    BY <1>1, <1>2 DEF RowsTyped
<1> QED BY <1>2, <1>3, <1>4, <1>5 DEF Sound

LEMMA StandingsAreConsistent ==
    ASSUME TournamentInv
    PROVE  ~ Inconsistent(Finished, EarnedByes)
<1>1. RowsTyped /\ OneRowAPair /\ RoundsMatch
    BY DEF TournamentInv
<1>2. /\ Sound(Finished, EarnedByes) /\ Finished \subseteq pairings
      /\ EarnedByes \subseteq byes
    BY FinishedAreSound
<1>3. \A f \in Finished : {f.a, f.b} \subseteq Members /\ f.a # f.b
    BY <1>2 DEF Sound
<1>4. \A y \in EarnedByes : y.wallet \in Members
    BY <1>2 DEF Sound
<1>5. \A f \in pairings : f.round \in RoundsPaired /\ {f.a, f.b} \in PairsOfRound(f.round)
    BY DEF RoundsPaired, PairsOfRound
<1>6. ASSUME NEW f \in Finished, NEW g \in Finished, f # g, f.round = g.round,
             {f.a, f.b} \intersect {g.a, g.b} # {}
      PROVE  FALSE
    <2>1. {f.a, f.b} = {g.a, g.b}
        <3> DEFINE x == {f.a, f.b}
                   y == {g.a, g.b}
        <3>1. x \in PairsOfRound(f.round) /\ y \in PairsOfRound(f.round)
            BY <1>2, <1>5, <1>6
        <3>2. PerfectMatching(PairsOfRound(f.round), Members \ ByesOf(f.round))
            BY <1>1, <1>2, <1>5 DEF RoundsMatch
        <3>3. x \intersect y # {}
            BY <1>6
        <3> HIDE DEF x, y
        <3>4. x = y
            BY <3>1, <3>2, <3>3 DEF PerfectMatching
        <3> QED BY <3>4 DEF x, y
    <2> QED BY <1>1, <1>2, <1>6, <2>1 DEF OneRowAPair
<1>7. ASSUME NEW f \in Finished, NEW y \in EarnedByes, f.round = y.round,
             y.wallet \in {f.a, f.b}
      PROVE  FALSE
    <2>1. UNION PairsOfRound(f.round) = Members \ ByesOf(f.round)
        BY <1>1, <1>2, <1>5 DEF RoundsMatch, PerfectMatching
    <2>2. y.wallet \in UNION PairsOfRound(f.round)
        BY <1>2, <1>5, <1>7
    <2>3. y.wallet \in ByesOf(f.round)
        BY <1>2, <1>7 DEF ByesOf
    <2> QED BY <2>1, <2>2, <2>3
<1>8. ASSUME NEW f \in Finished
      PROVE  ~ \/ f.result = "PLAYER_A" /\ f.margin <= 0
               \/ f.result = "PLAYER_B" /\ f.margin >= 0
               \/ f.result = "DRAW" /\ f.margin # 0
    <2>1. f.margin \in Int /\ ScoresExplain(f)
        BY <1>1, <1>2 DEF RowsTyped, Row
    <2> QED BY <2>1 DEF ScoresExplain
<1> QED BY <1>3, <1>4, <1>6, <1>7, <1>8 DEF Inconsistent

LEMMA StandingsDoAddUp == TournamentInv => StandingsAddUp
<1> SUFFICES ASSUME TournamentInv PROVE StandingsAddUp
    OBVIOUS
<1>1. Sound(Finished, EarnedByes)
    BY FinishedAreSound
<1>2. ~ Inconsistent(Finished, EarnedByes)
    BY StandingsAreConsistent
<1>3. \A p \in Finished : p.result \in {"FORFEIT_A", "FORFEIT_B"} =>
          ~ WinsOf(IF p.result = "FORFEIT_A" THEN p.a ELSE p.b, p)
    BY <1>1 DEF Sound, WinsOf
<1>4. PointsAddUp
    BY <1>1, PointsOfAll DEF PointsAddUp, Decided, Drawn
<1>5. OpponentsAddUp
    BY <1>1, OpponentsOfAll DEF OpponentsAddUp
<1>6. MarginsAddUp
    BY <1>1, MarginsOfAll DEF MarginsAddUp
<1>7. RanksHaveNoGaps
    <2> SUFFICES ASSUME NEW key \in Keys
                 PROVE  {Rank(Finished, EarnedByes, key, w) : w \in Members}
                            = 1..Cardinality(Members)
        BY DEF RanksHaveNoGaps
    <2>1. key \in [Members -> Int] /\ IsInjective(key)
        BY KeysAssumption
    <2> QED BY <1>1, <2>1, RanksOfAll
<1> QED BY <1>2, <1>3, <1>4, <1>5, <1>6, <1>7 DEF StandingsAddUp

(***************************************************************************)
(* StandingsAddUp: at any moment of a tournament, with any results, the    *)
(* standings are consistent, the points, the opponents' points and the     *)
(* margins add up over the members, and the ranks have no gaps.            *)
(***************************************************************************)
THEOREM StandingsAlwaysAddUp == TournamentSpec => []StandingsAddUp
BY StandingsDoAddUp, TournamentKeeps, PTL

-----------------------------------------------------------------------------
(***************************************************************************)
(* The selection loop. Its masks are numbers: those below 2^n, read by     *)
(* their bits, are all the subsets of n accounts.                          *)
(***************************************************************************)
LEMMA PowersOfTwo ==
    /\ 2^0 = 1
    /\ \A n \in Nat : 2^n \in Nat /\ 2^(n + 1) = 2 * 2^n
<1>1. 2^0 = 1
    OBVIOUS
<1>2. ASSUME NEW n \in Nat PROVE 2^n \in Nat /\ 2^(n + 1) = 2 * 2^n
    <2> DEFINE S == 1..n
               P == SUBSET S
               N == {A \union {n + 1} : A \in P}
               f == [A \in P |-> A \union {n + 1}]
    <2>1. /\ IsFiniteSet(S) /\ Cardinality(S) = n
          /\ IsFiniteSet(1..(n + 1)) /\ Cardinality(1..(n + 1)) = n + 1
        BY FS_Interval
    <2>2. /\ IsFiniteSet(P) /\ Cardinality(P) = 2^n
          /\ Cardinality(SUBSET (1..(n + 1))) = 2^(n + 1)
        BY <2>1, FS_SUBSET
    <2>3. n + 1 \notin S /\ 1..(n + 1) = S \union {n + 1}
        OBVIOUS
    <2>4. Cardinality(P) \in Nat
        BY <2>2, FS_CardinalityType
    <2>5. f \in Bijection(P, N)
        <3>1. \A A, B \in P : f[A] = f[B] => A = B
            BY <2>3
        <3>2. f \in [P -> N] /\ \A y \in N : \E A \in P : f[A] = y
            OBVIOUS
        <3> HIDE DEF f, N, P
        <3> QED BY <3>1, <3>2 DEF Bijection, Injection, Surjection, IsInjective
    <2>6. IsFiniteSet(N) /\ Cardinality(N) = Cardinality(P)
        <3> HIDE DEF f, N, P
        <3>1. ExistsBijection(P, N)
            BY <2>5 DEF ExistsBijection
        <3> QED BY <2>2, <3>1, FS_Bijection
    <2>7. SUBSET (1..(n + 1)) = P \union N /\ P \intersect N = {}
        <3>1. ASSUME NEW A \in SUBSET (1..(n + 1)) PROVE A \in P \union N
            <4>1. CASE n + 1 \in A
                <5>1. A \ {n + 1} \in P /\ A = (A \ {n + 1}) \union {n + 1}
                    BY <2>3, <4>1
                <5> QED BY <5>1
            <4>2. CASE n + 1 \notin A
                BY <2>3, <4>2
            <4> QED BY <4>1, <4>2
        <3>2. ASSUME NEW A \in P \union N PROVE A \in SUBSET (1..(n + 1))
            BY <2>3
        <3>3. P \intersect N = {}
            BY <2>3
        <3> QED BY <3>1, <3>2, <3>3
    <2>8. Cardinality(P \union N) = Cardinality(P) + Cardinality(N)
        <3> HIDE DEF P, N
        <3>1. Cardinality(P \intersect N) = 0
            BY <2>7, FS_EmptySet
        <3>2. IsFiniteSet(P) /\ IsFiniteSet(N)
            BY <2>2, <2>6
        <3>3. Cardinality(P \union N) = Cardinality(P) + Cardinality(N) - Cardinality(P \intersect N)
            BY <3>2, FS_Union
        <3> QED BY <2>4, <2>6, <3>1, <3>3
    <2> HIDE DEF P, N, S
    <2> QED BY <2>2, <2>4, <2>6, <2>7, <2>8
<1> QED BY <1>1, <1>2

LEMMA TwoPowersArePositive ==
    ASSUME NEW n \in Nat
    PROVE  2^n # 0
<1> DEFINE P == SUBSET (1..n)
<1>1. IsFiniteSet(P) /\ Cardinality(P) = 2^n
    <2>1. IsFiniteSet(1..n) /\ Cardinality(1..n) = n
        BY FS_Interval
    <2> QED BY <2>1, FS_SUBSET
<1>2. P # {}
    OBVIOUS
<1> HIDE DEF P
<1> QED BY <1>1, <1>2, FS_EmptySet

LEMMA QuotientIsUnique ==
    ASSUME NEW a \in Int, NEW b \in Nat \ {0}, NEW q \in Int,
           b * q <= a, a < b * q + b
    PROVE  a \div b = q
OBVIOUS

LEMMA QuotientOfDouble ==
    ASSUME NEW k \in Nat, NEW e \in {0, 1}, NEW d \in Nat \ {0}
    PROVE  (2 * k + e) \div (2 * d) = k \div d
<1> DEFINE q == k \div d
           p == d * q
<1>1. q \in Int /\ p \in Int /\ p <= k /\ k < p + d
    OBVIOUS
<1>2. (2 * d) * q = 2 * p
    BY <1>1
<1>3. 2 * p <= 2 * k + e /\ 2 * k + e < 2 * p + 2 * d
    <2> HIDE DEF p, q
    <2> QED BY <1>1
<1>4. 2 * d \in Nat \ {0} /\ 2 * k + e \in Int
    OBVIOUS
<1> HIDE DEF p, q
<1>5. (2 * k + e) \div (2 * d) = q
    BY <1>1, <1>2, <1>3, <1>4, QuotientIsUnique
<1> QED BY <1>5 DEF q

BitsOf(k, n) == {i \in 1..n : (k \div 2^(i - 1)) % 2 = 1}

LEMMA MasksCoverSubsets ==
    ASSUME NEW n \in Nat, NEW T \in SUBSET (1..n)
    PROVE  \E k \in 0..(2^n - 1) : BitsOf(k, n) = T
<1> DEFINE covered(m) == \A U \in SUBSET (1..m) : \E k \in 0..(2^m - 1) : BitsOf(k, m) = U
           bad == {m \in Nat : ~ covered(m)}
<1>1. SUFFICES ASSUME bad # {} PROVE FALSE
    OBVIOUS
<1>2. PICK m \in bad : \A l \in bad : m <= l
    <2>1. bad \subseteq Nat
        OBVIOUS
    <2> HIDE DEF bad
    <2> QED BY <1>1, <2>1, LeastNatural
<1>3. PICK U \in SUBSET (1..m) : \A k \in 0..(2^m - 1) : BitsOf(k, m) # U
    OBVIOUS
<1>4. m \in Nat
    OBVIOUS
<1>5. m # 0
    <2> SUFFICES ASSUME m = 0 PROVE FALSE
        OBVIOUS
    <2>1. U = {} /\ 0 \in 0..(2^m - 1)
        BY PowersOfTwo
    <2>2. BitsOf(0, m) = {}
        BY DEF BitsOf
    <2> QED BY <1>3, <2>1, <2>2
<1> DEFINE V == {i \in 1..(m - 1) : i + 1 \in U}
<1>6. PICK k \in 0..(2^(m - 1) - 1) : BitsOf(k, m - 1) = V
    <2>1. m - 1 \in Nat /\ m - 1 \notin bad
        <3> HIDE DEF bad
        <3> QED BY <1>2, <1>4, <1>5
    <2>2. covered(m - 1)
        BY <2>1
    <2>3. V \in SUBSET (1..(m - 1))
        OBVIOUS
    <2> HIDE DEF V, bad
    <2> QED BY <2>2, <2>3
<1> DEFINE e == IF 1 \in U THEN 1 ELSE 0
           c == 2 * k + e
<1>7. 2^m = 2 * 2^(m - 1) /\ 2^(m - 1) \in Nat
    <2>1. m - 1 \in Nat /\ (m - 1) + 1 = m
        BY <1>4, <1>5
    <2> QED BY <2>1, PowersOfTwo
<1>8. k \in Nat /\ e \in {0, 1} /\ c \in 0..(2^m - 1)
    BY <1>6, <1>7
<1>9. \A i \in 1..m : (c \div 2^(i - 1)) % 2 = 1 <=> i \in U
    <2> TAKE i \in 1..m
    <2>1. CASE i = 1
        <3>1. 2^(i - 1) = 1
            BY <2>1, PowersOfTwo
        <3>2. c \div 2^(i - 1) = c
            BY <1>8, <3>1
        <3>3. c % 2 = e
            BY <1>8
        <3>4. e = 1 <=> 1 \in U
            OBVIOUS
        <3> HIDE DEF c, e
        <3> QED BY <2>1, <3>2, <3>3, <3>4
    <2>2. CASE i # 1
        <3> DEFINE j == i - 1
                   d == 2^(j - 1)
        <3>1. j \in 1..(m - 1) /\ j + 1 = i /\ j - 1 \in Nat /\ (j - 1) + 1 = j
            BY <1>4, <2>2
        <3>2. 2^j = 2 * d /\ d \in Nat /\ d # 0
            <4>1. 2^j = 2 * d /\ d \in Nat
                BY <3>1, PowersOfTwo
            <4>2. d # 0
                BY <3>1, TwoPowersArePositive
            <4> QED BY <4>1, <4>2
        <3>3. c \div 2^j = k \div d
            <4> HIDE DEF e, d
            <4> QED BY <1>8, <3>2, QuotientOfDouble
        <3>4. (k \div d) % 2 = 1 <=> j \in V
            BY <1>6, <3>1 DEF BitsOf
        <3>5. j \in V <=> i \in U
            BY <3>1
        <3>6. (c \div 2^(i - 1)) % 2 = 1 <=> (k \div d) % 2 = 1
            BY <3>3
        <3> HIDE DEF c, V, d
        <3> QED BY <3>4, <3>5, <3>6
    <2> QED BY <2>1, <2>2
<1>10. BitsOf(c, m) = U
    BY <1>9 DEF BitsOf
<1> HIDE DEF c
<1> QED BY <1>3, <1>8, <1>10

-----------------------------------------------------------------------------
(***************************************************************************)
(* The keys of a set in their order. The loop compares these lists at the  *)
(* first difference, which is the order of the sets.                       *)
(***************************************************************************)
LEMMA KeysCanBeSorted ==
    ASSUME NEW S, S \subseteq Nat, IsFiniteSet(S)
    PROVE  \E s \in [1..Cardinality(S) -> S] :
               \A i, j \in 1..Cardinality(S) : i < j => s[i] < s[j]
<1> DEFINE R == {vw \in S \X S : vw[1] < vw[2]}
           under(w) == {v \in S \ {w} : <<v, w>> \in R}
           place(w) == 1 + Cardinality(under(w))
           n == Cardinality(S)
<1>1. \A v, w \in S : <<v, w>> \in R <=> v < w
    <2> TAKE v, w \in S
    <2>1. <<v, w>> \in S \X S /\ <<v, w>>[1] = v /\ <<v, w>>[2] = w
        OBVIOUS
    <2> QED BY <2>1
<1>2. StrictOrderOn(R, S) /\ \A v, w \in S : v # w => <<v, w>> \in R \/ <<w, v>> \in R
    <2> HIDE DEF R
    <2> QED BY <1>1 DEF StrictOrderOn
<1>3. {place(w) : w \in S} = 1..n
    <2> HIDE DEF R
    <2> QED BY <1>2, RanksOfOrder
<1>4. \A w \in S : under(w) = {v \in S : v < w}
    BY <1>1
<1>5. \A w \in S : IsFiniteSet(under(w)) /\ Cardinality(under(w)) \in Nat
    BY FS_Subset, FS_CardinalityType
<1> HIDE DEF R, under
<1> DEFINE s == [k \in 1..n |-> CHOOSE w \in S : place(w) = k]
<1>6. \A k \in 1..n : s[k] \in S /\ place(s[k]) = k
    <2> TAKE k \in 1..n
    <2>1. \E w \in S : place(w) = k
        BY <1>3
    <2> HIDE DEF place
    <2> QED BY <2>1
<1>7. ASSUME NEW i \in 1..n, NEW j \in 1..n, i < j PROVE s[i] < s[j]
    <2>1. /\ s[i] \in S /\ s[j] \in S /\ s[i] \in Nat /\ s[j] \in Nat
          /\ place(s[i]) = i /\ place(s[j]) = j
        BY <1>6
    <2> HIDE DEF s
    <2> SUFFICES ASSUME s[j] <= s[i] PROVE FALSE
        BY <2>1
    <2>2. under(s[j]) \subseteq under(s[i])
        <3>1. under(s[j]) = {v \in S : v < s[j]} /\ under(s[i]) = {v \in S : v < s[i]}
            BY <1>4, <2>1
        <3>2. \A v \in S : v < s[j] => v < s[i]
            BY <2>1
        <3> QED BY <3>1, <3>2
    <2>3. Cardinality(under(s[j])) <= Cardinality(under(s[i]))
        BY <1>5, <2>1, <2>2, FS_Subset
    <2> QED BY <1>5, <1>7, <2>1, <2>3
<1>8. s \in [1..n -> S]
    BY <1>6
<1> HIDE DEF s
<1> QED BY <1>7, <1>8

LEMMA SortedKeysList ==
    ASSUME NEW S, S \subseteq Nat, IsFiniteSet(S)
    PROVE  /\ SortedKeys(S) \in [1..Cardinality(S) -> S] /\ Cardinality(S) \in Nat
           /\ \A i, j \in 1..Cardinality(S) : i < j => SortedKeys(S)[i] < SortedKeys(S)[j]
           /\ Len(SortedKeys(S)) = Cardinality(S) /\ ToSet(SortedKeys(S)) = S
<1> DEFINE s == SortedKeys(S)
           n == Cardinality(S)
<1>1. s \in [1..n -> S] /\ \A i, j \in 1..n : i < j => s[i] < s[j]
    BY KeysCanBeSorted DEF SortedKeys
<1>2. n \in Nat
    BY FS_CardinalityType
<1> HIDE DEF s
<1>3. s \in Seq(S) /\ Len(s) = n
    BY <1>1, <1>2
<1>4. ToSet(s) = S
    <2>1. DOMAIN s = 1..n /\ ToSet(s) \subseteq S
        BY <1>1 DEF ToSet
    <2>2. \A i, j \in 1..n : s[i] = s[j] => i = j
        <3> TAKE i, j \in 1..n
        <3>1. s[i] \in Nat
            BY <1>1
        <3>2. i < j \/ j < i \/ i = j
            BY <1>2
        <3>3. (i < j => s[i] < s[j]) /\ (j < i => s[j] < s[i])
            BY <1>1
        <3> QED BY <3>1, <3>2, <3>3
    <2>3. s \in Bijection(1..n, ToSet(s))
        BY <1>1, <2>1, <2>2 DEF Bijection, Injection, Surjection, IsInjective, ToSet
    <2>4. IsFiniteSet(1..n) /\ Cardinality(1..n) = n
        BY <1>2, FS_Interval
    <2>5. Cardinality(ToSet(s)) = n
        <3>1. ExistsBijection(1..n, ToSet(s))
            BY <2>3 DEF ExistsBijection
        <3> QED BY <2>4, <3>1, FS_Bijection
    <2> QED BY <2>1, <2>5, FS_Subset
<1> QED BY <1>1, <1>2, <1>3, <1>4 DEF s

LEMMA FirstDifferenceIs ==
    ASSUME NEW S \in SUBSET Attestors, NEW T \in SUBSET Attestors, NEW x \in S \ T,
           \A y \in Nat : y < x => (y \in S <=> y \in T)
    PROVE  Precedes(S, T)
<1> DEFINE d == Min(SymDiff(S, T))
<1>1. S # T /\ x \in Attestors /\ x \in Nat
    BY AttestorsAssumption
<1>2. /\ d \in Nat /\ (d \in S <=> d \notin T)
      /\ \A k \in Attestors : (k \in S <=> k \notin T) => d <= k
    BY <1>1, FirstDifference
<1> HIDE DEF d
<1>3. d <= x /\ ~ (d < x)
    BY <1>1, <1>2
<1>4. d = x
    BY <1>1, <1>2, <1>3
<1> QED BY <1>1, <1>4 DEF Precedes, d

LEMMA KeysBeforeIsPrecedes ==
    ASSUME NEW S \in SUBSET Attestors, NEW T \in SUBSET Attestors,
           Cardinality(S) = Cardinality(T)
    PROVE  KeysBefore(SortedKeys(S), SortedKeys(T)) <=> Precedes(S, T)
<1> DEFINE s == SortedKeys(S)
           t == SortedKeys(T)
           n == Cardinality(S)
<1>1. S \subseteq Nat /\ IsFiniteSet(S) /\ T \subseteq Nat /\ IsFiniteSet(T)
    BY AttestorsAssumption, FS_Subset
<1>2. /\ s \in [1..n -> S] /\ n \in Nat /\ ToSet(s) = S /\ Len(s) = n
      /\ \A i, j \in 1..n : i < j => s[i] < s[j]
    BY <1>1, SortedKeysList
<1>3. /\ t \in [1..n -> T] /\ ToSet(t) = T /\ Len(t) = n
      /\ \A i, j \in 1..n : i < j => t[i] < t[j]
    BY <1>1, SortedKeysList
<1>4. /\ \A x : x \in S <=> \E i \in 1..n : s[i] = x
      /\ \A x : x \in T <=> \E i \in 1..n : t[i] = x
    BY <1>2, <1>3 DEF ToSet
<1> HIDE DEF s, t, n
<1> DEFINE part(k) == k \in 1..n /\ s[k] # t[k] /\ \A j \in 1..(k - 1) : s[j] = t[j]
<1>5. KeysBefore(s, t) <=> \E k \in 1..n : s[k] < t[k] /\ \A j \in 1..(k - 1) : s[j] = t[j]
    BY <1>2, <1>3 DEF KeysBefore
<1>6. \A i \in 1..n : s[i] \in Nat /\ t[i] \in Nat
    BY <1>1, <1>2, <1>3
\* Where the lists part, the smaller key is the first difference of the sets.
<1>7. ASSUME NEW k \in 1..n, part(k)
      PROVE  Precedes(S, T) <=> s[k] < t[k]
    <2>1. \A j \in 1..n : j < k => s[j] = t[j]
        BY <1>2, <1>7
    <2>2. s[k] < t[k] => s[k] \in S \ T /\ \A x \in Nat : x < s[k] => (x \in S <=> x \in T)
        <3> SUFFICES ASSUME s[k] < t[k]
                     PROVE  s[k] \in S \ T /\ \A x \in Nat : x < s[k] => (x \in S <=> x \in T)
            OBVIOUS
        <3>1. \A j \in 1..n : s[k] <= s[j] \/ (j < k /\ s[j] = t[j])
            BY <1>2, <1>6, <2>1
        <3>2. \A j \in 1..n : s[k] < t[j] \/ (j < k /\ s[j] = t[j])
            BY <1>2, <1>3, <1>6, <2>1
        <3>3. \A j \in 1..n : j < k => s[j] < s[k]
            BY <1>2
        <3> QED BY <1>4, <1>6, <3>1, <3>2, <3>3
    <2>3. t[k] < s[k] => t[k] \in T \ S /\ \A x \in Nat : x < t[k] => (x \in S <=> x \in T)
        <3> SUFFICES ASSUME t[k] < s[k]
                     PROVE  t[k] \in T \ S /\ \A x \in Nat : x < t[k] => (x \in S <=> x \in T)
            OBVIOUS
        <3>1. \A j \in 1..n : t[k] <= t[j] \/ (j < k /\ s[j] = t[j])
            BY <1>2, <1>3, <1>6, <2>1
        <3>2. \A j \in 1..n : t[k] < s[j] \/ (j < k /\ s[j] = t[j])
            <4> TAKE j \in 1..n
            <4>1. j < k \/ j = k \/ k < j
                BY <1>2
            <4>2. k < j => s[k] < s[j]
                BY <1>2
            <4>3. s[j] \in Nat /\ s[k] \in Nat /\ t[k] \in Nat
                BY <1>6
            <4> QED BY <2>1, <4>1, <4>2, <4>3
        <3>3. \A j \in 1..n : j < k => t[j] < t[k]
            BY <1>3
        <3> QED BY <1>4, <1>6, <3>1, <3>2, <3>3
    <2>4. s[k] < t[k] => Precedes(S, T)
        BY <1>1, <1>6, <2>2, FirstDifferenceIs
    <2>5. t[k] < s[k] => Precedes(T, S)
        BY <1>1, <1>6, <2>3, FirstDifferenceIs
    <2>6. S # T
        BY <1>6, <1>7, <2>2, <2>3
    <2> QED BY <1>6, <1>7, <2>4, <2>5, <2>6, PrecedesIsTotal
<1>8. CASE \E k \in 1..n : s[k] # t[k]
    <2> DEFINE apart == {k \in 1..n : s[k] # t[k]}
    <2>1. PICK k \in apart : \A j \in apart : k <= j
        <3>1. apart \subseteq Nat /\ apart # {}
            BY <1>2, <1>8
        <3> HIDE DEF apart
        <3> QED BY <3>1, LeastNatural
    <2>2. k \in 1..n /\ s[k] # t[k]
        OBVIOUS
    <2>3. \A j \in 1..(k - 1) : s[j] = t[j]
        <3> TAKE j \in 1..(k - 1)
        <3>1. j \in 1..n /\ ~ (k <= j)
            BY <1>2, <2>2
        <3> QED BY <2>1, <3>1
    <2>4. Precedes(S, T) <=> s[k] < t[k]
        BY <1>7, <2>2, <2>3
    <2>5. KeysBefore(s, t) <=> s[k] < t[k]
        <3>1. ASSUME NEW l \in 1..n, s[l] < t[l], \A j \in 1..(l - 1) : s[j] = t[j]
              PROVE  l = k
            <4>1. ~ (l < k)
                <5> SUFFICES ASSUME l < k PROVE FALSE
                    OBVIOUS
                <5>1. l \in 1..(k - 1)
                    BY <1>2, <2>2
                <5> QED BY <1>6, <2>3, <3>1, <5>1
            <4>2. ~ (k < l)
                <5> SUFFICES ASSUME k < l PROVE FALSE
                    OBVIOUS
                <5>1. k \in 1..(l - 1)
                    BY <1>2, <2>2
                <5> QED BY <2>2, <3>1, <5>1
            <4> QED BY <1>2, <2>2, <4>1, <4>2
        <3> QED BY <1>5, <2>2, <2>3, <3>1
    <2> QED BY <2>4, <2>5 DEF s, t
<1>9. CASE \A k \in 1..n : s[k] = t[k]
    <2>1. S = T
        BY <1>4, <1>9
    <2>2. ~ Precedes(S, T)
        BY <2>1 DEF Precedes
    <2>3. ~ KeysBefore(s, t)
        BY <1>5, <1>6, <1>9
    <2> QED BY <2>2, <2>3 DEF s, t
<1> QED BY <1>8, <1>9


-----------------------------------------------------------------------------
(***************************************************************************)
(* The accounts as listed are reports of the attestors in the list.        *)
(***************************************************************************)
LEMMA ListsAreReports ==
    ASSUME accounts \in AccountLists
    PROVE  /\ Len(accounts) \in Nat /\ DOMAIN accounts = 1..Len(accounts)
           /\ reports \in ReportFunctions
           /\ \A i \in 1..Len(accounts) : accounts[i].attestor \in Reporters(reports)
           /\ \A a \in Reporters(reports) : \E i \in 1..Len(accounts) : accounts[i].attestor = a
           /\ \A i, j \in 1..Len(accounts) :
                  accounts[i].attestor = accounts[j].attestor => i = j
<1>1. PICK n \in 0..Cardinality(Attestors) :
          /\ accounts \in [1..n -> [attestor : Attestors, price : Prices]]
          /\ \A i, j \in 1..n : i # j => accounts[i].attestor # accounts[j].attestor
    BY DEF AccountLists
<1>2. n \in Nat
    BY <1>1, AttestorsAssumption, FS_CardinalityType
<1>3. Len(accounts) = n /\ DOMAIN accounts = 1..n
    BY <1>1, <1>2
<1>4. ASSUME NEW i \in 1..n PROVE accounts[i].attestor \in Attestors /\ accounts[i].price \in Prices
    BY <1>1
<1>5. ASSUME NEW a \in Attestors
      PROVE  /\ reports[a] \in Nat
             /\ reports[a] # NoReport <=> \E i \in 1..n : accounts[i].attestor = a
    <2>1. CASE \E i \in 1..n : accounts[i].attestor = a
        <3> DEFINE k == CHOOSE i \in DOMAIN accounts : accounts[i].attestor = a
        <3>1. k \in 1..n
            BY <1>3, <2>1
        <3>2. reports[a] = accounts[k].price
            BY <1>3, <2>1 DEF reports
        <3> HIDE DEF k
        <3>3. reports[a] \in Prices
            BY <1>4, <3>1, <3>2
        <3> QED BY <2>1, <3>3, ReportedPricesAssumption
    <2>2. CASE ~ \E i \in 1..n : accounts[i].attestor = a
        BY <1>3, <2>2 DEF reports, NoReport
    <2> QED BY <2>1, <2>2
<1>6. reports \in ReportFunctions
    <2>1. \A a \in Attestors : reports[a] \in Nat
        BY <1>5
    <2>2. reports = [a \in Attestors |-> reports[a]]
        BY DEF reports
    <2> QED BY <2>1, <2>2 DEF ReportFunctions
<1>7. \A a : a \in Reporters(reports) <=> a \in Attestors /\ reports[a] # NoReport
    BY DEF Reporters
<1> QED BY <1>1, <1>2, <1>3, <1>4, <1>5, <1>6, <1>7

(***************************************************************************)
(* The candidates that the masks below k stand for, and what the loop has  *)
(* kept of them: none, or the keys of one that is better than the others.  *)
(***************************************************************************)
Picked(list, k) == {list[i].attestor : i \in BitsOf(k, Len(list))}

Tried(list, r, k) == {Picked(list, j) : j \in 0..(k - 1)} \cap CompatibleSets(r)

KeepsBest(r, tried, kept) ==
    \/ tried = {} /\ kept = <<>>
    \/ \E B \in tried :
           /\ kept = SortedKeys(B)
           /\ \A S \in tried : S = B \/ Better(r, B, S)

ScanInv ==
    /\ accounts \in AccountLists
    /\ mask \in 0..2^Len(accounts)
    /\ KeepsBest(reports, Tried(accounts, reports, mask), best)

LEMMA SelectedIsPicked ==
    ASSUME accounts \in AccountLists
    PROVE  Selected = Picked(accounts, mask) /\ Selected \in SUBSET Reporters(reports)
<1>1. {j \in DOMAIN accounts : InMask(j)} = BitsOf(mask, Len(accounts))
    BY ListsAreReports DEF BitsOf, InMask
<1>2. \A i \in BitsOf(mask, Len(accounts)) : i \in 1..Len(accounts)
    BY DEF BitsOf
<1>3. Selected = Picked(accounts, mask)
    BY <1>1 DEF Selected, Picked
<1>4. \A i \in BitsOf(mask, Len(accounts)) : accounts[i].attestor \in Reporters(reports)
    BY <1>2, ListsAreReports
<1> QED BY <1>3, <1>4 DEF Picked

(***************************************************************************)
(* Against what the loop has kept, a candidate improves exactly when the   *)
(* rule of the quorum calls it better.                                     *)
(***************************************************************************)
LEMMA ImprovesIsBetter ==
    ASSUME reports \in ReportFunctions,
           NEW S \in CompatibleSets(reports), NEW B \in CompatibleSets(reports)
    PROVE  /\ Improves(S, <<>>)
           /\ Improves(S, SortedKeys(B)) <=> Better(reports, S, B)
<1>1. /\ Cardinality(S) \in Nat /\ Cardinality(S) >= 2 /\ S \in SUBSET Attestors
      /\ B \in SUBSET Attestors
    BY CandidatesAreMeasured
<1>2. B \subseteq Nat /\ IsFiniteSet(B)
    BY <1>1, AttestorsAssumption, FS_Subset
<1>3. Len(SortedKeys(B)) = Cardinality(B) /\ ToSet(SortedKeys(B)) = B
    BY <1>2, SortedKeysList
<1>4. Improves(S, <<>>)
    <2>1. Len(<<>>) = 0
        OBVIOUS
    <2> QED BY <1>1, <2>1 DEF Improves
<1>5. Cardinality(S) = Cardinality(B) =>
          (KeysBefore(SortedKeys(S), SortedKeys(B)) <=> Precedes(S, B))
    BY <1>1, KeysBeforeIsPrecedes
<1> QED BY <1>3, <1>4, <1>5 DEF Improves, Better

LEMMA ScanAdvances ==
    ASSUME reports \in ReportFunctions,
           NEW tried \in SUBSET CompatibleSets(reports), NEW kept,
           KeepsBest(reports, tried, kept),
           NEW S \in CompatibleSets(reports)
    PROVE  /\ Improves(S, kept) =>
                  KeepsBest(reports, tried \cup {S}, SortedKeys(S))
           /\ ~ Improves(S, kept) => KeepsBest(reports, tried \cup {S}, kept)
<1> DEFINE r == reports
<1>1. CASE tried = {} /\ kept = <<>>
    BY <1>1, ImprovesIsBetter DEF KeepsBest
<1>2. ASSUME NEW B \in tried, kept = SortedKeys(B),
             \A T \in tried : T = B \/ Better(r, B, T)
      PROVE  /\ Improves(S, kept) => KeepsBest(r, tried \cup {S}, SortedKeys(S))
             /\ ~ Improves(S, kept) => KeepsBest(r, tried \cup {S}, kept)
    <2>1. Improves(S, kept) <=> Better(r, S, B)
        BY <1>2, ImprovesIsBetter
    <2>2. /\ \A V, W \in CompatibleSets(r) :
                 V # W => (Better(r, V, W) <=> ~ Better(r, W, V))
          /\ \A U, V, W \in CompatibleSets(r) :
                 Better(r, U, V) /\ Better(r, V, W) => Better(r, U, W)
        BY BetterIsStrictTotalOrder
    <2>3. Better(r, S, B) => \A T \in tried \cup {S} : T = S \/ Better(r, S, T)
        BY <1>2, <2>2
    <2>4. ~ Better(r, S, B) => \A T \in tried \cup {S} : T = B \/ Better(r, B, T)
        BY <1>2, <2>2
    <2> HIDE DEF r
    <2> QED BY <1>2, <2>1, <2>3, <2>4 DEF KeepsBest
<1> QED BY <1>1, <1>2 DEF KeepsBest

-----------------------------------------------------------------------------
(***************************************************************************)
(* Every iteration keeps the best of the candidates met so far.            *)
(***************************************************************************)
LEMMA ScanStarts == Init => ScanInv
<1> SUFFICES ASSUME Init PROVE ScanInv
    OBVIOUS
<1>1. accounts \in AccountLists /\ mask = 0 /\ best = <<>>
    BY DEF Init
<1>2. Len(accounts) \in Nat /\ 2^Len(accounts) \in Nat
    <2>1. Len(accounts) \in Nat
        BY <1>1, ListsAreReports
    <2> QED BY <2>1, PowersOfTwo
<1>3. 0..(mask - 1) = {}
    BY <1>1
<1>4. Tried(accounts, reports, mask) = {}
    BY <1>3 DEF Tried
<1> QED BY <1>1, <1>2, <1>4 DEF ScanInv, KeepsBest

LEMMA ScanKeepsInv == ScanInv /\ [Next]_vars => ScanInv'
<1> SUFFICES ASSUME ScanInv, [Next]_vars PROVE ScanInv'
    OBVIOUS
<1>1. CASE UNCHANGED vars
    BY <1>1 DEF vars, ScanInv, reports
<1>2. CASE Next
    <2> DEFINE tried == Tried(accounts, reports, mask)
               found == {Selected} \cap CompatibleSets(reports)
    <2>1. /\ accounts \in AccountLists /\ mask \in 0..2^Len(accounts)
          /\ KeepsBest(reports, tried, best) /\ tried \in SUBSET CompatibleSets(reports)
        BY DEF ScanInv, Tried
    <2>2. /\ ~ Done /\ mask' = mask + 1 /\ accounts' = accounts
          /\ Skip \/ Keep \/ Replace
        BY <1>2 DEF Next
    <2>3. reports' = reports
        BY <2>2 DEF reports
    <2>4. Len(accounts) \in Nat /\ 2^Len(accounts) \in Nat /\ reports \in ReportFunctions
        <3>1. Len(accounts) \in Nat /\ reports \in ReportFunctions
            BY <2>1, ListsAreReports
        <3> QED BY <3>1, PowersOfTwo
    <2>5. mask \in Nat /\ mask + 1 \in 0..2^Len(accounts)
        BY <2>1, <2>2, <2>4 DEF Done
    <2>6. Tried(accounts, reports, mask + 1) = tried \cup found
        <3>1. 0..((mask + 1) - 1) = (0..(mask - 1)) \cup {mask}
            BY <2>5
        <3>2. Selected = Picked(accounts, mask)
            BY <2>1, SelectedIsPicked
        <3> QED BY <3>1, <3>2 DEF Tried
    <2>7. Compatible(reports, Selected) <=> Selected \in CompatibleSets(reports)
        BY <2>1, SelectedIsPicked DEF CompatibleSets
    <2>8. KeepsBest(reports, tried \cup found, best')
        <3>1. CASE Skip
            BY <2>1, <2>7, <3>1 DEF Skip
        <3>2. CASE Keep
            <4>1. found = {Selected} /\ Selected \in CompatibleSets(reports)
                  /\ ~ Improves(Selected, best) /\ best' = best
                BY <2>7, <3>2 DEF Keep
            <4> HIDE DEF tried, found
            <4> QED BY <2>1, <2>4, <4>1, ScanAdvances
        <3>3. CASE Replace
            <4>1. found = {Selected} /\ Selected \in CompatibleSets(reports)
                  /\ Improves(Selected, best) /\ best' = SortedKeys(Selected)
                BY <2>7, <3>3 DEF Replace
            <4> HIDE DEF tried, found
            <4> QED BY <2>1, <2>4, <4>1, ScanAdvances
        <3> QED BY <2>2, <3>1, <3>2, <3>3
    <2>9. KeepsBest(reports, Tried(accounts, reports, mask + 1), best')
        BY <2>6, <2>8
    <2> HIDE DEF tried, found
    <2> QED BY <2>1, <2>2, <2>3, <2>5, <2>9 DEF ScanInv
<1> QED BY <1>1, <1>2

LEMMA ScanKeeps == Spec => []ScanInv
BY ScanStarts, ScanKeepsInv, PTL DEF Spec

(***************************************************************************)
(* When the loop ends, every candidate has been met.                       *)
(***************************************************************************)
LEMMA EndedScanMetAll ==
    ASSUME ScanInv, Done
    PROVE  Tried(accounts, reports, mask) = CompatibleSets(reports)
<1> DEFINE n == Len(accounts)
<1>1. /\ n \in Nat /\ mask = 2^n
      /\ \A a \in Reporters(reports) : \E i \in 1..n : accounts[i].attestor = a
    BY ListsAreReports DEF ScanInv, Done
<1>2. ASSUME NEW S \in CompatibleSets(reports)
      PROVE  \E k \in 0..(mask - 1) : Picked(accounts, k) = S
    <2> DEFINE U == {i \in 1..n : accounts[i].attestor \in S}
    <2>1. S \in SUBSET Reporters(reports)
        BY DEF CompatibleSets
    <2>2. {accounts[i].attestor : i \in U} = S
        BY <1>1, <2>1
    <2>3. U \in SUBSET (1..n)
        OBVIOUS
    <2> HIDE DEF U, n
    <2>4. PICK k \in 0..(2^n - 1) : BitsOf(k, n) = U
        BY <1>1, <2>3, MasksCoverSubsets
    <2>5. Picked(accounts, k) = S
        BY <2>2, <2>4 DEF Picked, n
    <2> QED BY <1>1, <2>4, <2>5
<1> QED BY <1>2 DEF Tried

LEMMA EndedScanKeepsBest ==
    ASSUME ScanInv, Done
    PROVE  IF HasQuorum(reports)
           THEN best = SortedKeys(BestQuorum(reports)) /\ best # <<>>
                /\ ToSet(best) = BestQuorum(reports)
                /\ BestQuorum(reports) \in CompatibleSets(reports)
           ELSE best = <<>>
<1> DEFINE C == CompatibleSets(reports)
<1>1. KeepsBest(reports, C, best) /\ reports \in ReportFunctions
    BY EndedScanMetAll, ListsAreReports DEF ScanInv
<1>2. CASE ~ HasQuorum(reports)
    BY <1>1, <1>2 DEF HasQuorum, KeepsBest
<1>3. CASE HasQuorum(reports)
    <2>1. PICK B \in C : best = SortedKeys(B) /\ \A S \in C : S = B \/ Better(reports, B, S)
        BY <1>1, <1>3 DEF HasQuorum, KeepsBest
    <2>2. B = BestQuorum(reports)
        <3>1. /\ BestQuorum(reports) \in C
              /\ B = BestQuorum(reports) \/ ~ Better(reports, B, BestQuorum(reports))
            BY <1>1, <1>3, SelectionIsDeterministic
        <3> HIDE DEF C
        <3> QED BY <2>1, <3>1
    <2>3. B \subseteq Nat /\ IsFiniteSet(B) /\ B # {}
        BY <1>1, CandidatesAreMeasured, AttestorsAssumption
    <2>4. ToSet(best) = B
        BY <2>1, <2>3, SortedKeysList
    <2>5. best # <<>>
        <3>1. ToSet(<<>>) = {}
            BY DEF ToSet
        <3> QED BY <2>3, <2>4, <3>1
    <2> QED BY <1>3, <2>1, <2>2, <2>4, <2>5
<1> QED BY <1>2, <1>3

(***************************************************************************)
(* The loop of choose_compatible_quorum selects what the rule of the       *)
(* quorum names, whatever the attestors, their number, their prices and    *)
(* the order in which the finalizer lists their accounts.                  *)
(***************************************************************************)
THEOREM ScanAlwaysSelectsBest == Spec => []ScanSelectsBest
<1>1. ScanInv => ScanSelectsBest
    BY EndedScanKeepsBest DEF ScanSelectsBest
<1> QED BY <1>1, ScanKeeps, PTL

-----------------------------------------------------------------------------
(***************************************************************************)
(* Among three attestors, two that report the same price fix the price of  *)
(* the quorum: they are the median of three, and a pair with the third     *)
(* would be compatible only where all three are.                           *)
(***************************************************************************)
LEMMA PairHasTwo ==
    ASSUME NEW a, NEW b, a # b
    PROVE  IsFiniteSet({a, b}) /\ Cardinality({a, b}) = 2
<1>1. IsFiniteSet({a}) /\ Cardinality({a}) = 1
    BY FS_Singleton
<1>2. {a, b} = {a} \cup {b} /\ b \notin {a}
    OBVIOUS
<1> QED BY <1>1, <1>2, FS_AddElement

LEMMA TripleHasThree ==
    ASSUME NEW a, NEW b, NEW c, a # b, c # a, c # b
    PROVE  IsFiniteSet({a, b, c}) /\ Cardinality({a, b, c}) = 3
<1>1. {a, b, c} = {a, b} \cup {c} /\ c \notin {a, b}
    OBVIOUS
<1>2. IsFiniteSet({a, b}) /\ Cardinality({a, b}) = 2
    BY PairHasTwo
<1> QED BY <1>1, <1>2, FS_AddElement

LEMMA AgreeingPairIsMedian ==
    ASSUME NEW r \in ReportFunctions, NEW S \in SUBSET Reporters(r),
           Cardinality(S) = 3, NEW a \in S, NEW b \in S, a # b, r[a] = r[b]
    PROVE  MedianPrice(r, S) = r[a]
<1> DEFINE m == MedianPrice(r, S)
           under == {x \in S : r[x] < m}
           over == {x \in S : r[x] > m}
<1>1. S # {} /\ IsFiniteSet(S) /\ S \subseteq Attestors
    <2>1. S \subseteq Attestors /\ IsFiniteSet(S)
        BY AttestorsAssumption, FS_Subset DEF Reporters
    <2> QED BY <2>1, FS_EmptySet
<1>2. m \in PricesOf(r, S) /\ Cardinality(under) <= 3 \div 2 /\ Cardinality(over) <= 3 \div 2
    BY <1>1, MedianExists
<1>3. m \in Nat /\ r[a] \in Nat
    <2>1. \A x \in S : r[x] \in Nat
        BY <1>1 DEF ReportFunctions
    <2> QED BY <1>2, <2>1 DEF PricesOf
<1>4. Cardinality({a, b}) = 2
    BY PairHasTwo
<1>5. IsFiniteSet(under) /\ IsFiniteSet(over)
    BY <1>1, FS_Subset
<1>6. Cardinality(under) \in Nat /\ Cardinality(over) \in Nat
    BY <1>5, FS_CardinalityType
<1>7. ~ (r[a] < m)
    <2> SUFFICES ASSUME r[a] < m PROVE FALSE
        OBVIOUS
    <2>1. {a, b} \subseteq under
        OBVIOUS
    <2> HIDE DEF under, m
    <2>2. 2 <= Cardinality(under)
        BY <1>4, <1>5, <2>1, FS_Subset
    <2> QED BY <1>2, <1>6, <2>2
<1>8. ~ (r[a] > m)
    <2> SUFFICES ASSUME r[a] > m PROVE FALSE
        OBVIOUS
    <2>1. {a, b} \subseteq over
        OBVIOUS
    <2> HIDE DEF over, m
    <2>2. 2 <= Cardinality(over)
        BY <1>4, <1>5, <2>1, FS_Subset
    <2> QED BY <1>2, <1>6, <2>2
<1> HIDE DEF m
<1> QED BY <1>3, <1>7, <1>8 DEF m

LEMMA AgreeingPairIsMidpoint ==
    ASSUME NEW r \in ReportFunctions, NEW a \in Reporters(r), NEW b \in Reporters(r),
           r[a] = r[b]
    PROVE  Midpoint(r, {a, b}) = r[a]
<1> DEFINE P == PricesOf(r, {a, b})
<1>1. {a, b} \in SUBSET Reporters(r) /\ {a, b} # {}
    OBVIOUS
<1>2. P = {r[a]}
    BY DEF PricesOf
<1>3. Min(P) \in P /\ Max(P) \in P /\ P \subseteq Nat
    <2> HIDE DEF P
    <2> QED BY <1>1, PricesHaveExtremes DEF P
<1>4. Min(P) = r[a] /\ Max(P) = r[a] /\ r[a] \in Nat
    BY <1>2, <1>3
<1>5. (r[a] + r[a]) \div 2 = r[a]
    BY <1>4
<1> QED BY <1>4, <1>5 DEF Midpoint

LEMMA AgreeingPairFixesPrice ==
    ASSUME Cardinality(Attestors) = 3,
           NEW r \in ReportFunctions, HasQuorum(r),
           NEW a \in Reporters(r), NEW b \in Reporters(r), a # b, r[a] = r[b]
    PROVE  QuorumPrice(r) = r[a]
<1> DEFINE B == BestQuorum(r)
<1>1. /\ B \in CompatibleSets(r)
      /\ \A S \in CompatibleSets(r) : S = B \/ ~ Better(r, S, B)
    BY SelectionIsDeterministic
<1> HIDE DEF B
<1>2. /\ B \in SUBSET Reporters(r) /\ IsFiniteSet(B) /\ B \subseteq Attestors
      /\ Cardinality(B) \in Nat /\ Cardinality(B) >= 2 /\ SpreadBps(r, B) <= MaxSpreadBps
    BY <1>1, CandidatesAreMeasured
<1>3. a \in Attestors /\ b \in Attestors
    BY DEF Reporters
<1>4. Cardinality(B) <= 3 /\ (Cardinality(B) = 3 => B = Attestors)
    BY <1>2, AttestorsAssumption, FS_Subset
<1>5. CASE Cardinality(B) = 3
    <2>1. a \in B /\ b \in B
        BY <1>3, <1>4, <1>5
    <2> QED BY <1>2, <1>5, <2>1, AgreeingPairIsMedian DEF QuorumPrice, PriceOf, B
<1>6. CASE Cardinality(B) = 2
    <2>1. CASE B \subseteq {a, b}
        <3>1. Cardinality({a, b}) = 2 /\ IsFiniteSet({a, b})
            BY PairHasTwo
        <3>2. B = {a, b}
            BY <1>6, <2>1, <3>1, FS_Subset
        <3> QED BY <1>6, <3>2, AgreeingPairIsMidpoint DEF QuorumPrice, PriceOf, B
    <2>2. CASE ~ (B \subseteq {a, b})
        <3>1. PICK c \in B : c # a /\ c # b
            BY <2>2
        <3> DEFINE T == {a, b, c}
        <3>2. Cardinality(T) = 3 /\ IsFiniteSet(T) /\ T \in SUBSET Reporters(r)
            BY <1>2, <3>1, TripleHasThree
        <3>3. T = Attestors
            <4>1. T \subseteq Attestors
                BY <1>2, <1>3
            <4> HIDE DEF T
            <4> QED BY <3>2, <4>1, AttestorsAssumption, FS_Subset
        <3>4. PICK x \in B : x # c
            <4>1. B # {c}
                BY <1>6, FS_Singleton
            <4> QED BY <3>1, <4>1
        <3>5. PricesOf(r, T) = PricesOf(r, B)
            <4>1. x \in {a, b}
                BY <1>2, <3>3, <3>4
            <4>2. \A y \in B : y \in {a, b, c}
                BY <1>2, <3>3
            <4> QED BY <3>1, <3>4, <4>1, <4>2 DEF PricesOf
        <3>6. SpreadBps(r, T) = SpreadBps(r, B)
            <4> HIDE DEF T
            <4> QED BY <3>5 DEF SpreadBps, Midpoint
        <3>7. T \in CompatibleSets(r)
            <4> HIDE DEF T
            <4> QED BY <1>2, <3>2, <3>6 DEF CompatibleSets, Compatible
        <3>8. Better(r, T, B)
            <4> HIDE DEF T
            <4> QED BY <1>6, <3>2 DEF Better
        <3> QED BY <1>1, <1>6, <3>2, <3>7, <3>8
    <2> QED BY <2>1, <2>2
<1> QED BY <1>2, <1>4, <1>5, <1>6

LEMMA QuorumPriceIsWithin ==
    ASSUME NEW r \in ReportFunctions, NEW S \in CompatibleSets(r)
    PROVE  /\ Min(PricesOf(r, S)) <= PriceOf(r, S)
           /\ PriceOf(r, S) <= Max(PricesOf(r, S))
<1>1. S \in SUBSET Reporters(r) /\ S # {}
    BY CandidatesAreMeasured
<1>2. MedianPrice(r, S) \in PricesOf(r, S)
    BY <1>1, MedianExists
<1> QED BY <1>1, <1>2, PricesHaveExtremes, SpreadIsNatural DEF PriceOf

(***************************************************************************)
(* The price that the loop settles on lies within the selected reports,    *)
(* and with three attestors, as the program has (ATTESTOR_COUNT), two that *)
(* report the same price fix it: the third cannot move it, whatever it     *)
(* reports and whichever reports the finalizer lists first.                *)
(***************************************************************************)
THEOREM SelectedPriceAlwaysAgrees ==
    ASSUME Cardinality(Attestors) = 3
    PROVE  Spec => []SelectedPriceAgrees
<1>1. ScanInv => SelectedPriceAgrees
    <2> SUFFICES ASSUME ScanInv, Done, best # <<>>
                 PROVE  LET chosen == PriceOf(reports, ToSet(best))
                        IN /\ Min(PricesOf(reports, ToSet(best))) <= chosen
                           /\ chosen <= Max(PricesOf(reports, ToSet(best)))
                           /\ \A a, b \in Reporters(reports) :
                                  a # b /\ reports[a] = reports[b] => chosen = reports[a]
        BY DEF SelectedPriceAgrees
    <2>1. /\ HasQuorum(reports) /\ ToSet(best) = BestQuorum(reports)
          /\ BestQuorum(reports) \in CompatibleSets(reports)
        BY EndedScanKeepsBest
    <2>2. reports \in ReportFunctions
        BY ListsAreReports DEF ScanInv
    <2>3. /\ Min(PricesOf(reports, BestQuorum(reports))) <= QuorumPrice(reports)
          /\ QuorumPrice(reports) <= Max(PricesOf(reports, BestQuorum(reports)))
        BY <2>1, <2>2, QuorumPriceIsWithin DEF QuorumPrice
    <2>4. \A a, b \in Reporters(reports) :
              a # b /\ reports[a] = reports[b] => QuorumPrice(reports) = reports[a]
        BY <2>1, <2>2, AgreeingPairFixesPrice
    <2> QED BY <2>1, <2>3, <2>4 DEF QuorumPrice
<1> QED BY <1>1, ScanKeeps, PTL

=============================================================================
