--------------------------- MODULE RankedQueueProofs ---------------------------
(***************************************************************************)
(* What ranked play and leagues both rest on: the matchmaker returns a     *)
(* matching, and the queue of a round and the pairings of the round say    *)
(* the same, whatever else reads and writes the tables.                    *)
(***************************************************************************)
EXTENDS RankedQueue, BattleProjection, SelectionProofs

PairingRow ==
    [battle : Battles, status : {"PENDING_COORDINATOR", "CREATED"}, snapA : Int, snapB : Int]

EventRow ==
    [battle : Battles, wallet : Wallets, kind : {"PLAYED_RATED_BATTLE", "FORFEIT_PENALTY"},
     before : Int, after : Int, at : Int]

EntryStates ==
    {"NONE", "QUEUED", "CANCELLED", "UNMATCHED", "BLOCKED"} \union Paired

TypedTables ==
    /\ now \in Nat
    /\ queue \in [Rounds -> [Wallets -> EntryStates]]
    /\ matched \subseteq Rounds \ PrivateRounds
    /\ pairings \subseteq PairingRow
    /\ chain \in [Battles -> {"NONE", "OPEN"} \union PossibleResults]
    /\ settling \subseteq Battles
    /\ row \in [Battles -> BattleRow \union {NoRow}]
    /\ exposure \in [Rounds -> [Wallets -> Battles \union {NoBattle}]]
    /\ rating \in [Wallets -> RatingRow \union {NoRow}]
    /\ events \in Seq(EventRow)

\* A round is paired once, and a wallet once in it.
PairedOnce ==
    /\ \A p \in pairings : p.battle.round \in matched
    /\ \A p, q \in pairings :
           p.battle.round = q.battle.round /\ Players(p.battle) \intersect Players(q.battle) # {}
               => p = q

\* The entries of the queue and the pairings say the same.
EntriesFollowPairings ==
    /\ \A r \in Rounds, w \in Wallets : queue[r][w] \in Paired =>
           \E p \in pairings : p.battle.round = r /\ w \in Players(p.battle)
    /\ \A p \in pairings : \A w \in Players(p.battle) :
           queue[p.battle.round][w] =
               IF p.status = "CREATED" THEN "BATTLE_CREATED" ELSE "MATCHED_PENDING_COORDINATOR"

PairedInv == PairedOnce /\ EntriesFollowPairings

\* The transactions of the queue and of the indexer.
QueueTableStep ==
    \/ \E r \in Rounds, w \in Wallets, at \in Int : JoinQueue(r, w, at) \/ LeaveQueue(r, w, at)
    \/ \E r \in Rounds, at \in Int : RunMatchmaker(r, at)
    \/ \E p \in pairings : ConfirmCoordinatorBattle(p)
    \/ \E b \in Battles : IndexBattle(b) \/ IndexStaleBattle(b)
    \/ \E b \in Battles, w \in Wallets : UpsertRatedExposure(b, w)

-----------------------------------------------------------------------------
LEMMA BattlesAreTyped ==
    ASSUME NEW b \in Battles
    PROVE  /\ b.round \in Rounds /\ b.round \in Nat
           /\ b.a \in Wallets /\ b.b \in Wallets /\ b.a \in Nat /\ b.b \in Nat /\ b.a < b.b
           /\ b = [round |-> b.round, a |-> b.a, b |-> b.b]
BY TableAssumption DEF Battles

(***************************************************************************)
(* The matchmaker. Ratings at the cutoff of a round are integers, so that  *)
(* any two wallets compare and every choice it makes is defined.           *)
(***************************************************************************)
LEMMA CutoffRatingIsAnInteger ==
    ASSUME TypedTables, NEW r \in Rounds, NEW w \in Wallets
    PROVE  RatingAtCutoff(r, w) \in Int
<1> DEFINE candidates == EventsByCutoff(r, w)
           R == {ij \in candidates \X candidates : ij[1] = ij[2] \/ LaterEvent(ij[1], ij[2])}
<1>1. candidates \subseteq DOMAIN events /\ DOMAIN events = 1..Len(events) /\ Len(events) \in Nat
    BY DEF EventsByCutoff, TypedTables
<1>2. \A i \in DOMAIN events : events[i] \in EventRow
    BY DEF TypedTables
<1>3. \A i \in DOMAIN events :
          events[i].battle.round \in Int /\ events[i].at \in Int /\ events[i].after \in Int /\ i \in Int
    <2> TAKE i \in DOMAIN events
    <2>1. events[i].battle \in Battles /\ events[i].at \in Int /\ events[i].after \in Int
        BY <1>2 DEF EventRow
    <2>2. events[i].battle.round \in Int
        BY <2>1, BattlesAreTyped
    <2> QED BY <1>1, <2>1, <2>2
<1>4. \A i, j \in candidates : <<i, j>> \in R <=> i = j \/ LaterEvent(i, j)
    <2> TAKE i, j \in candidates
    <2>1. <<i, j>> \in candidates \X candidates /\ <<i, j>>[1] = i /\ <<i, j>>[2] = j
        OBVIOUS
    <2> QED BY <2>1
<1>5. ASSUME candidates # {}
      PROVE  \E i \in candidates : \A j \in candidates : i = j \/ LaterEvent(i, j)
    <2>1. IsFiniteSet(candidates)
        <3>1. IsFiniteSet(1..Len(events))
            BY <1>1, FS_Interval
        <3> HIDE DEF candidates
        <3> QED BY <1>1, <3>1, FS_Subset
    <2> HIDE DEF R, candidates
    <2>2. \A i, j \in candidates : LaterEvent(i, j) \/ i = j \/ LaterEvent(j, i)
        BY <1>1, <1>3 DEF LaterEvent
    <2>3. \A i, j, k \in candidates :
              LaterEvent(i, j) /\ LaterEvent(j, k) => LaterEvent(i, k)
        BY <1>1, <1>3 DEF LaterEvent
    <2>4. \A i, j \in candidates : <<i, j>> \in R \/ <<j, i>> \in R
        BY <2>2, <1>4
    <2>5. \A i, j, k \in candidates : <<i, j>> \in R /\ <<j, k>> \in R => <<i, k>> \in R
        BY <2>3, <1>4
    <2>6. PICK i \in candidates : \A j \in candidates : <<i, j>> \in R
        BY <1>5, <2>1, <2>4, <2>5, LeastElement
    <2> QED BY <2>6, <1>4
<1>6. CASE candidates # {}
    <2> DEFINE i == CHOOSE i \in candidates : \A j \in candidates : i = j \/ LaterEvent(i, j)
    <2>1. i \in candidates
        BY <1>5, <1>6
    <2>2. RatingAtCutoff(r, w) = events[i].after
        BY <1>6 DEF RatingAtCutoff
    <2> HIDE DEF i, candidates
    <2> QED BY <2>1, <2>2, <1>1, <1>3
<1>7. CASE candidates = {}
    <2>1. rating[w] # NoRow => rating[w].rating \in Int
        BY DEF TypedTables, RatingRow
    <2> QED BY <1>7, <2>1, TableAssumption DEF RatingAtCutoff
<1> QED BY <1>6, <1>7

LEMMA LowestIsAmong ==
    ASSUME TypedTables, NEW r \in Rounds,
           NEW T, T \subseteq Wallets, T # {}
    PROVE  Lowest(r, T) \in T
<1> DEFINE R == {vw \in T \X T : LowerRated(r, vw[1], vw[2])}
<1>1. \A v \in T : RatingAtCutoff(r, v) \in Int /\ v \in Int
    BY CutoffRatingIsAnInteger, TableAssumption
<1>2. \A v, w \in T : <<v, w>> \in R <=> LowerRated(r, v, w)
    <2> TAKE v, w \in T
    <2>1. <<v, w>> \in T \X T /\ <<v, w>>[1] = v /\ <<v, w>>[2] = w
        OBVIOUS
    <2> QED BY <2>1
<1> HIDE DEF R
<1>3. \A v, w \in T : LowerRated(r, v, w) \/ LowerRated(r, w, v)
    BY <1>1 DEF LowerRated
<1>4. \A u, v, w \in T : LowerRated(r, u, v) /\ LowerRated(r, v, w) => LowerRated(r, u, w)
    BY <1>1 DEF LowerRated
<1>5. \E v \in T : \A w \in T : <<v, w>> \in R
    <2>1. IsFiniteSet(T)
        BY FS_Subset, TableAssumption
    <2>2. \A v, w \in T : <<v, w>> \in R \/ <<w, v>> \in R
        BY <1>2, <1>3
    <2>3. \A u, v, w \in T : <<u, v>> \in R /\ <<v, w>> \in R => <<u, w>> \in R
        BY <1>2, <1>4
    <2> QED BY <2>1, <2>2, <2>3, LeastElement
<1>6. \E v \in T : \A w \in T : LowerRated(r, v, w)
    BY <1>5, <1>2
<1> QED BY <1>6 DEF Lowest, LeastBy

LEMMA OpponentIsAmong ==
    ASSUME TypedTables, NEW r \in Rounds,
           NEW T, T \subseteq Wallets, T \ {Lowest(r, T)} # {}
    PROVE  Opponent(r, T) \in T \ {Lowest(r, T)}
<1> DEFINE first == Lowest(r, T)
           C == T \ {first}
           R == {vw \in C \X C : CloserTo(r, first, vw[1], vw[2])}
<1>1. \A v \in T : RatingAtCutoff(r, v) \in Int /\ v \in Int
    BY CutoffRatingIsAnInteger, TableAssumption
<1>2. \A v, w \in C : <<v, w>> \in R <=> CloserTo(r, first, v, w)
    <2> TAKE v, w \in C
    <2>1. <<v, w>> \in C \X C /\ <<v, w>>[1] = v /\ <<v, w>>[2] = w
        OBVIOUS
    <2> QED BY <2>1
<1> HIDE DEF R
<1>3. first \in T
    BY LowestIsAmong
<1>4. \A v \in C : Distance(r, first, v) \in Int
    BY <1>1, <1>3 DEF Distance
<1> DEFINE met(v) == IF Rematch(r, first, v) THEN 1 ELSE 0
<1>5. \A v, w \in C :
          CloserTo(r, first, v, w) <=>
              \/ met(v) < met(w)
              \/ met(v) = met(w) /\ Distance(r, first, v) < Distance(r, first, w)
              \/ met(v) = met(w) /\ Distance(r, first, v) = Distance(r, first, w)
                     /\ LowerRated(r, v, w)
    BY DEF CloserTo
<1>6. \A v \in C : met(v) \in Int
    OBVIOUS
<1>7. \A v, w \in C : LowerRated(r, v, w) \/ LowerRated(r, w, v)
    BY <1>1 DEF LowerRated
<1>8. \A u, v, w \in C : LowerRated(r, u, v) /\ LowerRated(r, v, w) => LowerRated(r, u, w)
    BY <1>1 DEF LowerRated
<1> HIDE DEF met, first
<1>9. \A v, w \in C : CloserTo(r, first, v, w) \/ CloserTo(r, first, w, v)
    BY <1>4, <1>5, <1>6, <1>7
<1>10. \A u, v, w \in C :
           CloserTo(r, first, u, v) /\ CloserTo(r, first, v, w) => CloserTo(r, first, u, w)
    BY <1>4, <1>5, <1>6, <1>8
<1>11. \E v \in C : \A w \in C : <<v, w>> \in R
    <2>1. IsFiniteSet(C) /\ C # {}
        BY FS_Subset, TableAssumption DEF first
    <2>2. \A v, w \in C : <<v, w>> \in R \/ <<w, v>> \in R
        BY <1>2, <1>9
    <2>3. \A u, v, w \in C : <<u, v>> \in R /\ <<v, w>> \in R => <<u, w>> \in R
        BY <1>2, <1>10
    <2> HIDE DEF C
    <2> QED BY <2>1, <2>2, <2>3, LeastElement
<1>12. \E v \in C : \A w \in C : CloserTo(r, first, v, w)
    BY <1>11, <1>2
<1> QED BY <1>12 DEF Opponent, LeastBy, first

(***************************************************************************)
(* The recursion of the matchmaker is defined: a function with its         *)
(* equations exists on the sets of at most n wallets, for every n.         *)
(***************************************************************************)
Chosen(r, T) == {Lowest(r, T), Opponent(r, T)}

LEMMA ChosenAreTwo ==
    ASSUME TypedTables, NEW r \in Rounds,
           NEW T, T \subseteq Wallets, ~ (Cardinality(T) < 2)
    PROVE  /\ Lowest(r, T) \in T /\ Opponent(r, T) \in T /\ Lowest(r, T) # Opponent(r, T)
           /\ Cardinality(T \ Chosen(r, T)) < Cardinality(T)
<1>1. IsFiniteSet(T) /\ Cardinality(T) \in Nat
    BY TableAssumption, FS_Subset, FS_CardinalityType
<1>2. T # {}
    BY <1>1, FS_EmptySet
<1>3. Lowest(r, T) \in T
    BY <1>2, LowestIsAmong
<1>4. T \ {Lowest(r, T)} # {}
    <2>1. T # {Lowest(r, T)}
        BY FS_Singleton
    <2> QED BY <2>1, <1>2
<1>5. Opponent(r, T) \in T \ {Lowest(r, T)}
    BY <1>4, OpponentIsAmong
<1>6. T \ Chosen(r, T) \subseteq T /\ T \ Chosen(r, T) # T
    BY <1>3 DEF Chosen
<1>7. Cardinality(T \ Chosen(r, T)) < Cardinality(T)
    <2>1. /\ Cardinality(T \ Chosen(r, T)) <= Cardinality(T)
          /\ Cardinality(T \ Chosen(r, T)) # Cardinality(T)
          /\ IsFiniteSet(T \ Chosen(r, T))
        BY <1>1, <1>6, FS_Subset
    <2> QED BY <2>1, <1>1, FS_CardinalityType
<1> QED BY <1>3, <1>5, <1>7

PairsEquation(r, f, D) ==
    f = [T \in D |-> IF Cardinality(T) < 2 THEN {}
                     ELSE {Chosen(r, T)} \union f[T \ Chosen(r, T)]]

LEMMA PairsAreDefined ==
    ASSUME TypedTables, NEW r \in Rounds, NEW S, S \subseteq Wallets
    PROVE  \E f : PairsEquation(r, f, SUBSET S)
<1> DEFINE D(n) == {T \in SUBSET S : Cardinality(T) <= n}
           bad == {n \in Nat : ~ \E f : PairsEquation(r, f, D(n))}
<1>0. \A T \in SUBSET S : T \subseteq Wallets /\ IsFiniteSet(T) /\ Cardinality(T) \in Nat
    BY TableAssumption, FS_Subset, FS_CardinalityType
<1>1. bad = {}
    <2> SUFFICES ASSUME bad # {} PROVE FALSE
        OBVIOUS
    <2>1. PICK n \in bad : \A m \in bad : n <= m
        <3>1. bad \subseteq Nat
            OBVIOUS
        <3> HIDE DEF bad
        <3> QED BY <3>1, LeastNatural
    <2>2. n # 0
        <3> DEFINE f == [T \in D(0) |-> {}]
        <3>1. \A T \in D(0) : Cardinality(T) < 2
            BY <1>0
        <3>2. PairsEquation(r, f, D(0))
            BY <3>1 DEF PairsEquation
        <3> QED BY <3>2
    <2>3. n - 1 \in Nat /\ n - 1 \notin bad
        <3>1. n \in Nat
            OBVIOUS
        <3> HIDE DEF bad
        <3> QED BY <2>1, <2>2, <3>1
    <2>4. PICK f : PairsEquation(r, f, D(n - 1))
        BY <2>3
    <2> DEFINE g == [T \in D(n) |-> IF Cardinality(T) < 2 THEN {}
                                    ELSE {Chosen(r, T)} \union f[T \ Chosen(r, T)]]
    <2>5. ASSUME NEW T \in D(n), ~ (Cardinality(T) < 2)
          PROVE  T \ Chosen(r, T) \in D(n - 1) /\ T \ Chosen(r, T) \in D(n)
        <3>1. Cardinality(T \ Chosen(r, T)) < Cardinality(T)
            BY <2>5, <1>0, ChosenAreTwo
        <3>2. T \ Chosen(r, T) \in SUBSET S /\ n \in Nat /\ Cardinality(T) <= n
            OBVIOUS
        <3>3. Cardinality(T \ Chosen(r, T)) \in Nat /\ Cardinality(T) \in Nat
            BY <3>2, <1>0
        <3> QED BY <3>1, <3>2, <3>3
    <2>6. \A T \in D(n - 1) : f[T] = g[T]
        <3> TAKE T \in D(n - 1)
        <3>1. T \in D(n)
            BY <1>0, <2>3
        <3>2. f[T] = IF Cardinality(T) < 2 THEN {}
                     ELSE {Chosen(r, T)} \union f[T \ Chosen(r, T)]
            BY <2>4 DEF PairsEquation
        <3> QED BY <3>1, <3>2
    <2>7. \A T \in D(n) : g[T] = IF Cardinality(T) < 2 THEN {}
                                 ELSE {Chosen(r, T)} \union g[T \ Chosen(r, T)]
        BY <2>5, <2>6
    <2>8. PairsEquation(r, g, D(n))
        <3>1. g = [T \in D(n) |-> g[T]]
            OBVIOUS
        <3> HIDE DEF g, D
        <3> QED BY <3>1, <2>7 DEF PairsEquation
    <2> QED BY <2>8
<1>2. Cardinality(S) \in Nat /\ D(Cardinality(S)) = SUBSET S
    <2>1. \A T \in SUBSET S : Cardinality(T) <= Cardinality(S)
        BY <1>0, FS_Subset
    <2> QED BY <1>0, <2>1
<1>3. \E f : PairsEquation(r, f, D(Cardinality(S)))
    BY <1>1, <1>2
<1> QED BY <1>2, <1>3

LEMMA PairRankedEquation ==
    ASSUME TypedTables, NEW r \in Rounds, NEW S, S \subseteq Wallets
    PROVE  \E f : PairsEquation(r, f, SUBSET S) /\ PairRanked(r, S) = f[S]
<1> DEFINE f == CHOOSE f : PairsEquation(r, f, SUBSET S)
<1>1. PairsEquation(r, f, SUBSET S)
    BY PairsAreDefined
<1>2. PairRanked(r, S) = f[S]
    BY DEF PairRanked, PairsEquation, Chosen
<1> QED BY <1>1, <1>2

(***************************************************************************)
(* What the matchmaker returns is a matching: pairs of two of the eligible *)
(* wallets, none of them in two pairs, and at most one left over.          *)
(***************************************************************************)
Matching(P, T) ==
    /\ \A x \in P : \E v, w \in T : v # w /\ x = {v, w}
    /\ \A x, y \in P : x \intersect y # {} => x = y
    /\ Cardinality(T \ UNION P) < 2

THEOREM PairRankedIsMatching ==
    ASSUME TypedTables, NEW r \in Rounds, NEW S, S \subseteq Wallets
    PROVE  Matching(PairRanked(r, S), S)
<1>1. PICK f : PairsEquation(r, f, SUBSET S) /\ PairRanked(r, S) = f[S]
    BY PairRankedEquation
<1> DEFINE bad == {T \in SUBSET S : ~ Matching(f[T], T)}
           sizes == {Cardinality(T) : T \in bad}
<1>2. \A T \in SUBSET S : T \subseteq Wallets /\ IsFiniteSet(T) /\ Cardinality(T) \in Nat
    BY TableAssumption, FS_Subset, FS_CardinalityType
<1>3. bad = {}
    <2> SUFFICES ASSUME bad # {} PROVE FALSE
        OBVIOUS
    <2>1. PICK n \in sizes : \A m \in sizes : n <= m
        <3>1. sizes \subseteq Nat /\ sizes # {}
            BY <1>2
        <3> HIDE DEF sizes
        <3> QED BY <3>1, LeastNatural
    <2>2. PICK T \in bad : n = Cardinality(T)
        OBVIOUS
    <2>3. T \subseteq S /\ T \subseteq Wallets /\ Cardinality(T) \in Nat
        BY <1>2
    <2>4. ~ (Cardinality(T) < 2)
        <3> SUFFICES ASSUME Cardinality(T) < 2 PROVE FALSE
            OBVIOUS
        <3>1. f[T] = {}
            BY <1>1, <2>3 DEF PairsEquation
        <3>2. Matching(f[T], T)
            BY <3>1 DEF Matching
        <3> QED BY <3>2
    <2> DEFINE v == Lowest(r, T)
               w == Opponent(r, T)
               U == T \ Chosen(r, T)
    <2>5. v \in T /\ w \in T /\ v # w /\ Cardinality(U) < Cardinality(T)
        BY <2>3, <2>4, ChosenAreTwo
    <2>6. f[T] = {Chosen(r, T)} \union f[U]
        BY <1>1, <2>3, <2>4 DEF PairsEquation
    <2>7. U \in SUBSET S /\ Cardinality(U) \in Nat
        BY <2>3, <1>2
    <2>8. Matching(f[U], U)
        <3> SUFFICES ASSUME U \in bad PROVE FALSE
            BY <2>7
        <3>1. n <= Cardinality(U)
            BY <2>1
        <3> QED BY <3>1, <2>2, <2>3, <2>5, <2>7
    <2>9. Chosen(r, T) = {v, w} /\ U = T \ {v, w}
        BY DEF Chosen
    <2> HIDE DEF v, w, U
    <2>10. \A x \in f[U] : x \subseteq U /\ (\E i, j \in U : i # j /\ x = {i, j})
        BY <2>8 DEF Matching
    <2>11. \A x \in f[T] : \E i, j \in T : i # j /\ x = {i, j}
        <3> TAKE x \in f[T]
        <3>1. CASE x = {v, w}
            BY <3>1, <2>5
        <3>2. CASE x \in f[U]
            <4>1. PICK i \in U, j \in U : i # j /\ x = {i, j}
                BY <3>2, <2>10
            <4>2. i \in T /\ j \in T
                BY <2>9
            <4> QED BY <4>1, <4>2
        <3>3. x = {v, w} \/ x \in f[U]
            BY <2>6, <2>9
        <3> QED BY <3>1, <3>2, <3>3
    <2>12. \A x, y \in f[T] : x \intersect y # {} => x = y
        <3>1. \A x \in f[U] : x \intersect {v, w} = {}
            BY <2>9, <2>10
        <3>2. \A x, y \in f[U] : x \intersect y # {} => x = y
            BY <2>8 DEF Matching
        <3> TAKE x, y \in f[T]
        <3>3. (x = {v, w} \/ x \in f[U]) /\ (y = {v, w} \/ y \in f[U])
            BY <2>6, <2>9
        <3>4. (x = {v, w} /\ y \in f[U]) \/ (y = {v, w} /\ x \in f[U]) => x \intersect y = {}
            BY <3>1
        <3> QED BY <3>2, <3>3, <3>4
    <2>13. T \ UNION f[T] = U \ UNION f[U]
        BY <2>6, <2>9
    <2>14. Cardinality(T \ UNION f[T]) < 2
        BY <2>8, <2>13 DEF Matching
    <2>15. Matching(f[T], T)
        BY <2>11, <2>12, <2>14 DEF Matching
    <2> QED BY <2>15
<1>4. S \in SUBSET S
    OBVIOUS
<1> QED BY <1>1, <1>3, <1>4

(***************************************************************************)
(* The battle of a pair is one of the round, and its players are the pair. *)
(***************************************************************************)
LEMMA BattleOfPair ==
    ASSUME NEW r \in Rounds, NEW v \in Wallets, NEW w \in Wallets, v # w
    PROVE  LET b == BattleOf(r, {v, w})
           IN  b \in Battles /\ b.round = r /\ Players(b) = {v, w}
<1> DEFINE pair == {v, w}
           a == LeastBy(pair, LAMBDA x, y : x <= y)
           other == CHOOSE x \in pair : x # a
<1>1. v \in Nat /\ w \in Nat
    BY TableAssumption
<1>2. \E x \in pair : \A y \in pair : x <= y
    BY <1>1
<1>3. a \in pair /\ \A y \in pair : a <= y
    BY <1>2 DEF LeastBy
<1>4. \E x \in pair : x # a
    <2> HIDE DEF a
    <2>1. v \in pair /\ w \in pair
        OBVIOUS
    <2> HIDE DEF pair
    <2> QED BY <2>1
<1>5. other \in pair /\ other # a
    BY <1>4
<1>6. BattleOf(r, pair) = [round |-> r, a |-> a, b |-> other]
    BY DEF BattleOf
<1> HIDE DEF a, other
<1>7. a < other /\ a \in Wallets /\ other \in Wallets /\ pair = {a, other}
    BY <1>1, <1>3, <1>5
<1> HIDE DEF pair
<1>8. BattleOf(r, pair) \in Battles /\ BattleOf(r, pair).round = r
    BY <1>6, <1>7 DEF Battles
<1>9. Players(BattleOf(r, pair)) = pair
    BY <1>6, <1>7 DEF Players
<1> QED BY <1>8, <1>9 DEF pair
-----------------------------------------------------------------------------
\* What a run of the matchmaker for round r does with a matching P.
MatchedWith(r, P) ==
    /\ r \in Rounds \ PrivateRounds /\ r \notin matched
    /\ Matching(P, Eligible(r))
    /\ matched' = matched \union {r}
    /\ pairings' = pairings \union {Pairing(r, pair) : pair \in P}
    /\ queue' = [queue EXCEPT ![r] = QueueAfterMatch(r, P)]

LEMMA MatchmakerMatches ==
    ASSUME TypedTables, NEW r \in Rounds, NEW at, RunMatchmaker(r, at)
    PROVE  \E P : MatchedWith(r, P)
<1>1. Eligible(r) \subseteq Wallets
    BY DEF Eligible, Queued
<1>2. Matching(PairRanked(r, Eligible(r)), Eligible(r))
    BY <1>1, PairRankedIsMatching
<1>3. r \in Rounds \ PrivateRounds /\ r \notin matched
    BY DEF RunMatchmaker, MatchmakerWindow, HasMatchRun
<1>4. MatchedWith(r, PairRanked(r, Eligible(r)))
    BY <1>2, <1>3 DEF RunMatchmaker, MatchedWith
<1> QED BY <1>4

(***************************************************************************)
(* The pairing of a pair of the matching.                                  *)
(***************************************************************************)
LEMMA PairingOfPair ==
    ASSUME TypedTables, NEW r \in Rounds, NEW P, Matching(P, Eligible(r)),
           NEW pair \in P
    PROVE  /\ Pairing(r, pair) \in PairingRow
           /\ Pairing(r, pair).battle.round = r
           /\ Pairing(r, pair).status = "PENDING_COORDINATOR"
           /\ Players(Pairing(r, pair).battle) = pair
           /\ pair \subseteq Eligible(r)
<1>1. PICK v \in Eligible(r), w \in Eligible(r) : v # w /\ pair = {v, w}
    BY DEF Matching
<1>2. v \in Wallets /\ w \in Wallets
    BY DEF Eligible, Queued
<1> DEFINE b == BattleOf(r, pair)
<1>3. b \in Battles /\ b.round = r /\ Players(b) = pair
    BY <1>1, <1>2, BattleOfPair
<1> HIDE DEF b
<1>4. Pairing(r, pair) = [battle |-> b, status |-> "PENDING_COORDINATOR",
                          snapA |-> RatingAtCutoff(r, b.a), snapB |-> RatingAtCutoff(r, b.b)]
    BY DEF Pairing, b
<1>5. RatingAtCutoff(r, b.a) \in Int /\ RatingAtCutoff(r, b.b) \in Int
    BY <1>3, BattlesAreTyped, CutoffRatingIsAnInteger
<1> QED BY <1>1, <1>3, <1>4, <1>5 DEF PairingRow

LEMMA PairingsAreTyped ==
    ASSUME TypedTables, NEW p \in pairings
    PROVE  /\ p \in PairingRow /\ p.battle \in Battles
           /\ p.status \in {"PENDING_COORDINATOR", "CREATED"}
           /\ p.battle.round \in Rounds
           /\ Players(p.battle) \subseteq Wallets /\ Players(p.battle) # {}
BY BattlesAreTyped DEF TypedTables, PairingRow, Players

\* So for a pairing of either mode.
LEMMA ConfirmedRowIsARow ==
    ASSUME TypedTables, NEW p, p.battle \in Battles, p.snapA \in Int, p.snapB \in Int
    PROVE  ConfirmedRow(p) \in BattleRow
<1> DEFINE b == p.battle
<1>1. CASE row[b] = NoRow
    BY <1>1 DEF ConfirmedRow, BattleRow, SettledBefore
<1>2. CASE row[b] # NoRow
    <2>1. row[b] \in BattleRow
        BY <1>2 DEF TypedTables
    <2> QED BY <1>2, <2>1 DEF ConfirmedRow, BattleRow
<1> QED BY <1>1, <1>2

LEMMA ObservedIsARow ==
    ASSUME TypedTables, NEW b \in Battles, IndexBattle(b) \/ IndexStaleBattle(b)
    PROVE  \E r \in BattleRow : row' = [row EXCEPT ![b] = r]
<1>1. PICK account \in {"OPEN"} \union PossibleResults, after \in BOOLEAN :
          UpsertBattle(b, account, after)
    BY DEF IndexBattle, IndexStaleBattle, SettledBefore, TypedTables
<1>2. row[b] # NoRow => row[b] \in BattleRow
    BY DEF TypedTables
<1>3. Observed(b, account, after) \in BattleRow
    BY <1>2 DEF Observed, BattleRow, StateOf, ResultOf, RowExists
<1> QED BY <1>1, <1>3 DEF UpsertBattle

LEMMA TypedByQueue ==
    ASSUME TypedTables, QueueTableStep
    PROVE  TypedTables'
<1> USE DEF TypedTables
<1>2. ASSUME NEW r \in Rounds, NEW w \in Wallets, NEW at, JoinQueue(r, w, at) \/ LeaveQueue(r, w, at)
      PROVE  TypedTables'
    <2>1. PICK entry \in {"QUEUED", "CANCELLED"} : queue' = [queue EXCEPT ![r][w] = entry]
        BY <1>2 DEF JoinQueue, LeaveQueue
    <2>2. queue' \in [Rounds -> [Wallets -> EntryStates]]
        <3>1. entry \in EntryStates /\ queue \in [Rounds -> [Wallets -> EntryStates]]
            BY DEF EntryStates
        <3> QED BY <2>1, <3>1
    <2> QED BY <1>2, <2>2 DEF JoinQueue, LeaveQueue, chainVars, projectionVars, ledgerVars
<1>4. ASSUME NEW r \in Rounds, NEW at, RunMatchmaker(r, at)
      PROVE  TypedTables'
    <2>1. PICK P : MatchedWith(r, P)
        BY <1>4, MatchmakerMatches
    <2>2. pairings' \subseteq PairingRow
        BY <2>1, PairingOfPair DEF MatchedWith
    <2>3. QueueAfterMatch(r, P) \in [Wallets -> EntryStates]
        BY DEF QueueAfterMatch, EntryStates, Paired
    <2>4. queue' \in [Rounds -> [Wallets -> EntryStates]] /\ matched' \subseteq Rounds \ PrivateRounds
        BY <2>1, <2>3 DEF MatchedWith
    <2> QED BY <1>4, <2>2, <2>4 DEF RunMatchmaker, chainVars, projectionVars, ledgerVars
<1>6. ASSUME NEW p \in pairings, ConfirmCoordinatorBattle(p)
      PROVE  TypedTables'
    <2>1. p \in PairingRow /\ p.battle \in Battles /\ p.battle.round \in Rounds
        BY BattlesAreTyped DEF PairingRow
    <2> DEFINE b == p.battle
    <2>2. p.snapA \in Int /\ p.snapB \in Int /\ [p EXCEPT !.status = "CREATED"] \in PairingRow
        BY <2>1 DEF PairingRow
    <2>3. ConfirmedRow(p) \in BattleRow
        BY <2>1, <2>2, ConfirmedRowIsARow
    <2>4. /\ row' = [row EXCEPT ![b] = ConfirmedRow(p)]
          /\ exposure' = [exposure EXCEPT ![b.round] =
                 [w \in Wallets |-> IF w \in Players(b) THEN b ELSE exposure[b.round][w]]]
          /\ pairings' = (pairings \ {p}) \union {[p EXCEPT !.status = "CREATED"]}
          /\ queue' = [queue EXCEPT ![b.round] =
                 [w \in Wallets |-> IF w \in Players(b) THEN "BATTLE_CREATED"
                                    ELSE queue[b.round][w]]]
        BY <1>6 DEF ConfirmCoordinatorBattle
    <2>5. row' \in [Battles -> BattleRow \union {NoRow}]
        BY <2>1, <2>3, <2>4
    <2>6. exposure' \in [Rounds -> [Wallets -> Battles \union {NoBattle}]]
        BY <2>1, <2>4
    <2>7. queue' \in [Rounds -> [Wallets -> EntryStates]]
        BY <2>1, <2>4 DEF EntryStates, Paired
    <2>8. pairings' \subseteq PairingRow
        BY <2>2, <2>4
    <2> QED BY <1>6, <2>5, <2>6, <2>7, <2>8
            DEF ConfirmCoordinatorBattle, chainVars, ledgerVars
<1>8. ASSUME NEW b \in Battles, IndexBattle(b) \/ IndexStaleBattle(b)
      PROVE  TypedTables'
    <2>1. row' \in [Battles -> BattleRow \union {NoRow}]
        BY <1>8, ObservedIsARow
    <2> QED BY <1>8, <2>1 DEF IndexBattle, IndexStaleBattle, UpsertBattle, queueVars, chainVars,
                              ledgerVars
<1>9. ASSUME NEW b \in Battles, NEW w \in Wallets, UpsertRatedExposure(b, w)
      PROVE  TypedTables'
    <2>1. b.round \in Rounds
        BY BattlesAreTyped
    <2>2. exposure' \in [Rounds -> [Wallets -> Battles \union {NoBattle}]]
        BY <1>9, <2>1 DEF UpsertRatedExposure
    <2> QED BY <1>9, <2>2 DEF UpsertRatedExposure, queueVars, chainVars, ledgerVars
<1> QED BY <1>2, <1>4, <1>6, <1>8, <1>9 DEF QueueTableStep

-----------------------------------------------------------------------------
(***************************************************************************)
(* The queue and the pairings stay in step. A wallet with a pairing can    *)
(* neither leave nor join again, and a round is matched once, so that the  *)
(* times requests carry do not matter.                                     *)
(***************************************************************************)
LEMMA RequestKeepsPaired ==
    ASSUME TypedTables, PairedInv, NEW r \in Rounds, NEW w \in Wallets, NEW at,
           JoinQueue(r, w, at) \/ LeaveQueue(r, w, at)
    PROVE  PairedInv'
<1>1. PICK entry \in {"QUEUED", "CANCELLED"} : queue' = [queue EXCEPT ![r][w] = entry]
    BY DEF JoinQueue, LeaveQueue
<1>2. queue[r][w] \notin Paired /\ entry \notin Paired
    BY DEF JoinQueue, LeaveQueue, Paired
<1>3. \A q \in Rounds, v \in Wallets :
          queue'[q][v] = IF q = r /\ v = w THEN entry ELSE queue[q][v]
    BY <1>1 DEF TypedTables
<1>4. UNCHANGED <<matched, pairings, chain, row, exposure>>
    BY DEF JoinQueue, LeaveQueue, chainVars, projectionVars
<1>5. EntriesFollowPairings'
    <2>1. ASSUME NEW q \in Rounds, NEW v \in Wallets, queue'[q][v] \in Paired
          PROVE  \E p \in pairings : p.battle.round = q /\ v \in Players(p.battle)
        BY <1>2, <1>3, <2>1 DEF PairedInv, EntriesFollowPairings
    <2>2. ASSUME NEW p \in pairings, NEW v \in Players(p.battle)
          PROVE  queue'[p.battle.round][v] =
                     IF p.status = "CREATED" THEN "BATTLE_CREATED"
                     ELSE "MATCHED_PENDING_COORDINATOR"
        <3>1. queue[p.battle.round][v] =
                  IF p.status = "CREATED" THEN "BATTLE_CREATED" ELSE "MATCHED_PENDING_COORDINATOR"
            BY DEF PairedInv, EntriesFollowPairings
        <3>2. queue[p.battle.round][v] \in Paired
            BY <3>1 DEF Paired
        <3> QED BY <1>2, <1>3, <3>1, <3>2, PairingsAreTyped
    <2> QED BY <1>4, <2>1, <2>2 DEF EntriesFollowPairings, Players
<1> QED BY <1>4, <1>5
        DEF PairedInv, PairedOnce, Players

LEMMA MatchKeepsPaired ==
    ASSUME TypedTables, PairedInv, NEW r \in Rounds, NEW at, RunMatchmaker(r, at)
    PROVE  PairedInv'
<1>1. PICK P : MatchedWith(r, P)
    BY MatchmakerMatches
<1> DEFINE new == {Pairing(r, pair) : pair \in P}
<1>2. \A p \in new : /\ p \in PairingRow /\ p.battle.round = r /\ p.status = "PENDING_COORDINATOR"
                     /\ Players(p.battle) \in P /\ p = Pairing(r, Players(p.battle))
                     /\ Players(p.battle) \subseteq Eligible(r)
    BY <1>1, PairingOfPair DEF MatchedWith
<1>3. \A pair \in P : \E p \in new : Players(p.battle) = pair
    BY <1>1, PairingOfPair DEF MatchedWith
<1>4. \A x, y \in P : x \intersect y # {} => x = y
    BY <1>1 DEF MatchedWith, Matching
<1>5. UNCHANGED <<chain, row, exposure>>
    BY DEF RunMatchmaker, chainVars, projectionVars
<1>6. /\ r \notin matched /\ matched' = matched \union {r} /\ pairings' = pairings \union new
      /\ queue' = [queue EXCEPT ![r] = QueueAfterMatch(r, P)]
    BY <1>1 DEF MatchedWith
<1> HIDE DEF new
<1>7. \A p \in pairings : p.battle.round # r /\ p.battle.round \in Rounds
                          /\ Players(p.battle) \subseteq Wallets
    BY <1>6, PairingsAreTyped DEF PairedInv, PairedOnce
<1>8. PairedOnce'
    <2>1. \A p \in pairings' : p.battle.round \in matched'
        BY <1>2, <1>6 DEF PairedInv, PairedOnce
    <2>2. ASSUME NEW p \in pairings', NEW q \in pairings', p.battle.round = q.battle.round,
                 Players(p.battle) \intersect Players(q.battle) # {}
          PROVE  p = q
        <3>1. CASE p \in pairings
            <4>1. q \in pairings
                BY <1>2, <1>6, <1>7, <2>2, <3>1
            <4> QED BY <2>2, <3>1, <4>1 DEF PairedInv, PairedOnce
        <3>2. CASE p \in new
            <4>1. q \in new
                BY <1>2, <1>6, <1>7, <2>2, <3>2
            <4>2. Players(p.battle) = Players(q.battle)
                BY <1>2, <1>4, <2>2, <3>2, <4>1
            <4> QED BY <1>2, <3>2, <4>1, <4>2
        <3> QED BY <1>6, <3>1, <3>2
    <2> QED BY <2>1, <2>2 DEF PairedOnce, Players
<1>9. EntriesFollowPairings'
    <2>1. \A q \in Rounds, v \in Wallets :
              queue'[q][v] = IF q = r THEN QueueAfterMatch(r, P)[v] ELSE queue[q][v]
        BY <1>6 DEF TypedTables
    <2>2. \A v \in Wallets : queue[r][v] \notin Paired
        BY <1>7 DEF PairedInv, EntriesFollowPairings
    <2>3. ASSUME NEW v \in Wallets
          PROVE  /\ QueueAfterMatch(r, P)[v] \in Paired => v \in UNION P
                 /\ v \in UNION P => QueueAfterMatch(r, P)[v] = "MATCHED_PENDING_COORDINATOR"
        <3>1. QueueAfterMatch(r, P)[v] = IF v \notin Queued(r) THEN queue[r][v]
                                         ELSE IF v \notin Eligible(r) THEN "BLOCKED"
                                         ELSE IF v \in UNION P THEN "MATCHED_PENDING_COORDINATOR"
                                         ELSE "UNMATCHED"
            BY DEF QueueAfterMatch
        <3>2. v \in UNION P => v \in Eligible(r) /\ v \in Queued(r)
            <4>1. \A x \in P : x \subseteq Eligible(r)
                BY <1>2, <1>3
            <4> QED BY <4>1 DEF Eligible
        <3> QED BY <2>2, <3>1, <3>2 DEF Paired
    <2>4. ASSUME NEW q \in Rounds, NEW v \in Wallets, queue'[q][v] \in Paired
          PROVE  \E p \in pairings' : p.battle.round = q /\ v \in Players(p.battle)
        <3>1. CASE q = r
            <4>1. v \in UNION P
                BY <2>1, <2>3, <2>4, <3>1
            <4>2. PICK p \in new : v \in Players(p.battle)
                BY <1>3, <4>1
            <4> QED BY <1>2, <1>6, <3>1, <4>2
        <3>2. CASE q # r
            BY <1>6, <2>1, <2>4, <3>2 DEF PairedInv, EntriesFollowPairings
        <3> QED BY <3>1, <3>2
    <2>5. ASSUME NEW p \in pairings', NEW v \in Players(p.battle)
          PROVE  queue'[p.battle.round][v] =
                     IF p.status = "CREATED" THEN "BATTLE_CREATED"
                     ELSE "MATCHED_PENDING_COORDINATOR"
        <3>1. CASE p \in pairings
            <4>1. p.battle.round \in Rounds /\ p.battle.round # r /\ v \in Wallets
                BY <1>7, <3>1
            <4> QED BY <2>1, <3>1, <4>1 DEF PairedInv, EntriesFollowPairings
        <3>2. CASE p \in new
            <4>1. v \in UNION P /\ v \in Wallets /\ p.battle.round = r /\ p.status # "CREATED"
                BY <1>2, <3>2 DEF Eligible, Queued
            <4> QED BY <2>1, <2>3, <4>1
        <3> QED BY <1>6, <3>1, <3>2
    <2> QED BY <2>4, <2>5 DEF EntriesFollowPairings, Players
<1> QED BY <1>8, <1>9 DEF PairedInv

LEMMA ConfirmKeepsPaired ==
    ASSUME TypedTables, PairedInv, NEW p \in pairings, ConfirmCoordinatorBattle(p)
    PROVE  PairedInv'
<1> DEFINE b == p.battle
           made == [p EXCEPT !.status = "CREATED"]
<1>1. /\ b \in Battles /\ b.round \in Rounds /\ Players(b) \subseteq Wallets
      /\ Players(b) # {} /\ p \in PairingRow
    BY PairingsAreTyped
<1>2. /\ p.status = "PENDING_COORDINATOR"
      /\ \A w \in Players(b) : exposure[b.round][w] = NoBattle
      /\ row' = [row EXCEPT ![b] = ConfirmedRow(p)]
      /\ exposure' = [exposure EXCEPT ![b.round] =
             [w \in Wallets |-> IF w \in Players(b) THEN b ELSE exposure[b.round][w]]]
      /\ pairings' = (pairings \ {p}) \union {made}
      /\ queue' = [queue EXCEPT ![b.round] =
             [w \in Wallets |-> IF w \in Players(b) THEN "BATTLE_CREATED"
                                ELSE queue[b.round][w]]]
      /\ UNCHANGED <<matched, chain>>
    BY DEF ConfirmCoordinatorBattle, HasRatedExposure, chainVars
<1>3. made.battle = b /\ made.status = "CREATED"
    BY <1>1 DEF PairingRow
<1> HIDE DEF made
<1>4. \A r \in Rounds, w \in Wallets :
          /\ queue'[r][w] = IF r = b.round /\ w \in Players(b) THEN "BATTLE_CREATED"
                            ELSE queue[r][w]
          /\ exposure'[r][w] = IF r = b.round /\ w \in Players(b) THEN b ELSE exposure[r][w]
    BY <1>1, <1>2 DEF TypedTables
<1>5. \A q \in pairings : q = p \/ (q \in pairings' /\ ~ (q.battle.round = b.round
                                       /\ Players(q.battle) \intersect Players(b) # {}))
    BY <1>2 DEF PairedInv, PairedOnce
<1>6. \A q \in pairings' : q = made \/ (q \in pairings /\ q # p)
    BY <1>2
<1>7. \A q \in pairings' : q.battle \in Battles /\ q.battle.round \in Rounds
                           /\ Players(q.battle) \subseteq Wallets
    BY <1>1, <1>3, <1>6, PairingsAreTyped
<1>8. PairedOnce'
    <2>1. \A q \in pairings' : q.battle.round \in matched'
        BY <1>2, <1>3, <1>6 DEF PairedInv, PairedOnce
    <2>2. ASSUME NEW q \in pairings', NEW s \in pairings', q.battle.round = s.battle.round,
                 Players(q.battle) \intersect Players(s.battle) # {}
          PROVE  q = s
        <3>1. q \in pairings /\ s \in pairings => q = s
            BY <2>2 DEF PairedInv, PairedOnce
        <3>2. q = made => s = made
            BY <1>3, <1>5, <1>6, <2>2
        <3>3. s = made => q = made
            BY <1>3, <1>5, <1>6, <2>2
        <3> QED BY <1>6, <3>1, <3>2, <3>3
    <2> QED BY <2>1, <2>2 DEF PairedOnce, Players
<1>9. EntriesFollowPairings'
    <2>1. ASSUME NEW r \in Rounds, NEW w \in Wallets, queue'[r][w] \in Paired
          PROVE  \E q \in pairings' : q.battle.round = r /\ w \in Players(q.battle)
        <3>1. CASE r = b.round /\ w \in Players(b)
            BY <1>2, <1>3, <3>1
        <3>2. CASE ~ (r = b.round /\ w \in Players(b))
            <4>1. PICK q \in pairings : q.battle.round = r /\ w \in Players(q.battle)
                BY <1>4, <2>1, <3>2 DEF PairedInv, EntriesFollowPairings
            <4>2. q # p
                BY <3>2, <4>1
            <4> QED BY <1>5, <4>1, <4>2
        <3> QED BY <3>1, <3>2
    <2>2. ASSUME NEW q \in pairings', NEW w \in Players(q.battle)
          PROVE  queue'[q.battle.round][w] =
                     IF q.status = "CREATED" THEN "BATTLE_CREATED"
                     ELSE "MATCHED_PENDING_COORDINATOR"
        <3>1. CASE q = made
            <4>1. w \in Wallets /\ w \in Players(b)
                BY <1>1, <1>3, <3>1
            <4> QED BY <1>1, <1>3, <1>4, <3>1, <4>1
        <3>2. CASE q \in pairings /\ q # p
            <4>1. w \in Wallets /\ ~ (q.battle.round = b.round /\ w \in Players(b))
                BY <1>5, <1>7, <3>2
            <4> QED BY <1>4, <1>7, <3>2, <4>1 DEF PairedInv, EntriesFollowPairings
        <3> QED BY <1>6, <3>1, <3>2
    <2> QED BY <2>1, <2>2 DEF EntriesFollowPairings, Players
<1> QED BY <1>8, <1>9 DEF PairedInv

LEMMA PairedUntouched ==
    ASSUME PairedInv, UNCHANGED queueVars
    PROVE  PairedInv'
BY DEF queueVars, PairedInv, PairedOnce, EntriesFollowPairings, Players

LEMMA PairedByQueue ==
    ASSUME TypedTables, PairedInv, QueueTableStep
    PROVE  PairedInv'
<1>1. CASE UNCHANGED queueVars
    BY <1>1, PairedUntouched
<1>2. (\E b \in Battles : IndexBattle(b) \/ IndexStaleBattle(b))
          \/ (\E b \in Battles, w \in Wallets : UpsertRatedExposure(b, w)) => UNCHANGED queueVars
    BY DEF IndexBattle, IndexStaleBattle, UpsertBattle, UpsertRatedExposure
<1> QED BY <1>1, <1>2, RequestKeepsPaired, MatchKeepsPaired, ConfirmKeepsPaired DEF QueueTableStep

=============================================================================
