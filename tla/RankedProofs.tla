------------------------------ MODULE RankedProofs ------------------------------
(***************************************************************************)
(* Proofs about ranked play: the queue of a round, its pairings and the    *)
(* battles made of them always agree, a battle is rated whole or not at    *)
(* all, and the ratings are what the events say.                           *)
(***************************************************************************)
EXTENDS RankedSeason, RankedQueueProofs, SequenceTheorems

(***************************************************************************)
(* The premise of every proof here: the table of expected scores holds     *)
(* integers. The order of the ledger rests on QueuesInTurn as well.        *)
(***************************************************************************)
ScoresAreIntegers == \A gap \in Int : Expected(gap) \in Int

-----------------------------------------------------------------------------
TypedWorker == worker # Idle => worker \in [at : Nat, due : SUBSET Rounds]

Typed == TypedTables /\ TypedWorker

ConfirmedAreExposed ==
    \A p \in pairings : p.status = "CREATED" =>
        /\ RowExists(p.battle)
        /\ \A w \in Players(p.battle) : exposure[p.battle.round][w] = p.battle

OnlyPairedExist ==
    \A b \in Battles : chain[b] # "NONE" => \E p \in pairings : p.battle = b

QueueInv ==
    /\ PairedOnce
    /\ EntriesFollowPairings
    /\ ConfirmedAreExposed
    /\ OnlyPairedExist

-----------------------------------------------------------------------------
\* A row shows the account as it is, or as it was before its settlement.
RowsFollowChain ==
    \A b \in Battles : RowExists(b) =>
        /\ chain[b] # "NONE"
        /\ \/ row[b].state = "CREATED" /\ row[b].result = "PENDING"
           \/ /\ chain[b] \in PossibleResults
              /\ row[b].state = (IF chain[b] = "VOIDED" THEN "VOIDED" ELSE "FINALIZED")
              /\ row[b].result = chain[b]

\* An event is of a settled battle, of a player its result touches.
EventsExplained ==
    \A i \in DOMAIN events :
        LET b == events[i].battle
        IN  /\ chain[b] \in PossibleResults \ {"VOIDED"}
            /\ events[i].wallet \in Affected(b, chain[b])
            /\ events[i].kind = EventKind(chain[b])

EventsWhole ==
    \A i \in DOMAIN events :
        \A w \in Affected(events[i].battle, chain[events[i].battle]) :
            HasEvent(events[i].battle, w)

RatedInv == RowsFollowChain /\ EventsExplained /\ EventsWhole

-----------------------------------------------------------------------------
SettledInTime ==
    \A b \in Battles : chain[b] \in PossibleResults => QueueCloseAt[b.round] <= now

Earlier(c, b) == c.round < b.round /\ Players(c) \intersect Players(b) # {}

\* When a battle is settled the reader has shown the earlier ones.
EarlierShown ==
    \A b, c \in Battles :
        chain[b] \in PossibleResults /\ Earlier(c, b) /\ chain[c] # "NONE" => RowExists(c)

\* When a battle is rated, so are the earlier ones of its players.
EarlierRated ==
    \A b, c \in Battles :
        EventsOf(b) # {} /\ Earlier(c, b) /\ chain[c] # "NONE" =>
            chain[c] = "VOIDED" \/ EventsOf(c) # {}

OrderInv == SettledInTime /\ EarlierShown /\ EarlierRated

-----------------------------------------------------------------------------
EventsInTurn ==
    \A w \in Wallets : \A i, j \in EventsOfWallet(w) :
        i < j => events[i].battle.round < events[j].battle.round

\* The last event of a wallet before the k-th, if there is one.
LastBefore(w, k, i) ==
    /\ i \in EventsOfWallet(w) /\ i < k
    /\ \A j \in EventsOfWallet(w) : j < k => j <= i

EventsLinked ==
    \A w \in Wallets : \A k \in EventsOfWallet(w) :
        /\ events[k].after >= RatingFloor
        /\ \A i \in EventsOfWallet(w) : LastBefore(w, k, i) => events[k].before = events[i].after
        /\ (\A i \in EventsOfWallet(w) : i >= k) => events[k].before = InitialRating

RowsLinked ==
    \A w \in Wallets :
        /\ rating[w] = NoRow => EventsOfWallet(w) = {}
        /\ rating[w] # NoRow =>
               /\ EventsOfWallet(w) = {} => rating[w].rating = InitialRating
               /\ \A k \in EventsOfWallet(w) :
                      (\A i \in EventsOfWallet(w) : i <= k) => rating[w].rating = events[k].after
               /\ rating[w].games =
                      Cardinality({i \in EventsOfWallet(w) : events[i].kind = "PLAYED_RATED_BATTLE"})

LedgerInv == EventsInTurn /\ EventsLinked /\ RowsLinked

Inv == Typed /\ QueueInv /\ RatedInv /\ OrderInv /\ LedgerInv

-----------------------------------------------------------------------------
(***************************************************************************)
(* The steps, by what they do to the tables.                               *)
(***************************************************************************)
TableStep ==
    \/ Tick
    \/ QueueTableStep
    \/ \E at \in Int : ApplyNext(at)
    \/ \E b \in Battles : CreateOnChain(b)
    \/ \E b \in Battles, result \in PossibleResults :
           EarlierBattlesShown(b) /\ ResolveOnChain(b, result)
    \/ UNCHANGED tableVars

LEMMA FirstDueIsDue ==
    ASSUME NEW due, due \subseteq Rounds, due # {}
    PROVE  FirstDue(due) \in due
<1> DEFINE first(r, q) == \/ QueueCloseAt[r] < QueueCloseAt[q]
                          \/ QueueCloseAt[r] = QueueCloseAt[q] /\ r <= q
           R == {rq \in due \X due : first(rq[1], rq[2])}
<1>1. \A r \in due : r \in Int /\ QueueCloseAt[r] \in Int
    BY TableAssumption
<1>2. \A r, q \in due : <<r, q>> \in R <=> first(r, q)
    <2> TAKE r, q \in due
    <2>1. <<r, q>> \in due \X due /\ <<r, q>>[1] = r /\ <<r, q>>[2] = q
        OBVIOUS
    <2> QED BY <2>1
<1> HIDE DEF R
<1>3. \A r, q \in due : first(r, q) \/ first(q, r)
    BY <1>1
<1>4. \A p, r, q \in due : first(p, r) /\ first(r, q) => first(p, q)
    BY <1>1
<1>5. \E r \in due : \A q \in due : <<r, q>> \in R
    <2>1. IsFiniteSet(due)
        BY FS_Subset, TableAssumption
    <2>2. \A r, q \in due : <<r, q>> \in R \/ <<q, r>> \in R
        BY <1>2, <1>3
    <2>3. \A p, r, q \in due : <<p, r>> \in R /\ <<r, q>> \in R => <<p, q>> \in R
        BY <1>2, <1>4
    <2> QED BY <2>1, <2>2, <2>3, LeastElement
<1>6. \E r \in due : \A q \in due : first(r, q)
    BY <1>5, <1>2
<1> QED BY <1>6 DEF FirstDue, LeastBy

LEMMA NextIsTableStep ==
    ASSUME Typed, Next
    PROVE  TableStep
<1>1. now \in Int
    BY DEF Typed, TypedTables
<1>2. CASE Tick \/ Request \/ Command \/ Coordinate \/ Resolve \/ Observe
    <2>1. CASE Observe
        BY <2>1 DEF Observe, TableStep, QueueTableStep
    <2>2. CASE Resolve
        BY <2>2 DEF Resolve, TableStep
    <2>3. CASE Coordinate
        BY <2>3 DEF Coordinate, TableStep, QueueTableStep
    <2>4. CASE Command
        BY <2>4, <1>1 DEF Command, Clocks, TableStep, QueueTableStep
    <2>5. CASE Request
        BY <2>5, <1>1 DEF Request, Clocks, TableStep, QueueTableStep
    <2>6. CASE Tick
        BY <2>6 DEF TableStep
    <2> QED BY <1>2, <2>1, <2>2, <2>3, <2>4, <2>5, <2>6
<1>3. CASE StartTick
    BY <1>3 DEF StartTick, TableStep
<1>4. CASE MatchDueRound
    <2>1. FirstDue(worker.due) \in Rounds /\ worker.at \in Int
        BY <1>4, FirstDueIsDue DEF MatchDueRound, Typed, TypedWorker
    <2> DEFINE r == FirstDue(worker.due)
    <2>2. \/ RunMatchmaker(r, worker.at) \/ ReturnMatchRun(r, worker.at) \/ UNCHANGED tableVars
        BY <1>4 DEF MatchDueRound
    <2> HIDE DEF r
    <2> QED BY <2>1, <2>2 DEF TableStep, QueueTableStep, ReturnMatchRun, r
<1>5. CASE ApplyRatings
    <2>1. worker.at \in Int
        BY <1>5 DEF ApplyRatings, Typed, TypedWorker
    <2>2. ApplyNext(worker.at) \/ UNCHANGED tableVars
        BY <1>5 DEF ApplyRatings
    <2> QED BY <2>1, <2>2 DEF TableStep
<1>6. CASE StopTick
    BY <1>6 DEF StopTick, TableStep
<1> QED BY <1>2, <1>3, <1>4, <1>5, <1>6 DEF Next, RunOnce

-----------------------------------------------------------------------------
(***************************************************************************)
(* The rating worker. What a rating update appends: one event for each     *)
(* player the result touches, of a battle that had none.                   *)
(***************************************************************************)
LEMMA RatingsAreIntegers ==
    ASSUME TypedTables, ScoresAreIntegers, NEW b \in Battles, NEW w \in Players(b)
    PROVE  /\ CurrentRating(w).rating \in Int /\ CurrentRating(w).games \in Nat
           /\ RatingAfter(b, w) \in Int /\ RatingAfter(b, w) >= RatingFloor
<1> DEFINE v == CHOOSE v \in Players(b) : v # w
<1>1. \A x \in Wallets : CurrentRating(x).rating \in Int /\ CurrentRating(x).games \in Nat
    BY TableAssumption DEF CurrentRating, TypedTables, RatingRow
<1>2. Players(b) \subseteq Wallets
    BY BattlesAreTyped DEF Players
<1>3. v \in Players(b)
    <2>1. \E x \in Players(b) : x # w
        BY BattlesAreTyped DEF Players
    <2> QED BY <2>1
<1> HIDE DEF v
<1> DEFINE own == CurrentRating(w).rating
           games == CurrentRating(w).games
           opponent == CurrentRating(v).rating
           result == row[b].result
<1>4. own \in Int /\ games \in Nat /\ opponent \in Int
    BY <1>1, <1>2, <1>3
<1>5. \A x \in Int : Floored(x) \in Int /\ Floored(x) >= RatingFloor
    BY TableAssumption DEF Floored
<1>6. ForfeitRating(own) \in Int /\ ForfeitRating(own) >= RatingFloor
    BY <1>4, <1>5, TableAssumption DEF ForfeitRating
<1>7. ASSUME result \in Played
      PROVE  LET after == EloRating(own, opponent, ActualScore(result, w = b.a), games)
             IN  after \in Int /\ after >= RatingFloor
    <2>1. ActualScore(result, w = b.a) \in Int
        BY <1>7 DEF ActualScore, Played
    <2>2. Expected(opponent - own) \in Int
        BY <1>4 DEF ScoresAreIntegers
    <2>3. KFactor(games) \in Int
        BY DEF KFactor
    <2>4. \A x \in Int : RoundThousandths(x) \in Int
        BY DEF RoundThousandths
    <2>5. \A x, y, z \in Int : x * (y - z) \in Int
        OBVIOUS
    <2>6. KFactor(games) * (ActualScore(result, w = b.a) - Expected(opponent - own)) \in Int
        BY <2>1, <2>2, <2>3, <2>5
    <2>7. own + RoundThousandths(KFactor(games)
                  * (ActualScore(result, w = b.a) - Expected(opponent - own))) \in Int
        BY <2>4, <2>6, <1>4
    <2> QED BY <2>7, <1>5 DEF EloRating
<1>8. RatingAfter(b, w) =
          IF result \in Played
          THEN EloRating(own, opponent, ActualScore(result, w = b.a), games)
          ELSE ForfeitRating(own)
    BY DEF RatingAfter, v
<1> QED BY <1>4, <1>6, <1>7, <1>8

\* What is known of a battle when it is applied.
Applicable(b) ==
    /\ RowExists(b) /\ row[b].state = "FINALIZED" /\ row[b].result # "PENDING"
    /\ row[b].result # "VOIDED"
    /\ EventsOf(b) = {}
    /\ PriorRatingChainResolved(b)

Appended(b, at, es) ==
    /\ es \in Seq(EventRow)
    /\ \A w \in Affected(b, row[b].result) : \E k \in DOMAIN es : es[k] = Event(b, w, at)
    /\ \A k \in DOMAIN es : \E w \in Affected(b, row[b].result) : es[k] = Event(b, w, at)
    /\ \A j, k \in DOMAIN es : es[j].wallet = es[k].wallet => j = k

LEMMA HeadIsApplicable ==
    ASSUME NEW b \in Battles, HeadOfLine(b), ~ Poisoned(b)
    PROVE  Applicable(b)
BY DEF HeadOfLine, Poisoned, Stops, Applicable

LEMMA AffectedArePlayers ==
    ASSUME NEW b \in Battles, NEW result \in PossibleResults
    PROVE  Affected(b, result) \subseteq Players(b)
BY TableAssumption DEF Affected, Players, Played

LEMMA NewEventsAreAppended ==
    ASSUME TypedTables, ScoresAreIntegers, NEW at \in Int, NEW b \in Battles,
           RowExists(b), row[b].result \in PossibleResults
    PROVE  Appended(b, at, NewEvents(b, at))
<1> DEFINE affected == Affected(b, row[b].result)
<1>1. affected \subseteq Players(b)
    BY AffectedArePlayers
<1>2. b.a \in Wallets /\ b.b \in Wallets /\ b.a # b.b /\ Players(b) = {b.a, b.b}
    BY BattlesAreTyped DEF Players
<1>3. \A w \in Players(b) : Event(b, w, at) \in EventRow /\ Event(b, w, at).wallet = w
    <2> TAKE w \in Players(b)
    <2>1. CurrentRating(w).rating \in Int /\ RatingAfter(b, w) \in Int
        BY RatingsAreIntegers
    <2> QED BY <2>1, <1>2 DEF Event, EventRow, EventKind
<1> HIDE DEF affected
<1> DEFINE ea == Event(b, b.a, at)
           eb == Event(b, b.b, at)
<1>4. NewEvents(b, at) = (IF b.a \in affected THEN <<ea>> ELSE << >>)
                         \o (IF b.b \in affected THEN <<eb>> ELSE << >>)
    BY DEF NewEvents, affected
<1>5. ea \in EventRow /\ eb \in EventRow /\ ea.wallet = b.a /\ eb.wallet = b.b
    BY <1>2, <1>3
<1>6. affected \subseteq {b.a, b.b}
    BY <1>1, <1>2
<1>7. Appended(b, at, NewEvents(b, at)) <=>
          LET es == NewEvents(b, at)
          IN  /\ es \in Seq(EventRow)
              /\ \A w \in affected : \E k \in DOMAIN es : es[k] = Event(b, w, at)
              /\ \A k \in DOMAIN es : \E w \in affected : es[k] = Event(b, w, at)
              /\ \A j, k \in DOMAIN es : es[j].wallet = es[k].wallet => j = k
    BY DEF Appended, affected
<1>8. CASE b.a \in affected /\ b.b \in affected
    <2>1. NewEvents(b, at) = <<ea, eb>>
        <3>1. NewEvents(b, at) = <<ea>> \o <<eb>>
            BY <1>4, <1>8
        <3> HIDE DEF ea, eb
        <3>2. <<ea>> \in Seq(EventRow) /\ <<eb>> \in Seq(EventRow) /\ <<ea, eb>> \in Seq(EventRow)
            BY <1>5
        <3>3. Len(<<ea>>) = 1 /\ Len(<<eb>>) = 1 /\ Len(<<ea, eb>>) = 2
            OBVIOUS
        <3>4. <<ea>> \o <<eb>> \in Seq(EventRow) /\ Len(<<ea>> \o <<eb>>) = 2
            BY <3>2, <3>3, ConcatProperties
        <3>5. \A i \in 1..2 : (<<ea>> \o <<eb>>)[i] = IF i <= 1 THEN <<ea>>[i] ELSE <<eb>>[i - 1]
            BY <3>2, <3>3, ConcatProperties
        <3>6. \A i \in 1..2 : (<<ea>> \o <<eb>>)[i] = <<ea, eb>>[i]
            BY <3>5
        <3>7. <<ea>> \o <<eb>> = <<ea, eb>>
            BY <3>2, <3>3, <3>4, <3>6, SeqEqual
        <3> QED BY <3>1, <3>7
    <2> DEFINE es == <<ea, eb>>
    <2>2. es \in Seq(EventRow) /\ DOMAIN es = {1, 2} /\ es[1] = ea /\ es[2] = eb
        BY <1>5
    <2>3. \A w \in affected : w = b.a \/ w = b.b
        BY <1>6
    <2> HIDE DEF es
    <2> QED BY <1>2, <1>5, <1>7, <1>8, <2>1, <2>2, <2>3 DEF es
<1>9. CASE b.a \in affected /\ b.b \notin affected
    <2>1. NewEvents(b, at) = <<ea>>
        <3>1. NewEvents(b, at) = <<ea>> \o << >>
            BY <1>4, <1>9
        <3> HIDE DEF ea, eb
        <3> QED BY <3>1, <1>5
    <2>2. <<ea>> \in Seq(EventRow) /\ DOMAIN <<ea>> = {1} /\ <<ea>>[1] = ea
        BY <1>5
    <2>3. affected = {b.a}
        BY <1>6, <1>9
    <2> QED BY <1>7, <2>1, <2>2, <2>3
<1>10. CASE b.a \notin affected /\ b.b \in affected
    <2>1. NewEvents(b, at) = <<eb>>
        <3>1. NewEvents(b, at) = << >> \o <<eb>>
            BY <1>4, <1>10
        <3> HIDE DEF ea, eb
        <3> QED BY <3>1, <1>5
    <2>2. <<eb>> \in Seq(EventRow) /\ DOMAIN <<eb>> = {1} /\ <<eb>>[1] = eb
        BY <1>5
    <2>3. affected = {b.b}
        BY <1>6, <1>10
    <2> QED BY <1>7, <2>1, <2>2, <2>3
<1>11. CASE b.a \notin affected /\ b.b \notin affected
    <2>1. NewEvents(b, at) = << >>
        <3>1. NewEvents(b, at) = << >> \o << >>
            BY <1>4, <1>11
        <3> QED BY <3>1
    <2>2. affected = {}
        BY <1>6, <1>11
    <2> QED BY <1>7, <2>1, <2>2
<1> QED BY <1>8, <1>9, <1>10, <1>11

\* What a rating update of battle b does, over the indices of the events.
Applied(b, at) ==
    /\ Applicable(b)
    /\ chain[b] = row[b].result /\ chain[b] \in PossibleResults \ {"VOIDED"}
    /\ events' \in Seq(EventRow)
    /\ DOMAIN events \subseteq DOMAIN events' /\ DOMAIN events' \subseteq Nat
    /\ \A i \in DOMAIN events : events'[i] = events[i]
    /\ \A i \in DOMAIN events : \A k \in DOMAIN events' \ DOMAIN events : i < k
    /\ \A w \in Affected(b, chain[b]) :
           \E k \in DOMAIN events' \ DOMAIN events : events'[k] = Event(b, w, at)
    /\ \A k \in DOMAIN events' \ DOMAIN events :
           \E w \in Affected(b, chain[b]) : events'[k] = Event(b, w, at)
    /\ \A j, k \in DOMAIN events' \ DOMAIN events : events'[j].wallet = events'[k].wallet => j = k
    /\ rating' = [w \in Wallets |-> IF w \in Players(b) THEN RatedRow(b, w, at) ELSE rating[w]]

LEMMA ApplyNextApplies ==
    ASSUME TypedTables, RowsFollowChain, ScoresAreIntegers, NEW at \in Int, ApplyNext(at)
    PROVE  \E b \in Battles : Applied(b, at)
<1>1. PICK b \in Battles :
          /\ HeadOfLine(b) /\ ~ Poisoned(b)
          /\ events' = events \o NewEvents(b, at)
          /\ rating' = [w \in Wallets |->
                 IF w \in Players(b) THEN RatedRow(b, w, at) ELSE rating[w]]
    BY DEF ApplyNext
<1>2. Applicable(b)
    BY <1>1, HeadIsApplicable
<1>3. chain[b] = row[b].result /\ chain[b] \in PossibleResults \ {"VOIDED"}
    BY <1>2 DEF Applicable, RowsFollowChain
<1> DEFINE es == NewEvents(b, at)
           n == Len(events)
<1>4. Appended(b, at, es)
    BY <1>2, <1>3, NewEventsAreAppended DEF Applicable
<1>5. es \in Seq(EventRow) /\ events \in Seq(EventRow)
    BY <1>4 DEF Appended, TypedTables
<1> HIDE DEF es
<1>6. /\ events' \in Seq(EventRow) /\ Len(events') = n + Len(es)
      /\ \A i \in 1..(n + Len(es)) : events'[i] = IF i <= n THEN events[i] ELSE es[i - n]
    BY <1>1, <1>5, ConcatProperties DEF es
<1>7. /\ DOMAIN events = 1..n /\ n \in Nat /\ DOMAIN es = 1..Len(es) /\ Len(es) \in Nat
      /\ DOMAIN events' = 1..(n + Len(es))
    BY <1>5, <1>6
<1> HIDE DEF n
<1>8. \A k \in DOMAIN events' \ DOMAIN events : k - n \in DOMAIN es /\ events'[k] = es[k - n]
    BY <1>6, <1>7
<1>9. \A k \in DOMAIN es : n + k \in DOMAIN events' \ DOMAIN events /\ events'[n + k] = es[k]
    <2> TAKE k \in DOMAIN es
    <2>1. n + k \in DOMAIN events' \ DOMAIN events /\ ~ (n + k <= n) /\ (n + k) - n = k
        BY <1>7
    <2> QED BY <2>1, <1>6, <1>7
<1>10. /\ DOMAIN events \subseteq DOMAIN events' /\ DOMAIN events' \subseteq Nat
       /\ \A i \in DOMAIN events : events'[i] = events[i]
       /\ \A i \in DOMAIN events : \A k \in DOMAIN events' \ DOMAIN events : i < k
    BY <1>6, <1>7
<1>11. \A w \in Affected(b, chain[b]) :
           \E k \in DOMAIN events' \ DOMAIN events : events'[k] = Event(b, w, at)
    BY <1>3, <1>4, <1>9 DEF Appended
<1>12. \A k \in DOMAIN events' \ DOMAIN events :
           \E w \in Affected(b, chain[b]) : events'[k] = Event(b, w, at)
    BY <1>3, <1>4, <1>8 DEF Appended
<1>13. \A j, k \in DOMAIN events' \ DOMAIN events :
           events'[j].wallet = events'[k].wallet => j = k
    <2> TAKE j, k \in DOMAIN events' \ DOMAIN events
    <2>1. events'[j].wallet = events'[k].wallet => j - n = k - n
        BY <1>4, <1>8 DEF Appended
    <2> QED BY <2>1, <1>7
<1> QED BY <1>1, <1>2, <1>3, <1>6, <1>10, <1>11, <1>12, <1>13 DEF Applied

LEMMA RatedRowIsTyped ==
    ASSUME TypedTables, ScoresAreIntegers, NEW b \in Battles, NEW w \in Players(b), NEW at \in Int
    PROVE  RatedRow(b, w, at) \in RatingRow
<1>1. /\ CurrentRating(w).games \in Nat /\ RatingAfter(b, w) \in Int
      /\ w \in Wallets
    BY RatingsAreIntegers, BattlesAreTyped DEF Players
<1>2. rating[w] # NoRow => rating[w] \in RatingRow
    BY <1>1 DEF TypedTables
<1> QED BY <1>1, <1>2, TableAssumption DEF RatedRow, RatingRow

LEMMA TypedTablesStep ==
    ASSUME TypedTables, RowsFollowChain, ScoresAreIntegers, TableStep
    PROVE  TypedTables'
<1> USE DEF TypedTables
<1>1. CASE Tick
    BY <1>1 DEF Tick, queueVars, chainVars, projectionVars, ledgerVars
<1>2. CASE QueueTableStep
    BY <1>2, TypedByQueue
<1>3. ASSUME NEW at \in Int, ApplyNext(at)
      PROVE  TypedTables'
    <2>1. PICK b \in Battles : Applied(b, at)
        BY <1>3, ApplyNextApplies
    <2>2. \A w \in Players(b) : RatedRow(b, w, at) \in RatingRow
        BY RatedRowIsTyped
    <2>3. rating' \in [Wallets -> RatingRow \union {NoRow}]
        BY <2>1, <2>2 DEF Applied
    <2> QED BY <1>3, <2>1, <2>3 DEF Applied, ApplyNext, queueVars, chainVars, projectionVars
<1>4. ASSUME NEW b \in Battles, CreateOnChain(b)
      PROVE  TypedTables'
    BY <1>4 DEF CreateOnChain, queueVars, projectionVars, ledgerVars
<1>5. ASSUME NEW b \in Battles, NEW result \in PossibleResults, ResolveOnChain(b, result)
      PROVE  TypedTables'
    BY <1>5 DEF ResolveOnChain, queueVars, projectionVars, ledgerVars
<1>6. CASE UNCHANGED tableVars
    BY <1>6 DEF tableVars, queueVars, chainVars, projectionVars, ledgerVars
<1> QED BY <1>1, <1>2, <1>3, <1>4, <1>5, <1>6 DEF TableStep

-----------------------------------------------------------------------------
(***************************************************************************)
(* The queue, the pairings, the rated exposures and the battles on chain   *)
(* stay in step. A wallet with a pairing can neither leave nor join again, *)
(* and a round is matched once, so that the times requests carry do not    *)
(* matter.                                                                 *)
(***************************************************************************)
LEMMA RequestKeepsQueue ==
    ASSUME TypedTables, QueueInv, NEW r \in Rounds, NEW w \in Wallets, NEW at,
           JoinQueue(r, w, at) \/ LeaveQueue(r, w, at)
    PROVE  QueueInv'
<1>1. PairedInv'
    BY RequestKeepsPaired DEF QueueInv, PairedInv
<1>2. UNCHANGED <<pairings, chain, row, exposure>>
    BY DEF JoinQueue, LeaveQueue, chainVars, projectionVars
<1> QED BY <1>1, <1>2
        DEF QueueInv, PairedInv, ConfirmedAreExposed, OnlyPairedExist, RowExists, Players

LEMMA MatchKeepsQueue ==
    ASSUME TypedTables, QueueInv, NEW r \in Rounds, NEW at, RunMatchmaker(r, at)
    PROVE  QueueInv'
<1>1. PairedInv'
    BY MatchKeepsPaired DEF QueueInv, PairedInv
<1>2. PICK P : MatchedWith(r, P)
    BY MatchmakerMatches
<1>3. \A pair \in P : Pairing(r, pair).status = "PENDING_COORDINATOR"
    BY <1>2, PairingOfPair DEF MatchedWith
<1>4. pairings' = pairings \union {Pairing(r, pair) : pair \in P}
      /\ UNCHANGED <<chain, row, exposure>>
    BY <1>2 DEF MatchedWith, RunMatchmaker, chainVars, projectionVars
<1>5. ConfirmedAreExposed'
    BY <1>3, <1>4 DEF QueueInv, ConfirmedAreExposed, RowExists, Players
<1>6. OnlyPairedExist'
    BY <1>4 DEF QueueInv, OnlyPairedExist
<1> QED BY <1>1, <1>5, <1>6 DEF QueueInv, PairedInv

LEMMA ConfirmKeepsQueue ==
    ASSUME TypedTables, QueueInv, NEW p \in pairings, ConfirmCoordinatorBattle(p)
    PROVE  QueueInv'
<1> DEFINE b == p.battle
           made == [p EXCEPT !.status = "CREATED"]
<1>1. /\ b \in Battles /\ b.round \in Rounds /\ Players(b) \subseteq Wallets
      /\ Players(b) # {} /\ p \in PairingRow
    BY PairingsAreTyped
<1>2. /\ p.status = "PENDING_COORDINATOR"
      /\ \A w \in Players(b) : exposure[b.round][w] = NoBattle
      /\ row' = [row EXCEPT ![b] = ConfirmedRow(p)]
      /\ exposure' = [exposure EXCEPT ![b.round] =
             [w \in Wallets |-> IF w \in Players(b) THEN b ELSE exposure[b.round][w]]]
      /\ pairings' = (pairings \ {p}) \union {made}
      /\ queue' = [queue EXCEPT ![b.round] =
             [w \in Wallets |-> IF w \in Players(b) THEN "BATTLE_CREATED"
                                ELSE queue[b.round][w]]]
      /\ UNCHANGED <<matched, chain>>
    BY DEF ConfirmCoordinatorBattle, HasRatedExposure, chainVars
<1>3. made.battle = b /\ made.status = "CREATED"
    BY <1>1 DEF PairingRow
<1> HIDE DEF made
<1>4. \A r \in Rounds, w \in Wallets :
          /\ queue'[r][w] = IF r = b.round /\ w \in Players(b) THEN "BATTLE_CREATED"
                            ELSE queue[r][w]
          /\ exposure'[r][w] = IF r = b.round /\ w \in Players(b) THEN b ELSE exposure[r][w]
    BY <1>1, <1>2 DEF TypedTables
<1>5. \A q \in pairings : q = p \/ (q \in pairings' /\ ~ (q.battle.round = b.round
                                       /\ Players(q.battle) \intersect Players(b) # {}))
    BY <1>2 DEF QueueInv, PairedOnce
<1>6. \A q \in pairings' : q = made \/ (q \in pairings /\ q # p)
    BY <1>2
<1>7. \A q \in pairings' : q.battle \in Battles /\ q.battle.round \in Rounds
                           /\ Players(q.battle) \subseteq Wallets
    BY <1>1, <1>3, <1>6, PairingsAreTyped
<1>8. PairedInv'
    BY ConfirmKeepsPaired DEF QueueInv, PairedInv
<1>9. ConfirmedAreExposed'
    <2>1. ConfirmedRow(p) # NoRow
        BY <1>1, ConfirmedRowIsARow, MissingAssumption DEF PairingRow
    <2>2. \A c \in Battles : row[c] # NoRow => row'[c] # NoRow
        BY <1>1, <1>2, <2>1 DEF TypedTables
    <2>3. ASSUME NEW q \in pairings', q.status = "CREATED"
          PROVE  /\ row'[q.battle] # NoRow
                 /\ \A w \in Players(q.battle) : exposure'[q.battle.round][w] = q.battle
        <3>1. CASE q = made
            BY <1>1, <1>2, <1>3, <1>4, <2>1, <3>1 DEF TypedTables
        <3>2. CASE q \in pairings /\ q # p
            <4>1. row[q.battle] # NoRow
                  /\ \A w \in Players(q.battle) : exposure[q.battle.round][w] = q.battle
                BY <2>3, <3>2 DEF QueueInv, ConfirmedAreExposed, RowExists
            <4>2. \A w \in Players(q.battle) :
                      w \in Wallets /\ ~ (q.battle.round = b.round /\ w \in Players(b))
                BY <1>5, <1>7, <3>2
            <4> QED BY <1>4, <1>7, <2>2, <4>1, <4>2
        <3> QED BY <1>6, <3>1, <3>2
    <2> QED BY <2>3 DEF ConfirmedAreExposed, RowExists, Players
<1>10. OnlyPairedExist'
    <2>1. made \in pairings'
        BY <1>2
    <2>2. \A q \in pairings : \E s \in pairings' : s.battle = q.battle
        BY <2>1, <1>3, <1>5
    <2> QED BY <1>2, <2>2 DEF QueueInv, OnlyPairedExist
<1> QED BY <1>8, <1>9, <1>10 DEF QueueInv, PairedInv

LEMMA RowsStay ==
    ASSUME TypedTables, TableStep
    PROVE  \A b \in Battles : row[b] # NoRow => row'[b] # NoRow
<1>1. ASSUME NEW p \in pairings, ConfirmCoordinatorBattle(p)
      PROVE  \A b \in Battles : row[b] # NoRow => row'[b] # NoRow
    BY <1>1, PairingsAreTyped, ConfirmedRowIsARow, MissingAssumption
    DEF ConfirmCoordinatorBattle, TypedTables, PairingRow
<1>2. ASSUME NEW c \in Battles, IndexBattle(c) \/ IndexStaleBattle(c)
      PROVE  \A b \in Battles : row[b] # NoRow => row'[b] # NoRow
    BY <1>2, ObservedIsARow, MissingAssumption DEF TypedTables
<1>3. \/ UNCHANGED row
      \/ \E p \in pairings : ConfirmCoordinatorBattle(p)
      \/ \E c \in Battles : IndexBattle(c) \/ IndexStaleBattle(c)
    BY DEF TableStep, QueueTableStep, Tick, JoinQueue, LeaveQueue, ApplyNext, RunMatchmaker,
           CreateOnChain, ResolveOnChain, UpsertRatedExposure, tableVars, projectionVars
<1> QED BY <1>1, <1>2, <1>3

LEMMA QueueInvStep ==
    ASSUME TypedTables, QueueInv, TableStep
    PROVE  QueueInv'
<1>1. CASE UNCHANGED <<queueVars, chain, row, exposure>>
    BY <1>1 DEF queueVars, QueueInv, PairedOnce, EntriesFollowPairings, ConfirmedAreExposed,
                OnlyPairedExist, RowExists, Players
<1>2. ASSUME NEW r \in Rounds, NEW w \in Wallets, NEW at, JoinQueue(r, w, at) \/ LeaveQueue(r, w, at)
      PROVE  QueueInv'
    BY <1>2, RequestKeepsQueue
<1>3. ASSUME NEW r \in Rounds, NEW at, RunMatchmaker(r, at)
      PROVE  QueueInv'
    BY <1>3, MatchKeepsQueue
<1>4. ASSUME NEW p \in pairings, ConfirmCoordinatorBattle(p)
      PROVE  QueueInv'
    BY <1>4, ConfirmKeepsQueue
<1>5. ASSUME NEW b \in Battles, NEW result,
             CreateOnChain(b) \/ (ResolveOnChain(b, result))
      PROVE  QueueInv'
    <2>1. UNCHANGED <<matched, pairings, queue, row, exposure>>
        BY <1>5 DEF CreateOnChain, ResolveOnChain, queueVars, projectionVars
    <2>2. \E p \in pairings : p.battle = b
        BY <1>5 DEF CreateOnChain, ResolveOnChain, QueueInv, OnlyPairedExist
    <2>3. \A c \in Battles : c = b \/ chain'[c] = chain[c]
        BY <1>5 DEF CreateOnChain, ResolveOnChain, TypedTables
    <2>4. OnlyPairedExist'
        BY <2>1, <2>2, <2>3 DEF QueueInv, OnlyPairedExist
    <2> QED BY <2>1, <2>4 DEF QueueInv, PairedOnce, EntriesFollowPairings, ConfirmedAreExposed,
                              RowExists, Players
<1>6. ASSUME NEW b \in Battles, NEW w \in Wallets,
             IndexBattle(b) \/ IndexStaleBattle(b) \/ UpsertRatedExposure(b, w)
      PROVE  QueueInv'
    <2>1. UNCHANGED <<matched, pairings, queue, chain>>
        BY <1>6 DEF IndexBattle, IndexStaleBattle, UpsertBattle, UpsertRatedExposure, queueVars,
                    chainVars
    <2>2. \A c \in Battles : row[c] # NoRow => row'[c] # NoRow
        BY RowsStay
    <2>3. \A r \in Rounds, v \in Wallets :
              exposure[r][v] # NoBattle => exposure'[r][v] = exposure[r][v]
        <3>1. CASE UpsertRatedExposure(b, w)
            BY <3>1, BattlesAreTyped DEF UpsertRatedExposure, TypedTables
        <3>2. CASE IndexBattle(b) \/ IndexStaleBattle(b)
            BY <3>2 DEF IndexBattle, IndexStaleBattle, UpsertBattle
        <3> QED BY <1>6, <3>1, <3>2
    <2>4. ConfirmedAreExposed'
        <3>1. ASSUME NEW p \in pairings, p.status = "CREATED"
              PROVE  /\ row'[p.battle] # NoRow
                     /\ \A v \in Players(p.battle) : exposure'[p.battle.round][v] = p.battle
            <4>1. /\ row[p.battle] # NoRow
                  /\ \A v \in Players(p.battle) : exposure[p.battle.round][v] = p.battle
                BY <3>1 DEF QueueInv, ConfirmedAreExposed, RowExists
            <4>2. p.battle # NoBattle
                BY MissingAssumption, PairingsAreTyped
            <4> QED BY <2>2, <2>3, <4>1, <4>2, PairingsAreTyped
        <3> QED BY <2>1, <3>1 DEF ConfirmedAreExposed, RowExists, Players
    <2> QED BY <2>1, <2>4 DEF QueueInv, PairedOnce, EntriesFollowPairings, OnlyPairedExist, Players
<1>7. ASSUME NEW at, ApplyNext(at)
      PROVE  QueueInv'
    BY <1>1, <1>7 DEF ApplyNext, queueVars, chainVars, projectionVars
<1>8. CASE Tick \/ UNCHANGED tableVars
    BY <1>1, <1>8 DEF Tick, tableVars, queueVars, chainVars, projectionVars
<1>9. \A b \in Battles : \E w \in Wallets : w = b.a
    BY BattlesAreTyped
<1> QED BY <1>2, <1>3, <1>4, <1>5, <1>6, <1>7, <1>8, <1>9 DEF TableStep, QueueTableStep

LEMMA QueueInvSuffices ==
    ASSUME TypedTables, QueueInv
    PROVE  QueueMatchesPairings
<1>1. ASSUME NEW r \in Rounds, NEW w \in Wallets
      PROVE  LET own == {p \in pairings : p.battle.round = r /\ w \in Players(p.battle)}
             IN  /\ Cardinality(own) <= 1
                 /\ queue[r][w] \in Paired <=> own # {}
                 /\ \A p \in own : queue[r][w] = "BATTLE_CREATED" <=> p.status = "CREATED"
    <2> DEFINE own == {p \in pairings : p.battle.round = r /\ w \in Players(p.battle)}
    <2>1. own = {} \/ \E p \in own : own = {p}
        BY DEF QueueInv, PairedOnce
    <2>2. Cardinality(own) <= 1
        <3>1. Cardinality({}) = 0 /\ \A p \in own : Cardinality({p}) = 1
            BY FS_EmptySet, FS_Singleton
        <3> HIDE DEF own
        <3> QED BY <2>1, <3>1
    <2>3. \A p \in own : queue[r][w] = IF p.status = "CREATED" THEN "BATTLE_CREATED"
                                       ELSE "MATCHED_PENDING_COORDINATOR"
        BY DEF QueueInv, EntriesFollowPairings
    <2>4. queue[r][w] \in Paired => own # {}
        BY DEF QueueInv, EntriesFollowPairings
    <2> QED BY <2>2, <2>3, <2>4 DEF Paired
<1> QED BY <1>1 DEF QueueMatchesPairings, QueueInv, ConfirmedAreExposed, OnlyPairedExist

-----------------------------------------------------------------------------
(***************************************************************************)
(* A row follows the account of its battle, and a result on chain stays:   *)
(* so an update, made from the row, is of what the chain says for good.    *)
(***************************************************************************)
LEMMA ChainStep ==
    ASSUME TypedTables, TableStep
    PROVE  /\ \A b \in Battles : chain[b] \in PossibleResults => chain'[b] = chain[b]
           /\ \A b \in Battles : chain[b] # "NONE" => chain'[b] # "NONE"
<1>1. ASSUME NEW b \in Battles, NEW result \in PossibleResults,
             CreateOnChain(b) \/ ResolveOnChain(b, result)
      PROVE  \A c \in Battles : /\ chain[c] \in PossibleResults => chain'[c] = chain[c]
                                /\ chain[c] # "NONE" => chain'[c] # "NONE"
    <2>1. chain[b] \notin PossibleResults
        BY <1>1, TableAssumption DEF CreateOnChain, ResolveOnChain
    <2>2. chain'[b] # "NONE" /\ \A c \in Battles : c # b => chain'[c] = chain[c]
        BY <1>1, TableAssumption DEF CreateOnChain, ResolveOnChain, TypedTables
    <2> QED BY <2>1, <2>2
<1>2. CASE \E b \in Battles : CreateOnChain(b)
    <2>1. CASE PossibleResults # {}
        BY <1>1, <1>2, <2>1
    <2>2. CASE PossibleResults = {}
        <3>1. PICK b \in Battles : CreateOnChain(b)
            BY <1>2
        <3>2. chain'[b] # "NONE" /\ \A c \in Battles : c # b => chain'[c] = chain[c]
            BY <3>1 DEF CreateOnChain, TypedTables
        <3> QED BY <2>2, <3>2
    <2> QED BY <2>1, <2>2
<1>3. CASE \E b \in Battles, result \in PossibleResults : ResolveOnChain(b, result)
    BY <1>1, <1>3
<1>4. CASE UNCHANGED chain
    BY <1>4
<1>5. UNCHANGED chain \/ (\E b \in Battles : CreateOnChain(b))
          \/ (\E b \in Battles, result \in PossibleResults : ResolveOnChain(b, result))
    BY DEF TableStep, QueueTableStep, Tick, JoinQueue, LeaveQueue, ApplyNext,
           RunMatchmaker, ConfirmCoordinatorBattle, IndexBattle, IndexStaleBattle, UpsertBattle,
           UpsertRatedExposure, tableVars, chainVars
<1> QED BY <1>2, <1>3, <1>4, <1>5

\* A row says what the account is, or was before its settlement.
Shows(r, account) ==
    \/ r.state = "CREATED" /\ r.result = "PENDING"
    \/ /\ account \in PossibleResults
       /\ r.state = (IF account = "VOIDED" THEN "VOIDED" ELSE "FINALIZED")
       /\ r.result = account

LEMMA RowsStep ==
    ASSUME TypedTables, RowsFollowChain, TableStep
    PROVE  RowsFollowChain'
<1>1. \A b \in Battles : /\ chain[b] \in PossibleResults => chain'[b] = chain[b]
                         /\ chain[b] # "NONE" => chain'[b] # "NONE"
    BY ChainStep
<1>2. \A b \in Battles : RowExists(b) => chain[b] # "NONE" /\ Shows(row[b], chain[b])
    BY DEF RowsFollowChain, Shows
<1>3. SUFFICES ASSUME NEW b \in Battles, row'[b] # NoRow
               PROVE  chain'[b] # "NONE" /\ Shows(row'[b], chain'[b])
    BY DEF RowsFollowChain, RowExists, Shows
<1>4. CASE row'[b] = row[b]
    BY <1>1, <1>2, <1>3, <1>4 DEF RowExists, Shows
<1>5. ASSUME NEW p \in pairings, ConfirmCoordinatorBattle(p), row'[b] # row[b]
      PROVE  chain'[b] # "NONE" /\ Shows(row'[b], chain'[b])
    <2>1. p.battle = b /\ row'[b] = ConfirmedRow(p) /\ chain[b] # "NONE"
        BY <1>5, PairingsAreTyped DEF ConfirmCoordinatorBattle, TypedTables
    <2>2. CASE row[b] = NoRow
        BY <1>1, <2>1, <2>2 DEF ConfirmedRow, Shows
    <2>3. CASE row[b] # NoRow
        <3>1. row[b] \in BattleRow
            BY <2>3 DEF TypedTables
        <3>2. row'[b].state = row[b].state /\ row'[b].result = row[b].result
            BY <2>1, <2>3, <3>1 DEF ConfirmedRow, BattleRow
        <3> QED BY <1>1, <1>2, <2>3, <3>2 DEF RowExists, Shows
    <2> QED BY <2>2, <2>3
<1>6. ASSUME NEW c \in Battles, IndexBattle(c) \/ IndexStaleBattle(c), row'[b] # row[b]
      PROVE  chain'[b] # "NONE" /\ Shows(row'[b], chain'[b])
    <2>1. PICK account, after : /\ UpsertBattle(c, account, after)
                                /\ account = chain[c] \/ account = "OPEN"
                                /\ chain[c] # "NONE"
        BY <1>6, TableAssumption DEF IndexBattle, IndexStaleBattle
    <2>2. b = c /\ row'[b] = Observed(b, account, after) /\ chain' = chain
        BY <1>6, <2>1 DEF UpsertBattle, TypedTables, chainVars
    <2>3. chain[b] = "OPEN" \/ chain[b] \in PossibleResults \ {"OPEN"}
        BY <2>1, <2>2, TableAssumption DEF TypedTables
    <2> QED BY <2>1, <2>2, <2>3 DEF Observed, StateOf, ResultOf, Shows
<1>7. \/ UNCHANGED row
      \/ \E p \in pairings : ConfirmCoordinatorBattle(p)
      \/ \E c \in Battles : IndexBattle(c) \/ IndexStaleBattle(c)
    BY DEF TableStep, QueueTableStep, Tick, JoinQueue, LeaveQueue, ApplyNext, RunMatchmaker,
           CreateOnChain, ResolveOnChain, UpsertRatedExposure, tableVars, projectionVars
<1> QED BY <1>4, <1>5, <1>6, <1>7

LEMMA LedgerStep ==
    ASSUME TypedTables, RowsFollowChain, ScoresAreIntegers, TableStep
    PROVE  \/ UNCHANGED ledgerVars
           \/ \E b \in Battles, at \in Int :
                  Applied(b, at) /\ UNCHANGED <<now, chainVars, projectionVars>>
<1>1. ASSUME NEW at \in Int, ApplyNext(at)
      PROVE  \E b \in Battles :
                 Applied(b, at) /\ UNCHANGED <<now, chainVars, projectionVars>>
    BY <1>1, ApplyNextApplies DEF ApplyNext
<1>2. UNCHANGED ledgerVars \/ \E at \in Int : ApplyNext(at)
    BY DEF TableStep, QueueTableStep, Tick, JoinQueue, LeaveQueue, RunMatchmaker,
           CreateOnChain, ConfirmCoordinatorBattle, ResolveOnChain, IndexBattle, IndexStaleBattle, UpsertBattle,
           UpsertRatedExposure, tableVars
<1> QED BY <1>1, <1>2

LEMMA EventIs ==
    ASSUME NEW b \in Battles, NEW w \in Wallets, NEW at
    PROVE  /\ Event(b, w, at).battle = b /\ Event(b, w, at).wallet = w
           /\ Event(b, w, at).kind = EventKind(row[b].result) /\ Event(b, w, at).at = at
           /\ Event(b, w, at).before = CurrentRating(w).rating
           /\ Event(b, w, at).after = RatingAfter(b, w)
BY DEF Event

LEMMA EventsAreTyped ==
    ASSUME TypedTables, NEW i \in DOMAIN events
    PROVE  /\ events[i] \in EventRow /\ events[i].battle \in Battles
           /\ events[i].wallet \in Wallets /\ i \in Nat
<1>1. events[i] \in EventRow /\ DOMAIN events = 1..Len(events)
    BY DEF TypedTables
<1> QED BY <1>1 DEF EventRow

LEMMA EventsExplainedStep ==
    ASSUME TypedTables, RatedInv, ScoresAreIntegers, TableStep
    PROVE  EventsExplained' /\ EventsWhole'
<1>1. \A i \in DOMAIN events :
          /\ chain[events[i].battle] \in PossibleResults \ {"VOIDED"}
          /\ chain'[events[i].battle] = chain[events[i].battle]
    BY ChainStep, EventsAreTyped DEF RatedInv, EventsExplained
<1>2. CASE UNCHANGED ledgerVars
    BY <1>1, <1>2 DEF ledgerVars, RatedInv, EventsExplained, EventsWhole, HasEvent, EventsOf
<1>3. ASSUME NEW b \in Battles, NEW at \in Int,
             Applied(b, at), UNCHANGED <<chain, row>>
      PROVE  EventsExplained' /\ EventsWhole'
    <2> DEFINE fresh == DOMAIN events' \ DOMAIN events
    <2>1. Affected(b, chain[b]) \subseteq Wallets
        <3>1. Affected(b, chain[b]) \subseteq Players(b)
            BY <1>3, AffectedArePlayers DEF Applied
        <3>2. Players(b) \subseteq Wallets
            BY BattlesAreTyped DEF Players
        <3> QED BY <3>1, <3>2
    <2>2. \A k \in fresh : \E w \in Affected(b, chain[b]) : events'[k] = Event(b, w, at)
        BY <1>3 DEF Applied
    <2>3. \A k \in fresh : /\ events'[k].battle = b
                           /\ events'[k].wallet \in Affected(b, chain[b])
                           /\ events'[k].kind = EventKind(chain[b])
        BY <1>3, <2>1, <2>2, EventIs DEF Applied
    <2>4. \A i \in DOMAIN events' : i \in fresh \/ (i \in DOMAIN events /\ events'[i] = events[i])
        BY <1>3 DEF Applied
    <2>5. EventsExplained'
        <3> SUFFICES ASSUME NEW i \in DOMAIN events'
                     PROVE  LET c == events'[i].battle
                            IN  /\ chain[c] \in PossibleResults \ {"VOIDED"}
                                /\ events'[i].wallet \in Affected(c, chain[c])
                                /\ events'[i].kind = EventKind(chain[c])
            BY <1>3 DEF EventsExplained, Affected, Players, EventKind
        <3>1. CASE i \in fresh
            BY <1>3, <2>3, <3>1 DEF Applied
        <3>2. CASE i \in DOMAIN events /\ events'[i] = events[i]
            BY <3>2 DEF RatedInv, EventsExplained
        <3> QED BY <2>4, <3>1, <3>2
    <2>6. EventsWhole'
        <3> SUFFICES ASSUME NEW i \in DOMAIN events',
                            NEW w \in Affected(events'[i].battle, chain[events'[i].battle])
                     PROVE  \E k \in DOMAIN events' :
                                events'[k].battle = events'[i].battle /\ events'[k].wallet = w
            BY <1>3 DEF EventsWhole, HasEvent, EventsOf
        <3>1. CASE i \in fresh
            <4>1. events'[i].battle = b
                BY <2>3, <3>1
            <4>2. PICK k \in fresh : events'[k] = Event(b, w, at)
                BY <1>3, <4>1 DEF Applied
            <4>3. events'[k].battle = b /\ events'[k].wallet = w
                BY <2>1, <4>1, <4>2, EventIs
            <4> QED BY <4>1, <4>3
        <3>2. CASE i \in DOMAIN events /\ events'[i] = events[i]
            <4>1. PICK k \in DOMAIN events :
                      events[k].battle = events[i].battle /\ events[k].wallet = w
                BY <3>2 DEF RatedInv, EventsWhole, HasEvent, EventsOf
            <4>2. k \in DOMAIN events' /\ events'[k] = events[k]
                BY <1>3 DEF Applied
            <4> QED BY <3>2, <4>1, <4>2
        <3> QED BY <2>4, <3>1, <3>2
    <2> QED BY <2>5, <2>6
<1> QED BY <1>2, <1>3, LedgerStep DEF RatedInv, chainVars, projectionVars

LEMMA RatedInvStep ==
    ASSUME TypedTables, RatedInv, ScoresAreIntegers, TableStep
    PROVE  RatedInv'
BY RowsStep, EventsExplainedStep DEF RatedInv

LEMMA RatedInvSuffices ==
    ASSUME TypedTables, RatedInv
    PROVE  BattlesRatedWhole
<1> SUFFICES ASSUME NEW b \in Battles, EventsOf(b) # {}
             PROVE  /\ chain[b] \in PossibleResults \ {"VOIDED"}
                    /\ {events[i].wallet : i \in EventsOf(b)} =
                           Players(b) \ (CASE chain[b] = "FORFEIT_A" -> {b.b}
                                           [] chain[b] = "FORFEIT_B" -> {b.a}
                                           [] OTHER -> {})
    BY DEF BattlesRatedWhole
<1>1. PICK i \in DOMAIN events : events[i].battle = b
    BY DEF EventsOf
<1>2. chain[b] \in PossibleResults \ {"VOIDED"}
    BY <1>1 DEF RatedInv, EventsExplained
<1>3. {events[k].wallet : k \in EventsOf(b)} = Affected(b, chain[b])
    <2>1. \A k \in EventsOf(b) : events[k].wallet \in Affected(b, chain[b])
        BY DEF EventsOf, RatedInv, EventsExplained
    <2>2. \A w \in Affected(b, chain[b]) : \E k \in EventsOf(b) : events[k].wallet = w
        BY <1>1 DEF RatedInv, EventsWhole, HasEvent
    <2> QED BY <2>1, <2>2
<1>4. b.a # b.b
    BY BattlesAreTyped
<1>5. chain[b] \in {"PLAYER_A", "PLAYER_B", "DRAW", "FORFEIT_A", "FORFEIT_B", "BOTH_FORFEIT"}
    BY <1>2, TableAssumption
<1>6. Affected(b, chain[b]) = Players(b) \ (CASE chain[b] = "FORFEIT_A" -> {b.b}
                                              [] chain[b] = "FORFEIT_B" -> {b.a}
                                              [] OTHER -> {})
    BY <1>4, <1>5 DEF Affected, Played, Players
<1> QED BY <1>2, <1>3, <1>6

-----------------------------------------------------------------------------
(***************************************************************************)
(* Battles of the same wallet are rated in the order of their rounds. When *)
(* one is settled no earlier one can still be created, and the reader has  *)
(* shown those there are, so the worker, which waits for the earlier rows, *)
(* waits for every earlier battle.                                         *)
(***************************************************************************)
LEMMA SettledInTimeStep ==
    ASSUME TypedTables, SettledInTime, TableStep
    PROVE  SettledInTime' /\ now <= now'
<1>1. now' \in Int /\ now \in Int /\ now <= now'
    <2>1. now' = now \/ now' = now + 1
        BY DEF TableStep, QueueTableStep, Tick, JoinQueue, LeaveQueue, ApplyNext, RunMatchmaker,
               CreateOnChain, ConfirmCoordinatorBattle, ResolveOnChain, IndexBattle, IndexStaleBattle,
               UpsertBattle, UpsertRatedExposure, tableVars
    <2> QED BY <2>1 DEF TypedTables
<1>2. \A b \in Battles : b.round \in Rounds /\ QueueCloseAt[b.round] \in Int
                         /\ QueueCloseAt[b.round] <= EndAt[b.round] /\ EndAt[b.round] \in Int
    BY BattlesAreTyped, TableAssumption
<1>3. \A b \in Battles : chain'[b] \in PossibleResults =>
          chain[b] \in PossibleResults \/ QueueCloseAt[b.round] <= now
    <2>1. ASSUME NEW b \in Battles, NEW result \in PossibleResults, ResolveOnChain(b, result)
          PROVE  \A c \in Battles : chain'[c] \in PossibleResults =>
                     chain[c] \in PossibleResults \/ QueueCloseAt[c.round] <= now
        <3>1. now >= (IF result \in Played THEN EndAt[b.round] ELSE QueueCloseAt[b.round])
            BY <2>1 DEF ResolveOnChain
        <3>2. \A c \in Battles : c = b \/ chain'[c] = chain[c]
            BY <2>1 DEF ResolveOnChain, TypedTables
        <3> QED BY <1>1, <1>2, <3>1, <3>2
    <2>2. ASSUME NEW b \in Battles, CreateOnChain(b)
          PROVE  \A c \in Battles : chain'[c] \in PossibleResults => chain[c] \in PossibleResults
        BY <2>2, TableAssumption DEF CreateOnChain, TypedTables
    <2>3. UNCHANGED chain \/ (\E b \in Battles : CreateOnChain(b))
              \/ (\E b \in Battles, result \in PossibleResults : ResolveOnChain(b, result))
        BY DEF TableStep, QueueTableStep, Tick, JoinQueue, LeaveQueue, ApplyNext,
               RunMatchmaker, ConfirmCoordinatorBattle, IndexBattle, IndexStaleBattle, UpsertBattle,
               UpsertRatedExposure, tableVars, chainVars
    <2> QED BY <2>1, <2>2, <2>3
<1>4. SettledInTime'
    <2> SUFFICES ASSUME NEW b \in Battles, chain'[b] \in PossibleResults
                 PROVE  QueueCloseAt[b.round] <= now'
        BY DEF SettledInTime
    <2>1. QueueCloseAt[b.round] <= now
        BY <1>3 DEF SettledInTime
    <2> QED BY <2>1, <1>1, <1>2
<1> QED BY <1>1, <1>4

\* A battle that comes into existence is earlier than no settled one.
LEMMA NoneCreatedLate ==
    ASSUME TypedTables, QueueInv, SettledInTime, QueuesInTurn, TableStep,
           NEW b \in Battles, NEW c \in Battles,
           chain[b] \in PossibleResults, Earlier(c, b), chain'[c] # "NONE"
    PROVE  chain[c] # "NONE"
<1>1. QueueCloseAt[b.round] <= now
    BY DEF SettledInTime
<1>2. CreateOnChain(c) => StartAt[c.round] <= QueueCloseAt[b.round]
    <2>1. CreateOnChain(c) => \E p \in pairings : p.battle = c
        BY DEF CreateOnChain
    <2>2. \E p \in pairings : p.battle = b
        BY TableAssumption DEF QueueInv, OnlyPairedExist
    <2>3. \A p \in pairings : p.battle.round \in Rounds \ PrivateRounds
        BY DEF QueueInv, PairedOnce, TypedTables
    <2> QED BY <2>1, <2>2, <2>3 DEF Earlier, QueuesInTurn
<1>3. /\ now \in Int /\ QueueCloseAt[b.round] \in Int /\ StartAt[c.round] \in Int
    BY BattlesAreTyped, TableAssumption DEF TypedTables
<1>4. ~ CreateOnChain(c)
    BY <1>1, <1>2, <1>3 DEF CreateOnChain
<1>5. CASE chain[c] = "NONE"
    <2>1. ~ \E d \in Battles, result \in PossibleResults : ResolveOnChain(d, result) /\ d = c
        BY <1>5 DEF ResolveOnChain
    <2>2. chain'[c] = chain[c]
        <3>1. ASSUME NEW d \in Battles, CreateOnChain(d)
              PROVE  chain'[c] = chain[c]
            BY <1>4, <3>1 DEF CreateOnChain, TypedTables
        <3>2. ASSUME NEW d \in Battles, NEW result \in PossibleResults, ResolveOnChain(d, result)
              PROVE  chain'[c] = chain[c]
            BY <2>1, <3>2 DEF ResolveOnChain, TypedTables
        <3>3. UNCHANGED chain \/ (\E d \in Battles : CreateOnChain(d))
                  \/ (\E d \in Battles, result \in PossibleResults : ResolveOnChain(d, result))
            BY DEF TableStep, QueueTableStep, Tick, JoinQueue, LeaveQueue, ApplyNext,
                   RunMatchmaker, ConfirmCoordinatorBattle, IndexBattle, IndexStaleBattle, UpsertBattle,
                   UpsertRatedExposure, tableVars, chainVars
        <3> QED BY <3>1, <3>2, <3>3
    <2> QED BY <1>5, <2>2
<1> QED BY <1>5

LEMMA EarlierShownStep ==
    ASSUME TypedTables, QueueInv, SettledInTime, EarlierShown, QueuesInTurn, TableStep
    PROVE  EarlierShown'
<1> SUFFICES ASSUME NEW b \in Battles, NEW c \in Battles,
                    chain'[b] \in PossibleResults, Earlier(c, b), chain'[c] # "NONE"
             PROVE  row'[c] # NoRow
    BY DEF EarlierShown, RowExists, Earlier, Players
<1>1. CASE chain[b] \in PossibleResults
    <2>1. chain[c] # "NONE"
        BY <1>1, NoneCreatedLate
    <2>2. row[c] # NoRow
        BY <1>1, <2>1 DEF EarlierShown, RowExists
    <2> QED BY <2>2, RowsStay
<1>2. CASE chain[b] \notin PossibleResults
    <2>1. PICK d \in Battles, result \in PossibleResults :
              EarlierBattlesShown(d) /\ ResolveOnChain(d, result)
        <3>1. ~ \E d \in Battles : CreateOnChain(d)
            BY <1>2, TableAssumption DEF CreateOnChain, TypedTables
        <3>2. chain' # chain
            BY <1>2
        <3> QED BY <3>1, <3>2 DEF TableStep, QueueTableStep, Tick, JoinQueue, LeaveQueue,
               ApplyNext, RunMatchmaker, ConfirmCoordinatorBattle, IndexBattle, IndexStaleBattle,
               UpsertBattle, UpsertRatedExposure, tableVars, chainVars
    <2>2. d = b
        BY <1>2, <2>1 DEF ResolveOnChain, TypedTables
    <2>3. chain[c] # "NONE"
        <3>1. c = b \/ chain'[c] = chain[c]
            BY <2>1, <2>2 DEF ResolveOnChain, TypedTables
        <3>2. c # b
            BY BattlesAreTyped DEF Earlier
        <3> QED BY <3>1, <3>2
    <2>4. RowExists(c)
        BY <2>1, <2>2, <2>3 DEF EarlierBattlesShown, Earlier
    <2> QED BY <2>4, RowsStay DEF RowExists
<1> QED BY <1>1, <1>2

LEMMA EarlierRatedStep ==
    ASSUME TypedTables, QueueInv, RatedInv, OrderInv, QueuesInTurn, ScoresAreIntegers, TableStep
    PROVE  EarlierRated'
<1> SUFFICES ASSUME NEW b \in Battles, NEW c \in Battles,
                    EventsOf(b)' # {}, Earlier(c, b), chain'[c] # "NONE"
             PROVE  chain'[c] = "VOIDED" \/ EventsOf(c)' # {}
    BY DEF EarlierRated, Earlier, Players
<1>1. \A d \in Battles : EventsOf(d) # {} => EventsOf(d)' # {} /\ chain[d] \in PossibleResults
    <2> TAKE d \in Battles
    <2> SUFFICES ASSUME EventsOf(d) # {}
                 PROVE  EventsOf(d)' # {} /\ chain[d] \in PossibleResults
        OBVIOUS
    <2>1. PICK i \in DOMAIN events : events[i].battle = d
        BY DEF EventsOf
    <2>2. chain[d] \in PossibleResults
        BY <2>1 DEF RatedInv, EventsExplained
    <2>3. i \in DOMAIN events' /\ events'[i] = events[i]
        BY LedgerStep DEF Applied, ledgerVars, RatedInv
    <2> QED BY <2>1, <2>2, <2>3 DEF EventsOf
<1>2. CASE EventsOf(b) # {}
    <2>1. chain[c] # "NONE"
        BY <1>1, <1>2, NoneCreatedLate DEF OrderInv
    <2>2. chain[c] = "VOIDED" \/ EventsOf(c) # {}
        BY <1>2, <2>1 DEF OrderInv, EarlierRated
    <2>3. chain[c] = "VOIDED" => chain'[c] = "VOIDED"
        <3>1. chain[c] = "VOIDED" => chain[c] \in PossibleResults
            BY DEF TypedTables
        <3> QED BY <3>1, ChainStep
    <2> QED BY <1>1, <2>2, <2>3
<1>3. CASE EventsOf(b) = {}
    <2>1. PICK d \in Battles, at \in Int :
              Applied(d, at) /\ UNCHANGED <<now, chainVars, projectionVars>>
        BY <1>3, LedgerStep DEF ledgerVars, RatedInv, EventsOf
    <2>2. d = b
        <3>1. PICK i \in DOMAIN events' : events'[i].battle = b
            BY DEF EventsOf
        <3>2. i \notin DOMAIN events
            BY <1>3, <2>1, <3>1 DEF Applied, EventsOf
        <3>3. PICK w \in Affected(d, chain[d]) : events'[i] = Event(d, w, at)
            BY <2>1, <3>1, <3>2 DEF Applied
        <3> QED BY <3>1, <3>3 DEF Event
    <2>3. chain[b] \in PossibleResults /\ Applicable(b)
        BY <2>1, <2>2 DEF Applied
    <2>4. chain' = chain /\ RowExists(c)
        BY <2>1, <2>3 DEF OrderInv, EarlierShown, chainVars
    <2>5. row[c].state = "FINALIZED" /\ (row[c].result = "VOIDED" \/ EffectsComplete(c))
        BY <2>3, <2>4 DEF Applicable, PriorRatingChainResolved, Earlier
    <2>6. CASE row[c].result = "VOIDED"
        BY <2>4, <2>5, <2>6 DEF RatedInv, RowsFollowChain
    <2>7. CASE EffectsComplete(c)
        <3>1. EventsOf(c) # {}
            BY <2>7 DEF EffectsComplete
        <3> QED BY <1>1, <3>1
    <2> QED BY <2>5, <2>6, <2>7
<1> QED BY <1>2, <1>3

LEMMA OrderInvStep ==
    ASSUME TypedTables, QueueInv, RatedInv, OrderInv, QueuesInTurn, ScoresAreIntegers, TableStep
    PROVE  OrderInv'
BY SettledInTimeStep, EarlierShownStep, EarlierRatedStep DEF OrderInv

-----------------------------------------------------------------------------
(***************************************************************************)
(* The ratings and the events. An update gives each wallet at most one     *)
(* event, after its others, of a later round than theirs.                  *)
(***************************************************************************)
LEMMA OwnEventsGrow ==
    ASSUME TypedTables, NEW b \in Battles, NEW at, Applied(b, at), NEW w \in Wallets
    PROVE  /\ \A i \in EventsOfWallet(w) : i \in DOMAIN events /\ events'[i] = events[i]
           /\ w \notin Affected(b, chain[b]) => EventsOfWallet(w)' = EventsOfWallet(w)
           /\ w \in Affected(b, chain[b]) =>
                  \E k \in DOMAIN events' \ DOMAIN events :
                      /\ EventsOfWallet(w)' = EventsOfWallet(w) \union {k}
                      /\ events'[k] = Event(b, w, at)
                      /\ \A i \in EventsOfWallet(w) : i < k
<1> DEFINE fresh == DOMAIN events' \ DOMAIN events
<1>1. \A i \in DOMAIN events' : i \in fresh \/ (i \in DOMAIN events /\ events'[i] = events[i])
    BY DEF Applied
<1>2. \A i \in DOMAIN events : i \in DOMAIN events' /\ events'[i] = events[i]
    BY DEF Applied
<1>3. Affected(b, chain[b]) \subseteq Wallets
    BY AffectedArePlayers, BattlesAreTyped DEF Applied, Players
<1>4. \A k \in fresh : \E v \in Affected(b, chain[b]) :
          events'[k] = Event(b, v, at) /\ events'[k].wallet = v
    BY <1>3, EventIs DEF Applied
<1>5. CASE w \notin Affected(b, chain[b])
    <2>1. EventsOfWallet(w)' = EventsOfWallet(w)
        BY <1>1, <1>2, <1>4, <1>5 DEF EventsOfWallet
    <2> QED BY <1>2, <1>5, <2>1 DEF EventsOfWallet
<1>6. CASE w \in Affected(b, chain[b])
    <2>1. PICK k \in fresh : events'[k] = Event(b, w, at)
        BY <1>6 DEF Applied
    <2>2. events'[k].wallet = w
        BY <2>1, EventIs
    <2>3. \A i \in fresh : events'[i].wallet = w => i = k
        BY <2>2 DEF Applied
    <2>4. EventsOfWallet(w)' = EventsOfWallet(w) \union {k}
        BY <1>1, <1>2, <2>2, <2>3 DEF EventsOfWallet
    <2>5. \A i \in EventsOfWallet(w) : i < k
        BY DEF Applied, EventsOfWallet
    <2> QED BY <1>2, <1>6, <2>1, <2>4, <2>5 DEF EventsOfWallet
<1> QED BY <1>5, <1>6

LEMMA RatedInOrder ==
    ASSUME TypedTables, QueueInv, RatedInv, OrderInv,
           NEW b \in Battles, NEW at, Applied(b, at),
           NEW w \in Players(b), NEW i \in EventsOfWallet(w)
    PROVE  events[i].battle.round < b.round
<1> DEFINE c == events[i].battle
<1>1. i \in DOMAIN events /\ events[i].wallet = w /\ c \in Battles
    BY EventsAreTyped DEF EventsOfWallet
<1>2. chain[c] \in PossibleResults \ {"VOIDED"} /\ w \in Players(c)
    BY <1>1, AffectedArePlayers DEF RatedInv, EventsExplained
<1>3. EventsOf(c) # {} /\ EventsOf(b) = {} /\ c # b
    BY <1>1 DEF EventsOf, Applied, Applicable
<1>4. chain[b] # "NONE" /\ chain[c] # "NONE" /\ chain[b] # "VOIDED"
    BY <1>2, TableAssumption DEF Applied
<1> HIDE DEF c
<1>5. c.round # b.round
    <2>1. PICK p \in pairings : p.battle = b
        BY <1>4 DEF QueueInv, OnlyPairedExist
    <2>2. PICK q \in pairings : q.battle = c
        BY <1>1, <1>4 DEF QueueInv, OnlyPairedExist
    <2>3. c.round = b.round => p = q
        BY <1>2, <2>1, <2>2 DEF QueueInv, PairedOnce
    <2> QED BY <1>3, <2>1, <2>2, <2>3
<1>6. ~ (b.round < c.round)
    BY <1>1, <1>2, <1>3, <1>4 DEF OrderInv, EarlierRated, Earlier
<1>7. b.round \in Nat /\ c.round \in Nat
    BY <1>1, BattlesAreTyped
<1> QED BY <1>5, <1>6, <1>7 DEF c

\* The conjuncts of LedgerInv for one wallet.
WalletInv(w) ==
    LET own == EventsOfWallet(w)
    IN  /\ \A i, j \in own : i < j => events[i].battle.round < events[j].battle.round
        /\ \A k \in own :
               /\ events[k].after >= RatingFloor
               /\ \A i \in own : LastBefore(w, k, i) => events[k].before = events[i].after
               /\ (\A i \in own : i >= k) => events[k].before = InitialRating
        /\ rating[w] = NoRow => own = {}
        /\ rating[w] # NoRow =>
               /\ own = {} => rating[w].rating = InitialRating
               /\ \A k \in own : (\A i \in own : i <= k) => rating[w].rating = events[k].after
               /\ rating[w].games =
                      Cardinality({i \in own : events[i].kind = "PLAYED_RATED_BATTLE"})

LEMMA WalletInvs == LedgerInv <=> \A w \in Wallets : WalletInv(w)
BY DEF LedgerInv, EventsInTurn, EventsLinked, RowsLinked, WalletInv

LEMMA OwnIsFinite ==
    ASSUME TypedTables, NEW w
    PROVE  /\ IsFiniteSet(EventsOfWallet(w)) /\ EventsOfWallet(w) \subseteq Nat
           /\ EventsOfWallet(w) \subseteq DOMAIN events
<1>1. DOMAIN events = 1..Len(events) /\ Len(events) \in Nat
    BY DEF TypedTables
<1>2. IsFiniteSet(DOMAIN events)
    BY <1>1, FS_Interval
<1> QED BY <1>1, <1>2, FS_Subset DEF EventsOfWallet

LEMMA WalletUntouched ==
    ASSUME TypedTables, NEW w \in Wallets, WalletInv(w),
           EventsOfWallet(w)' = EventsOfWallet(w),
           \A i \in EventsOfWallet(w) : events'[i] = events[i],
           \/ rating'[w] = rating[w]
           \/ /\ rating[w] = NoRow /\ rating'[w] # NoRow
              /\ rating'[w].rating = InitialRating /\ rating'[w].games = 0
    PROVE  WalletInv(w)'
<1> DEFINE own == EventsOfWallet(w)
<1>1. \A k, i \in own : LastBefore(w, k, i)' <=> LastBefore(w, k, i)
    BY DEF LastBefore
<1>2. {i \in own : events'[i].kind = "PLAYED_RATED_BATTLE"} =
          {i \in own : events[i].kind = "PLAYED_RATED_BATTLE"}
    OBVIOUS
<1>3. rating[w] = NoRow => own = {}
    BY DEF WalletInv
<1>4. own = {} => Cardinality({i \in own : events'[i].kind = "PLAYED_RATED_BATTLE"}) = 0
    <2>1. own = {} => {i \in own : events'[i].kind = "PLAYED_RATED_BATTLE"} = {}
        OBVIOUS
    <2> QED BY <2>1, FS_EmptySet
<1>5. /\ \A i, j \in own : i < j => events'[i].battle.round < events'[j].battle.round
      /\ \A k \in own :
             /\ events'[k].after >= RatingFloor
             /\ \A i \in own : LastBefore(w, k, i)' => events'[k].before = events'[i].after
             /\ (\A i \in own : i >= k) => events'[k].before = InitialRating
    BY <1>1 DEF WalletInv
<1>6. /\ rating'[w] = NoRow => own = {}
      /\ rating'[w] # NoRow =>
             /\ own = {} => rating'[w].rating = InitialRating
             /\ \A k \in own : (\A i \in own : i <= k) => rating'[w].rating = events'[k].after
             /\ rating'[w].games =
                    Cardinality({i \in own : events'[i].kind = "PLAYED_RATED_BATTLE"})
    <2>1. CASE rating'[w] = rating[w]
        BY <1>2, <2>1 DEF WalletInv
    <2>2. CASE rating[w] = NoRow /\ rating'[w] # NoRow
               /\ rating'[w].rating = InitialRating /\ rating'[w].games = 0
        BY <1>3, <1>4, <2>2
    <2> QED BY <2>1, <2>2
<1> QED BY <1>5, <1>6 DEF WalletInv

LEMMA WalletRated ==
    ASSUME TypedTables, QueueInv, RatedInv, OrderInv, ScoresAreIntegers,
           NEW b \in Battles, NEW at \in Int, Applied(b, at),
           NEW w \in Affected(b, chain[b]), WalletInv(w)
    PROVE  WalletInv(w)'
<1>1. w \in Players(b) /\ w \in Wallets /\ chain[b] = row[b].result
    BY AffectedArePlayers, BattlesAreTyped DEF Applied, Players
<1> DEFINE own == EventsOfWallet(w)
           played(S) == {i \in S : events'[i].kind = "PLAYED_RATED_BATTLE"}
<1>2. PICK k \in DOMAIN events' \ DOMAIN events :
          /\ EventsOfWallet(w)' = own \union {k}
          /\ events'[k] = Event(b, w, at)
          /\ \A i \in own : i < k
    BY <1>1, OwnEventsGrow
<1>3. \A i \in own : i \in DOMAIN events /\ i \in Nat /\ events'[i] = events[i]
    BY <1>1, OwnEventsGrow, OwnIsFinite
<1>4. k \in Nat /\ k \notin own
    BY <1>3 DEF Applied
<1>5. /\ events'[k].battle = b /\ events'[k].before = CurrentRating(w).rating
      /\ events'[k].after = RatingAfter(b, w) /\ events'[k].kind = EventKind(chain[b])
    BY <1>1, <1>2, EventIs
<1>6. RatingAfter(b, w) \in Int /\ RatingAfter(b, w) >= RatingFloor
    BY <1>1, RatingsAreIntegers
<1>7. \A i \in own : events[i].battle.round < b.round
    BY <1>1, RatedInOrder
<1>8. /\ rating'[w] # NoRow /\ rating'[w].rating = RatingAfter(b, w)
      /\ rating'[w].games = CurrentRating(w).games + (IF chain[b] \in Played THEN 1 ELSE 0)
    <2>1. rating'[w] = RatedRow(b, w, at)
        BY <1>1 DEF Applied
    <2>2. RatedRow(b, w, at) \in RatingRow
        BY <1>1, RatedRowIsTyped
    <2>3. RatedRow(b, w, at) =
              [rating |-> RatingAfter(b, w),
               games |-> CurrentRating(w).games + (IF row[b].result \in Played THEN 1 ELSE 0),
               updatedAt |-> at]
        BY <1>1 DEF RatedRow
    <2>4. rating'[w] # NoRow
        BY <2>1, <2>2, MissingAssumption
    <2> QED BY <1>1, <2>1, <2>3, <2>4
<1>9. IsFiniteSet(own) /\ IsFiniteSet(played(own)) /\ Cardinality(played(own)) \in Nat
    BY OwnIsFinite, FS_Subset, FS_CardinalityType
<1>10. CurrentRating(w).games = Cardinality(played(own))
    <2>1. played(own) = {i \in own : events[i].kind = "PLAYED_RATED_BATTLE"}
        BY <1>3
    <2>2. CASE rating[w] = NoRow
        <3>1. own = {}
            BY <2>2 DEF WalletInv
        <3>2. played(own) = {}
            BY <3>1
        <3>3. Cardinality(played(own)) = 0
            BY <3>2, FS_EmptySet
        <3> QED BY <2>2, <3>3 DEF CurrentRating
    <2>3. CASE rating[w] # NoRow
        BY <2>1, <2>3 DEF WalletInv, CurrentRating
    <2> QED BY <2>2, <2>3
<1>11. rating'[w].games = Cardinality(played(own \union {k}))
    <2>1. CASE chain[b] \in Played
        <3>1. played(own \union {k}) = played(own) \union {k}
            BY <1>5, <2>1 DEF EventKind
        <3>2. Cardinality(played(own) \union {k}) = Cardinality(played(own)) + 1
            <4>1. k \notin played(own)
                BY <1>4
            <4> HIDE DEF played, own
            <4> QED BY <1>9, <4>1, FS_AddElement
        <3> QED BY <1>8, <1>10, <2>1, <3>1, <3>2
    <2>2. CASE chain[b] \notin Played
        <3>1. played(own \union {k}) = played(own)
            BY <1>5, <2>2 DEF EventKind
        <3> HIDE DEF played, own
        <3>2. rating'[w].games = CurrentRating(w).games + 0
            BY <1>8, <2>2
        <3>3. CurrentRating(w).games + 0 = Cardinality(played(own))
            BY <1>9, <1>10
        <3> QED BY <3>1, <3>2, <3>3
    <2> QED BY <2>1, <2>2
<1> HIDE DEF played
<1>12. \A i, j \in own \union {k} : i < j => events'[i].battle.round < events'[j].battle.round
    <2> TAKE i, j \in own \union {k}
    <2> SUFFICES ASSUME i < j PROVE events'[i].battle.round < events'[j].battle.round
        OBVIOUS
    <2>1. i \in own
        <3> SUFFICES ASSUME i = k PROVE FALSE
            OBVIOUS
        <3>1. j = k \/ j < k
            BY <1>2
        <3>2. j \in Nat
            BY <1>3, <1>4
        <3> QED BY <1>4, <3>1, <3>2
    <2>2. CASE j = k
        BY <1>3, <1>5, <1>7, <2>1, <2>2
    <2>3. CASE j \in own
        BY <1>3, <2>1, <2>3 DEF WalletInv
    <2> QED BY <2>2, <2>3
<1>13. CurrentRating(w).rating = InitialRating \/ own # {}
    BY DEF WalletInv, CurrentRating
<1>14. \A i \in own : (\A j \in own : j <= i) => CurrentRating(w).rating = events[i].after
    BY DEF WalletInv, CurrentRating
<1>15. \A n, i \in own \union {k} : LastBefore(w, n, i)' <=>
           i < n /\ \A j \in own \union {k} : j < n => j <= i
    BY <1>2 DEF LastBefore
<1>16. ASSUME NEW n \in own \union {k}
       PROVE  /\ events'[n].after >= RatingFloor
              /\ \A i \in own \union {k} :
                     LastBefore(w, n, i)' => events'[n].before = events'[i].after
              /\ (\A i \in own \union {k} : i >= n) => events'[n].before = InitialRating
    <2>1. CASE n = k
        <3>1. events'[k].after >= RatingFloor
            BY <1>5, <1>6
        <3>2. ASSUME NEW i \in own \union {k}, LastBefore(w, k, i)'
              PROVE  events'[k].before = events'[i].after
            <4>1. i < k /\ \A j \in own : j <= i
                BY <1>2, <1>15, <3>2
            <4>2. i \in own
                BY <1>4, <4>1
            <4> QED BY <1>3, <1>5, <1>14, <4>1, <4>2
        <3>3. ASSUME \A i \in own \union {k} : i >= k
              PROVE  events'[k].before = InitialRating
            <4>1. own = {}
                BY <1>2, <1>3, <1>4, <3>3
            <4> QED BY <1>5, <1>13, <4>1
        <3> QED BY <2>1, <3>1, <3>2, <3>3
    <2>2. CASE n \in own
        <3>1. events'[n].after >= RatingFloor
            BY <1>3, <2>2 DEF WalletInv
        <3>2. ASSUME NEW i \in own \union {k}, LastBefore(w, n, i)'
              PROVE  events'[n].before = events'[i].after
            <4>1. i < n /\ \A j \in own : j < n => j <= i
                BY <1>15, <3>2
            <4>2. i \in own
                <5>1. n < k /\ n \in Nat
                    BY <1>2, <1>3, <2>2
                <5> QED BY <1>4, <4>1, <5>1
            <4>3. LastBefore(w, n, i)
                BY <4>1, <4>2 DEF LastBefore
            <4>4. events[n].before = events[i].after
                BY <2>2, <4>2, <4>3 DEF WalletInv
            <4> QED BY <1>3, <2>2, <4>2, <4>4
        <3>3. ASSUME \A i \in own \union {k} : i >= n
              PROVE  events'[n].before = InitialRating
            <4>1. events[n].before = InitialRating
                BY <2>2, <3>3 DEF WalletInv
            <4> QED BY <1>3, <2>2, <4>1
        <3> QED BY <2>2, <3>1, <3>2, <3>3
    <2> QED BY <2>1, <2>2
<1>17. \A n \in own \union {k} :
           (\A i \in own \union {k} : i <= n) => rating'[w].rating = events'[n].after
    <2> SUFFICES ASSUME NEW n \in own \union {k}, k <= n
                 PROVE  rating'[w].rating = events'[n].after
        OBVIOUS
    <2>1. n = k
        BY <1>2, <1>3, <1>4
    <2> QED BY <1>5, <1>8, <2>1
<1>18. played(own \union {k}) = {i \in own \union {k} : events'[i].kind = "PLAYED_RATED_BATTLE"}
    BY DEF played
<1> QED BY <1>2, <1>8, <1>11, <1>12, <1>16, <1>17, <1>18 DEF WalletInv

LEMMA LedgerInvStep ==
    ASSUME TypedTables, QueueInv, RatedInv, OrderInv, LedgerInv, ScoresAreIntegers, TableStep
    PROVE  LedgerInv'
<1>1. SUFFICES \A w \in Wallets : WalletInv(w)'
    BY DEF LedgerInv, EventsInTurn, EventsLinked, RowsLinked, WalletInv
<1>2. \A w \in Wallets : WalletInv(w)
    BY WalletInvs
<1>3. CASE UNCHANGED ledgerVars
    <2> TAKE w \in Wallets
    <2>1. /\ EventsOfWallet(w)' = EventsOfWallet(w) /\ rating'[w] = rating[w]
          /\ \A i \in EventsOfWallet(w) : events'[i] = events[i]
        BY <1>3 DEF ledgerVars, EventsOfWallet
    <2> QED BY <1>2, <2>1, WalletUntouched
<1>4. ASSUME NEW b \in Battles, NEW at \in Int, Applied(b, at), NEW w \in Wallets
      PROVE  WalletInv(w)'
    <2>1. CASE w \in Affected(b, chain[b])
        BY <1>2, <1>4, <2>1, WalletRated
    <2>2. CASE w \notin Affected(b, chain[b])
        <3>1. /\ EventsOfWallet(w)' = EventsOfWallet(w)
              /\ \A i \in EventsOfWallet(w) : events'[i] = events[i]
            BY <1>4, <2>2, OwnEventsGrow
        <3>2. CASE w \notin Players(b)
            <4>1. rating'[w] = rating[w]
                BY <1>4, <3>2 DEF Applied
            <4> QED BY <1>2, <3>1, <4>1, WalletUntouched
        <3>3. CASE w \in Players(b) /\ rating[w] # NoRow
            <4>1. rating'[w] = rating[w]
                BY <1>4, <2>2, <3>3 DEF Applied, RatedRow
            <4> QED BY <1>2, <3>1, <4>1, WalletUntouched
        <3>4. CASE w \in Players(b) /\ rating[w] = NoRow
            <4>1. rating'[w] = [rating |-> InitialRating, games |-> 0, updatedAt |-> at]
                BY <1>4, <2>2, <3>4 DEF Applied, RatedRow
            <4>2. rating'[w] \in RatingRow
                BY <4>1, TableAssumption DEF RatingRow
            <4>3. /\ rating'[w] # NoRow
                  /\ rating'[w].rating = InitialRating /\ rating'[w].games = 0
                BY <4>1, <4>2, MissingAssumption
            <4> QED BY <1>2, <3>1, <3>4, <4>3, WalletUntouched
        <3> QED BY <3>2, <3>3, <3>4
    <2> QED BY <2>1, <2>2
<1> QED BY <1>3, <1>4, LedgerStep DEF RatedInv

LEMMA LedgerInvSuffices ==
    ASSUME TypedTables, LedgerInv
    PROVE  LedgerExplainsRatings
<1> SUFFICES ASSUME NEW w \in Wallets
             PROVE  LET own == EventsOfWallet(w)
                        previous(i) == {j \in own : j < i}
                        last(S) == CHOOSE i \in S : \A j \in S : j <= i
                        left(S) == IF S = {} THEN InitialRating ELSE events[last(S)].after
                    IN  /\ \A i, j \in own :
                               i < j => events[i].battle.round < events[j].battle.round
                        /\ \A i \in own : /\ events[i].before = left(previous(i))
                                          /\ events[i].after >= RatingFloor
                        /\ own # {} => rating[w] # NoRow
                        /\ RatingProjectionMatches(w)
    BY DEF LedgerExplainsRatings
<1> DEFINE own == EventsOfWallet(w)
           previous(i) == {j \in own : j < i}
           last(S) == CHOOSE i \in S : \A j \in S : j <= i
           left(S) == IF S = {} THEN InitialRating ELSE events[last(S)].after
<1>1. WalletInv(w)
    BY WalletInvs
<1>2. IsFiniteSet(own) /\ own \subseteq Nat /\ own \subseteq DOMAIN events
    BY OwnIsFinite
<1>3. ASSUME NEW S, S \subseteq own, S # {}
      PROVE  last(S) \in S /\ \A j \in S : j <= last(S)
    <2>1. IsFiniteSet(S) /\ S \subseteq Int
        BY <1>2, <1>3, FS_Subset
    <2>2. \E i \in S : \A j \in S : i >= j
        BY <1>3, <2>1, ExtremeIntegers
    <2>3. \E i \in S : \A j \in S : j <= i
        BY <2>1, <2>2
    <2> QED BY <2>3
<1> HIDE DEF last, own
<1>4. ASSUME NEW i \in own
      PROVE  events[i].before = left(previous(i))
    <2>1. CASE previous(i) = {}
        <3>1. \A j \in own : j >= i
            BY <1>2, <2>1
        <3> QED BY <1>1, <2>1, <3>1 DEF WalletInv, own
    <2>2. CASE previous(i) # {}
        <3>1. previous(i) \subseteq own
            OBVIOUS
        <3>2. last(previous(i)) \in previous(i) /\ \A j \in previous(i) : j <= last(previous(i))
            BY <1>3, <2>2, <3>1
        <3>3. LastBefore(w, i, last(previous(i))) /\ last(previous(i)) \in own
            BY <3>2 DEF LastBefore, own
        <3>4. events[i].before = events[last(previous(i))].after
            BY <1>1, <3>3 DEF WalletInv, own
        <3> QED BY <2>2, <3>4
    <2> QED BY <2>1, <2>2
<1>5. RatingProjectionMatches(w)
    <2> DEFINE later(i, j) == \/ events[i].battle.round > events[j].battle.round
                              \/ events[i].battle.round = events[j].battle.round /\ i >= j
               newest == CHOOSE i \in own : \A j \in own : later(i, j)
    <2>1. \A i \in own : events[i].battle.round \in Nat /\ i \in Nat
        BY <1>2, EventsAreTyped, BattlesAreTyped
    <2>2. \A i, j \in own : i < j => events[i].battle.round < events[j].battle.round
        BY <1>1 DEF WalletInv, own
    <2>3. ASSUME own # {}
          PROVE  newest \in own /\ \A j \in own : j <= newest
        <3>1. last(own) \in own /\ \A j \in own : j <= last(own)
            BY <1>3, <2>3
        <3>2. \A j \in own : later(last(own), j)
            BY <2>1, <2>2, <3>1
        <3>3. newest \in own /\ \A j \in own : later(newest, j)
            BY <3>1, <3>2
        <3> HIDE DEF newest
        <3>4. \A j \in own : j <= newest
            BY <2>1, <2>2, <3>3
        <3> QED BY <3>3, <3>4
    <2>4. RatingProjectionMatches(w) <=>
              (rating[w] # NoRow =>
                   /\ rating[w].rating = IF own = {} THEN InitialRating ELSE events[newest].after
                   /\ rating[w].games =
                          Cardinality({i \in own : events[i].kind = "PLAYED_RATED_BATTLE"}))
        BY DEF RatingProjectionMatches, own, EventsOfWallet
    <2> HIDE DEF newest, later
    <2> QED BY <1>1, <2>3, <2>4 DEF WalletInv, own
<1>6. /\ \A i, j \in own : i < j => events[i].battle.round < events[j].battle.round
      /\ \A i \in own : events[i].after >= RatingFloor
      /\ own # {} => rating[w] # NoRow
    BY <1>1 DEF WalletInv, own
<1> QED BY <1>4, <1>5, <1>6 DEF own, last

-----------------------------------------------------------------------------
(***************************************************************************)
(* The invariant holds initially and is preserved.                         *)
(***************************************************************************)
LEMMA InitInv == Init => Inv
<1> SUFFICES ASSUME Init PROVE Inv
    OBVIOUS
<1> USE DEF Init, InitTables
<1>1. Typed
    <2>1. << >> \in Seq(EventRow)
        OBVIOUS
    <2>2. TypedTables
        BY <2>1 DEF TypedTables, EntryStates
    <2> QED BY <2>2 DEF Typed, TypedWorker
<1>2. DOMAIN events = {}
    OBVIOUS
<1>3. \A b \in Battles : EventsOf(b) = {} /\ chain[b] = "NONE" /\ ~ RowExists(b)
    BY <1>2 DEF EventsOf, RowExists
<1>4. QueueInv
    BY <1>3 DEF QueueInv, PairedOnce, EntriesFollowPairings, ConfirmedAreExposed, OnlyPairedExist,
                Paired
<1>5. RatedInv
    BY <1>2, <1>3 DEF RatedInv, RowsFollowChain, EventsExplained, EventsWhole
<1>6. OrderInv
    BY <1>3, TableAssumption DEF OrderInv, SettledInTime, EarlierShown, EarlierRated
<1>7. LedgerInv
    BY <1>2 DEF LedgerInv, EventsInTurn, EventsLinked, RowsLinked, EventsOfWallet
<1> QED BY <1>1, <1>4, <1>5, <1>6, <1>7 DEF Inv

LEMMA WorkerStep ==
    ASSUME Typed, Next
    PROVE  TypedWorker'
<1>1. CASE UNCHANGED worker
    BY <1>1 DEF Typed, TypedWorker
<1>2. CASE StartTick
    <2>1. worker' = [at |-> now, due |-> DueRankedRounds(now)]
        BY <1>2 DEF StartTick
    <2>2. now \in Nat /\ DueRankedRounds(now) \subseteq Rounds
        BY DEF DueRankedRounds, Typed, TypedTables
    <2> QED BY <2>1, <2>2 DEF TypedWorker
<1>3. CASE MatchDueRound
    <2>1. worker \in [at : Nat, due : SUBSET Rounds]
        BY <1>3 DEF MatchDueRound, Typed, TypedWorker
    <2> DEFINE r == FirstDue(worker.due)
    <2>2. worker' = Idle \/ worker' = [worker EXCEPT !.due = worker.due \ {r}]
        BY <1>3 DEF MatchDueRound
    <2> HIDE DEF r
    <2>3. CASE worker' = Idle
        BY <2>3 DEF TypedWorker
    <2>4. CASE worker' = [worker EXCEPT !.due = worker.due \ {r}]
        <3>1. worker' = [at |-> worker.at, due |-> worker.due \ {r}]
            BY <2>1, <2>4
        <3>2. worker.at \in Nat /\ worker.due \ {r} \in SUBSET Rounds
            BY <2>1
        <3> QED BY <3>1, <3>2 DEF TypedWorker
    <2> QED BY <2>2, <2>3, <2>4
<1>4. CASE worker' = Idle
    BY <1>4 DEF TypedWorker
<1> QED BY <1>1, <1>2, <1>3, <1>4 DEF Next, RunOnce, ApplyRatings, StopTick

LEMMA InvStep ==
    ASSUME ScoresAreIntegers, QueuesInTurn, Inv, [Next]_vars
    PROVE  Inv'
<1>1. CASE Next
    <2>1. TableStep /\ TypedWorker'
        BY <1>1, NextIsTableStep, WorkerStep DEF Inv
    <2>2. Typed'
        BY <2>1, TypedTablesStep DEF Inv, Typed, RatedInv
    <2> QED BY <2>1, <2>2, QueueInvStep, RatedInvStep, OrderInvStep, LedgerInvStep DEF Inv, Typed
<1>2. CASE UNCHANGED vars
    <2>1. TableStep /\ UNCHANGED worker
        BY <1>2 DEF TableStep, vars
    <2>2. Typed'
        BY <2>1, TypedTablesStep DEF Inv, Typed, TypedWorker, RatedInv
    <2> QED BY <2>1, <2>2, QueueInvStep, RatedInvStep, OrderInvStep, LedgerInvStep DEF Inv, Typed
<1> QED BY <1>1, <1>2

LEMMA TypedAndRatedWhole ==
    ASSUME ScoresAreIntegers
    PROVE  Spec => [](Typed /\ RatedInv)
<1> DEFINE I == Typed /\ RatedInv
<1>1. Init => I
    BY InitInv DEF Inv
<1>2. I /\ [Next]_vars => I'
    <2> SUFFICES ASSUME I, [Next]_vars PROVE I'
        OBVIOUS
    <2>1. TableStep
        BY NextIsTableStep DEF TableStep, vars
    <2>2. TypedWorker'
        BY WorkerStep DEF vars, Typed, TypedWorker
    <2> QED BY <2>1, <2>2, TypedTablesStep, RatedInvStep DEF Typed, RatedInv
<1> QED BY <1>1, <1>2, PTL DEF Spec

(***************************************************************************)
(* The tables of ranked play and the worker keep their types. That ratings *)
(* stay integers takes that a row shows its account, or what it was.       *)
(***************************************************************************)
THEOREM RankedTypeCorrect ==
    ASSUME ScoresAreIntegers
    PROVE  Spec => []Typed
    BY TypedAndRatedWhole, PTL

(***************************************************************************)
(* For any number of rounds and wallets: the queue, the pairings and the   *)
(* battles always agree, whatever the order of requests, workers,          *)
(* confirmations and readings.                                             *)
(***************************************************************************)
THEOREM QueueAlwaysMatchesPairings ==
    ASSUME ScoresAreIntegers
    PROVE  Spec => []QueueMatchesPairings
<1> DEFINE I == Typed /\ QueueInv /\ RatedInv
<1>1. Init => I
    BY InitInv DEF Inv
<1>2. I /\ [Next]_vars => I'
    <2> SUFFICES ASSUME I, [Next]_vars PROVE I'
        OBVIOUS
    <2>1. TableStep
        BY NextIsTableStep DEF TableStep, vars
    <2>2. TypedWorker'
        BY WorkerStep DEF vars, Typed, TypedWorker
    <2> QED BY <2>1, <2>2, TypedTablesStep, QueueInvStep, RatedInvStep DEF Typed, RatedInv
<1>3. I => QueueMatchesPairings
    BY QueueInvSuffices DEF Typed
<1> QED BY <1>1, <1>2, <1>3, PTL DEF Spec

(***************************************************************************)
(* A battle has the rating events of all the players its result on chain   *)
(* touches, or none, however stale the readings of its account.            *)
(***************************************************************************)
THEOREM BattlesAreRatedWhole ==
    ASSUME ScoresAreIntegers
    PROVE  Spec => []BattlesRatedWhole
<1>1. Typed /\ RatedInv => BattlesRatedWhole
    BY RatedInvSuffices DEF Typed
<1> QED BY <1>1, TypedAndRatedWhole, PTL

(***************************************************************************)
(* When the queues close in the order of the rounds, the ratings are at    *)
(* every moment what the events say, one after the other in the order of   *)
(* the rounds: reconcile_projection never counts a mismatch.               *)
(***************************************************************************)
THEOREM LedgerAlwaysExplainsRatings ==
    ASSUME ScoresAreIntegers, QueuesInTurn
    PROVE  Spec => []LedgerExplainsRatings
<1>1. Inv /\ [Next]_vars => Inv'
    BY InvStep
<1>2. Inv => LedgerExplainsRatings
    BY LedgerInvSuffices DEF Inv, Typed
<1> QED BY <1>1, <1>2, InitInv, PTL DEF Spec

=============================================================================
