------------------------------ MODULE RatingLedger ------------------------------
(***************************************************************************)
(* The rating worker: it applies the earliest finalized battle that is     *)
(* ready to the ratings of its two players and appends one event for each  *)
(* player whose rating the result touches.                                 *)
(***************************************************************************)
EXTENDS RankedTables

CONSTANT Expected(_)   \* expected score, in thousandths, at a rating gap

-----------------------------------------------------------------------------
(* The Elo rule. The product is rounded to the nearest integer, a half     *)
(* away from zero.                                                         *)
KFactor(games) == IF games < 5 THEN 64 ELSE IF games < 30 THEN 32 ELSE 24

RoundThousandths(n) ==
    IF n >= 0 THEN (n + 500) \div 1000 ELSE -((500 - n) \div 1000)

Floored(x) == IF x < RatingFloor THEN RatingFloor ELSE x

EloRating(own, opponent, actual, games) ==
    Floored(own + RoundThousandths(KFactor(games) * (actual - Expected(opponent - own))))

ForfeitRating(own) == Floored(own - ForfeitPenalty)

(* The score, in thousandths, of a side of a played battle.                *)
ActualScore(result, isA) ==
    CASE result = "DRAW" -> 500
      [] result = "PLAYER_A" -> IF isA THEN 1000 ELSE 0
      [] result = "PLAYER_B" -> IF isA THEN 0 ELSE 1000

-----------------------------------------------------------------------------
(* Mutated form: a forfeit is charged to the opponent.                     *)
AffectedOpponent(b, result) ==
    CASE result \in Played \union {"BOTH_FORFEIT"} -> Players(b)
      [] result = "FORFEIT_A" -> {b.b}
      [] result = "FORFEIT_B" -> {b.a}
      [] result = "VOIDED" -> {}

(* The players a result has an event for: both of a played battle, only    *)
(* those who forfeited of another.                                         *)
Affected(b, result) ==
    CASE result \in Played \union {"BOTH_FORFEIT"} -> Players(b)
      [] result = "FORFEIT_A" -> {b.a}
      [] result = "FORFEIT_B" -> {b.b}
      [] result = "VOIDED" -> {}

EventKind(result) ==
    IF result \in Played THEN "PLAYED_RATED_BATTLE" ELSE "FORFEIT_PENALTY"

EffectsComplete(b) ==
    LET expected == Affected(b, row[b].result)
    IN  /\ expected # {}
        /\ Cardinality(EventsOf(b)) = Cardinality(expected)
        /\ \A w \in expected : \E i \in EventsOf(b) :
               events[i].wallet = w /\ events[i].kind = EventKind(row[b].result)

(* Mutated form: only the earlier battles that are finalized are looked at.*)
PriorFinalizedResolved(b) ==
    \A c \in Battles :
        (RowExists(c) /\ Players(b) \intersect Players(c) # {} /\ c.round < b.round
             /\ row[c].state = "FINALIZED")
            => EffectsComplete(c)

(* Every earlier battle of both players is finalized and has its events. A *)
(* row in the state VOIDED is not finalized.                               *)
PriorRatingChainResolved(b) ==
    \A c \in Battles :
        (RowExists(c) /\ Players(b) \intersect Players(c) # {} /\ c.round < b.round) =>
            /\ row[c].state = "FINALIZED"
            /\ row[c].result = "VOIDED" \/ EffectsComplete(c)

(* The order of load_finalized_battles: by round, then by address.         *)
Before(b, c) ==
    \/ b.round < c.round
    \/ b.round = c.round /\ (b.a < c.a \/ (b.a = c.a /\ b.b < c.b))

(* The battles at which the pass over the candidates does not go on.       *)
Stops(b) ==
    /\ RowExists(b)
    /\ row[b].state = "FINALIZED" /\ row[b].result # "PENDING"
    /\ ~ EffectsComplete(b)
    /\ EventsOf(b) # {} \/ (row[b].result # "VOIDED" /\ PriorRatingChainResolved(b))

HeadOfLine(b) == Stops(b) /\ \A c \in Battles : Stops(c) => c = b \/ Before(b, c)

CurrentRating(w) ==
    IF rating[w] = NoRow THEN [rating |-> InitialRating, games |-> 0] ELSE rating[w]

(* The snapshots of the coordinator and of the pairing must be the current *)
(* ratings. A battle the indexer brought has none before it is confirmed.  *)
SnapshotsAgree(b) ==
    \A pair \in {<<row[b].snapA, b.a>>, <<row[b].snapB, b.b>>} :
        pair[1] \in {NoRating, CurrentRating(pair[2]).rating}

(* A battle that ends the pass with an error: nothing after it is applied. *)
Poisoned(b) == HeadOfLine(b) /\ (EventsOf(b) # {} \/ ~ SnapshotsAgree(b))

RatingAfter(b, w) ==
    LET own == CurrentRating(w)
        opponent == CurrentRating(CHOOSE v \in Players(b) : v # w)
        result == row[b].result
    IN  IF result \in Played
        THEN EloRating(own.rating, opponent.rating, ActualScore(result, w = b.a), own.games)
        ELSE ForfeitRating(own.rating)

Event(b, w, at) ==
    [battle |-> b, wallet |-> w, kind |-> EventKind(row[b].result),
     before |-> CurrentRating(w).rating, after |-> RatingAfter(b, w), at |-> at]

(* The events of a battle, the first player's before the second's.         *)
NewEvents(b, at) ==
    LET affected == Affected(b, row[b].result)
    IN  (IF b.a \in affected THEN <<Event(b, b.a, at)>> ELSE << >>)
        \o (IF b.b \in affected THEN <<Event(b, b.b, at)>> ELSE << >>)

(* The rating row of a player of the battle: created when it is missing,   *)
(* and otherwise changed only when the result touches the player.          *)
RatedRow(b, w, at) ==
    LET old == CurrentRating(w)
    IN  IF w \in Affected(b, row[b].result)
        THEN [rating |-> RatingAfter(b, w),
              games |-> old.games + (IF row[b].result \in Played THEN 1 ELSE 0),
              updatedAt |-> at]
        ELSE IF rating[w] = NoRow
        THEN [rating |-> InitialRating, games |-> 0, updatedAt |-> at]
        ELSE rating[w]

ApplyNext(at) ==
    \E b \in Battles :
        /\ HeadOfLine(b)
        /\ ~ Poisoned(b)
        /\ events' = events \o NewEvents(b, at)
        /\ rating' = [w \in Wallets |->
               IF w \in Players(b) THEN RatedRow(b, w, at) ELSE rating[w]]
        /\ UNCHANGED <<now, queueVars, reservation, chainVars, projectionVars>>

(* reconcile_projection: the row of a wallet against its event of the      *)
(* latest round, and against the number of its played battles.             *)
RatingProjectionMatches(w) ==
    LET own == {i \in DOMAIN events : events[i].wallet = w}
        later(i, j) == \/ events[i].battle.round > events[j].battle.round
                       \/ events[i].battle.round = events[j].battle.round /\ i >= j
        newest == CHOOSE i \in own : \A j \in own : later(i, j)
    IN  rating[w] # NoRow =>
            /\ rating[w].rating = IF own = {} THEN InitialRating ELSE events[newest].after
            /\ rating[w].games =
                   Cardinality({i \in own : events[i].kind = "PLAYED_RATED_BATTLE"})

=============================================================================
