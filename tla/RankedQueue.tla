------------------------------- MODULE RankedQueue -------------------------------
(***************************************************************************)
(* The ranked queue of a round: wallets join and leave it until it closes, *)
(* the matchmaker then pairs the ones still queued, once, and every        *)
(* pairing becomes a battle that the coordinator creates and confirms.     *)
(***************************************************************************)
EXTENDS RankedTables

CONSTANT RecentRematchWindow

-----------------------------------------------------------------------------
(* A round is shown as SCHEDULED or COMMIT_OPEN until its start at most;   *)
(* the row is taken to lag the chain by that much.                         *)
QueueOpen(r, at) == r \notin PrivateRounds /\ at < QueueCloseAt[r]

MatchmakerWindow(r, at) ==
    r \notin PrivateRounds /\ QueueCloseAt[r] <= at /\ at < StartAt[r]

HasRatedExposure(r, w) == exposure[r][w] # NoBattle

HasLeagueReservation(r, w) ==
    \E q \in Rounds : reservation[q][w] \in LiveReservation /\ Overlap(q, r)

HasUnresolvedPreviousBattle(r, w) ==
    \E b \in Battles :
        /\ RowExists(b) /\ w \in Players(b) /\ b.round < r
        /\ \/ row[b].state \notin {"FINALIZED", "VOIDED"}
           \/ row[b].state = "FINALIZED" /\ ~ HasEvent(b, w)

Barred(r, w) ==
    HasRatedExposure(r, w) \/ HasLeagueReservation(r, w) \/ HasUnresolvedPreviousBattle(r, w)

JoinQueue(r, w, at) ==
    /\ QueueOpen(r, at)
    /\ ~ Barred(r, w)
    /\ queue[r][w] \in {"NONE", "CANCELLED", "UNMATCHED", "BLOCKED"}
    /\ queue' = [queue EXCEPT ![r][w] = "QUEUED"]
    /\ UNCHANGED <<now, matched, pairings, reservation, chainVars, projectionVars, ledgerVars>>

(* Mutated form: a wallet may leave whatever became of its entry.          *)
LeaveAnyQueue(r, w, at) ==
    /\ at < QueueCloseAt[r]
    /\ queue[r][w] \notin {"NONE", "CANCELLED"}
    /\ queue' = [queue EXCEPT ![r][w] = "CANCELLED"]
    /\ UNCHANGED <<now, matched, pairings, reservation, chainVars, projectionVars, ledgerVars>>

LeaveQueue(r, w, at) ==
    /\ at < QueueCloseAt[r]
    /\ queue[r][w] \in {"QUEUED", "UNMATCHED"}
    /\ queue' = [queue EXCEPT ![r][w] = "CANCELLED"]
    /\ UNCHANGED <<now, matched, pairings, reservation, chainVars, projectionVars, ledgerVars>>

-----------------------------------------------------------------------------
(* The rating of a wallet as of the cutoff of a round: its last event of   *)
(* an earlier round that was made by then, else its row if that old, else  *)
(* the rating everyone starts with.                                        *)
EventsByCutoff(r, w) ==
    {i \in DOMAIN events : /\ events[i].wallet = w
                           /\ events[i].battle.round < r
                           /\ events[i].at <= QueueCloseAt[r]}

LaterEvent(i, j) ==
    LET x == events[i]
        y == events[j]
    IN  \/ x.battle.round > y.battle.round
        \/ x.battle.round = y.battle.round /\ x.at > y.at
        \/ x.battle.round = y.battle.round /\ x.at = y.at /\ i > j

RatingAtCutoff(r, w) ==
    LET candidates == EventsByCutoff(r, w)
    IN  IF candidates # {}
        THEN events[CHOOSE i \in candidates :
                        \A j \in candidates : i = j \/ LaterEvent(i, j)].after
        ELSE IF rating[w] # NoRow /\ rating[w].updatedAt <= QueueCloseAt[r]
        THEN rating[w].rating
        ELSE InitialRating

(* The last opponents of a wallet before the round, most recent first.     *)
RecentOpponents(r, w) ==
    LET met == {b \in Battles : /\ RowExists(b) /\ w \in Players(b) /\ b.round < r
                                /\ row[b].state # "VOIDED"}
        recent == {b \in met : Cardinality({c \in met : c.round > b.round})
                                   < RecentRematchWindow}
    IN  UNION {Players(b) \ {w} : b \in recent}

(* pair_ranked: the lowest rating first, with the candidate it has not met *)
(* lately, then the nearest, then the lowest rating, then the first wallet.*)
Rematch(r, v, w) == w \in RecentOpponents(r, v) \/ v \in RecentOpponents(r, w)

Distance(r, v, w) ==
    LET d == RatingAtCutoff(r, v) - RatingAtCutoff(r, w) IN IF d < 0 THEN -d ELSE d

LowerRated(r, v, w) ==
    \/ RatingAtCutoff(r, v) < RatingAtCutoff(r, w)
    \/ RatingAtCutoff(r, v) = RatingAtCutoff(r, w) /\ v <= w

CloserTo(r, first, v, w) ==
    LET met(x) == IF Rematch(r, first, x) THEN 1 ELSE 0
    IN  \/ met(v) < met(w)
        \/ met(v) = met(w) /\ Distance(r, first, v) < Distance(r, first, w)
        \/ met(v) = met(w) /\ Distance(r, first, v) = Distance(r, first, w)
               /\ LowerRated(r, v, w)

LeastBy(S, leq(_, _)) == CHOOSE x \in S : \A y \in S : leq(x, y)

Lowest(r, T) == LeastBy(T, LAMBDA v, w : LowerRated(r, v, w))

Opponent(r, T) ==
    LeastBy(T \ {Lowest(r, T)}, LAMBDA v, w : CloserTo(r, Lowest(r, T), v, w))

PairRanked(r, S) ==
    LET pairsOf[T \in SUBSET S] ==
            IF Cardinality(T) < 2 THEN {}
            ELSE {{Lowest(r, T), Opponent(r, T)}}
                     \union pairsOf[T \ {Lowest(r, T), Opponent(r, T)}]
    IN  pairsOf[S]

BattleOf(r, pair) ==
    LET a == LeastBy(pair, LAMBDA v, w : v <= w)
    IN  [round |-> r, a |-> a, b |-> CHOOSE w \in pair : w # a]

Pairing(r, pair) ==
    LET b == BattleOf(r, pair)
    IN  [battle |-> b, status |-> "PENDING_COORDINATOR",
         snapA |-> RatingAtCutoff(r, b.a), snapB |-> RatingAtCutoff(r, b.b)]

-----------------------------------------------------------------------------
HasMatchRun(r) == r \in matched

Queued(r) == {w \in Wallets : queue[r][w] = "QUEUED"}

Eligible(r) == {w \in Queued(r) : ~ Barred(r, w)}

(* What becomes of the entries of a round; those the matchmaker passes     *)
(* through on the way never leave its transaction.                         *)
QueueAfterMatch(r, pairs) ==
    [w \in Wallets |->
        IF w \notin Queued(r) THEN queue[r][w]
        ELSE IF w \notin Eligible(r) THEN "BLOCKED"
        ELSE IF w \in UNION pairs THEN "MATCHED_PENDING_COORDINATOR"
        ELSE "UNMATCHED"]

(* The first call for a round after its cutoff; a later one finds the run  *)
(* and returns it.                                                         *)
RunMatchmaker(r, at) ==
    /\ MatchmakerWindow(r, at)
    /\ ~ HasMatchRun(r)
    /\ LET pairs == PairRanked(r, Eligible(r))
       IN  /\ matched' = matched \union {r}
           /\ pairings' = pairings \union {Pairing(r, pair) : pair \in pairs}
           /\ queue' = [queue EXCEPT ![r] = QueueAfterMatch(r, pairs)]
    /\ UNCHANGED <<now, reservation, chainVars, projectionVars, ledgerVars>>

ReturnMatchRun(r, at) ==
    /\ MatchmakerWindow(r, at)
    /\ HasMatchRun(r)
    /\ UNCHANGED tableVars

-----------------------------------------------------------------------------
(* The row of a confirmed battle: a new one, or that of the indexer with   *)
(* the snapshots it lacks.                                                 *)
ConfirmedRow(p) ==
    LET old == row[p.battle]
        orElse(x, y) == IF x = NoRating THEN y ELSE x
    IN  IF old = NoRow
        THEN [state |-> "CREATED", result |-> "PENDING", after |-> SettledBefore(p.battle),
              snapA |-> p.snapA, snapB |-> p.snapB]
        ELSE [old EXCEPT !.snapA = orElse(@, p.snapA), !.snapB = orElse(@, p.snapB)]

(* A confirmation also fails when either exposure is there already, from   *)
(* the indexer too, and then leaves everything as it was.                  *)
ConfirmCoordinatorBattle(p) ==
    LET b == p.battle
    IN  /\ p \in pairings /\ p.status = "PENDING_COORDINATOR"
        /\ chain[b] # "NONE"
        /\ \A w \in Players(b) : ~ HasRatedExposure(b.round, w)
        /\ row' = [row EXCEPT ![b] = ConfirmedRow(p)]
        /\ exposure' = [exposure EXCEPT ![b.round] =
               [w \in Wallets |-> IF w \in Players(b) THEN b ELSE exposure[b.round][w]]]
        /\ pairings' = (pairings \ {p}) \union {[p EXCEPT !.status = "CREATED"]}
        /\ queue' = [queue EXCEPT ![b.round] =
               [w \in Wallets |-> IF w \in Players(b) THEN "BATTLE_CREATED"
                                  ELSE queue[b.round][w]]]
        /\ UNCHANGED <<now, matched, reservation, chainVars, ledgerVars>>

=============================================================================
