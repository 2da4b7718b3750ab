------------------------------ MODULE RankedSeason ------------------------------
(***************************************************************************)
(* Ranked play of a season: wallets in the queues of its rounds, the       *)
(* matchmaker, the coordinator, the program, the indexer and the rating    *)
(* worker, in every order their transactions can come in.                  *)
(***************************************************************************)
EXTENDS BattleProjection, SchedulerTick

CONSTANT MaxLag

vars == <<tableVars, worker>>

Init == InitTables /\ worker = Idle

(* The reader may lag, but not by a whole round: it has shown a battle when *)
(* a later battle of one of its players is settled.                        *)
EarlierBattlesShown(b) ==
    \A c \in Battles :
        c.round < b.round /\ Players(c) \intersect Players(b) # {} /\ chain[c] # "NONE"
            => RowExists(c)

(* MaxTime bounds the clock, and MaxLag the seconds a tick may take.        *)
Tick ==
    /\ now < MaxTime
    /\ worker # Idle => now - worker.at < MaxLag
    /\ now' = now + 1
    /\ settling' = {}
    /\ UNCHANGED <<queueVars, reservation, chain, projectionVars, ledgerVars>>

Request == \E r \in Rounds, w \in Wallets, at \in Clocks :
    JoinQueue(r, w, at) \/ LeaveQueue(r, w, at)

(* The commands of main.rs that run one job.                               *)
Command == ApplyNext(now) \/ \E r \in Rounds : RunMatchmaker(r, now)

Coordinate ==
    \/ \E b \in Battles : CreateOnChain(b)
    \/ \E p \in pairings : ConfirmCoordinatorBattle(p)

Resolve == \E b \in Battles, result \in PossibleResults :
    EarlierBattlesShown(b) /\ ResolveOnChain(b, result)

Observe == \E b \in Battles :
    \/ IndexBattle(b)
    \/ now < MaxTime /\ IndexStaleBattle(b)
    \/ \E w \in Wallets : UpsertRatedExposure(b, w)

Next ==
    \/ /\ Tick \/ Request \/ Command \/ Coordinate \/ Resolve \/ Observe
       /\ UNCHANGED worker
    \/ RunOnce
    \/ now < MaxTime /\ StopTick

(***************************************************************************)
(* The scheduler loop of main.rs starts a tick after the other, and the    *)
(* reader looks at every account again and again. No tick is stopped and   *)
(* no stale reading arrives once the clock has stopped at its bound.       *)
(***************************************************************************)
Fairness ==
    /\ WF_vars(Tick /\ UNCHANGED worker)
    /\ WF_vars(RunOnce)
    /\ \A b \in Battles : WF_vars(IndexBattle(b) /\ UNCHANGED worker)

Spec == Init /\ [][Next]_vars

FairSpec == Spec /\ Fairness

-----------------------------------------------------------------------------
(***************************************************************************)
(* A wallet has at most one opponent in a round, however late its request, *)
(* a second worker or a confirmation comes, and its queue entry says so:   *)
(* a leave that was accepted is never followed by a battle, and a battle   *)
(* that is confirmed is the rated exposure of both its players.            *)
(***************************************************************************)
QueueMatchesPairings ==
    /\ \A r \in Rounds, w \in Wallets :
           LET own == {p \in pairings : p.battle.round = r /\ w \in Players(p.battle)}
           IN  /\ Cardinality(own) <= 1
               /\ queue[r][w] \in Paired <=> own # {}
               /\ \A p \in own : queue[r][w] = "BATTLE_CREATED" <=> p.status = "CREATED"
    /\ \A p \in pairings : p.status = "CREATED" =>
           /\ RowExists(p.battle)
           /\ \A w \in Players(p.battle) : exposure[p.battle.round][w] = p.battle
    /\ \A b \in Battles : chain[b] # "NONE" => \E p \in pairings : p.battle = b

(***************************************************************************)
(* The queue of a round closes no earlier than the rounds before it have   *)
(* started: no battle of an earlier round is created when one of a later   *)
(* round can already be settled. The ledger rests on it, and nothing in    *)
(* the checks of a schedule says so.                                       *)
(***************************************************************************)
QueuesInTurn ==
    \A r, q \in Rounds \ PrivateRounds : r < q => StartAt[r] <= QueueCloseAt[q]

(***************************************************************************)
(* The ratings are what the events say, so that reconcile_projection never *)
(* counts a mismatch: the events of a wallet follow the order of the       *)
(* rounds, each starts from the rating the one before left, the last one   *)
(* leaves the rating of the row, and the games of the row are the events   *)
(* of played battles. A battle has all of its events or none.              *)
(***************************************************************************)
EventsOfWallet(w) == {i \in DOMAIN events : events[i].wallet = w}

LedgerExplainsRatings ==
    \A w \in Wallets :
        LET own == EventsOfWallet(w)
            previous(i) == {j \in own : j < i}
            last(S) == CHOOSE i \in S : \A j \in S : j <= i
            left(S) == IF S = {} THEN InitialRating ELSE events[last(S)].after
        IN  /\ \A i, j \in own : i < j => events[i].battle.round < events[j].battle.round
            /\ \A i \in own : /\ events[i].before = left(previous(i))
                              /\ events[i].after >= RatingFloor
            /\ own # {} => rating[w] # NoRow
            /\ RatingProjectionMatches(w)

BattlesRatedWhole ==
    \A b \in Battles : EventsOf(b) # {} =>
        /\ chain[b] \in PossibleResults \ {"VOIDED"}
        /\ {events[i].wallet : i \in EventsOf(b)} =
               Players(b) \ (CASE chain[b] = "FORFEIT_A" -> {b.b}
                               [] chain[b] = "FORFEIT_B" -> {b.a}
                               [] OTHER -> {})

(***************************************************************************)
(* Whenever a battle is settled on chain it gets its ratings, now or later,*)
(* unless something holds it up: an earlier battle of a player is still    *)
(* open on chain, for as long as it is; or was voided, for good, since the *)
(* chain of earlier battles never counts it as resolved; or a snapshot     *)
(* differs from the current rating, an error that ends every tick.         *)
(***************************************************************************)
Obstructed(b) ==
    \/ \E c \in Battles : Poisoned(c)
    \/ \E c \in Battles : /\ c.round < b.round /\ Players(c) \intersect Players(b) # {}
                          /\ chain[c] \in {"VOIDED", "OPEN"}

SettledBattlesGetRated ==
    \A b \in Battles :
        (chain[b] \in PossibleResults \ {"VOIDED"}) ~> (EventsOf(b) # {} \/ Obstructed(b))

=============================================================================
