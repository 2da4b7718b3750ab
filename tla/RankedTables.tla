------------------------------ MODULE RankedTables ------------------------------
(***************************************************************************)
(* The rows of the backend's database that ranked play reads and writes,   *)
(* and the battle accounts of the program that some of them mirror. Every  *)
(* operation on them is one transaction; the advisory locks of ranked.rs,  *)
(* rating.rs and league.rs make the ones that touch the same rows serial,  *)
(* so each is an action. Time is read before the lock is taken, so that an *)
(* operation may carry a time that has passed (see Clocks).                *)
(***************************************************************************)
EXTENDS Integers, Sequences, FiniteSets

CONSTANTS
    Rounds,          \* round sequence numbers of the indexed market rounds
    Wallets,         \* numbers, ordered as the wallet strings are
    PrivateRounds,   \* the rounds outside the public equity domain
    QueueCloseAt, StartAt, EndAt,    \* the schedule: a time per round
    MaxTime,
    InitialRating, RatingFloor, ForfeitPenalty,
    PossibleResults,
    NoRow, NoBattle, NoRating

ASSUME TableAssumption ==
    /\ Rounds \subseteq Nat \ {0} /\ Wallets \subseteq Nat
    /\ IsFiniteSet(Rounds) /\ IsFiniteSet(Wallets)
    /\ PrivateRounds \subseteq Rounds
    /\ \A r \in Rounds : /\ QueueCloseAt[r] \in Nat /\ StartAt[r] \in Nat /\ EndAt[r] \in Nat
                         /\ QueueCloseAt[r] < StartAt[r] /\ StartAt[r] < EndAt[r]
    /\ \A r, q \in Rounds : r < q => EndAt[r] <= StartAt[q]
    /\ RatingFloor \in Int /\ InitialRating \in Int /\ ForfeitPenalty \in Int
    /\ RatingFloor <= InitialRating
    /\ PossibleResults \subseteq {"PLAYER_A", "PLAYER_B", "DRAW", "FORFEIT_A", "FORFEIT_B",
                               "BOTH_FORFEIT", "VOIDED"}

VARIABLES
    now,
    queue,        \* ranked_queue.status, per round and wallet
    matched,      \* the rounds that have a row in ranked_match_runs
    pairings,     \* ranked_pairings
    reservation,  \* league_reservations.status, per round and wallet
    chain,        \* the battle accounts: their state or result on chain
    settling,     \* the battles that got their result on chain in this second
    row,          \* battles
    exposure,     \* rated_exposures: the battle of a wallet in a round
    rating,       \* ratings of the active season: [rating, games, updatedAt]
    events        \* rating_events, in the order of their ids

queueVars == <<queue, matched, pairings>>
ledgerVars == <<rating, events>>
chainVars == <<chain, settling>>
projectionVars == <<row, exposure>>
tableVars ==
    <<now, queueVars, reservation, chainVars, projectionVars, ledgerVars>>

-----------------------------------------------------------------------------
(* A rated battle by its round and players, in the order of their wallets. *)
Battles ==
    {b \in [round : Rounds, a : Wallets, b : Wallets] : b.a < b.b}

Players(b) == {b.a, b.b}

(* What a row of battles and one of ratings hold. A missing row is neither.*)
BattleRow ==
    [state : {"CREATED", "FINALIZED", "VOIDED"}, result : {"PENDING"} \union PossibleResults,
     after : BOOLEAN, snapA : Int \union {NoRating}, snapB : Int \union {NoRating}]

RatingRow == [rating : Int, games : Nat, updatedAt : Int]

ASSUME MissingAssumption ==
    NoRow \notin BattleRow \union RatingRow /\ NoBattle \notin Battles

Played == {"PLAYER_A", "PLAYER_B", "DRAW"}

LiveReservation == {"PENDING", "ACTIVE", "PENDING_LEAVE"}

Paired == {"MATCHED_PENDING_COORDINATOR", "BATTLE_CREATED"}

Overlap(r, q) == StartAt[r] < EndAt[q] /\ StartAt[q] < EndAt[r]

(* now_unix() is read before the transaction waits for its locks.          *)
Clocks == {now, now - 1} \intersect Nat

RowExists(b) == row[b] # NoRow

(* Whether a reading of this second comes after that of the settlement.    *)
SettledBefore(b) == chain[b] \in PossibleResults /\ b \notin settling

InitTables ==
    /\ now = 0
    /\ queue = [r \in Rounds |-> [w \in Wallets |-> "NONE"]]
    /\ matched = {}
    /\ pairings = {}
    /\ reservation = [r \in Rounds |-> [w \in Wallets |-> "NONE"]]
    /\ chain = [b \in Battles |-> "NONE"]
    /\ settling = {}
    /\ row = [b \in Battles |-> NoRow]
    /\ exposure = [r \in Rounds |-> [w \in Wallets |-> NoBattle]]
    /\ rating = [w \in Wallets |-> NoRow]
    /\ events = << >>

EventsOf(b) == {i \in DOMAIN events : events[i].battle = b}

HasEvent(b, w) == \E i \in EventsOf(b) : events[i].wallet = w

=============================================================================
