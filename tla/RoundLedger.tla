----------------------------- MODULE RoundLedger -----------------------------
(***************************************************************************)
(* The accounts of one frozen market round that its instructions share:    *)
(* the MarketRound, its RoundAssets, the rated Battles and RatedSlots, and *)
(* the pause flag of the Config. The other modules of the competition give *)
(* the instructions that read and write them, one module per source file.  *)
(*                                                                         *)
(* A price phase keeps whether a compatible quorum of reports is on chain; *)
(* PriceSettlement models the reports and prices behind it.                *)
(***************************************************************************)
EXTENDS Integers, FiniteSets, Functions

CONSTANTS
    Assets,             \* asset ids of eligible_asset_bitmap
    Battles,            \* battle ids the coordinator may use
    Players,
    Lineups,            \* what players may commit to: [assets, captain] records
    LineupSize,         \* LINEUP_SIZE
    Returns,            \* the returns that finalized prices may give
    QueueCloseAt, CommitDeadline, RevealDeadline, StartTarget, EndTarget,
    ObservationWindow, Grace,
    MaxTime,            \* bound on the modelled clock
    NoBattle, NoPlayer, NoLineup

\* handle_create_market_round_draft and the admin's window bounds.
ASSUME RoundTimingAssumption ==
    /\ {QueueCloseAt, CommitDeadline, RevealDeadline, StartTarget, EndTarget,
        ObservationWindow, Grace, MaxTime} \subseteq Nat
    /\ 0 < QueueCloseAt /\ QueueCloseAt < CommitDeadline
    /\ CommitDeadline < RevealDeadline /\ RevealDeadline < StartTarget
    /\ StartTarget < EndTarget
    /\ ObservationWindow > 0 /\ Grace > 0

ASSUME RoundDataAssumption ==
    /\ IsFiniteSet(Assets) /\ IsFiniteSet(Battles) /\ IsFiniteSet(Players)
    /\ LineupSize \in Nat \ {0}
    /\ Returns \subseteq Int /\ Returns # {}
    /\ NoBattle \notin Battles /\ NoPlayer \notin Players /\ NoLineup \notin Lineups

VARIABLES
    now,            \* the cluster clock
    paused,         \* Config.paused
    roundState,     \* MarketRound.state
    ratedCount,     \* MarketRound.rated_battle_count
    resolvedCount,  \* MarketRound.resolved_battle_count
    quorum,         \* phases with a compatible quorum of reports, by asset
    finalized,      \* start_finalized and end_finalized, by asset
    unavailable,    \* start_unavailable and end_unavailable, by asset
    returnQ9,       \* RoundAsset.return_q9
    slot,           \* RatedSlot.battle, by player
    player,         \* the player of each side of a battle
    committed,      \* the sides that have committed, by battle
    revealed,       \* the sides that have revealed
    scored,         \* the sides with score_finalized
    commitment,     \* what a side is committed to
    lineup,         \* asset_ids and captain_asset_id of a revealed side
    score,          \* score_q9
    status,         \* SideStatus
    result,         \* BattleResult, or "Absent" before the account exists
    voidReason      \* VoidReason

roundVars == <<roundState, ratedCount, resolvedCount>>
assetVars == <<quorum, finalized, unavailable, returnQ9>>
sideVars == <<committed, revealed, scored, commitment, lineup, score, status>>
battleVars == <<slot, player, sideVars, result, voidReason>>
vars == <<now, paused, roundVars, assetVars, battleVars>>

Phases == {"Start", "End"}
Sides == {"A", "B"}

\* Only an asset with both phases finalized has `available` set.
Available(a) == finalized[a] = Phases /\ unavailable[a] = {}

Resolved(a) == finalized[a] \cup unavailable[a] = Phases

Target(p) == IF p = "Start" THEN StartTarget ELSE EndTarget
WindowEnd(p) == Target(p) + ObservationWindow
Deadline(p) == WindowEnd(p) + Grace

Created == {b \in Battles : result[b] # "Absent"}

\* Mutated form: an instruction checks that the battle exists, not its result.
HasAccount(b) == result[b] # "Absent"

Pending(b) == result[b] = "Pending"
Decided(b) == result[b] \notin {"Absent", "Pending"}

=============================================================================
