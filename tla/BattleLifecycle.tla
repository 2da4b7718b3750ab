---------------------------- MODULE BattleLifecycle ----------------------------
(***************************************************************************)
(* The rated battles of a round (battle.rs): admission by the coordinator, *)
(* commit and reveal by the two players, settlement by anyone. Six         *)
(* instructions may take a pending battle to a terminal result, and each   *)
(* must count it in the round exactly once.                                *)
(*                                                                         *)
(* A commitment stands for the hash of a lineup and a secret salt: it is   *)
(* opened only by the lineup it was made for. The mode and the league of a *)
(* battle do not change what happens to it and are left out. What a battle *)
(* promises its players, of all this, is RatedContest.                     *)
(***************************************************************************)
EXTENDS RoundLedger

Statuses == {"AwaitingCommit", "Committed", "Revealed", "ScoreFinalized", "Forfeited"}
Forfeits == {"ForfeitA", "ForfeitB", "BothForfeit"}
ByScore == {"PlayerA", "PlayerB", "Draw"}
Results == {"Absent", "Pending", "Voided"} \cup Forfeits \cup ByScore
VoidReasons == {"None", "PriceUnavailable", "SystemIncident"}

\* A field of side s of battle b is assigned.
Put(field, b, s, v) == [field EXCEPT ![b] = [@ EXCEPT ![s] = v]]

Fresh(v) == [b \in Battles |-> [s \in Sides |-> v]]

InitBattles ==
    /\ slot = [i \in Players |-> NoBattle]
    /\ player = Fresh(NoPlayer)
    /\ committed = [b \in Battles |-> {}]
    /\ revealed = [b \in Battles |-> {}]
    /\ scored = [b \in Battles |-> {}]
    /\ commitment = Fresh(NoLineup)
    /\ lineup = Fresh(NoLineup)
    /\ score = Fresh(0)
    /\ status = Fresh("AwaitingCommit")
    /\ result = [b \in Battles |-> "Absent"]
    /\ voidReason = [b \in Battles |-> "None"]

-----------------------------------------------------------------------------
\* Mutated form: the slot of player b is not claimed.
ClaimOneSlot(b, i, j) == slot' = [slot EXCEPT ![i] = b]

\* Both RatedSlot accounts are created by `init`, which fails on a used one.
ClaimSlots(b, i, j) ==
    slot' = [k \in Players |-> IF k \in {i, j} THEN b ELSE slot[k]]

\* validate_rated_battle_window.
AdmissionOpen ==
    /\ roundState \in {"Scheduled", "CommitOpen"}
    /\ now <= CommitDeadline

CreateRatedBattle(b, i, j) ==
    /\ ~ paused
    /\ AdmissionOpen
    /\ i # j
    /\ result[b] = "Absent"
    /\ slot[i] = NoBattle /\ slot[j] = NoBattle
    /\ player' = [player EXCEPT ![b] = [s \in Sides |-> IF s = "A" THEN i ELSE j]]
    /\ result' = [result EXCEPT ![b] = "Pending"]
    /\ ratedCount' = ratedCount + 1
    /\ ClaimSlots(b, i, j)
    /\ UNCHANGED <<now, paused, roundState, resolvedCount, assetVars, sideVars, voidReason>>

\* Mutated form: only the clock is checked, not the state of the round.
CommitByClock == now <= CommitDeadline

CommitOpen == roundState = "CommitOpen" /\ now <= CommitDeadline

CommitLineup(b, s, l) ==
    /\ ~ paused
    /\ CommitOpen
    /\ Pending(b)
    /\ s \notin committed[b]
    /\ commitment' = Put(commitment, b, s, l)
    /\ committed' = [committed EXCEPT ![b] = @ \cup {s}]
    /\ status' = Put(status, b, s, "Committed")
    /\ UNCHANGED <<now, paused, roundVars, assetVars, slot, player, revealed, scored,
                   lineup, score, result, voidReason>>

\* Mutated form: a lineup may be revealed until the keeper moves the round on.
RevealByState == roundState = "RevealOpen"

RevealOpen ==
    /\ roundState = "RevealOpen"
    /\ now >= CommitDeadline /\ now <= RevealDeadline

\* validate_lineup.
ValidLineup(l) ==
    /\ l.captain \in l.assets
    /\ l.assets \subseteq Assets
    /\ Cardinality(l.assets) = LineupSize

OpensCommitment(b, s, l) ==
    /\ s \in committed[b] \ revealed[b]
    /\ commitment[b][s] = l

RevealLineup(b, s, l) ==
    /\ RevealOpen
    /\ Pending(b)
    /\ ValidLineup(l)
    /\ OpensCommitment(b, s, l)
    /\ lineup' = Put(lineup, b, s, l)
    /\ revealed' = [revealed EXCEPT ![b] = @ \cup {s}]
    /\ status' = Put(status, b, s, "Revealed")
    /\ UNCHANGED <<now, paused, roundVars, assetVars, slot, player, committed, scored,
                   commitment, score, result, voidReason>>

-----------------------------------------------------------------------------
\* checked_div rounds toward zero.
TruncDiv(n, d) == IF n >= 0 THEN n \div d ELSE -((-n) \div d)

\* The captain counts twice.
LineupScore(l, returns) ==
    TruncDiv(
        SumFunction([a \in l.assets |-> (IF a = l.captain THEN 2 ELSE 1) * returns[a]]),
        LineupSize + 1)

ScorableLineup(l) == \A a \in l.assets : Available(a)

CanSettleSideScore(b, s) ==
    /\ Pending(b)
    /\ s \in revealed[b] \ scored[b]
    /\ ScorableLineup(lineup[b][s])

SettleSideScore(b, s) ==
    /\ CanSettleSideScore(b, s)
    /\ score' = Put(score, b, s, LineupScore(lineup[b][s], returnQ9))
    /\ scored' = [scored EXCEPT ![b] = @ \cup {s}]
    /\ status' = Put(status, b, s, "ScoreFinalized")
    /\ UNCHANGED <<now, paused, roundVars, assetVars, slot, player, committed, revealed,
                   commitment, lineup, result, voidReason>>

\* Mutated form: the round does not learn of the result.
ResolveUncounted(b, r, reason) ==
    /\ result' = [result EXCEPT ![b] = r]
    /\ voidReason' = [voidReason EXCEPT ![b] = reason]
    /\ resolvedCount' = resolvedCount

\* What every terminal instruction does.
Resolve(b, r, reason) ==
    /\ result' = [result EXCEPT ![b] = r]
    /\ voidReason' = [voidReason EXCEPT ![b] = reason]
    /\ resolvedCount' = resolvedCount + 1

CanFinalizeBattle(b) == Pending(b) /\ scored[b] = Sides

FinalizeBattle(b) ==
    /\ CanFinalizeBattle(b)
    /\ Resolve(b,
           IF score[b]["A"] > score[b]["B"] THEN "PlayerA"
           ELSE IF score[b]["A"] < score[b]["B"] THEN "PlayerB" ELSE "Draw",
           voidReason[b])
    /\ UNCHANGED <<now, paused, roundState, ratedCount, assetVars, slot, player, sideVars>>

ForfeitBy(failed) ==
    IF failed = Sides THEN "BothForfeit"
    ELSE IF failed = {"A"} THEN "ForfeitA" ELSE "ForfeitB"

CanFinalizeForfeit(b) ==
    /\ now > RevealDeadline
    /\ Pending(b)
    /\ Sides \ revealed[b] # {}

FinalizeForfeit(b) ==
    LET failed == Sides \ revealed[b] IN
    /\ CanFinalizeForfeit(b)
    /\ Resolve(b, ForfeitBy(failed), voidReason[b])
    /\ status' = [status EXCEPT ![b] =
                      [s \in Sides |-> IF s \in failed THEN "Forfeited" ELSE @[s]]]
    /\ UNCHANGED <<now, paused, roundState, ratedCount, assetVars, slot, player, committed,
                   revealed, scored, commitment, lineup, score>>

\* Mutated form: every asset of the round counts, not only the selected ones.
SomeAssetUnavailable(b) == \E a \in Assets : unavailable[a] # {}

\* Mutated form: only a missing end price counts.
SelectedEndUnavailable(b) ==
    \E s \in revealed[b] : \E a \in lineup[b][s].assets : "End" \in unavailable[a]

SelectedUnavailable(b) ==
    \E s \in revealed[b] : \E a \in lineup[b][s].assets : unavailable[a] # {}

CanVoidBattleIfPriceUnavailable(b) ==
    /\ Pending(b)
    /\ revealed[b] # {}
    /\ SelectedUnavailable(b)

VoidBattleIfPriceUnavailable(b) ==
    /\ CanVoidBattleIfPriceUnavailable(b)
    /\ Resolve(b, "Voided", "PriceUnavailable")
    /\ UNCHANGED <<now, paused, roundState, ratedCount, assetVars, slot, player, sideVars>>

VoidBattleForSystemIncident(b) ==
    /\ paused
    /\ Pending(b)
    /\ Resolve(b, "Voided", "SystemIncident")
    /\ UNCHANGED <<now, paused, roundState, ratedCount, assetVars, slot, player, sideVars>>

CancelUncommittedBattle(b) ==
    /\ Pending(b)
    /\ committed[b] = {}
    /\ Resolve(b, "Voided", "SystemIncident")
    /\ UNCHANGED <<now, paused, roundState, ratedCount, assetVars, slot, player, sideVars>>

\* The permissionless instructions that bring a battle to its result.
SettleBattle(b) ==
    \/ \E s \in Sides : SettleSideScore(b, s)
    \/ FinalizeBattle(b)
    \/ FinalizeForfeit(b)
    \/ VoidBattleIfPriceUnavailable(b)

-----------------------------------------------------------------------------
(* What a result of a battle means, for a round of either price source. *)

\* The sides that did not reveal are the forfeited ones.
ForfeitJustified(b) ==
    /\ now > RevealDeadline
    /\ revealed[b] # Sides
    /\ result[b] = ForfeitBy(Sides \ revealed[b])
    /\ {s \in Sides : status[b][s] = "Forfeited"} = Sides \ revealed[b]

ScoresJustified(b) ==
    /\ scored[b] = Sides
    /\ \A s \in Sides :
           /\ lineup[b][s] = commitment[b][s]
           /\ \A a \in lineup[b][s].assets : Available(a)
           /\ score[b][s] = LineupScore(lineup[b][s], returnQ9)
    /\ result[b] = "PlayerA" => score[b]["A"] > score[b]["B"]
    /\ result[b] = "PlayerB" => score[b]["A"] < score[b]["B"]
    /\ result[b] = "Draw" => ~ (score[b]["A"] > score[b]["B"] \/ score[b]["A"] < score[b]["B"])

-----------------------------------------------------------------------------
\* Who may still do what is a matter of both the clock and the keepers.
Stage ==
    IF now > RevealDeadline THEN "Settling"
    ELSE IF roundState \in {"Scheduled", "CommitOpen"} THEN "Sealing" ELSE "Opening"

Contest == INSTANCE RatedContest WITH
    Contests <- Battles,
    stage <- Stage,
    priced <- \E a \in Assets : quorum[a] # {},
    entrant <- player,
    sealed <- commitment,
    shown <- lineup,
    verdict <- result

(***************************************************************************)
(* The battles of a round, of either price source, keep the promise that   *)
(* is made to their players: no interleaving of players, coordinator,      *)
(* keepers and price sources lets anyone bind a lineup after one was       *)
(* opened, open one after a price was known, or change a verdict.          *)
(***************************************************************************)
ImplementsContest == Contest!Spec

=============================================================================
