--------------------------- MODULE SettlementPlanner ---------------------------
(***************************************************************************)
(* The planner of settlement.rs: from a snapshot of a round it yields the  *)
(* instructions that a keeper sends next. The caller makes a new snapshot  *)
(* after every confirmed instruction, so the plan is a function of the     *)
(* accounts. The order of a batch, by asset and battle number, is left out *)
(* and a batch is a set of instructions.                                   *)
(***************************************************************************)
EXTENDS Competition

Instruction(kind, subject, part) == [kind |-> kind, subject |-> subject, part |-> part]

(***************************************************************************)
(* What the caller puts into the snapshot of a battle: the assets of the   *)
(* lineups that are known, those revealed.                                 *)
(***************************************************************************)
SelectedAssets(b) == UNION {lineup[b][s].assets : s \in revealed[b]}

Rated == {b \in Battles : result[b] # "Absent"}

(***************************************************************************)
(* validate_snapshot: every battle of the round, decided or not, must name *)
(* as many different assets as one lineup has. One battle that does not    *)
(* leaves the whole round without a plan.                                  *)
(***************************************************************************)
SnapshotAccepted ==
    /\ \A b \in Rated : Cardinality(SelectedAssets(b)) = LineupSize
    /\ resolvedCount <= ratedCount
    /\ ratedCount = Cardinality(Rated)
    /\ roundState \in {"Finalized", "Voided"} => resolvedCount = ratedCount

\* Mutated form: the deadline itself is taken for past.
PlanPhaseFromDeadline(a, p) ==
    IF now >= Deadline(p) /\ p \notin finalized[a] \cup unavailable[a]
    THEN {Instruction(IF p \in quorum[a] THEN "FinalizePhase" ELSE "MarkUnavailable", a, p)}
    ELSE {}

\* plan_phase.
PlanPhase(a, p) ==
    IF now > Deadline(p) /\ p \notin finalized[a] \cup unavailable[a]
    THEN {Instruction(IF p \in quorum[a] THEN "FinalizePhase" ELSE "MarkUnavailable", a, p)}
    ELSE {}

\* all_assets_available.
AllAssetsAvailable(assets) == \A a \in assets : finalized[a] = Phases

\* The loop over the battles: voided, forfeited, finalized or scored.
PlanBattle(b) ==
    IF ~ Pending(b) THEN {}
    ELSE IF SelectedUnavailable(b) /\ revealed[b] # {}
         THEN {Instruction("VoidPriceUnavailable", b, "Battle")}
    ELSE IF revealed[b] # Sides
         THEN IF now > RevealDeadline THEN {Instruction("Forfeit", b, "Battle")} ELSE {}
    ELSE IF scored[b] = Sides
         THEN {Instruction("FinalizeBattle", b, "Battle")}
    ELSE IF AllAssetsAvailable(SelectedAssets(b))
         THEN {Instruction("SettleSide", b, s) : s \in Sides \ scored[b]}
    ELSE {}

PhasesAndBattles ==
    UNION ({PlanPhase(a, p) : a \in Assets, p \in Phases}
               \cup {PlanBattle(b) : b \in Battles})

\* The round is completed when nothing else is left to do.
PlanCompletion ==
    IF /\ \A a \in Assets : Resolved(a)
       /\ resolvedCount = ratedCount
       /\ PhasesAndBattles = {}
    THEN {Instruction("FinalizeRound", 0, "Round")} ELSE {}

\* plan_settlement.
Plan ==
    IF ~ SnapshotAccepted THEN {}
    ELSE IF roundState = "Ended" THEN {Instruction("AdvanceRound", 0, "Round")}
    ELSE IF roundState = "Settling" THEN PhasesAndBattles \cup PlanCompletion
    ELSE {}

------------------------------------------------------------------------------
\* The program accepts the instruction now.
Accepted(i) ==
    CASE i.kind = "AdvanceRound" -> CanAdvanceMarketRound
      [] i.kind = "FinalizePhase" -> CanFinalizePricePhase(i.subject, i.part)
      [] i.kind = "MarkUnavailable" -> CanMarkPricePhaseUnavailable(i.subject, i.part)
      [] i.kind = "VoidPriceUnavailable" -> CanVoidBattleIfPriceUnavailable(i.subject)
      [] i.kind = "Forfeit" -> CanFinalizeForfeit(i.subject)
      [] i.kind = "FinalizeBattle" -> CanFinalizeBattle(i.subject)
      [] i.kind = "SettleSide" -> CanSettleSideScore(i.subject, i.part)
      [] i.kind = "FinalizeRound" -> CanFinalizeMarketRound

\* Some instruction of the settlement would be accepted now.
SettlementCanMove ==
    \/ CanAdvanceMarketRound
    \/ CanFinalizeMarketRound
    \/ \E a \in Assets, p \in Phases :
           CanFinalizePricePhase(a, p) \/ CanMarkPricePhaseUnavailable(a, p)
    \/ \E b \in Battles :
           \/ \E s \in Sides : CanSettleSideScore(b, s)
           \/ CanFinalizeBattle(b)
           \/ CanFinalizeForfeit(b)
           \/ CanVoidBattleIfPriceUnavailable(b)

AwaitsStart(i) ==
    /\ i.kind = "FinalizePhase" /\ i.part = "End"
    /\ "Start" \notin finalized[i.subject]

(***************************************************************************)
(* On a snapshot that the planner accepts it never stops short of what the *)
(* program would still accept, and never asks for what the program refuses *)
(* but for one thing: an end price whose start price is not there.         *)
(***************************************************************************)
PlanKeepsUp ==
    roundState \in {"Ended", "Settling"} /\ SnapshotAccepted =>
        /\ SettlementCanMove => \E i \in Plan : Accepted(i)
        /\ \A i \in Plan : Accepted(i) \/ AwaitsStart(i)

=============================================================================
