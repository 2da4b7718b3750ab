-------------------------- MODULE CompetitionProofs --------------------------
(***************************************************************************)
(* Proofs about a market round with any assets, battles, players, lineups, *)
(* schedule and clock: type correctness, the order of commits, reveals and *)
(* price evidence, the exclusivity of rated slots and the permanence of    *)
(* results; then its settlement: the counters that its completion relies   *)
(* on, the justification of every result, what a completed round leaves    *)
(* behind, and that its assets keep the promise of AssetResolution. The    *)
(* same round settled from Pyth Pro follows, and for both sources that     *)
(* their battles implement RatedContest.                                   *)
(***************************************************************************)
EXTENDS SettlementPlanner, PythCompetition, FiniteSetTheorems, TLAPS

LEMMA PutType ==
    ASSUME NEW T, NEW field \in [Battles -> [Sides -> T]],
           NEW b \in Battles, NEW s \in Sides, NEW v \in T
    PROVE  Put(field, b, s, v) \in [Battles -> [Sides -> T]]
    BY DEF Put

LEMMA ScheduleFacts ==
    /\ CommitDeadline \in Int /\ RevealDeadline \in Int /\ MaxTime \in Nat
    /\ CommitDeadline < RevealDeadline
    /\ \A p \in Phases : /\ WindowEnd(p) \in Int /\ Deadline(p) \in Int
                         /\ RevealDeadline < WindowEnd(p)
                         /\ WindowEnd(p) < Deadline(p)
    /\ Deadline("Start") < Deadline("End")
    BY RoundTimingAssumption DEF Phases, Deadline, WindowEnd, Target

(***************************************************************************)
(* What a revealed side has: the lineup it had committed to, a valid one.  *)
(***************************************************************************)
RevealedLineups ==
    \A b \in Battles : \A s \in revealed[b] :
        /\ s \in committed[b]
        /\ lineup[b][s] \in Lineups
        /\ lineup[b][s] = commitment[b][s]

Typed == TypeOK /\ RevealedLineups

LEMMA InitTyped == Init => Typed
<1> SUFFICES ASSUME Init PROVE Typed
    OBVIOUS
<1>1. 0 \in Scores /\ 0 \in 0..MaxTime
    BY ScheduleFacts DEF Scores
<1> QED
    BY <1>1 DEF Init, InitRound, InitPrices, InitBattles, Fresh, Typed, TypeOK,
                RevealedLineups, RoundStates, Statuses, Results, VoidReasons

LEMMA RoundStepTyped ==
    ASSUME Typed, RoundStep
    PROVE  Typed'
<1> USE DEF Typed, TypeOK, RevealedLineups
<1>1. CASE Tick
    BY <1>1, ScheduleFacts DEF Tick, roundVars, assetVars, battleVars, sideVars
<1>2. ASSUME NEW flag \in BOOLEAN, SetPause(flag)
      PROVE  Typed'
    BY <1>2 DEF SetPause, roundVars, assetVars, battleVars, sideVars
<1>3. CASE AdvanceMarketRound
    BY <1>3 DEF AdvanceMarketRound, ClockTransitions, RoundStates, assetVars,
                battleVars, sideVars
<1>4. CASE FinalizeMarketRound
    BY <1>4 DEF FinalizeMarketRound, CanFinalizeMarketRound, RoundStates, assetVars,
                battleVars, sideVars
<1> QED
    BY <1>1, <1>2, <1>3, <1>4 DEF RoundStep

LEMMA PriceStepTyped ==
    ASSUME Typed, NEW a \in Assets, NEW p \in Phases,
           ReachQuorum(a, p) \/ ResolvePricePhase(a, p)
    PROVE  Typed'
<1> USE DEF Typed, TypeOK, RevealedLineups, roundVars, battleVars, sideVars
<1>1. CASE ReachQuorum(a, p)
    BY <1>1 DEF ReachQuorum
<1>2. CASE FinalizePricePhase(a, p)
    BY <1>2 DEF FinalizePricePhase, CanFinalizePricePhase
<1>3. CASE MarkPricePhaseUnavailable(a, p)
    BY <1>3 DEF MarkPricePhaseUnavailable, CanMarkPricePhaseUnavailable
<1> QED
    BY <1>1, <1>2, <1>3 DEF ResolvePricePhase

LEMMA AdmissionTyped ==
    ASSUME Typed, NEW b \in Battles, NEW i \in Players, NEW j \in Players,
           CreateRatedBattle(b, i, j)
    PROVE  Typed'
    BY DEF Typed, TypeOK, RevealedLineups, CreateRatedBattle, ClaimSlots, Results,
           assetVars, sideVars

\* The instructions that only give a battle its result.
ResolveOnly(b) ==
    \/ FinalizeBattle(b)
    \/ VoidBattleIfPriceUnavailable(b)
    \/ VoidBattleForSystemIncident(b)
    \/ CancelUncommittedBattle(b)

LEMMA ResolveOnlyTyped ==
    ASSUME Typed, NEW b \in Battles, ResolveOnly(b)
    PROVE  Typed'
<1> USE DEF Typed, TypeOK, RevealedLineups, Resolve, Results, ByScore, VoidReasons,
            assetVars, sideVars
<1>1. CASE FinalizeBattle(b)
    BY <1>1 DEF FinalizeBattle, CanFinalizeBattle
<1>2. CASE VoidBattleIfPriceUnavailable(b)
    BY <1>2 DEF VoidBattleIfPriceUnavailable, CanVoidBattleIfPriceUnavailable
<1>3. CASE VoidBattleForSystemIncident(b)
    BY <1>3 DEF VoidBattleForSystemIncident
<1>4. CASE CancelUncommittedBattle(b)
    BY <1>4 DEF CancelUncommittedBattle
<1> QED
    BY <1>1, <1>2, <1>3, <1>4 DEF ResolveOnly

LEMMA ForfeitTyped ==
    ASSUME Typed, NEW b \in Battles, FinalizeForfeit(b)
    PROVE  Typed'
<1> USE DEF Typed, TypeOK
<1>1. ForfeitBy(Sides \ revealed[b]) \in Results
    BY DEF ForfeitBy, Results, Forfeits
<1>2. status' \in [Battles -> [Sides -> Statuses]]
    BY DEF FinalizeForfeit, CanFinalizeForfeit, Statuses
<1> QED
    BY <1>1, <1>2 DEF FinalizeForfeit, CanFinalizeForfeit, Resolve, RevealedLineups,
                      assetVars

LEMMA ScoreTyped ==
    ASSUME Typed, NEW b \in Battles, NEW s \in Sides, SettleSideScore(b, s)
    PROVE  Typed'
<1> USE DEF Typed, TypeOK
<1>1. lineup[b][s] \in Lineups
    BY DEF SettleSideScore, CanSettleSideScore, RevealedLineups
<1>2. LineupScore(lineup[b][s], returnQ9) \in Scores
    BY <1>1 DEF Scores
<1>3. score' \in [Battles -> [Sides -> Scores]]
    BY <1>2, PutType DEF SettleSideScore, CanSettleSideScore
<1>4. status' \in [Battles -> [Sides -> Statuses]]
    BY PutType DEF SettleSideScore, CanSettleSideScore, Statuses
<1> QED
    BY <1>3, <1>4 DEF SettleSideScore, CanSettleSideScore, RevealedLineups, roundVars,
                      assetVars

LEMMA PlayerStepTyped ==
    ASSUME Typed, NEW b \in Battles, NEW s \in Sides, NEW l \in Lineups,
           PlayerStep(b, s, l)
    PROVE  Typed'
<1> USE DEF Typed, TypeOK, roundVars, assetVars
<1>1. CASE CommitLineup(b, s, l)
    <2>1. commitment' \in [Battles -> [Sides -> Lineups \cup {NoLineup}]]
        BY <1>1, PutType DEF CommitLineup
    <2>2. status' \in [Battles -> [Sides -> Statuses]]
        BY <1>1, PutType DEF CommitLineup, Statuses
    <2>3. \A c \in Battles, t \in Sides :
              t \in committed[c] => commitment'[c][t] = commitment[c][t]
        BY <1>1 DEF CommitLineup, Put
    <2>4. RevealedLineups'
        BY <1>1, <2>3 DEF CommitLineup, RevealedLineups
    <2> QED
        BY <1>1, <2>1, <2>2, <2>4 DEF CommitLineup
<1>2. CASE RevealLineup(b, s, l)
    <2>1. lineup' \in [Battles -> [Sides -> Lineups \cup {NoLineup}]]
        BY <1>2, PutType DEF RevealLineup
    <2>2. status' \in [Battles -> [Sides -> Statuses]]
        BY <1>2, PutType DEF RevealLineup, Statuses
    <2>3. /\ lineup'[b][s] = l
          /\ \A c \in Battles, t \in Sides :
                 c # b \/ t # s => lineup'[c][t] = lineup[c][t]
        BY <1>2 DEF RevealLineup, Put
    <2>4. RevealedLineups'
        BY <1>2, <2>3 DEF RevealLineup, RevealedLineups, OpensCommitment
    <2> QED
        BY <1>2, <2>1, <2>2, <2>4 DEF RevealLineup
<1> QED
    BY <1>1, <1>2 DEF PlayerStep

LEMMA StutterTyped == Typed /\ UNCHANGED vars => Typed'
    BY DEF Typed, TypeOK, RevealedLineups, vars, roundVars, assetVars, battleVars, sideVars

LEMMA TypedStep == Typed /\ [Next]_vars => Typed'
<1> SUFFICES ASSUME Typed, [Next]_vars PROVE Typed'
    OBVIOUS
<1>1. ASSUME NEW b \in Battles, CoordinatorStep(b)
      PROVE  Typed'
    BY <1>1, AdmissionTyped, ResolveOnlyTyped DEF CoordinatorStep, ResolveOnly
<1>2. ASSUME NEW b \in Battles, SettleBattle(b)
      PROVE  Typed'
    BY <1>2, ScoreTyped, ForfeitTyped, ResolveOnlyTyped DEF SettleBattle, ResolveOnly
<1> QED
    BY <1>1, <1>2, RoundStepTyped, PriceStepTyped, PlayerStepTyped, StutterTyped DEF Next

(***************************************************************************)
(* Type correctness of the competition.                                    *)
(***************************************************************************)
THEOREM TypeCorrect == Spec => []TypeOK
<1>1. Typed => TypeOK
    BY DEF Typed
<1> QED
    BY <1>1, InitTyped, TypedStep, PTL DEF Spec

-----------------------------------------------------------------------------
(***************************************************************************)
(* Seven kinds of steps, told apart by what they may change.               *)
(***************************************************************************)
Terminal == Results \ {"Absent", "Pending"}

\* Whatever instruction gives a battle its result, this is what it does.
Resolves(b) ==
    /\ Pending(b)
    /\ \E r \in Terminal, reason \in VoidReasons : Resolve(b, r, reason)
    /\ UNCHANGED <<now, paused, roundState, ratedCount, assetVars, slot, player, committed,
                   revealed, scored, commitment, lineup, score>>

LEMMA ResolvesInOneWay ==
    ASSUME Typed, NEW b \in Battles, ResolveOnly(b) \/ FinalizeForfeit(b)
    PROVE  Resolves(b)
<1> USE DEF Resolves, Terminal, Results, ByScore, Forfeits, VoidReasons, sideVars
<1>1. voidReason[b] \in VoidReasons
    BY DEF Typed, TypeOK
<1>2. CASE FinalizeBattle(b)
    BY <1>1, <1>2 DEF FinalizeBattle, CanFinalizeBattle
<1>3. CASE VoidBattleIfPriceUnavailable(b)
    BY <1>3 DEF VoidBattleIfPriceUnavailable, CanVoidBattleIfPriceUnavailable
<1>4. CASE VoidBattleForSystemIncident(b)
    BY <1>4 DEF VoidBattleForSystemIncident
<1>5. CASE CancelUncommittedBattle(b)
    BY <1>5 DEF CancelUncommittedBattle
<1>6. CASE FinalizeForfeit(b)
    <2>1. ForfeitBy(Sides \ revealed[b]) \in Terminal
        BY DEF ForfeitBy
    <2> QED
        BY <1>1, <1>6, <2>1 DEF FinalizeForfeit, CanFinalizeForfeit
<1> QED
    BY <1>2, <1>3, <1>4, <1>5, <1>6 DEF ResolveOnly

LEMMA StepKinds ==
    ASSUME Typed, [Next]_vars
    PROVE  \/ RoundStep \/ UNCHANGED vars
           \/ \E a \in Assets, p \in Phases : ReachQuorum(a, p) \/ ResolvePricePhase(a, p)
           \/ \E b \in Battles, i \in Players, j \in Players : CreateRatedBattle(b, i, j)
           \/ \E b \in Battles, s \in Sides : SettleSideScore(b, s)
           \/ \E b \in Battles : Resolves(b)
           \/ \E b \in Battles, s \in Sides, l \in Lineups : CommitLineup(b, s, l)
           \/ \E b \in Battles, s \in Sides, l \in Lineups : RevealLineup(b, s, l)
<1>1. \A b \in Battles : CoordinatorStep(b) =>
          \/ \E i \in Players, j \in Players : CreateRatedBattle(b, i, j)
          \/ Resolves(b)
    BY ResolvesInOneWay DEF CoordinatorStep, ResolveOnly
<1>2. \A b \in Battles : SettleBattle(b) =>
          \/ \E s \in Sides : SettleSideScore(b, s)
          \/ Resolves(b)
    BY ResolvesInOneWay DEF SettleBattle, ResolveOnly
<1> QED
    BY <1>1, <1>2 DEF Next, PlayerStep

LEMMA RoundStepKeeps ==
    ASSUME Typed, RoundStep \/ UNCHANGED vars
    PROVE  /\ UNCHANGED <<assetVars, battleVars>>
           /\ UNCHANGED <<ratedCount, resolvedCount>>
           /\ now' \in Int /\ now <= now'
           /\ now' # now => now' = now + 1
           /\ roundState \notin {"Scheduled", "CommitOpen"}
                  => roundState' \notin {"Scheduled", "CommitOpen"}
<1> USE DEF Typed, TypeOK, vars, roundVars, assetVars, battleVars, sideVars
<1>1. CASE Tick
    BY <1>1, ScheduleFacts DEF Tick
<1>2. CASE \E flag \in BOOLEAN : SetPause(flag)
    BY <1>2 DEF SetPause
<1>3. CASE AdvanceMarketRound
    BY <1>3 DEF AdvanceMarketRound, ClockTransitions
<1>4. CASE FinalizeMarketRound
    BY <1>4 DEF FinalizeMarketRound, CanFinalizeMarketRound
<1>5. CASE UNCHANGED vars
    BY <1>5
<1> QED
    BY <1>1, <1>2, <1>3, <1>4, <1>5 DEF RoundStep

-----------------------------------------------------------------------------
(***************************************************************************)
(* The order of the round: reveals only once the commits are closed for    *)
(* good, price evidence only once the reveals are closed for good.         *)
(***************************************************************************)
RevealsFollowCommits ==
    \A b \in Battles :
        revealed[b] # {} => roundState \notin {"Scheduled", "CommitOpen"}

Evidence(a) == quorum[a] \cup finalized[a] \cup unavailable[a]

EvidenceFollowsReveals == \A a \in Assets : Evidence(a) # {} => now > RevealDeadline

Ordered == Typed /\ RevealsFollowCommits /\ EvidenceFollowsReveals

LEMMA InitOrdered == Init => Ordered
<1>1. Init => RevealsFollowCommits /\ EvidenceFollowsReveals
    BY DEF Init, InitBattles, InitPrices, RevealsFollowCommits, EvidenceFollowsReveals,
           Evidence
<1> QED
    BY <1>1, InitTyped DEF Ordered

\* Steps that disturb neither the reveals, nor the evidence, nor the order.
LEMMA OrderUndisturbed ==
    ASSUME Ordered, UNCHANGED <<quorum, finalized, unavailable, revealed, now, roundState>>
    PROVE  (RevealsFollowCommits /\ EvidenceFollowsReveals)'
    BY DEF Ordered, RevealsFollowCommits, EvidenceFollowsReveals, Evidence

LEMMA OrderedStep == Ordered /\ [Next]_vars => Ordered'
<1> SUFFICES ASSUME Ordered, [Next]_vars PROVE Ordered'
    OBVIOUS
<1> DEFINE Goal == (RevealsFollowCommits /\ EvidenceFollowsReveals)'
<1>0. Typed /\ Typed'
    BY TypedStep DEF Ordered
<1>1. ASSUME RoundStep \/ UNCHANGED vars PROVE Goal
    <2>1. now \in Int /\ RevealDeadline \in Int
        BY <1>0, ScheduleFacts DEF Typed, TypeOK
    <2>2. UNCHANGED <<quorum, finalized, unavailable, revealed>>
        BY <1>0, <1>1, RoundStepKeeps DEF assetVars, battleVars, sideVars
    <2>3. RevealsFollowCommits'
        BY <1>0, <1>1, <2>2, RoundStepKeeps DEF Ordered, RevealsFollowCommits
    <2>4. EvidenceFollowsReveals'
        BY <1>0, <1>1, <2>1, <2>2, RoundStepKeeps
        DEF Ordered, EvidenceFollowsReveals, Evidence
    <2> QED
        BY <2>3, <2>4
<1>2. ASSUME NEW a \in Assets, NEW p \in Phases,
             ReachQuorum(a, p) \/ ResolvePricePhase(a, p)
      PROVE  Goal
    <2> USE <1>0, <1>2, ScheduleFacts
        DEF ReachQuorum, ResolvePricePhase, FinalizePricePhase, CanFinalizePricePhase,
            MarkPricePhaseUnavailable, CanMarkPricePhaseUnavailable, OpenForResolution,
            roundVars, battleVars, sideVars
    <2>1. now > RevealDeadline
        BY DEF Typed, TypeOK
    <2>2. now' = now /\ roundState' = roundState /\ revealed' = revealed
        OBVIOUS
    <2> QED
        BY <2>1, <2>2 DEF Ordered, RevealsFollowCommits, EvidenceFollowsReveals
<1>3. ASSUME NEW b \in Battles, NEW i \in Players, NEW j \in Players,
             CreateRatedBattle(b, i, j)
      PROVE  Goal
    BY <1>3, OrderUndisturbed DEF CreateRatedBattle, assetVars, sideVars
<1>4. ASSUME NEW b \in Battles, NEW s \in Sides, SettleSideScore(b, s)
      PROVE  Goal
    BY <1>4, OrderUndisturbed DEF SettleSideScore, CanSettleSideScore, assetVars, roundVars
<1>5. ASSUME NEW b \in Battles, Resolves(b)
      PROVE  Goal
    BY <1>5, OrderUndisturbed DEF Resolves, assetVars
<1>6. ASSUME NEW b \in Battles, NEW s \in Sides, NEW l \in Lineups, CommitLineup(b, s, l)
      PROVE  Goal
    BY <1>6, OrderUndisturbed DEF CommitLineup, assetVars, roundVars
<1>7. ASSUME NEW b \in Battles, NEW s \in Sides, NEW l \in Lineups, RevealLineup(b, s, l)
      PROVE  Goal
    <2>1. UNCHANGED <<quorum, finalized, unavailable, now, roundState>>
        BY <1>7 DEF RevealLineup, assetVars, roundVars
    <2>2. roundState = "RevealOpen"
        BY <1>7 DEF RevealLineup, RevealOpen
    <2> QED
        BY <2>1, <2>2 DEF Ordered, RevealsFollowCommits, EvidenceFollowsReveals, Evidence
<1>8. Goal
    BY <1>0, <1>1, <1>2, <1>3, <1>4, <1>5, <1>6, <1>7, StepKinds
<1> QED
    BY <1>0, <1>8 DEF Ordered

THEOREM OrderHolds == Spec => []Ordered
    BY InitOrdered, OrderedStep, PTL DEF Spec

(***************************************************************************)
(* No player of the round commits after any lineup of the round is public. *)
(***************************************************************************)
THEOREM CommitsPrecedeReveals == Spec => NoCommitAfterReveal
<1> DEFINE Kept == (\E b \in Battles : revealed[b] # {}) => committed' = committed
<1>1. Ordered /\ [Next]_vars => [Kept]_vars
    <2> SUFFICES ASSUME Ordered, Next, NEW c \in Battles, revealed[c] # {}
                 PROVE  committed' = committed
        OBVIOUS
    <2>1. Typed
        BY DEF Ordered
    <2>2. CASE RoundStep \/ UNCHANGED vars
        BY <2>1, <2>2, RoundStepKeeps DEF battleVars, sideVars
    <2>3. ASSUME NEW b \in Battles, NEW s \in Sides, NEW l \in Lineups,
                 CommitLineup(b, s, l)
          PROVE  FALSE
        BY <2>3 DEF CommitLineup, CommitOpen, Ordered, RevealsFollowCommits
    <2> QED
        BY <2>1, <2>2, <2>3, StepKinds
        DEF ReachQuorum, ResolvePricePhase, FinalizePricePhase, CanFinalizePricePhase,
            MarkPricePhaseUnavailable, CanMarkPricePhaseUnavailable, CreateRatedBattle,
            SettleSideScore, CanSettleSideScore, Resolves,
            RevealLineup, battleVars, sideVars
<1> QED
    BY <1>1, OrderHolds, PTL DEF Spec, NoCommitAfterReveal

(***************************************************************************)
(* No lineup is admitted, chosen or opened with knowledge of a price.      *)
(***************************************************************************)
THEOREM LineupsPrecedePrices == Spec => NoHindsight
<1> DEFINE Fixed == UNCHANGED <<player, committed, revealed, commitment, lineup>>
           Kept == (\E a \in Assets : Evidence(a) # {}) => Fixed
<1>1. Ordered /\ [Next]_vars => [Kept]_vars
    <2> SUFFICES ASSUME Ordered, Next, NEW a \in Assets, Evidence(a) # {}
                 PROVE  Fixed
        OBVIOUS
    <2>1. Typed /\ now \in Int /\ now > RevealDeadline /\ now > CommitDeadline
        BY ScheduleFacts DEF Ordered, Typed, TypeOK, EvidenceFollowsReveals
    <2>2. CASE RoundStep \/ UNCHANGED vars
        BY <2>1, <2>2, RoundStepKeeps DEF battleVars, sideVars
    <2>3. ASSUME NEW b \in Battles, NEW i \in Players, NEW j \in Players,
                 CreateRatedBattle(b, i, j)
          PROVE  FALSE
        BY <2>1, <2>3, ScheduleFacts DEF CreateRatedBattle, AdmissionOpen
    <2>4. ASSUME NEW b \in Battles, NEW s \in Sides, NEW l \in Lineups,
                 CommitLineup(b, s, l)
          PROVE  FALSE
        BY <2>1, <2>4, ScheduleFacts DEF CommitLineup, CommitOpen
    <2>5. ASSUME NEW b \in Battles, NEW s \in Sides, NEW l \in Lineups,
                 RevealLineup(b, s, l)
          PROVE  FALSE
        BY <2>1, <2>5, ScheduleFacts DEF RevealLineup, RevealOpen
    <2> QED
        BY <2>1, <2>2, <2>3, <2>4, <2>5, StepKinds
        DEF ReachQuorum, ResolvePricePhase, FinalizePricePhase, CanFinalizePricePhase,
            MarkPricePhaseUnavailable, CanMarkPricePhaseUnavailable, SettleSideScore,
            CanSettleSideScore, Resolves, battleVars, sideVars
<1> QED
    BY <1>1, OrderHolds, PTL DEF Spec, NoHindsight, Evidence

(***************************************************************************)
(* The second of two racing terminal instructions changes nothing.         *)
(***************************************************************************)
THEOREM ResultsArePermanent == Spec => ResolvedBattleFrozen
<1> DEFINE Same(c) ==
               /\ result'[c] = result[c] /\ voidReason'[c] = voidReason[c]
               /\ scored'[c] = scored[c] /\ score'[c] = score[c]
               /\ revealed'[c] = revealed[c] /\ committed'[c] = committed[c]
           Kept == \A b \in Battles : Decided(b) =>
               /\ result'[b] = result[b] /\ voidReason'[b] = voidReason[b]
               /\ scored'[b] = scored[b] /\ score'[b] = score[b]
               /\ revealed'[b] = revealed[b] /\ committed'[b] = committed[b]
<1>1. Typed /\ [Next]_vars => [Kept]_vars
    <2> SUFFICES ASSUME Typed, Next, NEW c \in Battles, Decided(c) PROVE Same(c)
        OBVIOUS
    <2> USE DEF Typed, TypeOK, Decided, Pending
    <2>1. CASE RoundStep \/ UNCHANGED vars
        BY <2>1, RoundStepKeeps DEF battleVars, sideVars
    <2>2. ASSUME NEW a \in Assets, NEW p \in Phases,
                 ReachQuorum(a, p) \/ ResolvePricePhase(a, p)
          PROVE  Same(c)
        BY <2>2 DEF ReachQuorum, ResolvePricePhase, FinalizePricePhase,
                    CanFinalizePricePhase,
                    MarkPricePhaseUnavailable, CanMarkPricePhaseUnavailable, battleVars,
                    sideVars
    <2>3. ASSUME NEW b \in Battles, NEW i \in Players, NEW j \in Players,
                 CreateRatedBattle(b, i, j)
          PROVE  Same(c)
        BY <2>3 DEF CreateRatedBattle, sideVars
    <2>4. ASSUME NEW b \in Battles, NEW s \in Sides, SettleSideScore(b, s)
          PROVE  Same(c)
        BY <2>4 DEF SettleSideScore, CanSettleSideScore, Put
    <2>5. ASSUME NEW b \in Battles, Resolves(b)
          PROVE  Same(c)
        BY <2>5 DEF Resolves, Resolve
    <2>6. ASSUME NEW b \in Battles, NEW s \in Sides, NEW l \in Lineups,
                 CommitLineup(b, s, l) \/ RevealLineup(b, s, l)
          PROVE  Same(c)
        BY <2>6 DEF CommitLineup, RevealLineup
    <2> QED
        BY <2>1, <2>2, <2>3, <2>4, <2>5, <2>6, StepKinds
<1>2. Spec => []Typed
    BY InitTyped, TypedStep, PTL DEF Spec
<1> QED
    BY <1>1, <1>2, PTL DEF Spec, ResolvedBattleFrozen

-----------------------------------------------------------------------------
(***************************************************************************)
(* A battle without an account has no players; with one, two different     *)
(* ones. Every slot points to the battle of its player.                    *)
(***************************************************************************)
Exposure ==
    /\ Typed
    /\ OneExposurePerPlayer
    /\ \A b \in Battles, s \in Sides :
           result[b] = "Absent" <=> player[b][s] = NoPlayer

LEMMA InitExposure == Init => Exposure
<1>1. Init => /\ OneExposurePerPlayer
              /\ \A b \in Battles, s \in Sides :
                     result[b] = "Absent" <=> player[b][s] = NoPlayer
    BY RoundDataAssumption
    DEF Init, InitBattles, Fresh, OneExposurePerPlayer, Created
<1> QED
    BY <1>1, InitTyped DEF Exposure

LEMMA ExposureStep == Exposure /\ [Next]_vars => Exposure'
<1> SUFFICES ASSUME Exposure, [Next]_vars PROVE Exposure'
    OBVIOUS
<1>0. Typed /\ Typed'
    BY TypedStep DEF Exposure
<1>1. ASSUME UNCHANGED <<slot, player>>,
             \A b \in Battles : result'[b] = "Absent" <=> result[b] = "Absent"
      PROVE  Exposure'
    BY <1>0, <1>1 DEF Exposure, OneExposurePerPlayer, Created
<1>2. ASSUME NEW b \in Battles, NEW i \in Players, NEW j \in Players,
             CreateRatedBattle(b, i, j)
      PROVE  Exposure'
    <2> USE DEF Typed, TypeOK
    <2>1. /\ player'[b]["A"] = i /\ player'[b]["B"] = j
          /\ \A c \in Battles \ {b} : player'[c] = player[c]
          /\ result'[b] = "Pending"
          /\ \A c \in Battles \ {b} : result'[c] = result[c]
        BY <1>0, <1>2 DEF CreateRatedBattle, Sides
    <2>2. /\ slot'[i] = b /\ slot'[j] = b
          /\ \A k \in Players \ {i, j} : slot'[k] = slot[k]
          /\ slot[i] = NoBattle /\ slot[j] = NoBattle /\ i # j
          /\ result[b] = "Absent"
        BY <1>2 DEF CreateRatedBattle, ClaimSlots
    <2>3. \A k \in Players : slot[k] # b
        BY <2>2, RoundDataAssumption DEF Exposure, OneExposurePerPlayer, Sides
    <2>4. \A k \in Players, c \in Battles :
              slot'[k] = c <=> \E s \in Sides : player'[c][s] = k
        <3>1. ASSUME NEW k \in Players
              PROVE  slot'[k] = b <=> \E s \in Sides : player'[b][s] = k
            BY <2>1, <2>2, <2>3 DEF Sides
        <3>2. ASSUME NEW k \in Players, NEW c \in Battles \ {b}
              PROVE  slot'[k] = c <=> slot[k] = c
            BY <2>2, RoundDataAssumption
        <3>3. ASSUME NEW k \in Players, NEW c \in Battles \ {b}
              PROVE  slot[k] = c <=> \E s \in Sides : player'[c][s] = k
            BY <2>1 DEF Exposure, OneExposurePerPlayer
        <3> QED
            BY <3>1, <3>2, <3>3
    <2>5. \A c \in Battles :
              result'[c] # "Absent" => player'[c]["A"] # player'[c]["B"]
        <3>1. \A c \in Battles \ {b} :
                  result[c] # "Absent" => player[c]["A"] # player[c]["B"]
            BY DEF Exposure, OneExposurePerPlayer, Created
        <3> QED
            BY <2>1, <2>2, <3>1
    <2>6. \A c \in Battles, s \in Sides :
              result'[c] = "Absent" <=> player'[c][s] = NoPlayer
        BY <2>1, RoundDataAssumption DEF Exposure, Sides
    <2> QED
        BY <1>0, <2>4, <2>5, <2>6 DEF Exposure, OneExposurePerPlayer, Created
<1>3. CASE RoundStep \/ UNCHANGED vars
    BY <1>0, <1>1, <1>3, RoundStepKeeps DEF battleVars
<1>4. ASSUME NEW b \in Battles, Resolves(b)
      PROVE  Exposure'
    BY <1>0, <1>1, <1>4
    DEF Resolves, Resolve, Pending, Terminal, Typed, TypeOK
<1> QED
    BY <1>0, <1>1, <1>2, <1>3, <1>4, StepKinds
    DEF ReachQuorum, ResolvePricePhase, FinalizePricePhase, CanFinalizePricePhase,
        MarkPricePhaseUnavailable, CanMarkPricePhaseUnavailable,
        SettleSideScore, CanSettleSideScore, CommitLineup, RevealLineup, battleVars

(***************************************************************************)
(* Whatever battles the coordinator creates, cancels or voids, no player   *)
(* has two rated exposures in the round.                                   *)
(***************************************************************************)
THEOREM ExposureIsExclusive == Spec => []OneExposurePerPlayer
<1>1. Exposure => OneExposurePerPlayer
    BY DEF Exposure
<1> QED
    BY <1>1, InitExposure, ExposureStep, PTL DEF Spec

-----------------------------------------------------------------------------
DecidedOnes == {b \in Battles : Decided(b)}

Counted == Typed /\ CountersMatchBattles

LEMMA FiniteBattles ==
    /\ IsFiniteSet(Created) /\ IsFiniteSet(DecidedOnes)
    /\ DecidedOnes \subseteq Created
    /\ (IsFiniteSet(Created) /\ IsFiniteSet(DecidedOnes))'
    BY RoundDataAssumption, FS_Subset DEF Created, DecidedOnes, Decided

LEMMA InitCounted == Init => Counted
<1> SUFFICES ASSUME Init PROVE Counted
    OBVIOUS
<1>1. Created = {} /\ DecidedOnes = {}
    BY DEF Init, InitBattles, Created, DecidedOnes, Decided
<1>2. Cardinality({}) = 0
    BY FS_EmptySet
<1> QED
    BY <1>1, <1>2, InitTyped
    DEF Counted, CountersMatchBattles, Init, InitRound, DecidedOnes

LEMMA CountedStep == Counted /\ [Next]_vars => Counted'
<1> SUFFICES ASSUME Counted, [Next]_vars PROVE Counted'
    OBVIOUS
<1>0. Typed /\ Typed'
    BY TypedStep DEF Counted
<1>1. ASSUME UNCHANGED <<result, ratedCount, resolvedCount>>
      PROVE  Counted'
    BY <1>0, <1>1 DEF Counted, CountersMatchBattles, Created, Decided
<1>2. ASSUME NEW b \in Battles, NEW i \in Players, NEW j \in Players,
             CreateRatedBattle(b, i, j)
      PROVE  Counted'
    <2>1. b \notin Created /\ Created' = Created \cup {b} /\ DecidedOnes' = DecidedOnes
        BY <1>0, <1>2
        DEF CreateRatedBattle, Typed, TypeOK, Created, DecidedOnes, Decided
    <2>2. Cardinality(Created') = Cardinality(Created) + 1
        BY <2>1, FiniteBattles, FS_AddElement
    <2> QED
        BY <1>0, <1>2, <2>1, <2>2
        DEF CreateRatedBattle, Counted, CountersMatchBattles, DecidedOnes
<1>3. ASSUME NEW b \in Battles, Resolves(b)
      PROVE  Counted'
    <2>1. /\ b \notin DecidedOnes /\ DecidedOnes' = DecidedOnes \cup {b}
          /\ Created' = Created /\ resolvedCount' = resolvedCount + 1
        BY <1>0, <1>3
        DEF Resolves, Resolve, Pending, Terminal, Typed, TypeOK, Created, DecidedOnes,
            Decided
    <2>2. Cardinality(DecidedOnes') = Cardinality(DecidedOnes) + 1
        BY <2>1, FiniteBattles, FS_AddElement
    <2> QED
        BY <1>0, <1>3, <2>1, <2>2 DEF Resolves, Counted, CountersMatchBattles, DecidedOnes
<1>4. CASE RoundStep \/ UNCHANGED vars
    BY <1>0, <1>1, <1>4, RoundStepKeeps DEF battleVars
<1> QED
    BY <1>0, <1>1, <1>2, <1>3, <1>4, StepKinds
    DEF ReachQuorum, ResolvePricePhase, FinalizePricePhase, CanFinalizePricePhase,
        MarkPricePhaseUnavailable, CanMarkPricePhaseUnavailable,
        SettleSideScore, CanSettleSideScore, CommitLineup, RevealLineup, roundVars,
        battleVars

(***************************************************************************)
(* The counters of the round are exact, whatever races were lost.          *)
(***************************************************************************)
THEOREM CountersAreExact == Spec => []CountersMatchBattles
<1>1. Counted => CountersMatchBattles
    BY DEF Counted
<1> QED
    BY <1>1, InitCounted, CountedStep, PTL DEF Spec

-----------------------------------------------------------------------------
(***************************************************************************)
(* The inductive form of OutcomeJustified. For a round of either price     *)
(* source: the score of a side is right from the moment it is settled,     *)
(* because the assets it rests on are resolved for good, and no side of an *)
(* undecided battle is forfeited. For a round of attestor reports also:    *)
(* the asset that a battle was voided for stays unavailable.               *)
(***************************************************************************)
EligibleLineups ==
    \A b \in Battles : \A s \in revealed[b] :
        /\ lineup[b][s].assets \subseteq Assets
        /\ Cardinality(lineup[b][s].assets) = LineupSize

SideJustified(b, s) ==
    /\ s \in revealed[b]
    /\ \A a \in lineup[b][s].assets : Available(a)
    /\ score[b][s] = LineupScore(lineup[b][s], returnQ9)

SidesJustified == \A b \in Battles : \A s \in scored[b] : SideJustified(b, s)

NoEarlyForfeit ==
    \A b \in Battles : result[b] \notin Forfeits =>
        \A s \in Sides : status[b][s] # "Forfeited"

ResultsJustified ==
    \A b \in Battles :
        /\ result[b] \in Forfeits => ForfeitJustified(b)
        /\ result[b] \in ByScore => ScoresJustified(b)
        /\ voidReason[b] # "None" <=> result[b] = "Voided"

Justified ==
    /\ Typed
    /\ EligibleLineups
    /\ SidesJustified
    /\ NoEarlyForfeit
    /\ ResultsJustified

VoidsJustified ==
    \A b \in Battles : voidReason[b] = "PriceUnavailable" => PriceVoidJustified(b)

LEMMA InitJustified == Init => Justified
<1>1. Init => EligibleLineups /\ SidesJustified /\ NoEarlyForfeit
    BY DEF Init, InitBattles, Fresh, EligibleLineups, SidesJustified, NoEarlyForfeit
<1>2. Init => ResultsJustified
    BY DEF Init, InitBattles, ResultsJustified, Forfeits, ByScore
<1> QED
    BY <1>1, <1>2, InitTyped DEF Justified

(***************************************************************************)
(* A price step concerns an asset that is not available, so it changes no  *)
(* return that a score was computed from, and it withdraws no verdict.     *)
(***************************************************************************)
LEMMA PriceStepKeepsAvailable ==
    ASSUME Typed, NEW a \in Assets, NEW p \in Phases,
           ReachQuorum(a, p) \/ ResolvePricePhase(a, p)
    PROVE  /\ UNCHANGED <<now, roundVars, battleVars>>
           /\ \A x \in Assets : unavailable[x] \subseteq unavailable'[x]
           /\ \A x \in Assets : Available(x) => /\ Available(x)'
                                                /\ returnQ9'[x] = returnQ9[x]
<1> USE DEF Typed, TypeOK, Available
<1>1. CASE ReachQuorum(a, p)
    BY <1>1 DEF ReachQuorum
<1>2. CASE FinalizePricePhase(a, p)
    <2>1. ~ Available(a)
        BY <1>2 DEF FinalizePricePhase, CanFinalizePricePhase, OpenForResolution
    <2>2. \A x \in Assets \ {a} : finalized'[x] = finalized[x] /\ returnQ9'[x] = returnQ9[x]
        BY <1>2 DEF FinalizePricePhase, CanFinalizePricePhase
    <2>3. UNCHANGED <<now, roundVars, battleVars, unavailable>>
        BY <1>2 DEF FinalizePricePhase, CanFinalizePricePhase
    <2> QED
        BY <2>1, <2>2, <2>3
<1>3. CASE MarkPricePhaseUnavailable(a, p)
    <2>1. ~ Available(a)
        BY <1>3 DEF MarkPricePhaseUnavailable, CanMarkPricePhaseUnavailable,
                    OpenForResolution
    <2>2. /\ \A x \in Assets \ {a} : unavailable'[x] = unavailable[x]
          /\ unavailable[a] \subseteq unavailable'[a]
        BY <1>3 DEF MarkPricePhaseUnavailable, CanMarkPricePhaseUnavailable
    <2>3. UNCHANGED <<now, roundVars, battleVars, finalized, returnQ9>>
        BY <1>3 DEF MarkPricePhaseUnavailable, CanMarkPricePhaseUnavailable
    <2> QED
        BY <2>1, <2>2, <2>3
<1> QED
    BY <1>1, <1>2, <1>3 DEF ResolvePricePhase

LEMMA ScoreIsStable ==
    ASSUME NEW l, l.assets \subseteq Assets,
           \A x \in l.assets : returnQ9'[x] = returnQ9[x]
    PROVE  LineupScore(l, returnQ9') = LineupScore(l, returnQ9)
<1>1. [a \in l.assets |-> (IF a = l.captain THEN 2 ELSE 1) * returnQ9'[a]]
      = [a \in l.assets |-> (IF a = l.captain THEN 2 ELSE 1) * returnQ9[a]]
    OBVIOUS
<1> QED
    BY <1>1 DEF LineupScore

\* The returns behind a score that was settled do not change any more.
LEMMA StableReturnsJustified ==
    ASSUME Justified, Typed', UNCHANGED <<now, battleVars>>,
           \A x \in Assets : Available(x) => /\ Available(x)'
                                             /\ returnQ9'[x] = returnQ9[x]
    PROVE  Justified'
<1>1. UNCHANGED <<now, committed, revealed, scored, commitment, lineup, score, status,
                  result, voidReason>>
    BY DEF battleVars, sideVars
<1>2. ASSUME NEW b \in Battles, NEW s \in revealed[b],
             \A x \in lineup[b][s].assets : Available(x)
      PROVE  /\ \A x \in lineup[b][s].assets : Available(x)'
             /\ LineupScore(lineup[b][s], returnQ9') = LineupScore(lineup[b][s], returnQ9)
    <2>1. lineup[b][s].assets \subseteq Assets
        BY DEF Justified, EligibleLineups
    <2> QED
        BY <1>2, <2>1, ScoreIsStable
<1>3. EligibleLineups' /\ NoEarlyForfeit'
    BY <1>1 DEF Justified, EligibleLineups, NoEarlyForfeit
<1>4. SidesJustified'
    BY <1>1, <1>2 DEF Justified, SidesJustified, SideJustified
<1>5. ASSUME NEW b \in Battles
      PROVE  /\ result'[b] \in Forfeits => ForfeitJustified(b)'
             /\ result'[b] \in ByScore => ScoresJustified(b)'
             /\ voidReason'[b] # "None" <=> result'[b] = "Voided"
    <2>1. result[b] \in Forfeits => ForfeitJustified(b)'
        BY <1>1 DEF Justified, ResultsJustified, ForfeitJustified
    <2>2. result[b] \in ByScore => ScoresJustified(b)'
        <3> SUFFICES ASSUME result[b] \in ByScore PROVE ScoresJustified(b)'
            OBVIOUS
        <3>1. ScoresJustified(b)
            BY DEF Justified, ResultsJustified
        <3>2. \A s \in Sides : s \in revealed[b]
            BY <3>1 DEF Justified, SidesJustified, SideJustified, ScoresJustified
        <3> QED
            BY <1>1, <1>2, <3>1, <3>2 DEF ScoresJustified
    <2> QED
        BY <1>1, <2>1, <2>2 DEF Justified, ResultsJustified
<1>6. ResultsJustified'
    BY <1>5 DEF ResultsJustified
<1> QED
    BY <1>3, <1>4, <1>6 DEF Justified

LEMMA PriceStepJustified ==
    ASSUME Justified, NEW a \in Assets, NEW p \in Phases,
           ReachQuorum(a, p) \/ ResolvePricePhase(a, p)
    PROVE  Justified'
    BY PriceStepTyped, PriceStepKeepsAvailable, StableReturnsJustified DEF Justified

(***************************************************************************)
(* The same invariant, battle by battle.                                   *)
(***************************************************************************)
BattleJustified(b) ==
    /\ \A s \in revealed[b] : /\ lineup[b][s].assets \subseteq Assets
                             /\ Cardinality(lineup[b][s].assets) = LineupSize
    /\ \A s \in scored[b] : SideJustified(b, s)
    /\ result[b] \notin Forfeits => \A s \in Sides : status[b][s] # "Forfeited"
    /\ result[b] \in Forfeits => ForfeitJustified(b)
    /\ result[b] \in ByScore => ScoresJustified(b)
    /\ voidReason[b] # "None" <=> result[b] = "Voided"

LEMMA JustifiedByBattle ==
    Justified <=> Typed /\ \A b \in Battles : BattleJustified(b)
    BY DEF Justified, EligibleLineups, SidesJustified, NoEarlyForfeit, ResultsJustified,
           BattleJustified

LEMMA JustifiedByBattleNext ==
    Typed' /\ (\A b \in Battles : BattleJustified(b)') => Justified'
    BY DEF Justified, EligibleLineups, SidesJustified, NoEarlyForfeit, ResultsJustified,
           BattleJustified

Untouched(b) ==
    /\ result'[b] = result[b] /\ voidReason'[b] = voidReason[b]
    /\ revealed'[b] = revealed[b] /\ scored'[b] = scored[b]
    /\ commitment'[b] = commitment[b] /\ lineup'[b] = lineup[b]
    /\ score'[b] = score[b] /\ status'[b] = status[b]

LEMMA UntouchedJustified ==
    ASSUME NEW b \in Battles, BattleJustified(b), Untouched(b), UNCHANGED assetVars,
           now \in Int, now' \in Int, now <= now'
    PROVE  BattleJustified(b)'
<1> USE DEF BattleJustified, Untouched, assetVars
<1>1. \A s \in scored'[b] : SideJustified(b, s)'
    BY DEF SideJustified, Available
<1>2. result'[b] \in Forfeits => ForfeitJustified(b)'
    BY ScheduleFacts DEF ForfeitJustified
<1>3. result'[b] \in ByScore => ScoresJustified(b)'
    BY DEF ScoresJustified, Available
<1> QED
    BY <1>1, <1>2, <1>3

\* A step about battle b alone leaves only b to be looked at.
LEMMA OneBattleStep ==
    ASSUME Justified, Typed', NEW b \in Battles, UNCHANGED <<now, assetVars>>,
           \A c \in Battles \ {b} : Untouched(c),
           BattleJustified(b)'
    PROVE  Justified'
<1>1. now \in Int
    BY DEF Justified, Typed, TypeOK
<1>2. ASSUME NEW c \in Battles \ {b}
      PROVE  BattleJustified(c)'
    BY <1>1, <1>2, JustifiedByBattle, UntouchedJustified
<1> QED
    BY <1>2, JustifiedByBattleNext

LEMMA QuietJustified ==
    ASSUME Justified, Typed', UNCHANGED assetVars, now' \in Int, now <= now',
           \A c \in Battles : Untouched(c)
    PROVE  Justified'
<1>1. now \in Int
    BY DEF Justified, Typed, TypeOK
<1> QED
    BY <1>1, JustifiedByBattle, UntouchedJustified, JustifiedByBattleNext

LEMMA PlayerStepJustified ==
    ASSUME Justified, NEW b \in Battles, NEW s \in Sides, NEW l \in Lineups,
           PlayerStep(b, s, l)
    PROVE  Justified'
<1>0. Typed /\ Typed' /\ BattleJustified(b)
    BY PlayerStepTyped, JustifiedByBattle DEF Justified
<1> USE DEF Typed, TypeOK
<1>1. UNCHANGED <<now, assetVars>> /\ \A c \in Battles \ {b} : Untouched(c)
    BY <1>0 DEF PlayerStep, CommitLineup, RevealLineup, Put, Untouched
<1>2. /\ Pending(b) /\ UNCHANGED <<result, voidReason, scored, score, assetVars>>
      /\ \A t \in scored[b] : t \in revealed'[b] /\ lineup'[b][t] = lineup[b][t]
    BY <1>0 DEF PlayerStep, CommitLineup, RevealLineup, Put, BattleJustified,
                SideJustified, OpensCommitment
<1>3. \A t \in revealed'[b] : /\ lineup'[b][t].assets \subseteq Assets
                              /\ Cardinality(lineup'[b][t].assets) = LineupSize
    BY <1>0 DEF PlayerStep, CommitLineup, RevealLineup, Put, BattleJustified, ValidLineup
<1>4. \A t \in scored'[b] : SideJustified(b, t)'
    BY <1>0, <1>2 DEF BattleJustified, SideJustified, Available, assetVars
<1>5. \A t \in Sides : status'[b][t] # "Forfeited"
    BY <1>0, <1>2 DEF PlayerStep, CommitLineup, RevealLineup, Put, BattleJustified,
                      Pending, Forfeits
<1>6. BattleJustified(b)'
    BY <1>0, <1>2, <1>3, <1>4, <1>5 DEF BattleJustified, Pending, Forfeits, ByScore
<1> QED
    BY <1>0, <1>1, <1>6, OneBattleStep

LEMMA ScoreStepJustified ==
    ASSUME Justified, NEW b \in Battles, NEW s \in Sides, SettleSideScore(b, s)
    PROVE  Justified'
<1>0. Typed /\ Typed' /\ BattleJustified(b)
    BY ScoreTyped, JustifiedByBattle DEF Justified
<1> USE DEF Typed, TypeOK
<1>1. UNCHANGED <<now, assetVars>> /\ \A c \in Battles \ {b} : Untouched(c)
    BY <1>0 DEF SettleSideScore, CanSettleSideScore, Put, Untouched
<1>2. Pending(b) /\ UNCHANGED <<result, voidReason, revealed, lineup, assetVars>>
    BY DEF SettleSideScore, CanSettleSideScore
<1>3. SideJustified(b, s)'
    <2>1. score'[b][s] = LineupScore(lineup[b][s], returnQ9)
        BY <1>0 DEF SettleSideScore, CanSettleSideScore, Put
    <2> QED
        BY <1>2, <2>1 DEF SettleSideScore, CanSettleSideScore, ScorableLineup,
                          SideJustified, Available,
                          assetVars
<1>4. ASSUME NEW t \in scored[b], t # s
      PROVE  SideJustified(b, t)'
    <2>1. score'[b][t] = score[b][t]
        BY <1>0, <1>4 DEF SettleSideScore, CanSettleSideScore, Put
    <2> QED
        BY <1>0, <1>2, <2>1 DEF BattleJustified, SideJustified, Available, assetVars
<1>5. scored'[b] = scored[b] \cup {s}
    BY <1>0 DEF SettleSideScore, CanSettleSideScore
<1>6. \A t \in Sides : status'[b][t] # "Forfeited"
    BY <1>0, <1>2 DEF SettleSideScore, CanSettleSideScore, Put, BattleJustified, Pending,
                      Forfeits
<1>7. BattleJustified(b)'
    BY <1>0, <1>2, <1>3, <1>4, <1>5, <1>6
    DEF BattleJustified, Pending, Forfeits, ByScore
<1> QED
    BY <1>0, <1>1, <1>7, OneBattleStep

LEMMA AdmissionJustified ==
    ASSUME Justified, NEW b \in Battles, NEW i \in Players, NEW j \in Players,
           CreateRatedBattle(b, i, j)
    PROVE  Justified'
<1>0. Typed /\ Typed' /\ BattleJustified(b)
    BY AdmissionTyped, JustifiedByBattle DEF Justified
<1> USE DEF Typed, TypeOK
<1>1. UNCHANGED <<now, assetVars, sideVars, voidReason>>
    BY DEF CreateRatedBattle
<1>2. \A c \in Battles \ {b} : Untouched(c)
    BY <1>0 DEF CreateRatedBattle, Untouched, sideVars
<1>3. result[b] = "Absent" /\ result'[b] = "Pending"
    BY <1>0 DEF CreateRatedBattle
<1>4. \A s \in scored'[b] : SideJustified(b, s)'
    BY <1>0, <1>1 DEF BattleJustified, SideJustified, Available, assetVars, sideVars
<1>5. BattleJustified(b)'
    BY <1>0, <1>1, <1>3, <1>4 DEF BattleJustified, Forfeits, ByScore, sideVars
<1> QED
    BY <1>0, <1>1, <1>2, <1>5, OneBattleStep

\* What a terminal instruction leaves to show: the clause of its own result.
LEMMA ResolvesJustified ==
    ASSUME Justified, Typed', NEW b \in Battles, Resolves(b),
           \/ /\ result'[b] \in Forfeits
              /\ ForfeitJustified(b)'
              /\ voidReason'[b] = "None"
           \/ /\ result'[b] \in ByScore
              /\ status' = status
              /\ ScoresJustified(b)'
              /\ voidReason'[b] = "None"
           \/ /\ result'[b] = "Voided"
              /\ status' = status
              /\ voidReason'[b] # "None",
           \A c \in Battles \ {b} : status'[c] = status[c]
    PROVE  Justified'
<1>0. Typed /\ BattleJustified(b)
    BY JustifiedByBattle DEF Justified
<1> USE DEF Typed, TypeOK
<1>1. UNCHANGED <<now, assetVars, revealed, scored, commitment, lineup, score>>
    BY DEF Resolves
<1>2. \A c \in Battles \ {b} : Untouched(c)
    BY <1>0 DEF Resolves, Resolve, Untouched
<1>3. \A s \in scored'[b] : SideJustified(b, s)'
    BY <1>0, <1>1 DEF BattleJustified, SideJustified, Available, assetVars
<1>4. Pending(b)
    BY DEF Resolves
<1>5. BattleJustified(b)'
    BY <1>0, <1>1, <1>3, <1>4 DEF BattleJustified, Forfeits, ByScore, Pending
<1> QED
    BY <1>0, <1>1, <1>2, <1>5, OneBattleStep

LEMMA SettlementJustified ==
    ASSUME Justified, NEW b \in Battles, ResolveOnly(b) \/ FinalizeForfeit(b)
    PROVE  Justified'
<1>0. Typed /\ Typed' /\ BattleJustified(b) /\ Resolves(b)
    BY ResolveOnlyTyped, ForfeitTyped, ResolvesInOneWay, JustifiedByBattle DEF Justified
<1> USE DEF Typed, TypeOK, sideVars
<1>1. Pending(b) /\ voidReason[b] = "None"
    BY <1>0 DEF Resolves, BattleJustified, Pending
<1>2. UNCHANGED <<now, assetVars, committed, revealed, scored, commitment, lineup, score>>
    BY <1>0 DEF Resolves
<1>3. CASE FinalizeBattle(b)
    <2>1. /\ result'[b] \in ByScore /\ voidReason'[b] = "None" /\ status' = status
          /\ scored[b] = Sides
          /\ result'[b] = "PlayerA" => score[b]["A"] > score[b]["B"]
          /\ result'[b] = "PlayerB" => score[b]["A"] < score[b]["B"]
          /\ result'[b] = "Draw" =>
                 ~ (score[b]["A"] > score[b]["B"] \/ score[b]["A"] < score[b]["B"])
        <3>1. result'[b] = IF score[b]["A"] > score[b]["B"] THEN "PlayerA"
                           ELSE IF score[b]["A"] < score[b]["B"] THEN "PlayerB" ELSE "Draw"
            BY <1>0, <1>3 DEF FinalizeBattle, CanFinalizeBattle, Resolve
        <3>2. scored[b] = Sides /\ voidReason'[b] = voidReason[b] /\ status' = status
            BY <1>0, <1>3 DEF FinalizeBattle, CanFinalizeBattle, Resolve
        <3> QED
            BY <1>1, <3>1, <3>2 DEF ByScore
    <2>2. ASSUME NEW s \in Sides
          PROVE  /\ lineup[b][s] = commitment[b][s]
                 /\ \A a \in lineup[b][s].assets : Available(a)
                 /\ score[b][s] = LineupScore(lineup[b][s], returnQ9)
        BY <1>0, <2>1 DEF BattleJustified, SideJustified, RevealedLineups
    <2>3. ScoresJustified(b)'
        BY <1>2, <2>1, <2>2 DEF ScoresJustified, Available, assetVars
    <2> QED
        BY <1>0, <2>1, <2>3, ResolvesJustified
<1>4. CASE FinalizeForfeit(b)
    <2>1. /\ now > RevealDeadline /\ revealed[b] # Sides /\ revealed[b] \subseteq Sides
          /\ result'[b] = ForfeitBy(Sides \ revealed[b])
          /\ voidReason'[b] = "None"
        BY <1>0, <1>1, <1>4 DEF FinalizeForfeit, CanFinalizeForfeit, Resolve
    <2>2. ForfeitBy(Sides \ revealed[b]) \in Forfeits
        BY DEF ForfeitBy, Forfeits
    <2>3. \A s \in Sides : status'[b][s] = IF s \in Sides \ revealed[b]
                                           THEN "Forfeited" ELSE status[b][s]
        BY <1>0, <1>4 DEF FinalizeForfeit, CanFinalizeForfeit
    <2>4. \A s \in Sides : status[b][s] # "Forfeited"
        BY <1>0, <1>1 DEF BattleJustified, Pending, Forfeits
    <2>5. ForfeitJustified(b)'
        BY <1>2, <2>1, <2>3, <2>4 DEF ForfeitJustified, ForfeitBy
    <2>6. \A c \in Battles \ {b} : status'[c] = status[c]
        BY <1>0, <1>4 DEF FinalizeForfeit, CanFinalizeForfeit
    <2> QED
        BY <1>0, <2>1, <2>2, <2>5, <2>6, ResolvesJustified
<1>5. CASE \/ VoidBattleIfPriceUnavailable(b) \/ VoidBattleForSystemIncident(b)
           \/ CancelUncommittedBattle(b)
    <2>1. result'[b] = "Voided" /\ voidReason'[b] # "None" /\ status' = status
        BY <1>0, <1>5 DEF VoidBattleIfPriceUnavailable, CanVoidBattleIfPriceUnavailable,
                          VoidBattleForSystemIncident,
                          CancelUncommittedBattle, Resolve
    <2> QED
        BY <1>0, <2>1, ResolvesJustified
<1> QED
    BY <1>3, <1>4, <1>5 DEF ResolveOnly

LEMMA RoundStepJustified ==
    ASSUME Justified, Typed', RoundStep \/ UNCHANGED vars
    PROVE  Justified'
<1>1. Typed
    BY DEF Justified
<1>2. \A c \in Battles : Untouched(c)
    BY <1>1, RoundStepKeeps DEF Untouched, battleVars, sideVars
<1> QED
    BY <1>1, <1>2, RoundStepKeeps, QuietJustified

LEMMA JustifiedStep == Justified /\ [Next]_vars => Justified'
<1> SUFFICES ASSUME Justified, [Next]_vars PROVE Justified'
    OBVIOUS
<1>0. Typed'
    BY TypedStep DEF Justified
<1>1. ASSUME NEW b \in Battles, CoordinatorStep(b)
      PROVE  Justified'
    BY <1>1, AdmissionJustified, SettlementJustified DEF CoordinatorStep, ResolveOnly
<1>2. ASSUME NEW b \in Battles, SettleBattle(b)
      PROVE  Justified'
    BY <1>2, ScoreStepJustified, SettlementJustified DEF SettleBattle, ResolveOnly
<1> QED
    BY <1>0, <1>1, <1>2, RoundStepJustified, PriceStepJustified, PlayerStepJustified
    DEF Next

\* No instruction gives an unavailable phase of attestor reports a price.
LEMMA UnavailableStays ==
    ASSUME Typed, [Next]_vars
    PROVE  \A x \in Assets : unavailable[x] \subseteq unavailable'[x]
<1>1. CASE UNCHANGED unavailable
    BY <1>1
<1>2. ASSUME NEW a \in Assets, NEW p \in Phases,
             ReachQuorum(a, p) \/ ResolvePricePhase(a, p)
      PROVE  \A x \in Assets : unavailable[x] \subseteq unavailable'[x]
    BY <1>2, PriceStepKeepsAvailable
<1> QED
    BY <1>1, <1>2, StepKinds, RoundStepKeeps
    DEF CreateRatedBattle, SettleSideScore, CanSettleSideScore, Resolves, CommitLineup,
        RevealLineup, assetVars

LEMMA VoidsStep == Justified /\ VoidsJustified /\ [Next]_vars => VoidsJustified'
<1> SUFFICES ASSUME Justified, VoidsJustified, [Next]_vars,
                    NEW b \in Battles, voidReason'[b] = "PriceUnavailable"
             PROVE  PriceVoidJustified(b)'
    BY DEF VoidsJustified
<1>0. Typed /\ \A x \in Assets : unavailable[x] \subseteq unavailable'[x]
    BY UnavailableStays DEF Justified
<1>1. ASSUME voidReason'[b] = voidReason[b], revealed'[b] = revealed[b],
             lineup'[b] = lineup[b]
      PROVE  PriceVoidJustified(b)'
    BY <1>0, <1>1 DEF VoidsJustified, PriceVoidJustified
<1> USE DEF Typed, TypeOK
<1>2. ASSUME NEW c \in Battles, ResolveOnly(c) \/ FinalizeForfeit(c)
      PROVE  PriceVoidJustified(b)'
    <2>1. /\ Resolves(c) /\ Pending(c)
          /\ UNCHANGED <<revealed, lineup, unavailable>>
          /\ b # c => voidReason'[b] = voidReason[b]
        BY <1>0, <1>2, ResolvesInOneWay DEF Resolves, Resolve, assetVars
    <2>2. CASE b # c
        BY <1>1, <2>1, <2>2
    <2>3. CASE b = c
        <3>1. voidReason[b] = "None"
            BY <2>1, <2>3 DEF Justified, ResultsJustified, Pending
        <3>2. CASE VoidBattleIfPriceUnavailable(b)
            <4>1. SelectedUnavailable(b)
                BY <3>2 DEF VoidBattleIfPriceUnavailable, CanVoidBattleIfPriceUnavailable
            <4>2. \A s \in revealed[b] : lineup[b][s].assets \subseteq Assets
                BY DEF Justified, EligibleLineups
            <4> QED
                BY <2>1, <4>1, <4>2 DEF SelectedUnavailable, PriceVoidJustified
        <3>3. CASE ~ VoidBattleIfPriceUnavailable(b)
            BY <1>0, <1>2, <2>3, <3>1, <3>3
            DEF ResolveOnly, FinalizeBattle, CanFinalizeBattle, FinalizeForfeit,
                CanFinalizeForfeit, VoidBattleForSystemIncident,
                CancelUncommittedBattle, Resolve
        <3> QED
            BY <3>2, <3>3
    <2> QED
        BY <2>2, <2>3
<1>3. ASSUME NEW c \in Battles, NEW s \in Sides, NEW l \in Lineups, RevealLineup(c, s, l)
      PROVE  PriceVoidJustified(b)'
    <2>1. b # c
        BY <1>3 DEF RevealLineup, Pending, Justified, ResultsJustified
    <2> QED
        BY <1>0, <1>1, <1>3, <2>1 DEF RevealLineup, Put
<1>4. CASE RoundStep \/ UNCHANGED vars
    BY <1>0, <1>1, <1>4, RoundStepKeeps DEF battleVars, sideVars
<1>5. ASSUME NEW c \in Battles, NEW i \in Players, NEW j \in Players,
             CreateRatedBattle(c, i, j)
      PROVE  PriceVoidJustified(b)'
    BY <1>1, <1>5 DEF CreateRatedBattle, sideVars
<1>6. ASSUME NEW c \in Battles, NEW s \in Sides, NEW l \in Lineups, CommitLineup(c, s, l)
      PROVE  PriceVoidJustified(b)'
    BY <1>1, <1>6 DEF CommitLineup
<1>7. ASSUME NEW a \in Assets, NEW p \in Phases,
             ReachQuorum(a, p) \/ ResolvePricePhase(a, p)
      PROVE  PriceVoidJustified(b)'
    BY <1>0, <1>1, <1>7, PriceStepKeepsAvailable DEF battleVars, sideVars
<1>8. ASSUME NEW c \in Battles, NEW s \in Sides, SettleSideScore(c, s)
      PROVE  PriceVoidJustified(b)'
    BY <1>1, <1>8 DEF SettleSideScore, CanSettleSideScore
<1>9. ASSUME NEW c \in Battles, CoordinatorStep(c) \/ SettleBattle(c)
      PROVE  PriceVoidJustified(b)'
    BY <1>2, <1>5, <1>8, <1>9 DEF CoordinatorStep, SettleBattle, ResolveOnly
<1> QED
    BY <1>3, <1>4, <1>6, <1>7, <1>9 DEF Next, PlayerStep

\* What the accounts of a round of attestor reports justify.
Outcomes == Justified /\ VoidsJustified

LEMMA InitOutcomes == Init => Outcomes
<1>1. Init => VoidsJustified
    BY DEF Init, InitBattles, VoidsJustified
<1> QED
    BY <1>1, InitJustified DEF Outcomes

LEMMA OutcomesStep == Outcomes /\ [Next]_vars => Outcomes'
    BY JustifiedStep, VoidsStep DEF Outcomes

(***************************************************************************)
(* Every result stays justified by the final state of the accounts: the    *)
(* committed lineups, the final returns, the missing prices.               *)
(***************************************************************************)
THEOREM OutcomesAreJustified == Spec => []OutcomeJustified
<1>1. Outcomes => OutcomeJustified
    BY DEF Outcomes, Justified, ResultsJustified, VoidsJustified, OutcomeJustified
<1> QED
    BY <1>1, InitOutcomes, OutcomesStep, PTL DEF Spec

-----------------------------------------------------------------------------
(***************************************************************************)
(* Equal counters mean that no battle is pending, so a round that passes   *)
(* the guard of finalize_market_round is settled; and nothing can reopen   *)
(* it, as its battles are decided, its phases resolved, its windows shut.  *)
(***************************************************************************)
Settled == Outcomes /\ Counted /\ TerminalRoundSettled

LEMMA InitSettled == Init => Settled
<1>1. Init => TerminalRoundSettled
    BY DEF Init, InitRound, TerminalRoundSettled
<1> QED
    BY <1>1, InitOutcomes, InitCounted DEF Settled

LEMMA EqualCountersDecideAll ==
    ASSUME Counted, ratedCount = resolvedCount
    PROVE  \A b \in Battles : ~ Pending(b)
<1>1. Cardinality(Created) = Cardinality(DecidedOnes)
    BY DEF Counted, CountersMatchBattles, DecidedOnes
<1>2. Created = DecidedOnes
    BY <1>1, FiniteBattles, FS_Subset
<1> QED
    BY <1>2 DEF Created, DecidedOnes, Decided, Pending

LEMMA CompletionSettles ==
    ASSUME Settled, FinalizeMarketRound
    PROVE  TerminalRoundSettled'
<1> USE DEF Settled, Outcomes, Justified, Typed, TypeOK
<1>1. \A b \in Battles : ~ Pending(b)
    BY EqualCountersDecideAll DEF FinalizeMarketRound, CanFinalizeMarketRound,
                                  ReadyToFinalize
<1>2. UNCHANGED <<assetVars, result, voidReason>>
    BY DEF FinalizeMarketRound, CanFinalizeMarketRound, battleVars
<1>3. \A a \in Assets : Resolved(a)
    BY DEF FinalizeMarketRound, CanFinalizeMarketRound, ReadyToFinalize
<1>4. roundState' = "Finalized" <=> \A a \in Assets : unavailable[a] = {}
    BY DEF FinalizeMarketRound, CanFinalizeMarketRound, RoundIsVoided
<1>5. \A a \in Assets : Available(a) <=> unavailable[a] = {}
    BY <1>3 DEF Available, Resolved
<1>6. ASSUME NEW b \in Battles, voidReason[b] = "PriceUnavailable"
      PROVE  \E a \in Assets : unavailable[a] # {}
    BY <1>6 DEF VoidsJustified, PriceVoidJustified
<1> QED
    BY <1>1, <1>2, <1>3, <1>4, <1>5, <1>6
    DEF TerminalRoundSettled, Pending, Resolved, Available, assetVars

LEMMA TerminalIsStable ==
    ASSUME Settled, UNCHANGED <<finalized, unavailable, result, voidReason>>,
           roundState' = roundState \/ roundState' \notin {"Finalized", "Voided"}
    PROVE  TerminalRoundSettled'
    BY DEF Settled, TerminalRoundSettled, Pending, Resolved, Available

LEMMA SettledStep == Settled /\ [Next]_vars => Settled'
<1> SUFFICES ASSUME Settled, [Next]_vars PROVE Settled'
    OBVIOUS
<1>0. Typed /\ Outcomes' /\ Counted'
    BY OutcomesStep, CountedStep DEF Settled, Counted
<1> DEFINE Goal == TerminalRoundSettled'
<1>1. ASSUME roundState \notin {"Finalized", "Voided"}, roundState' = roundState
      PROVE  Goal
    BY <1>1 DEF TerminalRoundSettled
<1>2. ASSUME RoundStep \/ UNCHANGED vars
      PROVE  Goal
    <2>1. CASE FinalizeMarketRound
        BY <2>1, CompletionSettles
    <2>2. CASE AdvanceMarketRound
        BY <2>2, TerminalIsStable
        DEF AdvanceMarketRound, ClockTransitions, assetVars, battleVars
    <2>3. CASE Tick \/ (\E flag \in BOOLEAN : SetPause(flag)) \/ UNCHANGED vars
        BY <2>3, TerminalIsStable
        DEF Tick, SetPause, vars, roundVars, assetVars, battleVars
    <2> QED
        BY <1>2, <2>1, <2>2, <2>3 DEF RoundStep
<1>3. ASSUME NEW a \in Assets, NEW p \in Phases,
             ReachQuorum(a, p) \/ ResolvePricePhase(a, p)
      PROVE  Goal
    <2>1. CASE ReachQuorum(a, p)
        BY <2>1, TerminalIsStable DEF ReachQuorum, roundVars, battleVars
    <2>2. CASE ResolvePricePhase(a, p)
        <3>1. ~ Resolved(a) /\ roundState' = roundState
            BY <2>2 DEF ResolvePricePhase, FinalizePricePhase, CanFinalizePricePhase,
                        MarkPricePhaseUnavailable, CanMarkPricePhaseUnavailable,
                        OpenForResolution, Resolved, roundVars
        <3>2. roundState \notin {"Finalized", "Voided"}
            BY <3>1 DEF Settled, TerminalRoundSettled
        <3> QED
            BY <1>1, <3>1, <3>2
    <2> QED
        BY <1>3, <2>1, <2>2
<1>4. ASSUME NEW b \in Battles, NEW i \in Players, NEW j \in Players,
             CreateRatedBattle(b, i, j)
      PROVE  Goal
    BY <1>1, <1>4 DEF CreateRatedBattle, AdmissionOpen
<1>5. ASSUME NEW b \in Battles, Resolves(b)
      PROVE  Goal
    <2>1. roundState \notin {"Finalized", "Voided"}
        BY <1>5 DEF Resolves, Settled, TerminalRoundSettled
    <2> QED
        BY <1>1, <1>5, <2>1 DEF Resolves
<1>6. ASSUME NEW b \in Battles, NEW s \in Sides, SettleSideScore(b, s)
      PROVE  Goal
    BY <1>6, TerminalIsStable DEF SettleSideScore, CanSettleSideScore, roundVars, assetVars
<1>7. ASSUME NEW b \in Battles, NEW s \in Sides, NEW l \in Lineups,
             CommitLineup(b, s, l) \/ RevealLineup(b, s, l)
      PROVE  Goal
    BY <1>7, TerminalIsStable DEF CommitLineup, RevealLineup, roundVars, assetVars
<1>8. Goal
    BY <1>0, <1>2, <1>3, <1>4, <1>5, <1>6, <1>7, StepKinds
<1> QED
    BY <1>0, <1>8 DEF Settled

(***************************************************************************)
(* A completed round has left nothing open, and its verdict is the one its *)
(* assets call for.                                                        *)
(***************************************************************************)
THEOREM CompletedRoundsAreSettled == Spec => []TerminalRoundSettled
<1>1. Settled => TerminalRoundSettled
    BY DEF Settled
<1> QED
    BY <1>1, InitSettled, SettledStep, PTL DEF Spec

-----------------------------------------------------------------------------
(***************************************************************************)
(* The settlement planner. In the states it plans for, the reveals are     *)
(* over, so a battle with a missing reveal can always be forfeited. And    *)
(* where the snapshot is accepted, the revealed lineups of a battle have   *)
(* the same assets: what blocks one side blocks the other.                 *)
(***************************************************************************)
RevealsOver ==
    roundState \in {"Ended", "Settling", "Finalized", "Voided"} => now > RevealDeadline

Planned == Settled /\ RevealsOver

LEMMA InitPlanned == Init => Planned
<1>1. Init => RevealsOver
    BY DEF Init, InitRound, RevealsOver
<1> QED
    BY <1>1, InitSettled DEF Planned

LEMMA PlannedStep == Planned /\ [Next]_vars => Planned'
<1> SUFFICES ASSUME Planned, [Next]_vars PROVE Planned'
    OBVIOUS
<1>1. Typed /\ Settled /\ RevealsOver
    BY DEF Planned, Settled, Outcomes, Justified
<1>2. RevealsOver'
    <2>1. /\ now \in Int /\ now' \in Int /\ now <= now'
          /\ RevealDeadline \in Int /\ EndTarget \in Int /\ RevealDeadline < EndTarget
        <3>1. now \in Int /\ RevealDeadline \in Int /\ EndTarget \in Int
              /\ RevealDeadline < EndTarget
            BY <1>1, RoundTimingAssumption DEF Typed, TypeOK
        <3>2. CASE RoundStep \/ UNCHANGED vars
            BY <1>1, <3>1, <3>2, RoundStepKeeps
        <3>3. CASE ~ (RoundStep \/ UNCHANGED vars)
            <4>1. now' = now
                BY <1>1, <3>3, StepKinds
                DEF ReachQuorum, ResolvePricePhase, FinalizePricePhase,
                    MarkPricePhaseUnavailable, CreateRatedBattle, SettleSideScore,
                    Resolves, CommitLineup, RevealLineup
            <4> QED BY <3>1, <4>1
        <3> QED BY <3>2, <3>3
    <2>2. CASE RoundStep
        <3>1. CASE AdvanceMarketRound
            BY <1>1, <2>1, <3>1 DEF AdvanceMarketRound, ClockTransitions, RevealsOver
        <3>2. CASE FinalizeMarketRound
            BY <1>1, <2>1, <3>2
            DEF FinalizeMarketRound, CanFinalizeMarketRound, RevealsOver
        <3>3. CASE Tick \/ \E flag \in BOOLEAN : SetPause(flag)
            BY <1>1, <2>1, <3>3 DEF Tick, SetPause, RevealsOver, roundVars
        <3> QED BY <2>2, <3>1, <3>2, <3>3 DEF RoundStep
    <2>3. CASE ~ RoundStep
        <3>1. roundState' = roundState
            BY <1>1, <2>3, StepKinds
            DEF ReachQuorum, ResolvePricePhase, FinalizePricePhase,
                MarkPricePhaseUnavailable, CreateRatedBattle, SettleSideScore,
                Resolves, CommitLineup, RevealLineup, vars, roundVars
        <3> QED BY <1>1, <2>1, <3>1 DEF RevealsOver
    <2> QED BY <2>2, <2>3
<1> QED BY <1>1, <1>2, SettledStep DEF Planned

LEMMA AcceptedMeans ==
    ASSUME NEW x, NEW y
    PROVE  /\ Accepted(Instruction("AdvanceRound", x, y)) <=> CanAdvanceMarketRound
           /\ Accepted(Instruction("FinalizePhase", x, y)) <=> CanFinalizePricePhase(x, y)
           /\ Accepted(Instruction("MarkUnavailable", x, y))
                  <=> CanMarkPricePhaseUnavailable(x, y)
           /\ Accepted(Instruction("VoidPriceUnavailable", x, y))
                  <=> CanVoidBattleIfPriceUnavailable(x)
           /\ Accepted(Instruction("Forfeit", x, y)) <=> CanFinalizeForfeit(x)
           /\ Accepted(Instruction("FinalizeBattle", x, y)) <=> CanFinalizeBattle(x)
           /\ Accepted(Instruction("SettleSide", x, y)) <=> CanSettleSideScore(x, y)
           /\ Accepted(Instruction("FinalizeRound", x, y)) <=> CanFinalizeMarketRound
    BY DEF Accepted, Instruction

LEMMA PlannedPhases ==
    ASSUME NEW a, NEW p
    PROVE  /\ \A i \in PlanPhase(a, p) : Accepted(i) \/ AwaitsStart(i)
           /\ CanFinalizePricePhase(a, p) \/ CanMarkPricePhaseUnavailable(a, p)
                  => \E i \in PlanPhase(a, p) : Accepted(i)
<1> DEFINE finalize == Instruction("FinalizePhase", a, p)
           mark == Instruction("MarkUnavailable", a, p)
<1>1. /\ Accepted(finalize) <=> CanFinalizePricePhase(a, p)
      /\ Accepted(mark) <=> CanMarkPricePhaseUnavailable(a, p)
    BY AcceptedMeans
<1>2. AwaitsStart(finalize) <=> p = "End" /\ "Start" \notin finalized[a]
    BY DEF AwaitsStart, Instruction
<1>3. PlanPhase(a, p) = IF OpenForResolution(a, p)
                        THEN IF p \in quorum[a] THEN {finalize} ELSE {mark}
                        ELSE {}
    BY DEF PlanPhase, OpenForResolution
<1> HIDE DEF finalize, mark
<1> QED BY <1>1, <1>2, <1>3 DEF CanFinalizePricePhase, CanMarkPricePhaseUnavailable

LEMMA LineupsCoincide ==
    ASSUME Planned, SnapshotAccepted, NEW b \in Battles, Pending(b), NEW s \in revealed[b]
    PROVE  lineup[b][s].assets = SelectedAssets(b)
<1>1. \A t \in revealed[b] : /\ lineup[b][t].assets \subseteq Assets
                             /\ Cardinality(lineup[b][t].assets) = LineupSize
    BY DEF Planned, Settled, Outcomes, Justified, EligibleLineups
<1>2. SelectedAssets(b) \subseteq Assets /\ lineup[b][s].assets \subseteq SelectedAssets(b)
    BY <1>1 DEF SelectedAssets
<1>3. IsFiniteSet(SelectedAssets(b))
    BY <1>2, RoundDataAssumption, FS_Subset
<1>4. Cardinality(SelectedAssets(b)) = LineupSize
    BY DEF SnapshotAccepted, Rated, Pending
<1> QED BY <1>1, <1>2, <1>3, <1>4, FS_Subset

BattleCanMove(b) ==
    \/ \E s \in Sides : CanSettleSideScore(b, s)
    \/ CanFinalizeBattle(b)
    \/ CanFinalizeForfeit(b)
    \/ CanVoidBattleIfPriceUnavailable(b)

(***************************************************************************)
(* One case of the planner's loop for each thing a battle may wait for.    *)
(***************************************************************************)
LEMMA PlannedBattles ==
    ASSUME Planned, SnapshotAccepted, roundState \in {"Ended", "Settling"},
           NEW b \in Battles
    PROVE  /\ \A i \in PlanBattle(b) : Accepted(i)
           /\ BattleCanMove(b) => PlanBattle(b) # {}
<1>1. now > RevealDeadline
    BY DEF Planned, RevealsOver
<1>2. revealed[b] \subseteq Sides /\ scored[b] \subseteq revealed[b]
    <2>1. revealed[b] \subseteq Sides /\ scored[b] \subseteq Sides
        BY DEF Planned, Settled, Outcomes, Justified, Typed, TypeOK
    <2>2. \A s \in scored[b] : s \in revealed[b]
        BY DEF Planned, Settled, Outcomes, Justified, SidesJustified, SideJustified
    <2> QED BY <2>1, <2>2
<1>3. CASE ~ Pending(b)
    <2>1. PlanBattle(b) = {}
        BY <1>3 DEF PlanBattle
    <2>2. ~ BattleCanMove(b)
        BY <1>3 DEF BattleCanMove, CanSettleSideScore, CanFinalizeBattle,
                    CanFinalizeForfeit, CanVoidBattleIfPriceUnavailable
    <2> QED BY <2>1, <2>2
<1>4. CASE Pending(b) /\ SelectedUnavailable(b) /\ revealed[b] # {}
    <2>1. PlanBattle(b) = {Instruction("VoidPriceUnavailable", b, "Battle")}
        BY <1>4 DEF PlanBattle
    <2>2. Accepted(Instruction("VoidPriceUnavailable", b, "Battle"))
        BY <1>4, AcceptedMeans DEF CanVoidBattleIfPriceUnavailable
    <2> QED BY <2>1, <2>2
<1>5. CASE Pending(b) /\ ~ (SelectedUnavailable(b) /\ revealed[b] # {})
    <2>1. CASE revealed[b] # Sides
        <3>1. PlanBattle(b) = {Instruction("Forfeit", b, "Battle")}
            BY <1>1, <1>5, <2>1 DEF PlanBattle
        <3>2. Accepted(Instruction("Forfeit", b, "Battle"))
            BY <1>1, <1>2, <1>5, <2>1, AcceptedMeans DEF CanFinalizeForfeit
        <3> QED BY <3>1, <3>2
    <2>2. CASE revealed[b] = Sides /\ scored[b] = Sides
        <3>1. PlanBattle(b) = {Instruction("FinalizeBattle", b, "Battle")}
            BY <1>5, <2>2 DEF PlanBattle
        <3>2. Accepted(Instruction("FinalizeBattle", b, "Battle"))
            BY <1>5, <2>2, AcceptedMeans DEF CanFinalizeBattle
        <3> QED BY <3>1, <3>2
    <2>3. CASE revealed[b] = Sides /\ scored[b] # Sides
        <3>1. \A s \in Sides : lineup[b][s].assets = SelectedAssets(b)
            BY <1>5, <2>3, LineupsCoincide
        <3>2. \A s \in Sides : \A a \in lineup[b][s].assets : unavailable[a] = {}
            <4>1. revealed[b] # {} /\ ~ SelectedUnavailable(b)
                BY <1>5, <2>3 DEF Sides
            <4> QED BY <2>3, <4>1 DEF SelectedUnavailable
        <3>3. \A s \in Sides : ScorableLineup(lineup[b][s])
                                   <=> AllAssetsAvailable(SelectedAssets(b))
            BY <3>1, <3>2 DEF ScorableLineup, AllAssetsAvailable, Available
        <3>4. PlanBattle(b) = IF AllAssetsAvailable(SelectedAssets(b))
                              THEN {Instruction("SettleSide", b, s) : s \in Sides \ scored[b]}
                              ELSE {}
            BY <1>5, <2>3 DEF PlanBattle
        <3>5. \A s \in Sides \ scored[b] : AllAssetsAvailable(SelectedAssets(b))
                  => Accepted(Instruction("SettleSide", b, s))
            BY <1>5, <2>3, <3>3, AcceptedMeans DEF CanSettleSideScore
        <3>6. BattleCanMove(b) => \E s \in Sides \ scored[b] : ScorableLineup(lineup[b][s])
            BY <1>2, <1>5, <2>3
            DEF BattleCanMove, CanSettleSideScore, CanFinalizeBattle, CanFinalizeForfeit,
                CanVoidBattleIfPriceUnavailable
        <3> QED BY <3>3, <3>4, <3>5, <3>6
    <2> QED BY <2>1, <2>2, <2>3
<1> QED BY <1>3, <1>4, <1>5

LEMMA PlannedCompletion ==
    ASSUME Planned, roundState = "Settling"
    PROVE  /\ \A i \in PlanCompletion : Accepted(i)
           /\ CanFinalizeMarketRound => PlanCompletion # {}
<1>1. Accepted(Instruction("FinalizeRound", 0, "Round")) <=> CanFinalizeMarketRound
    BY AcceptedMeans
<1>2. (\A a \in Assets : Resolved(a)) /\ resolvedCount = ratedCount => CanFinalizeMarketRound
    BY DEF CanFinalizeMarketRound, ReadyToFinalize
<1>3. CanFinalizeMarketRound => PhasesAndBattles = {}
    <2> SUFFICES ASSUME CanFinalizeMarketRound PROVE PhasesAndBattles = {}
        OBVIOUS
    <2>1. (\A a \in Assets : Resolved(a)) /\ \A b \in Battles : ~ Pending(b)
        BY EqualCountersDecideAll
        DEF CanFinalizeMarketRound, ReadyToFinalize, Planned, Settled
    <2>2. \A a \in Assets, p \in Phases : PlanPhase(a, p) = {}
        BY <2>1 DEF PlanPhase, Resolved
    <2>3. \A b \in Battles : PlanBattle(b) = {}
        BY <2>1 DEF PlanBattle
    <2> QED BY <2>2, <2>3 DEF PhasesAndBattles
<1>4. CanFinalizeMarketRound =>
          (\A a \in Assets : Resolved(a)) /\ resolvedCount = ratedCount
    BY DEF CanFinalizeMarketRound, ReadyToFinalize
<1> QED BY <1>1, <1>2, <1>3, <1>4 DEF PlanCompletion

(***************************************************************************)
(* The plan of settlement.rs for an accepted snapshot holds something that *)
(* the program accepts whenever it accepts anything of the settlement, and *)
(* but for end prices that await a start price nothing that it refuses.    *)
(***************************************************************************)
THEOREM PlanAlwaysKeepsUp == Spec => []PlanKeepsUp
<1>1. Planned => PlanKeepsUp
    <2> SUFFICES ASSUME Planned, roundState \in {"Ended", "Settling"}, SnapshotAccepted
                 PROVE  /\ SettlementCanMove => \E i \in Plan : Accepted(i)
                        /\ \A i \in Plan : Accepted(i) \/ AwaitsStart(i)
        BY DEF PlanKeepsUp
    <2>1. CASE roundState = "Ended"
        <3>1. Plan = {Instruction("AdvanceRound", 0, "Round")}
            BY <2>1 DEF Plan
        <3>2. CanAdvanceMarketRound
            <4>1. <<"Ended", 0, "Settling">> \in ClockTransitions
                BY DEF ClockTransitions
            <4>2. now \in Nat
                BY RoundTimingAssumption
                DEF Planned, Settled, Outcomes, Justified, Typed, TypeOK
            <4> QED BY <2>1, <4>1, <4>2 DEF CanAdvanceMarketRound
        <3> QED BY <3>1, <3>2, AcceptedMeans
    <2>2. CASE roundState = "Settling"
        <3>1. Plan = PhasesAndBattles \cup PlanCompletion
            BY <2>2 DEF Plan
        <3>2. ~ CanAdvanceMarketRound
            BY <2>2 DEF CanAdvanceMarketRound, ClockTransitions
        <3>3. \A i : i \in PhasesAndBattles <=>
                         \/ \E a \in Assets, p \in Phases : i \in PlanPhase(a, p)
                         \/ \E b \in Battles : i \in PlanBattle(b)
            BY DEF PhasesAndBattles
        <3>4. \A i \in PhasesAndBattles : Accepted(i) \/ AwaitsStart(i)
            BY <3>3, PlannedPhases, PlannedBattles
        <3>5. \A i \in PlanCompletion : Accepted(i)
            BY <2>2, PlannedCompletion
        <3>6. SettlementCanMove =>
                  \/ CanFinalizeMarketRound
                  \/ \E a \in Assets, p \in Phases :
                         CanFinalizePricePhase(a, p) \/ CanMarkPricePhaseUnavailable(a, p)
                  \/ \E b \in Battles : BattleCanMove(b)
            BY <3>2 DEF SettlementCanMove, BattleCanMove
        <3>7. CanFinalizeMarketRound => \E i \in Plan : Accepted(i)
            BY <2>2, <3>1, <3>5, PlannedCompletion
        <3>8. \A a \in Assets, p \in Phases :
                  CanFinalizePricePhase(a, p) \/ CanMarkPricePhaseUnavailable(a, p)
                      => \E i \in Plan : Accepted(i)
            BY <3>1, <3>3, PlannedPhases
        <3>9. \A b \in Battles : BattleCanMove(b) => \E i \in Plan : Accepted(i)
            BY <3>1, <3>3, PlannedBattles
        <3> QED BY <3>1, <3>4, <3>5, <3>6, <3>7, <3>8, <3>9
    <2> QED BY <2>1, <2>2
<1> QED
    BY <1>1, InitPlanned, PlannedStep, PTL DEF Spec

-----------------------------------------------------------------------------
(***************************************************************************)
(* The promise of AssetResolution, kept by every asset at every step: the  *)
(* clock closes one window at a time, evidence and resolutions of one      *)
(* asset leave the others alone, and no other instruction touches them.    *)
(***************************************************************************)
ClosedPhases == {p \in Phases : now > Deadline(p)}
StatusesOf(a) == [p \in Phases |-> PhaseStatus(a, p)]
PromiseKept(a) == Asset(a)!Next \/ UNCHANGED Asset(a)!vars

LEMMA PhasesAgree ==
    ASSUME NEW a \in Assets
    PROVE  Asset(a)!Phases = Phases
    BY DEF Asset!Phases, Phases

LEMMA PromiseInit ==
    ASSUME Init, NEW a \in Assets
    PROVE  Asset(a)!Init
<1>1. ClosedPhases = {}
    BY RoundTimingAssumption
    DEF Init, InitRound, ClosedPhases, Phases, Deadline, WindowEnd, Target
<1>2. quorum[a] = {} /\ StatusesOf(a) = [p \in Phases |-> "Open"]
    BY DEF Init, InitPrices, StatusesOf, PhaseStatus
<1> QED
    BY <1>1, <1>2, PhasesAgree DEF Asset!Init, ClosedPhases, StatusesOf

LEMMA SameAssetKeepsPromise ==
    ASSUME NEW a \in Assets, ClosedPhases' = ClosedPhases,
           quorum'[a] = quorum[a], finalized'[a] = finalized[a],
           unavailable'[a] = unavailable[a]
    PROVE  PromiseKept(a)
    BY DEF PromiseKept, Asset!vars, ClosedPhases, PhaseStatus

LEMMA ClockKeepsPromise ==
    ASSUME Typed, NEW a \in Assets, UNCHANGED assetVars,
           now' = now \/ now' = now + 1
    PROVE  PromiseKept(a)
<1>1. CASE ClosedPhases' = ClosedPhases
    BY <1>1, SameAssetKeepsPromise DEF assetVars
<1>2. CASE ClosedPhases' # ClosedPhases
    <2>1. now \in Int /\ now' = now + 1
        BY <1>2 DEF Typed, TypeOK, ClosedPhases
    <2>2. PICK p \in Phases : /\ p \notin ClosedPhases
                              /\ ClosedPhases' = ClosedPhases \cup {p}
        BY <1>2, <2>1, ScheduleFacts DEF ClosedPhases, Phases
    <2>3. p = "End" => "Start" \in ClosedPhases
        BY <2>1, <2>2, ScheduleFacts DEF ClosedPhases, Phases
    <2>4. Asset(a)!CloseWindow(p)
        BY <2>2, <2>3 DEF Asset!CloseWindow, ClosedPhases, PhaseStatus, assetVars
    <2> QED
        BY <2>4, PhasesAgree DEF PromiseKept, Asset!Next
<1> QED
    BY <1>1, <1>2

LEMMA PriceStepKeepsPromise ==
    ASSUME Typed, NEW a \in Assets, NEW c \in Assets, NEW p \in Phases,
           ReachQuorum(c, p) \/ ResolvePricePhase(c, p)
    PROVE  PromiseKept(a)
<1> USE DEF Typed, TypeOK
<1>1. ClosedPhases' = ClosedPhases
    BY DEF ReachQuorum, ResolvePricePhase, FinalizePricePhase, CanFinalizePricePhase,
           MarkPricePhaseUnavailable, CanMarkPricePhaseUnavailable, ClosedPhases
<1>2. CASE a # c
    BY <1>1, <1>2, SameAssetKeepsPromise
    DEF ReachQuorum, ResolvePricePhase, FinalizePricePhase, CanFinalizePricePhase,
        MarkPricePhaseUnavailable, CanMarkPricePhaseUnavailable
<1>3. CASE a = c /\ ReachQuorum(c, p)
    <2>1. p \notin ClosedPhases
        BY <1>3, ScheduleFacts DEF ReachQuorum, ClosedPhases
    <2>2. Asset(a)!GatherQuorum(p)
        BY <1>1, <1>3, <2>1
        DEF ReachQuorum, Asset!GatherQuorum, ClosedPhases, PhaseStatus
    <2> QED
        BY <2>2, PhasesAgree DEF PromiseKept, Asset!Next
<1>4. CASE a = c /\ FinalizePricePhase(c, p)
    <2>1. p \in ClosedPhases
        BY <1>4 DEF FinalizePricePhase, CanFinalizePricePhase, OpenForResolution,
                    ClosedPhases
    <2>2. /\ StatusesOf(a)[p] = "Open"
          /\ p = "End" => StatusesOf(a)["Start"] = "Finalized"
          /\ StatusesOf(a)' = [StatusesOf(a) EXCEPT ![p] = "Finalized"]
        BY <1>4 DEF FinalizePricePhase, CanFinalizePricePhase, OpenForResolution,
                    StatusesOf, PhaseStatus, Phases
    <2>3. quorum'[a] = quorum[a] /\ p \in quorum[a]
        BY <1>4 DEF FinalizePricePhase, CanFinalizePricePhase
    <2>4. Asset(a)!Finalize(p)
        BY <1>1, <2>1, <2>2, <2>3 DEF Asset!Finalize, ClosedPhases, StatusesOf
    <2> QED
        BY <2>4, PhasesAgree DEF PromiseKept, Asset!Next
<1>5. CASE a = c /\ MarkPricePhaseUnavailable(c, p)
    <2>1. p \in ClosedPhases
        BY <1>5 DEF MarkPricePhaseUnavailable, CanMarkPricePhaseUnavailable,
                    OpenForResolution, ClosedPhases
    <2>2. /\ StatusesOf(a)[p] = "Open"
          /\ StatusesOf(a)' = [StatusesOf(a) EXCEPT ![p] = "Unavailable"]
        <3>1. /\ finalized'[a] = finalized[a] /\ p \notin finalized[a]
              /\ unavailable'[a] = unavailable[a] \cup {p} /\ p \notin unavailable[a]
            BY <1>5 DEF MarkPricePhaseUnavailable, CanMarkPricePhaseUnavailable,
                        OpenForResolution
        <3> QED
            BY <3>1 DEF StatusesOf, PhaseStatus
    <2>3. quorum'[a] = quorum[a] /\ p \notin quorum[a]
        BY <1>5 DEF MarkPricePhaseUnavailable, CanMarkPricePhaseUnavailable
    <2>4. Asset(a)!MarkUnavailable(p)
        BY <1>1, <2>1, <2>2, <2>3 DEF Asset!MarkUnavailable, ClosedPhases, StatusesOf
    <2> QED
        BY <2>4, PhasesAgree DEF PromiseKept, Asset!Next
<1> QED
    BY <1>2, <1>3, <1>4, <1>5 DEF ResolvePricePhase

(***************************************************************************)
(* In a round with any assets, each of them resolves as price.rs promises. *)
(***************************************************************************)
THEOREM AssetsKeepTheirPromise == Spec => AssetsResolveAsPromised
<1>1. Init => \A a \in Assets : Asset(a)!Init
    BY PromiseInit
<1>2. Typed /\ [Next]_vars => [\A a \in Assets : PromiseKept(a)]_vars
    <2> SUFFICES ASSUME Typed, Next, NEW a \in Assets
                 PROVE  PromiseKept(a)
        OBVIOUS
    <2>1. CASE RoundStep \/ UNCHANGED vars
        BY <2>1, RoundStepKeeps, ClockKeepsPromise
    <2>2. CASE UNCHANGED <<now, assetVars>>
        BY <2>2, ClockKeepsPromise
    <2>3. ASSUME NEW c \in Assets, NEW p \in Phases,
                 ReachQuorum(c, p) \/ ResolvePricePhase(c, p)
          PROVE  PromiseKept(a)
        BY <2>3, PriceStepKeepsPromise
    <2> QED
        BY <2>1, <2>2, <2>3, StepKinds
        DEF CreateRatedBattle, SettleSideScore, CanSettleSideScore, Resolves, CommitLineup,
            RevealLineup
<1>3. Typed => TypeOK
    BY DEF Typed
<1> QED
    BY <1>1, <1>2, InitTyped, TypedStep, PTL
    DEF Spec, AssetsResolveAsPromised, PromiseKept

-----------------------------------------------------------------------------
(***************************************************************************)
(* A round that settles from Pyth Pro, for any readings and limits of      *)
(* their quality: a settled return is that of two readings which pass      *)
(* every test; when the tolerance of the source fits in the gap after the  *)
(* reveals, no lineup is chosen or shown after the first start price;      *)
(* results stay justified by the returns on chain, and a completed round   *)
(* has left nothing open. Its round and battle instructions are those of   *)
(* Competition, so what the lemmas above say of them is cited: only the    *)
(* steps of pyth.rs need an argument of their own.                         *)
(***************************************************************************)
PricesTyped ==
    /\ quorum \in [Assets -> SUBSET Phases]
    /\ finalized \in [Assets -> SUBSET Phases]
    /\ unavailable \in [Assets -> SUBSET Phases]
    /\ DOMAIN returnQ9 = Assets
    /\ evidence \in [Assets -> [Phases -> Readings \cup {NoEvidence}]]

\* An evidence account holds a valid reading; a final price rests on one.
EvidenceHeld ==
    /\ \A a \in Assets : \A p \in quorum[a] :
           evidence[a][p] \in Readings /\ ValidReading(evidence[a][p])
    /\ \A a \in Assets : \A p \in finalized[a] : p \in quorum[a] /\ p \notin unavailable[a]
    /\ \A a \in Assets : "End" \in finalized[a] =>
           /\ "Start" \in finalized[a]
           /\ returnQ9[a] = ReturnOf(PriceOf(a, "Start"), PriceOf(a, "End"))

PriceInv == PricesTyped /\ EvidenceHeld

LEMMA InitPrice == PythInit => PriceInv
    BY DEF PythInit, InitPythPrices, PriceInv, PricesTyped, EvidenceHeld

\* What the instructions of the round and of its battles leave alone.
LEMMA PricesUntouched ==
    ASSUME \/ RoundStep
           \/ \E b \in Battles : BattleStep(b)
    PROVE  UNCHANGED <<quorum, finalized, unavailable, returnQ9>>
<1> USE DEF assetVars
<1>1. CASE RoundStep
    BY <1>1 DEF RoundStep, Tick, SetPause, AdvanceMarketRound, FinalizeMarketRound,
                CanFinalizeMarketRound
<1>2. ASSUME NEW b \in Battles, BattleStep(b)
      PROVE  UNCHANGED <<quorum, finalized, unavailable, returnQ9>>
    BY <1>2 DEF BattleStep, CreateRatedBattle, CommitLineup, RevealLineup, SettleBattle,
                SettleSideScore, CanSettleSideScore, FinalizeBattle, CanFinalizeBattle,
                FinalizeForfeit, CanFinalizeForfeit,
                VoidBattleIfPriceUnavailable, CanVoidBattleIfPriceUnavailable,
                VoidBattleForSystemIncident,
                CancelUncommittedBattle
<1> QED
    BY <1>1, <1>2

LEMMA EvidenceRecorded ==
    ASSUME PriceInv, NEW a \in Assets, NEW p \in Phases, NEW r \in Readings,
           SubmitOrRecordPythEvidence(a, p, r)
    PROVE  PriceInv'
<1>1. /\ p \notin quorum[a] /\ ValidReading(r)
      /\ evidence' = [evidence EXCEPT ![a][p] = r]
      /\ quorum' = [quorum EXCEPT ![a] = @ \cup {p}]
      /\ UNCHANGED <<finalized, unavailable, returnQ9>>
    BY DEF SubmitOrRecordPythEvidence
<1>2. /\ evidence'[a][p] = r
      /\ \A q \in Phases \ {p} : evidence'[a][q] = evidence[a][q]
      /\ \A x \in Assets \ {a} : evidence'[x] = evidence[x] /\ quorum'[x] = quorum[x]
      /\ quorum'[a] = quorum[a] \cup {p}
    BY <1>1 DEF PriceInv, PricesTyped
<1>3. PricesTyped'
    BY <1>1 DEF PriceInv, PricesTyped
<1>4. \A x \in Assets : \A q \in quorum'[x] :
          evidence'[x][q] \in Readings /\ ValidReading(evidence'[x][q])
    BY <1>1, <1>2 DEF PriceInv, PricesTyped, EvidenceHeld
<1>5. \A x \in Assets : \A q \in finalized'[x] : q \in quorum'[x] /\ q \notin unavailable'[x]
    BY <1>1, <1>2 DEF PriceInv, EvidenceHeld
<1>6. ASSUME NEW x \in Assets, "End" \in finalized'[x]
      PROVE  /\ "Start" \in finalized'[x]
             /\ returnQ9'[x] = ReturnOf(evidence'[x]["Start"].normalized,
                                        evidence'[x]["End"].normalized)
    <2>1. /\ "Start" \in finalized[x] /\ "End" \in finalized[x]
          /\ "Start" \in quorum[x] /\ "End" \in quorum[x]
          /\ returnQ9[x] = ReturnOf(evidence[x]["Start"].normalized,
                                    evidence[x]["End"].normalized)
        BY <1>1, <1>6 DEF PriceInv, EvidenceHeld, PriceOf
    <2>2. \A q \in {"Start", "End"} : evidence'[x][q] = evidence[x][q]
        BY <1>1, <1>2, <2>1 DEF Phases
    <2> QED
        BY <1>1, <2>1, <2>2
<1> QED
    BY <1>3, <1>4, <1>5, <1>6 DEF PriceInv, EvidenceHeld, PriceOf

LEMMA PhaseFinalized ==
    ASSUME PriceInv, NEW a \in Assets, NEW p \in Phases, FinalizePythPricePhase(a, p)
    PROVE  PriceInv'
<1>1. /\ p \in quorum[a] \ finalized[a]
      /\ finalized' = [finalized EXCEPT ![a] = @ \cup {p}]
      /\ unavailable' = [unavailable EXCEPT ![a] = @ \ {p}]
      /\ UNCHANGED <<quorum, evidence>>
    BY DEF FinalizePythPricePhase
<1>2. /\ finalized'[a] = finalized[a] \cup {p} /\ unavailable'[a] = unavailable[a] \ {p}
      /\ \A x \in Assets \ {a} :
             finalized'[x] = finalized[x] /\ unavailable'[x] = unavailable[x]
    BY <1>1 DEF PriceInv, PricesTyped
<1>3. CASE p = "End"
    <2> DEFINE settled == ReturnOf(PriceOf(a, "Start"), PriceOf(a, "End"))
    <2>1. "Start" \in finalized[a] /\ returnQ9' = [returnQ9 EXCEPT ![a] = settled]
        BY <1>3 DEF FinalizePythPricePhase, FinalizeEnd
    <2> HIDE DEF settled
    <2>2. /\ DOMAIN returnQ9' = Assets /\ returnQ9'[a] = settled
          /\ \A x \in Assets \ {a} : returnQ9'[x] = returnQ9[x]
        BY <2>1 DEF PriceInv, PricesTyped
    <2>3. PricesTyped'
        BY <1>1, <2>2 DEF PriceInv, PricesTyped
    <2>4. \A x \in Assets : "End" \in finalized'[x] =>
              /\ "Start" \in finalized'[x]
              /\ returnQ9'[x] = ReturnOf(PriceOf(x, "Start"), PriceOf(x, "End"))
        BY <1>2, <2>1, <2>2 DEF PriceInv, EvidenceHeld, settled
    <2> QED
        BY <1>1, <1>2, <2>3, <2>4 DEF PriceInv, EvidenceHeld, PriceOf
<1>4. CASE p # "End"
    <2>1. returnQ9' = returnQ9
        BY <1>4 DEF FinalizePythPricePhase
    <2>2. PricesTyped'
        BY <1>1, <2>1 DEF PriceInv, PricesTyped
    <2>3. \A x \in Assets : "End" \in finalized'[x] =>
              /\ "Start" \in finalized'[x]
              /\ returnQ9'[x] = ReturnOf(PriceOf(x, "Start"), PriceOf(x, "End"))
        BY <1>2, <1>4, <2>1 DEF PriceInv, EvidenceHeld
    <2> QED
        BY <1>1, <1>2, <2>2, <2>3 DEF PriceInv, EvidenceHeld, PriceOf
<1> QED
    BY <1>3, <1>4

LEMMA PhaseMarked ==
    ASSUME PriceInv, NEW a \in Assets, NEW p \in Phases, MarkPythPricePhaseUnavailable(a, p)
    PROVE  PriceInv'
<1>1. /\ p \notin finalized[a]
      /\ unavailable' = [unavailable EXCEPT ![a] = @ \cup {p}]
      /\ UNCHANGED <<quorum, finalized, returnQ9, evidence>>
    BY DEF MarkPythPricePhaseUnavailable
<1>2. /\ unavailable'[a] = unavailable[a] \cup {p}
      /\ \A x \in Assets \ {a} : unavailable'[x] = unavailable[x]
      /\ unavailable' \in [Assets -> SUBSET Phases]
    BY <1>1 DEF PriceInv, PricesTyped
<1> QED
    BY <1>1, <1>2 DEF PriceInv, PricesTyped, EvidenceHeld, PriceOf

LEMMA PriceStep == PriceInv /\ [PythNext]_pythVars => PriceInv'
<1> SUFFICES ASSUME PriceInv, [PythNext]_pythVars PROVE PriceInv'
    OBVIOUS
<1>1. ASSUME UNCHANGED <<quorum, finalized, unavailable, returnQ9, evidence>>
      PROVE  PriceInv'
    BY <1>1 DEF PriceInv, PricesTyped, EvidenceHeld, PriceOf
<1>2. CASE UNCHANGED pythVars
    BY <1>1, <1>2 DEF pythVars, vars, assetVars
<1>3. CASE RoundStep /\ UNCHANGED evidence
    BY <1>1, <1>3, PricesUntouched
<1>4. CASE \E b \in Battles : BattleStep(b) /\ UNCHANGED evidence
    BY <1>1, <1>4, PricesUntouched
<1>5. ASSUME NEW a \in Assets, NEW p \in Phases,
             \/ \E r \in Readings : SubmitOrRecordPythEvidence(a, p, r)
             \/ ResolvePythPhase(a, p)
      PROVE  PriceInv'
    BY <1>5, EvidenceRecorded, PhaseFinalized, PhaseMarked DEF ResolvePythPhase
<1> QED
    BY <1>2, <1>3, <1>4, <1>5 DEF PythNext

\* A quotient rounded up that is at most m leaves n at most m times d.
LEMMA RoundedUpBound ==
    ASSUME NEW n \in Nat, NEW d \in Nat \ {0}, NEW m \in Nat, CeilDiv(n, d) <= m
    PROVE  n <= m * d
<1> DEFINE q == (n + d - 1) \div d
<1>1. q \in Nat /\ n + d - 1 < d * (q + 1)
    OBVIOUS
<1>2. q <= m
    BY DEF CeilDiv
<1> HIDE DEF q
<1>3. d * (q + 1) = d * q + d
    BY <1>1
<1>4. n <= d * q
    BY <1>1, <1>3
<1>5. PICK k \in Nat : m = q + k
    BY <1>1, <1>2
<1>6. m * d = d * q + k * d /\ k * d >= 0
    BY <1>1, <1>5
<1> QED
    BY <1>1, <1>4, <1>6

LEMMA ConfidenceWithinLimit ==
    ASSUME NEW r \in Readings, ValidReading(r)
    PROVE  r.confidence * 10000 <= MaxConfidenceBps * r.price
<1>1. r.price \in Nat \ {0} /\ r.confidence * 10000 \in Nat /\ MaxConfidenceBps \in Nat
    BY PythUnitsAssumption, PythBoundsAssumption DEF ValidReading
<1>2. CeilDiv(r.confidence * 10000, r.price) <= MaxConfidenceBps
    BY DEF ValidReading, ConfidenceBps
<1> QED
    BY <1>1, <1>2, RoundedUpBound

(***************************************************************************)
(* A return that settles battles is the one of two recorded readings, each *)
(* within every limit of the source, whatever was recorded or marked.      *)
(***************************************************************************)
THEOREM ReturnsFollowEvidence == PythSpec => []ReturnFollowsEvidence
<1>1. PriceInv => ReturnFollowsEvidence
    <2> SUFFICES ASSUME PriceInv, NEW a \in Assets
                 PROVE  /\ "End" \in finalized[a] => "Start" \in finalized[a]
                        /\ \A p \in finalized[a] :
                               /\ evidence[a][p] # NoEvidence
                               /\ p \notin unavailable[a]
                               /\ evidence[a][p].confidence * 10000
                                      <= MaxConfidenceBps * evidence[a][p].price
                               /\ evidence[a][p].normalized = ToQ9(evidence[a][p])
                        /\ "End" \in finalized[a] =>
                               returnQ9[a] =
                                   ReturnOf(PriceOf(a, "Start"), PriceOf(a, "End"))
        BY DEF ReturnFollowsEvidence
    <2>1. ASSUME NEW p \in finalized[a]
          PROVE  /\ evidence[a][p] # NoEvidence
                 /\ p \notin unavailable[a]
                 /\ evidence[a][p].confidence * 10000
                        <= MaxConfidenceBps * evidence[a][p].price
                 /\ evidence[a][p].normalized = ToQ9(evidence[a][p])
        <3>1. /\ evidence[a][p] \in Readings /\ ValidReading(evidence[a][p])
              /\ p \notin unavailable[a]
            BY DEF PriceInv, EvidenceHeld
        <3> QED
            BY <3>1, ConfidenceWithinLimit, PythUnitsAssumption DEF ValidReading
    <2> QED
        BY <2>1 DEF PriceInv, EvidenceHeld
<1> QED
    BY <1>1, InitPrice, PriceStep, PTL DEF PythSpec

------------------------------------------------------------------------------
\* The first start price is not known before the reveals are over.
ToleranceInsideGap == MaxPayloadDelta < (StartTarget - RevealDeadline) * MicrosPerSecond

EvidenceAfterReveals ==
    /\ now \in Nat
    /\ quorum \in [Assets -> SUBSET Phases]
    /\ \A a \in Assets : quorum[a] # {} => now > RevealDeadline

LEMMA PublishedAfterReveals ==
    ASSUME ToleranceInsideGap, now \in Nat, NEW p \in Phases, NEW r \in Readings,
           Published(p, r), ValidReading(r)
    PROVE  now > RevealDeadline
<1>1. /\ RevealDeadline \in Nat /\ StartTarget \in Nat /\ Target(p) \in Nat
      /\ StartTarget <= Target(p) /\ MicrosPerSecond \in Nat \ {0}
      /\ MaxPayloadDelta \in Nat
    BY RoundTimingAssumption, PythUnitsAssumption, PythBoundsAssumption DEF Target
<1>2. r.payloadAt \in Int /\ r.payloadAt >= -MaxPayloadDelta
    BY <1>1, PythUnitsAssumption DEF ValidReading, FreshReading, Magnitude
<1>3. now * MicrosPerSecond >= Target(p) * MicrosPerSecond + r.payloadAt
    BY DEF Published
<1>4. Target(p) * MicrosPerSecond >= StartTarget * MicrosPerSecond
    <2>1. PICK k \in Nat : Target(p) = StartTarget + k
        BY <1>1
    <2>2. Target(p) * MicrosPerSecond = StartTarget * MicrosPerSecond + k * MicrosPerSecond
        BY <1>1, <2>1
    <2>3. k * MicrosPerSecond >= 0 /\ StartTarget * MicrosPerSecond \in Int
          /\ k * MicrosPerSecond \in Int
        BY <1>1
    <2> QED
        BY <2>2, <2>3
<1>5. (StartTarget - RevealDeadline) * MicrosPerSecond
          = StartTarget * MicrosPerSecond - RevealDeadline * MicrosPerSecond
    BY <1>1
<1>6. /\ now * MicrosPerSecond \in Int /\ RevealDeadline * MicrosPerSecond \in Int
      /\ StartTarget * MicrosPerSecond \in Int /\ Target(p) * MicrosPerSecond \in Int
    BY <1>1
<1>7. now * MicrosPerSecond > RevealDeadline * MicrosPerSecond
    BY <1>1, <1>2, <1>3, <1>4, <1>5, <1>6 DEF ToleranceInsideGap
<1>8. ASSUME now <= RevealDeadline
      PROVE  FALSE
    <2>1. PICK k \in Nat : RevealDeadline = now + k
        BY <1>1, <1>8
    <2>2. RevealDeadline * MicrosPerSecond = now * MicrosPerSecond + k * MicrosPerSecond
        BY <1>1, <2>1
    <2>3. k * MicrosPerSecond >= 0 /\ k * MicrosPerSecond \in Int
        BY <1>1
    <2> QED
        BY <1>6, <1>7, <2>2, <2>3
<1> QED
    BY <1>1, <1>8

LEMMA ClockSteps ==
    ASSUME [PythNext]_pythVars
    PROVE  now' = now \/ now' = now + 1
<1>1. CASE UNCHANGED pythVars
    BY <1>1 DEF pythVars, vars
<1>2. CASE RoundStep
    BY <1>2 DEF RoundStep, Tick, SetPause, AdvanceMarketRound, FinalizeMarketRound,
                CanFinalizeMarketRound
<1>3. ASSUME NEW b \in Battles, BattleStep(b)
      PROVE  now' = now
    BY <1>3 DEF BattleStep, CreateRatedBattle, CommitLineup, RevealLineup, SettleBattle,
                SettleSideScore, CanSettleSideScore, FinalizeBattle, CanFinalizeBattle,
                FinalizeForfeit, CanFinalizeForfeit,
                VoidBattleIfPriceUnavailable, CanVoidBattleIfPriceUnavailable,
                VoidBattleForSystemIncident,
                CancelUncommittedBattle
<1>4. ASSUME NEW a \in Assets, NEW p \in Phases,
             \/ \E r \in Readings : SubmitOrRecordPythEvidence(a, p, r)
             \/ ResolvePythPhase(a, p)
      PROVE  now' = now
    BY <1>4 DEF SubmitOrRecordPythEvidence, ResolvePythPhase, FinalizePythPricePhase,
                MarkPythPricePhaseUnavailable
<1> QED
    BY <1>1, <1>2, <1>3, <1>4 DEF PythNext

LEMMA EvidenceComesLate ==
    ASSUME ToleranceInsideGap
    PROVE  EvidenceAfterReveals /\ [PythNext]_pythVars => EvidenceAfterReveals'
<1> SUFFICES ASSUME EvidenceAfterReveals, [PythNext]_pythVars
             PROVE  EvidenceAfterReveals'
    OBVIOUS
<1>1. now \in Nat /\ now' \in Nat /\ now' >= now /\ RevealDeadline \in Nat
    BY ClockSteps, RoundTimingAssumption DEF EvidenceAfterReveals
<1>2. ASSUME quorum' = quorum
      PROVE  EvidenceAfterReveals'
    BY <1>1, <1>2 DEF EvidenceAfterReveals
<1>3. CASE UNCHANGED pythVars
    BY <1>2, <1>3 DEF pythVars, vars, assetVars
<1>4. CASE RoundStep \/ \E b \in Battles : BattleStep(b)
    BY <1>2, <1>4, PricesUntouched
<1>5. ASSUME NEW a \in Assets, NEW p \in Phases, NEW r \in Readings,
             SubmitOrRecordPythEvidence(a, p, r)
      PROVE  EvidenceAfterReveals'
    <2>1. /\ now > RevealDeadline /\ now' = now
          /\ quorum' = [quorum EXCEPT ![a] = @ \cup {p}]
        BY <1>5, PublishedAfterReveals DEF EvidenceAfterReveals, SubmitOrRecordPythEvidence
    <2> QED
        BY <1>1, <2>1 DEF EvidenceAfterReveals
<1>6. ASSUME NEW a \in Assets, NEW p \in Phases, ResolvePythPhase(a, p)
      PROVE  EvidenceAfterReveals'
    BY <1>2, <1>6 DEF ResolvePythPhase, FinalizePythPricePhase,
                      MarkPythPricePhaseUnavailable
<1> QED
    BY <1>3, <1>4, <1>5, <1>6 DEF PythNext

LEMMA PlayersDoneByThen ==
    ASSUME now \in Nat, now > RevealDeadline, [PythNext]_pythVars
    PROVE  UNCHANGED <<player, committed, revealed, commitment, lineup>>
<1>0. /\ RevealDeadline \in Nat /\ CommitDeadline \in Nat /\ CommitDeadline < RevealDeadline
    BY RoundTimingAssumption
<1> USE DEF battleVars, sideVars
<1>1. CASE UNCHANGED pythVars
    BY <1>1 DEF pythVars, vars
<1>2. CASE RoundStep
    BY <1>2 DEF RoundStep, Tick, SetPause, AdvanceMarketRound, FinalizeMarketRound,
                CanFinalizeMarketRound
<1>3. ASSUME NEW b \in Battles, BattleStep(b)
      PROVE  UNCHANGED <<player, committed, revealed, commitment, lineup>>
    <2>1. ASSUME NEW i \in Players, NEW j \in Players, CreateRatedBattle(b, i, j)
          PROVE  FALSE
        BY <1>0, <2>1 DEF CreateRatedBattle, AdmissionOpen
    <2>2. ASSUME NEW s \in Sides, NEW l \in Lineups,
                 CommitLineup(b, s, l) \/ RevealLineup(b, s, l)
          PROVE  FALSE
        BY <1>0, <2>2 DEF CommitLineup, CommitOpen, RevealLineup, RevealOpen
    <2>3. CASE SettleBattle(b) \/ VoidBattleForSystemIncident(b) \/ CancelUncommittedBattle(b)
        BY <2>3 DEF SettleBattle, SettleSideScore, CanSettleSideScore, FinalizeBattle,
                    CanFinalizeBattle, FinalizeForfeit, CanFinalizeForfeit,
                    VoidBattleIfPriceUnavailable, CanVoidBattleIfPriceUnavailable,
                    VoidBattleForSystemIncident,
                    CancelUncommittedBattle
    <2> QED
        BY <1>3, <2>1, <2>2, <2>3 DEF BattleStep
<1>4. ASSUME NEW a \in Assets, NEW p \in Phases,
             \/ \E r \in Readings : SubmitOrRecordPythEvidence(a, p, r)
             \/ ResolvePythPhase(a, p)
      PROVE  UNCHANGED <<player, committed, revealed, commitment, lineup>>
    BY <1>4 DEF SubmitOrRecordPythEvidence, ResolvePythPhase, FinalizePythPricePhase,
                MarkPythPricePhaseUnavailable
<1> QED
    BY <1>1, <1>2, <1>3, <1>4 DEF PythNext

(***************************************************************************)
(* With a tolerance inside the gap, no player commits, reveals or enters a *)
(* battle once a reading of a start price is on chain.                     *)
(***************************************************************************)
THEOREM LineupsPrecedeReadings ==
    ASSUME ToleranceInsideGap
    PROVE  PythSpec => PythNoHindsight
<1>1. PythInit => EvidenceAfterReveals
    BY DEF PythInit, InitRound, InitPythPrices, EvidenceAfterReveals
<1>2. EvidenceAfterReveals /\ [PythNext]_pythVars => EvidenceAfterReveals'
    BY EvidenceComesLate
<1>3. EvidenceAfterReveals /\ [PythNext]_pythVars =>
          [(\E a \in Assets : quorum[a] # {})
               => UNCHANGED <<player, committed, revealed, commitment, lineup>>]_pythVars
    BY PlayersDoneByThen DEF EvidenceAfterReveals
<1> QED
    BY <1>1, <1>2, <1>3, PTL DEF PythSpec, PythNoHindsight

------------------------------------------------------------------------------
(***************************************************************************)
(* Round and battle instructions are steps of Competition; what else can   *)
(* happen concerns one phase of one asset.                                 *)
(***************************************************************************)
PhaseStep(a, p) ==
    \/ \E r \in Readings : SubmitOrRecordPythEvidence(a, p, r)
    \/ ResolvePythPhase(a, p)

LEMMA SharedOrPhaseStep ==
    ASSUME [PythNext]_pythVars
    PROVE  \/ [Next]_vars /\ (RoundStep \/ (\E b \in Battles : BattleStep(b)) \/ UNCHANGED vars)
           \/ \E a \in Assets, p \in Phases : PhaseStep(a, p)
<1>1. \A b \in Battles : BattleStep(b) => Next
    BY DEF BattleStep, Next, CoordinatorStep, PlayerStep
<1>2. RoundStep => Next
    BY DEF Next
<1> QED
    BY <1>1, <1>2 DEF PythNext, PhaseStep, pythVars

\* Only an asset that is not available is touched, and no verdict is lost.
LEMMA PhaseStepKeeps ==
    ASSUME PriceInv, NEW a \in Assets, NEW p \in Phases, PhaseStep(a, p)
    PROVE  /\ UNCHANGED <<now, paused, roundVars, battleVars>>
           /\ \A x \in Assets : Resolved(x) => Resolved(x)'
           /\ \A x \in Assets : Available(x) => /\ Available(x)'
                                                /\ returnQ9'[x] = returnQ9[x]
           /\ returnQ9 \in [Assets -> Returns \cup {0}]
                  => returnQ9' \in [Assets -> Returns \cup {0}]
<1> USE DEF PriceInv, PricesTyped, Resolved, Available
<1>1. ASSUME NEW r \in Readings, SubmitOrRecordPythEvidence(a, p, r)
      PROVE  UNCHANGED <<now, paused, roundVars, battleVars, finalized, unavailable,
                      returnQ9>>
    BY <1>1 DEF SubmitOrRecordPythEvidence
<1>2. CASE FinalizePythPricePhase(a, p)
    <2>1. /\ p \notin finalized[a]
          /\ finalized' = [finalized EXCEPT ![a] = @ \cup {p}]
          /\ unavailable' = [unavailable EXCEPT ![a] = @ \ {p}]
          /\ UNCHANGED <<now, paused, roundVars, battleVars>>
        BY <1>2 DEF FinalizePythPricePhase
    <2>2. /\ finalized'[a] = finalized[a] \cup {p} /\ unavailable'[a] = unavailable[a] \ {p}
          /\ \A x \in Assets \ {a} :
                 finalized'[x] = finalized[x] /\ unavailable'[x] = unavailable[x]
        BY <2>1
    <2>3. /\ \A x \in Assets \ {a} : returnQ9'[x] = returnQ9[x]
          /\ returnQ9 \in [Assets -> Returns \cup {0}]
                 => returnQ9' \in [Assets -> Returns \cup {0}]
        <3>1. CASE p = "End"
            <4> DEFINE settled == ReturnOf(PriceOf(a, "Start"), PriceOf(a, "End"))
            <4>1. /\ returnQ9' = [returnQ9 EXCEPT ![a] = settled]
                  /\ settled \in Returns
                BY <1>2, <3>1, PythReturnsAssumption
                DEF FinalizePythPricePhase, FinalizeEnd, ReturnFits
            <4> HIDE DEF settled
            <4> QED BY <4>1
        <3>2. CASE p # "End"
            BY <1>2, <3>2 DEF FinalizePythPricePhase
        <3> QED BY <3>1, <3>2
    <2>4. ~ Available(a)
        BY <2>1
    <2> QED BY <2>1, <2>2, <2>3, <2>4
<1>3. CASE MarkPythPricePhaseUnavailable(a, p)
    <2>1. /\ p \notin finalized[a]
          /\ unavailable' = [unavailable EXCEPT ![a] = @ \cup {p}]
          /\ UNCHANGED <<now, paused, roundVars, battleVars, finalized, returnQ9>>
        BY <1>3 DEF MarkPythPricePhaseUnavailable
    <2>2. /\ unavailable'[a] = unavailable[a] \cup {p}
          /\ \A x \in Assets \ {a} : unavailable'[x] = unavailable[x]
        BY <2>1
    <2>3. ~ Available(a)
        BY <2>1
    <2> QED BY <2>1, <2>2, <2>3
<1> QED BY <1>1, <1>2, <1>3 DEF PhaseStep, ResolvePythPhase

(***************************************************************************)
(* The inductive invariant: the prices rest on valid evidence, the results *)
(* on the prices, the counters on the results, and the state of the round  *)
(* on the counters and the verdicts.                                       *)
(***************************************************************************)
PythRound == PriceInv /\ Justified /\ Counted /\ PythTerminalRoundSettled

LEMMA InitPythRound == PythInit => PythRound
<1> SUFFICES ASSUME PythInit PROVE PythRound
    OBVIOUS
<1>1. Init
    BY DEF PythInit, Init, InitPythPrices, InitPrices
<1>2. PythTerminalRoundSettled
    BY DEF PythInit, InitRound, PythTerminalRoundSettled
<1> QED
    BY <1>1, <1>2, InitPrice, InitJustified, InitCounted DEF PythRound

LEMMA PhaseStepTyped ==
    ASSUME Typed, PriceInv, PriceInv', NEW a \in Assets, NEW p \in Phases, PhaseStep(a, p)
    PROVE  Typed'
<1>1. UNCHANGED <<now, paused, roundVars, battleVars>>
    BY PhaseStepKeeps
<1>2. returnQ9' \in [Assets -> Returns \cup {0}]
    BY PhaseStepKeeps DEF Typed, TypeOK
<1>3. /\ quorum' \in [Assets -> SUBSET Phases]
      /\ finalized' \in [Assets -> SUBSET Phases]
      /\ unavailable' \in [Assets -> SUBSET Phases]
    BY DEF PriceInv, PricesTyped
<1> QED
    BY <1>1, <1>2, <1>3 DEF Typed, TypeOK, RevealedLineups, roundVars, battleVars, sideVars

LEMMA PythTypedStep == Typed /\ PriceInv /\ [PythNext]_pythVars => Typed'
<1> SUFFICES ASSUME Typed, PriceInv, [PythNext]_pythVars PROVE Typed'
    OBVIOUS
<1>1. PriceInv'
    BY PriceStep
<1>2. ASSUME NEW a \in Assets, NEW p \in Phases, PhaseStep(a, p)
      PROVE  Typed'
    BY <1>1, <1>2, PhaseStepTyped
<1> QED
    BY <1>2, SharedOrPhaseStep, TypedStep

LEMMA PythJustifiedStep == PythRound /\ [PythNext]_pythVars => Justified' /\ Counted'
<1> SUFFICES ASSUME PythRound, [PythNext]_pythVars PROVE Justified' /\ Counted'
    OBVIOUS
<1> USE DEF PythRound
<1>1. Typed'
    BY PythTypedStep DEF Justified
<1>2. ASSUME NEW a \in Assets, NEW p \in Phases, PhaseStep(a, p)
      PROVE  Justified' /\ Counted'
    <2>1. UNCHANGED <<now, roundVars, battleVars>>
        BY <1>2, PhaseStepKeeps
    <2>2. Justified'
        BY <1>1, <1>2, <2>1, PhaseStepKeeps, StableReturnsJustified
    <2>3. Counted'
        BY <1>1, <2>1 DEF Counted, CountersMatchBattles, Created, Decided, roundVars,
                          battleVars
    <2> QED BY <2>2, <2>3
<1> QED
    BY <1>2, SharedOrPhaseStep, JustifiedStep, CountedStep

\* finalize_pyth_market_round makes the tests of the other source.
LEMMA PythCompletionSettles ==
    ASSUME PythRound, FinalizeMarketRound
    PROVE  PythTerminalRoundSettled'
<1>1. \A b \in Battles : ~ Pending(b)
    BY EqualCountersDecideAll DEF PythRound, FinalizeMarketRound, CanFinalizeMarketRound,
                                  ReadyToFinalize
<1>2. UNCHANGED <<finalized, unavailable, result>>
    BY DEF FinalizeMarketRound, CanFinalizeMarketRound, assetVars, battleVars
<1>3. \A a \in Assets : Resolved(a)
    BY DEF FinalizeMarketRound, CanFinalizeMarketRound, ReadyToFinalize
<1>4. roundState' = "Finalized" => \A a \in Assets : unavailable[a] = {}
    BY DEF FinalizeMarketRound, CanFinalizeMarketRound, RoundIsVoided
<1>5. \A a \in Assets : unavailable[a] = {} => Available(a)
    BY <1>3 DEF Available, Resolved
<1> QED
    BY <1>1, <1>2, <1>3, <1>4, <1>5 DEF PythTerminalRoundSettled, Pending, Resolved,
                                        Available

LEMMA PythTerminalIsStable ==
    ASSUME PythTerminalRoundSettled,
           roundState' = roundState \/ roundState' \notin {"Finalized", "Voided"},
           roundState \in {"Finalized", "Voided"} => \A b \in Battles : Pending(b)' => Pending(b),
           \A a \in Assets : Resolved(a) => Resolved(a)',
           \A a \in Assets : Available(a) => Available(a)'
    PROVE  PythTerminalRoundSettled'
    BY DEF PythTerminalRoundSettled

LEMMA PythSettledStep == PythRound /\ [PythNext]_pythVars => PythTerminalRoundSettled'
<1> SUFFICES ASSUME PythRound, [PythNext]_pythVars PROVE PythTerminalRoundSettled'
    OBVIOUS
<1>0. PythTerminalRoundSettled /\ Typed
    BY DEF PythRound, Justified
<1>1. ASSUME UNCHANGED <<result, finalized, unavailable>>,
             roundState' = roundState \/ roundState' \notin {"Finalized", "Voided"}
      PROVE  PythTerminalRoundSettled'
    BY <1>0, <1>1, PythTerminalIsStable DEF Pending, Resolved, Available
<1>2. ASSUME RoundStep
      PROVE  PythTerminalRoundSettled'
    <2>1. CASE FinalizeMarketRound
        BY <2>1, PythCompletionSettles
    <2>2. CASE Tick \/ (\E flag \in BOOLEAN : SetPause(flag)) \/ AdvanceMarketRound
        BY <1>1, <2>2
        DEF Tick, SetPause, AdvanceMarketRound, ClockTransitions, roundVars, assetVars,
            battleVars
    <2> QED BY <1>2, <2>1, <2>2 DEF RoundStep
<1>3. ASSUME NEW a \in Assets, NEW p \in Phases, PhaseStep(a, p)
      PROVE  PythTerminalRoundSettled'
    <2>1. roundState' = roundState /\ result' = result
        BY <1>3, PhaseStepKeeps DEF PythRound, roundVars, battleVars
    <2> QED
        BY <1>0, <1>3, <2>1, PhaseStepKeeps, PythTerminalIsStable DEF PythRound, Pending
<1>4. ASSUME NEW b \in Battles, NEW i \in Players, NEW j \in Players,
             CreateRatedBattle(b, i, j)
      PROVE  PythTerminalRoundSettled'
    BY <1>4 DEF CreateRatedBattle, AdmissionOpen, PythTerminalRoundSettled
<1>5. ASSUME NEW b \in Battles, Resolves(b)
      PROVE  PythTerminalRoundSettled'
    BY <1>0, <1>5 DEF Resolves, PythTerminalRoundSettled
<1>6. ASSUME NEW b \in Battles, NEW s \in Sides, NEW l \in Lineups,
             CommitLineup(b, s, l) \/ RevealLineup(b, s, l)
      PROVE  PythTerminalRoundSettled'
    BY <1>1, <1>6 DEF CommitLineup, RevealLineup, roundVars, assetVars
<1>7. ASSUME NEW b \in Battles, BattleStep(b)
      PROVE  PythTerminalRoundSettled'
    <2>1. ASSUME NEW s \in Sides, SettleSideScore(b, s)
          PROVE  PythTerminalRoundSettled'
        BY <1>1, <2>1 DEF SettleSideScore, CanSettleSideScore, roundVars, assetVars
    <2> QED
        BY <1>0, <1>4, <1>5, <1>6, <1>7, <2>1, ResolvesInOneWay
        DEF BattleStep, SettleBattle, ResolveOnly
<1>8. CASE UNCHANGED vars
    BY <1>1, <1>8 DEF vars, roundVars, assetVars, battleVars
<1> QED
    BY <1>2, <1>3, <1>7, <1>8, SharedOrPhaseStep

THEOREM PythRoundHolds == PythSpec => []PythRound
<1>1. PythRound /\ [PythNext]_pythVars => PythRound'
    BY PriceStep, PythJustifiedStep, PythSettledStep DEF PythRound
<1> QED
    BY <1>1, InitPythRound, PTL DEF PythSpec

(***************************************************************************)
(* Round, battles and evidence of this source keep their types; a lineup   *)
(* that is revealed is the one committed to.                               *)
(***************************************************************************)
THEOREM PythTypeCorrect == PythSpec => [](Typed /\ PricesTyped)
<1>1. PythRound => Typed /\ PricesTyped
    BY DEF PythRound, PriceInv, Justified
<1> QED
    BY <1>1, PythRoundHolds, PTL

(***************************************************************************)
(* A round of this source that is completed left no battle open and no     *)
(* phase undecided, and a finalized one has every price for good, however  *)
(* late the readings that replace a verdict.                               *)
(***************************************************************************)
THEOREM PythRoundsAreSettled == PythSpec => []PythTerminalRoundSettled
<1>1. PythRound => PythTerminalRoundSettled
    BY DEF PythRound
<1> QED
    BY <1>1, PythRoundHolds, PTL

(***************************************************************************)
(* Forfeits and scores stay right for the returns on chain, although a     *)
(* phase that was marked unavailable may get its price later.              *)
(***************************************************************************)
THEOREM PythResultsAreJustified == PythSpec => []PythScoresStayJustified
<1>1. PythRound => PythScoresStayJustified
    BY DEF PythRound, Justified, ResultsJustified, PythScoresStayJustified
<1> QED
    BY <1>1, PythRoundHolds, PTL

------------------------------------------------------------------------------
(***************************************************************************)
(* The refinement: with either price source the battles of a round keep    *)
(* the promise of RatedContest. Beside the earlier invariants it takes     *)
(* that the fields of a side agree on what it has done, and that a         *)
(* price, hence a score, comes only after the reveal deadline.             *)
(***************************************************************************)
SidesCoherent ==
    \A b \in Battles : \A s \in Sides :
        /\ s \in committed[b] <=> commitment[b][s] # NoLineup
        /\ s \in revealed[b] <=> lineup[b][s] # NoLineup

Priced == \E a \in Assets : quorum[a] # {}

ContestInv ==
    /\ Exposure /\ Justified /\ SidesCoherent
    /\ \A a \in Assets : finalized[a] \subseteq quorum[a]
    /\ Priced => now > RevealDeadline

LEMMA InitCoherent == Init => SidesCoherent /\ \A a \in Assets : finalized[a] \subseteq quorum[a]
    BY DEF Init, InitBattles, InitPrices, Fresh, SidesCoherent

LEMMA CoherentStep ==
    ASSUME Typed, SidesCoherent, [Next]_vars
    PROVE  SidesCoherent'
<1> USE DEF Typed, TypeOK
<1>1. ASSUME UNCHANGED <<committed, commitment, revealed, lineup>>
      PROVE  SidesCoherent'
    BY <1>1 DEF SidesCoherent
<1>2. ASSUME NEW b \in Battles, NEW s \in Sides, NEW l \in Lineups, CommitLineup(b, s, l)
      PROVE  SidesCoherent'
    <2>1. /\ committed' = [committed EXCEPT ![b] = @ \cup {s}]
          /\ commitment' = Put(commitment, b, s, l)
          /\ UNCHANGED <<revealed, lineup>>
        BY <1>2 DEF CommitLineup
    <2>2. l # NoLineup
        BY RoundDataAssumption
    <2> QED
        BY <2>1, <2>2 DEF SidesCoherent, Put
<1>3. ASSUME NEW b \in Battles, NEW s \in Sides, NEW l \in Lineups, RevealLineup(b, s, l)
      PROVE  SidesCoherent'
    <2>1. /\ revealed' = [revealed EXCEPT ![b] = @ \cup {s}]
          /\ lineup' = Put(lineup, b, s, l)
          /\ UNCHANGED <<committed, commitment>>
        BY <1>3 DEF RevealLineup
    <2>2. l # NoLineup
        BY RoundDataAssumption
    <2> QED
        BY <2>1, <2>2 DEF SidesCoherent, Put
<1>4. CASE RoundStep \/ UNCHANGED vars
    BY <1>1, <1>4, RoundStepKeeps DEF battleVars, sideVars
<1> QED
    BY <1>1, <1>2, <1>3, <1>4, StepKinds
    DEF ReachQuorum, ResolvePricePhase, FinalizePricePhase, MarkPricePhaseUnavailable,
        CreateRatedBattle, SettleSideScore, Resolves, battleVars, sideVars

\* What a step of the contest is about, as the round has it.
ContestView == <<Stage, Priced, player, commitment, lineup, result>>

LEMMA SameView ==
    ASSUME ContestView' = ContestView
    PROVE  UNCHANGED Contest!contestVars
    BY DEF ContestView, Contest!contestVars, Priced

LEMMA ContestInit == Init => Contest!Init
<1> SUFFICES ASSUME Init PROVE Contest!Init
    OBVIOUS
<1>1. Stage = "Sealing"
    BY RoundTimingAssumption DEF Init, InitRound, Stage
<1>2. ~ Priced
    BY DEF Init, InitPrices, Priced
<1>3. player = Fresh(NoPlayer) /\ commitment = Fresh(NoLineup) /\ lineup = Fresh(NoLineup)
      /\ result = [b \in Battles |-> "Absent"]
    BY DEF Init, InitBattles
<1> QED
    BY <1>1, <1>2, <1>3 DEF Contest!Init, Contest!Empty, Contest!Sides, Fresh, Sides, Priced

LEMMA ContestStep ==
    ASSUME ContestInv, RoundStep \/ UNCHANGED vars
    PROVE  [Contest!Next]_(Contest!contestVars)
<1>1. /\ UNCHANGED <<quorum, player, commitment, lineup, result>>
      /\ now \in Int /\ now' \in Int /\ now <= now' /\ RevealDeadline \in Int
      /\ roundState \notin {"Scheduled", "CommitOpen"}
             => roundState' \notin {"Scheduled", "CommitOpen"}
    BY RoundStepKeeps, ScheduleFacts
    DEF ContestInv, Justified, Typed, TypeOK, assetVars, battleVars, sideVars
<1>2. Priced' = Priced
    BY <1>1 DEF Priced
<1>3. CASE Stage' = Stage
    BY <1>1, <1>2, <1>3, SameView DEF ContestView
<1>4. CASE Stage' # Stage
    <2>1. \/ Stage = "Sealing" /\ Stage' \in {"Opening", "Settling"}
          \/ Stage = "Opening" /\ Stage' = "Settling"
        BY <1>1, <1>4 DEF Stage
    <2>2. Contest!MoveOn
        BY <1>1, <1>2, <2>1 DEF Contest!MoveOn, Priced
    <2> QED
        BY <2>2 DEF Contest!Next
<1> QED
    BY <1>3, <1>4

\* A step about the evidence of one asset, of either source.
LEMMA ContestPrices ==
    ASSUME ContestInv, UNCHANGED <<now, roundState, player, commitment, lineup, result>>,
           Priced' => now > RevealDeadline, Priced => Priced'
    PROVE  [Contest!Next]_(Contest!contestVars)
<1>1. Stage' = Stage
    BY DEF Stage
<1>2. CASE Priced' = Priced
    BY <1>1, <1>2, SameView DEF ContestView
<1>3. CASE ~ Priced /\ Priced'
    <2>1. Stage = "Settling"
        BY <1>3 DEF Stage
    <2>2. Contest!LearnPrice
        BY <1>1, <1>3, <2>1 DEF Contest!LearnPrice, Priced
    <2> QED
        BY <2>2 DEF Contest!Next
<1> QED
    BY <1>2, <1>3 DEF Priced

LEMMA ContestEntry ==
    ASSUME ContestInv, NEW b \in Battles, NEW i \in Players, NEW j \in Players,
           CreateRatedBattle(b, i, j)
    PROVE  Contest!Next
<1>1. Stage = "Sealing"
    BY ScheduleFacts
    DEF ContestInv, Justified, Typed, TypeOK, CreateRatedBattle, AdmissionOpen, Stage
<1>2. UNCHANGED <<now, roundState, quorum, commitment, lineup>>
    BY DEF CreateRatedBattle, assetVars, sideVars
<1>3. Stage' = Stage /\ Priced' = Priced
    BY <1>2 DEF Stage, Priced
<1>4. ASSUME NEW k \in {i, j}
      PROVE  \A c \in Battles, s \in Sides : player[c][s] # k
    BY RoundDataAssumption
    DEF CreateRatedBattle, ContestInv, Exposure, OneExposurePerPlayer
<1>5. Contest!Free(i) /\ Contest!Free(j)
    BY <1>4 DEF Contest!Free, Contest!Sides, Sides
<1>6. Contest!Enter(b, i, j)
    BY <1>1, <1>2, <1>3, <1>5
    DEF Contest!Enter, Contest!Sides, Sides, CreateRatedBattle, Priced
<1> QED
    BY <1>6 DEF Contest!Next

LEMMA ContestSeal ==
    ASSUME ContestInv, NEW b \in Battles, NEW s \in Sides, NEW l \in Lineups,
           CommitLineup(b, s, l)
    PROVE  Contest!Next
<1>1. Stage = "Sealing"
    BY ScheduleFacts
    DEF ContestInv, Justified, Typed, TypeOK, CommitLineup, CommitOpen, Stage
<1>2. UNCHANGED <<now, roundState, quorum, player, lineup, result>>
    BY DEF CommitLineup, roundVars, assetVars
<1>3. Stage' = Stage /\ Priced' = Priced
    BY <1>2 DEF Stage, Priced
<1>4. commitment[b][s] = NoLineup
    BY DEF CommitLineup, ContestInv, SidesCoherent
<1>5. Contest!Seal(b, s, l)
    BY <1>1, <1>2, <1>3, <1>4 DEF Contest!Seal, CommitLineup, Put, Pending, Priced
<1> QED
    BY <1>5 DEF Contest!Next, Contest!Sides, Sides

LEMMA ContestOpening ==
    ASSUME ContestInv, NEW b \in Battles, NEW s \in Sides, NEW l \in Lineups,
           RevealLineup(b, s, l)
    PROVE  Contest!Next
<1>1. Stage = "Opening"
    BY ScheduleFacts
    DEF ContestInv, Justified, Typed, TypeOK, RevealLineup, RevealOpen, Stage
<1>2. UNCHANGED <<now, roundState, quorum, player, commitment, result>>
    BY DEF RevealLineup, roundVars, assetVars
<1>3. Stage' = Stage /\ Priced' = Priced
    BY <1>2 DEF Stage, Priced
<1>4. commitment[b][s] = l /\ commitment[b][s] # NoLineup /\ lineup[b][s] = NoLineup
    BY DEF RevealLineup, OpensCommitment, ContestInv, SidesCoherent
<1>5. Contest!Open(b, s)
    BY <1>1, <1>2, <1>3, <1>4 DEF Contest!Open, RevealLineup, Put, Pending, Priced
<1> QED
    BY <1>5 DEF Contest!Next, Contest!Sides, Sides

\* Both sides are open and a price is known when a score decides.
LEMMA ScoresHavePrices ==
    ASSUME ContestInv, NEW b \in Battles, scored[b] = Sides
    PROVE  Priced /\ revealed[b] = Sides
<1>1. \A s \in Sides : SideJustified(b, s) /\ Cardinality(lineup[b][s].assets) = LineupSize
                       /\ lineup[b][s].assets \subseteq Assets
    BY DEF ContestInv, Justified, SidesJustified, SideJustified, EligibleLineups
<1>2. revealed[b] = Sides
    BY <1>1 DEF SideJustified, ContestInv, Justified, Typed, TypeOK
<1>3. lineup[b]["A"].assets # {}
    <2>1. Cardinality({}) = 0
        BY FS_EmptySet
    <2> QED
        BY <1>1, <2>1, RoundDataAssumption DEF Sides
<1>4. PICK a \in Assets : Available(a)
    BY <1>1, <1>3 DEF SideJustified, Sides
<1>5. quorum[a] # {}
    BY <1>4 DEF Available, Phases, ContestInv
<1> QED
    BY <1>2, <1>5 DEF Priced

LEMMA ContestVerdict ==
    ASSUME ContestInv, NEW b \in Battles, ResolveOnly(b) \/ FinalizeForfeit(b)
    PROVE  Contest!Next
<1> DEFINE v == result'[b]
<1>0. Typed /\ result \in [Battles -> Results]
    BY DEF ContestInv, Justified, Typed, TypeOK
<1>1. /\ Pending(b)
      /\ UNCHANGED <<now, roundState, quorum, player, commitment, lineup>>
      /\ result' = [result EXCEPT ![b] = v]
      /\ v \in Contest!Verdicts
    <2>1. Resolves(b)
        BY <1>0, ResolvesInOneWay
    <2> QED
        BY <1>0, <2>1 DEF Resolves, Resolve, Terminal, Results, Forfeits, ByScore,
                          Contest!Verdicts, assetVars
<1>2. Stage' = Stage /\ Priced' = Priced
    BY <1>1 DEF Stage, Priced
<1>3. Contest!Shut(b) = Sides \ revealed[b]
    BY DEF ContestInv, SidesCoherent, Contest!Shut, Contest!Sides, Sides
<1>4. \/ v \in {"PlayerA", "PlayerB", "Draw"} /\ Contest!ByScore(b)
      \/ Contest!ByForfeit(b, v)
      \/ v = "Voided"
    <2>1. CASE FinalizeBattle(b)
        <3>1. v \in {"PlayerA", "PlayerB", "Draw"}
            BY <1>0, <2>1 DEF FinalizeBattle, Resolve
        <3>2. Priced /\ revealed[b] = Sides
            BY <2>1, ScoresHavePrices DEF FinalizeBattle, CanFinalizeBattle
        <3> QED
            BY <1>3, <3>1, <3>2 DEF Contest!ByScore, Priced
    <2>2. CASE FinalizeForfeit(b)
        <3>1. /\ v = ForfeitBy(Sides \ revealed[b])
              /\ Sides \ revealed[b] # {}
              /\ now > RevealDeadline
            BY <1>0, <2>2 DEF FinalizeForfeit, CanFinalizeForfeit, Resolve
        <3>2. Stage = "Settling"
            BY <3>1 DEF Stage
        <3>3. Sides \ revealed[b] \in {{"A"}, {"B"}, Sides}
            BY <3>1 DEF Sides
        <3> QED
            BY <1>3, <3>1, <3>2, <3>3
            DEF Contest!ByForfeit, Contest!Sides, ForfeitBy, Sides
    <2>3. CASE VoidBattleIfPriceUnavailable(b)
        BY <1>0, <2>3 DEF VoidBattleIfPriceUnavailable, Resolve
    <2>4. CASE VoidBattleForSystemIncident(b)
        BY <1>0, <2>4 DEF VoidBattleForSystemIncident, Resolve
    <2>5. CASE CancelUncommittedBattle(b)
        BY <1>0, <2>5 DEF CancelUncommittedBattle, Resolve
    <2> QED
        BY <2>1, <2>2, <2>3, <2>4, <2>5 DEF ResolveOnly
<1>5. Contest!Decide(b, v)
    BY <1>1, <1>2, <1>4 DEF Contest!Decide, Pending, Priced
<1> QED
    BY <1>1, <1>5 DEF Contest!Next

LEMMA ContestScore ==
    ASSUME NEW b \in Battles, NEW s \in Sides, SettleSideScore(b, s)
    PROVE  UNCHANGED Contest!contestVars
<1>1. UNCHANGED <<now, roundState, quorum, player, commitment, lineup, result>>
    BY DEF SettleSideScore, roundVars, assetVars
<1> QED
    BY <1>1, SameView DEF ContestView, Stage, Priced

LEMMA ContestBattle ==
    ASSUME ContestInv, NEW b \in Battles, BattleStep(b)
    PROVE  [Contest!Next]_(Contest!contestVars)
    BY ContestEntry, ContestSeal, ContestOpening, ContestVerdict, ContestScore
    DEF BattleStep, SettleBattle, ResolveOnly

------------------------------------------------------------------------------
\* A round of attestor reports.
LEMMA InitContest == Init => ContestInv
    BY InitExposure, InitJustified, InitCoherent
    DEF ContestInv, Priced, Init, InitPrices

LEMMA PriceBattleOrRound ==
    ASSUME [Next]_vars
    PROVE  \/ RoundStep \/ UNCHANGED vars
           \/ \E a \in Assets, p \in Phases : ReachQuorum(a, p) \/ ResolvePricePhase(a, p)
           \/ \E b \in Battles : BattleStep(b)
    BY DEF Next, CoordinatorStep, PlayerStep, BattleStep

LEMMA ContestInvStep == Ordered /\ ContestInv /\ [Next]_vars => ContestInv'
<1> SUFFICES ASSUME Ordered, ContestInv, [Next]_vars PROVE ContestInv'
    OBVIOUS
<1>1. Exposure' /\ Justified' /\ SidesCoherent' /\ Ordered'
    BY ExposureStep, JustifiedStep, CoherentStep, OrderedStep DEF ContestInv, Justified
<1>2. (Priced => now > RevealDeadline)'
    BY <1>1 DEF Ordered, EvidenceFollowsReveals, Evidence, Priced
<1>3. (\A a \in Assets : finalized[a] \subseteq quorum[a])'
    <2> USE DEF ContestInv, Justified, Typed, TypeOK
    <2>1. CASE RoundStep \/ UNCHANGED vars
        BY <2>1, RoundStepKeeps DEF assetVars
    <2>2. ASSUME NEW a \in Assets, NEW p \in Phases,
                 ReachQuorum(a, p) \/ ResolvePricePhase(a, p)
          PROVE  \A x \in Assets : finalized'[x] \subseteq quorum'[x]
        <3>1. CASE ReachQuorum(a, p)
            BY <3>1 DEF ReachQuorum
        <3>2. CASE FinalizePricePhase(a, p)
            <4>1. /\ finalized' = [finalized EXCEPT ![a] = @ \cup {p}]
                  /\ quorum' = quorum /\ p \in quorum[a]
                BY <3>2 DEF FinalizePricePhase, CanFinalizePricePhase
            <4> QED
                BY <4>1
        <3>3. CASE MarkPricePhaseUnavailable(a, p)
            BY <3>3 DEF MarkPricePhaseUnavailable
        <3> QED
            BY <2>2, <3>1, <3>2, <3>3 DEF ResolvePricePhase
    <2>3. ASSUME NEW b \in Battles, BattleStep(b)
          PROVE  \A x \in Assets : finalized'[x] \subseteq quorum'[x]
        BY <2>3, PricesUntouched
    <2> QED
        BY <2>1, <2>2, <2>3, PriceBattleOrRound
<1> QED
    BY <1>1, <1>2, <1>3 DEF ContestInv

(***************************************************************************)
(* A round of attestor reports keeps the promise of RatedContest, for any  *)
(* battles, players, lineups, assets and schedule.                         *)
(***************************************************************************)
THEOREM CompetitionImplementsContest == Spec => ImplementsContest
<1>1. Ordered /\ ContestInv /\ Ordered' /\ [Next]_vars
          => [Contest!Next]_(Contest!contestVars)
    <2> SUFFICES ASSUME Ordered, ContestInv, Ordered', [Next]_vars
                 PROVE  [Contest!Next]_(Contest!contestVars)
        OBVIOUS
    <2>1. ASSUME NEW a \in Assets, NEW p \in Phases,
                 ReachQuorum(a, p) \/ ResolvePricePhase(a, p)
          PROVE  [Contest!Next]_(Contest!contestVars)
        <3>1. UNCHANGED <<now, roundState, player, commitment, lineup, result>>
            BY <2>1 DEF ReachQuorum, ResolvePricePhase, FinalizePricePhase,
                        MarkPricePhaseUnavailable, roundVars, battleVars, sideVars
        <3>2. \A x \in Assets : quorum[x] \subseteq quorum'[x]
            BY <2>1 DEF ReachQuorum, ResolvePricePhase, FinalizePricePhase,
                        MarkPricePhaseUnavailable, ContestInv, Justified, Typed, TypeOK
        <3>3. Priced => Priced'
            BY <3>2 DEF Priced
        <3>4. Priced' => now > RevealDeadline
            BY <3>1 DEF Ordered, EvidenceFollowsReveals, Evidence, Priced
        <3> QED
            BY <3>1, <3>3, <3>4, ContestPrices
    <2> QED
        BY <2>1, PriceBattleOrRound, ContestStep, ContestBattle
<1>2. Spec => []ContestInv
    BY InitContest, ContestInvStep, InitOrdered, OrderedStep, PTL DEF Spec
<1> QED
    BY <1>1, <1>2, OrderHolds, ContestInit, PTL DEF Spec, ImplementsContest, Contest!Spec

------------------------------------------------------------------------------
\* A round of Pyth readings.
LEMMA PythContestInvStep ==
    ASSUME ToleranceInsideGap
    PROVE  PythRound /\ PythRound' /\ EvidenceAfterReveals' /\ ContestInv
               /\ [PythNext]_pythVars => ContestInv'
<1> SUFFICES ASSUME PythRound, PythRound', EvidenceAfterReveals', ContestInv,
                    [PythNext]_pythVars
             PROVE  ContestInv'
    OBVIOUS
<1>1. Justified' /\ \A a \in Assets : finalized'[a] \subseteq quorum'[a]
    BY DEF PythRound, PriceInv, EvidenceHeld
<1>2. (Priced => now > RevealDeadline)'
    BY DEF EvidenceAfterReveals, Priced
<1>3. Exposure' /\ SidesCoherent'
    <2>1. CASE [Next]_vars
        BY <2>1, ExposureStep, CoherentStep DEF ContestInv, Justified
    <2>2. ASSUME NEW a \in Assets, NEW p \in Phases, PhaseStep(a, p)
          PROVE  Exposure' /\ SidesCoherent'
        <3>1. UNCHANGED battleVars
            BY <2>2, PhaseStepKeeps DEF PythRound
        <3>2. Typed'
            BY <1>1 DEF Justified
        <3> QED
            BY <3>1, <3>2 DEF ContestInv, Exposure, OneExposurePerPlayer, Created,
                              SidesCoherent, battleVars, sideVars
    <2> QED
        BY <2>1, <2>2, SharedOrPhaseStep
<1> QED
    BY <1>1, <1>2, <1>3 DEF ContestInv

(***************************************************************************)
(* A round of Pyth readings keeps the same promise, with the premise of    *)
(* LineupsPrecedeReadings.                                                 *)
(***************************************************************************)
THEOREM PythCompetitionImplementsContest ==
    ASSUME ToleranceInsideGap
    PROVE  PythSpec => ImplementsContest
<1>1. PythInit => Init
    BY DEF PythInit, Init, InitPythPrices, InitPrices
<1>2. PythInit => EvidenceAfterReveals
    BY DEF PythInit, InitRound, InitPythPrices, EvidenceAfterReveals
<1>3. EvidenceAfterReveals /\ [PythNext]_pythVars => EvidenceAfterReveals'
    BY EvidenceComesLate
<1>4. PythSpec => []EvidenceAfterReveals
    BY <1>2, <1>3, PTL DEF PythSpec
<1>5. PythRound /\ PythRound' /\ EvidenceAfterReveals' /\ ContestInv
          /\ [PythNext]_pythVars => ContestInv'
    BY PythContestInvStep
<1>6. PythSpec => []ContestInv
    BY <1>1, <1>4, <1>5, PythRoundHolds, InitContest, PTL DEF PythSpec
<1>7. PythRound /\ EvidenceAfterReveals' /\ ContestInv /\ [PythNext]_pythVars
          => [Contest!Next]_(Contest!contestVars)
    <2> SUFFICES ASSUME PythRound, EvidenceAfterReveals', ContestInv, [PythNext]_pythVars
                 PROVE  [Contest!Next]_(Contest!contestVars)
        OBVIOUS
    <2>1. ASSUME NEW a \in Assets, NEW p \in Phases, PhaseStep(a, p)
          PROVE  [Contest!Next]_(Contest!contestVars)
        <3>1. UNCHANGED <<now, roundState, player, commitment, lineup, result>>
            BY <2>1, PhaseStepKeeps DEF PythRound, roundVars, battleVars, sideVars
        <3>2. \A x \in Assets : quorum[x] \subseteq quorum'[x]
            BY <2>1 DEF PhaseStep, ResolvePythPhase, SubmitOrRecordPythEvidence,
                        FinalizePythPricePhase, MarkPythPricePhaseUnavailable,
                        PythRound, PriceInv, PricesTyped
        <3>3. Priced => Priced'
            BY <3>2 DEF Priced
        <3>4. Priced' => now > RevealDeadline
            BY <3>1 DEF EvidenceAfterReveals, Priced
        <3> QED
            BY <3>1, <3>3, <3>4, ContestPrices
    <2> QED
        BY <2>1, SharedOrPhaseStep, ContestStep, ContestBattle
<1> QED
    BY <1>1, <1>4, <1>6, <1>7, PythRoundHolds, ContestInit, PTL
    DEF PythSpec, ImplementsContest, Contest!Spec

=============================================================================
