----------------------------- MODULE Competition -----------------------------
(***************************************************************************)
(* One market round from its freeze to its completion: the instructions of *)
(* round.rs, price.rs and battle.rs, sent by the coordinator, the players, *)
(* the attestors and any number of keepers, in every order the clock and   *)
(* the accounts allow. Each instruction is atomic, as a transaction is.    *)
(***************************************************************************)
EXTENDS RoundLifecycle, AssetPrices, BattleLifecycle

Init == InitRound /\ InitPrices /\ InitBattles

ResolvePricePhase(a, p) == FinalizePricePhase(a, p) \/ MarkPricePhaseUnavailable(a, p)

PlayerStep(b, s, l) == CommitLineup(b, s, l) \/ RevealLineup(b, s, l)

CoordinatorStep(b) ==
    \/ \E i, j \in Players : CreateRatedBattle(b, i, j)
    \/ VoidBattleForSystemIncident(b)
    \/ CancelUncommittedBattle(b)

Next ==
    \/ RoundStep
    \/ \E a \in Assets, p \in Phases : ReachQuorum(a, p) \/ ResolvePricePhase(a, p)
    \/ \E b \in Battles : CoordinatorStep(b) \/ SettleBattle(b)
    \/ \E b \in Battles, s \in Sides, l \in Lineups : PlayerStep(b, s, l)

Spec == Init /\ [][Next]_vars

(***************************************************************************)
(* Keepers send every permissionless instruction that stays possible: any  *)
(* of them may retry a round transition, and the settlement planner yields *)
(* the other instructions from each new snapshot. Nothing is assumed of    *)
(* players, attestors, the coordinator or the admin.                       *)
(***************************************************************************)
Fairness ==
    /\ WF_vars(Tick)
    /\ WF_vars(AdvanceMarketRound)
    /\ WF_vars(FinalizeMarketRound)
    /\ \A a \in Assets, p \in Phases : WF_vars(ResolvePricePhase(a, p))
    /\ \A b \in Battles : WF_vars(SettleBattle(b))

FairSpec == Spec /\ Fairness

-----------------------------------------------------------------------------
Scores == {0} \cup {LineupScore(l, r) :
                        l \in Lineups, r \in [Assets -> Returns \cup {0}]}

TypeOK ==
    /\ now \in 0..MaxTime
    /\ paused \in BOOLEAN
    /\ roundState \in RoundStates
    /\ ratedCount \in Nat
    /\ resolvedCount \in Nat
    /\ quorum \in [Assets -> SUBSET Phases]
    /\ finalized \in [Assets -> SUBSET Phases]
    /\ unavailable \in [Assets -> SUBSET Phases]
    /\ returnQ9 \in [Assets -> Returns \cup {0}]
    /\ slot \in [Players -> Battles \cup {NoBattle}]
    /\ player \in [Battles -> [Sides -> Players \cup {NoPlayer}]]
    /\ committed \in [Battles -> SUBSET Sides]
    /\ revealed \in [Battles -> SUBSET Sides]
    /\ scored \in [Battles -> SUBSET Sides]
    /\ commitment \in [Battles -> [Sides -> Lineups \cup {NoLineup}]]
    /\ lineup \in [Battles -> [Sides -> Lineups \cup {NoLineup}]]
    /\ score \in [Battles -> [Sides -> Scores]]
    /\ status \in [Battles -> [Sides -> Statuses]]
    /\ result \in [Battles -> Results]
    /\ voidReason \in [Battles -> VoidReasons]

(***************************************************************************)
(* rated_battle_count and resolved_battle_count are what the completion of *)
(* a round relies on; no sequence of admissions, retries and competing     *)
(* terminal instructions makes them differ from the battles themselves.    *)
(***************************************************************************)
CountersMatchBattles ==
    /\ ratedCount = Cardinality(Created)
    /\ resolvedCount = Cardinality({b \in Battles : Decided(b)})

(***************************************************************************)
(* A completed round leaves nothing open: every battle has its result and  *)
(* every price phase its verdict. It is Finalized exactly when every asset *)
(* has both prices, and then no battle was voided for a missing price.     *)
(***************************************************************************)
TerminalRoundSettled ==
    roundState \in {"Finalized", "Voided"} =>
        /\ \A b \in Battles : ~ Pending(b)
        /\ \A a \in Assets : Resolved(a)
        /\ roundState = "Finalized" <=> \A a \in Assets : Available(a)
        /\ roundState = "Finalized" =>
               \A b \in Battles : voidReason[b] # "PriceUnavailable"

PriceVoidJustified(b) ==
    \E s \in revealed[b], a \in Assets :
        a \in lineup[b][s].assets /\ unavailable[a] # {}

(***************************************************************************)
(* A result stays justified by what is on chain now, not only by what was  *)
(* there when it was given: scores are those of the committed lineups on   *)
(* the final returns, a forfeit falls on the sides that did not reveal and *)
(* a void for prices names an asset that never got its price.              *)
(***************************************************************************)
OutcomeJustified ==
    \A b \in Battles :
        /\ result[b] \in Forfeits => ForfeitJustified(b)
        /\ result[b] \in ByScore => ScoresJustified(b)
        /\ voidReason[b] = "PriceUnavailable" => PriceVoidJustified(b)
        /\ voidReason[b] # "None" <=> result[b] = "Voided"

(***************************************************************************)
(* A player is in at most one rated battle of a round, on one side of it,  *)
(* and the RatedSlot that says so agrees with the battle, whatever became  *)
(* of the battle.                                                          *)
(***************************************************************************)
OneExposurePerPlayer ==
    /\ \A i \in Players, b \in Battles :
           slot[i] = b <=> \E s \in Sides : player[b][s] = i
    /\ \A b \in Created : player[b]["A"] # player[b]["B"]

(***************************************************************************)
(* Nobody commits to a lineup, in any battle of the round, once some       *)
(* lineup has been revealed: the clock test of commit_lineup alone admits  *)
(* the second in which the keeper opens the reveals.                       *)
(***************************************************************************)
NoCommitAfterReveal ==
    [][(\E b \in Battles : revealed[b] # {}) => committed' = committed]_vars

(***************************************************************************)
(* Lineups are fixed before any price evidence exists: from the first      *)
(* report quorum on, nothing is committed or revealed, however late the    *)
(* keepers move the round on.                                              *)
(***************************************************************************)
NoHindsight ==
    [][(\E a \in Assets : quorum[a] \cup finalized[a] \cup unavailable[a] # {})
           => UNCHANGED <<player, committed, revealed, commitment, lineup>>]_vars

(***************************************************************************)
(* Once a battle has a result nothing about it changes any more: of two    *)
(* racing terminal instructions the second fails as a whole.               *)
(***************************************************************************)
ResolvedBattleFrozen ==
    [][\A b \in Battles : Decided(b) =>
           /\ result'[b] = result[b] /\ voidReason'[b] = voidReason[b]
           /\ scored'[b] = scored[b] /\ score'[b] = score[b]
           /\ revealed'[b] = revealed[b] /\ committed'[b] = committed[b]]_vars

(***************************************************************************)
(* The price phases of every asset of the round keep the promise that the  *)
(* report-level model of price.rs keeps.                                   *)
(***************************************************************************)
PhaseStatus(a, p) ==
    IF p \in finalized[a] THEN "Finalized"
    ELSE IF p \in unavailable[a] THEN "Unavailable" ELSE "Open"

Asset(a) == INSTANCE AssetResolution WITH
    closed <- {p \in Phases : now > Deadline(p)},
    quorum <- quorum[a],
    status <- [p \in Phases |-> PhaseStatus(a, p)]

AssetsResolveAsPromised ==
    /\ \A a \in Assets : Asset(a)!Init
    /\ [][\A a \in Assets : Asset(a)!Next \/ UNCHANGED Asset(a)!vars]_vars

-----------------------------------------------------------------------------
(***************************************************************************)
(* Every admitted battle gets a result from keepers alone, even when       *)
(* players vanish, prices are missing and the coordinator does nothing.    *)
(***************************************************************************)
EveryBattleResolves == \A b \in Battles : Pending(b) ~> Decided(b)

(***************************************************************************)
(* A round whose assets all got a start price is completed by keepers      *)
(* alone, whatever happens to its end prices.                              *)
(***************************************************************************)
RoundCompletesOnceStarted ==
    (\A a \in Assets : "Start" \in finalized[a])
        ~> roundState \in {"Finalized", "Voided"}

(***************************************************************************)
(* round.rs: "one unavailable asset makes the whole round `Voided`". A     *)
(* round with an unavailable asset is completed as such.                   *)
(***************************************************************************)
UnavailableAssetVoidsRound ==
    (\E a \in Assets : unavailable[a] # {}) ~> roundState = "Voided"

(***************************************************************************)
(* runtime_invariants.rs: "a paused-platform incident must produce         *)
(* SystemIncident rather than being misclassified as a player forfeit".    *)
(***************************************************************************)
NoForfeitWhilePaused ==
    [][paused => \A b \in Battles : result'[b] \in Forfeits => result[b] \in Forfeits]_vars

=============================================================================
