---------------------------- MODULE PythCompetition ----------------------------
(***************************************************************************)
(* A market round that settles from Pyth Pro, from its freeze to its       *)
(* completion: the same round and battle instructions as in Competition,   *)
(* over the price phases of pyth.rs. handle_finalize_pyth_market_round     *)
(* makes the tests of the Jupiter handler on the accounts of this source.  *)
(***************************************************************************)
EXTENDS RoundLifecycle, PythPrices, BattleLifecycle

pythVars == <<vars, evidence>>

PythInit == InitRound /\ InitPythPrices /\ InitBattles

BattleStep(b) ==
    \/ \E i, j \in Players : CreateRatedBattle(b, i, j)
    \/ \E s \in Sides, l \in Lineups : CommitLineup(b, s, l) \/ RevealLineup(b, s, l)
    \/ SettleBattle(b)
    \/ VoidBattleForSystemIncident(b)
    \/ CancelUncommittedBattle(b)

ResolvePythPhase(a, p) ==
    FinalizePythPricePhase(a, p) \/ MarkPythPricePhaseUnavailable(a, p)

PythNext ==
    \/ RoundStep /\ UNCHANGED evidence
    \/ \E b \in Battles : BattleStep(b) /\ UNCHANGED evidence
    \/ \E a \in Assets, p \in Phases :
           \/ \E r \in Readings : SubmitOrRecordPythEvidence(a, p, r)
           \/ ResolvePythPhase(a, p)

(***************************************************************************)
(* Anyone may send these instructions, and a keeper retries them as long   *)
(* as they change something. No relayer is assumed to record any evidence. *)
(***************************************************************************)
PythFairness ==
    /\ WF_pythVars(Tick /\ UNCHANGED evidence)
    /\ WF_pythVars(AdvanceMarketRound /\ UNCHANGED evidence)
    /\ WF_pythVars(FinalizeMarketRound /\ UNCHANGED evidence)
    /\ \A a \in Assets, p \in Phases : WF_pythVars(ResolvePythPhase(a, p))
    /\ \A b \in Battles : WF_pythVars(SettleBattle(b) /\ UNCHANGED evidence)

PythSpec == PythInit /\ [][PythNext]_pythVars

PythFairSpec == PythSpec /\ PythFairness

-----------------------------------------------------------------------------
(***************************************************************************)
(* A settled return is the one of the two recorded readings, each of which *)
(* passes every test of validate_pyth_semantics; the evidence is recorded  *)
(* by one instruction and used by another that tests nothing of it again.  *)
(***************************************************************************)
ReturnFollowsEvidence ==
    \A a \in Assets :
        /\ "End" \in finalized[a] => "Start" \in finalized[a]
        /\ \A p \in finalized[a] :
               /\ evidence[a][p] # NoEvidence
               /\ p \notin unavailable[a]
               /\ evidence[a][p].confidence * 10000
                      <= MaxConfidenceBps * evidence[a][p].price
               /\ evidence[a][p].normalized = ToQ9(evidence[a][p])
        /\ "End" \in finalized[a] =>
               returnQ9[a] = ReturnOf(PriceOf(a, "Start"), PriceOf(a, "End"))

(***************************************************************************)
(* A Finalized round has every price, and keeps them. A Voided round had   *)
(* every phase decided, though a late reading may since have replaced the  *)
(* verdict that voided it. Neither leaves a battle open.                   *)
(***************************************************************************)
PythTerminalRoundSettled ==
    /\ roundState \in {"Finalized", "Voided"} =>
           /\ \A b \in Battles : ~ Pending(b)
           /\ \A a \in Assets : Resolved(a)
    /\ roundState = "Finalized" => \A a \in Assets : Available(a)

(***************************************************************************)
(* A battle decided by scores stays scored by the returns on chain, even   *)
(* when a phase was marked unavailable before it got its price.            *)
(***************************************************************************)
PythScoresStayJustified ==
    \A b \in Battles :
        /\ result[b] \in Forfeits => ForfeitJustified(b)
        /\ result[b] \in ByScore => ScoresJustified(b)

(***************************************************************************)
(* Lineups are fixed before the first reading of a start price exists, as  *)
(* long as the tolerance of the source stays inside the gap between the    *)
(* reveals and the start, which no instruction compares.                   *)
(***************************************************************************)
PythNoHindsight ==
    [][(\E a \in Assets : quorum[a] # {})
           => UNCHANGED <<player, committed, revealed, commitment, lineup>>]_pythVars

(***************************************************************************)
(* Keepers alone complete a round of this source, whatever readings were   *)
(* recorded: no order of marks and prices leaves a phase undecidable, as   *)
(* it does with attestor reports.                                          *)
(***************************************************************************)
PythRoundCompletes == <>(roundState \in {"Finalized", "Voided"})

=============================================================================
