---------------------------- MODULE RoundLifecycle ----------------------------
(***************************************************************************)
(* The states of a market round after its freeze (round.rs), the pause     *)
(* switch (admin.rs) and the clock that both keepers and players race.     *)
(***************************************************************************)
EXTENDS RoundLedger

RoundStates ==
    {"Scheduled", "CommitOpen", "RevealOpen", "Live", "Ended", "Settling",
     "Finalized", "Voided"}

InitRound ==
    /\ now = 0
    /\ paused = FALSE
    /\ roundState = "Scheduled"
    /\ ratedCount = 0
    /\ resolvedCount = 0

Tick ==
    /\ now < MaxTime
    /\ now' = now + 1
    /\ UNCHANGED <<paused, roundVars, assetVars, battleVars>>

SetPause(flag) ==
    /\ paused' = flag
    /\ UNCHANGED <<now, roundVars, assetVars, battleVars>>

\* next_market_round_state: <<state, earliest time, next state>>.
ClockTransitions ==
    {<<"Scheduled", QueueCloseAt, "CommitOpen">>,
     <<"CommitOpen", CommitDeadline, "RevealOpen">>,
     <<"RevealOpen", StartTarget, "Live">>,
     <<"Live", EndTarget, "Ended">>,
     <<"Ended", 0, "Settling">>}

CanAdvanceMarketRound ==
    \E t \in ClockTransitions : roundState = t[1] /\ now >= t[2]

\* One transition a call, by any keeper.
AdvanceMarketRound ==
    /\ \E t \in ClockTransitions :
           /\ roundState = t[1]
           /\ now >= t[2]
           /\ roundState' = t[3]
    /\ UNCHANGED <<now, paused, ratedCount, resolvedCount, assetVars, battleVars>>

\* Mutated form: the battles that were admitted are not counted.
AllAssetsResolved == \A a \in Assets : Resolved(a)

ReadyToFinalize ==
    /\ ratedCount = resolvedCount
    /\ \A a \in Assets : Resolved(a)

\* Mutated form: only a missing start price voids the round.
RoundVoidedByStart == \E a \in Assets : "Start" \in unavailable[a]

RoundIsVoided == \E a \in Assets : unavailable[a] # {}

\* The caller supplies the complete set of round assets.
CanFinalizeMarketRound == roundState = "Settling" /\ ReadyToFinalize

FinalizeMarketRound ==
    /\ CanFinalizeMarketRound
    /\ roundState' = IF RoundIsVoided THEN "Voided" ELSE "Finalized"
    /\ UNCHANGED <<now, paused, ratedCount, resolvedCount, assetVars, battleVars>>

RoundStep ==
    \/ Tick
    \/ \E flag \in BOOLEAN : SetPause(flag)
    \/ AdvanceMarketRound
    \/ FinalizeMarketRound

=============================================================================
