SPECIFICATION FairSpec
CONSTANTS
    Assets = {1, 2}
    Battles = {b1}
    Players = {p1, p2}
    Lineups <- SoloLineups
    LineupSize = 1
    Returns <- SoloReturns
    QueueCloseAt = 1
    CommitDeadline = 2
    RevealDeadline = 3
    StartTarget = 4
    EndTarget = 5
    ObservationWindow = 1
    Grace = 1
    MaxTime = 8
    NoBattle = NoBattle
    NoPlayer = NoPlayer
    NoLineup = NoLineup
INVARIANT TerminalRoundSettled
INVARIANT OutcomeJustified
INVARIANT PlanKeepsUp
PROPERTY AssetsResolveAsPromised
PROPERTY EveryBattleResolves
PROPERTY RoundCompletesOnceStarted
CHECK_DEADLOCK FALSE
