SPECIFICATION Spec
CONSTANTS
    Assets = {1}
    Battles = {b1, b2}
    Players = {p1, p2, p3, p4}
    Lineups <- SizedLineups
    LineupSize = 1
    Returns <- LoneReturns
    QueueCloseAt = 1
    CommitDeadline = 2
    RevealDeadline = 3
    StartTarget = 4
    EndTarget = 5
    ObservationWindow = 1
    Grace = 1
    MaxTime = 8
    NoBattle = NoBattle
    NoPlayer = NoPlayer
    NoLineup = NoLineup
SYMMETRY Interchangeable
INVARIANT CountersMatchBattles
INVARIANT OneExposurePerPlayer
PROPERTY NoCommitAfterReveal
CHECK_DEADLOCK FALSE
PROPERTY NoHindsight
PROPERTY ImplementsContest
