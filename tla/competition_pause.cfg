SPECIFICATION Spec
CONSTANTS
    Assets = {1}
    Battles = {b1}
    Players = {p1, p2}
    Lineups <- LoneLineups
    LineupSize = 1
    Returns <- LoneReturns
    QueueCloseAt = 1
    CommitDeadline = 2
    RevealDeadline = 3
    StartTarget = 4
    EndTarget = 5
    ObservationWindow = 1
    Grace = 1
    MaxTime = 8
    NoBattle = NoBattle
    NoPlayer = NoPlayer
    NoLineup = NoLineup
PROPERTY NoForfeitWhilePaused
CHECK_DEADLOCK FALSE
