SPECIFICATION PythFairSpec
CONSTANTS
    Assets = {1}
    Battles = {b1}
    Players = {p1, p2}
    Lineups <- OneAsset
    LineupSize = 1
    Returns <- I64Returns
    QueueCloseAt = 1
    CommitDeadline = 2
    RevealDeadline = 3
    StartTarget = 5
    EndTarget = 6
    ObservationWindow = 1
    Grace = 1
    MaxTime = 9
    NoBattle = NoBattle
    NoPlayer = NoPlayer
    NoLineup = NoLineup
    Q9Digits = 1
    MaxShift = 3
    I64Max = 30
    MaxPayloadDelta = 3
    MaxFeedAge = 2
    MaxConfidenceBps = 1000
    Readings <- ReadingsAroundLimits
    MicrosPerSecond = 2
    NoEvidence = NoEvidence
INVARIANT ReturnFollowsEvidence
INVARIANT PythTerminalRoundSettled
INVARIANT PythScoresStayJustified
 
PROPERTY PythRoundCompletes
CHECK_DEADLOCK FALSE
