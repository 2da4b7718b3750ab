SPECIFICATION Spec
CONSTANTS
    Rounds = {1}
    Wallets = {1, 2, 3, 4}
    PrivateRounds = {}
    QueueCloseAt <- QueueCloseTimes
    StartAt <- StartTimes
    EndAt <- EndTimes
    MaxTime = 4
    InitialRating = 1500
    RatingFloor = 100
    ForfeitPenalty = 8
    PossibleResults = {}
    RecentRematchWindow = 1
    NoRow = NoRow
    NoBattle = NoBattle
    NoRating = NoRating
    Candidates = {1, 2, 3}
    RegistrationCloseAt = 1
    MaxPlayers = 3
    TotalRounds = 1
    PendingJoinTtl = 1
    NoLeague = NoLeague
    Keys <- MCKeys
    NoAccount = NoAccount
    Movers = {3}
    Queuers = {3, 4}
INVARIANT CrossModeExclusion
INVARIANT ReservationsFollowMembership
INVARIANT LeaguePairedWhole
CHECK_DEADLOCK FALSE
