SPECIFICATION FairSpec
CONSTANTS
    Rounds = {1, 2, 3}
    Wallets = {1, 2}
    PrivateRounds = {3}
    QueueCloseAt <- QueueCloseTimes
    StartAt <- StartTimes
    EndAt <- EndTimes
    MaxTime = 5
    MaxLag = 1
    InitialRating = 1500
    RatingFloor = 1490
    ForfeitPenalty = 8
    PossibleResults = {"PLAYER_A", "FORFEIT_B", "VOIDED"}
    RecentRematchWindow = 1
    Expected <- ExpectedLinear
    NoRow = NoRow
    NoBattle = NoBattle
    NoRating = NoRating
    Idle = Idle
INVARIANT QueueMatchesPairings
INVARIANT LedgerExplainsRatings
INVARIANT BattlesRatedWhole
 
CHECK_DEADLOCK FALSE
