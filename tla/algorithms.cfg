SPECIFICATION AlgorithmsSpec
CONSTANTS
    Attestors <- MCAttestors
    Prices <- MCPrices
    MaxSpreadBps = 10000
    Members <- MCMembers
    MarginCap = 5
    TotalRounds = 3
    Ratings <- MCRatings
    Keys <- MCKeys
    Outcomes <- MCOutcomes
INVARIANT ScanSelectsBest
INVARIANT SelectedPriceAgrees
INVARIANT RepeatsOnlyWhenForced
INVARIANT ByesGoAround
INVARIANT StandingsAddUp
CHECK_DEADLOCK FALSE
