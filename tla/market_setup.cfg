SPECIFICATION SetupSpec
CONSTANTS
    Keys = {k1, k2}
    Entries <- MarketEntries
    MinEligible = {2}
    LastVersion <- MarketVersions
    RoundIds = {1, 2}
    Windows <- MarketWindows
    LineupSize = 1
    NoRound = NoRound
SYMMETRY InterchangeableKeys
INVARIANT DraftStaysFreezable
INVARIANT RoundsDoNotOverlap
INVARIANT FrozenRoundWellFormed
PROPERTY RoundRegistryFixed
CHECK_DEADLOCK FALSE
