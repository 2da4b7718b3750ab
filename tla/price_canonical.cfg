SPECIFICATION PricePathSpec
CONSTANTS
    Attestors <- MCAttestors
    Prices <- MCPrices
    MaxSpreadBps = 300
    StartTarget = 1
    EndTarget = 2
    ObservationWindow = 1
    Grace = 1
    ReturnScale = 1000
    MaxReturn = 40
    MaxTime = 5
    SampledFrom = 0
    SampledUntil = 5
    ReportCreatedAt = 5
    MinObservations = 2
    MinSourceBlocks = 2
    MaxSourceBlockLag = 3
    AssetCount = 2
    ChunkSize = 1
    AttestorCount = 3
    AttestorIndex = 1
    SampleInterval = 3
    ProviderLimit = 2000
    SubmissionGrace = 1
    PriceDigits = 1
    MaxPrice = 1000
    QuotesAt <- MCQuotesAt
    Lags = {0}
    Missing = Missing
    NoRelay = NoRelay
    MaxStarts = 2
    LastInstant = 5
INVARIANT FinalizedPriceIsCanonical
CHECK_DEADLOCK FALSE
