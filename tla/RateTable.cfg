SPECIFICATION ViewSpec
CONSTANTS
    usd = usd
    eur = eur
    btc = btc
    low = low
    high = high
    Pairs <- MCPairs
    Values <- MCValues
    NoRate = NoRate
    MaxDate = 3
    AllowEarlier = FALSE
    Ids <- MCIds
    Codes = {"USD", "EUR", "BTC", "XBT"}
    NullCode = NullCode
    Installed <- MCInstalled
SYMMETRY ValueSymmetry
INVARIANTS TypeOK NoOverlap NoGap GetRateIsHistory ListingIsGetRate
PROPERTIES ImplementsHistory CallSetsOnePoint
