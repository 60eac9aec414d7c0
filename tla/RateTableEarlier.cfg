SPECIFICATION ViewSpec
CONSTANTS
    usd = usd
    eur = eur
    btc = btc
    low = low
    high = high
    Pairs <- MCPairs
    Values <- MCValues
    NoRate = NoRate
    MaxDate = 4
    AllowEarlier = TRUE
    Ids <- MCIds
    Codes = {"USD", "EUR", "BTC"}
    NullCode = NullCode
    Installed <- MCInstalled
SYMMETRY ValueSymmetry
INVARIANT NoOverlap
