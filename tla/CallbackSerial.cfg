SPECIFICATION Spec
CONSTANTS
    Txns = {"t1", "t2"}
    KeyOrder <- TwoCodes
    Ids = {"btc", "eur"}
    NullCode = NullCode
    Installed <- Btc
    Seeds <- FreshTable
    MaxDate = 3
    MaxClock = 2
    PoolSize = 1
    MaxChanges = 2
CHECK_DEADLOCK FALSE
INVARIANTS OneRate RatesRegistered
PROPERTY CallPublishesWhole
