SPECIFICATION Spec
CONSTANTS
    Txns = {"t1", "t2"}
    KeyOrder <- TwoCodes
    Ids = {"btc", "eur"}
    NullCode = NullCode
    Installed <- BtcEur
    Seeds <- AllTables
    MaxDate = 4
    MaxClock = 3
    PoolSize = 2
    MaxChanges = 0
CHECK_DEADLOCK FALSE
INVARIANTS TypeOK NoGap PeriodsOrdered QuoteKept DeadlockNeedsOverlap OverlapNeedsRace
PROPERTY CallsEnd
