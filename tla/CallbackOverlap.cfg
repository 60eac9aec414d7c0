SPECIFICATION Spec
CONSTANTS
    Txns = {"t1", "t2"}
    KeyOrder <- OneCode
    Ids = {"eur"}
    NullCode = NullCode
    Installed <- Eur
    Seeds <- EachPairTable
    MaxDate = 3
    MaxClock = 2
    PoolSize = 2
    MaxChanges = 0
CHECK_DEADLOCK FALSE
INVARIANT OneRate
