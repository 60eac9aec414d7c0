SPECIFICATION Spec
CONSTANTS
    MaxMasters = 4
    MaxRuns = 4
    MaxPolls = 2
CHECK_DEADLOCK FALSE
INVARIANTS TypeOK RestartKeepsService UpgradeKeepsService
PROPERTY StopWins
