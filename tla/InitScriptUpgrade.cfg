SPECIFICATION Spec
CONSTANTS
    MaxMasters = 4
    MaxRuns = 4
    MaxPolls = 2
CHECK_DEADLOCK FALSE
INVARIANT UpgradeStopsOld
