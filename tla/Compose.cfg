SPECIFICATION SiteSpec
CONSTANTS
    MaxRetries = 2
    MaxOps = 3
    MaxCrashes = 2
    Settings <- MCSettings
CHECK_DEADLOCK FALSE
INVARIANTS TypeOK NewDatabaseIsNew
PROPERTIES BackendRuns ConfiguredModulesWork DocumentationShown
