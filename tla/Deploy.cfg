SPECIFICATION Spec
CONSTANTS
    d1 = d1
    d2 = d2
    Deploys <- TwoDeploys
    MaxVersion = 2
CHECK_DEADLOCK FALSE
INVARIANT TypeOK
PROPERTIES DeployInstallsSources DeployRunsInstalled NotReplacedUnderService
