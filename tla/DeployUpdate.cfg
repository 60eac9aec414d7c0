SPECIFICATION Spec
CONSTANTS
    d1 = d1
    d2 = d2
    Deploys <- OneDeploy
    MaxVersion = 2
CHECK_DEADLOCK FALSE
PROPERTY UpdateRestarts
