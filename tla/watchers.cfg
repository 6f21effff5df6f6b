SPECIFICATION FairSpec
CONSTANTS
    d1 = d1
    b1 = b1
    None = None
    Databases <- MCDatabases
    Bridges <- MCBridges
    MaxWrites = 4
    MaxFailures = 1
    MaxRestarts = 1
CHECK_DEADLOCK FALSE
INVARIANTS
    TypeOK
    DatabaseDropsHaveACause
PROPERTIES
    LatestSpecConnected
