SPECIFICATION FairSpec
CONSTANTS
    moisture = moisture
    power = power
    None = None
    Keys = {k1, k2}
    SensorTypes <- MCSensorTypes
    HandledTypes <- MCHandledTypes
    Specs <- MCSpecs
    Pools = {p1, p2, p3}
    Reconcilers = {w1}
    Storers = {s1}
    Queriers = {q1}
INVARIANTS
    TypeOK
    WritesGoToInstalledPool
    InstalledPoolsReady
    AnswersComeFromInstalledPool
    MigratedPoolsAreInstalled
    LockIsGivenBack
PROPERTIES
    ImplementsSensorDatabases
    ConnectEventuallyReturns
