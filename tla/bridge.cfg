SPECIFICATION FairSpec
CONSTANTS
    None = None
    Keys = {b1}
    Topics = {t1, t2}
    Clients = {c1, c2}
    Goroutines = {g1, g2}
    Reconcilers = {w1}
INVARIANTS
    TypeOK
    OneLiveClientPerBridge
    LiveClientsAreReachable
    SuccessLeavesLiveClient
PROPERTIES
    ResubscribesAfterReconnect
    ImplementsBridgeLinks
