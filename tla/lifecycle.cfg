SPECIFICATION FairSpec
CONSTANTS
    old = old
    new = new
    None = None
    Replicas <- MCReplicas
    RenewDeadline = 2
    LeaseDuration = 3
    MaxFaults = 4
INVARIANTS
    TypeOK
    OneActiveReplica
PROPERTIES
    EventuallyServing
