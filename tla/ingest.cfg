SPECIFICATION IngestSpec
CONSTANTS
    ground = ground
    home = home
    valve = valve
    moisture = moisture
    a1 = a1
    c1 = c1
    c2 = c2
    None = None
    Bridges <- MCBridges
    Clients <- MCClients
    BridgeOf <- MCBridgeOf
    Devices <- MCDevices
    ShortAddrs = {a1, a2}
    SensorTypes <- MCSensorTypes
    Resource <- MCResource
    Namespace <- MCNamespace
    DeviceType <- MCDeviceType
    Disabled = {}
    MaxMessages = 2
    MaxChanges = 1
    Keys = {k1}
    HandledTypes = {moisture}
    Specs <- MCSpecs
    Pools = {p1}
    Reconcilers = {w1}
CHECK_DEADLOCK FALSE
INVARIANTS
    IngestTypeOK
    ReadingsAreIndependent
    RowsInArrivalOrder
PROPERTIES
    ReconnectLosesNothing
    MessagesAreHandled
