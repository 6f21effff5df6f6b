SPECIFICATION Spec
CONSTANTS
    ground = ground
    first = first
    garage = garage
    home = home
    shed = shed
    valve = valve
    room = room
    tank = tank
    a1 = a1
    a2 = a2
    moisture = moisture
    c1 = c1
    c2 = c2
    c3 = c3
    None = None
    Bridges <- MCBridges
    Clients <- MCClients
    BridgeOf <- MCBridgeOf
    Devices <- MCDevices
    ShortAddrs = {a1, a2}
    SensorTypes = {moisture}
    Resource <- MCResource
    Namespace <- MCNamespace
    DeviceType <- MCDeviceType
    Disabled <- MCDisabled
    MaxMessages = 2
    MaxChanges = 1
SYMMETRY AddressSymmetry
CHECK_DEADLOCK FALSE
INVARIANTS
    DisabledNotProcessed
