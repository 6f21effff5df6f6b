SPECIFICATION Spec
CONSTANTS
    m1 = m1
    m2 = m2
    m3 = m3
    m4 = m4
    m5 = m5
    hall = hall
    tank = tank
    name = name
    nameWithNul = nameWithNul
    nuls = nuls
    addr1 = addr1
    addr2 = addr2
    Scale = 10
    None = None
    Messages <- MCMessages
    DeviceOf <- MCDeviceOf
    TypeOf <- MCTypeOf
    Reading <- MCReading
    Settings <- MCSettings
    DeviceIDs <- MCDeviceIDs
    Values <- MCValues
    Sanitize <- MCSanitize
    Writers = {w1, w2, w3}
SYMMETRY WriterSymmetry
CHECK_DEADLOCK FALSE
INVARIANTS
    TypeOK
    StoredExactlyOnce
    RowsHaveOwners
    RowsHoldCorrectedReadings
    DuplicateOnlyAtFirstContact
    DevicesSanitized
PROPERTIES
    SavesUndoNothing
