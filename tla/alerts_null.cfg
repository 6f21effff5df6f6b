SPECIFICATION Spec
CONSTANTS
    tank = tank
    room = room
    None = None
    Invalid = Invalid
    Devices <- MCDevices
    Condition <- MCCondition
    Disabled = {}
    Values <- MCValues
    Texts <- MCTexts
    Limit <- MCLimit
    MaxTime <- MCMaxTime
    MaxRows = 2
INVARIANTS
    SkippedWithoutValue
