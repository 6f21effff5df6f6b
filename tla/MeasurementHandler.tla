------------------------ MODULE MeasurementHandler -------------------------
(***************************************************************************)
(* StoreMeasurement of the moisture, valve, water level and room handlers  *)
(* (internal/database/*_handler.go), which differ only in the columns of   *)
(* the measurement and in the battery row, which the room handler lacks.   *)
(* They are called with the payload that storeMeasurement builds.          *)
(*                                                                         *)
(* Several goroutines run it at once on one database (RWMutex.RLock lets   *)
(* them), each statement is a transaction of its own, and a statement that *)
(* returns an error may still have been committed: the connection can go   *)
(* down before the answer comes.  The schema is external; its unique index *)
(* on devices.device_id is what First-then-Create relies on.               *)
(***************************************************************************)
EXTENDS Payloads, FiniteSets, Sequences

CONSTANTS
    Messages,   \* the measurements to store, each delivered once
    DeviceOf,   \* Messages -> device_id, the name of the Device resource
    TypeOf,     \* Messages -> sensor type, which selects the handler
    Reading,    \* Messages -> the fields of its ZigbeeDevice
    Settings,   \* Messages -> the device's friendly name and corrections
    DeviceIDs,
    Values,     \* texts, the empty one excepted
    Sanitize,   \* Values -> Values, or None: sanitizeString
    Writers     \* goroutines

Columns == {"device_name", "short_addr", "ieee_addr"}

Payload == [m \in Messages |-> BuildPayload(Reading[m], Settings[m])]

ASSUME HandlerAssumption ==
    /\ DeviceOf \in [Messages -> DeviceIDs]
    /\ Sanitize \in [Values -> Values \cup {None}]
    /\ \A v \in Values : Sanitize[v] # None => Sanitize[Sanitize[v]] = Sanitize[v]
    /\ \A m \in Messages :
          /\ DOMAIN Reading[m] \subseteq TextFields \cup FloatFields \cup IntFields
          /\ \A k \in DOMAIN Reading[m] :
                /\ Reading[m][k] \in IF k \in TextFields THEN Values ELSE Int
                /\ k \in IntFields => Reading[m][k] % Scale = 0
          /\ Settings[m].friendlyName \in Values \cup {None}
          /\ None \notin DOMAIN Settings[m].corrections
          /\ \A k \in DOMAIN Settings[m].corrections : Settings[m].corrections[k] \in Int \cup {None}
    /\ None \notin Values \cup Messages \cup [Columns -> Values \cup {None}]

VARIABLES
    devices,      \* table devices: device_id -> row or None
    measurements, \* the measurement rows that each message left
    batteries,    \* the value of its battery row, or None
    links,        \* the value of its link quality row, or None
    call,         \* each goroutine's call of StoreMeasurement
    results       \* what StoreMeasurement returned for each message

vars == <<devices, measurements, batteries, links, call, results>>

Row == [Columns -> Values \cup {None}]

CallPc == {"idle", "find", "create", "save", "insert", "battery", "link"}

TypeOK ==
    /\ devices \in [DeviceIDs -> Row \cup {None}]
    /\ \A m \in Messages :
          measurements[m] \in Seq([MeasurementColumns(TypeOf[m]) -> Int \cup {None}])
    /\ {batteries, links} \subseteq [Messages -> Int \cup {None}]
    /\ call \in [Writers -> [pc : CallPc, msg : Messages \cup {None}, row : Row \cup {None},
                             known : BOOLEAN]]
    /\ results \in [Messages -> {"none", "pending", "stored", "failed", "duplicate"}]

Init ==
    /\ devices = [d \in DeviceIDs |-> None]
    /\ measurements = [m \in Messages |-> <<>>]
    /\ batteries = [m \in Messages |-> None]
    /\ links = [m \in Messages |-> None]
    /\ call = [w \in Writers |-> [pc |-> "idle", msg |-> None, row |-> None, known |-> FALSE]]
    /\ results = [m \in Messages |-> "none"]

Message(w) == call[w].msg
Device(w) == DeviceOf[Message(w)]

Has(m, key) == key \in DOMAIN Payload[m]

\* Mutant: short_addr is read from the key that TelemetryHandler writes.
PayloadKeyDevice ==
    [device_name |-> "Name", short_addr |-> "Device", ieee_addr |-> "IEEEAddr"]

\* The payload keys the handlers read for the columns of devices.
PayloadKey ==
    [device_name |-> "Name", short_addr |-> "databaseiotgorm.Device", ieee_addr |-> "IEEEAddr"]

\* Mutant: columns without a value are left out of the row.
NewRowSparse(m) ==
    [c \in {col \in Columns : Has(m, PayloadKey[col])} |-> Sanitize[Payload[m][PayloadKey[c]]]]

\* The row Create inserts.
NewRow(m) ==
    [c \in Columns |-> IF Has(m, PayloadKey[c]) THEN Sanitize[Payload[m][PayloadKey[c]]]
                                                ELSE None]

\* The columns of an existing row that differ from the payload; the payload's
\* value is compared before it is sanitized.
Changed(m, row) ==
    {c \in Columns : Has(m, PayloadKey[c]) /\ row[c] # Payload[m][PayloadKey[c]]}

\* Mutant: an update stores the payload's value as it came.
UpdatedRowRaw(m, row) ==
    [c \in Columns |-> IF c \in Changed(m, row) THEN Payload[m][PayloadKey[c]] ELSE row[c]]

UpdatedRow(m, row) ==
    [c \in Columns |-> IF c \in Changed(m, row) THEN Sanitize[Payload[m][PayloadKey[c]]]
                                                ELSE row[c]]

Goto(w, pc, row) == call' = [call EXCEPT ![w] = [@ EXCEPT !.pc = pc, !.row = row]]

Return(w, result) ==
    /\ call' = [call EXCEPT ![w] = [pc |-> "idle", msg |-> None, row |-> None, known |-> FALSE]]
    /\ results' = [results EXCEPT ![Message(w)] = result]

-----------------------------------------------------------------------------

\* known: whether the device had a row when the call began (history only).
StoreMeasurement(w) ==
    /\ call[w].pc = "idle"
    /\ \E m \in Messages :
          /\ results[m] = "none"
          /\ results' = [results EXCEPT ![m] = "pending"]
          /\ call' = [call EXCEPT ![w] = [pc |-> "find", msg |-> m, row |-> None,
                                          known |-> devices[DeviceOf[m]] # None]]
    /\ UNCHANGED <<devices, measurements, batteries, links>>

\* Mutant: any error of First is taken for a missing row.
FindOrAssumeMissing(w) ==
    LET m == Message(w)
        row == devices[Device(w)]
    IN  /\ call[w].pc = "find"
        /\ \/ Goto(w, "create", None)
           \/ row # None /\ Changed(m, row) # {} /\ Goto(w, "save", UpdatedRow(m, row))
           \/ row # None /\ Changed(m, row) = {} /\ Goto(w, "insert", row)
        /\ UNCHANGED <<devices, measurements, batteries, links, results>>

Find(w) ==
    LET m == Message(w)
        row == devices[Device(w)]
    IN  /\ call[w].pc = "find"
        /\ \/ row = None /\ Goto(w, "create", None)
           \/ row # None /\ Changed(m, row) # {} /\ Goto(w, "save", UpdatedRow(m, row))
           \/ row # None /\ Changed(m, row) = {} /\ Goto(w, "insert", row)
        /\ UNCHANGED <<devices, measurements, batteries, links, results>>

FindFails(w) ==
    /\ call[w].pc = "find"
    /\ Return(w, "failed")
    /\ UNCHANGED <<devices, measurements, batteries, links>>

\* Mutant: a failed Create is only logged.
CreateDeviceLenient(w) ==
    LET new == [devices EXCEPT ![Device(w)] = NewRow(Message(w))]
    IN  /\ call[w].pc = "create"
        /\ \/ devices[Device(w)] = None /\ devices' = new
           \/ devices' = devices
        /\ Goto(w, "insert", NewRow(Message(w)))
        /\ UNCHANGED <<measurements, batteries, links, results>>

\* A Create that violates the unique index inserts nothing and fails.
CreateDevice(w) ==
    LET new == [devices EXCEPT ![Device(w)] = NewRow(Message(w))]
    IN  /\ call[w].pc = "create"
        /\ IF devices[Device(w)] # None
           THEN /\ devices' = devices
                /\ Return(w, "duplicate")
           ELSE \/ /\ devices' = new
                   /\ Goto(w, "insert", NewRow(Message(w)))
                   /\ results' = results
                \/ /\ devices' \in {devices, new}
                   /\ Return(w, "failed")
        /\ UNCHANGED <<measurements, batteries, links>>

\* Save writes every column of the row that was read; its error is ignored.
SaveDevice(w) ==
    /\ call[w].pc = "save"
    /\ devices' \in {devices, [devices EXCEPT ![Device(w)] = call[w].row]}
    /\ Goto(w, "insert", call[w].row)
    /\ UNCHANGED <<measurements, batteries, links, results>>

\* The table with the row of w's message.
WithMeasurement(w) ==
    LET m == Message(w)
    IN  [measurements EXCEPT ![m] = Append(@, MeasurementRow(TypeOf[m], Payload[m]))]

\* Mutant: an error of the insert is answered by a second try.
InsertAgain(w) ==
    /\ call[w].pc = "insert"
    /\ measurements' = WithMeasurement(w)
    /\ \/ Goto(w, "battery", call[w].row)
       \/ Goto(w, "insert", call[w].row)
    /\ UNCHANGED <<devices, batteries, links, results>>

InsertMeasurement(w) ==
    /\ call[w].pc = "insert"
    /\ \/ /\ measurements' = WithMeasurement(w)
          /\ Goto(w, "battery", call[w].row)
          /\ results' = results
       \/ /\ measurements' \in {measurements, WithMeasurement(w)}
          /\ Return(w, "failed")
    /\ UNCHANGED <<devices, batteries, links>>

\* table, with or without the value of the payload's key if it has one: the
\* error of such an insert is only logged.
Inserted(table, m, key) ==
    {table} \cup IF Has(m, key) THEN {[table EXCEPT ![m] = Truncate(Payload[m][key])]} ELSE {}

InsertBattery(w) ==
    /\ call[w].pc = "battery"
    /\ IF TypeOf[Message(w)] = "room"
       THEN batteries' = batteries
       ELSE batteries' \in Inserted(batteries, Message(w), "BatteryPercentage")
    /\ Goto(w, "link", call[w].row)
    /\ UNCHANGED <<devices, measurements, links, results>>

InsertLinkQuality(w) ==
    /\ call[w].pc = "link"
    /\ links' \in Inserted(links, Message(w), "LinkQuality")
    /\ Return(w, "stored")
    /\ UNCHANGED <<devices, measurements, batteries>>

Step(w) ==
    \/ Find(w) \/ FindFails(w) \/ CreateDevice(w) \/ SaveDevice(w)
    \/ InsertMeasurement(w) \/ InsertBattery(w) \/ InsertLinkQuality(w)

Next == \E w \in Writers : StoreMeasurement(w) \/ Step(w)

Spec == Init /\ [][Next]_vars

-----------------------------------------------------------------------------
(* Properties *)

\* Each message leaves at most one measurement row, a store that returned nil
\* left exactly one, and one that lost the race to create its device left
\* none, whatever statements fail and in whatever order goroutines interleave.
StoredExactlyOnce ==
    \A m \in Messages :
        /\ Len(measurements[m]) <= 1
        /\ results[m] = "stored" => measurements[m] # <<>>
        /\ results[m] = "duplicate" => measurements[m] = <<>>

\* No row points to a device that was never inserted, and a battery or link
\* quality row never stands without the measurement it came with.
RowsHaveOwners ==
    \A m \in Messages :
        /\ measurements[m] # <<>> => devices[DeviceOf[m]] # None
        /\ batteries[m] # None \/ links[m] # None => measurements[m] # <<>>

\* What a column holds is what the message reported, corrected once: exactly for
\* the float columns, as a whole number less than one off for the int columns,
\* whose corrections are truncated.  A column is NULL only if the message did
\* not report it.
Holds(m, field, value) ==
    IF field \notin DOMAIN Reading[m] THEN value = None
    ELSE LET key   == CASE field \in DOMAIN CorrectedFloats -> CorrectedFloats[field]
                        [] field \in DOMAIN CorrectedInts -> CorrectedInts[field]
                        [] OTHER -> None
             exact == Reading[m][field] + Correction(Settings[m].corrections, key)
         IN  /\ value # None
             /\ IF field \in DOMAIN CorrectedFloats
                THEN value = exact
                ELSE value % Scale = 0 /\ value - exact \in (1 - Scale)..(Scale - 1)

RowsHoldCorrectedReadings ==
    \A m \in Messages :
        /\ \A i \in DOMAIN measurements[m], field \in MeasurementColumns(TypeOf[m]) :
              Holds(m, field, measurements[m][i][field])
        /\ batteries[m] # None => Holds(m, "BatteryPercentage", batteries[m])
        /\ links[m] # None => Holds(m, "LinkQuality", links[m])

\* The measurement of a device that has a row when the call begins is never
\* refused by the unique index: the find-or-create race costs a measurement
\* only at a device's very first contact.
DuplicateOnlyAtFirstContact ==
    \A w \in Writers : call[w].pc = "create" => ~call[w].known

\* Nothing reaches the devices table that sanitizeString would change (the
\* control characters PostgreSQL refuses).
DevicesSanitized ==
    \A d \in DeviceIDs : devices[d] # None =>
        \A c \in Columns : devices[d][c] # None => Sanitize[devices[d][c]] = devices[d][c]

\* With the payloads of TelemetryHandler (no IEEEAddr) a column of a row that is
\* there changes only to the value that the writing call's own message has for
\* it, although Save writes whole rows read earlier: no Save puts back what
\* another call has replaced meanwhile, and a name is emptied only by a name of
\* control characters, of which sanitizeString leaves nothing.  It holds because
\* only one column, device_name, is ever updated: if short_addr were read from
\* the payload too, two concurrent Saves would undo each other.
SavesUndoNothing ==
    [][\A d \in DeviceIDs, c \in Columns :
          devices[d] # None /\ (devices'[d] = None \/ devices'[d][c] # devices[d][c]) =>
              /\ devices'[d] # None
              /\ \E w \in Writers :
                    /\ call'[w] # call[w] /\ Device(w) = d
                    /\ Has(Message(w), PayloadKey[c])
                    /\ devices'[d][c] = Sanitize[Payload[Message(w)][PayloadKey[c]]]]_vars

\* room_handler_test.go:64 says of the device row: "short_addr (from payload
\* "Device" field)".
ShortAddrFromPayload ==
    \A m \in Messages : results[m] = "stored" /\ Has(m, "Device") =>
        devices[DeviceOf[m]]["short_addr"] # None

=============================================================================
