---------------------- MODULE MeasurementHandlerProofs ----------------------
(***************************************************************************)
(* The safety properties of MeasurementHandler, for every number of        *)
(* messages, devices and goroutines, every reading and every correction.   *)
(***************************************************************************)
EXTENDS MeasurementHandler, TLAPS

-----------------------------------------------------------------------------
(* Payloads *)

LEMMA WholeNumber ==
    ASSUME NEW x \in Int
    PROVE  x % Scale = 0 <=> \E q \in Int : x = Scale * q
  <1>1. Scale \in Nat \ {0}
    BY PayloadsAssumption
  <1>2. x = Scale * (x \div Scale) + (x % Scale) /\ x \div Scale \in Int
    BY <1>1
  <1>3. \A q \in Int : (Scale * q) % Scale = 0
    BY <1>1
  <1>4. ASSUME x % Scale = 0 PROVE x = Scale * (x \div Scale)
    BY <1>1, <1>2, <1>4
  <1> QED BY <1>2, <1>3, <1>4

\* A whole number plus a whole number is whole, and so is the negative of one.
LEMMA WholeSum ==
    ASSUME NEW x \in Int, NEW y \in Int, x % Scale = 0, y % Scale = 0
    PROVE  (x + y) % Scale = 0 /\ (-x) % Scale = 0
  <1>1. Scale \in Nat \ {0}
    BY PayloadsAssumption
  <1>2. PICK p \in Int : x = Scale * p
    BY WholeNumber
  <1>3. PICK q \in Int : y = Scale * q
    BY WholeNumber
  <1>4. x + y = Scale * (p + q) /\ -x = Scale * (-p)
    BY <1>1, <1>2, <1>3
  <1>5. p + q \in Int /\ -p \in Int /\ x + y \in Int /\ -x \in Int
    OBVIOUS
  <1> QED BY <1>4, <1>5, WholeNumber

\* int(x) is a whole number less than one off, and exact for a whole number.
LEMMA TruncateFacts ==
    ASSUME NEW x \in Int
    PROVE  /\ Truncate(x) \in Int /\ Truncate(x) % Scale = 0
           /\ Truncate(x) - x \in (1 - Scale)..(Scale - 1)
           /\ x % Scale = 0 => Truncate(x) = x
  <1>1. Scale \in Nat \ {0}
    BY PayloadsAssumption
  <1>2. CASE x >= 0
    <2>1. Truncate(x) = x - (x % Scale) /\ x % Scale \in 0..(Scale - 1)
      BY <1>1, <1>2 DEF Truncate
    <2>2. (x - (x % Scale)) % Scale = 0
      BY <1>1
    <2> QED BY <1>1, <2>1, <2>2
  <1>3. CASE x < 0
    <2>1. PICK y \in Int : y = -x
      OBVIOUS
    <2>2. Truncate(x) = x + (y % Scale) /\ y % Scale \in 0..(Scale - 1)
      BY <1>1, <1>3, <2>1 DEF Truncate
    <2>3. (y - (y % Scale)) % Scale = 0 /\ y - (y % Scale) \in Int /\ 0 % Scale = 0
      BY <1>1
    <2>4. (-(y - (y % Scale))) % Scale = 0
      BY <2>3, WholeSum
    <2>5. -(y - (y % Scale)) = x + (y % Scale)
      BY <1>1, <2>1
    <2>6. ASSUME x % Scale = 0 PROVE y % Scale = 0
      BY <2>1, <2>6, WholeSum
    <2> QED BY <1>1, <2>2, <2>4, <2>5, <2>6
  <1> QED BY <1>2, <1>3

Fields == TextFields \cup FloatFields \cup IntFields

LEMMA ReadingFacts ==
    ASSUME NEW m \in Messages
    PROVE  /\ DOMAIN Reading[m] \subseteq Fields
           /\ \A k \in DOMAIN Reading[m] :
                 /\ k \in TextFields => Reading[m][k] \in Values
                 /\ k \notin TextFields => Reading[m][k] \in Int
                 /\ k \in IntFields => Reading[m][k] % Scale = 0
           /\ Settings[m].friendlyName \in Values \cup {None}
           /\ None \notin DOMAIN Settings[m].corrections
           /\ \A k \in DOMAIN Settings[m].corrections :
                 Settings[m].corrections[k] \in Int \cup {None}
  BY HandlerAssumption DEF Fields

\* A correction is a number, zero when there is none to apply.
LEMMA CorrectionFacts ==
    ASSUME NEW m \in Messages, NEW k
    PROVE  /\ Correction(Settings[m].corrections, k) \in Int
           /\ Correction(Settings[m].corrections, None) = 0
  BY ReadingFacts DEF Correction

\* A number of the payload is the reading's, corrected.
LEMMA CorrectedFacts ==
    ASSUME NEW m \in Messages, NEW k \in FloatFields \cup IntFields, Has(m, k)
    PROVE  /\ k \in DOMAIN Reading[m] /\ Reading[m][k] \in Int
           /\ Payload[m][k] = Corrected(k, Reading[m][k], Settings[m].corrections)
           /\ Payload[m][k] \in Int
  <1>1. k \notin TextFields /\ k # "Name"
    BY DEF TextFields, FloatFields, IntFields
  <1>2. /\ k \in DOMAIN Reading[m]
        /\ Payload[m][k] = Corrected(k, Reading[m][k], Settings[m].corrections)
    BY <1>1 DEF Has, Payload, BuildPayload
  <1>3. Reading[m][k] \in Int
    BY <1>1, <1>2, ReadingFacts
  <1>4. Corrected(k, Reading[m][k], Settings[m].corrections) \in Int
    <2> DEFINE c == Settings[m].corrections
    <2>1. \A key : Correction(c, key) \in Int /\ Truncate(Correction(c, key)) \in Int
      BY CorrectionFacts, TruncateFacts
    <2> HIDE DEF c
    <2>2. \A key : /\ ApplyCorrectionToFloat(Reading[m][k], key, c) \in Int
                  /\ ApplyCorrectionToInt(Reading[m][k], key, c) \in Int
      BY <1>3, <2>1 DEF ApplyCorrectionToFloat, ApplyCorrectionToInt
    <2>3. Corrected(k, Reading[m][k], c) \in Int
      BY <1>3, <2>2 DEF Corrected
    <2> QED BY <2>3 DEF c
  <1> QED BY <1>2, <1>3, <1>4

LEMMA TextFacts ==
    ASSUME NEW m \in Messages
    PROVE  /\ Has(m, "Name") => Payload[m]["Name"] \in Values
           /\ ~Has(m, "databaseiotgorm.Device") /\ ~Has(m, "IEEEAddr")
  <1>1. DOMAIN Payload[m] \subseteq Fields
    BY ReadingFacts DEF Payload, BuildPayload, Fields, TextFields
  <1>2. ~Has(m, "databaseiotgorm.Device") /\ ~Has(m, "IEEEAddr")
    BY <1>1 DEF Has, Fields, TextFields, FloatFields, IntFields
  <1>3. ASSUME Has(m, "Name") PROVE Payload[m]["Name"] \in Values
    <2>1. CASE Settings[m].friendlyName # None
      BY <2>1, ReadingFacts DEF Payload, BuildPayload
    <2>2. CASE Settings[m].friendlyName = None
      <3>1. /\ "Name" \in DOMAIN Reading[m]
            /\ Payload[m]["Name"] = Corrected("Name", Reading[m]["Name"], Settings[m].corrections)
        BY <1>3, <2>2 DEF Payload, BuildPayload, Has
      <3>2. Payload[m]["Name"] = Reading[m]["Name"]
        BY <3>1 DEF Corrected, CorrectedFloats, CorrectedInts
      <3> QED BY <3>1, <3>2, ReadingFacts DEF TextFields
    <2> QED BY <2>1, <2>2
  <1> QED BY <1>2, <1>3

\* Rounding the sum of a whole reading and a rounded correction rounds once.
LEMMA IntHolds ==
    ASSUME NEW m \in Messages, NEW k \in IntFields, Has(m, k)
    PROVE  Holds(m, k, Truncate(Payload[m][k])) /\ Truncate(Payload[m][k]) \in Int
  <1> DEFINE r == Reading[m][k]
             c == Settings[m].corrections
  <1>1. k \notin DOMAIN CorrectedFloats
    BY DEF CorrectedFloats, IntFields
  <1>2. k \in DOMAIN Reading[m] /\ r \in Int /\ Payload[m][k] = Corrected(k, r, c)
    BY CorrectedFacts
  <1>3. r % Scale = 0
    BY <1>2, ReadingFacts
  <1>4. Scale \in Nat \ {0} /\ None \notin Int
    BY PayloadsAssumption
  <1>5. CASE k \in DOMAIN CorrectedInts
    <2> DEFINE x == Correction(c, CorrectedInts[k])
    <2>1. x \in Int
      BY CorrectionFacts
    <2>2. /\ Truncate(x) \in Int /\ Truncate(x) % Scale = 0
          /\ Truncate(x) - x \in (1 - Scale)..(Scale - 1)
      BY <2>1, TruncateFacts
    <2>3. Payload[m][k] = r + Truncate(x)
      BY <1>1, <1>2, <1>5 DEF Corrected, ApplyCorrectionToInt
    <2> HIDE DEF x, r, c
    <2>4. (r + Truncate(x)) % Scale = 0 /\ r + Truncate(x) \in Int
      BY <1>2, <1>3, <2>2, WholeSum
    <2>5. Truncate(r + Truncate(x)) = r + Truncate(x)
      BY <2>4, TruncateFacts
    <2>6. (r + Truncate(x)) - (r + x) \in (1 - Scale)..(Scale - 1)
      BY <1>2, <1>4, <2>1, <2>2
    <2> QED BY <1>1, <1>2, <1>4, <1>5, <2>3, <2>4, <2>5, <2>6 DEF Holds, x, r, c
  <1>6. CASE k \notin DOMAIN CorrectedInts
    <2>1. Payload[m][k] = r
      BY <1>1, <1>2, <1>6 DEF Corrected
    <2>2. Truncate(r) = r
      BY <1>2, <1>3, TruncateFacts
    <2>3. Correction(c, None) = 0
      BY CorrectionFacts
    <2> HIDE DEF r
    <2>4. r + 0 = r /\ r - (r + 0) \in (1 - Scale)..(Scale - 1)
      BY <1>2, <1>4
    <2> QED BY <1>1, <1>2, <1>3, <1>4, <1>6, <2>1, <2>2, <2>3, <2>4 DEF Holds, r
  <1> QED BY <1>5, <1>6

LEMMA FloatHolds ==
    ASSUME NEW m \in Messages, NEW k \in FloatFields, Has(m, k)
    PROVE  Holds(m, k, Payload[m][k]) /\ Payload[m][k] \in Int
  <1>1. k \in DOMAIN CorrectedFloats
    BY DEF CorrectedFloats, FloatFields
  <1>2. /\ k \in DOMAIN Reading[m] /\ Payload[m][k] \in Int
        /\ Payload[m][k] = Corrected(k, Reading[m][k], Settings[m].corrections)
    BY CorrectedFacts
  <1>3. Payload[m][k] = Reading[m][k] + Correction(Settings[m].corrections, CorrectedFloats[k])
    BY <1>1, <1>2 DEF Corrected, ApplyCorrectionToFloat
  <1>4. DOMAIN CorrectedInts \cap DOMAIN CorrectedFloats = {} /\ None \notin Int
    BY PayloadsAssumption DEF CorrectedFloats, CorrectedInts
  <1> QED BY <1>1, <1>2, <1>3, <1>4 DEF Holds

\* Every column of a measurement row holds what was reported, corrected once.
LEMMA RowHolds ==
    ASSUME NEW m \in Messages, NEW k \in MeasurementColumns(TypeOf[m])
    PROVE  LET row == MeasurementRow(TypeOf[m], Payload[m])
           IN  Holds(m, k, row[k]) /\ row[k] \in Int \cup {None}
  <1> DEFINE row == MeasurementRow(TypeOf[m], Payload[m])
  <1>1. /\ IntColumns(TypeOf[m]) \subseteq IntFields /\ FloatColumns(TypeOf[m]) \subseteq FloatFields
        /\ k \in IntColumns(TypeOf[m]) \cup FloatColumns(TypeOf[m])
    BY DEF MeasurementColumns, IntColumns, FloatColumns, IntFields, FloatFields
  <1>2. CASE ~Has(m, k)
    <2>1. row[k] = None
      BY <1>2 DEF MeasurementRow, Has
    <2>2. k \notin DOMAIN Reading[m]
      BY <1>2 DEF Has, Payload, BuildPayload
    <2> QED BY <2>1, <2>2 DEF Holds
  <1>3. CASE Has(m, k) /\ k \in IntColumns(TypeOf[m])
    <2>1. row[k] = Truncate(Payload[m][k])
      BY <1>3 DEF MeasurementRow, Has
    <2> QED BY <1>1, <1>3, <2>1, IntHolds
  <1>4. CASE Has(m, k) /\ k \notin IntColumns(TypeOf[m])
    <2>1. row[k] = Payload[m][k]
      BY <1>4 DEF MeasurementRow, Has
    <2> QED BY <1>1, <1>4, <2>1, FloatHolds
  <1> QED BY <1>2, <1>3, <1>4

-----------------------------------------------------------------------------
(* The inductive invariant *)

\* A row of devices: no more than a name, free of what sanitizeString removes.
GoodRow(row) ==
    /\ row \in Row
    /\ row["short_addr"] = None /\ row["ieee_addr"] = None
    /\ row["device_name"] # None => Sanitize[row["device_name"]] = row["device_name"]

\* The name in the row is the one of the message.
OwnName(m, row) == Has(m, "Name") /\ row["device_name"] = Sanitize[Payload[m]["Name"]]

OwnRow(m) == MeasurementRow(TypeOf[m], Payload[m])

\* Nothing of a message has been stored.
Blank(m) == measurements[m] = <<>> /\ batteries[m] = None /\ links[m] = None

\* What the tables hold of a message is its own, once; no row without the
\* measurement, no measurement without its device.
TablesInv ==
    /\ devices \in [DeviceIDs -> Row \cup {None}]
    /\ \A d \in DeviceIDs : devices[d] # None => GoodRow(devices[d])
    /\ DOMAIN measurements = Messages /\ measurements = [m \in Messages |-> measurements[m]]
    /\ \A m \in Messages : measurements[m] \in {<<>>, <<OwnRow(m)>>}
    /\ batteries \in [Messages -> Int \cup {None}]
    /\ links \in [Messages -> Int \cup {None}]
    /\ \A m \in Messages :
          /\ batteries[m] # None => Holds(m, "BatteryPercentage", batteries[m])
          /\ links[m] # None => Holds(m, "LinkQuality", links[m])
    /\ RowsHaveOwners

Call == [pc : CallPc, msg : Messages \cup {None}, row : Row \cup {None}, known : BOOLEAN]

\* How far the call of w has come.
CallOk(w) ==
    call[w].pc # "idle" =>
        /\ Message(w) \in Messages /\ results[Message(w)] = "pending"
        /\ call[w].pc \in {"find", "create", "save", "insert"} => Blank(Message(w))
        /\ call[w].pc \in {"battery", "link"} => measurements[Message(w)] # <<>>
        /\ call[w].pc \in {"save", "insert", "battery", "link"} \/ call[w].known =>
              devices[Device(w)] # None
        /\ call[w].pc = "create" => ~call[w].known
        /\ call[w].pc = "save" => GoodRow(call[w].row) /\ OwnName(Message(w), call[w].row)

\* No two calls run for one message.
CallsInv ==
    /\ call \in [Writers -> Call]
    /\ \A w \in Writers : CallOk(w)
    /\ \A v, w \in Writers : v # w /\ call[v].pc # "idle" /\ call[w].pc # "idle" =>
          Message(v) # Message(w)

\* What a message's result says of the tables.
ResultsInv ==
    /\ results \in [Messages -> {"none", "pending", "stored", "failed", "duplicate"}]
    /\ \A m \in Messages :
          /\ results[m] = "none" => Blank(m)
          /\ results[m] = "stored" => measurements[m] # <<>>
          /\ results[m] = "duplicate" => measurements[m] = <<>>

IInv == TablesInv /\ CallsInv /\ ResultsInv

LEMMA RunningFacts ==
    ASSUME IInv, NEW w \in Writers, call[w].pc # "idle"
    PROVE  /\ Message(w) \in Messages /\ Device(w) \in DeviceIDs
           /\ results[Message(w)] = "pending"
           /\ call[w] \in Call
           /\ CallOk(w)
           /\ \A v \in Writers \ {w} : call[v].pc # "idle" => Message(v) # Message(w)
  BY HandlerAssumption DEF IInv, CallsInv, CallOk, Device

\* Only w's message changes, and a device that has a row keeps one.
OnlyOwn(w) ==
    /\ \A v \in Writers \ {w} : call'[v] = call[v]
    /\ \A m \in Messages : m # Message(w) =>
          /\ results'[m] = results[m] /\ measurements'[m] = measurements[m]
          /\ batteries'[m] = batteries[m] /\ links'[m] = links[m]
    /\ \A d \in DeviceIDs : devices[d] # None => devices'[d] # None

\* The other calls do not notice what a call does.
LEMMA OthersOk ==
    ASSUME IInv, NEW w \in Writers, call[w].pc # "idle", OnlyOwn(w)
    PROVE  \A v \in Writers \ {w} : CallOk(v)'
  <1> SUFFICES ASSUME NEW v \in Writers, v # w, call[v].pc # "idle"
               PROVE  CallOk(v)'
    BY DEF OnlyOwn, CallOk
  <1>1. CallOk(v) /\ Message(v) \in Messages /\ Device(v) \in DeviceIDs /\ Message(v) # Message(w)
    BY RunningFacts
  <1>2. call'[v] = call[v] /\ Message(v)' = Message(v) /\ Device(v)' = Device(v)
    BY DEF OnlyOwn, Message, Device
  <1>3. /\ results'[Message(v)] = results[Message(v)]
        /\ measurements'[Message(v)] = measurements[Message(v)]
        /\ Blank(Message(v))' <=> Blank(Message(v))
        /\ devices[Device(v)] # None => devices'[Device(v)] # None
    BY <1>1, <1>2 DEF OnlyOwn, Blank
  <1>4. /\ GoodRow(call[v].row)' <=> GoodRow(call[v].row)
        /\ OwnName(Message(v), call[v].row)' <=> OwnName(Message(v), call[v].row)
    BY <1>2 DEF GoodRow, OwnName
  <1> QED BY <1>1, <1>2, <1>3, <1>4 DEF CallOk

LEMMA GotoEffect ==
    ASSUME IInv, NEW w \in Writers, call[w].pc # "idle", NEW pc \in CallPc,
           NEW row \in Row \cup {None}, Goto(w, pc, row)
    PROVE  /\ call' \in [Writers -> Call]
           /\ call'[w].pc = pc /\ call'[w].row = row /\ call'[w].known = call[w].known
           /\ Message(w)' = Message(w) /\ Device(w)' = Device(w)
           /\ \A v \in Writers \ {w} : call'[v] = call[v]
  <1>1. call \in [Writers -> Call]
    BY DEF IInv, CallsInv
  <1>2. call'[w] = [call[w] EXCEPT !.pc = pc, !.row = row]
    BY <1>1 DEF Goto
  <1>3. /\ call'[w] \in Call /\ call'[w].pc = pc /\ call'[w].row = row
        /\ call'[w].known = call[w].known /\ call'[w].msg = call[w].msg
    BY <1>1, <1>2 DEF Call
  <1> QED BY <1>1, <1>3 DEF Goto, Message, Device

\* The calls after a Goto, from the state of the one that moved.
LEMMA GotoCalls ==
    ASSUME IInv, NEW w \in Writers, call[w].pc # "idle", NEW pc \in CallPc,
           NEW row \in Row \cup {None}, Goto(w, pc, row), OnlyOwn(w), CallOk(w)'
    PROVE  CallsInv'
  <1>1. \A v \in Writers : CallOk(v)'
    BY OthersOk
  <1>2. /\ call' \in [Writers -> Call] /\ Message(w)' = Message(w)
        /\ \A v \in Writers \ {w} : call'[v] = call[v] /\ Message(v)' = Message(v)
    BY GotoEffect DEF Message
  <1>3. \A v \in Writers \ {w} : call[v].pc # "idle" => Message(v) # Message(w)
    BY RunningFacts
  <1>4. \A u, v \in Writers : u # v /\ call'[u].pc # "idle" /\ call'[v].pc # "idle" =>
            Message(u)' # Message(v)'
    BY <1>2, <1>3 DEF IInv, CallsInv
  <1> QED BY <1>1, <1>2, <1>4 DEF CallsInv

LEMMA ReturnEffect ==
    ASSUME IInv, NEW w \in Writers, call[w].pc # "idle", OnlyOwn(w), NEW r, Return(w, r),
           r \in {"stored", "failed", "duplicate"},
           r = "stored" => measurements'[Message(w)] # <<>>,
           r = "duplicate" => measurements'[Message(w)] = <<>>
    PROVE  CallsInv' /\ ResultsInv'
  <1> DEFINE m == Message(w)
             idle == [pc |-> "idle", msg |-> None, row |-> None, known |-> FALSE]
  <1>1. m \in Messages /\ call \in [Writers -> Call]
    BY RunningFacts DEF IInv, CallsInv
  <1>2. idle \in Call /\ idle.pc = "idle"
    BY DEF Call, CallPc
  <1>3. call' \in [Writers -> Call] /\ call'[w].pc = "idle"
    BY <1>1, <1>2 DEF Return
  <1>4. CallOk(w)'
    BY <1>3 DEF CallOk
  <1>5. \A v \in Writers : CallOk(v)'
    BY <1>4, OthersOk
  <1>6. \A v \in Writers \ {w} : call'[v] = call[v] /\ Message(v)' = Message(v)
    BY DEF OnlyOwn, Message
  <1>7. CallsInv'
    <2>1. \A u, v \in Writers : u # v /\ call'[u].pc # "idle" /\ call'[v].pc # "idle" =>
              Message(u)' # Message(v)'
      BY <1>3, <1>6 DEF IInv, CallsInv
    <2> QED BY <1>3, <1>5, <2>1 DEF CallsInv
  <1>8. results' = [results EXCEPT ![m] = r]
    BY DEF Return
  <1> HIDE DEF m
  <1>9. /\ results' \in [Messages -> {"none", "pending", "stored", "failed", "duplicate"}]
        /\ results'[m] = r
    BY <1>1, <1>8 DEF IInv, ResultsInv
  <1>10. \A n \in Messages : n # m => (Blank(n)' <=> Blank(n))
    BY DEF OnlyOwn, Blank, m
  <1>11. ResultsInv'
    <2> SUFFICES ASSUME NEW n \in Messages
                 PROVE  /\ results'[n] = "none" => Blank(n)'
                        /\ results'[n] = "stored" => measurements'[n] # <<>>
                        /\ results'[n] = "duplicate" => measurements'[n] = <<>>
      BY <1>9 DEF ResultsInv
    <2>1. CASE n = m
      BY <1>9, <2>1 DEF m
    <2>2. CASE n # m
      BY <1>10, <2>2 DEF IInv, ResultsInv, OnlyOwn, m
    <2> QED BY <2>1, <2>2
  <1> QED BY <1>7, <1>11

\* A step that returns nothing changes no result, and only a running message.
LEMMA ResultsUnaffected ==
    ASSUME IInv, NEW w \in Writers, call[w].pc # "idle", OnlyOwn(w), results' = results
    PROVE  ResultsInv'
  <1>1. results[Message(w)] = "pending"
    BY RunningFacts
  <1>2. \A n \in Messages : n # Message(w) => (Blank(n)' <=> Blank(n))
    BY DEF OnlyOwn, Blank
  <1> QED BY <1>1, <1>2 DEF IInv, ResultsInv, OnlyOwn

LEMMA TablesUnaffected ==
    ASSUME IInv, UNCHANGED <<devices, measurements, batteries, links>>
    PROVE  TablesInv'
  BY DEF IInv, TablesInv, RowsHaveOwners, GoodRow, Holds

\* The rows that handlers build for devices.
LEMMA NewRowGood ==
    ASSUME NEW m \in Messages
    PROVE  GoodRow(NewRow(m))
  <1>1. /\ NewRow(m) = [c \in Columns |-> NewRow(m)[c]]
        /\ NewRow(m)["short_addr"] = None /\ NewRow(m)["ieee_addr"] = None
        /\ NewRow(m)["device_name"] = IF Has(m, "Name") THEN Sanitize[Payload[m]["Name"]] ELSE None
    BY TextFacts DEF NewRow, Columns, PayloadKey
  <1>2. /\ NewRow(m)["device_name"] \in Values \cup {None}
        /\ NewRow(m)["device_name"] # None =>
              Sanitize[NewRow(m)["device_name"]] = NewRow(m)["device_name"]
    BY <1>1, TextFacts, HandlerAssumption
  <1> QED BY <1>1, <1>2 DEF GoodRow, Row, Columns

LEMMA UpdatedRowGood ==
    ASSUME NEW m \in Messages, NEW row, GoodRow(row), Changed(m, row) # {}
    PROVE  GoodRow(UpdatedRow(m, row)) /\ OwnName(m, UpdatedRow(m, row))
  <1>1. Changed(m, row) = {"device_name"} /\ Has(m, "Name")
    BY TextFacts DEF Changed, Columns, PayloadKey
  <1>2. /\ UpdatedRow(m, row) = [c \in Columns |-> UpdatedRow(m, row)[c]]
        /\ UpdatedRow(m, row)["short_addr"] = row["short_addr"]
        /\ UpdatedRow(m, row)["ieee_addr"] = row["ieee_addr"]
        /\ UpdatedRow(m, row)["device_name"] = Sanitize[Payload[m]["Name"]]
    BY <1>1 DEF UpdatedRow, Columns, PayloadKey
  <1>3. /\ UpdatedRow(m, row)["device_name"] \in Values \cup {None}
        /\ UpdatedRow(m, row)["device_name"] # None =>
              Sanitize[UpdatedRow(m, row)["device_name"]] = UpdatedRow(m, row)["device_name"]
    BY <1>1, <1>2, TextFacts, HandlerAssumption
  <1> QED BY <1>1, <1>2, <1>3 DEF GoodRow, OwnName, Row, Columns

-----------------------------------------------------------------------------

LEMMA InitIInv == Init => IInv
  <1> SUFFICES ASSUME Init PROVE IInv
    OBVIOUS
  <1> USE DEF Init
  <1>1. TablesInv
    BY DEF TablesInv, RowsHaveOwners
  <1>2. \A w \in Writers : call[w].pc = "idle" /\ call[w] \in Call
    BY DEF Call, CallPc
  <1>3. CallsInv
    BY <1>2 DEF CallsInv, CallOk
  <1>4. ResultsInv
    BY DEF ResultsInv, Blank
  <1> QED BY <1>1, <1>3, <1>4 DEF IInv

LEMMA StoreMeasurementStep ==
    ASSUME IInv, NEW w \in Writers, StoreMeasurement(w)
    PROVE  IInv'
  <1>1. PICK m \in Messages :
           /\ results[m] = "none"
           /\ results' = [results EXCEPT ![m] = "pending"]
           /\ call' = [call EXCEPT ![w] = [pc |-> "find", msg |-> m, row |-> None,
                                           known |-> devices[DeviceOf[m]] # None]]
    BY DEF StoreMeasurement
  <1>2. call[w].pc = "idle" /\ UNCHANGED <<devices, measurements, batteries, links>>
    BY DEF StoreMeasurement
  <1>3. call \in [Writers -> Call]
    BY DEF IInv, CallsInv
  <1>4. /\ call' \in [Writers -> Call]
        /\ call'[w].pc = "find" /\ call'[w].msg = m
        /\ call'[w].known = (devices[DeviceOf[m]] # None)
        /\ \A v \in Writers \ {w} : call'[v] = call[v]
    <2>1. [pc |-> "find", msg |-> m, row |-> None, known |-> devices[DeviceOf[m]] # None] \in Call
      BY DEF Call, CallPc
    <2> QED BY <1>1, <1>3, <2>1
  <1>5. /\ results' \in [Messages -> {"none", "pending", "stored", "failed", "duplicate"}]
        /\ results'[m] = "pending"
        /\ \A n \in Messages : n # m => results'[n] = results[n]
    BY <1>1 DEF IInv, ResultsInv
  <1>6. \A n : Blank(n)' <=> Blank(n)
    BY <1>2 DEF Blank
  <1>7. Blank(m)
    BY <1>1 DEF IInv, ResultsInv
  <1>8. \A v \in Writers \ {w} : call[v].pc # "idle" => Message(v) # m
    BY <1>1, RunningFacts
  <1>9. CallOk(w)'
    BY <1>2, <1>4, <1>5, <1>6, <1>7 DEF CallOk, Message, Device
  <1>10. \A v \in Writers \ {w} : CallOk(v)'
    <2> SUFFICES ASSUME NEW v \in Writers, v # w, call[v].pc # "idle" PROVE CallOk(v)'
      BY <1>4 DEF CallOk
    <2>1. CallOk(v) /\ Message(v) # m /\ Message(v) \in Messages
      BY <1>8, RunningFacts
    <2>2. call'[v] = call[v] /\ Message(v)' = Message(v) /\ Device(v)' = Device(v)
      BY <1>4 DEF Message, Device
    <2>3. /\ GoodRow(call[v].row)' <=> GoodRow(call[v].row)
          /\ OwnName(Message(v), call[v].row)' <=> OwnName(Message(v), call[v].row)
      BY <2>2 DEF GoodRow, OwnName
    <2> QED BY <1>2, <1>5, <1>6, <2>1, <2>2, <2>3 DEF CallOk
  <1>11. CallsInv'
    <2>1. \A u, v \in Writers : u # v /\ call'[u].pc # "idle" /\ call'[v].pc # "idle" =>
              Message(u)' # Message(v)'
      BY <1>4, <1>8 DEF IInv, CallsInv, Message
    <2> QED BY <1>4, <1>9, <1>10, <2>1 DEF CallsInv
  <1>12. ResultsInv'
    BY <1>2, <1>5, <1>6 DEF IInv, ResultsInv
  <1> QED BY <1>2, <1>11, <1>12, TablesUnaffected DEF IInv

LEMMA FindStep ==
    ASSUME IInv, NEW w \in Writers, Find(w)
    PROVE  IInv'
  <1> DEFINE m == Message(w)
             row == devices[Device(w)]
  <1>1. /\ call[w].pc = "find" /\ UNCHANGED <<devices, measurements, batteries, links, results>>
        /\ \/ row = None /\ Goto(w, "create", None)
           \/ row # None /\ Changed(m, row) # {} /\ Goto(w, "save", UpdatedRow(m, row))
           \/ row # None /\ Changed(m, row) = {} /\ Goto(w, "insert", row)
    BY DEF Find
  <1>2. /\ m \in Messages /\ Device(w) \in DeviceIDs /\ CallOk(w) /\ results[m] = "pending"
        /\ Blank(m)
    BY <1>1, RunningFacts DEF CallOk
  <1>3. row \in Row \cup {None} /\ (row # None => GoodRow(row))
    BY <1>2 DEF IInv, TablesInv
  <1>4. PICK pc \in {"create", "save", "insert"}, next \in Row \cup {None} :
           /\ Goto(w, pc, next)
           /\ pc = "create" => row = None
           /\ pc \in {"save", "insert"} => row # None
           /\ pc = "save" => GoodRow(next) /\ OwnName(m, next)
    <2>1. CASE row = None /\ Goto(w, "create", None)
      BY <2>1
    <2>2. CASE row # None /\ Changed(m, row) # {} /\ Goto(w, "save", UpdatedRow(m, row))
      <3>1. GoodRow(UpdatedRow(m, row)) /\ OwnName(m, UpdatedRow(m, row))
        BY <1>2, <1>3, <2>2, UpdatedRowGood
      <3>2. UpdatedRow(m, row) \in Row
        BY <3>1 DEF GoodRow
      <3> QED BY <2>2, <3>1, <3>2
    <2>3. CASE row # None /\ Changed(m, row) = {} /\ Goto(w, "insert", row)
      BY <1>3, <2>3
    <2> QED BY <1>1, <2>1, <2>2, <2>3
  <1> HIDE DEF m, row
  <1>5. /\ call'[w].pc = pc /\ call'[w].row = next /\ call'[w].known = call[w].known
        /\ Message(w)' = m /\ Device(w)' = Device(w)
        /\ \A v \in Writers \ {w} : call'[v] = call[v]
    BY <1>1, <1>4, GotoEffect DEF CallPc, m
  <1>6. OnlyOwn(w)
    BY <1>1, <1>5 DEF OnlyOwn
  <1>7. Blank(m)'
    BY <1>1, <1>2, <1>5 DEF Blank, m
  <1>8. CallOk(w)'
    <2>1. /\ GoodRow(next) => GoodRow(call'[w].row)
          /\ OwnName(m, next) => OwnName(Message(w), call[w].row)'
      BY <1>5 DEF OwnName
    <2> QED BY <1>1, <1>2, <1>4, <1>5, <1>7, <2>1 DEF CallOk, m, row
  <1>9. CallsInv'
    BY <1>1, <1>4, <1>6, <1>8, GotoCalls DEF CallPc
  <1>10. ResultsInv'
    BY <1>1, <1>6, ResultsUnaffected
  <1> QED BY <1>1, <1>9, <1>10, TablesUnaffected DEF IInv

LEMMA FindFailsStep ==
    ASSUME IInv, NEW w \in Writers, FindFails(w)
    PROVE  IInv'
  <1>1. /\ call[w].pc = "find" /\ Return(w, "failed")
        /\ UNCHANGED <<devices, measurements, batteries, links>>
    BY DEF FindFails
  <1>2. OnlyOwn(w)
    BY <1>1, RunningFacts DEF OnlyOwn, Return, IInv, ResultsInv, CallsInv
  <1>3. CallsInv' /\ ResultsInv'
    BY <1>1, <1>2, ReturnEffect
  <1> QED BY <1>1, <1>3, TablesUnaffected DEF IInv

\* A row for a device, or for its first contact, keeps the tables in order.
LEMMA DevicesWritten ==
    ASSUME IInv, NEW d \in DeviceIDs, NEW row, GoodRow(row),
           devices' \in {devices, [devices EXCEPT ![d] = row]},
           UNCHANGED <<measurements, batteries, links>>
    PROVE  TablesInv' /\ \A e \in DeviceIDs : devices[e] # None => devices'[e] # None
  <1>1. row \in Row /\ row # None
    BY HandlerAssumption DEF GoodRow, Row
  <1>2. /\ devices' \in [DeviceIDs -> Row \cup {None}]
        /\ \A e \in DeviceIDs : devices'[e] # None => GoodRow(devices'[e])
        /\ \A e \in DeviceIDs : devices[e] # None => devices'[e] # None
    BY <1>1 DEF IInv, TablesInv
  <1>3. RowsHaveOwners'
    BY <1>2, HandlerAssumption DEF IInv, TablesInv, RowsHaveOwners
  <1>4. \A m \in Messages :
           /\ batteries'[m] # None => Holds(m, "BatteryPercentage", batteries'[m])
           /\ links'[m] # None => Holds(m, "LinkQuality", links'[m])
    BY DEF IInv, TablesInv
  <1> QED BY <1>2, <1>3, <1>4 DEF IInv, TablesInv, GoodRow, Holds

LEMMA CreateDeviceStep ==
    ASSUME IInv, NEW w \in Writers, CreateDevice(w)
    PROVE  IInv'
  <1>1. PICK d \in DeviceIDs, m \in Messages : d = Device(w) /\ m = Message(w)
    BY RunningFacts DEF CreateDevice
  <1>2. PICK new : new = [devices EXCEPT ![d] = NewRow(m)]
    OBVIOUS
  <1>3. /\ call[w].pc = "create" /\ UNCHANGED <<measurements, batteries, links>>
        /\ \/ devices[d] # None /\ devices' = devices /\ Return(w, "duplicate")
           \/ /\ devices' = new /\ results' = results
              /\ Goto(w, "insert", NewRow(m))
           \/ devices' \in {devices, new} /\ Return(w, "failed")
    BY <1>1, <1>2 DEF CreateDevice
  <1>4. /\ CallOk(w) /\ Blank(m)
        /\ GoodRow(NewRow(m)) /\ NewRow(m) \in Row
    BY <1>1, <1>3, RunningFacts, NewRowGood DEF CallOk, GoodRow
  <1>5. TablesInv' /\ \A e \in DeviceIDs : devices[e] # None => devices'[e] # None
    BY <1>2, <1>3, <1>4, DevicesWritten
  <1>6. ASSUME NEW r \in {"duplicate", "failed"}, Return(w, r) PROVE IInv'
    <2>1. OnlyOwn(w)
      BY <1>3, <1>5, <1>6 DEF OnlyOwn, Return, IInv, ResultsInv, CallsInv
    <2>2. CallsInv' /\ ResultsInv'
      BY <1>1, <1>3, <1>4, <1>6, <2>1, ReturnEffect DEF Blank
    <2> QED BY <1>5, <2>2 DEF IInv
  <1>7. ASSUME devices' = new, results' = results, Goto(w, "insert", NewRow(m)) PROVE IInv'
    <2>1. /\ call'[w].pc = "insert" /\ Message(w)' = m /\ Device(w)' = d
          /\ \A v \in Writers \ {w} : call'[v] = call[v]
      BY <1>1, <1>3, <1>4, <1>7, GotoEffect DEF CallPc
    <2>2. OnlyOwn(w)
      BY <1>3, <1>5, <1>7, <2>1 DEF OnlyOwn
    <2>3. devices'[d] # None
      BY <1>2, <1>4, <1>7, HandlerAssumption DEF IInv, TablesInv, Row
    <2>4. CallOk(w)'
      <3>1. Blank(m)'
        BY <1>3, <1>4 DEF Blank
      <3>2. results'[m] = "pending"
        BY <1>1, <1>3, <1>7, RunningFacts
      <3> QED BY <2>1, <2>3, <3>1, <3>2 DEF CallOk
    <2>5. CallsInv'
      BY <1>3, <1>4, <1>7, <2>2, <2>4, GotoCalls DEF CallPc
    <2>6. ResultsInv'
      BY <1>3, <1>7, <2>2, ResultsUnaffected
    <2> QED BY <1>5, <2>5, <2>6 DEF IInv
  <1> QED BY <1>3, <1>6, <1>7

LEMMA SaveDeviceStep ==
    ASSUME IInv, NEW w \in Writers, SaveDevice(w)
    PROVE  IInv'
  <1>1. PICK d \in DeviceIDs, m \in Messages, row \in Row :
           d = Device(w) /\ m = Message(w) /\ row = call[w].row
    BY RunningFacts DEF SaveDevice, CallOk, GoodRow
  <1>2. /\ call[w].pc = "save" /\ UNCHANGED <<measurements, batteries, links, results>>
        /\ devices' \in {devices, [devices EXCEPT ![d] = row]}
        /\ Goto(w, "insert", row)
    BY <1>1 DEF SaveDevice
  <1>3. CallOk(w) /\ Blank(m) /\ GoodRow(row) /\ devices[d] # None /\ results[m] = "pending"
    BY <1>1, <1>2, RunningFacts DEF CallOk
  <1>4. TablesInv' /\ \A e \in DeviceIDs : devices[e] # None => devices'[e] # None
    BY <1>2, <1>3, DevicesWritten
  <1>5. /\ call'[w].pc = "insert" /\ Message(w)' = m /\ Device(w)' = d
        /\ \A v \in Writers \ {w} : call'[v] = call[v]
    BY <1>1, <1>2, GotoEffect DEF CallPc
  <1>6. OnlyOwn(w)
    BY <1>2, <1>4, <1>5 DEF OnlyOwn
  <1>7. CallOk(w)'
    <2>1. Blank(m)' /\ devices'[d] # None
      BY <1>2, <1>3, <1>4 DEF Blank
    <2> QED BY <1>2, <1>3, <1>5, <2>1 DEF CallOk
  <1>8. CallsInv'
    BY <1>2, <1>6, <1>7, GotoCalls DEF CallPc
  <1>9. ResultsInv'
    BY <1>2, <1>6, ResultsUnaffected
  <1> QED BY <1>4, <1>8, <1>9 DEF IInv

LEMMA InsertMeasurementStep ==
    ASSUME IInv, NEW w \in Writers, InsertMeasurement(w)
    PROVE  IInv'
  <1>1. PICK d \in DeviceIDs, m \in Messages : d = Device(w) /\ m = Message(w)
    BY RunningFacts DEF InsertMeasurement
  <1>2. /\ call[w].pc = "insert" /\ UNCHANGED <<devices, batteries, links>>
        /\ measurements' \in {measurements, WithMeasurement(w)}
        /\ \/ /\ measurements' = WithMeasurement(w) /\ results' = results
              /\ Goto(w, "battery", call[w].row)
           \/ Return(w, "failed")
    BY DEF InsertMeasurement
  <1>3. /\ CallOk(w) /\ Blank(m) /\ devices[d] # None /\ results[m] = "pending"
        /\ call[w].row \in Row \cup {None}
    BY <1>1, <1>2, RunningFacts DEF CallOk, Call
  <1>4. /\ DOMAIN measurements = Messages /\ measurements = [n \in Messages |-> measurements[n]]
        /\ measurements[m] = <<>>
    BY <1>3 DEF IInv, TablesInv, Blank
  <1>5. WithMeasurement(w) = [measurements EXCEPT ![m] = <<OwnRow(m)>>]
    <2>1. WithMeasurement(w) = [measurements EXCEPT ![m] = Append(<<>>, OwnRow(m))]
      BY <1>1, <1>4 DEF WithMeasurement, OwnRow
    <2>2. Append(<<>>, OwnRow(m)) = <<OwnRow(m)>>
      OBVIOUS
    <2> QED BY <2>1, <2>2
  <1>6. /\ DOMAIN measurements' = Messages /\ measurements' = [n \in Messages |-> measurements'[n]]
        /\ \A n \in Messages : n # m => measurements'[n] = measurements[n]
        /\ measurements'[m] \in {<<>>, <<OwnRow(m)>>}
        /\ measurements' = WithMeasurement(w) => measurements'[m] = <<OwnRow(m)>>
    BY <1>2, <1>4, <1>5
  <1>7. TablesInv'
    <2>1. \A n \in Messages : measurements'[n] \in {<<>>, <<OwnRow(n)>>}
      BY <1>6 DEF IInv, TablesInv
    <2>2. RowsHaveOwners'
      <3> SUFFICES ASSUME NEW n \in Messages
                   PROVE  /\ measurements'[n] # <<>> => devices[DeviceOf[n]] # None
                          /\ batteries[n] # None \/ links[n] # None => measurements'[n] # <<>>
        BY <1>2 DEF RowsHaveOwners
      <3>1. CASE n = m
        BY <1>1, <1>3, <3>1 DEF Device, Blank
      <3>2. CASE n # m
        BY <1>6, <3>2 DEF IInv, TablesInv, RowsHaveOwners
      <3> QED BY <3>1, <3>2
    <2>3. \A n \in Messages :
             /\ batteries'[n] # None => Holds(n, "BatteryPercentage", batteries'[n])
             /\ links'[n] # None => Holds(n, "LinkQuality", links'[n])
      BY <1>2 DEF IInv, TablesInv
    <2>4. \A n : OwnRow(n)' = OwnRow(n)
      BY DEF OwnRow
    <2> QED BY <1>2, <1>6, <2>1, <2>2, <2>3, <2>4 DEF IInv, TablesInv, GoodRow, Holds
  <1>8. ASSUME Return(w, "failed") PROVE IInv'
    <2>1. OnlyOwn(w)
      BY <1>1, <1>2, <1>6, <1>8 DEF OnlyOwn, Return, IInv, ResultsInv, CallsInv
    <2>2. CallsInv' /\ ResultsInv'
      BY <1>2, <1>8, <2>1, ReturnEffect
    <2> QED BY <1>7, <2>2 DEF IInv
  <1>9. ASSUME measurements' = WithMeasurement(w), results' = results,
               Goto(w, "battery", call[w].row)
        PROVE  IInv'
    <2>1. /\ call'[w].pc = "battery" /\ Message(w)' = m /\ Device(w)' = d
          /\ \A v \in Writers \ {w} : call'[v] = call[v]
      BY <1>1, <1>2, <1>3, <1>9, GotoEffect DEF CallPc
    <2>2. OnlyOwn(w)
      BY <1>1, <1>2, <1>6, <1>9, <2>1 DEF OnlyOwn
    <2>3. measurements'[m] # <<>>
      BY <1>6, <1>9
    <2>4. CallOk(w)'
      BY <1>2, <1>3, <1>9, <2>1, <2>3 DEF CallOk
    <2>5. CallsInv'
      BY <1>2, <1>3, <1>9, <2>2, <2>4, GotoCalls DEF CallPc
    <2>6. ResultsInv'
      BY <1>2, <1>9, <2>2, ResultsUnaffected
    <2> QED BY <1>7, <2>5, <2>6 DEF IInv
  <1> QED BY <1>2, <1>8, <1>9

\* What a table of values of type key looks like after an insert.
LEMMA InsertedFacts ==
    ASSUME NEW m \in Messages, NEW table, table \in [Messages -> Int \cup {None}],
           NEW key \in IntFields, NEW new \in Inserted(table, m, key)
    PROVE  /\ new \in [Messages -> Int \cup {None}]
           /\ \A n \in Messages : new[n] # table[n] => n = m /\ Holds(m, key, new[m])
  <1>1. CASE new = table
    BY <1>1
  <1>2. CASE Has(m, key) /\ new = [table EXCEPT ![m] = Truncate(Payload[m][key])]
    <2>1. Holds(m, key, Truncate(Payload[m][key])) /\ Truncate(Payload[m][key]) \in Int
      BY <1>2, IntHolds
    <2> QED BY <1>2, <2>1
  <1> QED BY <1>1, <1>2 DEF Inserted

LEMMA InsertBatteryStep ==
    ASSUME IInv, NEW w \in Writers, InsertBattery(w)
    PROVE  IInv'
  <1>1. PICK d \in DeviceIDs, m \in Messages : d = Device(w) /\ m = Message(w)
    BY RunningFacts DEF InsertBattery
  <1>2. /\ call[w].pc = "battery" /\ UNCHANGED <<devices, measurements, links, results>>
        /\ batteries' \in Inserted(batteries, m, "BatteryPercentage")
        /\ Goto(w, "link", call[w].row)
    BY <1>1 DEF InsertBattery, Inserted
  <1>3. /\ CallOk(w) /\ measurements[m] # <<>> /\ devices[d] # None /\ results[m] = "pending"
        /\ call[w].row \in Row \cup {None}
    BY <1>1, <1>2, RunningFacts DEF CallOk, Call
  <1>4. /\ batteries' \in [Messages -> Int \cup {None}]
        /\ \A n \in Messages : batteries'[n] # batteries[n] =>
              n = m /\ Holds(m, "BatteryPercentage", batteries'[m])
    <2>1. batteries \in [Messages -> Int \cup {None}] /\ "BatteryPercentage" \in IntFields
      BY DEF IInv, TablesInv, IntFields
    <2> QED BY <1>2, <2>1, InsertedFacts
  <1>5. /\ call'[w].pc = "link" /\ Message(w)' = m /\ Device(w)' = d
        /\ \A v \in Writers \ {w} : call'[v] = call[v]
    BY <1>1, <1>2, <1>3, GotoEffect DEF CallPc
  <1>6. OnlyOwn(w)
    BY <1>1, <1>2, <1>4, <1>5 DEF OnlyOwn
  <1>7. TablesInv'
    <2>1. RowsHaveOwners'
      BY <1>2, <1>3, <1>4 DEF IInv, TablesInv, RowsHaveOwners
    <2>2. \A n \in Messages :
             /\ batteries'[n] # None => Holds(n, "BatteryPercentage", batteries'[n])
             /\ links'[n] # None => Holds(n, "LinkQuality", links'[n])
      BY <1>2, <1>4 DEF IInv, TablesInv
    <2> QED BY <1>2, <1>4, <2>1, <2>2 DEF IInv, TablesInv, GoodRow, Holds
  <1>8. CallOk(w)'
    BY <1>2, <1>3, <1>5 DEF CallOk
  <1>9. CallsInv'
    BY <1>2, <1>3, <1>6, <1>8, GotoCalls DEF CallPc
  <1>10. ResultsInv'
    BY <1>2, <1>6, ResultsUnaffected
  <1> QED BY <1>7, <1>9, <1>10 DEF IInv

LEMMA InsertLinkQualityStep ==
    ASSUME IInv, NEW w \in Writers, InsertLinkQuality(w)
    PROVE  IInv'
  <1>1. PICK m \in Messages : m = Message(w)
    BY RunningFacts DEF InsertLinkQuality
  <1>2. /\ call[w].pc = "link" /\ UNCHANGED <<devices, measurements, batteries>>
        /\ links' \in Inserted(links, m, "LinkQuality")
        /\ Return(w, "stored")
    BY <1>1 DEF InsertLinkQuality
  <1>3. measurements[m] # <<>>
    BY <1>1, <1>2, RunningFacts DEF CallOk
  <1>4. /\ links' \in [Messages -> Int \cup {None}]
        /\ \A n \in Messages : links'[n] # links[n] =>
              n = m /\ Holds(m, "LinkQuality", links'[m])
    <2>1. links \in [Messages -> Int \cup {None}] /\ "LinkQuality" \in IntFields
      BY DEF IInv, TablesInv, IntFields
    <2> QED BY <1>2, <2>1, InsertedFacts
  <1>5. OnlyOwn(w)
    BY <1>1, <1>2, <1>4 DEF OnlyOwn, Return, IInv, ResultsInv, CallsInv
  <1>6. TablesInv'
    <2>1. RowsHaveOwners'
      BY <1>2, <1>3, <1>4 DEF IInv, TablesInv, RowsHaveOwners
    <2>2. \A n \in Messages :
             /\ batteries'[n] # None => Holds(n, "BatteryPercentage", batteries'[n])
             /\ links'[n] # None => Holds(n, "LinkQuality", links'[n])
      BY <1>2, <1>4 DEF IInv, TablesInv
    <2> QED BY <1>2, <1>4, <2>1, <2>2 DEF IInv, TablesInv, GoodRow, Holds
  <1>7. CallsInv' /\ ResultsInv'
    BY <1>1, <1>2, <1>3, <1>5, ReturnEffect
  <1> QED BY <1>6, <1>7 DEF IInv

-----------------------------------------------------------------------------

LEMMA StepInv == IInv /\ [Next]_vars => IInv'
  <1> SUFFICES ASSUME IInv, [Next]_vars PROVE IInv'
    OBVIOUS
  <1>1. ASSUME NEW w \in Writers, StoreMeasurement(w) \/ Step(w) PROVE IInv'
    BY <1>1, StoreMeasurementStep, FindStep, FindFailsStep, CreateDeviceStep, SaveDeviceStep,
       InsertMeasurementStep, InsertBatteryStep, InsertLinkQualityStep DEF Step
  <1>2. CASE UNCHANGED vars
    <2>1. \A m : Blank(m)' <=> Blank(m)
      BY <1>2 DEF Blank, vars
    <2>2. \A w : Message(w)' = Message(w) /\ Device(w)' = Device(w)
      BY <1>2 DEF Message, Device, vars
    <2>3. \A w \in Writers : CallOk(w)' <=> CallOk(w)
      BY <1>2, <2>1, <2>2 DEF CallOk, GoodRow, OwnName, vars
    <2>4. CallsInv'
      BY <1>2, <2>2, <2>3 DEF IInv, CallsInv, vars
    <2>5. ResultsInv'
      BY <1>2, <2>1 DEF IInv, ResultsInv, vars
    <2> QED BY <1>2, <2>4, <2>5, TablesUnaffected DEF IInv, vars
  <1> QED BY <1>1, <1>2 DEF Next

\* Every invariant below follows from this one, which is inductive.
THEOREM Invariance == Spec => []IInv
  BY InitIInv, StepInv, PTL DEF Spec

\* Types hold: each column of each row is a number, a text or NULL.
THEOREM TypeCorrect == Spec => []TypeOK
  <1>1. IInv => TypeOK
    <2> SUFFICES ASSUME IInv PROVE TypeOK
      OBVIOUS
    <2>1. ASSUME NEW m \in Messages
          PROVE  measurements[m] \in Seq([MeasurementColumns(TypeOf[m]) -> Int \cup {None}])
      <3>1. OwnRow(m) \in [MeasurementColumns(TypeOf[m]) -> Int \cup {None}]
        <4>1. \A k \in MeasurementColumns(TypeOf[m]) : OwnRow(m)[k] \in Int \cup {None}
          BY RowHolds DEF OwnRow
        <4>2. OwnRow(m) = [k \in MeasurementColumns(TypeOf[m]) |-> OwnRow(m)[k]]
          BY DEF OwnRow, MeasurementRow
        <4> QED BY <4>1, <4>2
      <3>2. measurements[m] = <<>> \/ measurements[m] = <<OwnRow(m)>>
        BY DEF IInv, TablesInv
      <3>3. <<OwnRow(m)>> \in Seq([MeasurementColumns(TypeOf[m]) -> Int \cup {None}])
        <4> DEFINE S == [MeasurementColumns(TypeOf[m]) -> Int \cup {None}]
        <4>1. OwnRow(m) \in S
          BY <3>1
        <4> HIDE DEF S
        <4>2. <<OwnRow(m)>> \in Seq(S)
          BY <4>1
        <4> QED BY <4>2 DEF S
      <3>4. <<>> \in Seq([MeasurementColumns(TypeOf[m]) -> Int \cup {None}])
        OBVIOUS
      <3> QED BY <3>2, <3>3, <3>4
    <2>2. /\ devices \in [DeviceIDs -> Row \cup {None}]
          /\ {batteries, links} \subseteq [Messages -> Int \cup {None}]
      BY DEF IInv, TablesInv
    <2>3. /\ call \in [Writers -> Call]
          /\ results \in [Messages -> {"none", "pending", "stored", "failed", "duplicate"}]
      BY DEF IInv, CallsInv, ResultsInv
    <2> QED BY <2>1, <2>2, <2>3 DEF TypeOK, Call
  <1> QED BY <1>1, Invariance, PTL

\* A message leaves at most one measurement row, exactly one when
\* StoreMeasurement returned nil, none when it lost the race to create the
\* device, whatever statements fail and however the goroutines interleave.
THEOREM OnceStored == Spec => []StoredExactlyOnce
  <1>1. IInv => StoredExactlyOnce
    <2> SUFFICES ASSUME IInv, NEW m \in Messages
                 PROVE  /\ Len(measurements[m]) <= 1
                        /\ results[m] = "stored" => measurements[m] # <<>>
                        /\ results[m] = "duplicate" => measurements[m] = <<>>
      BY DEF StoredExactlyOnce
    <2>1. measurements[m] = <<>> \/ measurements[m] = <<OwnRow(m)>>
      BY DEF IInv, TablesInv
    <2>2. Len(measurements[m]) <= 1
      BY <2>1
    <2> QED BY <2>2 DEF IInv, ResultsInv
  <1> QED BY <1>1, Invariance, PTL

\* A measurement's device has a row, and a battery or link quality row has its
\* measurement.
THEOREM OwnedRows == Spec => []RowsHaveOwners
  <1>1. IInv => RowsHaveOwners
    BY DEF IInv, TablesInv
  <1> QED BY <1>1, Invariance, PTL

\* A column holds what the message reported, corrected once, for all readings
\* and corrections: rounding twice never costs more than rounding once.
THEOREM CorrectedRows == Spec => []RowsHoldCorrectedReadings
  <1>1. IInv => RowsHoldCorrectedReadings
    <2> SUFFICES ASSUME IInv, NEW m \in Messages
                 PROVE  /\ \A i \in DOMAIN measurements[m],
                              field \in MeasurementColumns(TypeOf[m]) :
                                 Holds(m, field, measurements[m][i][field])
                        /\ batteries[m] # None => Holds(m, "BatteryPercentage", batteries[m])
                        /\ links[m] # None => Holds(m, "LinkQuality", links[m])
      BY DEF RowsHoldCorrectedReadings
    <2>1. measurements[m] = <<>> \/ measurements[m] = <<OwnRow(m)>>
      BY DEF IInv, TablesInv
    <2>2. \A i \in DOMAIN measurements[m] : measurements[m][i] = OwnRow(m)
      BY <2>1
    <2>3. \A field \in MeasurementColumns(TypeOf[m]) : Holds(m, field, OwnRow(m)[field])
      BY RowHolds DEF OwnRow
    <2> QED BY <2>2, <2>3 DEF IInv, TablesInv
  <1> QED BY <1>1, Invariance, PTL

\* Only the first contact of a device can lose the race to create its row.
THEOREM DuplicatesAtFirstContact == Spec => []DuplicateOnlyAtFirstContact
  <1>1. IInv => DuplicateOnlyAtFirstContact
    BY DEF IInv, CallsInv, CallOk, DuplicateOnlyAtFirstContact
  <1> QED BY <1>1, Invariance, PTL

\* Every text in the devices table is one that sanitizeString leaves alone.
THEOREM SanitizedDevices == Spec => []DevicesSanitized
  <1>1. IInv => DevicesSanitized
    BY DEF IInv, TablesInv, GoodRow, Columns, DevicesSanitized
  <1> QED BY <1>1, Invariance, PTL

\* A column of a row that is there only ever changes to the value of the writing
\* call's own message: whole rows saved late undo nothing, because the name,
\* which Save always takes from its message, is the only column ever updated.
THEOREM NothingUndone == Spec => SavesUndoNothing
  <1> DEFINE Own(d, c) ==
                 /\ devices'[d] # None
                 /\ \E w \in Writers :
                       /\ call'[w] # call[w] /\ Device(w) = d
                       /\ Has(Message(w), PayloadKey[c])
                       /\ devices'[d][c] = Sanitize[Payload[Message(w)][PayloadKey[c]]]
             Kept == \A d \in DeviceIDs, c \in Columns :
                        devices[d] # None /\ (devices'[d] = None \/ devices'[d][c] # devices[d][c])
                            => Own(d, c)
  <1>1. IInv /\ [Next]_vars => [Kept]_vars
    <2> SUFFICES ASSUME IInv, Next PROVE Kept
      OBVIOUS
    <2>1. PICK w \in Writers : StoreMeasurement(w) \/ Step(w)
      BY DEF Next
    <2>2. CASE UNCHANGED devices
      BY <2>2
    <2>3. CASE CreateDevice(w)
      <3>1. Device(w) \in DeviceIDs
        BY <2>3, RunningFacts DEF CreateDevice
      <3>2. \A d \in DeviceIDs : devices[d] # None => devices'[d] = devices[d]
        BY <2>3, <3>1 DEF CreateDevice, IInv, TablesInv
      <3> QED BY <3>2
    <2>4. CASE SaveDevice(w)
      <3> DEFINE row == call[w].row
      <3>1. /\ Device(w) \in DeviceIDs
            /\ GoodRow(row) /\ OwnName(Message(w), row)
        BY <2>4, RunningFacts DEF SaveDevice, CallOk
      <3>2. \A d \in DeviceIDs : devices[d] # None => GoodRow(devices[d])
        BY DEF IInv, TablesInv
      <3>3. row # None /\ row \in Row
        BY <3>1, HandlerAssumption DEF GoodRow, Row
      <3>4. \A d \in DeviceIDs : devices'[d] = devices[d] \/ (d = Device(w) /\ devices'[d] = row)
        BY <2>4, <3>1 DEF SaveDevice, IInv, TablesInv
      <3>5. call'[w] # call[w]
        <4>1. call'[w].pc = "insert" /\ call[w].pc = "save"
          BY <2>4, <3>3, GotoEffect DEF SaveDevice, CallPc
        <4> QED BY <4>1
      <3> HIDE DEF row
      <3>6. SUFFICES ASSUME NEW d \in DeviceIDs, NEW c \in Columns, devices[d] # None,
                            devices'[d] = None \/ devices'[d][c] # devices[d][c]
                     PROVE  Own(d, c)
        OBVIOUS
      <3>7. d = Device(w) /\ devices'[d] = row /\ row[c] # devices[d][c]
        BY <3>3, <3>4, <3>6
      <3>8. c = "device_name"
        BY <3>1, <3>2, <3>6, <3>7 DEF GoodRow, Columns
      <3>9. PayloadKey[c] = "Name"
        BY <3>8 DEF PayloadKey
      <3> QED BY <3>1, <3>3, <3>5, <3>7, <3>8, <3>9 DEF OwnName
    <2> QED BY <2>1, <2>2, <2>3, <2>4
       DEF StoreMeasurement, Step, Find, FindFails, InsertMeasurement, InsertBattery,
           InsertLinkQuality
  <1> QED BY <1>1, Invariance, PTL DEF Spec, SavesUndoNothing

=============================================================================
