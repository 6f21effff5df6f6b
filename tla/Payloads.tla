------------------------------ MODULE Payloads ------------------------------
(***************************************************************************)
(* From a Zigbee reading to the columns of a measurement: the corrections  *)
(* of internal/tasmota/utils.go, the payload that storeMeasurement builds  *)
(* (telemetry_handler.go) and the columns that the handlers take from it   *)
(* (internal/database/*_handler.go).                                       *)
(*                                                                         *)
(* Numbers are counted in 1/Scale: a Go int is a multiple of Scale, so     *)
(* that a conversion to int is a truncation.                               *)
(***************************************************************************)
EXTENDS Integers

CONSTANTS
    Scale,
    None    \* a column or setting that is absent, a text that is no number

ASSUME PayloadsAssumption ==
    /\ Scale \in Nat \ {0}
    /\ None \notin Int

\* The fields of ZigbeeDevice that reach a column, by Go type.
TextFields == {"Device", "Name"}
FloatFields == {"Temperature", "Humidity", "Pressure", "Voltage"}
IntFields ==
    {"BatteryPercentage", "Power", "LinkQuality", "Endpoint", "WaterLevel", "LastValveOpenDuration",
     "IrrigationStartTime", "IrrigationEndTime", "DailyIrrigationVolume"}

\* The keys of their corrections.
CorrectedFloats ==
    [Temperature |-> "temperature", Humidity |-> "humidity", Pressure |-> "pressure",
     Voltage |-> "voltage"]

CorrectedInts ==
    [BatteryPercentage |-> "battery_percentage", Power |-> "power",
     LinkQuality |-> "link_quality", WaterLevel |-> "water_level",
     LastValveOpenDuration |-> "last_valve_open_duration",
     DailyIrrigationVolume |-> "daily_irrigation_volume"]

\* int(x), toward zero.
Truncate(x) == IF x >= 0 THEN x - (x % Scale) ELSE x + ((-x) % Scale)

\* Spec.Corrections of a device maps keys to numbers, or to None.
Correction(corrections, key) ==
    IF key \in DOMAIN corrections /\ corrections[key] # None THEN corrections[key] ELSE 0

ApplyCorrectionToFloat(value, key, corrections) == value + Correction(corrections, key)

\* Mutant: rounds up what a fractional correction gives.
ApplyCorrectionRoundingUp(value, key, corrections) ==
    value + Truncate(Correction(corrections, key) + Scale)

\* The correction is truncated before it is added.
ApplyCorrectionToInt(value, key, corrections) ==
    value + Truncate(Correction(corrections, key))

Corrected(field, value, corrections) ==
    IF field \in DOMAIN CorrectedFloats
    THEN ApplyCorrectionToFloat(value, CorrectedFloats[field], corrections)
    ELSE IF field \in DOMAIN CorrectedInts
    THEN ApplyCorrectionToInt(value, CorrectedInts[field], corrections)
    ELSE value

\* A reading maps the fields that the message reports to numbers, Device and
\* Name to texts; settings are those of the Device resource.  Its friendly name
\* comes before the name of the reading.
BuildPayload(reading, settings) ==
    LET own == IF settings.friendlyName = None THEN {} ELSE {"Name"}
    IN  [k \in DOMAIN reading \cup own |->
            IF k \in own THEN settings.friendlyName
                         ELSE Corrected(k, reading[k], settings.corrections)]

-----------------------------------------------------------------------------

\* The float columns and the int columns of each sensor type, by payload key.
FloatColumns(type) == IF type \in {"moisture", "room"} THEN {"Temperature", "Humidity"} ELSE {}

IntColumns(type) ==
    {"Endpoint"} \cup
    IF type = "valve" THEN {"Power", "LastValveOpenDuration", "IrrigationStartTime",
                            "IrrigationEndTime", "DailyIrrigationVolume"}
    ELSE IF type = "water_level" THEN {"WaterLevel"} ELSE {}

MeasurementColumns(type) == FloatColumns(type) \cup IntColumns(type)

\* Mutant: the level is looked up under the name of its column.
MeasurementRowByColumn(type, payload) ==
    [k \in MeasurementColumns(type) |->
        IF k \notin DOMAIN payload \ {"WaterLevel"} THEN None
        ELSE IF k \in IntColumns(type) THEN Truncate(payload[k]) ELSE payload[k]]

MeasurementRow(type, payload) ==
    [k \in MeasurementColumns(type) |->
        IF k \notin DOMAIN payload THEN None
        ELSE IF k \in IntColumns(type) THEN Truncate(payload[k]) ELSE payload[k]]

=============================================================================
