------------------------ MODULE MCMeasurementHandler ------------------------
(* Messages as TelemetryHandler.storeMeasurement passes them on: Device always,
   no IEEEAddr.  Numbers are counted in tenths. *)
EXTENDS MeasurementHandler, TLC

CONSTANTS m1, m2, m3, m4, m5, hall, tank, name, nameWithNul, nuls, addr1, addr2

MCMessages == {m1, m2, m3, m4, m5}
MCDeviceIDs == {hall, tank}
MCValues == {name, nameWithNul, nuls, addr1, addr2}
MCSanitize == [v \in MCValues |-> CASE v = nameWithNul -> name [] v = nuls -> None [] OTHER -> v]
MCDeviceOf == [m \in MCMessages |-> IF m = m4 THEN tank ELSE hall]
MCTypeOf == [m \in MCMessages |-> IF m = m4 THEN "water_level" ELSE "room"]
MCReading ==
    m1 :> [Device |-> addr1, Name |-> name, Temperature |-> 214, BatteryPercentage |-> 500] @@
    m2 :> [Device |-> addr2, LinkQuality |-> 120, Humidity |-> 403] @@
    m3 :> [Device |-> addr1, Name |-> name, Temperature |-> -5] @@
    m4 :> [Device |-> addr1, BatteryPercentage |-> 980, LinkQuality |-> 70, WaterLevel |-> 2850,
           Endpoint |-> 10] @@
    m5 :> [Device |-> addr1, Name |-> nuls]

\* The hall is renamed on the way, once to a name of control characters only; a
\* correction that is no number is ignored.
MCSettings ==
    [m \in MCMessages |->
        CASE m = m3 -> [friendlyName |-> nameWithNul, corrections |-> "temperature" :> -25]
          [] m = m4 -> [friendlyName |-> None,
                        corrections |-> [water_level |-> -115, battery_percentage |-> -5,
                                         link_quality |-> None]]
          [] OTHER  -> [friendlyName |-> None, corrections |-> "temperature" :> 5]]

WriterSymmetry == Permutations(Writers)

=============================================================================
