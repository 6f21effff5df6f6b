---------------------------- MODULE MCTelemetry -----------------------------
(* Three bridges with a client each, one of another device type and one in
   another namespace, and three devices, two of which share a namespace with the
   first bridge. *)
EXTENDS Telemetry, TLC

CONSTANTS ground, first, garage, home, shed, valve, room, tank, a1, a2, moisture, c1, c2, c3

MCBridges == {ground, first, garage}
MCClients == {c1, c2, c3}
MCBridgeOf == c1 :> ground @@ c2 :> first @@ c3 :> garage
MCDevices == {valve, room, tank}
MCNamespace ==
    [x \in MCBridges \cup MCDevices |-> IF x \in {garage, tank} THEN shed ELSE home]
MCDeviceType == [b \in MCBridges |-> IF b = first THEN "zigbee2mqtt" ELSE "tasmota"]
MCResource == [short : ShortAddrs \cup {None}, sensor : {moisture}]
MCDisabled == {tank}

AddressSymmetry == Permutations(ShortAddrs)

=============================================================================
