------------------------------ MODULE MCIngest ------------------------------
(* A bridge whose client may be replaced, a device that has the first address or
   none, a second address that belongs to no device, and a database. *)
EXTENDS Ingest

CONSTANTS ground, home, valve, moisture, c1, c2, a1

MCBridges == {ground}
MCClients == {c1, c2}
MCBridgeOf == [c \in MCClients |-> ground]
MCDevices == {valve}
MCNamespace == [x \in MCBridges \cup MCDevices |-> home]
MCDeviceType == [b \in MCBridges |-> "tasmota"]
MCResource == [short : {a1, None}, sensor : {moisture}]
MCSensorTypes == {moisture}
MCSpecs == {{moisture}}

=============================================================================
