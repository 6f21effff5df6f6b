----------------------------- MODULE Telemetry -----------------------------
(***************************************************************************)
(* internal/tasmota: what happens to a message after the MQTT client hands *)
(* it to BridgeManager.handleMessage.                                      *)
(*                                                                         *)
(* Each client (external) calls its handlers one message at a time, in the *)
(* order of arrival; the clients of several bridges run side by side, and  *)
(* so do those of one bridge when a client was replaced: Disconnect(250)   *)
(* gives its handler 250 ms and then returns, while the handler may still  *)
(* wait for a lock or a statement.  The Device resources they look up are  *)
(* written by other controllers, at any time between two lookups.          *)
(***************************************************************************)
EXTENDS Naturals, Sequences, FiniteSets

CONSTANTS
    Bridges, Devices, ShortAddrs, SensorTypes,
    Clients,      \* mqtt.Client values; one is used again once it has come to rest
    BridgeOf,     \* Clients -> the bridge whose messages its callback handles
    Namespace,    \* Bridges \cup Devices -> namespace
    DeviceType,   \* Bridges -> Spec.DeviceType
    Resource,     \* what a Device resource may hold, None for an empty field
    Disabled,     \* the devices with Spec.Disabled
    MaxMessages, MaxChanges,
    None

ASSUME TelemetryAssumption ==
    /\ BridgeOf \in [Clients -> Bridges]
    /\ Disabled \subseteq Devices
    /\ DeviceType \in [Bridges -> {"tasmota", "zigbee2mqtt", "generic"}]
    /\ Resource \subseteq [short : ShortAddrs \cup {None}, sensor : SensorTypes \cup {None}]
    /\ DOMAIN Namespace = Bridges \cup Devices
    /\ None \notin Devices \cup ShortAddrs \cup SensorTypes
    /\ {MaxMessages, MaxChanges} \subseteq Nat

VARIABLES
    device,   \* Devices -> Status.ShortAddr and Spec.SensorType
    live,     \* the clients with a session at the broker
    inbox,    \* Clients -> messages the client has still to hand over
    handler,  \* Clients -> the call of handleMessage its router runs
    rows,     \* the measurements StoreMeasurement accepted, in order
    pending,  \* the <<message, short address>> readings to be settled (history only)
    sent,     \* number of messages published
    changes   \* number of changes of devices

vars == <<device, live, inbox, handler, rows, pending, sent, changes>>

\* A reading is one entry of ZbReceived; its key is a short address.
Message == [id : 1..MaxMessages, readings : SUBSET ShortAddrs]

TypeOK ==
    /\ device \in [Devices -> Resource]
    /\ live \subseteq Clients
    /\ inbox \in [Clients -> Seq(Message)]
    /\ handler \in [Clients -> [pc : {"idle", "range", "find", "store"},
                                id : 0..MaxMessages, todo : SUBSET ShortAddrs,
                                short : ShortAddrs \cup {None}, device : Devices \cup {None},
                                sensor : SensorTypes \cup {None}]]
    /\ rows \in Seq([device : Devices, client : Clients, id : 1..MaxMessages])
    /\ pending \subseteq (1..MaxMessages) \X ShortAddrs
    /\ sent \in 0..MaxMessages /\ changes \in 0..MaxChanges

Idle == [pc |-> "idle", id |-> 0, todo |-> {}, short |-> None, device |-> None, sensor |-> None]

Init ==
    /\ device \in [Devices -> Resource]
    /\ live = {}
    /\ inbox = [c \in Clients |-> <<>>]
    /\ handler = [c \in Clients |-> Idle]
    /\ rows = <<>>
    /\ pending = {}
    /\ sent = 0 /\ changes = 0

-----------------------------------------------------------------------------
(* External: the clients' sessions, the brokers and the controllers that own *)
(* the Device resources                                                      *)

\* BridgeManager.Connect gives the bridge a new client, or the client connects
\* again by itself, which it does once its router has stopped.  Bound: sessions
\* that come or go after the last message are left out.
Connect(c) ==
    /\ sent < MaxMessages
    /\ \A x \in live : BridgeOf[x] # BridgeOf[c]
    /\ inbox[c] = <<>> /\ handler[c].pc = "idle"
    /\ live' = live \cup {c}
    /\ UNCHANGED <<device, inbox, handler, rows, pending, sent, changes>>

\* Its link is lost, or BridgeManager.Connect or Disconnect closes it: both
\* return whatever the client's handler still does.
Disconnect(c) ==
    /\ sent < MaxMessages
    /\ c \in live
    /\ live' = live \ {c}
    /\ UNCHANGED <<device, inbox, handler, rows, pending, sent, changes>>

\* What it has not handed over by then may be dropped; so may it be when the
\* link is lost and there again at once.
Lose(c) ==
    /\ inbox[c] # <<>>
    /\ inbox' = [inbox EXCEPT ![c] = <<>>]
    /\ UNCHANGED <<device, live, handler, rows, pending, sent, changes>>

Publish(c) ==
    /\ c \in live
    /\ sent < MaxMessages
    /\ sent' = sent + 1
    /\ \E readings \in (SUBSET ShortAddrs) \ {{}} :
          inbox' = [inbox EXCEPT ![c] = Append(@, [id |-> sent', readings |-> readings])]
    /\ UNCHANGED <<device, live, handler, rows, pending, changes>>

ChangeDevice(d) ==
    /\ changes < MaxChanges
    /\ changes' = changes + 1
    /\ \E new \in Resource : new # device[d] /\ device' = [device EXCEPT ![d] = new]
    /\ UNCHANGED <<live, inbox, handler, rows, pending, sent>>

-----------------------------------------------------------------------------

Begin(m) == pending' = pending \cup ({m.id} \X m.readings)

\* Mutant: every message is handled when its goroutine gets to run.
TakeAny(c) ==
    /\ handler[c].pc = "idle"
    /\ \E i \in 1..Len(inbox[c]) :
          /\ handler' = [handler EXCEPT ![c] = [Idle EXCEPT !.pc = "range", !.id = inbox[c][i].id,
                                                            !.todo = inbox[c][i].readings]]
          /\ inbox' = [inbox EXCEPT ![c] = SubSeq(@, 1, i - 1) \o SubSeq(@, i + 1, Len(@))]
          /\ Begin(inbox[c][i])
    /\ UNCHANGED <<device, live, rows, sent, changes>>

\* The next message, on a bridge whose device type has a handler.
Take(c) ==
    /\ handler[c].pc = "idle"
    /\ inbox[c] # <<>>
    /\ DeviceType[BridgeOf[c]] = "tasmota"
    /\ handler' = [handler EXCEPT ![c] = [Idle EXCEPT !.pc = "range", !.id = Head(inbox[c]).id,
                                                      !.todo = Head(inbox[c]).readings]]
    /\ inbox' = [inbox EXCEPT ![c] = Tail(@)]
    /\ Begin(Head(inbox[c]))
    /\ UNCHANGED <<device, live, rows, sent, changes>>

\* A message that is not valid JSON, or holds no readings, is handled without
\* any, and so is every message of the device types that are not implemented.
Discard(c) ==
    /\ handler[c].pc = "idle"
    /\ inbox[c] # <<>>
    /\ inbox' = [inbox EXCEPT ![c] = Tail(@)]
    /\ UNCHANGED <<device, live, handler, rows, pending, sent, changes>>

\* The loop ranges over a map: the readings come in any order.
NextReading(c) ==
    /\ handler[c].pc = "range"
    /\ \E a \in handler[c].todo :
          handler' = [handler EXCEPT ![c].pc = "find", ![c].short = a, ![c].todo = @ \ {a}]
    /\ UNCHANGED <<device, live, inbox, rows, pending, sent, changes>>

HandleMessageReturns(c) ==
    /\ handler[c].pc = "range"
    /\ handler[c].todo = {}
    /\ handler' = [handler EXCEPT ![c] = Idle]
    /\ UNCHANGED <<device, live, inbox, rows, pending, sent, changes>>

\* Back to the loop, whether the reading was stored, skipped or lost.
ReadingDone(c) ==
    /\ pending' = pending \ {<<handler[c].id, handler[c].short>>}
    /\ handler' = [handler EXCEPT ![c] = [Idle EXCEPT !.pc = "range", !.id = handler[c].id,
                                                      !.todo = handler[c].todo]]

\* The devices List returns for the bridge's namespace, matched by short
\* address alone; the first of them is taken, in the order of the cache.
Matching(c) ==
    {d \in Devices : Namespace[d] = Namespace[BridgeOf[c]] /\ device[d].short = handler[c].short}

Find(c) ==
    /\ handler[c].pc = "find"
    /\ \E d \in Matching(c) :
          /\ device[d].sensor # None
          /\ handler' = [handler EXCEPT ![c].pc = "store", ![c].device = d,
                                        ![c].sensor = device[d].sensor]
    /\ UNCHANGED <<device, live, inbox, rows, pending, sent, changes>>

\* processZigbeeDevice and updateDevice return before storeMeasurement when no
\* device matches, when it has no sensor type, and, at any time, when List fails.
FindNothing(c) ==
    /\ handler[c].pc = "find"
    /\ ReadingDone(c)
    /\ UNCHANGED <<device, live, inbox, rows, sent, changes>>

Store(c) ==
    /\ handler[c].pc = "store"
    /\ rows' = Append(rows, [device |-> handler[c].device, client |-> c, id |-> handler[c].id])
    /\ ReadingDone(c)
    /\ UNCHANGED <<device, live, inbox, sent, changes>>

\* Mutant: the first error ends the loop.
StoreFailsAndReturns(c) ==
    /\ handler[c].pc = "store"
    /\ pending' = pending \ {<<handler[c].id, handler[c].short>>}
    /\ handler' = [handler EXCEPT ![c] = Idle]
    /\ UNCHANGED <<device, live, inbox, rows, sent, changes>>

\* No database, an unsupported type or a failed statement: logged, not retried.
StoreFails(c) ==
    /\ handler[c].pc = "store"
    /\ ReadingDone(c)
    /\ UNCHANGED <<device, live, inbox, rows, sent, changes>>

-----------------------------------------------------------------------------

HandlerStep(c) ==
    \/ Take(c) \/ Discard(c) \/ NextReading(c) \/ HandleMessageReturns(c)
    \/ Find(c) \/ FindNothing(c) \/ Store(c) \/ StoreFails(c)

Next ==
    \/ \E c \in Clients :
          Connect(c) \/ Disconnect(c) \/ Lose(c) \/ Publish(c) \/ HandlerStep(c)
    \/ \E d \in Devices : ChangeDevice(d)

Spec == Init /\ [][Next]_vars

-----------------------------------------------------------------------------
(* Properties *)

\* When a message has been handled, each of its readings was stored, skipped or
\* failed on its own account: an error of one, or a device that changes while
\* the loop runs, never costs the readings after it.
ReadingsAreIndependent ==
    \A i \in 1..MaxMessages, a \in ShortAddrs :
        <<i, a>> \in pending => \E c \in Clients : handler[c].id = i

\* The measurements a client reports for a device are stored in the order of its
\* messages.  Rows are stamped with the time of the store, so that a message
\* that overtook another would pass for the newer one.  Of two clients of one
\* bridge nothing of the kind is true: the handler of one that was replaced
\* (mqtt/manager.go:88-91) may store an old message after its successor's.
RowsInArrivalOrder ==
    \A i, j \in 1..Len(rows) :
        i < j /\ rows[i].device = rows[j].device /\ rows[i].client = rows[j].client =>
            rows[i].id <= rows[j].id

\* README.md:56 lists the device field "`spec.disabled`: Disable measurement
\* processing": a disabled device leaves no measurements.
DisabledNotProcessed == \A i \in 1..Len(rows) : rows[i].device \notin Disabled

=============================================================================
