--------------------------- MODULE BridgeManager ---------------------------
(***************************************************************************)
(* internal/mqtt/manager.go: one MQTT client per MQTTBridge resource.      *)
(*                                                                         *)
(* A reconciler runs Connect under m.mu.  The client it creates (external, *)
(* eclipse/paho.mqtt.golang) lives on its own: it calls OnConnect each     *)
(* time its link comes up and OnConnectionLost each time it goes down,     *)
(* every call in a new goroutine that takes no lock of the manager, and it *)
(* reconnects by itself until Disconnect is called.  The client starts     *)
(* the goroutine of the first OnConnect BEFORE Connect's token completes,  *)
(* so that it runs alongside the last statements of Connect.               *)
(*                                                                         *)
(* A client that is closed and that nothing refers to may be reused as the *)
(* next new one; Goroutines bounds the callbacks that run at a time.       *)
(***************************************************************************)
CONSTANTS
    Keys,         \* "namespace/name" of the MQTTBridge resources
    Topics,       \* Spec.Topics of type telemetry or sensor
    Clients,      \* identities of BridgeConnections, each with its client
    Goroutines,   \* slots for running callbacks
    Reconcilers,
    None

ASSUME BridgeAssumption == None \notin Keys \cup Clients \cup Reconcilers

VARIABLES
    mu,       \* m.mu: the reconciler that holds it, or None
    bridges,  \* m.bridges: Keys -> Clients or None
    conn,     \* Clients -> BridgeConnection and the state of its client
    job,      \* a reconciler's call of Connect or Disconnect
    callback, \* Goroutines -> a running callback or NoCallback
    outcome   \* how the last Connect of each key ended (history only)

vars == <<mu, bridges, conn, job, callback, outcome>>

\* link: "closed" before Connect and after Disconnect, "up" while the broker
\* is connected, "retrying" while the client reconnects.
\* armed: the link came up when mqttClient was assigned (history only).
Connection == [key : Keys \cup {None}, link : {"closed", "up", "retrying"},
               assigned : BOOLEAN, connected : BOOLEAN, armed : BOOLEAN,
               subs : SUBSET Topics]

NoCallback == [kind |-> "none", client |-> None, todo |-> {}]

Callback ==
    [kind : {"start", "subscribe", "lost"}, client : Clients, todo : SUBSET Topics] \cup {NoCallback}

JobPc == {"idle", "lock", "replace", "remove", "dial", "assign"}

\* The types, and that m.mu is held exactly while Connect or Disconnect runs.
TypeOK ==
    /\ mu \in Reconcilers \cup {None}
    /\ \A w \in Reconcilers : mu = w <=> job[w].pc \notin {"idle", "lock"}
    /\ bridges \in [Keys -> Clients \cup {None}]
    /\ conn \in [Clients -> Connection]
    /\ job \in [Reconcilers -> [pc : JobPc, op : {"connect", "disconnect"},
                                key : Keys \cup {None}, client : Clients \cup {None}]]
    /\ callback \in [Goroutines -> Callback]
    /\ outcome \in [Keys -> {"none", "ok", "failed"}]

NoConnection == [key |-> None, link |-> "closed", assigned |-> FALSE,
                 connected |-> FALSE, armed |-> FALSE, subs |-> {}]

NoJob == [pc |-> "idle", op |-> "connect", key |-> None, client |-> None]

Init ==
    /\ mu = None
    /\ bridges = [k \in Keys |-> None]
    /\ conn = [c \in Clients |-> NoConnection]
    /\ job = [w \in Reconcilers |-> NoJob]
    /\ callback = [g \in Goroutines |-> NoCallback]
    /\ outcome = [k \in Keys |-> "none"]

\* mqttClient.IsConnected(): also true while an auto-reconnecting client retries.
ClientIsConnected(c) == conn[c].link # "closed"

Free(g) == callback[g] = NoCallback

Start(g, kind, c) ==
    callback' = [callback EXCEPT ![g] = [kind |-> kind, client |-> c, todo |-> {}]]

Unreferenced(c) ==
    /\ conn[c].link = "closed"
    /\ \A k \in Keys : bridges[k] # c
    /\ \A w \in Reconcilers : job[w].client # c
    /\ \A g \in Goroutines : callback[g].client # c

-----------------------------------------------------------------------------
(* Connect and Disconnect *)

Call(w) ==
    /\ job[w].pc = "idle"
    /\ \E k \in Keys, op \in {"connect", "disconnect"} :
          job' = [job EXCEPT ![w] = [pc |-> "lock", op |-> op, key |-> k, client |-> None]]
    /\ UNCHANGED <<mu, bridges, conn, callback, outcome>>

Lock(w) ==
    /\ job[w].pc = "lock"
    /\ mu = None
    /\ mu' = w
    /\ job' = [job EXCEPT ![w].pc = IF job[w].op = "connect" THEN "replace" ELSE "remove"]
    /\ UNCHANGED <<bridges, conn, callback, outcome>>

Return(w) ==
    /\ mu' = None
    /\ job' = [job EXCEPT ![w] = NoJob]

\* Mutant: the flag is asked in place of the client.
CloseIfFlagged(k) ==
    IF /\ bridges[k] # None
       /\ conn[bridges[k]].connected
    THEN [conn EXCEPT ![bridges[k]].link = "closed", ![bridges[k]].subs = {}]
    ELSE conn

\* existing.mqttClient.Disconnect(250) if it is connected; it fires no callback.
CloseExisting(k) ==
    IF /\ bridges[k] # None
       /\ conn[bridges[k]].assigned /\ ClientIsConnected(bridges[k])
    THEN [conn EXCEPT ![bridges[k]].link = "closed", ![bridges[k]].subs = {}]
    ELSE conn

\* Connect leaves the entry of the old connection in the map.
Replace(w) ==
    /\ job[w].pc = "replace"
    /\ conn' = CloseExisting(job[w].key)
    /\ job' = [job EXCEPT ![w].pc = "dial"]
    /\ UNCHANGED <<mu, bridges, callback, outcome>>

Remove(w) ==
    /\ job[w].pc = "remove"
    /\ conn' = CloseExisting(job[w].key)
    /\ bridges' = [bridges EXCEPT ![job[w].key] = None]
    /\ outcome' = [outcome EXCEPT ![job[w].key] = "none"]
    /\ Return(w)
    /\ UNCHANGED callback

\* Mutant: the early return forgets to unlock m.mu.
ConnectFailsLocked(w) ==
    /\ job[w].pc = "dial"
    /\ outcome' = [outcome EXCEPT ![job[w].key] = "failed"]
    /\ job' = [job EXCEPT ![w] = NoJob]
    /\ UNCHANGED <<mu, bridges, conn, callback>>

\* An unreadable Secret, or no connection within 5 s: Connect gives up.
ConnectFails(w) ==
    /\ job[w].pc = "dial"
    /\ outcome' = [outcome EXCEPT ![job[w].key] = "failed"]
    /\ Return(w)
    /\ UNCHANGED <<bridges, conn, callback>>

\* The new client's link comes up: OnConnect starts, Connect's token completes.
Dial(w) ==
    /\ job[w].pc = "dial"
    /\ \E c \in Clients, g \in Goroutines :
          /\ Unreferenced(c) /\ Free(g)
          /\ conn' = [conn EXCEPT ![c] = [NoConnection EXCEPT !.key = job[w].key, !.link = "up"]]
          /\ Start(g, "start", c)
          /\ job' = [job EXCEPT ![w] = [@ EXCEPT !.pc = "assign", !.client = c]]
    /\ UNCHANGED <<mu, bridges, outcome>>

\* Mutant: an entry that is there already is kept.
AssignUnlessPresent(w) ==
    LET c == job[w].client
        k == job[w].key
    IN  /\ job[w].pc = "assign"
        /\ conn' = [conn EXCEPT ![c].assigned = TRUE, ![c].connected = TRUE]
        /\ bridges' = [bridges EXCEPT ![k] = IF @ = None THEN c ELSE @]
        /\ outcome' = [outcome EXCEPT ![k] = "ok"]
        /\ Return(w)
        /\ UNCHANGED callback

\* mqttClient, connected and the map entry, without conn.mu.
Assign(w) ==
    LET c == job[w].client
        k == job[w].key
    IN  /\ job[w].pc = "assign"
        /\ conn' = [conn EXCEPT ![c].assigned = TRUE, ![c].connected = TRUE]
        /\ bridges' = [bridges EXCEPT ![k] = c]
        /\ outcome' = [outcome EXCEPT ![k] = "ok"]
        /\ Return(w)
        /\ UNCHANGED callback

-----------------------------------------------------------------------------
(* The client's link, external *)

\* Sessions are clean: the broker forgets the subscriptions.
LinkLost(c) ==
    /\ conn[c].link = "up"
    /\ conn' = [conn EXCEPT ![c].link = "retrying", ![c].subs = {}]
    /\ \E g \in Goroutines : Free(g) /\ Start(g, "lost", c)
    /\ UNCHANGED <<mu, bridges, job, outcome>>

Reconnect(c) ==
    /\ conn[c].link = "retrying"
    /\ conn' = [conn EXCEPT ![c].link = "up", ![c].armed = conn[c].assigned]
    /\ \E g \in Goroutines : Free(g) /\ Start(g, "start", c)
    /\ UNCHANGED <<mu, bridges, job, outcome>>

-----------------------------------------------------------------------------
(* The callbacks *)

OnConnect(g) ==
    /\ callback[g].kind = "start"
    /\ conn' = [conn EXCEPT ![callback[g].client].connected = TRUE]
    /\ callback' = [callback EXCEPT ![g] = [@ EXCEPT !.kind = "subscribe", !.todo = Topics]]
    /\ UNCHANGED <<mu, bridges, job, outcome>>

\* Mutant: the connected flag is asked in place of the client.
SubscribeIfFlagged(g) ==
    LET c == callback[g].client
    IN  /\ callback[g].kind = "subscribe"
        /\ \E t \in callback[g].todo :
              /\ conn' = IF conn[c].assigned /\ conn[c].connected /\ conn[c].link = "up"
                         THEN [conn EXCEPT ![c].subs = @ \cup {t}]
                         ELSE conn
              /\ callback' = [callback EXCEPT ![g].todo = @ \ {t}]
        /\ UNCHANGED <<mu, bridges, job, outcome>>

\* subscribeToTopic: skipped without an error when mqttClient is still nil or the
\* client was closed; an error, only logged, when the link is down.
SubscribeToTopic(g) ==
    LET c == callback[g].client
    IN  /\ callback[g].kind = "subscribe"
        /\ \E t \in callback[g].todo :
              /\ conn' = IF conn[c].assigned /\ conn[c].link = "up"
                         THEN [conn EXCEPT ![c].subs = @ \cup {t}]
                         ELSE conn
              /\ callback' = [callback EXCEPT ![g].todo = @ \ {t}]
        /\ UNCHANGED <<mu, bridges, job, outcome>>

\* Connect stores the two words of the interface mqttClient without conn.mu: a
\* callback that reads them in between calls a method of a nil client, and the
\* panic of its goroutine ends the process, which starts again from nothing.
TornRead(g) ==
    /\ callback[g].kind = "subscribe" /\ callback[g].todo # {}
    /\ \E w \in Reconcilers : job[w].pc = "assign" /\ job[w].client = callback[g].client
    /\ mu' = None
    /\ bridges' = [k \in Keys |-> None]
    /\ conn' = [c \in Clients |-> NoConnection]
    /\ job' = [w \in Reconcilers |-> NoJob]
    /\ callback' = [h \in Goroutines |-> NoCallback]
    /\ outcome' = [k \in Keys |-> "none"]

OnConnectReturns(g) ==
    /\ callback[g].kind = "subscribe"
    /\ callback[g].todo = {}
    /\ callback' = [callback EXCEPT ![g] = NoCallback]
    /\ UNCHANGED <<mu, bridges, conn, job, outcome>>

OnConnectionLost(g) ==
    /\ callback[g].kind = "lost"
    /\ conn' = [conn EXCEPT ![callback[g].client].connected = FALSE]
    /\ callback' = [callback EXCEPT ![g] = NoCallback]
    /\ UNCHANGED <<mu, bridges, job, outcome>>

-----------------------------------------------------------------------------

ReconcilerStep(w) ==
    \/ Lock(w) \/ Replace(w) \/ Remove(w) \/ Dial(w) \/ ConnectFails(w) \/ Assign(w)

CallbackStep(g) ==
    \/ OnConnect(g) \/ SubscribeToTopic(g) \/ OnConnectReturns(g) \/ OnConnectionLost(g)

Next ==
    \/ \E w \in Reconcilers : Call(w) \/ ReconcilerStep(w)
    \/ \E c \in Clients : LinkLost(c) \/ Reconnect(c)
    \/ \E g \in Goroutines : CallbackStep(g) \/ TornRead(g)

Spec == Init /\ [][Next]_vars

\* Goroutines run, and every network operation returns (5 s connect timeout).
\* Nothing is assumed of the links.
Fairness ==
    /\ \A w \in Reconcilers : WF_vars(ReconcilerStep(w)) /\ SF_vars(Lock(w))
    /\ \A g \in Goroutines : WF_vars(CallbackStep(g))

FairSpec == Spec /\ Fairness

-----------------------------------------------------------------------------
(* Properties *)

Live(c) == conn[c].link # "closed"

\* A bridge has at most one client that is connected or reconnecting: a client
\* that Connect replaced can never revive.  Two live clients with the same
\* client ID would throw each other off the broker for ever, and each message
\* would be stored twice.
OneLiveClientPerBridge ==
    \A c, d \in Clients : Live(c) /\ Live(d) /\ conn[c].key = conn[d].key => c = d

\* A live client can always be reached through the map, so that a later Connect
\* or Disconnect finds it: none keeps running behind the manager's back.
LiveClientsAreReachable ==
    \A c \in Clients : Live(c) =>
        \/ bridges[conn[c].key] = c
        \/ \E w \in Reconcilers : job[w].pc = "assign" /\ job[w].client = c

\* Between two calls for a bridge, the last of which succeeded, its entry is a
\* client that is connected or reconnects; only a failed Connect leaves the
\* dead client of its predecessor in the map.
SuccessLeavesLiveClient ==
    \A k \in Keys : outcome[k] = "ok" =>
        \/ bridges[k] # None /\ Live(bridges[k]) /\ conn[bridges[k]].assigned
        \/ \E w \in Reconcilers : mu = w /\ job[w].key = k

\* README.md:35, "Automatic reconnection": a link that came up once Connect had
\* stored the client is followed by the subscription to every sensor topic,
\* unless it goes down again, however late the OnConnectionLost callback runs.
ResubscribesAfterReconnect ==
    \A c \in Clients :
        conn[c].link = "up" /\ conn[c].armed ~> conn[c].link # "up" \/ conn[c].subs = Topics

\* manager.go:236 says OnConnect will "Subscribe to all configured topics", and
\* it runs on every established connection: when nothing is in progress any
\* more, a bridge whose link is up is subscribed.
SubscribedWhenSettled ==
    \A k \in Keys :
        /\ mu = None /\ bridges[k] # None
        /\ conn[bridges[k]].link = "up"
        /\ \A g \in Goroutines : Free(g)
        => conn[bridges[k]].subs = Topics

=============================================================================
