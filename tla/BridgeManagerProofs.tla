------------------------ MODULE BridgeManagerProofs ------------------------
(***************************************************************************)
(* The safety properties of BridgeManager, and the safety part of its      *)
(* refinement of BridgeLinks, for every number of bridges, topics,         *)
(* clients, callbacks and reconcilers.                                     *)
(***************************************************************************)
EXTENDS BridgeManagerRefinement, FiniteSetTheorems, TLAPS

\* What Connect has built so far: it dials only when no client of its bridge
\* lives any more, and until it stores the new client nothing closes that one.
JobInv ==
    \A w \in Reconcilers :
        /\ job[w].pc # "idle" => job[w].key \in Keys
        /\ job[w].pc = "dial" => LiveClients(job[w].key) = {}
        /\ job[w].pc = "assign" =>
              /\ job[w].client \in Clients
              /\ LiveClients(job[w].key) = {job[w].client}

\* The map's entries are stored clients of their own bridge.
MapInv ==
    \A k \in Keys : bridges[k] # None =>
        conn[bridges[k]].key = k /\ conn[bridges[k]].assigned

\* A live client has a bridge; while it retries the broker remembers nothing.
LinkInv ==
    \A c \in Clients :
        /\ Live(c) => conn[c].key \in Keys
        /\ conn[c].link = "retrying" => conn[c].subs = {}

\* The inductive invariant.
IInv ==
    /\ TypeOK
    /\ JobInv
    /\ MapInv
    /\ LinkInv
    /\ OneLiveClientPerBridge
    /\ LiveClientsAreReachable
    /\ SuccessLeavesLiveClient

-----------------------------------------------------------------------------

Job == [pc : JobPc, op : {"connect", "disconnect"},
        key : Keys \cup {None}, client : Clients \cup {None}]

\* TypeOK without the lock.
Typed ==
    /\ mu \in Reconcilers \cup {None}
    /\ bridges \in [Keys -> Clients \cup {None}]
    /\ conn \in [Clients -> Connection]
    /\ job \in [Reconcilers -> Job]
    /\ callback \in [Goroutines -> Callback]
    /\ outcome \in [Keys -> {"none", "ok", "failed"}]

\* m.mu is held exactly while Connect or Disconnect runs.
Held == \A w \in Reconcilers : mu = w <=> job[w].pc \notin {"idle", "lock"}

LEMMA TypeParts == (TypeOK <=> Typed /\ Held) /\ (TypeOK' <=> Typed' /\ Held')
  BY DEF TypeOK, Typed, Held, Job

LEMMA InitIInv == Init => IInv
  <1> SUFFICES ASSUME Init PROVE IInv
    OBVIOUS
  <1> USE BridgeAssumption DEF Init
  <1>1. NoConnection \in Connection /\ NoJob \in Job /\ NoCallback \in Callback
    BY DEF NoConnection, Connection, NoJob, Job, JobPc, NoCallback, Callback
  <1>2. TypeOK
    <2>1. Typed
      BY <1>1 DEF Typed
    <2>2. Held
      BY DEF Held, NoJob
    <2> QED BY <2>1, <2>2, TypeParts
  <1>3. \A c \in Clients : ~Live(c) /\ conn[c].link # "retrying"
    BY DEF Live, NoConnection
  <1>4. JobInv /\ MapInv
    BY DEF JobInv, NoJob, MapInv
  <1>5. LinkInv /\ OneLiveClientPerBridge /\ LiveClientsAreReachable
    BY <1>3 DEF LinkInv, OneLiveClientPerBridge, LiveClientsAreReachable
  <1>6. SuccessLeavesLiveClient
    BY DEF SuccessLeavesLiveClient
  <1> QED BY <1>2, <1>4, <1>5, <1>6 DEF IInv

\* Whoever is past the lock is the only one.
LEMMA OnlyHolder ==
    ASSUME IInv, NEW w \in Reconcilers, job[w].pc \notin {"idle", "lock"}
    PROVE  mu = w /\ \A v \in Reconcilers \ {w} : job[v].pc \in {"idle", "lock"}
  BY TypeParts DEF IInv, Held

\* No client is opened, closed or stored, nor changes its bridge.
ClientsKept ==
    /\ conn' \in [Clients -> Connection]
    /\ \A c \in Clients :
          /\ conn'[c].key = conn[c].key
          /\ conn'[c].assigned = conn[c].assigned
          /\ conn'[c].link = "closed" <=> conn[c].link = "closed"
          /\ conn'[c].link = "retrying" => conn'[c].subs = {}

\* The steps of links and callbacks preserve what the manager relies on.
LEMMA KeptInv ==
    ASSUME IInv, ClientsKept, UNCHANGED <<mu, bridges, job, outcome>>,
           callback' \in [Goroutines -> Callback]
    PROVE  IInv'
  <1>1. TypeOK'
    BY TypeParts DEF IInv, Typed, Held, ClientsKept
  <1>2. \A c \in Clients : Live(c)' <=> Live(c)
    BY DEF ClientsKept, Live
  <1>3. \A k : LiveClients(k)' = LiveClients(k)
    BY <1>2 DEF LiveClients, ClientsKept
  <1>4. JobInv'
    BY <1>3 DEF IInv, JobInv
  <1>5. bridges \in [Keys -> Clients \cup {None}]
    BY TypeParts DEF IInv, Typed
  <1>6. MapInv'
    BY <1>5 DEF IInv, MapInv, ClientsKept
  <1>7. LinkInv'
    BY <1>2 DEF IInv, LinkInv, ClientsKept
  <1>8. OneLiveClientPerBridge' /\ LiveClientsAreReachable'
    BY <1>2 DEF IInv, OneLiveClientPerBridge, LiveClientsAreReachable, ClientsKept
  <1>9. SuccessLeavesLiveClient'
    BY <1>2, <1>5 DEF IInv, SuccessLeavesLiveClient, ClientsKept
  <1> QED BY <1>1, <1>4, <1>6, <1>7, <1>8, <1>9 DEF IInv

LEMMA StartTyped ==
    ASSUME IInv, NEW g \in Goroutines, NEW c \in Clients,
           NEW kind \in {"start", "lost"}, Start(g, kind, c)
    PROVE  callback' \in [Goroutines -> Callback]
  <1>1. callback \in [Goroutines -> Callback]
    BY TypeParts DEF IInv, Typed
  <1>2. [kind |-> kind, client |-> c, todo |-> {}] \in Callback
    BY DEF Callback
  <1> QED BY <1>1, <1>2 DEF Start

LEMMA LinkLostStep ==
    ASSUME IInv, NEW c \in Clients, LinkLost(c)
    PROVE  IInv'
  <1>1. conn \in [Clients -> Connection]
    BY TypeParts DEF IInv, Typed
  <1>2. ClientsKept
    BY <1>1 DEF LinkLost, ClientsKept, Connection, IInv, LinkInv
  <1>3. callback' \in [Goroutines -> Callback]
    BY StartTyped DEF LinkLost
  <1> QED BY <1>2, <1>3, KeptInv DEF LinkLost

LEMMA ReconnectStep ==
    ASSUME IInv, NEW c \in Clients, Reconnect(c)
    PROVE  IInv'
  <1>1. conn \in [Clients -> Connection]
    BY TypeParts DEF IInv, Typed
  <1>2. ClientsKept
    BY <1>1 DEF Reconnect, ClientsKept, Connection, IInv, LinkInv
  <1>3. callback' \in [Goroutines -> Callback]
    BY StartTyped DEF Reconnect
  <1> QED BY <1>2, <1>3, KeptInv DEF Reconnect

LEMMA CallbackTypes ==
    ASSUME IInv, NEW g \in Goroutines, callback[g].kind # "none"
    PROVE  /\ conn \in [Clients -> Connection]
           /\ callback \in [Goroutines -> Callback]
           /\ callback[g] \in [kind : {"start", "subscribe", "lost"}, client : Clients,
                               todo : SUBSET Topics]
  <1>1. conn \in [Clients -> Connection] /\ callback \in [Goroutines -> Callback]
    BY TypeParts DEF IInv, Typed
  <1>2. callback[g] \in Callback
    BY <1>1
  <1> QED BY <1>1, <1>2 DEF Callback, NoCallback

LEMMA CallbackStepInv ==
    ASSUME IInv, NEW g \in Goroutines, CallbackStep(g)
    PROVE  IInv'
  <1> DEFINE c == callback[g].client
  <1>0. callback[g].kind # "none" /\ UNCHANGED <<mu, bridges, job, outcome>>
    BY DEF CallbackStep, OnConnect, SubscribeToTopic, OnConnectReturns, OnConnectionLost
  <1>1. /\ conn \in [Clients -> Connection]
        /\ callback \in [Goroutines -> Callback]
        /\ c \in Clients
    BY <1>0, CallbackTypes
  <1>a. callback[g] \in [kind : {"start", "subscribe", "lost"}, client : Clients,
                         todo : SUBSET Topics]
    BY <1>0, CallbackTypes
  <1>2. \A x \in Clients : conn[x].link = "retrying" => conn[x].subs = {}
    BY DEF IInv, LinkInv
  <1> HIDE DEF c
  <1>3. CASE OnConnect(g)
    <2>1. conn' = [conn EXCEPT ![c].connected = TRUE]
      BY <1>3 DEF OnConnect, c
    <2>2. ClientsKept
      BY <2>1, <1>1, <1>2 DEF ClientsKept, Connection
    <2>3. [callback[g] EXCEPT !.kind = "subscribe", !.todo = Topics] \in Callback
      BY <1>a DEF Callback
    <2>4. callback' \in [Goroutines -> Callback]
      BY <1>1, <1>3, <2>3 DEF OnConnect
    <2> QED BY <1>0, <2>2, <2>4, KeptInv
  <1>4. CASE SubscribeToTopic(g)
    <2> PICK t \in callback[g].todo :
          /\ conn' = IF conn[c].assigned /\ conn[c].link = "up"
                     THEN [conn EXCEPT ![c].subs = @ \cup {t}]
                     ELSE conn
          /\ callback' = [callback EXCEPT ![g].todo = @ \ {t}]
      BY <1>4 DEF SubscribeToTopic, c
    <2>1. t \in Topics
      BY <1>a
    <2>2. ClientsKept
      <3>1. CASE conn[c].assigned /\ conn[c].link = "up"
        BY <1>1, <1>2, <2>1, <3>1 DEF ClientsKept, Connection
      <3>2. CASE ~(conn[c].assigned /\ conn[c].link = "up")
        BY <1>1, <1>2, <3>2 DEF ClientsKept
      <3> QED BY <3>1, <3>2
    <2>3. [callback[g] EXCEPT !.todo = @ \ {t}] \in Callback
      BY <1>a DEF Callback
    <2>4. callback' \in [Goroutines -> Callback]
      BY <1>1, <2>3
    <2> QED BY <1>0, <2>2, <2>4, KeptInv
  <1>5. CASE OnConnectReturns(g)
    <2>1. ClientsKept
      BY <1>1, <1>2, <1>5 DEF OnConnectReturns, ClientsKept
    <2>2. callback' \in [Goroutines -> Callback]
      BY <1>1, <1>5 DEF OnConnectReturns, Callback
    <2> QED BY <1>0, <2>1, <2>2, KeptInv
  <1>6. CASE OnConnectionLost(g)
    <2>1. conn' = [conn EXCEPT ![c].connected = FALSE]
      BY <1>6 DEF OnConnectionLost, c
    <2>2. ClientsKept
      BY <2>1, <1>1, <1>2 DEF ClientsKept, Connection
    <2>3. callback' \in [Goroutines -> Callback]
      BY <1>1, <1>6 DEF OnConnectionLost, Callback
    <2> QED BY <1>0, <2>2, <2>3, KeptInv
  <1> QED BY <1>3, <1>4, <1>5, <1>6 DEF CallbackStep

\* A restart is the initial state.
LEMMA TornReadStep ==
    ASSUME IInv, NEW g \in Goroutines, TornRead(g)
    PROVE  IInv'
  <1> USE BridgeAssumption
  <1>0. /\ mu' = None
        /\ bridges' = [k \in Keys |-> None]
        /\ conn' = [x \in Clients |-> NoConnection]
        /\ job' = [v \in Reconcilers |-> NoJob]
        /\ callback' = [h \in Goroutines |-> NoCallback]
        /\ outcome' = [k \in Keys |-> "none"]
    BY DEF TornRead
  <1>1. NoConnection \in Connection /\ NoJob \in Job /\ NoCallback \in Callback
    BY DEF NoConnection, Connection, NoJob, Job, JobPc, NoCallback, Callback
  <1>2. TypeOK'
    <2>1. Typed'
      BY <1>0, <1>1 DEF Typed
    <2>2. Held'
      BY <1>0 DEF Held, NoJob
    <2> QED BY <2>1, <2>2, TypeParts
  <1>3. \A x \in Clients : conn'[x].link = "closed"
    BY <1>0 DEF NoConnection
  <1>4. JobInv' /\ MapInv'
    BY <1>0 DEF JobInv, NoJob, MapInv
  <1>5. LinkInv' /\ OneLiveClientPerBridge' /\ LiveClientsAreReachable'
    BY <1>3 DEF LinkInv, OneLiveClientPerBridge, LiveClientsAreReachable, Live
  <1>6. SuccessLeavesLiveClient'
    BY <1>0 DEF SuccessLeavesLiveClient
  <1> QED BY <1>2, <1>4, <1>5, <1>6 DEF IInv

-----------------------------------------------------------------------------
(* Connect and Disconnect *)

\* The steps that change neither the map, nor a client, nor an outcome.
LEMMA MapUnaffected ==
    ASSUME IInv, UNCHANGED <<bridges, conn, outcome>>
    PROVE  MapInv' /\ LinkInv' /\ OneLiveClientPerBridge' /\ \A k : LiveClients(k)' = LiveClients(k)
  BY DEF IInv, MapInv, LinkInv, OneLiveClientPerBridge, LiveClients, Live

LEMMA CallStep ==
    ASSUME IInv, NEW w \in Reconcilers, Call(w)
    PROVE  IInv'
  <1> PICK k \in Keys, op \in {"connect", "disconnect"} :
         job' = [job EXCEPT ![w] = [pc |-> "lock", op |-> op, key |-> k, client |-> None]]
    BY DEF Call
  <1>0. job[w].pc = "idle" /\ UNCHANGED <<mu, bridges, conn, callback, outcome>>
    BY DEF Call
  <1>1. Typed /\ Held
    BY TypeParts DEF IInv
  <1>2. [pc |-> "lock", op |-> op, key |-> k, client |-> None] \in Job
    BY DEF Job, JobPc
  <1>3. /\ job' \in [Reconcilers -> Job]
        /\ job'[w].pc = "lock" /\ job'[w].key \in Keys
        /\ \A v \in Reconcilers \ {w} : job'[v] = job[v]
    BY <1>1, <1>2 DEF Typed
  <1>4. TypeOK'
    <2>1. Typed'
      BY <1>0, <1>1, <1>3 DEF Typed
    <2>2. Held'
      BY <1>0, <1>1, <1>3 DEF Held
    <2> QED BY <2>1, <2>2, TypeParts
  <1>5. JobInv'
    BY <1>0, <1>3, MapUnaffected DEF IInv, JobInv
  <1>6. LiveClientsAreReachable'
    BY <1>0, <1>3 DEF IInv, LiveClientsAreReachable, Live
  <1>7. SuccessLeavesLiveClient'
    BY <1>0, <1>1, <1>3 DEF IInv, SuccessLeavesLiveClient, Live, Held
  <1> QED BY <1>0, <1>4, <1>5, <1>6, <1>7, MapUnaffected DEF IInv

LEMMA LockStep ==
    ASSUME IInv, NEW w \in Reconcilers, Lock(w)
    PROVE  IInv'
  <1>0. /\ job[w].pc = "lock" /\ mu = None /\ mu' = w
        /\ UNCHANGED <<bridges, conn, callback, outcome>>
    BY DEF Lock
  <1>1. Typed /\ Held
    BY TypeParts DEF IInv
  <1>2. PICK pc \in {"replace", "remove"} : job' = [job EXCEPT ![w].pc = pc]
    BY DEF Lock
  <1>3. /\ job' \in [Reconcilers -> Job]
        /\ job'[w].pc = pc /\ job'[w].key = job[w].key
        /\ \A v \in Reconcilers \ {w} : job'[v] = job[v]
    BY <1>1, <1>2 DEF Typed, Job, JobPc
  <1>4. \A v \in Reconcilers : job[v].pc \in {"idle", "lock"}
    BY <1>0, <1>1, BridgeAssumption DEF Held
  <1>5. TypeOK'
    <2>1. Typed'
      BY <1>0, <1>1, <1>3 DEF Typed
    <2>2. Held'
      BY <1>0, <1>3, <1>4 DEF Held
    <2> QED BY <2>1, <2>2, TypeParts
  <1>6. JobInv'
    BY <1>0, <1>3, <1>4 DEF IInv, JobInv
  <1>7. LiveClientsAreReachable'
    BY <1>0, <1>4 DEF IInv, LiveClientsAreReachable, Live
  <1>8. SuccessLeavesLiveClient'
    BY <1>0, BridgeAssumption DEF IInv, SuccessLeavesLiveClient, Live
  <1> QED BY <1>0, <1>5, <1>6, <1>7, <1>8, MapUnaffected DEF IInv

\* What the holder of the lock finds in the map is all that lives of a bridge.
LEMMA LiveIsMapped ==
    ASSUME IInv, NEW w \in Reconcilers, job[w].pc \notin {"idle", "lock", "assign"},
           NEW c \in Clients, Live(c)
    PROVE  bridges[conn[c].key] = c /\ conn[c].key \in Keys
  BY OnlyHolder DEF IInv, LiveClientsAreReachable, LinkInv

\* Closing what the map holds of a bridge leaves no client of it alive, and
\* every other client as it was.
LEMMA CloseEffect ==
    ASSUME IInv, NEW w \in Reconcilers, job[w].pc \in {"replace", "remove"},
           conn' = CloseExisting(job[w].key)
    PROVE  /\ job[w].key \in Keys
           /\ conn' \in [Clients -> Connection]
           /\ \A c \in Clients :
                 /\ conn'[c].key = conn[c].key
                 /\ conn'[c].assigned = conn[c].assigned
                 /\ Live(c)' <=> Live(c) /\ conn[c].key # job[w].key
                 /\ conn[c].key # job[w].key => conn'[c] = conn[c]
                 /\ conn'[c].link = "retrying" => conn'[c].subs = {}
  <1> DEFINE k == job[w].key
             b == bridges[k]
  <1>1. k \in Keys
    BY DEF IInv, JobInv
  <1>2. conn \in [Clients -> Connection] /\ bridges \in [Keys -> Clients \cup {None}]
    BY TypeParts DEF IInv, Typed
  <1>3. \A c \in Clients : Live(c) => bridges[conn[c].key] = c
    BY LiveIsMapped
  <1>4. b # None => b \in Clients /\ conn[b].key = k /\ conn[b].assigned
    BY <1>1, <1>2 DEF IInv, MapInv
  <1>5. \A c \in Clients : conn[c].link = "retrying" => conn[c].subs = {}
    BY DEF IInv, LinkInv
  <1>6. CASE b # None /\ Live(b)
    <2>1. PICK e \in Clients : e = b
      BY <1>4, <1>6
    <2>2. conn' = [conn EXCEPT ![e].link = "closed", ![e].subs = {}]
      BY <1>4, <1>6, <2>1 DEF CloseExisting, ClientIsConnected, Live
    <2>3. conn' \in [Clients -> Connection]
      <3>1. [conn[e] EXCEPT !.link = "closed", !.subs = {}] \in Connection
        BY <1>2 DEF Connection
      <3>2. conn' = [conn EXCEPT ![e] = [conn[e] EXCEPT !.link = "closed", !.subs = {}]]
        BY <1>2, <2>2
      <3> QED BY <1>2, <3>1, <3>2
    <2>4. /\ conn'[e].link = "closed" /\ conn'[e].key = conn[e].key
          /\ conn'[e].assigned = conn[e].assigned
          /\ \A c \in Clients \ {e} : conn'[c] = conn[c]
      BY <1>2, <2>2 DEF Connection
    <2>5. conn[e].key = k /\ \A c \in Clients \ {e} : Live(c) => conn[c].key # k
      BY <1>3, <1>4, <1>6, <2>1
    <2> QED BY <1>1, <1>5, <2>3, <2>4, <2>5 DEF Live
  <1>7. CASE ~(b # None /\ Live(b))
    <2>1. conn' = conn
      BY <1>7 DEF CloseExisting, ClientIsConnected, Live
    <2>2. \A c \in Clients : Live(c) => conn[c].key # k
      BY <1>1, <1>2, <1>3, <1>7, BridgeAssumption
    <2>3. \A c \in Clients : Live(c)' <=> Live(c)
      BY <2>1 DEF Live
    <2> QED BY <1>1, <1>2, <1>5, <2>1, <2>2, <2>3
  <1> QED BY <1>6, <1>7

\* What the deferred unlock leaves of the jobs.
LEMMA ReturnEffect ==
    ASSUME IInv, NEW w \in Reconcilers, job[w].pc \notin {"idle", "lock"}, Return(w)
    PROVE  /\ mu' = None
           /\ job' \in [Reconcilers -> Job]
           /\ \A v \in Reconcilers : job'[v].pc \in {"idle", "lock"}
           /\ \A v \in Reconcilers : job'[v].pc # "idle" => job'[v].key \in Keys
           /\ Held' /\ JobInv'
  <1>1. job \in [Reconcilers -> Job] /\ NoJob \in Job
    BY TypeParts DEF IInv, Typed, NoJob, Job, JobPc
  <1>2. /\ mu' = None /\ job' \in [Reconcilers -> Job] /\ job'[w].pc = "idle"
        /\ \A v \in Reconcilers \ {w} : job'[v] = job[v]
    BY <1>1 DEF Return, NoJob
  <1>3. \A v \in Reconcilers : job'[v].pc \in {"idle", "lock"}
    BY <1>2, OnlyHolder
  <1>4. \A v \in Reconcilers : job'[v].pc # "idle" => job'[v].key \in Keys
    BY <1>2 DEF IInv, JobInv
  <1>5. Held'
    BY <1>2, <1>3, BridgeAssumption DEF Held
  <1>6. JobInv'
    BY <1>3, <1>4 DEF JobInv
  <1> QED BY <1>2, <1>3, <1>4, <1>5, <1>6

LEMMA ReplaceStep ==
    ASSUME IInv, NEW w \in Reconcilers, Replace(w)
    PROVE  IInv'
  <1> DEFINE k == job[w].key
  <1>0. /\ job[w].pc = "replace" /\ conn' = CloseExisting(k)
        /\ job' = [job EXCEPT ![w].pc = "dial"]
        /\ UNCHANGED <<mu, bridges, callback, outcome>>
    BY DEF Replace
  <1>1. Typed /\ Held
    BY TypeParts DEF IInv
  <1>2. /\ job' \in [Reconcilers -> Job]
        /\ job'[w].pc = "dial" /\ job'[w].key = k
        /\ \A v \in Reconcilers \ {w} : job'[v] = job[v]
    BY <1>0, <1>1 DEF Typed, Job, JobPc
  <1>3. mu = w /\ \A v \in Reconcilers \ {w} : job[v].pc \in {"idle", "lock"}
    BY <1>0, OnlyHolder
  <1>4. /\ k \in Keys /\ conn' \in [Clients -> Connection]
        /\ \A c \in Clients :
              /\ conn'[c].key = conn[c].key /\ conn'[c].assigned = conn[c].assigned
              /\ Live(c)' <=> Live(c) /\ conn[c].key # k
              /\ conn[c].key # k => conn'[c] = conn[c]
              /\ conn'[c].link = "retrying" => conn'[c].subs = {}
    BY <1>0, CloseEffect
  <1> HIDE DEF k
  <1>5. TypeOK'
    <2>1. Typed'
      BY <1>0, <1>1, <1>2, <1>4 DEF Typed
    <2>2. Held'
      BY <1>0, <1>1, <1>2 DEF Held
    <2> QED BY <2>1, <2>2, TypeParts
  <1>6. JobInv'
    BY <1>2, <1>3, <1>4 DEF IInv, JobInv, LiveClients
  <1>7. bridges \in [Keys -> Clients \cup {None}]
    BY <1>1 DEF Typed
  <1>8. MapInv' /\ LinkInv'
    BY <1>0, <1>4, <1>7 DEF IInv, MapInv, LinkInv
  <1>9. OneLiveClientPerBridge'
    BY <1>4 DEF IInv, OneLiveClientPerBridge
  <1>10. LiveClientsAreReachable'
    BY <1>0, <1>4, LiveIsMapped DEF LiveClientsAreReachable
  <1>11. SuccessLeavesLiveClient'
    <2> SUFFICES ASSUME NEW j \in Keys, outcome[j] = "ok", j # k
                 PROVE  /\ bridges[j] # None
                        /\ conn'[bridges[j]].link # "closed" /\ conn'[bridges[j]].assigned
      BY <1>0, <1>2, <1>3 DEF SuccessLeavesLiveClient, Live
    <2>1. bridges[j] # None /\ Live(bridges[j]) /\ conn[bridges[j]].assigned
      BY <1>3 DEF IInv, SuccessLeavesLiveClient, k
    <2>2. bridges[j] \in Clients /\ conn[bridges[j]].key = j
      BY <1>7, <2>1 DEF IInv, MapInv
    <2> QED BY <1>4, <2>1, <2>2 DEF Live
  <1> QED BY <1>5, <1>6, <1>8, <1>9, <1>10, <1>11 DEF IInv

LEMMA RemoveStep ==
    ASSUME IInv, NEW w \in Reconcilers, Remove(w)
    PROVE  IInv'
  <1> DEFINE k == job[w].key
  <1>0. /\ job[w].pc = "remove" /\ conn' = CloseExisting(k)
        /\ bridges' = [bridges EXCEPT ![k] = None]
        /\ outcome' = [outcome EXCEPT ![k] = "none"]
        /\ Return(w) /\ callback' = callback
    BY DEF Remove
  <1>1. Typed
    BY TypeParts DEF IInv
  <1>2. /\ mu' = None /\ job' \in [Reconcilers -> Job] /\ Held' /\ JobInv'
    BY <1>0, ReturnEffect
  <1>3. mu = w
    BY <1>0, OnlyHolder
  <1>4. /\ k \in Keys /\ conn' \in [Clients -> Connection]
        /\ \A c \in Clients :
              /\ conn'[c].key = conn[c].key /\ conn'[c].assigned = conn[c].assigned
              /\ Live(c)' <=> Live(c) /\ conn[c].key # k
              /\ conn[c].key # k => conn'[c] = conn[c]
              /\ conn'[c].link = "retrying" => conn'[c].subs = {}
    BY <1>0, CloseEffect
  <1> HIDE DEF k
  <1>5. /\ bridges' \in [Keys -> Clients \cup {None}] /\ bridges'[k] = None
        /\ \A j \in Keys \ {k} : bridges'[j] = bridges[j]
        /\ outcome' \in [Keys -> {"none", "ok", "failed"}] /\ outcome'[k] = "none"
        /\ \A j \in Keys \ {k} : outcome'[j] = outcome[j]
    BY <1>0, <1>1, <1>4 DEF Typed
  <1>6. TypeOK'
    <2>1. Typed'
      BY <1>0, <1>1, <1>2, <1>4, <1>5 DEF Typed
    <2> QED BY <1>2, <2>1, TypeParts
  <1>7. bridges \in [Keys -> Clients \cup {None}]
    BY <1>1 DEF Typed
  <1>8. MapInv' /\ LinkInv'
    BY <1>4, <1>5, <1>7 DEF IInv, MapInv, LinkInv
  <1>9. OneLiveClientPerBridge'
    BY <1>4 DEF IInv, OneLiveClientPerBridge
  <1>10. LiveClientsAreReachable'
    BY <1>0, <1>4, <1>5, LiveIsMapped DEF LiveClientsAreReachable
  <1>11. SuccessLeavesLiveClient'
    <2> SUFFICES ASSUME NEW j \in Keys, outcome'[j] = "ok"
                 PROVE  /\ bridges'[j] # None
                        /\ conn'[bridges'[j]].link # "closed" /\ conn'[bridges'[j]].assigned
      BY DEF SuccessLeavesLiveClient, Live
    <2>0. j # k /\ bridges'[j] = bridges[j] /\ outcome[j] = "ok"
      BY <1>5
    <2>1. bridges[j] # None /\ Live(bridges[j]) /\ conn[bridges[j]].assigned
      BY <1>3, <2>0 DEF IInv, SuccessLeavesLiveClient, k
    <2>2. bridges[j] \in Clients /\ conn[bridges[j]].key = j
      BY <1>7, <2>1 DEF IInv, MapInv
    <2> QED BY <1>4, <2>0, <2>1, <2>2 DEF Live
  <1> QED BY <1>2, <1>6, <1>8, <1>9, <1>10, <1>11 DEF IInv

LEMMA ConnectFailsStep ==
    ASSUME IInv, NEW w \in Reconcilers, ConnectFails(w)
    PROVE  IInv'
  <1> DEFINE k == job[w].key
  <1>0. /\ job[w].pc = "dial" /\ outcome' = [outcome EXCEPT ![k] = "failed"]
        /\ Return(w) /\ UNCHANGED <<bridges, conn, callback>>
    BY DEF ConnectFails
  <1>1. Typed
    BY TypeParts DEF IInv
  <1>2. /\ mu' = None /\ job' \in [Reconcilers -> Job] /\ Held' /\ JobInv'
    BY <1>0, ReturnEffect
  <1>3. mu = w /\ k \in Keys
    BY <1>0, OnlyHolder DEF IInv, JobInv
  <1>4. /\ outcome' \in [Keys -> {"none", "ok", "failed"}]
        /\ \A j \in Keys : outcome'[j] = "ok" => j # k /\ outcome[j] = "ok"
    BY <1>0, <1>1, <1>3 DEF Typed
  <1>5. TypeOK'
    <2>1. Typed'
      BY <1>0, <1>1, <1>2, <1>4 DEF Typed
    <2> QED BY <1>2, <2>1, TypeParts
  <1>6. MapInv' /\ LinkInv' /\ OneLiveClientPerBridge'
    BY <1>0 DEF IInv, MapInv, LinkInv, OneLiveClientPerBridge, Live
  <1>7. LiveClientsAreReachable'
    BY <1>0, LiveIsMapped DEF LiveClientsAreReachable, Live
  <1>8. SuccessLeavesLiveClient'
    BY <1>0, <1>3, <1>4 DEF IInv, SuccessLeavesLiveClient, Live
  <1> QED BY <1>2, <1>5, <1>6, <1>7, <1>8 DEF IInv

LEMMA DialStep ==
    ASSUME IInv, NEW w \in Reconcilers, Dial(w)
    PROVE  IInv'
  <1> DEFINE k == job[w].key
  <1>0. PICK c \in Clients, g \in Goroutines :
           /\ Unreferenced(c) /\ Start(g, "start", c)
           /\ conn' = [conn EXCEPT ![c] = [NoConnection EXCEPT !.key = k, !.link = "up"]]
           /\ job' = [job EXCEPT ![w] = [@ EXCEPT !.pc = "assign", !.client = c]]
    BY DEF Dial
  <1>a. job[w].pc = "dial" /\ UNCHANGED <<mu, bridges, outcome>>
    BY DEF Dial
  <1>1. Typed /\ Held
    BY TypeParts DEF IInv
  <1>2. /\ mu = w /\ k \in Keys /\ LiveClients(k) = {}
        /\ \A v \in Reconcilers \ {w} : job[v].pc \in {"idle", "lock"}
    BY <1>a, OnlyHolder DEF IInv, JobInv
  <1>3. \A j \in Keys : bridges[j] # c
    BY <1>0 DEF Unreferenced
  <1>4. /\ job' \in [Reconcilers -> Job]
        /\ job'[w].pc = "assign" /\ job'[w].key = k /\ job'[w].client = c
        /\ \A v \in Reconcilers \ {w} : job'[v] = job[v]
    <2>1. [job[w] EXCEPT !.pc = "assign", !.client = c] \in Job
      BY <1>1 DEF Typed, Job, JobPc
    <2> QED BY <1>0, <1>1, <2>1 DEF Typed, Job
  <1> HIDE DEF k
  <1>5. /\ conn' \in [Clients -> Connection]
        /\ conn'[c].key = k /\ conn'[c].link = "up"
        /\ \A d \in Clients \ {c} : conn'[d] = conn[d]
    <2>1. /\ [NoConnection EXCEPT !.key = k, !.link = "up"] \in Connection
          /\ [NoConnection EXCEPT !.key = k, !.link = "up"].key = k
          /\ [NoConnection EXCEPT !.key = k, !.link = "up"].link = "up"
      BY <1>2 DEF NoConnection, Connection
    <2> QED BY <1>0, <1>1, <2>1 DEF Typed
  <1>6. TypeOK'
    <2>1. callback' \in [Goroutines -> Callback]
      BY <1>0, StartTyped
    <2>2. Typed'
      BY <1>a, <1>1, <1>4, <1>5, <2>1 DEF Typed
    <2>3. Held'
      BY <1>a, <1>1, <1>4 DEF Held
    <2> QED BY <2>2, <2>3, TypeParts
  <1>7. \A d \in Clients : Live(d)' <=> Live(d) \/ d = c
    BY <1>5 DEF Live
  <1>8. \A d \in Clients : d # c /\ Live(d) => conn[d].key # k
    BY <1>2 DEF LiveClients
  <1>9. JobInv'
    <2>1. \A v \in Reconcilers \ {w} : job'[v].pc \in {"idle", "lock"}
      BY <1>2, <1>4
    <2>2. {d \in Clients : Live(d)' /\ conn'[d].key = k} = {c}
      BY <1>5, <1>7, <1>8
    <2> QED BY <1>2, <1>4, <2>1, <2>2 DEF IInv, JobInv, LiveClients
  <1>10. bridges \in [Keys -> Clients \cup {None}]
    BY <1>1 DEF Typed
  <1>11. MapInv' /\ LinkInv'
    BY <1>a, <1>2, <1>3, <1>5, <1>7, <1>10 DEF IInv, MapInv, LinkInv
  <1>12. OneLiveClientPerBridge'
    BY <1>5, <1>7, <1>8 DEF IInv, OneLiveClientPerBridge
  <1>13. LiveClientsAreReachable'
    BY <1>a, <1>4, <1>5, <1>7, LiveIsMapped DEF LiveClientsAreReachable
  <1>14. SuccessLeavesLiveClient'
    BY <1>a, <1>2, <1>3, <1>4, <1>5, <1>10 DEF IInv, SuccessLeavesLiveClient, Live, k
  <1> QED BY <1>6, <1>9, <1>11, <1>12, <1>13, <1>14 DEF IInv

LEMMA AssignStep ==
    ASSUME IInv, NEW w \in Reconcilers, Assign(w)
    PROVE  IInv'
  <1> DEFINE k == job[w].key
  <1>0. job[w].pc = "assign" /\ Return(w) /\ callback' = callback
    BY DEF Assign
  <1>1. k \in Keys /\ job[w].client \in Clients /\ LiveClients(k) = {job[w].client}
    BY <1>0 DEF IInv, JobInv
  <1>2. PICK c \in Clients : c = job[w].client
    BY <1>1
  <1>3. /\ conn' = [conn EXCEPT ![c].assigned = TRUE, ![c].connected = TRUE]
        /\ bridges' = [bridges EXCEPT ![k] = c]
        /\ outcome' = [outcome EXCEPT ![k] = "ok"]
    BY <1>2 DEF Assign
  <1>4. Typed
    BY TypeParts DEF IInv
  <1>5. /\ mu' = None /\ job' \in [Reconcilers -> Job] /\ Held' /\ JobInv'
    BY <1>0, ReturnEffect
  <1>6. mu = w /\ \A v \in Reconcilers \ {w} : job[v].pc \in {"idle", "lock"}
    BY <1>0, OnlyHolder
  <1>7. /\ Live(c) /\ conn[c].key = k
        /\ \A d \in Clients \ {c} : Live(d) => conn[d].key # k
    BY <1>1, <1>2 DEF LiveClients
  <1> HIDE DEF k
  <1>8. /\ conn' \in [Clients -> Connection]
        /\ conn'[c].key = k /\ conn'[c].assigned
        /\ conn'[c].link = conn[c].link /\ conn'[c].subs = conn[c].subs
        /\ \A d \in Clients \ {c} : conn'[d] = conn[d]
    <2>1. conn \in [Clients -> Connection]
      BY <1>4 DEF Typed
    <2>2. [conn[c] EXCEPT !.assigned = TRUE, !.connected = TRUE] \in Connection
      BY <2>1 DEF Connection
    <2>3. conn' = [conn EXCEPT ![c] = [conn[c] EXCEPT !.assigned = TRUE, !.connected = TRUE]]
      BY <1>3, <2>1
    <2> QED BY <1>7, <2>1, <2>2, <2>3 DEF Connection
  <1>9. /\ bridges' \in [Keys -> Clients \cup {None}] /\ bridges'[k] = c
        /\ \A j \in Keys \ {k} : bridges'[j] = bridges[j]
        /\ outcome' \in [Keys -> {"none", "ok", "failed"}]
        /\ \A j \in Keys \ {k} : outcome'[j] = outcome[j]
    BY <1>1, <1>3, <1>4 DEF Typed, k
  <1>10. TypeOK'
    <2>1. Typed'
      BY <1>0, <1>4, <1>5, <1>8, <1>9 DEF Typed
    <2> QED BY <1>5, <2>1, TypeParts
  <1>11. \A d \in Clients : Live(d)' <=> Live(d)
    BY <1>8 DEF Live
  <1>12. \A d \in Clients : conn'[d].key = conn[d].key /\ (conn[d].assigned => conn'[d].assigned)
    BY <1>7, <1>8
  <1>13. bridges \in [Keys -> Clients \cup {None}]
    BY <1>4 DEF Typed
  <1>14. MapInv'
    BY <1>8, <1>9, <1>12, <1>13 DEF IInv, MapInv
  <1>15. LinkInv' /\ OneLiveClientPerBridge'
    BY <1>8, <1>11, <1>12 DEF IInv, LinkInv, OneLiveClientPerBridge
  <1>16. LiveClientsAreReachable'
    <2> SUFFICES ASSUME NEW d \in Clients, Live(d)
                 PROVE  bridges'[conn[d].key] = d
      BY <1>11, <1>12 DEF LiveClientsAreReachable
    <2>1. CASE d = c
      BY <1>7, <1>9, <2>1
    <2>2. CASE d # c
      <3>1. bridges[conn[d].key] = d
        BY <1>2, <1>6, <2>2 DEF IInv, LiveClientsAreReachable
      <3>2. conn[d].key \in Keys \ {k}
        BY <1>7, <2>2 DEF IInv, LinkInv
      <3> QED BY <1>9, <3>1, <3>2
    <2> QED BY <2>1, <2>2
  <1>17. SuccessLeavesLiveClient'
    <2> SUFFICES ASSUME NEW j \in Keys, outcome'[j] = "ok"
                 PROVE  /\ bridges'[j] # None
                        /\ conn'[bridges'[j]].link # "closed" /\ conn'[bridges'[j]].assigned
      BY DEF SuccessLeavesLiveClient, Live
    <2>1. CASE j = k
      BY <1>7, <1>8, <1>9, <2>1, BridgeAssumption DEF Live
    <2>2. CASE j # k
      <3>1. bridges[j] # None /\ Live(bridges[j]) /\ conn[bridges[j]].assigned
        BY <1>6, <1>9, <2>2 DEF IInv, SuccessLeavesLiveClient, k
      <3> QED BY <1>8, <1>9, <1>12, <1>13, <2>2, <3>1 DEF Live
    <2> QED BY <2>1, <2>2
  <1> QED BY <1>5, <1>10, <1>14, <1>15, <1>16, <1>17 DEF IInv

-----------------------------------------------------------------------------

LEMMA StepInv == IInv /\ [Next]_vars => IInv'
  <1> SUFFICES ASSUME IInv, [Next]_vars PROVE IInv'
    OBVIOUS
  <1>1. ASSUME NEW w \in Reconcilers, Call(w) \/ ReconcilerStep(w) PROVE IInv'
    BY <1>1, CallStep, LockStep, ReplaceStep, RemoveStep, DialStep, ConnectFailsStep, AssignStep
       DEF ReconcilerStep
  <1>2. ASSUME NEW c \in Clients, LinkLost(c) \/ Reconnect(c) PROVE IInv'
    BY <1>2, LinkLostStep, ReconnectStep
  <1>3. ASSUME NEW g \in Goroutines, CallbackStep(g) \/ TornRead(g) PROVE IInv'
    BY <1>3, CallbackStepInv, TornReadStep
  <1>4. CASE UNCHANGED vars
    <2>1. ClientsKept
      BY <1>4, TypeParts DEF vars, ClientsKept, IInv, Typed, LinkInv
    <2>2. callback' \in [Goroutines -> Callback]
      BY <1>4, TypeParts DEF vars, IInv, Typed
    <2> QED BY <1>4, <2>1, <2>2, KeptInv DEF vars
  <1> QED BY <1>1, <1>2, <1>3, <1>4 DEF Next

\* Every invariant below is a part of this one, which is inductive.
THEOREM Invariance == Spec => []IInv
  BY InitIInv, StepInv, PTL DEF Spec

\* Types hold and m.mu is held exactly while Connect or Disconnect runs.
THEOREM TypeCorrect == Spec => []TypeOK
  <1>1. IInv => TypeOK
    BY DEF IInv
  <1> QED BY <1>1, Invariance, PTL

\* No two clients of a bridge are ever connected or reconnecting at a time,
\* however Connect, Disconnect, the links and the callbacks interleave.
THEOREM OneLiveClient == Spec => []OneLiveClientPerBridge
  <1>1. IInv => OneLiveClientPerBridge
    BY DEF IInv
  <1> QED BY <1>1, Invariance, PTL

\* The manager never loses sight of a client that is not closed: it is the
\* map's entry of its bridge, or the one that a running Connect will store.
THEOREM LiveClientsReachable == Spec => []LiveClientsAreReachable
  <1>1. IInv => LiveClientsAreReachable
    BY DEF IInv
  <1> QED BY <1>1, Invariance, PTL

\* What a successful Connect has stored is still alive when the next call for
\* the bridge begins.
THEOREM SuccessLeavesClient == Spec => []SuccessLeavesLiveClient
  <1>1. IInv => SuccessLeavesLiveClient
    BY DEF IInv
  <1> QED BY <1>1, Invariance, PTL

-----------------------------------------------------------------------------
(* The refinement of BridgeLinks.  A bridge has one live client or none, so *)
(* that its session is that client's.                                       *)

Sessions ==
    \A k \in Keys :
        /\ LiveClients(k) = {} => LinkOf(k) = "none" /\ SubsOf(k) = {}
        /\ \A c \in Clients : LiveClients(k) = {c} =>
              LinkOf(k) = Stage(c) /\ SubsOf(k) = conn[c].subs

AtMostOne == \A k \in Keys : LiveClients(k) = {} \/ \E c \in Clients : LiveClients(k) = {c}

LEMMA SessionValues == IInv => Sessions /\ AtMostOne
  <1> SUFFICES ASSUME IInv PROVE Sessions /\ AtMostOne
    OBVIOUS
  <1>1. ASSUME NEW k \in Keys, LiveClients(k) = {}
        PROVE  LinkOf(k) = "none" /\ SubsOf(k) = {}
    <2>1. LinkOf(k) = "none"
      BY <1>1, FS_EmptySet DEF LinkOf
    <2>2. SubsOf(k) = {}
      BY <1>1 DEF SubsOf
    <2> QED BY <2>1, <2>2
  <1>2. ASSUME NEW k \in Keys, NEW c \in Clients, LiveClients(k) = {c}
        PROVE  LinkOf(k) = Stage(c) /\ SubsOf(k) = conn[c].subs
    <2>1. Cardinality({c}) = 1 /\ {c} # {} /\ (CHOOSE d \in {c} : TRUE) = c
      BY FS_Singleton
    <2>2. LinkOf(k) = Stage(c)
      BY <1>2, <2>1 DEF LinkOf
    <2>3. SubsOf(k) = conn[c].subs
      BY <1>2 DEF SubsOf
    <2> QED BY <2>2, <2>3
  <1>3. AtMostOne
    BY DEF IInv, OneLiveClientPerBridge, AtMostOne, LiveClients
  <1> QED BY <1>1, <1>2, <1>3 DEF Sessions

\* What a broker sees of a client.
SameSession(c) ==
    /\ conn'[c].key = conn[c].key
    /\ conn'[c].link = conn[c].link
    /\ conn'[c].armed = conn[c].armed
    /\ conn'[c].subs = conn[c].subs

\* A bridge whose clients look the same, or are closed, has the same session.
LEMMA SameBridge ==
    ASSUME IInv, IInv', NEW k \in Keys,
           \A c \in Clients : \/ SameSession(c)
                              \/ /\ ~Live(c) \/ conn[c].key # k
                                 /\ conn'[c].link = "closed" \/ conn'[c].key # k
    PROVE  LinkOf(k)' = LinkOf(k) /\ SubsOf(k)' = SubsOf(k)
  <1>1. Sessions /\ AtMostOne /\ Sessions' /\ AtMostOne'
    BY SessionValues, PTL
  <1>2. LiveClients(k)' = LiveClients(k)
    BY DEF LiveClients, Live, SameSession
  <1>3. CASE LiveClients(k) = {}
    BY <1>1, <1>2, <1>3 DEF Sessions
  <1>4. ASSUME NEW c \in Clients, LiveClients(k) = {c}
        PROVE  LinkOf(k)' = LinkOf(k) /\ SubsOf(k)' = SubsOf(k)
    <2>1. SameSession(c)
      BY <1>4 DEF LiveClients
    <2>2. Stage(c)' = Stage(c) /\ conn'[c].subs = conn[c].subs
      BY <2>1 DEF Stage, SameSession
    <2> QED BY <1>1, <1>2, <1>4, <2>2 DEF Sessions
  <1> QED BY <1>1, <1>3, <1>4 DEF AtMostOne

LEMMA SameLinks ==
    ASSUME IInv, IInv', \A c \in Clients : SameSession(c)
    PROVE  UNCHANGED Links!vars
  <1>1. \A k \in Keys : LinkOf(k)' = LinkOf(k) /\ SubsOf(k)' = SubsOf(k)
    BY SameBridge
  <1> QED BY <1>1 DEF Links!vars

\* A step of one client changes the session of its bridge only.
LEMMA OneBridge ==
    ASSUME IInv, IInv', NEW k \in Keys, NEW c \in Clients,
           \A d \in Clients \ {c} : conn'[d] = conn[d],
           ~Live(c) \/ conn[c].key = k,
           conn'[c].link = "closed" \/ conn'[c].key = k
    PROVE  \A j \in Keys \ {k} : LinkOf(j)' = LinkOf(j) /\ SubsOf(j)' = SubsOf(j)
  <1> SUFFICES ASSUME NEW j \in Keys, j # k
               PROVE  LinkOf(j)' = LinkOf(j) /\ SubsOf(j)' = SubsOf(j)
    OBVIOUS
  <1>1. \A d \in Clients : \/ SameSession(d)
                           \/ /\ ~Live(d) \/ conn[d].key # j
                              /\ conn'[d].link = "closed" \/ conn'[d].key # j
    BY DEF SameSession
  <1> QED BY <1>1, SameBridge

LEMMA BecomeStep ==
    ASSUME NEW k \in Keys, NEW stage, LinkOf(k)' = stage, SubsOf(k)' = {},
           \A j \in Keys \ {k} : LinkOf(j)' = LinkOf(j) /\ SubsOf(j)' = SubsOf(j)
    PROVE  Links!Become(k, stage)
  BY DEF Links!Become

\* The values of a bridge's session, before and after a step.
LEMMA SessionOf ==
    ASSUME IInv, IInv', NEW k \in Keys
    PROVE  /\ LiveClients(k) = {} => LinkOf(k) = "none" /\ SubsOf(k) = {}
           /\ LiveClients(k)' = {} => LinkOf(k)' = "none" /\ SubsOf(k)' = {}
           /\ \A c \in Clients :
                 /\ Live(c) /\ conn[c].key = k =>
                       LinkOf(k) = Stage(c) /\ SubsOf(k) = conn[c].subs
                 /\ Live(c)' /\ conn'[c].key = k =>
                       LinkOf(k)' = Stage(c)' /\ SubsOf(k)' = conn'[c].subs
  <1>1. Sessions /\ AtMostOne /\ Sessions' /\ AtMostOne'
    BY SessionValues, PTL
  <1>2. \A c \in Clients : Live(c) /\ conn[c].key = k => LiveClients(k) = {c}
    BY <1>1 DEF AtMostOne, LiveClients
  <1>3. \A c \in Clients : Live(c)' /\ conn'[c].key = k => LiveClients(k)' = {c}
    BY <1>1 DEF AtMostOne, LiveClients
  <1> QED BY <1>1, <1>2, <1>3 DEF Sessions

\* Closing the mapped client ends its session.
LEMMA CloseRefines ==
    ASSUME IInv, IInv', NEW w \in Reconcilers, job[w].pc \in {"replace", "remove"},
           conn' = CloseExisting(job[w].key)
    PROVE  [Links!Next]_Links!vars
  <1>1. PICK k \in Keys : k = job[w].key
    BY CloseEffect
  <1>2. \A c \in Clients :
           /\ conn'[c].key = conn[c].key
           /\ Live(c)' <=> Live(c) /\ conn[c].key # k
           /\ conn[c].key # k => conn'[c] = conn[c]
    BY <1>1, CloseEffect
  <1>3. LinkOf(k)' = "none" /\ SubsOf(k)' = {}
    <2>1. LiveClients(k)' = {}
      BY <1>2 DEF LiveClients
    <2> QED BY <2>1, SessionOf
  <1>4. \A j \in Keys \ {k} : LinkOf(j)' = LinkOf(j) /\ SubsOf(j)' = SubsOf(j)
    <2> SUFFICES ASSUME NEW j \in Keys, j # k
                 PROVE  LinkOf(j)' = LinkOf(j) /\ SubsOf(j)' = SubsOf(j)
      OBVIOUS
    <2>1. \A c \in Clients : \/ SameSession(c)
                             \/ /\ ~Live(c) \/ conn[c].key # j
                                /\ conn'[c].link = "closed" \/ conn'[c].key # j
      BY <1>2 DEF SameSession
    <2> QED BY <2>1, SameBridge
  <1>5. CASE LinkOf(k) = "none"
    <2>1. LiveClients(k) = {}
      <3> SUFFICES ASSUME NEW c \in Clients, Live(c), conn[c].key = k PROVE FALSE
        BY DEF LiveClients
      <3> QED BY <1>5, SessionOf DEF Stage
    <2>2. SubsOf(k) = {}
      BY <2>1, SessionOf
    <2> QED BY <1>3, <1>4, <1>5, <2>2 DEF Links!vars
  <1>6. CASE LinkOf(k) # "none"
    <2>1. Links!Become(k, "none")
      BY <1>3, <1>4, BecomeStep
    <2>2. Links!End(k)
      BY <1>6, <2>1 DEF Links!End
    <2> QED BY <2>2 DEF Links!Next
  <1> QED BY <1>5, <1>6

LEMMA DialRefines ==
    ASSUME IInv, IInv', NEW w \in Reconcilers, Dial(w)
    PROVE  Links!Next
  <1>1. PICK k \in Keys : k = job[w].key
    BY DEF Dial, IInv, JobInv
  <1>2. PICK c \in Clients :
           /\ Unreferenced(c)
           /\ conn' = [conn EXCEPT ![c] = [NoConnection EXCEPT !.key = k, !.link = "up"]]
    BY <1>1 DEF Dial
  <1>3. conn \in [Clients -> Connection]
    BY TypeParts DEF IInv, Typed
  <1>4. /\ conn'[c].key = k /\ conn'[c].link = "up" /\ ~conn'[c].armed /\ conn'[c].subs = {}
        /\ \A d \in Clients \ {c} : conn'[d] = conn[d]
    BY <1>2, <1>3 DEF NoConnection
  <1>5. ~Live(c)
    BY <1>2 DEF Unreferenced, Live
  <1>6. LinkOf(k) = "none"
    <2>1. LiveClients(k) = {}
      BY <1>1 DEF Dial, IInv, JobInv
    <2> QED BY <2>1, SessionOf
  <1>7. LinkOf(k)' = "fresh" /\ SubsOf(k)' = {}
    BY <1>4, SessionOf DEF Live, Stage
  <1>8. Links!Become(k, "fresh")
    BY <1>4, <1>5, <1>7, OneBridge, BecomeStep
  <1>9. Links!Establish(k)
    BY <1>6, <1>8 DEF Links!Establish
  <1> QED BY <1>9 DEF Links!Next

LEMMA LinkLostRefines ==
    ASSUME IInv, IInv', NEW c \in Clients, LinkLost(c)
    PROVE  Links!Next
  <1>1. PICK k \in Keys : k = conn[c].key
    BY DEF LinkLost, IInv, LinkInv, Live
  <1>2. conn \in [Clients -> Connection]
    BY TypeParts DEF IInv, Typed
  <1>3. /\ conn[c].link = "up"
        /\ conn'[c].key = k /\ conn'[c].link = "retrying" /\ conn'[c].subs = {}
        /\ \A d \in Clients \ {c} : conn'[d] = conn[d]
    BY <1>1, <1>2 DEF LinkLost, Connection
  <1>4. LinkOf(k) \in {"fresh", "resumed"}
    BY <1>1, <1>3, SessionOf DEF Live, Stage
  <1>5. LinkOf(k)' = "retrying" /\ SubsOf(k)' = {}
    BY <1>3, SessionOf DEF Live, Stage
  <1>6. Links!Become(k, "retrying")
    BY <1>1, <1>3, <1>5, OneBridge, BecomeStep
  <1>7. Links!GoDown(k)
    BY <1>4, <1>6 DEF Links!GoDown
  <1> QED BY <1>7 DEF Links!Next

LEMMA ReconnectRefines ==
    ASSUME IInv, IInv', NEW c \in Clients, Reconnect(c)
    PROVE  Links!Next
  <1>1. PICK k \in Keys : k = conn[c].key
    BY DEF Reconnect, IInv, LinkInv, Live
  <1>2. conn \in [Clients -> Connection] /\ (conn[c].link = "retrying" => conn[c].subs = {})
    BY TypeParts DEF IInv, Typed, LinkInv
  <1>3. /\ conn[c].link = "retrying"
        /\ conn'[c].key = k /\ conn'[c].link = "up" /\ conn'[c].subs = {}
        /\ \A d \in Clients \ {c} : conn'[d] = conn[d]
    BY <1>1, <1>2 DEF Reconnect, Connection
  <1>4. LinkOf(k) = "retrying"
    BY <1>1, <1>3, SessionOf DEF Live, Stage
  <1>5. LinkOf(k)' \in {"fresh", "resumed"} /\ SubsOf(k)' = {}
    BY <1>3, SessionOf DEF Live, Stage
  <1>6. PICK stage \in {"fresh", "resumed"} : LinkOf(k)' = stage
    BY <1>5
  <1>7. Links!Become(k, stage)
    BY <1>1, <1>3, <1>5, <1>6, OneBridge, BecomeStep
  <1>8. Links!ComeUp(k)
    BY <1>4, <1>7 DEF Links!ComeUp
  <1> QED BY <1>8 DEF Links!Next

LEMMA SubscribeRefines ==
    ASSUME IInv, IInv', NEW g \in Goroutines, SubscribeToTopic(g)
    PROVE  [Links!Next]_Links!vars
  <1>1. PICK c \in Clients : c = callback[g].client
    BY CallbackTypes DEF SubscribeToTopic
  <1>2. conn \in [Clients -> Connection] /\ callback[g].todo \in SUBSET Topics
    BY CallbackTypes DEF SubscribeToTopic
  <1>3. PICK t \in Topics : conn' = IF conn[c].assigned /\ conn[c].link = "up"
                                    THEN [conn EXCEPT ![c].subs = @ \cup {t}]
                                    ELSE conn
    BY <1>1, <1>2 DEF SubscribeToTopic
  <1>4. CASE conn[c].link = "up" /\ conn[c].assigned /\ t \notin conn[c].subs
    <2>1. PICK k \in Keys : k = conn[c].key
      BY <1>4 DEF IInv, LinkInv, Live
    <2>2. /\ conn'[c].key = k /\ conn'[c].link = "up" /\ conn'[c].armed = conn[c].armed
          /\ conn'[c].subs = conn[c].subs \cup {t}
          /\ \A d \in Clients \ {c} : conn'[d] = conn[d]
      BY <1>2, <1>3, <1>4, <2>1 DEF Connection
    <2>3. LinkOf(k) = Stage(c) /\ SubsOf(k) = conn[c].subs
      BY <1>4, <2>1, SessionOf DEF Live
    <2>4. LinkOf(k)' = Stage(c)' /\ SubsOf(k)' = conn'[c].subs
      BY <2>2, SessionOf DEF Live
    <2>5. LinkOf(k) \in {"fresh", "resumed"} /\ LinkOf(k)' = LinkOf(k)
      BY <1>4, <2>2, <2>3, <2>4 DEF Stage
    <2>6. \A j \in Keys \ {k} : LinkOf(j)' = LinkOf(j) /\ SubsOf(j)' = SubsOf(j)
      BY <2>1, <2>2, OneBridge
    <2>7. Links!Subscribe(k, t)
      BY <1>4, <2>2, <2>3, <2>4, <2>5, <2>6 DEF Links!Subscribe
    <2> QED BY <2>7 DEF Links!Next
  <1>5. CASE ~(conn[c].link = "up" /\ conn[c].assigned /\ t \notin conn[c].subs)
    <2>1. \A d \in Clients : SameSession(d)
      BY <1>2, <1>3, <1>5 DEF SameSession, Connection
    <2> QED BY <2>1, SameLinks
  <1> QED BY <1>4, <1>5

LEMMA TornReadRefines ==
    ASSUME IInv, IInv', NEW g \in Goroutines, TornRead(g)
    PROVE  Links!Next
  <1>1. \A c \in Clients : conn'[c].link = "closed"
    BY DEF TornRead, NoConnection
  <1>2. \A k \in Keys : LiveClients(k)' = {}
    BY <1>1 DEF LiveClients, Live
  <1>3. \A k \in Keys : LinkOf(k)' = "none" /\ SubsOf(k)' = {}
    BY <1>2, SessionOf
  <1>4. Links!Stop
    BY <1>3 DEF Links!Stop
  <1> QED BY <1>4 DEF Links!Next

\* The steps that a broker does not see.
LEMMA SilentSteps ==
    ASSUME IInv, IInv',
           \/ UNCHANGED conn
           \/ \E w \in Reconcilers : Assign(w)
           \/ \E g \in Goroutines : OnConnect(g) \/ OnConnectionLost(g)
    PROVE  UNCHANGED Links!vars
  <1>1. conn \in [Clients -> Connection]
    BY TypeParts DEF IInv, Typed
  <1>2. CASE UNCHANGED conn
    BY <1>2, SameLinks DEF SameSession
  <1>3. ASSUME NEW w \in Reconcilers, Assign(w) PROVE UNCHANGED Links!vars
    <2>1. PICK c \in Clients : conn' = [conn EXCEPT ![c].assigned = TRUE, ![c].connected = TRUE]
      BY <1>3 DEF Assign, IInv, JobInv
    <2>2. \A d \in Clients : SameSession(d)
      BY <1>1, <2>1 DEF SameSession, Connection
    <2> QED BY <2>2, SameLinks
  <1>4. ASSUME NEW g \in Goroutines, OnConnect(g) \/ OnConnectionLost(g)
        PROVE  UNCHANGED Links!vars
    <2>1. PICK c \in Clients, b \in BOOLEAN : conn' = [conn EXCEPT ![c].connected = b]
      BY <1>4, CallbackTypes DEF OnConnect, OnConnectionLost
    <2>2. \A d \in Clients : SameSession(d)
      BY <1>1, <2>1 DEF SameSession, Connection
    <2> QED BY <2>2, SameLinks
  <1> QED BY <1>2, <1>3, <1>4

LEMMA StepRefines == IInv /\ IInv' /\ [Next]_vars => [Links!Next]_Links!vars
  <1> SUFFICES ASSUME IInv, IInv', [Next]_vars PROVE [Links!Next]_Links!vars
    OBVIOUS
  <1>1. ASSUME NEW w \in Reconcilers, Call(w) \/ ReconcilerStep(w)
        PROVE  [Links!Next]_Links!vars
    <2>1. CASE Call(w) \/ Lock(w) \/ ConnectFails(w) \/ Assign(w)
      BY <2>1, SilentSteps DEF Call, Lock, ConnectFails
    <2>2. CASE Replace(w) \/ Remove(w)
      BY <2>2, CloseRefines DEF Replace, Remove
    <2>3. CASE Dial(w)
      BY <2>3, DialRefines
    <2> QED BY <1>1, <2>1, <2>2, <2>3 DEF ReconcilerStep
  <1>2. ASSUME NEW c \in Clients, LinkLost(c) \/ Reconnect(c) PROVE Links!Next
    BY <1>2, LinkLostRefines, ReconnectRefines
  <1>3. ASSUME NEW g \in Goroutines, CallbackStep(g) \/ TornRead(g)
        PROVE  [Links!Next]_Links!vars
    BY <1>3, SilentSteps, SubscribeRefines, TornReadRefines DEF CallbackStep, OnConnectReturns
  <1>4. CASE UNCHANGED vars
    BY <1>4, SilentSteps DEF vars
  <1> QED BY <1>1, <1>2, <1>3, <1>4 DEF Next

\* Whatever the manager does, a broker sees what BridgeLinks allows: a session
\* of a bridge ends before the next one begins, and carries only the
\* subscriptions made since it last came up.
THEOREM ImplementsLinksSafety == Spec => Links!Safety
  <1>1. Init => Links!Init
    <2> SUFFICES ASSUME Init PROVE Links!Init
      OBVIOUS
    <2>1. \A k \in Keys : LiveClients(k) = {}
      BY DEF Init, LiveClients, Live, NoConnection
    <2>2. \A k \in Keys : LinkOf(k) = "none" /\ SubsOf(k) = {}
      BY <2>1, InitIInv, SessionValues DEF Sessions
    <2> QED BY <2>2 DEF Links!Init
  <1>2. IInv /\ IInv' /\ [Next]_vars => [Links!Next]_Links!vars
    BY StepRefines
  <1> QED BY <1>1, <1>2, Invariance, PTL DEF Spec, Links!Safety

=============================================================================
