---------------------------- MODULE IngestProofs ----------------------------
(***************************************************************************)
(* The pipeline from the broker to the database implements both of its     *)
(* parts, so what is proved of the handlers (TelemetryProofs) and of the   *)
(* database manager (DatabaseManagerProofs) holds of the two together; and *)
(* what only the two together promise.                                     *)
(***************************************************************************)
EXTENDS Ingest, TelemetryProofs

\* The proofs about the manager, with the clients as its storers.
DBP == INSTANCE DatabaseManagerProofs WITH Storers <- Clients, Queriers <- {}

\* A client is inside the manager only while its handler stores a reading.
Coupled ==
    \A c \in Clients : store[c].pc # "idle" =>
        handler[c].pc = "store" /\ store[c].type = handler[c].sensor

\* A database whose last call connected it is installed with the types of that
\* call, but for the time in which a running Connect replaces it.
LastInv ==
    /\ last \in [Keys -> Specs \cup {None}]
    /\ \A k \in Keys : last[k] # None =>
          \/ DB!Installed(k) /\ connections[k].types = last[k]
          \/ \E w \in Reconcilers : job[w].pc \in DBP!Alone /\ job[w].key = k

\* The inductive invariant.
IngestIInv == IInv /\ DBP!IInv /\ Coupled /\ LastInv

-----------------------------------------------------------------------------
(* The two instances of the manager are one *)

LEMMA ManagerAssumption == DBP!ConstantsAssumption
  BY IngestAssumption, TelemetryAssumption
     DEF DBP!ConstantsAssumption, DBP!Connection, DB!Connection

LEMMA SameTypes == DB!TypeOK <=> DBP!TypeOK
  BY DEF DB!TypeOK, DBP!TypeOK, DB!MutexType, DBP!MutexType, DB!Readers, DBP!Readers,
           DB!Connection, DBP!Connection, DB!JobPc, DBP!JobPc, DB!StorePc, DBP!StorePc, DB!QueryPc,
           DBP!QueryPc, DB!StoreResult, DBP!StoreResult, DB!QueryResult, DBP!QueryResult

LEMMA SameInit == DB!Init <=> DBP!Init
  BY DEF DB!Init, DBP!Init, DB!Unlocked, DBP!Unlocked, DB!NoJob, DBP!NoJob

LEMMA SameNext == [DB!Next]_(DB!vars) <=> [DBP!Next]_(DBP!vars)
  BY DEF DB!Next, DBP!Next, DB!vars, DBP!vars, DB!CallConnect, DBP!CallConnect,
           DB!CallDisconnect, DBP!CallDisconnect, DB!ReconcilerStep, DBP!ReconcilerStep, DB!Lock,
           DBP!Lock, DB!Disconnect, DBP!Disconnect, DB!Close, DBP!Close, DB!BuildDSN, DBP!BuildDSN,
           DB!Open, DBP!Open, DB!Ping, DBP!Ping, DB!Migrate, DBP!Migrate, DB!ConnectFails, DBP!ConnectFails,
           DB!Install, DBP!Install, DB!CallStore, DBP!CallStore, DB!StorerStep, DBP!StorerStep,
           DB!Route, DBP!Route, DB!RouteFails, DBP!RouteFails, DB!Write, DBP!Write, DB!CallQuery,
           DBP!CallQuery, DB!QuerierStep, DBP!QuerierStep, DB!GetDBForSensorType,
           DBP!GetDBForSensorType, DB!RunQuery, DBP!RunQuery, DB!CloseExisting, DBP!CloseExisting,
           DB!Return, DBP!Return, DB!NoJob, DBP!NoJob, DB!Unlock, DBP!Unlock, DB!Exclusive,
           DBP!Exclusive, DB!Announce, DBP!Announce, DB!CanAnnounce, DBP!CanAnnounce, DB!Installed,
           DBP!Installed, DB!Supporting, DBP!Supporting, DB!Referenced, DBP!Referenced, DB!RLock,
           DBP!RLock, DB!RUnlock, DBP!RUnlock, DB!Shared, DBP!Shared, DB!StoreReturns,
           DBP!StoreReturns

LEMMA ManagerInit == DB!Init => DBP!IInv
  BY SameInit, ManagerAssumption, DBP!InitIInv DEF DBP!InitIInv, DBP!ConstantsAssumption

LEMMA ManagerStep == DBP!IInv /\ [DB!Next]_(DB!vars) => DBP!IInv'
  BY SameNext, ManagerAssumption, DBP!NextIInv DEF DBP!NextIInv, DBP!ConstantsAssumption

-----------------------------------------------------------------------------
(* Each part takes its own steps *)

\* A step of the pipeline is a step of the handlers, or leaves them alone.
LEMMA HandlersStep == [IngestNext]_ingestVars => [Next]_vars
  <1> SUFFICES ASSUME [IngestNext]_ingestVars PROVE [Next]_vars
    OBVIOUS
  <1>1. CASE Environment
    BY <1>1 DEF Environment, Next
  <1>2. ASSUME NEW c \in Clients, HandlerRuns(c) PROVE Next
    BY <1>2 DEF HandlerRuns, Next, HandlerStep
  <1>3. ASSUME NEW c \in Clients, CallStoreMeasurement(c) PROVE UNCHANGED vars
    BY <1>3 DEF CallStoreMeasurement
  <1>4. ASSUME NEW c \in Clients, StoreMeasurementStep(c) PROVE [Next]_vars
    BY <1>4 DEF StoreMeasurementStep, Next, HandlerStep
  <1>5. ASSUME NEW w \in Reconcilers, CallManager(w) \/ Reconcile(w) PROVE UNCHANGED vars
    BY <1>5 DEF CallManager, Reconcile
  <1>6. CASE UNCHANGED ingestVars
    BY <1>6 DEF ingestVars
  <1> QED BY <1>1, <1>2, <1>3, <1>4, <1>5, <1>6 DEF IngestNext, RouterStep

\* A step of the pipeline is a step of the database manager, or leaves it alone.
LEMMA ManagersStep == [IngestNext]_ingestVars => [DB!Next]_(DB!vars)
  <1> SUFFICES ASSUME [IngestNext]_ingestVars PROVE [DB!Next]_(DB!vars)
    OBVIOUS
  <1>1. CASE Environment
    BY <1>1 DEF Environment, managerVars, DB!vars
  <1>2. ASSUME NEW c \in Clients, HandlerRuns(c) PROVE UNCHANGED DB!vars
    BY <1>2 DEF HandlerRuns, managerVars, DB!vars
  <1>3. ASSUME NEW c \in Clients, CallStoreMeasurement(c) PROVE DB!Next
    BY <1>3 DEF CallStoreMeasurement, DB!Next
  <1>4. ASSUME NEW c \in Clients, StoreMeasurementStep(c) PROVE DB!Next
    BY <1>4 DEF StoreMeasurementStep, DB!Next
  <1>5. ASSUME NEW w \in Reconcilers, CallManager(w) \/ Reconcile(w) PROVE DB!Next
    BY <1>5 DEF CallManager, Reconcile, DB!Next
  <1>6. CASE UNCHANGED ingestVars
    BY <1>6 DEF ingestVars, managerVars, DB!vars
  <1> QED BY <1>1, <1>2, <1>3, <1>4, <1>5, <1>6 DEF IngestNext, RouterStep

\* What the clients' handlers do in the pipeline is what Telemetry allows.
THEOREM RunsTheHandlers == IngestSpec => Spec
  BY HandlersStep, PTL DEF IngestSpec, IngestInit, Spec

\* What the bridges' clients and the reconcilers do to the database manager in
\* the pipeline is what DatabaseManager allows.
THEOREM RunsTheManager == IngestSpec => DB!Spec
  BY ManagersStep, PTL DEF IngestSpec, IngestInit, DB!Spec

LEMMA ManagerInvariance == IngestSpec => [](DBP!IInv)
  BY ManagerInit, ManagerStep, RunsTheManager, PTL DEF DB!Spec

LEMMA HandlersInvariance == IngestSpec => []IInv
  BY RunsTheHandlers, Invariance, PTL

-----------------------------------------------------------------------------
(* What a step of the manager does to a client and to the registry *)

ClientRecord == [pc : DBP!StorePc, type : SensorTypes \cup {None}, key : Keys \cup {None},
                 pool : Pools \cup {None}, result : DBP!StoreResult]

LEMMA ClientTypes == DBP!IInv => store \in [Clients -> ClientRecord]
  BY DEF DBP!IInv, DBP!TypeOK, ClientRecord

LEMMA RegistryTypes ==
    DBP!IInv => /\ connections \in [Keys -> DB!Connection \cup {None}]
                /\ job \in [Reconcilers -> DBP!JobType]
  BY DEF DBP!IInv, DBP!TypeOK, DBP!JobType, DBP!Connection, DB!Connection

\* A return from StoreMeasurement hands over its result and nothing else.
LEMMA ReturnHandsOver ==
    ASSUME DBP!IInv, NEW c \in Clients, NEW k, NEW result, DB!StoreReturns(c, k, result)
    PROVE  /\ store'[c].type = store[c].type
           /\ store'[c].result = result
           /\ \A x \in Clients \ {c} : store'[x] = store[x]
  BY ClientTypes DEF DB!StoreReturns

\* A client's step is its own, keeps the sensor type, and answers "no database"
\* only with the read lock and when no database supports the type.
LEMMA ClientStep ==
    ASSUME DBP!IInv, NEW c \in Clients, DB!StorerStep(c)
    PROVE  /\ store[c].pc # "idle"
           /\ store'[c].type = store[c].type
           /\ \A x \in Clients \ {c} : store'[x] = store[x]
           /\ UNCHANGED <<connections, job>>
           /\ store'[c].pc = "idle" /\ store'[c].result = "no database" =>
                 c \in mu.readers /\ DB!Supporting(store[c].type) = {}
  <1>1. CASE DB!Route(c)
    <2>1. /\ store[c].pc # "idle" /\ store'[c].pc # "idle"
          /\ store'[c].type = store[c].type
          /\ \A x \in Clients \ {c} : store'[x] = store[x]
          /\ UNCHANGED <<connections, job>>
      BY <1>1, ClientTypes DEF DB!Route
    <2> QED BY <2>1
  <1>2. CASE DB!RouteFails(c)
    <2>1. store[c].pc # "idle" /\ c \in mu.readers /\ UNCHANGED <<connections, job>>
      BY <1>2 DEF DB!RouteFails, DB!Shared
    <2>2. \/ DB!Supporting(store[c].type) = {} /\ DB!StoreReturns(c, None, "no database")
          \/ DB!StoreReturns(c, None, "unsupported")
      BY <1>2 DEF DB!RouteFails
    <2>3. CASE DB!Supporting(store[c].type) = {} /\ DB!StoreReturns(c, None, "no database")
      BY <2>1, <2>3, ReturnHandsOver
    <2>4. CASE DB!StoreReturns(c, None, "unsupported")
      <3>1. /\ store'[c].type = store[c].type /\ store'[c].result = "unsupported"
            /\ \A x \in Clients \ {c} : store'[x] = store[x]
        BY <2>4, ReturnHandsOver
      <3>2. "unsupported" # "no database"
        OBVIOUS
      <3> QED BY <2>1, <3>1, <3>2
    <2> QED BY <2>2, <2>3, <2>4
  <1>3. CASE DB!Write(c)
    <2>1. store[c].pc # "idle" /\ UNCHANGED <<connections, job>>
      BY <1>3 DEF DB!Write
    <2>2. PICK k, result : DB!StoreReturns(c, k, result) /\ result \in {"stored", "failed"}
      BY <1>3 DEF DB!Write
    <2>3. /\ store'[c].type = store[c].type /\ store'[c].result = result
          /\ \A x \in Clients \ {c} : store'[x] = store[x]
      BY <2>2, ReturnHandsOver
    <2>4. "no database" \notin {"stored", "failed"}
      OBVIOUS
    <2> QED BY <2>1, <2>2, <2>3, <2>4
  <1> QED BY <1>1, <1>2, <1>3 DEF DB!StorerStep

LEMMA CallStoreEffect ==
    ASSUME DBP!IInv, NEW c \in Clients, DB!CallStore(c)
    PROVE  /\ store'[c].pc = "route"
           /\ \A x \in Clients \ {c} : store'[x] = store[x]
           /\ UNCHANGED <<connections, job>>
  BY ClientTypes DEF DB!CallStore

\* Whoever holds the read lock sees no Connect between its close and its install.
LEMMA ReadersSeeNoGap ==
    ASSUME DBP!IInv, NEW c \in mu.readers
    PROVE  \A w \in Reconcilers : job[w].pc \notin DBP!Alone
  BY DEF DBP!IInv, DBP!LockInv

-----------------------------------------------------------------------------

LEMMA InitCoupled == IngestInit => Coupled /\ LastInv
  <1> SUFFICES ASSUME IngestInit PROVE Coupled /\ LastInv
    OBVIOUS
  <1>1. Coupled
    BY DEF IngestInit, DB!Init, Coupled
  <1>2. LastInv
    BY DEF IngestInit, LastInv
  <1> QED BY <1>1, <1>2

LEMMA HandlerFrame ==
    ASSUME IInv, NEW c \in Clients, HandlerStep(c)
    PROVE  \A x \in Clients \ {c} : handler'[x] = handler[x]
  <1>1. handler \in [Clients -> HandlerType]
    BY TypeParts DEF IInv, Typed, Handlers
  <1> QED BY <1>1 DEF HandlerStep, Take, Discard, NextReading, HandleMessageReturns, Find,
                      FindNothing, Store, StoreFails, ReadingDone

LEMMA StepCoupled == IInv /\ DBP!IInv /\ Coupled /\ [IngestNext]_ingestVars => Coupled'
  <1> SUFFICES ASSUME IInv, DBP!IInv, Coupled, [IngestNext]_ingestVars PROVE Coupled'
    OBVIOUS
  <1>1. CASE Environment
    BY <1>1 DEF Environment, managerVars, Connect, Disconnect, Lose, Publish, ChangeDevice,
                    Coupled
  <1>2. ASSUME NEW c \in Clients, HandlerRuns(c) PROVE Coupled'
    <2>1. handler[c].pc # "store" \/ handler' = handler
      BY <1>2 DEF HandlerRuns, Take, Discard, NextReading, HandleMessageReturns, Find, FindNothing
    <2>2. HandlerStep(c) /\ store' = store
      BY <1>2 DEF HandlerRuns, HandlerStep, managerVars
    <2> QED BY <2>1, <2>2, HandlerFrame DEF Coupled
  <1>3. ASSUME NEW c \in Clients, CallStoreMeasurement(c) PROVE Coupled'
    <2>1. /\ handler[c].pc = "store" /\ store'[c].type = handler[c].sensor /\ handler' = handler
          /\ DB!CallStore(c)
      BY <1>3 DEF CallStoreMeasurement, vars
    <2> QED BY <2>1, CallStoreEffect DEF Coupled
  <1>4. ASSUME NEW c \in Clients, StoreMeasurementStep(c) PROVE Coupled'
    <2>1. DB!StorerStep(c)
      BY <1>4 DEF StoreMeasurementStep
    <2>2. \/ handler' = handler
          \/ /\ store'[c].pc = "idle"
             /\ \A x \in Clients \ {c} : handler'[x] = handler[x]
      BY <1>4, HandlerFrame DEF StoreMeasurementStep, HandlerStep, vars
    <2> QED BY <2>1, <2>2, ClientStep DEF Coupled
  <1>5. ASSUME NEW w \in Reconcilers, CallManager(w) \/ Reconcile(w) PROVE Coupled'
    <2>1. handler' = handler
      BY <1>5 DEF CallManager, Reconcile, vars
    <2>2. store' = store
      BY <1>5 DEF CallManager, Reconcile, DB!CallConnect, DB!CallDisconnect, DB!ReconcilerStep,
         DB!Lock, DB!Disconnect, DB!Close, DB!BuildDSN, DB!Open, DB!Ping, DB!Migrate, DB!ConnectFails, DB!Install
    <2> QED BY <2>1, <2>2 DEF Coupled
  <1>6. CASE UNCHANGED ingestVars
    BY <1>6 DEF ingestVars, vars, managerVars, Coupled
  <1> QED BY <1>1, <1>2, <1>3, <1>4, <1>5, <1>6 DEF IngestNext, RouterStep

\* A step of a call keeps its key until it returns, stays in Alone once there,
\* and changes no entry of the map but its key's.
LEMMA ReconcilerEffect ==
    ASSUME DBP!IInv, NEW w \in Reconcilers, DB!ReconcilerStep(w)
    PROVE  /\ job[w].key \in Keys
           /\ \A v \in Reconcilers \ {w} : job'[v] = job[v]
           /\ \A k \in Keys \ {job[w].key} : connections'[k] = connections[k]
           /\ \/ /\ job'[w].pc # "idle" /\ job'[w].key = job[w].key
                 /\ \/ job[w].pc \in DBP!Alone /\ job'[w].pc \in DBP!Alone
                    \/ job[w].pc \notin DBP!Alone /\ connections' = connections
                    \/ job'[w].pc \in DBP!Alone
              \/ /\ job'[w].pc = "idle"
                 /\ job[w].pc = "install" =>
                       /\ job[w].types \in Specs
                       /\ connections'[job[w].key] # None /\ connections'[job[w].key].types = job[w].types
  <1>1. /\ connections \in [Keys -> DB!Connection \cup {None}]
        /\ job \in [Reconcilers -> DBP!JobType]
    BY RegistryTypes
  <1>2. job[w].key \in Keys
    BY DEF DBP!IInv, DBP!JobInv, DB!ReconcilerStep, DB!Lock, DB!Disconnect, DB!Close,
           DB!BuildDSN, DB!Open, DB!Ping, DB!Migrate, DB!ConnectFails, DB!Install
  <1> USE DEF DBP!Alone
  <1>3. CASE DB!Lock(w)
    <2>1. PICK pc : pc \in {"disconnect", "close"} /\ job' = [job EXCEPT ![w].pc = pc]
      BY <1>3 DEF DB!Lock
    <2>2. job'[w].pc = pc /\ job'[w].key = job[w].key /\ \A v \in Reconcilers \ {w} : job'[v] = job[v]
      BY <1>1, <2>1 DEF DBP!JobType
    <2> QED BY <1>2, <1>3, <2>1, <2>2 DEF DB!Lock
  <1>4. CASE DB!Disconnect(w)
    <2>1. job[w].pc = "disconnect" /\ job' = [job EXCEPT ![w] = DB!NoJob] /\ DB!NoJob.pc = "idle"
      BY <1>4 DEF DB!Disconnect, DB!Return, DB!NoJob
    <2>2. connections' = [connections EXCEPT ![job[w].key] = None]
      BY <1>4 DEF DB!Disconnect, DB!CloseExisting
    <2> QED BY <1>1, <1>2, <2>1, <2>2
  <1>5. CASE DB!Close(w)
    <2>1. /\ job' = [job EXCEPT ![w].pc = "dsn"]
          /\ connections' = [connections EXCEPT ![job[w].key] = None]
      BY <1>5 DEF DB!Close, DB!CloseExisting
    <2>2. job'[w].pc = "dsn" /\ job'[w].key = job[w].key /\ \A v \in Reconcilers \ {w} : job'[v] = job[v]
      BY <1>1, <2>1 DEF DBP!JobType
    <2> QED BY <1>1, <1>2, <2>1, <2>2
  <1>6. CASE DB!BuildDSN(w)
    <2>1. job' = [job EXCEPT ![w].pc = "open"] /\ job[w].pc = "dsn" /\ connections' = connections
      BY <1>6 DEF DB!BuildDSN
    <2>2. job'[w].pc = "open" /\ job'[w].key = job[w].key /\ \A v \in Reconcilers \ {w} : job'[v] = job[v]
      BY <1>1, <2>1 DEF DBP!JobType
    <2> QED BY <1>2, <2>1, <2>2
  <1>7. CASE DB!Open(w)
    BY <1>1, <1>2, <1>7 DEF DB!Open
  <1>11. CASE DB!Ping(w)
    <2>1. job' = [job EXCEPT ![w].pc = "migrate"] /\ job[w].pc = "ping" /\ connections' = connections
      BY <1>11 DEF DB!Ping
    <2>2. job'[w].pc = "migrate" /\ job'[w].key = job[w].key /\ \A v \in Reconcilers \ {w} : job'[v] = job[v]
      BY <1>1, <2>1 DEF DBP!JobType
    <2> QED BY <1>2, <2>1, <2>2
  <1>8. CASE DB!Migrate(w)
    <2>1. job' = [job EXCEPT ![w].pc = "install"] /\ job[w].pc = "migrate" /\ connections' = connections
      BY <1>8 DEF DB!Migrate
    <2>2. job'[w].pc = "install" /\ job'[w].key = job[w].key /\ \A v \in Reconcilers \ {w} : job'[v] = job[v]
      BY <1>1, <2>1 DEF DBP!JobType
    <2> QED BY <1>2, <2>1, <2>2
  <1>9. CASE DB!ConnectFails(w)
    BY <1>1, <1>2, <1>9 DEF DB!ConnectFails, DB!Return, DB!NoJob
  <1>10. CASE DB!Install(w)
    <2>1. /\ job[w].pc = "install" /\ job' = [job EXCEPT ![w] = DB!NoJob] /\ DB!NoJob.pc = "idle"
          /\ connections' = [connections EXCEPT ![job[w].key] =
                                [types |-> job[w].types, pool |-> job[w].pool]]
      BY <1>10 DEF DB!Install, DB!Return, DB!NoJob
    <2>2. job[w].types \in Specs /\ job[w].pool \in Pools
      BY <2>1 DEF DBP!IInv, DBP!JobInv
    <2>3. [types |-> job[w].types, pool |-> job[w].pool] \in DB!Connection
      BY <2>2 DEF DB!Connection
    <2>4. [types |-> job[w].types, pool |-> job[w].pool] # None
      BY <2>3, IngestAssumption
    <2> QED BY <1>1, <1>2, <2>1, <2>2, <2>4
  <1> QED BY <1>3, <1>4, <1>5, <1>6, <1>7, <1>8, <1>9, <1>10, <1>11 DEF DB!ReconcilerStep

LEMMA StepLast == DBP!IInv /\ LastInv /\ [IngestNext]_ingestVars => LastInv'
  <1> SUFFICES ASSUME DBP!IInv, LastInv, [IngestNext]_ingestVars PROVE LastInv'
    OBVIOUS
  <1>1. CASE UNCHANGED <<connections, job, last>>
    BY <1>1 DEF LastInv, DB!Installed
  <1>2. ASSUME NEW c \in Clients, RouterStep(c) PROVE UNCHANGED <<connections, job, last>>
    BY <1>2, CallStoreEffect, ClientStep
       DEF RouterStep, HandlerRuns, CallStoreMeasurement, StoreMeasurementStep, managerVars
  <1>3. Environment => UNCHANGED <<connections, job, last>>
    BY DEF Environment, managerVars
  <1>4. UNCHANGED ingestVars => UNCHANGED <<connections, job, last>>
    BY DEF ingestVars, managerVars
  <1>5. ASSUME NEW w \in Reconcilers, CallManager(w) PROVE LastInv'
    <2>1. job \in [Reconcilers -> DBP!JobType]
      BY RegistryTypes
    <2>2. /\ job[w].pc = "idle" /\ connections' = connections /\ last' = last
          /\ \A v \in Reconcilers \ {w} : job'[v] = job[v]
      BY <1>5, <2>1 DEF CallManager, DB!CallConnect, DB!CallDisconnect
    <2> QED BY <2>2 DEF LastInv, DB!Installed, DBP!Alone
  <1>6. ASSUME NEW w \in Reconcilers, Reconcile(w) PROVE LastInv'
    <2> DEFINE k == job[w].key
    <2>1. DB!ReconcilerStep(w)
      BY <1>6 DEF Reconcile
    <2>2. /\ k \in Keys
          /\ \A v \in Reconcilers \ {w} : job'[v] = job[v]
          /\ \A j \in Keys \ {k} : connections'[j] = connections[j]
      BY <2>1, ReconcilerEffect
    <2>3. CASE job'[w].pc # "idle"
      <3>1. /\ job'[w].key = k
            /\ \/ job[w].pc \in DBP!Alone /\ job'[w].pc \in DBP!Alone
               \/ job[w].pc \notin DBP!Alone /\ connections' = connections
               \/ job'[w].pc \in DBP!Alone
        BY <2>1, <2>3, ReconcilerEffect
      <3>2. last' = last
        BY <1>6, <2>3 DEF Reconcile
      <3>3. ASSUME NEW j \in Keys, last[j] # None
            PROVE  \/ connections'[j] # None /\ connections'[j].types = last[j]
                   \/ \E v \in Reconcilers : job'[v].pc \in DBP!Alone /\ job'[v].key = j
        <4>1. CASE j = k /\ job'[w].pc \in DBP!Alone
          BY <3>1, <4>1
        <4>2. CASE ~(j = k /\ job'[w].pc \in DBP!Alone)
          <5>1. connections'[j] = connections[j]
            BY <2>2, <3>1, <4>2
          <5>2. CASE DB!Installed(j) /\ connections[j].types = last[j]
            BY <5>1, <5>2 DEF DB!Installed
          <5>3. CASE \E v \in Reconcilers : job[v].pc \in DBP!Alone /\ job[v].key = j
            <6>1. PICK v \in Reconcilers : job[v].pc \in DBP!Alone /\ job[v].key = j
              BY <5>3
            <6> QED BY <2>2, <3>1, <4>2, <6>1
          <5> QED BY <3>3, <5>2, <5>3 DEF LastInv
        <4> QED BY <4>1, <4>2
      <3> QED BY <3>2, <3>3 DEF LastInv, DB!Installed
    <2>4. CASE job'[w].pc = "idle"
      <3> DEFINE new == IF job[w].pc = "install" THEN job[w].types ELSE None
      <3>1. job[w].pc = "install" => /\ job[w].types \in Specs
                                     /\ connections'[k] # None /\ connections'[k].types = job[w].types
        BY <2>1, <2>4, ReconcilerEffect
      <3>2. new \in Specs \cup {None} /\ last' = [last EXCEPT ![k] = new]
        BY <1>6, <2>4, <3>1 DEF Reconcile
      <3>3. new # None => connections'[k] # None /\ connections'[k].types = new
        BY <3>1
      <3> HIDE DEF new
      <3>4. /\ last' \in [Keys -> Specs \cup {None}] /\ last'[k] = new
            /\ \A j \in Keys \ {k} : last'[j] = last[j]
        BY <2>2, <3>2 DEF LastInv
      <3>5. ASSUME NEW j \in Keys, last'[j] # None
            PROVE  \/ connections'[j] # None /\ connections'[j].types = last'[j]
                   \/ \E v \in Reconcilers : job'[v].pc \in DBP!Alone /\ job'[v].key = j
        <4>1. CASE j = k
          BY <3>3, <3>4, <3>5, <4>1
        <4>2. CASE j # k
          <5>1. last'[j] = last[j] /\ connections'[j] = connections[j]
            BY <2>2, <3>4, <4>2
          <5>2. CASE DB!Installed(j) /\ connections[j].types = last[j]
            BY <5>1, <5>2 DEF DB!Installed
          <5>3. CASE \E v \in Reconcilers : job[v].pc \in DBP!Alone /\ job[v].key = j
            <6>1. PICK v \in Reconcilers : job[v].pc \in DBP!Alone /\ job[v].key = j
              BY <5>3
            <6> QED BY <2>2, <4>2, <6>1
          <5> QED BY <3>5, <5>1, <5>2, <5>3 DEF LastInv
        <4> QED BY <4>1, <4>2
      <3> QED BY <3>4, <3>5 DEF LastInv, DB!Installed
    <2> QED BY <2>3, <2>4
  <1> QED BY <1>1, <1>2, <1>3, <1>4, <1>5, <1>6 DEF IngestNext

-----------------------------------------------------------------------------

\* The inductive invariants of both parts and of what connects them hold in
\* every state of the pipeline.
THEOREM IngestInvariance == IngestSpec => []IngestIInv
  <1>1. IngestSpec => [](Coupled /\ LastInv)
    BY InitCoupled, StepCoupled, StepLast, HandlersInvariance, ManagerInvariance, PTL
       DEF IngestSpec
  <1>2. IInv /\ DBP!IInv /\ (Coupled /\ LastInv) => IngestIInv
    BY DEF IngestIInv
  <1> QED BY <1>1, <1>2, HandlersInvariance, ManagerInvariance, PTL

\* Every variable of the pipeline keeps its type, and a client is inside the
\* manager only while its handler stores a reading of that sensor type.
THEOREM IngestTypeCorrect == IngestSpec => []IngestTypeOK
  <1>1. IngestIInv => IngestTypeOK
    BY SameTypes DEF IngestIInv, IInv, DBP!IInv, Coupled, LastInv, IngestTypeOK
  <1> QED BY <1>1, IngestInvariance, PTL

LEMMA NoGapIsSeen ==
    ASSUME IngestIInv, [IngestNext]_ingestVars, NEW c \in Clients,
           store[c].pc # "idle", store'[c].pc = "idle", store'[c].result = "no database",
           NEW k \in Keys
    PROVE  last[k] = None \/ store[c].type \notin last[k]
  <1>1. store' # store
    OBVIOUS
  <1>2. ~Environment /\ ~UNCHANGED ingestVars
    BY <1>1 DEF Environment, ingestVars, managerVars
  <1>3. ASSUME NEW w \in Reconcilers PROVE ~CallManager(w) /\ ~Reconcile(w)
    BY <1>1 DEF CallManager, Reconcile, DB!CallConnect, DB!CallDisconnect, DB!ReconcilerStep,
         DB!Lock, DB!Disconnect, DB!Close, DB!BuildDSN, DB!Open, DB!Ping, DB!Migrate, DB!ConnectFails, DB!Install
  <1>4. PICK x \in Clients : RouterStep(x)
    BY <1>2, <1>3 DEF IngestNext
  <1>5. ~HandlerRuns(x)
    BY <1>1 DEF HandlerRuns, managerVars
  <1>6. ~CallStoreMeasurement(x)
    BY CallStoreEffect DEF CallStoreMeasurement, IngestIInv
  <1>7. DB!StorerStep(x)
    BY <1>4, <1>5, <1>6 DEF RouterStep, StoreMeasurementStep
  <1>8. x = c
    BY <1>7, ClientStep DEF IngestIInv
  <1>9. c \in mu.readers /\ DB!Supporting(store[c].type) = {}
    BY <1>7, <1>8, ClientStep DEF IngestIInv
  <1>10. \A w \in Reconcilers : job[w].pc \notin DBP!Alone
    BY <1>9, ReadersSeeNoGap DEF IngestIInv
  <1>11. last[k] # None => DB!Installed(k) /\ connections[k].types = last[k]
    BY <1>10 DEF IngestIInv, LastInv
  <1> QED BY <1>9, <1>11 DEF DB!Supporting

\* Connect closes the working connection before it opens the new one, yet no
\* measurement falls into the gap: StoreMeasurement answers "no database" only
\* when the last call of each database failed or left it without the type.
THEOREM NoReadingInTheGap == IngestSpec => ReconnectLosesNothing
  <1>1. IngestIInv /\ [IngestNext]_ingestVars =>
           [\A c \in Clients :
               store[c].pc # "idle" /\ store'[c].pc = "idle" /\ store'[c].result = "no database" =>
                   \A k \in Keys : last[k] = None \/ store[c].type \notin last[k]]_ingestVars
    BY NoGapIsSeen
  <1> QED BY <1>1, IngestInvariance, PTL DEF IngestSpec, ReconnectLosesNothing

\* In the pipeline, too, a reading is pending only while the call for its
\* message runs, although each store waits for the manager's lock.
THEOREM PipelineReadingsIndependent == IngestSpec => []ReadingsAreIndependent
  BY RunsTheHandlers, IndependentReadings, PTL

\* In the pipeline, too, the measurements a client reports for a device are
\* stored in the order of its messages, although each waits for the manager's
\* lock, where the store of a client it replaced may still wait as well.
THEOREM PipelineArrivalOrder == IngestSpec => []RowsInArrivalOrder
  BY RunsTheHandlers, ArrivalOrder, PTL

\* From the broker's side the registry, its lock and its pools are not to be
\* seen: each reading lands in one step in a database that serves its type at
\* that moment, or is refused for a reason that holds at that moment.
THEOREM PipelineRoutesInOneStep == IngestSpec => DBP!Abstract!Spec
  <1>1. DBP!Spec => DBP!Abstract!Spec
    BY ManagerAssumption, DBP!ImplementsSafety
       DEF DBP!ImplementsSafety, DBP!ConstantsAssumption
  <1>2. DB!Spec => DBP!Spec
    BY SameInit, SameNext, PTL DEF DB!Spec, DBP!Spec
  <1> QED BY <1>1, <1>2, RunsTheManager, PTL

=============================================================================
