-------------------------- MODULE DatabaseManager --------------------------
(***************************************************************************)
(* internal/database/manager.go: the registry of database connections.     *)
(*                                                                         *)
(* Three kinds of goroutine share it.  Reconcilers call Connect and        *)
(* Disconnect and hold m.mu.Lock from the first to the last statement,     *)
(* network calls included.  Storers (the callback goroutines of the MQTT   *)
(* clients) call StoreMeasurement, which holds m.mu.RLock while the        *)
(* handler writes.  Queriers (HTTP request goroutines) call                *)
(* GetDBForSensorType, which returns the pool and gives the lock back, and *)
(* use the pool after that.                                                *)
(*                                                                         *)
(* A pool is the *sql.DB behind a *gorm.DB.  A pool that is closed and     *)
(* that nothing refers to may be reused as the next fresh one, so Pools    *)
(* bounds only how many are referred to, or leaked, at once.               *)
(***************************************************************************)
EXTENDS RWMutex

CONSTANTS
    Keys,          \* "namespace/name" of the Database resources
    SensorTypes,   \* the values of a device's sensor type
    HandledTypes,  \* those StoreMeasurement has a handler for
    Specs,         \* the values of Spec.SupportedSensorTypes, as sets
    Pools,         \* identities of connection pools
    Reconcilers, Storers, Queriers,
    None           \* nil

Connection == [types : Specs, pool : Pools]

ASSUME ConstantsAssumption ==
    /\ HandledTypes \subseteq SensorTypes
    /\ Specs \subseteq SUBSET SensorTypes
    /\ Storers \cap Queriers = {}
    /\ None \notin Keys \cup Pools \cup SensorTypes
    /\ None \notin Specs \cup Connection

VARIABLES
    mu,           \* Manager.mu
    connections,  \* Manager.connections: Keys -> Connection or None
    pools,        \* Pools -> "closed", "open" (by sql.Open), "ready" (migrated)
    job,          \* a reconciler's call of Connect or Disconnect
    store,        \* a storer's call of StoreMeasurement
    query         \* a querier's call of GetDBForSensorType and its SQL query

vars == <<mu, connections, pools, job, store, query>>

Readers == Storers \cup Queriers

JobPc   == {"idle", "lock", "close", "disconnect",
            "dsn", "open", "ping", "migrate", "install"}
StorePc == {"idle", "route", "write"}
QueryPc == {"idle", "get", "query"}

StoreResult == {"none", "stored", "failed", "no database", "unsupported"}
QueryResult == {"none", "value", "failed", "no database", "pool closed"}

TypeOK ==
    /\ mu \in MutexType(Reconcilers, Readers)
    /\ connections \in [Keys -> Connection \cup {None}]
    /\ pools \in [Pools -> {"closed", "open", "ready"}]
    /\ job \in [Reconcilers -> [pc : JobPc, key : Keys \cup {None},
                                types : Specs \cup {None}, pool : Pools \cup {None}]]
    /\ store \in [Storers -> [pc : StorePc, type : SensorTypes \cup {None},
                              key : Keys \cup {None}, pool : Pools \cup {None},
                              result : StoreResult]]
    /\ query \in [Queriers -> [pc : QueryPc, type : SensorTypes \cup {None},
                               pool : Pools \cup {None}, result : QueryResult]]

NoJob == [pc |-> "idle", key |-> None, types |-> None, pool |-> None]

Init ==
    /\ mu = Unlocked
    /\ connections = [k \in Keys |-> None]
    /\ pools = [p \in Pools |-> "closed"]
    /\ job = [w \in Reconcilers |-> NoJob]
    /\ store = [s \in Storers |-> [pc |-> "idle", type |-> None, key |-> None,
                                   pool |-> None, result |-> "none"]]
    /\ query = [q \in Queriers |-> [pc |-> "idle", type |-> None,
                                    pool |-> None, result |-> "none"]]

Installed(k) == connections[k] # None

\* The databases whose spec lists the sensor type; the code ranges over a map
\* and takes the first match, so any of them may be chosen.
Supporting(t) == {k \in Keys : Installed(k) /\ t \in connections[k].types}

-----------------------------------------------------------------------------
(* Connect and Disconnect *)

CallConnect(w) ==
    /\ job[w].pc = "idle"
    /\ \E k \in Keys, ts \in Specs :
          job' = [job EXCEPT ![w] = [pc |-> "lock", key |-> k, types |-> ts, pool |-> None]]
    /\ UNCHANGED <<mu, connections, pools, store, query>>

CallDisconnect(w) ==
    /\ job[w].pc = "idle"
    /\ \E k \in Keys :
          job' = [job EXCEPT ![w] = [pc |-> "lock", key |-> k, types |-> None, pool |-> None]]
    /\ UNCHANGED <<mu, connections, pools, store, query>>

Lock(w) ==
    /\ job[w].pc = "lock"
    /\ CanAnnounce(mu)
    /\ mu' = Announce(mu, w)
    /\ job' = [job EXCEPT ![w].pc = IF job[w].types = None THEN "disconnect" ELSE "close"]
    /\ UNCHANGED <<connections, pools, store, query>>

\* Mutant: the entry is deleted and its pool never closed.
DeleteWithoutClose(k) ==
    /\ pools' = pools
    /\ connections' = [connections EXCEPT ![k] = None]

\* sqlDB.Close() and delete(m.connections, key), both only if the key is there.
CloseExisting(k) ==
    /\ pools' = IF Installed(k) THEN [pools EXCEPT ![connections[k].pool] = "closed"]
                                ELSE pools
    /\ connections' = [connections EXCEPT ![k] = None]

\* The deferred m.mu.Unlock() and the return.
Return(w) ==
    /\ mu' = Unlock(mu)
    /\ job' = [job EXCEPT ![w] = NoJob]

Disconnect(w) ==
    /\ job[w].pc = "disconnect"
    /\ Exclusive(mu, w)
    /\ CloseExisting(job[w].key)
    /\ Return(w)
    /\ UNCHANGED <<store, query>>

\* Mutant: the lock is given back while Connect dials.
CloseAndUnlock(w) ==
    /\ job[w].pc = "close"
    /\ Exclusive(mu, w)
    /\ CloseExisting(job[w].key)
    /\ mu' = Unlock(mu)
    /\ job' = [job EXCEPT ![w].pc = "dsn"]
    /\ UNCHANGED <<store, query>>

Close(w) ==
    /\ job[w].pc = "close"
    /\ Exclusive(mu, w)
    /\ CloseExisting(job[w].key)
    /\ job' = [job EXCEPT ![w].pc = "dsn"]
    /\ UNCHANGED <<mu, store, query>>

\* Mutant: the entry is published before it has a pool.
PublishThenOpen(w) ==
    /\ job[w].pc = "dsn"
    /\ connections' = [connections EXCEPT ![job[w].key] = [types |-> job[w].types, pool |-> None]]
    /\ job' = [job EXCEPT ![w].pc = "open"]
    /\ UNCHANGED <<mu, pools, store, query>>

\* buildDSN reads up to four Secrets and parses certificates.
BuildDSN(w) ==
    /\ job[w].pc = "dsn"
    /\ job' = [job EXCEPT ![w].pc = "open"]
    /\ UNCHANGED <<mu, connections, pools, store, query>>

Referenced(p) ==
    \/ \E k \in Keys : Installed(k) /\ connections[k].pool = p
    \/ \E w \in Reconcilers : job[w].pool = p
    \/ \E s \in Storers : store[s].pool = p
    \/ \E q \in Queriers : query[q].pool = p

\* The sql.Open inside gorm.Open: the pool exists, and no server was asked yet.
Open(w) ==
    /\ job[w].pc = "open"
    /\ \E p \in Pools :
          /\ pools[p] = "closed" /\ ~Referenced(p)
          /\ pools' = [pools EXCEPT ![p] = "open"]
          /\ job' = [job EXCEPT ![w] = [pc |-> "ping", key |-> job[w].key,
                                     types |-> job[w].types, pool |-> p]]
    /\ UNCHANGED <<mu, connections, store, query>>

\* The ping at the end of gorm.Open, and the pool's settings.
Ping(w) ==
    /\ job[w].pc = "ping"
    /\ job' = [job EXCEPT ![w].pc = "migrate"]
    /\ UNCHANGED <<mu, connections, pools, store, query>>

\* Mutant: the migrations are skipped.
SkipMigrations(w) ==
    /\ job[w].pc = "migrate"
    /\ job' = [job EXCEPT ![w].pc = "install"]
    /\ UNCHANGED <<mu, connections, pools, store, query>>

Migrate(w) ==
    /\ job[w].pc = "migrate"
    /\ pools' = [pools EXCEPT ![job[w].pool] = "ready"]
    /\ job' = [job EXCEPT ![w].pc = "install"]
    /\ UNCHANGED <<mu, connections, store, query>>

\* Mutant: the error return forgets the unlock.
FailLocked(w) ==
    /\ job[w].pc \in {"dsn", "open", "ping", "migrate"}
    /\ job' = [job EXCEPT ![w] = NoJob]
    /\ UNCHANGED <<mu, connections, pools, store, query>>

\* An unreadable Secret, a DSN that does not parse, a server that does not
\* answer gorm.Open's ping, a failed migration: Connect returns the error.  The
\* pool of a failed ping or migration stays open and nothing refers to it.
ConnectFails(w) ==
    /\ job[w].pc \in {"dsn", "open", "ping", "migrate"}
    /\ Return(w)
    /\ UNCHANGED <<connections, pools, store, query>>

Install(w) ==
    /\ job[w].pc = "install"
    /\ connections' = [connections EXCEPT ![job[w].key] =
                          [types |-> job[w].types, pool |-> job[w].pool]]
    /\ Return(w)
    /\ UNCHANGED <<pools, store, query>>

-----------------------------------------------------------------------------
(* StoreMeasurement *)

CallStore(s) ==
    /\ store[s].pc = "idle"
    /\ mu' = RLock(mu, s)
    /\ \E t \in SensorTypes :
          store' = [store EXCEPT ![s] = [pc |-> "route", type |-> t, key |-> None,
                                         pool |-> None, result |-> "none"]]
    /\ UNCHANGED <<connections, pools, job, query>>

\* The deferred m.mu.RUnlock() and the return with a result; the result says
\* which database took the measurement.
StoreReturns(s, k, result) ==
    /\ mu' = RUnlock(mu, s)
    /\ store' = [store EXCEPT ![s] = [pc |-> "idle", type |-> store[s].type, key |-> k,
                                      pool |-> None, result |-> result]]

\* Mutant: the lock is given back once the connection has been chosen.
RouteAndUnlock(s) ==
    /\ store[s].pc = "route"
    /\ Shared(mu, s)
    /\ store[s].type \in HandledTypes
    /\ mu' = RUnlock(mu, s)
    /\ \E k \in Supporting(store[s].type) :
          store' = [store EXCEPT ![s] = [pc |-> "write", type |-> store[s].type, key |-> k,
                                         pool |-> connections[k].pool, result |-> "none"]]
    /\ UNCHANGED <<connections, pools, job, query>>

Route(s) ==
    /\ store[s].pc = "route"
    /\ Shared(mu, s)
    /\ store[s].type \in HandledTypes
    /\ \E k \in Supporting(store[s].type) :
          store' = [store EXCEPT ![s] = [pc |-> "write", type |-> store[s].type, key |-> k,
                                         pool |-> connections[k].pool, result |-> "none"]]
    /\ UNCHANGED <<mu, connections, pools, job, query>>

RouteFails(s) ==
    /\ store[s].pc = "route"
    /\ Shared(mu, s)
    /\ \/ /\ Supporting(store[s].type) = {}
          /\ StoreReturns(s, None, "no database")
       \/ /\ Supporting(store[s].type) # {}
          /\ store[s].type \notin HandledTypes
          /\ StoreReturns(s, None, "unsupported")
    /\ UNCHANGED <<connections, pools, job, query>>

\* The handler's SQL statements, as one step: they succeed only on an open pool.
Write(s) ==
    /\ store[s].pc = "write"
    /\ \/ pools[store[s].pool] # "closed" /\ StoreReturns(s, store[s].key, "stored")
       \/ StoreReturns(s, None, "failed")
    /\ UNCHANGED <<connections, pools, job, query>>

-----------------------------------------------------------------------------
(* GetDBForSensorType and the query its caller runs on the result *)

CallQuery(q) ==
    /\ query[q].pc = "idle"
    /\ mu' = RLock(mu, q)
    /\ \E t \in SensorTypes :
          query' = [query EXCEPT ![q] = [pc |-> "get", type |-> t,
                                         pool |-> None, result |-> "none"]]
    /\ UNCHANGED <<connections, pools, job, store>>

GetDBForSensorType(q) ==
    /\ query[q].pc = "get"
    /\ Shared(mu, q)
    /\ mu' = RUnlock(mu, q)
    /\ \/ \E k \in Supporting(query[q].type) :
             query' = [query EXCEPT ![q] = [pc |-> "query", type |-> query[q].type,
                                            pool |-> connections[k].pool, result |-> "none"]]
       \/ /\ Supporting(query[q].type) = {}
          /\ query' = [query EXCEPT ![q] = [pc |-> "idle", type |-> query[q].type,
                                            pool |-> None, result |-> "no database"]]
    /\ UNCHANGED <<connections, pools, job, store>>

RunQuery(q) ==
    /\ query[q].pc = "query"
    /\ \E result \in IF pools[query[q].pool] = "closed" THEN {"pool closed"}
                                                       ELSE {"value", "failed"} :
          query' = [query EXCEPT ![q] = [pc |-> "idle", type |-> query[q].type,
                                         pool |-> None, result |-> result]]
    /\ UNCHANGED <<mu, connections, pools, job, store>>

-----------------------------------------------------------------------------

ReconcilerStep(w) ==
    \/ Lock(w) \/ Disconnect(w) \/ Close(w) \/ BuildDSN(w)
    \/ Open(w) \/ Ping(w) \/ Migrate(w) \/ ConnectFails(w) \/ Install(w)

StorerStep(s) == Route(s) \/ RouteFails(s) \/ Write(s)

QuerierStep(q) == GetDBForSensorType(q) \/ RunQuery(q)

Next ==
    \/ \E w \in Reconcilers : CallConnect(w) \/ CallDisconnect(w) \/ ReconcilerStep(w)
    \/ \E s \in Storers : CallStore(s) \/ StorerStep(s)
    \/ \E q \in Queriers : CallQuery(q) \/ QuerierStep(q)

Spec == Init /\ [][Next]_vars

\* A goroutine that can run does run, and a Secret read, SQL statement or dial
\* returns.  sync.Mutex hands over to a goroutine that has waited for 1 ms, so
\* a writer blocked in Lock is not passed over for ever (strong fairness).
Fairness ==
    /\ \A w \in Reconcilers : WF_vars(ReconcilerStep(w)) /\ SF_vars(Lock(w))
    /\ \A s \in Storers : WF_vars(StorerStep(s))
    /\ \A q \in Queriers : WF_vars(QuerierStep(q))

FairSpec == Spec /\ Fairness

-----------------------------------------------------------------------------
(* Properties *)

\* While a handler writes a measurement, the pool it writes to is open and
\* migrated and is still the one installed for a database that lists the
\* measurement's sensor type: no Connect or Disconnect gets in between the
\* routing of StoreMeasurement and its last SQL statement.
WritesGoToInstalledPool ==
    \A s \in Storers : store[s].pc = "write" =>
        /\ store[s].key \in Supporting(store[s].type)
        /\ connections[store[s].key].pool = store[s].pool
        /\ pools[store[s].pool] = "ready"

\* Connect publishes a connection only when its migrations have run, no two
\* databases share a pool, and no entry of the map outlives its pool.
InstalledPoolsReady ==
    \A k \in Keys : Installed(k) =>
        /\ pools[connections[k].pool] = "ready"
        /\ \A j \in Keys : Installed(j) /\ connections[j].pool = connections[k].pool => j = k

\* The pool GetDBForSensorType returned is used after the lock was given back.
\* If it still answers, it belongs to a database that is connected now and
\* lists the type: an API answer never comes from a replaced connection, at
\* the price of an error when Connect closed the pool in between.
AnswersComeFromInstalledPool ==
    \A q \in Queriers :
        query[q].pc = "query" /\ pools[query[q].pool] # "closed" =>
            \E k \in Supporting(query[q].type) : connections[k].pool = query[q].pool

\* A pool that was migrated is installed or about to be: no sequence of Connect
\* and Disconnect calls loses the pool of a working connection.  What it can
\* leave open for ever are the pools of a failed ping or a failed migration,
\* which Connect gives up without closing them.
MigratedPoolsAreInstalled ==
    \A p \in Pools : pools[p] = "ready" =>
        \/ \E k \in Keys : Installed(k) /\ connections[k].pool = p
        \/ \E w \in Reconcilers : job[w].pc = "install" /\ job[w].pool = p

\* The lock is held only in the middle of a call, which will give it back, and
\* nobody waits for it unless it is taken: no error return of Connect and no
\* reader that queued behind it leaves the whole process waiting.
LockIsGivenBack ==
    /\ mu.writer # {} =>
          \E w \in Reconcilers : mu.writer = {w} /\ job[w].pc \notin {"idle", "lock"}
    /\ \A r \in mu.readers \cup mu.waiting :
          \/ r \in Storers /\ store[r].pc # "idle"
          \/ r \in Queriers /\ query[r].pc = "get"
    /\ mu.readers \cap mu.waiting = {}
    /\ mu.waiting # {} => mu.writer # {}

\* Every Connect and Disconnect returns, whatever the stream of measurements
\* and queries: a waiting writer keeps new readers out.
ConnectEventuallyReturns == \A w \in Reconcilers : job[w].pc # "idle" ~> job[w].pc = "idle"

=============================================================================
