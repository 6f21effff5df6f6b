# mqtt-sensor-exporter in TLA+

A verification project for the Kubernetes operator in `src/`: TLA+ modules of
its concurrent core, TLC configurations that check them on small instances, and
theorems that TLAPS checks for every value of the constants. `PROJECT.json`
lists components, runs, the source lines behind every definition, hazards,
findings and theorems; this file explains them.

## 1. The system

The program watches three kinds of resources (`Database`, `MQTTBridge`,
`Device`), keeps one connection per database and one MQTT client per bridge,
stores the measurements that arrive over MQTT in the databases, and answers
`GET /api/v2/alerts` from them. All connections live in memory only.

| Component | Code | State | Operations | Hard because |
|---|---|---|---|---|
| Database manager | `internal/database/manager.go`, `migrations.go` | `m.connections` under `m.mu`; the pools behind it | `Connect`, `Disconnect`, `StoreMeasurement`, `GetDBForSensorType` | reconcilers, MQTT goroutines and HTTP goroutines share it; network calls run under the lock; a pool is used after the lock was given back |
| Measurement handlers | `internal/database/{moisture,valve,water_level,room}_handler.go`, `utils.go` | tables `devices`, measurements, battery, link quality | `StoreMeasurement` of four handlers | values pass two maps keyed by strings; five statements, no transaction around them, several goroutines at once, errors ignored or returned after a commit |
| MQTT bridge manager | `internal/mqtt/manager.go` | `m.bridges` under `m.mu`; per bridge `mqttClient`, `connected` under `conn.mu` | `Connect`, `Disconnect`, callbacks `onConnect`, `onConnectionLost`, `subscribeToTopic` | callbacks run in goroutines of their own, alongside `Connect`; clients reconnect by themselves |
| Watchers | `internal/watcher/*.go`, wiring in `cmd/main.go` | none of their own; controller-runtime's cache and work queue | predicates, `Reconcile`, retries | events merge, arrive during `Reconcile` or a retry; restarts |
| Tasmota dispatcher and telemetry handler | `internal/tasmota/dispatcher.go`, `telemetry_handler.go` | none; reads `Device` resources | `Dispatch`, `HandleMessage`, `processZigbeeDevice`, `updateDevice`, `storeMeasurement` | devices change between two readings of one message; several clients side by side, also an old and a new one of the same bridge |
| Tasmota helpers | `internal/tasmota/utils.go` | none | corrections of readings | truncation, texts that are no numbers |
| Alerts API | `internal/api/alerts_service.go`, `handler.go` | none | `HandleAlerts`, `parseDuration`, `GetTriggeredAlerts`, `getMeasurementValue` | the window moves and rows arrive during a request; devices fail one by one |
| API server, start-up, shutdown | `internal/api/server.go`, `cmd/main.go` | the replicas' processes and the lease | start, leader election, lost lease, signal, exit; the API's goroutine | a leader that cannot renew races the next one; the API starts by the clock; its errors are only logged |

How they interact: a resource event passes a watcher's predicate, its work
queue and `Reconcile`, which calls `Connect` of one of the two managers. A
message passes from a bridge's client through `handleMessage`, the dispatcher
and the telemetry handler to `Manager.StoreMeasurement`, which chooses a
database by sensor type and runs that type's handler. A request asks
`GetDBForSensorType` for a pool and queries it. The managers' locks and the
connection map are the only memory that these three flows share; the tables
and the `Device` resources are the only other things they share.

What makes each of them correct:

- Database manager: a measurement goes, undisturbed, to a migrated pool of a
  database that lists its type; nobody gets a half-made connection; nobody
  reads from a replaced one; `Connect` returns.
- Handlers: one row per measurement that was accepted, holding what was
  reported, corrected once; no orphans, no lost columns, nothing unsanitized.
- Bridge manager: one live client per bridge, always reachable through the
  map, and subscribed; a broker never sees two sessions of a bridge.
- Watchers: the last spec wins, and a working connection is not dropped
  without a reason.
- Telemetry: readings do not lose each other, and those of one client are
  stored in order; every message is handled in the end; a reconnection of a
  database loses none.
- Alerts: every alert is founded on measurements of its window, and none is
  hidden by another device's failure; `since` means what it says.
- Processes: one active replica, and in the end one that serves.

## 2. Modules

| Module | Models | State and actions |
|---|---|---|
| `RWMutex` | `sync.RWMutex` (external) | operators on one record: announced writer, readers inside, readers blocked behind the writer |
| `DatabaseManager` | `database/manager.go` | `connections` is the map; `pools` the `*sql.DB`s; `job`, `store`, `query` are the program counters of a reconciler, an MQTT goroutine and an HTTP goroutine. An action is a stretch of code between two points where another goroutine matters: `Lock`, `Close`, `BuildDSN`, `Open` (the pool exists), `Ping` (the server has answered), `Migrate`, `Install`, `Route`, `Write`, `GetDBForSensorType`, `RunQuery` |
| `SensorDatabases` | what the manager promises | abstract: no lock, no pools; a store lands in one step in a database that serves its type at that moment |
| `DatabaseManagerRefinement` | the mapping of the first to the second | `Serving`, `Storing`, `Asking` as functions of the concrete state |
| `DatabaseManagerProofs` | theorems about `DatabaseManager` and its refinement | see section 6, as for all `*Proofs` |
| `Payloads` | `tasmota/utils.go`, the payload of `storeMeasurement`, the columns of the handlers | no state: operators from a reading and a device's settings to a payload and a row. Numbers are counted in 1/`Scale`, a Go `int` is a multiple of `Scale` |
| `MeasurementHandler` | `StoreMeasurement` of the four handlers | EXTENDS `Payloads`; tables as variables, one action per SQL statement; each may fail, or commit and still return an error |
| `MeasurementHandlerProofs` | theorems about `MeasurementHandler` and `Payloads` | |
| `BridgeManager` | `mqtt/manager.go` | `bridges` is the map; `conn` has `mqttClient` (`assigned`), `connected`, and the client's link and subscriptions; `callback` the running callback goroutines |
| `BridgeLinks` | what the bridge manager promises a broker | abstract: one session per bridge, its stage and subscriptions; fairness of the subscriptions |
| `BridgeManagerRefinement` | the mapping of `BridgeManager` to `BridgeLinks` | the session of a bridge is that of its one client that is not closed; two would map to no stage at all |
| `BridgeManagerProofs` | theorems about `BridgeManager` and its refinement | |
| `Watchers` | `watcher/*.go` and their controllers | API object, informer cache, work queue and delayed keys, one worker per controller; `Reconcile` in the steps take, get, close, connect |
| `WatchersProofs` | theorems about `Watchers` | |
| `Telemetry` | `tasmota/dispatcher.go`, `telemetry_handler.go` | session, inbox and running handler of each MQTT client, keyed by client because paho orders per client: `Disconnect` returns while the old client's handler may still run, and the new one's runs beside it. `rows` is what the databases accepted |
| `TelemetryProofs` | theorems about `Telemetry` | |
| `Ingest` | the composition of `Telemetry` with `DatabaseManager` | EXTENDS the first, INSTANCEs the second with a client as storer: `CallStoreMeasurement` enters the manager, `StoreMeasurementStep` leaves it, and the handler goes on with the result |
| `IngestProofs` | theorems about the composition | EXTENDS `TelemetryProofs`, INSTANCEs `DatabaseManagerProofs` |
| `Durations` | `parseDuration` in `api/handler.go` | no state: a text is a sign and terms of a number and letters; durations have a width and wrap |
| `Alerts` | `api/handler.go`, `alerts_service.go` | EXTENDS `Durations`; clock, rows with their times, the request's loop over devices, its answer and status |
| `AlertsProofs` | theorems about `Alerts` and `Durations` | |
| `Lifecycle` | `cmd/main.go`, `api/server.go` | what each replica's `main` and API goroutine are doing, the lease with its age, who is cut off from the Kubernetes API |
| `LifecycleProofs` | theorems about `Lifecycle` | |

`MC*` modules only name model values, define the constants of the instances and
the symmetry. Definitions marked `Mutant:` are plausible bugs (a dropped guard,
an early unlock, a loop that stops); they are in no specification's `Next`, and
`PROJECT.json` pairs each property with one that breaks it.

Abstractions. `buildDSN`, TLS options and credentials are success or failure.
Values of readings are left out of `Telemetry`, scaled integers in
`MeasurementHandler` and a few integers in `Alerts`; names are model values with
a given `Sanitize` function, which may leave nothing of one (a text of control
characters only; the empty column is `None`). Logging is left out. The handler's statements are one step, `Write`, in `DatabaseManager`
and are taken apart in `MeasurementHandler`. Variables marked "history only"
are written and never asked by an action.

External behaviour that is modelled from its use: paho's client (`onConnect`
in a goroutine that starts before `Connect`'s token completes; clean sessions;
`IsConnected` is true while the client retries; the handlers of one client
called in order, those of two clients not; a closed client may drop what it has
not handed over),
controller-runtime's queue and cache (several changes may arrive as one, and so
may a deletion with the creation after it), its election loop (which gives up after
the renew deadline and takes over only after the longer lease duration),
`time.ParseDuration`, PostgreSQL's unique index, and
`sync.RWMutex`.

The assignment of the interface `mqttClient` in `Connect` is a data race: a
callback can read half of it. `BridgeManager!TornRead` models the outcome, a
panic that ends the process, after which the program starts from nothing.

## 3. Runs

Each run is the cfg of its name.

| Run | What it asks |
|---|---|
| `dbmanager` | Routing and writing are never interrupted by a reconnection (`WritesGoToInstalledPool`), installed pools are migrated and not shared (`InstalledPoolsReady`), a pool that still answers after the lock was given back is a current one (`AnswersComeFromInstalledPool`), a pool that was migrated is installed or about to be (`MigratedPoolsAreInstalled`: what leaks are pools of failed pings and failed migrations, and nothing else), the lock is held only in the middle of a call (`LockIsGivenBack`). The manager implements `SensorDatabases`, with its fairness, and every `Connect` and `Disconnect` returns under any stream of readers. |
| `handler_store` | Each message leaves at most one row and exactly one if nil was returned; owners exist; columns hold what was reported, corrected once, and are NULL only if it was not reported; a duplicate-key error can only meet a device without a row; nothing unsanitized gets into `devices`; a column changes only to what the writing call's own message has for it, so that concurrent `Save`s of whole rows undo nothing (`SavesUndoNothing`). |
| `handler_short_addr` | Violated: `short_addr` is never read from the key the telemetry handler writes. |
| `bridge` | One live client per bridge, reachable through the map; success leaves a live client; a link that comes back is subscribed again; all in all, the manager implements `BridgeLinks`. |
| `bridge_subscribed` | Violated: `onConnect` may run before `Connect` stored the client and then skips every subscription. |
| `watchers` | After the last write, failure and restart every existing resource is connected with its last spec, a Database excepted whose deletion and re-creation arrived as one update (section 5); status writes and stale events never cost a database connection. |
| `ingest` | From the broker to the row: the readings of a message are independent; the rows of a client and device are in message order, also when another client has replaced that one (order across the replacement is not promised, section 5); a store that waits behind a `Connect` never finds the gap between the old and the new connection (`ReconnectLosesNothing`); every message is handled to its end (`MessagesAreHandled`). |
| `telemetry_disabled` | Violated: `spec.disabled` does not stop measurement processing. |
| `alerts` | Alerts are founded on rows of their window; no alert is hidden by another device or by the time filter; the documented forms of `since` are accepted and, unless they are zero (which means the default of one minute), open a window of that length. |
| `alerts_null` | Violated: a window whose column is NULL in all rows is evaluated as 0, where a comment says the device is skipped. |
| `lifecycle` | Through signals, crashes, cut-off leaders and restarts at most one replica has connections; when faults end, one serves. |
| `api_before_database` | Violated: the API starts after a sleep, with or without a database. |

### Bounds

- `dbmanager`: two keys, so that two databases compete for a type; one type
  with a handler and one without; three pools, so that a leak, an installed
  pool and a reconnection overlap; one reconciler, storer and querier (no
  symmetry, because of the liveness properties). A run whose failed pings and
  migrations have leaked its pools stays at the failing `Connect`, which is a return too. That more actors
  change nothing for the safety properties is part of the theorems, which hold
  for any number of everything; so the wait of a storer behind other storers
  is not repeated in `ingest`.
- `handler_store`: three goroutines, four messages of one device (with a name,
  without, with a control character in it, with nothing but control characters)
  and one of another device, of another type; positive, negative and fractional corrections,
  and one that is no number, counted in tenths. First contact, `Save` and insert race each other
  three ways.
- `bridge`: one bridge and two clients: one is replaced while the other
  connects; two callbacks at a time, enough for a late `onConnectionLost` to
  overtake an `onConnect`. Managers of different bridges share only `m.mu`;
  `bridge_subscribed` has two reconcilers and three clients.
- `watchers`: `MaxWrites` 4 (create, update, status, delete of either
  resource), `MaxFailures` 1, `MaxRestarts` 1.
- `ingest`: one bridge and two clients, so that the handler of one that was
  replaced still waits for the lock while its successor's runs; one device that
  has the first address or none, a second address that belongs to nobody, one
  database and one pool, `MaxMessages` 2, `MaxChanges` 1: messages of one or two
  readings, a device that changes between two lookups, and any number of
  reconnections of the database. Sessions come and go until the last message is
  published: afterwards one that ends has nothing to lose but its inbox, which
  `Lose` takes. Bridges share nothing in `Telemetry`, and meet in the manager
  as its storers.
- `telemetry_disabled`: three bridges (two device types, two namespaces) with a
  client each, three devices.
- `alerts`: two devices with opposite conditions, two rows in three minutes,
  windows of half a minute, one minute and more, so that rows expire during a
  request (`Tick` disturbs just the devices whose window they leave or enter); durations wrap at 100 hours in place of 292 years, so that a text
  in days reaches the wrap; texts in every documented unit, refused, negative
  and misread ones.
- `lifecycle`: two replicas, a renew deadline of two ticks and a lease of three
  (10 s and 15 s in controller-runtime; only their order matters), `MaxFaults`
  4: a signal or crash, and a loss of the Kubernetes API, for each.

`CHECK_DEADLOCK FALSE` is set where the system may stop because its bounded
input is used up (`MaxMessages`, `MaxWrites`, the fixed set of messages).

## 4. Fairness

- Goroutines that can run do run, and network calls return: `WF` on the steps
  of a reconciler, storer, querier and callback. SQL and dialling return an
  error at last; the MQTT connection has a timeout of 5 s
  (`mqtt/manager.go`). A broker whose link is up is assumed to acknowledge
  subscriptions: `subscribeToTopic` waits for that without a timeout, and only
  logs a refusal.
- `SF` on `Lock`: Go's mutex hands over to a goroutine that has waited for more
  than 1 ms, so a blocked `Lock` is not passed over for ever although the lock
  is taken again and again.
- No fairness on calls (`CallConnect`, `CallStore`, `Publish`...), on links
  (`LinkLost`, `Reconnect`), or on successes: a `Connect` may fail each time.
- `Ingest`: the fairness of `DatabaseManager`, and a client's router runs while
  it has messages. Connects may fail, and databases come and go for ever.
- `Alerts` states none. `Lifecycle`: processes start and run, time passes, an
  expired lease is taken, the Kubernetes API comes back. A tick waits for a
  leader that is due to give up: its deadline is a timer of the process itself.
- `BridgeLinks`: a session that was resumed gets its subscriptions; the mapping
  shows that the goroutines' fairness is enough for it.
- `Watchers`: events are delivered, retries come due, workers work.
  `LatestSpecConnected` speaks of the time after the environment's (finitely
  many) writes, failures and restarts.

## 5. Findings

1. `handler_short_addr`: handlers read `payload["databaseiotgorm.Device"]`; the
   telemetry handler writes `"Device"`.
2. `bridge_subscribed`: the first `onConnect` may find `mqttClient` nil;
   subscriptions are skipped without an error until the next reconnection.
3. `telemetry_disabled`: the README's `spec.disabled` is only honoured by
   alerts.
4. `alerts_null`: AVG over NULLs counts as the value 0.
5. `api_before_database`: the log says the API will start "after database
   connection is established"; nothing waits for one, and a replica that never
   leads never has one.

More observations have no run:

- A failed ping or migration leaves an open pool that nothing refers to, and
  controller-runtime retries (`DatabaseManager!ConnectFails`).
- A name of control characters only is sanitized to nothing and erases
  `device_name` (`MeasurementHandler!UpdatedRow`); `database/utils_test.go:75`
  asserts what `sanitizeString` does with such a text.
- "Always handle new databases" (`database_watcher.go:78`) is not true of one
  that was deleted and created again while the watch was lost: it arrives as an
  update with generation 1 on both sides, and `database_watcher.go:87` drops it.
  `LatestSpecConnected` excepts that case.
- `Disconnect(250)` (`mqtt/manager.go:90`) does not wait for a handler that waits
  for a lock or a statement, so that the new client's first messages may be
  stored before the old one's last. Ordered by bridge instead of client,
  `RowsInArrivalOrder` is violated.
- Devices are listed over all namespaces, but a measurement is found by the
  device's name alone: two devices of one name share a row of `devices`.

- The predicate of the bridges lets every status update tear a connection down
  (its comment speaks of generations; the database watcher does filter).
- A short address is looked up in the whole namespace whatever the device's
  `bridgeRef`, so that with two coordinators a reading may be credited to
  another device. Both are modelled as the code has them (`Watchers!Reconciles`,
  `Telemetry!Matching`).
- Without `since` the value is the mean of the last minute (`Alerts!Window`, and
  so says the comment at alerts_service.go:161), where API.md:108 says "latest
  single measurement value".
- `Durations` shows what `parseDuration` makes of undocumented texts: `15mins`
  is 15 ms, `1day` one hour, `1second` a day (it ends in "d" after the
  replacements, as does any other word in "d"), and a large number of days wraps to a negative window, which
  is empty.
- An API that fails to bind its address is only logged; the process goes on
  without it (`Lifecycle!StartAPI`; `EventuallyServing` allows for it).

## 6. Proofs

Every safety invariant and every action property that a passing run checks is
a theorem of the component's specification, for every value of the constants:
any number of databases, bridges, devices, goroutines and messages, any
reading and any correction. `PROJECT.json` lists the theorems and the
properties they state. Each property is proved from an inductive invariant
(`IInv`, `THEOREM Invariance`), because hardly any is inductive alone; each
`IInv` was checked by TLC on the component's run before it was proved. The
proofs have one lemma per action or group of actions, and below it one step
per conjunct the action can disturb.

### Assumptions

Each module that declares constants names what it assumes of them, and TLC
evaluates it in the runs.

- `ConstantsAssumption`, `BridgeAssumption`, `WatchersAssumption`,
  `TelemetryAssumption`, `IngestAssumption`: nil is not a value, storers and
  queriers are different goroutines, a handled type is a type, a client has a
  bridge, and `Resource` is some set of things a Device may hold.
- `PayloadsAssumption`: numbers are counted in 1/`Scale`, `Scale` is positive.
- `HandlerAssumption`: `Sanitize` yields a text or nothing, and run on its own
  text it changes nothing; fields
  of a reading have the Go types of `ZigbeeDevice`, a Go `int` being a multiple
  of `Scale`; a correction is a number or a text that is none.
- `DurationsAssumption`, `AlertsAssumption`: durations have some width; there
  are finitely many devices; a condition compares with a number; `since` is
  absent or a sign with terms of a number and one of `Words`.
- `LifecycleAssumption`: the renew deadline is shorter than the lease, as the
  defaults of controller-runtime have it.

### Database manager

`WritesAreRouted`, `ConnectionsAreReady`, `AnswersAreCurrent`,
`MigratedPoolsAreKept` and `TypeCorrect` follow from one invariant. Besides the
types and the properties themselves it says:

- `LockInv`: a reconciler between `Lock` and its return is the mutex's writer,
  a storer or querier in its locked section is a reader or blocked behind the
  writer, a storer that writes is a reader, and there are no readers once the
  reconciler has closed the old pool. Without it a step of
  `Close` could disturb a store: that it cannot is the heart of
  `WritesGoToInstalledPool`.
- `JobInv`: from `BuildDSN` to `Install` the key of the job has no entry in the
  map; from `Ping` on the job has a pool that no entry of the map refers to,
  open before and migrated after `Migrate`. Without it `Install` could publish
  an unmigrated or a shared pool, or lose one.
- `QueryHasPool`: a querier that runs its query has a pool, which keeps `Open`
  from reusing it while the querier still refers to it; otherwise
  `AnswersComeFromInstalledPool` could be broken by a pool that came back.

`LockNeverLeaks` is the converse of `LockInv`: who holds the lock is in the
middle of a call, and nobody waits unless it is taken. From both follows
`NoDeadlock`: while a call is under way, the guard of some call's next step
holds. (This is not yet that each call returns, which is
`ConnectEventuallyReturns` and stays with TLC.)

`ImplementsSafety`: `Spec => Abstract!Spec`, with the mapping of
`DatabaseManagerRefinement`; every step is one of `SensorDatabases` or changes
nothing its callers see. It needs `IInv` (a store ends well only if its
database serves its type at that moment, which is `WritesGoToInstalledPool`)
and `CallsInv` (a call under way has no result yet, and only types with a
handler are written).

### Measurement handlers

Lemmas about `Payloads` say for every number what the correction and the Go
conversions leave: truncation goes toward zero and stays below the next
integer, an integer column holds the truncated corrected value, a float column
the corrected one, and a reported value is never NULL (`TruncateFacts`,
`IntHolds`, `FloatHolds`, `RowHolds`).

The invariant has three parts: of the tables (each row is the one of its
message, at most once per message; a device that a row refers to exists), of
the running calls (how far each one is, that the row it is about to save is a
good one, no two calls for one message) and of the results (nil was returned
only with the row committed, a duplicate-key error only without one). From it:
`OnceStored`, `OwnedRows`, `CorrectedRows`, `DuplicatesAtFirstContact`,
`SanitizedDevices`; and `NothingUndone`, an action property: although
goroutines save whole rows they read before, a column changes only to what the
writing call's own message has for it. (That may be nothing: a name of control
characters only.) The invariant shows why, and how thin the ice is: a row of
`devices` never holds more than a name, and `Save` runs only with a name
(`GoodRow`, `CallOk`). Were `short_addr` read as the test of finding 1 expects,
the theorem would fail with two concurrent `Save`s.

### Bridge manager

`OneLiveClient`, `LiveClientsReachable` and `SuccessLeavesClient`. The
invariant adds `JobInv` (`Connect` dials only when no client of its bridge
lives, and the client it has not stored yet is the only live one), `MapInv` (an
entry is a stored client of its own bridge) and `LinkInv` (a live client
belongs to a bridge; while it retries, the broker has no subscription of it).
Without `JobInv` a second client could come alive next to one of the map;
`LinkInv` is what the refinement needs of clean sessions.

`ImplementsLinksSafety`: `Spec => Links!Safety`, the steps of `BridgeLinks`
without its fairness. An attempt at this proof found that the stages of the
mapping were first written as a CASE with overlapping guards, which means an
unspecified choice; they are an IF now (`Stage`).

### Watchers

`DropsHaveACause`: after the first connection, a working one is dropped at most
once for each new spec delivered and each failed call. Counting drops alone is
not inductive; `Accounts` keeps a ledger in which each cause is spent on a drop
or still pending as a key in the queue, a delayed key, a key being processed or
the connection it made. Merging events and restarts only make the sum smaller.

### Telemetry, and the whole pipeline

`IndependentReadings` and `ArrivalOrder`. The invariant adds what the running
call has found (`CallInv`), that an inbox is in the order of publication and
newer than what is being handled (`InboxInv`), that the rows of a client are
older than what it has still to handle (`RowsInv`), and that each reading that
is pending is owed by a running call (`PendingInv`).

`IngestProofs` proves the composition correct before it uses it: every step of
`Ingest` is a step of `Telemetry` or a stutter (`RunsTheHandlers`), and one of
`DatabaseManager` with the clients as storers or a stutter (`RunsTheManager`).
So the invariants of both hold of the two together, as do their properties
(`PipelineReadingsIndependent`, `PipelineArrivalOrder`), and so does the
refinement: `PipelineRoutesInOneStep` (`IngestSpec => DBP!Abstract!Spec`). What
only the two together promise, `NoReadingInTheGap` (`ReconnectLosesNothing`),
needs two more conjuncts: `Coupled` (a client is in the manager only while its
handler stores a reading, of that reading's type) and `LastInv` (a database
whose last `Connect` succeeded is installed with the types of that call, but
for the time in which a running `Connect` replaces it). In that time the
reconciler is alone with the lock, so no store looks.

### Alerts

`AlertsHaveMeasurements`, `NothingHidden`, `SinceIsHonoured`. The invariant
says what the request was accepted with (`ServedInv`), that tables are finite
(`RowsInv`: an AVG is a quotient of a sum and a count), and of each device that
the loop has left that it has its alert if it deserves one, or was disturbed
(`HandledInv`). `NothingHidden` is where arithmetic matters: that the mean of
values beyond a threshold is beyond it (`AverageIs`, `TriggeredIs`), for any
set of rows.

A sum over rows and the length of a duration are folds of the community
modules, whose recursion the provers cannot unfold and whose induction theorems
take an operator as parameter. The proofs state instead that some function
solves the fold's equations (`SumExists`) and prove by induction over a *set* of
good numbers or subsets (`SetOfNat`, `SetOfSubsets`) what any such function
yields (`SumBounds`, `TotalBounds`, `LengthOfTerms`); with them, that whatever
`parseDuration` makes of a text fits its width (`SinceFits`).

### Processes

`OnlyOneActive`: the invariant adds `ActiveHoldsLease`: whoever leads or has
connections holds the lease, and it is younger than the deadline allows. A
candidate takes the lease only when it is older (`AcquireFindsNoneActive`),
which is where the assumption is needed; that `main` exits as soon as
`mgr.Start` returns is what keeps `LoseLease` from breaking it.

### What stays with TLC

- Liveness, and with it everything under fairness: `ConnectEventuallyReturns`,
  `ResubscribesAfterReconnect`, `LatestSpecConnected`, `MessagesAreHandled`,
  `EventuallyServing`.
- The fairness halves of `ImplementsSensorDatabases` and
  `ImplementsBridgeLinks`; their steps are proved.
- `parseDuration` on texts of several terms: proved are its range, and that
  each documented form, a single term, is accepted with the length it has.
- The runs that expect a violation, which need one behaviour and no proof.

## 7. What is not modelled

- Text: DSNs, certificates, JSON beyond "parses or not", logs; numbers in
  durations that are not whole, and words outside `Durations!Words` (compounds,
  `ns` and `us`, other words that end in "d").
- Two devices of one name in different namespaces, which share their rows.
- `NaN` and infinite corrections, which `ParseFloat` accepts.
- `GetLatestMeasurement`, `GetMeasurementsByTimeRange` and
  `DeleteOldMeasurements`, and the helpers `sanitizeDeviceName`,
  `sanitizeLabel`, `evaluateAlertCondition` and `getFieldValue` of
  `tasmota/utils.go`: nothing in the program calls them, so there are no
  interleavings to ask about. The two components are "partly" for that reason.
- `connStr` entries that `RegisterConnConfig` leaves in pgx.
- The routing and timeouts of `net/http`, `/health`, flags and TLS options.
- Callbacks of MQTT clients during the shutdown: the process ends without
  disconnecting them; a message handled with the cancelled context is a
  failed store of `Ingest`.
- Redelivery: with QoS 1 a message may come twice, and it is then another
  message of `MeasurementHandler`; the program has no notion of a duplicate.
- `example_usage.go` (comments) and the manifests.

## 8. Plan

Done: `DatabaseManager` with its abstraction and proofs, `MeasurementHandler`,
`BridgeManager`, `Watchers`, `Telemetry`, `Alerts`, `Lifecycle`, then the pure
modules `Payloads` and `Durations`, the composition `Ingest` and the abstract
`BridgeLinks`. What the program calls is modelled.

Then the proofs: every safety invariant and action property of the passing
runs, the steps of both refinements, and the composition.

Left: the same for what the model may still gain (a property for each hazard
that has none yet, where the code makes a promise to state), and lemmas on
durations of several terms as far as folds allow.
