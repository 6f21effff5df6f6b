------------------------------ MODULE Watchers ------------------------------
(***************************************************************************)
(* internal/watcher and its wiring in cmd/main.go: two controllers, one    *)
(* for Database and one for MQTTBridge resources, that turn changes of the *)
(* resources into calls of a manager's Connect.                            *)
(*                                                                         *)
(* External: the API server, the informer cache that client.Get reads, and *)
(* the work queue of controller-runtime (one worker per controller, a key  *)
(* is queued at most once, a key added while it is processed runs again, a *)
(* failed one is added again after a delay).  The informer may deliver     *)
(* several changes as one, and after a lost watch it compares lists: a     *)
(* resource that was deleted and created again meanwhile is then one       *)
(* update.  MaxWrites, MaxFailures and MaxRestarts bound what the          *)
(* environment does.                                                       *)
(***************************************************************************)
EXTENDS Naturals, FiniteSets

CONSTANTS
    Databases, Bridges,      \* names of the resources
    MaxWrites, MaxFailures, MaxRestarts,
    None

Resources == Databases \cup Bridges
Controllers == {"database", "mqttbridge"}
Watched(c) == IF c = "database" THEN Databases ELSE Bridges

ASSUME WatchersAssumption ==
    /\ Databases \cap Bridges = {}
    /\ None \notin Resources \cup 1..MaxWrites
    /\ {MaxWrites, MaxFailures, MaxRestarts} \subseteq Nat

VARIABLES
    object,    \* the resource in the API server, or None
    cached,    \* the same in the informer cache
    queue,     \* keys ready to be reconciled
    delayed,   \* keys that wait for their retry
    worker,    \* each controller's call of Reconcile
    connected, \* the spec each manager is connected with, or None
    writes, failures, restarts,  \* what the environment did so far
    drops,     \* working connections that Connect dropped (history only)
    causes,    \* new specs delivered and failed calls (history only)
    unseen     \* created again, delivered as an update of the same generation
               \* (history only)

environment == <<object, writes>>
history == <<drops, causes, unseen>>
vars == <<environment, cached, queue, delayed, worker, connected, failures, restarts, history>>

\* spec: which write of the spec this is; status: changes with any other write.
Object == [generation : 1..MaxWrites, spec : 1..MaxWrites, status : 1..MaxWrites]

TypeOK ==
    /\ object \in [Resources -> Object \cup {None}]
    /\ cached \in [Resources -> Object \cup {None}]
    /\ queue \in SUBSET Resources /\ delayed \in SUBSET Resources
    /\ worker \in [Controllers -> [pc : {"idle", "get", "close", "connect"},
                                   key : Resources \cup {None}, spec : 1..MaxWrites \cup {None}]]
    /\ \A c \in Controllers :
          /\ worker[c].pc # "idle" => worker[c].key \in Watched(c)
          /\ worker[c].spec # None <=> worker[c].pc \in {"close", "connect"}
    /\ connected \in [Resources -> 1..MaxWrites \cup {None}]
    /\ writes \in 0..MaxWrites /\ failures \in 0..MaxFailures /\ restarts \in 0..MaxRestarts
    /\ drops \in [Resources -> Nat] /\ causes \in [Resources -> Nat]
    /\ unseen \in SUBSET Resources

Idle == [pc |-> "idle", key |-> None, spec |-> None]

Init ==
    /\ object = [r \in Resources |-> None] /\ cached = object
    /\ queue = {} /\ delayed = {}
    /\ worker = [c \in Controllers |-> Idle]
    /\ connected = [r \in Resources |-> None]
    /\ writes = 0 /\ failures = 0 /\ restarts = 0
    /\ drops = [r \in Resources |-> 0] /\ causes = drops /\ unseen = {}

-----------------------------------------------------------------------------
(* The API server, external *)

Write(r, new) ==
    /\ writes < MaxWrites
    /\ writes' = writes + 1
    /\ object' = [object EXCEPT ![r] = new]
    /\ UNCHANGED <<cached, queue, delayed, worker, connected, failures, restarts, history>>

Create(r) ==
    /\ object[r] = None
    /\ Write(r, [generation |-> 1, spec |-> writes + 1, status |-> writes + 1])

UpdateSpec(r) ==
    /\ object[r] # None
    /\ Write(r, [generation |-> object[r].generation + 1, spec |-> writes + 1,
                 status |-> writes + 1])

UpdateStatus(r) ==
    /\ object[r] # None
    /\ Write(r, [object[r] EXCEPT !.status = writes + 1])

Delete(r) ==
    /\ object[r] # None
    /\ Write(r, None)

-----------------------------------------------------------------------------
(* Events, predicates and the work queue *)

\* Mutant: the predicate of the bridges.
ReconcilesAnyUpdate(r, old, new) ==
    \/ old = None
    \/ new # None

\* GetPredicate of the watcher of r: creations always, deletions never, an
\* update of a Database only with a new generation, one of an MQTTBridge always.
Reconciles(r, old, new) ==
    \/ old = None
    \/ old # None /\ new # None /\ (r \in Bridges \/ old.generation # new.generation)

NewSpec(old, new) == new # None /\ (old = None \/ old.generation # new.generation)

\* A deletion and a creation in one update that the generation does not tell
\* from an update of the status.
LooksUnchanged(old, new) ==
    old # None /\ new # None /\ old.generation = new.generation /\ old.spec # new.spec

Deliver(r) ==
    /\ cached[r] # object[r]
    /\ cached' = [cached EXCEPT ![r] = object[r]]
    /\ queue' = IF Reconciles(r, cached[r], object[r]) THEN queue \cup {r} ELSE queue
    /\ causes' = [causes EXCEPT ![r] = IF NewSpec(cached[r], object[r]) THEN @ + 1 ELSE @]
    /\ unseen' = IF LooksUnchanged(cached[r], object[r]) THEN unseen \cup {r}
                 ELSE IF NewSpec(cached[r], object[r]) THEN unseen \ {r}
                 ELSE unseen
    /\ UNCHANGED <<environment, delayed, worker, connected, failures, restarts, drops>>

RetryDue(r) ==
    /\ r \in delayed
    /\ delayed' = delayed \ {r}
    /\ queue' = queue \cup {r}
    /\ UNCHANGED <<environment, cached, worker, connected, failures, restarts, history>>

Take(c) ==
    /\ worker[c].pc = "idle"
    /\ \E r \in queue \cap Watched(c) :
          /\ queue' = queue \ {r}
          /\ worker' = [worker EXCEPT ![c] = [pc |-> "get", key |-> r, spec |-> None]]
    /\ UNCHANGED <<environment, cached, delayed, connected, failures, restarts, history>>

-----------------------------------------------------------------------------
(* Reconcile *)

\* Mutant: an object that is gone is passed to Connect, empty.
GetNotFoundProceeds(c) ==
    /\ worker[c].pc = "get"
    /\ cached[worker[c].key] = None
    /\ worker' = [worker EXCEPT ![c].pc = "close"]
    /\ UNCHANGED <<environment, cached, queue, delayed, connected, failures, restarts, history>>

\* client.IgnoreNotFound: nothing is connected, and nothing disconnected.
GetNotFound(c) ==
    /\ worker[c].pc = "get"
    /\ cached[worker[c].key] = None
    /\ worker' = [worker EXCEPT ![c] = Idle]
    /\ UNCHANGED <<environment, cached, queue, delayed, connected, failures, restarts, history>>

Get(c) ==
    LET r == worker[c].key
    IN  /\ worker[c].pc = "get"
        /\ cached[r] # None
        /\ worker' = [worker EXCEPT ![c] = [pc |-> "close", key |-> r, spec |-> cached[r].spec]]
        /\ UNCHANGED <<environment, cached, queue, delayed, connected, failures, restarts, history>>

\* onConnect: both managers' Connect drops the existing connection first.
Close(c) ==
    LET r == worker[c].key
    IN  /\ worker[c].pc = "close"
        /\ connected' = [connected EXCEPT ![r] = None]
        /\ drops' = [drops EXCEPT ![r] = IF connected[r] # None THEN @ + 1 ELSE @]
        /\ worker' = [worker EXCEPT ![c].pc = "connect"]
        /\ UNCHANGED <<environment, cached, queue, delayed, failures, restarts, causes, unseen>>

Connected(c) ==
    /\ worker[c].pc = "connect"
    /\ connected' = [connected EXCEPT ![worker[c].key] = worker[c].spec]
    /\ worker' = [worker EXCEPT ![c] = Idle]
    /\ UNCHANGED <<environment, cached, queue, delayed, failures, restarts, history>>

\* Mutant: Reconcile logs the error of onConnect and returns nil.
FailureSwallowed(c) ==
    /\ worker[c].pc = "connect"
    /\ failures < MaxFailures
    /\ failures' = failures + 1
    /\ worker' = [worker EXCEPT ![c] = Idle]
    /\ UNCHANGED <<environment, cached, queue, delayed, connected, restarts, history>>

\* Connect's error is returned, so the key is queued again after a delay.
ConnectFails(c) ==
    /\ worker[c].pc = "connect"
    /\ failures < MaxFailures
    /\ failures' = failures + 1
    /\ delayed' = delayed \cup {worker[c].key}
    /\ causes' = [causes EXCEPT ![worker[c].key] = @ + 1]
    /\ worker' = [worker EXCEPT ![c] = Idle]
    /\ UNCHANGED <<environment, cached, queue, connected, restarts, drops, unseen>>

\* The process ends at any point; the new one starts from an empty cache and is
\* told of every resource as if it were created.
Restart ==
    /\ restarts < MaxRestarts
    /\ restarts' = restarts + 1
    /\ cached' = [r \in Resources |-> None]
    /\ queue' = {} /\ delayed' = {}
    /\ worker' = [c \in Controllers |-> Idle]
    /\ connected' = [r \in Resources |-> None]
    /\ UNCHANGED <<environment, failures, history>>

-----------------------------------------------------------------------------

Reconcile(c) ==
    Take(c) \/ GetNotFound(c) \/ Get(c) \/ Close(c) \/ Connected(c) \/ ConnectFails(c)

Next ==
    \/ \E r \in Resources :
          Create(r) \/ UpdateSpec(r) \/ UpdateStatus(r) \/ Delete(r) \/ Deliver(r) \/ RetryDue(r)
    \/ \E c \in Controllers : Reconcile(c)
    \/ Restart

Spec == Init /\ [][Next]_vars

\* Events are delivered, delays end, and a controller's worker keeps working;
\* nothing is assumed of the environment's writes, failures and restarts but
\* that there are finitely many.
Fairness ==
    /\ \A r \in Resources : WF_vars(Deliver(r)) /\ WF_vars(RetryDue(r))
    /\ \A c \in Controllers : WF_vars(Reconcile(c))

FairSpec == Spec /\ Fairness

-----------------------------------------------------------------------------
(* Properties *)

\* Once writes, failures and restarts end, the manager of every existing
\* resource is connected with the spec last written: no update is lost between
\* the predicate, the queue, the Get and the retries, whatever arrived while
\* Reconcile ran.  One case is excepted: a Database that was deleted and created
\* again, which the informer delivered as one update without a new generation,
\* is dropped by the predicate and stays connected with an older spec.
LatestSpecConnected ==
    \A r \in Resources :
        <>[](object[r] # None =>
                \/ connected[r] = object[r].spec
                \/ r \in Databases \cap unseen /\ connected[r] # None)

\* After the first connection to a database, Connect drops a working one at
\* most once for each new spec and each failed call: writes of the status, and
\* events that meet a retry or a running Reconcile, never cost a connection.
\* (Those of a bridge do: its predicate lets every update through.)
DatabaseDropsHaveACause == \A r \in Databases : drops[r] = 0 \/ drops[r] < causes[r]

=============================================================================
