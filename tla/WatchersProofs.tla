--------------------------- MODULE WatchersProofs ---------------------------
(***************************************************************************)
(* The safety properties of Watchers, for every number of resources and    *)
(* whatever the environment writes, however often calls fail and the       *)
(* process restarts.                                                       *)
(***************************************************************************)
EXTENDS Watchers, TLAPS

Bit(b) == IF b THEN 1 ELSE 0

Processed(r) == \E c \in Controllers : worker[c].pc # "idle" /\ worker[c].key = r

\* What past causes have left: reconciliations that are still to come or under
\* way, and the connection that the last one made.
Pending(r) == Bit(r \in queue) + Bit(r \in delayed) + Bit(Processed(r)) + Bit(connected[r] # None)

\* Each cause is spent on a drop, left over, or lost in a merge or a restart.
Accounts ==
    /\ \A r \in Databases : drops[r] + Pending(r) <= causes[r]
    /\ \A c \in Controllers : worker[c].pc = "connect" => connected[worker[c].key] = None

\* No object has seen more specs than there were writes.
Versions ==
    \A r \in Resources : object[r] # None => object[r].generation <= writes

\* The inductive invariant.
IInv == TypeOK /\ Versions /\ Accounts /\ DatabaseDropsHaveACause

-----------------------------------------------------------------------------

WorkerType == [pc : {"idle", "get", "close", "connect"}, key : Resources \cup {None},
               spec : 1..MaxWrites \cup {None}]

\* The part of TypeOK about the resources, and the one about the workers.
ObjectTypes ==
    /\ object \in [Resources -> Object \cup {None}]
    /\ cached \in [Resources -> Object \cup {None}]
    /\ queue \in SUBSET Resources /\ delayed \in SUBSET Resources
    /\ connected \in [Resources -> 1..MaxWrites \cup {None}]

CountTypes ==
    /\ writes \in 0..MaxWrites /\ failures \in 0..MaxFailures /\ restarts \in 0..MaxRestarts
    /\ drops \in [Resources -> Nat] /\ causes \in [Resources -> Nat]
    /\ unseen \in SUBSET Resources

WorkerTypes ==
    /\ worker \in [Controllers -> WorkerType]
    /\ \A c \in Controllers :
          /\ worker[c].pc # "idle" => worker[c].key \in Watched(c)
          /\ worker[c].spec # None <=> worker[c].pc \in {"close", "connect"}

LEMMA TypeParts ==
    /\ TypeOK <=> ObjectTypes /\ CountTypes /\ WorkerTypes
    /\ TypeOK' <=> ObjectTypes' /\ CountTypes' /\ WorkerTypes'
  BY DEF TypeOK, ObjectTypes, CountTypes, WorkerTypes, WorkerType

\* Only its own controller's worker has a database.
LEMMA OneWorker ==
    ASSUME WorkerTypes, NEW r \in Databases
    PROVE  Processed(r) <=> worker["database"].pc # "idle" /\ worker["database"].key = r
  BY WatchersAssumption DEF WorkerTypes, Processed, Controllers, Watched

LEMMA OneWorkerThen ==
    ASSUME WorkerTypes', NEW r \in Databases
    PROVE  Processed(r)' <=> worker'["database"].pc # "idle" /\ worker'["database"].key = r
  BY WatchersAssumption DEF WorkerTypes, Processed, Controllers, Watched

\* A worker's next state, as a whole.
LEMMA WorkerStep ==
    ASSUME WorkerTypes, NEW c \in Controllers, NEW w \in WorkerType,
           w.pc # "idle" => w.key \in Watched(c),
           w.spec # None <=> w.pc \in {"close", "connect"},
           worker' = [worker EXCEPT ![c] = w]
    PROVE  /\ WorkerTypes'
           /\ worker'[c] = w
           /\ \A d \in Controllers \ {c} : worker'[d] = worker[d]
  <1>1. worker' \in [Controllers -> WorkerType]
    BY DEF WorkerTypes
  <1>2. worker'[c] = w /\ \A d \in Controllers \ {c} : worker'[d] = worker[d]
    BY DEF WorkerTypes
  <1> QED BY <1>1, <1>2 DEF WorkerTypes, Watched

LEMMA InitIInv == Init => IInv
  <1> SUFFICES ASSUME Init PROVE IInv
    OBVIOUS
  <1> USE WatchersAssumption DEF Init
  <1>1. ObjectTypes /\ CountTypes
    BY DEF ObjectTypes, CountTypes
  <1>2. WorkerTypes
    BY DEF WorkerTypes, WorkerType, Idle
  <1>3. Versions
    BY DEF Versions
  <1>4. \A r \in Databases : drops[r] = 0 /\ causes[r] = 0 /\ Pending(r) = 0
    BY DEF Pending, Bit, Processed, Idle, Resources
  <1>5. Accounts /\ DatabaseDropsHaveACause
    BY <1>4 DEF Accounts, DatabaseDropsHaveACause, Idle
  <1> QED BY <1>1, <1>2, <1>3, <1>5, TypeParts DEF IInv

-----------------------------------------------------------------------------
(* The API server and the queue *)

\* A write changes the object of one resource and nothing that is counted.
LEMMA WriteStep ==
    ASSUME IInv, NEW r \in Resources, NEW new \in Object \cup {None}, Write(r, new),
           new # None => new.generation <= writes + 1
    PROVE  IInv'
  <1> USE WatchersAssumption DEF Write, environment, history
  <1>1. ObjectTypes /\ CountTypes /\ WorkerTypes
    BY TypeParts DEF IInv
  <1>2. ObjectTypes'
    BY <1>1 DEF ObjectTypes
  <1>3. CountTypes'
    BY <1>1 DEF CountTypes
  <1>4. WorkerTypes'
    BY <1>1 DEF WorkerTypes
  <1>5. Versions'
    <2> SUFFICES ASSUME NEW q \in Resources, object'[q] # None
                 PROVE  object'[q].generation <= writes'
      BY DEF Versions
    <2>1. CASE q = r
      BY <2>1, <1>1 DEF ObjectTypes
    <2>2. CASE q # r
      <3>1. object'[q] = object[q] /\ object[q] \in Object
        BY <2>2, <1>1 DEF ObjectTypes
      <3>2. object[q].generation <= writes /\ object[q].generation \in Nat
        BY <3>1 DEF IInv, Versions, Object
      <3> QED BY <3>1, <3>2, <1>1 DEF CountTypes
    <2> QED BY <2>1, <2>2
  <1>6. \A q \in Databases : Pending(q)' = Pending(q)
    BY DEF Pending, Bit, Processed
  <1>7. Accounts' /\ DatabaseDropsHaveACause'
    BY <1>6 DEF IInv, Accounts, DatabaseDropsHaveACause
  <1> QED BY <1>2, <1>3, <1>4, <1>5, <1>7, TypeParts DEF IInv

LEMMA CreateStep == ASSUME IInv, NEW r \in Resources, Create(r) PROVE IInv'
  <1> DEFINE new == [generation |-> 1, spec |-> writes + 1, status |-> writes + 1]
  <1>1. writes \in Nat /\ writes < MaxWrites /\ Write(r, new)
    BY WatchersAssumption DEF Create, Write, IInv, TypeOK
  <1>2. new \in Object /\ new.generation <= writes + 1
    BY <1>1, WatchersAssumption DEF Object
  <1> HIDE DEF new
  <1> QED BY <1>1, <1>2, WriteStep

LEMMA UpdateSpecStep == ASSUME IInv, NEW r \in Resources, UpdateSpec(r) PROVE IInv'
  <1> DEFINE new == [generation |-> object[r].generation + 1, spec |-> writes + 1,
                     status |-> writes + 1]
  <1>1. writes \in Nat /\ writes < MaxWrites /\ Write(r, new)
    BY WatchersAssumption DEF UpdateSpec, Write, IInv, TypeOK
  <1>2. object[r].generation \in 1..MaxWrites /\ object[r].generation <= writes
    BY DEF UpdateSpec, IInv, TypeOK, Versions, Object
  <1>3. new \in Object /\ new.generation <= writes + 1
    BY <1>1, <1>2, WatchersAssumption DEF Object
  <1> HIDE DEF new
  <1> QED BY <1>1, <1>3, WriteStep

LEMMA UpdateStatusStep == ASSUME IInv, NEW r \in Resources, UpdateStatus(r) PROVE IInv'
  <1> DEFINE new == [object[r] EXCEPT !.status = writes + 1]
  <1>1. writes \in Nat /\ writes < MaxWrites /\ Write(r, new)
    BY WatchersAssumption DEF UpdateStatus, Write, IInv, TypeOK
  <1>2. object[r] \in Object /\ object[r].generation <= writes
    BY DEF UpdateStatus, IInv, TypeOK, Versions
  <1>3. new \in Object /\ new.generation <= writes + 1
    BY <1>1, <1>2, WatchersAssumption DEF Object
  <1> HIDE DEF new
  <1> QED BY <1>1, <1>3, WriteStep

LEMMA DeleteStep == ASSUME IInv, NEW r \in Resources, Delete(r) PROVE IInv'
  BY WriteStep DEF Delete

\* Every event that queues a database brings it a new specification.
LEMMA DeliverStep == ASSUME IInv, NEW r \in Resources, Deliver(r) PROVE IInv'
  <1> USE WatchersAssumption DEF Deliver, environment
  <1>1. ObjectTypes /\ CountTypes /\ WorkerTypes
    BY TypeParts DEF IInv
  <1>2. ObjectTypes'
    <2>1. cached' \in [Resources -> Object \cup {None}]
      BY <1>1 DEF ObjectTypes
    <2> QED BY <2>1, <1>1 DEF ObjectTypes
  <1>3. CountTypes'
    BY <1>1 DEF CountTypes
  <1>4. WorkerTypes'
    BY <1>1 DEF WorkerTypes
  <1>5. Versions'
    BY DEF IInv, Versions
  <1>6. ASSUME NEW q \in Databases
        PROVE  /\ drops'[q] = drops[q]
               /\ \/ Pending(q)' = Pending(q) /\ causes'[q] >= causes[q]
                  \/ Pending(q)' <= Pending(q) + 1 /\ causes'[q] = causes[q] + 1
    <2>1. q = r => (Reconciles(r, cached[r], object[r]) <=> NewSpec(cached[r], object[r]))
      BY DEF Reconciles, NewSpec
    <2>2. q \in Resources /\ causes[q] \in Nat
      BY <1>1 DEF CountTypes, Resources
    <2>3. Processed(q)' = Processed(q) /\ connected' = connected /\ delayed' = delayed
      BY DEF Processed
    <2>4. CASE q = r /\ NewSpec(cached[r], object[r])
      <3>1. causes'[q] = causes[q] + 1 /\ q \in queue'
        BY <2>1, <2>2, <2>4, <1>1 DEF CountTypes
      <3> QED BY <3>1, <2>3, <2>2 DEF Pending, Bit
    <2>5. CASE ~(q = r /\ NewSpec(cached[r], object[r]))
      <3>1. causes'[q] = causes[q] /\ (q \in queue' <=> q \in queue)
        BY <2>1, <2>2, <2>5, <1>1 DEF CountTypes
      <3> QED BY <3>1, <2>3, <2>2 DEF Pending, Bit
    <2> QED BY <2>4, <2>5
  <1>7. \A q \in Databases : drops[q] \in Nat /\ causes[q] \in Nat /\ causes'[q] \in Nat
                            /\ Pending(q) \in Nat /\ Pending(q)' \in Nat
    BY <1>1, <1>3 DEF CountTypes, Resources, Pending, Bit
  <1>8. Accounts' /\ DatabaseDropsHaveACause'
    BY <1>6, <1>7 DEF IInv, Accounts, DatabaseDropsHaveACause
  <1> QED BY <1>2, <1>3, <1>4, <1>5, <1>8, TypeParts DEF IInv

LEMMA RetryDueStep == ASSUME IInv, NEW r \in Resources, RetryDue(r) PROVE IInv'
  <1> USE WatchersAssumption DEF RetryDue, environment, history
  <1>1. ObjectTypes /\ CountTypes /\ WorkerTypes
    BY TypeParts DEF IInv
  <1>2. ObjectTypes' /\ CountTypes' /\ WorkerTypes'
    BY <1>1 DEF ObjectTypes, CountTypes, WorkerTypes
  <1>3. Versions'
    BY DEF IInv, Versions
  <1>4. \A q \in Databases : Pending(q)' <= Pending(q)
    BY DEF Pending, Bit, Processed
  <1>5. \A q \in Databases : drops[q] \in Nat /\ causes[q] \in Nat
                            /\ Pending(q) \in Nat /\ Pending(q)' \in Nat
    BY <1>1 DEF CountTypes, Resources, Pending, Bit
  <1>6. Accounts' /\ DatabaseDropsHaveACause'
    BY <1>4, <1>5 DEF IInv, Accounts, DatabaseDropsHaveACause
  <1> QED BY <1>2, <1>3, <1>6, TypeParts DEF IInv

\* The process forgets what was pending; causes and drops are history.
LEMMA RestartStep == ASSUME IInv, Restart PROVE IInv'
  <1> USE WatchersAssumption DEF Restart, environment, history
  <1>1. ObjectTypes /\ CountTypes /\ WorkerTypes
    BY TypeParts DEF IInv
  <1>2. ObjectTypes'
    BY <1>1 DEF ObjectTypes
  <1>3. CountTypes'
    BY <1>1 DEF CountTypes
  <1>4. WorkerTypes'
    BY DEF WorkerTypes, WorkerType, Idle
  <1>5. Versions'
    BY DEF IInv, Versions
  <1>6. \A q \in Databases : Pending(q)' = 0
    BY DEF Pending, Bit, Processed, Idle, Resources
  <1>7. \A q \in Databases : drops[q] \in Nat /\ causes[q] \in Nat /\ Pending(q) \in Nat
    BY <1>1 DEF CountTypes, Resources, Pending, Bit
  <1>8. Accounts' /\ DatabaseDropsHaveACause'
    BY <1>6, <1>7 DEF IInv, Accounts, DatabaseDropsHaveACause, Idle
  <1> QED BY <1>2, <1>3, <1>4, <1>5, <1>8, TypeParts DEF IInv

-----------------------------------------------------------------------------
(* Reconcile *)

\* What a worker's step does to the account of each database settles Accounts
\* and DatabaseDropsHaveACause.
LEMMA Settled ==
    ASSUME IInv, CountTypes',
           \A c \in Controllers : worker'[c].pc = "connect" => connected'[worker'[c].key] = None,
           \A q \in Databases :
              \/ /\ drops'[q] = drops[q] /\ causes'[q] = causes[q]
                 /\ Pending(q)' <= Pending(q)
              \/ /\ drops'[q] = drops[q] /\ causes'[q] = causes[q] + 1
                 /\ Pending(q)' <= Pending(q) + 1
              \/ /\ drops'[q] = drops[q] + 1 /\ causes'[q] = causes[q]
                 /\ Pending(q)' <= Pending(q) - 1 /\ Pending(q)' >= 1
    PROVE  Accounts' /\ DatabaseDropsHaveACause'
  <1>1. \A q \in Databases : drops[q] \in Nat /\ causes[q] \in Nat
                            /\ drops'[q] \in Nat /\ causes'[q] \in Nat
    BY TypeParts DEF IInv, CountTypes, Resources
  <1>2. \A q \in Databases : Pending(q) \in Nat /\ Pending(q)' \in Nat
    BY DEF Pending, Bit
  <1>3. \A q \in Databases : drops[q] + Pending(q) <= causes[q]
                            /\ (drops[q] = 0 \/ drops[q] < causes[q])
    BY DEF IInv, Accounts, DatabaseDropsHaveACause
  <1>4. \A q \in Databases : drops'[q] + Pending(q)' <= causes'[q]
                            /\ (drops'[q] = 0 \/ drops'[q] < causes'[q])
    BY <1>1, <1>2, <1>3
  <1> QED BY <1>4 DEF Accounts, DatabaseDropsHaveACause

\* No controller waits for the other's key to be connected.
LEMMA Apart ==
    ASSUME WorkerTypes, NEW c \in Controllers, NEW d \in Controllers, c # d,
           worker[c].pc # "idle", worker[d].pc # "idle"
    PROVE  worker[c].key # worker[d].key
  BY WatchersAssumption DEF WorkerTypes, Controllers, Watched

LEMMA TakeStep == ASSUME IInv, NEW c \in Controllers, Take(c) PROVE IInv'
  <1> USE WatchersAssumption DEF environment, history
  <1>1. ObjectTypes /\ CountTypes /\ WorkerTypes
    BY TypeParts DEF IInv
  <1>2. PICK r \in queue \cap Watched(c) :
           /\ queue' = queue \ {r}
           /\ worker' = [worker EXCEPT ![c] = [pc |-> "get", key |-> r, spec |-> None]]
    BY DEF Take
  <1>3. ObjectTypes' /\ CountTypes' /\ Versions'
    BY <1>1, <1>2 DEF Take, ObjectTypes, CountTypes, Versions, IInv
  <1> DEFINE w == [pc |-> "get", key |-> r, spec |-> None]
  <1>4. w \in WorkerType /\ w.pc = "get" /\ w.key = r /\ w.spec = None
    BY <1>1, <1>2 DEF WorkerType, ObjectTypes
  <1> HIDE DEF w
  <1>5. /\ WorkerTypes' /\ worker'[c] = w
        /\ \A d \in Controllers \ {c} : worker'[d] = worker[d]
    BY <1>1, <1>2, <1>4, WorkerStep DEF w
  <1>6. ASSUME NEW q \in Databases PROVE Pending(q)' <= Pending(q)
    <2>1. q # r => (Processed(q)' <=> Processed(q))
      BY <1>1, <1>2, <1>4, <1>5 DEF Take, Processed
    <2>2. connected' = connected /\ delayed' = delayed
      BY DEF Take
    <2> QED BY <1>2, <2>1, <2>2 DEF Pending, Bit
  <1>7. Accounts' /\ DatabaseDropsHaveACause'
    BY <1>3, <1>4, <1>5, <1>6, Settled DEF Take, IInv, Accounts
  <1> QED BY <1>3, <1>5, <1>7, TypeParts DEF IInv

\* A worker that is done leaves nothing pending but what it queued or connected.
LEMMA GoesIdle ==
    ASSUME WorkerTypes, NEW c \in Controllers, worker' = [worker EXCEPT ![c] = Idle]
    PROVE  /\ WorkerTypes'
           /\ worker'[c] = Idle
           /\ \A d \in Controllers \ {c} : worker'[d] = worker[d]
           /\ \A q \in Databases : Processed(q)' => Processed(q)
           /\ worker[c].pc # "idle" =>
                 \A q \in Databases : Processed(q)' <=> Processed(q) /\ q # worker[c].key
  <1>1. Idle \in WorkerType /\ Idle.pc = "idle" /\ Idle.spec = None
    BY DEF Idle, WorkerType
  <1> HIDE DEF Idle
  <1>2. /\ WorkerTypes' /\ worker'[c] = Idle
        /\ \A d \in Controllers \ {c} : worker'[d] = worker[d]
    BY <1>1, WorkerStep
  <1>3. \A q \in Databases : Processed(q)' => Processed(q)
    BY <1>1, <1>2 DEF Processed
  <1>4. ASSUME worker[c].pc # "idle", NEW q \in Databases
        PROVE  Processed(q)' <=> Processed(q) /\ q # worker[c].key
    BY <1>1, <1>2, <1>4, Apart DEF Processed
  <1> QED BY <1>2, <1>3, <1>4

LEMMA GetNotFoundStep == ASSUME IInv, NEW c \in Controllers, GetNotFound(c) PROVE IInv'
  <1> USE WatchersAssumption DEF GetNotFound, environment, history
  <1>1. ObjectTypes /\ CountTypes /\ WorkerTypes
    BY TypeParts DEF IInv
  <1>2. ObjectTypes' /\ CountTypes' /\ Versions'
    BY <1>1 DEF ObjectTypes, CountTypes, Versions, IInv
  <1>3. /\ WorkerTypes' /\ worker'[c].pc = "idle"
        /\ \A d \in Controllers \ {c} : worker'[d] = worker[d]
        /\ \A q \in Databases : Processed(q)' => Processed(q)
    <2>1. worker' = [worker EXCEPT ![c] = Idle]
      OBVIOUS
    <2>2. Idle.pc = "idle"
      BY DEF Idle
    <2> HIDE DEF GetNotFound
    <2> QED BY <1>1, <2>1, <2>2, GoesIdle
  <1>4. \A q \in Databases : Pending(q)' <= Pending(q)
    BY <1>3 DEF Pending, Bit
  <1>5. Accounts' /\ DatabaseDropsHaveACause'
    BY <1>2, <1>3, <1>4, Settled DEF IInv, Accounts
  <1> QED BY <1>2, <1>3, <1>5, TypeParts DEF IInv

\* A worker that goes on keeps its key.
LEMMA GoesOn ==
    ASSUME WorkerTypes, NEW c \in Controllers, worker[c].pc # "idle",
           NEW w \in WorkerType, w.pc \in {"close", "connect"}, w.key = worker[c].key,
           w.spec # None, worker' = [worker EXCEPT ![c] = w]
    PROVE  /\ WorkerTypes'
           /\ worker'[c] = w
           /\ \A d \in Controllers \ {c} : worker'[d] = worker[d]
           /\ \A q \in Databases : Processed(q)' <=> Processed(q)
  <1>1. w.key \in Watched(c)
    BY DEF WorkerTypes
  <1>2. /\ WorkerTypes' /\ worker'[c] = w
        /\ \A d \in Controllers \ {c} : worker'[d] = worker[d]
    BY <1>1, WorkerStep
  <1>3. \A q \in Databases : Processed(q)' <=> Processed(q)
    BY <1>2 DEF Processed
  <1> QED BY <1>2, <1>3

LEMMA GetStep == ASSUME IInv, NEW c \in Controllers, Get(c) PROVE IInv'
  <1> USE WatchersAssumption DEF Get, environment, history
  <1>1. ObjectTypes /\ CountTypes /\ WorkerTypes
    BY TypeParts DEF IInv
  <1>2. ObjectTypes' /\ CountTypes' /\ Versions'
    BY <1>1 DEF ObjectTypes, CountTypes, Versions, IInv
  <1> DEFINE w == [pc |-> "close", key |-> worker[c].key, spec |-> cached[worker[c].key].spec]
  <1>3. worker[c].key \in Resources /\ cached[worker[c].key] \in Object
    BY <1>1 DEF WorkerTypes, ObjectTypes, Watched, Controllers, Resources
  <1>4. w \in WorkerType /\ w.pc = "close" /\ w.key = worker[c].key /\ w.spec # None
    BY <1>3 DEF WorkerType, Object
  <1>5. worker' = [worker EXCEPT ![c] = w]
    OBVIOUS
  <1> HIDE DEF w
  <1>6. /\ WorkerTypes' /\ worker'[c].pc = "close"
        /\ \A d \in Controllers \ {c} : worker'[d] = worker[d]
        /\ \A q \in Databases : Processed(q)' <=> Processed(q)
    BY <1>1, <1>4, <1>5, GoesOn
  <1>7. \A q \in Databases : Pending(q)' = Pending(q)
    BY <1>6 DEF Pending, Bit
  <1>8. \A q \in Databases : Pending(q)' <= Pending(q)
    BY <1>7 DEF Pending, Bit
  <1>9. Accounts' /\ DatabaseDropsHaveACause'
    BY <1>2, <1>6, <1>8, Settled DEF IInv, Accounts
  <1> QED BY <1>2, <1>6, <1>9, TypeParts DEF IInv

\* A drop spends the connection; the call that drops it is still pending.
LEMMA CloseStep == ASSUME IInv, NEW c \in Controllers, Close(c) PROVE IInv'
  <1> USE WatchersAssumption DEF Close, environment
  <1>1. ObjectTypes /\ CountTypes /\ WorkerTypes
    BY TypeParts DEF IInv
  <1> DEFINE w == [worker[c] EXCEPT !.pc = "connect"]
             r == worker[c].key
  <1>2. r \in Watched(c) /\ r \in Resources /\ worker[c].spec # None /\ worker[c].pc = "close"
    BY <1>1 DEF WorkerTypes, Watched, Controllers, Resources
  <1>3. w \in WorkerType /\ w.pc = "connect" /\ w.key = r /\ w.spec # None
    BY <1>1, <1>2 DEF WorkerTypes, WorkerType
  <1>4. worker' = [worker EXCEPT ![c] = w]
    OBVIOUS
  <1> HIDE DEF w
  <1>5. /\ WorkerTypes' /\ worker'[c] = w
        /\ \A d \in Controllers \ {c} : worker'[d] = worker[d]
        /\ \A q \in Databases : Processed(q)' <=> Processed(q)
    BY <1>1, <1>2, <1>3, <1>4, GoesOn
  <1>6. connected' = [connected EXCEPT ![r] = None] /\ ObjectTypes'
    BY <1>1, <1>2 DEF ObjectTypes
  <1>7. /\ drops' = [drops EXCEPT ![r] = IF connected[r] # None THEN drops[r] + 1 ELSE drops[r]]
        /\ CountTypes'
    BY <1>1, <1>2 DEF CountTypes
  <1>8. Versions'
    BY DEF IInv, Versions
  <1>9. \A d \in Controllers : worker'[d].pc = "connect" => connected'[worker'[d].key] = None
    <2>1. connected'[r] = None /\ \A q \in Resources \ {r} : connected'[q] = connected[q]
      BY <1>1, <1>2, <1>6 DEF ObjectTypes
    <2>2. ASSUME NEW d \in Controllers \ {c}, worker[d].pc = "connect"
          PROVE  connected'[worker[d].key] = None
      <3>1. worker[d].key \in Resources /\ connected[worker[d].key] = None
        BY <1>1, <2>2 DEF WorkerTypes, Watched, Resources, Controllers, IInv, Accounts
      <3> QED BY <2>1, <3>1
    <2> QED BY <1>3, <1>5, <2>1, <2>2
  <1>10. ASSUME NEW q \in Databases
         PROVE  \/ /\ drops'[q] = drops[q] /\ causes'[q] = causes[q]
                   /\ Pending(q)' <= Pending(q)
                \/ /\ drops'[q] = drops[q] + 1 /\ causes'[q] = causes[q]
                   /\ Pending(q)' <= Pending(q) - 1 /\ Pending(q)' >= 1
    <2>1. q \in Resources /\ queue' = queue /\ delayed' = delayed /\ causes' = causes
      BY DEF Resources
    <2>2. CASE q # r \/ connected[q] = None
      <3>1. connected'[q] = connected[q] /\ drops'[q] = drops[q]
        BY <1>1, <1>2, <1>6, <1>7, <2>1, <2>2 DEF ObjectTypes, CountTypes
      <3> QED BY <1>5, <2>1, <3>1 DEF Pending, Bit
    <2>3. CASE q = r /\ connected[q] # None
      <3>1. connected'[q] = None /\ drops'[q] = drops[q] + 1
        BY <1>1, <1>2, <1>6, <1>7, <2>1, <2>3 DEF ObjectTypes, CountTypes
      <3>2. Processed(q)
        BY <1>2, <2>3 DEF Processed
      <3> QED BY <1>5, <2>1, <2>3, <3>1, <3>2 DEF Pending, Bit
    <2> QED BY <2>2, <2>3
  <1>11. Accounts' /\ DatabaseDropsHaveACause'
    BY <1>7, <1>9, <1>10, Settled
  <1> QED BY <1>5, <1>6, <1>7, <1>8, <1>11, TypeParts DEF IInv

LEMMA ConnectedStep == ASSUME IInv, NEW c \in Controllers, Connected(c) PROVE IInv'
  <1> USE WatchersAssumption DEF environment, history
  <1> DEFINE r == worker[c].key
  <1>1. ObjectTypes /\ CountTypes /\ WorkerTypes
    BY TypeParts DEF IInv
  <1>2. /\ r \in Watched(c) /\ r \in Resources
        /\ worker[c].spec \in 1..MaxWrites /\ worker[c].pc = "connect"
    BY <1>1 DEF Connected, WorkerTypes, WorkerType, Watched, Controllers, Resources
  <1>3. /\ connected' = [connected EXCEPT ![r] = worker[c].spec]
        /\ worker' = [worker EXCEPT ![c] = Idle]
        /\ ObjectTypes' /\ CountTypes' /\ Versions'
    BY <1>1, <1>2 DEF Connected, ObjectTypes, CountTypes, Versions, IInv
  <1>4. Idle.pc = "idle"
    BY DEF Idle
  <1>5. /\ WorkerTypes' /\ worker'[c] = Idle
        /\ \A d \in Controllers \ {c} : worker'[d] = worker[d]
        /\ \A q \in Databases : Processed(q)' <=> Processed(q) /\ q # r
    BY <1>1, <1>2, <1>3, GoesIdle
  <1>6. \A d \in Controllers : worker'[d].pc = "connect" => connected'[worker'[d].key] = None
    <2>1. \A q \in Resources \ {r} : connected'[q] = connected[q]
      BY <1>1, <1>2, <1>3 DEF ObjectTypes
    <2>2. ASSUME NEW d \in Controllers \ {c}, worker[d].pc = "connect"
          PROVE  connected'[worker[d].key] = None
      <3>1. worker[d].key \in Resources /\ connected[worker[d].key] = None
        BY <1>1, <2>2 DEF WorkerTypes, Watched, Resources, Controllers, IInv, Accounts
      <3>2. worker[d].key # r
        BY <1>1, <1>2, <2>2, Apart
      <3> QED BY <2>1, <3>1, <3>2
    <2> QED BY <1>4, <1>5, <2>2
  <1>7. ASSUME NEW q \in Databases
        PROVE  drops'[q] = drops[q] /\ causes'[q] = causes[q] /\ Pending(q)' <= Pending(q)
    <2>1. q \in Resources /\ queue' = queue /\ delayed' = delayed
      BY DEF Connected, Resources
    <2>2. drops' = drops /\ causes' = causes
      BY DEF Connected
    <2>3. CASE q = r
      <3>1. Processed(q)
        BY <1>2, <2>3 DEF Processed
      <3> QED BY <1>5, <2>1, <2>2, <2>3, <3>1 DEF Pending, Bit
    <2>4. CASE q # r
      <3>1. connected'[q] = connected[q]
        BY <1>1, <1>2, <1>3, <2>1, <2>4 DEF ObjectTypes
      <3> QED BY <1>5, <2>1, <2>2, <3>1 DEF Pending, Bit
    <2> QED BY <2>3, <2>4
  <1>8. Accounts' /\ DatabaseDropsHaveACause'
    BY <1>3, <1>6, <1>7, Settled
  <1> QED BY <1>3, <1>5, <1>8, TypeParts DEF IInv

LEMMA ConnectFailsStep == ASSUME IInv, NEW c \in Controllers, ConnectFails(c) PROVE IInv'
  <1> USE WatchersAssumption DEF environment
  <1> DEFINE r == worker[c].key
  <1>1. ObjectTypes /\ CountTypes /\ WorkerTypes
    BY TypeParts DEF IInv
  <1>2. r \in Resources /\ worker[c].pc = "connect"
    BY <1>1 DEF ConnectFails, WorkerTypes, WorkerType, Watched, Controllers, Resources
  <1>3. ObjectTypes' /\ Versions'
    BY <1>1, <1>2 DEF ConnectFails, ObjectTypes, Versions, IInv
  <1>4. causes' = [causes EXCEPT ![r] = causes[r] + 1] /\ CountTypes'
    BY <1>1, <1>2 DEF ConnectFails, CountTypes
  <1>5. worker' = [worker EXCEPT ![c] = Idle] /\ Idle.pc = "idle"
    BY DEF ConnectFails, Idle
  <1>6. /\ WorkerTypes' /\ worker'[c] = Idle
        /\ \A d \in Controllers \ {c} : worker'[d] = worker[d]
        /\ \A q \in Databases : Processed(q)' => Processed(q)
    BY <1>1, <1>5, GoesIdle
  <1>7. connected' = connected /\ queue' = queue /\ drops' = drops
    BY DEF ConnectFails
  <1>8. \A d \in Controllers : worker'[d].pc = "connect" => connected'[worker'[d].key] = None
    BY <1>5, <1>6, <1>7 DEF IInv, Accounts
  <1>9. ASSUME NEW q \in Databases
        PROVE  /\ drops'[q] = drops[q]
               /\ \/ causes'[q] = causes[q] /\ Pending(q)' <= Pending(q)
                  \/ causes'[q] = causes[q] + 1 /\ Pending(q)' <= Pending(q) + 1
    <2>1. q \in Resources /\ delayed' = delayed \cup {r}
      BY DEF ConnectFails, Resources
    <2>2. CASE q = r
      <3>1. causes'[q] = causes[q] + 1
        BY <1>1, <1>2, <1>4, <2>2 DEF CountTypes
      <3> QED BY <1>6, <1>7, <3>1 DEF Pending, Bit
    <2>3. CASE q # r
      <3>1. causes'[q] = causes[q]
        BY <1>1, <1>2, <1>4, <2>1, <2>3 DEF CountTypes
      <3> QED BY <1>6, <1>7, <2>1, <2>3, <3>1 DEF Pending, Bit
    <2> QED BY <2>2, <2>3
  <1>10. Accounts' /\ DatabaseDropsHaveACause'
    BY <1>4, <1>8, <1>9, Settled
  <1> QED BY <1>3, <1>4, <1>6, <1>10, TypeParts DEF IInv

-----------------------------------------------------------------------------

LEMMA StepInv == IInv /\ [Next]_vars => IInv'
  <1> SUFFICES ASSUME IInv, [Next]_vars PROVE IInv'
    OBVIOUS
  <1>1. ASSUME NEW r \in Resources,
               Create(r) \/ UpdateSpec(r) \/ UpdateStatus(r) \/ Delete(r) \/ Deliver(r) \/ RetryDue(r)
        PROVE  IInv'
    BY <1>1, CreateStep, UpdateSpecStep, UpdateStatusStep, DeleteStep, DeliverStep, RetryDueStep
  <1>2. ASSUME NEW c \in Controllers, Reconcile(c) PROVE IInv'
    BY <1>2, TakeStep, GetNotFoundStep, GetStep, CloseStep, ConnectedStep, ConnectFailsStep
       DEF Reconcile
  <1>3. CASE UNCHANGED vars
    <2>1. TypeOK' /\ Versions' /\ DatabaseDropsHaveACause'
      BY <1>3 DEF vars, environment, history, IInv, TypeOK, Versions, DatabaseDropsHaveACause
    <2>2. \A q \in Databases : Pending(q)' = Pending(q)
      BY <1>3 DEF vars, Pending, Bit, Processed
    <2> QED BY <1>3, <2>1, <2>2 DEF vars, history, IInv, Accounts
  <1> QED BY <1>1, <1>2, <1>3, RestartStep DEF Next

\* Whatever the environment does, the inductive invariant holds in every state.
THEOREM Invariance == Spec => []IInv
  BY InitIInv, StepInv, PTL DEF Spec

\* Every variable keeps its type: a worker only ever has a key of its own
\* controller, and knows a specification exactly while it calls Connect.
THEOREM TypeCorrect == Spec => []TypeOK
  <1>1. IInv => TypeOK
    BY DEF IInv
  <1> QED BY <1>1, Invariance, PTL

\* After the first connection to a database, Connect drops a working one at
\* most once for each new specification and each failed call.
THEOREM DropsHaveACause == Spec => []DatabaseDropsHaveACause
  <1>1. IInv => DatabaseDropsHaveACause
    BY DEF IInv
  <1> QED BY <1>1, Invariance, PTL

=============================================================================
