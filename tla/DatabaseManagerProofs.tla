----------------------- MODULE DatabaseManagerProofs -----------------------
(***************************************************************************)
(* The safety properties of DatabaseManager, for every number of           *)
(* databases, pools and goroutines, and that it implements the steps of    *)
(* SensorDatabases.                                                        *)
(***************************************************************************)
EXTENDS DatabaseManagerRefinement, TLAPS

Inside == {"disconnect", "close", "dsn", "open", "ping", "migrate", "install"}
Alone  == {"dsn", "open", "ping", "migrate", "install"}

\* Who holds the lock, in terms of where each goroutine is.
LockInv ==
    /\ \A w \in Reconcilers : job[w].pc \in Inside <=> mu.writer = {w}
    /\ \A w \in Reconcilers : job[w].pc \in Alone => mu.readers = {}
    /\ \A s \in Storers : store[s].pc = "route" => s \in mu.readers \cup mu.waiting
    /\ \A s \in Storers : store[s].pc = "write" => s \in mu.readers
    /\ \A q \in Queriers : query[q].pc = "get" => q \in mu.readers \cup mu.waiting

\* What Connect has built so far.
JobInv ==
    \A w \in Reconcilers :
        /\ job[w].pc # "idle" => job[w].key \in Keys
        /\ job[w].pc \in Alone \cup {"close"} => job[w].types \in Specs
        /\ job[w].pc \in Alone => ~Installed(job[w].key)
        /\ job[w].pc \in {"ping", "migrate", "install"} =>
              /\ job[w].pool \in Pools
              /\ \A k \in Keys : Installed(k) => connections[k].pool # job[w].pool
        /\ job[w].pc \in {"ping", "migrate"} => pools[job[w].pool] = "open"
        /\ job[w].pc = "install" => pools[job[w].pool] = "ready"

QueryHasPool == \A q \in Queriers : query[q].pc = "query" => query[q].pool \in Pools

\* The inductive invariant.
IInv ==
    /\ TypeOK
    /\ LockInv
    /\ JobInv
    /\ QueryHasPool
    /\ InstalledPoolsReady
    /\ WritesGoToInstalledPool
    /\ AnswersComeFromInstalledPool
    /\ MigratedPoolsAreInstalled

-----------------------------------------------------------------------------

LEMMA InitIInv == Init => IInv
  <1> SUFFICES ASSUME Init PROVE IInv
    OBVIOUS
  <1> USE ConstantsAssumption DEF Init
  <1>1. TypeOK
    BY DEF TypeOK, MutexType, Unlocked, NoJob, JobPc, StorePc, QueryPc, StoreResult, QueryResult
  <1>2. LockInv
    <2>1. \A w \in Reconcilers : job[w].pc = "idle" /\ mu.writer # {w}
      BY DEF Unlocked, NoJob
    <2>2. \A s \in Storers : store[s].pc = "idle"
      OBVIOUS
    <2>3. \A q \in Queriers : query[q].pc = "idle"
      OBVIOUS
    <2> QED BY <2>1, <2>2, <2>3 DEF LockInv, Inside, Alone
  <1>3. JobInv /\ QueryHasPool
    BY DEF JobInv, NoJob, Alone, QueryHasPool
  <1>4. InstalledPoolsReady /\ WritesGoToInstalledPool
    BY DEF InstalledPoolsReady, WritesGoToInstalledPool, Installed
  <1>5. AnswersComeFromInstalledPool /\ MigratedPoolsAreInstalled
    BY DEF AnswersComeFromInstalledPool, MigratedPoolsAreInstalled
  <1> QED BY <1>1, <1>2, <1>3, <1>4, <1>5 DEF IInv

JobType == [pc : JobPc, key : Keys \cup {None}, types : Specs \cup {None},
            pool : Pools \cup {None}]

\* One reconciler's program counter moves and nothing else of its job.
JobMoves(w, pc) ==
    /\ job' \in [Reconcilers -> JobType]
    /\ job'[w].pc = pc
    /\ \A v \in Reconcilers \ {w} : job'[v] = job[v]
    /\ job'[w].key = job[w].key /\ job'[w].types = job[w].types /\ job'[w].pool = job[w].pool

LEMMA MoveJob ==
    ASSUME TypeOK, NEW w \in Reconcilers, NEW pc \in JobPc, job' = [job EXCEPT ![w].pc = pc]
    PROVE  JobMoves(w, pc)
  <1>1. job \in [Reconcilers -> JobType]
    BY DEF TypeOK, JobType
  <1>2. job'[w] = [job[w] EXCEPT !.pc = pc] /\ \A v \in Reconcilers \ {w} : job'[v] = job[v]
    BY <1>1
  <1>3. /\ job'[w] \in JobType /\ job'[w].pc = pc
        /\ job'[w].key = job[w].key /\ job'[w].types = job[w].types /\ job'[w].pool = job[w].pool
    BY <1>1, <1>2 DEF JobType
  <1>4. job' \in [Reconcilers -> JobType]
    BY <1>1, <1>2, <1>3
  <1> QED BY <1>2, <1>3, <1>4 DEF JobMoves

\* A goroutine inside the critical section is alone in it, and no handler writes.
LEMMA OnlyWriter ==
    ASSUME IInv, NEW w \in Reconcilers, job[w].pc \in Inside
    PROVE  /\ mu.writer = {w}
           /\ \A v \in Reconcilers \ {w} : job[v].pc \notin Inside
           /\ mu.readers = {} => \A s \in Storers : store[s].pc # "write"
  BY DEF IInv, LockInv

\* What depends only on the map, the pools and the callers survives the steps
\* that change none of them.
LEMMA UsersUnaffected ==
    ASSUME IInv, UNCHANGED <<connections, pools, store, query>>
    PROVE  /\ QueryHasPool' /\ InstalledPoolsReady'
           /\ WritesGoToInstalledPool' /\ AnswersComeFromInstalledPool'
  BY DEF IInv, QueryHasPool, InstalledPoolsReady, WritesGoToInstalledPool,
         AnswersComeFromInstalledPool, Installed, Supporting

LEMMA RegistryUnaffected ==
    ASSUME IInv, UNCHANGED <<connections, pools, job>>
    PROVE  JobInv' /\ InstalledPoolsReady' /\ MigratedPoolsAreInstalled'
  BY DEF IInv, JobInv, InstalledPoolsReady, MigratedPoolsAreInstalled, Installed, Alone

\* What the deferred unlock of a writer that is alone leaves behind.
LEMMA ReturnEffect ==
    ASSUME IInv, NEW w \in Reconcilers, job[w].pc \in Inside, mu.readers = {}, Return(w),
           UNCHANGED <<store, query>>
    PROVE  /\ mu' \in MutexType(Reconcilers, Readers)
           /\ job' \in [Reconcilers -> JobType]
           /\ job'[w] = NoJob
           /\ \A v \in Reconcilers \ {w} : job'[v] = job[v] /\ job'[v].pc \notin Inside
           /\ LockInv'
  <1>1. /\ mu'.writer = {} /\ mu'.readers = mu.waiting /\ mu'.waiting = {}
        /\ mu' \in MutexType(Reconcilers, Readers)
    BY DEF Return, Unlock, MutexType, IInv, TypeOK
  <1>2. /\ job' \in [Reconcilers -> JobType] /\ job'[w] = NoJob
        /\ \A v \in Reconcilers \ {w} : job'[v] = job[v]
    <2>1. job \in [Reconcilers -> JobType] /\ NoJob \in JobType
      BY DEF IInv, TypeOK, JobType, NoJob, JobPc
    <2>2. job' = [job EXCEPT ![w] = NoJob]
      BY DEF Return
    <2> QED BY <2>1, <2>2
  <1>3. \A v \in Reconcilers \ {w} : job'[v] = job[v] /\ job'[v].pc \notin Inside
    BY <1>2, OnlyWriter
  <1>4. job'[w].pc = "idle"
    BY <1>2 DEF NoJob
  <1>5. LockInv'
    BY <1>1, <1>3, <1>4, OnlyWriter DEF IInv, LockInv, Inside, Alone
  <1> QED BY <1>1, <1>2, <1>3, <1>5

\* What CloseExisting, run alone, leaves true.
LEMMA CloseEffect ==
    ASSUME IInv, NEW w \in Reconcilers, job[w].pc \in {"close", "disconnect"}, mu.readers = {},
           CloseExisting(job[w].key),
           \A v \in Reconcilers \ {w} : job'[v] = job[v],
           UNCHANGED <<store, query>>
    PROVE  /\ connections' \in [Keys -> Connection \cup {None}]
           /\ pools' \in [Pools -> {"closed", "open", "ready"}]
           /\ connections'[job[w].key] = None
           /\ InstalledPoolsReady' /\ WritesGoToInstalledPool' /\ QueryHasPool'
           /\ AnswersComeFromInstalledPool' /\ MigratedPoolsAreInstalled'
  <1> DEFINE k == job[w].key
  <1>0. /\ k \in Keys
        /\ connections \in [Keys -> Connection \cup {None}]
        /\ pools \in [Pools -> {"closed", "open", "ready"}]
        /\ \A j \in Keys : Installed(j) => connections[j].pool \in Pools
        /\ job[w].pc \in Inside /\ job[w].pc # "install"
    BY DEF IInv, TypeOK, JobInv, Installed, Connection, Inside
  <1>1. /\ connections' \in [Keys -> Connection \cup {None}]
        /\ connections'[k] = None
        /\ \A j \in Keys \ {k} : connections'[j] = connections[j]
    BY <1>0 DEF CloseExisting
  <1>2. /\ pools' \in [Pools -> {"closed", "open", "ready"}]
        /\ \A p \in Pools : pools'[p] = IF Installed(k) /\ connections[k].pool = p
                                        THEN "closed" ELSE pools[p]
    BY <1>0 DEF CloseExisting
  <1> HIDE DEF k
  <1>3. InstalledPoolsReady'
    BY <1>0, <1>1, <1>2 DEF IInv, InstalledPoolsReady, Installed
  <1>4. WritesGoToInstalledPool' /\ QueryHasPool'
    BY <1>0, OnlyWriter DEF IInv, WritesGoToInstalledPool, QueryHasPool
  <1>5. AnswersComeFromInstalledPool'
    BY <1>0, <1>1, <1>2 DEF IInv, AnswersComeFromInstalledPool, QueryHasPool, Installed, Supporting
  <1>6. MigratedPoolsAreInstalled'
    BY <1>0, <1>1, <1>2, OnlyWriter DEF IInv, MigratedPoolsAreInstalled, Installed, Inside
  <1> QED BY <1>1, <1>2, <1>3, <1>4, <1>5, <1>6 DEF k

-----------------------------------------------------------------------------

LEMMA CallStep ==
    ASSUME IInv, NEW w \in Reconcilers, CallConnect(w) \/ CallDisconnect(w)
    PROVE  IInv'
  <1> PICK k \in Keys, ts \in Specs \cup {None} :
         job' = [job EXCEPT ![w] = [pc |-> "lock", key |-> k, types |-> ts, pool |-> None]]
    BY DEF CallConnect, CallDisconnect
  <1> USE DEF IInv
  <1>a. job[w].pc = "idle" /\ UNCHANGED <<mu, connections, pools, store, query>>
    BY DEF CallConnect, CallDisconnect
  <1>1. TypeOK'
    BY <1>a DEF TypeOK, JobPc
  <1>2. LockInv'
    BY <1>a DEF LockInv, TypeOK, Inside, Alone
  <1>3. JobInv'
    BY <1>a DEF JobInv, TypeOK, Alone, Installed
  <1>4. MigratedPoolsAreInstalled'
    BY <1>a DEF MigratedPoolsAreInstalled, Installed, TypeOK
  <1> QED BY <1>a, <1>1, <1>2, <1>3, <1>4, UsersUnaffected

LEMMA LockStep ==
    ASSUME IInv, NEW w \in Reconcilers, Lock(w)
    PROVE  IInv'
  <1> USE DEF IInv
  <1> DEFINE pc == IF job[w].types = None THEN "disconnect" ELSE "close"
  <1>a. /\ mu.writer = {} /\ mu'.writer = {w}
        /\ mu'.readers = mu.readers /\ mu'.waiting = mu.waiting
        /\ mu' \in MutexType(Reconcilers, Readers)
    BY DEF Lock, Announce, CanAnnounce, TypeOK, MutexType
  <1>b. /\ pc \in {"disconnect", "close"} /\ pc \in JobPc
        /\ job' = [job EXCEPT ![w].pc = pc]
        /\ pc = "close" => job[w].types \in Specs
        /\ job[w].pc = "lock"
        /\ UNCHANGED <<connections, pools, store, query>>
    BY DEF Lock, TypeOK, JobPc, JobType
  <1> HIDE DEF pc
  <1>c. JobMoves(w, pc)
    BY <1>b, MoveJob
  <1> USE DEF JobMoves
  <1>1. TypeOK'
    BY <1>a, <1>b, <1>c DEF TypeOK, JobType
  <1>2. LockInv'
    BY <1>a, <1>b, <1>c DEF LockInv, Inside, Alone
  <1>3. JobInv'
    BY <1>b, <1>c DEF JobInv, Alone, Installed
  <1>4. MigratedPoolsAreInstalled'
    BY <1>b, <1>c DEF MigratedPoolsAreInstalled, Installed
  <1> QED BY <1>b, <1>1, <1>2, <1>3, <1>4, UsersUnaffected

LEMMA DisconnectStep ==
    ASSUME IInv, NEW w \in Reconcilers, Disconnect(w)
    PROVE  IInv'
  <1>a. /\ job[w].pc = "disconnect" /\ job[w].pc \in Inside
        /\ mu.readers = {} /\ CloseExisting(job[w].key) /\ Return(w)
        /\ UNCHANGED <<store, query>>
    BY DEF Disconnect, Exclusive, Inside
  <1>b. /\ mu' \in MutexType(Reconcilers, Readers) /\ job' \in [Reconcilers -> JobType]
        /\ job'[w] = NoJob
        /\ \A v \in Reconcilers \ {w} : job'[v] = job[v] /\ job'[v].pc \notin Inside
        /\ LockInv'
    BY <1>a, ReturnEffect
  <1>c. /\ connections' \in [Keys -> Connection \cup {None}]
        /\ pools' \in [Pools -> {"closed", "open", "ready"}]
        /\ InstalledPoolsReady' /\ WritesGoToInstalledPool' /\ QueryHasPool'
        /\ AnswersComeFromInstalledPool' /\ MigratedPoolsAreInstalled'
    BY <1>a, <1>b, CloseEffect
  <1>1. TypeOK'
    BY <1>a, <1>b, <1>c DEF IInv, TypeOK, JobType
  <1>2. JobInv'
    BY <1>b DEF IInv, JobInv, Alone, Inside, NoJob
  <1> QED BY <1>b, <1>c, <1>1, <1>2 DEF IInv

LEMMA CloseStep ==
    ASSUME IInv, NEW w \in Reconcilers, Close(w)
    PROVE  IInv'
  <1> USE DEF IInv
  <1>a. /\ job[w].pc = "close" /\ job[w].pc \in Inside /\ "dsn" \in JobPc
        /\ mu.readers = {} /\ CloseExisting(job[w].key)
        /\ job' = [job EXCEPT ![w].pc = "dsn"]
        /\ UNCHANGED <<mu, store, query>>
    BY DEF Close, Exclusive, Inside, JobPc
  <1>b. JobMoves(w, "dsn")
    BY <1>a, MoveJob
  <1> USE DEF JobMoves
  <1>c. /\ connections' \in [Keys -> Connection \cup {None}]
        /\ pools' \in [Pools -> {"closed", "open", "ready"}]
        /\ connections'[job[w].key] = None
        /\ InstalledPoolsReady' /\ WritesGoToInstalledPool' /\ QueryHasPool'
        /\ AnswersComeFromInstalledPool' /\ MigratedPoolsAreInstalled'
    BY <1>a, <1>b, CloseEffect
  <1>d. \A v \in Reconcilers \ {w} : job[v].pc \notin Inside
    BY <1>a, OnlyWriter
  <1>1. TypeOK'
    BY <1>a, <1>b, <1>c DEF TypeOK, JobType
  <1>2. LockInv'
    BY <1>a, <1>b, <1>d, OnlyWriter DEF LockInv, Inside, Alone
  <1>3. JobInv'
    BY <1>a, <1>b, <1>c, <1>d DEF JobInv, Alone, Inside, Installed
  <1> QED BY <1>c, <1>1, <1>2, <1>3

LEMMA BuildDSNStep ==
    ASSUME IInv, NEW w \in Reconcilers, BuildDSN(w)
    PROVE  IInv'
  <1> USE DEF IInv
  <1>a. /\ job[w].pc = "dsn" /\ "open" \in JobPc
        /\ job' = [job EXCEPT ![w].pc = "open"]
        /\ UNCHANGED <<mu, connections, pools, store, query>>
    BY DEF BuildDSN, JobPc
  <1>b. JobMoves(w, "open")
    BY <1>a, MoveJob
  <1> USE DEF JobMoves
  <1>1. TypeOK'
    BY <1>a, <1>b DEF TypeOK, JobType
  <1>2. LockInv'
    BY <1>a, <1>b DEF LockInv, Inside, Alone
  <1>3. JobInv'
    BY <1>a, <1>b DEF JobInv, Alone, Installed
  <1>4. MigratedPoolsAreInstalled'
    BY <1>a, <1>b DEF MigratedPoolsAreInstalled, Installed
  <1> QED BY <1>a, <1>1, <1>2, <1>3, <1>4, UsersUnaffected


LEMMA OpenStep ==
    ASSUME IInv, NEW w \in Reconcilers, Open(w)
    PROVE  IInv'
  <1> USE DEF IInv
  <1> PICK p \in Pools :
         /\ pools[p] = "closed" /\ ~Referenced(p)
         /\ pools' = [pools EXCEPT ![p] = "open"]
         /\ job' = [job EXCEPT ![w] = [pc |-> "ping", key |-> job[w].key,
                                       types |-> job[w].types, pool |-> p]]
    BY DEF Open
  <1>a. job[w].pc = "open" /\ UNCHANGED <<mu, connections, store, query>>
    BY DEF Open
  <1>b. /\ job' \in [Reconcilers -> JobType]
        /\ job'[w].pc = "ping" /\ job'[w].pool = p
        /\ job'[w].key = job[w].key /\ job'[w].types = job[w].types
        /\ \A v \in Reconcilers \ {w} : job'[v] = job[v]
    <2>1. job \in [Reconcilers -> JobType]
      BY DEF TypeOK, JobType
    <2>2. [pc |-> "ping", key |-> job[w].key, types |-> job[w].types, pool |-> p] \in JobType
      BY <2>1 DEF JobType, JobPc
    <2> QED BY <2>1, <2>2
  <1>c. /\ pools' \in [Pools -> {"closed", "open", "ready"}]
        /\ pools'[p] = "open"
        /\ \A o \in Pools \ {p} : pools'[o] = pools[o]
    BY DEF TypeOK
  <1>d. \A v \in Reconcilers \ {w} : job[v].pc \notin Inside
    BY <1>a, OnlyWriter DEF Inside
  <1>e. /\ \A k \in Keys : Installed(k) => connections[k].pool \in Pools \ {p}
        /\ \A s \in Storers : store[s].pool # p
        /\ \A q \in Queriers : query[q].pool # p
    BY DEF TypeOK, Installed, Connection, Referenced
  <1>1. TypeOK'
    BY <1>a, <1>b, <1>c DEF TypeOK, JobType
  <1>2. LockInv'
    BY <1>a, <1>b DEF LockInv, Inside, Alone
  <1>3. JobInv'
    BY <1>a, <1>b, <1>c, <1>d, <1>e DEF JobInv, Alone, Inside, Installed
  <1>4. InstalledPoolsReady'
    BY <1>a, <1>c, <1>e DEF InstalledPoolsReady, Installed
  <1>5. WritesGoToInstalledPool'
    BY <1>a, <1>c, <1>e DEF WritesGoToInstalledPool, Installed, Supporting
  <1>6. AnswersComeFromInstalledPool' /\ QueryHasPool'
    BY <1>a, <1>c, <1>e DEF AnswersComeFromInstalledPool, QueryHasPool, Installed, Supporting
  <1>7. MigratedPoolsAreInstalled'
    BY <1>a, <1>b, <1>c DEF MigratedPoolsAreInstalled, Installed
  <1> QED BY <1>1, <1>2, <1>3, <1>4, <1>5, <1>6, <1>7

LEMMA PingStep ==
    ASSUME IInv, NEW w \in Reconcilers, Ping(w)
    PROVE  IInv'
  <1> USE DEF IInv
  <1>a. /\ job[w].pc = "ping" /\ "migrate" \in JobPc
        /\ job' = [job EXCEPT ![w].pc = "migrate"]
        /\ UNCHANGED <<mu, connections, pools, store, query>>
    BY DEF Ping, JobPc
  <1>b. JobMoves(w, "migrate")
    BY <1>a, MoveJob
  <1> USE DEF JobMoves
  <1>1. TypeOK'
    BY <1>a, <1>b DEF TypeOK, JobType
  <1>2. LockInv'
    BY <1>a, <1>b DEF LockInv, Inside, Alone
  <1>3. JobInv'
    BY <1>a, <1>b DEF JobInv, Alone, Installed
  <1>4. MigratedPoolsAreInstalled'
    BY <1>a, <1>b DEF MigratedPoolsAreInstalled, Installed
  <1> QED BY <1>a, <1>1, <1>2, <1>3, <1>4, UsersUnaffected

LEMMA MigrateStep ==
    ASSUME IInv, NEW w \in Reconcilers, Migrate(w)
    PROVE  IInv'
  <1> USE DEF IInv
  <1> DEFINE p == job[w].pool
  <1>a. /\ job[w].pc = "migrate" /\ "install" \in JobPc
        /\ job' = [job EXCEPT ![w].pc = "install"]
        /\ pools' = [pools EXCEPT ![p] = "ready"]
        /\ UNCHANGED <<mu, connections, store, query>>
    BY DEF Migrate, JobPc
  <1>b. JobMoves(w, "install")
    BY <1>a, MoveJob
  <1> USE DEF JobMoves
  <1>c. /\ p \in Pools /\ pools[p] = "open"
        /\ \A k \in Keys : Installed(k) => connections[k].pool \in Pools \ {p}
    BY <1>a DEF TypeOK, JobInv, Installed, Connection
  <1>d. /\ pools' \in [Pools -> {"closed", "open", "ready"}]
        /\ pools'[p] = "ready"
        /\ \A o \in Pools \ {p} : pools'[o] = pools[o]
    BY <1>a, <1>c DEF TypeOK
  <1>e. \A v \in Reconcilers \ {w} : job[v].pc \notin Inside
    BY <1>a, OnlyWriter DEF Inside
  <1> HIDE DEF p
  <1>1. TypeOK'
    BY <1>a, <1>b, <1>d DEF TypeOK, JobType
  <1>2. LockInv'
    BY <1>a, <1>b DEF LockInv, Inside, Alone
  <1>3. JobInv'
    BY <1>a, <1>b, <1>d, <1>e DEF JobInv, Alone, Inside, Installed, p
  <1>4. InstalledPoolsReady'
    BY <1>a, <1>c, <1>d DEF InstalledPoolsReady, Installed
  <1>5. WritesGoToInstalledPool'
    BY <1>a, <1>c, <1>d DEF WritesGoToInstalledPool, Installed, Supporting
  <1>6. AnswersComeFromInstalledPool' /\ QueryHasPool'
    BY <1>a, <1>c, <1>d DEF AnswersComeFromInstalledPool, QueryHasPool, Installed, Supporting
  <1>7. MigratedPoolsAreInstalled'
    BY <1>a, <1>b, <1>d, <1>e DEF MigratedPoolsAreInstalled, Installed, Inside, p
  <1> QED BY <1>1, <1>2, <1>3, <1>4, <1>5, <1>6, <1>7

LEMMA ConnectFailsStep ==
    ASSUME IInv, NEW w \in Reconcilers, ConnectFails(w)
    PROVE  IInv'
  <1> USE DEF IInv
  <1>a. /\ job[w].pc \in {"dsn", "open", "ping", "migrate"} /\ job[w].pc \in Inside
        /\ mu.readers = {} /\ Return(w)
        /\ UNCHANGED <<connections, pools, store, query>>
    BY DEF ConnectFails, LockInv, Alone, Inside
  <1>b. /\ mu' \in MutexType(Reconcilers, Readers) /\ job' \in [Reconcilers -> JobType]
        /\ job'[w] = NoJob
        /\ \A v \in Reconcilers \ {w} : job'[v] = job[v] /\ job'[v].pc \notin Inside
        /\ LockInv'
    BY <1>a, ReturnEffect
  <1>1. TypeOK'
    BY <1>a, <1>b DEF TypeOK, JobType
  <1>2. JobInv'
    BY <1>b DEF JobInv, Alone, Inside, NoJob
  <1>3. MigratedPoolsAreInstalled'
    BY <1>a, <1>b DEF MigratedPoolsAreInstalled, Installed
  <1> QED BY <1>a, <1>b, <1>1, <1>2, <1>3, UsersUnaffected

LEMMA InstallStep ==
    ASSUME IInv, NEW w \in Reconcilers, Install(w)
    PROVE  IInv'
  <1> USE DEF IInv
  <1> DEFINE k == job[w].key
             p == job[w].pool
  <1>a. /\ job[w].pc = "install" /\ job[w].pc \in Inside
        /\ mu.readers = {} /\ Return(w)
        /\ connections' = [connections EXCEPT ![k] = [types |-> job[w].types, pool |-> p]]
        /\ UNCHANGED <<pools, store, query>>
    BY DEF Install, LockInv, Alone, Inside
  <1>b. /\ mu' \in MutexType(Reconcilers, Readers) /\ job' \in [Reconcilers -> JobType]
        /\ job'[w] = NoJob
        /\ \A v \in Reconcilers \ {w} : job'[v] = job[v] /\ job'[v].pc \notin Inside
        /\ LockInv'
    BY <1>a, ReturnEffect
  <1>c. /\ k \in Keys /\ p \in Pools /\ job[w].types \in Specs /\ ~Installed(k)
        /\ pools[p] = "ready"
        /\ \A j \in Keys : Installed(j) => connections[j].pool # p
    BY <1>a DEF JobInv, Alone
  <1>d. /\ connections' \in [Keys -> Connection \cup {None}]
        /\ connections'[k].pool = p /\ connections'[k] # None
        /\ \A j \in Keys \ {k} : connections'[j] = connections[j]
    BY <1>a, <1>c, ConstantsAssumption DEF TypeOK, Connection, ConstantsAssumption
  <1> HIDE DEF k, p
  <1>1. TypeOK'
    BY <1>a, <1>b, <1>d DEF TypeOK, JobType
  <1>2. JobInv'
    BY <1>b DEF JobInv, Alone, Inside, NoJob
  <1>3. InstalledPoolsReady'
    BY <1>a, <1>c, <1>d DEF InstalledPoolsReady, Installed
  <1>4. WritesGoToInstalledPool' /\ QueryHasPool'
    BY <1>a, OnlyWriter DEF WritesGoToInstalledPool, QueryHasPool
  <1>5. AnswersComeFromInstalledPool'
    BY <1>a, <1>c, <1>d DEF AnswersComeFromInstalledPool, Installed, Supporting
  <1>6. MigratedPoolsAreInstalled'
    <2> SUFFICES ASSUME NEW o \in Pools, pools[o] = "ready"
                 PROVE  \E j \in Keys : Installed(j)' /\ connections'[j].pool = o
      BY <1>a DEF MigratedPoolsAreInstalled
    <2>1. CASE o = p
      BY <2>1, <1>c, <1>d DEF Installed
    <2>2. CASE o # p
      <3>1. ~\E v \in Reconcilers : job[v].pc = "install" /\ job[v].pool = o
        BY <2>2, <1>b DEF Inside, p
      <3>2. PICK j \in Keys : Installed(j) /\ connections[j].pool = o
        BY <3>1 DEF MigratedPoolsAreInstalled
      <3> QED BY <3>2, <1>c, <1>d DEF Installed
    <2> QED BY <2>1, <2>2
  <1> QED BY <1>b, <1>1, <1>2, <1>3, <1>4, <1>5, <1>6

-----------------------------------------------------------------------------

\* RLock and RUnlock only move the goroutine that calls them.
LEMMA RLockEffect ==
    ASSUME mu \in MutexType(Reconcilers, Readers), NEW r \in Readers, mu' = RLock(mu, r)
    PROVE  /\ mu' \in MutexType(Reconcilers, Readers) /\ mu'.writer = mu.writer
           /\ r \in mu'.readers \cup mu'.waiting
           /\ \A o \in Readers \ {r} : /\ o \in mu.readers <=> o \in mu'.readers
                                       /\ o \in mu.waiting <=> o \in mu'.waiting
           /\ mu.writer # {} => mu'.readers = mu.readers
  BY DEF MutexType, RLock

LEMMA RUnlockEffect ==
    ASSUME mu \in MutexType(Reconcilers, Readers), NEW r \in Readers, mu' = RUnlock(mu, r)
    PROVE  /\ mu' \in MutexType(Reconcilers, Readers) /\ mu'.writer = mu.writer
           /\ \A o \in Readers \ {r} : /\ o \in mu.readers <=> o \in mu'.readers
                                       /\ o \in mu.waiting <=> o \in mu'.waiting
           /\ mu'.readers = mu.readers \ {r}
  BY DEF MutexType, RUnlock

\* The registry does not change while a caller moves: what is left to show is
\* the caller's own part.
LEMMA StorerPart ==
    ASSUME IInv, NEW s \in Storers, UNCHANGED <<connections, pools, job, query>>,
           mu' \in MutexType(Reconcilers, Readers), mu'.writer = mu.writer,
           \A r \in Readers \ {s} : /\ r \in mu.readers <=> r \in mu'.readers
                                    /\ r \in mu.waiting <=> r \in mu'.waiting,
           \A v \in Reconcilers : mu.writer = {v} => mu'.readers \subseteq mu.readers,
           NEW rec \in [pc : StorePc, type : SensorTypes \cup {None}, key : Keys \cup {None},
                        pool : Pools \cup {None}, result : StoreResult],
           store' = [store EXCEPT ![s] = rec],
           rec.pc = "route" => s \in mu'.readers \cup mu'.waiting,
           rec.pc = "write" => /\ s \in mu'.readers
                               /\ rec.key \in Supporting(rec.type)
                               /\ connections[rec.key].pool = rec.pool
    PROVE  IInv'
  <1> USE DEF IInv
  <1>a. /\ store'[s] = rec
        /\ \A o \in Storers \ {s} : store'[o] = store[o]
    BY DEF TypeOK
  <1>b. s \notin Queriers /\ Storers \subseteq Readers /\ Queriers \subseteq Readers
    BY ConstantsAssumption DEF ConstantsAssumption, Readers
  <1>1. TypeOK'
    BY DEF TypeOK
  <1>2. LockInv'
    <2>1. \A w \in Reconcilers : job[w].pc \in Inside <=> mu'.writer = {w}
      BY DEF LockInv
    <2>2. \A w \in Reconcilers : job[w].pc \in Alone => mu'.readers = {}
      <3> SUFFICES ASSUME NEW w \in Reconcilers, job[w].pc \in Alone
                   PROVE  mu'.readers = {}
        OBVIOUS
      <3>1. mu.writer = {w} /\ mu.readers = {}
        BY DEF LockInv, Inside, Alone
      <3> QED BY <3>1
    <2>3. /\ \A o \in Storers : store'[o].pc = "route" => o \in mu'.readers \cup mu'.waiting
          /\ \A o \in Storers : store'[o].pc = "write" => o \in mu'.readers
      BY <1>a, <1>b DEF LockInv
    <2>4. \A o \in Queriers : query'[o].pc = "get" => o \in mu'.readers \cup mu'.waiting
      BY <1>a, <1>b DEF LockInv
    <2> QED BY <2>1, <2>2, <2>3, <2>4 DEF LockInv
  <1>3. WritesGoToInstalledPool'
    BY <1>a DEF WritesGoToInstalledPool, InstalledPoolsReady, Supporting, Installed
  <1>4. QueryHasPool' /\ AnswersComeFromInstalledPool'
    BY DEF QueryHasPool, AnswersComeFromInstalledPool, Supporting, Installed
  <1> QED BY <1>1, <1>2, <1>3, <1>4, RegistryUnaffected

LEMMA QuerierPart ==
    ASSUME IInv, NEW q \in Queriers, UNCHANGED <<connections, pools, job, store>>,
           mu' \in MutexType(Reconcilers, Readers), mu'.writer = mu.writer,
           \A r \in Readers \ {q} : /\ r \in mu.readers <=> r \in mu'.readers
                                    /\ r \in mu.waiting <=> r \in mu'.waiting,
           \A v \in Reconcilers : mu.writer = {v} => mu'.readers \subseteq mu.readers,
           NEW rec \in [pc : QueryPc, type : SensorTypes \cup {None},
                        pool : Pools \cup {None}, result : QueryResult],
           query' = [query EXCEPT ![q] = rec],
           rec.pc = "get" => q \in mu'.readers \cup mu'.waiting,
           rec.pc = "query" => \E k \in Supporting(rec.type) : connections[k].pool = rec.pool
    PROVE  IInv'
  <1> USE DEF IInv
  <1>a. /\ query'[q] = rec
        /\ \A o \in Queriers \ {q} : query'[o] = query[o]
    BY DEF TypeOK
  <1>b. q \notin Storers /\ Storers \subseteq Readers /\ Queriers \subseteq Readers
    BY ConstantsAssumption DEF ConstantsAssumption, Readers
  <1>c. \A k \in Keys : Installed(k) => connections[k].pool \in Pools
    BY DEF TypeOK, Installed, Connection
  <1>1. TypeOK'
    BY DEF TypeOK
  <1>2. LockInv'
    <2>1. \A w \in Reconcilers : job[w].pc \in Inside <=> mu'.writer = {w}
      BY DEF LockInv
    <2>2. \A w \in Reconcilers : job[w].pc \in Alone => mu'.readers = {}
      <3> SUFFICES ASSUME NEW w \in Reconcilers, job[w].pc \in Alone
                   PROVE  mu'.readers = {}
        OBVIOUS
      <3>1. mu.writer = {w} /\ mu.readers = {}
        BY DEF LockInv, Inside, Alone
      <3> QED BY <3>1
    <2>3. /\ \A o \in Storers : store'[o].pc = "route" => o \in mu'.readers \cup mu'.waiting
          /\ \A o \in Storers : store'[o].pc = "write" => o \in mu'.readers
      BY <1>a, <1>b DEF LockInv
    <2>4. \A o \in Queriers : query'[o].pc = "get" => o \in mu'.readers \cup mu'.waiting
      BY <1>a, <1>b DEF LockInv
    <2> QED BY <2>1, <2>2, <2>3, <2>4 DEF LockInv
  <1>3. WritesGoToInstalledPool'
    BY <1>a DEF WritesGoToInstalledPool, Supporting, Installed
  <1>4. QueryHasPool' /\ AnswersComeFromInstalledPool'
    BY <1>a, <1>c DEF QueryHasPool, AnswersComeFromInstalledPool, Supporting, Installed
  <1> QED BY <1>1, <1>2, <1>3, <1>4, RegistryUnaffected

LEMMA CallStoreStep ==
    ASSUME IInv, NEW s \in Storers, CallStore(s)
    PROVE  IInv'
  <1>1. PICK t \in SensorTypes :
           store' = [store EXCEPT ![s] = [pc |-> "route", type |-> t, key |-> None,
                                          pool |-> None, result |-> "none"]]
    BY DEF CallStore
  <1> DEFINE rec == [pc |-> "route", type |-> t, key |-> None, pool |-> None, result |-> "none"]
  <1>2. rec \in [pc : StorePc, type : SensorTypes \cup {None}, key : Keys \cup {None},
                pool : Pools \cup {None}, result : StoreResult]
    BY DEF StorePc, StoreResult
  <1>3. /\ mu \in MutexType(Reconcilers, Readers) /\ s \in Readers
        /\ mu' = RLock(mu, s)
        /\ UNCHANGED <<connections, pools, job, query>>
    BY DEF CallStore, IInv, TypeOK, Readers
  <1>4. /\ mu' \in MutexType(Reconcilers, Readers) /\ mu'.writer = mu.writer
        /\ s \in mu'.readers \cup mu'.waiting
        /\ \A r \in Readers \ {s} : /\ r \in mu.readers <=> r \in mu'.readers
                                    /\ r \in mu.waiting <=> r \in mu'.waiting
        /\ mu.writer # {} => mu'.readers = mu.readers
    BY <1>3, RLockEffect
  <1>5. rec.pc = "route"
    OBVIOUS
  <1> HIDE DEF rec
  <1>6. store' = [store EXCEPT ![s] = rec]
    BY <1>1 DEF rec
  <1> QED BY <1>2, <1>3, <1>4, <1>5, <1>6, StorerPart

LEMMA RouteStep ==
    ASSUME IInv, NEW s \in Storers, Route(s)
    PROVE  IInv'
  <1>1. PICK k \in Supporting(store[s].type) :
           store' = [store EXCEPT ![s] = [pc |-> "write", type |-> store[s].type, key |-> k,
                                          pool |-> connections[k].pool, result |-> "none"]]
    BY DEF Route
  <1> DEFINE rec == [pc |-> "write", type |-> store[s].type, key |-> k,
                     pool |-> connections[k].pool, result |-> "none"]
  <1>2. rec \in [pc : StorePc, type : SensorTypes \cup {None}, key : Keys \cup {None},
                pool : Pools \cup {None}, result : StoreResult]
    BY DEF StorePc, StoreResult, Supporting, Installed, IInv, TypeOK, Connection
  <1>3. /\ mu \in MutexType(Reconcilers, Readers) /\ s \in mu.readers
        /\ UNCHANGED <<mu, connections, pools, job, query>>
    BY DEF Route, Shared, IInv, TypeOK
  <1>4. /\ rec.pc = "write" /\ rec.key \in Supporting(rec.type)
        /\ connections[rec.key].pool = rec.pool
    BY <1>1
  <1> HIDE DEF rec
  <1>5. store' = [store EXCEPT ![s] = rec]
    BY <1>1 DEF rec
  <1> QED BY <1>2, <1>3, <1>4, <1>5, StorerPart

LEMMA StoreReturnsStep ==
    ASSUME IInv, NEW s \in Storers, NEW k \in Keys \cup {None}, NEW result \in StoreResult,
           StoreReturns(s, k, result), UNCHANGED <<connections, pools, job, query>>
    PROVE  IInv'
  <1> DEFINE rec == [pc |-> "idle", type |-> store[s].type, key |-> k,
                     pool |-> None, result |-> result]
  <1>1. rec \in [pc : StorePc, type : SensorTypes \cup {None}, key : Keys \cup {None},
                pool : Pools \cup {None}, result : StoreResult]
    BY DEF StorePc, IInv, TypeOK
  <1>2. /\ mu \in MutexType(Reconcilers, Readers) /\ s \in Readers
        /\ mu' = RUnlock(mu, s) /\ store' = [store EXCEPT ![s] = rec]
    BY DEF StoreReturns, IInv, TypeOK, Readers
  <1>3. /\ mu' \in MutexType(Reconcilers, Readers) /\ mu'.writer = mu.writer
        /\ \A r \in Readers \ {s} : /\ r \in mu.readers <=> r \in mu'.readers
                                    /\ r \in mu.waiting <=> r \in mu'.waiting
        /\ mu'.readers \subseteq mu.readers
    BY <1>2, RUnlockEffect
  <1>4. rec.pc = "idle"
    OBVIOUS
  <1> HIDE DEF rec
  <1> QED BY <1>1, <1>2, <1>3, <1>4, StorerPart

LEMMA StoreEndsStep ==
    ASSUME IInv, NEW s \in Storers, RouteFails(s) \/ Write(s)
    PROVE  IInv'
  <1>1. PICK k \in Keys \cup {None}, result \in StoreResult : StoreReturns(s, k, result)
    BY DEF RouteFails, Write, StoreResult, IInv, TypeOK
  <1>2. UNCHANGED <<connections, pools, job, query>>
    BY DEF RouteFails, Write
  <1> QED BY <1>1, <1>2, StoreReturnsStep

-----------------------------------------------------------------------------

LEMMA CallQueryStep ==
    ASSUME IInv, NEW q \in Queriers, CallQuery(q)
    PROVE  IInv'
  <1>1. PICK t \in SensorTypes :
           query' = [query EXCEPT ![q] = [pc |-> "get", type |-> t,
                                          pool |-> None, result |-> "none"]]
    BY DEF CallQuery
  <1> DEFINE rec == [pc |-> "get", type |-> t, pool |-> None, result |-> "none"]
  <1>2. rec \in [pc : QueryPc, type : SensorTypes \cup {None},
                pool : Pools \cup {None}, result : QueryResult]
    BY DEF QueryPc, QueryResult
  <1>3. /\ mu \in MutexType(Reconcilers, Readers) /\ q \in Readers
        /\ mu' = RLock(mu, q)
        /\ UNCHANGED <<connections, pools, job, store>>
    BY DEF CallQuery, IInv, TypeOK, Readers
  <1>4. /\ mu' \in MutexType(Reconcilers, Readers) /\ mu'.writer = mu.writer
        /\ q \in mu'.readers \cup mu'.waiting
        /\ \A r \in Readers \ {q} : /\ r \in mu.readers <=> r \in mu'.readers
                                    /\ r \in mu.waiting <=> r \in mu'.waiting
        /\ mu.writer # {} => mu'.readers = mu.readers
    BY <1>3, RLockEffect
  <1>5. rec.pc = "get"
    OBVIOUS
  <1> HIDE DEF rec
  <1>6. query' = [query EXCEPT ![q] = rec]
    BY <1>1 DEF rec
  <1> QED BY <1>2, <1>3, <1>4, <1>5, <1>6, QuerierPart

LEMMA GetDBStep ==
    ASSUME IInv, NEW q \in Queriers, GetDBForSensorType(q)
    PROVE  IInv'
  <1>1. PICK rec \in [pc : QueryPc, type : SensorTypes \cup {None},
                      pool : Pools \cup {None}, result : QueryResult] :
           /\ query' = [query EXCEPT ![q] = rec]
           /\ rec.pc # "get"
           /\ rec.pc = "query" => \E k \in Supporting(rec.type) : connections[k].pool = rec.pool
    <2>1. CASE Supporting(query[q].type) = {}
      <3> DEFINE r == [pc |-> "idle", type |-> query[q].type, pool |-> None,
                       result |-> "no database"]
      <3>1. r \in [pc : QueryPc, type : SensorTypes \cup {None},
                  pool : Pools \cup {None}, result : QueryResult]
        BY DEF QueryPc, QueryResult, IInv, TypeOK
      <3>2. query' = [query EXCEPT ![q] = r]
        BY <2>1 DEF GetDBForSensorType
      <3> QED BY <3>1, <3>2
    <2>2. CASE Supporting(query[q].type) # {}
      <3>1. PICK k \in Supporting(query[q].type) :
               query' = [query EXCEPT ![q] = [pc |-> "query", type |-> query[q].type,
                                              pool |-> connections[k].pool, result |-> "none"]]
        BY <2>2 DEF GetDBForSensorType
      <3> DEFINE r == [pc |-> "query", type |-> query[q].type, pool |-> connections[k].pool,
                       result |-> "none"]
      <3>2. r \in [pc : QueryPc, type : SensorTypes \cup {None},
                  pool : Pools \cup {None}, result : QueryResult]
        BY DEF QueryPc, QueryResult, IInv, TypeOK, Supporting, Installed, Connection
      <3> QED BY <3>1, <3>2
    <2> QED BY <2>1, <2>2
  <1>2. /\ mu \in MutexType(Reconcilers, Readers) /\ q \in Readers
        /\ mu' = RUnlock(mu, q)
        /\ UNCHANGED <<connections, pools, job, store>>
    BY DEF GetDBForSensorType, IInv, TypeOK, Readers
  <1>3. /\ mu' \in MutexType(Reconcilers, Readers) /\ mu'.writer = mu.writer
        /\ \A r \in Readers \ {q} : /\ r \in mu.readers <=> r \in mu'.readers
                                    /\ r \in mu.waiting <=> r \in mu'.waiting
        /\ mu'.readers \subseteq mu.readers
    BY <1>2, RUnlockEffect
  <1> QED BY <1>1, <1>2, <1>3, QuerierPart

LEMMA RunQueryStep ==
    ASSUME IInv, NEW q \in Queriers, RunQuery(q)
    PROVE  IInv'
  <1>1. PICK result \in QueryResult :
           query' = [query EXCEPT ![q] = [pc |-> "idle", type |-> query[q].type,
                                          pool |-> None, result |-> result]]
    BY DEF RunQuery, QueryResult
  <1> DEFINE rec == [pc |-> "idle", type |-> query[q].type, pool |-> None, result |-> result]
  <1>2. rec \in [pc : QueryPc, type : SensorTypes \cup {None},
                pool : Pools \cup {None}, result : QueryResult]
    BY DEF QueryPc, IInv, TypeOK
  <1>3. mu \in MutexType(Reconcilers, Readers) /\ UNCHANGED <<mu, connections, pools, job, store>>
    BY DEF RunQuery, IInv, TypeOK
  <1>4. rec.pc = "idle"
    OBVIOUS
  <1> HIDE DEF rec
  <1>5. query' = [query EXCEPT ![q] = rec]
    BY <1>1 DEF rec
  <1> QED BY <1>2, <1>3, <1>4, <1>5, QuerierPart

-----------------------------------------------------------------------------

LEMMA NextIInv == IInv /\ [Next]_vars => IInv'
  <1> SUFFICES ASSUME IInv, [Next]_vars PROVE IInv'
    OBVIOUS
  <1>1. CASE UNCHANGED vars
    <2>1. TypeOK' /\ LockInv'
      BY <1>1 DEF vars, IInv, TypeOK, LockInv
    <2> QED BY <1>1, <2>1, UsersUnaffected, RegistryUnaffected DEF vars, IInv
  <1>2. ASSUME NEW w \in Reconcilers, CallConnect(w) \/ CallDisconnect(w) \/ ReconcilerStep(w)
        PROVE  IInv'
    BY <1>2, CallStep, LockStep, DisconnectStep, CloseStep, BuildDSNStep, OpenStep,
       PingStep, MigrateStep, ConnectFailsStep, InstallStep DEF ReconcilerStep
  <1>3. ASSUME NEW s \in Storers, CallStore(s) \/ StorerStep(s)
        PROVE  IInv'
    BY <1>3, CallStoreStep, RouteStep, StoreEndsStep DEF StorerStep
  <1>4. ASSUME NEW q \in Queriers, CallQuery(q) \/ QuerierStep(q)
        PROVE  IInv'
    BY <1>4, CallQueryStep, GetDBStep, RunQueryStep DEF QuerierStep
  <1> QED BY <1>1, <1>2, <1>3, <1>4 DEF Next

\* IInv holds in every reachable state.
THEOREM Invariance == Spec => []IInv
  BY InitIInv, NextIInv, PTL DEF Spec

\* Every variable keeps its type, for every choice of databases and goroutines.
THEOREM TypeCorrect == Spec => []TypeOK
  BY Invariance, PTL DEF IInv

\* StoreMeasurement writes to the pool of a database that is connected and lists
\* the sensor type, however Connect and Disconnect interleave with it.
THEOREM WritesAreRouted == Spec => []WritesGoToInstalledPool
  BY Invariance, PTL DEF IInv

\* Every connection callers can see has an open, migrated pool of its own.
THEOREM ConnectionsAreReady == Spec => []InstalledPoolsReady
  BY Invariance, PTL DEF IInv

\* An API query that is answered is answered by a connected database.
THEOREM AnswersAreCurrent == Spec => []AnswersComeFromInstalledPool
  BY Invariance, PTL DEF IInv

\* No sequence of Connect and Disconnect loses a migrated pool.
THEOREM MigratedPoolsAreKept == Spec => []MigratedPoolsAreInstalled
  BY Invariance, PTL DEF IInv

-----------------------------------------------------------------------------
(* Nobody waits for nobody *)

LEMMA InitGivenBack == Init => LockIsGivenBack
  BY DEF Init, Unlocked, LockIsGivenBack

\* A writer that announces itself or leaves: the callers of the read lock stay
\* where they are, and the blocked ones are let in when it leaves.
LEMMA WriterGivenBack ==
    ASSUME IInv, LockIsGivenBack, LockInv', UNCHANGED <<store, query>>,
           \/ mu' = mu
           \/ \E w \in Reconcilers : mu' = Announce(mu, w)
           \/ mu.readers = {} /\ mu' = Unlock(mu)
    PROVE  LockIsGivenBack'
  <1> USE DEF LockIsGivenBack
  <1>0. mu \in MutexType(Reconcilers, Readers)
    BY DEF IInv, TypeOK
  <1>1. mu'.writer # {} => \E w \in Reconcilers : mu'.writer = {w}
    BY <1>0 DEF MutexType, Announce, Unlock
  <1>2. \A w \in Reconcilers : mu'.writer = {w} => job'[w].pc \notin {"idle", "lock"}
    BY DEF LockInv, Inside
  <1>3. /\ mu'.readers \cup mu'.waiting \subseteq mu.readers \cup mu.waiting
        /\ mu'.readers \cap mu'.waiting = {}
        /\ mu'.waiting # {} => mu'.writer # {}
    BY <1>0 DEF MutexType, Announce, Unlock
  <1> QED BY <1>1, <1>2, <1>3

\* A caller of the read lock that enters the queue or the section, moves in its
\* call, or leaves: it is where its call is.
LEMMA ReaderGivenBack ==
    ASSUME IInv, LockIsGivenBack, job' = job, NEW r \in Readers,
           \/ mu' = mu
           \/ r \notin mu.readers \cup mu.waiting /\ mu' = RLock(mu, r)
           \/ r \in mu.readers /\ mu' = RUnlock(mu, r),
           \A o \in Storers \ {r} : store'[o] = store[o],
           \A o \in Queriers \ {r} : query'[o] = query[o],
           r \in mu'.readers \cup mu'.waiting =>
              \/ r \in Storers /\ store'[r].pc # "idle"
              \/ r \in Queriers /\ query'[r].pc = "get"
    PROVE  LockIsGivenBack'
  <1> USE DEF LockIsGivenBack
  <1>0. mu \in MutexType(Reconcilers, Readers)
    BY DEF IInv, TypeOK
  <1>1. /\ mu'.writer = mu.writer
        /\ (mu'.readers \cup mu'.waiting) \ {r} \subseteq mu.readers \cup mu.waiting
        /\ mu'.readers \cap mu'.waiting = {}
        /\ mu'.waiting # {} => mu'.writer # {}
    BY <1>0 DEF MutexType, RLock, RUnlock
  <1>2. \A o \in mu'.readers \cup mu'.waiting :
           \/ o \in Storers /\ store'[o].pc # "idle"
           \/ o \in Queriers /\ query'[o].pc = "get"
    BY <1>1
  <1> QED BY <1>1, <1>2

LEMMA ReconcilerGivenBack ==
    ASSUME IInv, IInv', LockIsGivenBack, NEW w \in Reconcilers,
           CallConnect(w) \/ CallDisconnect(w) \/ ReconcilerStep(w)
    PROVE  LockIsGivenBack'
  <1>1. UNCHANGED <<store, query>> /\ LockInv'
    BY DEF IInv, CallConnect, CallDisconnect, ReconcilerStep, Lock, Disconnect, Close, BuildDSN,
           Open, Ping, Migrate, ConnectFails, Install
  <1>2. CASE Disconnect(w) \/ ConnectFails(w) \/ Install(w)
    <2>1. mu' = Unlock(mu) /\ mu.readers = {}
      BY <1>2 DEF Disconnect, ConnectFails, Install, Return, Exclusive, IInv, LockInv, Alone
    <2> QED BY <1>1, <2>1, WriterGivenBack
  <1>3. CASE Lock(w)
    BY <1>1, <1>3, WriterGivenBack DEF Lock
  <1>4. CASE mu' = mu
    BY <1>1, <1>4, WriterGivenBack
  <1>5. \/ Disconnect(w) \/ ConnectFails(w) \/ Install(w) \/ Lock(w)
        \/ mu' = mu
    BY DEF CallConnect, CallDisconnect, ReconcilerStep, Close, BuildDSN, Open, Ping, Migrate
  <1> QED BY <1>2, <1>3, <1>4, <1>5

LEMMA StorerGivenBack ==
    ASSUME IInv, LockIsGivenBack, NEW s \in Storers, CallStore(s) \/ StorerStep(s)
    PROVE  LockIsGivenBack'
  <1>0. /\ mu \in MutexType(Reconcilers, Readers) /\ s \in Readers /\ s \notin Queriers
        /\ DOMAIN store = Storers
        /\ store[s].pc = "idle" => s \notin mu.readers \cup mu.waiting
    BY ConstantsAssumption DEF ConstantsAssumption, IInv, TypeOK, Readers, LockIsGivenBack
  <1>1. CASE CallStore(s)
    <2>1. PICK t \in SensorTypes :
             store' = [store EXCEPT ![s] = [pc |-> "route", type |-> t, key |-> None,
                                            pool |-> None, result |-> "none"]]
      BY <1>1 DEF CallStore
    <2>2. store'[s].pc # "idle" /\ \A o \in Storers \ {s} : store'[o] = store[o]
      BY <1>0, <2>1
    <2>3. /\ s \notin mu.readers \cup mu.waiting /\ mu' = RLock(mu, s)
          /\ job' = job /\ query' = query
      BY <1>0, <1>1 DEF CallStore
    <2> QED BY <1>0, <2>2, <2>3, ReaderGivenBack
  <1>2. CASE Route(s)
    <2>1. PICK k \in Supporting(store[s].type) :
             store' = [store EXCEPT ![s] = [pc |-> "write", type |-> store[s].type, key |-> k,
                                            pool |-> connections[k].pool, result |-> "none"]]
      BY <1>2 DEF Route
    <2>2. store'[s].pc # "idle" /\ \A o \in Storers \ {s} : store'[o] = store[o]
      BY <1>0, <2>1
    <2>3. mu' = mu /\ job' = job /\ query' = query
      BY <1>2 DEF Route
    <2> QED BY <1>0, <2>2, <2>3, ReaderGivenBack
  <1>3. ASSUME NEW k, NEW result, StoreReturns(s, k, result), s \in mu.readers,
               job' = job, query' = query
        PROVE  LockIsGivenBack'
    <2>1. mu' = RUnlock(mu, s) /\ \A o \in Storers \ {s} : store'[o] = store[o]
      BY <1>0, <1>3 DEF StoreReturns
    <2>2. s \notin mu'.readers \cup mu'.waiting
      BY <1>0, <1>3, <2>1 DEF MutexType, RUnlock, LockIsGivenBack
    <2> QED BY <1>0, <1>3, <2>1, <2>2, ReaderGivenBack
  <1>4. CASE RouteFails(s) \/ Write(s)
    <2>1. s \in mu.readers /\ job' = job /\ query' = query
      <3>1. CASE RouteFails(s)
        BY <3>1, Zenon DEF RouteFails, Shared
      <3>2. CASE Write(s)
        BY <3>2 DEF Write, IInv, LockInv
      <3> QED BY <1>4, <3>1, <3>2
    <2>2. \E k, result : StoreReturns(s, k, result)
      BY <1>4, Zenon DEF RouteFails, Write
    <2> QED BY <1>3, <2>1, <2>2
  <1> QED BY <1>1, <1>2, <1>4 DEF StorerStep

LEMMA QuerierGivenBack ==
    ASSUME IInv, LockIsGivenBack, NEW q \in Queriers, CallQuery(q) \/ QuerierStep(q)
    PROVE  LockIsGivenBack'
  <1>0. /\ mu \in MutexType(Reconcilers, Readers) /\ q \in Readers /\ q \notin Storers
        /\ DOMAIN query = Queriers
        /\ query[q].pc # "get" => q \notin mu.readers \cup mu.waiting
    BY ConstantsAssumption DEF ConstantsAssumption, IInv, TypeOK, Readers, LockIsGivenBack
  <1>1. CASE CallQuery(q)
    <2>1. PICK t \in SensorTypes :
             query' = [query EXCEPT ![q] = [pc |-> "get", type |-> t,
                                            pool |-> None, result |-> "none"]]
      BY <1>1 DEF CallQuery
    <2>2. query'[q].pc = "get" /\ \A o \in Queriers \ {q} : query'[o] = query[o]
      BY <1>0, <2>1
    <2>3. /\ q \notin mu.readers \cup mu.waiting /\ mu' = RLock(mu, q)
          /\ job' = job /\ store' = store
      BY <1>0, <1>1 DEF CallQuery
    <2> QED BY <1>0, <2>2, <2>3, ReaderGivenBack
  <1>2. CASE GetDBForSensorType(q)
    <2>1. /\ q \in mu.readers /\ mu' = RUnlock(mu, q) /\ job' = job /\ store' = store
      BY <1>2, Zenon DEF GetDBForSensorType, Shared
    <2>2. \E new : query' = [query EXCEPT ![q] = new]
      BY <1>2, Zenon DEF GetDBForSensorType
    <2>3. \A o \in Queriers \ {q} : query'[o] = query[o]
      BY <1>0, <2>2
    <2>4. q \notin mu'.readers \cup mu'.waiting
      BY <1>0, <2>1 DEF MutexType, RUnlock, LockIsGivenBack
    <2> QED BY <1>0, <2>1, <2>3, <2>4, ReaderGivenBack
  <1>3. CASE RunQuery(q)
    <2>1. query[q].pc = "query" /\ mu' = mu /\ job' = job /\ store' = store
      BY <1>3, Zenon DEF RunQuery
    <2>2. \E new : query' = [query EXCEPT ![q] = new]
      BY <1>3, Zenon DEF RunQuery
    <2>3. \A o \in Queriers \ {q} : query'[o] = query[o]
      BY <1>0, <2>2
    <2>4. q \notin mu'.readers \cup mu'.waiting
      BY <1>0, <2>1
    <2> QED BY <1>0, <2>1, <2>3, <2>4, ReaderGivenBack
  <1> QED BY <1>1, <1>2, <1>3 DEF QuerierStep

LEMMA NextGivenBack == IInv /\ IInv' /\ LockIsGivenBack /\ [Next]_vars => LockIsGivenBack'
  <1> SUFFICES ASSUME IInv, IInv', LockIsGivenBack, [Next]_vars PROVE LockIsGivenBack'
    OBVIOUS
  <1>1. CASE UNCHANGED vars
    BY <1>1 DEF vars, LockIsGivenBack
  <1>2. CASE Next
    BY <1>2, ReconcilerGivenBack, StorerGivenBack, QuerierGivenBack DEF Next
  <1> QED BY <1>1, <1>2

\* Whoever holds the lock is in the middle of a call, on every path through
\* Connect, Disconnect, StoreMeasurement and GetDBForSensorType.
THEOREM LockNeverLeaks == Spec => []LockIsGivenBack
  BY Invariance, InitGivenBack, NextGivenBack, PTL DEF Spec

\* The guards of the steps that a call under way is waiting for.
CanGoOn ==
    \/ \E w \in Reconcilers :
          \/ job[w].pc = "lock" /\ CanAnnounce(mu)
          \/ job[w].pc \in {"close", "disconnect"} /\ Exclusive(mu, w)
          \/ job[w].pc \in Alone
    \/ \E s \in Storers : store[s].pc # "idle" /\ Shared(mu, s)
    \/ \E q \in Queriers : \/ query[q].pc = "get" /\ Shared(mu, q)
                           \/ query[q].pc = "query"

CallUnderWay ==
    \/ \E w \in Reconcilers : job[w].pc # "idle"
    \/ \E s \in Storers : store[s].pc # "idle"
    \/ \E q \in Queriers : query[q].pc # "idle"

LEMMA SomebodyGoesOn == IInv /\ LockIsGivenBack /\ CallUnderWay => CanGoOn
  <1> SUFFICES ASSUME IInv, LockIsGivenBack, CallUnderWay PROVE CanGoOn
    OBVIOUS
  <1>0. /\ \A w \in Reconcilers : job[w].pc \in JobPc
        /\ \A s \in Storers : store[s].pc \in StorePc
        /\ \A q \in Queriers : query[q].pc \in QueryPc
    BY DEF IInv, TypeOK
  <1>1. CASE mu.readers # {}
    BY <1>1 DEF LockIsGivenBack, CanGoOn, Shared
  <1>2. CASE mu.readers = {} /\ mu.writer # {}
    <2>1. PICK w \in Reconcilers : mu.writer = {w} /\ job[w].pc \in Inside
      BY <1>2 DEF LockIsGivenBack, IInv, LockInv
    <2> QED BY <1>2, <2>1 DEF CanGoOn, Exclusive, Inside, Alone
  <1>3. CASE mu.readers = {} /\ mu.writer = {}
    <2>1. mu.readers \cup mu.waiting = {}
      BY <1>3 DEF LockIsGivenBack
    <2>2. /\ \A s \in Storers : store[s].pc = "idle"
          /\ \A q \in Queriers : query[q].pc # "get"
          /\ \A w \in Reconcilers : job[w].pc \notin Inside
      BY <1>0, <1>3, <2>1 DEF IInv, LockInv, StorePc
    <2> QED BY <1>0, <1>3, <2>2 DEF CallUnderWay, CanGoOn, CanAnnounce, JobPc, QueryPc, Inside
  <1> QED BY <1>1, <1>2, <1>3

\* While a call is under way, some call can go on, so that the goroutines never
\* all wait for each other.
THEOREM NoDeadlock == Spec => [](CallUnderWay => CanGoOn)
  BY Invariance, LockNeverLeaks, SomebodyGoesOn, PTL

-----------------------------------------------------------------------------
(* The manager implements SensorDatabases *)

\* What the mapping needs besides IInv: a call under way has no result yet, and
\* only measurements of a type with a handler are written.
CallsInv ==
    /\ \A s \in Storers : store[s].pc # "idle" => store[s].result = "none"
    /\ \A s \in Storers : store[s].pc = "write" => store[s].type \in HandledTypes
    /\ \A q \in Queriers : query[q].pc # "idle" => query[q].result = "none"

LEMMA InitCalls == Init => CallsInv
  BY DEF Init, CallsInv

LEMMA StoreCalls ==
    ASSUME TypeOK, CallsInv, NEW s \in Storers, NEW new,
           store' = [store EXCEPT ![s] = new],
           new.pc # "idle" => new.result = "none",
           new.pc = "write" => new.type \in HandledTypes,
           query' = query
    PROVE  CallsInv'
  BY DEF TypeOK, CallsInv

LEMMA QueryCalls ==
    ASSUME TypeOK, CallsInv, NEW q \in Queriers, NEW new,
           query' = [query EXCEPT ![q] = new],
           new.pc # "idle" => new.result = "none",
           store' = store
    PROVE  CallsInv'
  BY DEF TypeOK, CallsInv

LEMMA ReturnCalls ==
    ASSUME TypeOK, CallsInv, NEW s \in Storers, NEW k, NEW result, StoreReturns(s, k, result),
           query' = query
    PROVE  CallsInv'
  <1> DEFINE new == [pc |-> "idle", type |-> store[s].type, key |-> k, pool |-> None,
                     result |-> result]
  <1>1. store' = [store EXCEPT ![s] = new] /\ new.pc = "idle"
    BY DEF StoreReturns
  <1> HIDE DEF new
  <1> QED BY <1>1, StoreCalls

LEMMA StorerCalls ==
    ASSUME TypeOK, CallsInv, NEW s \in Storers, CallStore(s) \/ StorerStep(s)
    PROVE  CallsInv'
  <1>1. CASE CallStore(s)
    <2>1. PICK t \in SensorTypes :
             store' = [store EXCEPT ![s] = [pc |-> "route", type |-> t, key |-> None,
                                            pool |-> None, result |-> "none"]]
      BY <1>1 DEF CallStore
    <2> QED BY <1>1, <2>1, StoreCalls DEF CallStore
  <1>2. CASE Route(s)
    <2>1. PICK k \in Keys :
             store' = [store EXCEPT ![s] = [pc |-> "write", type |-> store[s].type, key |-> k,
                                            pool |-> connections[k].pool, result |-> "none"]]
      BY <1>2 DEF Route, Supporting
    <2> QED BY <1>2, <2>1, StoreCalls DEF Route
  <1>3. CASE RouteFails(s)
    <2>1. \E k, result : StoreReturns(s, k, result)
      BY <1>3, Zenon DEF RouteFails
    <2>2. query' = query
      BY <1>3, Zenon DEF RouteFails
    <2> QED BY <2>1, <2>2, ReturnCalls
  <1>4. CASE Write(s)
    BY <1>4, ReturnCalls DEF Write
  <1> QED BY <1>1, <1>2, <1>3, <1>4 DEF StorerStep

LEMMA QuerierCalls ==
    ASSUME TypeOK, CallsInv, NEW q \in Queriers, CallQuery(q) \/ QuerierStep(q)
    PROVE  CallsInv'
  <1>1. CASE CallQuery(q)
    <2>1. PICK t \in SensorTypes :
             query' = [query EXCEPT ![q] = [pc |-> "get", type |-> t,
                                            pool |-> None, result |-> "none"]]
      BY <1>1 DEF CallQuery
    <2> QED BY <1>1, <2>1, QueryCalls DEF CallQuery
  <1>2. ASSUME NEW result, GetDBForSensorType(q) \/ RunQuery(q),
               query' = [query EXCEPT ![q] = [pc |-> "idle", type |-> query[q].type,
                                              pool |-> None, result |-> result]]
        PROVE  CallsInv'
    <2>1. store' = store
      BY <1>2, Zenon DEF GetDBForSensorType, RunQuery
    <2> QED BY <1>2, <2>1, QueryCalls
  <1>3. CASE GetDBForSensorType(q)
    <2>1. store' = store
      BY <1>3, Zenon DEF GetDBForSensorType
    <2>2. \/ \E k \in Keys : query' = [query EXCEPT ![q] =
                  [pc |-> "query", type |-> query[q].type,
                   pool |-> connections[k].pool, result |-> "none"]]
          \/ \E result : query' = [query EXCEPT ![q] =
                  [pc |-> "idle", type |-> query[q].type, pool |-> None, result |-> result]]
      BY <1>3, Zenon DEF GetDBForSensorType, Supporting
    <2>3. CASE \E k \in Keys : query' = [query EXCEPT ![q] =
                  [pc |-> "query", type |-> query[q].type,
                   pool |-> connections[k].pool, result |-> "none"]]
      BY <2>1, <2>3, QueryCalls
    <2> QED BY <1>2, <1>3, <2>2, <2>3
  <1>4. CASE RunQuery(q)
    <2>1. \E result : query' = [query EXCEPT ![q] =
              [pc |-> "idle", type |-> query[q].type, pool |-> None, result |-> result]]
      BY <1>4, Zenon DEF RunQuery
    <2> QED BY <1>2, <1>4, <2>1
  <1> QED BY <1>1, <1>3, <1>4 DEF QuerierStep

LEMMA NextCalls == TypeOK /\ CallsInv /\ [Next]_vars => CallsInv'
  <1> SUFFICES ASSUME TypeOK, CallsInv, [Next]_vars PROVE CallsInv'
    OBVIOUS
  <1>1. CASE UNCHANGED <<store, query>>
    BY <1>1 DEF CallsInv
  <1>2. CASE \E w \in Reconcilers : CallConnect(w) \/ CallDisconnect(w) \/ ReconcilerStep(w)
    <2>1. UNCHANGED <<store, query>>
      BY <1>2 DEF CallConnect, CallDisconnect, ReconcilerStep, Lock, Disconnect, Close, BuildDSN,
                  Open, Ping, Migrate, ConnectFails, Install
    <2> QED BY <1>1, <2>1
  <1>3. CASE \E s \in Storers : CallStore(s) \/ StorerStep(s)
    BY <1>3, StorerCalls
  <1>4. CASE \E q \in Queriers : CallQuery(q) \/ QuerierStep(q)
    BY <1>4, QuerierCalls
  <1> QED BY <1>1, <1>2, <1>3, <1>4 DEF Next, vars

LEMMA SameServes ==
    ASSUME TypeOK, NEW t
    PROVE  Abstract!Serves(t) = Supporting(t)
  <1>1. \A k \in Keys : Serving[k] # None <=> Installed(k)
    BY ConstantsAssumption DEF TypeOK, Serving, Installed, Connection
  <1>2. \A k \in Keys : Installed(k) => Serving[k] = connections[k].types
    BY DEF Serving
  <1> QED BY <1>1, <1>2 DEF Abstract!Serves, Supporting

\* How the mapping sees a call that moves.
LEMMA StoringMoves ==
    ASSUME TypeOK, NEW s \in Storers, NEW new, store' = [store EXCEPT ![s] = new]
    PROVE  Storing' = [Storing EXCEPT ![s] =
                          [busy |-> new.pc # "idle", type |-> new.type,
                           key |-> IF new.pc = "idle" THEN new.key ELSE None,
                           result |-> new.result]]
  <1>1. store'[s] = new /\ \A r \in Storers \ {s} : store'[r] = store[r]
    BY DEF TypeOK
  <1> QED BY <1>1 DEF Storing

LEMMA AskingMoves ==
    ASSUME TypeOK, NEW q \in Queriers, NEW new, query' = [query EXCEPT ![q] = new]
    PROVE  Asking' = [Asking EXCEPT ![q] =
                         [busy |-> new.pc # "idle", type |-> new.type,
                          result |-> Reported(new.result)]]
  <1>1. query'[q] = new /\ \A r \in Queriers \ {q} : query'[r] = query[r]
    BY DEF TypeOK
  <1> QED BY <1>1 DEF Asking

LEMMA SameServing == ASSUME UNCHANGED connections PROVE UNCHANGED Serving
  BY DEF Serving, Installed

LEMMA SameCallers == ASSUME UNCHANGED <<store, query>> PROVE UNCHANGED <<Storing, Asking>>
  BY DEF Storing, Asking

LEMMA ReportedResults ==
    /\ Reported("none") = "none"
    /\ Reported("value") = "value"
    /\ Reported("failed") = "failed"
    /\ Reported("no database") = "no database"
    /\ Reported("pool closed") = "failed"
  BY Zenon DEF Reported

LEMMA NothingReported == Reported("none") = "none"
  BY ReportedResults, Zenon

LEMMA InitImplements == Init => Abstract!Init
  <1> SUFFICES ASSUME Init PROVE Abstract!Init
    OBVIOUS
  <1>1. Serving = [k \in Keys |-> None]
    BY DEF Init, Serving, Installed
  <1>2. Storing = [s \in Storers |-> [busy |-> FALSE, type |-> None, key |-> None,
                                      result |-> "none"]]
    BY DEF Init, Storing
  <1>3. Asking = [q \in Queriers |-> [busy |-> FALSE, type |-> None, result |-> "none"]]
    BY NothingReported DEF Init, Asking
  <1> QED BY <1>1, <1>2, <1>3 DEF Abstract!Init

LEMMA CloseImplements ==
    ASSUME TypeOK, NEW k \in Keys, CloseExisting(k), UNCHANGED <<store, query>>
    PROVE  Abstract!Withdraw(k)
  <1>1. Serving' = [Serving EXCEPT ![k] = None]
    BY DEF TypeOK, CloseExisting, Serving, Installed
  <1> QED BY <1>1, SameCallers DEF Abstract!Withdraw

LEMMA InstallImplements ==
    ASSUME IInv, NEW w \in Reconcilers, Install(w)
    PROVE  Abstract!Provide(job[w].key)
  <1>1. /\ job[w].pc = "install" /\ UNCHANGED <<store, query>>
        /\ connections' = [connections EXCEPT ![job[w].key] =
                              [types |-> job[w].types, pool |-> job[w].pool]]
    BY DEF Install
  <1>2. PICK k \in Keys, ts \in Specs, p \in Pools :
             k = job[w].key /\ ts = job[w].types /\ p = job[w].pool
    BY <1>1 DEF IInv, JobInv, Alone
  <1>3. connections' = [connections EXCEPT ![k] = [types |-> ts, pool |-> p]]
    BY <1>1, <1>2
  <1>4. Serving[k] = None
    BY <1>1, <1>2 DEF IInv, JobInv, Alone, Serving
  <1>5. [types |-> ts, pool |-> p] # None
    BY ConstantsAssumption DEF Connection
  <1>6. Serving' = [Serving EXCEPT ![k] = ts]
    BY <1>3, <1>5 DEF IInv, TypeOK, Serving, Installed
  <1> QED BY <1>1, <1>2, <1>4, <1>6, SameCallers DEF Abstract!Provide

LEMMA ReconcilerImplements ==
    ASSUME IInv, NEW w \in Reconcilers, CallConnect(w) \/ CallDisconnect(w) \/ ReconcilerStep(w)
    PROVE  [Abstract!Next]_(Abstract!vars)
  <1>1. CASE Disconnect(w) \/ Close(w)
    <2>1. job[w].key \in Keys /\ CloseExisting(job[w].key) /\ UNCHANGED <<store, query>>
      BY <1>1 DEF Disconnect, Close, IInv, JobInv
    <2>2. Abstract!Withdraw(job[w].key)
      BY <2>1, CloseImplements DEF IInv
    <2> QED BY <2>1, <2>2 DEF Abstract!Next
  <1>2. CASE Install(w)
    <2>1. job[w].key \in Keys
      BY <1>2 DEF Install, IInv, JobInv
    <2> QED BY <1>2, <2>1, InstallImplements DEF Abstract!Next
  <1>3. CASE UNCHANGED <<connections, store, query>>
    BY <1>3, SameServing, SameCallers DEF Abstract!vars
  <1>4. \/ Disconnect(w) \/ Close(w) \/ Install(w)
        \/ UNCHANGED <<connections, store, query>>
    BY DEF CallConnect, CallDisconnect, ReconcilerStep, Lock, BuildDSN, Open, Ping, Migrate,
           ConnectFails
  <1> QED BY <1>1, <1>2, <1>3, <1>4

\* A store ends as the abstract one may, whatever the result is called.
LEMMA StoreReturnImplements ==
    ASSUME TypeOK, NEW s \in Storers, NEW k, NEW result, store[s].pc # "idle",
           StoreReturns(s, k, result), UNCHANGED <<connections, query>>
    PROVE  /\ Storing[s].busy /\ Storing[s].type = store[s].type
           /\ Storing' = [Storing EXCEPT ![s] = [busy |-> FALSE, type |-> store[s].type,
                                                 key |-> k, result |-> result]]
           /\ UNCHANGED <<Serving, Asking>>
  <1> DEFINE new == [pc |-> "idle", type |-> store[s].type, key |-> k, pool |-> None,
                     result |-> result]
  <1>1. store' = [store EXCEPT ![s] = new]
    BY DEF StoreReturns
  <1>2. new.pc = "idle" /\ new.type = store[s].type /\ new.key = k /\ new.result = result
    OBVIOUS
  <1> HIDE DEF new
  <1>3. Storing' = [Storing EXCEPT ![s] = [busy |-> FALSE, type |-> store[s].type,
                                           key |-> k, result |-> result]]
    BY <1>1, <1>2, StoringMoves
  <1>4. Storing[s].busy /\ Storing[s].type = store[s].type
    BY DEF Storing
  <1> QED BY <1>3, <1>4, SameServing DEF Asking

LEMMA StorerImplements ==
    ASSUME IInv, CallsInv, NEW s \in Storers, CallStore(s) \/ StorerStep(s)
    PROVE  [Abstract!Next]_(Abstract!vars)
  <1> USE DEF IInv
  <1> DEFINE t == store[s].type
  <1>1. CASE CallStore(s)
    <2>1. PICK u \in SensorTypes :
             store' = [store EXCEPT ![s] = [pc |-> "route", type |-> u, key |-> None,
                                            pool |-> None, result |-> "none"]]
      BY <1>1 DEF CallStore
    <2>2. Storing' = [Storing EXCEPT ![s] = [busy |-> TRUE, type |-> u, key |-> None,
                                             result |-> "none"]]
      BY <2>1, StoringMoves
    <2>3. ~Storing[s].busy
      BY <1>1 DEF CallStore, Storing
    <2>4. UNCHANGED <<Serving, Asking>>
      BY <1>1, SameServing DEF CallStore, Asking
    <2>5. Abstract!BeginStore(s)
      BY <2>2, <2>3, <2>4 DEF Abstract!BeginStore
    <2> QED BY <2>5 DEF Abstract!Next
  <1>2. CASE Route(s)
    <2>1. PICK k \in Keys :
             store' = [store EXCEPT ![s] = [pc |-> "write", type |-> t, key |-> k,
                                            pool |-> connections[k].pool, result |-> "none"]]
      BY <1>2 DEF Route, Supporting
    <2>2. Storing' = [Storing EXCEPT ![s] = [busy |-> TRUE, type |-> t, key |-> None,
                                             result |-> "none"]]
      BY <2>1, StoringMoves
    <2>3. Storing[s] = [busy |-> TRUE, type |-> t, key |-> None, result |-> "none"]
      BY <1>2 DEF Route, Storing, CallsInv
    <2>4. Storing' = Storing
      BY <2>2, <2>3 DEF Storing
    <2> QED BY <1>2, <2>4, SameServing DEF Route, Asking, Abstract!vars
  <1>3. CASE RouteFails(s)
    <2>1. store[s].pc # "idle" /\ UNCHANGED <<connections, query>>
      BY <1>3, Zenon DEF RouteFails
    <2>2. CASE Supporting(t) = {} /\ StoreReturns(s, None, "no database")
      <3>1. /\ Storing[s].busy /\ Storing[s].type = t
            /\ Storing' = [Storing EXCEPT ![s] = [busy |-> FALSE, type |-> t,
                                                  key |-> None, result |-> "no database"]]
            /\ UNCHANGED <<Serving, Asking>>
        BY <2>1, <2>2, StoreReturnImplements, Zenon
      <3>2. Abstract!Serves(t) = {}
        BY <2>2, SameServes
      <3>3. Abstract!EndStore(s)
        BY <3>1, <3>2, Zenon DEF Abstract!EndStore
      <3> QED BY <3>3, Zenon DEF Abstract!Next
    <2>3. CASE Supporting(t) # {} /\ t \notin HandledTypes /\ StoreReturns(s, None, "unsupported")
      <3>1. /\ Storing[s].busy /\ Storing[s].type = t
            /\ Storing' = [Storing EXCEPT ![s] = [busy |-> FALSE, type |-> t,
                                                  key |-> None, result |-> "unsupported"]]
            /\ UNCHANGED <<Serving, Asking>>
        BY <2>1, <2>3, StoreReturnImplements
      <3>2. Abstract!Serves(t) # {}
        BY <2>3, SameServes
      <3>3. Abstract!EndStore(s)
        BY <2>3, <3>1, <3>2, Zenon DEF Abstract!EndStore
      <3> QED BY <3>3, Zenon DEF Abstract!Next
    <2> QED BY <1>3, <2>2, <2>3, Zenon DEF RouteFails
  <1>4. CASE Write(s)
    <2>1. store[s].pc = "write" /\ UNCHANGED <<connections, query>>
      BY <1>4 DEF Write
    <2>2. t \in HandledTypes /\ store[s].key \in Supporting(t)
      BY <2>1 DEF CallsInv, WritesGoToInstalledPool
    <2>3. store[s].key \in Abstract!Serves(t)
      BY <2>2, SameServes
    <2>4. CASE StoreReturns(s, store[s].key, "stored")
      <3>1. /\ Storing[s].busy /\ Storing[s].type = t
            /\ Storing' = [Storing EXCEPT ![s] = [busy |-> FALSE, type |-> t,
                                                  key |-> store[s].key, result |-> "stored"]]
            /\ UNCHANGED <<Serving, Asking>>
        BY <2>1, <2>4, StoreReturnImplements
      <3>2. Abstract!EndStore(s)
        BY <2>2, <2>3, <3>1, Zenon DEF Abstract!EndStore
      <3> QED BY <3>2, Zenon DEF Abstract!Next
    <2>5. CASE StoreReturns(s, None, "failed")
      <3>1. /\ Storing[s].busy /\ Storing[s].type = t
            /\ Storing' = [Storing EXCEPT ![s] = [busy |-> FALSE, type |-> t,
                                                  key |-> None, result |-> "failed"]]
            /\ UNCHANGED <<Serving, Asking>>
        BY <2>1, <2>5, StoreReturnImplements
      <3>2. Abstract!EndStore(s)
        BY <2>2, <2>3, <3>1, Zenon DEF Abstract!EndStore
      <3> QED BY <3>2, Zenon DEF Abstract!Next
    <2> QED BY <1>4, <2>4, <2>5 DEF Write
  <1> QED BY <1>1, <1>2, <1>3, <1>4 DEF StorerStep

\* The same for a query.
LEMMA QueryReturnImplements ==
    ASSUME TypeOK, NEW q \in Queriers, NEW result, query[q].pc # "idle",
           query' = [query EXCEPT ![q] = [pc |-> "idle", type |-> query[q].type,
                                          pool |-> None, result |-> result]],
           UNCHANGED <<connections, store>>
    PROVE  /\ Asking[q].busy /\ Asking[q].type = query[q].type
           /\ Asking' = [Asking EXCEPT ![q] = [busy |-> FALSE, type |-> query[q].type,
                                               result |-> Reported(result)]]
           /\ UNCHANGED <<Serving, Storing>>
  <1> DEFINE new == [pc |-> "idle", type |-> query[q].type, pool |-> None, result |-> result]
  <1>1. query' = [query EXCEPT ![q] = new]
    OBVIOUS
  <1>2. new.pc = "idle" /\ new.type = query[q].type /\ new.result = result
    OBVIOUS
  <1> HIDE DEF new
  <1>3. Asking' = [Asking EXCEPT ![q] = [busy |-> FALSE, type |-> query[q].type,
                                         result |-> Reported(result)]]
    BY <1>1, <1>2, AskingMoves
  <1>4. Asking[q].busy /\ Asking[q].type = query[q].type
    BY DEF Asking
  <1> QED BY <1>3, <1>4, SameServing DEF Storing

LEMMA QuerierImplements ==
    ASSUME IInv, CallsInv, NEW q \in Queriers, CallQuery(q) \/ QuerierStep(q)
    PROVE  [Abstract!Next]_(Abstract!vars)
  <1> USE DEF IInv
  <1> DEFINE t == query[q].type
             Ended(result) == [pc |-> "idle", type |-> query[q].type, pool |-> None,
                               result |-> result]
  <1>1. CASE CallQuery(q)
    <2>1. PICK u \in SensorTypes :
             query' = [query EXCEPT ![q] = [pc |-> "get", type |-> u,
                                            pool |-> None, result |-> "none"]]
      BY <1>1 DEF CallQuery
    <2>2. Asking' = [Asking EXCEPT ![q] = [busy |-> TRUE, type |-> u, result |-> "none"]]
      BY <2>1, AskingMoves, NothingReported
    <2>3. ~Asking[q].busy
      BY <1>1 DEF CallQuery, Asking
    <2>4. UNCHANGED <<Serving, Storing>>
      BY <1>1, SameServing DEF CallQuery, Storing
    <2>5. Abstract!BeginQuery(q)
      BY <2>2, <2>3, <2>4 DEF Abstract!BeginQuery
    <2> QED BY <2>5 DEF Abstract!Next
  <1>2. CASE GetDBForSensorType(q)
    <2>1. query[q].pc = "get" /\ UNCHANGED <<connections, store>>
      BY <1>2, Zenon DEF GetDBForSensorType
    <2>2. ASSUME NEW k \in Keys,
                 query' = [query EXCEPT ![q] = [pc |-> "query", type |-> t,
                                                pool |-> connections[k].pool, result |-> "none"]]
          PROVE  UNCHANGED Abstract!vars
      <3>1. Asking' = [Asking EXCEPT ![q] = [busy |-> TRUE, type |-> t, result |-> "none"]]
        BY <2>2, AskingMoves, NothingReported
      <3>2. Asking[q] = [busy |-> TRUE, type |-> t, result |-> "none"]
        BY <2>1, NothingReported DEF Asking, CallsInv
      <3>3. Asking' = Asking
        BY <3>1, <3>2 DEF Asking
      <3> QED BY <2>1, <3>3, SameServing DEF Storing, Abstract!vars
    <2>3. CASE Supporting(t) = {} /\ query' = [query EXCEPT ![q] = Ended("no database")]
      <3>1. /\ Asking[q].busy /\ Asking[q].type = t
            /\ Asking' = [Asking EXCEPT ![q] = [busy |-> FALSE, type |-> t,
                                                result |-> Reported("no database")]]
            /\ UNCHANGED <<Serving, Storing>>
        BY <2>1, <2>3, QueryReturnImplements, Zenon
      <3>2. Abstract!Serves(t) = {}
        BY <2>3, SameServes
      <3>3. Abstract!EndQuery(q)
        BY <3>1, <3>2, ReportedResults, Zenon DEF Abstract!EndQuery
      <3> QED BY <3>3, Zenon DEF Abstract!Next
    <2> QED BY <1>2, <2>2, <2>3, Zenon DEF GetDBForSensorType, Supporting
  <1>3. CASE RunQuery(q)
    <2>1. query[q].pc = "query" /\ UNCHANGED <<connections, store>>
      BY <1>3, Zenon DEF RunQuery
    <2>2. \/ pools[query[q].pool] = "closed" /\ query' = [query EXCEPT ![q] = Ended("pool closed")]
          \/ pools[query[q].pool] # "closed" /\ query' = [query EXCEPT ![q] = Ended("value")]
          \/ query' = [query EXCEPT ![q] = Ended("failed")]
      BY <1>3, Zenon DEF RunQuery
    <2>3. ASSUME NEW result, query' = [query EXCEPT ![q] = Ended(result)]
          PROVE  /\ Asking[q].busy /\ Asking[q].type = t
                 /\ Asking' = [Asking EXCEPT ![q] = [busy |-> FALSE, type |-> t,
                                                     result |-> Reported(result)]]
                 /\ UNCHANGED <<Serving, Storing>>
      BY <2>1, <2>3, QueryReturnImplements, Zenon
    <2>4. CASE pools[query[q].pool] # "closed" /\ query' = [query EXCEPT ![q] = Ended("value")]
      <3>1. Abstract!Serves(t) # {}
        BY <2>1, <2>4, SameServes DEF AnswersComeFromInstalledPool
      <3>2. /\ Asking[q].busy /\ Asking[q].type = t
            /\ Asking' = [Asking EXCEPT ![q] = [busy |-> FALSE, type |-> t, result |-> "value"]]
            /\ UNCHANGED <<Serving, Storing>>
        <4>1. Reported("value") = "value"
          BY ReportedResults, Zenon
        <4> QED BY <2>3, <2>4, <4>1
      <3>3. Abstract!EndQuery(q)
        BY <3>1, <3>2, Zenon DEF Abstract!EndQuery
      <3> QED BY <3>3, Zenon DEF Abstract!Next
    <2>5. ASSUME NEW result, query' = [query EXCEPT ![q] = Ended(result)],
                 Reported(result) = "failed"
          PROVE  Abstract!Next
      <3>1. Abstract!EndQuery(q)
        BY <2>3, <2>5, Zenon DEF Abstract!EndQuery
      <3> QED BY <3>1, Zenon DEF Abstract!Next
    <2> QED BY <2>2, <2>4, <2>5, ReportedResults, Zenon
  <1> QED BY <1>1, <1>2, <1>3 DEF QuerierStep

LEMMA NextImplements == IInv /\ CallsInv /\ [Next]_vars => [Abstract!Next]_(Abstract!vars)
  <1> SUFFICES ASSUME IInv, CallsInv, [Next]_vars PROVE [Abstract!Next]_(Abstract!vars)
    OBVIOUS
  <1>1. CASE UNCHANGED vars
    BY <1>1, SameServing, SameCallers DEF vars, Abstract!vars
  <1> QED BY <1>1, ReconcilerImplements, StorerImplements, QuerierImplements DEF Next

\* The safety half of ImplementsSensorDatabases, for any number of databases
\* and goroutines: behind the lock of manager.go a measurement lands in one
\* step in a database that serves its type at that moment, and a query is
\* answered by one.
THEOREM ImplementsSafety == Spec => Abstract!Spec
  <1>1. IInv => TypeOK
    BY DEF IInv
  <1> QED BY <1>1, InitIInv, NextIInv, InitCalls, NextCalls, InitImplements, NextImplements,
             PTL DEF Spec, Abstract!Spec

=============================================================================
