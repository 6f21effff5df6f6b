----------------------------- MODULE Lifecycle ------------------------------
(***************************************************************************)
(* cmd/main.go and internal/api/server.go: the replicas of the program     *)
(* from start to exit.  All run the REST API; the watchers, and with them  *)
(* every connection to a database or broker, run on the leader only        *)
(* (--leader-elect, as config/manager/manager.yaml deploys it).            *)
(*                                                                         *)
(* External: the lease in the Kubernetes API, the election loop of         *)
(* controller-runtime, which renews it once a tick and gives up after      *)
(* RenewDeadline ticks, and the kubelet, which starts a replica again.     *)
(* MaxFaults bounds signals, crashes and losses of the Kubernetes API.     *)
(***************************************************************************)
EXTENDS Naturals

CONSTANTS
    Replicas,
    RenewDeadline,  \* ticks a leader tries to renew: 10 s
    LeaseDuration,  \* ticks a candidate waits for an unrenewed lease: 15 s
    MaxFaults,
    None

Kinds == {"database", "mqttbridge"}

ASSUME LifecycleAssumption ==
    /\ {RenewDeadline, LeaseDuration, MaxFaults} \subseteq Nat
    /\ RenewDeadline < LeaseDuration
    /\ None \notin Replicas

VARIABLES
    process,     \* Replicas -> what main is doing
    connected,   \* Replicas -> the kinds of resources connected by the watchers
    api,         \* Replicas -> the goroutine of the REST API server
    lease,       \* its last holder and the ticks since it was renewed
    unreachable, \* the replicas cut off from the Kubernetes API
    faults       \* number of faults so far

vars == <<process, connected, api, lease, unreachable, faults>>

TypeOK ==
    /\ process \in [Replicas -> {"down", "candidate", "leader", "stopping"}]
    /\ connected \in [Replicas -> SUBSET Kinds]
    /\ api \in [Replicas -> {"none", "sleeping", "listening", "failed", "closed"}]
    /\ lease \in [holder : Replicas \cup {None}, age : 0..LeaseDuration]
    /\ unreachable \subseteq Replicas
    /\ faults \in 0..MaxFaults
    /\ \A p \in Replicas :
          /\ api[p] = "none" <=> process[p] = "down"
          /\ connected[p] # {} => process[p] \in {"leader", "stopping"}

Init ==
    /\ process = [p \in Replicas |-> "down"]
    /\ connected = [p \in Replicas |-> {}]
    /\ api = [p \in Replicas |-> "none"]
    /\ lease = [holder |-> None, age |-> 0]
    /\ unreachable = {}
    /\ faults = 0

-----------------------------------------------------------------------------
(* main *)

\* Up to mgr.Start: the managers, the watchers, the goroutine that sleeps for
\* five seconds before it starts the API.
Boot(p) ==
    /\ process[p] = "down"
    /\ process' = [process EXCEPT ![p] = "candidate"]
    /\ api' = [api EXCEPT ![p] = "sleeping"]
    /\ UNCHANGED <<connected, lease, unreachable, faults>>

\* Mutant: the watchers do not wait for the election.
ConnectUnelected(p) ==
    /\ process[p] \in {"candidate", "leader"}
    /\ \E k \in Kinds \ connected[p] :
          connected' = [connected EXCEPT ![p] = @ \cup {k}]
    /\ UNCHANGED <<process, api, lease, unreachable, faults>>

\* The first Connect of a watcher that succeeds; Watchers has the details.
Connect(p) ==
    /\ process[p] = "leader"
    /\ \E k \in Kinds \ connected[p] :
          connected' = [connected EXCEPT ![p] = @ \cup {k}]
    /\ UNCHANGED <<process, api, lease, unreachable, faults>>

\* The end of the process takes every connection and the API with it.
Ends(p) ==
    /\ process' = [process EXCEPT ![p] = "down"]
    /\ connected' = [connected EXCEPT ![p] = {}]
    /\ api' = [api EXCEPT ![p] = "none"]

\* Whether p holds the lease and failed to renew it for too long.
LeaseLost(p) ==
    /\ process[p] \in {"leader", "stopping"}
    /\ lease.holder = p
    /\ lease.age >= RenewDeadline

\* Mutant: the error of mgr.Start is logged, and the manager started again.
LoseLeaseAndRetry(p) ==
    /\ LeaseLost(p)
    /\ process' = [process EXCEPT ![p] = "candidate"]
    /\ UNCHANGED <<connected, api, lease, unreachable, faults>>

\* mgr.Start returns an error, and main calls os.Exit(1).
LoseLease(p) ==
    /\ LeaseLost(p)
    /\ Ends(p)
    /\ UNCHANGED <<lease, unreachable, faults>>

\* A signal cancels ctx; the manager stops its watchers, but not the election.
Signal(p) ==
    /\ process[p] \in {"candidate", "leader"}
    /\ faults < MaxFaults
    /\ faults' = faults + 1
    /\ process' = [process EXCEPT ![p] = "stopping"]
    /\ UNCHANGED <<connected, api, lease, unreachable>>

\* Mutant: main waits for the API to shut down, which one that failed never does.
ReturnAfterAPI(p) ==
    /\ process[p] = "stopping"
    /\ api[p] = "closed"
    /\ Ends(p)
    /\ UNCHANGED <<lease, unreachable, faults>>

\* mgr.Start returns nil, and main with it, whatever the API is doing.  The
\* lease is not released: LeaderElectionReleaseOnCancel is commented out.
Return(p) ==
    /\ process[p] = "stopping"
    /\ Ends(p)
    /\ UNCHANGED <<lease, unreachable, faults>>

\* A panic, a kill, a second signal.
Crash(p) ==
    /\ process[p] # "down"
    /\ faults < MaxFaults
    /\ faults' = faults + 1
    /\ Ends(p)
    /\ UNCHANGED <<lease, unreachable>>

-----------------------------------------------------------------------------
(* The API server's goroutine *)

\* Start, after the sleep, whether or not there is a database.  An error of
\* ListenAndServe ends the goroutine and is only logged.
StartAPI(p) ==
    /\ api[p] = "sleeping"
    /\ \E result \in {"listening", "failed"} : api' = [api EXCEPT ![p] = result]
    /\ UNCHANGED <<process, connected, lease, unreachable, faults>>

\* Start sees ctx.Done() and calls Shutdown, which accepts no more requests.
ShutdownAPI(p) ==
    /\ process[p] = "stopping"
    /\ api[p] = "listening"
    /\ api' = [api EXCEPT ![p] = "closed"]
    /\ UNCHANGED <<process, connected, lease, unreachable, faults>>

-----------------------------------------------------------------------------
(* The lease, external *)

\* The holder of the lease runs and reaches the Kubernetes API.
Renewed ==
    \E p \in Replicas \ unreachable : process[p] \in {"leader", "stopping"} /\ lease.holder = p

\* A tick passes once nobody is due to end (the election loop's deadline).
Tick ==
    /\ \A p \in Replicas : ~LeaseLost(p)
    /\ \/ Renewed /\ lease' = [lease EXCEPT !.age = 0]
       \/ ~Renewed /\ lease.age < LeaseDuration /\ lease' = [lease EXCEPT !.age = @ + 1]
       \/ ~Renewed /\ lease.age = LeaseDuration /\ lease' = lease
    /\ UNCHANGED <<process, connected, api, unreachable, faults>>

Acquire(p) ==
    /\ process[p] = "candidate" /\ p \notin unreachable
    /\ lease.holder = None \/ lease.age = LeaseDuration
    /\ lease' = [holder |-> p, age |-> 0]
    /\ process' = [process EXCEPT ![p] = "leader"]
    /\ UNCHANGED <<connected, api, unreachable, faults>>

CutOff(p) ==
    /\ faults < MaxFaults
    /\ faults' = faults + 1
    /\ unreachable' = unreachable \cup {p}
    /\ UNCHANGED <<process, connected, api, lease>>

Heal(p) ==
    /\ p \in unreachable
    /\ unreachable' = unreachable \ {p}
    /\ UNCHANGED <<process, connected, api, lease, faults>>

-----------------------------------------------------------------------------

Main(p) == Boot(p) \/ Connect(p) \/ LoseLease(p) \/ Return(p)

API(p) == StartAPI(p) \/ ShutdownAPI(p)

Next ==
    \/ Tick
    \/ \E p \in Replicas :
          \/ Main(p) \/ API(p) \/ Acquire(p) \/ Heal(p)
          \/ Signal(p) \/ Crash(p) \/ CutOff(p)

Spec == Init /\ [][Next]_vars

\* Processes start and run, time passes, a candidate that finds the lease
\* expired takes it, and the Kubernetes API comes back.
Fairness ==
    /\ WF_vars(Tick)
    /\ \A p \in Replicas :
          /\ WF_vars(Main(p)) /\ WF_vars(API(p))
          /\ WF_vars(Acquire(p)) /\ WF_vars(Heal(p))

FairSpec == Spec /\ Fairness

-----------------------------------------------------------------------------
(* Properties *)

\* At most one replica has connections to brokers and databases, across signals,
\* crashes, lost leases and restarts: two would store each message twice.  A
\* replica keeps its connections while it stops or has lost the Kubernetes API;
\* that its process is gone before another takes the lease is what main's exit
\* without delay and the lease that is never released early are for.
OneActiveReplica ==
    \A p, q \in Replicas : connected[p] # {} /\ connected[q] # {} => p = q

\* main.go:78, "there is only one active controller manager", and there is one:
\* when faults end, some replica leads, stays connected to everything and has
\* started its API (which may have failed to bind; nothing tries again).
EventuallyServing ==
    <>[] \E p \in Replicas :
            /\ process[p] = "leader" /\ connected[p] = Kinds
            /\ api[p] \in {"listening", "failed"}

\* main.go:290 logs "REST API server will start after database connection is
\* established".
APIStartsAfterDatabase ==
    \A p \in Replicas : api[p] = "listening" => "database" \in connected[p]

=============================================================================
