------------------------------- MODULE Ingest -------------------------------
(***************************************************************************)
(* From the broker to the database: the telemetry handlers of the bridges' *)
(* clients (Telemetry) run their StoreMeasurement calls on the database    *)
(* manager (DatabaseManager), whose reconcilers connect and disconnect     *)
(* databases meanwhile.  A client is one storer of the manager: its router *)
(* hands over one message at a time and runs the callback, so that a store *)
(* which waits for m.mu keeps every later message of that client waiting,  *)
(* but not those of a client that has replaced it.                         *)
(***************************************************************************)
EXTENDS Telemetry

CONSTANTS Keys, HandledTypes, Specs, Pools, Reconcilers

VARIABLES
    mu, connections, pools, job, store, query,  \* those of DatabaseManager
    last  \* Keys -> types of the last call if it connected, else None (history only)

DB == INSTANCE DatabaseManager WITH Storers <- Clients, Queriers <- {}

ASSUME IngestAssumption ==
    /\ HandledTypes \subseteq SensorTypes
    /\ Specs \subseteq SUBSET SensorTypes
    /\ None \notin Keys \cup Pools
    /\ None \notin Specs \cup DB!Connection

managerVars == <<mu, connections, pools, job, store, query>>

ingestVars == <<vars, managerVars, last>>

IngestInit == Init /\ DB!Init /\ last = [k \in Keys |-> None]

-----------------------------------------------------------------------------

\* Mutant: the call runs in a goroutine of its own.
CallStoreInBackground(c) ==
    /\ handler[c].pc = "store"
    /\ DB!CallStore(c)
    /\ store'[c].type = handler[c].sensor
    /\ ReadingDone(c)
    /\ UNCHANGED <<device, live, inbox, rows, sent, changes, last>>

\* storeMeasurement calls Manager.StoreMeasurement with the device's sensor type.
CallStoreMeasurement(c) ==
    /\ handler[c].pc = "store"
    /\ DB!CallStore(c)
    /\ store'[c].type = handler[c].sensor
    /\ UNCHANGED <<vars, last>>

\* The call goes on in the manager; its return is that of storeMeasurement.
StoreMeasurementStep(c) ==
    /\ DB!StorerStep(c)
    /\ \/ store'[c].pc # "idle" /\ UNCHANGED vars
       \/ store'[c].pc = "idle" /\ store'[c].result = "stored" /\ Store(c)
       \/ store'[c].pc = "idle" /\ store'[c].result # "stored" /\ StoreFails(c)
    /\ UNCHANGED last

\* The rest of handleMessage, which no lock protects.
HandlerRuns(c) ==
    /\ \/ Take(c) \/ Discard(c) \/ NextReading(c) \/ HandleMessageReturns(c)
       \/ Find(c) \/ FindNothing(c)
    /\ UNCHANGED <<managerVars, last>>

CallManager(w) ==
    /\ DB!CallConnect(w) \/ DB!CallDisconnect(w)
    /\ UNCHANGED <<vars, last>>

Reconcile(w) ==
    /\ DB!ReconcilerStep(w)
    /\ last' = IF job'[w].pc # "idle" THEN last
               ELSE [last EXCEPT ![job[w].key] = IF job[w].pc = "install" THEN job[w].types
                                                                        ELSE None]
    /\ UNCHANGED vars

Environment ==
    /\ \/ \E c \in Clients : Connect(c) \/ Disconnect(c) \/ Lose(c) \/ Publish(c)
       \/ \E d \in Devices : ChangeDevice(d)
    /\ UNCHANGED <<managerVars, last>>

-----------------------------------------------------------------------------

RouterStep(c) == HandlerRuns(c) \/ CallStoreMeasurement(c) \/ StoreMeasurementStep(c)

IngestNext ==
    \/ Environment
    \/ \E c \in Clients : RouterStep(c)
    \/ \E w \in Reconcilers : CallManager(w) \/ Reconcile(w)

\* The fairness of DatabaseManager; a client's router runs while it has messages.
IngestFairness ==
    /\ \A c \in Clients : WF_ingestVars(RouterStep(c))
    /\ \A w \in Reconcilers :
          /\ WF_ingestVars(Reconcile(w))
          /\ SF_ingestVars(DB!Lock(w) /\ Reconcile(w))

IngestSpec == IngestInit /\ [][IngestNext]_ingestVars /\ IngestFairness

-----------------------------------------------------------------------------
(* Properties *)

\* The types of both components, and that a client is inside the manager only
\* while its handler stores a reading, of the sensor type it found.
IngestTypeOK ==
    /\ TypeOK
    /\ DB!TypeOK
    /\ last \in [Keys -> Specs \cup {None}]
    /\ \A c \in Clients : store[c].pc # "idle" =>
          handler[c].pc = "store" /\ store[c].type = handler[c].sensor

\* Connect closes the working connection before it opens the new one, yet no
\* measurement falls into the gap: StoreMeasurement answers "no database" only
\* when, of the Connect and Disconnect calls that have returned, the last one
\* of each database failed or left a database without the sensor type.
ReconnectLosesNothing ==
    [][\A c \in Clients :
          store[c].pc # "idle" /\ store'[c].pc = "idle" /\ store'[c].result = "no database" =>
              \A k \in Keys : last[k] = None \/ store[c].type \notin last[k]]_ingestVars

\* Every message a client receives is handled to its end or lost with the
\* client's session, although each reading waits for m.mu behind Connect calls
\* that may come without end.
MessagesAreHandled ==
    \A c \in Clients : inbox[c] # <<>> ~> inbox[c] = <<>> /\ handler[c].pc = "idle"

=============================================================================
