--------------------- MODULE DatabaseManagerRefinement ---------------------
(***************************************************************************)
(* The database manager implements SensorDatabases: a database serves the  *)
(* types of its entry in m.connections, a store is done when it returns,   *)
(* and a query that met a closed pool is a failed query.                   *)
(***************************************************************************)
EXTENDS DatabaseManager

Serving == [k \in Keys |-> IF Installed(k) THEN connections[k].types ELSE None]

Storing ==
    [s \in Storers |-> [busy   |-> store[s].pc # "idle",
                        type   |-> store[s].type,
                        key    |-> IF store[s].pc = "idle" THEN store[s].key ELSE None,
                        result |-> store[s].result]]

Reported(result) == IF result = "pool closed" THEN "failed" ELSE result

Asking ==
    [q \in Queriers |-> [busy   |-> query[q].pc # "idle",
                         type   |-> query[q].type,
                         result |-> Reported(query[q].result)]]

Abstract == INSTANCE SensorDatabases
                WITH serving <- Serving, storing <- Storing, asking <- Asking

\* The locking of manager.go makes routing and writing one step: the manager
\* implements SensorDatabases, steps and fairness.
ImplementsSensorDatabases == Abstract!FairSpec

=============================================================================
