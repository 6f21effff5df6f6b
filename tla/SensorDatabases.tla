-------------------------- MODULE SensorDatabases --------------------------
(***************************************************************************)
(* What the database manager promises its callers, without its lock, its   *)
(* map of connections and its pools: each database serves a set of sensor  *)
(* types or nothing; a measurement lands, in one step, in a database that  *)
(* serves its type at that moment, or is refused for a reason that holds   *)
(* at that moment; a query is answered by a database that serves its type  *)
(* at that moment.                                                         *)
(***************************************************************************)
CONSTANTS Keys, SensorTypes, HandledTypes, Specs, Storers, Queriers, None

VARIABLES
    serving,   \* Keys -> the types the database serves, or None
    storing,   \* Storers -> [busy, type, key, result]
    asking     \* Queriers -> [busy, type, result]

vars == <<serving, storing, asking>>

Serves(t) == {k \in Keys : serving[k] # None /\ t \in serving[k]}

Init ==
    /\ serving = [k \in Keys |-> None]
    /\ storing = [s \in Storers |-> [busy |-> FALSE, type |-> None, key |-> None,
                                     result |-> "none"]]
    /\ asking = [q \in Queriers |-> [busy |-> FALSE, type |-> None, result |-> "none"]]

\* A database starts to serve only after it has served nothing: a change of
\* its types is never seen half made.
Withdraw(k) ==
    /\ serving' = [serving EXCEPT ![k] = None]
    /\ UNCHANGED <<storing, asking>>

Provide(k) ==
    /\ serving[k] = None
    /\ \E ts \in Specs : serving' = [serving EXCEPT ![k] = ts]
    /\ UNCHANGED <<storing, asking>>

BeginStore(s) ==
    /\ ~storing[s].busy
    /\ \E t \in SensorTypes :
          storing' = [storing EXCEPT ![s] = [busy |-> TRUE, type |-> t, key |-> None,
                                             result |-> "none"]]
    /\ UNCHANGED <<serving, asking>>

EndStore(s) ==
    LET t == storing[s].type
        End(k, result) == storing' = [storing EXCEPT ![s] =
                              [busy |-> FALSE, type |-> t, key |-> k, result |-> result]]
    IN  /\ storing[s].busy
        /\ \/ t \in HandledTypes /\ \E k \in Serves(t) : End(k, "stored")
           \/ t \in HandledTypes /\ Serves(t) # {} /\ End(None, "failed")
           \/ t \notin HandledTypes /\ Serves(t) # {} /\ End(None, "unsupported")
           \/ Serves(t) = {} /\ End(None, "no database")
        /\ UNCHANGED <<serving, asking>>

BeginQuery(q) ==
    /\ ~asking[q].busy
    /\ \E t \in SensorTypes :
          asking' = [asking EXCEPT ![q] = [busy |-> TRUE, type |-> t, result |-> "none"]]
    /\ UNCHANGED <<serving, storing>>

EndQuery(q) ==
    LET t == asking[q].type
        End(result) == asking' = [asking EXCEPT ![q] =
                              [busy |-> FALSE, type |-> t, result |-> result]]
    IN  /\ asking[q].busy
        /\ \/ Serves(t) # {} /\ End("value")
           \/ Serves(t) = {} /\ End("no database")
           \/ End("failed")
        /\ UNCHANGED <<serving, storing>>

Next ==
    \/ \E k \in Keys : Withdraw(k) \/ Provide(k)
    \/ \E s \in Storers : BeginStore(s) \/ EndStore(s)
    \/ \E q \in Queriers : BeginQuery(q) \/ EndQuery(q)

Fairness ==
    /\ \A s \in Storers : WF_vars(EndStore(s))
    /\ \A q \in Queriers : WF_vars(EndQuery(q))

Spec == Init /\ [][Next]_vars

FairSpec == Spec /\ Fairness

=============================================================================
