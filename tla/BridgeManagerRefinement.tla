----------------------- MODULE BridgeManagerRefinement ----------------------
(* BridgeManager implements BridgeLinks: the session of a bridge is that of
   its one client that is not closed. *)
EXTENDS BridgeManager, FiniteSets

LiveClients(k) == {c \in Clients : Live(c) /\ conn[c].key = k}

Stage(c) ==
    IF conn[c].link = "retrying" THEN "retrying"
    ELSE IF conn[c].armed THEN "resumed" ELSE "fresh"

LinkOf(k) ==
    CASE LiveClients(k) = {} -> "none"
      [] Cardinality(LiveClients(k)) = 1 -> Stage(CHOOSE c \in LiveClients(k) : TRUE)
      [] OTHER -> "clash"

SubsOf(k) == UNION {conn[c].subs : c \in LiveClients(k)}

Links == INSTANCE BridgeLinks WITH
    link <- [k \in Keys |-> LinkOf(k)],
    subs <- [k \in Keys |-> SubsOf(k)]

\* The manager with its map, its clients and their callbacks keeps the promises
\* of BridgeLinks: no step lets a broker see two sessions of a bridge or a
\* subscription on a session that is down, and every resumed session is
\* subscribed under the fairness of BridgeManager.
ImplementsBridgeLinks == Links!Spec

=============================================================================
