---------------------------- MODULE MCLifecycle -----------------------------
(* Two replicas, as during a rolling update. *)
EXTENDS Lifecycle

CONSTANTS old, new

MCReplicas == {old, new}

=============================================================================
