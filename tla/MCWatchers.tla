----------------------------- MODULE MCWatchers -----------------------------
(* The resources of the runs of Watchers. *)
EXTENDS Watchers

CONSTANTS d1, b1

MCDatabases == {d1}
MCBridges == {b1}

=============================================================================
