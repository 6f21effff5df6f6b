------------------------- MODULE MCDatabaseManager -------------------------
(* Model values for the run of DatabaseManager. *)
EXTENDS DatabaseManagerRefinement

CONSTANTS moisture, power

\* One type with a handler and one without; a database lists one or both.
MCSensorTypes == {moisture, power}
MCHandledTypes == {moisture}
MCSpecs == {{moisture}, {moisture, power}}

=============================================================================
