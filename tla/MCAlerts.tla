------------------------------ MODULE MCAlerts ------------------------------
(* An empty tank and a hot room; the column of a condition may be NULL in a
   measurement.  A duration holds a little more than four days. *)
EXTENDS Alerts

CONSTANTS tank, room

MCDevices == {tank, room}
MCCondition ==
    [d \in MCDevices |-> IF d = room THEN [operator |-> "above", threshold |-> 1]
                                     ELSE [operator |-> "below", threshold |-> 1]]
MCValues == {0, 3, None}

Text(number, letters) == [negative |-> FALSE, terms |-> <<[number |-> number, letters |-> letters]>>]

MCTexts ==
    {None, Text(1, "min"), Text(30, "s"), Text(1, "d"), Text(5, "d"), Text(2, "hours"),
     [negative |-> TRUE, terms |-> <<[number |-> 5, letters |-> "m"]>>],
     [negative |-> FALSE, terms |-> <<[number |-> 1, letters |-> "h"],
                                      [number |-> 30, letters |-> "sec"]>>]}

MCMaxTime == 2 * Minute
MCLimit == 100 * Hour

=============================================================================
