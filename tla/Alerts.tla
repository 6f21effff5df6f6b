------------------------------- MODULE Alerts -------------------------------
(***************************************************************************)
(* internal/api: one GET /api/v2/alerts request, from HandleAlerts through *)
(* GetTriggeredAlerts to the average of each device and the status, while  *)
(* measurements go on arriving, time goes on and databases come and go.    *)
(* Requests share nothing they write, so one at a time is enough.          *)
(*                                                                         *)
(* Time is counted in milliseconds and advances by the minute; an average  *)
(* is kept as a sum and a count.  MaxTime and MaxRows bound the run.       *)
(***************************************************************************)
EXTENDS Durations, FiniteSets, FiniteSetsExt

CONSTANTS
    Devices,
    Condition,      \* Devices -> Spec.AlertCondition [operator, threshold], or None
    Disabled,       \* the devices with Spec.Disabled
    Values,         \* what a sensor reports, None for a column left NULL
    Texts,          \* the `since` of requests, None when absent
    MaxTime, MaxRows,
    None

ASSUME AlertsAssumption ==
    /\ IsFiniteSet(Devices) /\ Disabled \subseteq Devices
    /\ \A d \in Devices :
          Condition[d] # None => Condition[d] \in [operator : STRING, threshold : Int]
    /\ None \in Texts /\ Texts \ {None} \subseteq SinceText
    /\ Values \subseteq Int \cup {None} /\ None \notin Int \cup Devices
    /\ {MaxTime, MaxRows} \subseteq Nat

VARIABLES
    now,       \* the clock
    rows,      \* Devices -> set of [time, nr, value], the measurement table
    nilDB,     \* devices for whose sensor type GetDBForSensorType returns nil
    request,   \* the request being served, or the last one
    status,    \* the status it was answered with, 0 before
    response,  \* its alerts so far
    disturbed  \* devices whose answer may have changed or failed (history only)

vars == <<now, rows, nilDB, request, status, response, disturbed>>

NumRows == MapThenSumSet(LAMBDA d : Cardinality(rows[d]), Devices)

Measurement == [time : 0..MaxTime, nr : 1..MaxRows, value : Values]

\* last: the newest row of the window; over: its rows (history only).
Alert == [device : Devices, sum : Int, count : Nat \ {0}, last : 0..MaxTime,
          over : SUBSET Measurement]

\* The types, and that the loop handles each device once.
TypeOK ==
    /\ now \in 0..MaxTime
    /\ \A d \in Devices : rows[d] \subseteq Measurement
    /\ nilDB \subseteq Devices
    /\ request \in [pc : {"idle", "range", "average"}, text : Texts, since : Duration,
                    begun : 0..MaxTime, named : BOOLEAN, asked : SUBSET Devices,
                    todo : SUBSET Devices, device : Devices \cup {None}]
    /\ status \in {0, 200, 400, 404, 405, 500}
    /\ status # 0 => request.pc = "idle"
    /\ request.todo \subseteq request.asked \ {request.device}
    /\ request.pc = "average" <=> request.device # None
    /\ \A a \in response : a \in Alert
    /\ disturbed \subseteq Devices

Idle(text) ==
    [pc |-> "idle", text |-> text, since |-> 0, begun |-> 0, named |-> FALSE, asked |-> {},
     todo |-> {}, device |-> None]

Init ==
    /\ now = 0
    /\ rows = [d \in Devices |-> {}]
    /\ nilDB = {}
    /\ request = Idle(None)
    /\ status = 0
    /\ response = {}
    /\ disturbed = {}

Busy == request.pc # "idle"

Disturb(D) == disturbed' = IF Busy THEN disturbed \cup D ELSE disturbed

-----------------------------------------------------------------------------
(* Around the request *)

\* Without `since` the window is the last minute.
Window(since) == IF since = 0 THEN Minute ELSE since

InWindow(d, from) == {r \in rows[d] : r.time >= from}

\* Rows drop out of the window of the running request.
Tick ==
    LET from == now - Window(request.since)
    IN  /\ now + Minute <= MaxTime
        /\ now' = now + Minute
        /\ Disturb({d \in Devices : InWindow(d, from + Minute) # InWindow(d, from)})
        /\ UNCHANGED <<rows, nilDB, request, status, response>>

\* StoreMeasurement of the ingest side.
Record(d) ==
    /\ NumRows < MaxRows
    /\ \E v \in Values :
          rows' = [rows EXCEPT ![d] = @ \cup {[time |-> now, nr |-> NumRows + 1, value |-> v]}]
    /\ Disturb({d})
    /\ UNCHANGED <<now, nilDB, request, status, response>>

\* A database connects or disconnects.
ChangeDB(d) ==
    /\ nilDB' = SymDiff(nilDB, {d})
    /\ Disturb({d})
    /\ UNCHANGED <<now, rows, request, status, response>>

-----------------------------------------------------------------------------
(* The request *)

\* The parameter `since` as a duration; 0 if there is none.
Since(text) == IF text = None THEN 0 ELSE ParseDuration(text)

Answer(text, code) == request' = Idle(text) /\ status' = code

\* sendError before anything is looked up: the method, a `since` that is
\* refused, or a failed List of the devices.
Reject ==
    /\ ~Busy
    /\ \E text \in Texts :
          \/ Answer(text, 405)
          \/ Since(text) = Invalid /\ Answer(text, 400)
          \/ Since(text) # Invalid /\ Answer(text, 500)
    /\ response' = {}
    /\ disturbed' = {}
    /\ UNCHANGED <<now, rows, nilDB>>

\* parseAlertFilters, and the head of the loop: a device counts if it has a
\* condition, is enabled and matches the name, type, location and room asked for.
\* Several may have the name: the devices of all namespaces are listed.
HandleAlerts ==
    /\ ~Busy
    /\ \E text \in Texts, named \in BOOLEAN, matching \in SUBSET Devices :
          LET asked == {d \in matching \ Disabled : Condition[d] # None}
          IN  /\ Since(text) # Invalid
              /\ request' = [pc |-> "range", text |-> text, since |-> Since(text),
                             begun |-> now, named |-> named, asked |-> asked, todo |-> asked,
                             device |-> None]
    /\ status' = 0
    /\ response' = {}
    /\ disturbed' = {}
    /\ UNCHANGED <<now, rows, nilDB>>

\* A request for a name without an alert is answered with 404.
Respond ==
    /\ request.pc = "range"
    /\ request.todo = {}
    /\ Answer(request.text, IF request.named /\ response = {} THEN 404 ELSE 200)
    /\ UNCHANGED <<now, rows, nilDB, response, disturbed>>

\* Mutant: the loop does not advance.
FindDeviceAgain(d) ==
    /\ request.pc = "range"
    /\ d \in request.todo
    /\ d \notin nilDB /\ rows[d] # {}
    /\ request' = [request EXCEPT !.pc = "average", !.device = d]
    /\ UNCHANGED <<now, rows, nilDB, status, response, disturbed>>

\* The lookup of the database and of the device's row, which the device's first
\* measurement inserted.
FindDevice(d) ==
    /\ request.pc = "range"
    /\ d \in request.todo
    /\ d \notin nilDB /\ rows[d] # {}
    /\ request' = [request EXCEPT !.pc = "average", !.device = d, !.todo = @ \ {d}]
    /\ UNCHANGED <<now, rows, nilDB, status, response, disturbed>>

\* Mutant: an error ends the loop.
SkipAll(d) ==
    /\ request.pc = "range"
    /\ d \in request.todo
    /\ request' = [request EXCEPT !.todo = {}]
    /\ disturbed' = disturbed \cup {d}
    /\ UNCHANGED <<now, rows, nilDB, status, response>>

\* No database, no device row, or a failed query: the device is skipped.
SkipDevice(d) ==
    /\ request.pc = "range"
    /\ d \in request.todo
    /\ request' = [request EXCEPT !.todo = @ \ {d}]
    /\ disturbed' = disturbed \cup {d}
    /\ UNCHANGED <<now, rows, nilDB, status, response>>

Measured(rs) == {r \in rs : r.value # None}

\* SUM of a column.
Total(rs) == MapThenSumSet(LAMBDA r : r.value, rs)

\* The average and the newest of the rows of a window.
Aggregate(d, window, averaged, count) ==
    [device |-> d, over |-> window, last |-> Max({r.time : r \in window}),
     sum |-> Total(averaged), count |-> count]

\* Mutant: the query does not bound the time of what it averages.
AverageOfAll(d, from) ==
    Aggregate(d, InWindow(d, from), Measured(rows[d]),
              Max({1, Cardinality(Measured(rows[d]))}))

\* AVG and MAX(timestamp) over the window; AVG leaves NULLs out, and the AVG of
\* nothing but NULLs is scanned into a float64 as 0.
Average(d, from) ==
    Aggregate(d, InWindow(d, from), Measured(InWindow(d, from)),
              Max({1, Cardinality(Measured(InWindow(d, from)))}))

\* evaluateAlertCondition; other operators are never met.
Triggered(a, c) ==
    \/ c.operator = "above" /\ a.sum > c.threshold * a.count
    \/ c.operator = "below" /\ a.sum < c.threshold * a.count
    \/ c.operator \in {"is", "equals"} /\ a.sum = c.threshold * a.count

\* The query takes the time anew.  A device without a row in the window is
\* skipped, and so is one whose newest row is older than the `since` of the
\* moment the request began.
Evaluate ==
    LET d     == request.device
        from  == now - Window(request.since)
        alert == Average(d, from)
    IN  /\ request.pc = "average"
        /\ request' = [request EXCEPT !.pc = "range", !.device = None]
        /\ response' =
              IF /\ InWindow(d, from) # {}
                 /\ request.since > 0 => alert.last >= request.begun - request.since
                 /\ Triggered(alert, Condition[d])
              THEN response \cup {alert}
              ELSE response
        /\ UNCHANGED <<now, rows, nilDB, status, disturbed>>

\* The pool was closed after GetDBForSensorType, or the statement failed.
EvaluateFails ==
    /\ request.pc = "average"
    /\ request' = [request EXCEPT !.pc = "range", !.device = None]
    /\ disturbed' = disturbed \cup {request.device}
    /\ UNCHANGED <<now, rows, nilDB, status, response>>

Next ==
    \/ Tick
    \/ \E d \in Devices : Record(d) \/ ChangeDB(d) \/ FindDevice(d) \/ SkipDevice(d)
    \/ Reject \/ HandleAlerts \/ Evaluate \/ EvaluateFails \/ Respond

Spec == Init /\ [][Next]_vars

-----------------------------------------------------------------------------
(* Properties *)

\* Whether some row of rs is on the alarming side of a condition.
Alarming(rs, c) ==
    \E r \in rs : \/ c.operator = "above" /\ r.value > c.threshold
                  \/ c.operator = "below" /\ r.value < c.threshold
                  \/ c.operator \in {"is", "equals"}

\* An alert is about measurements of its own window, which reaches back from
\* some moment of the request: at least one of them is on the alarming side of
\* the threshold, whatever arrived or expired between the lookup and the query
\* (SkippedWithoutValue is about windows in which the column is always NULL).
AlertsAreMeasured ==
    \A a \in response :
        /\ Busy => \A r \in a.over : r.time >= request.begun - Window(request.since)
        /\ Measured(a.over) # {} => Alarming(Measured(a.over), Condition[a.device])

\* A device whose database answers and whose rows and window do not change
\* while the request runs is in the answer if all its values in the window are
\* alarming: the failure of another device, or the time filter, never hides it.
NoAlertHidden ==
    request.pc = "range" /\ request.todo = {} =>
        \A d \in request.asked \ disturbed :
            LET values == Measured(InWindow(d, now - Window(request.since)))
            IN  /\ values # {}
                /\ \A r \in values : Alarming({r}, Condition[d])
                /\ Condition[d].operator \in {"above", "below"}
                => \E a \in response : a.device = d

\* What API.md:106 gives as examples, one term of a unit min, m, h, s or d, is
\* never refused and, unless it is zero, opens a window of just that length, as
\* long as the type can hold it: replacing one abbreviation inside another, taking "1min" for a text in
\* days, or an overflow would be found here.
Documented ==
    [min |-> Minute, m |-> Minute, h |-> Hour, s |-> Second, d |-> 24 * Hour]

SinceMeansWhatItSays ==
    LET text   == request.text
        term   == text.terms[1]
        length == term.number * Documented[term.letters]
    IN  /\ text # None
        /\ Len(text.terms) = 1 /\ ~text.negative /\ term.letters \in DOMAIN Documented
        /\ length < Limit
        => status # 400 /\ (Busy /\ length > 0 => Window(request.since) = length)

\* alerts_service.go:104 says of a device without a value: "Skip if no
\* measurement value available".
SkippedWithoutValue == \A a \in response : Measured(a.over) # {}

=============================================================================
