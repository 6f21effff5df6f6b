-------------------------- MODULE TelemetryProofs --------------------------
(***************************************************************************)
(* The safety properties of Telemetry, for every number of clients,        *)
(* devices and messages.                                                   *)
(***************************************************************************)
EXTENDS Telemetry, TLAPS

HandlerType == [pc : {"idle", "range", "find", "store"},
                id : 0..MaxMessages, todo : SUBSET ShortAddrs,
                short : ShortAddrs \cup {None}, device : Devices \cup {None},
                sensor : SensorTypes \cup {None}]

RowType == [device : Devices, client : Clients, id : 1..MaxMessages]

\* What the running call of handleMessage has found so far.
CallInv ==
    \A c \in Clients :
        /\ handler[c].pc # "idle" => handler[c].id \in 1..sent
        /\ handler[c].pc \in {"find", "store"} => handler[c].short \in ShortAddrs
        /\ handler[c].pc = "store" => handler[c].device \in Devices /\ handler[c].sensor \in SensorTypes

\* A client hands its messages over in the order they were published.
InboxInv ==
    \A c \in Clients : \A i \in 1..Len(inbox[c]) :
        /\ inbox[c][i].id <= sent
        /\ \A j \in 1..Len(inbox[c]) : i < j => inbox[c][i].id < inbox[c][j].id
        /\ handler[c].pc # "idle" => handler[c].id < inbox[c][i].id

\* A client's rows are older than what it has still to handle.
RowsInv ==
    \A k \in 1..Len(rows) :
        /\ rows[k].id <= sent
        /\ \A i \in 1..Len(inbox[rows[k].client]) : rows[k].id < inbox[rows[k].client][i].id
        /\ handler[rows[k].client].pc # "idle" => rows[k].id <= handler[rows[k].client].id
        /\ \A l \in 1..Len(rows) :
              k < l /\ rows[k].client = rows[l].client => rows[k].id <= rows[l].id

\* The call of handleMessage on c has still to come to reading a of message i.
Owes(c, i, a) ==
    /\ handler[c].pc # "idle"
    /\ handler[c].id = i
    /\ a \in handler[c].todo \/ (handler[c].pc \in {"find", "store"} /\ handler[c].short = a)

PendingInv ==
    \A i \in 1..MaxMessages, a \in ShortAddrs :
        <<i, a>> \in pending => \E c \in Clients : Owes(c, i, a)

\* The inductive invariant.
IInv == TypeOK /\ CallInv /\ InboxInv /\ RowsInv /\ PendingInv

-----------------------------------------------------------------------------

\* The parts of TypeOK.
Handlers == handler \in [Clients -> HandlerType]
Inboxes == inbox \in [Clients -> Seq(Message)]
RowsTyped == rows \in Seq(RowType)
Pendings == pending \subseteq (1..MaxMessages) \X ShortAddrs
Counts == sent \in 0..MaxMessages /\ changes \in 0..MaxChanges
World == device \in [Devices -> Resource] /\ live \subseteq Clients

Typed == Handlers /\ Inboxes /\ RowsTyped /\ Pendings /\ Counts /\ World

LEMMA TypeParts == (TypeOK <=> Typed) /\ (TypeOK' <=> Typed')
  BY DEF TypeOK, Typed, Handlers, Inboxes, RowsTyped, Pendings, Counts, World,
         HandlerType, RowType

\* A call in its loop, with the readings todo of message i to come.
Ranging(i, todo) == [Idle EXCEPT !.pc = "range", !.id = i, !.todo = todo]

LEMMA IdleTyped == Idle \in HandlerType /\ Idle.pc = "idle"
  BY TelemetryAssumption DEF Idle, HandlerType

LEMMA RangingTyped ==
    ASSUME NEW i \in 0..MaxMessages, NEW todo \in SUBSET ShortAddrs
    PROVE  /\ Ranging(i, todo) \in HandlerType
           /\ Ranging(i, todo).pc = "range"
           /\ Ranging(i, todo).id = i
           /\ Ranging(i, todo).todo = todo
  BY DEF Ranging, Idle, HandlerType

\* A call takes a step: the handlers of the other clients stay as they are.
LEMMA HandlerStepEffect ==
    ASSUME Handlers, NEW c \in Clients, NEW h \in HandlerType, handler' = [handler EXCEPT ![c] = h]
    PROVE  /\ Handlers'
           /\ handler'[c] = h
           /\ \A x \in Clients \ {c} : handler'[x] = handler[x]
  BY DEF Handlers

LEMMA TailFacts ==
    ASSUME NEW m \in Seq(Message), m # <<>>
    PROVE  /\ Head(m) = m[1] /\ Head(m) \in Message
           /\ Len(m) \in Nat /\ Len(m) >= 1
           /\ Tail(m) \in Seq(Message)
           /\ Len(Tail(m)) = Len(m) - 1
           /\ \A i \in 1..Len(Tail(m)) : Tail(m)[i] = m[i + 1] /\ i + 1 \in 1..Len(m)
  OBVIOUS

LEMMA MessageIds ==
    ASSUME Inboxes, NEW c \in Clients, NEW i \in 1..Len(inbox[c])
    PROVE  inbox[c][i] \in Message /\ inbox[c][i].id \in 1..MaxMessages
  <1>1. inbox[c] \in Seq(Message)
    BY DEF Inboxes
  <1>2. inbox[c][i] \in Message
    BY <1>1
  <1> QED BY <1>2 DEF Message

LEMMA RowIds ==
    ASSUME RowsTyped, NEW k \in 1..Len(rows)
    PROVE  rows[k] \in RowType /\ rows[k].id \in 1..MaxMessages /\ rows[k].client \in Clients
  <1>1. rows[k] \in RowType
    BY DEF RowsTyped
  <1> QED BY <1>1 DEF RowType

LEMMA InitIInv == Init => IInv
  <1> SUFFICES ASSUME Init PROVE IInv
    OBVIOUS
  <1> USE TelemetryAssumption DEF Init
  <1>1. Handlers /\ Inboxes /\ RowsTyped
    <2>1. Handlers
      BY IdleTyped DEF Handlers
    <2>2. Inboxes /\ RowsTyped
      BY DEF Inboxes, RowsTyped
    <2> QED BY <2>1, <2>2
  <1>2. Pendings /\ Counts /\ World
    <2>1. Pendings
      BY DEF Pendings
    <2>2. Counts
      BY DEF Counts
    <2>3. World
      BY DEF World
    <2> QED BY <2>1, <2>2, <2>3
  <1>3. CallInv /\ InboxInv /\ RowsInv /\ PendingInv
    BY DEF CallInv, InboxInv, RowsInv, PendingInv, Idle
  <1> QED BY <1>1, <1>2, <1>3, TypeParts DEF IInv, Typed

-----------------------------------------------------------------------------
(* The sessions, the brokers, and the controllers that own the devices *)

LEMMA SessionStep ==
    ASSUME IInv, NEW c \in Clients, Connect(c) \/ Disconnect(c)
    PROVE  IInv'
  <1>1. Typed
    BY TypeParts DEF IInv
  <1>2. /\ live' = live \cup {c} \/ live' = live \ {c}
        /\ UNCHANGED <<device, inbox, handler, rows, pending, sent, changes>>
    BY DEF Connect, Disconnect
  <1>3. Typed'
    BY <1>1, <1>2 DEF Typed, Handlers, Inboxes, RowsTyped, Pendings, Counts, World
  <1>4. CallInv' /\ InboxInv' /\ RowsInv' /\ PendingInv'
    BY <1>2 DEF IInv, CallInv, InboxInv, RowsInv, PendingInv, Owes
  <1> QED BY <1>3, <1>4, TypeParts DEF IInv

\* What is lost leaves the rows in order, and it was owed by nobody yet.
LEMMA LoseStep == ASSUME IInv, NEW c \in Clients, Lose(c) PROVE IInv'
  <1>1. Typed
    BY TypeParts DEF IInv
  <1>2. /\ inbox' = [inbox EXCEPT ![c] = <<>>]
        /\ UNCHANGED <<device, live, handler, rows, pending, sent, changes>>
    BY DEF Lose
  <1>3. /\ Inboxes' /\ Len(inbox'[c]) = 0
        /\ \A x \in Clients \ {c} : inbox'[x] = inbox[x]
    BY <1>1, <1>2 DEF Typed, Inboxes
  <1>4. Typed'
    BY <1>1, <1>2, <1>3 DEF Typed, Handlers, RowsTyped, Pendings, Counts, World
  <1>5. CallInv' /\ PendingInv'
    BY <1>2 DEF IInv, CallInv, PendingInv, Owes
  <1>6. \A x \in Clients : \A i \in 1..Len(inbox'[x]) : x # c
    BY <1>3
  <1>7. InboxInv'
    BY <1>2, <1>3, <1>6 DEF IInv, InboxInv
  <1>8. RowsInv'
    <2>1. \A k \in 1..Len(rows) : rows[k].client \in Clients
      BY <1>1, RowIds DEF Typed
    <2> QED BY <1>2, <1>3, <1>6, <2>1 DEF IInv, RowsInv
  <1> QED BY <1>4, <1>5, <1>7, <1>8, TypeParts DEF IInv

LEMMA PublishStep == ASSUME IInv, NEW c \in Clients, Publish(c) PROVE IInv'
  <1> USE TelemetryAssumption
  <1>1. Typed
    BY TypeParts DEF IInv
  <1>2. sent \in Nat /\ sent' = sent + 1 /\ sent' \in 1..MaxMessages /\ Counts'
    BY <1>1 DEF Publish, Typed, Counts
  <1>3. PICK m \in Message : m.id = sent' /\ inbox' = [inbox EXCEPT ![c] = Append(inbox[c], m)]
    <2>1. PICK readings \in SUBSET ShortAddrs :
             inbox' = [inbox EXCEPT ![c] = Append(@, [id |-> sent', readings |-> readings])]
      BY DEF Publish
    <2> DEFINE m == [id |-> sent', readings |-> readings]
    <2>2. m \in Message /\ m.id = sent'
      BY <1>2 DEF Message
    <2> QED BY <2>1, <2>2
  <1>4. inbox[c] \in Seq(Message) /\ Len(inbox[c]) \in Nat
    BY <1>1 DEF Typed, Inboxes
  <1>5. Append(inbox[c], m) \in Seq(Message)
    BY <1>4
  <1>6. inbox'[c] = Append(inbox[c], m) /\ Inboxes' /\ \A x \in Clients \ {c} : inbox'[x] = inbox[x]
    BY <1>1, <1>3, <1>5 DEF Typed, Inboxes
  <1>7. Handlers' /\ RowsTyped' /\ Pendings' /\ World'
    BY <1>1 DEF Publish, Typed, Handlers, RowsTyped, Pendings, World
  <1>8. /\ handler' = handler /\ rows' = rows /\ pending' = pending
    BY DEF Publish
  \* Every message of an inbox is an old one, or the new one at the end.
  <1>9. ASSUME NEW x \in Clients, NEW i \in 1..Len(inbox'[x])
        PROVE  \/ i \in 1..Len(inbox[x]) /\ inbox'[x][i] = inbox[x][i]
               \/ x = c /\ i = Len(inbox'[x]) /\ inbox'[x][i] = m
    BY <1>4, <1>6
  <1>10. \A x \in Clients : \A i \in 1..Len(inbox[x]) : inbox[x][i].id \in Nat /\ inbox[x][i].id <= sent
    BY <1>1, MessageIds DEF Typed, IInv, InboxInv
  <1>11. CallInv'
    BY <1>2, <1>8 DEF IInv, CallInv
  <1>12. InboxInv'
    <2> SUFFICES ASSUME NEW x \in Clients, NEW i \in 1..Len(inbox'[x])
                 PROVE  /\ inbox'[x][i].id <= sent'
                        /\ \A j \in 1..Len(inbox'[x]) : i < j => inbox'[x][i].id < inbox'[x][j].id
                        /\ handler[x].pc # "idle" => handler[x].id < inbox'[x][i].id
      BY <1>8 DEF InboxInv
    <2>1. inbox'[x][i].id <= sent'
      BY <1>2, <1>3, <1>9, <1>10
    <2>2. ASSUME NEW j \in 1..Len(inbox'[x]), i < j PROVE inbox'[x][i].id < inbox'[x][j].id
      <3>1. i \in 1..Len(inbox[x]) /\ inbox'[x][i] = inbox[x][i]
        BY <1>4, <1>6, <1>9, <2>2
      <3> QED BY <1>2, <1>3, <1>9, <1>10, <2>2, <3>1 DEF IInv, InboxInv
    <2>3. handler[x].pc # "idle" => handler[x].id < inbox'[x][i].id
      BY <1>2, <1>3, <1>9 DEF IInv, InboxInv, CallInv
    <2> QED BY <2>1, <2>2, <2>3
  <1>13. RowsInv'
    <2> SUFFICES ASSUME NEW k \in 1..Len(rows)
                 PROVE  /\ rows[k].id <= sent'
                        /\ \A i \in 1..Len(inbox'[rows[k].client]) :
                              rows[k].id < inbox'[rows[k].client][i].id
      BY <1>8 DEF IInv, RowsInv
    <2>1. rows[k].id \in Nat /\ rows[k].id <= sent /\ rows[k].client \in Clients
      BY <1>1, RowIds DEF Typed, IInv, RowsInv
    <2> QED BY <1>2, <1>3, <1>9, <2>1 DEF IInv, RowsInv
  <1>14. PendingInv'
    BY <1>8 DEF IInv, PendingInv, Owes
  <1> QED BY <1>2, <1>6, <1>7, <1>11, <1>12, <1>13, <1>14, TypeParts DEF IInv, Typed

LEMMA ChangeDeviceStep == ASSUME IInv, NEW d \in Devices, ChangeDevice(d) PROVE IInv'
  <1>1. Typed
    BY TypeParts DEF IInv
  <1>2. World'
    BY <1>1 DEF ChangeDevice, Typed, World
  <1>3. Handlers' /\ Inboxes' /\ RowsTyped' /\ Pendings' /\ Counts'
    BY <1>1, TelemetryAssumption
       DEF ChangeDevice, Typed, Handlers, Inboxes, RowsTyped, Pendings, Counts
  <1>4. CallInv' /\ InboxInv' /\ RowsInv' /\ PendingInv'
    BY DEF ChangeDevice, IInv, CallInv, InboxInv, RowsInv, PendingInv, Owes
  <1> QED BY <1>2, <1>3, <1>4, TypeParts DEF IInv, Typed

-----------------------------------------------------------------------------
(* The head of an inbox leaves it *)

HeadLeaves(c) == inbox[c] # <<>> /\ inbox' = [inbox EXCEPT ![c] = Tail(@)]

LEMMA HeadLeavesEffect ==
    ASSUME Inboxes, NEW c \in Clients, HeadLeaves(c)
    PROVE  /\ Inboxes'
           /\ \A x \in Clients \ {c} : inbox'[x] = inbox[x]
           /\ 1 \in 1..Len(inbox[c]) /\ Head(inbox[c]) = inbox[c][1]
           /\ \A i \in 1..Len(inbox'[c]) :
                 /\ i + 1 \in 1..Len(inbox[c]) /\ 1 < i + 1
                 /\ inbox'[c][i] = inbox[c][i + 1]
  <1>1. inbox[c] \in Seq(Message)
    BY DEF Inboxes
  <1>2. /\ inbox'[c] = Tail(inbox[c]) /\ Tail(inbox[c]) \in Seq(Message)
        /\ \A x \in Clients \ {c} : inbox'[x] = inbox[x]
    BY <1>1, TailFacts DEF Inboxes, HeadLeaves
  <1>3. Inboxes'
    BY <1>1, <1>2, TailFacts DEF Inboxes, HeadLeaves
  <1>4. \A i \in 1..Len(inbox'[c]) : i + 1 \in 1..Len(inbox[c]) /\ inbox'[c][i] = inbox[c][i + 1]
    BY <1>1, <1>2, TailFacts DEF HeadLeaves
  <1> QED BY <1>1, <1>2, <1>3, <1>4, TailFacts DEF HeadLeaves

\* What is left in the inboxes was there before: its order holds, and it is
\* younger than the rows and the running calls.
LEMMA LeavesOrder ==
    ASSUME IInv, NEW c \in Clients, HeadLeaves(c), sent' = sent
    PROVE  /\ \A x \in Clients : \A i \in 1..Len(inbox'[x]) :
                 /\ inbox'[x][i].id <= sent'
                 /\ \A j \in 1..Len(inbox'[x]) : i < j => inbox'[x][i].id < inbox'[x][j].id
                 /\ handler[x].pc # "idle" => handler[x].id < inbox'[x][i].id
           /\ \A i \in 1..Len(inbox'[c]) : inbox[c][1].id < inbox'[c][i].id
           /\ \A k \in 1..Len(rows) : \A i \in 1..Len(inbox'[rows[k].client]) :
                 rows[k].id < inbox'[rows[k].client][i].id
  <1>1. Typed
    BY TypeParts DEF IInv
  <1>2. /\ Inboxes'
        /\ \A x \in Clients \ {c} : inbox'[x] = inbox[x]
        /\ 1 \in 1..Len(inbox[c])
        /\ \A i \in 1..Len(inbox'[c]) :
              /\ i + 1 \in 1..Len(inbox[c]) /\ 1 < i + 1
              /\ inbox'[c][i] = inbox[c][i + 1]
    BY <1>1, HeadLeavesEffect DEF Typed
  <1>3. \A x \in Clients : \A i \in 1..Len(inbox[x]) :
           /\ inbox[x][i].id <= sent
           /\ \A j \in 1..Len(inbox[x]) : i < j => inbox[x][i].id < inbox[x][j].id
           /\ handler[x].pc # "idle" => handler[x].id < inbox[x][i].id
    BY DEF IInv, InboxInv
  <1>4. ASSUME NEW x \in Clients, NEW i \in 1..Len(inbox'[x])
        PROVE  /\ inbox'[x][i].id <= sent'
               /\ \A j \in 1..Len(inbox'[x]) : i < j => inbox'[x][i].id < inbox'[x][j].id
               /\ handler[x].pc # "idle" => handler[x].id < inbox'[x][i].id
    <2>1. CASE x = c
      <3>1. inbox'[x][i].id <= sent' /\ (handler[x].pc # "idle" => handler[x].id < inbox'[x][i].id)
        BY <1>2, <1>3, <2>1
      <3>2. ASSUME NEW j \in 1..Len(inbox'[x]), i < j PROVE inbox'[x][i].id < inbox'[x][j].id
        <4>1. i + 1 < j + 1
          BY <3>2
        <4> QED BY <1>2, <1>3, <2>1, <4>1
      <3> QED BY <3>1, <3>2
    <2>2. CASE x # c
      BY <1>2, <1>3, <2>2
    <2> QED BY <2>1, <2>2
  <1>5. \A i \in 1..Len(inbox'[c]) : inbox[c][1].id < inbox'[c][i].id
    BY <1>2, <1>3
  <1>6. ASSUME NEW k \in 1..Len(rows), NEW i \in 1..Len(inbox'[rows[k].client])
        PROVE  rows[k].id < inbox'[rows[k].client][i].id
    <2>1. /\ rows[k].client \in Clients
          /\ \A j \in 1..Len(inbox[rows[k].client]) : rows[k].id < inbox[rows[k].client][j].id
      BY <1>1, RowIds DEF Typed, IInv, RowsInv
    <2> QED BY <1>2, <2>1
  <1> QED BY <1>4, <1>5, <1>6

LEMMA DiscardStep == ASSUME IInv, NEW c \in Clients, Discard(c) PROVE IInv'
  <1>1. Typed
    BY TypeParts DEF IInv
  <1>2. /\ HeadLeaves(c) /\ sent' = sent /\ handler' = handler /\ rows' = rows
        /\ pending' = pending /\ changes' = changes /\ device' = device /\ live' = live
    BY DEF Discard, HeadLeaves
  <1>3. Typed'
    BY <1>1, <1>2, HeadLeavesEffect
       DEF Typed, Handlers, RowsTyped, Pendings, Counts, World
  <1>4. CallInv' /\ PendingInv'
    BY <1>2 DEF IInv, CallInv, PendingInv, Owes
  <1>5. InboxInv'
    BY <1>2, LeavesOrder DEF InboxInv
  <1>6. RowsInv'
    BY <1>2, LeavesOrder DEF IInv, RowsInv
  <1> QED BY <1>3, <1>4, <1>5, <1>6, TypeParts DEF IInv

\* The message that is taken is the client's oldest, and younger than its rows.
LEMMA TakeStep == ASSUME IInv, NEW c \in Clients, Take(c) PROVE IInv'
  <1> USE TelemetryAssumption
  <1>1. Typed
    BY TypeParts DEF IInv
  <1>2. PICK m \in Message : m = inbox[c][1] /\ m = Head(inbox[c])
    BY <1>1, TailFacts DEF Take, Typed, Inboxes
  <1>3. m.id \in 1..MaxMessages /\ m.readings \in SUBSET ShortAddrs
    BY DEF Message
  <1> DEFINE h == Ranging(m.id, m.readings)
  <1>4. h \in HandlerType /\ h.pc = "range" /\ h.id = m.id /\ h.todo = m.readings
    BY <1>3, RangingTyped
  <1>5. /\ handler[c].pc = "idle" /\ HeadLeaves(c)
        /\ handler' = [handler EXCEPT ![c] = h]
        /\ Begin(m)
        /\ device' = device /\ live' = live /\ rows' = rows /\ sent' = sent /\ changes' = changes
    BY <1>2 DEF Take, HeadLeaves, Ranging
  <1> HIDE DEF h
  <1>6. Handlers' /\ handler'[c] = h /\ \A x \in Clients \ {c} : handler'[x] = handler[x]
    BY <1>1, <1>4, <1>5, HandlerStepEffect DEF Typed
  <1>7. Inboxes' /\ 1 \in 1..Len(inbox[c])
    BY <1>1, <1>5, HeadLeavesEffect DEF Typed
  <1>8. pending' = pending \cup ({m.id} \X m.readings)
    BY <1>5 DEF Begin
  <1>11. Pendings'
    BY <1>1, <1>3, <1>8 DEF Typed, Pendings
  <1>12. Typed'
    BY <1>1, <1>5, <1>6, <1>7, <1>11 DEF Typed, RowsTyped, Counts, World
  <1>13. m.id \in 1..sent
    BY <1>1, <1>2, <1>3, <1>7 DEF IInv, InboxInv, Typed, Counts
  <1>14. CallInv'
    BY <1>4, <1>5, <1>6, <1>13 DEF IInv, CallInv
  <1>15. InboxInv'
    <2>1. \A i \in 1..Len(inbox'[c]) : m.id < inbox'[c][i].id
      BY <1>2, <1>5, LeavesOrder
    <2> QED BY <1>4, <1>5, <1>6, <2>1, LeavesOrder DEF InboxInv
  <1>16. RowsInv'
    <2>1. \A k \in 1..Len(rows) : rows[k].client \in Clients /\ rows[k].id \in Nat
      BY <1>1, RowIds DEF Typed
    <2>2. \A k \in 1..Len(rows) : rows[k].client = c => rows[k].id <= m.id
      BY <1>2, <1>3, <1>7, <2>1 DEF IInv, RowsInv
    <2>3. \A k \in 1..Len(rows) :
             handler'[rows[k].client].pc # "idle" => rows[k].id <= handler'[rows[k].client].id
      BY <1>4, <1>6, <2>1, <2>2 DEF IInv, RowsInv
    <2>4. \A k \in 1..Len(rows) : \A i \in 1..Len(inbox'[rows[k].client]) :
             rows[k].id < inbox'[rows[k].client][i].id
      BY <1>5, LeavesOrder
    <2> QED BY <1>5, <2>3, <2>4 DEF IInv, RowsInv
  <1>17. PendingInv'
    <2> SUFFICES ASSUME NEW i \in 1..MaxMessages, NEW a \in ShortAddrs, <<i, a>> \in pending'
                 PROVE  \E x \in Clients : Owes(x, i, a)'
      BY DEF PendingInv
    <2>1. CASE i = m.id /\ a \in m.readings
      <3>1. Owes(c, i, a)'
        BY <1>4, <1>6, <2>1 DEF Owes
      <3> QED BY <3>1
    <2>2. CASE <<i, a>> \in pending
      <3>1. PICK x \in Clients : Owes(x, i, a)
        BY <2>2 DEF IInv, PendingInv
      <3>2. Owes(x, i, a)'
        BY <1>5, <1>6, <3>1 DEF Owes
      <3> QED BY <3>2
    <2> QED BY <1>8, <2>1, <2>2
  <1> QED BY <1>12, <1>14, <1>15, <1>16, <1>17, TypeParts DEF IInv

-----------------------------------------------------------------------------
(* The loop over the readings *)

\* A step of c's call, from h0 to h, that leaves the inboxes and owes no less.
LEMMA CallGoesOn ==
    ASSUME IInv, NEW c \in Clients, NEW h \in HandlerType,
           handler' = [handler EXCEPT ![c] = h],
           handler[c].pc # "idle", h.pc # "idle", h.id = handler[c].id,
           h.pc \in {"find", "store"} => h.short \in ShortAddrs,
           h.pc = "store" => h.device \in Devices /\ h.sensor \in SensorTypes,
           inbox' = inbox, sent' = sent
    PROVE  /\ Handlers' /\ CallInv' /\ InboxInv'
           /\ handler'[c] = h /\ \A x \in Clients \ {c} : handler'[x] = handler[x]
  <1>1. Typed
    BY TypeParts DEF IInv
  <1>2. Handlers' /\ handler'[c] = h /\ \A x \in Clients \ {c} : handler'[x] = handler[x]
    BY <1>1, HandlerStepEffect DEF Typed
  <1>3. CallInv'
    BY <1>2 DEF IInv, CallInv
  <1>4. InboxInv'
    BY <1>2 DEF IInv, InboxInv
  <1> QED BY <1>2, <1>3, <1>4

\* No step of a call that is under way makes the rows too young.
LEMMA RowsKeep ==
    ASSUME IInv, NEW c \in Clients, rows' = rows, inbox' = inbox, sent' = sent,
           handler'[c].pc # "idle" => handler[c].pc # "idle" /\ handler'[c].id = handler[c].id,
           \A x \in Clients \ {c} : handler'[x] = handler[x]
    PROVE  RowsInv'
  <1>1. \A k \in 1..Len(rows) : rows[k].client \in Clients
    BY TypeParts, RowIds DEF IInv, Typed
  <1>2. \A k \in 1..Len(rows) :
           handler'[rows[k].client].pc # "idle" => rows[k].id <= handler'[rows[k].client].id
    BY <1>1 DEF IInv, RowsInv
  <1> QED BY <1>2 DEF IInv, RowsInv

LEMMA NextReadingStep == ASSUME IInv, NEW c \in Clients, NextReading(c) PROVE IInv'
  <1>1. Typed /\ handler[c] \in HandlerType
    BY TypeParts DEF IInv, Typed, Handlers
  <1>2. PICK a \in handler[c].todo :
           handler' = [handler EXCEPT ![c].pc = "find", ![c].short = a, ![c].todo = @ \ {a}]
    BY DEF NextReading
  <1> DEFINE h == [handler[c] EXCEPT !.pc = "find", !.short = a, !.todo = handler[c].todo \ {a}]
  <1>3. a \in ShortAddrs
    BY <1>1, <1>2 DEF HandlerType
  <1>4. /\ h \in HandlerType /\ h.pc = "find" /\ h.id = handler[c].id /\ h.short = a
        /\ h.todo = handler[c].todo \ {a}
    BY <1>1, <1>3 DEF HandlerType
  <1>5. handler' = [handler EXCEPT ![c] = h]
    BY <1>1, <1>2 DEF Typed, Handlers
  <1>6. /\ handler[c].pc = "range"
        /\ device' = device /\ live' = live /\ inbox' = inbox /\ rows' = rows /\ pending' = pending
        /\ sent' = sent /\ changes' = changes
    BY DEF NextReading
  <1> HIDE DEF h
  <1>7. /\ Handlers' /\ CallInv' /\ InboxInv'
        /\ handler'[c] = h /\ \A x \in Clients \ {c} : handler'[x] = handler[x]
    BY <1>3, <1>4, <1>5, <1>6, CallGoesOn
  <1>8. Typed'
    BY <1>1, <1>6, <1>7 DEF Typed, Inboxes, RowsTyped, Pendings, Counts, World
  <1>9. RowsInv'
    BY <1>4, <1>6, <1>7, RowsKeep
  <1>10. PendingInv'
    <2> SUFFICES ASSUME NEW i \in 1..MaxMessages, NEW r \in ShortAddrs, <<i, r>> \in pending'
                 PROVE  \E x \in Clients : Owes(x, i, r)'
      BY DEF PendingInv
    <2>1. PICK x \in Clients : Owes(x, i, r)
      BY <1>6 DEF IInv, PendingInv
    <2>2. CASE x = c
      BY <1>4, <1>6, <1>7, <2>1, <2>2 DEF Owes
    <2>3. CASE x # c
      BY <1>7, <2>1, <2>3 DEF Owes
    <2> QED BY <2>2, <2>3
  <1> QED BY <1>7, <1>8, <1>9, <1>10, TypeParts DEF IInv

\* The call returns when it owes nothing.
LEMMA ReturnStep == ASSUME IInv, NEW c \in Clients, HandleMessageReturns(c) PROVE IInv'
  <1>1. Typed
    BY TypeParts DEF IInv
  <1>2. /\ handler[c].pc = "range" /\ handler[c].todo = {}
        /\ handler' = [handler EXCEPT ![c] = Idle]
        /\ device' = device /\ live' = live /\ inbox' = inbox /\ rows' = rows /\ pending' = pending
        /\ sent' = sent /\ changes' = changes
    BY DEF HandleMessageReturns
  <1>3. Handlers' /\ handler'[c] = Idle /\ \A x \in Clients \ {c} : handler'[x] = handler[x]
    BY <1>1, <1>2, IdleTyped, HandlerStepEffect DEF Typed
  <1>4. Typed'
    BY <1>1, <1>2, <1>3 DEF Typed, Inboxes, RowsTyped, Pendings, Counts, World
  <1>5. CallInv' /\ InboxInv'
    BY <1>2, <1>3, IdleTyped DEF IInv, CallInv, InboxInv
  <1>6. RowsInv'
    BY <1>2, <1>3, IdleTyped, RowsKeep
  <1>7. PendingInv'
    <2> SUFFICES ASSUME NEW i \in 1..MaxMessages, NEW r \in ShortAddrs, <<i, r>> \in pending'
                 PROVE  \E x \in Clients : Owes(x, i, r)'
      BY DEF PendingInv
    <2>1. PICK x \in Clients : Owes(x, i, r)
      BY <1>2 DEF IInv, PendingInv
    <2>2. x # c
      BY <1>2, <2>1 DEF Owes
    <2> QED BY <1>3, <2>1, <2>2 DEF Owes
  <1> QED BY <1>4, <1>5, <1>6, <1>7, TypeParts DEF IInv

LEMMA FindStep == ASSUME IInv, NEW c \in Clients, Find(c) PROVE IInv'
  <1>1. Typed /\ handler[c] \in HandlerType
    BY TypeParts DEF IInv, Typed, Handlers
  <1>2. PICK d \in Matching(c) :
           /\ device[d].sensor # None
           /\ handler' = [handler EXCEPT ![c].pc = "store", ![c].device = d,
                                         ![c].sensor = device[d].sensor]
    BY DEF Find
  <1> DEFINE h == [handler[c] EXCEPT !.pc = "store", !.device = d, !.sensor = device[d].sensor]
  <1>3. d \in Devices /\ device[d].sensor \in SensorTypes
    BY <1>1, <1>2, TelemetryAssumption DEF Matching, Typed, World
  <1>4. /\ h \in HandlerType /\ h.pc = "store" /\ h.id = handler[c].id
        /\ h.short = handler[c].short /\ h.todo = handler[c].todo
        /\ h.device = d /\ h.sensor = device[d].sensor
    BY <1>1, <1>3 DEF HandlerType
  <1>5. handler' = [handler EXCEPT ![c] = h]
    BY <1>1, <1>2 DEF Typed, Handlers
  <1>6. /\ handler[c].pc = "find" /\ handler[c].short \in ShortAddrs
        /\ device' = device /\ live' = live /\ inbox' = inbox /\ rows' = rows /\ pending' = pending
        /\ sent' = sent /\ changes' = changes
    BY DEF Find, IInv, CallInv
  <1> HIDE DEF h
  <1>7. /\ Handlers' /\ CallInv' /\ InboxInv'
        /\ handler'[c] = h /\ \A x \in Clients \ {c} : handler'[x] = handler[x]
    BY <1>3, <1>4, <1>5, <1>6, CallGoesOn
  <1>8. Typed'
    BY <1>1, <1>6, <1>7 DEF Typed, Inboxes, RowsTyped, Pendings, Counts, World
  <1>9. RowsInv'
    BY <1>4, <1>6, <1>7, RowsKeep
  <1>10. PendingInv'
    <2> SUFFICES ASSUME NEW i \in 1..MaxMessages, NEW r \in ShortAddrs, <<i, r>> \in pending'
                 PROVE  \E x \in Clients : Owes(x, i, r)'
      BY DEF PendingInv
    <2>1. PICK x \in Clients : Owes(x, i, r)
      BY <1>6 DEF IInv, PendingInv
    <2>2. CASE x = c
      BY <1>4, <1>6, <1>7, <2>1, <2>2 DEF Owes
    <2>3. CASE x # c
      BY <1>7, <2>1, <2>3 DEF Owes
    <2> QED BY <2>2, <2>3
  <1> QED BY <1>7, <1>8, <1>9, <1>10, TypeParts DEF IInv

-----------------------------------------------------------------------------
(* A reading is done *)

\* Whatever became of the reading, the call settles it and owes the others.
LEMMA ReadingDoneEffect ==
    ASSUME IInv, NEW c \in Clients, handler[c].pc \in {"find", "store"}, ReadingDone(c),
           inbox' = inbox, sent' = sent, changes' = changes, device' = device /\ live' = live
    PROVE  /\ Handlers' /\ Inboxes' /\ Pendings' /\ Counts' /\ World'
           /\ CallInv' /\ InboxInv' /\ PendingInv'
           /\ handler'[c].pc = "range" /\ handler'[c].id = handler[c].id
           /\ \A x \in Clients \ {c} : handler'[x] = handler[x]
  <1>1. Typed /\ handler[c] \in HandlerType
    BY TypeParts DEF IInv, Typed, Handlers
  <1>2. handler[c].id \in 1..MaxMessages /\ handler[c].short \in ShortAddrs
    BY <1>1, TelemetryAssumption DEF IInv, CallInv, Typed, Counts
  <1>3. handler[c].id \in 0..MaxMessages /\ handler[c].todo \in SUBSET ShortAddrs
    BY <1>1 DEF HandlerType
  <1> DEFINE h == Ranging(handler[c].id, handler[c].todo)
  <1>4. h \in HandlerType /\ h.pc = "range" /\ h.id = handler[c].id /\ h.todo = handler[c].todo
    BY <1>3, RangingTyped
  <1>5. handler' = [handler EXCEPT ![c] = h]
    BY DEF ReadingDone, Ranging
  <1> HIDE DEF h
  <1>6. /\ Handlers' /\ CallInv' /\ InboxInv'
        /\ handler'[c] = h /\ \A x \in Clients \ {c} : handler'[x] = handler[x]
    BY <1>4, <1>5, CallGoesOn
  <1>7. /\ Pendings'
        /\ \A i \in 1..MaxMessages, a \in ShortAddrs :
              <<i, a>> \in pending' =>
                  <<i, a>> \in pending /\ ~(i = handler[c].id /\ a = handler[c].short)
    BY <1>1 DEF ReadingDone, Typed, Pendings
  <1>8. Inboxes' /\ Counts' /\ World'
    BY <1>1 DEF Typed, Inboxes, Counts, World
  <1>9. PendingInv'
    <2> SUFFICES ASSUME NEW i \in 1..MaxMessages, NEW a \in ShortAddrs, <<i, a>> \in pending'
                 PROVE  \E x \in Clients : Owes(x, i, a)'
      BY DEF PendingInv
    <2>1. <<i, a>> \in pending /\ ~(i = handler[c].id /\ a = handler[c].short)
      BY <1>7
    <2>2. PICK x \in Clients : Owes(x, i, a)
      BY <2>1 DEF IInv, PendingInv
    <2>3. CASE x = c
      BY <1>4, <1>6, <2>1, <2>2, <2>3 DEF Owes
    <2>4. CASE x # c
      BY <1>6, <2>2, <2>4 DEF Owes
    <2> QED BY <2>3, <2>4
  <1> QED BY <1>4, <1>6, <1>7, <1>8, <1>9

LEMMA NotStoredStep ==
    ASSUME IInv, NEW c \in Clients, FindNothing(c) \/ StoreFails(c)
    PROVE  IInv'
  <1>1. /\ handler[c].pc \in {"find", "store"} /\ ReadingDone(c) /\ rows' = rows
        /\ inbox' = inbox /\ sent' = sent /\ changes' = changes /\ device' = device /\ live' = live
    BY DEF FindNothing, StoreFails
  <1>2. /\ Handlers' /\ Inboxes' /\ Pendings' /\ Counts' /\ World'
        /\ CallInv' /\ InboxInv' /\ PendingInv'
        /\ handler'[c].pc = "range" /\ handler'[c].id = handler[c].id
        /\ \A x \in Clients \ {c} : handler'[x] = handler[x]
    BY <1>1, ReadingDoneEffect
  <1>3. RowsTyped'
    BY <1>1, TypeParts DEF IInv, Typed, RowsTyped
  <1>4. RowsInv'
    BY <1>1, <1>2, RowsKeep
  <1> QED BY <1>2, <1>3, <1>4, TypeParts DEF IInv, Typed

\* The new row is as young as the message under way, so as any row of its client.
LEMMA StoreStep == ASSUME IInv, NEW c \in Clients, Store(c) PROVE IInv'
  <1>1. Typed /\ handler[c] \in HandlerType
    BY TypeParts DEF IInv, Typed, Handlers
  <1>2. /\ handler[c].pc = "store" /\ ReadingDone(c)
        /\ inbox' = inbox /\ sent' = sent /\ changes' = changes /\ device' = device /\ live' = live
    BY DEF Store
  <1>3. /\ Handlers' /\ Inboxes' /\ Pendings' /\ Counts' /\ World'
        /\ CallInv' /\ InboxInv' /\ PendingInv'
        /\ handler'[c].pc = "range" /\ handler'[c].id = handler[c].id
        /\ \A x \in Clients \ {c} : handler'[x] = handler[x]
    BY <1>2, ReadingDoneEffect
  <1> DEFINE new == [device |-> handler[c].device, client |-> c, id |-> handler[c].id]
  <1>4. /\ handler[c].id \in 1..sent /\ handler[c].short \in ShortAddrs
        /\ handler[c].device \in Devices /\ handler[c].sensor \in SensorTypes
        /\ sent \in 0..MaxMessages
    BY <1>1, <1>2 DEF IInv, CallInv, Typed, Counts
  <1>5. new \in RowType /\ new.id = handler[c].id /\ new.client = c
    BY <1>4, TelemetryAssumption DEF RowType
  <1>6. rows' = Append(rows, new) /\ rows \in Seq(RowType)
    BY <1>1 DEF Store, Typed, RowsTyped
  <1> HIDE DEF new
  <1>7. RowsTyped'
    BY <1>5, <1>6 DEF RowsTyped
  <1>8. /\ Len(rows) \in Nat /\ Len(rows') = Len(rows) + 1
        /\ \A k \in 1..Len(rows) : rows'[k] = rows[k]
        /\ rows'[Len(rows')] = new
    BY <1>5, <1>6
  <1>9. \A k \in 1..Len(rows) : rows[k].client \in Clients /\ rows[k].id \in Nat
    BY <1>1, RowIds DEF Typed
  <1>10. \A k \in 1..Len(rows) :
            /\ rows[k].id <= sent'
            /\ \A i \in 1..Len(inbox'[rows[k].client]) : rows[k].id < inbox'[rows[k].client][i].id
            /\ handler'[rows[k].client].pc # "idle" => rows[k].id <= handler'[rows[k].client].id
            /\ \A l \in 1..Len(rows) :
                  k < l /\ rows[k].client = rows[l].client => rows[k].id <= rows[l].id
            /\ rows[k].client = c => rows[k].id <= new.id
    BY <1>2, <1>3, <1>5, <1>9 DEF IInv, RowsInv
  <1>11. /\ new.id <= sent'
         /\ \A i \in 1..Len(inbox'[c]) : new.id < inbox'[c][i].id
         /\ new.id <= handler'[c].id
    BY <1>2, <1>3, <1>4, <1>5 DEF IInv, InboxInv
  <1>12. RowsInv'
    <2> SUFFICES ASSUME NEW k \in 1..Len(rows')
                 PROVE  /\ rows'[k].id <= sent'
                        /\ \A i \in 1..Len(inbox'[rows'[k].client]) :
                              rows'[k].id < inbox'[rows'[k].client][i].id
                        /\ handler'[rows'[k].client].pc # "idle" =>
                              rows'[k].id <= handler'[rows'[k].client].id
                        /\ \A l \in 1..Len(rows') :
                              k < l /\ rows'[k].client = rows'[l].client => rows'[k].id <= rows'[l].id
      BY DEF RowsInv
    <2>1. CASE k \in 1..Len(rows)
      <3>1. \A l \in 1..Len(rows') : l \in 1..Len(rows) \/ l = Len(rows')
        BY <1>8
      <3> QED BY <1>5, <1>8, <1>10, <2>1, <3>1
    <2>2. CASE k = Len(rows')
      <3>1. \A l \in 1..Len(rows') : ~(k < l)
        BY <1>8, <2>2
      <3> QED BY <1>5, <1>8, <1>11, <2>2, <3>1
    <2> QED BY <1>8, <2>1, <2>2
  <1> QED BY <1>3, <1>7, <1>12, TypeParts DEF IInv, Typed

-----------------------------------------------------------------------------

LEMMA StepInv == IInv /\ [Next]_vars => IInv'
  <1> SUFFICES ASSUME IInv, [Next]_vars PROVE IInv'
    OBVIOUS
  <1>1. ASSUME NEW c \in Clients,
               Connect(c) \/ Disconnect(c) \/ Lose(c) \/ Publish(c) \/ HandlerStep(c)
        PROVE  IInv'
    BY <1>1, SessionStep, LoseStep, PublishStep, TakeStep, DiscardStep, NextReadingStep, ReturnStep, FindStep,
       NotStoredStep, StoreStep DEF HandlerStep
  <1>2. CASE UNCHANGED vars
    <2>1. TypeOK'
      BY <1>2 DEF vars, IInv, TypeOK
    <2>2. CallInv' /\ InboxInv' /\ RowsInv' /\ PendingInv'
      BY <1>2 DEF vars, IInv, CallInv, InboxInv, RowsInv, PendingInv, Owes
    <2> QED BY <2>1, <2>2 DEF IInv
  <1> QED BY <1>1, <1>2, ChangeDeviceStep DEF Next

\* Whatever is published and however the devices change, the inductive
\* invariant holds in every state.
THEOREM Invariance == Spec => []IInv
  BY InitIInv, StepInv, PTL DEF Spec

\* Every variable keeps its type.
THEOREM TypeCorrect == Spec => []TypeOK
  <1>1. IInv => TypeOK
    BY DEF IInv
  <1> QED BY <1>1, Invariance, PTL

LEMMA PendingIsUnderWay == IInv => ReadingsAreIndependent
  BY DEF IInv, PendingInv, Owes, ReadingsAreIndependent

LEMMA RowsAreOrdered == IInv => RowsInArrivalOrder
  BY DEF IInv, RowsInv, RowsInArrivalOrder

\* A reading is pending only while the call of handleMessage for its message
\* runs: once it has returned, every reading was settled on its own account.
THEOREM IndependentReadings == Spec => []ReadingsAreIndependent
  BY PendingIsUnderWay, Invariance, PTL

\* The measurements a client reports for a device are stored in the order of its
\* messages, whatever the clients it replaced or that replace it store meanwhile.
THEOREM ArrivalOrder == Spec => []RowsInArrivalOrder
  BY RowsAreOrdered, Invariance, PTL

=============================================================================
