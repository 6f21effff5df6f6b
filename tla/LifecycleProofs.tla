-------------------------- MODULE LifecycleProofs --------------------------
(***************************************************************************)
(* Theorems about Lifecycle, for any replicas, deadlines and faults.       *)
(*                                                                         *)
(* OneActiveReplica is not inductive: it needs to know that a replica with *)
(* connections holds the lease, and that the lease is then younger than it *)
(* has to be for another to take it.                                       *)
(***************************************************************************)
EXTENDS Lifecycle, TLAPS

\* Whoever leads, or has connections, holds a lease it can still renew.
ActiveHoldsLease ==
    \A p \in Replicas : process[p] = "leader" \/ connected[p] # {} =>
        lease.holder = p /\ lease.age <= RenewDeadline

IInv == TypeOK /\ ActiveHoldsLease

\* The assumptions and the type of the lease, one fact each.
LEMMA Bounds ==
    /\ RenewDeadline \in Nat /\ LeaseDuration \in Nat /\ MaxFaults \in Nat
    /\ RenewDeadline < LeaseDuration
    /\ None \notin Replicas
BY LifecycleAssumption

LEMMA LeaseType ==
    ASSUME TypeOK
    PROVE  lease.holder \in Replicas \cup {None} /\ lease.age \in Nat
BY Bounds DEF TypeOK

\* A candidate takes the lease only from a holder without connections: an
\* expired lease is older than any that is still in use.
LEMMA AcquireFindsNoneActive ==
    ASSUME IInv, NEW p \in Replicas, Acquire(p), NEW q \in Replicas
    PROVE  process[q] # "leader" /\ connected[q] = {}
BY Bounds, LeaseType DEF IInv, ActiveHoldsLease, Acquire

\* The end of a process leaves it with nothing.
LEMMA EndsKeepsInv ==
    ASSUME IInv, NEW p \in Replicas, Ends(p), lease' = lease, unreachable' = unreachable,
           faults' \in 0..MaxFaults
    PROVE  IInv'
<1>1. TypeOK'
  BY DEF IInv, TypeOK, Ends
<1>2. ActiveHoldsLease'
  BY DEF IInv, TypeOK, ActiveHoldsLease, Ends
<1>3. QED
  BY <1>1, <1>2 DEF IInv

LEMMA InitInv == Init => IInv
BY Bounds DEF Init, IInv, TypeOK, ActiveHoldsLease, Kinds

\* Every step keeps the invariant.
LEMMA StepInv == IInv /\ [Next]_vars => IInv'
<1>0. SUFFICES ASSUME IInv, [Next]_vars PROVE IInv'
  OBVIOUS
<1>1. CASE Tick
  <2>1. \A p \in Replicas : process[p] \in {"leader", "stopping"} /\ lease.holder = p =>
            lease.age < RenewDeadline
    BY <1>0, <1>1, Bounds, LeaseType DEF IInv, Tick, LeaseLost
  <2>2. lease' \in [holder : Replicas \cup {None}, age : 0..LeaseDuration]
    <3>1. CASE lease' = [lease EXCEPT !.age = 0]
      BY <1>0, <3>1, Bounds DEF IInv, TypeOK
    <3>2. CASE lease.age < LeaseDuration /\ lease' = [lease EXCEPT !.age = @ + 1]
      BY <1>0, <3>2, Bounds DEF IInv, TypeOK
    <3>3. CASE lease' = lease
      BY <1>0, <3>3 DEF IInv, TypeOK
    <3>4. QED
      BY <1>1, <3>1, <3>2, <3>3 DEF Tick
  <2>3. TypeOK'
    BY <1>0, <1>1, <2>2 DEF IInv, TypeOK, Tick
  <2>4. lease'.holder = lease.holder /\ lease'.age <= lease.age + 1
    <3>1. CASE lease' = [lease EXCEPT !.age = 0]
      BY <1>0, <3>1, LeaseType DEF IInv, TypeOK
    <3>2. CASE lease.age < LeaseDuration /\ lease' = [lease EXCEPT !.age = @ + 1]
      BY <1>0, <3>2, LeaseType DEF IInv, TypeOK
    <3>3. CASE lease' = lease
      BY <1>0, <3>3, LeaseType DEF IInv
    <3>4. QED
      BY <1>1, <3>1, <3>2, <3>3 DEF Tick
  <2>5. ActiveHoldsLease'
    <3>1. SUFFICES ASSUME NEW p \in Replicas, process[p] = "leader" \/ connected[p] # {}
                   PROVE  lease'.holder = p /\ lease'.age <= RenewDeadline
      BY <1>1 DEF Tick, ActiveHoldsLease
    <3>2. process[p] \in {"leader", "stopping"} /\ lease.holder = p
      BY <1>0, <3>1 DEF IInv, TypeOK, ActiveHoldsLease
    <3>3. lease.age < RenewDeadline
      BY <2>1, <3>2
    <3>4. lease.age \in Nat /\ lease'.age \in Nat
      BY <1>0, <2>2, Bounds, LeaseType DEF IInv
    <3>5. QED
      BY <2>4, <3>2, <3>3, <3>4, Bounds
  <2>6. QED
    BY <2>3, <2>5 DEF IInv
<1>2. ASSUME NEW p \in Replicas, Boot(p) PROVE IInv'
  BY <1>0, <1>2 DEF IInv, TypeOK, ActiveHoldsLease, Boot
<1>3. ASSUME NEW p \in Replicas, Connect(p) PROVE IInv'
  BY <1>0, <1>3 DEF IInv, TypeOK, ActiveHoldsLease, Connect
<1>4. ASSUME NEW p \in Replicas, LoseLease(p) PROVE IInv'
  BY <1>0, <1>4, EndsKeepsInv DEF LoseLease, IInv, TypeOK
<1>5. ASSUME NEW p \in Replicas, Return(p) PROVE IInv'
  BY <1>0, <1>5, EndsKeepsInv DEF Return, IInv, TypeOK
<1>6. ASSUME NEW p \in Replicas, StartAPI(p) PROVE IInv'
  BY <1>0, <1>6 DEF IInv, TypeOK, ActiveHoldsLease, StartAPI
<1>7. ASSUME NEW p \in Replicas, ShutdownAPI(p) PROVE IInv'
  BY <1>0, <1>7 DEF IInv, TypeOK, ActiveHoldsLease, ShutdownAPI
<1>8. ASSUME NEW p \in Replicas, Acquire(p) PROVE IInv'
  <2>1. TypeOK'
    BY <1>0, <1>8, Bounds, LeaseType DEF IInv, TypeOK, Acquire
  <2>2. \A q \in Replicas : process[q] # "leader" /\ connected[q] = {}
    BY <1>0, <1>8, AcquireFindsNoneActive
  <2>3. ActiveHoldsLease'
    BY <1>0, <1>8, <2>2, Bounds, LeaseType DEF IInv, TypeOK, ActiveHoldsLease, Acquire
  <2>4. QED
    BY <2>1, <2>3 DEF IInv
<1>9. ASSUME NEW p \in Replicas, Heal(p) PROVE IInv'
  BY <1>0, <1>9 DEF IInv, TypeOK, ActiveHoldsLease, Heal
<1>10. ASSUME NEW p \in Replicas, Signal(p) PROVE IInv'
  BY <1>0, <1>10, Bounds, LeaseType DEF IInv, TypeOK, ActiveHoldsLease, Signal
<1>11. ASSUME NEW p \in Replicas, Crash(p) PROVE IInv'
  <2>1. faults' \in 0..MaxFaults
    BY <1>0, <1>11, Bounds, LeaseType DEF IInv, TypeOK, Crash
  <2>2. QED
    BY <1>0, <1>11, <2>1, EndsKeepsInv DEF Crash
<1>12. ASSUME NEW p \in Replicas, CutOff(p) PROVE IInv'
  BY <1>0, <1>12, Bounds, LeaseType DEF IInv, TypeOK, ActiveHoldsLease, CutOff
<1>13. CASE UNCHANGED vars
  BY <1>0, <1>13 DEF IInv, TypeOK, ActiveHoldsLease, vars
<1>14. QED
  BY <1>0, <1>1, <1>2, <1>3, <1>4, <1>5, <1>6, <1>7, <1>8, <1>9, <1>10, <1>11, <1>12, <1>13
     DEF Next, Main, API

\* The processes, their connections and the lease keep their types, whatever
\* fails and however often.
THEOREM LifecycleTypes == Spec => []TypeOK
<1>1. IInv => TypeOK
  BY DEF IInv
<1>2. QED
  BY InitInv, StepInv, <1>1, PTL DEF Spec

\* At most one replica is connected to brokers and databases, for any number of
\* replicas: main exits at once when mgr.Start returns, within the deadline that
\* is shorter than the time another waits.
THEOREM OnlyOneActive == Spec => []OneActiveReplica
<1>1. IInv => OneActiveReplica
  BY DEF IInv, ActiveHoldsLease, OneActiveReplica
<1>2. QED
  BY InitInv, StepInv, <1>1, PTL DEF Spec

=============================================================================
