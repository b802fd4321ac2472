--------------------------- MODULE CapacityProofs ----------------------------
(***************************************************************************)
(* Proofs about module Capacity, for any number of replicas and grants.    *)
(*                                                                         *)
(* CapacityInv is inductive.  Its heart is FreshSnapshot with PeersClear:  *)
(* while nobody has written the ledger since r loaded it, what r concluded *)
(* from its snapshot and from the peers it has inspected still holds, and  *)
(* a save succeeds only in that case.                                      *)
(***************************************************************************)
EXTENDS Capacity, FiniteSetTheorems, TLAPS

\* The Acquire loop runs only for wanted requests, Release only for requests
\* whose terminal phase is persisted.
Phases ==
  \A r \in Replicas :
    /\ pc[r] \in AcquireSteps => life[r] = "wanted"
    /\ pc[r] \in ReleaseSteps => life[r] = "terminal"
    /\ life[r] \in {"terminal", "gone"} => ~service[r]
    /\ service[r] => r \in Helm

AdmittedHolds == \A r \in Replicas : pc[r] = "admitted" => r \in ledger.held

FreshSnapshot == \A r \in Replicas : fresh[r] => snap[r] = ledger.held

\* What the scan of the reservations established.
Considered ==
  \A r \in Replicas :
    /\ pc[r] \in {"list", "peers", "save"} =>
         r \notin snap[r] /\ A!Room(r, snap[r])
    /\ pc[r] \in {"list", "peers"} => r \in Helm

\* What the scan of the peers established so far.
PeersClear ==
  \A r, q \in Helm :
    pc[r] \in {"peers", "save"} /\ fresh[r] /\ q # r /\ service[q] =>
      pc[r] = "peers" /\ q \in unseen[r]

OneSlot == \A p, q \in Helm \cap ledger.held : p = q

\* A managed reservation excludes every other runtime, legacy ones included.
SlotExclusive ==
  \A p \in Helm \cap ledger.held : \A q \in Helm : service[q] => q = p

\* Well-typed, and a running loop has attempts left.
Typed ==
  TypeOK /\ \A r \in Replicas : pc[r] # "idle" => attempt[r] < Attempts

CapacityInv ==
  /\ Typed
  /\ Phases
  /\ AdmittedHolds
  /\ FreshSnapshot
  /\ Considered
  /\ PeersClear
  /\ OneSlot
  /\ SlotExclusive
  /\ RuntimeReserved
  /\ GrantCap

-----------------------------------------------------------------------------
\* The capacity of a grant counts finite sets (capacity.go:29-36).
LEMMA OfFinite ==
  ASSUME NEW g, NEW S \in SUBSET Replicas
  PROVE  IsFiniteSet(A!Of(g, S)) /\ Cardinality(A!Of(g, S)) \in Nat
<1>1. IsFiniteSet(S)
  BY ConstantsAssumption, FS_Subset
<1>2. A!Of(g, S) \subseteq S
  BY DEF A!Of
<1>3. IsFiniteSet(A!Of(g, S))
  BY <1>1, <1>2, FS_Subset
<1> QED BY <1>3, FS_CardinalityType

\* Saving a reservation where Room held keeps every grant within its cap.
LEMMA RoomKeepsCap ==
  ASSUME NEW S \in SUBSET Replicas, NEW r \in Replicas, r \notin S,
         A!Room(r, S), NEW g \in Grants, Cap[g] > 0,
         Cardinality(A!Of(g, S)) <= Cap[g]
  PROVE  Cardinality(A!Of(g, S \cup {r})) <= Cap[g]
<1>0. Cap[g] \in Nat
  BY ConstantsAssumption
<1>1. CASE GrantOf[r] = g
  <2>1. A!Of(g, S \cup {r}) = A!Of(g, S) \cup {r} /\ r \notin A!Of(g, S)
    BY <1>1 DEF A!Of
  <2>2. Cardinality(A!Of(g, S) \cup {r}) = Cardinality(A!Of(g, S)) + 1
    BY <2>1, OfFinite, FS_AddElement
  <2>3. Cardinality(A!Of(g, S)) < Cap[g]
    BY <1>0, <1>1 DEF A!Room, A!Cardinality, Cardinality
  <2> QED BY <1>0, <2>1, <2>2, <2>3, OfFinite
<1>2. CASE GrantOf[r] # g
  <2>1. A!Of(g, S \cup {r}) = A!Of(g, S)
    BY <1>2 DEF A!Of
  <2> QED BY <2>1
<1> QED BY <1>1, <1>2

\* Releasing a reservation keeps every grant within its cap.
LEMMA ReleaseKeepsCap ==
  ASSUME NEW S \in SUBSET Replicas, NEW r \in Replicas, NEW g \in Grants,
         Cap[g] > 0, Cardinality(A!Of(g, S)) <= Cap[g]
  PROVE  Cardinality(A!Of(g, S \ {r})) <= Cap[g]
<1>0. Cap[g] \in Nat
  BY ConstantsAssumption
<1>1. A!Of(g, S \ {r}) \subseteq A!Of(g, S)
  BY DEF A!Of
<1>2. S \ {r} \in SUBSET Replicas
  OBVIOUS
<1>3. Cardinality(A!Of(g, S \ {r})) <= Cardinality(A!Of(g, S))
  BY <1>1, OfFinite, FS_Subset
<1> QED BY <1>0, <1>2, <1>3, OfFinite

-----------------------------------------------------------------------------
\* The types hold initially; no loop has used up its attempts while it runs.
LEMMA TypeInit == Init => Typed
BY ConstantsAssumption DEF Init, Typed, TypeOK

\* Every step of capacity.go's loops, and of the engine around them, keeps
\* the types and the bound on the attempts.
LEMMA TypeStep == Typed /\ [Next]_vars => Typed'
<1> SUFFICES ASSUME Typed, [Next]_vars PROVE Typed'
  OBVIOUS
<1> USE ConstantsAssumption
    DEF Typed, TypeOK, AcquireSteps, ReleaseSteps, Goto, Fault
<1>1. ASSUME NEW r \in Replicas, Acquire(r) PROVE Typed'
  <2>1. CASE BeginAcquire(r)
    BY <2>1 DEF BeginAcquire
  <2>2. CASE LoadFails(r)
    BY <2>2 DEF LoadFails
  <2>3. CASE AlreadyReserved(r)
    BY <2>3 DEF AlreadyReserved
  <2>4. CASE Refused(r)
    BY <2>4 DEF Refused
  <2>5. CASE LoadLedger(r)
    BY <2>5 DEF LoadLedger
  <2>6. CASE ListPeers(r)
    BY <2>6 DEF ListPeers
  <2>7. CASE InspectPeer(r)
    BY <2>7 DEF InspectPeer
  <2>8. CASE PeersInspected(r)
    BY <2>8 DEF PeersInspected
  <2>9. CASE SaveReservation(r)
    BY <2>9 DEF SaveReservation, WriteLedger
  <2>10. CASE ReservationConflict(r)
    BY <2>10 DEF ReservationConflict, NextAttempt
  <2>11. CASE SaveFails(r)
    BY <2>11 DEF SaveFails
  <2>12. CASE EnsureRuntime(r)
    BY <2>12 DEF EnsureRuntime
  <2> QED BY <1>1, <2>1, <2>2, <2>3, <2>4, <2>5, <2>6, <2>7, <2>8, <2>9,
             <2>10, <2>11, <2>12 DEF Acquire
<1>2. ASSUME NEW r \in Replicas, Release(r) PROVE Typed'
  <2>1. CASE RemoveRuntime(r)
    BY <2>1 DEF RemoveRuntime
  <2>2. CASE ReportTerminal(r)
    BY <2>2 DEF ReportTerminal
  <2>3. CASE LoadForRelease(r)
    BY <2>3 DEF LoadForRelease
  <2>4. CASE ReleaseFails(r)
    BY <2>4 DEF ReleaseFails, ReleaseError
  <2>5. CASE SaveRelease(r)
    BY <2>5 DEF SaveRelease, WriteLedger, ReleaseError
  <2>6. CASE ReleaseConflict(r)
    BY <2>6 DEF ReleaseConflict, NextAttempt
  <2>7. CASE Finish(r)
    BY <2>7 DEF Finish
  <2> QED BY <1>2, <2>1, <2>2, <2>3, <2>4, <2>5, <2>6, <2>7 DEF Release
<1>3. ASSUME NEW r \in Replicas, Drain(r) PROVE Typed'
  BY <1>3 DEF Drain
<1>4. CASE Crash
  BY <1>4 DEF Crash
<1>5. CASE UNCHANGED vars
  BY <1>5 DEF vars
<1> QED BY <1>1, <1>2, <1>3, <1>4, <1>5 DEF Next

-----------------------------------------------------------------------------
\* A freshly installed operator: no ledger, at most one legacy runtime.
LEMMA InvInit == Init => CapacityInv
<1> SUFFICES ASSUME Init PROVE CapacityInv
  OBVIOUS
<1>1. Typed
  BY TypeInit
<1>2. Phases /\ AdmittedHolds /\ FreshSnapshot /\ Considered /\ PeersClear
      /\ OneSlot /\ SlotExclusive /\ RuntimeReserved
  BY ConstantsAssumption
  DEF Init, Phases, AdmittedHolds, FreshSnapshot, Considered, PeersClear,
      OneSlot, SlotExclusive, RuntimeReserved, AcquireSteps, ReleaseSteps
<1>3. GrantCap
  <2> SUFFICES ASSUME NEW g \in Grants
               PROVE  Cap[g] > 0 => Cardinality(A!Of(g, ledger.held)) <= Cap[g]
    BY DEF GrantCap
  <2>1. A!Of(g, ledger.held) = {}
    BY DEF Init, A!Of
  <2> QED BY <2>1, ConstantsAssumption, FS_EmptySet
<1> QED BY <1>1, <1>2, <1>3 DEF CapacityInv

\* A step that leaves the ledger and the runtimes alone, and is neither a load
\* nor a peer inspection, can only disturb the control facts.
LEMMA QuietStep ==
  ASSUME CapacityInv, Typed', Phases', Considered', AdmittedHolds', PeersClear',
         UNCHANGED <<ledger, service>>,
         \A r \in Replicas : fresh'[r] => snap'[r] = ledger.held
  PROVE  CapacityInv'
BY DEF CapacityInv, FreshSnapshot, OneSlot, SlotExclusive, RuntimeReserved,
       GrantCap

\* The steps of capacity.Acquire.
LEMMA AcquireStep ==
  ASSUME CapacityInv, Typed', NEW r \in Replicas, Acquire(r)
  PROVE  CapacityInv'
<1> USE ConstantsAssumption
    DEF Goto, Fault, Typed, TypeOK, AcquireSteps, ReleaseSteps
<1>a. Typed /\ Phases /\ AdmittedHolds /\ FreshSnapshot /\ Considered
      /\ PeersClear /\ OneSlot /\ SlotExclusive /\ RuntimeReserved /\ GrantCap
  BY DEF CapacityInv
<1>1. CASE \/ BeginAcquire(r) \/ LoadFails(r) \/ AlreadyReserved(r)
           \/ Refused(r) \/ PeersInspected(r) \/ ReservationConflict(r)
           \/ SaveFails(r)
  <2>0. UNCHANGED <<ledger, service, life, snap, fresh, unseen>>
    BY <1>1 DEF BeginAcquire, LoadFails, AlreadyReserved, Refused,
                PeersInspected, ReservationConflict, SaveFails
  <2>1. /\ pc' = [pc EXCEPT ![r] = pc'[r]]
        /\ pc'[r] \in {"idle", "load", "admitted", "save"}
        /\ pc'[r] \in AcquireSteps => life[r] = "wanted"
        /\ pc'[r] = "admitted" => r \in ledger.held
        /\ pc'[r] = "save" => pc[r] = "peers" /\ unseen[r] = {}
    BY <1>1, <1>a DEF BeginAcquire, LoadFails, AlreadyReserved, Refused,
                PeersInspected, ReservationConflict, SaveFails, NextAttempt,
                Phases
  <2>2. Phases'
    BY <1>a, <2>0, <2>1 DEF Phases
  <2>3. Considered'
    BY <1>a, <2>0, <2>1 DEF Considered
  <2>4. AdmittedHolds'
    BY <1>a, <2>0, <2>1 DEF AdmittedHolds
  <2>5. PeersClear'
    BY <1>a, <2>0, <2>1 DEF PeersClear
  <2>6. \A q \in Replicas : fresh'[q] => snap'[q] = ledger.held
    BY <1>a, <2>0 DEF FreshSnapshot
  <2> QED BY <2>0, <2>2, <2>3, <2>4, <2>5, <2>6, QuietStep
<1>2. CASE LoadLedger(r)
  <2>0. UNCHANGED <<ledger, service, life, unseen>>
    BY <1>2 DEF LoadLedger
  <2>1. Phases'
    BY <1>a, <1>2 DEF Phases, LoadLedger
  <2>2. Considered'
    BY <1>a, <1>2 DEF Considered, LoadLedger
  <2>3. AdmittedHolds'
    BY <1>a, <1>2 DEF AdmittedHolds, LoadLedger
  <2>4. PeersClear'
    BY <1>a, <1>2 DEF PeersClear, LoadLedger
  <2>5. \A q \in Replicas : fresh'[q] => snap'[q] = ledger.held
    BY <1>a, <1>2 DEF FreshSnapshot, LoadLedger
  <2> QED BY <2>0, <2>1, <2>2, <2>3, <2>4, <2>5, QuietStep
<1>3. CASE ListPeers(r) \/ InspectPeer(r)
  <2>0. UNCHANGED <<ledger, service, life, snap, fresh>>
    BY <1>3 DEF ListPeers, InspectPeer
  <2>1. Phases'
    BY <1>a, <1>3 DEF Phases, ListPeers, InspectPeer
  <2>2. Considered'
    <3>1. CASE ListPeers(r)
      BY <3>1, <1>a DEF Considered, ListPeers
    <3>2. CASE InspectPeer(r)
      BY <3>2, <1>a DEF Considered, InspectPeer
    <3> QED BY <1>3, <3>1, <3>2
  <2>3. AdmittedHolds'
    BY <1>a, <1>3 DEF AdmittedHolds, ListPeers, InspectPeer
  <2>4. PeersClear'
    <3>1. CASE ListPeers(r)
      BY <3>1, <1>a DEF PeersClear, ListPeers, Phases
    <3>2. CASE InspectPeer(r)
      BY <3>2, <1>a DEF PeersClear, InspectPeer
    <3> QED BY <1>3, <3>1, <3>2
  <2>5. \A q \in Replicas : fresh'[q] => snap'[q] = ledger.held
    BY <1>a, <2>0 DEF FreshSnapshot
  <2> QED BY <2>0, <2>1, <2>2, <2>3, <2>4, <2>5, QuietStep
<1>4. CASE SaveReservation(r)
  <2>1. /\ pc[r] = "save" /\ snap[r] = ledger.held /\ r \notin ledger.held
        /\ A!Room(r, ledger.held) /\ ledger'.held = ledger.held \cup {r}
        /\ UNCHANGED <<service, life, snap, unseen>>
        /\ fresh' = [q \in Replicas |-> FALSE]
        /\ pc' = [pc EXCEPT ![r] = pc'[r]] /\ pc'[r] \in {"admitted", "idle"}
    BY <1>4, <1>a DEF SaveReservation, WriteLedger, FreshSnapshot, Considered
  <2>2. Phases' /\ AdmittedHolds' /\ FreshSnapshot' /\ Considered'
        /\ PeersClear' /\ RuntimeReserved'
    BY <1>a, <2>1 DEF Phases, AdmittedHolds, FreshSnapshot, Considered,
                      PeersClear, RuntimeReserved
  <2>3. OneSlot'
    BY <1>a, <2>1 DEF OneSlot, A!Room
  <2>4. SlotExclusive'
    <3> SUFFICES ASSUME NEW p \in Helm \cap (ledger.held \cup {r}),
                        NEW q \in Helm, service[q]
                 PROVE  q = p
      BY <2>1 DEF SlotExclusive
    <3>1. CASE p \in ledger.held
      BY <3>1, <1>a DEF SlotExclusive
    <3>2. CASE p = r
      BY <3>2, <1>4, <1>a, <2>1 DEF PeersClear, SaveReservation
    <3> QED BY <3>1, <3>2
  <2>5. GrantCap'
    BY <1>a, <2>1, RoomKeepsCap DEF GrantCap
  <2> QED BY <2>2, <2>3, <2>4, <2>5 DEF CapacityInv
<1>5. CASE EnsureRuntime(r)
  <2>1. /\ r \in ledger.held /\ life[r] = "wanted"
        /\ UNCHANGED <<ledger, life, snap, fresh, unseen>>
        /\ pc' = [pc EXCEPT ![r] = "idle"]
        /\ service' = [service EXCEPT ![r] = @ \/ r \in Helm]
    BY <1>5, <1>a DEF EnsureRuntime, AdmittedHolds, Phases
  <2>2. Phases' /\ AdmittedHolds' /\ FreshSnapshot' /\ Considered' /\ OneSlot'
        /\ GrantCap'
    BY <1>a, <2>1 DEF Phases, AdmittedHolds, FreshSnapshot, Considered,
                      OneSlot, GrantCap
  <2>3. RuntimeReserved'
    BY <1>a, <2>1 DEF RuntimeReserved
  <2>4. PeersClear'
    <3> SUFFICES ASSUME NEW p \in Helm, NEW q \in Helm,
                        pc'[p] \in {"peers", "save"}, fresh[p], q # p, service'[q]
                 PROVE  pc'[p] = "peers" /\ q \in unseen[p]
      BY <2>1 DEF PeersClear
    <3>1. p # r /\ pc'[p] = pc[p]
      BY <2>1
    <3>2. CASE q = r
      BY <3>1, <3>2, <2>1, <1>a DEF Considered, FreshSnapshot, A!Room
    <3>3. CASE q # r
      BY <3>1, <3>3, <2>1, <1>a DEF PeersClear
    <3> QED BY <3>2, <3>3
  <2>5. SlotExclusive'
    BY <1>a, <2>1 DEF SlotExclusive, OneSlot
  <2> QED BY <2>2, <2>3, <2>4, <2>5 DEF CapacityInv
<1> QED BY <1>1, <1>2, <1>3, <1>4, <1>5 DEF Acquire

\* The steps of the cleanup branch and of capacity.Release.
LEMMA ReleaseStep ==
  ASSUME CapacityInv, Typed', NEW r \in Replicas, Release(r)
  PROVE  CapacityInv'
<1> USE ConstantsAssumption
    DEF Goto, Fault, Typed, TypeOK, AcquireSteps, ReleaseSteps
<1>a. Typed /\ Phases /\ AdmittedHolds /\ FreshSnapshot /\ Considered
      /\ PeersClear /\ OneSlot /\ SlotExclusive /\ RuntimeReserved /\ GrantCap
  BY DEF CapacityInv
<1>1. CASE RemoveRuntime(r)
  BY <1>1, <1>a DEF CapacityInv, RemoveRuntime, Phases, AdmittedHolds,
     FreshSnapshot, Considered, PeersClear, OneSlot, SlotExclusive,
     RuntimeReserved, GrantCap
<1>2. CASE \/ ReportTerminal(r) \/ LoadForRelease(r) \/ ReleaseFails(r)
           \/ ReleaseConflict(r) \/ Finish(r)
  <2>0. UNCHANGED <<ledger, service, unseen>>
    BY <1>2 DEF ReportTerminal, LoadForRelease, ReleaseFails, ReleaseConflict,
                Finish
  <2>1. /\ pc' = [pc EXCEPT ![r] = pc'[r]]
        /\ life' = [life EXCEPT ![r] = life'[r]]
        /\ pc'[r] \in {"idle"} \cup ReleaseSteps
        /\ pc'[r] \in ReleaseSteps => life'[r] = "terminal"
        /\ life'[r] \in {"terminal", "gone"} => ~service[r]
        /\ \A q \in Replicas \ {r} : fresh'[q] = fresh[q] /\ snap'[q] = snap[q]
    BY <1>2, <1>a DEF ReportTerminal, LoadForRelease, ReleaseFails,
                ReleaseError, ReleaseConflict, Finish, NextAttempt, Phases
  <2>2. Phases'
    BY <1>a, <2>0, <2>1 DEF Phases
  <2>3. Considered'
    BY <1>a, <2>0, <2>1 DEF Considered
  <2>4. AdmittedHolds'
    BY <1>a, <2>0, <2>1 DEF AdmittedHolds
  <2>5. PeersClear'
    BY <1>a, <2>0, <2>1 DEF PeersClear
  <2>6. \A q \in Replicas : fresh'[q] => snap'[q] = ledger.held
    BY <1>2, <1>a, <2>0 DEF FreshSnapshot, ReportTerminal, LoadForRelease,
                ReleaseFails, ReleaseError, ReleaseConflict, Finish
  <2> QED BY <2>0, <2>2, <2>3, <2>4, <2>5, <2>6, QuietStep
<1>3. CASE SaveRelease(r)
  <2>1. /\ pc[r] = "unsave" /\ life[r] = "terminal" /\ ~service[r]
        /\ ledger'.held = ledger.held \ {r}
        /\ UNCHANGED <<service, snap, unseen>>
        /\ fresh' = [q \in Replicas |-> FALSE]
        /\ pc' = [pc EXCEPT ![r] = pc'[r]]
        /\ life' = [life EXCEPT ![r] = life'[r]]
        /\ \/ pc'[r] = "released" /\ life'[r] = "terminal"
           \/ pc'[r] = "idle" /\ life'[r] = "draining"
    BY <1>3, <1>a DEF SaveRelease, WriteLedger, ReleaseError, FreshSnapshot,
                      Phases
  <2>2. Phases' /\ FreshSnapshot' /\ Considered' /\ PeersClear'
        /\ OneSlot' /\ SlotExclusive' /\ RuntimeReserved'
    BY <1>a, <2>1 DEF Phases, FreshSnapshot, Considered, PeersClear,
                      OneSlot, SlotExclusive, RuntimeReserved
  <2>3. AdmittedHolds'
    BY <1>a, <2>1 DEF AdmittedHolds
  <2>4. GrantCap'
    BY <1>a, <2>1, ReleaseKeepsCap DEF GrantCap
  <2> QED BY <2>2, <2>3, <2>4 DEF CapacityInv
<1> QED BY <1>1, <1>2, <1>3 DEF Release

\* Every step keeps the invariant.
LEMMA InvStep == CapacityInv /\ [Next]_vars => CapacityInv'
<1> SUFFICES ASSUME CapacityInv, [Next]_vars PROVE CapacityInv'
  OBVIOUS
<1>a. Typed'
  BY TypeStep DEF CapacityInv
<1>1. ASSUME NEW r \in Replicas, Drain(r) PROVE CapacityInv'
  BY <1>1, <1>a DEF CapacityInv, Drain, Typed, TypeOK, Phases, AdmittedHolds,
     FreshSnapshot, Considered, PeersClear, OneSlot, SlotExclusive,
     RuntimeReserved, GrantCap, AcquireSteps, ReleaseSteps
<1>2. CASE Crash
  BY <1>2, <1>a, ConstantsAssumption
  DEF CapacityInv, Crash, Fault, Typed, TypeOK, Phases, AdmittedHolds,
     FreshSnapshot, Considered, PeersClear, OneSlot, SlotExclusive,
     RuntimeReserved, GrantCap, AcquireSteps, ReleaseSteps
<1>3. CASE UNCHANGED vars
  BY <1>3, <1>a DEF CapacityInv, vars, Phases, AdmittedHolds,
     FreshSnapshot, Considered, PeersClear, OneSlot, SlotExclusive,
     RuntimeReserved, GrantCap
<1> QED BY <1>a, <1>1, <1>2, <1>3, AcquireStep, ReleaseStep DEF Next

-----------------------------------------------------------------------------
\* The inductive invariant holds in every reachable state.
THEOREM CapacityInvariance == Spec => []CapacityInv
BY InvInit, InvStep, PTL DEF Spec

\* The variables keep their types; no loop exceeds its attempts
\* (capacity.go:18 and 76).
THEOREM TypeCorrect == Spec => []TypeOK
<1>1. CapacityInv => TypeOK
  BY DEF CapacityInv, Typed
<1> QED BY <1>1, CapacityInvariance, PTL

\* A destination never runs two managed runtimes, for any number of requests,
\* crashes and lost answers (capacity.go:37-39 and 46-64).
THEOREM OneRuntimeAlways == Spec => []OneRuntime
<1>1. CapacityInv => OneRuntime
  BY ConstantsAssumption
  DEF CapacityInv, OneRuntime, RuntimeReserved, SlotExclusive
<1> QED BY <1>1, CapacityInvariance, PTL

\* An admitted runtime keeps its reservation until it is gone
\* (capacity.go:2, 87-106).
THEOREM RuntimeReservedAlways == Spec => []RuntimeReserved
<1>1. CapacityInv => RuntimeReserved
  BY DEF CapacityInv
<1> QED BY <1>1, CapacityInvariance, PTL

\* No grant exceeds MaxConcurrentReplicas (capacity.go:41-43).
THEOREM GrantCapAlways == Spec => []GrantCap
<1>1. CapacityInv => GrantCap
  BY DEF CapacityInv
<1> QED BY <1>1, CapacityInvariance, PTL

\* The ledger's loops implement atomic admission: the reservations loaded, the
\* decision and the save act as one step of module Admission
\* (capacity.go:17-108).
THEOREM Refinement == Spec => AtomicAdmission
<1>1. Init => A!Init
  BY DEF Init, A!Init
<1>2. CapacityInv /\ [Next]_vars => [A!Next]_(ledger.held)
  <2> SUFFICES ASSUME CapacityInv, [Next]_vars PROVE [A!Next]_(ledger.held)
    OBVIOUS
  <2> USE DEF CapacityInv, Typed, TypeOK
  <2>1. ASSUME NEW r \in Replicas, Acquire(r) PROVE [A!Next]_(ledger.held)
    <3>1. CASE SaveReservation(r)
      BY <3>1 DEF SaveReservation, WriteLedger, FreshSnapshot, Considered,
                  A!Next, A!Admit
    <3>2. CASE ~SaveReservation(r)
      BY <2>1, <3>2 DEF Acquire, BeginAcquire, LoadFails, AlreadyReserved,
         Refused, LoadLedger, ListPeers, InspectPeer, PeersInspected,
         ReservationConflict, SaveFails, EnsureRuntime
    <3> QED BY <3>1, <3>2
  <2>2. ASSUME NEW r \in Replicas, Release(r) PROVE [A!Next]_(ledger.held)
    <3>1. CASE SaveRelease(r)
      BY <3>1 DEF SaveRelease, WriteLedger, FreshSnapshot, A!Next, A!Discharge
    <3>2. CASE ~SaveRelease(r)
      BY <2>2, <3>2 DEF Release, RemoveRuntime, ReportTerminal, LoadForRelease,
         ReleaseFails, ReleaseConflict, Finish
    <3> QED BY <3>1, <3>2
  <2>3. ASSUME NEW r \in Replicas, Drain(r) PROVE [A!Next]_(ledger.held)
    BY <2>3 DEF Drain
  <2>4. CASE Crash
    BY <2>4 DEF Crash
  <2>5. CASE UNCHANGED vars
    BY <2>5 DEF vars
  <2> QED BY <2>1, <2>2, <2>3, <2>4, <2>5 DEF Next
<1> QED BY <1>1, <1>2, CapacityInvariance, PTL DEF Spec, AtomicAdmission, A!Spec
=============================================================================
