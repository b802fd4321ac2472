------------------------------ MODULE Capacity -------------------------------
(***************************************************************************)
(* internal/capacity: durable admission through one encrypted ledger per   *)
(* destination namespace.  Acquire and Release are optimistic-concurrency  *)
(* loops: load the ledger, compute, save on the resourceVersion loaded,    *)
(* and start over on a conflict.  Each replica is a process.  The manager  *)
(* runs one worker and elects a leader (cmd/operator/main.go:74), so the   *)
(* loops of two replicas meet only when a leader whose lease has lapsed is *)
(* still running; they are nevertheless written for concurrency, and       *)
(* capacity_test.go:18 runs them concurrently.                             *)
(*                                                                         *)
(* The engine's side is kept to what matters to the ledger: Acquire comes  *)
(* before Runtime.Ensure, and Release after the runtime is gone and the    *)
(* terminal phase is persisted.                                            *)
(***************************************************************************)
EXTENDS Naturals, FiniteSets

CONSTANTS
  Replicas,   \* the ClusterReplica requests of one destination namespace
  Grants,     \* the ReplicaGrants they name
  GrantOf,    \* the grant of each replica
  Helm,       \* the replicas whose provider is "helm" (a managed runtime)
  Cap,        \* grant.Spec.MaxConcurrentReplicas, 0 meaning no limit
  Legacy,     \* replicas that already run, from before the ledger existed
  Attempts,   \* bound of both loops (8 in the code)
  MaxFaults   \* bound on crashes and failed calls

ASSUME ConstantsAssumption ==
  /\ IsFiniteSet(Replicas)
  /\ GrantOf \in [Replicas -> Grants]
  /\ Cap \in [Grants -> Nat]
  /\ Helm \subseteq Replicas
  /\ Legacy \subseteq Helm
  /\ \A p, q \in Legacy : p = q      \* vCluster: one runtime per namespace
  /\ Attempts \in Nat \ {0}
  /\ MaxFaults \in Nat

VARIABLES
  ledger,     \* the ledger Secret: does it exist, and who holds a reservation
  service,    \* service[r]: r's runtime Service is live on the host
  life,       \* the request: wanted, draining, terminal phase persisted, gone
  pc,         \* where r's reconcile is
  attempt,    \* the loop counter of Acquire or Release
  snap,       \* the reservations r's reconcile loaded
  fresh,      \* the resourceVersion r loaded is still the stored one
  unseen,     \* the peers r has listed and not yet inspected
  faults      \* crashes and failed calls so far

vars == <<ledger, service, life, pc, attempt, snap, fresh, unseen, faults>>

A == INSTANCE Admission WITH held <- ledger.held

AcquireSteps == {"load", "list", "peers", "save", "admitted"}
ReleaseSteps == {"unload", "unsave", "released"}

TypeOK ==
  /\ ledger \in [present : BOOLEAN, held : SUBSET Replicas]
  /\ service \in [Replicas -> BOOLEAN]
  /\ life \in [Replicas -> {"wanted", "draining", "terminal", "gone"}]
  /\ pc \in [Replicas -> {"idle"} \cup AcquireSteps \cup ReleaseSteps]
  /\ attempt \in [Replicas -> 0 .. Attempts]
  /\ snap \in [Replicas -> SUBSET Replicas]
  /\ fresh \in [Replicas -> BOOLEAN]
  /\ unseen \in [Replicas -> SUBSET Replicas]
  /\ faults \in 0 .. MaxFaults

Init ==
  /\ ledger = [present |-> FALSE, held |-> {}]
  /\ service = [r \in Replicas |-> r \in Legacy]
  /\ life = [r \in Replicas |-> "wanted"]
  /\ pc = [r \in Replicas |-> "idle"]
  /\ attempt = [r \in Replicas |-> 0]
  /\ snap = [r \in Replicas |-> {}]
  /\ fresh = [r \in Replicas |-> FALSE]
  /\ unseen = [r \in Replicas |-> {}]
  /\ faults = 0

-----------------------------------------------------------------------------
\* Control.

Goto(r, to) == pc' = [pc EXCEPT ![r] = to]

\* A call fails, or its answer is lost: one more of the tolerated faults.
Fault == faults < MaxFaults /\ faults' = faults + 1

\* Store.Save on the ledger succeeds: every other resourceVersion is outdated.
WriteLedger(held) ==
  /\ ledger' = [present |-> TRUE, held |-> held]
  /\ fresh' = [q \in Replicas |-> FALSE]

\* A conflict starts the loop over, unless it was the last attempt: then the
\* contention error ends the reconcile.
NextAttempt(r, loop) ==
  /\ attempt' = [attempt EXCEPT ![r] = @ + 1]
  /\ Goto(r, IF attempt[r] + 1 < Attempts THEN loop ELSE "idle")

-----------------------------------------------------------------------------
\* Acquire.

\* The engine reaches capacity.Acquire in a reconcile of a live request.
BeginAcquire(r) ==
  /\ pc[r] = "idle" /\ life[r] = "wanted"
  /\ attempt' = [attempt EXCEPT ![r] = 0]
  /\ Goto(r, "load")
  /\ UNCHANGED <<ledger, service, life, snap, fresh, unseen, faults>>

\* The ledger cannot be read: "Queued", to be tried again.
LoadFails(r) ==
  /\ pc[r] \in {"load", "list", "peers"}
  /\ Fault
  /\ Goto(r, "idle")
  /\ UNCHANGED <<ledger, service, life, attempt, snap, fresh, unseen>>

\* The scan of the reservations met r's own.
AlreadyReserved(r) ==
  /\ pc[r] = "load"
  /\ r \in ledger.held
  /\ Goto(r, "admitted")
  /\ UNCHANGED <<ledger, service, life, attempt, snap, fresh, unseen, faults>>

\* No room next to the reservations of others.  Both ends of the scan are
\* possible when r's own reservation and another managed one are stored, for
\* the answer then depends on their order.
Refused(r) ==
  /\ pc[r] = "load"
  /\ ~A!Room(r, ledger.held \ {r})
  /\ r \in ledger.held => r \in Helm /\ (ledger.held \ {r}) \cap Helm # {}
  /\ Goto(r, "idle")
  /\ UNCHANGED <<ledger, service, life, attempt, snap, fresh, unseen, faults>>

\* There is room; a managed replica looks for runtimes without a reservation.
LoadLedger(r) ==
  /\ pc[r] = "load"
  /\ r \notin ledger.held
  /\ A!Room(r, ledger.held)
  /\ snap' = [snap EXCEPT ![r] = ledger.held]
  /\ fresh' = [fresh EXCEPT ![r] = TRUE]
  /\ Goto(r, IF r \in Helm THEN "list" ELSE "save")
  /\ UNCHANGED <<ledger, service, life, attempt, unseen, faults>>

\* Mutant: peers whose cleanup has begun are passed over.
ListPeersWanted(r) ==
  /\ pc[r] = "list"
  /\ unseen' = [unseen EXCEPT ![r] = {p \in Replicas \ {r} : life[p] = "wanted"}]
  /\ Goto(r, "peers")
  /\ UNCHANGED <<ledger, service, life, attempt, snap, fresh, faults>>

\* A request without Status.Runtime has no Service, so only the terminal
\* phases need to be told apart here.
ListPeers(r) ==
  /\ pc[r] = "list"
  /\ unseen' = [unseen EXCEPT ![r] =
                 {p \in Replicas \ {r} : life[p] \notin {"terminal", "gone"}}]
  /\ Goto(r, "peers")
  /\ UNCHANGED <<ledger, service, life, attempt, snap, fresh, faults>>

\* One Service Get; a live Service refuses r.
InspectPeer(r) ==
  /\ pc[r] = "peers"
  /\ \E p \in unseen[r] :
       IF service[p]
         THEN Goto(r, "idle") /\ UNCHANGED unseen
         ELSE UNCHANGED pc /\ unseen' = [unseen EXCEPT ![r] = @ \ {p}]
  /\ UNCHANGED <<ledger, service, life, attempt, snap, fresh, faults>>

PeersInspected(r) ==
  /\ pc[r] = "peers" /\ unseen[r] = {}
  /\ Goto(r, "save")
  /\ UNCHANGED <<ledger, service, life, attempt, snap, fresh, unseen, faults>>

\* Mutant: the ledger is written without its resourceVersion.
SaveReservationBlind(r) ==
  /\ pc[r] = "save"
  /\ WriteLedger(snap[r] \cup {r})
  /\ Goto(r, "admitted")
  /\ UNCHANGED <<service, life, attempt, snap, unseen, faults>>

SaveReservation(r) ==
  /\ pc[r] = "save" /\ fresh[r]
  /\ WriteLedger(snap[r] \cup {r})
  /\ \/ Goto(r, "admitted") /\ UNCHANGED faults
     \/ Goto(r, "idle") /\ Fault             \* saved, but the answer is lost
  /\ UNCHANGED <<service, life, attempt, snap, unseen>>

\* Conflict, or AlreadyExists when another replica created the ledger.
ReservationConflict(r) ==
  /\ pc[r] = "save" /\ ~fresh[r]
  /\ NextAttempt(r, "load")
  /\ UNCHANGED <<ledger, service, life, snap, fresh, unseen, faults>>

\* The save is refused without effect; Acquire returns the error.
SaveFails(r) ==
  /\ pc[r] = "save"
  /\ Fault
  /\ Goto(r, "idle")
  /\ UNCHANGED <<ledger, service, life, attempt, snap, fresh, unseen>>

\* The admitted reconcile goes on to Runtime.Ensure (managed) or connects to
\* an existing target.  Ensure's own check for other runtimes is left out, so
\* that the ledger alone must keep them apart.
EnsureRuntime(r) ==
  /\ pc[r] = "admitted"
  /\ service' = [service EXCEPT ![r] = @ \/ r \in Helm]
  /\ Goto(r, "idle")
  /\ UNCHANGED <<ledger, life, attempt, snap, fresh, unseen, faults>>

-----------------------------------------------------------------------------
\* Cleanup and Release.

\* Deletion or TTL: from now on reconcile takes the cleanup branch.
Drain(r) ==
  /\ pc[r] = "idle" /\ life[r] = "wanted"
  /\ life' = [life EXCEPT ![r] = "draining"]
  /\ UNCHANGED <<ledger, service, pc, attempt, snap, fresh, unseen, faults>>

RemoveRuntime(r) ==
  /\ pc[r] = "idle" /\ life[r] = "draining" /\ service[r]
  /\ service' = [service EXCEPT ![r] = FALSE]
  /\ UNCHANGED <<ledger, life, pc, attempt, snap, fresh, unseen, faults>>

\* The runtime is verified gone: persist Expired or Cleaned, then Release.
ReportTerminal(r) ==
  /\ pc[r] = "idle" /\ life[r] \in {"draining", "terminal"} /\ ~service[r]
  /\ life' = [life EXCEPT ![r] = "terminal"]
  /\ attempt' = [attempt EXCEPT ![r] = 0]
  /\ Goto(r, "unload")
  /\ UNCHANGED <<ledger, service, snap, fresh, unseen, faults>>

\* An error of Release overwrites the terminal phase with Deleting.
ReleaseError(r) ==
  /\ life' = [life EXCEPT ![r] = "draining"]
  /\ Goto(r, "idle")

\* Mutant: the replica's reservation is not found.
LoadForReleaseNone(r) ==
  /\ pc[r] = "unload"
  /\ Goto(r, "released")
  /\ UNCHANGED <<ledger, service, life, attempt, snap, fresh, unseen, faults>>

LoadForRelease(r) ==
  /\ pc[r] = "unload"
  /\ snap' = [snap EXCEPT ![r] = ledger.held]
  /\ fresh' = [fresh EXCEPT ![r] = TRUE]
  /\ Goto(r, IF ledger.present /\ r \in ledger.held THEN "unsave" ELSE "released")
  /\ UNCHANGED <<ledger, service, life, attempt, unseen, faults>>

ReleaseFails(r) ==
  /\ pc[r] \in {"unload", "unsave"}
  /\ Fault
  /\ ReleaseError(r)
  /\ UNCHANGED <<ledger, service, attempt, snap, fresh, unseen>>

SaveRelease(r) ==
  /\ pc[r] = "unsave" /\ fresh[r]
  /\ WriteLedger(snap[r] \ {r})
  /\ \/ Goto(r, "released") /\ UNCHANGED <<life, faults>>
     \/ ReleaseError(r) /\ Fault              \* saved, but the answer is lost
  /\ UNCHANGED <<service, attempt, snap, unseen>>

\* Mutant: a conflict counts as released.
ReleaseConflictIgnored(r) ==
  /\ pc[r] = "unsave" /\ ~fresh[r]
  /\ Goto(r, "released")
  /\ UNCHANGED <<ledger, service, life, attempt, snap, fresh, unseen, faults>>

ReleaseConflict(r) ==
  /\ pc[r] = "unsave" /\ ~fresh[r]
  /\ NextAttempt(r, "unload")
  /\ life' = [life EXCEPT ![r] =
               IF attempt[r] + 1 < Attempts THEN @ ELSE "draining"]
  /\ UNCHANGED <<ledger, service, snap, fresh, unseen, faults>>

\* The private record and the finalizer go; the request is over.
Finish(r) ==
  /\ pc[r] = "released"
  /\ life' = [life EXCEPT ![r] = "gone"]
  /\ Goto(r, "idle")
  /\ UNCHANGED <<ledger, service, attempt, snap, fresh, unseen, faults>>

-----------------------------------------------------------------------------
\* The operator restarts: every reconcile in flight is forgotten.
Crash ==
  /\ Fault
  /\ pc' = [r \in Replicas |-> "idle"]
  /\ UNCHANGED <<ledger, service, life, attempt, snap, fresh, unseen>>

Acquire(r) ==
  \/ BeginAcquire(r) \/ LoadFails(r) \/ AlreadyReserved(r) \/ Refused(r)
  \/ LoadLedger(r) \/ ListPeers(r) \/ InspectPeer(r) \/ PeersInspected(r)
  \/ SaveReservation(r) \/ ReservationConflict(r) \/ SaveFails(r)
  \/ EnsureRuntime(r)

Release(r) ==
  \/ RemoveRuntime(r) \/ ReportTerminal(r) \/ LoadForRelease(r)
  \/ ReleaseFails(r) \/ SaveRelease(r) \/ ReleaseConflict(r) \/ Finish(r)

Next == (\E r \in Replicas : Acquire(r) \/ Release(r) \/ Drain(r)) \/ Crash

\* The work queue retries every request, so its reconcile always moves on.
\* Nothing makes a user delete a request.
Fairness == \A r \in Replicas : WF_vars(Acquire(r)) /\ WF_vars(Release(r))

Spec == Init /\ [][Next]_vars /\ Fairness

-----------------------------------------------------------------------------
\* Properties.

\* The destination never runs two managed runtimes, whatever the interleaving
\* of the Acquire loops, crashes, lost answers and runtimes from before the
\* ledger (the check of capacity.go:37 and the peer scan of 46-64).
OneRuntime ==
  \A p, q \in Helm : service[p] /\ service[q] => p = q

\* A runtime that Acquire admitted keeps its reservation until the runtime is
\* gone: no lost update, restart or late release drops it (the package comment
\* of capacity.go:2, "released only after verified resource cleanup").
RuntimeReserved ==
  \A r \in Replicas : service[r] /\ r \notin Legacy => r \in ledger.held

\* Concurrent Acquires never exceed a grant's MaxConcurrentReplicas, although
\* each counts on a ledger it read earlier (capacity.go:41).
GrantCap ==
  \A g \in Grants :
    Cap[g] > 0 => Cardinality(A!Of(g, ledger.held)) <= Cap[g]

\* The ledger implements atomic admission: each step of either loop admits or
\* discharges at most one replica, within the limits (capacity.go:17-108).
AtomicAdmission == A!Spec

\* Cleanup ends: a draining request releases its reservation, whatever the
\* contention on the ledger (the retries of capacity.go:76-106).
DrainCompletes ==
  \A r \in Replicas :
    (life[r] = "draining") ~> (life[r] = "gone" /\ r \notin ledger.held)

\* A queued managed request takes the slot once the others are gone; nobody
\* leaves a reservation behind that would keep it waiting (engine.go:181-183).
QueuedIsAdmitted ==
  \A r \in Helm :
    <>[](life[r] = "wanted" /\ \A p \in Replicas \ {r} : life[p] = "gone")
      => <>(r \in ledger.held)
=============================================================================
