------------------------------ MODULE Admission ------------------------------
(***************************************************************************)
(* What internal/capacity promises to the engine: a set of admitted        *)
(* replicas, grown one replica at a time and only within the destination's *)
(* single managed-runtime slot and the grant's concurrency cap, and shrunk *)
(* one replica at a time.  The ledger, its retries and its races are in    *)
(* module Capacity, which implements this one.                             *)
(***************************************************************************)
EXTENDS Naturals, FiniteSets

CONSTANTS
  Replicas,   \* the ClusterReplica requests of one destination namespace
  Grants,     \* the ReplicaGrants they name
  GrantOf,    \* the grant of each replica
  Helm,       \* the replicas whose provider is "helm" (a managed runtime)
  Cap         \* grant.Spec.MaxConcurrentReplicas, 0 meaning no limit

VARIABLE held

\* The reservations that count against grant g.
Of(g, reservations) == {q \in reservations : GrantOf[q] = g}

\* There is room for r next to the given reservations.
Room(r, reservations) ==
  /\ r \in Helm => reservations \cap Helm = {}
  /\ \/ Cap[GrantOf[r]] = 0
     \/ Cardinality(Of(GrantOf[r], reservations)) < Cap[GrantOf[r]]

Init == held = {}

Admit(r) ==
  /\ r \notin held
  /\ Room(r, held)
  /\ held' = held \cup {r}

Discharge(r) ==
  /\ r \in held
  /\ held' = held \ {r}

Next == \E r \in Replicas : Admit(r) \/ Discharge(r)

Spec == Init /\ [][Next]_held
=============================================================================
