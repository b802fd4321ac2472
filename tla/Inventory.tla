------------------------------ MODULE Inventory ------------------------------
(***************************************************************************)
(* internal/workflow/objects.go and cleanup_entries.go: how the engine     *)
(* creates, adopts, refreshes, prunes and removes the objects of a plan in *)
(* the guest, and keeps the encrypted inventory that says which are its    *)
(* own.  The guest belongs to its users as well: between any two calls of  *)
(* the engine they may delete, edit or replace an object.                  *)
(*                                                                         *)
(* An entry is saved before the object it describes is created.  Its       *)
(* OperationID, here its position in `entries`, is written to the object,  *)
(* so that an entry whose UID was never saved still finds its object.      *)
(*                                                                         *)
(* A reconcile runs the loops "namespaces", "prune" and "objects", or the  *)
(* loop "clean"; `n` is the loop's cursor.  Every save follows at once the *)
(* change it saves, so the record in memory is the stored one.             *)
(***************************************************************************)
EXTENDS Naturals, Sequences

CONSTANTS
  Objects,      \* the identities the plans use
  Order,        \* Plan.Order, namespaces first
  Desired,      \* Desired[p][id]: the content in plan p, 0 when it has none
  Namespaces,   \* the Namespace objects ({} for an existing target)
  Volumes,      \* the PersistentVolumeClaims, protected while Pods use them
  NamespaceOf,  \* the Namespace object that holds an object, or NoObject
  ControllerOf, \* the workload that puts a finalizer of its own on an object and
                \* has to be there to remove it, or NoObject
  NoObject,
  UserMay,      \* what users of the guest do: "delete", "create", "edit"
  MaxMeddling,  \* bound on what users do
  MaxFaults     \* bound on crashes, failed calls and lost answers

MaxPlans == Len(Desired)

ASSUME ConstantsAssumption ==
  /\ Order \in Seq(Objects)
  /\ \A id \in Objects : \E k \in DOMAIN Order : Order[k] = id
  /\ Desired \in Seq([Objects -> Nat])
  /\ Namespaces \subseteq Objects /\ Volumes \subseteq Objects
  /\ NoObject \notin Objects
  /\ NamespaceOf \in [Objects -> Namespaces \cup {NoObject}]
  /\ ControllerOf \in [Objects -> Objects \cup {NoObject}]
  /\ \A id \in Namespaces : ControllerOf[id] = NoObject
  /\ UserMay \subseteq {"delete", "create", "edit"}
  /\ MaxMeddling \in Nat /\ MaxFaults \in Nat

VARIABLES
  live,       \* the object of each identity in the guest
  entries,    \* state.Entries
  plan,       \* the plan captured last
  applied,    \* AppliedRevision
  cleanup,    \* CleanupStarted
  cleaned,    \* GuestCleaned
  created,    \* the UIDs of objects the engine created
  uids,       \* UIDs handed out by the guest API server
  meddling,   \* what users did so far
  faults,     \* crashes, failed calls and lost answers so far
  pc, loop, n, \* where the reconcile is
  at,         \* the entry it works on
  seen,       \* what its last Get returned
  pending     \* some deletion of this pass is not complete

record == <<entries, plan, applied, cleanup, cleaned>>
guest == <<live, created, uids>>
locals == <<loop, n, at, seen, pending>>
vars == <<record, guest, meddling, faults, pc, locals>>

\* An object; uid 0 stands for NotFound, op 0 for no ownership marker, `held`
\* for the finalizer of its controller.
Absent ==
  [uid |-> 0, op |-> 0, content |-> 0, edited |-> FALSE, held |-> FALSE,
   deleting |-> FALSE]

LiveObjects ==
  [uid : Nat, op : Nat, content : Nat, edited : BOOLEAN, held : BOOLEAN,
   deleting : BOOLEAN]

\* An entry; uid 0 until a save after the creation.
Entries == [id : Objects, uid : Nat, applied : Nat, deleted : BOOLEAN]

RecordType ==
  /\ entries \in Seq(Entries)
  /\ plan \in 0 .. MaxPlans /\ applied \in 0 .. MaxPlans
  /\ cleanup \in BOOLEAN /\ cleaned \in BOOLEAN

GuestType ==
  /\ live \in [Objects -> LiveObjects]
  /\ uids \in Nat /\ created \subseteq 1 .. uids

LocalsType ==
  /\ pc \in {"idle", "next", "intend", "create", "record", "redo", "patch",
             "patched", "delete", "verify", "gone", "applied", "cleaned"}
  /\ loop \in {"none", "namespaces", "prune", "objects", "clean"}
  /\ n \in Nat /\ at \in Nat
  /\ seen \in LiveObjects /\ pending \in BOOLEAN

TypeOK ==
  /\ RecordType /\ GuestType /\ LocalsType
  /\ meddling \in 0 .. MaxMeddling /\ faults \in 0 .. MaxFaults

Init ==
  /\ live = [id \in Objects |-> Absent]
  /\ entries = <<>> /\ plan = 0 /\ applied = 0
  /\ cleanup = FALSE /\ cleaned = FALSE
  /\ created = {} /\ uids = 0
  /\ meddling = 0 /\ faults = 0
  /\ pc = "idle" /\ loop = "none" /\ n = 0 /\ at = 0
  /\ seen = Absent /\ pending = FALSE

-----------------------------------------------------------------------------
\* The guest.

Exists(obj) == obj.uid # 0

Present(id) == Exists(live[id])

\* A namespace and a claim always have a finalizer, other objects the one of
\* their controller: they linger after a deletion until it is gone.
HasFinalizer(id) == id \in Namespaces \cup Volumes \/ live[id].held

Removed(id) ==
  [live EXCEPT ![id] = IF HasFinalizer(id) THEN [@ EXCEPT !.deleting = TRUE] ELSE Absent]

\* No finalizer holds the object any more.  A claim is protected until the Pods
\* of its namespace go, and a namespace until it is empty.
Free(id) ==
  /\ ~live[id].held
  /\ id \in Namespaces =>
       \A x \in Objects : NamespaceOf[x] = id => ~Present(x)
  /\ id \in Volumes /\ NamespaceOf[id] # NoObject =>
       LET ns == NamespaceOf[id] IN ~Present(ns) \/ live[ns].deleting
\* The API server refuses a name that exists, and a namespace that does not or
\* is being deleted.
Creatable(id) ==
  /\ ~Present(id)
  /\ NamespaceOf[id] # NoObject =>
       LET ns == NamespaceOf[id] IN Present(ns) /\ ~live[ns].deleting

NewObject(op, content) ==
  [uid |-> uids + 1, op |-> op, content |-> content, edited |-> FALSE,
   held |-> FALSE, deleting |-> FALSE]

\* The controller of the object is there to work on it.
Served(id) ==
  /\ ControllerOf[id] # NoObject
  /\ LET c == ControllerOf[id] IN Present(c) /\ ~live[c].deleting

\* A controller puts its finalizer on an object, which the API server allows
\* until the object is deleted, and removes it once it has handled the deletion.
Hold(id) ==
  /\ Present(id) /\ ~live[id].deleting /\ ~live[id].held /\ Served(id)
  /\ live' = [live EXCEPT ![id].held = TRUE]
  /\ UNCHANGED <<record, created, uids, meddling, faults, pc, locals>>

Serve(id) ==
  /\ Present(id) /\ live[id].deleting /\ live[id].held /\ Served(id)
  /\ live' = [live EXCEPT ![id].held = FALSE]
  /\ UNCHANGED <<record, created, uids, meddling, faults, pc, locals>>

Finalize(id) ==
  /\ Present(id) /\ live[id].deleting /\ Free(id)
  /\ live' = [live EXCEPT ![id] = Absent]
  /\ UNCHANGED <<record, created, uids, meddling, faults, pc, locals>>

\* The namespace controller deletes what a terminating namespace holds.
Sweep(id) ==
  /\ NamespaceOf[id] # NoObject
  /\ live[NamespaceOf[id]].deleting
  /\ Present(id) /\ ~live[id].deleting
  /\ live' = Removed(id)
  /\ UNCHANGED <<record, created, uids, meddling, faults, pc, locals>>

\* Users.  A replacement has no marker, or the marker of the object it was
\* copied from, once that object was fully installed.
UserDelete(id) ==
  /\ "delete" \in UserMay /\ meddling < MaxMeddling
  /\ Present(id) /\ ~live[id].deleting
  /\ live' = Removed(id)
  /\ meddling' = meddling + 1
  /\ UNCHANGED <<record, created, uids, faults, pc, locals>>

UserCreate(id) ==
  /\ "create" \in UserMay /\ meddling < MaxMeddling
  /\ Creatable(id)
  /\ \E op \in {0} \cup {i \in DOMAIN entries :
                            entries[i].id = id /\ entries[i].uid # 0} :
       live' = [live EXCEPT ![id] = NewObject(op, 0)]
  /\ uids' = uids + 1 /\ meddling' = meddling + 1
  /\ UNCHANGED <<record, created, faults, pc, locals>>

UserEdit(id) ==
  /\ "edit" \in UserMay /\ meddling < MaxMeddling
  /\ Present(id) /\ ~live[id].edited
  /\ live' = [live EXCEPT ![id].edited = TRUE]
  /\ meddling' = meddling + 1
  /\ UNCHANGED <<record, created, uids, faults, pc, locals>>

User == \E id \in Objects : UserDelete(id) \/ UserCreate(id) \/ UserEdit(id)

Controllers ==
  \E id \in Objects : Hold(id) \/ Serve(id) \/ Finalize(id) \/ Sweep(id)

-----------------------------------------------------------------------------
\* Helpers of the engine.

Wanted(id) == plan # 0 /\ Desired[plan][id] # 0

\* entry(): the entries of an identity that are not deleted.
Current(id) == {i \in DOMAIN entries : entries[i].id = id /\ ~entries[i].deleted}

Controlled(obj, i) == entries[i].uid \in {0, obj.uid} /\ obj.op = i

\* Mutant: every reconcile with a plan is taken for a refresh.
RefreshingAlways == plan # 0

Refreshing == applied # plan

Deleting == loop \in {"prune", "clean"}

InRange == IF Deleting THEN n >= 1 ELSE n <= Len(Order)

Item == IF Deleting THEN entries[n].id ELSE Order[n]

\* The item of the loop calls for work.
Relevant ==
  CASE loop = "namespaces" -> Item \in Namespaces /\ Wanted(Item)
    [] loop = "objects" -> Item \notin Namespaces /\ Wanted(Item)
    [] loop = "prune" -> /\ ~entries[n].deleted
                         /\ Item \notin Namespaces /\ ~Wanted(Item)
    [] OTHER -> ~entries[n].deleted

Fault == faults < MaxFaults /\ faults' = faults + 1

Return ==
  /\ pc' = "idle" /\ loop' = "none" /\ n' = 0 /\ at' = 0
  /\ seen' = Absent /\ pending' = FALSE

Enter(name) ==
  /\ pc' = "next" /\ loop' = name
  /\ n' = IF name \in {"prune", "clean"} THEN Len(entries) ELSE 1
  /\ at' = 0 /\ seen' = Absent /\ pending' = FALSE

\* The loop goes on to its next item.
Continue(wait) ==
  /\ pc' = "next" /\ n' = IF Deleting THEN n - 1 ELSE n + 1
  /\ at' = 0 /\ seen' = Absent /\ pending' = wait /\ UNCHANGED loop

\* The entry at hand, and what Get returned, go on to a write.
Do(step, i, obj) ==
  /\ pc' = step /\ at' = i /\ seen' = obj /\ UNCHANGED <<loop, n, pending>>

\* A call that took effect: `next`, or an error when its answer is lost.
Outcome(next) ==
  \/ next /\ UNCHANGED faults
  \/ Return /\ Fault

\* Store.Save of the entries.
Save(new, next) ==
  /\ entries' = new
  /\ Outcome(next)
  /\ UNCHANGED <<plan, applied, cleanup, cleaned, guest, meddling>>

NoWrite == UNCHANGED <<record, guest, meddling, faults>>

\* A call fails without effect, or the operator restarts.
Interrupted ==
  /\ pc # "idle"
  /\ Fault /\ Return
  /\ UNCHANGED <<record, guest, meddling>>

-----------------------------------------------------------------------------
\* A reconcile and its loops.

\* A first capture, or one asked for by the refresh annotation.
Capture ==
  /\ pc = "idle" /\ ~cleanup /\ plan < MaxPlans
  /\ plan' = plan + 1
  /\ UNCHANGED <<entries, applied, cleanup, cleaned, guest, meddling, faults, pc, locals>>

\* Deletion or TTL.
StartCleanup ==
  /\ pc = "idle" /\ ~cleanup
  /\ cleanup' = TRUE
  /\ UNCHANGED <<entries, plan, applied, cleaned, guest, meddling, faults, pc, locals>>

BeginSync ==
  /\ pc = "idle" /\ ~cleanup /\ plan # 0
  /\ Enter("namespaces") /\ NoWrite

BeginCleanup ==
  /\ pc = "idle" /\ cleanup /\ ~cleaned
  /\ Enter("clean") /\ NoWrite

\* Mutant: a refresh goes straight to the objects of the new plan.
NextLoopNoPrune ==
  /\ pc = "next" /\ ~InRange
  /\ CASE loop = "namespaces" -> Enter("objects")
       [] loop = "objects" -> Do("applied", 0, Absent)
       [] OTHER -> IF pending THEN Return ELSE Do("cleaned", 0, Absent)
  /\ NoWrite

NextLoop ==
  /\ pc = "next" /\ ~InRange
  /\ CASE loop = "namespaces" -> Enter(IF Refreshing THEN "prune" ELSE "objects")
       [] loop = "prune" -> Enter("objects")
       [] loop = "objects" -> Do("applied", 0, Absent)
       [] OTHER -> IF pending THEN Return ELSE Do("cleaned", 0, Absent)
  /\ NoWrite

Skip ==
  /\ pc = "next" /\ InRange /\ ~Relevant
  /\ Continue(pending) /\ NoWrite

\* The plan makes a custom resource, never a claim, depend on its controller.
DependsOnController(id) == ControllerOf[id] # NoObject /\ id \notin Volumes

\* The planned workload an object depends on is not ready: "Replicating".  A
\* workload that is there may be ready or not, one that is missing or being
\* deleted is not.
DependencyReady(id) == DependsOnController(id) => Served(id)

DependencyWaits ==
  /\ pc = "next" /\ loop = "objects" /\ InRange /\ Relevant
  /\ DependsOnController(Item)
  /\ Return /\ NoWrite

-----------------------------------------------------------------------------
\* apply().

\* An existing object without an entry is never adopted; an existing namespace
\* is borrowed.
InspectNew ==
  /\ pc = "next" /\ ~Deleting /\ InRange /\ Relevant
  /\ DependencyReady(Item)
  /\ Current(Item) = {}
  /\ IF ~Present(Item) THEN Do("intend", 0, Absent)
     ELSE IF loop = "namespaces" THEN Continue(FALSE)
     ELSE Return
  /\ NoWrite

\* The branches on a planned object that has an entry.  A recorded UID that
\* disappeared is drift, unless this is a refresh.
InspectKnown ==
  /\ pc = "next" /\ ~Deleting /\ InRange /\ Relevant
  /\ DependencyReady(Item)
  /\ \E i \in Current(Item) :
       LET refresh == Refreshing /\ loop = "objects"
           e == entries[i]
           obj == live[Item] IN
         /\ \A j \in Current(Item) : i <= j
         /\ \/ /\ ~Exists(obj) /\ e.uid = 0
               /\ Do("create", i, Absent)
            \/ /\ ~Exists(obj) /\ e.uid # 0
               /\ IF refresh THEN Do("redo", i, Absent) ELSE Return
            \/ /\ Exists(obj) /\ ~Controlled(obj, i)
               /\ Return
            \/ /\ Exists(obj) /\ Controlled(obj, i) /\ e.uid = 0
               /\ Do("record", i, obj)
            \/ /\ Exists(obj) /\ Controlled(obj, i) /\ e.uid # 0
               /\ IF refresh /\ e.applied # Desired[plan][Item]
                    THEN Do("patch", i, obj) ELSE Continue(FALSE)
  /\ NoWrite

Intend ==
  /\ pc = "intend"
  /\ Save(Append(entries, [id |-> Item, uid |-> 0, applied |-> 0, deleted |-> FALSE]),
          Do("create", Len(entries) + 1, Absent))

Create ==
  /\ pc = "create"
  /\ IF ~Creatable(Item) THEN Return /\ UNCHANGED <<guest, faults>>
       ELSE LET obj == NewObject(at, Desired[plan][Item]) IN
              /\ live' = [live EXCEPT ![Item] = obj]
              /\ uids' = uids + 1 /\ created' = created \cup {uids + 1}
              /\ Outcome(Do("record", at, obj))
  /\ UNCHANGED <<record, meddling>>

\* After a creation, and for an object created by a reconcile that never saved
\* its UID.
Record ==
  /\ pc = "record"
  /\ Save([entries EXCEPT ![at].uid = seen.uid, ![at].applied = Desired[plan][Item]],
          Continue(FALSE))

\* The missing object's entry is closed, and apply starts over.
Redo ==
  /\ pc = "redo"
  /\ Save([entries EXCEPT ![at].deleted = TRUE], Do("next", 0, Absent))

\* The refresh patch carries the UID and resourceVersion that were read.
Patch ==
  /\ pc = "patch"
  /\ IF live[Item] # seen THEN Return /\ UNCHANGED <<guest, faults>>
     ELSE /\ live' = [live EXCEPT ![Item].content = Desired[plan][Item]]
          /\ Outcome(Do("patched", at, seen))
          /\ UNCHANGED <<created, uids>>
  /\ UNCHANGED <<record, meddling>>

Patched ==
  /\ pc = "patched"
  /\ Save([entries EXCEPT ![at].applied = Desired[plan][Item]], Continue(FALSE))

\* Every planned object is read again before the revision counts as applied.
SaveApplied ==
  /\ pc = "applied"
  /\ IF \A id \in Objects \ Namespaces : Wanted(id) => Present(id)
       THEN applied' = plan /\ Outcome(Return)
       ELSE Return /\ UNCHANGED <<applied, faults>>
  /\ UNCHANGED <<entries, plan, cleanup, cleaned, guest, meddling>>

-----------------------------------------------------------------------------
\* deleteEntry(), for prune and cleanup.

\* Mutant: cleanup waits for protected claims as well.
WaitReturns == Return

\* The identity has an object that its entry in the inventory leads to.
Ours(id) == Present(id) /\ \E i \in Current(id) : Controlled(live[id], i)

\* Mutant: cleanup goes on past a claim whatever finalizers it has.
WaitOrdinary ==
  LET ns == NamespaceOf[Item] IN
    IF loop = "clean" /\ Item \in Volumes /\ ns # NoObject /\ Ours(Item) /\ Ours(ns)
      THEN Continue(TRUE) ELSE Return

\* What a deletion that waits does to its loop: only a claim in a namespace of
\* our own, with no finalizer but Kubernetes' own, lets cleanup go on, so that
\* the namespace can end the Pods that use the claim.
Wait ==
  LET ns == NamespaceOf[Item] IN
    IF /\ loop = "clean" /\ Item \in Volumes /\ ns # NoObject
       /\ Ours(Item) /\ ~live[Item].held /\ Ours(ns)
      THEN Continue(TRUE) ELSE Return

InspectEntry ==
  /\ pc = "next" /\ Deleting /\ InRange /\ Relevant
  /\ LET obj == live[Item] IN
       IF ~Exists(obj) THEN Do("gone", n, Absent)
       ELSE IF ~Controlled(obj, n) THEN Return
       ELSE IF obj.deleting THEN Wait
       ELSE Do("delete", n, obj)
  /\ NoWrite

\* Mutant: the deletion has no precondition.
DeleteByName ==
  /\ pc = "delete"
  /\ live' = IF Present(Item) THEN Removed(Item) ELSE live
  /\ Do("verify", at, Absent)
  /\ UNCHANGED <<record, created, uids, meddling, faults>>

\* Mutant: the entry is closed when its deletion is accepted.
DeleteUnverified ==
  /\ pc = "delete"
  /\ live' = IF live[Item] = seen THEN Removed(Item) ELSE live
  /\ Do("gone", at, Absent)
  /\ UNCHANGED <<record, created, uids, meddling, faults>>

\* The deletion carries the UID and resourceVersion that were read.
Delete ==
  /\ pc = "delete"
  /\ \/ /\ Present(Item) /\ live[Item] = seen
        /\ live' = Removed(Item)
        /\ Outcome(Do("verify", at, Absent))
     \/ /\ ~Present(Item)
        /\ Do("verify", at, Absent) /\ UNCHANGED <<live, faults>>
     \/ /\ Present(Item) /\ live[Item] # seen
        /\ Return /\ UNCHANGED <<live, faults>>
  /\ UNCHANGED <<record, created, uids, meddling>>

\* Mutant: the loop goes on without waiting for the object to disappear.
VerifySkipped ==
  /\ pc = "verify"
  /\ Continue(pending) /\ NoWrite

Verify ==
  /\ pc = "verify"
  /\ IF Present(Item) THEN Wait ELSE Do("gone", at, Absent)
  /\ NoWrite

Gone ==
  /\ pc = "gone"
  /\ Save([entries EXCEPT ![at].deleted = TRUE], Continue(pending))

SaveCleaned ==
  /\ pc = "cleaned"
  /\ cleaned' = TRUE
  /\ Outcome(Return)
  /\ UNCHANGED <<entries, plan, applied, cleanup, guest, meddling>>

-----------------------------------------------------------------------------
Engine ==
  \/ BeginSync \/ BeginCleanup \/ NextLoop \/ Skip \/ InspectNew
  \/ InspectKnown \/ Intend \/ Create \/ Record \/ Redo \/ Patch \/ Patched
  \/ SaveApplied \/ InspectEntry \/ Delete \/ Verify \/ Gone \/ SaveCleaned

Next ==
  \/ Engine \/ DependencyWaits \/ Interrupted \/ Capture \/ StartCleanup
  \/ Controllers \/ User

\* The work queue repeats the reconcile; the guest's own controllers run.
Fairness ==
  /\ WF_vars(Engine)
  /\ \A id \in Objects :
       WF_vars(Serve(id)) /\ WF_vars(Finalize(id)) /\ WF_vars(Sweep(id))

Spec == Init /\ [][Next]_vars /\ Fairness

-----------------------------------------------------------------------------
\* Properties.

Mine(id) == live[id].uid \in created

\* Every object the engine created and that is still there has an entry that
\* leads to it, wherever the reconcile was interrupted (the intent saved at
\* objects.go:57-61 and the marker of 68).
InventoryComplete ==
  \A id \in Objects : Mine(id) =>
    \E i \in Current(id) : Controlled(live[id], i)

\* The engine changes or deletes nothing it did not create, even when a user
\* replaces an object between its read and its write (objects.go:37, 119, 189).
ForeignPreserved ==
  [][Engine => \A id \in Objects :
       Present(id) /\ ~Mine(id) => live'[id] = live[id]]_vars

\* A plan counts as applied only when each of its objects has a recorded UID
\* and no entry is left of objects the plan has not (engine.go:273-310, 331).
AppliedComplete ==
  applied = plan /\ plan # 0 /\ ~cleanup =>
    /\ \A id \in Objects \ Namespaces : Wanted(id) =>
         \E i \in Current(id) : entries[i].uid # 0
    /\ \A i \in DOMAIN entries :
         ~entries[i].deleted /\ entries[i].id \notin Namespaces
           => Wanted(entries[i].id)

\* "A UID that disappeared is drift, never an invitation to recreate
\* experiments" (objects.go:71): an object whose UID was recorded is created
\* again only by a refresh, and a namespace never.
NoSilentRecreation ==
  [][\A id \in Objects :
       /\ ~Mine(id) /\ Mine(id)'
       /\ \E i \in DOMAIN entries : entries[i].id = id /\ entries[i].uid # 0
       => applied # plan /\ id \notin Namespaces]_vars

\* GuestCleaned is true of the guest: nothing the engine created is left
\* (engine.go:504).
CleanedMeansGone ==
  cleaned => \A id \in Objects : ~Mine(id)

\* The entry of c was made before that of id.
Older(c, id) == \E i \in Current(c), j \in Current(id) : i < j

\* Cleanup "waits for each reverse dependency to disappear before deleting the
\* next one: a custom resource can need its controller to finish a finalizer"
\* (cleanup_entries.go:15-17), pruning in the same order; and past a claim it
\* goes "only for ordinary Kubernetes PVC and foreground-deletion protection,
\* never arbitrary finalizers" (40-42), so that a claim's controller stays until
\* its finalizer is off the claim.  Of a resource that a new plan keeps without
\* its controller, and of a controller that users deleted and a refresh made
\* again, so that its entry is the younger one, nothing is promised.
DependentsFirst ==
  [][Engine => \A id \in Objects :
       /\ ControllerOf[id] # NoObject /\ Mine(id) /\ Mine(ControllerOf[id])
       /\ id \in Volumes => live[id].held
       /\ Older(ControllerOf[id], id) /\ (cleanup \/ ~Wanted(id))
       => LET c == ControllerOf[id] IN
            Present(c)' /\ (live'[c].deleting => live[c].deleting)]_vars

\* Another's object has a planned name, or the controller that a finalizer
\* needs is gone.
Obstructed ==
  \E id \in Objects :
    \/ Present(id) /\ ~Mine(id)
    \/ Mine(id) /\ live[id].held /\ ~Mine(ControllerOf[id])

\* Cleanup of the guest ends: neither protected claims nor finalizers that need
\* a planned controller hold it up (cleanup_entries.go:15-19), as long as users
\* have not replaced objects or removed controllers.
CleanupCompletes == cleanup ~> (cleaned \/ Obstructed)
=============================================================================
