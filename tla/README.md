# Replicove: TLA+ models and proofs

Replicove is a Kubernetes operator (Go).  A user asks for a *replica* of a part
of a source cluster with a `ClusterReplica`; the operator captures the source,
installs a virtual cluster (a Helm release of vCluster) or connects to an
existing one, recreates the captured objects in that *guest*, and takes all of it
away again when the request is deleted or its TTL runs out.  The operator is
a set of reconcile loops.  Everything it knows between two reconciles is in the
API server: the status of the request, one encrypted Secret per request (the
*record*, `state.State`), and one encrypted Secret per namespace (the *ledger*).
Everything it does is a call to an API server that may fail, conflict, or succeed
without an answer, and the process may stop between any two calls.

The models ask whether this bookkeeping is enough: does a restarted operator find
again everything it created, does it leave alone what it did not create, does
cleanup come to an end, and in the right order.

## Parts of the system

| part | state it keeps | operations | interacts with |
|---|---|---|---|
| replica workflow engine (`internal/workflow/engine.go`) | record: plan, applied revision, entries, CleanupStarted, GuestCleaned, UIDs of the runtime; status: phase, Runtime, Plan | `Reconcile`, `report`, `cleanup`, `finish` | all below |
| capacity ledger (`internal/capacity`, `internal/state/capacity.go`) | reservations of a namespace | `Acquire`, `Release`, optimistic loops of eight attempts | engine; peers' requests and Services |
| guest inventory (`workflow/objects.go`, `cleanup_entries.go`) | entries: operation ID, UID, applied content, deleted | `apply`, `namespaces`, prune, `deleteEntry`, `cleanupGuestEntries` | guest API server, users of the guest |
| protected state store (`internal/state/state.go`, `bootstrap.go`) | Secrets with a resourceVersion | `Load`, `Save`, `Delete` | all that persist |
| chaos experiments (`internal/chaos`) | chaos record: actions in order, applied, cleaned | `Reconcile`, `apply`, `cleanup`, `CleanupReplica` | engine (cleanup waits for it), guest, host network policy |
| access sessions (`workflow/access.go`, `credential_rbac.go`) | access record: entries of identity, credential Secret and reader permissions, revocation begun | issue, report, revoke | engine (cleanup waits for it), guest RBAC, test runner |
| host inventory (`workflow/host_cleanup.go`) | UIDs of host objects and volumes of the runtime | `inventoryHost`, `hostCleanup` | engine's cleanup |
| Helm provider (`internal/runtime/helm`) | the release | `Ensure`, `observe`, `Delete` | engine, host |
| legacy controller (`internal/controller`) | Status.Runtime only | Helm-only life cycle | Helm provider |
| mirror (`internal/mirror`) | mirror record: enrolled runs, active and pending run, lease; a record per run: phase, revision, snapshot, import, child, policy, volumes | enrol, collect, advance (capture, import, generate, activate), `Prepare`, `CleanupGeneration` | engine (two hooks), snapshot controller, test runner (lease) |
| database copies (`internal/database`) | phase, guest entries and host policies of each copy | `Prepare`, `Cleanup`, `CleanupIsolation` | engine (three hooks), guest, host policies, source database |
| secret follow (`workflow/follow.go`) | contents of planned Secrets | re-reads and re-applies them | guest inventory |
| test runner (`internal/testrun`) | in memory: UIDs of what it created, lease, tunnel; the report | create, wait, lease, test, guard, take back | requests, access sessions, experiments, mirror lease |
| planner, policy, catalog, capture, target | none (pure or read-only) | filter, transform, order, connect | engine |
| API types; CLI, dashboard, agent API, diagnostics | none of their own | render and submit requests | API |

`PROJECT.json` lists every part with its source files and whether it is modelled.

What makes these parts hard:

* **Cached and direct reads.** The manager's client reads requests from an informer
  cache and Secrets from the API server (`cmd/operator/main.go:78-91`), so one
  reconcile can combine a stale request with a current record.
* **Interrupted sequences.** A reconcile is a long chain of writes to two API servers;
  any of them can be refused, lost or be the last before a restart.
* **Shared objects.** Users of the guest delete, edit and replace objects between
  the operator's read and its write.
* **Optimistic concurrency** on the ledger that all replicas of a namespace share.
* **Guest and host.** A Pod deleted in the guest goes on running on the host until the
  syncer has removed its physical Pod; isolation has to outlast the second, not the first.
* **Many hands.** Test runner, access controller, chaos controller, mirror controller and
  engine all take back parts of the same environment, and the runner may be killed.
* **Cleanup that waits for others:** experiments and accesses, finalizers in the
  guest, protected volume claims, the release, the host objects, in that order.

## Modules

| module | models | kind |
|---|---|---|
| `Admission` | what the ledger promises: a set of admitted replicas | abstract specification |
| `Capacity` | `capacity.go` as interleaved loops; refines `Admission` | component |
| `Lifecycle` | `engine.go`: one request from finalizer to removal | component, composes the others by one flag each |
| `Inventory` | `objects.go`, `cleanup_entries.go`: the objects of the plans in the guest | component |
| `Chaos` | `internal/chaos`: the experiments of one replica and `CleanupReplica` | component |
| `Mirror` | `internal/mirror`: one mirror, its runs, and the generations in the hands of the engine | component |
| `Database` | `internal/database`: the copies of one replica from `Prepare` to `CleanupIsolation` | component |
| `Access` | `access.go`, `credential_rbac.go`: one session | component, extended by `TestRun` |
| `TestRun` | `internal/testrun` with a session, a request, an experiment, a lease and the engine's cleanup | composition |
| `MCCapacity`, `MCLifecycle`, `MCInventory`, `MCChaos`, `MCMirror`, `MCDatabase`, `MCTestRun` | instances for TLC | |
| `CapacityProofs`, `LifecycleProofs`, `InventoryProofs`, `DatabaseProofs`, `TestRunProofs`, `ChaosProofs`, `MirrorProofs` | theorems; `TestRunProofs` covers `Access` and `TestRun` | |

Operators whose comment begins with "Mutant:" are wrong versions of the definition
that follows them.  No specification uses them; each shows that some property can
fail (`PROJECT.json`, "mutants").

### Capacity

Each replica is a process.  `load` … `save` are the statements of `Acquire`,
`unload`, `unsave` those of `Release`; `snap` is the ledger that the loop loaded
and `fresh` says whether the resourceVersion it came with is still the stored
one, which is all that optimistic concurrency can tell.  `SaveReservation` and
`SaveRelease` may take effect and lose their answer.  `ListPeers` and `InspectPeer`
are the search for runtimes that have no reservation (installed by a version
without the ledger, `Legacy`).  The engine is reduced to the order it guarantees:
`Acquire` before `Runtime.Ensure`, the terminal phase persisted before `Release`.
`Runtime.Ensure` refuses to install next to a foreign release; the model leaves
that check out, so the ledger alone carries the property.

### Lifecycle

The variables `api` and `cache` are the request in the API server and in the
informer, `record` the stored record; `o` and `s` are the copies in the hands of the
reconcile, `pc` where it is.  Every call that writes is an action; `Outcome` gives
it its two ends (answer received, answer lost), `Refuse` and `CallFails` its failure
without effect, `Crash` a restart.  `Route` is the sequence of early returns at the
top of `Reconcile`.  `Save` is `Store.Save`, `PatchStatus`/`PatchPhase`/`PatchTerminal`
the status patches, which send only the fields that differ from the copy `o`; this is
why a stale copy matters.  Other components are one variable each: `reserved`
(ledger), `runtime` (release and host objects), `guest` (objects of a plan), `session`
(accesses and experiments).  The mirror and database hooks are in `Mirror` and `Database`.
Left out: drift and version fields of the status, which control nothing here.

### Inventory

`live` is the guest: one object per identity, with UID, ownership marker (`op`, the
operation ID), content and deletion mark.  `entries` is `state.Entries`; an entry's
position is its operation ID.  A reconcile runs the loops `namespaces`, `prune`,
`objects` (or `clean`), `n` is the cursor, `seen` what the last Get returned, so that a
patch or deletion with UID and resourceVersion preconditions is `live[id] = seen`.
Controllers of the guest are modelled as far as cleanup depends on them:
a namespace lingers until it is empty and deletes what it holds, a claim until its
namespace goes (its Pods), and any object that its controller has put a finalizer on (`Hold`, the
flag `held`) until that controller, which has to be there for it, takes it off (`Serve`).  `ControllerOf`
may name a controller for claims as well as for custom resources, and only for namespaces it may not;
`Wait` is then the whole of `cleanup_entries.go:37-72`: cleanup goes on past a claim of ours in a namespace of ours
only while no such finalizer is on it.  The capture makes custom resources wait for
their controllers (`DependsOnController`), claims never.
Users delete, create and edit as `UserMay` allows.  `Ready`, `Check` and `ContainsDesired`
are reads; their answers are nondeterministic.  An existing target is the instance
with `Namespaces = {}`.

### Chaos

Three actors: the experiments' single worker (`pc`, `cur`, `o`, `s`), the replica's engine in
`CleanupReplica` (`engine`), and users and controllers of the guest.  A record lists
actions in the order of `prepare` (`Plan`): the host policy, then ServiceAccount and Job of
a Job fault, PodDelete, ScaleZero.  `Look…`, `Create`, `Strike`, `Patch`, `SaveApplied` are `apply`;
any error in them goes to `cleanup` with the copy at hand (`Fail`).  `Roll…`, `Pin`, `Remove`,
`Restore`, `SaveCleaned` are `rollback`, which walks the actions backwards and waits at the first
that is not settled.  Objects are `absent`, `ours` (with the experiment's markers), `deleting` or
`foreign`; the scaled workload has UID, replica count and marker.  `pods` and `physical` are the
Pods of fault Jobs as the guest and as the host see them, which the syncer brings together
later.  Requests are read without a cache here.  One guest namespace, one workload and one Pod
stand for all: `validate` refuses two faults of a kind on one target, and the namespaces of an
experiment do not interact.  A conflicting allow policy on the host is one of the errors of
`CallFails`; administrators of the host who delete the experiment's policy are left out.

### Mirror

The API server holds `mir` and `runs` (public requests), `par` and `rec` (protected
records), `child` and `plan` (generations and their plans), `snap`, `imports`, `policy`, `volume` (what is
created for them).  One worker reconciles the mirror and keeps nothing between two reconciles, so an
action is everything up to and with the next write, and `pc` is the part that is running: `enrol`
(`enrollRuns`), `collect`, `choose`, `advance`, `accept`, `retire`/`unpoint` (`managedReplacement`),
`generate`, `activate`/`point`.  A record knows of an object nothing, the intent, its UID, and of a
snapshot then its content; `CreateX` and `RecordX` are apart, so a crash can fall between.
`Apply`, `CleanupGeneration`, `CleanGuest`, `EndChild` are the engine as far as a generation goes through it,
with the two hooks' conditions.  One volume is mirrored; the runtime (managed, with one slot, or existing)
and the limit of the queue are a `Setting`.  Left out: foreign objects under the mirror's names (`Inventory` and
`Chaos` ask that question), the public status, `Suspend`, refusals that write nothing.

### Database

`st` is the record: phase per copy, and what it knows of each guest object, host policy and
application policy.  `guest` are the objects in the guest, `host` the physical Pods that follow
them later, `data` what these hold (empty, raw, masked), `apps` the applications, `reads` how often a source
was dumped.  The parts of `Prepare` are `begin` … `next`; cleanup is `clean` (`Cleanup`), then the removal
of guest objects and runtime, then `teardown` (`CleanupIsolation`).  `Capture`, `Mask` and `Copy`
change `data`; each of them may fail and leave its part undone.  Users remove guest objects or take
their names.  A dump is raw or masked and nothing else: what the SQL says is not modelled.

### Access and TestRun

`Access` is one session: `acc` the request, `arec` its record, `live` what exists of it (account and
binding in the guest, credential Secret, Role and RoleBinding for its readers), `apc` the part of the reconcile.
A record that cannot be read reports Blocked over whatever was there (`LoadFails`); a replica or grant that cannot
be read is taken for one that is gone and begins the revocation (`Misread`), which the history field `misread`
remembers; a token that is refused or too short goes straight from issuing to revoking (`TokenRefused`); a
generation that its mirror has replaced ends the sessions it has and gets none (`replica = "inactive"`).
`TestRun` extends it with the runner, a process outside the cluster that keeps everything in memory:
`run` has its position and what it knows (`maybe`: the answer to a creation was lost, so there is no
UID to delete by).  `Close` … `Deleted` are the deferred teardown of `Run`; every wait may end at its
deadline (`FailSetup`, `GiveUp`); `Kill` ends the process anywhere.  Replica, experiment and lease are
reduced to what the other modules show of them: `Teardown` is the order of the engine's cleanup
(experiments, sessions, guest and runtime), `hold` the lease of `Mirror`.  `Experiment` is the chaos controller
with exactly what `Chaos` shows of it: intent, finalizer, faults, rollback.  A rollback does not touch what others have
changed and waits (`effect = "blocked"`), and a request deleted between its intent and its finalizer
leaves a record that `CleanupReplica` does not get past (`exp = "orphaned"`); the runner, which sees only the
request, takes it for removed.  `Change` is everybody else: a refresh, a forced reset, a deletion of the request, a
taken or dropped lease, a withdrawn grant, a workload under faults that is changed or put back.

## What TLC checks

Passing runs:

| run | instance | shows | states |
|---|---|---|---|
| `capacity` | three replicas, two grants (cap 1 and none), one legacy runtime, two attempts, one fault | `OneRuntime`; `AtomicAdmission` (refinement); `DrainCompletes`, `QueuedIsAdmitted` | 258,000 |
| `lifecycle` | managed, manual approval, two plans, one refresh, two faults; record readable, answer of its deletion not lost | `EffectsRecorded`, `GoneMeansClean`, `ExpiredMeansClean`, `NoResurrection`; `DeletionCompletes`, `ExpiryCompletes` | 193,000 |
| `lifecycle_existing` | existing target, lagging cache, every fault | `DeletionCompletes`: nothing depends on `Status.Runtime` there | 58,000 |
| `inventory` | namespace, claim, custom resource, and a controller that may put a finalizer on both; a refresh; two user actions, one fault | `InventoryComplete`, `AppliedComplete`, `CleanedMeansGone`, `ForeignPreserved`, `NoSilentRecreation`, `DependentsFirst`; `CleanupCompletes` | 768,000 |
| `chaos` | two experiments (isolation, PodDelete, ScaleZero), users who scale or replace the workload or its namespace, one fault | `EffectsIntended`, `OneExperiment`, `FinishedMeansRestored`, `ForeignPreserved`, `RollbackBeforeTeardown` | 1,628,000 |
| `chaos_jobs` | one experiment (policy, account, Job), users who cancel it or delete or create objects under its names, one fault | `FinishedMeansRestored`, `IsolationOutlivesPods`; `ExperimentEnds`, `ReplicaSettles` | 209,000 |
| `mirror` | two runs, one capture retained; managed and existing runtime with room for both runs, managed with room for one; one lease, cancellation or deleted generation, one fault | `CaptureProtected`, `OneValidGeneration`, `LeaseKept`, `ForgetsOnlyClean`; `MirrorEnds` | 922,000 |
| `database` | two copies, one guest object removed or replaced, two faults | `RawPrivate`, `CapturedOnce`, `IsolationOutlivesPods`; `DatabaseCleanupEnds` | 330,000 |
| `testrun` | replica or mirror, with and without experiment; one change by others, one fault (crash of the operator, failed read, lost answer, killed runner) | `CredentialsRecorded`, `VerifiedMeansGone`, `TeardownOrder`; `SessionEnds` | 769,000 |

The bounds are small on purpose and large enough for the cases in question: two
attempts make a loop both retry and give up; two experiments compete for one slot; three replicas let two contend while
a third holds; two plans make one refresh, with a dropped and a changed object; two runs
make a mirror replace, reset to and collect a capture, and with room for one of them the second
waits for the first to be forgotten; two copies let one be published while the other is
still raw; one fault can fall on every step, two can fall on the same sequence of writes
(a crash during recovery).  `CHECK_DEADLOCK FALSE` is set because a request that is gone,
or blocked, is a state in which the system rightly stops.

Runs in which TLC finds a violation, each of a sentence in the repository:

| run | property | what happens |
|---|---|---|
| `lifecycle_load` | `DeletionCompletes` | `Store.Load` fails once for an Expired request: `report` overwrites the phase with Blocked (`engine.go:58`), and a later deletion finds no record, `Status.Runtime` set and no terminal phase, and blocks for ever (`engine.go:420-422`). |
| `lifecycle_lag` | `ExpiredMeansClean` | The cached request is older than the patch that set `Status.Runtime`; cleanup skips `Runtime.Delete` (`engine.go:512`) and persists Expired with the release still installed. |
| `chaos_orphan` | `ReplicaCleanupEnds` | An experiment's request disappears between the save of its intent and its finalizer, because the replica's own cleanup deletes it: the record stays in phase Preparing and `CleanupReplica` fails on it for ever (`controller.go:277`). No fault was ever applied. |

Behaviours met while modelling that limit what the passing runs say:

* A lost answer of `Store.Delete` replaces Expired by Deleting (`engine.go:556`); `lifecycle`
  leaves this one answer out, `lifecycle_existing` has it.
* The same lost answer in a session (`access.go:263`) reports Revoking without a record; from then on
  the reconcile blocks (`access.go:48-51`), its finalizer stays and so does the replica, whose cleanup waits
  for it.  A failed `Load` over Revoked ends in the same way (`access.go:45`).  `SessionEnds` allows this end
  (`Stranded`), and `CredentialsRecorded` shows that nothing of the session is left then.  A request that never
  announced a credential is issued one after such a failure, Revoked or not.
* One failed read of the replica or the grant revokes a live session for good (`access.go:56`, `93`), also while
  faults are active and the test runs; a request that has nothing yet ends Revoked.  `TeardownOrder` names this case.
* The end of the replica waits for a session that is stranded, for the record of an experiment that lost its
  request (`chaos_orphan`), and for a rollback that others stand in the way of (`docs/guides/chaos.md:103`).
  `SessionEnds` says that the time to live ends replica and faults in every other case (`HeldUp`), and credentials
  in all of them.
* A refresh that recreates a missing controller appends its entry behind its
  dependents (`objects.go:73`), and the reverse pass of cleanup then takes the controller
  first; `DependentsFirst` exempts such a controller, and a resource that a new plan keeps without its controller.
* An object whose UID was never saved is adopted by a refresh with the new content recorded and
  the old content in the guest (`objects.go:97`); `AppliedComplete` is about the presence of objects, not their content.
* The recovery of a run that was saved as Active before the mirror's pointer moved does not look at
  the lease (`generation.go:296-300`); `LeaseKept` names this case.
* A generation whose UID was never saved and whose run is cancelled is not retired (`cleanup.go:16`); it
  has no plan, and ends with its TTL.
* The staging Pod of a failed copy stays when the grant is withdrawn, because `Prepare` is refused first
  (`database/controller.go:53`).  It stays isolated (`RawPrivate`) and goes with the replica.
* A generation that disappears between its lookup and the save of its plan leaves the sealed plan behind
  (`generation.go:199-225`), and content bound to a snapshot but not yet journaled is left to the snapshot
  controller (`storage.go:274-292`).
* A credential Secret that a user deletes is made again with another UID, which revocation refuses to delete
  (`access.go:197`, `251`); users leave the session's objects alone in the model.
* When the test's result and the guard's alarm are both ready, `select` takes either (`runner.go:284`), and a change
  between two polls passes unnoticed.
* The lease of a runner that did not get the answer to its patch stays until its deadline (`runner.go:410`).

### Fairness

controller-runtime's work queue repeats a reconcile after an error or a requeue, so a
reconcile that can move does (`WF` on the steps of the engine and on each replica's loops).
The informer delivers (`WF(Sync)`), other controllers do their work (`WF(CloseSession)`,
`WF(Finalize)`, `WF(Sweep)`, `WF(Controllers)`).  The experiments' worker takes requests from a
first-in-first-out queue, so each gets its turn although they share it (`SF(Pick(x))`).  In `Lifecycle`, where a pass of cleanup either finds the guest
(the release) gone or waits, strong fairness says that what was deleted
eventually is gone: the cluster's garbage collection, not the operator, owes that.  In `Mirror` the
worker is requeued (`WF(Worker)`), and what is being deleted is finished by the engine and the snapshot controller
(`WF(Winding)`); nothing is expected of captures becoming ready.  In `Database` the worker and the syncer
proceed; in `TestRun` the controllers do and the time to live passes (`WF(Expire)`), while nothing is
expected of the runner.  Users and faults have no fairness anywhere, nor has the clock elsewhere.

## What is proved

All theorems hold for every value of the constants that satisfies the module's
`ConstantsAssumption`: any number of replicas, grants, plans, objects, faults and
user actions.

* **Capacity** (`CapacityProofs`).  `CapacityInv` says that a fresh snapshot is the
  ledger (`FreshSnapshot`), that a loop which has finished looking at its peers has no
  live peer outside the ledger it will save on (`PeersClear`), that an admitted
  reconcile and each runtime that is not legacy is in the ledger, and that the ledger has at
  most one managed replica (`OneSlot`).  None of `OneRuntime`, `RuntimeReserved`, `GrantCap`
  is inductive without the snapshot part: the save is justified by what was read
  before.  `Refinement` then shows that every step admits or discharges at most
  one replica.  The count of a grant uses the cardinality lemmas `RoomKeepsCap` and
  `ReleaseKeepsCap`.
* **Lifecycle** (`LifecycleProofs`).  `LifecycleInv` ties the copies `o` and `s` to what is stored
  (`CopiesAgree`), the position of the reconcile to what it has established
  (`Provisions`, `Removes`), terminal phases to their cause (`Ending`) and effects to the
  record (`Described`).  It is inductive, and the theorems hold, for `CacheLag = FALSE`; this
  assumption is in each statement, and run `lifecycle_lag` shows that it is needed.  Type
  correctness needs no such assumption.
* **Inventory** (`InventoryProofs`).  `InventoryInv`: an identity has at most one open entry
  (`OneOpen`), UIDs and markers are the engine's own (`Uids`, `Markers`), the entry and object
  at hand belong together (`AtItem`, `Seen`), and cleanup has closed what lies behind
  its cursor (`Cleaning`).  From it follow `InventoryComplete`, `CleanedMeansGone` and the action
  property `ForeignPreserved`.  `PlanInv` adds what the loops have done for the plan: a prune has dealt with
  the entries above its cursor and the objects loop comes after it (`Pruned`), the planned objects below its own
  cursor are installed (`Installing`; `AppliedComplete` is established only by going through both), the entry
  of a namespace stays open until cleanup (`NamespacesKept`), and cleanup leaves only claims behind
  (`OnlyClaimsWait`).  With it `AppliedComplete` and `NoSilentRecreation` are proved.  `DependentsFirst` needs
  one more part, `ClaimsReleased`: no claim behind the cursor of cleanup carries a finalizer of its controller, because
  `Wait` looked when it passed the claim, and the API server lets nobody put a finalizer on what is being deleted.
  The only assumption on controllers is that namespaces have none.
* **Database** (`DatabaseProofs`).  `DatabaseInv` ties the position of the worker to the phase it has
  saved and the policies it has seen closed (`Position`, `Isolation`), the phase of each copy to how far it has
  come (`Progress`), and the Pods on the host to policies and application boundary (`World`).  Between
  reconciles only the saved phase tells, which is why none of `RawPrivate`, `CapturedOnce` and
  `IsolationOutlivesPods` is inductive by itself: that a source is read once rests on `Copying` being saved before.
* **Access and the test runner** (`TestRunProofs`).  `SessionInv` is about the session's worker, whoever asks
  for the session: what exists is in the record, and each part of the revocation knows what is gone.
  A credential that was announced is in the record until then, so a refused token never ends an announced session.
  `RunInv` adds what the runner knows it has created, what its position says about experiment, session and
  lease, and why a revocation began (`Justified`): the grant, the replica, a failed read, a token refused before anything
  was announced, or a runner that has seen the experiment go.  That `Verified` excludes an orphaned experiment
  follows from `Faulty`: a replica is gone only if no experiment has left a record.  `CredentialsRecorded` follows from the first alone,
  `VerifiedMeansGone` and the action property `TeardownOrder` from both.
* **Chaos** (`ChaosProofs`).  `ChaosInv` has two halves.  `WorkerInv`: the copies in the hands of the worker
  are those saved or one step ahead (`Copies`), its position says what it has found (`Position`, `Findings`) and
  that it owns the slot (`Claim`).  `WorldInv`: a saved record describes what its actions left in
  the guest and on the host (`Saved`, `Intended`, `Policies`, `Scale`), what a deleted namespace takes with it
  (`Lost`), and at most one experiment holds the slot (`OneSlot`).  The rollback goes from the last
  action to the first, so that an action marked cleaned is undone and all the later ones too.  The proof made
  two facts explicit that the model relies on: a run that has not saved its intent has applied
  nothing, and no workload is left of a namespace that is gone.  All four invariants of the runs and the
  action properties `ForeignPreserved` and `RollbackBeforeTeardown` follow, for every plan `prepare` can make.
* **Mirror** (`MirrorProofs`).  `MirrorInv` has two halves.  `Data` is about what is stored: a record exists only
  under its request's finalizer (`Kept`), its phase says how complete it is (`Staged`), what exists of a run is in
  its record (`Recorded`), and a generation that may read its import is one that `collect` counts
  (`Consumers`).  `Site` is about the reconcile between two writes: where it stands (`Place`), what each part
  has established (`Steps`), and that behind `collect` only the active run and the candidate have a
  generation (`Alone`).  The two need each other.  That a destination runs one managed generation (`OneAtATime`) holds at
  `SavePlan` because `collect` has retired everything else in the same reconcile and the candidate got its
  UID only while no run was active (`Pointers`).  That the active generation is complete (`Complete`) holds only while
  the mirror is being worked on, and a reconcile that began before its end goes on as if it had not ended: hence
  `Working`.  A candidate already saved as Active keeps its policy for the recovery after a crash (`Ready`).  From this
  follow `CaptureProtected`, `OneValidGeneration` and the action properties `LeaseKept` and `ForgetsOnlyClean`.

Some theorems are about definitions that no run repeats: `TypeOK` of `Capacity`, `Lifecycle`, `Inventory` and `Database`,
`RuntimeReserved` and `GrantCap` of the ledger, `EffectsFound`, `OnlyApproved` and `GuestBeforeRuntime` of the life cycle.
Each inductive invariant was checked by TLC on the instances of the runs, and on some larger ones, before it was proved.

Only model-checked: the liveness properties (fairness and ENABLED are out of the prover's
reach), and `Lifecycle` with a lagging cache.  Nothing here needs induction over data or RECURSIVE operators, which
the prover cannot handle either.

## Not modelled, and the plan

Next, in this order:

1. Proofs: `Lifecycle` with a lagging cache for existing targets.
2. Secret follow as an extension of `Inventory`.
3. `HostInventory` and `HelmProvider`: what `runtime` stands for in `Lifecycle`; the legacy controller on the
   same provider.
4. `Order`: the planner's dependency order as a function against its definition.

Not planned: manifest transformation, policy text and capture (data), sealing and key
bootstrap (cryptography), command line, dashboard, agent API and diagnostics (no state),
generated deep copies.
