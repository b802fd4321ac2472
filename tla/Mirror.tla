-------------------------------- MODULE Mirror --------------------------------
(***************************************************************************)
(* internal/mirror: one ReplicaMirror and its runs.  A Sync run captures   *)
(* the source volume in a snapshot, a Reset run reuses the capture of an   *)
(* earlier run (its revision).  Both import the capture, create a          *)
(* generation (a child ClusterReplica) from it and, once it is Ready, make *)
(* it the active one; the generation before it is retired, and captures    *)
(* nobody needs are deleted.                                               *)
(*                                                                         *)
(* One worker reconciles the mirror.  It keeps nothing between reconciles  *)
(* and within one decides every write from the records, so an action is    *)
(* what happens up to and with the next write; `pc` says which part of the *)
(* reconcile is running.  A failed call, a lost answer and a crash all end *)
(* the reconcile between two writes: Crash.                                *)
(*                                                                         *)
(* One volume is mirrored.  Runs are numbered in the order of their        *)
(* creation.  Left out: names taken by foreign objects (see Inventory and  *)
(* Chaos), the public status, Suspend (a schedule may always be skipped)   *)
(* and the refusals that write nothing.                                    *)
(***************************************************************************)
EXTENDS Naturals, Sequences, FiniteSets, SequencesExt

CONSTANTS
  MaxRuns,     \* bound on the ReplicaMirrorRuns
  Settings,    \* the mirrors to consider: their runtime, and how many runs
               \* they enrol at most (32 in the code)
  Retain,      \* retained(m), the captures to keep
  Forced,      \* the grant's AllowForcedReset
  Interval,    \* the mirror has a schedule beyond its first sync
  MaxMeddling, \* bound on leases, cancelled runs and deleted generations
  MaxFaults    \* bound on crashes, failed calls and lost answers

Runs == 1 .. MaxRuns

\* What authorize() leaves of a mirror.
Authorized ==
  /\ Settings \subseteq [provider : {"helm", "existing"}, cap : Nat \ {0}]
  /\ Retain \in 1 .. 10

ASSUME ConstantsAssumption ==
  /\ Authorized /\ Settings # {}
  /\ MaxRuns \in Nat \ {0}
  /\ Forced \in BOOLEAN /\ Interval \in BOOLEAN
  /\ MaxMeddling \in Nat /\ MaxFaults \in Nat

VARIABLES
  setting,     \* the one that runs
  mir,         \* the ReplicaMirror; hold: its HoldUntil is in the future
  past,        \* its TTL is over
  runs,        \* the ReplicaMirrorRuns
  par,         \* the mirror's protected record
  rec,         \* the runs' protected records
  child,       \* the generations
  plan,        \* the runs whose generation has a record with its plan
  snap,        \* the captures: VolumeSnapshot and content
  imports,     \* the runs whose imported snapshot (with its content) exists
  policy,      \* the runs whose host isolation policy exists
  volume,      \* the runs whose restored volume exists
  meddling, faults,
  pc, cur,     \* the part of the reconcile, the run it advances
  all          \* the reconcile cleans up the whole mirror

world == <<child, plan, snap, imports, policy, volume>>
outside == <<setting, past, meddling>>
locals == <<pc, cur, all>>
vars == <<outside, mir, runs, par, rec, world, faults, locals>>

Requests ==
  [state : {"new", "live", "deleting", "gone"}, fin : BOOLEAN,
   action : {"Sync", "Reset"}, from : 0 .. MaxRuns, force : BOOLEAN,
   tag : BOOLEAN]                 \* has the name the next scheduled run gets

NoRequest ==
  [state |-> "new", fin |-> FALSE, action |-> "Sync", from |-> 0,
   force |-> FALSE, tag |-> FALSE]

Parents ==
  [exists : BOOLEAN, runs : Seq(Runs), active : 0 .. MaxRuns,
   pending : 0 .. MaxRuns, synced : BOOLEAN, hold : BOOLEAN]

NoParent ==
  [exists |-> FALSE, runs |-> <<>>, active |-> 0, pending |-> 0,
   synced |-> FALSE, hold |-> FALSE]

Phases == {"Queued", "Capturing", "Restoring", "AwaitingReplacement", "Replacing",
           "AwaitingActivation", "Active", "Retiring", "Retained"}

\* Of an object the code creates a record knows nothing, the intent, its UID
\* (and, of a snapshot, then its content's).
Records ==
  [exists : BOOLEAN, phase : Phases, revision : Runs, captured : BOOLEAN,
   snap : {"none", "intent", "uid", "content"},
   import : {"none", "intent", "uid"},
   child : {"none", "intent", "uid"}, policy : {"none", "intent", "uid"},
   volume : BOOLEAN]

NewRecord(x) ==
  [exists |-> TRUE, phase |-> "Queued", revision |-> x, captured |-> FALSE,
   snap |-> "none", import |-> "none", child |-> "none", policy |-> "none",
   volume |-> FALSE]

NoRecord(x) == [NewRecord(x) EXCEPT !.exists = FALSE]

TypeOK ==
  /\ setting \in Settings /\ past \in BOOLEAN
  /\ mir \in [state : {"live", "deleting", "gone"}, fin : BOOLEAN, hold : BOOLEAN]
  /\ runs \in [Runs -> Requests] /\ par \in Parents /\ rec \in [Runs -> Records]
  /\ child \in [Runs -> {"none", "made", "ready", "deleting"}]
  /\ snap \in [Runs -> {"none", "new", "bound", "ready", "deleting", "content"}]
  /\ plan \subseteq Runs /\ imports \subseteq Runs /\ policy \subseteq Runs /\ volume \subseteq Runs
  /\ meddling \in 0 .. MaxMeddling /\ faults \in 0 .. MaxFaults
  /\ pc \in {"idle", "enrol", "collect", "choose", "advance", "accept", "retire",
             "unpoint", "generate", "activate", "point"}
  /\ cur \in 0 .. MaxRuns /\ all \in BOOLEAN

Init ==
  /\ setting \in Settings /\ past = FALSE
  /\ mir = [state |-> "live", fin |-> FALSE, hold |-> FALSE]
  /\ runs = [x \in Runs |-> NoRequest] /\ par = NoParent
  /\ rec = [x \in Runs |-> NoRecord(x)]
  /\ child = [x \in Runs |-> "none"] /\ snap = [x \in Runs |-> "none"]
  /\ imports = {} /\ plan = {} /\ policy = {} /\ volume = {}
  /\ meddling = 0 /\ faults = 0 /\ pc = "idle" /\ cur = 0 /\ all = FALSE
-----------------------------------------------------------------------------
\* Users, administrators and the clock.

Fresh(x) == runs[x].state = "new" /\ \A y \in Runs : y < x => runs[y].state # "new"

Submit(x) ==
  /\ Fresh(x) /\ mir.state = "live"
  /\ \E kind \in {"Sync", "Reset"}, y \in Runs, force \in BOOLEAN :
       /\ IF kind = "Sync" THEN y = 1 /\ ~force ELSE y < x
       /\ runs' = [runs EXCEPT ![x] = [NoRequest EXCEPT !.state = "live",
                     !.action = kind, !.from = IF kind = "Sync" THEN 0 ELSE y,
                     !.force = force]]
  /\ UNCHANGED <<outside, mir, par, rec, world, faults, locals>>

Cancel(x) ==
  /\ runs[x].state = "live" /\ meddling < MaxMeddling
  /\ runs' = [runs EXCEPT ![x].state = IF runs[x].fin THEN "deleting" ELSE "gone"]
  /\ meddling' = meddling + 1
  /\ UNCHANGED <<setting, past, mir, par, rec, world, faults, locals>>

Hold ==
  /\ mir.state = "live" /\ ~mir.hold /\ meddling < MaxMeddling
  /\ mir' = [mir EXCEPT !.hold = TRUE] /\ meddling' = meddling + 1
  /\ UNCHANGED <<setting, past, runs, par, rec, world, faults, locals>>

Release ==
  /\ mir.hold
  /\ mir' = [mir EXCEPT !.hold = FALSE]
  /\ UNCHANGED <<outside, runs, par, rec, world, faults, locals>>

\* The time of the lease passes, wherever it is written down.
LeaseEnds ==
  /\ mir.hold \/ par.hold
  /\ mir' = [mir EXCEPT !.hold = FALSE] /\ par' = [par EXCEPT !.hold = FALSE]
  /\ UNCHANGED <<outside, runs, rec, world, faults, locals>>

DeleteMirror ==
  /\ mir.state = "live"
  /\ mir' = [mir EXCEPT !.state = IF mir.fin THEN "deleting" ELSE "gone"]
  /\ UNCHANGED <<outside, runs, par, rec, world, faults, locals>>

Expire ==
  /\ mir.state = "live" /\ ~past /\ past' = TRUE
  /\ UNCHANGED <<setting, meddling, mir, runs, par, rec, world, faults, locals>>

\* Users delete a generation, or its own TTL ends it.
DeleteChild(x) ==
  /\ child[x] \in {"made", "ready"} /\ meddling < MaxMeddling
  /\ child' = [child EXCEPT ![x] = "deleting"] /\ meddling' = meddling + 1
  /\ UNCHANGED <<setting, past, mir, runs, par, rec, plan, snap, imports, policy, volume,
                 faults, locals>>

User ==
  \/ \E x \in Runs : Submit(x) \/ Cancel(x) \/ DeleteChild(x)
  \/ Hold \/ Release \/ LeaseEnds \/ DeleteMirror \/ Expire
-----------------------------------------------------------------------------
\* The snapshot controller.

Quiet == UNCHANGED <<outside, mir, runs, par, faults>>

\* A snapshot is bound to its content, then ready, or never.
Snapshot(x) ==
  /\ \/ snap[x] = "new" /\ snap' = [snap EXCEPT ![x] = "bound"]
     \/ snap[x] = "bound" /\ snap' = [snap EXCEPT ![x] = "ready"]
  /\ Quiet /\ UNCHANGED <<rec, child, plan, imports, policy, volume, locals>>

\* Content may outlive its snapshot for a while.
Unsnapshot(x) ==
  /\ \/ snap[x] = "deleting" /\ \E c \in {"content", "none"} : snap' = [snap EXCEPT ![x] = c]
     \/ snap[x] = "content" /\ snap' = [snap EXCEPT ![x] = "none"]
  /\ Quiet /\ UNCHANGED <<rec, child, plan, imports, policy, volume, locals>>

-----------------------------------------------------------------------------
\* The engine of the generations: only where it calls into this package.

\* Prepare()
Prepared(x) ==
  /\ rec[x].exists /\ rec[x].child = "uid" /\ par.exists /\ ~past
  /\ x \in {par.active, par.pending}
  /\ x \in policy /\ x \in imports

Engine == Quiet /\ UNCHANGED <<snap, imports, policy>>

\* The objects are applied, the restored claim is bound to a new volume and
\* the generation becomes Ready.
Apply(x) ==
  /\ child[x] = "made" /\ x \in plan /\ x \notin volume /\ Prepared(x)
  /\ volume' = volume \cup {x} /\ child' = [child EXCEPT ![x] = "ready"]
  /\ Engine /\ UNCHANGED <<rec, plan, locals>>

\* CleanupGeneration(), before the guest is cleaned: the volume is recorded.
\* A reconcile that holds an older copy of the record cannot save it any more.
Inventoried(x) ==
  /\ rec[x].exists /\ rec[x].child = "uid" /\ rec[rec[x].revision].exists

CleanupGeneration(x) ==
  /\ child[x] = "deleting" /\ x \in plan /\ Inventoried(x)
  /\ x \in volume /\ ~rec[x].volume
  /\ rec' = [rec EXCEPT ![x].volume = TRUE]
  /\ IF cur # 0 /\ x \in {cur, par.active} THEN pc' = "idle" /\ cur' = 0 /\ all' = FALSE
     ELSE UNCHANGED locals
  /\ Engine /\ UNCHANGED <<child, plan, volume>>

CleanGuest(x) ==
  /\ child[x] = "deleting" /\ x \in plan /\ Inventoried(x)
  /\ x \in volume /\ rec[x].volume
  /\ volume' = volume \ {x}
  /\ Engine /\ UNCHANGED <<rec, child, plan, locals>>

\* CleanupGeneration() afterwards: the recorded volumes are gone.  Without a
\* plan there is nothing to clean up.
EndChild(x) ==
  /\ child[x] = "deleting" /\ x \notin volume
  /\ x \in plan => Inventoried(x)
  /\ child' = [child EXCEPT ![x] = "none"] /\ plan' = plan \ {x}
  /\ Engine /\ UNCHANGED <<rec, volume, locals>>

Environment ==
  \E x \in Runs :
    \/ Snapshot(x) \/ Unsnapshot(x) \/ Apply(x)
    \/ CleanupGeneration(x) \/ CleanGuest(x) \/ EndChild(x)
-----------------------------------------------------------------------------
\* Control of the worker.

Return == pc' = "idle" /\ cur' = 0 /\ all' = FALSE
Goto(step) == pc' = step /\ UNCHANGED <<cur, all>>

SaveParent(new) ==
  par' = new /\ UNCHANGED <<outside, mir, runs, rec, world, faults>>

SaveRun(x, new) ==
  rec' = [rec EXCEPT ![x] = new] /\ UNCHANGED <<outside, mir, runs, par, world, faults>>

SetRun(x, new) ==
  runs' = [runs EXCEPT ![x] = new] /\ UNCHANGED <<outside, mir, par, rec, world, faults>>

\* A write to the API server.
Written == UNCHANGED <<outside, mir, runs, par, rec, faults>>

Nothing == UNCHANGED <<outside, mir, runs, par, rec, world, faults>>

Crash ==
  /\ pc # "idle" /\ faults < MaxFaults
  /\ faults' = faults + 1 /\ Return
  /\ UNCHANGED <<outside, mir, runs, par, rec, world>>

-----------------------------------------------------------------------------
\* Reconcile.

Over == mir.state = "deleting" \/ past

AddFinalizer ==
  /\ pc = "idle" /\ mir.state = "live" /\ ~Over /\ ~mir.fin
  /\ mir' = [mir EXCEPT !.fin = TRUE]
  /\ UNCHANGED <<outside, runs, par, rec, world, faults, locals>>

\* The record is made if there is none, and takes over the lease.
Start ==
  /\ pc = "idle" /\ mir.state = "live" /\ ~Over /\ mir.fin
  /\ SaveParent([par EXCEPT !.exists = TRUE, !.hold = mir.hold])
  /\ Goto("enrol")

StartCleanup ==
  /\ pc = "idle" /\ mir.state # "gone" /\ Over /\ par.exists
  /\ pc' = "enrol" /\ all' = TRUE /\ UNCHANGED cur
  /\ Nothing

\* cleanup(), the record being gone.
FinishCleanup ==
  /\ pc = "idle" /\ mir.state = "deleting" /\ ~par.exists
  /\ mir' = [mir EXCEPT !.state = "gone", !.fin = FALSE]
  /\ UNCHANGED <<outside, runs, par, rec, world, faults, locals>>

-----------------------------------------------------------------------------
\* enrollRuns: finalizer, record, reference, for the oldest run first.

Enrolled == Range(par.runs)

\* Mutant: a run that is being deleted is not enrolled any more.
ToEnrolLive ==
  {x \in Runs \ Enrolled :
     runs[x].state = "live" /\ (Len(par.runs) < setting.cap \/ runs[x].fin)}

ToEnrol ==
  {x \in Runs \ Enrolled :
     /\ runs[x].state \in {"live", "deleting"}
     /\ runs[x].state = "deleting" => runs[x].fin
     /\ Len(par.runs) < setting.cap \/ runs[x].fin}

Enrol(x) ==
  /\ pc = "enrol" /\ x \in ToEnrol /\ \A y \in ToEnrol : x <= y
  /\ IF ~runs[x].fin THEN SetRun(x, [runs[x] EXCEPT !.fin = TRUE])
     ELSE IF ~rec[x].exists THEN SaveRun(x, NewRecord(x))
     ELSE SaveParent([par EXCEPT !.runs = Append(@, x)])
  /\ UNCHANGED locals

EnrolDone ==
  /\ pc = "enrol" /\ ToEnrol = {}
  /\ Nothing /\ Goto("collect")
-----------------------------------------------------------------------------
\* collect: retire generations and delete captures, one step per reconcile.

Live(x) == runs[x].state = "live"

\* Mutant: only the active generation's capture is looked at.
NeededActive == {rec[x].revision : x \in {y \in Enrolled : rec[y].exists /\ y = par.active}}

\* Captures that a generation, a candidate or a queued Reset depends on.
Needed ==
  {IF rec[x].phase = "Queued" /\ Live(x) /\ runs[x].action = "Reset"
     THEN runs[x].from ELSE rec[x].revision :
   x \in {y \in Enrolled : /\ rec[y].exists
                           /\ \/ y = par.active
                              \/ Live(y) /\ (y = par.pending \/ rec[y].phase = "Queued")
                              \/ rec[y].child = "uid" /\ rec[y].phase # "Retained"}}

Captures == {x \in Enrolled : rec[x].exists /\ rec[x].captured}

Position(x) == CHOOSE n \in DOMAIN par.runs : par.runs[n] = x

\* The one of a set of enrolled runs that a loop over the references meets first.
First(set) == {x \in set : \A y \in set : Position(x) <= Position(y)}

\* Needed ones, filled up to Retain with the newest.
Keep ==
  LET needed == Needed \cap Captures
      own == {x \in Captures : Live(x) /\ rec[x].revision = x}
  IN IF all THEN {} ELSE
     needed \cup {x \in own : Cardinality(needed \cup
                   {y \in own : Position(y) > Position(x)}) < Retain}

\* Mutant: an import whose UID was never saved is taken for not made.
RetiredKnown(x) ==
  /\ rec[x].child = "uid" => child[x] = "none"
  /\ rec[x].volume => x \notin volume
  /\ rec[x].import = "uid" => x \notin imports
  /\ rec[x].policy # "none" => x \notin policy

\* retire() has nothing left to do.
Retired(x) ==
  /\ rec[x].child = "uid" => child[x] = "none"
  /\ rec[x].volume => x \notin volume
  /\ rec[x].import # "none" => x \notin imports
  /\ rec[x].policy # "none" => x \notin policy

Skipped(x) ==
  /\ rec[x].exists /\ ~all
  /\ \/ x = par.active
     \/ Live(x) /\ (x = par.pending \/ rec[x].phase = "Queued")

Settled(x) ==
  \/ Skipped(x)
  \/ rec[x].exists /\ Retired(x) /\ x \in Keep /\ rec[x].phase = "Retained"

\* The runs that collect does not pass by.
Due == {x \in Enrolled : ~Settled(x)}

\* The run it works on: when everything goes, the generations go before the
\* first capture does.
Focus ==
  LET busy == {x \in Due : rec[x].exists /\ ~Retired(x)}
  IN First(IF all /\ busy # {} THEN busy ELSE Due)

\* retire(): the generation and its volume, the import, the policy.  Whoever
\* has to wait returns.
Retire(x) ==
  /\ rec[x].exists /\ ~Retired(x)
  /\ IF rec[x].child = "uid" /\ child[x] # "none"
     THEN child' = [child EXCEPT ![x] = "deleting"] /\ UNCHANGED <<imports, policy>>
     ELSE IF rec[x].volume /\ x \in volume THEN UNCHANGED <<child, imports, policy>>
     ELSE IF rec[x].import # "none" /\ x \in imports
     THEN imports' = imports \ {x} /\ UNCHANGED <<child, policy>>
     ELSE policy' = policy \ {x} /\ UNCHANGED <<child, imports>>
  /\ Return
  /\ Written /\ UNCHANGED <<plan, snap, volume>>

Retention(x) ==
  /\ rec[x].exists /\ Retired(x) /\ x \in Keep
  /\ SaveRun(x, [rec[x] EXCEPT !.phase = "Retained"])
  /\ UNCHANGED locals

\* cleanupStorage(captures) has nothing left to do; content counts if recorded.
Uncaptured(x) ==
  \/ rec[x].snap = "none" \/ snap[x] = "none"
  \/ snap[x] = "content" /\ rec[x].snap # "content"

DeleteCapture(x) ==
  /\ rec[x].exists /\ Retired(x) /\ x \notin Keep /\ ~Uncaptured(x)
  /\ snap' = [snap EXCEPT ![x] = IF @ = "content" THEN @ ELSE "deleting"]
  /\ Return
  /\ Written /\ UNCHANGED <<child, plan, imports, policy, volume>>

Forget(x) ==
  /\ rec[x].exists /\ Retired(x) /\ x \notin Keep /\ Uncaptured(x)
  /\ SaveRun(x, NoRecord(x))
  /\ UNCHANGED locals

\* The request: its finalizer, then itself.
DropRequest(x) ==
  /\ ~rec[x].exists /\ runs[x].state # "gone"
  /\ SetRun(x, [runs[x] EXCEPT !.fin = FALSE,
       !.state = IF runs[x].fin /\ Live(x) THEN "live" ELSE "gone"])
  /\ UNCHANGED locals

Without(x) == RemoveAt(par.runs, Position(x))

DropReference(x) ==
  /\ ~rec[x].exists /\ runs[x].state = "gone"
  /\ SaveParent([par EXCEPT !.runs = Without(x),
       !.pending = IF @ = x THEN 0 ELSE @, !.active = IF @ = x THEN 0 ELSE @])
  /\ Return

CollectDone == ~all /\ Nothing /\ Goto("choose")

\* cleanup(): Store.Delete of the mirror's record.
DeleteRecord == all /\ SaveParent(NoParent) /\ Return

\* One step, for the run in focus.
Collect ==
  /\ pc = "collect"
  /\ \/ Due = {} /\ (CollectDone \/ DeleteRecord)
     \/ \E x \in Focus :
          \/ Retire(x) \/ Retention(x) \/ DeleteCapture(x) \/ Forget(x)
          \/ DropRequest(x) \/ DropReference(x)
-----------------------------------------------------------------------------
\* The candidate: the pending run, else the oldest queued one, else perhaps a
\* scheduled Sync.

Queue == {x \in Enrolled : Live(x) /\ rec[x].exists /\ rec[x].phase = "Queued"}

Choose ==
  /\ pc = "choose" /\ par.pending = 0
  /\ \E x \in First(Queue) : SaveParent([par EXCEPT !.pending = x])
  /\ UNCHANGED locals

\* The name of a scheduled run is made of LastSync.
Schedule(x) ==
  /\ pc = "choose" /\ par.pending = 0 /\ Queue = {} /\ Fresh(x)
  /\ Interval \/ (par.active = 0 /\ ~par.synced)
  /\ \A y \in Runs : runs[y].state \in {"live", "deleting"} => ~runs[y].tag
  /\ SetRun(x, [NoRequest EXCEPT !.state = "live", !.tag = TRUE])
  /\ Return

Enter(x) ==
  /\ pc = "choose" /\ x = par.pending
  /\ rec[x].exists /\ Live(x) /\ (runs[x].force => Forced)
  /\ pc' = "advance" /\ cur' = x /\ UNCHANGED all
  /\ Nothing

\* Nothing to do, a refusal, a check that fails or something to wait for.
Wait ==
  /\ pc \in {"choose", "advance", "generate"}
  /\ pc = "choose" /\ par.pending = 0 => Queue = {}
  /\ Nothing /\ Return
-----------------------------------------------------------------------------
\* advance() of a queued run.

Advance(x, phases) == pc = "advance" /\ x = cur /\ rec[x].phase \in phases

Revision(x) ==
  /\ runs[x].from \in Enrolled /\ rec[runs[x].from].exists
  /\ rec[runs[x].from].revision = runs[x].from /\ rec[runs[x].from].captured

\* LastSync is saved first.
Accept(x) ==
  /\ Advance(x, {"Queued"})
  /\ runs[x].action = "Reset" => Revision(x)
  /\ par' = [par EXCEPT !.synced = TRUE]
  /\ runs' = [y \in Runs |-> [runs[y] EXCEPT !.tag = FALSE]]
  /\ Goto("accept")
  /\ UNCHANGED <<outside, mir, rec, world, faults>>

Accepted ==
  /\ pc = "accept"
  /\ SaveRun(cur, IF runs[cur].action = "Reset"
       THEN [rec[cur] EXCEPT !.revision = runs[cur].from, !.captured = TRUE,
                             !.phase = "Restoring"]
       ELSE [rec[cur] EXCEPT !.snap = "intent", !.phase = "Capturing"])
  /\ Return

-----------------------------------------------------------------------------
\* captureVolumes() and importVolumes(): intent, object, UID.

CreateCapture(x) ==
  /\ Advance(x, {"Capturing"}) /\ rec[x].snap = "intent" /\ snap[x] = "none"
  /\ snap' = [snap EXCEPT ![x] = "new"]
  /\ Written /\ UNCHANGED <<child, plan, imports, policy, volume, locals>>

RecordCapture(x) ==
  /\ Advance(x, {"Capturing"})
  /\ \/ /\ rec[x].snap = "intent" /\ snap[x] # "none"
        /\ SaveRun(x, [rec[x] EXCEPT !.snap = "uid"])
     \/ /\ rec[x].snap = "uid" /\ snap[x] \in {"bound", "ready"}
        /\ SaveRun(x, [rec[x] EXCEPT !.snap = "content"])
  /\ UNCHANGED locals

\* The source has not changed meanwhile, or the run waits to be cancelled.
Captured(x) ==
  /\ Advance(x, {"Capturing"}) /\ rec[x].snap = "content" /\ snap[x] = "ready"
  /\ SaveRun(x, [rec[x] EXCEPT !.captured = TRUE, !.phase = "Restoring"])
  /\ Return

Restoring == {"Restoring", "AwaitingReplacement", "Replacing"}

Restore(x) == Advance(x, Restoring) /\ rec[rec[x].revision].exists

Available(x) == snap[rec[x].revision] = "ready"

CreateImport(x) ==
  /\ Restore(x) /\ Available(x) /\ rec[x].import = "intent" /\ x \notin imports
  /\ imports' = imports \cup {x}
  /\ Written /\ UNCHANGED <<child, plan, snap, policy, volume, locals>>

RecordImport(x) ==
  /\ Restore(x)
  /\ \/ rec[x].import = "none" /\ SaveRun(x, [rec[x] EXCEPT !.import = "intent"])
     \/ /\ Available(x) /\ rec[x].import = "intent" /\ x \in imports
        /\ SaveRun(x, [rec[x] EXCEPT !.import = "uid"])
  /\ UNCHANGED locals

Imported(x) ==
  Restore(x) /\ Available(x) /\ rec[x].import = "uid" /\ x \in imports
-----------------------------------------------------------------------------
\* managedReplacement(): a namespace holds one managed runtime.

\* Mutant: a forced reset does not wait for the old generation.
OccupiedUnforced(x) ==
  setting.provider = "helm" /\ rec[x].child # "uid" /\ par.active # 0 /\ ~runs[x].force

Occupied(x) == setting.provider = "helm" /\ rec[x].child # "uid" /\ par.active # 0

Leased(x) == par.hold /\ ~runs[x].force

AwaitReplacement(x) ==
  /\ Imported(x) /\ Occupied(x) /\ Leased(x) /\ rec[x].phase # "AwaitingReplacement"
  /\ SaveRun(x, [rec[x] EXCEPT !.phase = "AwaitingReplacement"])
  /\ Return

Replace(x) ==
  /\ Imported(x) /\ Occupied(x) /\ ~Leased(x) /\ rec[par.active].exists
  /\ SaveRun(x, [rec[x] EXCEPT !.phase = "Replacing"])
  /\ Goto("retire")

RetireActive ==
  /\ pc = "retire"
  /\ SaveRun(par.active, [rec[par.active] EXCEPT !.phase = "Retiring"])
  /\ Goto("unpoint")

Unpoint ==
  /\ pc = "unpoint"
  /\ SaveParent([par EXCEPT !.active = 0])
  /\ Return

Resume(x) ==
  /\ Imported(x) /\ ~Occupied(x) /\ rec[x].phase # "Restoring"
  /\ SaveRun(x, [rec[x] EXCEPT !.phase = "Restoring"])
  /\ UNCHANGED locals
-----------------------------------------------------------------------------
\* child(): the generation.

Provision(x) == Imported(x) /\ ~Occupied(x) /\ rec[x].phase = "Restoring"

IntendChild(x) ==
  /\ Provision(x) /\ rec[x].child = "none"
  /\ SaveRun(x, [rec[x] EXCEPT !.child = "intent"])
  /\ UNCHANGED locals

CreateChild(x) ==
  /\ Provision(x) /\ rec[x].child = "intent" /\ child[x] = "none"
  /\ child' = [child EXCEPT ![x] = "made"]
  /\ Written /\ UNCHANGED <<plan, snap, imports, policy, volume, locals>>

FindChild(x) ==
  /\ Provision(x) /\ rec[x].child # "none" /\ child[x] # "none"
  /\ SaveRun(x, [rec[x] EXCEPT !.child = "uid"])
  /\ Goto("generate")

\* ensurePolicies(), then the generation's record with its plan.
Isolate(x) ==
  /\ pc = "generate" /\ x = cur /\ x \notin plan
  /\ \/ rec[x].policy = "none" /\ SaveRun(x, [rec[x] EXCEPT !.policy = "intent"])
     \/ /\ rec[x].policy = "intent" /\ x \notin policy
        /\ policy' = policy \cup {x}
        /\ Written /\ UNCHANGED <<child, plan, snap, imports, volume>>
     \/ /\ rec[x].policy = "intent" /\ x \in policy
        /\ SaveRun(x, [rec[x] EXCEPT !.policy = "uid"])
  /\ UNCHANGED locals

SavePlan(x) ==
  /\ pc = "generate" /\ x = cur /\ x \notin plan /\ rec[x].policy = "uid" /\ x \in policy
  /\ plan' = plan \cup {x}
  /\ Return
  /\ Written /\ UNCHANGED <<child, snap, imports, policy, volume>>

\* inventoryVolumes()
RecordVolume(x) ==
  /\ pc = "generate" /\ x = cur /\ x \in plan /\ x \in volume /\ ~rec[x].volume
  /\ SaveRun(x, [rec[x] EXCEPT !.volume = TRUE])
  /\ UNCHANGED locals

Restored(x) ==
  /\ pc = "generate" /\ x = cur /\ x \in plan /\ x \in volume /\ rec[x].volume
  /\ child[x] = "ready"
  /\ SaveRun(x, [rec[x] EXCEPT !.phase = "AwaitingActivation"])
  /\ Return
-----------------------------------------------------------------------------
\* Activation: the old generation, the new one, the pointer.

\* Mutant: the lease is checked only before a replacement.
ActivateUnleased(x) ==
  /\ Advance(x, {"AwaitingActivation"})
  /\ rec[rec[x].revision].exists
  /\ child[x] = "ready" /\ x \in plan /\ Prepared(x) /\ x \in volume
  /\ IF par.active \in {0, x} THEN Nothing
     ELSE /\ rec[par.active].exists
          /\ SaveRun(par.active, [rec[par.active] EXCEPT !.phase = "Retiring"])
  /\ Goto("activate")

Activate(x) ==
  /\ Advance(x, {"AwaitingActivation"}) /\ ~Leased(x)
  /\ rec[rec[x].revision].exists
  /\ child[x] = "ready" /\ x \in plan /\ Prepared(x) /\ x \in volume
  /\ IF par.active \in {0, x} THEN Nothing
     ELSE /\ rec[par.active].exists
          /\ SaveRun(par.active, [rec[par.active] EXCEPT !.phase = "Retiring"])
  /\ Goto("activate")

Activated ==
  /\ pc = "activate"
  /\ SaveRun(cur, [rec[cur] EXCEPT !.phase = "Active"])
  /\ Goto("point")

\* Also after a crash right before it.
Point ==
  /\ \/ pc = "point"
     \/ Advance(cur, {"Active"}) /\ rec[rec[cur].revision].exists
  /\ SaveParent([par EXCEPT !.active = cur, !.pending = 0])
  /\ Return

Candidate ==
  \/ Choose \/ Wait \/ Accepted \/ RetireActive \/ Unpoint \/ Activated \/ Point
  \/ \E x \in Runs :
       \/ Schedule(x) \/ Enter(x) \/ Accept(x)
       \/ CreateCapture(x) \/ RecordCapture(x) \/ Captured(x)
       \/ CreateImport(x) \/ RecordImport(x)
       \/ AwaitReplacement(x) \/ Replace(x) \/ Resume(x)
       \/ IntendChild(x) \/ CreateChild(x) \/ FindChild(x)
       \/ Isolate(x) \/ SavePlan(x) \/ RecordVolume(x) \/ Restored(x) \/ Activate(x)

Worker ==
  \/ AddFinalizer \/ Start \/ StartCleanup \/ FinishCleanup
  \/ \E x \in Runs : Enrol(x)
  \/ EnrolDone \/ Collect \/ Candidate

Next == User \/ Environment \/ Worker \/ Crash

\* The controller requeues, the engine and the snapshot controller finish what
\* is being deleted.
Winding ==
  \E x \in Runs : CleanupGeneration(x) \/ CleanGuest(x) \/ EndChild(x) \/ Unsnapshot(x)

Fairness == WF_vars(Worker) /\ WF_vars(Winding)

Spec == Init /\ [][Next]_vars /\ Fairness
-----------------------------------------------------------------------------
\* Properties.

\* A generation that may still read its import keeps the capture the import
\* points to, and the records that lead there: collect (cleanup.go:54-180) counts
\* every consumer, of whatever run, before it deletes a capture.
CaptureProtected ==
  \A x \in plan : child[x] # "none" =>
    /\ rec[x].exists /\ rec[rec[x].revision].exists /\ snap[rec[x].revision] = "ready"

\* A destination runs one managed generation at a time, also while one replaces
\* another and over every crash between the writes of managedReplacement
\* (generation.go:308-338); and the generation the mirror shows as active is a
\* complete one: activated, isolated, its volume and its capture recorded.
OneValidGeneration ==
  /\ TypeOK
  /\ setting.provider = "helm" => Cardinality({x \in plan : child[x] # "none"}) <= 1
  /\ par.active # 0 /\ ~Over => LET a == rec[par.active] IN
       /\ a.exists /\ a.phase \in {"Active", "Retiring"} /\ a.child = "uid" /\ a.volume
       /\ rec[a.revision].exists /\ rec[a.revision].captured /\ par.active \in policy

Switch == par.active # 0 /\ par'.active # par.active

\* Under an accepted lease the active generation changes only by a forced reset,
\* by the end of the mirror, or when a reconcile finds the candidate saved as
\* Active and the pointer not yet moved: the recovery of generation.go:296-300
\* does not look at the lease.
LeaseKept ==
  [][Switch /\ par.hold =>
       \/ all
       \/ cur # 0 /\ runs[cur].force
       \/ pc = "advance" /\ setting.provider = "existing" /\ rec[cur].phase = "Active"]_vars

Leftovers(x) ==
  x \in volume \/ x \in policy \/ x \in imports \/ snap[x] \notin {"none", "content"}

\* The record of a run goes last (cleanup.go): what was created for it, with a
\* UID saved or only intended, and its generation are gone by then.
ForgetsOnlyClean ==
  [][\A x \in Runs : rec[x].exists /\ ~rec'[x].exists =>
       /\ ~Leftovers(x)
       /\ rec[x].child = "uid" => child[x] = "none"]_vars

\* A mirror that is deleted or past its TTL is removed with everything of every
\* run, though each generation's cleanup needs the records of its own and of its
\* capture's run, and runs are enrolled and cancelled all the while.
MirrorEnds ==
  Over ~> /\ mir.state # "deleting" /\ ~par.exists
          /\ \A x \in Runs : ~rec[x].exists /\ ~Leftovers(x)
===============================================================================
