-------------------------------- MODULE Chaos --------------------------------
(***************************************************************************)
(* internal/chaos: experiments on one replica.  An experiment saves its    *)
(* intent, takes a finalizer, applies its actions in order and, when it    *)
(* ends, rolls them back in reverse order.  One worker reconciles all      *)
(* experiments (controller.go:44); the replica's own cleanup, in another   *)
(* controller, stops them through CleanupReplica.                          *)
(*                                                                         *)
(* All faults of an experiment are in one guest namespace.  Its plan has   *)
(* at most one ScaleZero and one PodDelete, as validate() refuses two      *)
(* faults of a kind on a target; every experiment has the same plan, so    *)
(* they compete for the same targets.                                      *)
(*                                                                         *)
(* The requests, the records and the guest are read from the API servers,  *)
(* not from a cache (cmd/operator/main.go:94).  Status.StartedAt is left   *)
(* out: where the code looks at it, the finalizer says the same.           *)
(***************************************************************************)
EXTENDS Naturals, Sequences

CONSTANTS
  Experiments,  \* the ReplicaExperiments of one replica
  Plan,         \* the kinds of the actions prepare() makes of the faults
  MaxScale,     \* bound on the replica count of the scaled workload
  UserMay,      \* what users do: "delete", "create", "scale", "replace",
                \* "namespace" in the guest, "cancel" an experiment
  MaxMeddling,  \* bound on what users do in the guest
  MaxFaults,    \* bound on crashes, failed calls and lost answers
  NoMark

Kinds == {"policy", "account", "job", "pod", "scale"}
Created == {"policy", "account", "job"}
N == Len(Plan)
Jobs == {i \in 1 .. N : Plan[i] = "job"}

ASSUME ConstantsAssumption ==
  /\ Plan \in Seq(Kinds) /\ N > 0
  /\ \A i, j \in 1 .. N : Plan[i] = Plan[j] /\ Plan[i] \in {"pod", "scale"} => i = j
  /\ \A i \in Jobs : \E j \in 1 .. i : Plan[j] = "policy"   \* prepare.go:177
  /\ \A i, j \in 1 .. N : Plan[i] = "policy" /\ Plan[j] = "policy" => i = j
  /\ NoMark \notin Experiments
  /\ MaxScale \in Nat \ {0} /\ MaxMeddling \in Nat /\ MaxFaults \in Nat
  /\ UserMay \subseteq {"delete", "create", "scale", "replace", "namespace", "cancel"}

VARIABLES
  req,        \* the ReplicaExperiments
  rec,        \* the encrypted records
  expired,    \* the experiments whose ExpiresAt has passed
  parent,     \* the replica: ready, ending (CleanupStarted), torn down
  granted,    \* the grant still is the one the replica was captured under
  space,      \* the guest namespace has the UID of the replica's inventory
  things,     \* what the Create and policy actions make
  pods,       \* the guest Pods of the fault Jobs
  physical,   \* the Pods on the host that the syncer makes of them
  victim,     \* the Pod of PodDelete: pinned, gone, or another of its name
  work,       \* the workload of ScaleZero
  engine,     \* where the replica's CleanupReplica is
  meddling, faults,
  pc, cur, i, \* where the worker is: step, experiment, action
  o, s,       \* its copies of request and record
  seen        \* the workload it read

guest == <<space, things, pods, physical, victim, work>>
host == <<parent, granted, engine>>
bounds == <<meddling, faults>>
locals == <<pc, cur, i, o, s, seen>>
vars == <<req, rec, expired, host, guest, bounds, locals>>

Requests ==
  [state : {"new", "live", "deleting", "gone"}, finalizer : BOOLEAN]

\* An action of a record: its UID is known, it counts as applied, as cleaned.
Actions == [uid : BOOLEAN, applied : BOOLEAN, cleaned : BOOLEAN]

Records ==
  [exists : BOOLEAN, phase : {"Preparing", "Active", "Finished"},
   cleanup : BOOLEAN,        \* CleanupStarted
   outcome : {"", "Completed", "Cancelled", "Failed"},
   original : 0 .. MaxScale, \* OriginalReplicas
   actions : [1 .. N -> Actions]]

\* The actions prepare() lists; those on existing objects carry their UID.
NewRecord(replicas) ==
  [exists |-> TRUE, phase |-> "Preparing", cleanup |-> FALSE, outcome |-> "",
   original |-> replicas,
   actions |-> [k \in 1 .. N |-> [uid |-> Plan[k] \notin Created,
                                  applied |-> FALSE, cleaned |-> FALSE]]]

NoRecord == [NewRecord(0) EXCEPT !.exists = FALSE]

\* The workload; uid 1 is the pinned one, 0 none, 2 another of its name.
Workloads ==
  [uid : 0 .. 2, replicas : 0 .. MaxScale, mark : Experiments \cup {NoMark},
   touched : BOOLEAN]        \* users have scaled it

NoWork == [uid |-> 0, replicas |-> 0, mark |-> NoMark, touched |-> FALSE]

Steps == {"idle", "intent", "finalizer", "look", "create", "strike", "patch",
          "applied", "active", "begin", "roll", "pin", "remove", "restore",
          "cleaned", "finished", "release", "forget"}

TypeOK ==
  /\ req \in [Experiments -> Requests] /\ rec \in [Experiments -> Records]
  /\ expired \subseteq Experiments
  /\ parent \in {"ready", "ending", "gone"} /\ granted \in BOOLEAN
  /\ space \in BOOLEAN
  /\ things \in [Experiments -> [1 .. N -> {"absent", "ours", "deleting", "foreign"}]]
  /\ pods \in [Experiments -> SUBSET Jobs] /\ physical \in [Experiments -> SUBSET Jobs]
  /\ victim \in {"pinned", "gone", "other"} /\ work \in Workloads
  /\ engine \in [pc : {"idle", "stop", "reap"}, todo : SUBSET Experiments,
                 pending : BOOLEAN]
  /\ meddling \in 0 .. MaxMeddling /\ faults \in 0 .. MaxFaults
  /\ pc \in Steps /\ cur \in Experiments \cup {NoMark} /\ i \in 0 .. N + 1
  /\ o \in Requests /\ s \in Records /\ seen \in Workloads

Init ==
  /\ req = [x \in Experiments |-> [state |-> "new", finalizer |-> FALSE]]
  /\ rec = [x \in Experiments |-> NoRecord]
  /\ expired = {} /\ parent = "ready" /\ granted = TRUE /\ space = TRUE
  /\ things = [x \in Experiments |-> [k \in 1 .. N |-> "absent"]]
  /\ pods = [x \in Experiments |-> {}] /\ physical = [x \in Experiments |-> {}]
  /\ victim = "pinned"
  /\ work = [uid |-> 1, replicas |-> MaxScale, mark |-> NoMark, touched |-> FALSE]
  /\ engine = [pc |-> "idle", todo |-> {}, pending |-> FALSE]
  /\ meddling = 0 /\ faults = 0
  /\ pc = "idle" /\ cur = NoMark /\ i = 0
  /\ o = [state |-> "new", finalizer |-> FALSE] /\ s = NoRecord
  /\ seen = NoWork
-----------------------------------------------------------------------------
\* Users and the clock.

Submit(x) ==
  /\ req[x].state = "new"
  /\ req' = [req EXCEPT ![x].state = "live"]
  /\ UNCHANGED <<rec, expired, host, guest, bounds, locals>>

\* A request without finalizers disappears when it is deleted.
Stopped(x) ==
  IF req[x].finalizer THEN [req EXCEPT ![x].state = "deleting"]
                      ELSE [req EXCEPT ![x].state = "gone"]

Cancel(x) ==
  /\ "cancel" \in UserMay /\ req[x].state = "live"
  /\ req' = Stopped(x)
  /\ UNCHANGED <<rec, expired, host, guest, bounds, locals>>

Expire(x) ==
  /\ rec[x].exists /\ x \notin expired
  /\ expired' = expired \cup {x}
  /\ UNCHANGED <<req, rec, host, guest, bounds, locals>>

\* The replica is deleted or its TTL ends; its engine saves CleanupStarted.
EndReplica ==
  /\ parent = "ready"
  /\ parent' = "ending"
  /\ UNCHANGED <<req, rec, expired, granted, engine, guest, bounds, locals>>

Revoke ==
  /\ granted
  /\ granted' = FALSE
  /\ UNCHANGED <<req, rec, expired, parent, engine, guest, bounds, locals>>

Meddle(what) ==
  /\ what \in UserMay /\ meddling < MaxMeddling
  /\ meddling' = meddling + 1
  /\ UNCHANGED <<req, rec, expired, host, physical, faults, locals>>

\* A Job may go before its Pods.
UserDelete(x, k) ==
  /\ Meddle("delete")
  /\ Plan[k] # "policy" /\ things[x][k] = "ours"
  /\ things' = [things EXCEPT ![x][k] = "absent"]
  /\ UNCHANGED <<space, pods, victim, work>>

\* An object of the same name without the experiment's markers.
UserCreate(x, k) ==
  /\ Meddle("create")
  /\ Plan[k] \in Created \ {"policy"} /\ things[x][k] = "absent"
  /\ things' = [things EXCEPT ![x][k] = "foreign"]
  /\ UNCHANGED <<space, pods, victim, work>>

UserScale(n) ==
  /\ Meddle("scale")
  /\ work.uid # 0 /\ n # work.replicas
  /\ work' = [work EXCEPT !.replicas = n, !.touched = TRUE]
  /\ UNCHANGED <<space, things, pods, victim>>

\* Another workload of the name, or the same under another replica's markers.
UserReplace ==
  /\ Meddle("replace")
  /\ work.uid = 1
  /\ \E u \in {0, 2} : work' = [NoWork EXCEPT !.uid = u]
  /\ UNCHANGED <<space, things, pods, victim>>

\* The guest namespace is deleted, with all it holds.
UserNamespace ==
  /\ Meddle("namespace")
  /\ space
  /\ space' = FALSE
  /\ things' = [x \in Experiments |-> [k \in 1 .. N |->
                  IF Plan[k] = "policy" THEN things[x][k] ELSE "absent"]]
  /\ pods' = [x \in Experiments |-> {}] /\ victim' = "gone" /\ work' = NoWork

User ==
  \/ \E x \in Experiments : Submit(x) \/ Cancel(x) \/ Expire(x)
  \/ EndReplica \/ Revoke
  \/ \E x \in Experiments, k \in 1 .. N : UserDelete(x, k) \/ UserCreate(x, k)
  \/ \E n \in 0 .. MaxScale : UserScale(n)
  \/ UserReplace \/ UserNamespace

-----------------------------------------------------------------------------
\* Controllers of the guest, and the syncer between guest and host.

Quiet == UNCHANGED <<req, rec, expired, host, space, work, bounds, locals>>

RunJob(x, k) ==
  /\ k \in Jobs /\ things[x][k] = "ours" /\ k \notin pods[x]
  /\ pods' = [pods EXCEPT ![x] = @ \cup {k}]
  /\ Quiet /\ UNCHANGED <<things, physical, victim>>

\* The Pods of a Job that is gone or being deleted end.
EndPods(x, k) ==
  /\ k \in pods[x] /\ things[x][k] # "ours"
  /\ pods' = [pods EXCEPT ![x] = @ \ {k}]
  /\ Quiet /\ UNCHANGED <<things, physical, victim>>

\* Foreground deletion: the Job goes after its Pods.
EndJob(x, k) ==
  /\ things[x][k] = "deleting" /\ k \notin pods[x]
  /\ things' = [things EXCEPT ![x][k] = "absent"]
  /\ Quiet /\ UNCHANGED <<pods, physical, victim>>

Sync(x) ==
  /\ physical[x] # pods[x]
  /\ physical' = [physical EXCEPT ![x] = pods[x]]
  /\ Quiet /\ UNCHANGED <<things, pods, victim>>

ReplacePod ==
  /\ victim = "gone" /\ space
  /\ victim' = "other"
  /\ Quiet /\ UNCHANGED <<things, pods, physical>>

Controllers ==
  \/ \E x \in Experiments, k \in 1 .. N : RunJob(x, k) \/ EndPods(x, k) \/ EndJob(x, k)
  \/ \E x \in Experiments : Sync(x)
  \/ ReplacePod

-----------------------------------------------------------------------------
\* Control of the worker.

Fault == faults < MaxFaults /\ faults' = faults + 1

Return ==
  /\ pc' = "idle" /\ cur' = NoMark /\ i' = 0
  /\ o' = [state |-> "new", finalizer |-> FALSE] /\ s' = NoRecord /\ seen' = NoWork

Goto(step, k) == pc' = step /\ i' = k /\ UNCHANGED <<cur, o, s, seen>>

\* r.cleanup(ctx, x, st, outcome) of the worker's copies.
CleanupOf(x, request, st, outcome) ==
  IF st.phase = "Finished" /\ request.state # "deleting" THEN Return
  ELSE /\ pc' = IF st.phase = "Finished" THEN "release"
                ELSE IF st.cleanup THEN "roll" ELSE "begin"
       /\ i' = N /\ cur' = x /\ o' = request /\ seen' = NoWork
       /\ s' = IF st.cleanup THEN st ELSE [st EXCEPT !.outcome = outcome]

Fail(st) == CleanupOf(cur, o, st, "Failed")

\* A call that took effect: `next`, or `error` when its answer is lost.
Outcome(next, error) ==
  \/ next /\ UNCHANGED faults
  \/ error /\ Fault

\* Store.Save.  After a lost answer the copy is outdated, so whatever else the
\* reconcile tries to save fails too.
Save(new, step, k) ==
  /\ rec' = [rec EXCEPT ![cur] = new]
  /\ Outcome(pc' = step /\ i' = k /\ s' = new /\ UNCHANGED <<cur, o, seen>>, Return)
  /\ UNCHANGED <<req, expired, host, guest, meddling>>

NoWrite == UNCHANGED <<req, rec, expired, host, guest, bounds>>

-----------------------------------------------------------------------------
\* Reconcile, up to its first write.

Open(x) == pc = "idle" /\ req[x].state \in {"live", "deleting"}

Over(x) == rec[x].cleanup \/ req[x].state = "deleting" \/ x \in expired

\* Deleted, or past its duration, or already rolling back.
End(x) ==
  /\ Open(x) /\ rec[x].exists /\ Over(x)
  /\ CleanupOf(x, req[x], rec[x],
               IF req[x].state = "deleting" THEN "Cancelled"
               ELSE IF rec[x].phase = "Active" THEN "Completed" ELSE "Failed")
  /\ NoWrite

\* The replica ends, or the grant is not the one it was captured under.
Abort(x) ==
  /\ Open(x) /\ rec[x].exists /\ ~Over(x)
  /\ parent # "ready" \/ ~granted
  /\ CleanupOf(x, req[x], rec[x], IF parent # "ready" THEN "Cancelled" ELSE "Failed")
  /\ NoWrite

\* Mutant: only active experiments count.
SlotActiveOnly(x) ==
  \A y \in Experiments \ {x} :
    req[y].state \in {"live", "deleting"} /\ rec[y].exists => rec[y].phase # "Active"

\* slot(): no other experiment of the replica is unfinished, or has lost its
\* record.
Slot(x) ==
  \A y \in Experiments \ {x} : req[y].state \in {"live", "deleting"} =>
    IF rec[y].exists THEN rec[y].phase = "Finished" ELSE ~req[y].finalizer

\* prepare(): the targets are there, the replica's own and under no fault.
Prepared ==
  /\ space
  /\ \A k \in 1 .. N :
       /\ Plan[k] = "scale" => work.uid = 1 /\ work.mark = NoMark
       /\ Plan[k] = "pod" => victim = "pinned"

Start(x) ==
  /\ Open(x) /\ ~rec[x].exists /\ ~req[x].finalizer
  /\ parent = "ready" /\ granted /\ Slot(x) /\ Prepared
  /\ pc' = "intent" /\ cur' = x /\ i' = 0 /\ o' = req[x]
  /\ s' = NewRecord(work.replicas) /\ seen' = NoWork
  /\ NoWrite

SaveIntent == pc = "intent" /\ Save(s, "finalizer", 0)

\* Mutant: the intent alone is taken for enough.
ResumeNoFinalizer(x) ==
  /\ Open(x) /\ rec[x].exists /\ ~Over(x) /\ parent = "ready" /\ granted
  /\ pc' = "look"
  /\ cur' = x /\ i' = 1 /\ o' = req[x] /\ s' = rec[x] /\ seen' = NoWork
  /\ NoWrite

Resume(x) ==
  /\ Open(x) /\ rec[x].exists /\ ~Over(x) /\ parent = "ready" /\ granted
  /\ pc' = IF req[x].finalizer THEN "look" ELSE "finalizer"
  /\ cur' = x /\ i' = 1 /\ o' = req[x] /\ s' = rec[x] /\ seen' = NoWork
  /\ NoWrite

AddFinalizer ==
  /\ pc = "finalizer"
  /\ req' = IF req[cur].state = "live" THEN [req EXCEPT ![cur].finalizer = TRUE]
                                       ELSE req
  /\ Return
  /\ UNCHANGED <<rec, expired, host, guest, bounds>>

-----------------------------------------------------------------------------
\* apply(), one action at a time.

Act == s.actions[i]

LookThing ==
  /\ pc = "look" /\ i <= N /\ space /\ Plan[i] \in Created
  /\ \/ /\ things[cur][i] = "absent"
        /\ IF Act.uid \/ Act.applied THEN Fail(s) ELSE Goto("create", i)
     \/ things[cur][i] = "foreign" /\ Fail(s)
     \/ things[cur][i] \in {"ours", "deleting"} /\ Goto("applied", i)
     \/ i \in Jobs /\ things[cur][i] \in {"ours", "deleting"} /\ Fail(s)  \* status.failed
  /\ NoWrite

\* A Pod that was replaced is left alone.
LookPod ==
  /\ pc = "look" /\ i <= N /\ space /\ Plan[i] = "pod"
  /\ Goto(IF victim = "pinned" /\ ~Act.applied THEN "strike" ELSE "applied", i)
  /\ NoWrite

LookScale ==
  /\ pc = "look" /\ i <= N /\ space /\ Plan[i] = "scale"
  /\ IF work.uid = 1 /\ work.mark = cur /\ work.replicas = 0 THEN Goto("applied", i)
     ELSE IF \/ work.uid # 1 \/ Act.applied \/ work.mark # NoMark
             \/ work.replicas # s.original
       THEN Fail(s)
       ELSE pc' = "patch" /\ seen' = work /\ UNCHANGED <<i, cur, o, s>>
  /\ NoWrite

\* verifyNamespace: the namespace was deleted or replaced.
LookLost ==
  /\ pc = "look" /\ i <= N /\ ~space
  /\ Fail(s) /\ NoWrite

Create ==
  /\ pc = "create"
  /\ IF things[cur][i] = "absent" /\ (space \/ Plan[i] = "policy")
       THEN /\ things' = [things EXCEPT ![cur][i] = "ours"]
            /\ Outcome(Goto("applied", i), Fail(s))
       ELSE Fail(s) /\ UNCHANGED <<things, faults>>
  /\ UNCHANGED <<req, rec, expired, host, space, pods, physical, victim, work, meddling>>

Strike ==
  /\ pc = "strike"
  /\ CASE victim = "pinned" -> victim' = "gone" /\ Outcome(Goto("applied", i), Fail(s))
       [] victim = "gone" -> Goto("applied", i) /\ UNCHANGED <<victim, faults>>
       [] OTHER -> Fail(s) /\ UNCHANGED <<victim, faults>>
  /\ UNCHANGED <<req, rec, expired, host, space, things, pods, physical, work, meddling>>

\* Mutant: the scale patch has no precondition.
PatchBlind ==
  /\ pc = "patch"
  /\ work' = [work EXCEPT !.replicas = 0, !.mark = cur]
  /\ Goto("applied", i)
  /\ UNCHANGED <<req, rec, expired, host, space, things, pods, physical, victim, bounds>>

\* The scale patch carries the UID and resourceVersion that were read.
Patch ==
  /\ pc = "patch"
  /\ IF work = seen
       THEN /\ work' = [work EXCEPT !.replicas = 0, !.mark = cur]
            /\ Outcome(Goto("applied", i), Fail(s))
       ELSE Fail(s) /\ UNCHANGED <<work, faults>>
  /\ UNCHANGED <<req, rec, expired, host, space, things, pods, physical, victim, meddling>>

AppliedNow == [s EXCEPT !.actions[i].uid = TRUE, !.actions[i].applied = TRUE]

SaveApplied == pc = "applied" /\ Save(AppliedNow, "look", i + 1)

\* jobsStarted(): the Jobs are still ours, and their Pods run or have ended.
Started ==
  /\ pc = "look" /\ i = N + 1
  /\ IF \E k \in Jobs : things[cur][k] \notin {"ours", "deleting"} THEN Fail(s)
     ELSE Goto("active", i) \/ (Jobs # {} /\ Return)
  /\ NoWrite

SaveActive ==
  /\ pc = "active"
  /\ rec' = [rec EXCEPT ![cur] = [s EXCEPT !.phase = "Active"]]
  /\ Return
  /\ UNCHANGED <<req, expired, host, guest, bounds>>

-----------------------------------------------------------------------------
\* cleanup() and rollback(), in reverse order.

BeginCleanup == pc = "begin" /\ Save([s EXCEPT !.cleanup = TRUE], "roll", N)

\* Mutant: an object whose UID was never saved is taken for not created.
SettledUnrecorded ==
  \/ Plan[i] # "policy" /\ ~space
  \/ Plan[i] = "pod"
  \/ Plan[i] \in Created /\ (~Act.uid \/ things[cur][i] = "absent")
  \/ Plan[i] = "scale" /\ work.mark = NoMark

\* Nothing is left to do for the action.
Settled ==
  \/ Plan[i] # "policy" /\ ~space
  \/ Plan[i] = "pod"
  \/ Plan[i] = "account" /\ things[cur][i] = "absent"
  \/ Plan[i] = "job" /\ things[cur][i] = "absent" /\ i \notin pods[cur]
  \/ Plan[i] = "policy" /\ physical[cur] = {} /\ things[cur][i] = "absent"
  \/ Plan[i] = "scale" /\ work.uid = 0
  \/ Plan[i] = "scale" /\ work.uid = 1 /\ work.mark = NoMark /\ work.replicas = s.original

RollNext ==
  /\ pc = "roll"
  /\ IF i = 0 THEN Goto("finished", 0)
     ELSE IF Act.cleaned THEN Goto("roll", i - 1)
     ELSE Settled /\ Goto("cleaned", i)
  /\ NoWrite

\* Mutant: the host policy goes as soon as the guest reports its Jobs gone.
RollThingNoWait ==
  /\ pc = "roll" /\ i > 0 /\ ~Act.cleaned /\ ~Settled /\ Plan[i] \in Created
  /\ Plan[i] = "job" => things[cur][i] # "absent"
  /\ IF things[cur][i] = "ours"
       THEN Goto(IF Act.uid \/ Plan[i] = "policy" THEN "remove" ELSE "pin", i)
       ELSE Return
  /\ NoWrite

\* An object of ours is deleted; its UID is saved first.  The host policy stays
\* until the physical Pods are gone.
RollThing ==
  /\ pc = "roll" /\ i > 0 /\ ~Act.cleaned /\ ~Settled /\ Plan[i] \in Created
  /\ Plan[i] = "job" => things[cur][i] # "absent"
  /\ IF /\ things[cur][i] = "ours"
        /\ Plan[i] = "policy" => physical[cur] = {}
       THEN Goto(IF Act.uid \/ Plan[i] = "policy" THEN "remove" ELSE "pin", i)
       ELSE Return
  /\ NoWrite

\* cleanPods(): Pods that outlive their Job.
RollPods ==
  /\ pc = "roll" /\ i > 0 /\ ~Act.cleaned /\ ~Settled
  /\ Plan[i] = "job" /\ things[cur][i] = "absent"
  /\ pods' = [pods EXCEPT ![cur] = @ \ {i}]
  /\ Return
  /\ UNCHANGED <<req, rec, expired, host, space, things, physical, victim, work, bounds>>

\* A workload that users replaced or scaled blocks the rollback.
RollScale ==
  /\ pc = "roll" /\ i > 0 /\ ~Act.cleaned /\ ~Settled /\ Plan[i] = "scale"
  /\ IF work.uid = 1 /\ work.mark = cur /\ work.replicas = 0
       THEN pc' = "restore" /\ seen' = work /\ UNCHANGED <<i, cur, o, s>>
       ELSE Return
  /\ NoWrite

Pin == pc = "pin" /\ Save([s EXCEPT !.actions[i].uid = TRUE], "remove", i)

\* The deletion has the UID and resourceVersion that were read as preconditions;
\* a later reconcile verifies that the object is gone.
Remove ==
  /\ pc = "remove"
  /\ things' = IF things[cur][i] # "ours" THEN things
               ELSE [things EXCEPT ![cur][i] =
                      IF Plan[i] = "job" THEN "deleting" ELSE "absent"]
  /\ Return
  /\ UNCHANGED <<req, rec, expired, host, space, pods, physical, victim, work, bounds>>

\* Mutant: the marker goes and the scale stays.
RestoreMarkerOnly ==
  /\ pc = "restore"
  /\ IF work = seen
       THEN work' = [work EXCEPT !.mark = NoMark] /\ Goto("cleaned", i)
       ELSE Return /\ UNCHANGED work
  /\ UNCHANGED <<req, rec, expired, host, space, things, pods, physical, victim, bounds>>

Restore ==
  /\ pc = "restore"
  /\ IF work = seen
       THEN /\ work' = [work EXCEPT !.replicas = s.original, !.mark = NoMark]
            /\ Outcome(Goto("cleaned", i), Return)
       ELSE Return /\ UNCHANGED <<work, faults>>
  /\ UNCHANGED <<req, rec, expired, host, space, things, pods, physical, victim, meddling>>

SaveCleaned ==
  pc = "cleaned" /\ Save([s EXCEPT !.actions[i].cleaned = TRUE], "roll", i - 1)

SaveFinished ==
  /\ pc = "finished"
  /\ LET new == [s EXCEPT !.phase = "Finished"] IN
       /\ rec' = [rec EXCEPT ![cur] = new]
       /\ Outcome(CleanupOf(cur, o, new, ""), Return)
  /\ UNCHANGED <<req, expired, host, guest, meddling>>

\* Mutant: the record goes and the finalizer stays.
ReleaseRecordOnly ==
  /\ pc = "release"
  /\ rec' = [rec EXCEPT ![cur] = NoRecord]
  /\ Return
  /\ UNCHANGED <<req, expired, host, guest, bounds>>

\* finishAndForget(): the finalizer goes before the record.
Release ==
  /\ pc = "release"
  /\ req' = [req EXCEPT ![cur] = [state |-> "gone", finalizer |-> FALSE]]
  /\ Outcome(Goto("forget", 0), Return)
  /\ UNCHANGED <<rec, expired, host, guest, meddling>>

Forget ==
  /\ pc = "forget"
  /\ rec' = [rec EXCEPT ![cur] = NoRecord]
  /\ Return
  /\ UNCHANGED <<req, expired, host, guest, bounds>>

-----------------------------------------------------------------------------
\* A call fails without effect: in apply() this starts the rollback.
CallFails ==
  /\ Fault
  /\ \/ pc \in {"look", "create", "strike", "patch"} /\ Fail(s)
     \/ pc = "applied" /\ Fail(AppliedNow)
     \/ pc # "idle" /\ Return
  /\ UNCHANGED <<req, rec, expired, host, guest, meddling>>

-----------------------------------------------------------------------------
\* CleanupReplica(), repeated by the replica's engine until it is done.

EngineStep == UNCHANGED <<expired, granted, guest, meddling, locals>>

ListExperiments ==
  /\ parent = "ending" /\ engine.pc = "idle"
  /\ LET live == {x \in Experiments : req[x].state \in {"live", "deleting"}} IN
       engine' = [pc |-> "stop", todo |-> live, pending |-> live # {}]
  /\ EngineStep /\ UNCHANGED <<req, rec, parent, faults>>

StopExperiment(x) ==
  /\ engine.pc = "stop" /\ x \in engine.todo
  /\ req' = IF req[x].state = "live" THEN Stopped(x) ELSE req
  /\ engine' = [engine EXCEPT !.todo = @ \ {x}]
  /\ EngineStep /\ UNCHANGED <<rec, parent, faults>>

ListRecords ==
  /\ engine.pc = "stop" /\ engine.todo = {}
  /\ engine' = [engine EXCEPT !.pc = "reap",
                              !.todo = {x \in Experiments : rec[x].exists}]
  /\ EngineStep /\ UNCHANGED <<req, rec, parent, faults>>

\* Mutant: every record without a request is an error.
ReapNothing(x) ==
  /\ engine.pc = "reap" /\ x \in engine.todo
  /\ engine' = IF req[x].state # "gone" \/ ~rec[x].exists
                 THEN [engine EXCEPT !.todo = @ \ {x}]
                 ELSE [engine EXCEPT !.pc = "idle", !.todo = {}]
  /\ EngineStep /\ UNCHANGED <<req, rec, parent, faults>>

\* The record of a request that is gone is deleted if it is Finished; an
\* unfinished one is an error.
ReapRecord(x) ==
  /\ engine.pc = "reap" /\ x \in engine.todo
  /\ IF req[x].state # "gone" \/ ~rec[x].exists
       THEN rec' = rec /\ engine' = [engine EXCEPT !.todo = @ \ {x}]
     ELSE IF rec[x].phase = "Finished"
       THEN /\ rec' = [rec EXCEPT ![x] = NoRecord]
            /\ engine' = [engine EXCEPT !.todo = @ \ {x}]
       ELSE rec' = rec /\ engine' = [engine EXCEPT !.pc = "idle", !.todo = {}]
  /\ EngineStep /\ UNCHANGED <<req, parent, faults>>

\* Mutant: the engine goes on once the experiments are told to stop.
ProceedEager ==
  /\ engine.pc = "reap" /\ engine.todo = {}
  /\ parent' = "gone"
  /\ engine' = [engine EXCEPT !.pc = "idle"]
  /\ EngineStep /\ UNCHANGED <<req, rec, faults>>

\* Done: the engine goes on to accesses, guest and runtime.
Proceed ==
  /\ engine.pc = "reap" /\ engine.todo = {}
  /\ parent' = IF engine.pending THEN parent ELSE "gone"
  /\ engine' = [engine EXCEPT !.pc = "idle"]
  /\ EngineStep /\ UNCHANGED <<req, rec, faults>>

EngineFails ==
  /\ engine.pc # "idle" /\ Fault
  /\ engine' = [engine EXCEPT !.pc = "idle", !.todo = {}]
  /\ EngineStep /\ UNCHANGED <<req, rec, parent>>

CleanupReplica ==
  \/ ListExperiments \/ ListRecords \/ Proceed
  \/ \E x \in Experiments : StopExperiment(x) \/ ReapRecord(x)

\* The operator restarts: worker and engine lose what they were doing.
Crash ==
  /\ Fault /\ Return
  /\ engine' = [engine EXCEPT !.pc = "idle", !.todo = {}]
  /\ UNCHANGED <<req, rec, expired, parent, granted, guest, meddling>>

-----------------------------------------------------------------------------
Pick(x) == End(x) \/ Abort(x) \/ Start(x) \/ Resume(x)

Work ==
  \/ SaveIntent \/ AddFinalizer \/ LookThing \/ LookPod \/ LookScale \/ LookLost
  \/ Create \/ Strike \/ Patch \/ SaveApplied \/ Started \/ SaveActive
  \/ BeginCleanup \/ RollNext \/ RollThing \/ RollPods \/ RollScale \/ Pin
  \/ Remove \/ Restore \/ SaveCleaned \/ SaveFinished \/ Release \/ Forget

Next ==
  \/ \E x \in Experiments : Pick(x)
  \/ Work \/ CallFails \/ CleanupReplica \/ EngineFails \/ Crash
  \/ Controllers \/ User

\* The work queue is first in, first out, so every request has its turn; the
\* replica's engine, the guest's controllers and the syncer go on.
Fairness ==
  /\ WF_vars(Work) /\ WF_vars(CleanupReplica) /\ WF_vars(Controllers)
  /\ \A x \in Experiments : SF_vars(Pick(x))

Spec == Init /\ [][Next]_vars /\ Fairness

-----------------------------------------------------------------------------
\* Properties.

\* What action k of experiment x has left in the guest or on the host.
Effect(x, k) ==
  \/ things[x][k] \in {"ours", "deleting"} \/ k \in pods[x] \cup physical[x]
  \/ Plan[k] = "scale" /\ work.mark = x

Disturbs(x) == \E k \in 1 .. N : Effect(x, k)

\* "No guest effect is possible until BOTH the encrypted intent and this
\* finalizer exist" (controller.go:175), and both stay until the effect of every
\* action is undone: the action is not marked cleaned before.
EffectsIntended ==
  /\ TypeOK
  /\ \A x \in Experiments :
       /\ Disturbs(x) => rec[x].exists /\ req[x].finalizer /\ rec[x].phase # "Finished"
       /\ \A k \in 1 .. N : Effect(x, k) /\ k \notin physical[x] => ~rec[x].actions[k].cleaned

\* The faults of two experiments never overlap on one replica (slot(),
\* controller.go:208-229; docs/guides/chaos.md:20).
OneExperiment ==
  \A x, y \in Experiments : Disturbs(x) /\ Disturbs(y) => x = y

\* A Finished record, or a request that is gone, means that everything is
\* undone: objects, guest and physical Pods, and the scale of a workload that
\* users left alone (actions.go:151-152).  "Completed" is only said of one whose
\* faults were all applied (docs/guides/chaos.md:103, controller.go:82-85).
FinishedMeansRestored ==
  \A x \in Experiments :
    /\ rec[x].phase = "Finished" \/ req[x].state = "gone" =>
         /\ ~Disturbs(x)
         /\ rec[x].phase = "Finished" /\ work.uid = 1 /\ ~work.touched
              /\ work.mark = NoMark => work.replicas = MaxScale
    /\ rec[x].outcome = "Completed" => \A k \in 1 .. N : rec[x].actions[k].applied

\* The host policy outlives the physical Pods of the fault Jobs, although the
\* guest reports them gone earlier (network.go:94-95).
IsolationOutlivesPods ==
  \A x \in Experiments : physical[x] # {} =>
    \E k \in 1 .. N : Plan[k] = "policy" /\ things[x][k] = "ours"

\* The worker leaves alone what is not the experiment's: objects without its
\* markers, a replaced Pod or workload, and a scale that users changed
\* (actions.go:71, 84-95, 229-244).
ForeignPreserved ==
  [][Work => /\ \A x \in Experiments, k \in 1 .. N :
                  things[x][k] = "foreign" => things'[x][k] = "foreign"
             /\ victim = "other" => victim' = "other"
             /\ work # work' =>
                  /\ work.uid = 1
                  /\ work.mark \in {NoMark, cur}
                  /\ work.mark = cur => work.replicas = 0
                  /\ work.mark = NoMark => work.replicas = s.original]_vars

\* The replica is torn down only when no experiment disturbs it any more,
\* however the worker and the replica's cleanup interleave (controller.go:231).
RollbackBeforeTeardown ==
  [][parent # "gone" /\ parent' = "gone" => \A x \in Experiments : ~Disturbs(x)]_vars

\* A deleted experiment disappears, and one past its duration is rolled back,
\* unless users meddle with its objects (docs/guides/chaos.md:134).
ExperimentEnds ==
  \A x \in Experiments :
    /\ (req[x].state = "deleting") ~> (req[x].state = "gone" \/ meddling # 0)
    /\ (x \in expired /\ req[x].state = "live") ~>
         \/ rec[x].phase = "Finished" \/ ~rec[x].exists \/ req[x].state = "gone"
         \/ meddling # 0

\* A record whose request disappeared before its finalizer was added.
Orphan(x) == req[x].state = "gone" /\ rec[x].exists /\ rec[x].phase # "Finished"

\* Cleanup of the replica gets past its experiments, unless one was orphaned
\* or users meddle (the loop and the reaping of controller.go:233-285).
ReplicaSettles ==
  (parent = "ending") ~>
    (parent = "gone" \/ meddling # 0 \/ \E x \in Experiments : Orphan(x))

\* "Delete the request to remove that record.  Parent cleanup deletes its
\* experiment requests automatically" (docs/guides/chaos.md:136).
ReplicaCleanupEnds == (parent = "ending") ~> (parent = "gone")
=============================================================================
