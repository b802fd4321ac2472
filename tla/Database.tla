------------------------------- MODULE Database -------------------------------
(***************************************************************************)
(* internal/database: the PostgreSQL copies of one managed replica, from   *)
(* the engine's Prepare to its cleanup.  A copy is restored into a staging *)
(* Pod, masked there, copied into the final Pod, and published once the    *)
(* staging Pod is gone.  Applications are installed after every copy is    *)
(* Ready.                                                                  *)
(*                                                                         *)
(* One worker reconciles the replica.  An action is what happens up to and *)
(* with the next write, `pc` the part of the reconcile that is running, so *)
(* what a part has checked may have changed when a later part acts on it.  *)
(* A failed call, a lost answer and a crash end the reconcile between two  *)
(* writes: Crash.  Grants, plans, storage classes and credentials that are *)
(* refused write nothing: Refuse.                                          *)
(*                                                                         *)
(* Guest Pods are run by host Pods, which vCluster creates and removes     *)
(* later.  Users and controllers of the guest may remove objects and take  *)
(* their names; the host's policies are the administrator's, who leaves    *)
(* them alone.                                                             *)
(***************************************************************************)
EXTENDS Naturals, Sequences

CONSTANTS
  Copies,      \* number of databases, at most 4
  MaxMeddling, \* bound on guest objects removed or created by others
  MaxFaults    \* bound on crashes, failed calls and lost answers

\* What ValidatePlan() leaves of a request.
ValidPlan == Copies \in 1 .. 4

ASSUME ConstantsAssumption == ValidPlan /\ MaxMeddling \in Nat /\ MaxFaults \in Nat

DBs == 1 .. Copies

\* What resources() and publish() make in the guest, in this order.
Order == <<"secret", "claim", "stage", "final", "service">>
Objects == {Order[n] : n \in DOMAIN Order}
Roles == {"stage", "final"}          \* Pods, and their host policies
Boundary == {"deny", "apps"}         \* the application policies

VARIABLES
  over,        \* the replica is deleted or expired
  st,          \* the protected record
  guest,       \* objects in the guest: absent, the copy's own, another's
  host,        \* the databases' host Pods
  data,        \* what these Pods hold
  policy,      \* their host policies
  boundary,    \* the application policies that exist
  apps,        \* the applications' host Pods
  reads,       \* how often a source was read
  meddling, faults, pc, cur

world == <<guest, host, data, policy, boundary, apps, reads>>
vars == <<over, st, world, meddling, faults, pc, cur>>

\* Of an object the record knows nothing, the intent, its UID or its deletion.
Knowledge == {"none", "intent", "uid", "deleted"}

Records ==
  [exists : BOOLEAN, cleaned : BOOLEAN,
   phase : [DBs -> {"none", "Preparing", "Copying", "Failed", "Sanitized", "Ready"}],
   entry : [DBs -> [Objects -> Knowledge]],
   policy : [DBs -> [Roles -> Knowledge]],
   boundary : [Boundary -> Knowledge]]

TypeOK ==
  /\ over \in BOOLEAN /\ st \in Records
  /\ guest \in [DBs -> [Objects -> {"none", "own", "other"}]]
  /\ host \in [DBs -> [Roles -> BOOLEAN]]
  /\ data \in [DBs -> [Roles -> {"empty", "raw", "masked"}]]
  /\ policy \in [DBs -> [Roles -> {"none", "closed", "open"}]]
  /\ boundary \subseteq Boundary /\ apps \in {"none", "running", "stopping"}
  /\ reads \in [DBs -> Nat]
  /\ meddling \in 0 .. MaxMeddling /\ faults \in 0 .. MaxFaults
  /\ cur \in DBs
  /\ pc \in {"idle", "begin", "phase", "policies", "resources", "capture", "mask", "copy",
             "verified", "unstage", "open", "publish", "next", "clean", "teardown"}

Init ==
  /\ over = FALSE
  /\ st = [exists |-> TRUE, cleaned |-> FALSE, phase |-> [d \in DBs |-> "none"],
           entry |-> [d \in DBs |-> [o \in Objects |-> "none"]],
           policy |-> [d \in DBs |-> [r \in Roles |-> "none"]],
           boundary |-> [b \in Boundary |-> "none"]]
  /\ guest = [d \in DBs |-> [o \in Objects |-> "none"]]
  /\ host = [d \in DBs |-> [r \in Roles |-> FALSE]]
  /\ data = [d \in DBs |-> [r \in Roles |-> "empty"]]
  /\ policy = [d \in DBs |-> [r \in Roles |-> "none"]]
  /\ boundary = {} /\ apps = "none" /\ reads = [d \in DBs |-> 0]
  /\ meddling = 0 /\ faults = 0 /\ pc = "idle" /\ cur = 1
-----------------------------------------------------------------------------
\* Users, other controllers, vCluster and the clock.

End ==
  /\ ~over /\ over' = TRUE
  /\ UNCHANGED <<st, world, meddling, faults, pc, cur>>

Meddle(d, o) ==
  /\ meddling < MaxMeddling /\ meddling' = meddling + 1
  /\ \E x \in {"none", "other"} : guest[d][o] # x /\ guest' = [guest EXCEPT ![d][o] = x]
  /\ UNCHANGED <<over, st, host, data, policy, boundary, apps, reads, faults, pc, cur>>

\* A host Pod follows its guest Pod.  A staging Pod's data is in its memory;
\* the final one's is in a claim that goes with the Pod here.
Follow(d, r) ==
  /\ host[d][r] # (guest[d][r] # "none")
  /\ host' = [host EXCEPT ![d][r] = ~@]
  /\ data' = IF host[d][r] THEN [data EXCEPT ![d][r] = "empty"] ELSE data
  /\ UNCHANGED <<over, st, guest, policy, boundary, apps, reads, meddling, faults, pc, cur>>

AppsStop ==
  /\ apps = "stopping" /\ apps' = "none"
  /\ UNCHANGED <<over, st, guest, host, data, policy, boundary, reads, meddling, faults, pc, cur>>

Users == End \/ \E d \in DBs, o \in Objects : Meddle(d, o)

VCluster == AppsStop \/ \E d \in DBs, r \in Roles : Follow(d, r)
-----------------------------------------------------------------------------
\* Control of the worker.

At(part) == pc = part /\ st.exists
Goto(part) == pc' = part /\ UNCHANGED cur
Return == pc' = "idle" /\ cur' = 1
Stay == UNCHANGED <<pc, cur>>

Outside == UNCHANGED <<over, meddling, faults>>
Save(new) == st' = new /\ Outside /\ UNCHANGED world
Written == Outside /\ UNCHANGED st
Nothing == Outside /\ UNCHANGED <<st, world>>

Crash ==
  /\ pc # "idle" /\ faults < MaxFaults /\ faults' = faults + 1
  /\ Return /\ UNCHANGED <<over, st, world, meddling>>

\* What one copy's record says from now on.
SetPhase(p) == Save([st EXCEPT !.phase[cur] = p])
SetEntry(o, k) == Save([st EXCEPT !.entry[cur][o] = k])
SetPolicy(r, k) == Save([st EXCEPT !.policy[cur][r] = k])

\* Reads and checks that fail, and what is not there yet.
Refuse ==
  /\ pc \in {"begin", "phase", "policies", "resources", "open", "publish"}
  /\ Nothing /\ Return
-----------------------------------------------------------------------------
\* Prepare, for each copy in turn.

Reconcile ==
  /\ At("idle") /\ ~over
  /\ Nothing /\ Goto("begin")

Intend ==
  /\ At("begin") /\ st.phase[cur] = "none"
  /\ SetPhase("Preparing") /\ Stay

\* ensureApplicationIsolation(): deny, then apps.
IntendBoundary ==
  /\ At("begin") /\ st.phase[cur] # "none" /\ st.boundary["deny"] = "none"
  /\ Save([st EXCEPT !.boundary = [b \in Boundary |-> "intent"]]) /\ Stay

Due(b) ==
  /\ At("begin") /\ st.phase[cur] # "none" /\ st.boundary[b] = "intent"
  /\ b = "apps" => st.boundary["deny"] = "uid"

CreateBoundary(b) ==
  /\ Due(b) /\ b \notin boundary
  /\ boundary' = boundary \cup {b}
  /\ Written /\ Stay /\ UNCHANGED <<guest, host, data, policy, apps, reads>>

RecordBoundary(b) ==
  /\ Due(b) /\ b \in boundary
  /\ Save([st EXCEPT !.boundary[b] = "uid"]) /\ Stay

Bounded ==
  /\ At("begin") /\ st.phase[cur] # "none"
  /\ \A b \in Boundary : st.boundary[b] = "uid" /\ b \in boundary
  /\ Nothing /\ Goto("phase")

\* Mutant: an interrupted copy starts over.
InterruptedRetries ==
  /\ At("phase") /\ st.phase[cur] = "Copying"
  /\ SetPhase("Preparing") /\ Stay

\* A copy that was interrupted is never resumed.
Interrupted ==
  /\ At("phase") /\ st.phase[cur] = "Copying"
  /\ SetPhase("Failed") /\ Stay

Resume ==
  /\ At("phase")
  /\ \/ st.phase[cur] \in {"Failed", "Sanitized"} /\ Goto("unstage")
     \/ st.phase[cur] = "Preparing" /\ Goto("policies")
  /\ Nothing

\* verify()
Verified ==
  /\ At("phase") /\ st.phase[cur] = "Ready"
  /\ policy[cur] = [stage |-> "closed", final |-> "open"]
  /\ \A o \in Objects : st.entry[cur][o] = "uid" => guest[cur][o] = "own"
  /\ Nothing /\ Goto("next")

\* hostPolicies(): the deny policies of both Pods.
Ahead(r) == r = "final" => st.policy[cur]["stage"] = "uid"

EnsurePolicy(r) ==
  /\ At("policies") /\ Ahead(r)
  /\ \/ st.policy[cur][r] = "none" /\ SetPolicy(r, "intent")
     \/ /\ st.policy[cur][r] = "intent" /\ policy[cur][r] = "none"
        /\ policy' = [policy EXCEPT ![cur][r] = "closed"]
        /\ Written /\ UNCHANGED <<guest, host, data, boundary, apps, reads>>
     \/ /\ st.policy[cur][r] = "intent" /\ policy[cur][r] # "none"
        /\ SetPolicy(r, "uid")
  /\ Stay

Isolated ==
  /\ At("policies")
  /\ \A r \in Roles : st.policy[cur][r] = "uid" /\ policy[cur][r] = "closed"
  /\ Nothing /\ Goto("resources")

\* ensure(): intent while nobody has the name, object, UID.
Ensure(o) ==
  /\ \/ st.entry[cur][o] = "none" /\ guest[cur][o] = "none" /\ SetEntry(o, "intent")
     \/ /\ st.entry[cur][o] = "intent" /\ guest[cur][o] = "none"
        /\ guest' = [guest EXCEPT ![cur][o] = "own"]
        /\ Written /\ UNCHANGED <<host, data, policy, boundary, apps, reads>>
     \/ st.entry[cur][o] = "intent" /\ guest[cur][o] = "own" /\ SetEntry(o, "uid")
  /\ Stay

Ensured(o) == st.entry[cur][o] = "uid" /\ guest[cur][o] = "own"

EnsureResource(n) ==
  /\ At("resources")
  /\ \A m \in 1 .. n - 1 : st.entry[cur][Order[m]] = "uid"
  /\ Ensure(Order[n])

\* Both Pods are there, in the guest and, once each, on the host; the intent
\* to copy is saved before the source is read.
BeginCopy ==
  /\ At("resources")
  /\ \A o \in Objects \ {"service"} : st.entry[cur][o] = "uid"
  /\ \A r \in Roles : guest[cur][r] # "none" /\ host[cur][r]
  /\ SetPhase("Copying") /\ Goto("capture")

\* Runner.Capture, Runner.SQL(MaskSQL) and Runner.Copy fill a Pod in one
\* transaction.  A failure may be that of an answer; it is saved if it can be,
\* and the staging Pod goes in any case.
Transfer(part, r, new, then) ==
  /\ At(part)
  /\ \/ host[cur][r] /\ data' = [data EXCEPT ![cur][r] = new] /\ Goto(then) /\ UNCHANGED st
     \/ /\ data' = data \/ (host[cur][r] /\ data' = [data EXCEPT ![cur][r] = new])
        /\ st' \in {st, [st EXCEPT !.phase[cur] = "Failed"]} /\ Goto("unstage")
  /\ Outside /\ UNCHANGED <<guest, host, policy, boundary, apps>>

Capture ==
  /\ Transfer("capture", "stage", "raw", "mask")
  /\ reads' = [reads EXCEPT ![cur] = @ + 1]

Mask == Transfer("mask", "stage", "masked", "copy") /\ UNCHANGED reads

Copy == Transfer("copy", "final", data[cur]["stage"], "verified") /\ UNCHANGED reads

Sanitized ==
  /\ At("verified")
  /\ SetPhase("Sanitized") /\ Goto("unstage")

\* remove() of one object: deleted if it is the copy's own, awaited, noted.
Remove(d, o) ==
  \/ /\ guest[d][o] = "own" /\ guest' = [guest EXCEPT ![d][o] = "none"]
     /\ Return /\ Written /\ UNCHANGED <<host, data, policy, boundary, apps, reads>>
  \/ /\ guest[d][o] = "none"
     /\ Save([st EXCEPT !.entry[d][o] = "deleted"]) /\ Stay
  \/ guest[d][o] = "other" /\ Nothing /\ Return

\* Mutant: an object whose UID was never saved is taken for not created.
UnneededKnown(d, o) == st.entry[d][o] # "uid"

Unneeded(d, o) == st.entry[d][o] \in {"none", "deleted"}

Unstage ==
  /\ At("unstage") /\ ~Unneeded(cur, "stage")
  /\ Remove(cur, "stage")

\* Mutant: the end of the guest Pod is enough.
UnstagedGuest ==
  /\ At("unstage") /\ Unneeded(cur, "stage")
  /\ IF st.phase[cur] # "Sanitized" THEN Return ELSE Goto("open")
  /\ Nothing

\* hostPodsGone(): raw data is private until the host Pod has gone.
Unstaged ==
  /\ At("unstage") /\ Unneeded(cur, "stage")
  /\ IF st.phase[cur] # "Sanitized" \/ host[cur]["stage"] THEN Return ELSE Goto("open")
  /\ Nothing

\* Runner.SQL(OpenSQL), then publish(): the open policy and the Service.
OpenSQL ==
  /\ At("open") /\ host[cur]["final"]
  /\ Nothing /\ Goto("publish")

OpenPolicy ==
  /\ At("publish") /\ policy[cur] = [stage |-> "closed", final |-> "closed"]
  /\ policy' = [policy EXCEPT ![cur]["final"] = "open"]
  /\ Written /\ Stay /\ UNCHANGED <<guest, host, data, boundary, apps, reads>>

Publish ==
  /\ At("publish") /\ policy[cur]["final"] = "open"
  /\ Ensure("service")

Published ==
  /\ At("publish") /\ policy[cur]["final"] = "open" /\ Ensured("service")
  /\ SetPhase("Ready") /\ Goto("next")

\* The next copy; after the last one the engine applies the plan.
NextCopy ==
  /\ At("next") /\ cur < Copies
  /\ pc' = "begin" /\ cur' = cur + 1 /\ Nothing

Apply ==
  /\ At("next") /\ cur = Copies
  /\ apps' = "running" /\ Return
  /\ Written /\ UNCHANGED <<guest, host, data, policy, boundary, reads>>

Prepare ==
  \/ Reconcile \/ Intend \/ IntendBoundary \/ Bounded \/ Interrupted \/ Resume \/ Verified
  \/ \E b \in Boundary : CreateBoundary(b) \/ RecordBoundary(b)
  \/ \E r \in Roles : EnsurePolicy(r)
  \/ \E n \in 1 .. 4 : EnsureResource(n)
  \/ Isolated \/ BeginCopy \/ Capture \/ Mask \/ Copy \/ Sanitized \/ Unstage \/ Unstaged
  \/ OpenSQL \/ OpenPolicy \/ Publish \/ Published \/ NextCopy \/ Apply \/ Refuse
-----------------------------------------------------------------------------
\* The engine's cleanup: Cleanup(), the guest, the runtime, CleanupIsolation().

BeginCleanup ==
  /\ At("idle") /\ over
  /\ Nothing /\ Goto(IF st.cleaned THEN "teardown" ELSE "clean")

\* The newest object of the copy goes first.
CleanObject(n) ==
  /\ At("clean") /\ ~Unneeded(cur, Order[n])
  /\ \A m \in n + 1 .. Len(Order) : Unneeded(cur, Order[m])
  /\ Remove(cur, Order[n])

Emptied == At("clean") /\ \A o \in Objects : Unneeded(cur, o)

HostPodsGone == \A r \in Roles : ~host[cur][r]

AwaitHost ==
  /\ Emptied /\ ~HostPodsGone
  /\ Nothing /\ Return

\* cleanupHostPolicies()
CleanPolicy(r) ==
  /\ Emptied /\ HostPodsGone /\ st.policy[cur][r] \notin {"none", "deleted"}
  /\ r = "final" => st.policy[cur]["stage"] \in {"none", "deleted"}
  /\ IF policy[cur][r] # "none"
     THEN /\ policy' = [policy EXCEPT ![cur][r] = "none"] /\ Return
          /\ Written /\ UNCHANGED <<guest, host, data, boundary, apps, reads>>
     ELSE SetPolicy(r, "deleted") /\ Stay

\* After the last copy the applications are deleted from the guest.
Cleaned ==
  /\ Emptied /\ HostPodsGone /\ \A r \in Roles : st.policy[cur][r] \in {"none", "deleted"}
  /\ IF cur < Copies THEN cur' = cur + 1 /\ Nothing /\ UNCHANGED pc
     ELSE /\ st' = [st EXCEPT !.cleaned = TRUE] /\ Goto("teardown")
          /\ apps' = IF apps = "running" THEN "stopping" ELSE apps
          /\ Outside /\ UNCHANGED <<guest, host, data, policy, boundary, reads>>

\* Mutant: the applications' host Pods are not waited for.
StoppedGuest ==
  \/ st.boundary["deny"] = "none"
  \/ apps # "running" /\ \A d \in DBs, r \in Roles : ~host[d][r]

\* CleanupIsolation()
Stopped ==
  \/ st.boundary["deny"] = "none"
  \/ apps = "none" /\ \A d \in DBs, r \in Roles : ~host[d][r]

AwaitApps ==
  /\ At("teardown") /\ ~Stopped
  /\ Nothing /\ Return

CleanBoundary(b) ==
  /\ At("teardown") /\ Stopped /\ st.boundary[b] \notin {"none", "deleted"}
  /\ b = "apps" => st.boundary["deny"] = "deleted"
  /\ IF b \in boundary
     THEN /\ boundary' = boundary \ {b} /\ Return
          /\ Written /\ UNCHANGED <<guest, host, data, policy, apps, reads>>
     ELSE Save([st EXCEPT !.boundary[b] = "deleted"]) /\ Stay

Forget ==
  /\ At("teardown") /\ Stopped
  /\ \A b \in Boundary : st.boundary[b] \in {"none", "deleted"}
  /\ Save([st EXCEPT !.exists = FALSE]) /\ Return

Cleanup ==
  \/ BeginCleanup \/ AwaitHost \/ Cleaned \/ AwaitApps \/ Forget
  \/ \E n \in DOMAIN Order : CleanObject(n)
  \/ \E r \in Roles : CleanPolicy(r)
  \/ \E b \in Boundary : CleanBoundary(b)

Next == Users \/ VCluster \/ Prepare \/ Cleanup \/ Crash

\* The controller requeues, vCluster removes what the guest no longer has.
Spec == Init /\ [][Next]_vars /\ WF_vars(Prepare \/ Cleanup) /\ WF_vars(VCluster)
-----------------------------------------------------------------------------
\* Properties.

\* Unmasked data is only ever in a staging Pod, and while such a Pod runs on the
\* host, which may be long after the guest has forgotten it, both database
\* policies are closed, the application boundary stands and the copy is not
\* published: controller.go:106-204, isolation.go:182-203.
RawPrivate ==
  \A d \in DBs :
    /\ data[d]["final"] # "raw"
    /\ data[d]["stage"] # "empty" =>
         /\ policy[d] = [stage |-> "closed", final |-> "closed"]
         /\ "deny" \in boundary /\ guest[d]["service"] # "own"

\* The source is read at most once for a copy, in spite of crashes, failed saves
\* and lost answers: Copying is saved first and never left for Preparing.
CapturedOnce == TypeOK /\ \A d \in DBs : reads[d] <= 1

\* Applications run only next to copies that were really taken, and neither they
\* nor filled databases are on the host without the policies that isolate them,
\* in whatever order guest and host Pods go: application_isolation.go.
IsolationOutlivesPods ==
  /\ apps # "none" => boundary = Boundary /\ \A d \in DBs : reads[d] = 1
  /\ \A d \in DBs : data[d]["final"] # "empty" => policy[d]["final"] # "none" /\ "deny" \in boundary

Clean ==
  /\ boundary = {} /\ apps = "none"
  /\ \A d \in DBs :
       /\ \A r \in Roles : policy[d][r] = "none" /\ data[d][r] = "empty"
       /\ \A o \in Objects : guest[d][o] # "own"

\* Wherever the preparation stood, cleanup ends and leaves nothing of it, unless
\* somebody has taken the name of an object, which is preserved and reported.
DatabaseCleanupEnds ==
  over ~> (~st.exists /\ Clean) \/ \E d \in DBs, o \in Objects : guest[d][o] = "other"
===============================================================================
