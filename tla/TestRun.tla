------------------------------- MODULE TestRun --------------------------------
(***************************************************************************)
(* internal/testrun: one `replicove run` with the session of Access, the   *)
(* replica or mirror it asks for, an optional experiment and the engine's  *)
(* cleanup of the replica.  The runner is a process outside the cluster:   *)
(* it creates, waits and, when its command has ended or anything went      *)
(* wrong, takes everything back in the opposite order.                     *)
(*                                                                         *)
(* Every wait of the runner may end at its deadline; the time to live of   *)
(* the request is what remains when the runner is killed.  The lease is    *)
(* that of Mirror, the experiment that of Chaos, the teardown of the       *)
(* replica that of Lifecycle, each by the promise shown there: where Chaos *)
(* promises no end, of a rollback that others stand in the way of and of a *)
(* record without its request, there is none here either.                  *)
(***************************************************************************)
EXTENDS Access

CONSTANT MaxChanges   \* bound on what others do to the replica and its lease

ASSUME ConstantsAssumption == MaxFaults \in Nat /\ MaxChanges \in Nat

VARIABLES
  recipe,      \* what was asked for
  req,         \* the request: a ClusterReplica or a ReplicaMirror
  hold,        \* who holds the mirror's lease
  exp,         \* the ReplicaExperiment
  effect,      \* its faults: none, in the guest, or changed there by others
  revised,     \* the replica has another plan than the runner saw
  run,         \* the runner: what it does, and what it knows it has created
  cmd, guard,  \* the test command and the watch over its environment
  report, changes

others == <<recipe, changes>>
runner == <<run, cmd, guard, report>>
cluster == <<req, hold, exp, effect, revised>>
vars == <<replica, withdrawn, access, faults, others, cluster, runner>>

\* "maybe": the answer to the creation was lost, the UID is not known.
Known == {"no", "maybe", "uid"}

TypeOK ==
  /\ AccessType /\ withdrawn \in BOOLEAN /\ faults \in 0 .. MaxFaults
  /\ replica \in {"none", "ready", "inactive", "ending", "gone"}
  /\ recipe \in [mirror : BOOLEAN, chaos : BOOLEAN]
  /\ req \in {"none", "live", "deleting", "gone"} /\ hold \in {"none", "run", "other"}
  /\ exp \in {"none", "new", "intended", "Refused", "Preparing", "Active", "Blocked",
             "Completed", "Failed", "deleting", "gone", "orphaned"}
  /\ effect \in {"none", "active", "blocked"} /\ revised \in BOOLEAN
  /\ run \in [pc : {"create", "replica", "lease", "access", "credential", "session", "chaos",
                    "faults", "stable", "test", "close", "rollback", "revoke", "release",
                    "retain", "delete", "done", "killed"},
              exp : Known, access : Known, lease : BOOLEAN, session : BOOLEAN]
  /\ cmd \in {"none", "running", "passed", "failed", "stopped"}
  /\ guard \in {"off", "on", "fired"}
  /\ report \in [setup : {"Failed", "Passed"},
                 test : {"NotRun", "Passed", "Failed", "Interrupted"},
                 cleanup : {"NotNeeded", "Verified", "Unverified", "Retained"}]
  /\ changes \in 0 .. MaxChanges

Init ==
  /\ AccessInit /\ replica = "none"
  /\ recipe \in [mirror : BOOLEAN, chaos : BOOLEAN]
  /\ req = "none" /\ hold = "none" /\ exp = "none" /\ effect = "none" /\ revised = FALSE
  /\ run = [pc |-> "create", exp |-> "no", access |-> "no", lease |-> FALSE,
            session |-> FALSE]
  /\ cmd = "none" /\ guard = "off" /\ changes = 0
  /\ report = [setup |-> "Failed", test |-> "NotRun", cleanup |-> "NotNeeded"]
-----------------------------------------------------------------------------
\* Others.

Change ==
  /\ changes < MaxChanges /\ changes' = changes + 1
  /\ \/ /\ replica = "ready" /\ revised' = TRUE       \* a refresh
        /\ UNCHANGED <<replica, req, hold, withdrawn, effect>>
     \/ /\ recipe.mirror /\ replica = "ready"          \* a forced reset
        /\ replica' \in {"inactive", "ending"}
        /\ UNCHANGED <<revised, req, hold, withdrawn, effect>>
     \/ /\ req = "live" /\ req' = "deleting"
        /\ UNCHANGED <<revised, replica, hold, withdrawn, effect>>
     \/ /\ recipe.mirror /\ req = "live" /\ hold' \in {"none", "other"} \ {hold}
        /\ UNCHANGED <<revised, replica, req, withdrawn, effect>>
     \/ /\ ~withdrawn /\ acc.state = "live" /\ withdrawn' = TRUE
        /\ UNCHANGED <<revised, replica, req, hold, effect>>
     \/ /\ effect # "none" /\ effect' \in {"active", "blocked"} \ {effect}
        /\ UNCHANGED <<revised, replica, req, hold, withdrawn>>
  /\ UNCHANGED <<access, faults, recipe, exp, runner>>

Rest == UNCHANGED <<withdrawn, faults, others, hold, revised, runner>>

\* The time to live ends the replica, not the request; a mirror retires the
\* generation it has replaced.
Expire ==
  /\ req = "live" /\ replica \in {"none", "ready", "inactive"} /\ replica' = "ending"
  /\ Rest /\ UNCHANGED <<req, access, exp, effect>>

\* The engine reports the replica Ready, the mirror activates it.
Provision ==
  /\ req = "live" /\ replica = "none" /\ replica' = "ready"
  /\ Rest /\ UNCHANGED <<req, access, exp, effect>>

\* The chaos controller: its record, its finalizer, then the faults; and the
\* rollback, which leaves a target that others have changed alone.
Experiment ==
  /\ \/ exp = "new" /\ replica = "ready" /\ exp' = "intended" /\ UNCHANGED effect
     \/ exp \in {"new", "intended"} /\ exp' = "Refused" /\ UNCHANGED effect
     \/ exp = "intended" /\ exp' = "Preparing" /\ UNCHANGED effect
     \/ /\ exp = "Preparing" /\ effect # "blocked"
        /\ exp' \in {"Preparing", "Active"} /\ effect' = "active"
     \/ /\ exp \in {"Preparing", "Active"} /\ effect = "blocked"
        /\ exp' = "Blocked" /\ UNCHANGED effect
     \/ /\ exp \in {"Preparing", "Active", "Blocked"} /\ effect # "blocked"
        /\ exp' \in {"Completed", "Failed"} /\ effect' = "none"
        /\ exp = "Preparing" => exp' = "Failed"
     \/ /\ exp = "deleting" /\ effect # "blocked"
        /\ exp' = "gone" /\ effect' = "none"
  /\ Rest /\ UNCHANGED <<replica, req, access>>

\* The deletion of an experiment by anyone.  Before its finalizer it goes at
\* once, and leaves behind what its record intends.
StopExperiment ==
  /\ exp \notin {"none", "deleting", "gone", "orphaned"}
  /\ exp' = CASE exp \in {"new", "Refused"} -> "gone"
              [] exp = "intended" -> "orphaned"
              [] OTHER -> "deleting"

\* The engine's cleanup: experiments, sessions, then the guest and runtime.  It
\* does not get past the record of an orphaned experiment.
Teardown ==
  /\ \/ /\ req = "deleting" /\ replica \in {"none", "ready", "inactive"}
        /\ replica' = "ending" /\ UNCHANGED <<req, exp, acc>>
     \/ /\ replica = "ending" /\ StopExperiment /\ UNCHANGED <<replica, req, acc>>
     \/ /\ replica = "ending" /\ exp \in {"none", "gone"} /\ acc.state = "live"
        /\ DeleteAccess /\ UNCHANGED <<replica, req, exp>>
     \/ /\ replica = "ending" /\ exp \in {"none", "gone"} /\ acc.state \in {"none", "gone"}
        /\ replica' = "gone" /\ UNCHANGED <<req, exp, acc>>
     \/ /\ req = "deleting" /\ replica = "gone"
        /\ req' = "gone" /\ UNCHANGED <<replica, exp, acc>>
  /\ Rest /\ UNCHANGED <<arec, live, apc, effect>>
-----------------------------------------------------------------------------
\* Run: setup.

Doing(part) == run.pc = part
Then(part) == run' = [run EXCEPT !.pc = part]
World == UNCHANGED <<replica, withdrawn, arec, live, apc, others, effect>>
Only(r) == run' = r /\ World /\ UNCHANGED <<acc, faults, cluster>>

\* The answer to a request of the runner arrives, or is lost with or without
\* effect.
Answered == UNCHANGED faults
Lost == OneFault

CreateRequest ==
  /\ Doing("create")
  /\ \/ Answered /\ req' = "live" /\ Then("replica") /\ UNCHANGED report
     \/ Answered /\ UNCHANGED <<req, report>> /\ Then("done")     \* refused
     \/ /\ Lost /\ req' \in {"none", "live"} /\ Then("done")
        /\ report' = [report EXCEPT !.cleanup = "Unverified"]
  /\ World /\ UNCHANGED <<acc, hold, exp, revised, cmd, guard>>

WaitReplica ==
  /\ Doing("replica") /\ req = "live" /\ replica = "ready"
  /\ Then(IF recipe.mirror THEN "lease" ELSE "access") /\ revised' = FALSE
  /\ World /\ UNCHANGED <<acc, faults, req, hold, exp, cmd, guard, report>>

\* holdLease(): once patched, the lease is the runner's to give back.
HoldLease ==
  /\ Doing("lease") /\ req = "live" /\ hold = "none"
  /\ \/ Answered /\ hold' = "run" /\ run' = [run EXCEPT !.lease = TRUE, !.pc = "access"]
     \/ Lost /\ hold' \in {"none", "run"} /\ Then("close")
  /\ World /\ UNCHANGED <<acc, req, exp, revised, cmd, guard, report>>

CreateAccess ==
  /\ Doing("access")
  /\ \/ /\ Answered /\ acc' = [acc EXCEPT !.state = "live"]
        /\ run' = [run EXCEPT !.access = "uid", !.pc = "credential"]
     \/ /\ Lost /\ acc' \in {acc, [acc EXCEPT !.state = "live"]}
        /\ run' = [run EXCEPT !.access = "maybe", !.pc = "close"]
  /\ World /\ UNCHANGED <<cluster, cmd, guard, report>>

WaitAccess ==
  /\ Doing("credential") /\ acc.phase = "Ready" /\ "secret" \in live
  /\ Only([run EXCEPT !.pc = "session"]) /\ UNCHANGED <<cmd, guard, report>>

OpenSession ==
  /\ Doing("session")
  /\ Only([run EXCEPT !.session = TRUE, !.pc = IF recipe.chaos THEN "chaos" ELSE "stable"])
  /\ UNCHANGED <<cmd, guard, report>>

CreateExperiment ==
  /\ Doing("chaos")
  /\ \/ Answered /\ exp' = "new" /\ run' = [run EXCEPT !.exp = "uid", !.pc = "faults"]
     \/ /\ Lost /\ exp' \in {"none", "new"}
        /\ run' = [run EXCEPT !.exp = "maybe", !.pc = "close"]
  /\ World /\ UNCHANGED <<acc, req, hold, revised, cmd, guard, report>>

WaitExperiment ==
  /\ Doing("faults") /\ exp = "Active"
  /\ Only([run EXCEPT !.pc = "stable"]) /\ UNCHANGED <<cmd, guard, report>>

\* A deadline, a refusal, a changed object or a cancelled run.
FailSetup ==
  /\ run.pc \in {"replica", "lease", "access", "credential", "session", "chaos", "faults",
                 "stable"}
  /\ Only([run EXCEPT !.pc = "close"]) /\ UNCHANGED <<cmd, guard, report>>
-----------------------------------------------------------------------------
\* Run: the command.

\* verifyStable()
Stable ==
  /\ replica = "ready" /\ ~revised
  /\ IF recipe.mirror THEN req # "gone" /\ hold = "run" ELSE req = "live"
  /\ run.exp = "uid" => exp \in {"Active", "Completed"}

StartTest ==
  /\ Doing("stable") /\ Stable
  /\ Only([run EXCEPT !.pc = "test"])
  /\ cmd' = "running" /\ guard' = "on" /\ report' = [report EXCEPT !.setup = "Passed"]

Execute ==
  /\ cmd = "running" /\ Doing("test") /\ cmd' \in {"passed", "failed"}
  /\ Only(run) /\ UNCHANGED <<guard, report>>

Guard ==
  /\ Doing("test") /\ guard = "on" /\ ~Stable /\ guard' = "fired"
  /\ Only(run) /\ UNCHANGED <<cmd, report>>

\* The select: any of the channels that are ready.
TestEnds ==
  /\ Doing("test") /\ cmd \in {"passed", "failed"}
  /\ report' = [report EXCEPT !.test = IF cmd = "passed" THEN "Passed" ELSE "Failed"]
  /\ Only([run EXCEPT !.pc = "close"]) /\ guard' = "off" /\ UNCHANGED cmd

\* The guard, a timeout, a cancelled run or the end of the tunnel.
Interrupt ==
  /\ Doing("test")
  /\ report' = [report EXCEPT !.test = "Interrupted"]
  /\ Only([run EXCEPT !.pc = "close"]) /\ guard' = "off"
  /\ cmd' = IF cmd = "running" THEN "stopped" ELSE cmd
-----------------------------------------------------------------------------
\* Run: the deferred cleanup.

Close ==
  /\ Doing("close")
  /\ Only([run EXCEPT !.session = FALSE, !.pc = "rollback"]) /\ UNCHANGED <<cmd, guard, report>>

Reported(outcome) ==
  /\ report' = [report EXCEPT !.cleanup = outcome] /\ Then("done")
  /\ World /\ UNCHANGED <<acc, faults, cluster, cmd, guard>>

\* Without the UID nothing is deleted, and waiting ends with the deadline.
GiveUp ==
  /\ run.pc \in {"rollback", "revoke", "release", "retain", "delete"}
  /\ Reported("Unverified")

Step(part, done, then) ==
  /\ Doing(part) /\ done
  /\ Only([run EXCEPT !.pc = then]) /\ UNCHANGED <<cmd, guard, report>>

\* deleteAndWait(experiment)
DeleteExperiment ==
  /\ Doing("rollback") /\ run.exp = "uid" /\ StopExperiment
  /\ World /\ UNCHANGED <<acc, faults, req, hold, revised, runner>>

\* The request can no longer be found; the runner sees no record.
Removed == exp \in {"gone", "orphaned"}

\* Mutant: the deletion of the experiment is not waited for.
RolledBackRequested ==
  Step("rollback", run.exp = "no" \/ (run.exp = "uid" /\ (exp = "deleting" \/ Removed)), "revoke")

RolledBack == Step("rollback", run.exp = "no" \/ (run.exp = "uid" /\ Removed), "revoke")

\* deleteAndWait(access)
DeleteSession ==
  /\ Doing("revoke") /\ run.access = "uid" /\ acc.state = "live"
  /\ DeleteAccess
  /\ World /\ UNCHANGED <<faults, cluster, runner>>

\* Mutant: the deletion of the session is not waited for.
RevokedRequested ==
  Step("revoke", run.access = "no" \/ (run.access = "uid" /\ acc.state # "live"), "release")

Revoked ==
  Step("revoke", run.access = "no" \/ (run.access = "uid" /\ acc.state = "gone"), "release")

\* releaseLease(): a lease that is another's by now is left alone.
ReleaseLease ==
  /\ Doing("release") /\ run.lease /\ hold = "run" /\ hold' = "none"
  /\ World /\ UNCHANGED <<acc, faults, req, exp, revised, runner>>

Released == Step("release", ~run.lease \/ hold = "none" \/ req = "gone", "retain")

\* Only a failed test is kept, if the recipe says so and the run was not
\* cancelled meanwhile.
Retain ==
  /\ Doing("retain") /\ report.test = "Failed" /\ req \in {"live", "deleting"}
  /\ Reported("Retained")

NoRetention == Step("retain", TRUE, "delete")

DeleteRequest ==
  /\ Doing("delete") /\ req = "live" /\ req' = "deleting"
  /\ World /\ UNCHANGED <<acc, faults, hold, exp, revised, runner>>

Deleted == Doing("delete") /\ req = "gone" /\ Reported("Verified")

\* The process is lost with its tunnel and command.
Kill ==
  /\ run.pc \notin {"done", "killed"} /\ OneFault
  /\ run' = [run EXCEPT !.pc = "killed", !.session = FALSE] /\ guard' = "off"
  /\ World /\ UNCHANGED <<acc, cluster, cmd, report>>

Run ==
  \/ CreateRequest \/ WaitReplica \/ HoldLease \/ CreateAccess \/ WaitAccess \/ OpenSession
  \/ CreateExperiment \/ WaitExperiment \/ FailSetup
  \/ StartTest \/ Execute \/ Guard \/ TestEnds \/ Interrupt
  \/ Close \/ GiveUp \/ DeleteExperiment \/ RolledBack \/ DeleteSession \/ Revoked
  \/ ReleaseLease \/ Released \/ Retain \/ NoRetention \/ DeleteRequest \/ Deleted

Session == AccessWorker /\ UNCHANGED <<others, cluster, runner>>

Next ==
  \/ Change \/ Expire \/ Provision \/ Experiment \/ Teardown \/ Run \/ Kill \/ Session
  \/ AccessFails /\ UNCHANGED <<others, cluster, runner>>

\* Time passes and controllers requeue.  Nothing is expected of the runner.
Fairness ==
  /\ WF_vars(Expire) /\ WF_vars(Experiment) /\ WF_vars(Teardown) /\ WF_vars(Session)

Spec == Init /\ [][Next]_vars /\ Fairness
-----------------------------------------------------------------------------
\* Properties.

Clean ==
  /\ live = {} /\ acc.state \in {"none", "gone"}
  /\ effect = "none" /\ (exp = "none" \/ Removed)

\* The report of runner.go:118-171 tells the truth: Verified is said only when
\* request, session and experiment have been removed, Retained only when the
\* session is revoked, its tunnel closed, the faults rolled back and the lease
\* given back, whatever was interrupted or changed by others on the way.
VerifiedMeansGone ==
  /\ TypeOK
  /\ report.cleanup = "Verified" => Clean /\ req = "gone" /\ exp # "orphaned"
  /\ report.cleanup = "Retained" => Clean /\ ~run.session /\ hold # "run"

\* The order of runner.go:116-117 in spite of three parties that take things
\* back: credentials go before the faults are rolled back only if the grant or
\* the replica is at its end, or a failed read of one of them was taken for that
\* (access.go:56, 93); the guest goes after both, and the runner gives its lease
\* back when no credential for that generation is left.
TeardownOrder ==
  [][/\ ~(live \subseteq live')
          => \/ effect = "none" \/ withdrawn \/ replica \in {"inactive", "ending"}
             \/ arec.misread
     /\ replica # "gone" /\ replica' = "gone" => live = {} /\ effect = "none"
     /\ run.lease /\ hold = "run" /\ hold' = "none" /\ changes' = changes
          => live = {}]_vars

\* What the engine's cleanup waits for without end: a session that lost its
\* record (access.go:48-50) and an experiment whose record has lost its request
\* (chaos/controller.go:277) for good, and a rollback that others stand in the
\* way of until they give way (docs/guides/chaos.md:103).
HeldUp == Stranded \/ exp = "orphaned" \/ effect = "blocked"

\* Whatever becomes of the runner, credentials end (access.go:52-67), and the
\* time to live ends replica and faults with them unless cleanup is held up.
SessionEnds ==
  /\ (live # {}) ~> (live = {})
  /\ (req = "live") ~> (replica = "gone" /\ live = {} /\ effect = "none") \/ HeldUp
===============================================================================
