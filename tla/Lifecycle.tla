------------------------------ MODULE Lifecycle ------------------------------
(***************************************************************************)
(* internal/workflow/engine.go: the life of one ClusterReplica, from its   *)
(* finalizer and its encrypted record to the removal of both.              *)
(*                                                                         *)
(* One worker reconciles the request.  A reconcile works on the copy `o`   *)
(* of the request it was given, on the record `s` it loaded and on the     *)
(* clock it read; every call that changes something is a step of its own,  *)
(* and the operator may crash, be refused or lose the answer at each one.  *)
(* The request comes from the manager's informer cache, the record from    *)
(* the API server (cmd/operator/main.go:78-91); with CacheLag the two may  *)
(* be of different ages.                                                   *)
(*                                                                         *)
(* Left to other modules: the ledger (Capacity; here `reserved` is this    *)
(* replica's entry), the guest inventory (Inventory; here `guest` is the   *)
(* plan whose objects the guest holds), and the accesses and experiments   *)
(* (here `session` stands for those that name this replica).               *)
(***************************************************************************)
EXTENDS Naturals

CONSTANTS
  Managed,      \* the provider is "helm", rather than an existing target
  Manual,       \* spec.approval is "Manual"
  CacheLag,     \* the informer cache may lag behind the API server
  LoadFailures, \* a read of the record may fail
  LostReplies,  \* the calls that may take effect and still return an error
  MaxPlans,     \* bound on captures
  MaxRefresh,   \* bound on the values of the refresh annotation
  MaxFaults     \* bound on crashes and failed calls

Calls == {"save", "status", "acquire", "ensure", "apply", "release", "delete"}

ASSUME ConstantsAssumption ==
  /\ Managed \in BOOLEAN /\ Manual \in BOOLEAN /\ CacheLag \in BOOLEAN
  /\ LoadFailures \in BOOLEAN /\ LostReplies \subseteq Calls
  /\ MaxPlans \in Nat /\ MaxRefresh \in Nat /\ MaxFaults \in Nat

VARIABLES
  api,        \* the ClusterReplica in the API server
  cache,      \* the operator's informer copy of it
  record,     \* the encrypted state.State of this owner UID
  reserved,   \* the capacity ledger holds a reservation of this replica
  runtime,    \* the managed vCluster release is on the host
  guest,      \* the plan whose objects are in the guest, 0 for none
  session,    \* an access or experiment naming this replica
  expired,    \* creation time plus TTL has passed
  captures,   \* captures so far: the next plan revision
  approvals,  \* the plan revisions a user has ever approved
  faults,     \* crashes and failed calls so far
  pc,         \* where the reconcile is
  o,          \* the reconcile's copy of the request
  s,          \* the reconcile's copy of the record
  rep         \* the phase to report

outside == <<session, expired, approvals>>
effects == <<record, reserved, runtime, guest, captures>>
vars == <<api, cache, record, reserved, runtime, guest, session, expired,
          captures, approvals, faults, pc, o, s, rep>>

Plans == 0 .. MaxPlans

\* Only Expired and Cleaned are read back by the code.  Of the others some stand
\* for several: Blocked for Rejected and Preparing, Replicating for Refreshing,
\* Restoring and PreparingData, Ready for Verifying.
Phases == {"", "Blocked", "AwaitingApproval", "Queued", "Provisioning",
           "Connecting", "Replicating", "Ready", "Deleting", "Cleaned",
           "Expired"}

Terminal == {"Expired", "Cleaned"}

Requests ==
  [exists : BOOLEAN, deleting : BOOLEAN, finalizer : BOOLEAN, phase : Phases,
   runtime : BOOLEAN,        \* Status.Runtime is set
   shown : Plans,            \* Status.Plan.Revision
   approved : Plans,         \* the approved-plan annotation
   token : 0 .. MaxRefresh]  \* the refresh annotation

Records ==
  [exists : BOOLEAN, plan : Plans, token : 0 .. MaxRefresh, applied : Plans,
   pinned : BOOLEAN,         \* RuntimeWorkloadUID and RuntimeRootUID
   entries : BOOLEAN,        \* some Entry is not Deleted
   cleanup : BOOLEAN,        \* CleanupStarted
   guestCleaned : BOOLEAN]

NewRequest ==
  [exists |-> TRUE, deleting |-> FALSE, finalizer |-> FALSE, phase |-> "",
   runtime |-> FALSE, shown |-> 0, approved |-> 0, token |-> 0]

NoRequest == [NewRequest EXCEPT !.exists = FALSE]

NewRecord ==
  [exists |-> TRUE, plan |-> 0, token |-> 0, applied |-> 0, pinned |-> FALSE,
   entries |-> FALSE, cleanup |-> FALSE, guestCleaned |-> FALSE]

NoRecord == [NewRecord EXCEPT !.exists = FALSE]

Steps == {"idle", "finalizer", "create", "capture", "status", "approval",
          "acquire", "ensure", "pin", "connect", "intend", "apply", "applied",
          "report", "cleanup", "sessions", "entries", "guestCleaned",
          "uninstall", "terminal", "release", "delete", "finish"}

TypeOK ==
  /\ api \in Requests /\ cache \in Requests /\ o \in Requests
  /\ record \in Records /\ s \in Records
  /\ reserved \in BOOLEAN /\ runtime \in BOOLEAN /\ guest \in Plans
  /\ session \in {"none", "open", "closed"}
  /\ expired \in BOOLEAN
  /\ captures \in Plans /\ approvals \subseteq Plans
  /\ faults \in 0 .. MaxFaults
  /\ pc \in Steps /\ rep \in Phases

Init ==
  /\ api = NewRequest /\ cache = NewRequest
  /\ record = NoRecord
  /\ reserved = FALSE /\ runtime = FALSE /\ guest = 0
  /\ session = "none" /\ expired = FALSE
  /\ captures = 0 /\ approvals = {}
  /\ faults = 0
  /\ pc = "idle" /\ o = NoRequest /\ s = NoRecord /\ rep = ""

-----------------------------------------------------------------------------
\* The request in the API server.  `new` is its next value; the cache follows
\* at once, or later by Sync.

SetRequest(new) ==
  /\ api' = new
  /\ cache' = IF CacheLag THEN cache ELSE new

\* A request marked for deletion disappears with its last finalizer.
Stored(new) == IF new.deleting /\ ~new.finalizer THEN NoRequest ELSE new

Sync ==
  /\ cache # api
  /\ cache' = api
  /\ UNCHANGED <<api, effects, outside, faults, pc, o, s, rep>>

\* The user and the clock.

Delete ==
  /\ api.exists /\ ~api.deleting
  /\ SetRequest(Stored([api EXCEPT !.deleting = TRUE]))
  /\ UNCHANGED <<effects, outside, faults, pc, o, s, rep>>

Refresh ==
  /\ api.exists /\ api.token < MaxRefresh
  /\ SetRequest([api EXCEPT !.token = @ + 1])
  /\ UNCHANGED <<effects, outside, faults, pc, o, s, rep>>

Approve ==
  /\ Manual /\ api.exists /\ api.shown # api.approved
  /\ SetRequest([api EXCEPT !.approved = api.shown])
  /\ approvals' = approvals \cup {api.shown}
  /\ UNCHANGED <<effects, session, expired, faults, pc, o, s, rep>>

Expire ==
  /\ ~expired
  /\ expired' = TRUE
  /\ UNCHANGED <<api, cache, effects, session, approvals, faults, pc, o, s, rep>>

\* An access or experiment names the replica; its own controller removes it,
\* asked to by cleanup.
OpenSession ==
  /\ session = "none" /\ api.exists
  /\ session' = "open"
  /\ UNCHANGED <<api, cache, effects, expired, approvals, faults, pc, o, s, rep>>

CloseSession ==
  /\ session = "open" /\ record.cleanup
  /\ session' = "closed"
  /\ UNCHANGED <<api, cache, effects, expired, approvals, faults, pc, o, s, rep>>

User == Delete \/ Refresh \/ Approve \/ Expire \/ OpenSession

-----------------------------------------------------------------------------
\* Control of a reconcile.

\* The reconcile returns; its local values are gone.
Return ==
  /\ pc' = "idle" /\ o' = NoRequest /\ s' = NoRecord /\ rep' = ""

Goto(step) == pc' = step /\ UNCHANGED <<o, s, rep>>

\* return w.report(ctx, obj, phase, ...)
Report(phase) == pc' = "report" /\ rep' = phase /\ UNCHANGED <<o, s>>

Fault == faults < MaxFaults /\ faults' = faults + 1

\* How a call that has taken effect ends: with `next`, or as an error with
\* `error` when its answer is lost.
Outcome(call, next, error) ==
  \/ next /\ UNCHANGED faults
  \/ call \in LostReplies /\ error /\ Fault

\* The call named has no effect and returns an error.
Refuse(step, error) ==
  /\ pc = step
  /\ Fault
  /\ error
  /\ UNCHANGED <<api, cache, effects, outside>>

\* Store.Save of the record; a failed save reports `phase`.
Save(step, new, next, phase) ==
  /\ pc = step
  /\ record' = new
  /\ Outcome("save", pc' = next /\ s' = new /\ UNCHANGED <<o, rep>>,
                     Report(phase))
  /\ UNCHANGED <<api, cache, reserved, runtime, guest, captures, outside>>

\* The request after a patch of its phase, computed from the copy: the field
\* is sent only where it differs from `o`, and the answer replaces `o`.
Patched(phase) ==
  IF o.phase = phase THEN api ELSE [api EXCEPT !.phase = phase]

Crash ==
  /\ pc # "idle"
  /\ Fault
  /\ Return
  /\ UNCHANGED <<api, cache, effects, outside>>

-----------------------------------------------------------------------------
\* Engine.Reconcile: load, then route.

AfterRecord(ob, st) ==
  IF st.plan = 0 \/ ob.token # st.token THEN "capture" ELSE "status"

\* Mutant: a cleanup that has started is taken for done.
RouteOnce(ob, st) ==
  IF ob.phase = "Expired" /\ ~ob.deleting /\ ~st.exists THEN "idle"
  ELSE IF ob.deleting \/ (expired /\ ~st.cleanup) THEN "cleanup"
  ELSE IF ~ob.finalizer THEN "finalizer"
  ELSE IF st.exists THEN AfterRecord(ob, st)
  ELSE IF ob.runtime THEN "report" ELSE "create"

\* Mutant: the TTL is not checked.
RouteNoTTL(ob, st) ==
  IF ob.phase = "Expired" /\ ~ob.deleting /\ ~st.exists THEN "idle"
  ELSE IF ob.deleting THEN "cleanup"
  ELSE IF ~ob.finalizer THEN "finalizer"
  ELSE IF st.exists THEN AfterRecord(ob, st)
  ELSE IF ob.runtime THEN "report" ELSE "create"

Route(ob, st) ==
  IF ob.phase = "Expired" /\ ~ob.deleting /\ ~st.exists THEN "idle"
  ELSE IF ob.deleting \/ expired THEN "cleanup"
  ELSE IF ~ob.finalizer THEN "finalizer"
  ELSE IF st.exists THEN AfterRecord(ob, st)
  ELSE IF ob.runtime THEN "report" ELSE "create"

Reconcile ==
  /\ pc = "idle" /\ cache.exists
  /\ LET next == Route(cache, record) IN
       /\ next # "idle"
       /\ pc' = next
       /\ o' = cache /\ s' = record
       /\ rep' = IF next = "report" THEN "Blocked" ELSE ""
  /\ UNCHANGED <<api, cache, effects, outside, faults>>

\* Store.Load comes first, for requests in any phase.
LoadFails ==
  /\ LoadFailures
  /\ pc = "idle" /\ cache.exists
  /\ Fault
  /\ pc' = "report" /\ rep' = "Blocked" /\ o' = cache /\ s' = NoRecord
  /\ UNCHANGED <<api, cache, effects, outside>>

\* The grant is absent, changed or too narrow, or a module is disabled.
Denied ==
  /\ pc \in {"finalizer", "create", "capture", "status"}
  /\ Fault
  /\ Report("Blocked")
  /\ UNCHANGED <<api, cache, effects, outside>>

AddFinalizer ==
  /\ pc = "finalizer"
  /\ IF api.exists /\ ~api.deleting
       THEN SetRequest([api EXCEPT !.finalizer = TRUE])
       ELSE UNCHANGED <<api, cache>>
  /\ Return
  /\ UNCHANGED <<effects, outside, faults>>

CreateRecord == Save("create", NewRecord, "capture", "Blocked")

\* Capture reads the source, the keyed revision is new with every capture, and
\* the plan is saved with the annotation that asked for it.
Capture ==
  /\ pc = "capture" /\ captures < MaxPlans
  /\ captures' = captures + 1
  /\ LET new == [s EXCEPT !.plan = captures', !.token = o.token] IN
       /\ record' = new
       /\ Outcome("save", pc' = "status" /\ s' = new /\ UNCHANGED <<o, rep>>,
                          Report("Blocked"))
  /\ UNCHANGED <<api, cache, reserved, runtime, guest, outside>>

\* Status.Runtime and Status.Plan are persisted before any side effect.
PatchStatus ==
  /\ pc = "status"
  /\ LET same == o.shown = s.plan /\ (Managed => o.runtime)
         new == [api EXCEPT !.shown = IF o.shown = s.plan THEN @ ELSE s.plan,
                            !.runtime = @ \/ Managed] IN
       IF same THEN Goto("approval") /\ UNCHANGED <<api, cache, faults>>
       ELSE IF ~api.exists THEN Return /\ UNCHANGED <<api, cache, faults>>
       ELSE /\ SetRequest(new)
            /\ Outcome("status", pc' = "approval" /\ o' = new /\ UNCHANGED <<s, rep>>,
                                 Return)
  /\ UNCHANGED <<effects, outside>>

Approval ==
  /\ pc = "approval"
  /\ IF Manual /\ o.approved # s.plan THEN Report("AwaitingApproval")
                                      ELSE Goto("acquire")
  /\ UNCHANGED <<api, cache, effects, outside, faults>>

\* capacity.Acquire: refused while others hold the slot or the grant's share.
Acquire ==
  /\ pc = "acquire"
  /\ \/ /\ reserved' = TRUE
        /\ Outcome("acquire", Goto(IF Managed THEN "ensure" ELSE "connect"),
                              Report("Queued"))
     \/ ~reserved /\ Report("Queued") /\ UNCHANGED <<reserved, faults>>
  /\ UNCHANGED <<api, cache, record, runtime, guest, captures, outside>>

\* Runtime.Ensure installs the release and returns; a later reconcile observes
\* it, ready or not.
Ensure ==
  /\ pc = "ensure"
  /\ runtime' = TRUE
  /\ IF runtime
       THEN (Goto("pin") \/ Report("Provisioning")) /\ UNCHANGED faults
       ELSE Outcome("ensure", Report("Provisioning"), Report("Blocked"))
  /\ UNCHANGED <<api, cache, record, reserved, guest, captures, outside>>

\* The workload and Service UIDs are recorded once.
Pin ==
  IF s.pinned
    THEN pc = "pin" /\ Goto("connect")
         /\ UNCHANGED <<api, cache, effects, outside, faults>>
    ELSE Save("pin", [s EXCEPT !.pinned = TRUE], "connect", "Blocked")

\* target.Connect; a plan already applied needs no more writes.
Connect ==
  /\ pc = "connect"
  /\ Goto(IF s.applied = s.plan THEN "applied" ELSE "intend")
  /\ UNCHANGED <<api, cache, effects, outside, faults>>

\* The guest cannot be reached, or an entry cannot be read or deleted.
Unreachable ==
  /\ pc = "connect" \/ (pc = "entries" /\ s.entries)
  /\ Fault
  /\ Report(IF pc = "connect" THEN "Connecting" ELSE "Deleting")
  /\ UNCHANGED <<api, cache, effects, outside>>

\* Entries are saved before the objects they describe are created.
Intend == Save("intend", [s EXCEPT !.entries = TRUE], "apply", "Blocked")

\* Prune and apply; an object that waits for a dependency ends the reconcile
\* with part of the plan in place.
Apply ==
  /\ pc = "apply"
  /\ guest' = s.plan
  /\ Outcome("apply", Goto("applied") \/ Report("Replicating"),
                      Report("Blocked"))
  /\ UNCHANGED <<api, cache, record, reserved, runtime, captures, outside>>

Applied ==
  IF s.applied = s.plan
    THEN pc = "applied" /\ Report("Ready")
         /\ UNCHANGED <<api, cache, effects, outside, faults>>
    ELSE Save("applied", [s EXCEPT !.applied = s.plan], "applied", "Blocked")

\* w.report: patch the phase, then requeue.
PatchPhase ==
  /\ pc = "report"
  /\ IF api.exists THEN SetRequest(Patched(rep))
                   ELSE UNCHANGED <<api, cache>>
  /\ Return
  /\ UNCHANGED <<effects, outside, faults>>

-----------------------------------------------------------------------------
\* Engine.cleanup.

\* Mutant: of the terminal phases only Expired is known.
CleanupExpiredOnly ==
  IF ~s.exists
    THEN /\ pc = "cleanup"
         /\ IF o.runtime /\ o.phase # "Expired"
              THEN Report("Blocked") ELSE Goto("finish")
         /\ UNCHANGED <<api, cache, effects, outside, faults>>
    ELSE Save("cleanup", [s EXCEPT !.cleanup = TRUE], "sessions", "Deleting")

\* Without its record a request that had a runtime and no terminal phase is
\* blocked: the record may be lost rather than removed.
Cleanup ==
  IF ~s.exists
    THEN /\ pc = "cleanup"
         /\ IF o.runtime /\ o.phase \notin Terminal
              THEN Report("Blocked") ELSE Goto("finish")
         /\ UNCHANGED <<api, cache, effects, outside, faults>>
    ELSE IF s.cleanup
      THEN pc = "cleanup" /\ Goto("sessions")
           /\ UNCHANGED <<api, cache, effects, outside, faults>>
      ELSE Save("cleanup", [s EXCEPT !.cleanup = TRUE], "sessions", "Deleting")

\* Experiments and accesses go first; inventoryHost runs before anything else
\* is removed.
SettleSessions ==
  /\ pc = "sessions"
  /\ IF session = "open" THEN Report("Deleting")
     ELSE Goto(IF s.guestCleaned THEN "uninstall" ELSE "entries")
  /\ UNCHANGED <<api, cache, effects, outside, faults>>

\* Mutant: a deletion that was asked for counts as done.
CleanGuestNoWait ==
  /\ pc = "entries"
  /\ Goto("guestCleaned")
  /\ UNCHANGED <<api, cache, effects, outside, faults>>

\* cleanupGuestEntries, in reverse order; GuestCleaned is saved when all are
\* verified gone.
CleanGuest ==
  /\ pc = "entries"
  /\ \/ guest' = 0 /\ Goto("guestCleaned")
     \/ guest # 0 /\ UNCHANGED guest /\ Report("Deleting")
  /\ UNCHANGED <<api, cache, record, reserved, runtime, captures, outside, faults>>

SaveGuestCleaned ==
  Save("guestCleaned", [s EXCEPT !.guestCleaned = TRUE, !.entries = FALSE],
       "uninstall", "Deleting")

\* Mutant: an uninstall that was asked for counts as done.
UninstallNoWait ==
  /\ pc = "uninstall"
  /\ runtime' \in {runtime, FALSE}
  /\ Goto("terminal")
  /\ UNCHANGED <<api, cache, record, reserved, guest, captures, outside, faults>>

\* Runtime.Delete and hostCleanup, both of which wait until what they remove
\* is gone.
Uninstall ==
  /\ pc = "uninstall"
  /\ IF Managed /\ o.runtime
       THEN \/ runtime' = FALSE /\ Goto("terminal")
            \/ runtime /\ UNCHANGED runtime /\ Report("Deleting")
       ELSE UNCHANGED runtime /\ Goto("terminal")
  /\ UNCHANGED <<api, cache, record, reserved, guest, captures, outside, faults>>

\* The terminal phase is persisted before the record goes.
PatchTerminal ==
  /\ pc = "terminal"
  /\ LET phase == IF o.deleting THEN "Cleaned" ELSE "Expired"
         new == Patched(phase) IN
       IF o.phase = phase
         THEN Goto("release") /\ UNCHANGED <<api, cache, faults>>
         ELSE IF ~api.exists THEN Return /\ UNCHANGED <<api, cache, faults>>
         ELSE /\ SetRequest(new)
              /\ Outcome("status",
                         pc' = "release" /\ o' = new /\ UNCHANGED <<s, rep>>,
                         Return)
  /\ UNCHANGED <<effects, outside>>

\* Mutant: the reservation is kept.
ReleaseSkipped ==
  /\ pc = "release"
  /\ Goto("delete")
  /\ UNCHANGED <<api, cache, effects, outside, faults>>

Release ==
  /\ pc = "release"
  /\ reserved' = FALSE
  /\ Outcome("release", Goto("delete"), Report("Deleting"))
  /\ UNCHANGED <<api, cache, record, runtime, guest, captures, outside>>

DeleteRecord ==
  /\ pc = "delete"
  /\ record' = NoRecord
  /\ Outcome("delete", Goto("finish"), Report("Deleting"))
  /\ UNCHANGED <<api, cache, reserved, runtime, guest, captures, outside>>

\* Mutant: the finalizer stays.
FinishKeepsFinalizer ==
  /\ pc = "finish"
  /\ IF o.deleting THEN Return ELSE Report("Expired")
  /\ UNCHANGED <<api, cache, effects, outside, faults>>

Finish ==
  /\ pc = "finish"
  /\ IF o.deleting
       THEN /\ IF api.exists THEN SetRequest(Stored([api EXCEPT !.finalizer = FALSE]))
                             ELSE UNCHANGED <<api, cache>>
            /\ Return
       ELSE /\ UNCHANGED <<api, cache>>
            /\ Report("Expired")
  /\ UNCHANGED <<effects, outside, faults>>

-----------------------------------------------------------------------------
\* A call of the reconcile is refused.
CallFails ==
  \/ \E step \in {"create", "capture", "pin", "intend", "apply", "applied",
                  "ensure"} : Refuse(step, Report("Blocked"))
  \/ \E step \in {"sessions", "guestCleaned", "uninstall", "release",
                  "delete"} : Refuse(step, Report("Deleting"))
  \/ s.exists /\ ~s.cleanup /\ Refuse("cleanup", Report("Deleting"))
  \/ \E step \in {"finalizer", "status", "report", "terminal", "finish"} :
       Refuse(step, Return)
  \/ Refuse("acquire", Report("Queued"))

Step ==
  \/ Reconcile \/ AddFinalizer \/ CreateRecord \/ Capture \/ PatchStatus
  \/ Approval \/ Acquire \/ Ensure \/ Pin \/ Connect \/ Intend \/ Apply
  \/ Applied \/ PatchPhase \/ Cleanup \/ SettleSessions \/ CleanGuest
  \/ SaveGuestCleaned \/ Uninstall \/ PatchTerminal \/ Release \/ DeleteRecord
  \/ Finish

Failure == LoadFails \/ Denied \/ Unreachable \/ CallFails \/ Crash

Next == Step \/ Failure \/ User \/ CloseSession \/ Sync

\* The work queue runs reconciles again and again; the informer and the other
\* controllers do their work; what cleanup waits for eventually disappears.
Fairness ==
  /\ WF_vars(Step) /\ WF_vars(Sync) /\ WF_vars(CloseSession)
  /\ SF_vars(CleanGuest /\ guest' = 0)
  /\ SF_vars(Uninstall /\ ~runtime')

Spec == Init /\ [][Next]_vars /\ Fairness

-----------------------------------------------------------------------------
\* Properties.

\* What the engine has put into the world is described by its private record,
\* so that a restart at any point still finds it (engine.go:107-123 and the
\* order of 546-559).
EffectsRecorded ==
  (reserved \/ runtime \/ guest # 0) => record.exists

\* Guest objects are covered by saved entries, and a runtime by Status.Runtime,
\* the two facts cleanup relies on to find them (engine.go:489-512).
EffectsFound ==
  /\ guest # 0 => record.entries /\ ~record.guestCleaned
  /\ runtime => api.runtime

\* A request that is gone leaves nothing behind: no record, reservation,
\* runtime or guest object (finish, engine.go:561-566).
GoneMeansClean ==
  ~api.exists => ~record.exists /\ ~reserved /\ ~runtime /\ guest = 0

\* The phase Expired is what its message says, "Inventoried guest resources,
\* managed runtime, and encrypted capture were removed" (engine.go:359), from
\* the moment it is persisted; the capture goes last.
ExpiredMeansClean ==
  api.phase = "Expired" =>
    /\ ~runtime /\ guest = 0
    /\ record.exists => record.cleanup

\* The runtime is uninstalled only after the guest objects are gone, for their
\* removal needs the guest API (architecture.md:71, engine.go:487-529).
GuestBeforeRuntime ==
  [][runtime /\ ~runtime' => guest = 0 /\ record.guestCleaned]_vars

\* Once cleanup has begun nothing is provisioned any more, whatever reconcile
\* is in flight and however often the operator restarts (engine.go:61-71).
NoResurrection ==
  [][record.cleanup \/ api.phase = "Expired" =>
       /\ runtime' => runtime
       /\ guest' # 0 => guest' = guest
       /\ reserved' => reserved]_vars

\* In manual mode nothing is installed from a plan no user approved, although
\* a refresh replaces the plan behind an earlier approval (engine.go:173-175).
OnlyApproved ==
  Manual /\ guest # 0 => guest \in approvals

\* A deleted request disappears (docs/guides/lifecycle.md:53).
DeletionCompletes == api.deleting ~> ~api.exists

\* TTL ends in cleanup, even if nobody deletes the request (engine.go:68-71).
ExpiryCompletes ==
  expired ~> (~record.exists /\ ~runtime /\ guest = 0 /\ ~reserved)
=============================================================================
