--------------------------- MODULE LifecycleProofs ---------------------------
(***************************************************************************)
(* Proofs about module Lifecycle, for any number of refreshes, captures,   *)
(* crashes, failed calls and lost answers.  Safety is proved for a request *)
(* read without lag; TLC shows in run lifecycle_lag what a lagging *)
(* cache does.                                                             *)
(*                                                                         *)
(* LifecycleInv ties the three things a reconcile may disagree about: its  *)
(* copies o and s, the stored request and record, and the effects in the   *)
(* host and the guest.                                                     *)
(***************************************************************************)
EXTENDS Lifecycle, TLAPS

Provisioning == {"capture", "status", "approval", "acquire", "ensure", "pin",
                 "connect", "intend", "apply", "applied"}

Removing == {"sessions", "entries", "guestCleaned", "uninstall", "terminal",
             "release", "delete"}

Working == {"finalizer", "create", "cleanup", "finish"} \cup Provisioning
           \cup Removing

\* The reconcile's copies agree with what is stored, except for what the user
\* may have changed since.
CopiesAgree ==
  /\ cache = api
  /\ pc \in Working \ {"finish"} => s = record
  /\ pc \in Working /\ api.exists =>
       /\ o.finalizer = api.finalizer /\ o.runtime = api.runtime
       /\ o.phase = api.phase
       /\ o.deleting => api.deleting
  /\ pc \in Working /\ o.finalizer => api.exists
  /\ api.exists /\ api.deleting => api.finalizer

\* Where the reconcile is, and what it has established to get there.
Provisions ==
  /\ pc = "create" => ~record.exists /\ o.finalizer /\ ~o.runtime
  /\ pc \in Provisioning => record.exists /\ ~record.cleanup /\ o.phase # "Expired"
  /\ pc \in Provisioning \ {"capture", "status"} /\ Managed => o.runtime
  /\ pc = "create" => o.phase # "Expired"
  /\ pc = "ensure" => Managed
  /\ pc = "apply" => record.entries

Removes ==
  /\ pc \in Removing => record.exists /\ record.cleanup
  /\ pc \in {"cleanup"} \cup Removing => o.deleting \/ expired
  /\ pc \in {"uninstall", "terminal", "release", "delete"} => record.guestCleaned
  /\ pc \in {"guestCleaned", "uninstall", "terminal", "release", "delete"} => guest = 0
  /\ pc \in {"terminal", "release", "delete"} => ~runtime
  /\ pc = "delete" => ~reserved
  /\ pc = "finish" => ~record.exists /\ (o.deleting \/ expired)

\* Cleanup and the phase Expired have a cause that never goes away.
Ending ==
  /\ record.cleanup => record.exists /\ (api.deleting \/ expired)
  /\ record.guestCleaned => record.cleanup
  /\ api.phase = "Expired" => expired
  /\ ExpiredMeansClean
  /\ rep = "Expired" => expired /\ ~record.exists /\ pc = "report"

\* The effects, and what describes them.
Described ==
  /\ EffectsRecorded
  /\ guest # 0 => record.entries /\ ~record.guestCleaned
  /\ runtime => api.runtime /\ Managed
  /\ record.exists => api.exists /\ api.finalizer

\* What manual approval establishes.
ApprovedPlans ==
  /\ api.approved # 0 => api.approved \in approvals
  /\ o.approved # 0 => o.approved \in approvals
  /\ pc \in Provisioning \ {"capture"} => s.plan # 0
  /\ pc \in Provisioning \ {"capture", "status", "approval"} /\ Manual =>
       s.plan \in approvals

LifecycleInv ==
  /\ TypeOK
  /\ CopiesAgree
  /\ Provisions
  /\ Removes
  /\ Ending
  /\ Described
  /\ ApprovedPlans
  /\ OnlyApproved

-----------------------------------------------------------------------------
\* A counter below its bound stays within it.
LEMMA Bump ==
  ASSUME NEW m \in Nat, NEW n \in 0 .. m, n < m
  PROVE  n + 1 \in 0 .. m
OBVIOUS

\* The fields of a request are of their types.
LEMMA RequestFields ==
  ASSUME NEW r \in Requests
  PROVE  /\ r.exists \in BOOLEAN /\ r.deleting \in BOOLEAN
         /\ r.finalizer \in BOOLEAN /\ r.runtime \in BOOLEAN
         /\ r.phase \in Phases /\ r.shown \in Plans /\ r.approved \in Plans
         /\ r.token \in 0 .. MaxRefresh
BY DEF Requests

\* A request stays one when the engine or the user writes one of its fields.
LEMMA RequestUpdates ==
  ASSUME NEW r \in Requests
  PROVE  /\ \A b \in BOOLEAN : [r EXCEPT !.deleting = b] \in Requests
         /\ \A b \in BOOLEAN : [r EXCEPT !.finalizer = b] \in Requests
         /\ \A p \in Phases : [r EXCEPT !.phase = p] \in Requests
         /\ \A p \in Plans : [r EXCEPT !.approved = p] \in Requests
         /\ \A t \in 0 .. MaxRefresh : [r EXCEPT !.token = t] \in Requests
         /\ \A p \in Plans, b \in BOOLEAN :
              [r EXCEPT !.shown = p, !.runtime = b] \in Requests
BY DEF Requests

\* The fields of a record are of their types.
LEMMA RecordFields ==
  ASSUME NEW r \in Records
  PROVE  /\ r.exists \in BOOLEAN /\ r.plan \in Plans
         /\ r.token \in 0 .. MaxRefresh /\ r.applied \in Plans
         /\ r.pinned \in BOOLEAN /\ r.entries \in BOOLEAN
         /\ r.cleanup \in BOOLEAN /\ r.guestCleaned \in BOOLEAN
BY DEF Records

\* A record stays one under each of the engine's saves.
LEMMA RecordUpdates ==
  ASSUME NEW r \in Records
  PROVE  /\ [r EXCEPT !.pinned = TRUE] \in Records
         /\ [r EXCEPT !.entries = TRUE] \in Records
         /\ [r EXCEPT !.cleanup = TRUE] \in Records
         /\ [r EXCEPT !.guestCleaned = TRUE, !.entries = FALSE] \in Records
         /\ \A p \in Plans : [r EXCEPT !.applied = p] \in Records
         /\ \A p \in Plans, t \in 0 .. MaxRefresh :
              [r EXCEPT !.plan = p, !.token = t] \in Records
BY DEF Records

\* The new and the absent request and record are well-typed.
LEMMA Shapes ==
  /\ NewRequest \in Requests /\ NoRequest \in Requests
  /\ NewRecord \in Records /\ NoRecord \in Records
<1>0. 0 \in Plans /\ 0 \in 0 .. MaxRefresh /\ "" \in Phases
  BY ConstantsAssumption DEF Plans, Phases
<1>1. NewRequest \in Requests
  BY <1>0 DEF NewRequest, Requests
<1>2. NewRecord \in Records
  BY <1>0 DEF NewRecord, Records
<1>3. NoRequest \in Requests
  BY <1>1 DEF NoRequest, Requests
<1>4. NoRecord \in Records
  BY <1>2 DEF NoRecord, Records
<1> QED BY <1>1, <1>2, <1>3, <1>4

\* The types hold initially.
LEMMA TypeInit == Init => TypeOK
<1>0. 0 \in Plans /\ "" \in Phases /\ "idle" \in Steps /\ 0 \in 0 .. MaxFaults
  BY ConstantsAssumption DEF Plans, Phases, Steps
<1> QED BY <1>0, Shapes DEF Init, TypeOK
\* Every step of the reconcile, the environment and the failures keeps the
\* types.
LEMMA TypeStep == TypeOK /\ [Next]_vars => TypeOK'
<1> SUFFICES ASSUME TypeOK, [Next]_vars PROVE TypeOK'
  OBVIOUS
<1>0. /\ "" \in Phases /\ "Blocked" \in Phases /\ "Deleting" \in Phases
      /\ "Queued" \in Phases /\ "Provisioning" \in Phases /\ "Expired" \in Phases
      /\ "Connecting" \in Phases /\ "Replicating" \in Phases /\ "Ready" \in Phases
      /\ "AwaitingApproval" \in Phases /\ "Cleaned" \in Phases
  BY DEF Phases
<1>f. Fault => faults' \in 0 .. MaxFaults
  BY ConstantsAssumption DEF Fault, TypeOK
<1>p. 0 \in Plans
  BY ConstantsAssumption DEF Plans
<1> USE <1>0, <1>f, Shapes
    DEF TypeOK, effects, outside, Steps, Return, Goto, Report, Outcome,
        Refuse, Save, SetRequest, Stored
<1>1. CASE Reconcile
  BY <1>1 DEF Reconcile, Route, AfterRecord
<1>2. CASE AddFinalizer
  BY <1>2, RequestUpdates DEF AddFinalizer
<1>3. CASE CreateRecord
  BY <1>3 DEF CreateRecord
<1>4. CASE Capture
  <2>0. captures < MaxPlans /\ captures' = captures + 1
    BY <1>4 DEF Capture
  <2>1. captures' \in Plans
    BY <2>0, Bump, ConstantsAssumption, Zenon DEF Plans
  <2>2. [s EXCEPT !.plan = captures', !.token = o.token] \in Records
    BY <2>1, RecordUpdates, RequestFields
  <2> QED BY <1>4, <2>1, <2>2 DEF Capture
<1>5. CASE PatchStatus
  <2> DEFINE new == [api EXCEPT !.shown = IF o.shown = s.plan THEN @ ELSE s.plan,
                            !.runtime = @ \/ Managed]
  <2>1. new \in Requests
    BY ConstantsAssumption, RequestFields, RecordFields, RequestUpdates
  <2>2. CASE UNCHANGED <<api, cache, faults>>
    BY <1>5, <2>2 DEF PatchStatus
  <2>3. CASE SetRequest(new)
    BY <1>5, <2>1, <2>3 DEF PatchStatus
  <2> QED BY <1>5, <2>2, <2>3 DEF PatchStatus
<1>6. CASE Approval
  BY <1>6 DEF Approval
<1>7. CASE Acquire
  BY <1>7 DEF Acquire
<1>8. CASE Ensure
  BY <1>8 DEF Ensure
<1>9. CASE Pin
  BY <1>9, RecordUpdates DEF Pin
<1>10. CASE Connect
  BY <1>10 DEF Connect
<1>11. CASE Intend
  BY <1>11, RecordUpdates DEF Intend
<1>12. CASE Apply
  BY <1>12, RecordFields DEF Apply
<1>13. CASE Applied
  BY <1>13, RecordUpdates, RecordFields DEF Applied
<1>14. CASE PatchPhase
  <2>1. Patched(rep) \in Requests
    BY RequestUpdates DEF Patched
  <2> QED BY <1>14, <2>1 DEF PatchPhase
<1>15. CASE Cleanup
  BY <1>15, RecordUpdates DEF Cleanup
<1>16. CASE SettleSessions
  BY <1>16 DEF SettleSessions
<1>17. CASE CleanGuest
  BY <1>17, <1>p DEF CleanGuest
<1>18. CASE SaveGuestCleaned
  BY <1>18, RecordUpdates DEF SaveGuestCleaned
<1>19. CASE Uninstall
  BY <1>19 DEF Uninstall
<1>20. CASE PatchTerminal
  <2>1. Patched("Cleaned") \in Requests /\ Patched("Expired") \in Requests
    BY RequestUpdates DEF Patched
  <2> QED BY <1>20, <2>1 DEF PatchTerminal
<1>21. CASE Release
  BY <1>21 DEF Release
<1>22. CASE DeleteRecord
  BY <1>22 DEF DeleteRecord
<1>23. CASE Finish
  BY <1>23, RequestUpdates DEF Finish
<1>24. CASE LoadFails
  BY <1>24 DEF LoadFails
<1>25. CASE Denied
  BY <1>25 DEF Denied
<1>26. CASE Unreachable
  BY <1>26 DEF Unreachable
<1>27. CASE CallFails
  BY <1>27 DEF CallFails
<1>28. CASE Crash
  BY <1>28 DEF Crash
<1>29. CASE Delete
  BY <1>29, RequestUpdates DEF Delete
<1>30. CASE Refresh
  <2>0. api.token \in 0 .. MaxRefresh /\ api.token < MaxRefresh
    BY <1>30, RequestFields DEF Refresh
  <2>1. api.token + 1 \in 0 .. MaxRefresh
    BY <2>0, Bump, ConstantsAssumption
  <2>2. [api EXCEPT !.token = api.token + 1] \in Requests
    BY <2>1, RequestUpdates
  <2> QED BY <1>30, <2>2 DEF Refresh
<1>31. CASE Approve
  BY <1>31, RequestUpdates, RequestFields DEF Approve
<1>32. CASE Expire
  BY <1>32 DEF Expire
<1>33. CASE OpenSession
  BY <1>33 DEF OpenSession
<1>34. CASE CloseSession
  BY <1>34 DEF CloseSession
<1>35. CASE Sync
  BY <1>35 DEF Sync
<1>36. CASE UNCHANGED vars
  BY <1>36, ZenonT(40) DEF vars
<1> QED BY <1>1, <1>2, <1>3, <1>4, <1>5, <1>6, <1>7, <1>8, <1>9, <1>10,
           <1>11, <1>12, <1>13, <1>14, <1>15, <1>16, <1>17, <1>18, <1>19, <1>20,
           <1>21, <1>22, <1>23, <1>24, <1>25, <1>26, <1>27, <1>28, <1>29, <1>30,
           <1>31, <1>32, <1>33, <1>34, <1>35, <1>36
       DEF Next, Step, Failure, User


-----------------------------------------------------------------------------
\* A new request satisfies the invariant.
LEMMA InvInit == ASSUME CacheLag = FALSE PROVE Init => LifecycleInv
<1> SUFFICES ASSUME Init PROVE LifecycleInv
  OBVIOUS
<1>1. TypeOK
  BY TypeInit
<1> QED BY <1>1 DEF Init, LifecycleInv, CopiesAgree, Provisions, Removes,
     Ending, Described, EffectsRecorded, ApprovedPlans, OnlyApproved, ExpiredMeansClean, Working,
     Provisioning, Removing, NewRequest, NoRequest, NewRecord, NoRecord

\* The request PatchStatus writes: Status.Plan and Status.Runtime are set.
ShownStatus == [api EXCEPT !.shown = IF o.shown = s.plan THEN @ ELSE s.plan,
                           !.runtime = @ \/ Managed]

\* PatchStatus goes on with an up-to-date status, returns, or writes it.
LEMMA PatchStatusEffect ==
  ASSUME CacheLag = FALSE, PatchStatus
  PROVE  /\ pc = "status" /\ UNCHANGED <<effects, outside>>
         /\ \/ /\ Managed => o.runtime
               /\ pc' = "approval" /\ UNCHANGED <<api, cache, o, s, rep>>
            \/ Return /\ UNCHANGED <<api, cache>>
            \/ /\ api' = ShownStatus /\ cache' = ShownStatus
               /\ \/ Return
                  \/ pc' = "approval" /\ o' = ShownStatus /\ UNCHANGED <<s, rep>>
<1> DEFINE same == o.shown = s.plan /\ (Managed => o.runtime)
<1>1. CASE same
  BY <1>1 DEF PatchStatus, Goto
<1>2. CASE ~same /\ ~api.exists
  BY <1>2 DEF PatchStatus
<1>3. CASE ~same /\ api.exists
  <2>1. /\ SetRequest(ShownStatus) /\ pc = "status" /\ UNCHANGED <<effects, outside>>
        /\ Outcome("status", pc' = "approval" /\ o' = ShownStatus /\ UNCHANGED <<s, rep>>,
                                 Return)
    BY <1>3 DEF PatchStatus, ShownStatus
  <2> QED BY <2>1 DEF SetRequest, Outcome
<1> QED BY <1>1, <1>2, <1>3

\* The terminal phase of a cleanup.
Ended == IF o.deleting THEN "Cleaned" ELSE "Expired"

\* PatchTerminal finds the terminal phase persisted, returns, or writes it.
LEMMA PatchTerminalEffect ==
  ASSUME CacheLag = FALSE, PatchTerminal
  PROVE  /\ pc = "terminal" /\ UNCHANGED <<effects, outside>>
         /\ \/ pc' = "release" /\ UNCHANGED <<api, cache, o, s, rep>>
            \/ Return /\ UNCHANGED <<api, cache>>
            \/ /\ api' = Patched(Ended) /\ cache' = api' /\ o.phase # Ended
               /\ \/ Return
                  \/ pc' = "release" /\ o' = api' /\ UNCHANGED <<s, rep>>
<1>1. CASE o.phase = Ended
  BY <1>1 DEF PatchTerminal, Goto, Ended
<1>2. CASE o.phase # Ended /\ ~api.exists
  BY <1>2 DEF PatchTerminal, Ended
<1>3. CASE o.phase # Ended /\ api.exists
  <2>1. /\ SetRequest(Patched(Ended)) /\ pc = "terminal" /\ UNCHANGED <<effects, outside>>
        /\ Outcome("status", pc' = "release" /\ o' = Patched(Ended) /\ UNCHANGED <<s, rep>>,
                                 Return)
    BY <1>3 DEF PatchTerminal, Ended
  <2> QED BY <1>3, <2>1 DEF SetRequest, Outcome
<1> QED BY <1>1, <1>2, <1>3

\* Every step keeps the invariant, when the reconcile reads without lag.
LEMMA InvStep ==
  ASSUME CacheLag = FALSE PROVE LifecycleInv /\ [Next]_vars => LifecycleInv'
<1> SUFFICES ASSUME LifecycleInv, [Next]_vars PROVE LifecycleInv'
  OBVIOUS
<1>a. TypeOK /\ TypeOK'
  BY TypeStep DEF LifecycleInv
<1> USE <1>a
    DEF LifecycleInv, CopiesAgree, Provisions, Removes, Ending, Described,
        EffectsRecorded, ApprovedPlans, OnlyApproved, ExpiredMeansClean, Working, Provisioning,
        Removing, effects, outside, Return, Goto, Report, Fault, Outcome,
        Refuse, Save, SetRequest, Stored, Patched, NoRequest, NewRequest,
        NoRecord, NewRecord, TypeOK, Requests, Records
<1>1. CASE Reconcile
  <2>1. CopiesAgree'
    BY <1>1 DEF Reconcile, Route, AfterRecord
  <2>2. Provisions'
    BY <1>1 DEF Reconcile, Route, AfterRecord
  <2>3. Removes'
    BY <1>1 DEF Reconcile, Route, AfterRecord
  <2>4. Ending'
    BY <1>1 DEF Reconcile, Route, AfterRecord
  <2>5. Described'
    BY <1>1 DEF Reconcile, Route, AfterRecord
  <2>6. ApprovedPlans'
    BY <1>1 DEF Reconcile, Route, AfterRecord
  <2>7. OnlyApproved'
    BY <1>1 DEF Reconcile, Route, AfterRecord
  <2> QED BY <2>1, <2>2, <2>3, <2>4, <2>5, <2>6, <2>7 DEF LifecycleInv
<1>2. CASE AddFinalizer
  <2>1. CopiesAgree'
    BY <1>2 DEF AddFinalizer
  <2>2. Provisions'
    BY <1>2 DEF AddFinalizer
  <2>3. Removes'
    BY <1>2 DEF AddFinalizer
  <2>4. Ending'
    BY <1>2, ZenonT(40) DEF AddFinalizer
  <2>5. Described'
    BY <1>2, ZenonT(40) DEF AddFinalizer
  <2>6. ApprovedPlans'
    BY <1>2 DEF AddFinalizer
  <2>7. OnlyApproved'
    BY <1>2 DEF AddFinalizer
  <2> QED BY <2>1, <2>2, <2>3, <2>4, <2>5, <2>6, <2>7 DEF LifecycleInv
<1>3. CASE CreateRecord
  BY <1>3 DEF CreateRecord
<1>4. CASE Capture
  <2>1. CopiesAgree'
    BY <1>4 DEF Capture
  <2>2. Provisions'
    BY <1>4 DEF Capture
  <2>3. Removes'
    BY <1>4 DEF Capture
  <2>4. Ending'
    BY <1>4 DEF Capture
  <2>5. Described'
    BY <1>4 DEF Capture
  <2>0. captures' # 0
    BY <1>4, ConstantsAssumption DEF Capture, Plans
  <2>6. ApprovedPlans'
    BY <1>4, <2>0 DEF Capture
  <2>7. OnlyApproved'
    BY <1>4 DEF Capture
  <2> QED BY <2>1, <2>2, <2>3, <2>4, <2>5, <2>6, <2>7 DEF LifecycleInv
<1>5. CASE PatchStatus
  <2>0. /\ ShownStatus.exists = api.exists /\ ShownStatus.deleting = api.deleting
        /\ ShownStatus.finalizer = api.finalizer /\ ShownStatus.phase = api.phase
        /\ ShownStatus.approved = api.approved
    BY DEF ShownStatus
  <2>r. api.runtime \/ Managed => ShownStatus.runtime
    BY DEF ShownStatus
  <2>a. /\ pc = "status" /\ UNCHANGED <<effects, outside>>
        /\ \/ /\ Managed => o.runtime
              /\ pc' = "approval" /\ UNCHANGED <<api, cache, o, s, rep>>
           \/ Return /\ UNCHANGED <<api, cache>>
           \/ /\ api' = ShownStatus /\ cache' = ShownStatus
              /\ \/ Return
                 \/ pc' = "approval" /\ o' = ShownStatus /\ UNCHANGED <<s, rep>>
    BY <1>5, PatchStatusEffect
  <2>1. CopiesAgree'
    BY <2>0, <2>a, ZenonT(40)
  <2>2. Provisions'
    <3>1. pc' \in {"approval", "idle"} /\ UNCHANGED record
      BY <2>a
    <3>2. pc' = "approval" => o'.phase # "Expired"
      BY <2>0, <2>a
    <3>3. pc' = "approval" /\ Managed => o'.runtime
      BY <2>r, <2>a
    <3>4. record.exists /\ ~record.cleanup
      BY <2>a
    <3> QED BY <3>1, <3>2, <3>3, <3>4
  <2>3. Removes'
    BY <2>0, <2>a
  <2>4. Ending'
    <3>1. UNCHANGED <<record, expired, runtime, guest>> /\ rep' \in {rep, ""}
      BY <2>a
    <3>3. rep # "Expired"
      BY <2>a
    <3>2. api'.deleting = api.deleting /\ api'.phase = api.phase
      BY <2>0, <2>a
    <3> QED BY <3>1, <3>2, <3>3
  <2>5. Described'
    BY <2>0, <2>a, <2>r
  <2>6. ApprovedPlans'
    BY <2>0, <2>a, ZenonT(40)
  <2>7. OnlyApproved'
    BY <2>0, <2>a
  <2> QED BY <2>1, <2>2, <2>3, <2>4, <2>5, <2>6, <2>7 DEF LifecycleInv
<1>6. CASE Approval
  BY <1>6 DEF Approval
<1>7. CASE Acquire
  BY <1>7 DEF Acquire
<1>8. CASE Ensure
  <2>1. CopiesAgree'
    BY <1>8 DEF Ensure
  <2>2. Provisions'
    BY <1>8 DEF Ensure
  <2>3. Removes'
    BY <1>8 DEF Ensure
  <2>4. Ending'
    BY <1>8 DEF Ensure
  <2>5. Described'
    BY <1>8 DEF Ensure
  <2>6. ApprovedPlans'
    BY <1>8 DEF Ensure
  <2>7. OnlyApproved'
    BY <1>8 DEF Ensure
  <2> QED BY <2>1, <2>2, <2>3, <2>4, <2>5, <2>6, <2>7 DEF LifecycleInv
<1>9. CASE Pin
  BY <1>9 DEF Pin
<1>10. CASE Connect
  BY <1>10 DEF Connect
<1>11. CASE Intend
  BY <1>11 DEF Intend
<1>12. CASE Apply
  BY <1>12 DEF Apply
<1>13. CASE Applied
  BY <1>13 DEF Applied
<1>14. CASE PatchPhase
  <2>1. CopiesAgree'
    BY <1>14 DEF PatchPhase
  <2>2. Provisions'
    BY <1>14 DEF PatchPhase
  <2>3. Removes'
    BY <1>14 DEF PatchPhase
  <2>4. Ending'
    BY <1>14 DEF PatchPhase
  <2>5. Described'
    BY <1>14, ZenonT(40) DEF PatchPhase
  <2>6. ApprovedPlans'
    BY <1>14 DEF PatchPhase
  <2>7. OnlyApproved'
    BY <1>14 DEF PatchPhase
  <2> QED BY <2>1, <2>2, <2>3, <2>4, <2>5, <2>6, <2>7 DEF LifecycleInv
<1>15. CASE Cleanup
  BY <1>15 DEF Cleanup
<1>16. CASE SettleSessions
  BY <1>16 DEF SettleSessions
<1>17. CASE CleanGuest
  BY <1>17 DEF CleanGuest
<1>18. CASE SaveGuestCleaned
  BY <1>18 DEF SaveGuestCleaned
<1>19. CASE Uninstall
  BY <1>19 DEF Uninstall
<1>20. CASE PatchTerminal
  <2> DEFINE new == [api EXCEPT !.phase = Ended]
  <2>0. /\ new.exists = api.exists /\ new.deleting = api.deleting
        /\ new.finalizer = api.finalizer /\ new.phase = Ended
        /\ new.runtime = api.runtime /\ new.approved = api.approved
    OBVIOUS
  <2>a. /\ pc = "terminal" /\ UNCHANGED <<effects, outside>>
        /\ \/ pc' = "release" /\ UNCHANGED <<api, cache, o, s, rep>>
           \/ Return /\ UNCHANGED <<api, cache>>
           \/ /\ api' = new /\ cache' = new
              /\ \/ Return
                 \/ pc' = "release" /\ o' = new /\ UNCHANGED <<s, rep>>
    BY <1>20, PatchTerminalEffect DEF Patched
  <2>p. Ended = "Expired" => expired
    BY <2>a DEF Ended
  <2> HIDE DEF new
  <2>1. CopiesAgree'
    BY <2>0, <2>a, ZenonT(40)
  <2>2. Provisions'
    BY <2>0, <2>a
  <2>3. Removes'
    BY <2>0, <2>a
  <2>4. Ending'
    BY <2>0, <2>a, <2>p
  <2>5. Described'
    BY <2>0, <2>a
  <2>6. ApprovedPlans'
    <3>1. pc' \notin Provisioning /\ UNCHANGED approvals
      BY <2>a
    <3>2. api'.approved = api.approved
      BY <2>a, <2>0
    <3>3. o'.approved \in {0, o.approved, api.approved}
      BY <2>a, <2>0
    <3> QED BY <3>1, <3>2, <3>3
  <2>7. OnlyApproved'
    BY <2>0, <2>a
  <2> QED BY <2>1, <2>2, <2>3, <2>4, <2>5, <2>6, <2>7 DEF LifecycleInv
<1>21. CASE Release
  BY <1>21 DEF Release
<1>22. CASE DeleteRecord
  BY <1>22 DEF DeleteRecord
<1>23. CASE Finish
  <2>1. CopiesAgree'
    BY <1>23 DEF Finish
  <2>2. Provisions'
    BY <1>23 DEF Finish
  <2>3. Removes'
    BY <1>23 DEF Finish
  <2>4. Ending'
    BY <1>23 DEF Finish
  <2>5. Described'
    BY <1>23 DEF Finish
  <2>6. ApprovedPlans'
    BY <1>23 DEF Finish
  <2>7. OnlyApproved'
    BY <1>23 DEF Finish
  <2> QED BY <2>1, <2>2, <2>3, <2>4, <2>5, <2>6, <2>7 DEF LifecycleInv
<1>24. CASE LoadFails
  BY <1>24 DEF LoadFails
<1>25. CASE Denied
  BY <1>25 DEF Denied
<1>26. CASE Unreachable
  BY <1>26 DEF Unreachable
<1>27. CASE CallFails
  <2>1. CopiesAgree'
    BY <1>27 DEF CallFails
  <2>2. Provisions'
    BY <1>27 DEF CallFails
  <2>3. Removes'
    BY <1>27 DEF CallFails
  <2>4. Ending'
    BY <1>27 DEF CallFails
  <2>5. Described'
    BY <1>27 DEF CallFails
  <2>6. ApprovedPlans'
    BY <1>27, ZenonT(40) DEF CallFails
  <2>0. UNCHANGED <<guest, approvals>>
    BY <1>27 DEF CallFails
  <2>7. OnlyApproved'
    BY <2>0
  <2> QED BY <2>1, <2>2, <2>3, <2>4, <2>5, <2>6, <2>7 DEF LifecycleInv
<1>28. CASE Crash
  BY <1>28 DEF Crash
<1>29. CASE Delete
  <2>1. CopiesAgree'
    BY <1>29 DEF Delete
  <2>2. Provisions'
    BY <1>29 DEF Delete
  <2>3. Removes'
    BY <1>29 DEF Delete
  <2>4. Ending'
    BY <1>29 DEF Delete
  <2>5. Described'
    BY <1>29 DEF Delete
  <2>6. ApprovedPlans'
    BY <1>29 DEF Delete
  <2>7. OnlyApproved'
    BY <1>29 DEF Delete
  <2> QED BY <2>1, <2>2, <2>3, <2>4, <2>5, <2>6, <2>7 DEF LifecycleInv
<1>30. CASE Refresh
  BY <1>30 DEF Refresh
<1>31. CASE Approve
  BY <1>31 DEF Approve
<1>32. CASE Expire
  BY <1>32 DEF Expire
<1>33. CASE OpenSession
  BY <1>33 DEF OpenSession
<1>34. CASE CloseSession
  BY <1>34 DEF CloseSession
<1>35. CASE Sync
  BY <1>35 DEF Sync
<1>36. CASE UNCHANGED vars
  BY <1>36 DEF vars
<1> QED BY <1>1, <1>2, <1>3, <1>4, <1>5, <1>6, <1>7, <1>8, <1>9, <1>10,
           <1>11, <1>12, <1>13, <1>14, <1>15, <1>16, <1>17, <1>18, <1>19, <1>20,
           <1>21, <1>22, <1>23, <1>24, <1>25, <1>26, <1>27, <1>28, <1>29, <1>30,
           <1>31, <1>32, <1>33, <1>34, <1>35, <1>36
       DEF Next, Step, Failure, User

-----------------------------------------------------------------------------
\* Every reachable state is well-typed, with or without a lagging cache.
THEOREM TypeCorrect == Spec => []TypeOK
<1>1. Init => TypeOK
  BY TypeInit
<1>2. TypeOK /\ [Next]_vars => TypeOK'
  BY TypeStep
<1> QED BY <1>1, <1>2, PTL DEF Spec

\* The inductive invariant holds in every reachable state when the reconcile
\* reads the request without lag.
THEOREM LifecycleInvariance ==
  ASSUME CacheLag = FALSE PROVE Spec => []LifecycleInv
<1>1. Init => LifecycleInv
  BY InvInit
<1>2. LifecycleInv /\ [Next]_vars => LifecycleInv'
  BY InvStep
<1> QED BY <1>1, <1>2, PTL DEF Spec

\* A restart at any point finds a record of whatever the engine has done.
THEOREM EffectsRecordedAlways ==
  ASSUME CacheLag = FALSE PROVE Spec => []EffectsRecorded
<1>1. LifecycleInv => EffectsRecorded
  BY DEF LifecycleInv, Described
<1> QED BY <1>1, LifecycleInvariance, PTL

\* Guest objects have entries and a runtime has a status to be found by.
THEOREM EffectsFoundAlways ==
  ASSUME CacheLag = FALSE PROVE Spec => []EffectsFound
<1>1. LifecycleInv => EffectsFound
  BY DEF LifecycleInv, Described, EffectsFound
<1> QED BY <1>1, LifecycleInvariance, PTL

\* A request that disappears leaves nothing behind.
THEOREM GoneMeansCleanAlways ==
  ASSUME CacheLag = FALSE PROVE Spec => []GoneMeansClean
<1>1. LifecycleInv => GoneMeansClean
  BY DEF LifecycleInv, Described, EffectsRecorded, GoneMeansClean
<1> QED BY <1>1, LifecycleInvariance, PTL

\* A request reported as expired has neither runtime nor guest objects.
THEOREM ExpiredMeansCleanAlways ==
  ASSUME CacheLag = FALSE PROVE Spec => []ExpiredMeansClean
<1>1. LifecycleInv => ExpiredMeansClean
  BY DEF LifecycleInv, Ending
<1> QED BY <1>1, LifecycleInvariance, PTL

\* In manual mode the guest holds only plans a user approved.
THEOREM OnlyApprovedAlways ==
  ASSUME CacheLag = FALSE PROVE Spec => []OnlyApproved
<1>1. LifecycleInv => OnlyApproved
  BY DEF LifecycleInv
<1> QED BY <1>1, LifecycleInvariance, PTL

\* No step uninstalls the runtime while guest objects remain.
THEOREM GuestBeforeRuntimeAlways ==
  ASSUME CacheLag = FALSE PROVE Spec => GuestBeforeRuntime
<1>1. LifecycleInv /\ [Next]_vars =>
        [runtime /\ ~runtime' => guest = 0 /\ record.guestCleaned]_vars
  <2> SUFFICES ASSUME LifecycleInv, Next, runtime, ~runtime'
               PROVE  guest = 0 /\ record.guestCleaned
    OBVIOUS
  <2>1. Uninstall
    BY DEF Next, Step, Failure, User, Reconcile, AddFinalizer, CreateRecord,
       Capture, PatchStatus, Approval, Acquire, Ensure, Pin, Connect, Intend,
       Apply, Applied, PatchPhase, Cleanup, SettleSessions, CleanGuest,
       SaveGuestCleaned, PatchTerminal, Release, DeleteRecord, Finish,
       LoadFails, Denied, Unreachable, CallFails, Crash, Delete, Refresh,
       Approve, Expire, OpenSession, CloseSession, Sync, Save, Refuse, effects
  <2> QED BY <2>1 DEF Uninstall, LifecycleInv, Removes
<1> QED BY <1>1, LifecycleInvariance, PTL DEF GuestBeforeRuntime, Spec

\* No step provisions anything once cleanup has begun or the phase is Expired.
THEOREM NoResurrectionAlways ==
  ASSUME CacheLag = FALSE PROVE Spec => NoResurrection
<1>1. LifecycleInv /\ [Next]_vars =>
        [record.cleanup \/ api.phase = "Expired" =>
           /\ runtime' => runtime
           /\ guest' # 0 => guest' = guest
           /\ reserved' => reserved]_vars
  <2> SUFFICES ASSUME LifecycleInv, Next, record.cleanup \/ api.phase = "Expired"
               PROVE  /\ runtime' => runtime
                      /\ guest' # 0 => guest' = guest
                      /\ reserved' => reserved
    OBVIOUS
  <2>1. ~(Acquire \/ Ensure \/ Apply)
    BY DEF Acquire, Ensure, Apply, LifecycleInv, Provisions, Provisioning,
       CopiesAgree, Working, Described
  <2>2. runtime' => runtime
    BY <2>1
    DEF Next, Step, Failure, User, Reconcile, AddFinalizer, CreateRecord,
       Capture, PatchStatus, Approval, Pin, Connect, Intend, Applied,
       PatchPhase, Cleanup, SettleSessions, CleanGuest, Uninstall,
       SaveGuestCleaned, PatchTerminal, Release, DeleteRecord, Finish,
       LoadFails, Denied, Unreachable, CallFails, Crash, Delete, Refresh,
       Approve, Expire, OpenSession, CloseSession, Sync, Save, Refuse, effects
  <2>3. guest' # 0 => guest' = guest
    BY <2>1
    DEF Next, Step, Failure, User, Reconcile, AddFinalizer, CreateRecord,
       Capture, PatchStatus, Approval, Pin, Connect, Intend, Applied,
       PatchPhase, Cleanup, SettleSessions, CleanGuest, Uninstall,
       SaveGuestCleaned, PatchTerminal, Release, DeleteRecord, Finish,
       LoadFails, Denied, Unreachable, CallFails, Crash, Delete, Refresh,
       Approve, Expire, OpenSession, CloseSession, Sync, Save, Refuse, effects
  <2>4. reserved' => reserved
    BY <2>1
    DEF Next, Step, Failure, User, Reconcile, AddFinalizer, CreateRecord,
       Capture, PatchStatus, Approval, Pin, Connect, Intend, Applied,
       PatchPhase, Cleanup, SettleSessions, CleanGuest, Uninstall,
       SaveGuestCleaned, PatchTerminal, Release, DeleteRecord, Finish,
       LoadFails, Denied, Unreachable, CallFails, Crash, Delete, Refresh,
       Approve, Expire, OpenSession, CloseSession, Sync, Save, Refuse, effects
  <2> QED BY <2>2, <2>3, <2>4
<1> QED BY <1>1, LifecycleInvariance, PTL DEF NoResurrection, Spec
=============================================================================
