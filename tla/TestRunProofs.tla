---------------------------- MODULE TestRunProofs -----------------------------
(***************************************************************************)
(* Proofs about modules Access and TestRun, for any number of faults and   *)
(* of changes by others.                                                   *)
(*                                                                         *)
(* SessionInv is about the session's worker and holds whoever asks for the *)
(* session: what exists is in the record, and each part of the revocation  *)
(* knows what is gone.  RunInv is about the runner: what it has asked for, *)
(* what its position says about the cluster, and why a revocation began.   *)
(***************************************************************************)
EXTENDS TestRun, TLAPS

\* What AccessType says of the request and of the record.
Requests ==
  [state : {"none", "live", "deleting", "gone"}, fin : BOOLEAN,
   phase : {"", "Ready", "Blocked", "Revoking", "Revoked"}, issued : BOOLEAN]
SessionRecords ==
  [exists : BOOLEAN, over : BOOLEAN, misread : BOOLEAN,
   entry : [Things -> {"none", "intent", "uid", "deleted"}]]

\* What TypeOK says of the runner.
RunParts ==
  {"create", "replica", "lease", "access", "credential", "session", "chaos", "faults", "stable",
   "test", "close", "rollback", "revoke", "release", "retain", "delete", "done", "killed"}
Runs == [pc : RunParts, exp : Known, access : Known, lease : BOOLEAN, session : BOOLEAN]
Reports ==
  [setup : {"Failed", "Passed"}, test : {"NotRun", "Passed", "Failed", "Interrupted"},
   cleanup : {"NotNeeded", "Verified", "Unverified", "Retained"}]

Revoking == {"readers", "identities", "secret", "report", "forget"}

\* The finalizer stays while there is a record, the record while there is
\* anything of the session.
Kept ==
  /\ acc.fin => acc.state \in {"live", "deleting"}
  /\ acc.state = "deleting" => acc.fin
  /\ arec.exists => acc.fin
  /\ ~arec.exists => arec = NoRecord
  /\ live # {} => arec.exists /\ acc.phase # "Revoked"
  /\ acc.state = "none" => acc.phase # "Revoked"

\* What exists has its entry, and what is recorded as created exists until the
\* revocation begins.
Recorded ==
  /\ \A x \in live : x # "secret" => Pending(x)
  /\ ~arec.over => \A x \in Identities : arec.entry[x] = "uid" => x \in live
  /\ ~arec.over => \A x \in Things : arec.entry[x] # "deleted"
  /\ "secret" \in live /\ ~arec.over => Identities \subseteq live

\* The parts of a reconcile.
Parts ==
  /\ apc # "idle" => acc.state # "none"
  /\ apc \notin {"idle", "finish"} => arec.exists
  /\ apc = "finish" => ~arec.exists
  /\ apc \in {"issue", "announced"} => ~arec.over /\ acc.phase # "Revoked"
  /\ apc \in Revoking => arec.over
  /\ arec.exists /\ acc.phase = "Revoked" => arec.over
  /\ apc = "identities" => live \cap {"role", "rolebinding"} = {}
  /\ apc = "secret" => live \subseteq {"secret"}
  /\ apc \in {"report", "forget"} => live = {}

\* What was announced has its Secret until the revocation begins.
Announced ==
  /\ acc.phase = "Ready" \/ apc = "announced" => acc.issued
  /\ acc.issued /\ arec.exists /\ ~arec.over => arec.entry["secret"] = "uid"

SessionInv == AccessType /\ Kept /\ Recorded /\ Parts /\ Announced

\* The parts of Run from the session's end on, and all of the deferred cleanup.
Ended == {"release", "retain", "delete"}
Closing == {"close", "rollback", "revoke", "release", "retain", "delete"}

\* The runner knows what it may have created.
Asked ==
  /\ run.pc = "create" => req = "none"
  /\ run.pc \in {"create", "replica", "lease", "access"} => run.access = "no" /\ acc.state = "none"
  /\ run.pc \in {"create", "replica", "lease", "access", "credential", "session", "chaos"} => run.exp = "no"
  /\ run.exp = "no" => exp = "none"
  /\ run.access = "no" => acc.state = "none"
  /\ run.session => run.pc \in {"chaos", "faults", "stable", "test", "close"}
  /\ exp # "none" \/ run.pc \in {"session", "chaos"} => acc.issued
  /\ run.pc \in {"lease", "access"} \/ acc.state # "none" => replica # "none"
  /\ run.pc \in RunParts \ (Closing \cup {"done", "killed"}) => report.test = "NotRun"
  /\ hold = "run" /\ ~run.lease => report.test = "NotRun" /\ run.pc \in Closing \cup {"done", "killed"}

\* What the runner has waited for stays as it is.
Waited ==
  /\ run.pc \in {"revoke"} \cup Ended => exp = "none" \/ Removed
  /\ run.pc \in Ended => acc.state \in {"none", "gone"}
  /\ run.pc \in {"retain", "delete"} /\ hold = "run" => ~run.lease \/ req = "gone"

\* What was reported.
Told ==
  /\ report.cleanup \in {"Verified", "Retained"} =>
       run.pc = "done" /\ (exp = "none" \/ Removed) /\ acc.state \in {"none", "gone"}
  /\ report.cleanup = "Verified" => req = "gone"
  /\ report.cleanup = "Retained" => ~run.session /\ hold # "run"

\* Faults belong to an experiment that has not come to its end, and no record
\* of one outlives its replica.
Faulty ==
  /\ effect # "none" => exp \in {"Preparing", "Active", "Blocked", "deleting"}
  /\ req = "gone" => replica = "gone"
  /\ replica = "gone" => exp \in {"none", "new", "Refused", "gone"}

\* Why a session ends: the grant, the replica, a failed read of one of them, a
\* refused token, or a runner that has seen the experiment go and creates no
\* other.
Justified ==
  /\ arec.exists => replica \in {"ready", "inactive", "ending"}
  /\ arec.over => \/ withdrawn \/ replica \in {"inactive", "ending"} \/ acc.state = "deleting"
                  \/ arec.misread \/ ~acc.issued
  /\ acc.state = "deleting" =>
       \/ replica = "ending"
       \/ (exp = "none" \/ Removed) /\ run.pc \in {"revoke", "done", "killed"} \cup Ended

RunInv ==
  /\ TypeOK /\ SessionInv
  /\ Asked /\ Waited /\ Told /\ Faulty /\ Justified
-----------------------------------------------------------------------------
\* The session.

LEMMA IssueNames ==
  /\ DOMAIN Issue = 1 .. 5
  /\ Issue[1] = "account" /\ Issue[2] = "binding" /\ Issue[3] = "secret"
  /\ Issue[4] = "role" /\ Issue[5] = "rolebinding"
  /\ \A n \in 1 .. 5 : Issue[n] = "secret" => n = 3
  /\ Things = {"account", "binding", "secret", "role", "rolebinding"}
BY DEF Issue, Things

\* NoRecord is a record with nothing in it.
LEMMA NoRecordType ==
  /\ NoRecord \in SessionRecords
  /\ ~NoRecord.exists /\ ~NoRecord.over /\ ~NoRecord.misread
  /\ \A x \in Things : NoRecord.entry[x] = "none"
BY DEF NoRecord, SessionRecords

\* Changes of one field of the request.
LEMMA Patched ==
  ASSUME AccessType, NEW p \in {"", "Ready", "Blocked", "Revoking", "Revoked"}, acc' = [acc EXCEPT !.phase = p]
  PROVE  /\ acc' \in Requests /\ acc'.phase = p /\ acc'.state = acc.state /\ acc'.fin = acc.fin
         /\ acc'.issued = acc.issued
BY DEF AccessType, Requests

LEMMA Finalized ==
  ASSUME AccessType, acc' = [acc EXCEPT !.fin = TRUE]
  PROVE  /\ acc' \in Requests /\ acc'.phase = acc.phase /\ acc'.state = acc.state /\ acc'.fin = TRUE
         /\ acc'.issued = acc.issued
BY DEF AccessType, Requests

LEMMA Issued ==
  ASSUME AccessType, acc' = [acc EXCEPT !.issued = TRUE]
  PROVE  /\ acc' \in Requests /\ acc'.phase = acc.phase /\ acc'.state = acc.state /\ acc'.fin = acc.fin
         /\ acc'.issued = TRUE
BY DEF AccessType, Requests

LEMMA Moved ==
  ASSUME AccessType, NEW q \in {"none", "live", "deleting", "gone"}, acc' = [acc EXCEPT !.state = q]
  PROVE  /\ acc' \in Requests /\ acc'.phase = acc.phase /\ acc'.state = q /\ acc'.fin = acc.fin
         /\ acc'.issued = acc.issued
BY DEF AccessType, Requests

\* Changes of the record.
LEMMA Noted ==
  ASSUME AccessType, NEW y \in Things, NEW k \in {"none", "intent", "uid", "deleted"},
         arec' = [arec EXCEPT !.entry[y] = k]
  PROVE  /\ arec' \in SessionRecords
         /\ arec'.exists = arec.exists /\ arec'.over = arec.over /\ arec'.misread = arec.misread
         /\ arec'.entry[y] = k
         /\ \A x \in Things : x # y => arec'.entry[x] = arec.entry[x]
BY DEF AccessType, SessionRecords

LEMMA Begun ==
  ASSUME AccessType, arec' = [arec EXCEPT !.exists = TRUE]
  PROVE  /\ arec' \in SessionRecords /\ arec'.exists /\ arec'.over = arec.over
         /\ arec'.misread = arec.misread /\ arec'.entry = arec.entry
BY DEF AccessType, SessionRecords

LEMMA Condemned ==
  ASSUME AccessType, NEW m \in BOOLEAN, arec' = [arec EXCEPT !.over = TRUE, !.misread = m]
  PROVE  /\ arec' \in SessionRecords /\ arec'.exists = arec.exists /\ arec'.over
         /\ arec'.misread = m /\ arec'.entry = arec.entry
BY DEF AccessType, SessionRecords

\* The revocation that no failed read began.
LEMMA Ending ==
  ASSUME AccessType, arec' = [arec EXCEPT !.over = TRUE]
  PROVE  /\ arec' \in SessionRecords /\ arec'.exists = arec.exists /\ arec'.over
         /\ arec'.misread = arec.misread /\ arec'.entry = arec.entry
BY DEF AccessType, SessionRecords

\* A session nobody touches.
LEMMA SessionAlone ==
  ASSUME SessionInv, UNCHANGED access
  PROVE  SessionInv'
<1>1. AccessType'
  BY DEF SessionInv, access, AccessType
<1>4. Kept'
  BY DEF SessionInv, access, Kept
<1>2. Recorded'
  BY DEF SessionInv, access, Recorded, Pending
<1>3. Parts' /\ Announced'
  BY DEF SessionInv, access, Parts, Announced
<1> QED BY <1>1, <1>2, <1>3, <1>4 DEF SessionInv

\* Anyone may delete a request, and the runner makes one.
LEMMA SessionMoved ==
  ASSUME SessionInv, UNCHANGED <<arec, live, apc>>,
         \/ acc.state = "live" /\ DeleteAccess
         \/ acc.state = "none" /\ acc' = [acc EXCEPT !.state = "live"]
  PROVE  SessionInv'
<1> DEFINE q == IF acc.state = "none" THEN "live" ELSE IF acc.fin THEN "deleting" ELSE "gone"
<1>1. q \in {"live", "deleting", "gone"} /\ acc' = [acc EXCEPT !.state = q]
  BY DEF DeleteAccess
<1>2. /\ acc' \in Requests
      /\ acc'.phase = acc.phase /\ acc'.state = q /\ acc'.fin = acc.fin /\ acc'.issued = acc.issued
  <2> HIDE DEF q
  <2> QED BY <1>1, Moved DEF SessionInv
<1>3. AccessType'
  BY <1>2 DEF SessionInv, AccessType, Requests
<1>4. Kept'
  BY <1>2 DEF SessionInv, Kept
<1>5. Recorded' /\ Parts' /\ Announced'
  BY <1>2 DEF SessionInv, Recorded, Parts, Announced, Pending
<1> QED BY <1>3, <1>4, <1>5 DEF SessionInv

\* Every step of the worker, and every fault of it, keeps SessionInv.
LEMMA SessionStep ==
  ASSUME SessionInv, AccessWorker \/ AccessFails
  PROVE  SessionInv'
<1>a. AccessType
  BY DEF SessionInv
<1>1. ASSUME NEW p \in {"", "Ready", "Blocked", "Revoking", "Revoked"}, acc' = [acc EXCEPT !.phase = p],
             UNCHANGED <<arec, live>>,
             p = "Revoked" => live = {} /\ (arec.exists => arec.over) /\ acc.state # "none"
             /\ apc' \notin {"issue", "announced"},
             p = "Ready" => acc.issued,
             apc' \in {"idle", apc} \/ (apc' = "forget" /\ apc = "report")
      PROVE  SessionInv'
  <2>1. /\ acc' \in Requests /\ acc'.phase = p /\ acc'.state = acc.state /\ acc'.fin = acc.fin
        /\ acc'.issued = acc.issued
    BY <1>1, <1>a, Patched
  <2>2. AccessType'
    BY <1>1, <1>a, <2>1 DEF AccessType, Requests
  <2>3. Kept'
    BY <1>1, <2>1 DEF SessionInv, Kept
  <2>4. Recorded'
    BY <1>1 DEF SessionInv, Recorded, Pending
  <2>5. Parts' /\ Announced'
    BY <1>1, <2>1 DEF SessionInv, Parts, Announced, Revoking
  <2> QED BY <2>2, <2>3, <2>4, <2>5 DEF SessionInv
<1>2. CASE ReportStranded \/ LoadFails \/ ReportReady \/ ReportRevoked
  <2>1. CASE ReportStranded \/ LoadFails
    BY <2>1, <1>1 DEF ReportStranded, LoadFails, PatchAccess
  <2>2. CASE ReportReady
    <3>1. acc.issued
      BY <2>2 DEF ReportReady, At, SessionInv, Announced
    <3> QED BY <2>2, <3>1, <1>1 DEF ReportReady, PatchAccess, Goto
  <2>3. CASE ReportRevoked
    <3>1. live = {} /\ arec.over /\ acc.state # "none"
      BY <2>3 DEF ReportRevoked, At, SessionInv, Parts, Kept, Revoking
    <3> QED BY <2>3, <3>1, <1>1 DEF ReportRevoked, At, PatchAccess, Goto
  <2> QED BY <1>2, <2>1, <2>2, <2>3
<1>3. FailurePhase \in {"Blocked", "Revoking", acc.phase}
  BY DEF FailurePhase
<1>4. CASE AccessFault
  <2>1. CASE acc' = acc
    <3>1. UNCHANGED <<acc, arec, live>> /\ apc' = "idle"
      BY <1>4, <2>1 DEF AccessFault, Goto
    <3>2. AccessType' /\ Kept'
      BY <3>1 DEF SessionInv, AccessType, Kept
    <3>3. Recorded' /\ Parts' /\ Announced'
      BY <3>1 DEF SessionInv, Recorded, Parts, Announced, Pending, Revoking
    <3> QED BY <3>2, <3>3 DEF SessionInv
  <2>2. CASE acc' = [acc EXCEPT !.phase = FailurePhase]
    <3>1. acc.phase = "Revoked" => live = {} /\ (arec.exists => arec.over) /\ acc.state # "none"
      BY DEF SessionInv, Kept, Parts
    <3>2. FailurePhase \in {"", "Ready", "Blocked", "Revoking", "Revoked"}
      BY <1>3, <1>a DEF AccessType
    <3>3. FailurePhase = "Revoked" => live = {} /\ (arec.exists => arec.over) /\ acc.state # "none"
      BY <1>3, <3>1
    <3>4. apc' = "idle" /\ UNCHANGED <<arec, live>>
      BY <1>4 DEF AccessFault, Goto
    <3>5. FailurePhase = "Ready" => acc.issued
      BY <1>3 DEF SessionInv, Announced
    <3> QED BY <2>2, <3>2, <3>3, <3>4, <3>5, <1>1
  <2> QED BY <1>4, <2>1, <2>2, Zenon DEF AccessFault
<1>5. CASE AddAccessFinalizer \/ Announce
  <2>1. /\ acc' \in Requests /\ acc'.phase = acc.phase /\ acc'.state = acc.state
        /\ acc'.fin = acc.fin \/ (acc'.fin = TRUE /\ acc.state \in {"live", "deleting"})
        /\ \/ acc'.issued = acc.issued /\ UNCHANGED apc
           \/ acc'.issued /\ arec.entry["secret"] = "uid"
        /\ UNCHANGED <<arec, live>>
    <3>1. CASE AddAccessFinalizer
      BY <3>1, <1>a, Finalized DEF AddAccessFinalizer, PatchAccess, Issuable, Reconciled
    <3>2. CASE Announce
      <4>1. arec.entry["secret"] = "uid"
        BY <3>2, IssueNames, Zenon DEF Announce
      <4> QED BY <3>2, <4>1, <1>a, Issued DEF Announce, PatchAccess
    <3> QED BY <1>5, <3>1, <3>2
  <2>2. AccessType'
    BY <1>5, <1>a, <2>1 DEF AddAccessFinalizer, Announce, Goto, AccessType, Requests
  <2>3. Kept'
    BY <2>1 DEF SessionInv, Kept
  <2>4. Recorded'
    BY <2>1 DEF SessionInv, Recorded, Pending
  <2>5. Parts'
    BY <1>5, <2>1 DEF SessionInv, Parts, Revoking, AddAccessFinalizer, Announce, Goto, At
  <2>6. Announced'
    BY <2>1 DEF SessionInv, Announced
  <2> QED BY <2>2, <2>3, <2>4, <2>5, <2>6 DEF SessionInv
<1>6. CASE BeginIssue
  <2>1. arec' \in SessionRecords /\ arec'.exists /\ arec'.over = arec.over /\ arec'.entry = arec.entry
    BY <1>6, <1>a, Begun DEF BeginIssue, SaveAccess
  <2>2. apc' = "issue" /\ UNCHANGED <<acc, live>> /\ ~arec.over /\ acc.phase # "Revoked" /\ acc.fin
    BY <1>6 DEF BeginIssue, SaveAccess, Goto, Issuable, RevokeDue
  <2>a. acc.issued => arec.exists
    BY <1>6, <2>2 DEF BeginIssue, Issuable, Reconciled, Stranded
  <2>3. AccessType'
    BY <1>a, <2>1, <2>2 DEF AccessType, SessionRecords
  <2>4. Kept' /\ Recorded' /\ Parts'
    BY <2>1, <2>2 DEF SessionInv, Kept, Recorded, Parts, Pending, Revoking
  <2>5. Announced'
    BY <2>1, <2>2, <2>a DEF SessionInv, Announced
  <2> QED BY <2>3, <2>4, <2>5 DEF SessionInv
\* Entries and objects.
<1>7. ASSUME NEW y \in Things, NEW k \in {"intent", "uid", "deleted"}, Entry(y, k), UNCHANGED apc,
             arec.exists,
             k = "deleted" => y \notin live /\ arec.over,
             k = "uid" => y \in live,
             k = "intent" => arec.entry[y] = "none"
      PROVE  SessionInv'
  <2>1. /\ arec' \in SessionRecords /\ arec'.exists /\ arec'.over = arec.over /\ arec'.entry[y] = k
        /\ \A x \in Things : x # y => arec'.entry[x] = arec.entry[x]
        /\ UNCHANGED <<acc, live>>
    <3>1. arec' = [arec EXCEPT !.entry[y] = k] /\ UNCHANGED <<acc, live>>
      BY <1>7 DEF Entry, SaveAccess
    <3>2. k \in {"none", "intent", "uid", "deleted"}
      OBVIOUS
    <3> QED BY <1>7, <1>a, <3>1, <3>2, Noted
  <2>2. AccessType'
    BY <1>7, <1>a, <2>1 DEF AccessType, SessionRecords
  <2>3. Kept' /\ Parts'
    BY <1>7, <2>1 DEF SessionInv, Kept, Parts
  <2>5. Announced'
    BY <1>7, <2>1, IssueNames DEF SessionInv, Announced
  <2>4. Recorded'
    <3>1. live \subseteq Things /\ Identities \subseteq Things
      BY <1>a, IssueNames DEF AccessType, Identities
    <3>2. (\A x \in live : x # "secret" => Pending(x))'
      BY <1>7, <2>1, <3>1 DEF SessionInv, Recorded, Pending
    <3>3. (~arec.over => \A x \in Identities : arec.entry[x] = "uid" => x \in live)'
      BY <1>7, <2>1, <3>1 DEF SessionInv, Recorded
    <3>4. (~arec.over => \A x \in Things : arec.entry[x] # "deleted")'
      BY <1>7, <2>1 DEF SessionInv, Recorded
    <3>5. ("secret" \in live /\ ~arec.over => Identities \subseteq live)'
      BY <2>1 DEF SessionInv, Recorded
    <3> QED BY <3>2, <3>3, <3>4, <3>5 DEF Recorded
  <2> QED BY <2>2, <2>3, <2>4, <2>5 DEF SessionInv
<1>8. ASSUME NEW n \in 1 .. 5, IssueThing(n) PROVE SessionInv'
  <2>a. Issue[n] \in Things
    BY IssueNames
  <2> SUFFICES ASSUME NEW x \in Things, x = Issue[n] PROVE SessionInv'
    BY <2>a
  <2>1. arec.entry[x] \in {"none", "intent"} /\ UNCHANGED apc /\ apc = "issue"
    BY <1>8, <1>a, Zenon DEF IssueThing, At, SessionInv, Parts, Recorded, AccessType
  <2>2. arec.exists /\ ~arec.over /\ acc.phase # "Revoked"
    BY <2>1 DEF SessionInv, Parts
  <2>3. CASE Entry(x, "intent") /\ arec.entry[x] = "none"
    BY <2>1, <2>2, <2>3, <1>7
  <2>4. CASE Entry(x, "uid") /\ x \in live
    BY <2>1, <2>2, <2>4, <1>7
  <2>5. CASE SetLive(live \cup {x}) /\ (arec.entry[x] = "none" => x = "secret")
    <3>1. live' = live \cup {x} /\ UNCHANGED <<acc, arec, apc>>
      BY <2>1, <2>5 DEF SetLive
    <3>2. x = "secret" => Identities \subseteq live
      <4> SUFFICES ASSUME x = "secret" PROVE Identities \subseteq live
        OBVIOUS
      <4>1. n = 3
        BY IssueNames
      <4>2. arec.entry["account"] = "uid" /\ arec.entry["binding"] = "uid"
        BY <1>8, <4>1, IssueNames DEF IssueThing
      <4> QED BY <4>2, <2>2 DEF SessionInv, Recorded, Identities
    <3>3. AccessType'
      BY <1>a, <3>1 DEF AccessType
    <3>4. Kept' /\ Parts'
      BY <2>1, <2>2, <3>1 DEF SessionInv, Kept, Parts, Revoking
    <3>5. Recorded'
      BY <2>1, <2>2, <2>5, <3>1, <3>2 DEF SessionInv, Recorded, Pending
    <3>6. Announced'
      BY <3>1 DEF SessionInv, Announced
    <3> QED BY <3>3, <3>4, <3>5, <3>6 DEF SessionInv
  <2> QED BY <1>8, <2>3, <2>4, <2>5 DEF IssueThing
\* The revocation.
<1>9. CASE BeginRevoke \/ Misread \/ TokenRefused
  <2>1. CASE arec.exists
    <3>1. arec' \in {[arec EXCEPT !.over = TRUE], [arec EXCEPT !.over = TRUE, !.misread = TRUE]}
      BY <1>9, <2>1 DEF BeginRevoke, Misread, TokenRefused, SaveAccess
    <3>2. arec' \in SessionRecords /\ arec'.exists /\ arec'.over /\ arec'.entry = arec.entry
      BY <2>1, <3>1, <1>a, Condemned, Ending
    <3>3. apc' = "readers" /\ UNCHANGED <<acc, live>> /\ acc.state # "none"
      BY <1>9, <2>1 DEF BeginRevoke, Misread, TokenRefused, SaveAccess, Goto, SessionInv, Kept
    <3>4. AccessType'
      BY <1>a, <3>2, <3>3 DEF AccessType, SessionRecords
    <3>5. Kept' /\ Recorded' /\ Parts' /\ Announced'
      BY <2>1, <3>2, <3>3 DEF SessionInv, Kept, Recorded, Parts, Announced, Pending, Revoking
    <3> QED BY <3>4, <3>5 DEF SessionInv
  <2>2. CASE ~arec.exists
    <3>1. ~TokenRefused
      BY <2>2 DEF TokenRefused, At, SessionInv, Parts
    <3>2. apc' = "finish" /\ acc.state # "none" /\ UNCHANGED <<acc, arec, live>>
      BY <1>9, <2>2, <3>1 DEF BeginRevoke, Misread, Reconciled, PatchAccess, Goto
    <3> QED BY <2>2, <3>2 DEF SessionInv, AccessType, Kept, Recorded, Parts, Announced, Pending, Revoking
  <2> QED BY <2>1, <2>2
<1>10. ASSUME NEW gone \in SUBSET Things, live' = live \ gone, UNCHANGED arec, arec.over,
              \/ apc = "readers" /\ UNCHANGED <<acc, apc>>
              \/ apc = "secret" /\ gone = {"secret"} /\ apc' = "report" /\ UNCHANGED acc
              \/ apc = "identities" /\ apc' = "idle" /\ acc' = [acc EXCEPT !.phase = "Revoking"]
       PROVE  SessionInv'
  <2>1. /\ acc' \in Requests /\ acc'.state = acc.state /\ acc'.fin = acc.fin
        /\ acc'.phase \in {acc.phase, "Revoking"} /\ acc'.issued = acc.issued
    BY <1>10, <1>a, Patched DEF AccessType, Requests
  <2>2. AccessType'
    BY <1>10, <1>a, <2>1 DEF AccessType, Requests
  <2>3. Kept'
    BY <1>10, <2>1 DEF SessionInv, Kept
  <2>4. Recorded'
    BY <1>10 DEF SessionInv, Recorded, Pending
  <2>5. Parts' /\ Announced'
    BY <1>10, <2>1 DEF SessionInv, Parts, Announced, Revoking
  <2> QED BY <2>2, <2>3, <2>4, <2>5 DEF SessionInv
<1>11. ASSUME NEW x \in {"role", "rolebinding"}, RevokeReader(x) PROVE SessionInv'
  <2>1. {x} \in SUBSET Things /\ arec.over
    BY <1>11, IssueNames DEF RevokeReader, At, SessionInv, Parts, Revoking
  <2>2. live' = live \ {x} /\ apc = "readers" /\ UNCHANGED <<acc, arec, apc>>
    BY <1>11 DEF RevokeReader, At, SetLive
  <2> QED BY <2>1, <2>2, <1>10
<1>12. CASE ReadersRevoked
  <2> DEFINE entry == [x \in Things |-> IF x \in {"role", "rolebinding"} /\ Pending(x) THEN "deleted"
                                        ELSE arec.entry[x]]
  <2>1. arec' = [arec EXCEPT !.entry = entry] /\ UNCHANGED <<acc, live>> /\ apc = "readers" /\ apc' = "identities"
    BY <1>12 DEF ReadersRevoked, SaveAccess, At, Goto
  <2>2. entry \in [Things -> {"none", "intent", "uid", "deleted"}]
    BY <1>a DEF AccessType
  <2>3. arec' \in SessionRecords /\ arec'.exists = arec.exists /\ arec'.over = arec.over /\ arec'.entry = entry
    <3> HIDE DEF entry
    <3> QED BY <2>1, <2>2, <1>a DEF AccessType, SessionRecords
  <2>4. arec.over /\ arec.exists
    BY <2>1 DEF SessionInv, Parts, Revoking
  <2>5. "role" \notin live /\ "rolebinding" \notin live
    BY <1>12 DEF ReadersRevoked, SessionInv, Recorded
  <2>6. AccessType'
    BY <1>a, <2>1, <2>3 DEF AccessType, SessionRecords
  <2>7. Kept' /\ Parts' /\ Announced'
    BY <2>1, <2>3, <2>4, <2>5 DEF SessionInv, Kept, Parts, Announced, Revoking
  <2>8. \A x \in live : arec'.entry[x] = arec.entry[x]
    BY <2>3, <2>5, <1>a DEF AccessType
  <2>9. Recorded'
    BY <2>1, <2>3, <2>4, <2>8 DEF SessionInv, Recorded, Pending
  <2> QED BY <2>6, <2>7, <2>9 DEF SessionInv
<1>13. ASSUME NEW x \in Identities, RevokeIdentity(x) PROVE SessionInv'
  <2>1. x \in Things /\ {x} \in SUBSET Things /\ arec.over /\ arec.exists /\ apc = "identities"
    BY <1>13, IssueNames DEF RevokeIdentity, At, SessionInv, Parts, Revoking, Identities
  <2>2. CASE x \in live
    BY <1>13, <2>1, <2>2, <1>10 DEF RevokeIdentity, Goto
  <2>3. CASE x \notin live
    BY <1>13, <2>1, <2>3, <1>7 DEF RevokeIdentity
  <2> QED BY <2>2, <2>3
<1>14. CASE IdentitiesRevoked
  <2>1. apc = "identities" /\ apc' = "secret" /\ UNCHANGED <<acc, arec, live>> /\ \A x \in Identities : ~Pending(x)
    BY <1>14 DEF IdentitiesRevoked, At, Goto, SetLive
  <2>2. live \subseteq {"secret"}
    <3>1. live \subseteq Things
      BY <1>a DEF AccessType
    <3>2. \A x \in live : x # "secret" => Pending(x)
      BY DEF SessionInv, Recorded
    <3>3. live \cap Identities = {}
      BY <2>1, <3>2, IssueNames DEF Identities
    <3>4. live \cap {"role", "rolebinding"} = {}
      BY <2>1 DEF SessionInv, Parts
    <3> QED BY <3>1, <3>3, <3>4, IssueNames DEF Identities
  <2>3. AccessType' /\ Kept'
    BY <2>1 DEF SessionInv, AccessType, Kept
  <2>4. Recorded'
    BY <2>1 DEF SessionInv, Recorded, Pending
  <2>5. Parts' /\ Announced'
    BY <2>1, <2>2 DEF SessionInv, Parts, Announced, Revoking
  <2> QED BY <2>3, <2>4, <2>5 DEF SessionInv
<1>15. CASE RevokeSecret
  <2>1. {"secret"} \in SUBSET Things /\ arec.over
    BY <1>15, IssueNames DEF RevokeSecret, At, SessionInv, Parts, Revoking
  <2>2. live' = live \ {"secret"} /\ apc = "secret" /\ apc' = "report" /\ UNCHANGED <<acc, arec>>
    BY <1>15 DEF RevokeSecret, At, SetLive, Goto
  <2> QED BY <2>1, <2>2, <1>10
<1>16. CASE ForgetAccess \/ ForgetUnanswered
  <2>1. /\ apc = "forget" /\ arec' = NoRecord /\ UNCHANGED live
        /\ \/ UNCHANGED acc /\ apc' = "finish"
           \/ acc' = [acc EXCEPT !.phase = "Revoking"] /\ apc' = "idle"
    BY <1>16 DEF ForgetAccess, ForgetUnanswered, SaveAccess, At, Goto, FailurePhase
  <2>2. live = {} /\ acc.fin
    BY <2>1 DEF SessionInv, Parts, Kept
  <2>3. /\ acc' \in Requests /\ acc'.state = acc.state /\ acc'.fin = acc.fin
        /\ acc'.phase \in {acc.phase, "Revoking"} /\ acc'.issued = acc.issued
    BY <2>1, <1>a, Patched DEF AccessType, Requests
  <2>4. AccessType'
    BY <1>a, <2>1, <2>3, NoRecordType DEF AccessType, Requests, SessionRecords
  <2>5. Kept'
    BY <2>1, <2>2, <2>3 DEF SessionInv, Kept
  <2>6. Parts' /\ Announced'
    BY <2>1, <2>2, <2>3, NoRecordType DEF SessionInv, Parts, Announced, Kept, Revoking
  <2>7. Recorded'
    BY <2>1, <2>2, NoRecordType, IssueNames DEF Recorded, Identities
  <2> QED BY <2>4, <2>5, <2>6, <2>7 DEF SessionInv
<1>17. CASE FinishAccess
  <2>1. apc = "finish" /\ apc' = "idle" /\ UNCHANGED <<arec, live>> /\ ~arec.exists /\ live = {}
    BY <1>17 DEF FinishAccess, At, Goto, PatchAccess, SessionInv, Parts, Kept
  <2>2. acc.state # "none"
    BY <2>1 DEF SessionInv, Parts
  <2>3. /\ acc' \in Requests /\ ~acc'.fin /\ acc'.phase \in {acc.phase, "Revoked"}
        /\ acc'.issued = acc.issued
        /\ acc'.state = IF acc.state = "deleting" THEN "gone" ELSE acc.state
    BY <1>17, <1>a DEF FinishAccess, PatchAccess, AccessType, Requests
  <2>4. AccessType'
    BY <1>a, <2>1, <2>3 DEF AccessType, Requests
  <2>5. Kept' /\ Recorded' /\ Parts' /\ Announced'
    BY <2>1, <2>2, <2>3 DEF SessionInv, Kept, Recorded, Parts, Announced, Pending, Revoking
  <2> QED BY <2>4, <2>5 DEF SessionInv
<1> QED BY <1>2, <1>4, <1>5, <1>6, <1>8, <1>9, <1>11, <1>12, <1>13, <1>14, <1>15, <1>16, <1>17, IssueNames
        DEF AccessWorker, AccessFails

\* What the session's worker changes for the runner and the replica.
LEMMA SessionEffect ==
  ASSUME SessionInv, AccessWorker \/ AccessFails
  PROVE  /\ UNCHANGED <<replica, withdrawn>>
         /\ acc'.state = acc.state \/ (acc.state = "deleting" /\ acc'.state = "gone")
         /\ arec'.exists => arec.exists \/ replica = "ready"
         /\ acc.issued => acc'.issued
         /\ acc'.issued => acc.issued \/ ~arec'.over
         /\ arec'.over => \/ arec.over /\ arec'.misread = arec.misread
                          \/ withdrawn \/ replica \in {"inactive", "ending", "gone"}
                          \/ acc.state = "deleting" \/ arec'.misread \/ ~acc.issued
         /\ ~(live \subseteq live') => arec.over
         /\ faults \in 0 .. MaxFaults => faults' \in 0 .. MaxFaults
<1>a. AccessType /\ AccessType'
  BY SessionStep DEF SessionInv
<1>b. (arec.exists /\ acc.phase = "Revoked" => arec.over) /\ (apc = "issue" => ~arec.over)
  BY DEF SessionInv, Parts
<1>c. ~NoRecord.exists /\ ~NoRecord.over
  BY NoRecordType
<1>1. CASE ReportStranded \/ ReportReady \/ ReportRevoked \/ AddAccessFinalizer \/ Announce \/ FinishAccess
  <2>1. Still /\ UNCHANGED <<arec, live>>
    BY <1>1 DEF ReportStranded, ReportReady, ReportRevoked, AddAccessFinalizer, Announce, FinishAccess,
       PatchAccess
  <2>2. acc'.state = acc.state \/ (acc.state = "deleting" /\ acc'.state = "gone")
    BY <1>1, <1>a DEF ReportStranded, ReportReady, ReportRevoked, AddAccessFinalizer, Announce, FinishAccess,
       PatchAccess, AccessType
  <2>3. acc'.issued = acc.issued \/ (acc'.issued = TRUE /\ apc = "issue")
    <3>1. CASE ReportStranded \/ ReportReady \/ ReportRevoked
      BY <3>1, <1>a, Patched DEF ReportStranded, ReportReady, ReportRevoked, PatchAccess
    <3>2. CASE AddAccessFinalizer
      BY <3>2, <1>a, Finalized DEF AddAccessFinalizer, PatchAccess
    <3>3. CASE Announce
      BY <3>3, <1>a, Issued DEF Announce, PatchAccess, At
    <3>4. CASE FinishAccess
      BY <3>4, <1>a DEF FinishAccess, PatchAccess, AccessType
    <3> QED BY <1>1, <3>1, <3>2, <3>3, <3>4
  <2> QED BY <2>1, <2>2, <2>3, <1>b DEF Still
<1>2. CASE AccessFault \/ LoadFails
  <2>1. UNCHANGED <<replica, withdrawn, arec, live>> /\ faults < MaxFaults /\ faults' = faults + 1
    BY <1>2 DEF AccessFault, LoadFails, OneFault
  <2>2. acc'.state = acc.state /\ acc'.issued = acc.issued
    BY <1>2, <1>a DEF AccessFault, LoadFails, AccessType
  <2> QED BY <2>1, <2>2, ConstantsAssumption
<1>3. CASE ForgetUnanswered
  <2>1. UNCHANGED <<replica, withdrawn, live>> /\ faults < MaxFaults /\ faults' = faults + 1 /\ arec' = NoRecord
    BY <1>3 DEF ForgetUnanswered, OneFault
  <2>2. acc'.state = acc.state /\ acc'.issued = acc.issued
    BY <1>3, <1>a DEF ForgetUnanswered, AccessType
  <2> QED BY <2>1, <2>2, <1>c, ConstantsAssumption
<1>4. CASE ForgetAccess
  BY <1>4, <1>c DEF ForgetAccess, SaveAccess, Still
<1>5. CASE BeginIssue
  <2>1. arec'.exists /\ arec'.over = arec.over
    BY <1>5, <1>a, Begun DEF BeginIssue, SaveAccess
  <2> QED BY <1>5, <2>1 DEF BeginIssue, SaveAccess, Still, Issuable, RevokeDue
<1>6. CASE BeginRevoke
  <2>1. CASE arec.exists
    <3>1. arec'.exists = arec.exists /\ arec'.misread = arec.misread
      BY <1>6, <2>1, <1>a, Ending DEF BeginRevoke, SaveAccess
    <3> QED BY <1>6, <2>1, <3>1, <1>b DEF BeginRevoke, SaveAccess, Still, RevokeDue
  <2>2. CASE ~arec.exists
    BY <1>6, <2>2 DEF BeginRevoke, PatchAccess, Still
  <2> QED BY <2>1, <2>2
<1>14. CASE Misread
  <2>1. UNCHANGED <<replica, withdrawn, acc, live>> /\ faults < MaxFaults /\ faults' = faults + 1
    BY <1>14 DEF Misread, OneFault
  <2>2. arec' = arec \/ (arec'.exists = arec.exists /\ arec'.misread)
    BY <1>14, <1>a, Condemned DEF Misread
  <2> QED BY <2>1, <2>2, ConstantsAssumption
<1>15. CASE TokenRefused
  <2>1. arec'.exists = arec.exists /\ Still /\ UNCHANGED <<acc, live>>
    BY <1>15, <1>a, Ending DEF TokenRefused, SaveAccess
  <2>2. ~acc.issued
    <3>1. arec.entry["secret"] # "uid" /\ apc = "issue"
      BY <1>15 DEF TokenRefused, At
    <3> QED BY <3>1 DEF SessionInv, Parts, Announced
  <2> QED BY <2>1, <2>2 DEF Still
<1>7. CASE ReadersRevoked
  BY <1>7, <1>a DEF ReadersRevoked, SaveAccess, Still, AccessType
<1>8. CASE IdentitiesRevoked \/ RevokeSecret
  <2>1. arec.over \/ IdentitiesRevoked
    BY <1>8 DEF RevokeSecret, At, SessionInv, Parts, Revoking
  <2> QED BY <1>8, <2>1 DEF IdentitiesRevoked, RevokeSecret, SetLive, Still
<1>9. ASSUME NEW x \in {"role", "rolebinding"}, RevokeReader(x) PROVE arec.over /\ SetLive(live \ {x})
  BY <1>9 DEF RevokeReader, At, SessionInv, Parts, Revoking
<1>10. ASSUME NEW y \in Things, NEW k \in {"none", "intent", "uid", "deleted"}, Entry(y, k)
       PROVE  /\ arec'.exists = arec.exists /\ arec'.over = arec.over /\ arec'.misread = arec.misread
              /\ Still /\ UNCHANGED <<acc, live>>
  BY <1>10, <1>a, Noted DEF Entry, SaveAccess
<1>11. ASSUME NEW x \in Identities, RevokeIdentity(x)
       PROVE  /\ arec.over /\ arec'.exists = arec.exists /\ arec'.over = arec.over
              /\ arec'.misread = arec.misread
              /\ Still /\ acc'.state = acc.state /\ acc'.issued = acc.issued
  <2>1. x \in Things
    BY IssueNames DEF Identities
  <2>2. arec.over
    BY <1>11 DEF RevokeIdentity, At, SessionInv, Parts, Revoking
  <2>3. CASE x \in live
    BY <1>11, <2>2, <2>3, <1>a DEF RevokeIdentity, AccessType
  <2>4. CASE x \notin live
    BY <1>11, <2>1, <2>2, <2>4, <1>10 DEF RevokeIdentity
  <2> QED BY <2>3, <2>4
<1>12. ASSUME NEW n \in 1 .. 5, IssueThing(n)
       PROVE  /\ arec'.exists = arec.exists /\ arec'.over = arec.over /\ arec'.misread = arec.misread
              /\ Still /\ UNCHANGED acc
              /\ live \subseteq live'
  <2>1. Issue[n] \in Things
    BY IssueNames
  <2>2. CASE Entry(Issue[n], "intent") \/ Entry(Issue[n], "uid")
    BY <2>1, <2>2, <1>10
  <2>3. CASE SetLive(live \cup {Issue[n]})
    BY <2>3 DEF SetLive
  <2> QED BY <1>12, <2>2, <2>3 DEF IssueThing
<1>13. CASE AccessWorker
  <2>1. CASE \E n \in DOMAIN Issue : IssueThing(n)
    BY <2>1, <1>12, IssueNames DEF Still
  <2>2. CASE \E x \in {"role", "rolebinding"} : RevokeReader(x)
    BY <2>2, <1>9 DEF SetLive, Still
  <2>3. CASE \E x \in Identities : RevokeIdentity(x)
    BY <2>3, <1>11 DEF Still
  <2> QED BY <1>13, <1>1, <1>4, <1>5, <1>6, <1>7, <1>8, <1>15, <2>1, <2>2, <2>3 DEF AccessWorker
<1> QED BY <1>2, <1>3, <1>13, <1>14 DEF AccessFails
-----------------------------------------------------------------------------
\* The run.

\* The runner goes on, and nothing else it knows changes.
LEMMA RunMoved ==
  ASSUME TypeOK, NEW part \in RunParts, run' = [run EXCEPT !.pc = part]
  PROVE  /\ run' \in Runs /\ run'.pc = part
         /\ run'.exp = run.exp /\ run'.access = run.access
         /\ run'.lease = run.lease /\ run'.session = run.session
BY DEF TypeOK, Runs, RunParts

\* The session's steps.
LEMMA SessionRun ==
  ASSUME RunInv, AccessWorker \/ AccessFails, UNCHANGED <<others, cluster, runner>>
  PROVE  RunInv'
<1>1. SessionInv'
  BY SessionStep DEF RunInv
<1>2. /\ UNCHANGED <<replica, withdrawn>>
      /\ acc'.state = acc.state \/ (acc.state = "deleting" /\ acc'.state = "gone")
      /\ arec'.exists => arec.exists \/ replica = "ready"
      /\ acc.issued => acc'.issued
      /\ acc'.issued => acc.issued \/ ~arec'.over
      /\ arec'.over => \/ arec.over /\ arec'.misread = arec.misread
                       \/ withdrawn \/ replica \in {"inactive", "ending", "gone"}
                       \/ acc.state = "deleting" \/ arec'.misread \/ ~acc.issued
      /\ faults' \in 0 .. MaxFaults
  BY SessionEffect DEF RunInv, TypeOK
<1>3. TypeOK'
  BY <1>1, <1>2 DEF RunInv, SessionInv, others, cluster, runner, TypeOK
<1>4. Asked' /\ Waited' /\ Told' /\ Faulty'
  BY <1>2 DEF RunInv, Asked, Waited, Told, Faulty, Removed, others, cluster, runner
<1>5. arec'.over => arec'.exists /\ acc'.fin
  BY <1>1, NoRecordType DEF SessionInv, Kept
<1>6. Justified'
  <2>1. acc'.fin => acc'.state \in {"live", "deleting"}
    BY <1>1 DEF SessionInv, Kept
  <2>2. arec'.exists => replica \in {"ready", "inactive", "ending"}
    BY <1>2 DEF RunInv, Justified
  <2>3. ASSUME arec'.over
        PROVE  \/ withdrawn \/ replica \in {"inactive", "ending"} \/ acc'.state = "deleting"
               \/ arec'.misread \/ ~acc'.issued
    <3>1. acc.state = "deleting" => acc'.state = "deleting"
      BY <1>2, <1>5, <2>1, <2>3
    <3>2. replica # "gone"
      BY <1>5, <2>2, <2>3
    <3>3. acc'.issued => acc.issued
      BY <1>2, <2>3
    <3>4. CASE arec.over /\ arec'.misread = arec.misread
      BY <3>1, <3>3, <3>4 DEF RunInv, Justified
    <3> QED BY <1>2, <2>3, <3>1, <3>2, <3>3, <3>4
  <2> QED BY <1>2, <2>2, <2>3 DEF RunInv, Justified, Removed, cluster, runner
<1> QED BY <1>1, <1>3, <1>4, <1>6 DEF RunInv

\* What others, the clock, and the controllers of the replica and of the
\* experiment do.
LEMMA OthersRun ==
  ASSUME RunInv, Change \/ Expire \/ Provision \/ Experiment \/ Teardown
  PROVE  RunInv'
<1> USE DEF RunInv, Asked, Waited, Told, Faulty, Justified, Removed, others, cluster, runner, access
<1>a. TypeOK /\ SessionInv
  OBVIOUS
<1>1. CASE Change
  <2>1. SessionInv'
    BY <1>1, SessionAlone DEF Change
  <2>2. UNCHANGED <<acc, arec, live, apc, faults, recipe, exp, run, cmd, guard, report>>
    BY <1>1 DEF Change
  <2>3. /\ replica' = replica \/ (replica = "ready" /\ replica' \in {"inactive", "ending"})
        /\ effect' = effect \/ (effect # "none" /\ effect' \in {"active", "blocked"})
        /\ req' = req \/ (req = "live" /\ req' = "deleting")
        /\ hold' = hold \/ hold' \in {"none", "other"}
        /\ withdrawn' = withdrawn \/ withdrawn' = TRUE
        /\ revised' = revised \/ revised' = TRUE
        /\ changes < MaxChanges /\ changes' = changes + 1
    BY <1>1 DEF Change
  <2>4. TypeOK'
    <3>1. changes' \in 0 .. MaxChanges
      BY <2>3, ConstantsAssumption DEF TypeOK
    <3>2. withdrawn' \in BOOLEAN /\ revised' \in BOOLEAN
      BY <2>3, Zenon DEF TypeOK
    <3>3. replica' \in {"none", "ready", "inactive", "ending", "gone"}
      BY <2>3, Zenon DEF TypeOK
    <3>4. req' \in {"none", "live", "deleting", "gone"} /\ hold' \in {"none", "run", "other"}
      BY <2>3, Zenon DEF TypeOK
    <3>5. effect' \in {"none", "active", "blocked"}
      BY <2>3, Zenon DEF TypeOK
    <3> QED BY <2>1, <2>2, <3>1, <3>2, <3>3, <3>4, <3>5 DEF SessionInv, TypeOK
  <2>5. (Asked /\ Waited /\ Told /\ Faulty)'
    BY <2>2, <2>3
  <2>6. Justified'
    BY <2>2, <2>3
  <2> QED BY <2>1, <2>4, <2>5, <2>6
<1>2. CASE Expire \/ Provision
  <2>1. SessionInv'
    BY <1>2, SessionAlone DEF Expire, Provision
  <2>2. /\ req = "live" /\ replica' \in {"ready", "ending"} /\ (replica' = "ending" \/ replica = "none")
        /\ replica # "gone"
        /\ UNCHANGED <<withdrawn, faults, recipe, changes, hold, revised, run, cmd, guard, report, req,
                       acc, arec, live, apc, exp, effect>>
    BY <1>2 DEF Expire, Provision, Rest
  <2>3. TypeOK'
    BY <2>1, <2>2 DEF SessionInv, TypeOK
  <2> QED BY <2>1, <2>2, <2>3
<1>3. CASE Experiment
  <2>1. SessionInv'
    BY <1>3, SessionAlone DEF Experiment
  <2>2. /\ UNCHANGED <<withdrawn, faults, recipe, changes, hold, revised, run, cmd, guard, report, req,
                       acc, arec, live, apc, replica>>
        /\ exp \notin {"none", "gone", "orphaned"}
        /\ exp' \in {"intended", "Refused", "Preparing", "Active", "Blocked", "Completed", "Failed", "gone"}
        /\ effect' \in {effect, "none", "active"}
    BY <1>3 DEF Experiment, Rest
  <2>3. effect' # "none" => exp' \in {"Preparing", "Active", "Blocked"}
    BY <1>3 DEF Experiment
  <2>4. exp \in {"new", "Refused"} => replica = "ready" \/ exp' = "Refused"
    BY <1>3 DEF Experiment
  <2>5. TypeOK'
    BY <2>1, <2>2 DEF SessionInv, TypeOK
  <2>6. (Asked /\ Waited /\ Told)'
    BY <2>2
  <2>7. (Faulty /\ Justified)'
    BY <2>2, <2>3, <2>4
  <2> QED BY <2>1, <2>5, <2>6, <2>7
<1>4. CASE Teardown
  <2>1. UNCHANGED <<withdrawn, faults, recipe, changes, hold, revised, run, cmd, guard, report, arec, live, apc, effect>>
    BY <1>4 DEF Teardown, Rest
  <2>2. CASE UNCHANGED acc
    <3>1. SessionInv'
      BY <2>1, <2>2, SessionAlone
    <3>2. \/ req' = req /\ exp' = exp /\ replica # "gone" /\ req # "gone" /\ replica' = "ending"
          \/ UNCHANGED <<req, replica>> /\ replica # "gone" /\ StopExperiment
          \/ /\ UNCHANGED <<req, exp>> /\ acc.state \in {"none", "gone"} /\ exp \in {"none", "gone"}
             /\ replica' = "gone"
          \/ UNCHANGED <<replica, exp>> /\ replica = "gone" /\ req = "deleting" /\ req' = "gone"
      BY <1>4, <2>2 DEF Teardown
    <3>a. StopExperiment =>
            /\ exp \notin {"none", "gone", "orphaned"} /\ exp' \in {"gone", "orphaned", "deleting"}
            /\ effect # "none" => exp' = "deleting"
      BY DEF StopExperiment
    <3>3. TypeOK'
      BY <2>1, <3>1, <3>2, <3>a DEF SessionInv, TypeOK
    <3>4. acc.state \in {"none", "gone"} => ~arec.exists /\ ~arec.over
      BY NoRecordType DEF SessionInv, Kept
    <3>5. (Asked /\ Waited /\ Told /\ Faulty)'
      BY <2>1, <2>2, <3>2, <3>a
    <3>6. Justified'
      BY <2>1, <2>2, <3>2, <3>4, <3>a
    <3> QED BY <3>1, <3>3, <3>5, <3>6
  <2>3. CASE acc.state = "live" /\ DeleteAccess /\ replica = "ending" /\ UNCHANGED <<replica, req, exp>>
    <3>1. SessionInv'
      BY <2>1, <2>3, SessionMoved
    <3>2. acc'.state \in {"deleting", "gone"} /\ acc'.issued = acc.issued
      BY <2>3 DEF DeleteAccess, SessionInv, AccessType
    <3>3. TypeOK'
      BY <2>1, <2>3, <3>1 DEF SessionInv, TypeOK
    <3> QED BY <2>1, <2>3, <3>1, <3>2, <3>3
  <2> QED BY <1>4, <2>2, <2>3 DEF Teardown
<1> QED BY <1>1, <1>2, <1>3, <1>4

\* The runner's own steps, while the cluster stays as it is.
Watching ==
  /\ UNCHANGED <<replica, withdrawn, access, faults, others, cluster>>
  /\ run' \in Runs /\ report' \in Reports
  /\ cmd' \in {"none", "running", "passed", "failed", "stopped"}
  /\ guard' \in {"off", "on", "fired"}

LEMMA WatchingTyped ==
  ASSUME RunInv, Watching
  PROVE  SessionInv' /\ TypeOK'
<1>1. SessionInv'
  BY SessionAlone DEF RunInv, Watching
<1>2. TypeOK'
  BY <1>1 DEF RunInv, SessionInv, TypeOK, Watching, Runs, RunParts, Reports, others, cluster
<1> QED BY <1>1, <1>2

\* ... from one part to the next, with nothing new to report.
LEMMA Passing ==
  ASSUME RunInv, NEW part \in RunParts, Only([run EXCEPT !.pc = part]), UNCHANGED report,
         cmd' \in {"none", "running", "passed", "failed", "stopped"}, guard' \in {"off", "on", "fired"}
  PROVE  /\ Watching
         /\ run'.pc = part /\ run'.exp = run.exp /\ run'.access = run.access
         /\ run'.lease = run.lease /\ run'.session = run.session
<1>1. run' = [run EXCEPT !.pc = part]
  BY DEF Only
<1> QED BY <1>1, RunMoved DEF RunInv, TypeOK, Only, World, Watching, Reports, access

\* Run, up to the test.
LEMMA SetupRun ==
  ASSUME RunInv, \/ CreateRequest \/ WaitReplica \/ HoldLease \/ CreateAccess \/ WaitAccess \/ OpenSession
                 \/ CreateExperiment \/ WaitExperiment \/ FailSetup
  PROVE  RunInv'
<1> USE DEF Asked, Waited, Told, Faulty, Justified, Removed, Closing, Ended, RunParts
<1>a. /\ TypeOK /\ SessionInv /\ Asked /\ Waited /\ Told /\ Faulty /\ Justified
      /\ run \in Runs /\ report \in Reports
  BY DEF RunInv, TypeOK, Runs, RunParts, Reports
<1>1. CASE WaitAccess \/ WaitExperiment \/ FailSetup
  <2>1. PICK part \in {"session", "stable", "close"} :
          /\ Only([run EXCEPT !.pc = part]) /\ UNCHANGED <<cmd, guard, report>>
          /\ part = "session" => run.pc = "credential" /\ acc.phase = "Ready"
          /\ part = "stable" => run.pc = "faults"
          /\ part = "close" => run.pc \in {"replica", "lease", "access", "credential", "session", "chaos",
                                           "faults", "stable"}
    BY <1>1 DEF WaitAccess, WaitExperiment, FailSetup, Doing
  <2>2. part \in RunParts
    BY DEF RunParts
  <2>a. part = "session" => acc.issued
    BY <2>1, <1>a DEF SessionInv, Announced
  <2>3. /\ Watching
        /\ run'.pc = part /\ run'.exp = run.exp /\ run'.access = run.access
        /\ run'.lease = run.lease /\ run'.session = run.session
    BY <2>1, <2>2, <1>a, Passing DEF TypeOK
  <2>4. SessionInv' /\ TypeOK'
    BY <2>3, WatchingTyped
  <2>5. (Asked /\ Waited /\ Told /\ Faulty /\ Justified)'
    BY <2>1, <2>a, <2>3, <1>a DEF Watching, access, others, cluster
  <2> QED BY <2>4, <2>5 DEF RunInv
<1>2. CASE CreateRequest
  <2>1. PICK part \in {"replica", "done"} : run' = [run EXCEPT !.pc = part]
    BY <1>2 DEF CreateRequest, Then
  <2>2. /\ run' \in Runs /\ run'.pc = part /\ run'.exp = run.exp /\ run'.access = run.access
        /\ run'.lease = run.lease /\ run'.session = run.session
    BY <2>1, <1>a, RunMoved DEF RunParts
  <2>3. /\ report' \in Reports /\ report'.test = report.test
        /\ report'.cleanup \in {report.cleanup, "Unverified"}
    BY <1>2, <1>a DEF CreateRequest, Reports
  <2>4. /\ run.pc = "create" /\ req' \in {"none", "live"} /\ req = "none"
        /\ UNCHANGED <<replica, withdrawn, acc, arec, live, apc, recipe, changes, effect, hold, exp, revised,
                       cmd, guard>>
    BY <1>2, <1>a DEF CreateRequest, Doing, World, others
  <2>5. faults' \in 0 .. MaxFaults
    BY <1>2, ConstantsAssumption, <1>a DEF CreateRequest, Answered, Lost, OneFault, TypeOK
  <2>6. SessionInv'
    BY <2>4, <1>a, SessionAlone DEF access
  <2>7. TypeOK'
    BY <2>2, <2>3, <2>4, <2>5, <2>6, <1>a DEF TypeOK, SessionInv, Runs, RunParts, Reports
  <2>8. (Asked /\ Waited /\ Told /\ Faulty /\ Justified)'
    BY <2>2, <2>3, <2>4, <1>a
  <2> QED BY <2>6, <2>7, <2>8 DEF RunInv
<1>3. CASE WaitReplica
  <2>1. PICK part \in {"lease", "access"} : run' = [run EXCEPT !.pc = part]
    BY <1>3 DEF WaitReplica, Then
  <2>2. /\ run' \in Runs /\ run'.pc = part /\ run'.exp = run.exp /\ run'.access = run.access
        /\ run'.lease = run.lease /\ run'.session = run.session
    BY <2>1, <1>a, RunMoved
  <2>3. /\ run.pc = "replica" /\ replica = "ready" /\ revised' \in BOOLEAN
        /\ UNCHANGED <<replica, withdrawn, acc, arec, live, apc, recipe, changes, effect, faults, req, hold, exp,
                       cmd, guard, report>>
    BY <1>3 DEF WaitReplica, Doing, World, others
  <2>4. SessionInv'
    BY <2>3, <1>a, SessionAlone DEF access
  <2>5. TypeOK'
    BY <2>2, <2>3, <2>4, <1>a DEF TypeOK, SessionInv, Runs
  <2>6. (Asked /\ Waited /\ Told /\ Faulty /\ Justified)'
    BY <2>2, <2>3, <1>a
  <2> QED BY <2>4, <2>5, <2>6 DEF RunInv
<1>4. CASE HoldLease
  <2>1. /\ run' \in Runs /\ run'.exp = run.exp /\ run'.access = run.access /\ run'.session = run.session
        /\ \/ run'.pc = "access" /\ run'.lease = TRUE
           \/ run'.pc = "close" /\ run'.lease = run.lease
    BY <1>4, <1>a DEF HoldLease, Then, Runs
  <2>2. /\ run.pc = "lease" /\ hold' \in {"none", "run"} /\ hold = "none"
        /\ UNCHANGED <<replica, withdrawn, acc, arec, live, apc, recipe, changes, effect, req, exp, revised,
                       cmd, guard, report>>
    BY <1>4 DEF HoldLease, Doing, World, others
  <2>3. faults' \in 0 .. MaxFaults
    BY <1>4, ConstantsAssumption, <1>a DEF HoldLease, Answered, Lost, OneFault, TypeOK
  <2>4. SessionInv'
    BY <2>2, <1>a, SessionAlone DEF access
  <2>5. TypeOK'
    BY <2>1, <2>2, <2>3, <2>4, <1>a DEF TypeOK, SessionInv, Runs
  <2>6. (Asked /\ Waited /\ Told /\ Faulty /\ Justified)'
    BY <2>1, <2>2, <1>a
  <2> QED BY <2>4, <2>5, <2>6 DEF RunInv
<1>5. CASE CreateAccess
  <2>1. /\ run' \in Runs /\ run'.exp = run.exp /\ run'.lease = run.lease /\ run'.session = run.session
        /\ run'.access \in {"uid", "maybe"} /\ run'.pc \in {"credential", "close"}
    BY <1>5, <1>a DEF CreateAccess, Runs, Known
  <2>2. /\ run.pc = "access" /\ acc.state = "none"
        /\ UNCHANGED <<replica, withdrawn, arec, live, apc, recipe, changes, effect, req, hold, exp, revised,
                       cmd, guard, report>>
    BY <1>5, <1>a DEF CreateAccess, Doing, World, others, cluster
  <2>3. faults' \in 0 .. MaxFaults
    BY <1>5, ConstantsAssumption, <1>a DEF CreateAccess, Answered, Lost, OneFault, TypeOK
  <2>4. acc' = acc \/ acc' = [acc EXCEPT !.state = "live"]
    BY <1>5, Zenon DEF CreateAccess
  <2>5. SessionInv' /\ acc'.state \in {"none", "live"} /\ acc'.issued = acc.issued
    <3>1. CASE acc' = acc
      BY <3>1, <2>2, <1>a, SessionAlone DEF access
    <3>2. CASE acc' = [acc EXCEPT !.state = "live"]
      BY <3>2, <2>2, <1>a, SessionMoved, Moved DEF SessionInv
    <3> QED BY <2>4, <3>1, <3>2
  <2>6. TypeOK'
    BY <2>1, <2>2, <2>3, <2>5, <1>a DEF TypeOK, SessionInv, Runs
  <2>7. (Asked /\ Waited /\ Told /\ Faulty /\ Justified)'
    BY <2>1, <2>2, <2>5, <1>a
  <2> QED BY <2>5, <2>6, <2>7 DEF RunInv
<1>6. CASE OpenSession
  <2>1. /\ run' \in Runs /\ run'.exp = run.exp /\ run'.access = run.access /\ run'.lease = run.lease
        /\ run'.pc \in {"chaos", "stable"}
    BY <1>6, <1>a DEF OpenSession, Only, Runs
  <2>2. Watching /\ run.pc = "session" /\ UNCHANGED report
    BY <1>6, <2>1, <1>a DEF OpenSession, Only, World, Doing, Watching, access, TypeOK, Reports
  <2>3. SessionInv' /\ TypeOK'
    BY <2>2, WatchingTyped
  <2>4. (Asked /\ Waited /\ Told /\ Faulty /\ Justified)'
    BY <2>1, <2>2, <1>a DEF Watching, access, others, cluster
  <2> QED BY <2>3, <2>4 DEF RunInv
<1>7. CASE CreateExperiment
  <2>1. /\ run' \in Runs /\ run'.access = run.access /\ run'.lease = run.lease /\ run'.session = run.session
        /\ run'.exp \in {"uid", "maybe"} /\ run'.pc \in {"faults", "close"}
    BY <1>7, <1>a DEF CreateExperiment, Runs, Known
  <2>2. /\ run.pc = "chaos" /\ exp = "none" /\ exp' \in {"none", "new"}
        /\ UNCHANGED <<replica, withdrawn, acc, arec, live, apc, recipe, changes, effect, req, hold, revised,
                       cmd, guard, report>>
    BY <1>7, <1>a DEF CreateExperiment, Doing, World, others
  <2>3. faults' \in 0 .. MaxFaults
    BY <1>7, ConstantsAssumption, <1>a DEF CreateExperiment, Answered, Lost, OneFault, TypeOK
  <2>4. SessionInv'
    BY <2>2, <1>a, SessionAlone DEF access
  <2>5. TypeOK'
    BY <2>1, <2>2, <2>3, <2>4, <1>a DEF TypeOK, SessionInv, Runs
  <2>6. (Asked /\ Waited /\ Told /\ Faulty /\ Justified)'
    BY <2>1, <2>2, <1>a
  <2> QED BY <2>4, <2>5, <2>6 DEF RunInv
<1> QED BY <1>1, <1>2, <1>3, <1>4, <1>5, <1>6, <1>7

\* Run, the test command and the watch over its environment.
LEMMA TestingRun ==
  ASSUME RunInv, StartTest \/ Execute \/ Guard \/ TestEnds \/ Interrupt
  PROVE  RunInv'
<1> USE DEF Asked, Waited, Told, Faulty, Justified, Removed, Closing, Ended, RunParts
<1>a. /\ TypeOK /\ SessionInv /\ Asked /\ Waited /\ Told /\ Faulty /\ Justified
      /\ run \in Runs /\ report \in Reports
  BY DEF RunInv, TypeOK, Runs, RunParts, Reports
<1>1. /\ run' \in Runs /\ run'.exp = run.exp /\ run'.access = run.access
      /\ run'.lease = run.lease /\ run'.session = run.session
      /\ \/ run.pc = "stable" /\ run'.pc = "test" /\ report'.test = report.test
         \/ run.pc = "test" /\ run'.pc = "test" /\ report'.test = report.test
         \/ run.pc = "test" /\ run'.pc = "close"
  <2>1. CASE StartTest
    BY <2>1, <1>a DEF StartTest, Doing, Only, Runs, Reports
  <2>2. CASE Execute \/ Guard
    BY <2>2, <1>a DEF Execute, Guard, Doing, Only
  <2>3. CASE TestEnds \/ Interrupt
    BY <2>3, <1>a DEF TestEnds, Interrupt, Doing, Only, Runs
  <2> QED BY <2>1, <2>2, <2>3
<1>2. report' \in Reports /\ report'.cleanup = report.cleanup
  BY <1>a DEF StartTest, Execute, Guard, TestEnds, Interrupt, Reports
<1>3. cmd' \in {"none", "running", "passed", "failed", "stopped"} /\ guard' \in {"off", "on", "fired"}
  BY <1>a DEF StartTest, Execute, Guard, TestEnds, Interrupt, TypeOK
<1>4. Watching
  BY <1>1, <1>2, <1>3 DEF StartTest, Execute, Guard, TestEnds, Interrupt, Only, World, Watching, access
<1>5. SessionInv' /\ TypeOK'
  BY <1>4, WatchingTyped
<1>6. (Asked /\ Waited /\ Told /\ Faulty /\ Justified)'
  BY <1>1, <1>2, <1>4, <1>a DEF Watching, access, others, cluster
<1> QED BY <1>5, <1>6 DEF RunInv

\* Run, the deferred cleanup, and the end of the process.
LEMMA ClosingRun ==
  ASSUME RunInv, \/ Close \/ GiveUp \/ DeleteExperiment \/ RolledBack \/ DeleteSession \/ Revoked
                 \/ ReleaseLease \/ Released \/ Retain \/ NoRetention \/ DeleteRequest \/ Deleted \/ Kill
  PROVE  RunInv'
<1> USE DEF Asked, Waited, Told, Faulty, Justified, Removed, Closing, Ended, RunParts
<1>a. /\ TypeOK /\ SessionInv /\ Asked /\ Waited /\ Told /\ Faulty /\ Justified
      /\ run \in Runs /\ report \in Reports
  BY DEF RunInv, TypeOK, Runs, RunParts, Reports
<1>1. CASE RolledBack \/ Revoked \/ Released \/ NoRetention
  <2>1. PICK part \in {"revoke", "release", "retain", "delete"} :
          /\ Only([run EXCEPT !.pc = part]) /\ UNCHANGED <<cmd, guard, report>>
          /\ part = "revoke" => run.pc = "rollback" /\ (run.exp = "no" \/ Removed)
          /\ part = "release" => run.pc = "revoke" /\ (run.access = "no" \/ acc.state = "gone")
          /\ part = "retain" => run.pc = "release" /\ (~run.lease \/ hold = "none" \/ req = "gone")
          /\ part = "delete" => run.pc = "retain"
    BY <1>1 DEF RolledBack, Revoked, Released, NoRetention, Step, Doing
  <2>2. part \in RunParts
    OBVIOUS
  <2>3. /\ Watching
        /\ run'.pc = part /\ run'.exp = run.exp /\ run'.access = run.access
        /\ run'.lease = run.lease /\ run'.session = run.session
    BY <2>1, <2>2, <1>a, Passing DEF TypeOK
  <2>4. SessionInv' /\ TypeOK'
    BY <2>3, WatchingTyped
  <2>5. (Asked /\ Waited /\ Told /\ Faulty /\ Justified)'
    BY <2>1, <2>3, <1>a DEF Watching, access, others, cluster
  <2> QED BY <2>4, <2>5 DEF RunInv
<1>2. CASE Close
  <2>1. /\ run' \in Runs /\ run'.exp = run.exp /\ run'.access = run.access /\ run'.lease = run.lease
        /\ run'.pc = "rollback" /\ ~run'.session
    BY <1>2, <1>a DEF Close, Only, Runs
  <2>2. Watching /\ run.pc = "close" /\ UNCHANGED report
    BY <1>2, <2>1, <1>a DEF Close, Only, World, Doing, Watching, access, TypeOK, Reports
  <2>3. SessionInv' /\ TypeOK'
    BY <2>2, WatchingTyped
  <2>4. (Asked /\ Waited /\ Told /\ Faulty /\ Justified)'
    BY <2>1, <2>2, <1>a DEF Watching, access, others, cluster
  <2> QED BY <2>3, <2>4 DEF RunInv
<1>3. CASE GiveUp \/ Retain \/ Deleted
  <2>1. PICK outcome \in {"Unverified", "Retained", "Verified"} :
          /\ Reported(outcome)
          /\ outcome = "Unverified" => run.pc \in Closing \ {"close"}
          /\ outcome = "Retained" => run.pc = "retain" /\ report.test = "Failed" /\ req # "gone"
          /\ outcome = "Verified" => run.pc = "delete" /\ req = "gone"
    BY <1>3 DEF GiveUp, Retain, Deleted, Doing
  <2>2. /\ run' \in Runs /\ run'.pc = "done" /\ run'.exp = run.exp /\ run'.access = run.access
        /\ run'.lease = run.lease /\ run'.session = run.session
    BY <2>1, <1>a, RunMoved DEF Reported, Then
  <2>3. report' \in Reports /\ report'.test = report.test /\ report'.cleanup = outcome
    BY <2>1, <1>a DEF Reported, Reports
  <2>4. Watching
    BY <2>1, <2>2, <2>3, <1>a DEF Reported, World, Watching, access, TypeOK
  <2>5. SessionInv' /\ TypeOK'
    BY <2>4, WatchingTyped
  <2>6. (Asked /\ Waited /\ Told /\ Faulty /\ Justified)'
    BY <2>1, <2>2, <2>3, <2>4, <1>a DEF Watching, access, others, cluster
  <2> QED BY <2>5, <2>6 DEF RunInv
<1>4. CASE DeleteExperiment \/ ReleaseLease \/ DeleteRequest
  <2>1. /\ UNCHANGED <<replica, withdrawn, acc, arec, live, apc, recipe, changes, effect, faults, revised,
                       run, cmd, guard, report>>
        /\ \/ StopExperiment /\ UNCHANGED <<req, hold>>
           \/ hold' = "none" /\ UNCHANGED <<req, exp>>
           \/ req = "live" /\ req' = "deleting" /\ run.pc = "delete" /\ UNCHANGED <<exp, hold>>
    BY <1>4 DEF DeleteExperiment, ReleaseLease, DeleteRequest, Doing, World, others, runner
  <2>a. StopExperiment =>
          /\ exp \notin {"none", "gone", "orphaned"} /\ exp' \in {"gone", "orphaned", "deleting"}
          /\ effect # "none" => exp' = "deleting"
          /\ exp \in {"new", "Refused"} => exp' = "gone"
    BY <1>a DEF StopExperiment
  <2>2. SessionInv'
    BY <2>1, <1>a, SessionAlone DEF access
  <2>3. TypeOK'
    BY <2>1, <2>2, <2>a, <1>a DEF TypeOK, SessionInv
  <2>4. (Asked /\ Waited /\ Told /\ Faulty /\ Justified)'
    BY <2>1, <2>a, <1>a
  <2> QED BY <2>2, <2>3, <2>4 DEF RunInv
<1>5. CASE DeleteSession
  <2>1. /\ run.pc = "revoke" /\ acc.state = "live" /\ DeleteAccess
        /\ UNCHANGED <<replica, withdrawn, arec, live, apc, recipe, changes, effect, faults, req, hold, exp,
                       revised, run, cmd, guard, report>>
    BY <1>5 DEF DeleteSession, Doing, World, others, runner, cluster
  <2>2. SessionInv'
    BY <2>1, <1>a, SessionMoved
  <2>3. acc'.state \in {"deleting", "gone"}
    BY <2>1, <1>a DEF DeleteAccess, SessionInv, AccessType
  <2>4. acc'.issued = acc.issued /\ acc'.fin = acc.fin /\ (acc.fin => acc'.state = "deleting")
    BY <2>1, <1>a DEF DeleteAccess, SessionInv, AccessType
  <2>5. TypeOK'
    BY <2>1, <2>2, <1>a DEF TypeOK, SessionInv
  <2>6. (Asked /\ Waited /\ Told /\ Faulty /\ Justified)'
    BY <2>1, <2>3, <2>4, <1>a
  <2> QED BY <2>2, <2>5, <2>6 DEF RunInv
<1>6. CASE Kill
  <2>1. /\ run' \in Runs /\ run'.exp = run.exp /\ run'.access = run.access /\ run'.lease = run.lease
        /\ run'.pc = "killed" /\ ~run'.session /\ run.pc \notin {"done", "killed"}
    BY <1>6, <1>a DEF Kill, Runs
  <2>2. /\ UNCHANGED <<replica, withdrawn, acc, arec, live, apc, recipe, changes, effect, req, hold, exp,
                       revised, cmd, report>>
        /\ guard' = "off"
    BY <1>6 DEF Kill, World, others, cluster
  <2>3. faults' \in 0 .. MaxFaults
    BY <1>6, ConstantsAssumption, <1>a DEF Kill, OneFault, TypeOK
  <2>4. SessionInv'
    BY <2>2, <1>a, SessionAlone DEF access
  <2>5. TypeOK'
    BY <2>1, <2>2, <2>3, <2>4, <1>a DEF TypeOK, SessionInv, Runs
  <2>6. (Asked /\ Waited /\ Told /\ Faulty /\ Justified)'
    BY <2>1, <2>2, <1>a
  <2> QED BY <2>4, <2>5, <2>6 DEF RunInv
<1> QED BY <1>1, <1>2, <1>3, <1>4, <1>5, <1>6

\* Every step of the run, of the session and of the others keeps RunInv.
LEMMA RunStep == RunInv /\ [Next]_vars => RunInv'
<1> SUFFICES ASSUME RunInv, [Next]_vars PROVE RunInv'
  OBVIOUS
<1>1. CASE UNCHANGED vars
  <2>1. SessionInv'
    BY <1>1, SessionAlone DEF vars, RunInv
  <2> QED BY <1>1, <2>1 DEF vars, access, others, cluster, runner, RunInv, TypeOK, SessionInv, Asked, Waited,
      Told, Faulty, Justified, Removed
<1>2. CASE Next
  BY <1>2, SessionRun, OthersRun, SetupRun, TestingRun, ClosingRun DEF Next, Run, Session
<1> QED BY <1>1, <1>2

\* Position, reports and the reasons of a revocation are as RunInv says.
THEOREM RunInvariance == Spec => []RunInv
<1>1. Init => RunInv
  <2> SUFFICES ASSUME Init PROVE RunInv
    OBVIOUS
  <2>1. AccessType
    BY IssueNames DEF Init, AccessInit, AccessType, NoAccess, NoRecord
  <2>2. SessionInv
    <3>1. Kept /\ Parts /\ Announced
      BY NoRecordType DEF Init, AccessInit, NoAccess, Kept, Parts, Announced, Revoking
    <3>2. Recorded
      BY NoRecordType, IssueNames DEF Init, AccessInit, Recorded, Identities
    <3> QED BY <2>1, <3>1, <3>2 DEF SessionInv
  <2>3. faults \in 0 .. MaxFaults /\ changes \in 0 .. MaxChanges
    BY ConstantsAssumption DEF Init, AccessInit
  <2>4. TypeOK
    BY <2>1, <2>3 DEF Init, AccessInit, TypeOK, Known
  <2>5. Asked /\ Waited /\ Told /\ Faulty /\ Justified
    BY NoRecordType DEF Init, AccessInit, NoAccess, Asked, Waited, Told, Faulty, Justified, Closing, Ended
  <2> QED BY <2>2, <2>4, <2>5 DEF RunInv
<1> QED BY <1>1, RunStep, PTL DEF Spec

\* CredentialsRecorded: wherever access.go is interrupted and whatever the runner,
\* the replica and its users do, nothing of a session is out of reach of its
\* revocation.
THEOREM CredentialsRecordedAlways == Spec => []CredentialsRecorded
<1>1. RunInv => CredentialsRecorded
  <2> SUFFICES ASSUME RunInv PROVE CredentialsRecorded
    OBVIOUS
  <2>1. \A x \in live : /\ acc.state \in {"live", "deleting"} /\ acc.fin /\ arec.exists
                        /\ x # "secret" => arec.entry[x] # "none"
                        /\ acc.phase # "Revoked"
    BY DEF RunInv, SessionInv, Kept, Recorded, Pending
  <2>2. "secret" \in live => arec.over \/ Identities \subseteq live
    BY DEF RunInv, SessionInv, Recorded
  <2>3. Stranded => live = {}
    BY DEF RunInv, SessionInv, Kept, Stranded
  <2> QED BY <2>1, <2>2, <2>3 DEF CredentialsRecorded
<1> QED BY <1>1, RunInvariance, PTL

\* VerifiedMeansGone: the report of runner.go is true, for any number of faults
\* and changes by others.
THEOREM VerifiedMeansGoneAlways == Spec => []VerifiedMeansGone
<1>1. RunInv => VerifiedMeansGone
  <2> SUFFICES ASSUME RunInv PROVE VerifiedMeansGone
    OBVIOUS
  <2>1. acc.state \in {"none", "gone"} => live = {}
    BY DEF RunInv, SessionInv, Kept
  <2>2. exp = "none" \/ Removed => effect = "none"
    BY DEF RunInv, Faulty, Removed
  <2>3. req = "gone" => exp # "orphaned"
    BY DEF RunInv, Faulty
  <2> QED BY <2>1, <2>2, <2>3 DEF RunInv, Told, VerifiedMeansGone, Clean
<1> QED BY <1>1, RunInvariance, PTL

\* TeardownOrder: no step of the three parties takes credentials, faults, the
\* guest or the lease back too early.
THEOREM TeardownOrderAlways == Spec => TeardownOrder
<1> DEFINE Order ==
      /\ ~(live \subseteq live')
           => \/ effect = "none" \/ withdrawn \/ replica \in {"inactive", "ending"}
              \/ arec.misread
      /\ replica # "gone" /\ replica' = "gone" => live = {} /\ effect = "none"
      /\ run.lease /\ hold = "run" /\ hold' = "none" /\ changes' = changes
           => live = {}
<1>1. RunInv /\ [Next]_vars => [Order]_vars
  <2> SUFFICES ASSUME RunInv, Next PROVE Order
    OBVIOUS
  <2>1. acc.state \in {"none", "gone"} => live = {}
    BY DEF RunInv, SessionInv, Kept
  <2>2. exp = "none" \/ Removed => effect = "none"
    BY DEF RunInv, Faulty, Removed
  <2>3. CASE (AccessWorker \/ AccessFails) /\ UNCHANGED <<others, cluster, runner>>
    <3>1. UNCHANGED <<replica, hold>> /\ (~(live \subseteq live') => arec.over)
      BY <2>3, SessionEffect DEF RunInv, cluster
    <3>2. arec.over => \/ effect = "none" \/ withdrawn \/ replica \in {"inactive", "ending"}
                       \/ arec.misread
      BY <2>2 DEF RunInv, Justified, Asked
    <3> QED BY <3>1, <3>2
  <2>4. CASE Change
    BY <2>4, ConstantsAssumption DEF Change, access, RunInv, TypeOK
  <2>5. CASE Expire \/ Provision \/ Experiment \/ Teardown
    BY <2>5, <2>1, <2>2 DEF Expire, Provision, Experiment, Teardown, Rest, access, Removed
  <2>6. CASE Run \/ Kill
    <3>1. UNCHANGED <<live, replica>>
      BY <2>6 DEF Run, Kill, CreateRequest, WaitReplica, HoldLease, CreateAccess, WaitAccess, OpenSession,
         CreateExperiment, WaitExperiment, FailSetup, StartTest, Execute, Guard, TestEnds, Interrupt, Close,
         GiveUp, DeleteExperiment, RolledBack, DeleteSession, Revoked, ReleaseLease, Released, Retain,
         NoRetention, DeleteRequest, Deleted, Only, World, Step, Reported
    <3>2. hold' = hold \/ HoldLease \/ ReleaseLease
      BY <2>6 DEF Run, Kill, CreateRequest, WaitReplica, CreateAccess, WaitAccess, OpenSession,
         CreateExperiment, WaitExperiment, FailSetup, StartTest, Execute, Guard, TestEnds, Interrupt, Close,
         GiveUp, DeleteExperiment, RolledBack, DeleteSession, Revoked, Released, Retain,
         NoRetention, DeleteRequest, Deleted, Only, cluster, Step, Reported
    <3>3. ReleaseLease => live = {}
      BY <2>1 DEF ReleaseLease, Doing, RunInv, Waited, Ended
    <3>4. HoldLease => hold # "run"
      BY DEF HoldLease
    <3> QED BY <3>1, <3>2, <3>3, <3>4
  <2> QED BY <2>3, <2>4, <2>5, <2>6 DEF Next, Session
<1>2. Spec => [][Order]_vars
  BY <1>1, RunInvariance, PTL DEF Spec
<1> QED BY <1>2 DEF TeardownOrder
===============================================================================
