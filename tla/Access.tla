-------------------------------- MODULE Access --------------------------------
(***************************************************************************)
(* internal/workflow/access.go and credential_rbac.go: one ReplicaAccess,  *)
(* from its finalizer and protected record over the guest identity, the    *)
(* credential Secret and the right to read it, to their revocation.        *)
(*                                                                         *)
(* One worker reconciles the request.  An action is what happens up to and *)
(* with the next write, `apc` the part of the reconcile that is running.   *)
(* A failed call, a lost answer and a crash end it between two writes.     *)
(* Users leave the session's objects alone; Inventory is about those who   *)
(* do not.  The grant names subjects for the Secret, one binding stands    *)
(* for those of a mirror's namespaces, and a refused or waiting request    *)
(* writes no more than its phase.  A module that extends this one moves    *)
(* the replica and asks for the session; a replica is inactive when it is  *)
(* a generation that its mirror has replaced and not yet retired.          *)
(***************************************************************************)
EXTENDS Naturals, Sequences

CONSTANT MaxFaults    \* bound on crashes, failed calls and lost answers

VARIABLES
  replica,     \* the replica the session is for
  withdrawn,   \* its grant changed or its time is over
  acc,         \* the ReplicaAccess
  arec,        \* its protected record
  live,        \* what exists of the session
  apc, faults

access == <<acc, arec, live, apc>>

\* In the order of their creation; the last two let the grant's subjects read
\* the Secret.
Issue == <<"account", "binding", "secret", "role", "rolebinding">>
Things == {Issue[n] : n \in DOMAIN Issue}
Identities == {"account", "binding"}

NoAccess == [state |-> "none", fin |-> FALSE, phase |-> "", issued |-> FALSE]
\* `misread` is history: a failed read, not the state it should have read,
\* began the revocation.
NoRecord == [exists |-> FALSE, over |-> FALSE, misread |-> FALSE,
             entry |-> [x \in Things |-> "none"]]

AccessType ==
  /\ acc \in [state : {"none", "live", "deleting", "gone"}, fin : BOOLEAN,
              phase : {"", "Ready", "Blocked", "Revoking", "Revoked"}, issued : BOOLEAN]
  /\ arec \in [exists : BOOLEAN, over : BOOLEAN, misread : BOOLEAN,
               entry : [Things -> {"none", "intent", "uid", "deleted"}]]
  /\ live \subseteq Things
  /\ apc \in {"idle", "issue", "announced", "readers", "identities", "secret", "report",
              "forget", "finish"}

AccessInit ==
  /\ withdrawn = FALSE /\ acc = NoAccess /\ arec = NoRecord
  /\ live = {} /\ apc = "idle" /\ faults = 0
-----------------------------------------------------------------------------
At(part) == apc = part
Goto(part) == apc' = part
Still == UNCHANGED <<replica, withdrawn, faults>>
OneFault == faults < MaxFaults /\ faults' = faults + 1

SaveAccess(new) == arec' = new /\ Still /\ UNCHANGED <<acc, live>>
PatchAccess(new) == acc' = new /\ Still /\ UNCHANGED <<arec, live>>
SetLive(new) == live' = new /\ Still /\ UNCHANGED <<acc, arec>>
Entry(x, k) == SaveAccess([arec EXCEPT !.entry[x] = k])

\* The request after a deletion by anyone.
DeleteAccess == acc' = [acc EXCEPT !.state = IF acc.fin THEN "deleting" ELSE "gone"]

\* What a failed call of the running part is reported as.
FailurePhase ==
  CASE apc = "issue" -> "Blocked"
    [] apc \in {"readers", "identities", "secret", "forget"} -> "Revoking"
    [] OTHER -> acc.phase

\* A crash is not reported.
AccessFault ==
  /\ apc # "idle" /\ OneFault
  /\ Goto("idle")
  /\ acc' \in {acc, [acc EXCEPT !.phase = FailurePhase]}
  /\ UNCHANGED <<replica, withdrawn, arec, live>>
-----------------------------------------------------------------------------
\* Reconcile.

\* Announced, not reported as over, and without a record.
Stranded ==
  acc.state \in {"live", "deleting"} /\ acc.issued /\ acc.phase # "Revoked" /\ ~arec.exists

\* The record cannot be read, this one or that of the replica or its mirror.
LoadFails ==
  /\ At("idle") /\ acc.state \in {"live", "deleting"} /\ OneFault
  /\ acc' = [acc EXCEPT !.phase = "Blocked"]
  /\ UNCHANGED <<replica, withdrawn, arec, live, apc>>

Reconciled == At("idle") /\ acc.state \in {"live", "deleting"} /\ ~Stranded

ReportStranded ==
  /\ At("idle") /\ Stranded
  /\ PatchAccess([acc EXCEPT !.phase = "Blocked"]) /\ UNCHANGED apc

RevokeDue ==
  \/ acc.state = "deleting" \/ acc.phase = "Revoked" \/ arec.over
  \/ withdrawn \/ replica \in {"ending", "gone"}
  \/ replica = "inactive" /\ arec.exists

Issuable == Reconciled /\ ~RevokeDue /\ replica = "ready"

AddAccessFinalizer ==
  /\ Issuable /\ ~acc.fin
  /\ PatchAccess([acc EXCEPT !.fin = TRUE]) /\ UNCHANGED apc

BeginIssue ==
  /\ Issuable /\ acc.fin
  /\ SaveAccess([arec EXCEPT !.exists = TRUE]) /\ Goto("issue")

\* Mutant: the object first, then its entry.
IssueThingUnrecorded(n) ==
  LET x == Issue[n] IN
  /\ At("issue") /\ \A m \in 1 .. n - 1 : arec.entry[Issue[m]] = "uid"
  /\ arec.entry[x] # "uid"
  /\ IF x \notin live THEN SetLive(live \cup {x}) ELSE Entry(x, "uid")
  /\ UNCHANGED apc

\* apply(), the token and its Secret, credentialReaders(): intent, object, UID.
\* The Secret has no intent, its owner reference says whose it is.
IssueThing(n) ==
  LET x == Issue[n] IN
  /\ At("issue") /\ \A m \in 1 .. n - 1 : arec.entry[Issue[m]] = "uid"
  /\ arec.entry[x] # "uid"
  /\ IF arec.entry[x] = "none" /\ x # "secret" THEN Entry(x, "intent")
     ELSE IF x \notin live THEN SetLive(live \cup {x})
     ELSE Entry(x, "uid")
  /\ UNCHANGED apc

\* Too little time is left for a token, or the guest issued none that can be
\* used: revoke() at once.
TokenRefused ==
  /\ At("issue") /\ \A x \in Identities : arec.entry[x] = "uid"
  /\ arec.entry["secret"] # "uid" /\ "secret" \notin live
  /\ SaveAccess([arec EXCEPT !.over = TRUE]) /\ Goto("readers")

Announce ==
  /\ At("issue") /\ \A x \in Things : arec.entry[x] = "uid"
  /\ PatchAccess([acc EXCEPT !.issued = TRUE]) /\ Goto("announced")

ReportReady ==
  /\ At("announced")
  /\ PatchAccess([acc EXCEPT !.phase = "Ready"]) /\ Goto("idle")
-----------------------------------------------------------------------------
\* revoke().

\* Mutant: a revocation that has begun is not begun again.
BeginRevokeOnce ==
  /\ Reconciled /\ RevokeDue /\ ~arec.over
  /\ IF arec.exists THEN SaveAccess([arec EXCEPT !.over = TRUE]) /\ Goto("readers")
     ELSE PatchAccess(acc) /\ Goto("finish")

BeginRevoke ==
  /\ Reconciled /\ RevokeDue
  /\ IF arec.exists THEN SaveAccess([arec EXCEPT !.over = TRUE]) /\ Goto("readers")
     ELSE PatchAccess(acc) /\ Goto("finish")

\* A replica or grant that cannot be read counts as one that is gone.
Misread ==
  /\ Reconciled /\ ~RevokeDue /\ OneFault
  /\ IF arec.exists
     THEN arec' = [arec EXCEPT !.over = TRUE, !.misread = TRUE] /\ Goto("readers")
     ELSE UNCHANGED arec /\ Goto("finish")
  /\ UNCHANGED <<replica, withdrawn, acc, live>>

Pending(x) == arec.entry[x] \in {"intent", "uid"}

\* The binding first; what is gone is saved once for both.
RevokeReader(x) ==
  /\ At("readers") /\ x \in live /\ Pending(x)
  /\ x = "role" => ~("rolebinding" \in live /\ Pending("rolebinding"))
  /\ SetLive(live \ {x}) /\ UNCHANGED apc

ReadersRevoked ==
  /\ At("readers") /\ \A x \in {"role", "rolebinding"} : Pending(x) => x \notin live
  /\ SaveAccess([arec EXCEPT !.entry = [x \in Things |->
       IF x \in {"role", "rolebinding"} /\ Pending(x) THEN "deleted" ELSE @[x]]])
  /\ Goto("identities")

\* deleteEntry(), the newest first: deleted and awaited, then noted.
RevokeIdentity(x) ==
  /\ At("identities") /\ Pending(x)
  /\ x = "account" => ~Pending("binding")
  /\ IF x \in live
     THEN /\ live' = live \ {x} /\ acc' = [acc EXCEPT !.phase = "Revoking"] /\ Goto("idle")
          /\ Still /\ UNCHANGED arec
     ELSE Entry(x, "deleted") /\ UNCHANGED apc

IdentitiesRevoked ==
  /\ At("identities") /\ \A x \in Identities : ~Pending(x)
  /\ SetLive(live) /\ Goto("secret")

RevokeSecret ==
  /\ At("secret")
  /\ SetLive(live \ {"secret"}) /\ Goto("report")

\* The public phase says Revoked before the record goes.
ReportRevoked ==
  /\ At("report")
  /\ PatchAccess([acc EXCEPT !.phase = "Revoked"]) /\ Goto("forget")

ForgetAccess ==
  /\ At("forget")
  /\ SaveAccess(NoRecord) /\ Goto("finish")

\* The record is deleted, the answer lost, and the failure reported.
ForgetUnanswered ==
  /\ At("forget") /\ OneFault
  /\ arec' = NoRecord /\ acc' = [acc EXCEPT !.phase = FailurePhase] /\ Goto("idle")
  /\ UNCHANGED <<replica, withdrawn, live>>

FinishAccess ==
  /\ At("finish")
  /\ PatchAccess([acc EXCEPT !.fin = FALSE,
       !.state = IF @ = "deleting" THEN "gone" ELSE @,
       !.phase = IF acc.state = "deleting" THEN @ ELSE "Revoked"])
  /\ Goto("idle")

AccessWorker ==
  \/ ReportStranded \/ AddAccessFinalizer \/ BeginIssue \/ TokenRefused \/ Announce
  \/ ReportReady
  \/ \E n \in DOMAIN Issue : IssueThing(n)
  \/ BeginRevoke \/ ReadersRevoked \/ IdentitiesRevoked
  \/ \E x \in {"role", "rolebinding"} : RevokeReader(x)
  \/ \E x \in Identities : RevokeIdentity(x)
  \/ RevokeSecret \/ ReportRevoked \/ ForgetAccess \/ FinishAccess

AccessFails == AccessFault \/ LoadFails \/ Misread \/ ForgetUnanswered
-----------------------------------------------------------------------------
\* Wherever a reconcile is interrupted (access.go:49-285), what exists of a
\* session is found through its finalizer and record, an identity or permission
\* also through an entry of its own; a session reported Revoked has left nothing;
\* a credential whose revocation has not begun has its identity; and a session
\* that lost its record (48-50) has nothing left that the record would be
\* needed for.
CredentialsRecorded ==
  /\ \A x \in live :
       /\ acc.state \in {"live", "deleting"} /\ acc.fin /\ arec.exists
       /\ x # "secret" => arec.entry[x] # "none"
       /\ acc.phase # "Revoked"
  /\ "secret" \in live => arec.over \/ Identities \subseteq live
  /\ Stranded => live = {}
===============================================================================
