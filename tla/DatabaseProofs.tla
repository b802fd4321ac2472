---------------------------- MODULE DatabaseProofs ----------------------------
(***************************************************************************)
(* Proofs about module Database, for up to four copies, whatever the users *)
(* of the guest do and wherever the reconciles are cut off.                *)
(*                                                                         *)
(* DatabaseInv says what the worker may still rely on in each part of a    *)
(* reconcile: which phase the record has, which policies stand and how     *)
(* often the source was read.  Between reconciles only the saved phase     *)
(* tells.                                                                  *)
(***************************************************************************)
EXTENDS Database, TLAPS

\* The parts of Prepare that follow the application boundary, and the ones
\* that move data.
Copying == {"capture", "mask", "copy", "verified"}
Inside == Copying \cup {"phase", "policies", "resources", "unstage", "open", "publish", "next"}

Closed(d) == policy[d]["stage"] = "closed" /\ policy[d]["final"] = "closed"

\* Where the worker is, and the phase it has saved by then.
Position ==
  /\ pc = "idle" => cur = 1
  /\ pc \in Inside \cup {"begin"} => \A d \in DBs : d < cur => st.phase[d] = "Ready"
  /\ pc = "next" => st.phase[cur] = "Ready"
  /\ pc \in {"policies", "resources"} => st.phase[cur] = "Preparing"
  /\ pc \in Copying => st.phase[cur] = "Copying"
  /\ pc \in {"open", "publish"} => st.phase[cur] = "Sanitized" /\ data[cur]["stage"] = "empty"

\* What isolates the copy while the worker is at it.
Isolation ==
  /\ pc \in Inside => boundary = Boundary
  /\ pc \in Copying \cup {"resources"} => Closed(cur)

\* How far the copy is: the source is read in the first part and masked before
\* the third.
Progress ==
  /\ pc = "capture" => reads[cur] = 0
  /\ pc \in Copying \ {"capture"} => reads[cur] = 1
  /\ pc = "copy" => data[cur]["stage"] # "raw"

\* What the saved phase tells about the source.
Evidence ==
  \A d \in DBs :
    /\ reads[d] <= 1
    /\ st.phase[d] \in {"none", "Preparing"} => reads[d] = 0
    /\ st.phase[d] \in {"Sanitized", "Ready"} => reads[d] = 1

\* Only running Pods hold data.
Pods == \A d \in DBs, r \in Roles : data[d][r] # "empty" => host[d][r]

\* A copy is opened after it was sanitized.
Opened ==
  \A d \in DBs :
    policy[d]["final"] = "open" \/ guest[d]["service"] = "own" =>
      st.phase[d] \in {"Sanitized", "Ready"}

\* RawPrivate and IsolationOutlivesPods.
Private ==
  \A d \in DBs :
    /\ data[d]["final"] # "raw"
    /\ data[d]["stage"] # "empty" =>
         Closed(d) /\ "deny" \in boundary /\ guest[d]["service"] # "own"
    /\ data[d]["final"] # "empty" => policy[d]["final"] # "none" /\ "deny" \in boundary

Applications == apps # "none" => boundary = Boundary /\ \A d \in DBs : reads[d] = 1

\* What holds of the Pods and policies in whatever part the worker is.
World == Evidence /\ Pods /\ Opened /\ Private /\ Applications

DatabaseInv ==
  /\ TypeOK
  /\ Position
  /\ Isolation
  /\ Progress
  /\ World

-----------------------------------------------------------------------------
\* Saving the phase of the copy changes nothing else in the record.
LEMMA PhaseSaved ==
  ASSUME TypeOK, NEW p \in {"none", "Preparing", "Copying", "Failed", "Sanitized", "Ready"}
  PROVE  LET new == [st EXCEPT !.phase[cur] = p] IN
           /\ new \in Records
           /\ new.phase[cur] = p
           /\ \A d \in DBs : d # cur => new.phase[d] = st.phase[d]
BY DEF TypeOK, Records

\* What is saved of an object, a policy or the boundary leaves the phases alone.
LEMMA EntrySaved ==
  ASSUME TypeOK, NEW d \in DBs, NEW o \in Objects, NEW k \in Knowledge
  PROVE  LET new == [st EXCEPT !.entry[d][o] = k] IN
           new \in Records /\ new.phase = st.phase
BY DEF TypeOK, Records

LEMMA PolicySaved ==
  ASSUME TypeOK, NEW d \in DBs, NEW r \in Roles, NEW k \in Knowledge
  PROVE  LET new == [st EXCEPT !.policy[d][r] = k] IN
           new \in Records /\ new.phase = st.phase
BY DEF TypeOK, Records

LEMMA BoundarySaved ==
  ASSUME TypeOK, NEW b \in Boundary, NEW k \in Knowledge
  PROVE  LET new == [st EXCEPT !.boundary[b] = k]
             all == [st EXCEPT !.boundary = [x \in Boundary |-> "intent"]] IN
           /\ new \in Records /\ new.phase = st.phase
           /\ all \in Records /\ all.phase = st.phase
BY DEF TypeOK, Records, Knowledge

LEMMA MarksSaved ==
  ASSUME TypeOK
  PROVE  LET cleaned == [st EXCEPT !.cleaned = TRUE]
             gone == [st EXCEPT !.exists = FALSE] IN
           /\ cleaned \in Records /\ cleaned.phase = st.phase
           /\ gone \in Records /\ gone.phase = st.phase
BY DEF TypeOK, Records

\* A transfer changes the data of one pod of the current copy, and only of a
\* pod that runs.
LEMMA DataMoved ==
  ASSUME TypeOK, NEW r \in Roles, NEW new \in {"empty", "raw", "masked"},
         data' = data \/ (host[cur][r] /\ data' = [data EXCEPT ![cur][r] = new])
  PROVE  \A d \in DBs, q \in Roles : \/ data'[d][q] = data[d][q]
                                     \/ d = cur /\ q = r /\ data'[d][q] = new /\ host[d][q]
<1>1. CASE data' = data
  BY <1>1
<1>2. CASE host[cur][r] /\ data' = [data EXCEPT ![cur][r] = new]
  BY <1>2 DEF TypeOK
<1> QED BY <1>1, <1>2

\* The names of the resources.
LEMMA OrderNames ==
  /\ \A n \in 1 .. 4 : Order[n] \in Objects \ {"service"}
  /\ Order[5] = "service" /\ DOMAIN Order = 1 .. 5 /\ Len(Order) = 5
  /\ Objects = {"secret", "claim", "stage", "final", "service"}
BY DEF Order, Objects

LEMMA PolicyPair ==
  ASSUME TypeOK, NEW d \in DBs, NEW x, NEW y
  PROVE  policy[d] = [stage |-> x, final |-> y] <=> policy[d]["stage"] = x /\ policy[d]["final"] = y
BY DEF TypeOK, Roles

Parts ==
  {"idle", "begin", "phase", "policies", "resources", "capture", "mask", "copy",
   "verified", "unstage", "open", "publish", "next", "clean", "teardown"}

\* The type invariant holds in every step.
LEMMA TypeStep == TypeOK /\ [Next]_vars => TypeOK'
<1> SUFFICES ASSUME TypeOK, [Next]_vars PROVE TypeOK'
  OBVIOUS
<1> USE ConstantsAssumption
<1>a. /\ cur \in DBs /\ 1 \in DBs /\ (cur < Copies => cur + 1 \in DBs)
      /\ Roles \subseteq Objects
  BY DEF TypeOK, DBs, ValidPlan, Objects, Order, Roles
<1>1. CASE UNCHANGED vars
  BY <1>1 DEF vars, world, TypeOK
<1>2. CASE End
  BY <1>2 DEF End, world, TypeOK
<1>3. ASSUME NEW d \in DBs, NEW o \in Objects, Meddle(d, o) PROVE TypeOK'
  BY <1>3 DEF Meddle, TypeOK
<1>4. ASSUME NEW d \in DBs, NEW r \in Roles, Follow(d, r) PROVE TypeOK'
  BY <1>4 DEF Follow, TypeOK
<1>5. CASE AppsStop
  BY <1>5 DEF AppsStop, TypeOK
<1>6. CASE Crash
  BY <1>6, <1>a DEF Crash, Return, world, TypeOK
<1>7. CASE Nothing /\ pc' \in Parts /\ cur' \in DBs
  BY <1>7 DEF Nothing, Outside, world, TypeOK, Parts
<1>8. ASSUME NEW new \in Records, Save(new), pc' \in Parts, cur' \in DBs PROVE TypeOK'
  BY <1>8 DEF Save, Outside, world, TypeOK, Parts
<1>9. CASE Reconcile \/ Bounded \/ Resume \/ Verified \/ Isolated \/ Unstaged \/ OpenSQL \/ NextCopy
           \/ Refuse \/ BeginCleanup \/ AwaitHost \/ AwaitApps
  <2>1. Nothing /\ pc' \in Parts /\ cur' \in DBs
    BY <1>9, <1>a DEF Reconcile, Bounded, Resume, Verified, Isolated, Unstaged, OpenSQL, NextCopy,
       Refuse, BeginCleanup, AwaitHost, AwaitApps, Goto, Return, Parts
  <2> QED BY <2>1, <1>7
<1>10. CASE Intend \/ Interrupted \/ BeginCopy \/ Sanitized \/ Published
  <2>1. /\ pc' \in Parts /\ cur' \in DBs
        /\ \E p \in {"Preparing", "Copying", "Failed", "Sanitized", "Ready"} : SetPhase(p)
    BY <1>10 DEF Intend, Interrupted, BeginCopy, Sanitized, Published, Goto, Stay, Parts, TypeOK
  <2> QED BY <2>1, <1>8, PhaseSaved DEF SetPhase
<1>11. CASE IntendBoundary \/ Forget \/ \E b \in Boundary : RecordBoundary(b)
  <2>1. pc' \in Parts /\ cur' \in DBs
    BY <1>11, <1>a DEF IntendBoundary, Forget, RecordBoundary, Stay, Return, Parts, TypeOK
  <2>2. \E new \in Records : Save(new)
    BY <1>11, MarksSaved, BoundarySaved DEF IntendBoundary, Forget, RecordBoundary, Knowledge, Boundary
  <2> QED BY <2>1, <2>2, <1>8
<1>12. ASSUME NEW b \in Boundary, CreateBoundary(b) \/ CleanBoundary(b) PROVE TypeOK'
  <2>1. CASE CreateBoundary(b)
    BY <2>1 DEF CreateBoundary, Written, Outside, Stay, TypeOK
  <2>2. CASE CleanBoundary(b) /\ b \in boundary
    BY <2>2, <1>a DEF CleanBoundary, Written, Outside, Return, TypeOK
  <2>3. CASE CleanBoundary(b) /\ b \notin boundary
    BY <2>3, <1>8, BoundarySaved DEF CleanBoundary, Stay, TypeOK, Parts, Knowledge
  <2> QED BY <1>12, <2>1, <2>2, <2>3
<1>13. ASSUME NEW r \in Roles, EnsurePolicy(r) \/ CleanPolicy(r) PROVE TypeOK'
  <2>1. CASE \E k \in Knowledge : SetPolicy(r, k) /\ Stay
    BY <2>1, <1>8, PolicySaved DEF SetPolicy, Stay, TypeOK, Parts
  <2>2. CASE /\ \E x \in {"none", "closed"} : policy' = [policy EXCEPT ![cur][r] = x]
             /\ Written /\ (Stay \/ Return) /\ UNCHANGED <<guest, host, data, boundary, apps, reads>>
    BY <2>2, <1>a DEF Written, Outside, Stay, Return, TypeOK
  <2> QED BY <1>13, <2>1, <2>2 DEF EnsurePolicy, CleanPolicy, Knowledge
<1>14. CASE OpenPolicy
  BY <1>14 DEF OpenPolicy, Written, Outside, Stay, TypeOK, Roles
<1>15. ASSUME NEW o \in Objects, Ensure(o) PROVE TypeOK'
  <2>1. CASE \E k \in Knowledge : SetEntry(o, k) /\ Stay
    BY <2>1, <1>8, EntrySaved DEF SetEntry, Stay, TypeOK, Parts
  <2>2. CASE /\ guest' = [guest EXCEPT ![cur][o] = "own"]
             /\ Written /\ Stay /\ UNCHANGED <<host, data, policy, boundary, apps, reads>>
    BY <2>2 DEF Written, Outside, Stay, TypeOK
  <2> QED BY <1>15, <2>1, <2>2 DEF Ensure, Knowledge
<1>16. ASSUME NEW o \in Objects, Remove(cur, o) PROVE TypeOK'
  <2>1. CASE Save([st EXCEPT !.entry[cur][o] = "deleted"]) /\ Stay
    BY <2>1, <1>8, EntrySaved DEF Stay, TypeOK, Parts, Knowledge
  <2>2. CASE /\ guest' = [guest EXCEPT ![cur][o] = "none"]
             /\ Written /\ Return /\ UNCHANGED <<host, data, policy, boundary, apps, reads>>
    BY <2>2, <1>a DEF Written, Outside, Return, TypeOK
  <2>3. CASE Nothing /\ Return
    BY <2>3, <1>7, <1>a DEF Return, Parts
  <2> QED BY <1>16, <2>1, <2>2, <2>3 DEF Remove
<1>17. ASSUME NEW part \in Parts, NEW r \in Roles, NEW new \in {"empty", "raw", "masked"},
              NEW then \in Parts, Transfer(part, r, new, then),
              reads' \in [DBs -> Nat]
       PROVE  TypeOK'
  <2>1. st' \in Records
    <3>1. [st EXCEPT !.phase[cur] = "Failed"] \in Records
      BY PhaseSaved
    <3>2. st' = st \/ st' = [st EXCEPT !.phase[cur] = "Failed"]
      BY <1>17, Zenon DEF Transfer
    <3> QED BY <3>1, <3>2 DEF TypeOK
  <2>2. data' \in [DBs -> [Roles -> {"empty", "raw", "masked"}]]
    <3>1. data' = data \/ data' = [data EXCEPT ![cur][r] = new]
      BY <1>17, Zenon DEF Transfer
    <3>2. [data EXCEPT ![cur][r] = new] \in [DBs -> [Roles -> {"empty", "raw", "masked"}]]
      BY DEF TypeOK
    <3> QED BY <3>1, <3>2 DEF TypeOK
  <2>3. pc' \in Parts /\ cur' \in DBs
    BY <1>17 DEF Transfer, Goto, TypeOK, Parts
  <2> QED BY <1>17, <2>1, <2>2, <2>3 DEF Transfer, Outside, TypeOK, Parts
<1>18. CASE Capture \/ Mask \/ Copy
  <2>1. reads' \in [DBs -> Nat]
    BY <1>18 DEF Capture, Mask, Copy, TypeOK
  <2>2. data[cur]["stage"] \in {"empty", "raw", "masked"}
    BY DEF TypeOK, Roles
  <2>3. \E part, then \in Parts, r \in Roles, new \in {"empty", "raw", "masked"} :
          Transfer(part, r, new, then)
    BY <1>18, <2>2 DEF Capture, Mask, Copy, Parts, Roles
  <2> QED BY <2>1, <2>3, <1>17
<1>19. CASE Cleaned
  <2>1. CASE cur < Copies
    BY <1>19, <2>1, <1>a, <1>7 DEF Cleaned, TypeOK, Parts
  <2>2. CASE ~(cur < Copies)
    BY <1>19, <2>2, MarksSaved DEF Cleaned, Goto, Outside, TypeOK
  <2> QED BY <2>1, <2>2
<1>20. CASE Apply
  BY <1>20, <1>a DEF Apply, Return, Written, Outside, TypeOK
<1>21. CASE Prepare
  <2>1. ASSUME NEW n \in 1 .. 4, EnsureResource(n) PROVE TypeOK'
    BY <2>1, <1>15, OrderNames DEF EnsureResource
  <2>2. CASE Unstage \/ Publish
    BY <2>2, <1>15, <1>16, OrderNames DEF Unstage, Publish
  <2> QED BY <1>21, <1>9, <1>10, <1>11, <1>12, <1>13, <1>14, <1>18, <1>20, <2>1, <2>2 DEF Prepare
<1>22. CASE Cleanup
  <2>1. ASSUME NEW n \in DOMAIN Order, CleanObject(n) PROVE TypeOK'
    BY <2>1, <1>16 DEF CleanObject, Objects
  <2> QED BY <1>22, <1>9, <1>11, <1>12, <1>13, <1>19, <2>1 DEF Cleanup
<1> QED BY <1>1, <1>2, <1>3, <1>4, <1>5, <1>6, <1>21, <1>22 DEF Next, Users, VCluster

-----------------------------------------------------------------------------
\* Steps that leave the saved phases, the Pods and the policies alone, and create
\* no Service, are about the position of the worker only.
Quiet ==
  /\ st'.phase = st.phase
  /\ UNCHANGED <<host, data, policy, boundary, apps, reads>>
  /\ \A d \in DBs : guest'[d]["service"] = "own" => guest[d]["service"] = "own"

LEMMA QuietWorld ==
  ASSUME World, Quiet
  PROVE  World'
BY DEF World, Quiet, Evidence, Pods, Opened, Private, Applications, Closed

\* ... and if the worker stays where it is or gives up, nothing is left to show.
LEMMA QuietInv ==
  ASSUME DatabaseInv, TypeOK', Quiet, Stay \/ Return
  PROVE  DatabaseInv'
<1>1. World'
  BY QuietWorld DEF DatabaseInv
<1>2. Position' /\ Isolation' /\ Progress'
  BY DEF DatabaseInv, Position, Isolation, Progress, Quiet, Stay, Return, Inside, Copying, Closed
<1> QED BY <1>1, <1>2 DEF DatabaseInv

\* Every step of the users, of vCluster and of the worker keeps DatabaseInv.
LEMMA InvStep == DatabaseInv /\ [Next]_vars => DatabaseInv'
<1> SUFFICES ASSUME DatabaseInv, [Next]_vars PROVE DatabaseInv'
  OBVIOUS
<1>a. TypeOK /\ TypeOK'
  BY TypeStep DEF DatabaseInv
<1>b. cur \in DBs /\ Copies \in Nat /\ DBs = 1 .. Copies /\ Roles = {"stage", "final"}
  BY <1>a, ConstantsAssumption DEF TypeOK, DBs, ValidPlan, Roles
<1> USE DEF Boundary
\* What users and vCluster do.
<1>1. CASE UNCHANGED vars \/ End \/ Crash
  BY <1>1, <1>a, QuietInv DEF vars, world, End, Crash, Quiet, Stay
<1>2. ASSUME NEW d \in DBs, NEW o \in Objects, Meddle(d, o) PROVE DatabaseInv'
  <2>1. Quiet /\ Stay
    BY <1>2, <1>a, OrderNames DEF Meddle, Quiet, Stay, TypeOK
  <2> QED BY <2>1, <1>a, QuietInv
<1>3. ASSUME NEW d \in DBs, NEW r \in Roles, Follow(d, r) PROVE DatabaseInv'
  <2>1. \A e \in DBs, x \in Roles : data'[e][x] = data[e][x] \/ data'[e][x] = "empty"
    BY <1>3, <1>a DEF Follow, TypeOK
  <2>2. Pods'
    BY <1>3, <1>a DEF Follow, TypeOK, DatabaseInv, World, Pods
  <2>3. World'
    BY <1>3, <1>b, <2>1, <2>2 DEF Follow, DatabaseInv, World, Evidence, Opened, Private, Applications, Closed
  <2>4. Position' /\ Isolation' /\ Progress'
    BY <1>3, <1>b, <2>1 DEF Follow, DatabaseInv, Position, Isolation, Progress, Closed
  <2> QED BY <1>a, <2>3, <2>4 DEF DatabaseInv
<1>4. CASE AppsStop
  BY <1>4, <1>a DEF AppsStop, DatabaseInv, Position, Isolation, Progress, Closed,
     World, Evidence, Pods, Opened, Private, Applications
\* The worker goes from one part to the next.
<1>5. ASSUME Nothing PROVE Quiet
  BY <1>5 DEF Nothing, world, Quiet
<1>6. CASE Refuse \/ AwaitHost \/ AwaitApps
  BY <1>6, <1>5, <1>a, QuietInv DEF Refuse, AwaitHost, AwaitApps
<1>7. CASE Reconcile \/ Bounded \/ Resume \/ Verified \/ Isolated \/ Unstaged \/ OpenSQL \/ NextCopy
           \/ BeginCleanup
  <2>1. Nothing
    BY <1>7 DEF Reconcile, Bounded, Resume, Verified, Isolated, Unstaged, OpenSQL, NextCopy, BeginCleanup
  <2>2. World'
    BY <2>1, <1>5, QuietWorld DEF DatabaseInv
  <2>3. Position' /\ Isolation' /\ Progress'
    <3> USE <1>b, <2>1 DEF DatabaseInv, Position, Isolation, Progress, Inside, Copying, Closed, Nothing, world,
            Goto, Return, At
    <3>1. CASE Reconcile \/ BeginCleanup
      BY <3>1 DEF Reconcile, BeginCleanup
    <3>2. CASE Bounded
      <4>1. boundary = Boundary
        BY <3>2, <1>a DEF Bounded, TypeOK
      <4> QED BY <3>2, <4>1 DEF Bounded
    <3>3. CASE Resume \/ Verified
      BY <3>3 DEF Resume, Verified
    <3>4. CASE Isolated
      BY <3>4 DEF Isolated
    <3>5. CASE Unstaged
      BY <3>5 DEF Unstaged, World, Pods
    <3>6. CASE OpenSQL
      BY <3>6 DEF OpenSQL
    <3>7. CASE NextCopy
      BY <3>7 DEF NextCopy
    <3> QED BY <1>7, <3>1, <3>2, <3>3, <3>4, <3>5, <3>6, <3>7
  <2> QED BY <1>a, <2>2, <2>3 DEF DatabaseInv
\* What the record says of the copy.
<1>8. ASSUME NEW p \in {"Preparing", "Copying", "Failed", "Sanitized", "Ready"}, SetPhase(p)
      PROVE  /\ st'.phase[cur] = p
             /\ \A d \in DBs : d # cur => st'.phase[d] = st.phase[d]
             /\ UNCHANGED <<guest, host, data, policy, boundary, apps, reads>>
  BY <1>8, <1>a, PhaseSaved DEF SetPhase, Save, world
<1>9. CASE Intend \/ Interrupted \/ BeginCopy \/ Sanitized \/ Published
  <2> USE <1>b DEF DatabaseInv, Position, Isolation, Progress, Inside, Copying, Closed,
          World, Evidence, Pods, Opened, Private, Applications, Goto, Stay, At
  <2>1. CASE Intend
    BY <2>1, <1>a, <1>8 DEF Intend
  <2>2. CASE Interrupted
    BY <2>2, <1>a, <1>8 DEF Interrupted
  <2>3. CASE BeginCopy
    BY <2>3, <1>a, <1>8 DEF BeginCopy
  <2>4. CASE Sanitized
    BY <2>4, <1>a, <1>8 DEF Sanitized
  <2>5. CASE Published
    BY <2>5, <1>a, <1>8 DEF Published
  <2> QED BY <1>9, <2>1, <2>2, <2>3, <2>4, <2>5
<1>10. ASSUME NEW new, Save(new), new.phase = st.phase PROVE Quiet
  BY <1>10 DEF Save, world, Quiet
<1>11. CASE IntendBoundary \/ Forget \/ \E b \in Boundary : RecordBoundary(b)
  <2>1. Quiet
    BY <1>11, <1>10, <1>a, MarksSaved, BoundarySaved DEF IntendBoundary, Forget, RecordBoundary, Knowledge
  <2> QED BY <1>11, <2>1, <1>a, QuietInv DEF IntendBoundary, Forget, RecordBoundary
\* Policies of the replica and of the copy.
<1>12. ASSUME NEW b \in Boundary, CreateBoundary(b) PROVE DatabaseInv'
  BY <1>12, <1>a DEF CreateBoundary, Due, At, Written, Outside, Stay, TypeOK, DatabaseInv, Position,
     Isolation, Progress, Inside, Copying, Closed, World, Evidence, Pods, Opened, Private, Applications
<1>13. ASSUME NEW b \in Boundary, CleanBoundary(b) PROVE DatabaseInv'
  <2>1. CASE b \notin boundary
    BY <2>1, <1>13, <1>10, <1>a, BoundarySaved, QuietInv DEF CleanBoundary, Knowledge
  <2>2. CASE b \in boundary
    <3>1. apps = "none" /\ \A d \in DBs, r \in Roles : ~host[d][r]
      BY <1>13 DEF CleanBoundary, Stopped
    <3>2. World'
      BY <1>13, <2>2, <3>1 DEF CleanBoundary, Written, DatabaseInv, World, Evidence, Pods, Opened,
         Private, Applications, Roles, Closed
    <3>3. Position' /\ Isolation' /\ Progress'
      BY <1>13, <2>2 DEF CleanBoundary, Written, Return, DatabaseInv, Position, Isolation, Progress,
         Inside, Copying
    <3> QED BY <1>a, <3>2, <3>3 DEF DatabaseInv
  <2> QED BY <2>1, <2>2
<1>14. ASSUME NEW r \in Roles, NEW x \in {"none", "closed"},
              policy' = [policy EXCEPT ![cur][r] = x],
              UNCHANGED <<st, guest, host, data, boundary, apps, reads>>,
              \/ pc = "policies" /\ policy[cur][r] = "none" /\ Stay
              \/ HostPodsGone /\ Return
       PROVE  DatabaseInv'
  <2>1. /\ policy'[cur][r] = x
        /\ \A d \in DBs, q \in Roles : <<d, q>> # <<cur, r>> => policy'[d][q] = policy[d][q]
    BY <1>14, <1>a, <1>b DEF TypeOK
  <2>2. \A q \in Roles : data[cur][q] = "empty" \/ policy[cur][r] = "none"
    BY <1>14, <1>b DEF HostPodsGone, DatabaseInv, World, Pods
  <2>3. World'
    BY <1>14, <2>1, <2>2, <1>b DEF DatabaseInv, World, Evidence, Pods, Opened, Private, Applications, Closed
  <2>4. Position' /\ Isolation' /\ Progress'
    BY <1>14 DEF Stay, Return, DatabaseInv, Position, Isolation, Progress, Inside, Copying
  <2> QED BY <1>a, <2>3, <2>4 DEF DatabaseInv
<1>15. ASSUME NEW r \in Roles, EnsurePolicy(r) \/ CleanPolicy(r) PROVE DatabaseInv'
  <2>1. CASE \E k \in Knowledge : SetPolicy(r, k) /\ Stay
    BY <2>1, <1>10, <1>a, PolicySaved, QuietInv DEF SetPolicy, TypeOK
  <2> QED BY <1>15, <2>1, <1>14 DEF EnsurePolicy, CleanPolicy, Knowledge, At, Written
<1>16. CASE OpenPolicy
  <2>1. /\ policy'[cur]["final"] = "open"
        /\ \A d \in DBs, q \in Roles : <<d, q>> # <<cur, "final">> => policy'[d][q] = policy[d][q]
    BY <1>16, <1>a, <1>b DEF OpenPolicy, TypeOK
  <2>2. pc = "publish" /\ Stay /\ UNCHANGED <<st, guest, host, data, boundary, apps, reads>>
    BY <1>16 DEF OpenPolicy, At, Written
  <2>3. World'
    BY <2>1, <2>2, <1>b DEF DatabaseInv, Position, World, Evidence, Pods, Opened, Private,
       Applications, Closed
  <2>4. Position' /\ Isolation' /\ Progress'
    BY <2>1, <2>2 DEF Stay, DatabaseInv, Position, Isolation, Progress, Inside, Copying
  <2> QED BY <1>a, <2>3, <2>4 DEF DatabaseInv
\* Objects of the guest.
<1>17. ASSUME NEW o \in Objects, Ensure(o), o # "service" \/ pc = "publish" PROVE DatabaseInv'
  <2>1. CASE \E k \in Knowledge : SetEntry(o, k)
    BY <1>17, <2>1, <1>10, <1>a, EntrySaved, QuietInv, ZenonT(40) DEF SetEntry, Ensure, TypeOK
  <2>2. CASE guest' = [guest EXCEPT ![cur][o] = "own"] /\ Written
             /\ UNCHANGED <<host, data, policy, boundary, apps, reads>>
    <3>1. \A d \in DBs : guest'[d]["service"] = guest[d]["service"] \/ (d = cur /\ o = "service")
      BY <2>2, <1>a, <1>b, OrderNames DEF TypeOK
    <3>2. CASE o # "service"
      BY <1>17, <3>1, <3>2, <2>2, <1>a, QuietInv DEF Quiet, Written, Ensure
    <3>3. CASE o = "service" /\ pc = "publish"
      <4>1. World'
        BY <2>2, <3>1, <3>3, <1>b DEF Written, DatabaseInv, Position, World, Evidence, Pods, Opened, Private,
           Applications, Closed
      <4>2. Position' /\ Isolation' /\ Progress'
        BY <1>17, <2>2, <3>3 DEF Ensure, Stay, Written, DatabaseInv, Position, Isolation, Progress,
           Inside, Copying
      <4> QED BY <1>a, <4>1, <4>2 DEF DatabaseInv
    <3> QED BY <1>17, <3>2, <3>3
  <2> QED BY <1>17, <2>1, <2>2 DEF Ensure, Knowledge
<1>18. ASSUME NEW o \in Objects, Remove(cur, o) PROVE DatabaseInv'
  <2>1. CASE Save([st EXCEPT !.entry[cur][o] = "deleted"]) /\ Stay
    BY <2>1, <1>10, <1>a, <1>b, EntrySaved, QuietInv DEF Knowledge
  <2>2. CASE /\ guest' = [guest EXCEPT ![cur][o] = "none"]
             /\ Written /\ Return /\ UNCHANGED <<host, data, policy, boundary, apps, reads>>
    <3>1. \A d \in DBs : guest'[d]["service"] = "own" => guest[d]["service"] = "own"
      BY <2>2, <1>a, <1>b, OrderNames DEF TypeOK
    <3> QED BY <2>2, <3>1, <1>a, QuietInv DEF Quiet, Written
  <2>3. CASE Nothing /\ Return
    BY <2>3, <1>5, <1>a, QuietInv
  <2> QED BY <1>18, <2>1, <2>2, <2>3 DEF Remove
\* Data moves, and the transfer succeeds or is given up.
<1>19. ASSUME NEW part \in Copying, NEW r \in Roles, NEW new \in {"empty", "raw", "masked"}, NEW then,
              Transfer(part, r, new, then)
       PROVE  /\ st.phase[cur] = "Copying" /\ Closed(cur) /\ boundary = Boundary /\ pc = part
              /\ \A d \in DBs : st'.phase[d] = st.phase[d] \/ (d = cur /\ st'.phase[d] = "Failed")
              /\ \A d \in DBs, q \in Roles : \/ data'[d][q] = data[d][q]
                                             \/ d = cur /\ q = r /\ data'[d][q] = new /\ host[d][q]
              /\ \/ pc' = then /\ st'.phase = st.phase /\ data'[cur][r] = new
                 \/ pc' = "unstage"
              /\ cur' = cur
              /\ UNCHANGED <<guest, host, policy, boundary, apps>>
  <2>1. st.phase[cur] = "Copying" /\ Closed(cur) /\ boundary = Boundary /\ pc = part
    BY <1>19 DEF Transfer, At, DatabaseInv, Position, Isolation, Inside
  <2>2. \A d \in DBs : st'.phase[d] = st.phase[d] \/ (d = cur /\ st'.phase[d] = "Failed")
    <3>1. st' = st \/ st' = [st EXCEPT !.phase[cur] = "Failed"]
      BY <1>19, Zenon DEF Transfer
    <3>2. /\ [st EXCEPT !.phase[cur] = "Failed"].phase[cur] = "Failed"
          /\ \A d \in DBs : d # cur => [st EXCEPT !.phase[cur] = "Failed"].phase[d] = st.phase[d]
      BY <1>a, PhaseSaved
    <3> DEFINE failed == [st EXCEPT !.phase[cur] = "Failed"]
    <3> HIDE DEF failed
    <3>3. st' = st \/ st' = failed
      BY <3>1 DEF failed
    <3>4. failed.phase[cur] = "Failed" /\ \A d \in DBs : d # cur => failed.phase[d] = st.phase[d]
      BY <3>2 DEF failed
    <3> QED BY <3>3, <3>4
  <2>3. data' = data \/ (host[cur][r] /\ data' = [data EXCEPT ![cur][r] = new])
    BY <1>19, Zenon DEF Transfer
  <2>4. /\ [data EXCEPT ![cur][r] = new][cur][r] = new
        /\ \A d \in DBs, q \in Roles : <<d, q>> # <<cur, r>> => [data EXCEPT ![cur][r] = new][d][q] = data[d][q]
    BY <1>a, <1>b DEF TypeOK
  <2>5. \/ pc' = then /\ st' = st /\ data' = [data EXCEPT ![cur][r] = new]
        \/ pc' = "unstage"
    BY <1>19, Zenon DEF Transfer, Goto
  <2>6. cur' = cur /\ UNCHANGED <<guest, host, policy, boundary, apps>>
    BY <1>19, Zenon DEF Transfer, Goto
  <2>7. \A d \in DBs, q \in Roles : \/ data'[d][q] = data[d][q]
                                    \/ d = cur /\ q = r /\ data'[d][q] = new /\ host[d][q]
    BY <1>a, <2>3, DataMoved
  <2>8. \/ pc' = then /\ st'.phase = st.phase /\ data'[cur][r] = new
        \/ pc' = "unstage"
    BY <2>4, <2>5
  <2> QED BY <2>1, <2>2, <2>6, <2>7, <2>8, Zenon
<1>20. CASE Capture \/ Mask \/ Copy
  <2>1. data[cur]["stage"] \in {"empty", "raw", "masked"}
    BY <1>a, <1>b DEF TypeOK
  <2> USE <1>b DEF DatabaseInv, Position, Isolation, Progress, Inside, Copying, Closed,
          World, Evidence, Pods, Opened, Private, Applications
  <2>2. CASE Capture
    <3>1. reads'[cur] = 1 /\ \A d \in DBs : d # cur => reads'[d] = reads[d]
      BY <2>2, <1>a DEF Capture, Transfer, At, TypeOK
    <3> QED BY <2>2, <3>1, <1>a, <1>19 DEF Capture
  <2>3. CASE Mask
    BY <2>3, <1>a, <1>19 DEF Mask
  <2>4. CASE Copy
    BY <2>4, <2>1, <1>a, <1>19 DEF Copy
  <2> QED BY <1>20, <2>2, <2>3, <2>4
\* Applications start after the last copy and stop in the cleanup.
<1>21. CASE Apply
  BY <1>21, <1>a, <1>b DEF Apply, At, Return, Written, DatabaseInv, Position, Isolation, Progress, Inside,
     Copying, Closed, World, Evidence, Pods, Opened, Private, Applications
<1>22. CASE Cleaned
  <2>1. st'.phase = st.phase
    BY <1>22, <1>a, MarksSaved DEF Cleaned, Nothing
  <2>2. /\ pc = "clean" /\ pc' \in {"clean", "teardown"} /\ (apps = "none" => apps' = "none")
        /\ UNCHANGED <<guest, host, data, policy, boundary, reads>>
    BY <1>22 DEF Cleaned, Emptied, At, Goto, Nothing, world
  <2> QED BY <2>1, <2>2, <1>a DEF DatabaseInv, Position, Isolation, Progress, Inside,
     Copying, Closed, World, Evidence, Pods, Opened, Private, Applications
<1>23. CASE Prepare
  <2>1. ASSUME NEW n \in 1 .. 4, EnsureResource(n) PROVE DatabaseInv'
    BY <2>1, <1>17, OrderNames DEF EnsureResource
  <2>2. CASE Unstage \/ Publish
    BY <2>2, <1>17, <1>18, OrderNames DEF Unstage, Publish, At
  <2> QED BY <1>23, <1>6, <1>7, <1>9, <1>11, <1>12, <1>15, <1>16, <1>20, <1>21, <2>1, <2>2 DEF Prepare
<1>24. CASE Cleanup
  <2>1. ASSUME NEW n \in DOMAIN Order, CleanObject(n) PROVE DatabaseInv'
    BY <2>1, <1>18 DEF CleanObject, Objects
  <2> QED BY <1>24, <1>6, <1>7, <1>11, <1>13, <1>15, <1>22, <2>1 DEF Cleanup
<1> QED BY <1>1, <1>2, <1>3, <1>4, <1>23, <1>24 DEF Next, Users, VCluster

\* The initial state has its types.
LEMMA InitType == Init => TypeOK
<1> SUFFICES ASSUME Init PROVE TypeOK
  OBVIOUS
<1>1. st \in Records
  BY DEF Init, Records, Knowledge
<1>2. cur \in DBs /\ meddling \in 0 .. MaxMeddling /\ faults \in 0 .. MaxFaults
  BY ConstantsAssumption DEF Init, DBs, ValidPlan
<1>3. reads \in [DBs -> Nat] /\ boundary \subseteq Boundary
  BY DEF Init
<1> QED BY <1>1, <1>2, <1>3 DEF Init, TypeOK

\* The variables have their types, for any number of copies ValidatePlan accepts.
THEOREM TypeCorrect == Spec => []TypeOK
BY InitType, TypeStep, PTL DEF Spec

\* The record, the part the worker is in, and the Pods and policies agree.
THEOREM DatabaseInvariance == Spec => []DatabaseInv
<1>1. Init => DatabaseInv
  <2> SUFFICES ASSUME Init PROVE DatabaseInv
    OBVIOUS
  <2>1. TypeOK
    BY InitType
  <2>2. Position /\ Isolation /\ Progress
    BY DEF Init, Position, Isolation, Progress, Inside, Copying
  <2>3. World
    BY OrderNames DEF Init, World, Evidence, Pods, Opened, Private, Applications, Roles
  <2> QED BY <2>1, <2>2, <2>3 DEF DatabaseInv
<1> QED BY <1>1, InvStep, PTL DEF Spec

\* RawPrivate: what controller.go and isolation.go promise about unmasked data
\* holds for any number of copies, crashes and interventions.
THEOREM RawPrivateAlways == Spec => []RawPrivate
<1>1. DatabaseInv => RawPrivate
  BY PolicyPair DEF DatabaseInv, World, Private, Closed, RawPrivate
<1> QED BY <1>1, DatabaseInvariance, PTL

\* CapturedOnce: no sequence of crashes, failed saves and lost answers makes the
\* controller read a source twice.
THEOREM CapturedOnceAlways == Spec => []CapturedOnce
<1>1. DatabaseInv => CapturedOnce
  BY DEF DatabaseInv, World, Evidence, CapturedOnce
<1> QED BY <1>1, DatabaseInvariance, PTL

\* IsolationOutlivesPods: policies go after the Pods they isolate, and the
\* applications come after the copies.
THEOREM IsolationOutlivesPodsAlways == Spec => []IsolationOutlivesPods
<1>1. DatabaseInv => IsolationOutlivesPods
  BY DEF DatabaseInv, World, Private, Applications, IsolationOutlivesPods
<1> QED BY <1>1, DatabaseInvariance, PTL
===============================================================================
