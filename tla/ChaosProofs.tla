----------------------------- MODULE ChaosProofs ------------------------------
(***************************************************************************)
(* Proofs about module Chaos, for any plan prepare() can make, any number  *)
(* of experiments, and whatever users and faults do.                       *)
(*                                                                         *)
(* ChaosInv ties three things together: the worker's copies to the saved   *)
(* records, the saved records to what the actions have left in the guest   *)
(* and on the host, and the requests to the records.  The rollback goes    *)
(* from the last action to the first, so that an action marked cleaned is  *)
(* undone, and all the later ones too.                                     *)
(***************************************************************************)
EXTENDS Chaos, TLAPS

Applying == {"look", "create", "strike", "patch", "applied", "active"}
Rolling == {"roll", "pin", "remove", "restore", "cleaned", "finished"}

Outcomes == {"", "Completed", "Cancelled", "Failed"}

\* An action has left nothing, and nothing can come back.
Undone(x, k) ==
  /\ things[x][k] \notin {"ours", "deleting"} /\ k \notin pods[x]
  /\ Plan[k] = "scale" => work.mark # x
  /\ Plan[k] = "policy" => physical[x] = {} /\ pods[x] = {}

\* The rollback marks the last actions first and finishes after the first one,
\* Active and Completed are said after all were applied.
Sound(r) ==
  /\ \A k \in 1 .. N : r.actions[k].cleaned =>
       r.cleanup /\ \A m \in 1 .. N : m > k => r.actions[m].cleaned
  /\ r.phase = "Finished" => r.exists /\ r.cleanup /\ \A k \in 1 .. N : r.actions[k].cleaned
  /\ r.phase = "Active" \/ r.outcome = "Completed" => \A k \in 1 .. N : r.actions[k].applied

\* TypeOK, of the worker's own state and of the rest.
LocalsOK ==
  /\ pc \in Steps /\ cur \in Experiments \cup {NoMark} /\ i \in 0 .. N + 1
  /\ o \in Requests /\ s \in Records /\ seen \in Workloads

WorldOK ==
  /\ req \in [Experiments -> Requests] /\ rec \in [Experiments -> Records]
  /\ expired \subseteq Experiments
  /\ parent \in {"ready", "ending", "gone"} /\ granted \in BOOLEAN
  /\ space \in BOOLEAN
  /\ things \in [Experiments -> [1 .. N -> {"absent", "ours", "deleting", "foreign"}]]
  /\ pods \in [Experiments -> SUBSET Jobs] /\ physical \in [Experiments -> SUBSET Jobs]
  /\ victim \in {"pinned", "gone", "other"} /\ work \in Workloads
  /\ engine \in [pc : {"idle", "stop", "reap"}, todo : SUBSET Experiments,
                 pending : BOOLEAN]
  /\ meddling \in 0 .. MaxMeddling /\ faults \in 0 .. MaxFaults

\* Where the worker is.
Position ==
  /\ pc = "idle" => cur = NoMark
  /\ pc # "idle" => cur \in Experiments /\ req[cur].state # "new"
  /\ pc = "look" => i \in 1 .. N + 1
  /\ pc \in {"create", "strike", "patch", "applied", "pin", "remove", "restore", "cleaned"} => i \in 1 .. N
  /\ pc = "active" => i = N + 1
  /\ pc = "roll" => i \in 0 .. N
  /\ pc = "finished" => i = 0
  /\ pc \in {"create", "pin", "remove"} => Plan[i] \in Created
  /\ pc \in {"patch", "restore"} => Plan[i] = "scale"
  /\ pc = "pin" => Plan[i] # "policy"
  /\ pc = "strike" => Plan[i] = "pod"

\* Its copies of record and request.
Copies ==
  /\ pc = "intent" =>
       /\ ~rec[cur].exists /\ s.exists /\ ~s.cleanup
       /\ \A k \in 1 .. N : ~s.actions[k].applied
  /\ pc \in Applying =>
       /\ rec[cur] = s /\ s.exists /\ ~s.cleanup /\ s.phase # "Finished" /\ req[cur].finalizer
       /\ \A k \in 1 .. N : k < i => s.actions[k].applied
  /\ pc = "begin" =>
       /\ rec[cur].exists /\ ~rec[cur].cleanup
       /\ s.exists /\ ~s.cleanup /\ s.phase = rec[cur].phase
  /\ pc \in Rolling =>
       /\ rec[cur] = s /\ s.exists /\ s.cleanup /\ s.phase # "Finished"
       /\ \A k \in 1 .. N : k > i => s.actions[k].cleaned
  /\ pc = "release" => rec[cur].phase = "Finished" /\ req[cur].state = "deleting"
  /\ pc = "forget" => req[cur].state = "gone" /\ (rec[cur].exists => rec[cur].phase = "Finished")
  /\ pc \notin {"idle", "forget"} /\ o.state = "deleting" => req[cur].state = "deleting"

\* What it has found out about the target and may rely on.
Findings ==
  /\ pc = "patch" => seen.uid = 1 /\ seen.mark = NoMark /\ seen.replicas = s.original
  /\ pc = "restore" => seen.uid = 1 /\ seen.mark = cur /\ seen.replicas = 0
  /\ pc = "applied" /\ Plan[i] = "policy" => things[cur][i] = "ours"
  /\ pc = "remove" /\ Plan[i] = "policy" => physical[cur] = {}
  /\ pc = "cleaned" => Undone(cur, i)

\* Requests and records.
Saved ==
  \A x \in Experiments :
    /\ Sound(rec[x])
    /\ rec[x].exists => req[x].state # "new"
    /\ req[x].state \in {"new", "gone"} => ~req[x].finalizer
    /\ req[x].state = "deleting" => req[x].finalizer

\* Records and what there is of the actions.
Intended ==
  \A x \in Experiments :
    /\ Disturbs(x) => rec[x].exists /\ req[x].finalizer
    /\ \A k \in 1 .. N : rec[x].actions[k].cleaned => Undone(x, k)

\* The host policy is there before the Jobs and goes after their Pods.
Protected(x) == \E k \in 1 .. N : Plan[k] = "policy" /\ things[x][k] = "ours"

Policies ==
  \A x \in Experiments :
    /\ \A k \in 1 .. N : Plan[k] \notin Created => things[x][k] = "absent"
    /\ \A k \in 1 .. N : Plan[k] = "policy" =>
         /\ things[x][k] \in {"absent", "ours"}
         /\ rec[x].exists /\ ~rec[x].cleanup /\ rec[x].actions[k].applied => things[x][k] = "ours"
    /\ (\E k \in Jobs : things[x][k] \in {"ours", "deleting"}) \/ pods[x] # {} \/ physical[x] # {} =>
         Protected(x)

\* A namespace that is gone has taken everything along, and so has a workload.
Lost ==
  /\ ~space =>
       /\ work.uid = 0
       /\ \A x \in Experiments :
            /\ pods[x] = {}
            /\ \A k \in 1 .. N : Plan[k] # "policy" => things[x][k] \notin {"ours", "deleting"}
  /\ work.uid # 1 => work.mark = NoMark
  /\ work.mark # NoMark => \E k \in 1 .. N : Plan[k] = "scale"

\* The scale of the workload as users left it.
Scale ==
  work.uid = 1 /\ ~work.touched =>
    /\ work.mark = NoMark => work.replicas = MaxScale
    /\ \A x \in Experiments : rec[x].exists => rec[x].original = MaxScale

\* The slot of the replica.
Busy(x) == rec[x].exists /\ rec[x].phase # "Finished" /\ req[x].state \in {"live", "deleting"}

OneSlot == \A x, y \in Experiments : Busy(x) /\ Busy(y) => x = y

\* What the worker's copy says about its experiment.
Claim ==
  /\ Sound(s)
  /\ work.uid = 1 /\ ~work.touched /\ s.exists => s.original = MaxScale
  /\ pc = "intent" => \A y \in Experiments : y # cur => ~Busy(y)

\* What a listing without experiments means to the replica's engine.
Listed ==
  /\ engine.pc # "idle" => parent # "ready"
  /\ engine.pc # "idle" /\ ~engine.pending =>
       \A x \in Experiments : req[x].state \in {"live", "deleting"} => ~rec[x].exists /\ cur # x

WorkerInv == LocalsOK /\ Position /\ Copies /\ Findings /\ Claim
WorldInv == WorldOK /\ Saved /\ Intended /\ Policies /\ Lost /\ Scale /\ OneSlot

ChaosInv == WorkerInv /\ WorldInv /\ Listed

-----------------------------------------------------------------------------
\* The plan: the one policy comes before the Jobs.
LEMMA PlanFacts ==
  /\ N \in Nat /\ N > 0
  /\ \A k \in 1 .. N : Plan[k] \in Kinds
  /\ Jobs \subseteq 1 .. N /\ \A k \in Jobs : Plan[k] = "job"
  /\ \A k \in 1 .. N : Plan[k] = "job" => k \in Jobs
  /\ \A k \in Jobs : \E p \in 1 .. N : Plan[p] = "policy"
  /\ \A p \in 1 .. N, k \in Jobs : Plan[p] = "policy" => p < k
  /\ \A p, q \in 1 .. N : Plan[p] = "policy" /\ Plan[q] = "policy" => p = q
  /\ NoMark \notin Experiments /\ MaxScale \in Nat
<1>1. N \in Nat /\ N > 0 /\ \A k \in 1 .. N : Plan[k] \in Kinds
  BY ConstantsAssumption DEF N
<1>2. /\ Jobs \subseteq 1 .. N /\ \A k \in Jobs : Plan[k] = "job"
      /\ \A k \in 1 .. N : Plan[k] = "job" => k \in Jobs
  BY DEF Jobs
<1>3. \A k \in Jobs : \E p \in 1 .. k : Plan[p] = "policy"
  BY ConstantsAssumption
<1>4. \A p, q \in 1 .. N : Plan[p] = "policy" /\ Plan[q] = "policy" => p = q
  BY ConstantsAssumption
<1>5. \A k \in Jobs : \E p \in 1 .. N : Plan[p] = "policy"
  BY <1>1, <1>2, <1>3
<1>6. \A p \in 1 .. N, k \in Jobs : Plan[p] = "policy" => p < k
  <2> SUFFICES ASSUME NEW p \in 1 .. N, NEW k \in Jobs, Plan[p] = "policy" PROVE p < k
    OBVIOUS
  <2>1. PICK q \in 1 .. k : Plan[q] = "policy"
    BY <1>3
  <2>2. k \in 1 .. N /\ Plan[k] = "job"
    BY <1>2
  <2>3. q \in 1 .. N /\ q # k
    BY <1>1, <2>1, <2>2
  <2>4. q = p
    BY <1>4, <2>1, <2>3
  <2> QED BY <2>1, <2>2, <2>3, <2>4
<1> QED BY <1>1, <1>2, <1>4, <1>5, <1>6, ConstantsAssumption

\* A new record, and none.
LEMMA NewRecordType ==
  ASSUME NEW n \in 0 .. MaxScale
  PROVE  /\ NewRecord(n) \in Records /\ Sound(NewRecord(n))
         /\ NewRecord(n).exists /\ ~NewRecord(n).cleanup /\ NewRecord(n).original = n
         /\ NewRecord(n).phase = "Preparing"
         /\ \A k \in 1 .. N : ~NewRecord(n).actions[k].applied
<1>1. NewRecord(n) \in Records
  BY DEF NewRecord, Records, Actions
<1>2. /\ NewRecord(n).exists /\ ~NewRecord(n).cleanup /\ NewRecord(n).original = n
      /\ NewRecord(n).phase = "Preparing" /\ NewRecord(n).outcome = ""
      /\ \A k \in 1 .. N : ~NewRecord(n).actions[k].cleaned /\ ~NewRecord(n).actions[k].applied
  BY DEF NewRecord
<1>3. Sound(NewRecord(n))
  BY <1>2 DEF Sound
<1> QED BY <1>1, <1>2, <1>3

LEMMA NoRecordType ==
  /\ NoRecord \in Records /\ Sound(NoRecord) /\ ~NoRecord.exists /\ ~NoRecord.cleanup
  /\ NoRecord.phase = "Preparing" /\ \A k \in 1 .. N : ~NoRecord.actions[k].cleaned
<1>1. 0 \in 0 .. MaxScale
  BY PlanFacts
<1>2. NewRecord(0) \in Records
  BY <1>1, NewRecordType
<1>3. /\ NoRecord \in Records /\ ~NoRecord.exists /\ ~NoRecord.cleanup /\ NoRecord.phase = "Preparing"
      /\ NoRecord.outcome = "" /\ \A k \in 1 .. N : ~NoRecord.actions[k].cleaned
  BY <1>2 DEF NoRecord, NewRecord, Records
<1>4. Sound(NoRecord)
  BY <1>3 DEF Sound
<1> QED BY <1>3, <1>4
-----------------------------------------------------------------------------
\* What the saves make of a record.

LEMMA AppliedRecord ==
  ASSUME s \in Records, i \in 1 .. N, NEW q,
         q = AppliedNow
  PROVE  /\ q \in Records /\ q.exists = s.exists /\ q.cleanup = s.cleanup
         /\ q.phase = s.phase /\ q.outcome = s.outcome /\ q.original = s.original
         /\ \A m \in 1 .. N : q.actions[m].cleaned = s.actions[m].cleaned
         /\ \A m \in 1 .. N : s.actions[m].applied => q.actions[m].applied
         /\ \A m \in 1 .. N : m # i => q.actions[m].applied = s.actions[m].applied
         /\ q.actions[i].applied
<1>1. /\ s.actions \in [1 .. N -> Actions] /\ s.actions[i] \in Actions
  BY DEF Records
<1>2. PICK a : a = [s.actions[i] EXCEPT !.uid = TRUE, !.applied = TRUE]
  OBVIOUS
<1>3. a \in Actions /\ a.applied /\ a.cleaned = s.actions[i].cleaned
  BY <1>1, <1>2 DEF Actions
<1>4. PICK f : f = [s.actions EXCEPT ![i] = a]
  OBVIOUS
<1>5. f \in [1 .. N -> Actions] /\ f[i] = a /\ \A m \in 1 .. N : m # i => f[m] = s.actions[m]
  BY <1>1, <1>3, <1>4
<1>6. q = [s EXCEPT !.actions = f]
  BY <1>2, <1>4, <1>1 DEF AppliedNow, Records, Actions
<1>7. /\ q \in Records /\ q.exists = s.exists /\ q.cleanup = s.cleanup
      /\ q.phase = s.phase /\ q.outcome = s.outcome /\ q.original = s.original
      /\ q.actions = f
  BY <1>5, <1>6 DEF Records
<1> QED BY <1>3, <1>5, <1>7

LEMMA PinnedRecord ==
  ASSUME s \in Records, i \in 1 .. N, NEW q,
         q = [s EXCEPT !.actions[i].uid = TRUE]
  PROVE  /\ q \in Records /\ q.exists = s.exists /\ q.cleanup = s.cleanup
         /\ q.phase = s.phase /\ q.outcome = s.outcome /\ q.original = s.original
         /\ \A m \in 1 .. N : q.actions[m].cleaned = s.actions[m].cleaned
         /\ \A m \in 1 .. N : q.actions[m].applied = s.actions[m].applied
<1>1. /\ s.actions \in [1 .. N -> Actions] /\ s.actions[i] \in Actions
  BY DEF Records
<1>2. PICK a : a = [s.actions[i] EXCEPT !.uid = TRUE]
  OBVIOUS
<1>3. a \in Actions /\ a.applied = s.actions[i].applied /\ a.cleaned = s.actions[i].cleaned
  BY <1>1, <1>2 DEF Actions
<1>4. PICK f : f = [s.actions EXCEPT ![i] = a]
  OBVIOUS
<1>5. f \in [1 .. N -> Actions] /\ f[i] = a /\ \A m \in 1 .. N : m # i => f[m] = s.actions[m]
  BY <1>1, <1>3, <1>4
<1>6. q = [s EXCEPT !.actions = f]
  BY <1>2, <1>4, <1>1 DEF Records, Actions
<1>7. /\ q \in Records /\ q.exists = s.exists /\ q.cleanup = s.cleanup
      /\ q.phase = s.phase /\ q.outcome = s.outcome /\ q.original = s.original
      /\ q.actions = f
  BY <1>5, <1>6 DEF Records
<1> QED BY <1>3, <1>5, <1>7

LEMMA CleanedRecord ==
  ASSUME s \in Records, i \in 1 .. N, NEW q,
         q = [s EXCEPT !.actions[i].cleaned = TRUE]
  PROVE  /\ q \in Records /\ q.exists = s.exists /\ q.cleanup = s.cleanup
         /\ q.phase = s.phase /\ q.outcome = s.outcome /\ q.original = s.original
         /\ \A m \in 1 .. N : q.actions[m].cleaned <=> m = i \/ s.actions[m].cleaned
         /\ \A m \in 1 .. N : q.actions[m].applied = s.actions[m].applied
<1>1. /\ s.actions \in [1 .. N -> Actions] /\ s.actions[i] \in Actions
  BY DEF Records
<1>2. PICK a : a = [s.actions[i] EXCEPT !.cleaned = TRUE]
  OBVIOUS
<1>3. a \in Actions /\ a.applied = s.actions[i].applied /\ a.cleaned
  BY <1>1, <1>2 DEF Actions
<1>4. PICK f : f = [s.actions EXCEPT ![i] = a]
  OBVIOUS
<1>5. f \in [1 .. N -> Actions] /\ f[i] = a /\ \A m \in 1 .. N : m # i => f[m] = s.actions[m]
  BY <1>1, <1>3, <1>4
<1>6. q = [s EXCEPT !.actions = f]
  BY <1>2, <1>4, <1>1 DEF Records, Actions
<1>7. /\ q \in Records /\ q.exists = s.exists /\ q.cleanup = s.cleanup
      /\ q.phase = s.phase /\ q.outcome = s.outcome /\ q.original = s.original
      /\ q.actions = f
  BY <1>5, <1>6 DEF Records
<1> QED BY <1>3, <1>5, <1>7

LEMMA FieldRecord ==
  ASSUME NEW r \in Records, NEW q,
         \/ \E v \in Outcomes : q = [r EXCEPT !.outcome = v]
         \/ q = [r EXCEPT !.cleanup = TRUE]
         \/ \E v \in {"Active", "Finished"} : q = [r EXCEPT !.phase = v]
  PROVE  /\ q \in Records /\ q.exists = r.exists /\ q.original = r.original
         /\ q.actions = r.actions
<1>1. CASE \E v \in Outcomes : q = [r EXCEPT !.outcome = v]
  BY <1>1 DEF Records, Outcomes
<1>2. CASE q = [r EXCEPT !.cleanup = TRUE]
  BY <1>2 DEF Records
<1>3. CASE \E v \in {"Active", "Finished"} : q = [r EXCEPT !.phase = v]
  BY <1>3 DEF Records
<1> QED BY <1>1, <1>2, <1>3

-----------------------------------------------------------------------------
\* Steps as the rest of the system sees them: each lemma says what a write of
\* its kind has to respect.

LEMMA WorldSame ==
  ASSUME WorldInv, WorldOK', UNCHANGED <<req, rec, space, things, pods, physical, work>>
  PROVE  WorldInv'
<1> USE DEF WorldInv
<1>1. Saved' /\ Policies' /\ Lost' /\ Scale'
  BY DEF Saved, Sound, Policies, Protected, Lost, Scale
<1>2. Intended' /\ OneSlot'
  BY DEF Intended, Disturbs, Effect, Undone, OneSlot, Busy
<1> QED BY <1>1, <1>2

\* A record is saved.
LEMMA WorldRecord ==
  ASSUME WorldInv, WorldOK', UNCHANGED <<req, space, things, pods, physical, work>>,
         NEW x \in Experiments, NEW r \in Records, rec' = [rec EXCEPT ![x] = r],
         Sound(r),
         r.exists => req[x].state # "new",
         r.exists \/ ~Disturbs(x),
         \A k \in 1 .. N : r.actions[k].cleaned => Undone(x, k),
         \A k \in 1 .. N : Plan[k] = "policy" /\ r.exists /\ ~r.cleanup /\ r.actions[k].applied
           => things[x][k] = "ours",
         work.uid = 1 /\ ~work.touched /\ r.exists => r.original = MaxScale,
         \/ r.exists /\ r.phase # "Finished" => Busy(x) \/ req[x].state \notin {"live", "deleting"}
         \/ \A y \in Experiments : y # x => ~Busy(y)
  PROVE  WorldInv'
<1> USE DEF WorldInv
<1>1. rec'[x] = r /\ \A y \in Experiments : y # x => rec'[y] = rec[y]
  BY DEF WorldOK
<1>2. Saved'
  BY <1>1 DEF Saved, Sound
<1>3. Intended'
  BY <1>1 DEF Intended, Disturbs, Effect, Undone
<1>4. Policies'
  <2>1. \A y \in Experiments : Protected(y)' <=> Protected(y)
    BY DEF Protected
  <2> QED BY <1>1, <2>1 DEF Policies
<1>5. Lost'
  BY DEF Lost
<1>6. Scale'
  BY <1>1 DEF Scale
<1>7. OneSlot'
  BY <1>1 DEF OneSlot, Busy
<1> QED BY <1>2, <1>3, <1>4, <1>5, <1>6, <1>7

\* A request changes.
LEMMA WorldRequest ==
  ASSUME WorldInv, WorldOK', UNCHANGED <<rec, space, things, pods, physical, work>>,
         NEW x \in Experiments, NEW r \in Requests, req' = [req EXCEPT ![x] = r],
         rec[x].exists => r.state # "new",
         r.state \in {"new", "gone"} => ~r.finalizer,
         r.state = "deleting" => r.finalizer,
         r.finalizer \/ ~Disturbs(x),
         r.state \in {"live", "deleting"} =>
           req[x].state \in {"live", "deleting"} \/ ~rec[x].exists
  PROVE  WorldInv'
<1> USE DEF WorldInv
<1>1. req'[x] = r /\ \A y \in Experiments : y # x => req'[y] = req[y]
  BY DEF WorldOK
<1>2. Saved'
  BY <1>1 DEF Saved, Sound
<1>3. Intended'
  BY <1>1 DEF Intended, Disturbs, Effect, Undone
<1>4. Policies' /\ Lost' /\ Scale'
  BY DEF Policies, Protected, Lost, Scale
<1>7. OneSlot'
  BY <1>1 DEF OneSlot, Busy
<1> QED BY <1>2, <1>3, <1>4, <1>7

\* An object of an action appears, is being deleted, or is gone.
LEMMA WorldThing ==
  ASSUME WorldInv, WorldOK', UNCHANGED <<req, rec, space, pods, physical, work>>,
         NEW x \in Experiments, NEW k \in 1 .. N, NEW v,
         things' = [things EXCEPT ![x][k] = v], Plan[k] \in Created,
         v \in {"ours", "deleting"} =>
           /\ rec[x].exists /\ req[x].finalizer /\ ~rec[x].actions[k].cleaned
           /\ Plan[k] # "policy" => space
           /\ k \in Jobs => Protected(x),
         Plan[k] = "policy" =>
           \/ v = "ours"
           \/ /\ v = "absent" /\ pods[x] = {} /\ physical[x] = {}
              /\ \A j \in Jobs : things[x][j] \notin {"ours", "deleting"}
              /\ ~(rec[x].exists /\ ~rec[x].cleanup /\ rec[x].actions[k].applied)
  PROVE  WorldInv'
<1> USE DEF WorldInv
<1>1. /\ things'[x][k] = v
      /\ \A m \in 1 .. N : m # k => things'[x][m] = things[x][m]
      /\ \A y \in Experiments : y # x => things'[y] = things[y]
  BY DEF WorldOK
<1>2. Saved' /\ Scale' /\ OneSlot'
  BY DEF Saved, Sound, Scale, OneSlot, Busy
<1>3. Intended'
  BY <1>1 DEF Intended, Disturbs, Effect, Undone
<1>4. Policies'
  <2>1. ASSUME NEW y \in Experiments, NEW m \in 1 .. N, Plan[m] = "policy"
        PROVE  /\ things'[y][m] \in {"absent", "ours"}
               /\ rec[y].exists /\ ~rec[y].cleanup /\ rec[y].actions[m].applied => things'[y][m] = "ours"
    BY <1>1, <2>1 DEF Policies
  <2>0. \A y \in Experiments, m \in 1 .. N : Plan[m] \notin Created => things'[y][m] = "absent"
    BY <1>1 DEF Policies
  <2>2. ASSUME NEW y \in Experiments,
               (\E m \in Jobs : things'[y][m] \in {"ours", "deleting"}) \/ pods[y] # {} \/ physical[y] # {}
        PROVE  Protected(y)'
    <3>1. CASE y # x
      BY <1>1, <2>2, <3>1 DEF Policies, Protected
    <3>2. CASE y = x
      <4>1. Plan[k] = "policy" => v = "ours"
        BY <1>1, <2>2, <3>2, PlanFacts
      <4>2. CASE Plan[k] = "policy"
        BY <1>1, <3>2, <4>1, <4>2 DEF Protected
      <4>3. CASE Plan[k] # "policy"
        <5>1. Protected(x)
          BY <1>1, <2>2, <3>2, PlanFacts DEF Policies
        <5> QED BY <1>1, <3>2, <4>3, <5>1 DEF Protected
      <4> QED BY <4>2, <4>3
    <3> QED BY <3>1, <3>2
  <2> QED BY <2>0, <2>1, <2>2 DEF Policies
<1>5. Lost'
  BY <1>1 DEF Lost
<1> QED BY <1>2, <1>3, <1>4, <1>5

\* Pods come from a Job of ours, and physical Pods from Pods.
LEMMA WorldPods ==
  ASSUME WorldInv, WorldOK', UNCHANGED <<req, rec, space, things, work>>,
         \A x \in Experiments : \A k \in pods'[x] : k \in pods[x] \/ things[x][k] = "ours",
         \A x \in Experiments : \A k \in physical'[x] : k \in pods[x] \/ k \in physical[x]
  PROVE  WorldInv'
<1> USE DEF WorldInv
<1>0. \A x \in Experiments : /\ pods'[x] \subseteq Jobs /\ physical'[x] \subseteq Jobs
                             /\ pods[x] \subseteq Jobs /\ physical[x] \subseteq Jobs
  BY DEF WorldOK
<1>1. Saved' /\ Scale' /\ OneSlot'
  BY DEF Saved, Sound, Scale, OneSlot, Busy
<1>2. ASSUME NEW x \in Experiments, Disturbs(x)'
      PROVE  rec[x].exists /\ req[x].finalizer
  <2>1. Disturbs(x)
    BY <1>0, <1>2, PlanFacts DEF Disturbs, Effect
  <2> QED BY <2>1 DEF Intended
<1>3. ASSUME NEW x \in Experiments, NEW k \in 1 .. N, rec[x].actions[k].cleaned
      PROVE  Undone(x, k)'
  <2>1. Undone(x, k)
    BY <1>3 DEF Intended
  <2>2. k \notin pods'[x]
    BY <2>1 DEF Undone
  <2>3. ASSUME Plan[k] = "policy" PROVE pods'[x] = {} /\ physical'[x] = {}
    <3>1. \A j \in Jobs : things[x][j] # "ours"
      BY <1>3, <2>3, PlanFacts DEF Saved, Sound, Intended, Undone
    <3>2. pods[x] = {} /\ physical[x] = {}
      BY <2>1, <2>3 DEF Undone
    <3> QED BY <1>0, <3>1, <3>2
  <2> QED BY <2>1, <2>2, <2>3 DEF Undone
<1>4. Intended'
  BY <1>2, <1>3 DEF Intended
<1>5. Policies'
  <2>1. \A x \in Experiments : Protected(x)' <=> Protected(x)
    BY DEF Protected
  <2>2. \A x \in Experiments : pods'[x] # {} \/ physical'[x] # {} =>
          (\E k \in Jobs : things[x][k] \in {"ours", "deleting"}) \/ pods[x] # {} \/ physical[x] # {}
    BY <1>0
  <2> QED BY <2>1, <2>2 DEF Policies
<1>6. Lost'
  <2>1. ~space => \A x \in Experiments : pods'[x] = {}
    <3>1. \A k \in Jobs : k \in 1 .. N /\ Plan[k] # "policy"
      BY PlanFacts
    <3> QED BY <1>0, <3>1 DEF Lost
  <2> QED BY <2>1 DEF Lost
<1> QED BY <1>1, <1>4, <1>5, <1>6

\* The workload is scaled, marked, restored or replaced.
LEMMA WorldWork ==
  ASSUME WorldInv, WorldOK', UNCHANGED <<req, rec, space, things, pods, physical>>,
         space \/ work'.uid = 0,
         work'.mark # NoMark =>
           /\ work'.uid = 1
           /\ \E k \in 1 .. N : Plan[k] = "scale"
           /\ work'.mark = work.mark \/
                /\ rec[work'.mark].exists /\ req[work'.mark].finalizer
                /\ \A k \in 1 .. N : Plan[k] = "scale" => ~rec[work'.mark].actions[k].cleaned,
         work'.uid = 1 /\ ~work'.touched =>
           /\ work.uid = 1 /\ ~work.touched
           /\ work'.mark = NoMark => work'.replicas = MaxScale
  PROVE  WorldInv'
<1> USE DEF WorldInv
<1>1. Saved' /\ Policies' /\ OneSlot'
  BY DEF Saved, Sound, Policies, Protected, OneSlot, Busy
<1>2. Intended'
  <2>1. ASSUME NEW x \in Experiments, Disturbs(x)' PROVE rec[x].exists /\ req[x].finalizer
    <3>1. CASE Disturbs(x)
      BY <3>1 DEF Intended
    <3>2. CASE ~Disturbs(x)
      BY <2>1, <3>2, PlanFacts DEF Disturbs, Effect
    <3> QED BY <3>1, <3>2
  <2>2. ASSUME NEW x \in Experiments, NEW k \in 1 .. N, rec[x].actions[k].cleaned
        PROVE  Undone(x, k)'
    BY <2>2, PlanFacts DEF Intended, Undone
  <2> QED BY <2>1, <2>2 DEF Intended
<1>3. Lost'
  BY DEF Lost
<1>4. Scale'
  BY DEF Scale
<1> QED BY <1>1, <1>2, <1>3, <1>4

-----------------------------------------------------------------------------
\* Steps as the worker sees them.

LEMMA Returned ==
  ASSUME Return
  PROVE  WorkerInv'
<1>1. LocalsOK'
  BY NoRecordType, PlanFacts DEF Return, LocalsOK, Steps, Requests, Workloads, NoWork
<1>2. Position' /\ Copies' /\ Findings'
  BY DEF Return, Position, Copies, Findings, Applying, Rolling
<1>3. Claim'
  BY NoRecordType DEF Return, Claim, Sound
<1> QED BY <1>1, <1>2, <1>3 DEF WorkerInv

\* cleanup() of a copy that agrees with the record as far as it matters.
LEMMA Cleaning ==
  ASSUME NEW x \in Experiments, NEW q \in Requests, NEW st \in Records,
         NEW v \in Outcomes,
         CleanupOf(x, q, st, v),
         Sound(st), st.exists,
         v = "Completed" => \A k \in 1 .. N : st.actions[k].applied,
         work'.uid = 1 /\ ~work'.touched => st.original = MaxScale,
         req'[x].state # "new", q.state = "deleting" => req'[x].state = "deleting",
         rec'[x].exists, rec'[x].cleanup = st.cleanup, rec'[x].phase = st.phase,
         st.cleanup => rec'[x] = st
  PROVE  WorkerInv'
<1>0. N \in Nat /\ MaxScale \in Nat
  BY PlanFacts
<1>1. CASE st.phase = "Finished" /\ q.state # "deleting"
  BY <1>1, Returned DEF CleanupOf
<1>2. CASE ~(st.phase = "Finished" /\ q.state # "deleting")
  <2>1. /\ pc' = IF st.phase = "Finished" THEN "release"
                 ELSE IF st.cleanup THEN "roll" ELSE "begin"
        /\ i' = N /\ cur' = x /\ o' = q /\ seen' = NoWork
        /\ s' = IF st.cleanup THEN st ELSE [st EXCEPT !.outcome = v]
    BY <1>2 DEF CleanupOf
  <2>2. PICK t : t = [st EXCEPT !.outcome = v]
    OBVIOUS
  <2>3. /\ t \in Records /\ t.exists = st.exists /\ t.original = st.original
        /\ t.actions = st.actions
    BY <2>2, FieldRecord
  <2>4. t.phase = st.phase /\ t.cleanup = st.cleanup /\ t.outcome = v
    BY <2>2 DEF Records
  <2>5. Sound(t)
    BY <2>3, <2>4 DEF Sound
  <2>6. /\ s' \in Records /\ Sound(s') /\ s'.exists /\ s'.original = st.original
        /\ s'.cleanup = st.cleanup /\ s'.phase = st.phase
        /\ st.cleanup => s' = rec'[x]
    BY <2>1, <2>2, <2>3, <2>4, <2>5
  <2>7. /\ i' = N /\ cur' = x /\ o' = q /\ seen' = NoWork /\ pc' \in {"release", "roll", "begin"}
        /\ pc' = "release" => st.phase = "Finished" /\ q.state = "deleting"
        /\ pc' = "roll" => st.phase # "Finished" /\ st.cleanup
        /\ pc' = "begin" => st.phase # "Finished" /\ ~st.cleanup
    <3>1. /\ i' = N /\ cur' = x /\ o' = q /\ seen' = NoWork
          /\ pc' = IF st.phase = "Finished" THEN "release"
                   ELSE IF st.cleanup THEN "roll" ELSE "begin"
      BY <2>1
    <3> QED BY <1>2, <3>1
  <2>8. LocalsOK'
    BY <1>0, <2>6, <2>7 DEF LocalsOK, Steps, Workloads, NoWork
  <2>9. Position' /\ Findings'
    BY <2>7, <1>0 DEF Position, Findings
  <2>10. Copies'
    BY <2>6, <2>7, <1>0 DEF Copies, Applying, Rolling
  <2>11. Claim'
    BY <2>6, <2>7 DEF Claim, Sound
  <2> QED BY <2>8, <2>9, <2>10, <2>11 DEF WorkerInv
<1> QED BY <1>1, <1>2

\* Others change the guest.
LEMMA WorkerGuest ==
  ASSUME WorkerInv, UNCHANGED <<req, rec, locals>>,
         work'.uid = 1 /\ ~work'.touched => work.uid = 1 /\ ~work.touched,
         \A x \in Experiments, k \in 1 .. N : Plan[k] = "policy" => things'[x][k] = things[x][k],
         pc = "remove" /\ Plan[i] = "policy" => physical'[cur] = {},
         pc = "cleaned" => Undone(cur, i)'
  PROVE  WorkerInv'
<1> USE DEF WorkerInv, locals
<1>1. LocalsOK' /\ Position'
  BY DEF LocalsOK, Position
<1>2. Copies'
  BY DEF Copies
<1>3. Findings'
  <2>1. (pc = "applied" /\ Plan[i] = "policy" => things'[cur][i] = "ours")
    BY DEF Findings, Position
  <2> QED BY <2>1 DEF Findings
<1>4. Claim'
  BY DEF Claim, Sound, Busy
<1> QED BY <1>1, <1>2, <1>3, <1>4

\* Others change a request.
LEMMA WorkerRequest ==
  ASSUME WorkerInv, UNCHANGED <<rec, things, pods, physical, work, locals>>,
         NEW x \in Experiments, NEW r \in Requests, req \in [Experiments -> Requests],
         req' = [req EXCEPT ![x] = r],
         r.state # "new", req[x].finalizer => r.finalizer,
         req[x].state # "deleting", req[x].state # "gone",
         r.state \in {"live", "deleting"} =>
           req[x].state \in {"live", "deleting"} \/ ~rec[x].exists
  PROVE  WorkerInv'
<1> USE DEF WorkerInv, locals
<1>1. req'[x] = r /\ \A y \in Experiments : y # x => req'[y] = req[y]
  OBVIOUS
<1>2. LocalsOK'
  BY DEF LocalsOK
<1>3. Position'
  BY <1>1 DEF Position
<1>4. Copies'
  BY <1>1 DEF Copies, Position
<1>5. Findings'
  BY DEF Findings, Undone
<1>6. Claim'
  BY <1>1 DEF Claim, Sound, Busy
<1> QED BY <1>2, <1>3, <1>4, <1>5, <1>6

\* The replica's engine deletes the record of an experiment that is gone.
LEMMA WorkerReap ==
  ASSUME WorkerInv, UNCHANGED <<req, things, pods, physical, work, locals>>,
         NEW x \in Experiments, rec \in [Experiments -> Records],
         Saved, req[x].state = "gone", rec[x].phase = "Finished",
         rec' = [rec EXCEPT ![x] = NoRecord]
  PROVE  WorkerInv'
<1> USE DEF WorkerInv, locals
<1>1. rec'[x] = NoRecord /\ \A y \in Experiments : y # x => rec'[y] = rec[y]
  OBVIOUS
<1>2. LocalsOK' /\ Position'
  BY DEF LocalsOK, Position
<1>3. cur = x => pc \in {"idle", "finalizer", "forget"}
  <2>1. ~req[x].finalizer /\ rec[x].cleanup /\ rec[x].exists
    BY DEF Saved, Sound
  <2> QED BY <2>1 DEF Copies, LocalsOK, Steps, Applying, Rolling
<1>4. Copies'
  BY <1>1, <1>3, NoRecordType DEF Copies, Applying, Rolling, Position, LocalsOK
<1>5. Findings'
  BY DEF Findings, Undone
<1>6. Claim'
  BY <1>1, NoRecordType DEF Claim, Sound, Busy
<1> QED BY <1>2, <1>4, <1>5, <1>6

-----------------------------------------------------------------------------
\* The listing of the replica's engine stays true while it goes on.
LEMMA ListedKept ==
  ASSUME Listed, UNCHANGED engine,
         parent # "ready" => parent' # "ready",
         cur' = cur \/ cur' \notin Experiments,
         \A x \in Experiments : x = cur \/ (rec'[x].exists => rec[x].exists),
         \A x \in Experiments : req'[x].state \in {"live", "deleting"} =>
           req[x].state \in {"live", "deleting"} \/ (~rec'[x].exists /\ cur # x)
  PROVE  Listed'
BY DEF Listed

\* The last actions are undone before the policy, so no Pod is left then.
LEMMA PolicyPods ==
  ASSUME NEW x \in Experiments, NEW p \in 1 .. N, Plan[p] = "policy", WorldOK,
         \A k \in 1 .. N : k > p => Undone(x, k)
  PROVE  pods[x] = {} /\ \A k \in Jobs : things[x][k] \notin {"ours", "deleting"}
<1>1. \A k \in Jobs : Undone(x, k)
  BY PlanFacts
<1>2. pods[x] \subseteq Jobs
  BY DEF WorldOK
<1> QED BY <1>1, <1>2 DEF Undone

LEMMA AllUndone ==
  ASSUME NEW x \in Experiments, WorldOK, \A k \in 1 .. N : Undone(x, k)
  PROVE  ~Disturbs(x)
<1>1. pods[x] = {}
  <2>1. pods[x] \subseteq Jobs
    BY DEF WorldOK
  <2> QED BY <2>1, PlanFacts DEF Undone
<1>2. physical[x] = {}
  <2>1. physical[x] \subseteq Jobs
    BY DEF WorldOK
  <2>2. ASSUME NEW k \in physical[x] PROVE FALSE
    <3>1. PICK p \in 1 .. N : Plan[p] = "policy"
      BY <2>1, PlanFacts
    <3> QED BY <3>1 DEF Undone
  <2> QED BY <2>2
<1> QED BY <1>1, <1>2 DEF Undone, Disturbs, Effect

\* A finished record has nothing left to undo.
LEMMA FinishedCalm ==
  ASSUME NEW x \in Experiments, WorldInv, rec[x].phase = "Finished"
  PROVE  ~Disturbs(x)
<1>1. \A k \in 1 .. N : Undone(x, k)
  BY DEF WorldInv, Saved, Sound, Intended
<1> QED BY <1>1, AllUndone DEF WorldInv

-----------------------------------------------------------------------------
\* Users and the clock.

LEMMA SubmitStep ==
  ASSUME ChaosInv, NEW x \in Experiments, Submit(x)
  PROVE  ChaosInv'
<1> USE DEF ChaosInv
<1>1. /\ req[x].state = "new" /\ req' = [req EXCEPT ![x].state = "live"]
      /\ UNCHANGED <<rec, expired, parent, granted, engine, space, things, pods, physical, victim, work,
                     meddling, faults, locals>>
  BY DEF Submit, host, guest, bounds
<1>2. PICK r : r = [req[x] EXCEPT !.state = "live"]
  OBVIOUS
<1>3. req \in [Experiments -> Requests] /\ req[x] \in Requests
  BY DEF WorldInv, WorldOK
<1>4. r \in Requests /\ r.state = "live" /\ r.finalizer = req[x].finalizer
  BY <1>2, <1>3 DEF Requests
<1>5. req' = [req EXCEPT ![x] = r] /\ req' \in [Experiments -> Requests]
  <2>1. req' = [req EXCEPT ![x] = r]
    BY <1>1, <1>2
  <2> QED BY <1>3, <1>4, <2>1
<1>6. ~rec[x].exists /\ ~Disturbs(x) /\ cur # x
  <2>1. ~rec[x].exists /\ ~req[x].finalizer
    BY <1>1 DEF WorldInv, Saved
  <2>2. ~Disturbs(x)
    BY <2>1 DEF WorldInv, Intended
  <2>3. cur # x
    BY <1>1, PlanFacts DEF WorkerInv, Position
  <2> QED BY <2>1, <2>2, <2>3
<1>7. WorldOK'
  BY <1>1, <1>5 DEF WorldInv, WorldOK
<1>8. WorldInv'
  BY <1>1, <1>4, <1>5, <1>6, <1>7, WorldRequest
<1>9. WorkerInv'
  BY <1>1, <1>3, <1>4, <1>5, <1>6, WorkerRequest
<1>10. Listed'
  <2>1. req'[x] = r /\ \A y \in Experiments : y # x => req'[y] = req[y]
    BY <1>3, <1>5
  <2> QED BY <1>1, <1>6, <2>1, ListedKept DEF locals
<1> QED BY <1>8, <1>9, <1>10

\* A live request is told to stop, by its user or by the replica's engine.
LEMMA StopStep ==
  ASSUME WorkerInv, WorldInv, NEW x \in Experiments, req[x].state = "live", req' = Stopped(x),
         WorldOK', UNCHANGED <<rec, space, things, pods, physical, work, locals>>
  PROVE  /\ WorkerInv' /\ WorldInv'
         /\ \A y \in Experiments : req'[y].state \in {"live", "deleting"} => req[y].state \in {"live", "deleting"}
<1>3. req \in [Experiments -> Requests] /\ req[x] \in Requests
  BY DEF WorldInv, WorldOK
<1>1. PICK r \in Requests :
        /\ req' = [req EXCEPT ![x] = r] /\ r.finalizer = req[x].finalizer
        /\ r.state = IF r.finalizer THEN "deleting" ELSE "gone"
  <2>1. CASE req[x].finalizer
    <3>1. PICK r : r = [req[x] EXCEPT !.state = "deleting"]
      OBVIOUS
    <3>2. r \in Requests /\ r.state = "deleting" /\ r.finalizer = req[x].finalizer
      BY <1>3, <3>1 DEF Requests
    <3>3. req' = [req EXCEPT ![x] = r]
      BY <1>3, <2>1, <3>1 DEF Stopped
    <3> QED BY <2>1, <3>2, <3>3
  <2>2. CASE ~req[x].finalizer
    <3>1. PICK r : r = [req[x] EXCEPT !.state = "gone"]
      OBVIOUS
    <3>2. r \in Requests /\ r.state = "gone" /\ r.finalizer = req[x].finalizer
      BY <1>3, <3>1 DEF Requests
    <3>3. req' = [req EXCEPT ![x] = r]
      BY <1>3, <2>2, <3>1 DEF Stopped
    <3> QED BY <2>2, <3>2, <3>3
  <2> QED BY <2>1, <2>2
<1>2. /\ r.state \in {"deleting", "gone"}
      /\ r.state = "deleting" <=> r.finalizer
      /\ ~r.finalizer => ~Disturbs(x)
  BY <1>1 DEF WorldInv, Intended
<1>4. WorldInv'
  BY <1>1, <1>2, WorldRequest
<1>5. WorkerInv'
  BY <1>1, <1>2, <1>3, WorkerRequest
<1>6. req'[x] = r /\ \A y \in Experiments : y # x => req'[y] = req[y]
  BY <1>1, <1>3
<1> QED BY <1>4, <1>5, <1>6

LEMMA CancelStep ==
  ASSUME ChaosInv, NEW x \in Experiments, Cancel(x)
  PROVE  ChaosInv'
<1> USE DEF ChaosInv
<1>1. /\ req[x].state = "live" /\ req' = Stopped(x)
      /\ UNCHANGED <<rec, expired, parent, granted, engine, space, things, pods, physical, victim, work,
                     meddling, faults, locals>>
  BY DEF Cancel, host, guest, bounds
<1>2. req' \in [Experiments -> Requests]
  BY <1>1 DEF Stopped, WorldInv, WorldOK, Requests
<1>3. WorldOK'
  BY <1>1, <1>2 DEF WorldInv, WorldOK
<1>4. /\ WorkerInv' /\ WorldInv'
      /\ \A y \in Experiments : req'[y].state \in {"live", "deleting"} => req[y].state \in {"live", "deleting"}
  BY <1>1, <1>3, StopStep
<1>5. Listed'
  BY <1>1, <1>4, ListedKept DEF locals
<1> QED BY <1>4, <1>5

\* The clock and the replica's own fate.
LEMMA AsideStep ==
  ASSUME ChaosInv, (\E x \in Experiments : Expire(x)) \/ EndReplica \/ Revoke
  PROVE  ChaosInv'
<1> USE DEF ChaosInv
<1>1. /\ UNCHANGED <<req, rec, engine, space, things, pods, physical, victim, work, meddling, faults, locals>>
      /\ expired' \subseteq Experiments /\ parent' \in {"ready", "ending", "gone"}
      /\ granted' \in BOOLEAN /\ (parent # "ready" => parent' # "ready")
  BY DEF Expire, EndReplica, Revoke, host, guest, bounds, WorldInv, WorldOK
<1>2. WorldOK'
  BY <1>1 DEF WorldInv, WorldOK
<1>3. WorldInv'
  BY <1>1, <1>2, WorldSame
<1>4. WorkerInv'
  <2>1. pc = "remove" /\ Plan[i] = "policy" => physical'[cur] = {}
    BY <1>1 DEF WorkerInv, Findings
  <2>2. pc = "cleaned" => Undone(cur, i)'
    BY <1>1 DEF WorkerInv, Findings, Undone, locals
  <2> QED BY <1>1, <2>1, <2>2, WorkerGuest
<1>5. Listed'
  BY <1>1, ListedKept DEF locals
<1> QED BY <1>3, <1>4, <1>5

-----------------------------------------------------------------------------
\* Users in the guest.

\* What the worker has already marked is undone; of the policy it then knows
\* that neither Pod nor Job needs it.
LEMMA RolledBack ==
  ASSUME WorkerInv, WorldInv, pc \in Rolling
  PROVE  /\ cur \in Experiments
         /\ \A k \in 1 .. N : k > i => Undone(cur, k)
         /\ i \in 1 .. N /\ Plan[i] = "policy" =>
              pods[cur] = {} /\ \A k \in Jobs : things[cur][k] \notin {"ours", "deleting"}
<1>1. cur \in Experiments
  BY DEF WorkerInv, Position, Rolling
<1>2. \A k \in 1 .. N : k > i => Undone(cur, k)
  BY <1>1 DEF WorkerInv, Copies, WorldInv, Intended
<1>3. i \in 1 .. N /\ Plan[i] = "policy" =>
        pods[cur] = {} /\ \A k \in Jobs : things[cur][k] \notin {"ours", "deleting"}
  BY <1>1, <1>2, PolicyPods DEF WorldInv
<1> QED BY <1>1, <1>2, <1>3

LEMMA MeddleFacts ==
  ASSUME NEW what, WorldInv, Meddle(what)
  PROVE  /\ meddling' \in 0 .. MaxMeddling
         /\ UNCHANGED <<req, rec, expired, parent, granted, engine, physical, faults, locals>>
<1>1. meddling \in 0 .. MaxMeddling /\ MaxMeddling \in Nat
  BY ConstantsAssumption DEF WorldInv, WorldOK
<1> QED BY <1>1 DEF Meddle, host

\* A user deletes an object of the experiment, or creates one of its name.
LEMMA UserThingStep ==
  ASSUME ChaosInv, NEW x \in Experiments, NEW k \in 1 .. N, UserDelete(x, k) \/ UserCreate(x, k)
  PROVE  ChaosInv'
<1> USE DEF ChaosInv
<1>1. /\ meddling' \in 0 .. MaxMeddling
      /\ UNCHANGED <<req, rec, expired, parent, granted, engine, physical, faults, locals>>
  BY MeddleFacts DEF UserDelete, UserCreate
<1>2. PICK v \in {"absent", "foreign"} :
        /\ things' = [things EXCEPT ![x][k] = v] /\ Plan[k] # "policy"
        /\ things[x][k] = "ours" \/ Plan[k] \in Created
        /\ UNCHANGED <<space, pods, victim, work>>
  BY DEF UserDelete, UserCreate
<1>3. things' \in [Experiments -> [1 .. N -> {"absent", "ours", "deleting", "foreign"}]]
  BY <1>2 DEF WorldInv, WorldOK
<1>4. WorldOK'
  BY <1>1, <1>2, <1>3 DEF WorldInv, WorldOK
<1>5. WorldInv'
  <2>1. Plan[k] \in Created
    BY <1>2 DEF WorldInv, Policies
  <2> QED BY <1>1, <1>2, <1>4, <2>1, WorldThing
<1>6. /\ \A y \in Experiments, m \in 1 .. N : things'[y][m] = things[y][m] \/ things'[y][m] = v
      /\ \A y \in Experiments, m \in 1 .. N : Plan[m] = "policy" => things'[y][m] = things[y][m]
  BY <1>2 DEF WorldInv, WorldOK
<1>7. pc = "cleaned" => Undone(cur, i)'
  <2>1. pc = "cleaned" => cur \in Experiments /\ i \in 1 .. N /\ Undone(cur, i)
    BY DEF WorkerInv, Position, Findings
  <2> QED BY <1>1, <1>2, <1>6, <2>1 DEF Undone, locals
<1>8. pc = "remove" /\ Plan[i] = "policy" => physical'[cur] = {}
  BY <1>1 DEF WorkerInv, Findings
<1>9. WorkerInv'
  BY <1>1, <1>2, <1>6, <1>7, <1>8, WorkerGuest
<1>10. Listed'
  BY <1>1, ListedKept DEF locals
<1> QED BY <1>5, <1>9, <1>10

\* A user scales or replaces the workload.
LEMMA UserWorkStep ==
  ASSUME ChaosInv, (\E n \in 0 .. MaxScale : UserScale(n)) \/ UserReplace
  PROVE  ChaosInv'
<1> USE DEF ChaosInv
<1>1. /\ meddling' \in 0 .. MaxMeddling
      /\ UNCHANGED <<req, rec, expired, parent, granted, engine, physical, faults, locals>>
  BY MeddleFacts DEF UserScale, UserReplace
<1>2. UNCHANGED <<space, things, pods, victim>>
  BY DEF UserScale, UserReplace
<1>3. /\ work' \in Workloads
      /\ work'.mark = NoMark \/ (work'.mark = work.mark /\ work'.uid = work.uid)
      /\ work'.touched \/ work'.uid # 1
  <2>0. work \in Workloads /\ 0 \in 0 .. MaxScale
    BY PlanFacts DEF WorldInv, WorldOK
  <2>1. CASE \E n \in 0 .. MaxScale : UserScale(n)
    BY <2>0, <2>1 DEF UserScale, Workloads
  <2>2. CASE UserReplace
    <3>1. PICK u \in {0, 2} : work' = [NoWork EXCEPT !.uid = u]
      BY <2>2 DEF UserReplace
    <3>2. work' = [uid |-> u, replicas |-> 0, mark |-> NoMark, touched |-> FALSE]
      BY <3>1 DEF NoWork
    <3> QED BY <2>0, <3>2 DEF Workloads
  <2> QED BY <2>1, <2>2
<1>4. WorldOK'
  BY <1>1, <1>2, <1>3 DEF WorldInv, WorldOK
<1>5. WorldInv'
  <2>1. work'.mark # NoMark => /\ work'.uid = 1 /\ work'.mark = work.mark
                               /\ \E k \in 1 .. N : Plan[k] = "scale"
    BY <1>3 DEF WorldInv, Lost
  <2>2. space
    <3>1. work.uid # 0 \/ work.uid = 1
      BY DEF UserScale, UserReplace
    <3> QED BY <3>1 DEF WorldInv, Lost
  <2> QED BY <1>1, <1>2, <1>3, <1>4, <2>1, <2>2, WorldWork
<1>6. pc = "cleaned" => Undone(cur, i)'
  <2>1. pc = "cleaned" => cur \in Experiments /\ i \in 1 .. N /\ Undone(cur, i)
    BY DEF WorkerInv, Position, Findings
  <2> QED BY <1>1, <1>2, <1>3, <2>1, PlanFacts DEF Undone, locals
<1>7. pc = "remove" /\ Plan[i] = "policy" => physical'[cur] = {}
  BY <1>1 DEF WorkerInv, Findings
<1>8. WorkerInv'
  BY <1>1, <1>2, <1>3, <1>6, <1>7, WorkerGuest
<1>9. Listed'
  BY <1>1, ListedKept DEF locals
<1> QED BY <1>5, <1>8, <1>9

\* A user deletes the namespace.
LEMMA UserNamespaceStep ==
  ASSUME ChaosInv, UserNamespace
  PROVE  ChaosInv'
<1> USE DEF ChaosInv
<1>1. /\ meddling' \in 0 .. MaxMeddling
      /\ UNCHANGED <<req, rec, expired, parent, granted, engine, physical, faults, locals>>
  BY MeddleFacts DEF UserNamespace
<1>2. /\ space' = FALSE /\ pods' = [x \in Experiments |-> {}] /\ victim' = "gone"
      /\ work' \in Workloads /\ work'.mark = NoMark /\ work'.uid = 0
  BY PlanFacts DEF UserNamespace, NoWork, Workloads
<1>3. /\ things' \in [Experiments -> [1 .. N -> {"absent", "ours", "deleting", "foreign"}]]
      /\ \A x \in Experiments, k \in 1 .. N :
           things'[x][k] = IF Plan[k] = "policy" THEN things[x][k] ELSE "absent"
  BY DEF UserNamespace, WorldInv, WorldOK
<1>4. WorldOK'
  <2>1. pods' \in [Experiments -> SUBSET Jobs] /\ space' \in BOOLEAN
    BY <1>2
  <2> QED BY <1>1, <1>2, <1>3, <2>1 DEF WorldInv, WorldOK
<1>5. \A x \in Experiments, k \in 1 .. N : Undone(x, k) => Undone(x, k)'
  BY <1>1, <1>2, <1>3, PlanFacts DEF Undone
<1>6. WorldInv'
  <2> USE DEF WorldInv
  <2>1. Saved' /\ OneSlot'
    BY <1>1 DEF Saved, Sound, OneSlot, Busy
  <2>2. \A x \in Experiments : Disturbs(x)' => Disturbs(x)
    BY <1>1, <1>2, <1>3, PlanFacts DEF Disturbs, Effect
  <2>3. Intended'
    BY <1>1, <1>5, <2>2 DEF Intended
  <2>4. \A x \in Experiments : Protected(x) => Protected(x)'
    BY <1>3 DEF Protected
  <2>5. Policies'
    <3>1. ASSUME NEW x \in Experiments, NEW k \in 1 .. N, Plan[k] = "policy"
          PROVE  things'[x][k] = things[x][k]
      BY <1>3, <3>1
    <3>2. \A x \in Experiments, k \in Jobs : things'[x][k] = "absent"
      BY <1>3, PlanFacts
    <3>3. \A x \in Experiments, k \in 1 .. N : Plan[k] \notin Created => things'[x][k] = "absent"
      BY <1>3 DEF Created
    <3> QED BY <1>1, <1>2, <2>4, <3>1, <3>2, <3>3 DEF Policies
  <2>6. Lost'
    BY <1>2, <1>3 DEF Lost
  <2>7. Scale'
    BY <1>2 DEF Scale
  <2> QED BY <1>4, <2>1, <2>3, <2>5, <2>6, <2>7
<1>7. WorkerInv'
  <2>1. pc = "cleaned" => Undone(cur, i)'
    <3>1. pc = "cleaned" => cur \in Experiments /\ i \in 1 .. N /\ Undone(cur, i)
      BY DEF WorkerInv, Position, Findings
    <3>2. pc = "cleaned" => cur' = cur /\ i' = i
      BY <1>1 DEF locals
    <3> QED BY <1>5, <3>1, <3>2 DEF Undone
  <2>2. pc = "remove" /\ Plan[i] = "policy" => physical'[cur] = {}
    BY <1>1 DEF WorkerInv, Findings
  <2> QED BY <1>1, <1>2, <1>3, <2>1, <2>2, WorkerGuest
<1>8. Listed'
  BY <1>1, ListedKept DEF locals
<1> QED BY <1>6, <1>7, <1>8

LEMMA UserStep ==
  ASSUME ChaosInv, User
  PROVE  ChaosInv'
<1>1. CASE \E x \in Experiments : Submit(x)
  BY <1>1, SubmitStep
<1>2. CASE \E x \in Experiments : Cancel(x)
  BY <1>2, CancelStep
<1>3. CASE (\E x \in Experiments : Expire(x)) \/ EndReplica \/ Revoke
  BY <1>3, AsideStep
<1>4. CASE \E x \in Experiments, k \in 1 .. N : UserDelete(x, k) \/ UserCreate(x, k)
  BY <1>4, UserThingStep
<1>5. CASE (\E n \in 0 .. MaxScale : UserScale(n)) \/ UserReplace
  BY <1>5, UserWorkStep
<1>6. CASE UserNamespace
  BY <1>6, UserNamespaceStep
<1> QED BY <1>1, <1>2, <1>3, <1>4, <1>5, <1>6 DEF User

-----------------------------------------------------------------------------
\* The guest's controllers and the syncer.

\* Pods and physical Pods come and go.
LEMMA PodsStep ==
  ASSUME ChaosInv,
         \/ \E x \in Experiments, k \in 1 .. N : RunJob(x, k) \/ EndPods(x, k)
         \/ \E x \in Experiments : Sync(x)
  PROVE  ChaosInv'
<1> USE DEF ChaosInv
<1>1. /\ UNCHANGED <<req, rec, expired, parent, granted, engine, space, things, victim, work,
                     meddling, faults, locals>>
  BY DEF RunJob, EndPods, Sync, Quiet, host, bounds
<1>2. /\ pods' \in [Experiments -> SUBSET Jobs] /\ physical' \in [Experiments -> SUBSET Jobs]
      /\ \A x \in Experiments : \A k \in pods'[x] : k \in pods[x] \/ things[x][k] = "ours"
      /\ \A x \in Experiments : \A k \in physical'[x] :
           k \in pods[x] \/ (k \in physical[x] /\ physical'[x] = physical[x])
  <2>0. pods \in [Experiments -> SUBSET Jobs] /\ physical \in [Experiments -> SUBSET Jobs]
    BY DEF WorldInv, WorldOK
  <2>1. CASE \E x \in Experiments, k \in 1 .. N : RunJob(x, k) \/ EndPods(x, k)
    BY <2>0, <2>1 DEF RunJob, EndPods
  <2>2. CASE \E x \in Experiments : Sync(x)
    BY <2>0, <2>2 DEF Sync
  <2> QED BY <2>1, <2>2
<1>3. WorldOK'
  BY <1>1, <1>2 DEF WorldInv, WorldOK
<1>4. WorldInv'
  BY <1>1, <1>2, <1>3, WorldPods
<1>5. pc = "cleaned" => Undone(cur, i)'
  <2> SUFFICES ASSUME pc = "cleaned" PROVE Undone(cur, i)'
    OBVIOUS
  <2>1. cur \in Experiments /\ i \in 1 .. N /\ Undone(cur, i) /\ UNCHANGED <<cur, i>>
    BY <1>1 DEF WorkerInv, Position, Findings, locals
  <2>2. Plan[i] = "policy" => pods[cur] = {} /\ \A k \in Jobs : things[cur][k] # "ours"
    BY <2>1, RolledBack DEF Rolling
  <2>3. i \notin pods'[cur]
    BY <1>2, <2>1 DEF Undone
  <2>4. Plan[i] = "policy" => pods'[cur] = {} /\ physical'[cur] = {}
    <3>1. pods'[cur] \subseteq Jobs
      BY <1>2, <2>1
    <3> QED BY <1>2, <2>1, <2>2, <3>1 DEF Undone
  <2> QED BY <1>1, <2>1, <2>3, <2>4 DEF Undone
<1>6. pc = "remove" /\ Plan[i] = "policy" => physical'[cur] = {}
  <2> SUFFICES ASSUME pc = "remove", Plan[i] = "policy" PROVE physical'[cur] = {}
    OBVIOUS
  <2>1. cur \in Experiments /\ i \in 1 .. N /\ physical[cur] = {}
    BY DEF WorkerInv, Position, Findings
  <2>2. pods[cur] = {}
    BY <2>1, RolledBack DEF Rolling
  <2> QED BY <1>2, <2>1, <2>2
<1>7. WorkerInv'
  BY <1>1, <1>5, <1>6, WorkerGuest
<1>8. Listed'
  BY <1>1, ListedKept DEF locals
<1> QED BY <1>4, <1>7, <1>8

LEMMA EndJobStep ==
  ASSUME ChaosInv, NEW x \in Experiments, NEW k \in 1 .. N, EndJob(x, k)
  PROVE  ChaosInv'
<1> USE DEF ChaosInv
<1>1. /\ UNCHANGED <<req, rec, expired, parent, granted, engine, space, pods, physical, victim, work,
                     meddling, faults, locals>>
      /\ things' = [things EXCEPT ![x][k] = "absent"] /\ things[x][k] = "deleting"
  BY DEF EndJob, Quiet, host, bounds
<1>2. Plan[k] # "policy" /\ Plan[k] \in Created
  BY <1>1 DEF WorldInv, Policies
<1>3. things' \in [Experiments -> [1 .. N -> {"absent", "ours", "deleting", "foreign"}]]
  BY <1>1 DEF WorldInv, WorldOK
<1>4. WorldOK'
  BY <1>1, <1>3 DEF WorldInv, WorldOK
<1>5. WorldInv'
  BY <1>1, <1>2, <1>4, WorldThing
<1>6. /\ \A y \in Experiments, m \in 1 .. N : things'[y][m] = things[y][m] \/ things'[y][m] = "absent"
      /\ \A y \in Experiments, m \in 1 .. N : Plan[m] = "policy" => things'[y][m] = things[y][m]
  BY <1>1, <1>2 DEF WorldInv, WorldOK
<1>7. pc = "cleaned" => Undone(cur, i)'
  <2>1. pc = "cleaned" => cur \in Experiments /\ i \in 1 .. N /\ Undone(cur, i)
    BY DEF WorkerInv, Position, Findings
  <2> QED BY <1>1, <1>6, <2>1 DEF Undone, locals
<1>8. pc = "remove" /\ Plan[i] = "policy" => physical'[cur] = {}
  BY <1>1 DEF WorkerInv, Findings
<1>9. WorkerInv'
  BY <1>1, <1>6, <1>7, <1>8, WorkerGuest
<1>10. Listed'
  BY <1>1, ListedKept DEF locals
<1> QED BY <1>5, <1>9, <1>10

LEMMA ControllersStep ==
  ASSUME ChaosInv, Controllers
  PROVE  ChaosInv'
<1>1. CASE \/ \E x \in Experiments, k \in 1 .. N : RunJob(x, k) \/ EndPods(x, k)
           \/ \E x \in Experiments : Sync(x)
  BY <1>1, PodsStep
<1>2. CASE \E x \in Experiments, k \in 1 .. N : EndJob(x, k)
  BY <1>2, EndJobStep
<1>3. CASE ReplacePod
  <2> USE DEF ChaosInv
  <2>1. /\ UNCHANGED <<req, rec, expired, parent, granted, engine, space, things, pods, physical, work,
                       meddling, faults, locals>>
        /\ victim' = "other"
    BY <1>3 DEF ReplacePod, Quiet, host, bounds
  <2>2. WorldOK'
    BY <2>1 DEF WorldInv, WorldOK
  <2>3. WorldInv'
    BY <2>1, <2>2, WorldSame
  <2>4. pc = "cleaned" => Undone(cur, i)'
    BY <2>1 DEF WorkerInv, Findings, Undone, locals
  <2>5. pc = "remove" /\ Plan[i] = "policy" => physical'[cur] = {}
    BY <2>1 DEF WorkerInv, Findings
  <2>6. WorkerInv'
    BY <2>1, <2>4, <2>5, WorkerGuest
  <2>7. Listed'
    BY <2>1, ListedKept DEF locals
  <2> QED BY <2>3, <2>6, <2>7
<1> QED BY <1>1, <1>2, <1>3 DEF Controllers

-----------------------------------------------------------------------------
\* The worker takes up an experiment.

LEMMA NothingWritten ==
  ASSUME WorldInv, NoWrite
  PROVE  /\ UNCHANGED <<req, rec, expired, parent, granted, engine, space, things, pods, physical, victim, work,
                        meddling, faults>>
         /\ WorldInv'
<1>1. UNCHANGED <<req, rec, expired, parent, granted, engine, space, things, pods, physical, victim, work,
                  meddling, faults>>
  BY DEF NoWrite, host, guest, bounds
<1>2. WorldOK'
  BY <1>1 DEF WorldInv, WorldOK
<1> QED BY <1>1, <1>2, WorldSame

LEMMA TakenUp ==
  ASSUME Listed, NEW x \in Experiments, UNCHANGED <<req, rec, parent, engine>>,
         req[x].state \in {"live", "deleting"}, rec[x].exists \/ parent = "ready",
         cur' = x \/ cur' \notin Experiments
  PROVE  Listed'
BY DEF Listed

LEMMA EndStep ==
  ASSUME ChaosInv, NEW x \in Experiments, End(x) \/ Abort(x)
  PROVE  ChaosInv'
<1> USE DEF ChaosInv
<1>1. /\ UNCHANGED <<req, rec, parent, engine, work>> /\ WorldInv'
  BY NothingWritten DEF End, Abort
<1>2. req[x].state \in {"live", "deleting"} /\ rec[x].exists /\ req[x] \in Requests /\ rec[x] \in Records
  BY DEF End, Abort, Open, WorldInv, WorldOK
<1>3. PICK v \in Outcomes :
        /\ CleanupOf(x, req[x], rec[x], v)
        /\ v = "Completed" => rec[x].phase = "Active"
  <2>1. CASE End(x)
    <3>1. CleanupOf(x, req[x], rec[x], IF req[x].state = "deleting" THEN "Cancelled"
                    ELSE IF rec[x].phase = "Active" THEN "Completed" ELSE "Failed")
      BY <2>1 DEF End
    <3> QED BY <3>1 DEF Outcomes
  <2>2. CASE Abort(x)
    <3>1. CleanupOf(x, req[x], rec[x], IF parent # "ready" THEN "Cancelled" ELSE "Failed")
      BY <2>2 DEF Abort
    <3> QED BY <3>1 DEF Outcomes
  <2> QED BY <2>1, <2>2
<1>4. Sound(rec[x]) /\ (work.uid = 1 /\ ~work.touched => rec[x].original = MaxScale)
  BY <1>2 DEF WorldInv, Saved, Scale
<1>5. v = "Completed" => \A k \in 1 .. N : rec[x].actions[k].applied
  BY <1>3, <1>4 DEF Sound
<1>6. WorkerInv'
  BY <1>1, <1>2, <1>3, <1>4, <1>5, Cleaning
<1>7. cur' = x \/ cur' \notin Experiments
  BY <1>3, PlanFacts DEF CleanupOf, Return
<1>8. Listed'
  BY <1>1, <1>2, <1>7, TakenUp
<1> QED BY <1>1, <1>6, <1>8

LEMMA StartStep ==
  ASSUME ChaosInv, NEW x \in Experiments, Start(x)
  PROVE  ChaosInv'
<1> USE DEF ChaosInv
<1>1. /\ UNCHANGED <<req, rec, parent, engine, work>> /\ WorldInv'
  BY NothingWritten DEF Start
<1>2. /\ req[x].state \in {"live", "deleting"} /\ req[x] \in Requests
      /\ ~rec[x].exists /\ parent = "ready" /\ Slot(x) /\ Prepared
      /\ pc' = "intent" /\ cur' = x /\ i' = 0 /\ o' = req[x]
      /\ s' = NewRecord(work.replicas) /\ seen' = NoWork
      /\ work \in Workloads /\ work.replicas \in 0 .. MaxScale
  BY DEF Start, Open, WorldInv, WorldOK, Workloads
<1>3. /\ s' \in Records /\ Sound(s') /\ s'.exists /\ ~s'.cleanup /\ s'.original = work.replicas
      /\ \A k \in 1 .. N : ~s'.actions[k].applied
  BY <1>2, NewRecordType
<1>4. work.uid = 1 /\ ~work.touched => work.replicas = MaxScale
  BY <1>2 DEF Prepared, WorldInv, Lost, Scale
<1>5. \A y \in Experiments : y # x => ~Busy(y)
  BY <1>2 DEF Slot, Busy
<1>6. WorkerInv'
  <2>1. LocalsOK'
    BY <1>2, <1>3, PlanFacts DEF LocalsOK, Steps, Workloads, NoWork
  <2>2. Position' /\ Findings'
    BY <1>1, <1>2 DEF Position, Findings
  <2>3. Copies'
    BY <1>1, <1>2, <1>3 DEF Copies, Applying, Rolling
  <2>4. Claim'
    BY <1>1, <1>2, <1>3, <1>4, <1>5 DEF Claim, Sound, Busy
  <2> QED BY <2>1, <2>2, <2>3, <2>4 DEF WorkerInv
<1>7. Listed'
  BY <1>1, <1>2, TakenUp
<1> QED BY <1>1, <1>6, <1>7

LEMMA ResumeStep ==
  ASSUME ChaosInv, NEW x \in Experiments, Resume(x)
  PROVE  ChaosInv'
<1> USE DEF ChaosInv
<1>1. /\ UNCHANGED <<req, rec, parent, engine, work>> /\ WorldInv'
  BY NothingWritten DEF Resume
<1>2. /\ req[x].state \in {"live", "deleting"} /\ req[x] \in Requests /\ rec[x] \in Records
      /\ rec[x].exists /\ ~rec[x].cleanup /\ parent = "ready"
      /\ cur' = x /\ i' = 1 /\ o' = req[x] /\ s' = rec[x] /\ seen' = NoWork
  BY DEF Resume, Open, Over, WorldInv, WorldOK
<1>3. pc' \in {"look", "finalizer"} /\ (pc' = "look" => req[x].finalizer)
  BY DEF Resume
<1>4. /\ Sound(rec[x]) /\ (work.uid = 1 /\ ~work.touched => rec[x].original = MaxScale)
      /\ rec[x].phase # "Finished"
  BY <1>2 DEF WorldInv, Saved, Scale, Sound
<1>5. N \in Nat /\ N > 0 /\ MaxScale \in Nat
  BY PlanFacts
<1>6. WorkerInv'
  <2>1. LocalsOK'
    BY <1>2, <1>3, <1>5 DEF LocalsOK, Steps, Workloads, NoWork
  <2>2. Position' /\ Findings'
    BY <1>1, <1>2, <1>3, <1>5 DEF Position, Findings
  <2>3. Copies'
    BY <1>1, <1>2, <1>3, <1>4, <1>5 DEF Copies, Applying, Rolling
  <2>4. Claim'
    BY <1>1, <1>2, <1>3, <1>4 DEF Claim, Sound
  <2> QED BY <2>1, <2>2, <2>3, <2>4 DEF WorkerInv
<1>7. Listed'
  BY <1>1, <1>2, TakenUp
<1> QED BY <1>1, <1>6, <1>7

LEMMA PickStep ==
  ASSUME ChaosInv, NEW x \in Experiments, Pick(x)
  PROVE  ChaosInv'
BY EndStep, StartStep, ResumeStep DEF Pick

-----------------------------------------------------------------------------
\* apply().

\* What apply() knows of its experiment, whichever action it is at.
LEMMA ApplyFacts ==
  ASSUME WorkerInv, WorldOK, pc \in Applying
  PROVE  /\ cur \in Experiments /\ req[cur].state # "new" /\ req[cur].finalizer
         /\ rec[cur] = s /\ s \in Records /\ Sound(s) /\ s.exists /\ ~s.cleanup /\ s.phase # "Finished"
         /\ o \in Requests /\ (o.state = "deleting" => req[cur].state = "deleting")
BY DEF WorkerInv, LocalsOK, Position, Copies, Claim, Applying

\* apply() reads or changes the guest and goes on to the next step.
LEMMA Onward ==
  ASSUME WorkerInv, WorldOK, pc \in Applying,
         pc' \in {"create", "strike", "patch", "applied", "active"},
         UNCHANGED <<req, rec, cur, i, o, s>>, seen' \in Workloads,
         work'.uid = 1 /\ ~work'.touched => work.uid = 1 /\ ~work.touched,
         IF pc' = "active" THEN i = N + 1 ELSE i \in 1 .. N,
         pc' = "create" => Plan[i] \in Created,
         pc' = "strike" => Plan[i] = "pod",
         pc' = "patch" => /\ Plan[i] = "scale" /\ seen'.uid = 1 /\ seen'.mark = NoMark
                          /\ seen'.replicas = s.original,
         pc' = "applied" /\ Plan[i] = "policy" => things'[cur][i] = "ours"
  PROVE  WorkerInv'
<1>1. LocalsOK'
  BY DEF WorkerInv, LocalsOK, Steps
<1>2. Position'
  BY ApplyFacts DEF Position
<1>3. Copies'
  BY ApplyFacts DEF WorkerInv, Copies, Applying, Rolling
<1>4. Findings'
  BY DEF Findings
<1>5. Claim'
  BY DEF WorkerInv, Claim, Sound
<1> QED BY <1>1, <1>2, <1>3, <1>4, <1>5 DEF WorkerInv

\* apply() fails and the rollback begins.
LEMMA Failing ==
  ASSUME WorkerInv, WorldOK, pc \in Applying, Fail(s), UNCHANGED <<req, rec>>,
         work'.uid = 1 /\ ~work'.touched => work.uid = 1 /\ ~work.touched
  PROVE  WorkerInv' /\ (cur' = cur \/ cur' \notin Experiments)
<1>1. CleanupOf(cur, o, s, "Failed") /\ "Failed" \in Outcomes
  BY DEF Fail, Outcomes
<1>2. work'.uid = 1 /\ ~work'.touched => s.original = MaxScale
  BY ApplyFacts DEF WorkerInv, Claim
<1>3. WorkerInv'
  BY <1>1, <1>2, ApplyFacts, Cleaning
<1>4. cur' = cur \/ cur' \notin Experiments
  BY <1>1, PlanFacts DEF CleanupOf, Return
<1> QED BY <1>3, <1>4

LEMMA LookStep ==
  ASSUME ChaosInv, LookThing \/ LookPod \/ LookScale \/ LookLost \/ Started
  PROVE  ChaosInv'
<1> USE DEF ChaosInv
<1>0. NoWrite /\ pc = "look" /\ pc \in Applying
  BY DEF LookThing, LookPod, LookScale, LookLost, Started, Applying
<1>1. /\ UNCHANGED <<req, rec, parent, engine, things, work>> /\ WorldInv' /\ WorldOK
  BY <1>0, NothingWritten DEF WorldInv
<1>2. i \in 1 .. N + 1 /\ N \in Nat
  BY <1>0, PlanFacts DEF WorkerInv, Position
<1>3. CASE Fail(s)
  <2>1. WorkerInv' /\ (cur' = cur \/ cur' \notin Experiments)
    BY <1>0, <1>1, <1>3, Failing
  <2>2. Listed'
    BY <1>1, <2>1, ListedKept
  <2> QED BY <1>1, <2>1, <2>2
<1>4. CASE Return
  <2>1. WorkerInv'
    BY <1>4, Returned
  <2>2. Listed'
    BY <1>1, <1>4, ListedKept, PlanFacts DEF Return
  <2> QED BY <1>1, <2>1, <2>2
<1>5. CASE ~Fail(s) /\ ~Return
  <2>1. /\ pc' \in {"create", "strike", "patch", "applied", "active"}
        /\ UNCHANGED <<cur, i, o, s>> /\ (seen' = seen \/ seen' = work)
        /\ IF pc' = "active" THEN i = N + 1 ELSE i \in 1 .. N
        /\ pc' = "create" => Plan[i] \in Created
        /\ pc' = "strike" => Plan[i] = "pod"
        /\ pc' = "patch" => /\ Plan[i] = "scale" /\ work.uid = 1 /\ work.mark = NoMark
                            /\ work.replicas = s.original /\ seen' = work
        /\ pc' = "applied" /\ Plan[i] = "policy" => things[cur][i] \in {"ours", "deleting"}
    <3>1. CASE LookThing
      BY <1>2, <1>5, <3>1 DEF LookThing, Goto
    <3>2. CASE LookPod
      BY <1>2, <1>5, <3>2 DEF LookPod, Goto
    <3>3. CASE LookScale
      BY <1>2, <1>5, <3>3 DEF LookScale, Goto
    <3>4. CASE LookLost
      BY <1>5, <3>4 DEF LookLost
    <3>5. CASE Started
      BY <1>2, <1>5, <3>5 DEF Started, Goto
    <3> QED BY <3>1, <3>2, <3>3, <3>4, <3>5
  <2>2. seen' \in Workloads
    BY <2>1, <1>1 DEF WorkerInv, LocalsOK, WorldOK
  <2>3. pc' = "applied" /\ Plan[i] = "policy" => things'[cur][i] = "ours"
    <3>1. cur \in Experiments
      BY <1>0, <1>1, ApplyFacts
    <3> QED BY <1>1, <2>1, <3>1 DEF WorldInv, Policies
  <2>4. WorkerInv'
    BY <1>0, <1>1, <2>1, <2>2, <2>3, Onward
  <2>5. Listed'
    BY <1>1, <2>1, ListedKept
  <2> QED BY <1>1, <2>4, <2>5
<1> QED BY <1>3, <1>4, <1>5

LEMMA FaultType ==
  ASSUME WorldOK, faults' = faults \/ Fault
  PROVE  faults' \in 0 .. MaxFaults
<1>1. MaxFaults \in Nat /\ faults \in 0 .. MaxFaults
  BY ConstantsAssumption DEF WorldOK
<1> QED BY <1>1 DEF Fault

\* A write of apply(): it is done, its answer is lost, or it is refused.
LEMMA ApplyOutcome ==
  ASSUME WorkerInv, WorldOK, pc \in Applying, i \in 1 .. N, UNCHANGED <<req, rec>>,
         Outcome(Goto("applied", i), Fail(s)) \/ ((Fail(s) \/ Goto("applied", i)) /\ UNCHANGED faults),
         work'.uid = 1 /\ ~work'.touched => work.uid = 1 /\ ~work.touched,
         pc' = "applied" /\ Plan[i] = "policy" => things'[cur][i] = "ours"
  PROVE  /\ WorkerInv' /\ (cur' = cur \/ cur' \notin Experiments)
         /\ faults' \in 0 .. MaxFaults
<1>1. faults' \in 0 .. MaxFaults
  BY FaultType DEF Outcome
<1>2. CASE Fail(s)
  BY <1>1, <1>2, Failing
<1>3. CASE Goto("applied", i)
  <2>1. pc' = "applied" /\ UNCHANGED <<cur, i, o, s, seen>> /\ seen \in Workloads
    BY <1>3 DEF Goto, WorkerInv, LocalsOK
  <2>2. WorkerInv'
    BY <2>1, Onward
  <2> QED BY <1>1, <2>1, <2>2
<1> QED BY <1>2, <1>3 DEF Outcome

LEMMA CreateStep ==
  ASSUME ChaosInv, Create
  PROVE  ChaosInv'
<1> USE DEF ChaosInv
<1>0. pc = "create" /\ pc \in Applying /\ i \in 1 .. N /\ Plan[i] \in Created /\ WorldOK
  BY DEF Create, WorkerInv, Position, Applying, WorldInv
<1>1. UNCHANGED <<req, rec, expired, parent, granted, engine, space, pods, physical, victim, work, meddling>>
  BY DEF Create, host
<1>2. /\ cur \in Experiments /\ req[cur].finalizer /\ rec[cur] = s /\ s.exists /\ ~s.cleanup /\ Sound(s)
  BY <1>0, ApplyFacts
<1>3. CASE things[cur][i] = "absent" /\ (space \/ Plan[i] = "policy")
  <2>1. things' = [things EXCEPT ![cur][i] = "ours"] /\ Outcome(Goto("applied", i), Fail(s))
    BY <1>3 DEF Create
  <2>2. things'[cur][i] = "ours" /\ things' \in [Experiments -> [1 .. N -> {"absent", "ours", "deleting", "foreign"}]]
    BY <1>0, <1>2, <2>1 DEF WorldOK
  <2>3. /\ WorkerInv' /\ (cur' = cur \/ cur' \notin Experiments) /\ faults' \in 0 .. MaxFaults
    BY <1>0, <1>1, <2>1, <2>2, ApplyOutcome
  <2>4. WorldOK'
    BY <1>0, <1>1, <2>2, <2>3 DEF WorldOK
  <2>5. ~rec[cur].actions[i].cleaned
    BY <1>0, <1>2 DEF Sound
  <2>6. i \in Jobs => Protected(cur)
    <3> SUFFICES ASSUME i \in Jobs PROVE Protected(cur)
      OBVIOUS
    <3>1. PICK p \in 1 .. N : Plan[p] = "policy" /\ p < i
      BY PlanFacts
    <3>2. s.actions[p].applied
      BY <1>0, <3>1 DEF WorkerInv, Copies
    <3>3. things[cur][p] = "ours"
      BY <1>2, <3>1, <3>2 DEF WorldInv, Policies
    <3> QED BY <3>1, <3>3 DEF Protected
  <2>7. WorldInv'
    BY <1>0, <1>1, <1>2, <1>3, <2>1, <2>4, <2>5, <2>6, WorldThing
  <2>8. Listed'
    BY <1>1, <2>3, ListedKept
  <2> QED BY <2>3, <2>7, <2>8
<1>4. CASE ~(things[cur][i] = "absent" /\ (space \/ Plan[i] = "policy"))
  <2>1. Fail(s) /\ UNCHANGED <<things, faults>>
    BY <1>4 DEF Create
  <2>2. WorkerInv' /\ (cur' = cur \/ cur' \notin Experiments)
    BY <1>0, <1>1, <2>1, Failing
  <2>3. WorldOK'
    BY <1>0, <1>1, <2>1 DEF WorldOK
  <2>4. WorldInv'
    BY <1>1, <2>1, <2>3, WorldSame
  <2>5. Listed'
    BY <1>1, <2>2, ListedKept
  <2> QED BY <2>2, <2>4, <2>5
<1> QED BY <1>3, <1>4

LEMMA StrikeStep ==
  ASSUME ChaosInv, Strike
  PROVE  ChaosInv'
<1> USE DEF ChaosInv
<1>0. pc = "strike" /\ pc \in Applying /\ i \in 1 .. N /\ WorldOK
  BY DEF Strike, WorkerInv, Position, Applying, WorldInv
<1>1. UNCHANGED <<req, rec, expired, parent, granted, engine, space, things, pods, physical, work, meddling>>
  BY DEF Strike, host
<1>2. /\ victim' \in {victim, "gone"}
      /\ Outcome(Goto("applied", i), Fail(s)) \/ ((Fail(s) \/ Goto("applied", i)) /\ UNCHANGED faults)
  BY DEF Strike
<1>3. Plan[i] # "policy"
  BY <1>0 DEF WorkerInv, Position
<1>4. /\ WorkerInv' /\ (cur' = cur \/ cur' \notin Experiments) /\ faults' \in 0 .. MaxFaults
  BY <1>0, <1>1, <1>2, <1>3, ApplyOutcome
<1>5. WorldOK'
  BY <1>0, <1>1, <1>2, <1>4 DEF WorldOK
<1>6. WorldInv'
  BY <1>1, <1>5, WorldSame
<1>7. Listed'
  BY <1>1, <1>4, ListedKept
<1> QED BY <1>4, <1>6, <1>7

LEMMA PatchStep ==
  ASSUME ChaosInv, Patch
  PROVE  ChaosInv'
<1> USE DEF ChaosInv
<1>0. pc = "patch" /\ pc \in Applying /\ i \in 1 .. N /\ Plan[i] = "scale" /\ WorldOK
  BY DEF Patch, WorkerInv, Position, Applying, WorldInv
<1>1. UNCHANGED <<req, rec, expired, parent, granted, engine, space, things, pods, physical, victim, meddling>>
  BY DEF Patch, host
<1>2. /\ cur \in Experiments /\ req[cur].finalizer /\ rec[cur] = s /\ s.exists /\ ~s.cleanup /\ Sound(s)
  BY <1>0, ApplyFacts
<1>3. CASE work = seen
  <2>1. work' = [work EXCEPT !.replicas = 0, !.mark = cur] /\ Outcome(Goto("applied", i), Fail(s))
    BY <1>3 DEF Patch
  <2>2. /\ work' \in Workloads /\ work'.mark = cur /\ work'.uid = work.uid /\ work'.touched = work.touched
    <3>1. work \in Workloads /\ 0 \in 0 .. MaxScale /\ cur \in Experiments \cup {NoMark}
      BY <1>0, <1>2, PlanFacts DEF WorldOK
    <3> QED BY <2>1, <3>1 DEF Workloads
  <2>3. work.uid = 1
    BY <1>0, <1>3 DEF WorkerInv, Findings
  <2>4. /\ WorkerInv' /\ (cur' = cur \/ cur' \notin Experiments) /\ faults' \in 0 .. MaxFaults
    BY <1>0, <1>1, <2>1, <2>2, ApplyOutcome
  <2>5. WorldOK'
    BY <1>0, <1>1, <2>2, <2>4 DEF WorldOK
  <2>6. WorldInv'
    <3>1. \A k \in 1 .. N : ~rec[cur].actions[k].cleaned
      BY <1>2 DEF Sound
    <3>2. space /\ NoMark # cur
      BY <1>2, <2>3, PlanFacts DEF WorldInv, Lost
    <3> QED BY <1>0, <1>1, <1>2, <2>2, <2>3, <2>5, <3>1, <3>2, WorldWork
  <2>7. Listed'
    BY <1>1, <2>4, ListedKept
  <2> QED BY <2>4, <2>6, <2>7
<1>4. CASE work # seen
  <2>1. Fail(s) /\ UNCHANGED <<work, faults>>
    BY <1>4 DEF Patch
  <2>2. WorkerInv' /\ (cur' = cur \/ cur' \notin Experiments)
    BY <1>0, <1>1, <2>1, Failing
  <2>3. WorldOK'
    BY <1>0, <1>1, <2>1 DEF WorldOK
  <2>4. WorldInv'
    BY <1>1, <2>1, <2>3, WorldSame
  <2>5. Listed'
    BY <1>1, <2>2, ListedKept
  <2> QED BY <2>2, <2>4, <2>5
<1> QED BY <1>3, <1>4

-----------------------------------------------------------------------------
\* Store.Save.

\* A save of the worker: the record is as it should be, and the worker goes on
\* with what it saved unless the answer is lost.
LEMMA Saving ==
  ASSUME ChaosInv, cur \in Experiments, NEW new \in Records, NEW step, NEW k, Save(new, step, k),
         Sound(new), new.exists,
         \A m \in 1 .. N : new.actions[m].cleaned => Undone(cur, m),
         \A m \in 1 .. N : Plan[m] = "policy" /\ ~new.cleanup /\ new.actions[m].applied
           => things[cur][m] = "ours",
         new.original = s.original, s.exists,
         \/ rec[cur].exists /\ rec[cur].phase # "Finished"
         \/ \A y \in Experiments : y # cur => ~Busy(y)
  PROVE  /\ WorldInv' /\ Listed' /\ rec'[cur] = new /\ rec' \in [Experiments -> Records]
         /\ UNCHANGED <<req, things, pods, physical, work>>
         /\ WorkerInv' \/ (pc' = step /\ i' = k /\ s' = new /\ UNCHANGED <<cur, o, seen>>)
<1> USE DEF ChaosInv
<1>1. /\ rec' = [rec EXCEPT ![cur] = new]
      /\ UNCHANGED <<req, expired, parent, granted, engine, space, things, pods, physical, victim, work, meddling>>
  BY DEF Save, host, guest
<1>2. /\ Return \/ (pc' = step /\ i' = k /\ s' = new /\ UNCHANGED <<cur, o, seen>>)
      /\ faults' = faults \/ Fault
  BY DEF Save, Outcome
<1>3. rec'[cur] = new /\ rec' \in [Experiments -> Records] /\ \A y \in Experiments : y # cur => rec'[y] = rec[y]
  BY <1>1 DEF WorldInv, WorldOK
<1>4. WorldOK'
  BY <1>1, <1>2, <1>3, FaultType DEF WorldInv, WorldOK
<1>5. WorldInv'
  <2>1. req[cur].state # "new"
    BY PlanFacts DEF WorkerInv, Position
  <2>2. work.uid = 1 /\ ~work.touched /\ new.exists => new.original = MaxScale
    BY DEF WorkerInv, Claim
  <2>3. \/ new.exists /\ new.phase # "Finished" => Busy(cur) \/ req[cur].state \notin {"live", "deleting"}
        \/ \A y \in Experiments : y # cur => ~Busy(y)
    BY DEF Busy
  <2> QED BY <1>1, <1>4, <2>1, <2>2, <2>3, WorldRecord
<1>6. Listed'
  <2>1. cur' = cur \/ cur' \notin Experiments
    BY <1>2, PlanFacts DEF Return
  <2> QED BY <1>1, <1>3, <2>1, ListedKept
<1> QED BY <1>1, <1>2, <1>3, <1>5, <1>6, Returned

LEMMA SaveIntentStep ==
  ASSUME ChaosInv, SaveIntent
  PROVE  ChaosInv'
<1> USE DEF ChaosInv
<1>1. /\ pc = "intent" /\ Save(s, "finalizer", 0) /\ cur \in Experiments /\ req[cur].state # "new"
      /\ s \in Records /\ s.exists /\ ~s.cleanup /\ Sound(s)
      /\ \A k \in 1 .. N : ~s.actions[k].applied /\ ~s.actions[k].cleaned
      /\ \A y \in Experiments : y # cur => ~Busy(y)
  BY DEF SaveIntent, WorkerInv, LocalsOK, Position, Copies, Claim, Sound
<1>2. /\ WorldInv' /\ Listed' /\ rec'[cur] = s /\ UNCHANGED <<req, things, pods, physical, work>>
      /\ WorkerInv' \/ (pc' = "finalizer" /\ i' = 0 /\ s' = s /\ UNCHANGED <<cur, o, seen>>)
  BY <1>1, Saving
<1>3. CASE pc' = "finalizer" /\ i' = 0 /\ s' = s /\ UNCHANGED <<cur, o, seen>>
  <2>1. LocalsOK'
    BY <1>3, PlanFacts DEF WorkerInv, LocalsOK, Steps
  <2>2. Position' /\ Findings'
    BY <1>1, <1>2, <1>3 DEF Position, Findings
  <2>3. Copies'
    BY <1>1, <1>2, <1>3 DEF WorkerInv, Copies, Applying, Rolling
  <2>4. Claim'
    BY <1>2, <1>3 DEF WorkerInv, Claim, Sound
  <2> QED BY <1>2, <2>1, <2>2, <2>3, <2>4 DEF WorkerInv
<1> QED BY <1>2, <1>3

LEMMA SaveAppliedStep ==
  ASSUME ChaosInv, SaveApplied
  PROVE  ChaosInv'
<1> USE DEF ChaosInv
<1>0. pc = "applied" /\ pc \in Applying /\ i \in 1 .. N /\ N \in Nat
  BY PlanFacts DEF SaveApplied, WorkerInv, Position, Applying
<1>1. /\ cur \in Experiments /\ req[cur].state # "new" /\ req[cur].finalizer
      /\ rec[cur] = s /\ s \in Records /\ Sound(s) /\ s.exists /\ ~s.cleanup /\ s.phase # "Finished"
      /\ o \in Requests /\ (o.state = "deleting" => req[cur].state = "deleting")
  BY <1>0, ApplyFacts DEF WorldInv
<1>2. PICK q : q = AppliedNow
  OBVIOUS
<1>3. /\ q \in Records /\ q.exists = s.exists /\ q.cleanup = s.cleanup
      /\ q.phase = s.phase /\ q.outcome = s.outcome /\ q.original = s.original
      /\ \A m \in 1 .. N : q.actions[m].cleaned = s.actions[m].cleaned
      /\ \A m \in 1 .. N : s.actions[m].applied => q.actions[m].applied
      /\ \A m \in 1 .. N : m # i => q.actions[m].applied = s.actions[m].applied
      /\ q.actions[i].applied
  BY <1>0, <1>1, <1>2, AppliedRecord
<1>4. Sound(q) /\ \A m \in 1 .. N : ~q.actions[m].cleaned
  BY <1>1, <1>3 DEF Sound
<1>5. \A m \in 1 .. N : Plan[m] = "policy" /\ ~q.cleanup /\ q.actions[m].applied => things[cur][m] = "ours"
  BY <1>0, <1>1, <1>3 DEF WorkerInv, Findings, WorldInv, Policies
<1>6. Save(q, "look", i + 1)
  BY <1>2 DEF SaveApplied
<1>7. /\ WorldInv' /\ Listed' /\ rec'[cur] = q /\ UNCHANGED <<req, things, pods, physical, work>>
      /\ WorkerInv' \/ (pc' = "look" /\ i' = i + 1 /\ s' = q /\ UNCHANGED <<cur, o, seen>>)
  BY <1>1, <1>3, <1>4, <1>5, <1>6, Saving
<1>8. CASE pc' = "look" /\ i' = i + 1 /\ s' = q /\ UNCHANGED <<cur, o, seen>>
  <2>1. LocalsOK'
    BY <1>0, <1>3, <1>8 DEF WorkerInv, LocalsOK, Steps
  <2>2. Position' /\ Findings'
    BY <1>0, <1>1, <1>7, <1>8 DEF Position, Findings
  <2>3. \A m \in 1 .. N : m < i + 1 => q.actions[m].applied
    BY <1>0, <1>3 DEF WorkerInv, Copies
  <2>4. Copies'
    BY <1>1, <1>3, <1>7, <1>8, <2>3 DEF Copies, Applying, Rolling
  <2>5. Claim'
    BY <1>1, <1>3, <1>4, <1>7, <1>8 DEF WorkerInv, Claim, Sound
  <2> QED BY <1>7, <2>1, <2>2, <2>4, <2>5 DEF WorkerInv
<1> QED BY <1>7, <1>8

\* What the worker knows while it rolls back.
LEMMA RollFacts ==
  ASSUME WorkerInv, WorldInv, pc \in Rolling
  PROVE  /\ cur \in Experiments /\ req[cur].state # "new" /\ i \in 0 .. N
         /\ rec[cur] = s /\ s \in Records /\ Sound(s) /\ s.exists /\ s.cleanup /\ s.phase # "Finished"
         /\ \A k \in 1 .. N : k > i => s.actions[k].cleaned
         /\ \A k \in 1 .. N : s.actions[k].cleaned => Undone(cur, k)
         /\ o \in Requests /\ (o.state = "deleting" => req[cur].state = "deleting")
<1>1. /\ cur \in Experiments /\ req[cur].state # "new"
      /\ rec[cur] = s /\ s \in Records /\ Sound(s) /\ s.exists /\ s.cleanup /\ s.phase # "Finished"
      /\ \A k \in 1 .. N : k > i => s.actions[k].cleaned
      /\ o \in Requests /\ (o.state = "deleting" => req[cur].state = "deleting")
  BY DEF WorkerInv, LocalsOK, Position, Copies, Claim, Rolling
<1>2. i \in 0 .. N
  BY PlanFacts DEF WorkerInv, Position, Rolling
<1>3. \A k \in 1 .. N : s.actions[k].cleaned => Undone(cur, k)
  BY <1>1 DEF WorldInv, Intended
<1> QED BY <1>1, <1>2, <1>3

\* The rollback goes on, with the record as it is saved now.
LEMMA Backward ==
  ASSUME WorkerInv, UNCHANGED <<req, cur, o>>, cur \in Experiments, req[cur].state # "new",
         o.state = "deleting" => req[cur].state = "deleting",
         pc' \in Rolling, i' \in 0 .. N, s' \in Records, seen' \in Workloads,
         rec'[cur] = s', Sound(s'), s'.exists, s'.cleanup, s'.phase # "Finished",
         work'.uid = 1 /\ ~work'.touched => s'.original = MaxScale,
         \A k \in 1 .. N : k > i' => s'.actions[k].cleaned,
         pc' \in {"pin", "remove", "restore", "cleaned"} => i' # 0,
         pc' = "finished" => i' = 0,
         pc' \in {"pin", "remove"} => Plan[i'] \in Created,
         pc' = "pin" => Plan[i'] # "policy",
         pc' = "restore" => /\ Plan[i'] = "scale"
                            /\ seen'.uid = 1 /\ seen'.mark = cur /\ seen'.replicas = 0,
         pc' = "remove" /\ Plan[i'] = "policy" => physical'[cur] = {},
         pc' = "cleaned" => Undone(cur, i)'
  PROVE  WorkerInv'
<1>0. N \in Nat
  BY PlanFacts
<1>1. LocalsOK'
  BY <1>0 DEF WorkerInv, LocalsOK, Steps, Rolling
<1>2. Position'
  <2>1. pc' \in {"pin", "remove", "restore", "cleaned"} => i' \in 1 .. N
    BY <1>0
  <2>2. pc' \notin {"idle", "look", "create", "strike", "patch", "applied", "active"}
    BY DEF Rolling
  <2> QED BY <2>1, <2>2 DEF Position
<1>3. Copies'
  BY DEF Copies, Applying, Rolling
<1>4. Findings'
  <2>1. pc' \notin {"patch", "applied"}
    BY DEF Rolling
  <2> QED BY <2>1 DEF Findings
<1>5. Claim'
  BY DEF Claim, Rolling, Sound
<1> QED BY <1>1, <1>2, <1>3, <1>4, <1>5 DEF WorkerInv

LEMMA BeginCleanupStep ==
  ASSUME ChaosInv, BeginCleanup
  PROVE  ChaosInv'
<1> USE DEF ChaosInv
<1>0. /\ pc = "begin" /\ cur \in Experiments /\ req[cur].state # "new"
      /\ rec[cur].exists /\ ~rec[cur].cleanup /\ s.exists /\ ~s.cleanup /\ Sound(s)
      /\ s \in Records /\ s.phase = rec[cur].phase
      /\ o.state = "deleting" => req[cur].state = "deleting"
  BY DEF BeginCleanup, WorkerInv, LocalsOK, Position, Copies, Claim
<1>1. s.phase # "Finished" /\ \A k \in 1 .. N : ~s.actions[k].cleaned
  BY <1>0 DEF Sound
<1>2. PICK q : q = [s EXCEPT !.cleanup = TRUE]
  OBVIOUS
<1>3. q \in Records /\ q.exists = s.exists /\ q.original = s.original /\ q.actions = s.actions
  BY <1>0, <1>2, FieldRecord
<1>4. q.phase = s.phase /\ q.outcome = s.outcome /\ q.cleanup
  BY <1>0, <1>2 DEF Records
<1>5. Sound(q)
  BY <1>0, <1>1, <1>3, <1>4 DEF Sound
<1>6. Save(q, "roll", N)
  BY <1>2 DEF BeginCleanup
<1>7. /\ WorldInv' /\ Listed' /\ rec'[cur] = q /\ UNCHANGED <<req, things, pods, physical, work>>
      /\ WorkerInv' \/ (pc' = "roll" /\ i' = N /\ s' = q /\ UNCHANGED <<cur, o, seen>>)
  BY <1>0, <1>1, <1>3, <1>4, <1>5, <1>6, Saving
<1>8. CASE pc' = "roll" /\ i' = N /\ s' = q /\ UNCHANGED <<cur, o, seen>>
  <2>1. seen' \in Workloads /\ (work'.uid = 1 /\ ~work'.touched => q.original = MaxScale)
    BY <1>0, <1>3, <1>7, <1>8 DEF WorkerInv, LocalsOK, Claim
  <2>2. i' \in 0 .. N /\ \A k \in 1 .. N : ~(k > i')
    BY <1>8, PlanFacts
  <2>3. pc' \in Rolling
    BY <1>8 DEF Rolling
  <2>4. WorkerInv'
    BY <1>0, <1>1, <1>3, <1>4, <1>5, <1>7, <1>8, <2>1, <2>2, <2>3, Backward
  <2> QED BY <1>7, <2>4
<1> QED BY <1>7, <1>8

LEMMA PinStep ==
  ASSUME ChaosInv, Pin
  PROVE  ChaosInv'
<1> USE DEF ChaosInv
<1>0. pc = "pin" /\ pc \in Rolling /\ i \in 1 .. N /\ Plan[i] \in Created /\ Plan[i] # "policy" /\ N \in Nat
  BY PlanFacts DEF Pin, WorkerInv, Position, Rolling
<1>1. /\ cur \in Experiments /\ req[cur].state # "new" /\ i \in 0 .. N
      /\ rec[cur] = s /\ s \in Records /\ Sound(s) /\ s.exists /\ s.cleanup /\ s.phase # "Finished"
      /\ \A k \in 1 .. N : k > i => s.actions[k].cleaned
      /\ \A k \in 1 .. N : s.actions[k].cleaned => Undone(cur, k)
      /\ o \in Requests /\ (o.state = "deleting" => req[cur].state = "deleting")
  BY <1>0, RollFacts
<1>2. PICK q : q = [s EXCEPT !.actions[i].uid = TRUE]
  OBVIOUS
<1>3. /\ q \in Records /\ q.exists = s.exists /\ q.cleanup = s.cleanup
      /\ q.phase = s.phase /\ q.outcome = s.outcome /\ q.original = s.original
      /\ \A m \in 1 .. N : q.actions[m].cleaned = s.actions[m].cleaned
      /\ \A m \in 1 .. N : q.actions[m].applied = s.actions[m].applied
  BY <1>0, <1>1, <1>2, PinnedRecord, ZenonT(40)
<1>5. Sound(q)
  BY <1>1, <1>3 DEF Sound
<1>6. Save(q, "remove", i)
  BY <1>2 DEF Pin
<1>7. /\ WorldInv' /\ Listed' /\ rec'[cur] = q /\ UNCHANGED <<req, things, pods, physical, work>>
      /\ WorkerInv' \/ (pc' = "remove" /\ i' = i /\ s' = q /\ UNCHANGED <<cur, o, seen>>)
  BY <1>1, <1>3, <1>5, <1>6, Saving
<1>8. CASE pc' = "remove" /\ i' = i /\ s' = q /\ UNCHANGED <<cur, o, seen>>
  <2>1. seen' \in Workloads /\ (work'.uid = 1 /\ ~work'.touched => q.original = MaxScale)
    BY <1>1, <1>3, <1>7, <1>8 DEF WorkerInv, LocalsOK, Claim
  <2>2. pc' \in Rolling /\ i' # 0
    BY <1>0, <1>8 DEF Rolling
  <2>3. WorkerInv'
    BY <1>0, <1>1, <1>3, <1>5, <1>7, <1>8, <2>1, <2>2, Backward
  <2> QED BY <1>7, <2>3
<1> QED BY <1>7, <1>8

LEMMA SaveCleanedStep ==
  ASSUME ChaosInv, SaveCleaned
  PROVE  ChaosInv'
<1> USE DEF ChaosInv
<1>0. pc = "cleaned" /\ pc \in Rolling /\ i \in 1 .. N /\ Undone(cur, i) /\ N \in Nat
  BY PlanFacts DEF SaveCleaned, WorkerInv, Position, Findings, Rolling
<1>1. /\ cur \in Experiments /\ req[cur].state # "new" /\ i \in 0 .. N
      /\ rec[cur] = s /\ s \in Records /\ Sound(s) /\ s.exists /\ s.cleanup /\ s.phase # "Finished"
      /\ \A k \in 1 .. N : k > i => s.actions[k].cleaned
      /\ \A k \in 1 .. N : s.actions[k].cleaned => Undone(cur, k)
      /\ o \in Requests /\ (o.state = "deleting" => req[cur].state = "deleting")
  BY <1>0, RollFacts
<1>2. PICK q : q = [s EXCEPT !.actions[i].cleaned = TRUE]
  OBVIOUS
<1>3. /\ q \in Records /\ q.exists = s.exists /\ q.cleanup = s.cleanup
      /\ q.phase = s.phase /\ q.outcome = s.outcome /\ q.original = s.original
      /\ \A m \in 1 .. N : q.actions[m].cleaned <=> m = i \/ s.actions[m].cleaned
      /\ \A m \in 1 .. N : q.actions[m].applied = s.actions[m].applied
  BY <1>0, <1>1, <1>2, CleanedRecord
<1>5. Sound(q)
  <2>1. \A k \in 1 .. N : q.actions[k].cleaned => \A m \in 1 .. N : m > k => q.actions[m].cleaned
    BY <1>1, <1>3 DEF Sound
  <2> QED BY <1>1, <1>3, <2>1 DEF Sound
<1>6. Save(q, "roll", i - 1)
  BY <1>2 DEF SaveCleaned
<1>7. /\ WorldInv' /\ Listed' /\ rec'[cur] = q /\ UNCHANGED <<req, things, pods, physical, work>>
      /\ WorkerInv' \/ (pc' = "roll" /\ i' = i - 1 /\ s' = q /\ UNCHANGED <<cur, o, seen>>)
  <2>1. \A m \in 1 .. N : q.actions[m].cleaned => Undone(cur, m)
    BY <1>0, <1>1, <1>3
  <2> QED BY <1>1, <1>3, <1>5, <1>6, <2>1, Saving
<1>8. CASE pc' = "roll" /\ i' = i - 1 /\ s' = q /\ UNCHANGED <<cur, o, seen>>
  <2>1. seen' \in Workloads /\ (work'.uid = 1 /\ ~work'.touched => q.original = MaxScale)
    BY <1>1, <1>3, <1>7, <1>8 DEF WorkerInv, LocalsOK, Claim
  <2>2. pc' \in Rolling
    BY <1>8 DEF Rolling
  <2>3. i' \in 0 .. N /\ \A k \in 1 .. N : k > i' => q.actions[k].cleaned
    BY <1>0, <1>1, <1>3, <1>8
  <2>4. WorkerInv'
    BY <1>1, <1>3, <1>5, <1>7, <1>8, <2>1, <2>2, <2>3, Backward
  <2> QED BY <1>7, <2>4
<1> QED BY <1>7, <1>8

\* A save after which the reconcile is over.
LEMMA SaveActiveStep ==
  ASSUME ChaosInv, SaveActive
  PROVE  ChaosInv'
<1> USE DEF ChaosInv
<1>0. pc = "active" /\ pc \in Applying /\ i = N + 1 /\ N \in Nat /\ Return
  BY PlanFacts DEF SaveActive, WorkerInv, Position, Applying
<1>1. /\ cur \in Experiments /\ req[cur].state # "new"
      /\ rec[cur] = s /\ s \in Records /\ Sound(s) /\ s.exists /\ ~s.cleanup /\ s.phase # "Finished"
  BY <1>0, ApplyFacts DEF WorldInv
<1>2. PICK q : q = [s EXCEPT !.phase = "Active"]
  OBVIOUS
<1>3. q \in Records /\ q.exists = s.exists /\ q.original = s.original /\ q.actions = s.actions
  BY <1>1, <1>2, FieldRecord
<1>4. q.phase = "Active" /\ q.outcome = s.outcome /\ q.cleanup = s.cleanup
  BY <1>1, <1>2 DEF Records
<1>5. Sound(q) /\ \A k \in 1 .. N : ~q.actions[k].cleaned
  <2>1. \A k \in 1 .. N : s.actions[k].applied
    BY <1>0 DEF WorkerInv, Copies
  <2> QED BY <1>1, <1>3, <1>4, <2>1 DEF Sound
<1>6. /\ rec' = [rec EXCEPT ![cur] = q]
      /\ UNCHANGED <<req, expired, parent, granted, engine, space, things, pods, physical, victim, work,
                     meddling, faults>>
  BY <1>2 DEF SaveActive, host, guest, bounds
<1>7. rec' \in [Experiments -> Records] /\ \A y \in Experiments : y # cur => rec'[y] = rec[y]
  BY <1>3, <1>6 DEF WorldInv, WorldOK
<1>8. WorldOK'
  BY <1>6, <1>7 DEF WorldInv, WorldOK
<1>9. WorldInv'
  <2>1. work.uid = 1 /\ ~work.touched => q.original = MaxScale
    BY <1>1, <1>3 DEF WorkerInv, Claim
  <2>2. \A k \in 1 .. N : Plan[k] = "policy" /\ q.actions[k].applied => things[cur][k] = "ours"
    BY <1>1, <1>3 DEF WorldInv, Policies
  <2>3. Busy(cur) \/ req[cur].state \notin {"live", "deleting"}
    BY <1>1 DEF Busy
  <2> QED BY <1>1, <1>3, <1>5, <1>6, <1>8, <2>1, <2>2, <2>3, WorldRecord
<1>10. Listed'
  BY <1>0, <1>6, <1>7, ListedKept, PlanFacts DEF Return
<1> QED BY <1>0, <1>9, <1>10, Returned

LEMMA SaveFinishedStep ==
  ASSUME ChaosInv, SaveFinished
  PROVE  ChaosInv'
<1> USE DEF ChaosInv
<1>0. pc = "finished" /\ pc \in Rolling /\ i = 0
  BY DEF SaveFinished, WorkerInv, Position, Rolling
<1>1. /\ cur \in Experiments /\ req[cur].state # "new"
      /\ rec[cur] = s /\ s \in Records /\ Sound(s) /\ s.exists /\ s.cleanup /\ s.phase # "Finished"
      /\ \A k \in 1 .. N : k > i => s.actions[k].cleaned
      /\ \A k \in 1 .. N : s.actions[k].cleaned => Undone(cur, k)
      /\ o \in Requests /\ (o.state = "deleting" => req[cur].state = "deleting")
  BY <1>0, RollFacts
<1>2. PICK q : q = [s EXCEPT !.phase = "Finished"]
  OBVIOUS
<1>3. q \in Records /\ q.exists = s.exists /\ q.original = s.original /\ q.actions = s.actions
  BY <1>1, <1>2, FieldRecord
<1>4. q.phase = "Finished" /\ q.outcome = s.outcome /\ q.cleanup = s.cleanup
  BY <1>1, <1>2 DEF Records
<1>5. Sound(q) /\ \A k \in 1 .. N : q.actions[k].cleaned
  <2>1. \A k \in 1 .. N : s.actions[k].cleaned
    BY <1>0, <1>1, PlanFacts
  <2> QED BY <1>1, <1>3, <1>4, <2>1 DEF Sound
<1>6. /\ rec' = [rec EXCEPT ![cur] = q]
      /\ UNCHANGED <<req, expired, parent, granted, engine, space, things, pods, physical, victim, work, meddling>>
      /\ faults' = faults \/ Fault
  BY <1>2 DEF SaveFinished, Outcome, host, guest
<1>7. Return \/ \E v \in Outcomes : v # "Completed" /\ CleanupOf(cur, o, q, v)
  <2>1. CleanupOf(cur, o, q, "") \/ Return
    BY <1>2 DEF SaveFinished, Outcome
  <2>2. "" \in Outcomes /\ "" # "Completed"
    BY DEF Outcomes
  <2> QED BY <2>1, <2>2
<1>8. rec' \in [Experiments -> Records] /\ rec'[cur] = q /\ \A y \in Experiments : y # cur => rec'[y] = rec[y]
  BY <1>1, <1>3, <1>6 DEF WorldInv, WorldOK
<1>9. WorldOK'
  BY <1>6, <1>8, FaultType DEF WorldInv, WorldOK
<1>10. work.uid = 1 /\ ~work.touched => q.original = MaxScale
  BY <1>1, <1>3 DEF WorkerInv, Claim
<1>11. WorldInv'
  <2>1. \A k \in 1 .. N : q.actions[k].cleaned => Undone(cur, k)
    BY <1>1, <1>3
  <2> QED BY <1>1, <1>3, <1>4, <1>5, <1>6, <1>9, <1>10, <2>1, WorldRecord
<1>12. WorkerInv' /\ (cur' = cur \/ cur' \notin Experiments)
  <2>1. CASE Return
    BY <2>1, Returned, PlanFacts DEF Return
  <2>2. CASE ~Return
    <3>1. PICK v \in Outcomes : v # "Completed" /\ CleanupOf(cur, o, q, v)
      BY <1>7, <2>2
    <3>2. WorkerInv'
      BY <1>1, <1>3, <1>4, <1>5, <1>6, <1>8, <1>10, <3>1, Cleaning
    <3>3. cur' = cur
      BY <2>2, <3>1 DEF CleanupOf
    <3> QED BY <3>2, <3>3
  <2> QED BY <2>1, <2>2
<1>13. Listed'
  BY <1>6, <1>8, <1>12, ListedKept
<1> QED BY <1>11, <1>12, <1>13

LEMMA ForgetStep ==
  ASSUME ChaosInv, Forget
  PROVE  ChaosInv'
<1> USE DEF ChaosInv
<1>1. /\ pc = "forget" /\ cur \in Experiments /\ req[cur].state = "gone" /\ Return
      /\ rec' = [rec EXCEPT ![cur] = NoRecord]
      /\ UNCHANGED <<req, expired, parent, granted, engine, space, things, pods, physical, victim, work,
                     meddling, faults>>
  BY DEF Forget, WorkerInv, Position, Copies, host, guest, bounds
<1>2. ~Disturbs(cur)
  BY <1>1 DEF WorldInv, Saved, Intended
<1>3. rec' \in [Experiments -> Records] /\ \A y \in Experiments : y # cur => rec'[y] = rec[y]
  BY <1>1, NoRecordType DEF WorldInv, WorldOK
<1>4. WorldOK'
  BY <1>1, <1>3 DEF WorldInv, WorldOK
<1>5. WorldInv'
  BY <1>1, <1>2, <1>4, NoRecordType, WorldRecord
<1>6. Listed'
  BY <1>1, <1>3, ListedKept, PlanFacts DEF Return
<1> QED BY <1>1, <1>5, <1>6, Returned

-----------------------------------------------------------------------------
\* rollback().

\* An action with nothing left to do is undone.
LEMMA SettledUndone ==
  ASSUME WorkerInv, WorldInv, pc \in Rolling, i \in 1 .. N, Settled
  PROVE  Undone(cur, i)
<1>0. cur \in Experiments /\ cur # NoMark /\ pods[cur] \subseteq Jobs /\ Plan[i] \in Kinds
  BY RolledBack, PlanFacts DEF WorldInv, WorldOK
<1>1. Plan[i] = "policy" => pods[cur] = {}
  BY RolledBack
<1>2. i \in pods[cur] => Plan[i] = "job"
  BY <1>0, PlanFacts
<1>3. Plan[i] \notin Created => things[cur][i] = "absent"
  BY <1>0 DEF WorldInv, Policies
<1>4. work.uid = 0 => work.mark = NoMark
  BY DEF WorldInv, Lost
<1>5. CASE Plan[i] # "policy" /\ ~space
  BY <1>0, <1>4, <1>5 DEF Undone, WorldInv, Lost
<1>6. CASE Plan[i] \in {"pod", "account", "job"} /\ space
  BY <1>2, <1>3, <1>6 DEF Undone, Settled, Created
<1>7. CASE Plan[i] = "policy"
  BY <1>1, <1>2, <1>7 DEF Undone, Settled
<1>8. CASE Plan[i] = "scale" /\ space
  <2>1. work.mark = NoMark
    BY <1>4, <1>8 DEF Settled
  <2> QED BY <1>0, <1>2, <1>3, <1>8, <2>1 DEF Undone, Created
<1> QED BY <1>0, <1>5, <1>6, <1>7, <1>8 DEF Kinds

LEMMA RollReadStep ==
  ASSUME ChaosInv, RollNext \/ RollThing \/ RollScale
  PROVE  ChaosInv'
<1> USE DEF ChaosInv
<1>0. NoWrite /\ pc = "roll" /\ pc \in Rolling /\ N \in Nat
  BY PlanFacts DEF RollNext, RollThing, RollScale, Rolling
<1>1. /\ UNCHANGED <<req, rec, parent, engine, things, pods, physical, work>> /\ WorldInv' /\ WorldOK
  BY <1>0, NothingWritten DEF WorldInv
<1>2. /\ cur \in Experiments /\ req[cur].state # "new" /\ i \in 0 .. N
      /\ rec[cur] = s /\ s \in Records /\ Sound(s) /\ s.exists /\ s.cleanup /\ s.phase # "Finished"
      /\ \A k \in 1 .. N : k > i => s.actions[k].cleaned
      /\ o \in Requests /\ (o.state = "deleting" => req[cur].state = "deleting")
  BY <1>0, RollFacts
<1>3. CASE Return
  <2>1. Listed'
    BY <1>1, <1>3, ListedKept, PlanFacts DEF Return
  <2> QED BY <1>1, <1>3, <2>1, Returned
<1>4. CASE ~Return
  <2>1. /\ pc' \in {"finished", "roll", "cleaned", "remove", "pin", "restore"}
        /\ UNCHANGED <<cur, o, s>>
        /\ i' = i \/ (i # 0 /\ i' = i - 1 /\ s.actions[i].cleaned /\ pc' = "roll")
        /\ pc' = "finished" => i' = 0
        /\ pc' \in {"pin", "remove", "restore", "cleaned"} => i' = i /\ i # 0
        /\ pc' \in {"pin", "remove"} => Plan[i] \in Created
        /\ pc' = "pin" => Plan[i] # "policy"
        /\ pc' = "remove" /\ Plan[i] = "policy" => physical[cur] = {}
        /\ pc' = "restore" => /\ Plan[i] = "scale" /\ seen' = work
                              /\ work.uid = 1 /\ work.mark = cur /\ work.replicas = 0
        /\ pc' = "cleaned" => Settled
        /\ seen' = seen \/ seen' = work
    <3>1. CASE RollNext
      BY <1>2, <3>1 DEF RollNext, Goto, Act
    <3>2. CASE RollThing
      BY <1>2, <1>4, <3>2 DEF RollThing, Goto
    <3>3. CASE RollScale
      BY <1>2, <1>4, <3>3 DEF RollScale
    <3> QED BY <3>1, <3>2, <3>3
  <2>2. seen' \in Workloads
    BY <1>1, <2>1 DEF WorkerInv, LocalsOK, WorldOK
  <2>3. i' \in 0 .. N /\ \A k \in 1 .. N : k > i' => s.actions[k].cleaned
    BY <1>0, <1>2, <2>1
  <2>4. pc' = "cleaned" => Undone(cur, i)'
    <3>1. pc' = "cleaned" => i \in 1 .. N
      BY <1>0, <1>2, <2>1
    <3>2. pc' = "cleaned" => Undone(cur, i)
      BY <1>0, <2>1, <3>1, SettledUndone
    <3> QED BY <1>1, <2>1, <3>2 DEF Undone
  <2>5. work'.uid = 1 /\ ~work'.touched => s.original = MaxScale
    BY <1>1, <1>2 DEF WorkerInv, Claim
  <2>6. pc' \in Rolling
    BY <2>1 DEF Rolling
  <2>7. WorkerInv'
    BY <1>1, <1>2, <2>1, <2>2, <2>3, <2>4, <2>5, <2>6, Backward
  <2>8. Listed'
    BY <1>1, <2>1, ListedKept
  <2> QED BY <1>1, <2>7, <2>8
<1> QED BY <1>3, <1>4

LEMMA RollPodsStep ==
  ASSUME ChaosInv, RollPods
  PROVE  ChaosInv'
<1> USE DEF ChaosInv
<1>0. cur \in Experiments
  BY DEF RollPods, WorkerInv, Position
<1>1. /\ UNCHANGED <<req, rec, expired, parent, granted, engine, space, things, physical, victim, work,
                     meddling, faults>>
      /\ pods' = [pods EXCEPT ![cur] = @ \ {i}] /\ Return
  BY DEF RollPods, host, bounds
<1>2. pods' \in [Experiments -> SUBSET Jobs] /\ \A x \in Experiments : pods'[x] \subseteq pods[x]
  BY <1>0, <1>1 DEF WorldInv, WorldOK
<1>3. WorldOK'
  BY <1>1, <1>2 DEF WorldInv, WorldOK
<1>4. WorldInv'
  BY <1>1, <1>2, <1>3, WorldPods
<1>5. Listed'
  BY <1>1, ListedKept, PlanFacts DEF Return
<1> QED BY <1>1, <1>4, <1>5, Returned

LEMMA RemoveStep ==
  ASSUME ChaosInv, Remove
  PROVE  ChaosInv'
<1> USE DEF ChaosInv
<1>0. pc = "remove" /\ pc \in Rolling /\ i \in 1 .. N /\ Plan[i] \in Created
  BY DEF Remove, WorkerInv, Position, Rolling
<1>1. /\ cur \in Experiments /\ rec[cur] = s /\ s.exists /\ s.cleanup
      /\ \A k \in 1 .. N : s.actions[k].cleaned => Undone(cur, k)
  BY <1>0, RollFacts
<1>2. /\ UNCHANGED <<req, rec, expired, parent, granted, engine, space, pods, physical, victim, work,
                     meddling, faults>>
      /\ Return
  BY DEF Remove, host, bounds
<1>3. Listed'
  BY <1>2, ListedKept, PlanFacts DEF Return
<1>4. CASE things[cur][i] # "ours"
  <2>1. things' = things
    BY <1>4 DEF Remove
  <2>2. WorldOK'
    BY <1>2, <2>1 DEF WorldInv, WorldOK
  <2>3. WorldInv'
    BY <1>2, <2>1, <2>2, WorldSame
  <2> QED BY <1>2, <1>3, <2>3, Returned
<1>5. CASE things[cur][i] = "ours"
  <2>1. PICK v : v = IF Plan[i] = "job" THEN "deleting" ELSE "absent"
    OBVIOUS
  <2>2. things' = [things EXCEPT ![cur][i] = v]
    BY <1>5, <2>1 DEF Remove
  <2>3. things' \in [Experiments -> [1 .. N -> {"absent", "ours", "deleting", "foreign"}]]
    BY <1>0, <1>1, <2>1, <2>2 DEF WorldInv, WorldOK
  <2>4. WorldOK'
    BY <1>2, <2>3 DEF WorldInv, WorldOK
  <2>5. /\ req[cur].finalizer /\ ~rec[cur].actions[i].cleaned
        /\ Plan[i] # "policy" => space
        /\ i \in Jobs => Protected(cur)
    <3>1. Disturbs(cur)
      BY <1>0, <1>5 DEF Disturbs, Effect
    <3>2. ~Undone(cur, i)
      BY <1>5 DEF Undone
    <3>3. Plan[i] # "policy" => space
      BY <1>0, <1>1, <1>5 DEF WorldInv, Lost
    <3>4. i \in Jobs => Protected(cur)
      BY <1>1, <1>5 DEF WorldInv, Policies
    <3> QED BY <1>0, <1>1, <3>1, <3>2, <3>3, <3>4 DEF WorldInv, Intended
  <2>6. Plan[i] = "policy" =>
          /\ v = "absent" /\ pods[cur] = {} /\ physical[cur] = {}
          /\ \A j \in Jobs : things[cur][j] \notin {"ours", "deleting"}
    BY <1>0, <2>1, RolledBack DEF WorkerInv, Findings
  <2>7. WorldInv'
    BY <1>0, <1>1, <1>2, <2>2, <2>4, <2>5, <2>6, WorldThing
  <2> QED BY <1>2, <1>3, <2>7, Returned
<1> QED BY <1>4, <1>5

LEMMA RestoreStep ==
  ASSUME ChaosInv, Restore
  PROVE  ChaosInv'
<1> USE DEF ChaosInv
<1>0. pc = "restore" /\ pc \in Rolling /\ i \in 1 .. N /\ Plan[i] = "scale" /\ N \in Nat
  BY PlanFacts DEF Restore, WorkerInv, Position, Rolling
<1>1. /\ cur \in Experiments /\ req[cur].state # "new" /\ i \in 0 .. N
      /\ rec[cur] = s /\ s \in Records /\ Sound(s) /\ s.exists /\ s.cleanup /\ s.phase # "Finished"
      /\ \A k \in 1 .. N : k > i => s.actions[k].cleaned
      /\ o \in Requests /\ (o.state = "deleting" => req[cur].state = "deleting")
  BY <1>0, RollFacts
<1>2. UNCHANGED <<req, rec, expired, parent, granted, engine, space, things, pods, physical, victim, meddling>>
  BY DEF Restore, host
<1>3. CASE work = seen
  <2>1. /\ work' = [work EXCEPT !.replicas = s.original, !.mark = NoMark]
        /\ (Return \/ Goto("cleaned", i)) /\ (faults' = faults \/ Fault)
    BY <1>3 DEF Restore, Outcome
  <2>2. /\ work' \in Workloads /\ work'.mark = NoMark /\ work'.uid = work.uid
        /\ work'.touched = work.touched /\ work'.replicas = s.original
    <3>1. work \in Workloads /\ s.original \in 0 .. MaxScale
      BY <1>1 DEF WorldInv, WorldOK, Records
    <3> QED BY <2>1, <3>1 DEF Workloads
  <2>3. work.uid = 1 /\ space
    BY <1>0, <1>3 DEF WorkerInv, Findings, WorldInv, Lost
  <2>4. work.uid = 1 /\ ~work.touched => s.original = MaxScale
    BY <1>1 DEF WorkerInv, Claim
  <2>5. WorldOK'
    BY <1>2, <2>1, <2>2, FaultType DEF WorldInv, WorldOK
  <2>6. WorldInv'
    BY <1>2, <2>2, <2>3, <2>4, <2>5, WorldWork
  <2>7. CASE Return
    <3>1. Listed'
      BY <1>2, <2>7, ListedKept, PlanFacts DEF Return
    <3> QED BY <2>6, <2>7, <3>1, Returned
  <2>8. CASE Goto("cleaned", i)
    <3>1. pc' = "cleaned" /\ UNCHANGED <<i, cur, o, s, seen>> /\ pc' \in Rolling /\ seen \in Workloads
      BY <2>8 DEF Goto, Rolling, WorkerInv, LocalsOK
    <3>2. Undone(cur, i)'
      <4>1. things[cur][i] = "absent" /\ pods[cur] \subseteq Jobs /\ cur # NoMark /\ i \notin Jobs
        BY <1>0, <1>1, PlanFacts DEF WorldInv, WorldOK, Policies, Created
      <4> QED BY <1>0, <1>2, <2>2, <3>1, <4>1 DEF Undone
    <3>3. WorkerInv'
      BY <1>0, <1>1, <1>2, <2>2, <2>4, <3>1, <3>2, Backward
    <3>4. Listed'
      BY <1>2, <3>1, ListedKept
    <3> QED BY <2>6, <3>3, <3>4
  <2> QED BY <2>1, <2>7, <2>8
<1>4. CASE work # seen
  <2>1. Return /\ UNCHANGED <<work, faults>>
    BY <1>4 DEF Restore
  <2>2. WorldOK'
    BY <1>2, <2>1 DEF WorldInv, WorldOK
  <2>3. WorldInv'
    BY <1>2, <2>1, <2>2, WorldSame
  <2>4. Listed'
    BY <1>2, <2>1, ListedKept, PlanFacts DEF Return
  <2> QED BY <2>1, <2>3, <2>4, Returned
<1> QED BY <1>3, <1>4

-----------------------------------------------------------------------------
\* The finalizer, failed calls, restarts.

LEMMA AddFinalizerStep ==
  ASSUME ChaosInv, AddFinalizer
  PROVE  ChaosInv'
<1> USE DEF ChaosInv
<1>0. cur \in Experiments
  BY DEF AddFinalizer, WorkerInv, Position
<1>1. /\ UNCHANGED <<rec, expired, parent, granted, engine, space, things, pods, physical, victim, work,
                     meddling, faults>>
      /\ Return
  BY DEF AddFinalizer, host, guest, bounds
<1>2. req \in [Experiments -> Requests] /\ req[cur] \in Requests
  BY <1>0 DEF WorldInv, WorldOK
<1>3. CASE req[cur].state = "live"
  <2>1. PICK r : r = [req[cur] EXCEPT !.finalizer = TRUE]
    OBVIOUS
  <2>2. r \in Requests /\ r.state = "live" /\ r.finalizer
    BY <1>2, <1>3, <2>1 DEF Requests
  <2>3. req' = [req EXCEPT ![cur] = r]
    BY <1>3, <2>1 DEF AddFinalizer
  <2>4. req' \in [Experiments -> Requests] /\ req'[cur] = r /\ \A y \in Experiments : y # cur => req'[y] = req[y]
    BY <1>0, <1>2, <2>2, <2>3
  <2>5. WorldOK'
    BY <1>1, <2>4 DEF WorldInv, WorldOK
  <2>6. WorldInv'
    BY <1>0, <1>1, <1>3, <2>2, <2>3, <2>5, WorldRequest
  <2>7. Listed'
    BY <1>1, <1>3, <2>4, ListedKept, PlanFacts DEF Return
  <2> QED BY <1>1, <2>6, <2>7, Returned
<1>4. CASE req[cur].state # "live"
  <2>1. req' = req
    BY <1>4 DEF AddFinalizer
  <2>2. WorldOK'
    BY <1>1, <2>1 DEF WorldInv, WorldOK
  <2>3. WorldInv'
    BY <1>1, <2>1, <2>2, WorldSame
  <2>4. Listed'
    BY <1>1, <2>1, ListedKept, PlanFacts DEF Return
  <2> QED BY <1>1, <2>3, <2>4, Returned
<1> QED BY <1>3, <1>4

LEMMA ReleaseStep ==
  ASSUME ChaosInv, Release
  PROVE  ChaosInv'
<1> USE DEF ChaosInv
<1>0. /\ pc = "release" /\ cur \in Experiments
      /\ rec[cur].phase = "Finished" /\ req[cur].state = "deleting"
  BY DEF Release, WorkerInv, Position, Copies
<1>1. /\ UNCHANGED <<rec, expired, parent, granted, engine, space, things, pods, physical, victim, work, meddling>>
      /\ (Return \/ Goto("forget", 0)) /\ (faults' = faults \/ Fault)
  BY DEF Release, Outcome, host, guest
<1>2. PICK r : r = [state |-> "gone", finalizer |-> FALSE]
  OBVIOUS
<1>3. r \in Requests /\ r.state = "gone" /\ ~r.finalizer
  BY <1>2 DEF Requests
<1>4. req' = [req EXCEPT ![cur] = r]
  BY <1>2 DEF Release
<1>5. req' \in [Experiments -> Requests] /\ req'[cur] = r /\ \A y \in Experiments : y # cur => req'[y] = req[y]
  BY <1>0, <1>3, <1>4 DEF WorldInv, WorldOK
<1>6. WorldOK'
  BY <1>1, <1>5, FaultType DEF WorldInv, WorldOK
<1>7. WorldInv'
  <2>1. ~Disturbs(cur)
    BY <1>0, FinishedCalm
  <2> QED BY <1>0, <1>1, <1>3, <1>4, <1>6, <2>1, WorldRequest
<1>8. CASE Return
  <2>1. Listed'
    BY <1>0, <1>1, <1>3, <1>5, <1>8, ListedKept, PlanFacts DEF Return
  <2> QED BY <1>7, <1>8, <2>1, Returned
<1>9. CASE Goto("forget", 0)
  <2>1. pc' = "forget" /\ i' = 0 /\ UNCHANGED <<cur, o, s, seen>>
    BY <1>9 DEF Goto
  <2>2. LocalsOK'
    BY <2>1, PlanFacts DEF WorkerInv, LocalsOK, Steps
  <2>3. Position' /\ Findings'
    BY <1>0, <1>3, <1>5, <2>1 DEF Position, Findings
  <2>4. Copies'
    BY <1>0, <1>1, <1>3, <1>5, <2>1 DEF Copies, Applying, Rolling
  <2>5. Claim'
    BY <1>1, <2>1 DEF WorkerInv, Claim, Sound
  <2>6. Listed'
    BY <1>0, <1>1, <1>3, <1>5, <2>1, ListedKept
  <2> QED BY <1>7, <2>2, <2>3, <2>4, <2>5, <2>6 DEF WorkerInv
<1> QED BY <1>1, <1>8, <1>9

LEMMA CallFailsStep ==
  ASSUME ChaosInv, CallFails
  PROVE  ChaosInv'
<1> USE DEF ChaosInv
<1>1. /\ UNCHANGED <<req, rec, expired, parent, granted, engine, space, things, pods, physical, victim, work, meddling>>
      /\ Fault
  BY DEF CallFails, host, guest
<1>2. WorldOK'
  BY <1>1, FaultType DEF WorldInv, WorldOK
<1>3. WorldInv'
  BY <1>1, <1>2, WorldSame
<1>4. WorkerInv' /\ (cur' = cur \/ cur' \notin Experiments)
  <2>1. CASE Return
    BY <2>1, Returned, PlanFacts DEF Return
  <2>2. CASE pc \in {"look", "create", "strike", "patch"} /\ Fail(s)
    <3>1. pc \in Applying /\ WorldOK
      BY <2>2 DEF Applying, WorldInv
    <3> QED BY <1>1, <2>2, <3>1, Failing
  <2>3. CASE pc = "applied" /\ Fail(AppliedNow)
    <3>0. pc \in Applying /\ i \in 1 .. N
      BY <2>3 DEF Applying, WorkerInv, Position
    <3>1. /\ cur \in Experiments /\ req[cur].state # "new"
          /\ rec[cur] = s /\ s \in Records /\ Sound(s) /\ s.exists /\ ~s.cleanup
          /\ o \in Requests /\ (o.state = "deleting" => req[cur].state = "deleting")
      BY <3>0, ApplyFacts DEF WorldInv
    <3>2. PICK q : q = AppliedNow
      OBVIOUS
    <3>3. /\ q \in Records /\ q.exists = s.exists /\ q.cleanup = s.cleanup
          /\ q.phase = s.phase /\ q.outcome = s.outcome /\ q.original = s.original
          /\ \A m \in 1 .. N : q.actions[m].cleaned = s.actions[m].cleaned
          /\ \A m \in 1 .. N : s.actions[m].applied => q.actions[m].applied
      BY <3>0, <3>1, <3>2, AppliedRecord
    <3>4. Sound(q)
      BY <3>1, <3>3 DEF Sound
    <3>5. CleanupOf(cur, o, q, "Failed") /\ "Failed" \in Outcomes
      BY <2>3, <3>2 DEF Fail, Outcomes
    <3>6. work'.uid = 1 /\ ~work'.touched => q.original = MaxScale
      BY <1>1, <3>1, <3>3 DEF WorkerInv, Claim
    <3>7. WorkerInv'
      BY <1>1, <3>1, <3>3, <3>4, <3>5, <3>6, Cleaning
    <3>8. cur' = cur \/ cur' \notin Experiments
      BY <3>5, PlanFacts DEF CleanupOf, Return
    <3> QED BY <3>7, <3>8
  <2> QED BY <2>1, <2>2, <2>3 DEF CallFails
<1>5. Listed'
  BY <1>1, <1>4, ListedKept
<1> QED BY <1>3, <1>4, <1>5

LEMMA WorkStep ==
  ASSUME ChaosInv, Work
  PROVE  ChaosInv'
BY SaveIntentStep, AddFinalizerStep, LookStep, CreateStep, StrikeStep, PatchStep, SaveAppliedStep,
   SaveActiveStep, BeginCleanupStep, RollReadStep, RollPodsStep, PinStep, RemoveStep, RestoreStep,
   SaveCleanedStep, SaveFinishedStep, ReleaseStep, ForgetStep DEF Work

-----------------------------------------------------------------------------
\* The replica's engine.

LEMMA ListedOn ==
  ASSUME Listed, engine'.pc # "idle" => engine.pc # "idle" /\ (~engine'.pending => ~engine.pending),
         UNCHANGED parent, cur' = cur \/ cur' \notin Experiments,
         \A x \in Experiments : rec'[x].exists => rec[x].exists,
         \A x \in Experiments : req'[x].state \in {"live", "deleting"} => req[x].state \in {"live", "deleting"}
  PROVE  Listed'
BY DEF Listed

\* Steps of the engine that leave requests and records alone.
LEMMA EngineQuiet ==
  ASSUME ChaosInv, EngineStep, UNCHANGED <<req, rec>>, Listed',
         parent' \in {"ready", "ending", "gone"}, faults' = faults \/ Fault,
         engine' \in [pc : {"idle", "stop", "reap"}, todo : SUBSET Experiments, pending : BOOLEAN]
  PROVE  ChaosInv'
<1> USE DEF ChaosInv
<1>1. UNCHANGED <<expired, granted, space, things, pods, physical, victim, work, meddling, locals>>
  BY DEF EngineStep, guest
<1>2. WorldOK'
  BY <1>1, FaultType DEF WorldInv, WorldOK
<1>3. WorldInv'
  BY <1>1, <1>2, WorldSame
<1>4. pc = "cleaned" => Undone(cur, i)'
  BY <1>1 DEF WorkerInv, Findings, Undone, locals
<1>5. pc = "remove" /\ Plan[i] = "policy" => physical'[cur] = {}
  BY <1>1 DEF WorkerInv, Findings
<1>6. WorkerInv'
  BY <1>1, <1>4, <1>5, WorkerGuest
<1> QED BY <1>3, <1>6

LEMMA ListExperimentsStep ==
  ASSUME ChaosInv, ListExperiments
  PROVE  ChaosInv'
<1> USE DEF ChaosInv
<1>1. PICK live : live = {x \in Experiments : req[x].state \in {"live", "deleting"}}
  OBVIOUS
<1>2. /\ parent = "ending" /\ engine' = [pc |-> "stop", todo |-> live, pending |-> live # {}]
      /\ EngineStep /\ UNCHANGED <<req, rec, parent, faults>>
  BY <1>1 DEF ListExperiments
<1>3. /\ engine' \in [pc : {"idle", "stop", "reap"}, todo : SUBSET Experiments, pending : BOOLEAN]
      /\ engine'.pending <=> live # {}
  BY <1>1, <1>2
<1>4. Listed'
  <2>1. ~engine'.pending => \A x \in Experiments : req[x].state \notin {"live", "deleting"}
    BY <1>1, <1>3
  <2> QED BY <1>2, <2>1 DEF Listed
<1> QED BY <1>2, <1>3, <1>4, EngineQuiet DEF WorldInv, WorldOK

LEMMA EngineOnStep ==
  ASSUME ChaosInv, ListRecords \/ Proceed \/ EngineFails
  PROVE  ChaosInv'
<1> USE DEF ChaosInv
<1>0. engine \in [pc : {"idle", "stop", "reap"}, todo : SUBSET Experiments, pending : BOOLEAN]
  BY DEF WorldInv, WorldOK
<1>1. CASE ListRecords
  <2>1. PICK kept : kept = {x \in Experiments : rec[x].exists}
    OBVIOUS
  <2>2. /\ engine.pc = "stop" /\ engine' = [engine EXCEPT !.pc = "reap", !.todo = kept]
        /\ EngineStep /\ UNCHANGED <<req, rec, parent, faults>>
    BY <1>1, <2>1 DEF ListRecords
  <2>3. /\ engine' \in [pc : {"idle", "stop", "reap"}, todo : SUBSET Experiments, pending : BOOLEAN]
        /\ engine'.pending = engine.pending
    BY <1>0, <2>1, <2>2
  <2>4. cur' = cur
    BY <2>2 DEF EngineStep, locals
  <2>5. Listed'
    BY <2>2, <2>3, <2>4, ListedOn
  <2> QED BY <2>2, <2>3, <2>5, EngineQuiet DEF WorldInv, WorldOK
<1>2. CASE Proceed
  <2>1. /\ engine' = [engine EXCEPT !.pc = "idle"] /\ (parent' = parent \/ parent' = "gone")
        /\ EngineStep /\ UNCHANGED <<req, rec, faults>>
    BY <1>2 DEF Proceed
  <2>2. /\ engine' \in [pc : {"idle", "stop", "reap"}, todo : SUBSET Experiments, pending : BOOLEAN]
        /\ engine'.pc = "idle"
    BY <1>0, <2>1
  <2>3. Listed'
    BY <2>2 DEF Listed
  <2> QED BY <2>1, <2>2, <2>3, EngineQuiet DEF WorldInv, WorldOK
<1>3. CASE EngineFails
  <2>1. /\ engine' = [engine EXCEPT !.pc = "idle", !.todo = {}]
        /\ Fault /\ EngineStep /\ UNCHANGED <<req, rec, parent>>
    BY <1>3 DEF EngineFails
  <2>2. /\ engine' \in [pc : {"idle", "stop", "reap"}, todo : SUBSET Experiments, pending : BOOLEAN]
        /\ engine'.pc = "idle"
    BY <1>0, <2>1
  <2>3. Listed'
    BY <2>2 DEF Listed
  <2> QED BY <2>1, <2>2, <2>3, EngineQuiet DEF WorldInv, WorldOK
<1> QED BY <1>1, <1>2, <1>3

LEMMA StopExperimentStep ==
  ASSUME ChaosInv, NEW x \in Experiments, StopExperiment(x)
  PROVE  ChaosInv'
<1> USE DEF ChaosInv
<1>0. engine \in [pc : {"idle", "stop", "reap"}, todo : SUBSET Experiments, pending : BOOLEAN]
  BY DEF WorldInv, WorldOK
<1>1. /\ engine.pc = "stop" /\ engine' = [engine EXCEPT !.todo = @ \ {x}]
      /\ EngineStep /\ UNCHANGED <<rec, parent, faults>>
  BY DEF StopExperiment
<1>2. UNCHANGED <<expired, granted, space, things, pods, physical, victim, work, meddling, locals>>
  BY <1>1 DEF EngineStep, guest
<1>3. /\ engine' \in [pc : {"idle", "stop", "reap"}, todo : SUBSET Experiments, pending : BOOLEAN]
      /\ engine'.pending = engine.pending
  BY <1>0, <1>1
<1>4. CASE req[x].state = "live"
  <2>1. req' = Stopped(x)
    BY <1>4 DEF StopExperiment
  <2>2. req' \in [Experiments -> Requests]
    BY <2>1 DEF Stopped, WorldInv, WorldOK, Requests
  <2>3. WorldOK'
    BY <1>1, <1>2, <1>3, <2>2 DEF WorldInv, WorldOK
  <2>4. /\ WorkerInv' /\ WorldInv'
        /\ \A y \in Experiments : req'[y].state \in {"live", "deleting"} => req[y].state \in {"live", "deleting"}
    BY <1>1, <1>2, <1>4, <2>1, <2>3, StopStep
  <2>5. Listed'
    BY <1>1, <1>2, <1>3, <2>4, ListedOn DEF locals
  <2> QED BY <2>4, <2>5
<1>5. CASE req[x].state # "live"
  <2>1. req' = req
    BY <1>5 DEF StopExperiment
  <2>2. Listed'
    BY <1>1, <1>2, <1>3, <2>1, ListedOn DEF locals
  <2> QED BY <1>1, <1>3, <2>1, <2>2, EngineQuiet DEF WorldInv, WorldOK
<1> QED BY <1>4, <1>5

LEMMA ReapRecordStep ==
  ASSUME ChaosInv, NEW x \in Experiments, ReapRecord(x)
  PROVE  ChaosInv'
<1> USE DEF ChaosInv
<1>0. engine \in [pc : {"idle", "stop", "reap"}, todo : SUBSET Experiments, pending : BOOLEAN]
  BY DEF WorldInv, WorldOK
<1>1. /\ engine.pc = "reap" /\ EngineStep /\ UNCHANGED <<req, parent, faults>>
      /\ \/ engine' = [engine EXCEPT !.todo = @ \ {x}]
         \/ engine' = [engine EXCEPT !.pc = "idle", !.todo = {}]
      /\ rec' = rec \/ /\ req[x].state = "gone" /\ rec[x].phase = "Finished"
                       /\ rec' = [rec EXCEPT ![x] = NoRecord]
  BY DEF ReapRecord
<1>2. UNCHANGED <<expired, granted, space, things, pods, physical, victim, work, meddling, locals>>
  BY <1>1 DEF EngineStep, guest
<1>3. /\ engine' \in [pc : {"idle", "stop", "reap"}, todo : SUBSET Experiments, pending : BOOLEAN]
      /\ engine'.pending = engine.pending
  <2>1. CASE engine' = [engine EXCEPT !.todo = @ \ {x}]
    BY <1>0, <2>1
  <2>2. CASE engine' = [engine EXCEPT !.pc = "idle", !.todo = {}]
    BY <1>0, <2>2
  <2> QED BY <1>1, <2>1, <2>2
<1>4. CASE rec' = rec
  <2>1. Listed'
    BY <1>1, <1>2, <1>3, <1>4, ListedOn DEF locals
  <2> QED BY <1>1, <1>3, <1>4, <2>1, EngineQuiet DEF WorldInv, WorldOK
<1>5. CASE /\ req[x].state = "gone" /\ rec[x].phase = "Finished"
           /\ rec' = [rec EXCEPT ![x] = NoRecord]
  <2>1. rec' \in [Experiments -> Records] /\ rec'[x] = NoRecord /\ \A y \in Experiments : y # x => rec'[y] = rec[y]
    BY <1>5, NoRecordType DEF WorldInv, WorldOK
  <2>2. WorldOK'
    BY <1>1, <1>2, <1>3, <2>1 DEF WorldInv, WorldOK
  <2>3. WorldInv'
    BY <1>1, <1>2, <1>5, <2>2, NoRecordType, FinishedCalm, WorldRecord
  <2>4. WorkerInv'
    BY <1>1, <1>2, <1>5, WorkerReap DEF WorldInv, WorldOK
  <2>5. Listed'
    BY <1>1, <1>2, <1>3, <2>1, NoRecordType, ListedOn DEF locals
  <2> QED BY <2>3, <2>4, <2>5
<1> QED BY <1>1, <1>4, <1>5

LEMMA CrashStep ==
  ASSUME ChaosInv, Crash
  PROVE  ChaosInv'
<1> USE DEF ChaosInv
<1>1. /\ Fault /\ Return /\ engine' = [engine EXCEPT !.pc = "idle", !.todo = {}]
      /\ UNCHANGED <<req, rec, expired, parent, granted, space, things, pods, physical, victim, work, meddling>>
  BY DEF Crash, guest
<1>2. /\ engine' \in [pc : {"idle", "stop", "reap"}, todo : SUBSET Experiments, pending : BOOLEAN]
      /\ engine'.pc = "idle"
  BY <1>1 DEF WorldInv, WorldOK
<1>3. WorldOK'
  BY <1>1, <1>2, FaultType DEF WorldInv, WorldOK
<1>4. WorldInv'
  BY <1>1, <1>3, WorldSame
<1>5. Listed'
  BY <1>2 DEF Listed
<1> QED BY <1>1, <1>4, <1>5, Returned

-----------------------------------------------------------------------------
\* The invariant.

LEMMA ChaosInit ==
  ASSUME Init
  PROVE  ChaosInv
<1>1. /\ N \in Nat /\ MaxScale \in Nat /\ 0 \in 0 .. MaxScale /\ MaxScale \in 0 .. MaxScale
      /\ 0 \in 0 .. MaxMeddling /\ 0 \in 0 .. MaxFaults /\ 0 \in 0 .. N + 1 /\ NoMark \notin Experiments
  BY PlanFacts, ConstantsAssumption
<1>2. req = [x \in Experiments |-> [state |-> "new", finalizer |-> FALSE]]
  BY DEF Init
<1>3. /\ req \in [Experiments -> Requests]
      /\ \A x \in Experiments : req[x].state = "new" /\ ~req[x].finalizer
  BY <1>2 DEF Requests
<1>4. /\ rec \in [Experiments -> Records] /\ \A x \in Experiments : rec[x] = NoRecord
  BY NoRecordType DEF Init
<1>5. /\ things \in [Experiments -> [1 .. N -> {"absent", "ours", "deleting", "foreign"}]]
      /\ \A x \in Experiments, k \in 1 .. N : things[x][k] = "absent"
      /\ pods \in [Experiments -> SUBSET Jobs] /\ physical \in [Experiments -> SUBSET Jobs]
      /\ \A x \in Experiments : pods[x] = {} /\ physical[x] = {}
  BY DEF Init
<1>6. /\ work \in Workloads /\ work.mark = NoMark /\ work.replicas = MaxScale /\ work.uid = 1
  BY <1>1 DEF Init, Workloads
<1>7. /\ engine \in [pc : {"idle", "stop", "reap"}, todo : SUBSET Experiments, pending : BOOLEAN]
      /\ engine.pc = "idle" /\ space /\ space \in BOOLEAN /\ granted \in BOOLEAN
  BY DEF Init
<1>8. WorldOK
  <2>1. /\ expired = {} /\ parent = "ready" /\ victim = "pinned" /\ meddling = 0 /\ faults = 0
    BY DEF Init
  <2> QED BY <1>1, <1>3, <1>4, <1>5, <1>6, <1>7, <2>1 DEF WorldOK
<1>9. /\ pc = "idle" /\ cur = NoMark /\ i = 0 /\ o \in Requests /\ s = NoRecord /\ seen \in Workloads
  BY <1>1 DEF Init, Requests, NoWork, Workloads
<1>10. WorkerInv
  <2>1. LocalsOK
    BY <1>1, <1>9, NoRecordType DEF LocalsOK, Steps
  <2>2. Position /\ Copies /\ Findings
    BY <1>9 DEF Position, Copies, Findings, Applying, Rolling
  <2>3. Claim
    BY <1>9, NoRecordType DEF Claim
  <2> QED BY <2>1, <2>2, <2>3 DEF WorkerInv
<1>11. WorldInv
  <2>1. Saved
    BY <1>3, <1>4, NoRecordType DEF Saved
  <2>2. \A x \in Experiments : ~Disturbs(x)
    BY <1>1, <1>5, <1>6 DEF Disturbs, Effect
  <2>3. Intended
    BY <1>4, <2>2, NoRecordType DEF Intended
  <2>4. Policies
    BY <1>4, <1>5, PlanFacts, NoRecordType DEF Policies
  <2>5. Lost /\ Scale /\ OneSlot
    BY <1>4, <1>6, <1>7, NoRecordType DEF Lost, Scale, OneSlot, Busy
  <2> QED BY <1>8, <2>1, <2>3, <2>4, <2>5 DEF WorldInv
<1>12. Listed
  BY <1>7 DEF Listed
<1> QED BY <1>10, <1>11, <1>12 DEF ChaosInv

LEMMA ChaosNext ==
  ASSUME ChaosInv, [Next]_vars
  PROVE  ChaosInv'
<1>1. CASE UNCHANGED vars
  <2> USE DEF ChaosInv
  <2>1. UNCHANGED <<req, rec, expired, parent, granted, engine, space, things, pods, physical, victim, work,
                    meddling, faults, locals>>
    BY <1>1 DEF vars, host, guest, bounds
  <2>2. NoWrite
    BY <1>1 DEF vars, NoWrite
  <2>3. WorldInv'
    BY <2>2, NothingWritten
  <2>4. pc = "cleaned" => Undone(cur, i)'
    BY <2>1 DEF WorkerInv, Findings, Undone, locals
  <2>5. pc = "remove" /\ Plan[i] = "policy" => physical'[cur] = {}
    BY <2>1 DEF WorkerInv, Findings
  <2>6. WorkerInv'
    BY <2>1, <2>4, <2>5, WorkerGuest
  <2>7. Listed'
    BY <2>1, ListedKept DEF locals
  <2> QED BY <2>3, <2>6, <2>7
<1>2. CASE \E x \in Experiments : Pick(x)
  BY <1>2, PickStep
<1>3. CASE Work
  BY <1>3, WorkStep
<1>4. CASE CallFails
  BY <1>4, CallFailsStep
<1>5. CASE CleanupReplica
  BY <1>5, ListExperimentsStep, EngineOnStep, StopExperimentStep, ReapRecordStep DEF CleanupReplica
<1>6. CASE EngineFails
  BY <1>6, EngineOnStep
<1>7. CASE Crash
  BY <1>7, CrashStep
<1>8. CASE Controllers
  BY <1>8, ControllersStep
<1>9. CASE User
  BY <1>9, UserStep
<1> QED BY <1>1, <1>2, <1>3, <1>4, <1>5, <1>6, <1>7, <1>8, <1>9 DEF Next

\* Worker, records, guest and requests agree in every reachable state of any
\* plan, with any number of experiments.
THEOREM ChaosInvariance == Spec => []ChaosInv
<1>1. Init => ChaosInv
  BY ChaosInit
<1>2. ChaosInv /\ [Next]_vars => ChaosInv'
  BY ChaosNext
<1> QED BY <1>1, <1>2, PTL DEF Spec

-----------------------------------------------------------------------------
\* What it gives.

\* What disturbs has a record that is not finished and a live request.
LEMMA DisturbsBusy ==
  ASSUME WorldInv, NEW x \in Experiments, Disturbs(x)
  PROVE  Busy(x) /\ req[x].finalizer
<1>1. rec[x].exists /\ req[x].finalizer /\ rec[x].phase # "Finished"
  BY FinishedCalm DEF WorldInv, Intended
<1>2. req[x].state \in {"live", "deleting"}
  BY <1>1 DEF WorldInv, WorldOK, Requests, Saved
<1> QED BY <1>1, <1>2 DEF Busy

\* No effect without both intent and finalizer, and none left of an action
\* marked cleaned (controller.go:175).
THEOREM EffectsIntendedAlways == Spec => []EffectsIntended
<1>1. ChaosInv => EffectsIntended
  <2> SUFFICES ASSUME ChaosInv PROVE EffectsIntended
    OBVIOUS
  <2>1. TypeOK
    BY DEF ChaosInv, WorkerInv, LocalsOK, WorldInv, WorldOK, TypeOK
  <2>2. \A x \in Experiments : Disturbs(x) => rec[x].exists /\ req[x].finalizer /\ rec[x].phase # "Finished"
    BY DisturbsBusy DEF ChaosInv, Busy
  <2>3. \A x \in Experiments, k \in 1 .. N : Effect(x, k) /\ k \notin physical[x] => ~rec[x].actions[k].cleaned
    BY DEF ChaosInv, WorldInv, Intended, Undone, Effect
  <2> QED BY <2>1, <2>2, <2>3 DEF EffectsIntended
<1> QED BY <1>1, ChaosInvariance, PTL

\* The faults of two experiments never overlap (slot(), controller.go:208-229).
THEOREM OneExperimentAlways == Spec => []OneExperiment
<1>1. ChaosInv => OneExperiment
  BY DisturbsBusy DEF ChaosInv, WorldInv, OneSlot, OneExperiment
<1> QED BY <1>1, ChaosInvariance, PTL

\* A finished record, or a request that is gone, means that everything is
\* undone (finishAndForget, controller.go; rollback, actions.go:151-152).
THEOREM FinishedMeansRestoredAlways == Spec => []FinishedMeansRestored
<1>1. ChaosInv => FinishedMeansRestored
  <2> SUFFICES ASSUME ChaosInv, NEW x \in Experiments
               PROVE  /\ rec[x].phase = "Finished" \/ req[x].state = "gone" =>
                           /\ ~Disturbs(x)
                           /\ rec[x].phase = "Finished" /\ work.uid = 1 /\ ~work.touched
                                /\ work.mark = NoMark => work.replicas = MaxScale
                      /\ rec[x].outcome = "Completed" => \A k \in 1 .. N : rec[x].actions[k].applied
    BY DEF FinishedMeansRestored
  <2>1. rec[x].phase = "Finished" \/ req[x].state = "gone" => ~Disturbs(x)
    BY DisturbsBusy DEF ChaosInv, Busy
  <2>2. work.uid = 1 /\ ~work.touched /\ work.mark = NoMark => work.replicas = MaxScale
    BY DEF ChaosInv, WorldInv, Scale
  <2>3. rec[x].outcome = "Completed" => \A k \in 1 .. N : rec[x].actions[k].applied
    BY DEF ChaosInv, WorldInv, Saved, Sound
  <2> QED BY <2>1, <2>2, <2>3
<1> QED BY <1>1, ChaosInvariance, PTL

\* The host policy outlives the physical Pods of the fault Jobs
\* (network.go:94-95).
THEOREM IsolationOutlivesPodsAlways == Spec => []IsolationOutlivesPods
<1>1. ChaosInv => IsolationOutlivesPods
  BY DEF ChaosInv, WorldInv, Policies, Protected, IsolationOutlivesPods
<1> QED BY <1>1, ChaosInvariance, PTL

\* Work changes an object only where there was none or one of ours, the Pod
\* only while it is the pinned one, and the workload only as it was read.
LEMMA WorkForeign ==
  ASSUME ChaosInv, Work
  PROVE  /\ \A x \in Experiments, k \in 1 .. N : things[x][k] = "foreign" => things'[x][k] = "foreign"
         /\ victim = "other" => victim' = "other"
         /\ work # work' =>
              /\ work.uid = 1
              /\ work.mark \in {NoMark, cur}
              /\ work.mark = cur => work.replicas = 0
              /\ work.mark = NoMark => work.replicas = s.original
<1> USE DEF ChaosInv
<1>1. CASE /\ ~Create /\ ~Strike /\ ~Patch /\ ~Remove /\ ~Restore
  <2>1. UNCHANGED <<things, victim, work>>
    BY <1>1 DEF Work, SaveIntent, AddFinalizer, LookThing, LookPod, LookScale, LookLost, SaveApplied, Started,
                SaveActive, BeginCleanup, RollNext, RollThing, RollPods, RollScale, Pin, SaveCleaned,
                SaveFinished, Release, Forget, Save, NoWrite, guest
  <2> QED BY <2>1
<1>2. CASE Create
  <2>1. UNCHANGED <<victim, work>> /\ cur \in Experiments /\ i \in 1 .. N
    BY <1>2 DEF Create, WorkerInv, Position
  <2>2. things' = things \/ (things[cur][i] = "absent" /\ things' = [things EXCEPT ![cur][i] = "ours"])
    BY <1>2 DEF Create
  <2>3. \A x \in Experiments, k \in 1 .. N : things[x][k] = "foreign" => things'[x][k] = "foreign"
    <3>1. CASE things' = things
      BY <3>1
    <3>2. CASE things[cur][i] = "absent" /\ things' = [things EXCEPT ![cur][i] = "ours"]
      <4>1. \A x \in Experiments, k \in 1 .. N : (x = cur /\ k = i) \/ things'[x][k] = things[x][k]
        BY <2>1, <3>2 DEF WorldInv, WorldOK
      <4> QED BY <3>2, <4>1
    <3> QED BY <2>2, <3>1, <3>2
  <2> QED BY <2>1, <2>3
<1>3. CASE Strike
  <2>1. UNCHANGED <<things, work>> /\ (victim = "other" => victim' = "other")
    BY <1>3 DEF Strike
  <2> QED BY <2>1
<1>4. CASE Remove
  <2>1. UNCHANGED <<victim, work>> /\ cur \in Experiments /\ i \in 1 .. N
    BY <1>4 DEF Remove, WorkerInv, Position
  <2>2. things' = things \/ (things[cur][i] = "ours" /\ \E v : things' = [things EXCEPT ![cur][i] = v])
    BY <1>4 DEF Remove
  <2>3. \A x \in Experiments, k \in 1 .. N : things[x][k] = "foreign" => things'[x][k] = "foreign"
    <3>1. CASE things' = things
      BY <3>1
    <3>2. CASE things[cur][i] = "ours" /\ \E v : things' = [things EXCEPT ![cur][i] = v]
      <4>0. PICK v : things' = [things EXCEPT ![cur][i] = v]
        BY <3>2
      <4>1. \A x \in Experiments, k \in 1 .. N : (x = cur /\ k = i) \/ things'[x][k] = things[x][k]
        BY <2>1, <4>0 DEF WorldInv, WorldOK
      <4> QED BY <3>2, <4>1
    <3> QED BY <2>2, <3>1, <3>2
  <2> QED BY <2>1, <2>3
<1>5. CASE Patch
  <2>1. UNCHANGED <<things, victim>> /\ (work' = work \/ work = seen) /\ cur \in Experiments
    BY <1>5 DEF Patch, WorkerInv, Position
  <2>2. seen.uid = 1 /\ seen.mark = NoMark /\ seen.replicas = s.original
    BY <1>5 DEF Patch, WorkerInv, Findings
  <2> QED BY <2>1, <2>2, PlanFacts
<1>6. CASE Restore
  <2>1. UNCHANGED <<things, victim>> /\ (work' = work \/ work = seen) /\ cur \in Experiments
    BY <1>6 DEF Restore, WorkerInv, Position
  <2>2. seen.uid = 1 /\ seen.mark = cur /\ seen.replicas = 0
    BY <1>6 DEF Restore, WorkerInv, Findings
  <2> QED BY <2>1, <2>2, PlanFacts
<1> QED BY <1>1, <1>2, <1>3, <1>4, <1>5, <1>6

\* The worker leaves alone what is not the experiment's (actions.go:71, 84-95,
\* 229-244).
THEOREM ForeignPreservedAlways == Spec => ForeignPreserved
<1>1. ChaosInv /\ [Next]_vars =>
        [Work => /\ \A x \in Experiments, k \in 1 .. N :
                      things[x][k] = "foreign" => things'[x][k] = "foreign"
                 /\ victim = "other" => victim' = "other"
                 /\ work # work' =>
                      /\ work.uid = 1
                      /\ work.mark \in {NoMark, cur}
                      /\ work.mark = cur => work.replicas = 0
                      /\ work.mark = NoMark => work.replicas = s.original]_vars
  BY WorkForeign
<1> QED BY <1>1, ChaosInvariance, PTL DEF Spec, ForeignPreserved

\* The replica is torn down only when nothing disturbs it (controller.go:231).
THEOREM RollbackBeforeTeardownAlways == Spec => RollbackBeforeTeardown
<1>1. ASSUME ChaosInv, Next, parent # "gone", parent' = "gone", NEW x \in Experiments
      PROVE  ~Disturbs(x)
  <2>1. Proceed
    <3>1. CASE Work
      BY <1>1, <3>1 DEF Work, SaveIntent, AddFinalizer, LookThing, LookPod, LookScale, LookLost, SaveApplied,
        Started, SaveActive, BeginCleanup, RollNext, RollThing, RollPods, RollScale, Pin, SaveCleaned,
        SaveFinished, Release, Forget, Save, NoWrite, Create, Strike, Patch, Remove, Restore, host
    <3>2. CASE (\E y \in Experiments : Pick(y)) \/ CallFails \/ EngineFails \/ Crash
      BY <1>1, <3>2 DEF Pick, End, Abort, Start, Resume, NoWrite, CallFails, EngineFails, Crash, host
    <3>3. CASE Controllers
      BY <1>1, <3>3 DEF Controllers, RunJob, EndPods, EndJob, Sync, ReplacePod, Quiet, host
    <3>4. CASE User
      BY <1>1, <3>4 DEF User, Submit, Cancel, Expire, EndReplica, Revoke, UserDelete, UserCreate, UserScale,
        UserReplace, UserNamespace, Meddle, host
    <3>5. CASE CleanupReplica
      BY <1>1, <3>5 DEF CleanupReplica, ListExperiments, ListRecords, StopExperiment, ReapRecord
    <3> QED BY <1>1, <3>1, <3>2, <3>3, <3>4, <3>5 DEF Next
  <2>2. engine.pc # "idle" /\ ~engine.pending
    BY <1>1, <2>1 DEF Proceed
  <2>3. req[x].state \in {"live", "deleting"} => ~rec[x].exists
    BY <1>1, <2>2 DEF ChaosInv, Listed
  <2> QED BY <1>1, <2>3, DisturbsBusy DEF ChaosInv, Busy
<1>2. ChaosInv /\ [Next]_vars =>
        [parent # "gone" /\ parent' = "gone" => \A x \in Experiments : ~Disturbs(x)]_vars
  BY <1>1
<1> QED BY <1>2, ChaosInvariance, PTL DEF Spec, RollbackBeforeTeardown
===============================================================================
