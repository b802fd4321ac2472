----------------------------- MODULE MirrorProofs -----------------------------
(***************************************************************************)
(* Safety of module Mirror for any number of runs, any settings and any    *)
(* number of faults: the capture of a generation that may still read it is *)
(* kept, a destination runs one managed generation at a time, the active   *)
(* generation is a complete one, a lease is respected and a run's record   *)
(* goes last.                                                              *)
(*                                                                         *)
(* Rests on MirrorInv: how the records, the references and the objects     *)
(* relate (Data), and what the running reconcile relies on (Site).         *)
(***************************************************************************)
EXTENDS Mirror, FiniteSetTheorems, TLAPS

\* The parts of a reconcile before it advances the candidate, and those after
\* collect is done.
Before == {"idle", "enrol", "collect", "choose"}
After == {"choose", "advance", "accept", "retire", "unpoint", "generate", "activate", "point"}

\* The mirror is not over, or the reconcile that runs began before it was.
Working == ~Over \/ (pc # "idle" /\ ~all)

-----------------------------------------------------------------------------
\* Data: records, references, objects.

\* A record exists only for a request that waits for it with its finalizer; a
\* run whose reference is not saved yet has only just got its record.
Kept ==
  \A x \in Runs : rec[x].exists =>
    /\ runs[x].fin /\ runs[x].state \in {"live", "deleting"}
    /\ x \notin Enrolled => rec[x] = NewRecord(x)

\* Captures outlive the record of the run only by its end.
Rooted(r) ==
  /\ r \in Enrolled \/ runs[r].state = "gone"
  /\ rec[r].exists => rec[r].captured

\* What the phase of a run says about the rest of its record.
Staged ==
  \A x \in Runs : rec[x].exists =>
    /\ rec[x].phase \in {"Queued", "Capturing"} => rec[x].child = "none" /\ rec[x].revision = x
    /\ rec[x].phase \in {"AwaitingActivation", "Active"} => rec[x].child = "uid" /\ rec[x].volume
    /\ rec[x].phase \notin {"Queued", "Capturing", "Retained"} => Rooted(rec[x].revision)

\* The active run and the candidate are enrolled and two; a managed runtime is
\* never provisioned for the candidate while another one is active.
Pointers ==
  /\ par.exists => mir.fin /\ mir.state # "gone"
  /\ ~par.exists => par.runs = <<>>
  /\ par.active # 0 => /\ par.active \in Enrolled
                       /\ rec[par.active].exists => rec[par.active].phase \in {"Active", "Retiring"}
  /\ par.pending # 0 => par.pending \in Enrolled /\ par.pending # par.active
  /\ setting.provider = "helm" /\ par.active # 0 /\ par.pending # 0 => rec[par.pending].child # "uid"

\* A generation with a plan may read its import as long as it exists.
Reads(x) == x \in plan /\ child[x] # "none"

\* What keeps collect from the capture of a run.
Consumer(x) ==
  /\ rec[x].exists /\ rec[x].child = "uid" /\ rec[x].phase # "Retained"
  /\ rec[rec[x].revision].exists /\ snap[rec[x].revision] = "ready"

Consumers ==
  /\ \A x \in Runs : Reads(x) => Consumer(x)
  /\ \A x \in plan : \/ runs[x].state = "gone"
                     \/ x \in Enrolled /\ (rec[x].exists => rec[x].child = "uid")

OneAtATime ==
  setting.provider = "helm" => \A x, y \in Runs : Reads(x) /\ Reads(y) => x = y

\* What exists of a run is in its record, if only as the intent.
Recorded ==
  \A x \in Runs :
    /\ x \in imports => rec[x].exists /\ rec[x].import # "none"
    /\ x \in policy => rec[x].exists /\ rec[x].policy # "none"
    /\ snap[x] \notin {"none", "content"} => rec[x].exists /\ rec[x].snap # "none"
    /\ x \in volume => Reads(x)

Data == Kept /\ Staged /\ Pointers /\ Consumers /\ OneAtATime /\ Recorded
-----------------------------------------------------------------------------
\* Site: the reconcile.

\* The active generation has all it needs while the mirror is not being removed.
Complete ==
  Working /\ par.active # 0 =>
    /\ rec[par.active].exists /\ rec[par.active].child = "uid" /\ rec[par.active].volume
    /\ rec[rec[par.active].revision].exists /\ par.active \in policy

\* So does a candidate that is already saved as Active.
Ready ==
  /\ Working /\ par.pending # 0 /\ rec[par.pending].exists /\ rec[par.pending].phase = "Active"
  /\ Live(par.pending) \/ par.pending = cur
  => par.pending \in policy

Place ==
  /\ pc \in Before => cur = 0
  /\ pc \notin Before => cur = par.pending /\ cur # 0 /\ rec[cur].exists
  /\ pc \notin {"enrol", "collect"} => ~all
  /\ pc # "idle" => par.exists
  /\ all => Over

\* Behind collect nothing is left to be retired.
Alone == pc \in After => \A x \in Runs : Reads(x) => x \in {par.active, par.pending}

Steps ==
  /\ pc = "accept" => rec[cur].phase = "Queued" /\ (runs[cur].action = "Reset" => Revision(cur))
  /\ pc = "generate" => rec[cur].phase = "Restoring" /\ Consumer(cur)
  /\ pc \in {"retire", "unpoint"} => par.active # 0
  /\ pc = "activate" => rec[cur].phase = "AwaitingActivation"
  /\ pc = "point" => rec[cur].phase = "Active"
  /\ pc \in {"activate", "point"} => cur \in policy /\ rec[rec[cur].revision].exists
  /\ pc \in {"retire", "unpoint", "activate", "point"} /\ par.hold => runs[cur].force

Site == Place /\ Complete /\ Ready /\ Alone /\ Steps

MirrorInv == TypeOK /\ Data /\ Site
-----------------------------------------------------------------------------
\* The fields of the records, the requests and the mirror's record.
LEMMA RecordFields ==
  ASSUME NEW r \in Records
  PROVE  /\ r.exists \in BOOLEAN /\ r.phase \in Phases /\ r.revision \in Runs /\ r.captured \in BOOLEAN
         /\ r.snap \in {"none", "intent", "uid", "content"} /\ r.import \in {"none", "intent", "uid"}
         /\ r.child \in {"none", "intent", "uid"} /\ r.policy \in {"none", "intent", "uid"}
         /\ r.volume \in BOOLEAN
BY DEF Records

LEMMA PhaseSaved ==
  ASSUME NEW r \in Records, NEW p \in Phases
  PROVE  LET new == [r EXCEPT !.phase = p] IN
           /\ new \in Records /\ new.phase = p /\ new.exists = r.exists /\ new.captured = r.captured
           /\ new.revision = r.revision /\ new.snap = r.snap /\ new.import = r.import
           /\ new.child = r.child /\ new.policy = r.policy /\ new.volume = r.volume
BY DEF Records

\* A step of creating an object, saved in the record.
LEMMA EntrySaved ==
  ASSUME NEW r \in Records, NEW k \in {"none", "intent", "uid"}
  PROVE  /\ LET new == [r EXCEPT !.import = k] IN
              /\ new \in Records /\ new.import = k /\ new.phase = r.phase /\ new.exists = r.exists
              /\ new.captured = r.captured /\ new.revision = r.revision /\ new.snap = r.snap
              /\ new.child = r.child /\ new.policy = r.policy /\ new.volume = r.volume
         /\ LET new == [r EXCEPT !.child = k] IN
              /\ new \in Records /\ new.child = k /\ new.phase = r.phase /\ new.exists = r.exists
              /\ new.captured = r.captured /\ new.revision = r.revision /\ new.snap = r.snap
              /\ new.import = r.import /\ new.policy = r.policy /\ new.volume = r.volume
         /\ LET new == [r EXCEPT !.policy = k] IN
              /\ new \in Records /\ new.policy = k /\ new.phase = r.phase /\ new.exists = r.exists
              /\ new.captured = r.captured /\ new.revision = r.revision /\ new.snap = r.snap
              /\ new.import = r.import /\ new.child = r.child /\ new.volume = r.volume
BY DEF Records

LEMMA SnapSaved ==
  ASSUME NEW r \in Records, NEW k \in {"none", "intent", "uid", "content"}
  PROVE  LET new == [r EXCEPT !.snap = k] IN
           /\ new \in Records /\ new.snap = k /\ new.phase = r.phase /\ new.exists = r.exists
           /\ new.captured = r.captured /\ new.revision = r.revision /\ new.import = r.import
           /\ new.child = r.child /\ new.policy = r.policy /\ new.volume = r.volume
BY DEF Records

LEMMA VolumeSaved ==
  ASSUME NEW r \in Records
  PROVE  LET new == [r EXCEPT !.volume = TRUE] IN
           /\ new \in Records /\ new.snap = r.snap /\ new.phase = r.phase /\ new.exists = r.exists
           /\ new.captured = r.captured /\ new.revision = r.revision /\ new.import = r.import
           /\ new.child = r.child /\ new.policy = r.policy /\ new.volume
BY DEF Records

\* A run is accepted, and its capture completed.
LEMMA AcceptSaved ==
  ASSUME NEW r \in Records, NEW y \in Runs
  PROVE  /\ LET new == [r EXCEPT !.snap = "intent", !.phase = "Capturing"] IN
              /\ new \in Records /\ new.snap = "intent" /\ new.phase = "Capturing" /\ new.exists = r.exists
              /\ new.captured = r.captured /\ new.revision = r.revision /\ new.import = r.import
              /\ new.child = r.child /\ new.policy = r.policy /\ new.volume = r.volume
         /\ LET new == [r EXCEPT !.revision = y, !.captured = TRUE, !.phase = "Restoring"] IN
              /\ new \in Records /\ new.snap = r.snap /\ new.phase = "Restoring" /\ new.exists = r.exists
              /\ new.captured /\ new.revision = y /\ new.import = r.import
              /\ new.child = r.child /\ new.policy = r.policy /\ new.volume = r.volume
BY DEF Records, Phases

LEMMA CapturedSaved ==
  ASSUME NEW r \in Records
  PROVE  LET new == [r EXCEPT !.captured = TRUE, !.phase = "Restoring"] IN
           /\ new \in Records /\ new.snap = r.snap /\ new.phase = "Restoring" /\ new.exists = r.exists
           /\ new.captured /\ new.revision = r.revision /\ new.import = r.import
           /\ new.child = r.child /\ new.policy = r.policy /\ new.volume = r.volume
BY DEF Records, Phases

LEMMA FreshRecord ==
  ASSUME NEW x \in Runs
  PROVE  /\ NewRecord(x) \in Records /\ NoRecord(x) \in Records
         /\ NewRecord(x).exists /\ NewRecord(x).phase = "Queued" /\ NewRecord(x).child = "none"
         /\ NewRecord(x).revision = x
         /\ ~NoRecord(x).exists /\ NoRecord(x).child = "none"
BY DEF NewRecord, NoRecord, Records, Phases

\* The runs of the mirror's record.
LEMMA EnrolledRuns == ASSUME TypeOK PROVE Enrolled \subseteq Runs
BY DEF TypeOK, Parents, Enrolled, Range

LEMMA EnrolledAppended ==
  ASSUME TypeOK, NEW x \in Runs, par'.runs = Append(par.runs, x)
  PROVE  Enrolled' = Enrolled \cup {x}
<1> DEFINE s == par.runs
<1>1. s \in Seq(Runs) /\ Enrolled = Range(s) /\ Enrolled' = Range(Append(s, x))
  BY DEF TypeOK, Parents, Enrolled
<1> HIDE DEF s
<1>2. /\ Append(s, x) \in Seq(Runs) /\ Len(Append(s, x)) = Len(s) + 1 /\ Len(s) \in Nat
      /\ \A i \in 1 .. Len(s) : Append(s, x)[i] = s[i]
      /\ Append(s, x)[Len(s) + 1] = x
  BY <1>1
<1>3. DOMAIN s = 1 .. Len(s) /\ DOMAIN Append(s, x) = 1 .. Len(s) + 1
  BY <1>1, <1>2
<1>4. 1 .. Len(s) + 1 = (1 .. Len(s)) \cup {Len(s) + 1}
  BY <1>2
<1> DEFINE a == Append(s, x)
<1>5. /\ DOMAIN a = (DOMAIN s) \cup {Len(s) + 1}
      /\ \A i \in DOMAIN s : a[i] = s[i]
      /\ a[Len(s) + 1] = x
  BY <1>2, <1>3, <1>4
<1> HIDE DEF a
<1>6. Range(a) = Range(s) \cup {x}
  <2>1. \A i \in DOMAIN s : a[i] = s[i] /\ i \in DOMAIN a
    BY <1>5
  <2>2. x \in Range(a)
    BY <1>5, Zenon DEF Range
  <2>3. Range(s) \subseteq Range(a)
    BY <2>1, Zenon DEF Range
  <2>4. ASSUME NEW i \in DOMAIN a PROVE a[i] \in Range(s) \cup {x}
    <3>1. CASE i \in DOMAIN s
      BY <3>1, <2>1, Zenon DEF Range
    <3>2. CASE i = Len(s) + 1
      BY <1>5, <3>2
    <3> QED BY <1>5, <2>4, <3>1, <3>2
  <2>5. Range(a) \subseteq Range(s) \cup {x}
    BY <2>4, Zenon DEF Range
  <2> QED BY <2>2, <2>3, <2>5
<1> QED BY <1>1, <1>6 DEF a

LEMMA EnrolledWithout ==
  ASSUME TypeOK, NEW x \in Enrolled
  PROVE  /\ Without(x) \in Seq(Runs)
         /\ Range(Without(x)) \subseteq Enrolled /\ Enrolled \ {x} \subseteq Range(Without(x))
<1> DEFINE s == par.runs
<1> DEFINE n == Position(x)
<1>1. s \in Seq(Runs) /\ Enrolled = Range(s)
  BY DEF TypeOK, Parents, Enrolled
<1>2. n \in DOMAIN s /\ s[n] = x
  <2>1. \E i \in DOMAIN par.runs : par.runs[i] = x
    BY DEF Enrolled, Range
  <2> QED BY <2>1, Zenon DEF Position
<1> HIDE DEF s, n
<1>3. n \in 1 .. Len(s) /\ Len(s) \in Nat
  BY <1>1, <1>2
<1> DEFINE u == SubSeq(s, 1, n - 1)
<1> DEFINE w == SubSeq(s, n + 1, Len(s))
<1>4. /\ u \in Seq(Runs) /\ Len(u) = n - 1 /\ \A i \in 1 .. n - 1 : u[i] = s[i]
      /\ w \in Seq(Runs) /\ Len(w) = Len(s) - n /\ \A i \in 1 .. Len(s) - n : w[i] = s[i + n]
  <2>1. \A i \in 1 .. n - 1 : s[i] \in Runs
    BY <1>1, <1>3
  <2>2. \A i \in n + 1 .. Len(s) : s[i] \in Runs
    BY <1>1, <1>3
  <2>3. u \in Seq(Runs) /\ Len(u) = n - 1 /\ \A i \in 1 .. n - 1 : u[i] = s[i]
    BY <1>1, <1>3, <2>1
  <2>4. w \in Seq(Runs) /\ Len(w) = Len(s) - n
    BY <1>1, <1>3, <2>2
  <2>5. \A i \in 1 .. Len(s) - n : w[i] = s[i + n]
    BY <1>1, <1>3, <2>2
  <2> QED BY <2>3, <2>4, <2>5
<1> HIDE DEF u, w
<1> DEFINE r == u \o w
<1>5. /\ r \in Seq(Runs) /\ Len(r) = Len(s) - 1
      /\ \A i \in 1 .. Len(s) - 1 : r[i] = IF i < n THEN s[i] ELSE s[i + 1]
  <2>0. u \in Seq(Runs) /\ w \in Seq(Runs) /\ Len(u) = n - 1 /\ Len(w) = Len(s) - n
    BY <1>4
  <2>a. r \in Seq(Runs)
    BY <2>0
  <2>b. Len(r) = Len(u) + Len(w)
    BY <2>0
  <2>1. r \in Seq(Runs) /\ Len(r) = Len(s) - 1
    BY <1>3, <2>0, <2>a, <2>b
  <2>2. ASSUME NEW i \in 1 .. Len(s) - 1, i < n PROVE r[i] = s[i]
    BY <1>3, <1>4, <2>2
  <2>3. ASSUME NEW i \in 1 .. Len(s) - 1, ~(i < n) PROVE r[i] = s[i + 1]
    <3>1. i - (n - 1) \in 1 .. Len(s) - n /\ (i - (n - 1)) + n = i + 1
      BY <1>3, <2>3
    <3>2. r[i] = w[i - (n - 1)]
      BY <1>3, <1>4, <2>3
    <3>3. w[i - (n - 1)] = s[(i - (n - 1)) + n]
      BY <1>4, <3>1
    <3> QED BY <3>1, <3>2, <3>3
  <2> QED BY <2>1, <2>2, <2>3
<1> HIDE DEF r
<1>6. Range(r) \subseteq Range(s)
  <2>1. ASSUME NEW i \in 1 .. Len(s) - 1 PROVE r[i] \in Range(s)
    <3>1. i \in DOMAIN s /\ i + 1 \in DOMAIN s
      BY <1>1, <1>3
    <3>2. s[i] \in Range(s) /\ s[i + 1] \in Range(s)
      BY <3>1 DEF Range
    <3> QED BY <1>5, <3>2
  <2>2. DOMAIN r = 1 .. Len(s) - 1
    BY <1>3, <1>5
  <2> QED BY <2>1, <2>2 DEF Range
<1>7. ASSUME NEW i \in 1 .. Len(s), i # n PROVE s[i] \in Range(r)
  <2>1. CASE i < n
    BY <1>1, <1>3, <1>5, <2>1 DEF Range
  <2>2. CASE i > n
    <3>1. i - 1 \in 1 .. Len(s) - 1 /\ r[i - 1] = s[i]
      BY <1>3, <1>5, <2>2
    <3> QED BY <1>5, <3>1 DEF Range
  <2> QED BY <1>3, <1>7, <2>1, <2>2
<1>8. Range(s) \ {x} \subseteq Range(r)
  BY <1>1, <1>2, <1>7 DEF Range
<1> QED BY <1>1, <1>5, <1>6, <1>8 DEF r, s, n, u, w, Without, RemoveAt
-----------------------------------------------------------------------------
\* Frames: what a kind of step leaves of the invariant.

\* What the invariant says about the types, once for all.
LEMMA Types ==
  ASSUME TypeOK
  PROVE  /\ Enrolled \subseteq Runs /\ plan \subseteq Runs /\ policy \subseteq Runs
         /\ imports \subseteq Runs /\ volume \subseteq Runs
         /\ \A x \in Runs : rec[x] \in Records /\ rec[x].revision \in Runs /\ runs[x] \in Requests
         /\ rec \in [Runs -> Records] /\ runs \in [Runs -> Requests] /\ par \in Parents
         /\ par.active \in {0} \cup Runs /\ par.pending \in {0} \cup Runs /\ cur \in {0} \cup Runs
         /\ 0 \notin Runs
<1>1. 0 .. MaxRuns = {0} \cup Runs /\ 0 \notin Runs
  BY ConstantsAssumption DEF Runs
<1> QED BY <1>1, EnrolledRuns, RecordFields DEF TypeOK, Parents

\* A record is saved again: nothing it knows is forgotten.
Grows(x, new) ==
  /\ new \in Records /\ new.exists /\ x \in Enrolled /\ rec[x].exists
  /\ rec[x].captured => new.captured
  /\ rec[x].volume => new.volume
  /\ rec[x].child = "uid" => new.child = "uid" /\ new.revision = rec[x].revision
  /\ rec[x].snap # "none" => new.snap # "none"
  /\ rec[x].import # "none" => new.import # "none"
  /\ rec[x].policy # "none" => new.policy # "none"

\* The phase it has then is one the invariant allows.
Fits(x, new) ==
  /\ new.phase \in {"Queued", "Capturing"} => new.child = "none" /\ new.revision = x
  /\ new.phase \in {"AwaitingActivation", "Active"} => new.child = "uid" /\ new.volume
  /\ new.phase \notin {"Queued", "Capturing", "Retained"} =>
       Rooted(new.revision) \/ (new.revision = x /\ new.captured)
  /\ new.phase = "Retained" => ~Reads(x)
  /\ x = par.active => new.phase \in {"Active", "Retiring"}
  /\ x = par.pending /\ setting.provider = "helm" /\ par.active # 0 => new.child # "uid"
  /\ x = par.pending /\ new.phase = "Active" => x \in policy \/ rec[x].phase = "Active"

\* The reconcile goes on or returns.
Onward == cur' \in {0, cur} /\ (Working' => Working)

\* The steps that save one record, whatever they are for.
LEMMA RunSaved ==
  ASSUME TypeOK, Data, Complete, Ready, Onward,
         NEW x \in Runs, NEW new, Grows(x, new), Fits(x, new), SaveRun(x, new)
  PROVE  Data' /\ Complete' /\ Ready'
<1>a. /\ UNCHANGED <<setting, mir, runs, par, child, plan, snap, imports, policy, volume>>
      /\ rec' = [rec EXCEPT ![x] = new]
  BY DEF SaveRun, outside, world
<1>b. /\ rec'[x] = new /\ \A y \in Runs : y # x => rec'[y] = rec[y]
      /\ Enrolled' = Enrolled /\ \A y \in Runs : Reads(y)' <=> Reads(y)
  BY <1>a, Types DEF Enrolled, Reads
<1>c. \A y \in Runs : /\ rec[y] \in Records /\ rec[y].revision \in Runs
                      /\ rec'[y].exists <=> rec[y].exists
                      /\ rec[y].captured => rec'[y].captured
                      /\ rec[y].child = "uid" => rec'[y].child = "uid" /\ rec'[y].revision = rec[y].revision
  BY <1>b, Types DEF Grows
<1>1. Kept'
  BY <1>a, <1>b DEF Data, Kept, Grows
<1>2. Staged'
  <2>1. \A r \in Runs : Rooted(r) => Rooted(r)'
    BY <1>a, <1>b, <1>c DEF Rooted
  <2>2. ASSUME NEW y \in Runs, y # x, rec[y].exists
        PROVE  rec'[y].phase \notin {"Queued", "Capturing", "Retained"} => Rooted(rec[y].revision)'
    BY <1>b, <1>c, <2>1, <2>2 DEF Data, Staged
  <2>3. new.phase \notin {"Queued", "Capturing", "Retained"} => Rooted(new.revision)'
    <3>1. new.revision \in Runs
      BY RecordFields DEF Grows
    <3> QED BY <1>b, <2>1, <3>1 DEF Fits, Grows, Rooted
  <2> QED BY <1>b, <2>2, <2>3 DEF Data, Staged, Fits
<1>3. Pointers'
  BY <1>a, <1>b, Types DEF Data, Pointers, Fits, Grows
<1>4. Consumers'
  <2>1. \A y \in Runs : Reads(y) => Consumer(y)'
    BY <1>a, <1>b, <1>c DEF Data, Consumers, Consumer, Fits
  <2> QED BY <1>a, <1>b, <1>c, <2>1, Types DEF Data, Consumers
<1>5. OneAtATime' /\ Recorded'
  BY <1>a, <1>b, <1>c DEF Data, OneAtATime, Recorded, Grows
<1>6. Complete'
  BY <1>a, <1>b, <1>c, Types DEF Complete, Onward, Grows
<1>7. Ready'
  BY <1>a, <1>b, <1>c, Types DEF Ready, Onward, Fits, Live
<1> QED BY <1>1, <1>2, <1>3, <1>4, <1>5, <1>6, <1>7 DEF Data
\* The objects change: none of what somebody reads or needs disappears, and
\* what appears is in the records.
Harmless ==
  /\ plan' \subseteq plan /\ \A x \in Runs : Reads(x)' => Reads(x)
  /\ policy \subseteq policy' /\ \A x \in Runs : snap[x] = "ready" => snap'[x] = "ready"
  /\ \A x \in Runs :
       /\ x \in imports' => x \in imports \/ (rec[x].exists /\ rec[x].import # "none")
       /\ x \in policy' => x \in policy \/ (rec[x].exists /\ rec[x].policy # "none")
       /\ snap'[x] \notin {"none", "content"} =>
            snap[x] \notin {"none", "content"} \/ (rec[x].exists /\ rec[x].snap # "none")
       /\ x \in volume' => Reads(x)'

LEMMA WorldMoved ==
  ASSUME MirrorInv, Harmless, UNCHANGED <<setting, past, mir, runs, par, rec, pc, cur, all>>
  PROVE  Data' /\ Site'
<1>a. /\ UNCHANGED <<setting, past, mir, runs, par, rec, pc, cur, all>>
      /\ Enrolled' = Enrolled /\ Working' = Working /\ Over' = Over
  BY DEF Enrolled, Working, Over
<1>b. TypeOK /\ \A y \in Runs : rec[y].revision \in Runs
  BY Types DEF MirrorInv
<1>1. Kept' /\ Staged' /\ Pointers'
  BY <1>a DEF MirrorInv, Data, Kept, Staged, Pointers, Rooted
<1>2. \A x \in Runs : Consumer(x) => Consumer(x)'
  BY <1>a, <1>b DEF Consumer, Harmless
<1>3. Consumers'
  BY <1>a, <1>2 DEF MirrorInv, Data, Consumers, Harmless
<1>4. OneAtATime'
  BY <1>a DEF MirrorInv, Data, OneAtATime, Harmless
<1>5. Recorded'
  BY <1>a DEF MirrorInv, Data, Recorded, Harmless
<1>6. Place' /\ Complete' /\ Ready' /\ Alone'
  BY <1>a DEF MirrorInv, Site, Place, Complete, Ready, Alone, Harmless, Live
<1>7. Steps'
  <2>1. pc \notin Before => cur \in Runs
    BY <1>b, Types DEF MirrorInv, Site, Place
  <2> QED BY <1>a, <1>2, <2>1 DEF MirrorInv, Site, Steps, Harmless, Revision, Before
<1> QED BY <1>1, <1>3, <1>4, <1>5, <1>6, <1>7 DEF Data, Site

\* The requests change, none that has a record is reopened or gets another
\* content; of the mirror's record perhaps LastSync.
Reopens ==
  \A x \in Runs :
    /\ runs[x].state = "gone" => runs'[x].state = "gone"
    /\ rec[x].exists => /\ runs'[x].fin = runs[x].fin
                        /\ runs'[x].state \in {"live", "deleting"}
                        /\ runs'[x].state = "live" => runs[x].state = "live"
                        /\ runs'[x].action = runs[x].action /\ runs'[x].from = runs[x].from
                        /\ runs'[x].force = runs[x].force

LEMMA RunsMoved ==
  ASSUME MirrorInv, Reopens, Onward, UNCHANGED <<setting, mir, rec, world>>,
         par' = par \/ par' = [par EXCEPT !.synced = TRUE]
  PROVE  /\ Data' /\ Complete' /\ Ready'
         /\ UNCHANGED <<past, pc, cur, all>> => Site'
<1>a. /\ UNCHANGED <<setting, mir, rec, child, plan, snap, imports, policy, volume>>
      /\ par'.exists = par.exists /\ par'.runs = par.runs /\ par'.active = par.active
      /\ par'.pending = par.pending /\ par'.hold = par.hold
  BY DEF world, MirrorInv, TypeOK, Parents
<1>b. /\ Enrolled' = Enrolled /\ \A x \in Runs : Reads(x)' <=> Reads(x)
  BY <1>a DEF Enrolled, Reads
<1>c. TypeOK /\ \A y \in Runs : rec[y].revision \in Runs
  BY Types DEF MirrorInv
<1>1. Kept'
  BY <1>a, <1>b DEF MirrorInv, Data, Kept, Reopens
<1>2. Staged'
  BY <1>a, <1>b, <1>c DEF MirrorInv, Data, Staged, Rooted, Reopens
<1>3. Pointers'
  BY <1>a, <1>b DEF MirrorInv, Data, Pointers
<1>4. Consumers'
  BY <1>a, <1>b, <1>c, Types DEF MirrorInv, Data, Consumers, Consumer, Reopens
<1>5. OneAtATime' /\ Recorded'
  BY <1>a, <1>b DEF MirrorInv, Data, OneAtATime, Recorded
<1>6. Complete'
  BY <1>a DEF MirrorInv, Site, Complete, Onward
<1>7. Ready'
  BY <1>a, <1>c, Types DEF MirrorInv, Site, Ready, Onward, Live, Reopens
<1>8. ASSUME UNCHANGED <<past, pc, cur, all>> PROVE Place' /\ Alone' /\ Steps'
  <2>1. Over' = Over
    BY <1>8, <1>a DEF Over
  <2>2. pc \notin Before => cur \in Runs /\ rec[cur].exists
    BY <1>c, Types DEF MirrorInv, Site, Place
  <2>3. Place' /\ Alone'
    BY <1>8, <1>a, <1>b, <2>1 DEF MirrorInv, Site, Place, Alone
  <2>4. Steps'
    BY <1>8, <1>a, <1>b, <2>2 DEF MirrorInv, Site, Steps, Reopens, Revision, Consumer, Before
  <2> QED BY <2>3, <2>4
<1> QED BY <1>1, <1>2, <1>3, <1>4, <1>5, <1>6, <1>7, <1>8 DEF Data, Site

\* A reconcile that returns leaves nothing behind but its writes.
LEMMA Returned == Return => Place' /\ Alone' /\ Steps'
BY DEF Return, Place, Alone, Steps, Before, After

\* Neither a return nor a step within a reconcile reopens the mirror's work.
LEMMA GoesOn ==
  ASSUME MirrorInv, UNCHANGED <<mir, past>>,
         \/ Return
         \/ pc # "idle" /\ UNCHANGED <<cur, all>>
  PROVE  Onward
<1>1. Over' = Over /\ (all => Over)
  BY DEF Over, MirrorInv, Site, Place
<1> QED BY <1>1 DEF Onward, Working, Return
-----------------------------------------------------------------------------
\* Type correctness.  The revision of an accepted Reset is a run because of
\* Revision, so that the types need the rest of the invariant.

Typed ==
  /\ pc' \in {"idle", "enrol", "collect", "choose", "advance", "accept", "retire",
              "unpoint", "generate", "activate", "point"}
  /\ cur' \in 0 .. MaxRuns /\ all' \in BOOLEAN

LEMMA LocalTypes ==
  ASSUME TypeOK
  PROVE  /\ Return => Typed
         /\ UNCHANGED locals => Typed
         /\ \A step \in {"enrol", "collect", "choose", "accept", "retire", "unpoint", "generate",
                         "activate", "point"} : Goto(step) => Typed
<1>1. 0 \in 0 .. MaxRuns
  BY ConstantsAssumption
<1>2. Return => Typed
  BY <1>1 DEF Return, Typed
<1>3. UNCHANGED locals => Typed
  BY DEF TypeOK, Typed, locals
<1>4. cur \in 0 .. MaxRuns /\ all \in BOOLEAN
  BY DEF TypeOK
<1> QED BY <1>2, <1>3, <1>4 DEF Typed, Goto

LEMMA RunTyped ==
  ASSUME TypeOK, Typed, NEW x, NEW new \in Records, SaveRun(x, new)
  PROVE  TypeOK'
<1>1. rec' \in [Runs -> Records]
  BY DEF SaveRun, TypeOK
<1> QED BY <1>1 DEF SaveRun, outside, world, TypeOK, Typed

LEMMA ParentTyped ==
  ASSUME TypeOK, Typed, NEW new \in Parents, SaveParent(new)
  PROVE  TypeOK'
BY DEF SaveParent, outside, world, TypeOK, Typed

LEMMA RequestTyped ==
  ASSUME TypeOK, Typed, NEW x, NEW new \in Requests, SetRun(x, new)
  PROVE  TypeOK'
<1>1. runs' \in [Runs -> Requests]
  BY DEF SetRun, TypeOK
<1> QED BY <1>1 DEF SetRun, outside, world, TypeOK, Typed

\* The phases the reconcile saves are phases.
LEMMA PhaseNames ==
  /\ Restoring \subseteq Phases
  /\ {"Capturing", "AwaitingActivation", "Active", "Retiring", "Retained"} \subseteq Phases
BY DEF Phases, Restoring

LEMMA TypeStep == MirrorInv /\ [Next]_vars => TypeOK'
<1> SUFFICES ASSUME MirrorInv, [Next]_vars PROVE TypeOK'
  OBVIOUS
<1>a. TypeOK
  BY DEF MirrorInv
<1>b. /\ \A x \in Runs : rec[x] \in Records
      /\ par.active \in {0} \cup Runs /\ par.pending \in {0} \cup Runs /\ cur \in {0} \cup Runs
      /\ {0} \cup Runs = 0 .. MaxRuns /\ Enrolled \subseteq Runs
  BY <1>a, Types, ConstantsAssumption DEF Runs
<1>c. Return => pc' = "idle" /\ cur' \in 0 .. MaxRuns /\ all' \in BOOLEAN
  BY <1>b DEF Return
<1>1. CASE UNCHANGED vars
  BY <1>1, <1>a DEF vars, outside, world, locals, TypeOK
<1>2. CASE User
  <2>1. ASSUME NEW x \in Runs, Submit(x) PROVE TypeOK'
    <3>1. PICK kind \in {"Sync", "Reset"}, y \in Runs, force \in BOOLEAN :
            runs' = [runs EXCEPT ![x] = [NoRequest EXCEPT !.state = "live", !.action = kind,
                       !.from = IF kind = "Sync" THEN 0 ELSE y, !.force = force]]
      BY <2>1 DEF Submit
    <3>2. runs' \in [Runs -> Requests]
      BY <3>1, <1>a, <1>b DEF TypeOK, Requests, NoRequest
    <3> QED BY <2>1, <3>2, <1>a DEF Submit, outside, world, locals, TypeOK
  <2>2. ASSUME NEW x \in Runs, Cancel(x) PROVE TypeOK'
    <3>1. runs' \in [Runs -> Requests]
      BY <2>2, <1>a DEF Cancel, TypeOK, Requests
    <3> QED BY <2>2, <3>1, <1>a, ConstantsAssumption DEF Cancel, world, locals, TypeOK
  <2>3. ASSUME NEW x \in Runs, DeleteChild(x) PROVE TypeOK'
    BY <2>3, <1>a, ConstantsAssumption DEF DeleteChild, locals, TypeOK
  <2>4. CASE Hold
    <3>1. meddling' \in 0 .. MaxMeddling
      BY <2>4, <1>a, ConstantsAssumption DEF Hold, TypeOK
    <3>2. mir' \in [state : {"live", "deleting", "gone"}, fin : BOOLEAN, hold : BOOLEAN]
      BY <2>4, <1>a DEF Hold, TypeOK
    <3> QED BY <2>4, <3>1, <3>2, <1>a DEF Hold, world, locals, TypeOK
  <2>5. CASE Release
    BY <2>5, <1>a DEF Release, outside, world, locals, TypeOK
  <2>6. CASE LeaseEnds
    <3>1. par' \in Parents
      BY <2>6, <1>a DEF LeaseEnds, TypeOK, Parents
    <3> QED BY <2>6, <3>1, <1>a DEF LeaseEnds, outside, world, locals, TypeOK
  <2>7. CASE DeleteMirror
    BY <2>7, <1>a DEF DeleteMirror, outside, world, locals, TypeOK
  <2>8. CASE Expire
    BY <2>8, <1>a DEF Expire, world, locals, TypeOK
  <2> QED BY <1>2, <2>1, <2>2, <2>3, <2>4, <2>5, <2>6, <2>7, <2>8 DEF User
<1>3. CASE Environment
  <2> SUFFICES ASSUME NEW x \in Runs,
                      \/ Snapshot(x) \/ Unsnapshot(x) \/ Apply(x)
                      \/ CleanupGeneration(x) \/ CleanGuest(x) \/ EndChild(x)
               PROVE  TypeOK'
    BY <1>3 DEF Environment
  <2>1. CASE Snapshot(x) \/ Unsnapshot(x)
    BY <2>1, <1>a DEF Snapshot, Unsnapshot, Quiet, outside, locals, TypeOK
  <2>2. CASE Apply(x) \/ CleanGuest(x) \/ EndChild(x)
    BY <2>2, <1>a DEF Apply, CleanGuest, EndChild, Engine, Quiet, outside, locals, TypeOK
  <2>3. CASE CleanupGeneration(x)
    <3>1. rec' \in [Runs -> Records]
      <4>1. [rec[x] EXCEPT !.volume = TRUE] \in Records
        BY <1>b, VolumeSaved
      <4> QED BY <2>3, <4>1, <1>a DEF CleanupGeneration, TypeOK
    <3> QED BY <2>3, <3>1, <1>a, <1>b DEF CleanupGeneration, Engine, Quiet, outside, locals, TypeOK
  <2> QED BY <2>1, <2>2, <2>3
<1>4. CASE Crash
  BY <1>4, <1>a, <1>c, ConstantsAssumption DEF Crash, outside, world, TypeOK
<1>5. CASE AddFinalizer \/ FinishCleanup \/ StartCleanup \/ EnrolDone
  BY <1>5, <1>a DEF AddFinalizer, FinishCleanup, StartCleanup, EnrolDone, Nothing, Goto, outside, world, locals, TypeOK
<1>6. CASE Start
  <2>1. [par EXCEPT !.exists = TRUE, !.hold = mir.hold] \in Parents
    BY <1>a DEF TypeOK, Parents
  <2> QED BY <1>6, <1>a, <2>1, LocalTypes, ParentTyped DEF Start
<1>7. ASSUME NEW x \in Runs, Enrol(x) PROVE TypeOK'
  <2>1. Typed
    BY <1>7, <1>a, LocalTypes DEF Enrol
  <2>2. CASE SetRun(x, [runs[x] EXCEPT !.fin = TRUE])
    <3>1. [runs[x] EXCEPT !.fin = TRUE] \in Requests
      BY <1>a, Types DEF Requests
    <3> QED BY <2>1, <2>2, <3>1, <1>a, RequestTyped
  <2>3. CASE SaveRun(x, NewRecord(x))
    BY <2>1, <2>3, <1>a, RunTyped, FreshRecord
  <2>4. CASE SaveParent([par EXCEPT !.runs = Append(@, x)])
    <3>1. Append(par.runs, x) \in Seq(Runs)
      BY <1>a DEF TypeOK, Parents
    <3>2. [par EXCEPT !.runs = Append(@, x)] \in Parents
      BY <3>1, <1>a DEF TypeOK, Parents
    <3> QED BY <2>1, <2>4, <3>2, <1>a, ParentTyped
  <2> QED BY <1>7, <2>2, <2>3, <2>4 DEF Enrol
<1>8. CASE Collect
  <2>1. CASE CollectDone
    BY <2>1, <1>a DEF CollectDone, Nothing, Goto, outside, world, TypeOK
  <2>2. CASE DeleteRecord
    <3>1. NoParent \in Parents
      BY <1>b DEF NoParent, Parents
    <3> QED BY <2>2, <3>1, <1>a, LocalTypes, ParentTyped DEF DeleteRecord
  <2>3. ASSUME NEW x \in Focus,
               \/ Retire(x) \/ Retention(x) \/ DeleteCapture(x) \/ Forget(x)
               \/ DropRequest(x) \/ DropReference(x)
        PROVE  TypeOK'
    <3>1. x \in Enrolled /\ x \in Runs
      BY <1>b DEF Focus, First, Due
    <3>2. CASE Retire(x)
      BY <2>3, <3>2, <1>a, <1>c DEF Retire, Written, outside, TypeOK
    <3>3. CASE Retention(x)
      <4>1. [rec[x] EXCEPT !.phase = "Retained"] \in Records
        BY <3>1, <1>b, PhaseSaved, PhaseNames
      <4> QED BY <3>3, <4>1, <1>a, LocalTypes, RunTyped DEF Retention
    <3>4. CASE DeleteCapture(x)
      BY <3>4, <1>a, <1>c DEF DeleteCapture, Written, outside, TypeOK
    <3>5. CASE Forget(x)
      BY <3>1, <3>5, <1>a, LocalTypes, RunTyped, FreshRecord DEF Forget
    <3>6. CASE DropRequest(x)
      <4>1. [runs[x] EXCEPT !.fin = FALSE,
               !.state = IF runs[x].fin /\ Live(x) THEN "live" ELSE "gone"] \in Requests
        BY <3>1, <1>a, Types DEF Requests
      <4> QED BY <3>6, <4>1, <1>a, LocalTypes, RequestTyped DEF DropRequest
    <3>7. CASE DropReference(x)
      <4>1. [par EXCEPT !.runs = Without(x), !.pending = IF @ = x THEN 0 ELSE @,
                        !.active = IF @ = x THEN 0 ELSE @] \in Parents
        BY <1>a, <1>b, <3>1, EnrolledWithout DEF TypeOK, Parents
      <4> QED BY <3>7, <4>1, <1>a, LocalTypes, ParentTyped DEF DropReference
    <3> QED BY <2>3, <3>2, <3>3, <3>4, <3>5, <3>6, <3>7
  <2> QED BY <1>8, <2>1, <2>2, <2>3 DEF Collect
<1>9. CASE Candidate
  <2>1. CASE Choose
    <3>1. PICK x \in First(Queue) : SaveParent([par EXCEPT !.pending = x])
      BY <2>1 DEF Choose
    <3>2. [par EXCEPT !.pending = x] \in Parents
      BY <1>a, <1>b DEF First, Queue, TypeOK, Parents
    <3> QED BY <2>1, <3>1, <3>2, <1>a, LocalTypes, ParentTyped DEF Choose
  <2>2. CASE Wait
    BY <2>2, <1>a, <1>c DEF Wait, Nothing, outside, world, TypeOK
  <2>3. CASE Accepted
    <3>1. cur \in Runs /\ rec[cur] \in Records /\ (runs[cur].action = "Reset" => runs[cur].from \in Runs)
      BY <2>3, <1>b DEF Accepted, MirrorInv, Site, Place, Steps, Revision, Before
    <3>2. /\ [rec[cur] EXCEPT !.snap = "intent", !.phase = "Capturing"] \in Records
          /\ \A y \in Runs : [rec[cur] EXCEPT !.revision = y, !.captured = TRUE, !.phase = "Restoring"] \in Records
      BY <3>1, AcceptSaved
    <3>3. ASSUME NEW new \in Records, SaveRun(cur, new) PROVE TypeOK'
      BY <2>3, <3>3, <1>a, LocalTypes, RunTyped DEF Accepted
    <3> QED BY <2>3, <3>1, <3>2, <3>3 DEF Accepted
  <2>4. CASE RetireActive
    <3>1. par.active \in Runs
      BY <2>4, <1>b DEF RetireActive, MirrorInv, Site, Steps
    <3>2. [rec[par.active] EXCEPT !.phase = "Retiring"] \in Records
      BY <3>1, <1>b, PhaseSaved, PhaseNames
    <3> QED BY <2>4, <3>2, <1>a, LocalTypes, RunTyped DEF RetireActive
  <2>5. CASE Activated
    <3>1. cur \in Runs
      BY <2>5, <1>b DEF Activated, MirrorInv, Site, Place, Before
    <3>2. [rec[cur] EXCEPT !.phase = "Active"] \in Records
      BY <3>1, <1>b, PhaseSaved, PhaseNames
    <3> QED BY <2>5, <3>2, <1>a, LocalTypes, RunTyped DEF Activated
  <2>6. CASE Unpoint \/ Point
    <3>1. [par EXCEPT !.active = 0] \in Parents /\ [par EXCEPT !.active = cur, !.pending = 0] \in Parents
      BY <1>a, <1>b DEF TypeOK, Parents
    <3> QED BY <2>6, <3>1, <1>a, LocalTypes, ParentTyped DEF Unpoint, Point
  <2>7. ASSUME NEW x \in Runs, Schedule(x) PROVE TypeOK'
    <3>1. [NoRequest EXCEPT !.state = "live", !.tag = TRUE] \in Requests
      BY <1>b DEF Requests, NoRequest
    <3> QED BY <2>7, <3>1, <1>a, LocalTypes, RequestTyped DEF Schedule
  <2>8. ASSUME NEW x \in Runs, Enter(x) PROVE TypeOK'
    BY <2>8, <1>a, <1>b DEF Enter, Nothing, outside, world, TypeOK
  <2>9. ASSUME NEW x \in Runs, Accept(x) PROVE TypeOK'
    <3>1. runs' \in [Runs -> Requests]
      <4>1. ASSUME NEW y \in Runs PROVE [runs[y] EXCEPT !.tag = FALSE] \in Requests
        <5>1. runs[y] \in Requests
          BY <1>a, Types
        <5> QED BY <5>1 DEF Requests
      <4> QED BY <2>9, <4>1 DEF Accept
    <3>2. par' \in Parents
      BY <2>9, <1>a DEF Accept, TypeOK, Parents
    <3> QED BY <2>9, <3>1, <3>2, <1>a DEF Accept, Goto, outside, world, TypeOK
  <2>10. ASSUME NEW x \in Runs, CreateCapture(x) \/ CreateImport(x) \/ CreateChild(x) \/ SavePlan(x) PROVE TypeOK'
    BY <2>10, <1>a, <1>c DEF CreateCapture, CreateImport, CreateChild, SavePlan, Written, outside, locals, TypeOK
  <2>11. ASSUME NEW x \in Runs, RecordCapture(x) \/ Captured(x) \/ RecordVolume(x) PROVE TypeOK'
    <3>1. Typed
      BY <2>11, <1>a, LocalTypes DEF RecordCapture, Captured, RecordVolume
    <3>2. /\ [rec[x] EXCEPT !.snap = "uid"] \in Records /\ [rec[x] EXCEPT !.snap = "content"] \in Records
          /\ [rec[x] EXCEPT !.captured = TRUE, !.phase = "Restoring"] \in Records
          /\ [rec[x] EXCEPT !.volume = TRUE] \in Records
      BY <1>b, SnapSaved, VolumeSaved, CapturedSaved
    <3> QED BY <2>11, <3>1, <3>2, <1>a, RunTyped DEF RecordCapture, Captured, RecordVolume
  <2>12. ASSUME NEW x \in Runs, RecordImport(x) \/ IntendChild(x) \/ FindChild(x) PROVE TypeOK'
    <3>1. Typed
      BY <2>12, <1>a, LocalTypes DEF RecordImport, IntendChild, FindChild
    <3>2. \A k \in {"intent", "uid"} : /\ [rec[x] EXCEPT !.import = k] \in Records
                                       /\ [rec[x] EXCEPT !.child = k] \in Records
      BY <1>b, EntrySaved
    <3> QED BY <2>12, <3>1, <3>2, <1>a, RunTyped DEF RecordImport, IntendChild, FindChild
  <2>13. ASSUME NEW x \in Runs, AwaitReplacement(x) \/ Replace(x) \/ Resume(x) \/ Restored(x) PROVE TypeOK'
    <3>1. Typed
      BY <2>13, <1>a, LocalTypes DEF AwaitReplacement, Replace, Resume, Restored
    <3>2. \A p \in Phases : [rec[x] EXCEPT !.phase = p] \in Records
      BY <1>b, PhaseSaved
    <3>3. ASSUME NEW p \in Phases, SaveRun(x, [rec[x] EXCEPT !.phase = p]) PROVE TypeOK'
      BY <3>1, <3>2, <3>3, <1>a, RunTyped
    <3> QED BY <2>13, <3>3 DEF AwaitReplacement, Replace, Resume, Restored, Phases
  <2>14. ASSUME NEW x \in Runs, Isolate(x) PROVE TypeOK'
    <3>1. CASE Written /\ policy' = policy \cup {x} /\ UNCHANGED <<child, plan, snap, imports, volume>>
      BY <2>14, <3>1, <1>a DEF Isolate, Written, outside, locals, TypeOK
    <3>2. CASE \E k \in {"intent", "uid"} : SaveRun(x, [rec[x] EXCEPT !.policy = k])
      <4>1. Typed
        BY <2>14, <1>a, LocalTypes DEF Isolate
      <4>2. \A k \in {"intent", "uid"} : [rec[x] EXCEPT !.policy = k] \in Records
        BY <1>b, EntrySaved
      <4> QED BY <3>2, <4>1, <4>2, <1>a, RunTyped
    <3> QED BY <2>14, <3>1, <3>2 DEF Isolate
  <2>15. ASSUME NEW x \in Runs, Activate(x) PROVE TypeOK'
    <3>1. CASE Nothing
      BY <2>15, <3>1, <1>a DEF Activate, Nothing, Goto, outside, world, TypeOK
    <3>2. CASE par.active # 0 /\ SaveRun(par.active, [rec[par.active] EXCEPT !.phase = "Retiring"])
      <4>1. [rec[par.active] EXCEPT !.phase = "Retiring"] \in Records
        BY <3>2, <1>b, PhaseSaved, PhaseNames
      <4> QED BY <2>15, <3>2, <4>1, <1>a, LocalTypes, RunTyped DEF Activate
    <3> QED BY <2>15, <3>1, <3>2 DEF Activate
  <2> QED BY <1>9, <2>1, <2>2, <2>3, <2>4, <2>5, <2>6, <2>7, <2>8, <2>9, <2>10, <2>11, <2>12, <2>13, <2>14, <2>15, Zenon
       DEF Candidate
<1> QED BY <1>1, <1>2, <1>3, <1>4, <1>5, <1>6, <1>7, <1>8, <1>9, Zenon DEF Next, Worker
-----------------------------------------------------------------------------
\* The steps of users, of the snapshot controller and of the generations' engine.

LEMMA UserStep == ASSUME MirrorInv, User PROVE Data' /\ Site'
<1>a. TypeOK
  BY DEF MirrorInv
<1>1. ASSUME NEW x \in Runs, Submit(x) \/ Cancel(x) PROVE Data' /\ Site'
  <2>1. UNCHANGED <<setting, past, mir, par, rec, world, pc, cur, all>>
    BY <1>1 DEF Submit, Cancel, outside, locals
  <2>2. Reopens
    <3>1. CASE Submit(x)
      <4>1. runs[x].state = "new" /\ ~rec[x].exists
        BY <3>1, Types, RecordFields, <1>a DEF Submit, Fresh, MirrorInv, Data, Kept
      <4>2. \A y \in Runs : y # x => runs'[y] = runs[y]
        BY <3>1, <1>a DEF Submit, TypeOK
      <4> QED BY <4>1, <4>2 DEF Reopens, MirrorInv, Data, Kept
    <3>2. CASE Cancel(x)
      <4>1. runs' = [runs EXCEPT ![x].state = IF runs[x].fin THEN "deleting" ELSE "gone"] /\ runs[x].state = "live"
        BY <3>2 DEF Cancel
      <4>2. \A y \in Runs : y # x => runs'[y] = runs[y]
        BY <4>1, <1>a DEF TypeOK
      <4>3. /\ runs'[x].state = IF runs[x].fin THEN "deleting" ELSE "gone"
            /\ runs'[x].fin = runs[x].fin /\ runs'[x].action = runs[x].action
            /\ runs'[x].from = runs[x].from /\ runs'[x].force = runs[x].force
        BY <4>1, <1>a DEF TypeOK, Requests
      <4> QED BY <4>1, <4>2, <4>3 DEF Reopens, MirrorInv, Data, Kept
    <3> QED BY <1>1, <3>1, <3>2
  <2>3. Onward
    BY <2>1 DEF Onward, Working, Over
  <2> QED BY <2>1, <2>2, <2>3, RunsMoved DEF Site
<1>2. ASSUME NEW x \in Runs, DeleteChild(x) PROVE Data' /\ Site'
  <2>1. UNCHANGED <<setting, past, mir, runs, par, rec, plan, snap, imports, policy, volume, pc, cur, all>>
    BY <1>2 DEF DeleteChild, locals
  <2>2. \A y \in Runs : child'[y] = "none" <=> child[y] = "none"
    BY <1>2, <1>a DEF DeleteChild, TypeOK
  <2>3. Harmless
    BY <2>1, <2>2 DEF Harmless, Reads, MirrorInv, Data, Recorded
  <2> QED BY <2>1, <2>3, WorldMoved
<1>3. CASE Hold \/ Release \/ LeaseEnds \/ DeleteMirror \/ Expire
  <2>1. /\ UNCHANGED <<setting, runs, rec, child, plan, snap, imports, policy, volume, pc, cur, all>>
        /\ par'.exists = par.exists /\ par'.runs = par.runs /\ par'.active = par.active
        /\ par'.pending = par.pending /\ (par'.hold => par.hold)
    BY <1>3, <1>a DEF Hold, Release, LeaseEnds, DeleteMirror, Expire, outside, world, locals, TypeOK, Parents
  <2>2. /\ mir'.fin = mir.fin /\ (Over => Over')
        /\ mir'.state = "gone" => mir.state = "gone" \/ ~mir.fin
    BY <1>3, <1>a DEF Hold, Release, LeaseEnds, DeleteMirror, Expire, outside, Over, TypeOK
  <2>3. Enrolled' = Enrolled /\ (Working' => Working)
    BY <2>1, <2>2 DEF Enrolled, Working
  <2>4. Kept' /\ Staged' /\ Consumers' /\ OneAtATime' /\ Recorded'
    BY <2>1, <2>3 DEF MirrorInv, Data, Kept, Staged, Rooted, Consumers, Consumer, OneAtATime, Recorded, Reads
  <2>5. Pointers'
    BY <2>1, <2>2, <2>3 DEF MirrorInv, Data, Pointers
  <2>6. Place' /\ Complete' /\ Ready' /\ Alone'
    BY <2>1, <2>2, <2>3 DEF MirrorInv, Site, Place, Complete, Ready, Alone, Live, Reads
  <2>7. Steps'
    BY <2>1, <2>3 DEF MirrorInv, Site, Steps, Revision, Consumer
  <2> QED BY <2>4, <2>5, <2>6, <2>7 DEF Data, Site
<1> QED BY <1>1, <1>2, <1>3 DEF User

LEMMA EnvironmentStep == ASSUME MirrorInv, Environment PROVE Data' /\ Site'
<1> SUFFICES ASSUME NEW x \in Runs,
                    \/ Snapshot(x) \/ Unsnapshot(x) \/ Apply(x)
                    \/ CleanupGeneration(x) \/ CleanGuest(x) \/ EndChild(x)
             PROVE  Data' /\ Site'
  BY DEF Environment
<1>a. TypeOK
  BY DEF MirrorInv
<1>1. CASE Snapshot(x) \/ Unsnapshot(x)
  <2>1. UNCHANGED <<setting, past, mir, runs, par, rec, child, plan, imports, policy, volume, pc, cur, all>>
    BY <1>1 DEF Snapshot, Unsnapshot, Quiet, outside, locals
  <2>2. \A y \in Runs : /\ snap[y] = "ready" => snap'[y] = "ready"
                        /\ snap'[y] \notin {"none", "content"} => snap[y] \notin {"none", "content"}
    BY <1>1, <1>a DEF Snapshot, Unsnapshot, TypeOK
  <2>3. Harmless
    BY <2>1, <2>2 DEF Harmless, Reads, MirrorInv, Data, Recorded
  <2> QED BY <2>1, <2>3, WorldMoved
<1>2. CASE Apply(x) \/ CleanGuest(x) \/ EndChild(x)
  <2>1. UNCHANGED <<setting, past, mir, runs, par, rec, snap, imports, policy, pc, cur, all>>
    BY <1>2 DEF Apply, CleanGuest, EndChild, Engine, Quiet, outside, locals
  <2>2. /\ plan' \subseteq plan /\ \A y \in Runs : Reads(y)' => Reads(y)
        /\ \A y \in Runs : y \in volume' => Reads(y)'
    BY <1>2, <1>a DEF Apply, CleanGuest, EndChild, Reads, TypeOK, MirrorInv, Data, Recorded
  <2>3. Harmless
    BY <2>1, <2>2 DEF Harmless
  <2> QED BY <2>1, <2>3, WorldMoved
<1>3. CASE CleanupGeneration(x)
  <2> DEFINE new == [rec[x] EXCEPT !.volume = TRUE]
  <2>1. /\ SaveRun(x, new) /\ rec[x].exists /\ rec[x].child = "uid"
        /\ UNCHANGED <<mir, past>>
        /\ \/ pc # "idle" /\ Return
           \/ UNCHANGED <<pc, cur, all>>
    BY <1>3, Types, <1>a
       DEF CleanupGeneration, Engine, Quiet, Inventoried, SaveRun, Return, outside, world, locals,
           MirrorInv, Site, Place, Before
  <2>2. rec[x] \in Records
    BY <1>a, Types
  <2>3. x \in Enrolled
    BY <2>1, FreshRecord DEF MirrorInv, Data, Kept
  <2>4. Grows(x, new) /\ Fits(x, new)
    <3>1. Reads(x) /\ x \in volume
      BY <1>3 DEF CleanupGeneration, Reads
    <3>2. Grows(x, new)
      BY <2>1, <2>2, <2>3, VolumeSaved DEF Grows
    <3>3. /\ new.phase = rec[x].phase /\ new.child = rec[x].child /\ new.revision = rec[x].revision
          /\ new.volume
      BY <2>2, VolumeSaved
    <3>4. rec[x].phase # "Retained"
      BY <3>1 DEF MirrorInv, Data, Consumers, Consumer
    <3>5. /\ rec[x].phase \in {"Queued", "Capturing"} => rec[x].child = "none" /\ rec[x].revision = x
          /\ rec[x].phase \notin {"Queued", "Capturing", "Retained"} => Rooted(rec[x].revision)
      BY <2>1 DEF MirrorInv, Data, Staged
    <3>6. /\ x = par.active => rec[x].phase \in {"Active", "Retiring"}
          /\ x = par.pending /\ setting.provider = "helm" /\ par.active # 0 => rec[x].child # "uid"
      BY <1>a, <2>1, Types DEF MirrorInv, Data, Pointers
    <3> HIDE DEF new
    <3> QED BY <2>1, <3>2, <3>3, <3>4, <3>5, <3>6 DEF Fits
  <2>5. Onward
    BY <2>1, GoesOn DEF Onward, Working, Over
  <2>6. Data' /\ Complete' /\ Ready'
    BY <1>a, <2>1, <2>4, <2>5, RunSaved DEF MirrorInv, Site
  <2>7. Place' /\ Alone' /\ Steps'
    <3>1. CASE Return
      BY <3>1, Returned
    <3>2. CASE UNCHANGED <<pc, cur, all>>
      <4>1. /\ UNCHANGED <<mir, past, runs, par, child, plan, snap, policy>>
            /\ Enrolled' = Enrolled /\ Over' = Over
        BY <2>1 DEF SaveRun, outside, world, Enrolled, Over
      <4>2. \A y \in Runs : /\ rec[y].revision \in Runs
                            /\ rec'[y].exists = rec[y].exists /\ rec'[y].phase = rec[y].phase
                            /\ rec'[y].revision = rec[y].revision /\ rec'[y].child = rec[y].child
                            /\ rec'[y].captured = rec[y].captured
        BY <2>1, <1>a, Types, VolumeSaved DEF SaveRun, TypeOK
      <4>3. pc \notin Before => cur \in Runs
        BY <1>a, Types DEF MirrorInv, Site, Place
      <4>4. Place' /\ Alone'
        BY <3>2, <4>1, <4>2, <4>3 DEF MirrorInv, Site, Place, Alone, Reads
      <4>5. Steps'
        BY <3>2, <4>1, <4>2, <4>3, <1>a, Types DEF MirrorInv, Site, Steps, Revision, Consumer, Before
      <4> QED BY <4>4, <4>5
    <3> QED BY <2>1, <3>1, <3>2
  <2> QED BY <2>6, <2>7 DEF Site
<1> QED BY <1>1, <1>2, <1>3
-----------------------------------------------------------------------------
\* The reconcile up to collect.

LEMMA NothingMoved ==
  ASSUME MirrorInv, UNCHANGED <<setting, mir, runs, par, rec, world>>, Onward
  PROVE  Data' /\ Complete' /\ Ready'
BY RunsMoved DEF Reopens, MirrorInv, Data, Kept

LEMMA ReconcileStep ==
  ASSUME MirrorInv, AddFinalizer \/ FinishCleanup \/ Start \/ StartCleanup \/ EnrolDone \/ Crash
  PROVE  Data' /\ Site'
<1>a. TypeOK
  BY DEF MirrorInv
<1>b. pc \in Before /\ ~Over => Working
  BY DEF Working
<1>1. CASE AddFinalizer \/ FinishCleanup \/ Start
  <2>1. /\ UNCHANGED <<setting, past, runs, rec, child, plan, snap, imports, policy, volume, cur, all>>
        /\ par'.runs = par.runs /\ par'.active = par.active /\ par'.pending = par.pending
        /\ pc = "idle" /\ pc' \in {"idle", "enrol"}
    BY <1>1, <1>a DEF AddFinalizer, FinishCleanup, Start, SaveParent, Goto, outside, world, locals, TypeOK, Parents
  <2>2. Enrolled' = Enrolled
    BY <2>1 DEF Enrolled
  <2>3. Kept' /\ Staged' /\ Consumers' /\ OneAtATime' /\ Recorded'
    BY <2>1, <2>2 DEF MirrorInv, Data, Kept, Staged, Rooted, Consumers, Consumer, OneAtATime, Recorded, Reads
  <2>4. CASE AddFinalizer
    <3>1. UNCHANGED <<par, pc>> /\ mir'.fin /\ mir'.state = mir.state /\ Over' = Over
      BY <2>4, <1>a DEF AddFinalizer, locals, outside, Over, TypeOK
    <3>2. Pointers'
      BY <2>1, <2>2, <3>1 DEF MirrorInv, Data, Pointers
    <3>3. Site'
      BY <2>1, <3>1 DEF MirrorInv, Site, Place, Complete, Ready, Alone, Steps, Working, Live, Before, After
    <3> QED BY <2>3, <3>2, <3>3 DEF Data
  <2>5. CASE FinishCleanup
    <3>1. UNCHANGED <<par, pc>> /\ ~par.exists
      BY <2>5 DEF FinishCleanup, locals
    <3>2. par.active = 0 /\ par.pending = 0
      <4>1. Enrolled = {}
        BY <3>1 DEF MirrorInv, Data, Pointers, Enrolled, Range
      <4> QED BY <4>1 DEF MirrorInv, Data, Pointers
    <3>3. Pointers'
      BY <2>1, <2>2, <3>1, <3>2 DEF MirrorInv, Data, Pointers
    <3>4. Site'
      BY <2>1, <3>1, <3>2 DEF MirrorInv, Site, Place, Complete, Ready, Alone, Steps, Before, After
    <3> QED BY <2>3, <3>3, <3>4 DEF Data
  <2>6. CASE Start
    <3>1. /\ UNCHANGED mir /\ mir.state = "live" /\ mir.fin /\ ~Over /\ Over' = Over
          /\ par'.exists /\ pc' = "enrol"
      BY <2>6, <1>a DEF Start, SaveParent, Goto, outside, Over, TypeOK, Parents
    <3>2. Pointers'
      BY <2>1, <2>2, <3>1 DEF MirrorInv, Data, Pointers
    <3>3. Site'
      BY <2>1, <3>1 DEF MirrorInv, Site, Place, Complete, Ready, Alone, Steps, Working, Live, Before, After
    <3> QED BY <2>3, <3>2, <3>3 DEF Data
  <2> QED BY <1>1, <2>4, <2>5, <2>6
<1>2. CASE StartCleanup \/ EnrolDone \/ Crash
  <2>1. UNCHANGED <<setting, past, mir, runs, par, rec, world>>
    BY <1>2 DEF StartCleanup, EnrolDone, Crash, Nothing, outside
  <2>2. CASE StartCleanup
    <3>1. Over /\ Over' = Over /\ pc = "idle" /\ pc' = "enrol" /\ all' /\ cur' = cur /\ par.exists
      BY <2>1, <2>2 DEF StartCleanup, Over
    <3>2. Onward
      BY <3>1 DEF Onward, Working
    <3>3. Place' /\ Alone' /\ Steps'
      BY <2>1, <3>1 DEF MirrorInv, Site, Place, Alone, Steps, Before, After
    <3> QED BY <2>1, <3>2, <3>3, NothingMoved DEF Site
  <2>3. CASE EnrolDone
    <3>1. pc = "enrol" /\ pc' = "collect" /\ UNCHANGED <<cur, all>> /\ Over' = Over
      BY <2>1, <2>3 DEF EnrolDone, Goto, Over
    <3>2. Onward
      BY <2>1, <3>1, GoesOn
    <3>3. Place' /\ Alone' /\ Steps'
      BY <2>1, <3>1 DEF MirrorInv, Site, Place, Alone, Steps, Before, After
    <3> QED BY <2>1, <3>2, <3>3, NothingMoved DEF Site
  <2>4. CASE Crash
    BY <2>1, <2>4, GoesOn, Returned, NothingMoved DEF Crash, Site
  <2> QED BY <1>2, <2>2, <2>3, <2>4
<1> QED BY <1>1, <1>2

LEMMA EnrolStep == ASSUME MirrorInv, NEW x \in Runs, Enrol(x) PROVE Data' /\ Site'
<1>a. TypeOK /\ \A y \in Runs : rec[y].revision \in Runs
  BY Types DEF MirrorInv
<1>b. /\ x \notin Enrolled /\ runs[x].state \in {"live", "deleting"} /\ pc = "enrol"
      /\ UNCHANGED <<pc, cur, all>>
  BY DEF Enrol, ToEnrol, locals
<1>1. CASE ~runs[x].fin /\ SetRun(x, [runs[x] EXCEPT !.fin = TRUE])
  <2>1. ~rec[x].exists
    BY <1>1 DEF MirrorInv, Data, Kept
  <2>2. UNCHANGED <<setting, past, mir, par, rec, world>> /\ runs' = [runs EXCEPT ![x] = [runs[x] EXCEPT !.fin = TRUE]]
    BY <1>1 DEF SetRun, outside
  <2>3. \A y \in Runs : y # x => runs'[y] = runs[y]
    BY <2>2, <1>a DEF TypeOK
  <2>4. Reopens
    BY <1>b, <2>1, <2>3 DEF Reopens, MirrorInv, Data, Kept
  <2> QED BY <1>b, <2>2, <2>4, GoesOn, RunsMoved
<1>2. CASE runs[x].fin /\ ~rec[x].exists /\ SaveRun(x, NewRecord(x))
  <2>1. UNCHANGED <<setting, past, mir, runs, par, child, plan, snap, imports, policy, volume>>
    BY <1>2 DEF SaveRun, outside, world
  <2>2. rec'[x] = NewRecord(x) /\ \A y \in Runs : y # x => rec'[y] = rec[y]
    BY <1>2, <1>a DEF SaveRun, TypeOK
  <2>3. Enrolled' = Enrolled /\ Working' = Working /\ Over' = Over /\ \A y \in Runs : Reads(y)' = Reads(y)
    BY <1>b, <2>1 DEF Enrolled, Working, Over, Reads
  <2>4. ~Rooted(x) /\ x \notin plan /\ x \notin {par.active, par.pending}
    BY <1>a, <1>b, Types DEF Rooted, MirrorInv, Data, Consumers, Pointers
  <2>5. Kept'
    BY <1>b, <1>2, <2>1, <2>2, <2>3 DEF MirrorInv, Data, Kept
  <2>6. Staged'
    BY <1>a, <2>1, <2>2, <2>3, <2>4, FreshRecord DEF MirrorInv, Data, Staged, Rooted
  <2>7. Pointers'
    BY <1>a, <2>1, <2>2, <2>3, <2>4, Types DEF MirrorInv, Data, Pointers
  <2>8. Consumers'
    <3>1. \A y \in Runs : Reads(y) => y # x /\ rec[y].revision # x
      BY <1>2 DEF MirrorInv, Data, Consumers, Consumer
    <3> QED BY <1>a, <2>1, <2>2, <2>3, <2>4, <3>1, Types DEF MirrorInv, Data, Consumers, Consumer
  <2>9. OneAtATime' /\ Recorded'
    BY <1>2, <2>1, <2>2, <2>3 DEF MirrorInv, Data, OneAtATime, Recorded
  <2>10. Complete'
    BY <1>a, <1>2, <2>1, <2>2, <2>3, <2>4, Types DEF MirrorInv, Site, Complete
  <2>11. Ready'
    BY <1>a, <1>b, <2>1, <2>2, <2>3, <2>4, Types DEF MirrorInv, Site, Ready, Live
  <2>12. Place' /\ Alone' /\ Steps'
    BY <1>b, <2>1, <2>3 DEF MirrorInv, Site, Place, Alone, Steps, Before, After
  <2> QED BY <2>5, <2>6, <2>7, <2>8, <2>9, <2>10, <2>11, <2>12 DEF Data, Site
<1>3. CASE rec[x].exists /\ SaveParent([par EXCEPT !.runs = Append(@, x)])
  <2>1. /\ UNCHANGED <<setting, past, mir, runs, rec, child, plan, snap, imports, policy, volume>>
        /\ par'.exists = par.exists /\ par'.active = par.active /\ par'.pending = par.pending
        /\ par'.hold = par.hold /\ par'.runs = Append(par.runs, x)
    BY <1>3, <1>a DEF SaveParent, outside, world, TypeOK, Parents
  <2>2. Enrolled' = Enrolled \cup {x} /\ Working' = Working /\ Over' = Over /\ \A y \in Runs : Reads(y)' = Reads(y)
    BY <1>a, <1>b, <2>1, EnrolledAppended DEF Working, Over, Reads
  <2>3. par.exists
    BY <1>b DEF MirrorInv, Site, Place
  <2>4. Kept' /\ Staged'
    BY <2>1, <2>2 DEF MirrorInv, Data, Kept, Staged, Rooted
  <2>5. Pointers'
    BY <2>1, <2>2, <2>3 DEF MirrorInv, Data, Pointers
  <2>6. x \in plan => rec[x].child = "uid"
    BY <1>b DEF MirrorInv, Data, Consumers
  <2>7. Consumers'
    BY <2>1, <2>2, <2>6 DEF MirrorInv, Data, Consumers, Consumer
  <2>8. OneAtATime' /\ Recorded'
    BY <2>1, <2>2 DEF MirrorInv, Data, OneAtATime, Recorded
  <2>9. Site'
    BY <1>b, <2>1, <2>2, <2>3 DEF MirrorInv, Site, Place, Complete, Ready, Alone, Steps, Live, Before, After
  <2> QED BY <2>4, <2>5, <2>7, <2>8, <2>9 DEF Data
<1> QED BY <1>1, <1>2, <1>3 DEF Enrol
-----------------------------------------------------------------------------
\* collect.

\* A capture that collect does not keep is not that of a generation that reads
\* it, and not that of the active run: it is either counted as needed, or, when
\* everything goes, its turn comes after the generations'.
LEMMA NeededKept ==
  ASSUME MirrorInv, NEW x \in Focus, rec[x].exists, Retired(x), x \notin Keep
  PROVE  /\ \A y \in Runs : Reads(y) => rec[y].revision # x
         /\ Working /\ par.active # 0 => rec[par.active].revision # x
<1>a. TypeOK /\ Enrolled \subseteq Runs
  BY Types DEF MirrorInv
<1>b. x \in Due /\ x \in Enrolled
  BY DEF Focus, First, Due
<1>1. \A y \in Runs : Reads(y) => y \in Enrolled /\ ~Retired(y) /\ Consumer(y)
  BY FreshRecord DEF MirrorInv, Data, Consumers, Consumer, Kept, Reads, Retired
<1>2. ASSUME ~all, NEW y \in Enrolled, rec[y].exists, rec[y].phase \notin {"Queued", "Capturing", "Retained"},
             y = par.active \/ rec[y].child = "uid", rec[y].revision = x
      PROVE  FALSE
  <2>1. x \in Needed
    BY <1>2 DEF Needed
  <2>2. x \in Captures
    BY <1>a, <1>b, <1>2 DEF Captures, MirrorInv, Data, Staged, Rooted
  <2> QED BY <1>2, <2>1, <2>2 DEF Keep
<1>3. ASSUME NEW y \in Runs, Reads(y), rec[y].revision = x PROVE FALSE
  <2>1. CASE all
    <3>1. y \in Due
      BY <1>1, <1>3, <2>1 DEF Due, Settled, Skipped
    <3>2. x \in {z \in Due : rec[z].exists /\ ~Retired(z)}
      BY <1>1, <1>3, <2>1, <3>1 DEF Focus, First, Consumer
    <3> QED BY <3>2
  <2>2. CASE ~all
    BY <1>1, <1>2, <1>3, <2>2 DEF Consumer, MirrorInv, Data, Staged
  <2> QED BY <2>1, <2>2
<1>4. ASSUME Working, par.active # 0, rec[par.active].revision = x PROVE FALSE
  <2>1. ~all
    BY <1>4 DEF Working, MirrorInv, Site, Place
  <2>2. /\ par.active \in Enrolled /\ rec[par.active].exists
        /\ rec[par.active].phase \in {"Active", "Retiring"}
    BY <1>4 DEF MirrorInv, Site, Complete, Data, Pointers
  <2> QED BY <1>2, <1>4, <2>1, <2>2
<1> QED BY <1>3, <1>4

\* collect passes by the active run and a live candidate, unless all goes.
LEMMA FocusFree ==
  ASSUME MirrorInv, NEW x \in Focus
  PROVE  /\ x \in Enrolled /\ x \in Runs /\ x # 0
         /\ ~all /\ rec[x].exists => x # par.active /\ ~(x = par.pending /\ Live(x))
         /\ Working => ~all
<1>1. x \in Due
  BY DEF Focus, First
<1>2. Working => ~all
  BY DEF Working, MirrorInv, Site, Place
<1> QED BY <1>1, <1>2, Types DEF Due, Settled, Skipped, MirrorInv

LEMMA CollectStep == ASSUME MirrorInv, Collect PROVE Data' /\ Site'
<1>a. TypeOK /\ pc = "collect" /\ cur = 0 /\ par.exists
  BY DEF MirrorInv, Collect, Site, Place, Before
<1>b. \A y \in Runs : rec[y].revision \in Runs
  BY <1>a, Types
<1>1. CASE Due = {} /\ CollectDone
  <2>1. /\ ~all /\ UNCHANGED <<setting, past, mir, runs, par, rec, world, cur, all>> /\ pc' = "choose"
        /\ Over' = Over
    BY <1>1 DEF CollectDone, Nothing, Goto, outside, Over
  <2>2. Onward
    BY <1>a, <2>1, GoesOn
  <2>3. \A x \in Runs : Reads(x) => x \in {par.active, par.pending}
    <3> SUFFICES ASSUME NEW x \in Runs, Reads(x) PROVE x \in {par.active, par.pending}
      OBVIOUS
    <3>1. x \in Enrolled /\ rec[x].exists /\ rec[x].phase # "Queued" /\ ~Retired(x)
      BY FreshRecord DEF MirrorInv, Data, Consumers, Consumer, Kept, Staged, Reads, Retired
    <3> QED BY <1>1, <3>1 DEF Due, Settled, Skipped
  <2>4. Place' /\ Steps'
    BY <1>a, <2>1 DEF MirrorInv, Site, Place, Steps, Before
  <2>5. Alone'
    BY <2>1, <2>3 DEF Alone, Reads, world
  <2> QED BY <2>1, <2>2, <2>4, <2>5, NothingMoved DEF Site
<1>2. CASE Due = {} /\ DeleteRecord
  <2>1. Enrolled = {}
    BY <1>2 DEF DeleteRecord, Due, Settled, Skipped, Keep
  <2>2. /\ UNCHANGED <<setting, past, mir, runs, rec, child, plan, snap, imports, policy, volume>>
        /\ ~par'.exists /\ par'.runs = <<>> /\ par'.active = 0 /\ par'.pending = 0 /\ Return
    BY <1>2 DEF DeleteRecord, SaveParent, NoParent, outside, world
  <2>3. Enrolled' = {}
    BY <2>2 DEF Enrolled, Range
  <2>4. Kept' /\ Staged'
    BY <2>1, <2>2, <2>3 DEF MirrorInv, Data, Kept, Staged, Rooted
  <2>5. Pointers' /\ OneAtATime' /\ Recorded'
    BY <2>2, <2>3 DEF MirrorInv, Data, Pointers, OneAtATime, Recorded, Reads
  <2>6. Consumers'
    BY <2>1, <2>2, <2>3 DEF MirrorInv, Data, Consumers, Consumer, Reads
  <2>7. Complete' /\ Ready'
    BY <2>2 DEF Complete, Ready
  <2> QED BY <2>2, <2>4, <2>5, <2>6, <2>7, Returned DEF Data, Site
<1>3. ASSUME NEW x \in Focus, Retire(x) PROVE Data' /\ Site'
  <2>1. /\ UNCHANGED <<setting, past, mir, runs, par, rec, plan, snap, volume>> /\ Return
        /\ rec[x].exists /\ imports' \subseteq imports /\ policy \ {x} \subseteq policy' /\ policy' \subseteq policy
        /\ child' = child \/ (child[x] # "none" /\ child' = [child EXCEPT ![x] = "deleting"])
    BY <1>3 DEF Retire, Written, outside
  <2>2. Enrolled' = Enrolled /\ Over' = Over /\ (Working' => Working) /\ cur' = 0
    BY <1>a, <2>1, GoesOn DEF Enrolled, Over, Onward, Return
  <2>3. \A y \in Runs : Reads(y)' <=> Reads(y)
    BY <1>a, <2>1 DEF Reads, TypeOK
  <2>4. Kept' /\ Staged' /\ Pointers'
    BY <2>1, <2>2 DEF MirrorInv, Data, Kept, Staged, Rooted, Pointers
  <2>5. Consumers' /\ OneAtATime' /\ Recorded'
    BY <2>1, <2>2, <2>3 DEF MirrorInv, Data, Consumers, Consumer, OneAtATime, Recorded
  <2>6. Complete' /\ Ready'
    BY <1>a, <2>1, <2>2, FocusFree DEF MirrorInv, Site, Complete, Ready, Live
  <2> QED BY <2>1, <2>4, <2>5, <2>6, Returned DEF Data, Site
<1>4. ASSUME NEW x \in Focus, Retention(x) PROVE Data' /\ Site'
  <2> DEFINE new == [rec[x] EXCEPT !.phase = "Retained"]
  <2>1. /\ SaveRun(x, new) /\ UNCHANGED <<pc, cur, all>> /\ rec[x].exists /\ Retired(x) /\ x \in Keep
        /\ UNCHANGED <<past, mir, par>>
    BY <1>4 DEF Retention, SaveRun, outside, locals
  <2>2. x \in Enrolled /\ x \in Runs /\ rec[x] \in Records /\ x # par.active
    BY <1>a, <2>1, FocusFree, Types DEF Keep
  <2>3. /\ new \in Records /\ new.phase = "Retained" /\ new.exists = rec[x].exists
        /\ new.captured = rec[x].captured /\ new.revision = rec[x].revision /\ new.snap = rec[x].snap
        /\ new.import = rec[x].import /\ new.child = rec[x].child /\ new.policy = rec[x].policy
        /\ new.volume = rec[x].volume
    BY <2>2, PhaseSaved, PhaseNames
  <2> HIDE DEF new
  <2>4. ~Reads(x)
    BY <2>1, <2>2 DEF Reads, Retired, MirrorInv, Data, Consumers, Consumer
  <2>5. Grows(x, new)
    BY <2>1, <2>2, <2>3 DEF Grows
  <2>6. x = par.pending /\ setting.provider = "helm" /\ par.active # 0 => rec[x].child # "uid"
    BY <1>a, <2>2, Types DEF MirrorInv, Data, Pointers
  <2>7. Fits(x, new)
    BY <2>2, <2>3, <2>4, <2>6 DEF Fits
  <2>8. Onward
    BY <1>a, <2>1, GoesOn
  <2>9. Data' /\ Complete' /\ Ready'
    BY <1>a, <2>1, <2>2, <2>5, <2>7, <2>8, RunSaved DEF MirrorInv, Site
  <2>10. Place' /\ Alone' /\ Steps'
    BY <1>a, <2>1 DEF MirrorInv, Site, Place, Alone, Steps, Before, After, Over
  <2> QED BY <2>9, <2>10 DEF Site
<1>5. ASSUME NEW x \in Focus, DeleteCapture(x) PROVE Data' /\ Site'
  <2>1. /\ UNCHANGED <<setting, past, mir, runs, par, rec, child, plan, imports, policy, volume>> /\ Return
        /\ rec[x].exists /\ Retired(x) /\ x \notin Keep /\ ~Uncaptured(x)
    BY <1>5 DEF DeleteCapture, Written, outside
  <2>2. \A y \in Runs : y # x => snap'[y] = snap[y]
    BY <1>5, <1>a DEF DeleteCapture, TypeOK
  <2>3. Enrolled' = Enrolled /\ (Working' => Working) /\ cur' = 0 /\ \A y \in Runs : Reads(y)' <=> Reads(y)
    BY <1>a, <2>1, GoesOn DEF Enrolled, Onward, Return, Reads
  <2>4. Kept' /\ Staged' /\ Pointers' /\ OneAtATime'
    BY <2>1, <2>3 DEF MirrorInv, Data, Kept, Staged, Rooted, Pointers, OneAtATime
  <2>5. Consumers'
    BY <1>b, <2>1, <2>2, <2>3, NeededKept DEF MirrorInv, Data, Consumers, Consumer
  <2>6. Recorded'
    BY <2>1, <2>2, <2>3 DEF MirrorInv, Data, Recorded, Uncaptured
  <2>7. Complete' /\ Ready'
    BY <1>a, <2>1, <2>3 DEF MirrorInv, Site, Complete, Ready, Live
  <2> QED BY <2>1, <2>4, <2>5, <2>6, <2>7, Returned DEF Data, Site
<1>6. ASSUME NEW x \in Focus, Forget(x) PROVE Data' /\ Site'
  <2>1. /\ UNCHANGED <<setting, past, mir, runs, par, child, plan, snap, imports, policy, volume, pc, cur, all>>
        /\ rec[x].exists /\ Retired(x) /\ x \notin Keep /\ Uncaptured(x)
        /\ rec' = [rec EXCEPT ![x] = NoRecord(x)]
    BY <1>6 DEF Forget, SaveRun, outside, world, locals
  <2>2. x \in Enrolled /\ x \in Runs
    BY FocusFree
  <2>3. /\ rec'[x] = NoRecord(x) /\ ~rec'[x].exists /\ rec'[x].child = "none"
        /\ \A y \in Runs : y # x => rec'[y] = rec[y]
    BY <1>a, <2>1, <2>2, FreshRecord DEF TypeOK
  <2>4. /\ Enrolled' = Enrolled /\ Working' = Working /\ Over' = Over
        /\ \A y \in Runs : Reads(y)' <=> Reads(y)
    BY <2>1 DEF Enrolled, Working, Over, Reads
  <2>5. ~Reads(x)
    BY <2>1, <2>2 DEF Reads, Retired, MirrorInv, Data, Consumers, Consumer
  <2>6. Kept'
    BY <2>1, <2>3, <2>4 DEF MirrorInv, Data, Kept
  <2>7. Staged'
    BY <1>b, <2>1, <2>2, <2>3, <2>4 DEF MirrorInv, Data, Staged, Rooted
  <2>8. Pointers'
    BY <1>a, <2>1, <2>2, <2>3, <2>4, Types DEF MirrorInv, Data, Pointers
  <2>9. Consumers'
    BY <1>a, <1>b, <2>1, <2>2, <2>3, <2>4, <2>5, NeededKept, Types DEF MirrorInv, Data, Consumers, Consumer
  <2>10. OneAtATime'
    BY <2>1, <2>4 DEF MirrorInv, Data, OneAtATime
  <2>11. x \notin imports /\ x \notin policy /\ x \notin volume /\ snap[x] \in {"none", "content"}
    BY <2>1, <2>2, <2>5 DEF MirrorInv, Data, Recorded, Retired, Uncaptured
  <2>12. Recorded'
    BY <2>1, <2>3, <2>4, <2>11 DEF MirrorInv, Data, Recorded
  <2>13. Complete'
    BY <1>a, <1>b, <2>1, <2>2, <2>3, <2>4, FocusFree, NeededKept, Types DEF MirrorInv, Site, Complete
  <2>14. Ready'
    BY <1>a, <2>1, <2>2, <2>3, <2>4, Types DEF MirrorInv, Site, Ready, Live
  <2>15. Place' /\ Alone' /\ Steps'
    BY <1>a, <2>1, <2>4 DEF MirrorInv, Site, Place, Alone, Steps, Before, After
  <2> QED BY <2>6, <2>7, <2>8, <2>9, <2>10, <2>12, <2>13, <2>14, <2>15 DEF Data, Site
<1>7. ASSUME NEW x \in Focus, DropRequest(x) PROVE Data' /\ Site'
  <2>1. /\ UNCHANGED <<setting, past, mir, par, rec, world, pc, cur, all>> /\ ~rec[x].exists
        /\ runs[x].state # "gone" /\ \A y \in Runs : y # x => runs'[y] = runs[y]
    BY <1>7, <1>a DEF DropRequest, SetRun, outside, locals, TypeOK
  <2>2. Reopens
    BY <2>1 DEF Reopens, MirrorInv, Data, Kept
  <2> QED BY <1>a, <2>1, <2>2, GoesOn, RunsMoved
<1>8. ASSUME NEW x \in Focus, DropReference(x) PROVE Data' /\ Site'
  <2>1. /\ UNCHANGED <<setting, past, mir, runs, rec, child, plan, snap, imports, policy, volume>> /\ Return
        /\ ~rec[x].exists /\ runs[x].state = "gone"
        /\ par'.runs = Without(x) /\ par'.exists = par.exists
        /\ par'.active = (IF par.active = x THEN 0 ELSE par.active)
        /\ par'.pending = (IF par.pending = x THEN 0 ELSE par.pending)
    BY <1>8, <1>a DEF DropReference, SaveParent, outside, world, TypeOK, Parents
  <2>2. x \in Enrolled /\ x \in Runs /\ x # 0
    BY FocusFree
  <2>3. Enrolled' \subseteq Enrolled /\ Enrolled \ {x} \subseteq Enrolled'
    BY <1>a, <2>1, <2>2, EnrolledWithout DEF Enrolled
  <2>4. (Working' => Working) /\ cur' = 0 /\ \A y \in Runs : Reads(y)' <=> Reads(y)
    BY <1>a, <2>1, GoesOn DEF Onward, Return, Reads
  <2>5. Kept'
    BY <2>1, <2>3 DEF MirrorInv, Data, Kept
  <2>6. Staged'
    BY <1>b, <2>1, <2>3 DEF MirrorInv, Data, Staged, Rooted
  <2>7. Pointers'
    BY <1>a, <2>1, <2>2, <2>3 DEF MirrorInv, Data, Pointers
  <2>8. Consumers'
    BY <1>a, <2>1, <2>3, <2>4, Types DEF MirrorInv, Data, Consumers, Consumer
  <2>9. OneAtATime' /\ Recorded'
    BY <2>1, <2>4 DEF MirrorInv, Data, OneAtATime, Recorded
  <2>10. Complete' /\ Ready'
    BY <1>a, <2>1, <2>4 DEF MirrorInv, Site, Complete, Ready, Live
  <2> QED BY <2>1, <2>5, <2>6, <2>7, <2>8, <2>9, <2>10, Returned DEF Data, Site
<1> QED BY <1>1, <1>2, <1>3, <1>4, <1>5, <1>6, <1>7, <1>8 DEF Collect
-----------------------------------------------------------------------------
\* The candidate.

LEMMA AtCandidate ==
  ASSUME MirrorInv, pc \notin Before
  PROVE  /\ cur \in Runs /\ cur # 0 /\ cur = par.pending /\ cur # par.active /\ cur \in Enrolled
         /\ rec[cur] \in Records /\ rec[cur].exists /\ par.exists /\ ~all /\ Working /\ pc # "idle"
         /\ TypeOK /\ \A y \in Runs : rec[y] \in Records /\ rec[y].revision \in Runs
<1>1. cur # 0 /\ cur = par.pending /\ rec[cur].exists /\ ~all /\ pc # "idle" /\ par.exists
  BY DEF MirrorInv, Site, Place, Before
<1>2. cur # par.active /\ cur \in Enrolled
  BY <1>1 DEF MirrorInv, Data, Pointers
<1> QED BY <1>1, <1>2, Types DEF MirrorInv, Working

\* Its record is saved and the reconcile goes on or returns.
LEMMA CandidateSaved ==
  ASSUME MirrorInv, pc \notin Before, NEW new, Grows(cur, new), Fits(cur, new), SaveRun(cur, new),
         Return \/ (pc' \in After \ {"choose"} /\ UNCHANGED <<cur, all>>)
  PROVE  /\ Data' /\ Complete' /\ Ready' /\ Place' /\ Alone'
         /\ rec'[cur] = new /\ \A y \in Runs : rec[y].exists => rec'[y].exists
<1>a. /\ cur \in Runs /\ TypeOK /\ pc # "idle" /\ par.exists /\ cur # 0 /\ cur = par.pending /\ ~all
      /\ pc \in After
  BY AtCandidate DEF Before, After, TypeOK
<1>b. UNCHANGED <<past, mir, par, child, plan>> /\ rec'[cur] = new /\ new.exists
  BY <1>a DEF SaveRun, outside, world, TypeOK, Grows
<1>c. \A y \in Runs : rec[y].exists => rec'[y].exists
  BY <1>a, <1>b DEF SaveRun, TypeOK
<1>1. Onward
  BY <1>a, <1>b, GoesOn
<1>2. Data' /\ Complete' /\ Ready'
  BY <1>a, <1>1, RunSaved DEF MirrorInv, Site
<1>3. Place' /\ Alone'
  <2>1. CASE Return
    BY <2>1, Returned
  <2>2. CASE pc' \in After \ {"choose"} /\ UNCHANGED <<cur, all>>
    BY <1>a, <1>b, <2>2 DEF MirrorInv, Site, Place, Alone, Reads, Before, After
  <2> QED BY <2>1, <2>2
<1> QED BY <1>2, <1>3, <1>b, <1>c

\* Saving another phase of a candidate that is being restored.
LEMMA PhaseFits ==
  ASSUME MirrorInv, pc \notin Before, NEW p \in Phases,
         rec[cur].phase \notin {"Queued", "Capturing", "Retained"},
         p \in Restoring \cup {"AwaitingActivation", "Active"},
         p \in {"AwaitingActivation", "Active"} => rec[cur].child = "uid" /\ rec[cur].volume,
         p = "Active" => cur \in policy
  PROVE  LET new == [rec[cur] EXCEPT !.phase = p] IN
           Grows(cur, new) /\ Fits(cur, new) /\ new.phase = p /\ new.revision = rec[cur].revision
<1> DEFINE new == [rec[cur] EXCEPT !.phase = p]
<1>a. /\ cur \in Runs /\ cur # par.active /\ cur \in Enrolled /\ rec[cur].exists /\ cur = par.pending
      /\ rec[cur] \in Records
  BY AtCandidate
<1>b. /\ new \in Records /\ new.phase = p /\ new.exists = rec[cur].exists /\ new.captured = rec[cur].captured
      /\ new.revision = rec[cur].revision /\ new.snap = rec[cur].snap /\ new.import = rec[cur].import
      /\ new.child = rec[cur].child /\ new.policy = rec[cur].policy /\ new.volume = rec[cur].volume
  BY <1>a, PhaseSaved
<1> HIDE DEF new
<1>1. Rooted(rec[cur].revision)
  BY <1>a DEF MirrorInv, Data, Staged
<1>2. setting.provider = "helm" /\ par.active # 0 => rec[cur].child # "uid"
  BY <1>a, AtCandidate DEF MirrorInv, Data, Pointers
<1>3. Grows(cur, new)
  BY <1>a, <1>b DEF Grows
<1>4. Fits(cur, new)
  BY <1>a, <1>b, <1>1, <1>2 DEF Fits, Restoring
<1> QED BY <1>b, <1>3, <1>4 DEF new

\* Saving an entry of its record.
Entry(new) ==
  /\ new \in Records /\ new.exists = rec[cur].exists /\ new.phase = rec[cur].phase
  /\ new.captured = rec[cur].captured /\ new.revision = rec[cur].revision
  /\ rec[cur].volume => new.volume
  /\ rec[cur].phase # "Retained"
  /\ new.snap = rec[cur].snap \/ new.snap # "none"
  /\ new.import = rec[cur].import \/ new.import # "none"
  /\ new.policy = rec[cur].policy \/ new.policy # "none"
  /\ \/ new.child = rec[cur].child
     \/ /\ new.child # "none" /\ (rec[cur].child = "uid" => new.child = "uid")
        /\ rec[cur].phase \notin {"Queued", "Capturing"}
        /\ setting.provider = "helm" /\ par.active # 0 => new.child # "uid"

LEMMA EntryFits ==
  ASSUME MirrorInv, pc \notin Before, NEW new, Entry(new)
  PROVE  Grows(cur, new) /\ Fits(cur, new)
<1>a. /\ cur \in Runs /\ cur # par.active /\ cur \in Enrolled /\ rec[cur].exists /\ cur = par.pending
      /\ rec[cur] \in Records /\ cur # 0
  BY AtCandidate
<1>1. /\ rec[cur].phase \notin {"Queued", "Capturing"} => Rooted(rec[cur].revision)
      /\ rec[cur].phase \in {"Queued", "Capturing"} => rec[cur].child = "none" /\ rec[cur].revision = cur
      /\ rec[cur].phase \in {"AwaitingActivation", "Active"} => rec[cur].child = "uid" /\ rec[cur].volume
  BY <1>a DEF MirrorInv, Data, Staged, Entry
<1>2. setting.provider = "helm" /\ par.active # 0 => rec[cur].child # "uid"
  BY <1>a DEF MirrorInv, Data, Pointers
<1>3. Grows(cur, new)
  BY <1>a DEF Grows, Entry
<1>4. Fits(cur, new)
  BY <1>a, <1>1, <1>2 DEF Fits, Entry
<1> QED BY <1>3, <1>4
LEMMA ChooseStep ==
  ASSUME MirrorInv, \/ Choose \/ Wait \/ \E x \in Runs : Schedule(x) \/ Enter(x) \/ Accept(x)
  PROVE  Data' /\ Site'
<1>a. TypeOK /\ \A y \in Runs : rec[y].revision \in Runs
  BY Types DEF MirrorInv
<1>1. CASE Choose
  <2>1. PICK x \in First(Queue) : SaveParent([par EXCEPT !.pending = x])
    BY <1>1 DEF Choose
  <2>2. /\ x \in Enrolled /\ x \in Runs /\ x # 0 /\ rec[x].exists /\ rec[x].phase = "Queued"
    BY <1>a, Types DEF First, Queue
  <2>3. /\ UNCHANGED <<setting, past, mir, runs, rec, child, plan, snap, imports, policy, volume, pc, cur, all>>
        /\ par'.exists = par.exists /\ par'.runs = par.runs /\ par'.active = par.active /\ par'.pending = x
        /\ pc = "choose" /\ par.pending = 0
    BY <1>1, <2>1, <1>a DEF Choose, SaveParent, outside, world, locals, TypeOK, Parents
  <2>4. /\ Enrolled' = Enrolled /\ Working' = Working /\ Over' = Over
        /\ \A y \in Runs : Reads(y)' <=> Reads(y)
    BY <2>3 DEF Enrolled, Working, Over, Reads
  <2>5. x # par.active /\ rec[x].child = "none"
    BY <2>2 DEF MirrorInv, Data, Pointers, Staged
  <2>6. Kept' /\ Staged' /\ Consumers' /\ OneAtATime' /\ Recorded'
    BY <2>3, <2>4 DEF MirrorInv, Data, Kept, Staged, Rooted, Consumers, Consumer, OneAtATime, Recorded
  <2>7. Pointers'
    BY <2>2, <2>3, <2>4, <2>5 DEF MirrorInv, Data, Pointers
  <2>8. Place' /\ Complete' /\ Ready' /\ Steps'
    BY <2>2, <2>3, <2>4 DEF MirrorInv, Site, Place, Complete, Ready, Steps, Before
  <2>9. Alone'
    BY <1>a, <2>3, <2>4, Types DEF MirrorInv, Site, Alone, After
  <2> QED BY <2>6, <2>7, <2>8, <2>9 DEF Data, Site
<1>2. CASE Wait
  <2>1. UNCHANGED <<setting, past, mir, runs, par, rec, world>> /\ Return
    BY <1>2 DEF Wait, Nothing, outside
  <2> QED BY <2>1, GoesOn, Returned, NothingMoved DEF Site
<1>3. ASSUME NEW x \in Runs, Schedule(x) PROVE Data' /\ Site'
  <2>1. /\ UNCHANGED <<setting, past, mir, par, rec, world>> /\ Return /\ runs[x].state = "new"
        /\ \A y \in Runs : y # x => runs'[y] = runs[y]
    BY <1>3, <1>a DEF Schedule, SetRun, Fresh, outside, TypeOK
  <2>2. Reopens
    BY <2>1 DEF Reopens, MirrorInv, Data, Kept
  <2> QED BY <2>1, <2>2, GoesOn, RunsMoved, Returned DEF Site
<1>4. ASSUME NEW x \in Runs, Enter(x) PROVE Data' /\ Site'
  <2>1. /\ UNCHANGED <<setting, past, mir, runs, par, rec, child, plan, snap, imports, policy, volume, all>>
        /\ pc = "choose" /\ pc' = "advance" /\ x = par.pending /\ cur' = x /\ rec[x].exists /\ Live(x) /\ x # 0
    BY <1>4, <1>a, Types DEF Enter, Nothing, outside, world
  <2>2. /\ Enrolled' = Enrolled /\ Over' = Over /\ ~all /\ (Working' => Working)
        /\ \A y \in Runs : Reads(y)' <=> Reads(y)
    BY <2>1 DEF Enrolled, Over, Reads, Working, MirrorInv, Site, Place
  <2>3. Data'
    BY <2>1, <2>2 DEF MirrorInv, Data, Kept, Staged, Rooted, Pointers, Consumers, Consumer, OneAtATime, Recorded
  <2>4. Place' /\ Alone' /\ Steps'
    BY <2>1, <2>2 DEF MirrorInv, Site, Place, Alone, Steps, Before, After
  <2>5. Complete' /\ Ready'
    BY <2>1, <2>2 DEF MirrorInv, Site, Complete, Ready, Live
  <2> QED BY <2>3, <2>4, <2>5 DEF Site
<1>5. ASSUME NEW x \in Runs, Accept(x) PROVE Data' /\ Site'
  <2>1. /\ UNCHANGED <<setting, past, mir, rec, child, plan, snap, imports, policy, volume, cur, all>>
        /\ pc = "advance" /\ pc' = "accept"
        /\ x = cur /\ rec[cur].phase = "Queued" /\ (runs[cur].action = "Reset" => Revision(cur))
        /\ par' = [par EXCEPT !.synced = TRUE]
        /\ runs' = [y \in Runs |-> [runs[y] EXCEPT !.tag = FALSE]]
    BY <1>5 DEF Accept, Advance, Goto, outside, world
  <2>2. pc \notin Before
    BY <2>1 DEF Before
  <2>3. \A y \in Runs : /\ runs'[y].state = runs[y].state /\ runs'[y].fin = runs[y].fin
                        /\ runs'[y].action = runs[y].action /\ runs'[y].from = runs[y].from
                        /\ runs'[y].force = runs[y].force
    BY <2>1, <1>a DEF TypeOK, Requests
  <2>4. Reopens
    BY <2>3 DEF Reopens, MirrorInv, Data, Kept
  <2>5. Onward
    BY <2>1, GoesOn
  <2>6. Data' /\ Complete' /\ Ready'
    BY <2>1, <2>4, <2>5, RunsMoved DEF world
  <2>7. /\ par'.exists = par.exists /\ par'.runs = par.runs /\ par'.active = par.active
        /\ par'.pending = par.pending /\ Enrolled' = Enrolled
    BY <2>1, <1>a DEF TypeOK, Parents, Enrolled
  <2>8. Place' /\ Alone'
    BY <2>1, <2>2, <2>7, AtCandidate DEF MirrorInv, Site, Place, Alone, Reads, Before, After
  <2>9. Steps'
    BY <2>1, <2>2, <2>3, <2>7, AtCandidate DEF Steps, Revision
  <2> QED BY <2>6, <2>8, <2>9 DEF Site
<1> QED BY <1>1, <1>2, <1>3, <1>4, <1>5

\* Objects are created after their intent is saved.
LEMMA CreateStep ==
  ASSUME MirrorInv, NEW x \in Runs, CreateCapture(x) \/ CreateImport(x) \/ CreateChild(x)
  PROVE  Data' /\ Site'
<1>1. pc = "advance" /\ pc \notin Before /\ x = cur
  BY DEF CreateCapture, CreateImport, CreateChild, Provision, Imported, Restore, Advance, Before
<1>a. TypeOK /\ rec[x].exists
  BY <1>1, AtCandidate
<1>b. UNCHANGED <<setting, past, mir, runs, par, rec, plan, policy, volume, pc, cur, all>>
  BY DEF CreateCapture, CreateImport, CreateChild, Written, outside, locals
<1>2. CASE CreateCapture(x)
  <2>1. UNCHANGED <<child, imports>> /\ rec[x].snap = "intent" /\ snap[x] = "none"
    BY <1>2 DEF CreateCapture
  <2>2. snap'[x] = "new" /\ \A y \in Runs : y # x => snap'[y] = snap[y]
    BY <1>2, <1>a DEF CreateCapture, TypeOK
  <2>3. Harmless
    BY <1>a, <1>b, <2>1, <2>2 DEF Harmless, Reads, MirrorInv, Data, Recorded
  <2> QED BY <1>b, <2>3, WorldMoved
<1>3. CASE CreateImport(x)
  <2>1. UNCHANGED <<child, snap>> /\ rec[x].import = "intent" /\ imports' = imports \cup {x}
    BY <1>3 DEF CreateImport
  <2>2. Harmless
    BY <1>a, <1>b, <2>1 DEF Harmless, Reads, MirrorInv, Data, Recorded
  <2> QED BY <1>b, <2>2, WorldMoved
<1>4. CASE CreateChild(x)
  <2>1. UNCHANGED <<snap, imports>> /\ rec[x].child = "intent" /\ child[x] = "none"
    BY <1>4 DEF CreateChild
  <2>2. \A y \in Runs : y # x => child'[y] = child[y]
    BY <1>4, <1>a DEF CreateChild, TypeOK
  <2>3. x \notin plan
    BY <1>a, <2>1 DEF MirrorInv, Data, Consumers, Kept
  <2>4. \A y \in Runs : Reads(y)' <=> Reads(y)
    BY <1>b, <2>2, <2>3 DEF Reads
  <2>5. Harmless
    BY <1>b, <2>1, <2>4 DEF Harmless, MirrorInv, Data, Recorded
  <2> QED BY <1>b, <2>5, WorldMoved
<1> QED BY <1>2, <1>3, <1>4
\* A run is accepted and captured.
LEMMA CaptureStep ==
  ASSUME MirrorInv, \/ Accepted \/ \E x \in Runs : RecordCapture(x) \/ Captured(x)
  PROVE  Data' /\ Site'
<1>1. CASE Accepted
  <2>a. pc = "accept" /\ pc \notin Before /\ Return
    BY <1>1 DEF Accepted, Before
  <2>b. /\ cur \in Runs /\ cur # par.active /\ cur \in Enrolled /\ rec[cur].exists /\ rec[cur] \in Records
        /\ rec[cur].phase = "Queued" /\ rec[cur].child = "none" /\ rec[cur].revision = cur
    BY <2>a, AtCandidate DEF MirrorInv, Site, Steps, Data, Staged
  <2>1. ASSUME NEW new, SaveRun(cur, new), Grows(cur, new), Fits(cur, new) PROVE Data' /\ Site'
    BY <2>a, <2>1, CandidateSaved, Returned DEF Site
  <2>2. CASE runs[cur].action = "Reset"
    <3> DEFINE from == runs[cur].from
    <3> DEFINE new == [rec[cur] EXCEPT !.revision = from, !.captured = TRUE, !.phase = "Restoring"]
    <3>1. from \in Enrolled /\ from \in Runs /\ Rooted(from)
      <4>1. Revision(cur) /\ Enrolled \subseteq Runs
        BY <2>a, <2>2, AtCandidate, Types DEF MirrorInv, Site, Steps
      <4> QED BY <4>1 DEF Revision, Rooted
    <3> HIDE DEF from
    <3>2. /\ new \in Records /\ new.snap = rec[cur].snap /\ new.phase = "Restoring" /\ new.exists = rec[cur].exists
          /\ new.captured /\ new.revision = from /\ new.import = rec[cur].import
          /\ new.child = rec[cur].child /\ new.policy = rec[cur].policy /\ new.volume = rec[cur].volume
      BY <2>b, <3>1 DEF Records, Phases
    <3>3. SaveRun(cur, new)
      BY <1>1, <2>2 DEF Accepted, from
    <3> HIDE DEF new
    <3>4. Grows(cur, new) /\ Fits(cur, new)
      BY <2>b, <3>1, <3>2 DEF Grows, Fits
    <3> QED BY <2>1, <3>3, <3>4
  <2>3. CASE runs[cur].action # "Reset"
    <3> DEFINE new == [rec[cur] EXCEPT !.snap = "intent", !.phase = "Capturing"]
    <3>1. /\ new \in Records /\ new.snap = "intent" /\ new.phase = "Capturing" /\ new.exists = rec[cur].exists
          /\ new.captured = rec[cur].captured /\ new.revision = rec[cur].revision /\ new.import = rec[cur].import
          /\ new.child = rec[cur].child /\ new.policy = rec[cur].policy /\ new.volume = rec[cur].volume
      BY <2>b DEF Records, Phases
    <3>2. SaveRun(cur, new)
      BY <1>1, <2>3 DEF Accepted
    <3> HIDE DEF new
    <3>3. Grows(cur, new) /\ Fits(cur, new)
      BY <2>b, <3>1 DEF Grows, Fits
    <3> QED BY <2>1, <3>2, <3>3
  <2> QED BY <2>2, <2>3
<1>2. ASSUME NEW x \in Runs, RecordCapture(x) PROVE Data' /\ Site'
  <2>1. pc = "advance" /\ pc \notin Before /\ x = cur /\ rec[cur].phase = "Capturing" /\ UNCHANGED <<pc, cur, all>>
    BY <1>2 DEF RecordCapture, Advance, Before, locals
  <2>2. PICK k \in {"uid", "content"} : SaveRun(cur, [rec[cur] EXCEPT !.snap = k])
    BY <1>2, <2>1 DEF RecordCapture
  <2> DEFINE new == [rec[cur] EXCEPT !.snap = k]
  <2>3. /\ new \in Records /\ new.snap = k /\ new.phase = rec[cur].phase /\ new.exists = rec[cur].exists
        /\ new.captured = rec[cur].captured /\ new.revision = rec[cur].revision /\ new.import = rec[cur].import
        /\ new.child = rec[cur].child /\ new.policy = rec[cur].policy /\ new.volume = rec[cur].volume
    <3>1. rec[cur] \in Records
      BY <2>1, AtCandidate
    <3> QED BY <3>1 DEF Records
  <2>4. SaveRun(cur, new)
    BY <2>2
  <2> HIDE DEF new
  <2>5. Grows(cur, new) /\ Fits(cur, new)
    <3>1. Entry(new)
      BY <2>1, <2>3 DEF Entry
    <3> QED BY <2>1, <3>1, EntryFits
  <2>6. Data' /\ Complete' /\ Ready' /\ Place' /\ Alone'
    BY <2>1, <2>4, <2>5, CandidateSaved DEF After
  <2> QED BY <2>1, <2>6 DEF Site, Steps
<1>3. ASSUME NEW x \in Runs, Captured(x) PROVE Data' /\ Site'
  <2> DEFINE new == [rec[cur] EXCEPT !.captured = TRUE, !.phase = "Restoring"]
  <2>1. pc \notin Before /\ x = cur /\ rec[cur].phase = "Capturing" /\ Return /\ SaveRun(cur, new)
    BY <1>3 DEF Captured, Advance, Before
  <2>2. /\ cur \in Runs /\ cur # par.active /\ cur \in Enrolled /\ rec[cur].exists /\ rec[cur] \in Records
        /\ rec[cur].child = "none" /\ rec[cur].revision = cur
    BY <2>1, AtCandidate DEF MirrorInv, Data, Staged
  <2>3. /\ new \in Records /\ new.snap = rec[cur].snap /\ new.phase = "Restoring" /\ new.exists = rec[cur].exists
        /\ new.captured /\ new.revision = rec[cur].revision /\ new.import = rec[cur].import
        /\ new.child = rec[cur].child /\ new.policy = rec[cur].policy /\ new.volume = rec[cur].volume
    BY <2>2 DEF Records, Phases
  <2> HIDE DEF new
  <2>4. Grows(cur, new) /\ Fits(cur, new)
    BY <2>2, <2>3 DEF Grows, Fits
  <2> QED BY <2>1, <2>4, CandidateSaved, Returned DEF Site
<1> QED BY <1>1, <1>2, <1>3

\* Its capture is imported, the place for its generation is made free.
LEMMA RestoreStep ==
  ASSUME MirrorInv, NEW x \in Runs,
         RecordImport(x) \/ AwaitReplacement(x) \/ Replace(x) \/ Resume(x) \/ IntendChild(x) \/ FindChild(x)
  PROVE  Data' /\ Site'
<1>a. pc = "advance" /\ pc \notin Before /\ x = cur /\ rec[cur].phase \in Restoring /\ rec[rec[cur].revision].exists
  BY DEF RecordImport, AwaitReplacement, Replace, Resume, IntendChild, FindChild, Provision, Imported, Restore,
         Advance, Before
<1>b. /\ cur \in Runs /\ cur = par.pending /\ cur # 0 /\ rec[cur] \in Records /\ rec[cur].revision \in Runs
      /\ rec[cur].phase \notin {"Queued", "Capturing", "Retained"}
  BY <1>a, AtCandidate DEF Restoring
<1>1. CASE RecordImport(x)
  <2>1. PICK k \in {"intent", "uid"} : SaveRun(cur, [rec[cur] EXCEPT !.import = k])
    BY <1>1, <1>a DEF RecordImport
  <2> DEFINE new == [rec[cur] EXCEPT !.import = k]
  <2>2. /\ new \in Records /\ new.import = k /\ new.phase = rec[cur].phase /\ new.exists = rec[cur].exists
        /\ new.captured = rec[cur].captured /\ new.revision = rec[cur].revision /\ new.snap = rec[cur].snap
        /\ new.child = rec[cur].child /\ new.policy = rec[cur].policy /\ new.volume = rec[cur].volume
    BY <1>b DEF Records
  <2>3. SaveRun(cur, new) /\ UNCHANGED <<pc, cur, all>>
    BY <1>1, <2>1 DEF RecordImport, locals
  <2> HIDE DEF new
  <2>4. Grows(cur, new) /\ Fits(cur, new)
    <3>1. Entry(new)
      BY <1>b, <2>2 DEF Entry
    <3> QED BY <1>a, <3>1, EntryFits
  <2>5. Data' /\ Complete' /\ Ready' /\ Place' /\ Alone'
    BY <1>a, <2>3, <2>4, CandidateSaved DEF After
  <2> QED BY <1>a, <2>3, <2>5 DEF Site, Steps
<1>2. CASE AwaitReplacement(x) \/ Replace(x) \/ Resume(x)
  <2>1. PICK p \in Restoring : SaveRun(cur, [rec[cur] EXCEPT !.phase = p])
    BY <1>2, <1>a DEF AwaitReplacement, Replace, Resume, Restoring
  <2> DEFINE new == [rec[cur] EXCEPT !.phase = p]
  <2>2. Grows(cur, new) /\ Fits(cur, new)
    BY <1>a, <1>b, PhaseFits, PhaseNames DEF Restoring
  <2>3. SaveRun(cur, new) /\ UNCHANGED <<runs, par>>
    BY <2>1 DEF SaveRun
  <2> HIDE DEF new
  <2>4. \/ Return
        \/ pc' = "advance" /\ UNCHANGED <<cur, all>>
        \/ pc' = "retire" /\ UNCHANGED <<cur, all>> /\ par.active # 0 /\ (par.hold => runs[cur].force)
    BY <1>2, <1>a DEF AwaitReplacement, Replace, Resume, Goto, locals, Occupied, Leased
  <2>5. Data' /\ Complete' /\ Ready' /\ Place' /\ Alone'
    BY <1>a, <2>2, <2>3, <2>4, CandidateSaved DEF After
  <2>6. Steps'
    BY <2>3, <2>4, Returned DEF Steps
  <2> QED BY <2>5, <2>6 DEF Site
<1>3. CASE IntendChild(x) \/ FindChild(x)
  <2>1. PICK k \in {"intent", "uid"} :
          /\ SaveRun(cur, [rec[cur] EXCEPT !.child = k])
          /\ \/ k = "intent" /\ rec[cur].child = "none" /\ UNCHANGED <<pc, cur, all>>
             \/ k = "uid" /\ pc' = "generate" /\ UNCHANGED <<cur, all>>
    BY <1>3, <1>a DEF IntendChild, FindChild, Goto, locals
  <2>2. /\ ~Occupied(cur) /\ rec[cur].phase = "Restoring" /\ snap[rec[cur].revision] = "ready"
    BY <1>3, <1>a DEF IntendChild, FindChild, Provision, Imported, Available
  <2>3. setting.provider = "helm" /\ par.active # 0 => k # "uid"
    BY <1>b, <2>1, <2>2 DEF Occupied, MirrorInv, Data, Pointers
  <2> DEFINE new == [rec[cur] EXCEPT !.child = k]
  <2>4. /\ new \in Records /\ new.child = k /\ new.phase = rec[cur].phase /\ new.exists = rec[cur].exists
        /\ new.captured = rec[cur].captured /\ new.revision = rec[cur].revision /\ new.snap = rec[cur].snap
        /\ new.import = rec[cur].import /\ new.policy = rec[cur].policy /\ new.volume = rec[cur].volume
    BY <1>b DEF Records
  <2>5. SaveRun(cur, new)
    BY <2>1
  <2> HIDE DEF new
  <2>6. Grows(cur, new) /\ Fits(cur, new)
    <3>1. Entry(new)
      BY <1>b, <2>1, <2>3, <2>4 DEF Entry
    <3> QED BY <1>a, <3>1, EntryFits
  <2>7. /\ Data' /\ Complete' /\ Ready' /\ Place' /\ Alone'
        /\ rec'[cur] = new /\ \A y \in Runs : rec[y].exists => rec'[y].exists
    BY <1>a, <2>1, <2>5, <2>6, CandidateSaved DEF After
  <2>8. UNCHANGED snap
    BY <2>5 DEF SaveRun, world
  <2>9. Steps'
    BY <1>a, <1>b, <2>1, <2>2, <2>4, <2>7, <2>8, AtCandidate DEF Steps, Consumer
  <2> QED BY <2>7, <2>9 DEF Site
<1> QED BY <1>1, <1>2, <1>3
\* The generation is isolated, planned and waited for.
LEMMA GenerateStep ==
  ASSUME MirrorInv, NEW x \in Runs, Isolate(x) \/ SavePlan(x) \/ RecordVolume(x) \/ Restored(x)
  PROVE  Data' /\ Site'
<1>a. pc = "generate" /\ pc \notin Before /\ x = cur
  BY DEF Isolate, SavePlan, RecordVolume, Restored, Before
<1>b. /\ cur \in Runs /\ cur = par.pending /\ cur # 0 /\ cur \in Enrolled /\ rec[cur] \in Records
      /\ rec[cur].revision \in Runs /\ rec[cur].exists /\ TypeOK
  BY <1>a, AtCandidate
<1>c. rec[cur].phase = "Restoring" /\ Consumer(cur)
  BY <1>a DEF MirrorInv, Site, Steps
<1>1. ASSUME NEW new, Entry(new), SaveRun(cur, new), UNCHANGED <<pc, cur, all>> PROVE Data' /\ Site'
  <2>1. Grows(cur, new) /\ Fits(cur, new)
    BY <1>a, <1>1, EntryFits
  <2>2. /\ Data' /\ Complete' /\ Ready' /\ Place' /\ Alone'
        /\ rec'[cur] = new /\ \A y \in Runs : rec[y].exists => rec'[y].exists
    BY <1>a, <1>1, <2>1, CandidateSaved DEF After
  <2>3. Steps'
    BY <1>a, <1>b, <1>c, <1>1, <2>1, <2>2 DEF Steps, Consumer, Grows, Entry, SaveRun, world
  <2> QED BY <2>2, <2>3 DEF Site
<1>2. CASE Isolate(x)
  <2>1. UNCHANGED <<pc, cur, all>>
    BY <1>2 DEF Isolate, locals
  <2>2. ASSUME NEW k \in {"intent", "uid"}, SaveRun(cur, [rec[cur] EXCEPT !.policy = k]) PROVE Data' /\ Site'
    <3> DEFINE new == [rec[cur] EXCEPT !.policy = k]
    <3>1. /\ new \in Records /\ new.policy = k /\ new.phase = rec[cur].phase /\ new.exists = rec[cur].exists
          /\ new.captured = rec[cur].captured /\ new.revision = rec[cur].revision /\ new.snap = rec[cur].snap
          /\ new.import = rec[cur].import /\ new.child = rec[cur].child /\ new.volume = rec[cur].volume
      BY <1>b DEF Records
    <3>2. SaveRun(cur, new)
      BY <2>2
    <3> HIDE DEF new
    <3>3. Entry(new)
      BY <1>c, <3>1 DEF Entry
    <3> QED BY <1>1, <2>1, <3>2, <3>3
  <2>3. CASE rec[x].policy = "intent" /\ policy' = policy \cup {x} /\ Written
             /\ UNCHANGED <<child, plan, snap, imports, volume>>
    <3>1. UNCHANGED <<setting, past, mir, runs, par, rec>>
      BY <2>3 DEF Written, outside
    <3>2. Harmless
      BY <1>a, <1>b, <2>3, <3>1 DEF Harmless, Reads, MirrorInv, Data, Recorded
    <3> QED BY <2>1, <3>1, <3>2, WorldMoved
  <2> QED BY <1>2, <1>a, <2>2, <2>3 DEF Isolate
<1>3. CASE RecordVolume(x)
  <2> DEFINE new == [rec[cur] EXCEPT !.volume = TRUE]
  <2>1. /\ new \in Records /\ new.volume /\ new.phase = rec[cur].phase /\ new.exists = rec[cur].exists
        /\ new.captured = rec[cur].captured /\ new.revision = rec[cur].revision /\ new.snap = rec[cur].snap
        /\ new.import = rec[cur].import /\ new.child = rec[cur].child /\ new.policy = rec[cur].policy
    BY <1>b DEF Records
  <2>2. SaveRun(cur, new) /\ UNCHANGED <<pc, cur, all>>
    BY <1>3, <1>a DEF RecordVolume, locals
  <2> HIDE DEF new
  <2>3. Entry(new)
    BY <1>c, <2>1 DEF Entry
  <2> QED BY <1>1, <2>2, <2>3
<1>4. CASE Restored(x)
  <2>1. /\ SaveRun(cur, [rec[cur] EXCEPT !.phase = "AwaitingActivation"]) /\ Return
        /\ rec[cur].volume /\ rec[cur].child = "uid"
    BY <1>4, <1>a, <1>c DEF Restored, Consumer
  <2>2. LET new == [rec[cur] EXCEPT !.phase = "AwaitingActivation"] IN Grows(cur, new) /\ Fits(cur, new)
    BY <1>a, <1>c, <2>1, PhaseFits, PhaseNames
  <2> QED BY <1>a, <2>1, <2>2, CandidateSaved, Returned DEF Site
<1>5. CASE SavePlan(x)
  <2>1. /\ UNCHANGED <<setting, past, mir, runs, par, rec, child, snap, imports, policy, volume>> /\ Return
        /\ plan' = plan \cup {cur}
    BY <1>5, <1>a DEF SavePlan, Written, outside
  <2>2. Enrolled' = Enrolled /\ (Working' => Working) /\ cur' = 0
    BY <1>a, <2>1, GoesOn DEF Enrolled, Onward, Return
  <2>3. \A y \in Runs : (Reads(y)' => Reads(y) \/ y = cur) /\ (Reads(y) => Reads(y)')
    BY <2>1 DEF Reads
  <2>4. Kept' /\ Staged' /\ Pointers'
    BY <2>1, <2>2 DEF MirrorInv, Data, Kept, Staged, Rooted, Pointers
  <2>5. Consumers'
    BY <1>b, <1>c, <2>1, <2>2, <2>3 DEF MirrorInv, Data, Consumers, Consumer
  <2>6. setting.provider = "helm" => \A y \in Runs : Reads(y) => y = cur
    <3>1. \A y \in Runs : Reads(y) => y \in {par.active, cur}
      BY <1>a, <1>b DEF MirrorInv, Site, Alone, After
    <3>2. setting.provider = "helm" => par.active = 0
      BY <1>b, <1>c DEF Consumer, MirrorInv, Data, Pointers
    <3> QED BY <1>b, <3>1, <3>2, Types
  <2>7. OneAtATime'
    BY <2>1, <2>3, <2>6 DEF OneAtATime
  <2>8. Recorded'
    BY <2>1, <2>3 DEF MirrorInv, Data, Recorded
  <2>9. Complete' /\ Ready'
    BY <1>a, <1>b, <2>1, <2>2 DEF MirrorInv, Site, Complete, Ready, Live
  <2> QED BY <2>1, <2>4, <2>5, <2>7, <2>8, <2>9, Returned DEF Data, Site
<1> QED BY <1>2, <1>3, <1>4, <1>5

\* The old generation is marked, in either way of replacing it.
LEMMA RetiringSaved ==
  ASSUME MirrorInv, pc \notin Before, par.active # 0,
         SaveRun(par.active, [rec[par.active] EXCEPT !.phase = "Retiring"]), UNCHANGED <<cur, all>>
  PROVE  /\ Data' /\ Complete' /\ Ready'
         /\ rec'[cur] = rec[cur] /\ \A y \in Runs : rec[y].exists => rec'[y].exists
<1> DEFINE a == par.active
<1>a. /\ a \in Runs /\ a \in Enrolled /\ rec[a] \in Records /\ rec[a].exists /\ a # cur /\ a # par.pending
      /\ rec[a].phase \in {"Active", "Retiring"} /\ Rooted(rec[a].revision)
      /\ cur \in Runs /\ TypeOK
  BY AtCandidate, Types DEF MirrorInv, Site, Complete, Data, Pointers, Staged
<1> DEFINE new == [rec[a] EXCEPT !.phase = "Retiring"]
<1>1. /\ new \in Records /\ new.phase = "Retiring" /\ new.exists = rec[a].exists /\ new.captured = rec[a].captured
      /\ new.revision = rec[a].revision /\ new.snap = rec[a].snap /\ new.import = rec[a].import
      /\ new.child = rec[a].child /\ new.policy = rec[a].policy /\ new.volume = rec[a].volume
  BY <1>a DEF Records, Phases
<1>2. SaveRun(a, new) /\ UNCHANGED <<mir, past>>
  BY DEF SaveRun, outside
<1> HIDE DEF new
<1>3. Grows(a, new) /\ Fits(a, new)
  BY <1>a, <1>1 DEF Grows, Fits
<1>4. Onward
  BY <1>2, AtCandidate, GoesOn
<1>5. rec'[cur] = rec[cur] /\ \A y \in Runs : rec[y].exists => rec'[y].exists
  BY <1>a, <1>1, <1>2 DEF SaveRun, TypeOK
<1> QED BY <1>a, <1>2, <1>3, <1>4, <1>5, RunSaved DEF MirrorInv, Site

LEMMA ActivateStep ==
  ASSUME MirrorInv, RetireActive \/ Unpoint \/ Activated \/ Point \/ \E x \in Runs : Activate(x)
  PROVE  Data' /\ Site'
<1>a. pc \notin Before
  BY AtCandidate DEF RetireActive, Unpoint, Activated, Point, Activate, Advance, Before
<1>b. /\ cur \in Runs /\ cur = par.pending /\ cur # 0 /\ cur # par.active /\ cur \in Enrolled
      /\ rec[cur].exists /\ rec[cur].revision \in Runs /\ par.exists /\ ~all /\ Working /\ TypeOK /\ pc \in After
  BY <1>a, AtCandidate DEF Before, After, TypeOK
<1>1. CASE RetireActive
  <2>1. /\ pc = "retire" /\ pc' = "unpoint" /\ UNCHANGED <<cur, all>>
        /\ SaveRun(par.active, [rec[par.active] EXCEPT !.phase = "Retiring"])
        /\ UNCHANGED <<past, mir, runs, par, child, plan>>
    BY <1>1 DEF RetireActive, Goto, SaveRun, outside, world
  <2>2. par.active # 0 /\ (par.hold => runs[cur].force)
    BY <2>1 DEF MirrorInv, Site, Steps
  <2>3. /\ Data' /\ Complete' /\ Ready'
        /\ rec'[cur] = rec[cur] /\ \A y \in Runs : rec[y].exists => rec'[y].exists
    BY <1>a, <2>1, <2>2, RetiringSaved
  <2>4. Place' /\ Alone'
    BY <1>b, <2>1, <2>3 DEF MirrorInv, Site, Place, Alone, Reads, Before, After
  <2>5. Steps'
    BY <2>1, <2>2 DEF Steps
  <2> QED BY <2>3, <2>4, <2>5 DEF Site
<1>2. ASSUME NEW x \in Runs, Activate(x) PROVE Data' /\ Site'
  <2>1. /\ x = cur /\ rec[cur].phase = "AwaitingActivation" /\ rec[rec[cur].revision].exists
        /\ cur \in policy /\ (par.hold => runs[cur].force)
        /\ pc' = "activate" /\ UNCHANGED <<cur, all>>
        /\ \/ Nothing
           \/ par.active # 0 /\ SaveRun(par.active, [rec[par.active] EXCEPT !.phase = "Retiring"])
        /\ UNCHANGED <<setting, past, mir, runs, par, world>>
    BY <1>2 DEF Activate, Advance, Prepared, Leased, Goto, Nothing, SaveRun, outside
  <2>2. /\ Data' /\ Complete' /\ Ready'
        /\ rec'[cur] = rec[cur] /\ \A y \in Runs : rec[y].exists => rec'[y].exists
    <3>1. CASE Nothing
      BY <1>b, <2>1, <3>1, AtCandidate, <1>a, GoesOn, NothingMoved DEF Nothing
    <3>2. CASE par.active # 0 /\ SaveRun(par.active, [rec[par.active] EXCEPT !.phase = "Retiring"])
      BY <1>a, <2>1, <3>2, RetiringSaved
    <3> QED BY <2>1, <3>1, <3>2
  <2>3. Place' /\ Alone'
    BY <1>b, <2>1, <2>2 DEF MirrorInv, Site, Place, Alone, Reads, Before, After, world
  <2>4. Steps'
    BY <1>b, <2>1, <2>2 DEF Steps, world
  <2> QED BY <2>2, <2>3, <2>4 DEF Site
<1>3. CASE Activated
  <2> DEFINE new == [rec[cur] EXCEPT !.phase = "Active"]
  <2>1. /\ pc = "activate" /\ pc' = "point" /\ UNCHANGED <<cur, all>> /\ SaveRun(cur, new)
        /\ UNCHANGED <<runs, par, policy>>
    BY <1>3 DEF Activated, Goto, SaveRun, world
  <2>2. /\ rec[cur].phase = "AwaitingActivation" /\ cur \in policy /\ rec[rec[cur].revision].exists
        /\ par.hold => runs[cur].force
    BY <2>1 DEF MirrorInv, Site, Steps
  <2>3. rec[cur].child = "uid" /\ rec[cur].volume
    BY <1>b, <2>2 DEF MirrorInv, Data, Staged
  <2>4. Grows(cur, new) /\ Fits(cur, new) /\ new.phase = "Active" /\ new.revision = rec[cur].revision
    BY <1>a, <2>2, <2>3, PhaseFits, PhaseNames
  <2> HIDE DEF new
  <2>5. /\ Data' /\ Complete' /\ Ready' /\ Place' /\ Alone'
        /\ rec'[cur] = new /\ \A y \in Runs : rec[y].exists => rec'[y].exists
    BY <1>a, <2>1, <2>4, CandidateSaved DEF After
  <2>6. Steps'
    BY <1>b, <2>1, <2>2, <2>4, <2>5 DEF Steps
  <2> QED BY <2>5, <2>6 DEF Site
<1>4. CASE Unpoint
  <2>1. /\ UNCHANGED <<setting, past, mir, runs, rec, child, plan, snap, imports, policy, volume>> /\ Return
        /\ par'.exists = par.exists /\ par'.runs = par.runs /\ par'.active = 0 /\ par'.pending = par.pending
    BY <1>4, <1>b DEF Unpoint, SaveParent, outside, world, TypeOK, Parents
  <2>2. Enrolled' = Enrolled /\ cur' = 0
    BY <2>1 DEF Enrolled, Return
  <2>3. Kept' /\ Staged' /\ Consumers' /\ OneAtATime' /\ Recorded'
    BY <2>1, <2>2 DEF MirrorInv, Data, Kept, Staged, Rooted, Consumers, Consumer, OneAtATime, Recorded, Reads
  <2>4. Pointers'
    BY <2>1, <2>2 DEF MirrorInv, Data, Pointers
  <2>5. Complete' /\ Ready'
    BY <1>b, <2>1, <2>2 DEF MirrorInv, Site, Complete, Ready, Live
  <2> QED BY <2>1, <2>3, <2>4, <2>5, Returned DEF Data, Site
<1>5. CASE Point
  <2>1. /\ UNCHANGED <<setting, past, mir, runs, rec, child, plan, snap, imports, policy, volume>> /\ Return
        /\ par'.exists = par.exists /\ par'.runs = par.runs /\ par'.active = cur /\ par'.pending = 0
    BY <1>5, <1>b DEF Point, SaveParent, outside, world, TypeOK, Parents
  <2>2. rec[cur].phase = "Active" /\ rec[rec[cur].revision].exists
    BY <1>5 DEF Point, Advance, MirrorInv, Site, Steps
  <2>3. cur \in policy
    BY <1>b, <2>2 DEF MirrorInv, Site, Ready
  <2>4. rec[cur].child = "uid" /\ rec[cur].volume
    BY <1>b, <2>2 DEF MirrorInv, Data, Staged
  <2>5. Enrolled' = Enrolled
    BY <2>1 DEF Enrolled
  <2>6. Kept' /\ Staged' /\ Consumers' /\ OneAtATime' /\ Recorded'
    BY <2>1, <2>5 DEF MirrorInv, Data, Kept, Staged, Rooted, Consumers, Consumer, OneAtATime, Recorded, Reads
  <2>7. Pointers'
    BY <1>b, <2>1, <2>2, <2>5 DEF MirrorInv, Data, Pointers
  <2>8. Complete' /\ Ready'
    BY <1>b, <2>1, <2>2, <2>3, <2>4 DEF Complete, Ready
  <2> QED BY <2>1, <2>6, <2>7, <2>8, Returned DEF Data, Site
<1> QED BY <1>1, <1>2, <1>3, <1>4, <1>5
-----------------------------------------------------------------------------
\* The invariant.

LEMMA InitInv == Init => MirrorInv
<1> SUFFICES ASSUME Init PROVE MirrorInv
  OBVIOUS
<1>1. \A x \in Runs : rec[x] = NoRecord(x) /\ ~rec[x].exists
  BY FreshRecord DEF Init
<1>2. /\ par.runs = <<>> /\ par.active = 0 /\ par.pending = 0 /\ ~par.exists /\ ~par.hold
      /\ par = NoParent
  BY DEF Init, NoParent
<1>3. TypeOK
  <2>1. rec \in [Runs -> Records]
    BY FreshRecord DEF Init
  <2>2. par \in Parents
    <3>1. <<>> \in Seq(Runs) /\ 0 \in 0 .. MaxRuns
      BY ConstantsAssumption
    <3> QED BY <1>2, <3>1 DEF NoParent, Parents
  <2>3. runs \in [Runs -> Requests]
    <3>1. NoRequest \in Requests
      BY ConstantsAssumption DEF NoRequest, Requests
    <3> QED BY <3>1 DEF Init
  <2>4. child \in [Runs -> {"none", "made", "ready", "deleting"}]
    BY DEF Init
  <2>5. snap \in [Runs -> {"none", "new", "bound", "ready", "deleting", "content"}]
    BY DEF Init
  <2>6. mir \in [state : {"live", "deleting", "gone"}, fin : BOOLEAN, hold : BOOLEAN]
    BY DEF Init
  <2>7. setting \in Settings /\ past \in BOOLEAN /\ all \in BOOLEAN
    BY DEF Init
  <2>8. cur \in 0 .. MaxRuns /\ meddling \in 0 .. MaxMeddling /\ faults \in 0 .. MaxFaults
    BY ConstantsAssumption DEF Init
  <2>9. plan \subseteq Runs /\ imports \subseteq Runs /\ policy \subseteq Runs /\ volume \subseteq Runs
    BY DEF Init
  <2>10. pc \in {"idle", "enrol", "collect", "choose", "advance", "accept", "retire",
                 "unpoint", "generate", "activate", "point"}
    BY DEF Init
  <2> QED BY <2>1, <2>2, <2>3, <2>4, <2>5, <2>6, <2>7, <2>8, <2>9, <2>10 DEF TypeOK
<1>4. Kept /\ Staged /\ Pointers
  BY <1>1, <1>2 DEF Kept, Staged, Pointers
<1>5. Consumers /\ OneAtATime /\ Recorded
  BY DEF Init, Consumers, OneAtATime, Recorded, Reads
<1>6. Place /\ Complete /\ Ready
  BY <1>2 DEF Init, Place, Complete, Ready, Before
<1>7. Alone /\ Steps
  BY DEF Init, Alone, Steps, After
<1> QED BY <1>3, <1>4, <1>5, <1>6, <1>7 DEF MirrorInv, Data, Site

LEMMA InvStep == MirrorInv /\ [Next]_vars => MirrorInv'
<1> SUFFICES ASSUME MirrorInv, [Next]_vars PROVE MirrorInv'
  OBVIOUS
<1>1. TypeOK'
  BY TypeStep
<1>2. CASE User
  BY <1>1, <1>2, UserStep DEF MirrorInv
<1>3. CASE Environment
  BY <1>1, <1>3, EnvironmentStep DEF MirrorInv
<1>4. CASE AddFinalizer \/ FinishCleanup \/ Start \/ StartCleanup \/ EnrolDone \/ Crash
  BY <1>1, <1>4, ReconcileStep DEF MirrorInv
<1>5. CASE \E x \in Runs : Enrol(x)
  BY <1>1, <1>5, EnrolStep DEF MirrorInv
<1>6. CASE Collect
  BY <1>1, <1>6, CollectStep DEF MirrorInv
<1>7. CASE Candidate
  <2>1. CASE \/ Choose \/ Wait \/ \E x \in Runs : Schedule(x) \/ Enter(x) \/ Accept(x)
    BY <1>1, <2>1, ChooseStep DEF MirrorInv
  <2>2. CASE \/ Accepted \/ \E x \in Runs : RecordCapture(x) \/ Captured(x)
    BY <1>1, <2>2, CaptureStep DEF MirrorInv
  <2>3. CASE \E x \in Runs : CreateCapture(x) \/ CreateImport(x) \/ CreateChild(x)
    BY <1>1, <2>3, CreateStep DEF MirrorInv
  <2>4. CASE \E x \in Runs : \/ RecordImport(x) \/ AwaitReplacement(x) \/ Replace(x) \/ Resume(x)
                             \/ IntendChild(x) \/ FindChild(x)
    BY <1>1, <2>4, RestoreStep DEF MirrorInv
  <2>5. CASE \E x \in Runs : Isolate(x) \/ SavePlan(x) \/ RecordVolume(x) \/ Restored(x)
    BY <1>1, <2>5, GenerateStep DEF MirrorInv
  <2>6. CASE RetireActive \/ Unpoint \/ Activated \/ Point \/ \E x \in Runs : Activate(x)
    BY <1>1, <2>6, ActivateStep DEF MirrorInv
  <2> QED BY <1>7, <2>1, <2>2, <2>3, <2>4, <2>5, <2>6 DEF Candidate
<1>8. CASE UNCHANGED vars
  <2>1. UNCHANGED <<setting, past, mir, runs, par, rec, world, pc, cur, all>>
    BY <1>8 DEF vars, outside, locals
  <2>2. Onward /\ Reopens
    BY <2>1 DEF Onward, Working, Over, Reopens, MirrorInv, Data, Kept
  <2> QED BY <1>1, <2>1, <2>2, RunsMoved DEF MirrorInv
<1> QED BY <1>2, <1>3, <1>4, <1>5, <1>6, <1>7, <1>8 DEF Next, Worker

\* The invariant the rest follows from: records, references and objects fit
\* together (Data), and so does what the reconcile relies on between two of its
\* writes (Site), whatever users, the engine and crashes do in between.
THEOREM MirrorInvariance == Spec => []MirrorInv
BY InitInv, InvStep, PTL DEF Spec
-----------------------------------------------------------------------------
\* What it means.

\* collect deletes no capture, and forgets no record, that a generation which may
\* still read its import leads to.
THEOREM CaptureProtectedAlways == Spec => []CaptureProtected
<1>1. MirrorInv => CaptureProtected
  BY Types DEF MirrorInv, CaptureProtected, Data, Consumers, Consumer, Reads
<1> QED BY <1>1, MirrorInvariance, PTL

\* managedReplacement leaves one managed generation at a time, and whatever the
\* mirror shows as active has been activated, isolated and recorded as a whole.
THEOREM OneValidGenerationAlways == Spec => []OneValidGeneration
<1>1. MirrorInv => OneValidGeneration
  <2> SUFFICES ASSUME MirrorInv PROVE OneValidGeneration
    OBVIOUS
  <2>1. setting.provider = "helm" => Cardinality({x \in plan : child[x] # "none"}) <= 1
    <3> SUFFICES ASSUME setting.provider = "helm"
                 PROVE  Cardinality({x \in plan : child[x] # "none"}) <= 1
      OBVIOUS
    <3> DEFINE S == {x \in plan : child[x] # "none"}
    <3>1. \A x, y \in S : x = y
      BY Types DEF MirrorInv, Data, OneAtATime, Reads
    <3>2. CASE S = {}
      BY <3>2, FS_EmptySet
    <3>3. CASE S # {}
      <4>1. PICK x \in S : S = {x}
        BY <3>1, <3>3
      <4>2. Cardinality({x}) = 1
        BY FS_Singleton
      <4> QED BY <4>1, <4>2
    <3> QED BY <3>2, <3>3
  <2>2. ASSUME par.active # 0, ~Over
        PROVE  LET a == rec[par.active] IN
                 /\ a.exists /\ a.phase \in {"Active", "Retiring"} /\ a.child = "uid" /\ a.volume
                 /\ rec[a.revision].exists /\ rec[a.revision].captured /\ par.active \in policy
    <3>1. /\ rec[par.active].exists /\ rec[par.active].child = "uid" /\ rec[par.active].volume
          /\ rec[rec[par.active].revision].exists /\ par.active \in policy
      BY <2>2 DEF MirrorInv, Site, Complete, Working
    <3>2. par.active \in Runs /\ rec[par.active].phase \in {"Active", "Retiring"}
      BY <2>2, <3>1, Types DEF MirrorInv, Data, Pointers
    <3>3. rec[rec[par.active].revision].captured
      BY <3>1, <3>2 DEF MirrorInv, Data, Staged, Rooted
    <3> QED BY <3>1, <3>2, <3>3
  <2> QED BY <2>1, <2>2 DEF OneValidGeneration, MirrorInv
<1> QED BY <1>1, MirrorInvariance, PTL

\* The active generation changes under a lease only by a forced reset, by the end
\* of the mirror, or by the recovery that finds the candidate saved as Active
\* (generation.go:296-300): Activate and Replace checked the lease before.
THEOREM LeaseKeptAlways == Spec => LeaseKept
<1> DEFINE Permitted ==
      \/ all
      \/ cur # 0 /\ runs[cur].force
      \/ pc = "advance" /\ setting.provider = "existing" /\ rec[cur].phase = "Active"
<1>1. MirrorInv /\ [Next]_vars => [Switch /\ par.hold => Permitted]_vars
  <2> SUFFICES ASSUME MirrorInv, Next, Switch, par.hold PROVE Permitted
    OBVIOUS
  <2>a. par \in Parents
    BY DEF MirrorInv, TypeOK
  <2>b. par.active # 0 /\ par'.active # par.active /\ par' # par
    BY DEF Switch
  <2>1. ~User /\ ~Environment /\ ~Crash
    BY <2>a, <2>b DEF User, Submit, Cancel, DeleteChild, Hold, Release, LeaseEnds, DeleteMirror, Expire, Parents,
       Environment, Snapshot, Unsnapshot, Apply, CleanupGeneration, CleanGuest, EndChild, Quiet, Engine, Crash
  <2>2. /\ ~AddFinalizer /\ ~Start /\ ~StartCleanup /\ ~FinishCleanup /\ ~EnrolDone
        /\ ~\E x \in Runs : Enrol(x)
    BY <2>a, <2>b DEF AddFinalizer, Start, StartCleanup, FinishCleanup, EnrolDone, Enrol, SaveParent, SaveRun,
       SetRun, Nothing, Parents
  <2>3. CASE Collect
    <3>1. SUFFICES ASSUME ~all PROVE FALSE
      OBVIOUS
    <3>2. PICK x \in Focus : DropReference(x)
      BY <2>3, <2>b, <3>1 DEF Collect, CollectDone, DeleteRecord, Retire, Retention, DeleteCapture, Forget,
         DropRequest, SaveRun, SetRun, Written, Nothing
    <3>3. x = par.active /\ ~rec[x].exists
      BY <2>a, <2>b, <3>2 DEF DropReference, SaveParent, Parents
    <3>4. Working
      BY <2>3, <3>1 DEF Working, Collect
    <3> QED BY <2>b, <3>3, <3>4 DEF MirrorInv, Site, Complete
  <2>4. CASE Candidate
    <3>1. Unpoint \/ Point
      <4>1. ~Choose
        BY <2>a, <2>b DEF Choose, SaveParent, Parents
      <4>2. ~\E x \in Runs : Accept(x)
        BY <2>a, <2>b DEF Accept, Parents
      <4>3. ~Wait /\ ~Accepted /\ ~RetireActive /\ ~Activated
        BY <2>b DEF Wait, Accepted, RetireActive, Activated, SaveRun, Nothing
      <4>4. ~\E x \in Runs : \/ Schedule(x) \/ Enter(x) \/ CreateCapture(x) \/ RecordCapture(x) \/ Captured(x)
                             \/ CreateImport(x) \/ RecordImport(x) \/ AwaitReplacement(x) \/ Replace(x)
        BY <2>b DEF Schedule, Enter, CreateCapture, RecordCapture, Captured, CreateImport, RecordImport,
           AwaitReplacement, Replace, SaveRun, SetRun, Written, Nothing
      <4>5. ~\E x \in Runs : \/ Resume(x) \/ IntendChild(x) \/ CreateChild(x) \/ FindChild(x) \/ Isolate(x)
                             \/ SavePlan(x) \/ RecordVolume(x) \/ Restored(x) \/ Activate(x)
        BY <2>b DEF Resume, IntendChild, CreateChild, FindChild, Isolate, SavePlan, RecordVolume, Restored,
           Activate, SaveRun, Written, Nothing
      <4> QED BY <2>4, <4>1, <4>2, <4>3, <4>4, <4>5 DEF Candidate
    <3>2. pc \notin Before
      BY <3>1, AtCandidate DEF Unpoint, Point, Advance, Before
    <3>3. cur # 0 /\ cur \in Runs /\ cur = par.pending /\ rec[cur].exists
      BY <3>2, AtCandidate
    <3>4. CASE pc \in {"unpoint", "point"}
      BY <3>3, <3>4 DEF MirrorInv, Site, Steps
    <3>5. CASE Point /\ pc = "advance"
      <4>1. rec[cur].phase = "Active"
        BY <3>5 DEF Point, Advance
      <4>2. setting.provider # "helm"
        BY <2>b, <3>3, <4>1 DEF MirrorInv, Data, Pointers, Staged
      <4>3. setting.provider = "existing"
        BY <4>2, ConstantsAssumption DEF MirrorInv, TypeOK, Authorized
      <4> QED BY <3>5, <4>1, <4>3
    <3> QED BY <3>1, <3>4, <3>5 DEF Unpoint, Point, Advance
  <2> QED BY <2>1, <2>2, <2>3, <2>4 DEF Next, Worker
<1> QED BY <1>1, MirrorInvariance, PTL DEF Spec, LeaseKept

\* A record is replaced by one that exists.
LEMMA SavedExists ==
  ASSUME TypeOK, NEW y \in Runs, NEW new, SaveRun(y, new), rec[y].exists => new.exists
  PROVE  \A x \in Runs : rec[x].exists => rec'[x].exists
BY DEF SaveRun, TypeOK

\* A record whose fields other than `exists` are saved stays.
LEMMA CandidateExists ==
  ASSUME MirrorInv, Candidate
  PROVE  \A x \in Runs : rec[x].exists => rec'[x].exists
<1>a. TypeOK /\ par.active \in {0} \cup Runs /\ cur \in {0} \cup Runs
  BY Types DEF MirrorInv
<1>b. \A y \in Runs : rec[y] \in Records
  BY Types DEF MirrorInv
<1>1. CASE Accepted \/ Activated \/ RetireActive
  <2>1. cur \in Runs /\ (RetireActive => par.active \in Runs)
    BY <1>1, <1>a, AtCandidate DEF Accepted, Activated, RetireActive, Before, MirrorInv, Site, Steps
  <2>2. CASE Accepted
    <3> DEFINE reset == [rec[cur] EXCEPT !.revision = runs[cur].from, !.captured = TRUE, !.phase = "Restoring"]
    <3> DEFINE sync == [rec[cur] EXCEPT !.snap = "intent", !.phase = "Capturing"]
    <3>1. SaveRun(cur, IF runs[cur].action = "Reset" THEN reset ELSE sync)
      BY <2>2 DEF Accepted
    <3>2. reset.exists = rec[cur].exists /\ sync.exists = rec[cur].exists
      BY <1>b, <2>1 DEF Records
    <3> HIDE DEF reset, sync
    <3>3. CASE runs[cur].action = "Reset"
      BY <1>a, <2>1, <3>1, <3>2, <3>3, SavedExists
    <3>4. CASE runs[cur].action # "Reset"
      BY <1>a, <2>1, <3>1, <3>2, <3>4, SavedExists
    <3> QED BY <3>3, <3>4
  <2>3. CASE Activated
    BY <1>a, <1>b, <2>1, <2>3, SavedExists DEF Activated, Records
  <2>4. CASE RetireActive
    BY <1>a, <1>b, <2>1, <2>4, SavedExists DEF RetireActive, Records
  <2> QED BY <1>1, <2>2, <2>3, <2>4
<1>2. CASE \/ Choose \/ Wait \/ Unpoint \/ Point
           \/ \E x \in Runs : \/ Schedule(x) \/ Enter(x) \/ Accept(x) \/ CreateCapture(x) \/ CreateImport(x)
                              \/ CreateChild(x) \/ SavePlan(x)
  <2>1. rec' = rec
    BY <1>2 DEF Choose, Wait, Unpoint, Point, Schedule, Enter, Accept, CreateCapture, CreateImport, CreateChild,
       SavePlan, SaveParent, SetRun, Written, Nothing
  <2> QED BY <2>1
<1>3. ASSUME NEW x \in Runs, RecordCapture(x) \/ Captured(x)
      PROVE  \A y \in Runs : rec[y].exists => rec'[y].exists
  <2>1. PICK k \in {"uid", "content"} : \/ SaveRun(x, [rec[x] EXCEPT !.snap = k])
                                        \/ SaveRun(x, [rec[x] EXCEPT !.captured = TRUE, !.phase = "Restoring"])
    BY <1>3 DEF RecordCapture, Captured
  <2>2. /\ [rec[x] EXCEPT !.snap = k].exists = rec[x].exists
        /\ [rec[x] EXCEPT !.captured = TRUE, !.phase = "Restoring"].exists = rec[x].exists
    BY <1>b DEF Records
  <2> QED BY <1>a, <2>1, <2>2, SavedExists
<1>4. ASSUME NEW x \in Runs, RecordImport(x) \/ IntendChild(x) \/ FindChild(x) \/ Isolate(x) \/ RecordVolume(x)
      PROVE  \A y \in Runs : rec[y].exists => rec'[y].exists
  <2>1. \/ rec' = rec
        \/ \E k \in {"intent", "uid"} :
             \/ SaveRun(x, [rec[x] EXCEPT !.import = k]) \/ SaveRun(x, [rec[x] EXCEPT !.child = k])
             \/ SaveRun(x, [rec[x] EXCEPT !.policy = k]) \/ SaveRun(x, [rec[x] EXCEPT !.volume = TRUE])
    BY <1>4 DEF RecordImport, IntendChild, FindChild, Isolate, RecordVolume, Written
  <2>2. \A k : /\ [rec[x] EXCEPT !.import = k].exists = rec[x].exists
               /\ [rec[x] EXCEPT !.child = k].exists = rec[x].exists
               /\ [rec[x] EXCEPT !.policy = k].exists = rec[x].exists
               /\ [rec[x] EXCEPT !.volume = TRUE].exists = rec[x].exists
    BY <1>b DEF Records
  <2> QED BY <1>a, <2>1, <2>2, SavedExists
<1>5. ASSUME NEW x \in Runs, AwaitReplacement(x) \/ Replace(x) \/ Resume(x) \/ Restored(x)
      PROVE  \A y \in Runs : rec[y].exists => rec'[y].exists
  <2>1. \E p \in {"AwaitingReplacement", "Replacing", "Restoring", "AwaitingActivation"} :
          SaveRun(x, [rec[x] EXCEPT !.phase = p])
    BY <1>5 DEF AwaitReplacement, Replace, Resume, Restored
  <2>2. \A p : [rec[x] EXCEPT !.phase = p].exists = rec[x].exists
    BY <1>b DEF Records
  <2> QED BY <1>a, <2>1, <2>2, SavedExists
<1>6. ASSUME NEW x \in Runs, Activate(x) PROVE \A y \in Runs : rec[y].exists => rec'[y].exists
  <2>1. CASE rec' = rec
    BY <2>1
  <2>2. CASE rec' # rec
    <3>1. par.active \in Runs /\ SaveRun(par.active, [rec[par.active] EXCEPT !.phase = "Retiring"])
      BY <1>6, <1>a, <2>2 DEF Activate, Nothing
    <3> QED BY <1>a, <1>b, <3>1, SavedExists DEF Records
  <2> QED BY <2>1, <2>2
<1> QED BY <1>1, <1>2, <1>3, <1>4, <1>5, <1>6 DEF Candidate

\* retire and cleanupStorage come before the record goes, and what they look for,
\* by UID or by the intent alone, is all there can be.
THEOREM ForgetsOnlyCleanAlways == Spec => ForgetsOnlyClean
<1>1. MirrorInv /\ [Next]_vars =>
        [\A x \in Runs : rec[x].exists /\ ~rec'[x].exists =>
           /\ ~Leftovers(x)
           /\ rec[x].child = "uid" => child[x] = "none"]_vars
  <2> SUFFICES ASSUME MirrorInv, Next, NEW x \in Runs, rec[x].exists, ~rec'[x].exists
               PROVE  ~Leftovers(x) /\ (rec[x].child = "uid" => child[x] = "none")
    OBVIOUS
  <2>a. TypeOK /\ rec' # rec /\ \A y \in Runs : rec[y] \in Records
    BY Types DEF MirrorInv
  <2>1. ~User /\ ~Crash
    BY <2>a DEF User, Submit, Cancel, DeleteChild, Hold, Release, LeaseEnds, DeleteMirror, Expire, Crash
  <2>2. ~Environment
    <3>1. ASSUME NEW y \in Runs, CleanupGeneration(y) PROVE FALSE
      <4>1. [rec[y] EXCEPT !.volume = TRUE].exists = rec[y].exists
        BY <2>a DEF Records
      <4> QED BY <2>a, <3>1, <4>1 DEF CleanupGeneration, TypeOK
    <3> QED BY <2>a, <3>1 DEF Environment, Snapshot, Unsnapshot, Apply, CleanGuest, EndChild, Engine
  <2>3. ~AddFinalizer /\ ~Start /\ ~StartCleanup /\ ~FinishCleanup /\ ~EnrolDone
    BY <2>a DEF AddFinalizer, Start, StartCleanup, FinishCleanup, EnrolDone, SaveParent, Nothing
  <2>4. ~\E y \in Runs : Enrol(y)
    BY <2>a, FreshRecord, SavedExists DEF Enrol, SaveParent, SetRun
  <2>5. ~Candidate
    BY CandidateExists
  <2>6. CASE Collect
    <3>1. PICK y \in Focus : Retention(y) \/ Forget(y)
      <4>1. ~CollectDone /\ ~DeleteRecord
        BY <2>a DEF CollectDone, DeleteRecord, SaveParent, Nothing
      <4>2. \A y \in Focus : ~Retire(y) /\ ~DeleteCapture(y) /\ ~DropRequest(y) /\ ~DropReference(y)
        BY <2>a DEF Retire, DeleteCapture, DropRequest, DropReference, SaveParent, SetRun, Written
      <4> QED BY <2>6, <4>1, <4>2, Zenon DEF Collect
    <3>2. y \in Runs
      BY FocusFree
    <3>3. ~Retention(y)
      <4>1. [rec[y] EXCEPT !.phase = "Retained"].exists = rec[y].exists
        BY <2>a, <3>2 DEF Records
      <4> QED BY <2>a, <3>2, <4>1, SavedExists DEF Retention
    <3>4. y = x /\ Retired(x) /\ Uncaptured(x)
      BY <2>a, <3>1, <3>2, <3>3 DEF Forget, SaveRun, TypeOK
    <3>5. ~Reads(x)
      BY <3>4 DEF Reads, Retired, MirrorInv, Data, Consumers, Consumer
    <3>6. x \notin imports /\ x \notin policy /\ x \notin volume /\ snap[x] \in {"none", "content"}
      BY <3>4, <3>5 DEF MirrorInv, Data, Recorded, Retired, Uncaptured
    <3> QED BY <3>4, <3>6 DEF Retired, Leftovers
  <2> QED BY <2>1, <2>2, <2>3, <2>4, <2>5, <2>6 DEF Next, Worker
<1> QED BY <1>1, MirrorInvariance, PTL DEF Spec, ForgetsOnlyClean
===============================================================================
