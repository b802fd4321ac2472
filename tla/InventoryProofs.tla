--------------------------- MODULE InventoryProofs ---------------------------
(***************************************************************************)
(* Proofs about module Inventory, for any plans, any number of objects and *)
(* whatever the users of the guest do.                                     *)
(*                                                                         *)
(* InventoryInv says where the marker of each object leads: an object of   *)
(* the engine to the one open entry of its identity, a foreign object to   *)
(* nothing or to an entry whose recorded UID is another one.               *)
(*                                                                         *)
(* PlanInv says what the loops have done for the plan: pruning goes down   *)
(* the entries, installing goes up the plan's order.                       *)
(***************************************************************************)
EXTENDS Inventory, TLAPS

\* An identity has at most one open entry.
OneOpen ==
  \A i, j \in DOMAIN entries :
    /\ entries[i].id = entries[j].id
    /\ ~entries[i].deleted /\ ~entries[j].deleted
    => i = j

\* UIDs come from the guest API server, and recorded ones from a creation.
Uids ==
  /\ \A id \in Objects : live[id].uid <= uids
  /\ \A i \in DOMAIN entries : entries[i].uid # 0 => entries[i].uid \in created

\* Where markers lead.
Markers ==
  \A id \in Objects :
    LET obj == live[id] IN
      /\ Mine(id) =>
           /\ obj.op \in DOMAIN entries
           /\ entries[obj.op].id = id /\ ~entries[obj.op].deleted
           /\ entries[obj.op].uid \in {0, obj.uid}
      /\ Present(id) /\ ~Mine(id) /\ obj.op # 0 =>
           obj.op \in DOMAIN entries /\ entries[obj.op].uid # 0

\* The reconcile is at an item of its loop, and at an open entry of it.
AtItem ==
  /\ pc \notin {"idle", "next", "applied", "cleaned"} =>
       /\ loop # "none" /\ n >= 1
       /\ Deleting => n \in DOMAIN entries
       /\ ~Deleting => n \in DOMAIN Order
       /\ Deleting <=> pc \in {"delete", "verify", "gone"}
  /\ pc = "next" => /\ loop # "none" /\ (~Deleting => n >= 1)
                    /\ Deleting => n <= Len(entries)
  /\ pc \in {"create", "record", "redo", "patch", "patched", "delete", "verify", "gone"} =>
       /\ at \in DOMAIN entries
       /\ entries[at].id = Item /\ ~entries[at].deleted
  /\ pc \in {"delete", "verify", "gone"} => at = n
  /\ pc \in {"create", "record"} => entries[at].uid = 0
  /\ pc = "intend" => Current(Item) = {}
  /\ loop \in {"namespaces", "prune", "objects"} => plan # 0
  /\ pc = "idle" <=> loop = "none"
  /\ pc = "applied" => loop = "objects"

\* What the last Get still tells: only the engine creates its own objects.
Seen ==
  /\ pc \in {"intend", "redo", "gone"} => ~Mine(Item)
  /\ pc \in {"record", "patch", "delete"} => seen.uid \in created
  /\ pc = "record" => seen.op = at /\ (Mine(Item) => live[Item].uid = seen.uid)

\* Cleanup closes the entries from the last to the first.
Cleaning ==
  /\ loop \in {"namespaces", "prune", "objects"} => ~cleanup
  /\ loop = "clean" => cleanup
  /\ loop = "clean" /\ ~pending =>
       \A j \in DOMAIN entries : j > n => entries[j].deleted
  /\ pc = "cleaned" => loop = "clean" /\ ~pending /\ n = 0
  /\ cleaned => cleanup /\ \A j \in DOMAIN entries : entries[j].deleted

InventoryInv ==
  /\ TypeOK
  /\ OneOpen
  /\ Uids
  /\ Markers
  /\ AtItem
  /\ Seen
  /\ Cleaning

-----------------------------------------------------------------------------
\* NotFound is an object.
LEMMA AbsentType == Absent \in LiveObjects
BY DEF Absent, LiveObjects

\* What the API server stores for a creation is an object.
LEMMA NewObjectType ==
  ASSUME NEW op \in Nat, NEW c \in Nat, uids \in Nat
  PROVE  /\ NewObject(op, c) \in LiveObjects
         /\ NewObject(op, c).uid = uids + 1 /\ NewObject(op, c).op = op
BY DEF NewObject, LiveObjects

\* A deletion marks or removes one object and leaves the others alone.
LEMMA RemovedType ==
  ASSUME NEW id \in Objects, live \in [Objects -> LiveObjects]
  PROVE  /\ Removed(id) \in [Objects -> LiveObjects]
         /\ \A x \in Objects : x # id => Removed(id)[x] = live[x]
         /\ \/ Removed(id)[id] = Absent
            \/ /\ Removed(id)[id].uid = live[id].uid
               /\ Removed(id)[id].op = live[id].op
               /\ Removed(id)[id].held = live[id].held
               /\ Removed(id)[id].deleting
<1>1. [live[id] EXCEPT !.deleting = TRUE] \in LiveObjects
  BY DEF LiveObjects
<1>2. /\ [live[id] EXCEPT !.deleting = TRUE].uid = live[id].uid
      /\ [live[id] EXCEPT !.deleting = TRUE].op = live[id].op
      /\ [live[id] EXCEPT !.deleting = TRUE].held = live[id].held
      /\ [live[id] EXCEPT !.deleting = TRUE].deleting
  BY DEF LiveObjects
<1> DEFINE new == IF HasFinalizer(id) THEN [live[id] EXCEPT !.deleting = TRUE] ELSE Absent
<1>3. Removed(id) = [live EXCEPT ![id] = new]
  BY DEF Removed
<1>4. /\ new \in LiveObjects
      /\ \/ new = Absent
         \/ /\ new.uid = live[id].uid /\ new.op = live[id].op
            /\ new.held = live[id].held /\ new.deleting
  <2>1. CASE ~HasFinalizer(id)
    <3>1. new = Absent
      BY <2>1, Zenon
    <3> HIDE DEF new
    <3> QED BY <3>1, AbsentType
  <2>2. CASE HasFinalizer(id)
    BY <2>2, <1>1, <1>2
  <2> QED BY <2>1, <2>2
<1> HIDE DEF new
<1> QED BY <1>3, <1>4

\* The content of planned objects.
LEMMA DesiredType ==
  ASSUME NEW id \in Objects, NEW p \in 0 .. MaxPlans, p # 0
  PROVE  Desired[p][id] \in Nat
BY ConstantsAssumption DEF MaxPlans

\* What a save that changes one entry does to the inventory.
Changed(new, i) ==
  /\ new \in Seq(Entries) /\ Len(new) = Len(entries)
  /\ DOMAIN new = DOMAIN entries
  /\ \A j \in DOMAIN entries : j # i => new[j] = entries[j]
  /\ new[i].id = entries[i].id

\* Replacing an entry by another of the same identity.
LEMMA Replace ==
  ASSUME entries \in Seq(Entries), NEW i \in DOMAIN entries,
         NEW e \in Entries, e.id = entries[i].id
  PROVE  Changed([entries EXCEPT ![i] = e], i) /\ [entries EXCEPT ![i] = e][i] = e
BY DEF Changed

\* What saving a UID does.
LEMMA RecordSaved ==
  ASSUME entries \in Seq(Entries), at \in DOMAIN entries, seen.uid \in Nat,
         Desired[plan][Item] \in Nat, Record
  PROVE  /\ Changed(entries', at)
         /\ entries'[at].uid = seen.uid /\ entries'[at].deleted = entries[at].deleted
<1>1. ASSUME NEW i \in DOMAIN entries, NEW u \in Nat, NEW c \in Nat,
             entries' = [entries EXCEPT ![i].uid = u, ![i].applied = c]
      PROVE  /\ Changed(entries', i)
             /\ entries'[i].uid = u /\ entries'[i].deleted = entries[i].deleted
  <2> DEFINE e == [[entries[i] EXCEPT !.uid = u] EXCEPT !.applied = c]
  <2>0. entries[i] \in Entries
    OBVIOUS
  <2>1. e \in Entries /\ e.id = entries[i].id
    BY <2>0 DEF Entries
  <2>2. e.uid = u /\ e.deleted = entries[i].deleted
    BY DEF Entries
  <2>3. entries' = [entries EXCEPT ![i] = e]
    BY <1>1
  <2> HIDE DEF e
  <2>4. Changed(entries', i) /\ entries'[i] = e
    BY <2>1, <2>3, Replace
  <2> QED BY <2>2, <2>4
<1>2. entries' = [entries EXCEPT ![at].uid = seen.uid, ![at].applied = Desired[plan][Item]]
  BY Zenon DEF Record, Save
<1> QED BY <1>1, <1>2, Zenon

\* What saving the applied content does.
LEMMA PatchedEffect ==
  ASSUME entries \in Seq(Entries), NEW i \in DOMAIN entries, NEW c \in Nat
  PROVE  LET new == [entries EXCEPT ![i].applied = c] IN
           Changed(new, i) /\ new[i].uid = entries[i].uid /\ new[i].deleted = entries[i].deleted
<1> DEFINE e == [entries[i] EXCEPT !.applied = c]
<1>0. entries[i] \in Entries
  OBVIOUS
<1>1. e \in Entries /\ e.id = entries[i].id
  BY <1>0 DEF Entries
<1>2. e.uid = entries[i].uid /\ e.deleted = entries[i].deleted
  BY DEF Entries
<1>3. [entries EXCEPT ![i].applied = c] = [entries EXCEPT ![i] = e]
  OBVIOUS
<1> HIDE DEF e
<1> QED BY <1>1, <1>2, <1>3, Replace

\* What closing an entry does.
LEMMA CloseEffect ==
  ASSUME entries \in Seq(Entries), NEW i \in DOMAIN entries
  PROVE  LET new == [entries EXCEPT ![i].deleted = TRUE] IN
           Changed(new, i) /\ new[i].uid = entries[i].uid /\ new[i].deleted
<1> DEFINE e == [entries[i] EXCEPT !.deleted = TRUE]
<1>0. entries[i] \in Entries
  OBVIOUS
<1>1. e \in Entries /\ e.id = entries[i].id
  BY <1>0 DEF Entries
<1>2. e.uid = entries[i].uid /\ e.deleted
  BY DEF Entries
<1>3. [entries EXCEPT ![i].deleted = TRUE] = [entries EXCEPT ![i] = e]
  OBVIOUS
<1> HIDE DEF e
<1> QED BY <1>1, <1>2, <1>3, Replace

\* The inventory is empty and so is the guest.
LEMMA InvInit == Init => InventoryInv
<1> SUFFICES ASSUME Init PROVE InventoryInv
  OBVIOUS
<1>1. TypeOK
  <2>1. live \in [Objects -> LiveObjects] /\ seen \in LiveObjects
    BY AbsentType DEF Init
  <2>2. entries \in Seq(Entries) /\ created \subseteq 1 .. uids
    BY DEF Init
  <2>3. 0 \in 0 .. MaxPlans /\ 0 \in 0 .. MaxMeddling /\ 0 \in 0 .. MaxFaults
    BY ConstantsAssumption DEF MaxPlans
  <2> QED BY <2>1, <2>2, <2>3 DEF Init, TypeOK, RecordType, GuestType, LocalsType
<1>2. OneOpen /\ Uids /\ Markers
  BY DEF Init, OneOpen, Uids, Markers, Mine, Present, Exists, Absent
<1>3. AtItem /\ Seen /\ Cleaning
  BY DEF Init, AtItem, Seen, Cleaning
<1> QED BY <1>1, <1>2, <1>3 DEF InventoryInv

-----------------------------------------------------------------------------
\* Steps that change neither the entries nor the guest keep what is said of
\* them alone.
LEMMA Unwritten ==
  ASSUME OneOpen, Uids, Markers, UNCHANGED <<entries, guest>>
  PROVE  OneOpen' /\ Uids' /\ Markers'
BY DEF OneOpen, Uids, Markers, guest, Mine, Present, Exists

\* Steps that write nothing keep the types of what they do not write.
LEMMA UnwrittenType ==
  ASSUME TypeOK, UNCHANGED <<record, guest, meddling, faults>>, LocalsType'
  PROVE  TypeOK'
<1>1. RecordType'
  BY DEF TypeOK, RecordType, record
<1>2. GuestType'
  BY DEF TypeOK, GuestType, guest
<1> QED BY <1>1, <1>2 DEF TypeOK

\* A reconcile that returns leaves nothing to say about where it is.
LEMMA Returned ==
  ASSUME Return,
         cleaned' => cleanup' /\ \A j \in DOMAIN entries' : entries'[j].deleted
  PROVE  LocalsType' /\ AtItem' /\ Seen' /\ Cleaning'
BY AbsentType DEF Return, LocalsType, AtItem, Seen, Cleaning, Deleting

\* The loops: entering one, going on and skipping items write nothing.
LEMMA LoopStep ==
  ASSUME InventoryInv, BeginSync \/ BeginCleanup \/ NextLoop \/ Skip
  PROVE  InventoryInv'
<1> USE AbsentType, ConstantsAssumption DEF InventoryInv
<1>0. UNCHANGED <<record, guest, meddling, faults>>
  BY DEF BeginSync, BeginCleanup, NextLoop, Skip, NoWrite
<1>1. OneOpen' /\ Uids' /\ Markers'
  BY <1>0, Unwritten DEF record
<1>t. Len(entries) \in Nat /\ DOMAIN entries = 1 .. Len(entries) /\ n \in Nat
  BY DEF TypeOK, RecordType, LocalsType
<1>2. LocalsType'
  <2>1. pc' \in {"idle", "next", "applied", "cleaned"}
        /\ loop' \in {"none", "namespaces", "prune", "objects", "clean"}
    BY DEF BeginSync, BeginCleanup, NextLoop, Skip, Enter, Do, Return,
       Continue, TypeOK, LocalsType
  <2>2. n' \in Nat /\ at' \in Nat
    BY <1>t DEF BeginSync, BeginCleanup, NextLoop, Skip, Enter, Do, Return,
       Continue, TypeOK, LocalsType, InRange, Deleting
  <2>3. seen' \in LiveObjects
    BY DEF BeginSync, BeginCleanup, NextLoop, Skip, Enter, Do, Return,
       Continue, TypeOK, LocalsType
  <2>4. pending' \in BOOLEAN
    BY DEF BeginSync, BeginCleanup, NextLoop, Skip, Enter, Do, Return,
       Continue, TypeOK, LocalsType
  <2> QED BY <2>1, <2>2, <2>3, <2>4 DEF LocalsType
<1>3. AtItem'
  BY <1>0, <1>t DEF BeginSync, BeginCleanup, NextLoop, Skip, Enter, Do, Return,
     Continue, TypeOK, LocalsType, InRange, Deleting, AtItem, record
<1>4. Seen'
  BY DEF BeginSync, BeginCleanup, NextLoop, Skip, Enter, Do, Return, Continue, Seen
<1>5. Cleaning'
  BY <1>0, <1>t DEF BeginSync, BeginCleanup, NextLoop, Skip, Enter, Do, Return,
     Continue, TypeOK, LocalsType, InRange, Deleting, AtItem, record, Cleaning,
     Relevant
<1> QED BY <1>0, <1>1, <1>2, <1>3, <1>4, <1>5, UnwrittenType

\* The marker and UID of an object that is controlled prove it the engine's.
LEMMA ControlledIsMine ==
  ASSUME InventoryInv, NEW id \in Objects, NEW i \in DOMAIN entries,
         Present(id), Controlled(live[id], i)
  PROVE  Mine(id)
BY DEF InventoryInv, Markers, Uids, Controlled, Mine, Present, TypeOK, RecordType

\* What the loops work on is an identity.
LEMMA ItemType ==
  ASSUME InventoryInv, pc \notin {"idle", "applied", "cleaned"}, InRange
  PROVE  /\ Item \in Objects
         /\ Deleting => n \in DOMAIN entries
         /\ ~Deleting => n \in DOMAIN Order
<1>1. CASE Deleting
  <2>1. n \in DOMAIN entries
    BY <1>1 DEF InventoryInv, AtItem, InRange, TypeOK, RecordType, LocalsType
  <2>2. entries[n] \in Entries
    BY <2>1 DEF InventoryInv, TypeOK, RecordType
  <2> QED BY <1>1, <2>1, <2>2 DEF Item, Entries
<1>2. CASE ~Deleting
  <2>1. n \in DOMAIN Order
    BY <1>2, ConstantsAssumption DEF InventoryInv, AtItem, InRange, TypeOK, LocalsType
  <2> QED BY <1>2, <2>1, ConstantsAssumption DEF Item
<1> QED BY <1>1, <1>2

\* The reconcile's own variables after Do and Continue.
LEMMA DoType ==
  ASSUME LocalsType, NEW i \in Nat, NEW obj \in LiveObjects,
         NEW step \in {"next", "intend", "create", "record", "redo", "patch", "patched",
                       "delete", "verify", "gone", "applied", "cleaned"},
         Do(step, i, obj)
  PROVE  LocalsType'
BY DEF LocalsType, Do

\* The same, for an item that is done or left for a later pass.
LEMMA ContinueType ==
  ASSUME LocalsType, NEW wait \in BOOLEAN, InRange, Continue(wait)
  PROVE  LocalsType'
<1>1. n' \in Nat
  BY DEF LocalsType, Continue, InRange
<1>2. seen' \in LiveObjects
  BY AbsentType DEF Continue
<1> QED BY <1>1, <1>2 DEF LocalsType, Continue

\* Going on to the next item, with the same number of entries.
LEMMA ContinueItem ==
  ASSUME InventoryInv, NEW wait, InRange, Continue(wait), pc \notin {"idle", "applied", "cleaned"},
         UNCHANGED plan, Len(entries') = Len(entries)
  PROVE  AtItem' /\ Seen'
<1>1. Seen'
  BY DEF Continue, Seen
<1>2. loop # "none" /\ n \in Nat /\ Len(entries) \in Nat /\ (~Deleting => n >= 1)
  BY DEF InventoryInv, AtItem, TypeOK, RecordType, LocalsType
<1>3. Deleting => n <= Len(entries)
  BY ItemType DEF InventoryInv, TypeOK, RecordType
<1>4. loop \in {"namespaces", "prune", "objects"} => plan # 0
  BY DEF InventoryInv, AtItem
<1> QED BY <1>1, <1>2, <1>3, <1>4 DEF Continue, AtItem, Deleting

\* Get and the choice of what to write.
LEMMA ReadStep ==
  ASSUME InventoryInv, InspectNew \/ InspectKnown \/ InspectEntry \/ Verify
                       \/ DependencyWaits
  PROVE  InventoryInv'
<1> USE AbsentType DEF InventoryInv
<1>0. UNCHANGED <<record, guest, meddling, faults>>
  BY DEF InspectNew, InspectKnown, InspectEntry, Verify, DependencyWaits, NoWrite
<1>1. OneOpen' /\ Uids' /\ Markers'
  BY <1>0, Unwritten DEF record
<1>t. /\ Len(entries) \in Nat /\ DOMAIN entries = 1 .. Len(entries) /\ n \in Nat
      /\ 0 \notin created /\ live \in [Objects -> LiveObjects] /\ LocalsType
  BY DEF TypeOK, RecordType, LocalsType, GuestType
<1>c. cleaned' => cleanup' /\ \A j \in DOMAIN entries' : entries'[j].deleted
  BY <1>0 DEF Cleaning, record
<1>r. CASE Return
  BY <1>r, <1>0, <1>1, <1>c, Returned, UnwrittenType
<1>2. CASE InspectNew /\ ~Return
  <2>1. /\ pc = "next" /\ ~Deleting /\ InRange /\ Current(Item) = {}
        /\ \/ ~Present(Item) /\ Do("intend", 0, Absent)
           \/ loop = "namespaces" /\ Continue(FALSE)
    BY <1>2 DEF InspectNew
  <2>i. Item \in Objects /\ n \in DOMAIN Order
    BY <2>1, ItemType
  <2>2. LocalsType'
    BY <2>1, <1>t, DoType, ContinueType
  <2>3. AtItem'
    BY <2>1, <2>i, <1>0, <1>t DEF Do, Continue, AtItem, record, Deleting, Current, Item,
       TypeOK, LocalsType
  <2>4. Seen'
    BY <2>1, <2>i, <1>0 DEF Do, Continue, Seen, Item, Deleting, Mine, guest, Present, Exists,
       TypeOK, GuestType
  <2>5. Cleaning'
    BY <2>1, <1>0, <1>t DEF Do, Continue, Cleaning, record, Deleting
  <2> QED BY <1>0, <1>1, <2>2, <2>3, <2>4, <2>5, UnwrittenType
<1>3. CASE InspectKnown /\ ~Return
  <2>1. PICK i \in Current(Item) :
        /\ pc = "next" /\ ~Deleting /\ InRange
        /\ \/ ~Present(Item) /\ entries[i].uid = 0 /\ Do("create", i, Absent)
           \/ ~Present(Item) /\ Do("redo", i, Absent)
           \/ /\ Present(Item) /\ Controlled(live[Item], i)
              /\ \/ entries[i].uid = 0 /\ Do("record", i, live[Item])
                 \/ Do("patch", i, live[Item])
           \/ Continue(FALSE)
    BY <1>3 DEF InspectKnown, Present
  <2>i. Item \in Objects /\ n \in DOMAIN Order
    BY <2>1, ItemType
  <2>e. /\ i \in DOMAIN entries /\ i \in Nat
        /\ entries[i].id = Item /\ ~entries[i].deleted
    BY <1>t DEF Current
  <2>l. live[Item] \in LiveObjects
    BY <2>i, <1>t
  <2>m. Controlled(live[Item], i) /\ Present(Item) => Mine(Item) /\ live[Item].op = i
    BY <2>i, <2>e, ControlledIsMine DEF Controlled
  <2>2. LocalsType'
    BY <2>1, <2>e, <2>l, <1>t, DoType, ContinueType
  <2>c. CASE Continue(FALSE)
    <3>1. AtItem' /\ Seen'
      BY <2>c, <2>1, <1>0, ContinueItem DEF record
    <3>2. Cleaning'
      BY <2>c, <2>1, <1>0 DEF Continue, Cleaning, record, Deleting
    <3> QED BY <1>0, <1>1, <2>2, <3>1, <3>2, UnwrittenType
  <2>d. CASE ~Continue(FALSE)
    <3>1. AtItem'
      BY <2>d, <2>1, <2>i, <2>e, <1>0, <1>t DEF Do, AtItem, record, Deleting, Item
    <3>2. Seen'
      BY <2>d, <2>1, <2>i, <2>e, <2>m, <1>0, <1>t DEF Do, Seen, Item, Deleting, Mine, guest,
         record, Present, Exists
    <3>3. Cleaning'
      BY <2>d, <2>1, <1>0, <1>t DEF Do, Cleaning, record, Deleting
    <3> QED BY <1>0, <1>1, <2>2, <3>1, <3>2, <3>3, UnwrittenType
  <2> QED BY <2>c, <2>d
<1>4. CASE (InspectEntry \/ Verify) /\ ~Return
  <2>1. /\ Deleting /\ InRange /\ n \in DOMAIN entries /\ ~entries[n].deleted
        /\ pc \in {"next", "verify"}
        /\ \/ ~Present(Item) /\ Do("gone", n, Absent)
           \/ /\ Present(Item) /\ Controlled(live[Item], n)
              /\ Do("delete", n, live[Item])
           \/ Continue(TRUE)
    <3>1. CASE InspectEntry
      <4>1. n \in DOMAIN entries /\ ~entries[n].deleted
        BY <3>1, ItemType DEF InspectEntry, Relevant, Deleting
      <4> QED BY <4>1, <1>4, <3>1 DEF InspectEntry, Wait, Present
    <3>2. CASE Verify
      <4>1. pc = "verify" /\ at = n /\ n \in DOMAIN entries /\ Deleting /\ ~entries[n].deleted
        BY <3>2 DEF Verify, AtItem
      <4>2. InRange
        BY <4>1, <1>t DEF InRange
      <4> QED BY <4>1, <4>2, <1>4, <3>2 DEF Verify, Wait
    <3> QED BY <1>4, <3>1, <3>2
  <2>i. Item \in Objects /\ Item = entries[n].id
    BY <2>1, ItemType DEF Item
  <2>l. live[Item] \in LiveObjects
    BY <2>i, <1>t
  <2>m. Controlled(live[Item], n) /\ Present(Item) => Mine(Item)
    BY <2>i, <2>1, ControlledIsMine
  <2>2. LocalsType'
    BY <2>1, <2>l, <1>t, DoType, ContinueType
  <2>c. CASE Continue(TRUE)
    <3>1. AtItem' /\ Seen'
      BY <2>c, <2>1, <1>0, ContinueItem DEF record
    <3>2. Cleaning'
      BY <2>c, <2>1, <1>0 DEF Continue, Cleaning, record, Deleting
    <3> QED BY <1>0, <1>1, <2>2, <3>1, <3>2, UnwrittenType
  <2>d. CASE ~Continue(TRUE)
    <3>0. /\ pc' \in {"gone", "delete"} /\ at' = n
          /\ UNCHANGED <<loop, n, pending, entries, cleanup, cleaned, plan>>
      BY <2>d, <2>1, <1>0 DEF Do, record
    <3>1. AtItem'
      BY <3>0, <2>1, <2>i, <1>t DEF AtItem, Deleting, Item
    <3>2. Seen'
      BY <2>d, <2>1, <2>i, <2>m, <1>0, <1>t DEF Do, Seen, Item, Deleting, Mine, guest,
         record, Present, Exists
    <3>3. Cleaning'
      BY <3>0 DEF Cleaning
    <3> QED BY <1>0, <1>1, <2>2, <3>1, <3>2, <3>3, UnwrittenType
  <2> QED BY <2>c, <2>d
<1> QED BY <1>r, <1>2, <1>3, <1>4 DEF DependencyWaits

\* A save of one entry keeps what is said of entries and guest, if it forgets
\* no UID, records only the UID of the engine's object and closes only an entry
\* without one.
LEMMA ChangedKeeps ==
  ASSUME InventoryInv, NEW i \in DOMAIN entries, Changed(entries', i),
         UNCHANGED guest,
         entries[i].deleted => entries'[i].deleted,
         entries'[i].deleted => entries[i].deleted \/ ~Mine(entries[i].id),
         \/ entries'[i].uid = entries[i].uid
         \/ /\ entries[i].uid = 0 /\ entries'[i].uid \in created
            /\ Mine(entries[i].id) => live[entries[i].id].uid = entries'[i].uid
  PROVE  OneOpen' /\ Uids' /\ Markers'
<1> USE DEF InventoryInv, Changed
<1>0. 0 \notin created
  BY DEF TypeOK, GuestType
<1>1. OneOpen'
  BY DEF OneOpen
<1>2. Uids'
  BY DEF Uids, guest
<1>3. Markers'
  <2> SUFFICES ASSUME NEW id \in Objects
      PROVE /\ Mine(id) =>
               /\ live[id].op \in DOMAIN entries
               /\ entries'[live[id].op].id = id /\ ~entries'[live[id].op].deleted
               /\ entries'[live[id].op].uid \in {0, live[id].uid}
            /\ Present(id) /\ ~Mine(id) /\ live[id].op # 0 =>
               live[id].op \in DOMAIN entries /\ entries'[live[id].op].uid # 0
    BY DEF Markers, guest, Mine, Present, Exists
  <2>1. CASE Mine(id)
    BY <2>1 DEF Markers
  <2>2. CASE ~Mine(id)
    BY <2>2, <1>0 DEF Markers
  <2> QED BY <2>1, <2>2
<1> QED BY <1>1, <1>2, <1>3

\* A fault stays within its bound.
LEMMA FaultType == TypeOK /\ Fault => faults' \in 0 .. MaxFaults
BY ConstantsAssumption DEF TypeOK, Fault

\* What the saves of one entry do: after a creation or adoption, after a patch,
\* and when an object is found missing.
LEMMA SaveEffect ==
  ASSUME InventoryInv, Record \/ Patched \/ Redo \/ Gone
  PROVE  /\ at \in DOMAIN entries /\ entries[at].id = Item /\ ~entries[at].deleted
         /\ InRange /\ pc \in {"record", "patched", "redo", "gone"}
         /\ Deleting <=> pc = "gone"
         /\ Item \in Objects
         /\ Changed(entries', at)
         /\ UNCHANGED <<plan, applied, cleanup, cleaned, guest, meddling>>
         /\ \/ pc = "record" /\ entries'[at].uid = seen.uid /\ ~entries'[at].deleted
            \/ pc = "patched" /\ entries'[at].uid = entries[at].uid /\ ~entries'[at].deleted
            \/ pc \in {"redo", "gone"} /\ entries'[at].uid = entries[at].uid /\ entries'[at].deleted
         /\ faults' \in 0 .. MaxFaults
         /\ \/ Return
            \/ pc = "redo" /\ Do("next", 0, Absent)
            \/ pc # "redo" /\ Continue(IF pc = "gone" THEN pending ELSE FALSE)
<1> USE DEF InventoryInv
<1>t. /\ Len(entries) \in Nat /\ DOMAIN entries = 1 .. Len(entries) /\ n \in Nat
      /\ 0 \notin created /\ LocalsType /\ entries \in Seq(Entries) /\ pending \in BOOLEAN
      /\ seen \in LiveObjects
  BY DEF TypeOK, RecordType, LocalsType, GuestType
<1>a. /\ at \in DOMAIN entries /\ entries[at].id = Item /\ ~entries[at].deleted
      /\ InRange /\ pc \in {"record", "patched", "redo", "gone"}
      /\ Deleting <=> pc = "gone"
  <2>1. pc \in {"record", "patched", "redo", "gone"}
    BY DEF Record, Patched, Redo, Gone
  <2>2. /\ at \in DOMAIN entries /\ entries[at].id = Item /\ ~entries[at].deleted
        /\ Deleting <=> pc = "gone"
        /\ Deleting => n \in DOMAIN entries
        /\ ~Deleting => n \in DOMAIN Order
    BY <2>1 DEF AtItem
  <2>3. InRange
    BY <2>2, <1>t, ConstantsAssumption DEF InRange
  <2> QED BY <2>1, <2>2, <2>3
<1>i. Item \in Objects
  BY <1>a, ItemType
<1>d. pc \in {"record", "patched"} => Desired[plan][Item] \in Nat
  <2>1. ~Deleting /\ loop # "none" => plan # 0
    BY DEF AtItem, Deleting, TypeOK, LocalsType
  <2>2. pc \in {"record", "patched"} => plan # 0
    BY <1>a, <2>1 DEF AtItem
  <2> QED BY <1>i, <2>2, DesiredType DEF TypeOK, RecordType
<1>u. seen.uid \in Nat
  BY <1>t DEF LiveObjects
<1>1. /\ Changed(entries', at)
      /\ UNCHANGED <<plan, applied, cleanup, cleaned, guest, meddling>>
      /\ \/ pc = "record" /\ entries'[at].uid = seen.uid /\ ~entries'[at].deleted
         \/ pc = "patched" /\ entries'[at].uid = entries[at].uid /\ ~entries'[at].deleted
         \/ pc \in {"redo", "gone"} /\ entries'[at].uid = entries[at].uid /\ entries'[at].deleted
  <2>1. CASE Record
    <3>1. pc = "record" /\ UNCHANGED <<plan, applied, cleanup, cleaned, guest, meddling>>
      BY <2>1 DEF Record, Save
    <3>2. /\ Changed(entries', at)
          /\ entries'[at].uid = seen.uid /\ entries'[at].deleted = entries[at].deleted
      BY <3>1, <2>1, <1>t, <1>a, <1>d, <1>u, RecordSaved
    <3> QED BY <3>1, <3>2, <1>a
  <2>2. CASE Patched
    BY <2>2, <1>t, <1>a, <1>d, PatchedEffect DEF Patched, Save
  <2>3. CASE Redo
    BY <2>3, <1>t, <1>a, CloseEffect DEF Redo, Save
  <2>4. CASE Gone
    BY <2>4, <1>t, <1>a, CloseEffect DEF Gone, Save
  <2> QED BY <2>1, <2>2, <2>3, <2>4
<1>4. /\ faults' \in 0 .. MaxFaults
      /\ \/ Return
         \/ pc = "redo" /\ Do("next", 0, Absent)
         \/ pc # "redo" /\ Continue(IF pc = "gone" THEN pending ELSE FALSE)
  BY FaultType DEF Record, Patched, Redo, Gone, Save, Outcome, TypeOK
<1> QED BY <1>a, <1>i, <1>1, <1>4

\* Such a save keeps the invariant.
LEMMA SaveStep ==
  ASSUME InventoryInv, Record \/ Patched \/ Redo \/ Gone
  PROVE  InventoryInv'
<1> USE DEF InventoryInv
<1>t. /\ Len(entries) \in Nat /\ DOMAIN entries = 1 .. Len(entries) /\ n \in Nat
      /\ 0 \notin created /\ LocalsType /\ entries \in Seq(Entries) /\ pending \in BOOLEAN
      /\ seen \in LiveObjects
  BY DEF TypeOK, RecordType, LocalsType, GuestType
<1>a. /\ at \in DOMAIN entries /\ entries[at].id = Item /\ ~entries[at].deleted
      /\ InRange /\ pc \in {"record", "patched", "redo", "gone"}
      /\ Deleting <=> pc = "gone"
      /\ Item \in Objects
  BY SaveEffect
<1>1. /\ Changed(entries', at)
      /\ UNCHANGED <<plan, applied, cleanup, cleaned, guest, meddling>>
      /\ \/ pc = "record" /\ entries'[at].uid = seen.uid /\ ~entries'[at].deleted
         \/ pc = "patched" /\ entries'[at].uid = entries[at].uid /\ ~entries'[at].deleted
         \/ pc \in {"redo", "gone"} /\ entries'[at].uid = entries[at].uid /\ entries'[at].deleted
  BY SaveEffect
<1>2. OneOpen' /\ Uids' /\ Markers'
  <2>1. pc = "record" => /\ seen.uid \in created
                         /\ Mine(Item) => live[Item].uid = seen.uid
    BY DEF Seen
  <2>2. pc \in {"redo", "gone"} => ~Mine(Item)
    BY DEF Seen
  <2>3. pc = "record" => entries[at].uid = 0
    BY DEF AtItem
  <2> QED BY <1>a, <1>1, <2>1, <2>2, <2>3, ChangedKeeps
<1>3. ~cleaned
  BY <1>a DEF Cleaning
<1>4. /\ faults' \in 0 .. MaxFaults
      /\ \/ Return
         \/ pc = "redo" /\ Do("next", 0, Absent)
         \/ pc # "redo" /\ Continue(IF pc = "gone" THEN pending ELSE FALSE)
  BY SaveEffect
<1>5. RecordType' /\ GuestType'
  BY <1>1 DEF TypeOK, RecordType, GuestType, Changed, guest
<1>6. LocalsType' /\ AtItem' /\ Seen' /\ Cleaning'
  <2>1. CASE Return
    BY <2>1, <1>1, <1>3, Returned
  <2>2. CASE pc = "redo" /\ Do("next", 0, Absent)
    <3>1. LocalsType'
      BY <2>2, <1>t, DoType, AbsentType
    <3>2. AtItem'
      BY <2>2, <1>a, <1>1, <1>t DEF Do, AtItem, Deleting, Changed
    <3>3. Seen' /\ Cleaning'
      BY <2>2, <1>a, <1>1, <1>3 DEF Do, Seen, Cleaning, Deleting
    <3> QED BY <3>1, <3>2, <3>3
  <2>3. CASE pc # "redo" /\ Continue(IF pc = "gone" THEN pending ELSE FALSE)
    <3>1. LocalsType'
      BY <2>3, <1>t, <1>a, ContinueType
    <3>2. AtItem' /\ Seen'
      BY <2>3, <1>a, <1>1, ContinueItem DEF Changed
    <3>3. Cleaning'
      <4>1. CASE pc = "gone"
        BY <4>1, <2>3, <1>a, <1>1, <1>3, <1>t DEF Continue, Cleaning, Deleting, Changed, AtItem
      <4>2. CASE pc # "gone"
        BY <4>2, <2>3, <1>a, <1>1, <1>3 DEF Continue, Cleaning, Deleting
      <4> QED BY <4>1, <4>2
    <3> QED BY <3>1, <3>2, <3>3
  <2> QED BY <1>4, <2>1, <2>2, <2>3
<1> QED BY <1>1, <1>2, <1>4, <1>5, <1>6 DEF TypeOK
\* Saving the intent to create an object, before the creation.
LEMMA IntendStep ==
  ASSUME InventoryInv, Intend
  PROVE  InventoryInv'
<1> USE DEF InventoryInv
<1>t. /\ Len(entries) \in Nat /\ DOMAIN entries = 1 .. Len(entries) /\ n \in Nat
      /\ LocalsType /\ entries \in Seq(Entries) /\ 0 \notin created
  BY DEF TypeOK, RecordType, LocalsType, GuestType
<1>a. /\ pc = "intend" /\ loop # "none" /\ ~Deleting /\ n \in DOMAIN Order
      /\ Current(Item) = {} /\ loop \in {"namespaces", "objects"} /\ plan # 0
  BY <1>t DEF Intend, AtItem, Deleting, LocalsType
<1>i. Item \in Objects /\ InRange
  <2>1. InRange
    BY <1>a, ConstantsAssumption DEF InRange
  <2> QED BY <2>1, <1>a, ItemType
<1>c. ~cleanup /\ ~cleaned
  BY <1>a DEF Cleaning
<1> DEFINE e == [id |-> Item, uid |-> 0, applied |-> 0, deleted |-> FALSE]
<1>e. e \in Entries /\ e.id = Item /\ e.uid = 0 /\ ~e.deleted
  BY <1>i DEF Entries
<1>1. /\ entries' = Append(entries, e)
      /\ UNCHANGED <<plan, applied, cleanup, cleaned, guest, meddling>>
      /\ Outcome(Do("create", Len(entries) + 1, Absent))
  BY DEF Intend, Save
<1> HIDE DEF e
<1>2. /\ entries' \in Seq(Entries) /\ Len(entries') = Len(entries) + 1
      /\ DOMAIN entries' = 1 .. Len(entries) + 1
      /\ \A j \in DOMAIN entries : entries'[j] = entries[j]
      /\ entries'[Len(entries) + 1] = e
  BY <1>1, <1>e, <1>t
<1>3. OneOpen'
  <2>1. \A j \in DOMAIN entries : entries[j].id = Item => entries[j].deleted
    BY <1>a DEF Current
  <2> QED BY <1>2, <1>e, <1>t, <2>1 DEF OneOpen
<1>4. Uids'
  BY <1>1, <1>2, <1>e, <1>t DEF Uids, guest
<1>5. Markers'
  <2>1. \A j \in DOMAIN entries : j \in DOMAIN entries'
    BY <1>2, <1>t
  <2> SUFFICES ASSUME NEW id \in Objects
      PROVE /\ Mine(id) =>
               /\ live[id].op \in DOMAIN entries'
               /\ entries'[live[id].op].id = id /\ ~entries'[live[id].op].deleted
               /\ entries'[live[id].op].uid \in {0, live[id].uid}
            /\ Present(id) /\ ~Mine(id) /\ live[id].op # 0 =>
               live[id].op \in DOMAIN entries' /\ entries'[live[id].op].uid # 0
    BY <1>1 DEF Markers, guest, Mine, Present, Exists
  <2> QED BY <2>1, <1>2 DEF Markers
<1>6. RecordType' /\ GuestType'
  BY <1>1, <1>2 DEF TypeOK, RecordType, GuestType, guest
<1>7. LocalsType' /\ AtItem' /\ Seen' /\ Cleaning' /\ faults' \in 0 .. MaxFaults
  <2>1. CASE Return /\ Fault
    BY <2>1, <1>1, <1>c, Returned, FaultType
  <2>2. CASE Do("create", Len(entries) + 1, Absent) /\ UNCHANGED faults
    <3>1. LocalsType'
      BY <2>2, <1>t, DoType, AbsentType
    <3>2. /\ pc' = "create" /\ at' = Len(entries) + 1
          /\ UNCHANGED <<loop, n, pending, faults, plan>>
      BY <2>2, <1>1 DEF Do
    <3>3. Item' = Item /\ ~Deleting'
      BY <3>2, <1>a DEF Item, Deleting
    <3>4. /\ at' \in DOMAIN entries' /\ entries'[at'].id = Item'
          /\ ~entries'[at'].deleted /\ entries'[at'].uid = 0
      BY <3>2, <3>3, <1>2, <1>e, <1>t
    <3>5. AtItem'
      BY <3>2, <3>3, <3>4, <1>a, ConstantsAssumption DEF AtItem
    <3>6. Seen' /\ Cleaning'
      BY <3>2, <1>1, <1>a, <1>c DEF Seen, Cleaning
    <3> QED BY <3>1, <3>2, <3>5, <3>6 DEF TypeOK
  <2> QED BY <1>1, <2>1, <2>2 DEF Outcome
<1> QED BY <1>1, <1>3, <1>4, <1>5, <1>6, <1>7 DEF TypeOK

\* The object at the cursor of a reconcile that is past its Get.
LEMMA AtObject ==
  ASSUME InventoryInv, pc \notin {"idle", "next", "applied", "cleaned"}
  PROVE  Item \in Objects
<1>1. InRange
  <2>1. /\ Deleting => n \in DOMAIN entries
        /\ ~Deleting => n \in DOMAIN Order
    BY DEF InventoryInv, AtItem
  <2> QED BY <2>1, ConstantsAssumption DEF InventoryInv, TypeOK, RecordType, InRange
<1> QED BY <1>1, ItemType

\* A step that marks, edits or removes objects, and adds none of the engine's.
\* No finalizer is added after a deletion.
Kept ==
  /\ live' \in [Objects -> LiveObjects]
  /\ UNCHANGED <<entries, created, uids>>
  /\ \A id \in Objects :
       \/ live'[id] = Absent
       \/ /\ live'[id].uid = live[id].uid /\ live'[id].op = live[id].op
          /\ live[id].deleting => live'[id].deleting /\ (live'[id].held => live[id].held)

\* Such a step keeps what is said of entries and guest.
LEMMA KeptGuest ==
  ASSUME InventoryInv, Kept
  PROVE  /\ OneOpen' /\ Uids' /\ Markers' /\ GuestType'
         /\ \A id \in Objects : Mine(id)' => Mine(id) /\ live'[id].uid = live[id].uid
<1> USE DEF InventoryInv
<1>0. 0 \notin created /\ Absent.uid = 0 /\ uids \in Nat
  BY DEF TypeOK, GuestType, Absent
<1>1. OneOpen'
  BY DEF OneOpen, Kept
<1>2. Uids'
  BY <1>0 DEF Uids, Kept
<1>3. \A id \in Objects : Mine(id)' => Mine(id) /\ live'[id].uid = live[id].uid
  BY <1>0 DEF Kept, Mine
<1>4. Markers'
  <2> SUFFICES ASSUME NEW id \in Objects
      PROVE /\ live'[id].uid \in created =>
               /\ live'[id].op \in DOMAIN entries
               /\ entries[live'[id].op].id = id /\ ~entries[live'[id].op].deleted
               /\ entries[live'[id].op].uid \in {0, live'[id].uid}
            /\ live'[id].uid # 0 /\ live'[id].uid \notin created /\ live'[id].op # 0 =>
               live'[id].op \in DOMAIN entries /\ entries[live'[id].op].uid # 0
    BY DEF Markers, Kept, Mine, Present, Exists
  <2> QED BY <1>0 DEF Markers, Kept, Mine, Present, Exists
<1>5. GuestType'
  BY DEF Kept, TypeOK, GuestType
<1> QED BY <1>1, <1>2, <1>3, <1>4, <1>5

\* What users and controllers of the guest do leaves the reconcile's own
\* variables alone.
LEMMA Elsewhere ==
  ASSUME InventoryInv, UNCHANGED <<record, pc, locals, created>>,
         \A id \in Objects : Mine(id)' => Mine(id) /\ live'[id].uid = live[id].uid
  PROVE  LocalsType' /\ AtItem' /\ Seen' /\ Cleaning'
<1> USE DEF InventoryInv, record, locals
<1>1. LocalsType' /\ Item' = Item /\ Deleting' = Deleting
  BY DEF TypeOK, LocalsType, Item, Deleting
<1>2. AtItem'
  BY <1>1 DEF AtItem, Current
<1>3. Seen'
  BY <1>1, AtObject DEF Seen
<1>4. Cleaning'
  BY DEF Cleaning
<1> QED BY <1>1, <1>2, <1>3, <1>4
\* Creating an object for an open entry without a UID.
LEMMA CreateStep ==
  ASSUME InventoryInv, Create
  PROVE  InventoryInv'
<1> USE DEF InventoryInv
<1>t. /\ LocalsType /\ uids \in Nat /\ created \subseteq 1 .. uids
      /\ live \in [Objects -> LiveObjects] /\ at \in Nat /\ RecordType
  BY DEF TypeOK, GuestType, LocalsType
<1>a. /\ pc = "create" /\ loop # "none" /\ ~Deleting /\ n \in DOMAIN Order /\ n >= 1
      /\ at \in DOMAIN entries /\ entries[at].id = Item /\ ~entries[at].deleted
      /\ entries[at].uid = 0
  BY DEF Create, AtItem
<1>b. plan # 0 /\ ~cleanup /\ ~cleaned
  BY <1>a, <1>t DEF AtItem, Cleaning, Deleting, LocalsType
<1>i. Item \in Objects
  BY <1>a, AtObject
<1>0. UNCHANGED <<entries, plan, applied, cleanup, cleaned, meddling>>
  BY DEF Create, record
<1>1. CASE ~Creatable(Item)
  <2>1. Return /\ UNCHANGED <<record, guest, meddling, faults>>
    BY <1>1 DEF Create
  <2> QED BY <2>1, <1>b, Unwritten, Returned, UnwrittenType DEF record
<1>2. CASE Creatable(Item)
  <2> DEFINE obj == NewObject(at, Desired[plan][Item])
  <2>1. obj \in LiveObjects /\ obj.uid = uids + 1 /\ obj.op = at
    BY <1>b, <1>i, <1>t, DesiredType, NewObjectType DEF RecordType
  <2>2. /\ live' = [live EXCEPT ![Item] = obj]
        /\ uids' = uids + 1 /\ created' = created \cup {uids + 1}
        /\ Outcome(Do("record", at, obj))
    BY <1>2 DEF Create
  <2> HIDE DEF obj
  <2>3. ~Present(Item)
    BY <1>2 DEF Creatable
  <2>4. GuestType' /\ RecordType'
    <3>1. live' \in [Objects -> LiveObjects]
      BY <2>1, <2>2, <1>t
    <3>2. uids' \in Nat /\ created' \subseteq 1 .. uids'
      BY <2>2, <1>t
    <3>3. RecordType'
      BY <1>0, <1>t DEF RecordType
    <3> QED BY <3>1, <3>2, <3>3 DEF GuestType
  <2>5. live'[Item] = obj /\ \A x \in Objects : x # Item => live'[x] = live[x]
    BY <2>2, <1>t, <1>i
  <2>u. \A x \in Objects : live[x].uid # uids + 1
    BY <1>t DEF Uids, LiveObjects
  <2>6. OneOpen'
    BY <1>0 DEF OneOpen
  <2>7. Uids'
    <3>1. \A x \in Objects : live'[x].uid <= uids'
      BY <2>1, <2>2, <2>5, <1>t DEF Uids, LiveObjects
    <3> QED BY <3>1, <2>2, <1>0 DEF Uids
  <2>8. Markers'
    <3> SUFFICES ASSUME NEW id \in Objects
        PROVE /\ live'[id].uid \in created' =>
                 /\ live'[id].op \in DOMAIN entries
                 /\ entries[live'[id].op].id = id /\ ~entries[live'[id].op].deleted
                 /\ entries[live'[id].op].uid \in {0, live'[id].uid}
              /\ live'[id].uid # 0 /\ live'[id].uid \notin created' /\ live'[id].op # 0 =>
                 live'[id].op \in DOMAIN entries /\ entries[live'[id].op].uid # 0
      BY <1>0 DEF Markers, Mine, Present, Exists
    <3>1. CASE id = Item
      BY <3>1, <2>1, <2>2, <2>5, <1>a
    <3>2. CASE id # Item
      <4>1. live'[id] = live[id] /\ (live[id].uid \in created' <=> live[id].uid \in created)
        BY <3>2, <2>2, <2>5, <2>u
      <4> QED BY <4>1 DEF Markers, Mine, Present, Exists
    <3> QED BY <3>1, <3>2
  <2>9. LocalsType' /\ AtItem' /\ Seen' /\ Cleaning' /\ faults' \in 0 .. MaxFaults
    <3>1. CASE Return /\ Fault
      BY <3>1, <1>0, <1>b, Returned, FaultType
    <3>2. CASE Do("record", at, obj) /\ UNCHANGED faults
      <4>1. LocalsType'
        BY <3>2, <1>t, <2>1, DoType
      <4>2. pc' = "record" /\ seen' = obj /\ UNCHANGED <<at, loop, n, pending, faults>>
        BY <3>2 DEF Do
      <4>3. Item' = Item /\ ~Deleting'
        BY <4>2, <1>0, <1>a DEF Item, Deleting
      <4>4. AtItem'
        BY <4>2, <4>3, <1>0, <1>a, <1>b DEF AtItem
      <4>5. Seen'
        BY <4>2, <4>3, <2>1, <2>2, <2>5 DEF Seen
      <4>6. Cleaning'
        BY <4>2, <1>0, <1>a, <1>b DEF Cleaning, Deleting
      <4> QED BY <4>1, <4>2, <4>4, <4>5, <4>6 DEF TypeOK
    <3> QED BY <2>2, <3>1, <3>2 DEF Outcome
  <2> QED BY <2>4, <2>6, <2>7, <2>8, <2>9, <1>0 DEF TypeOK
<1> QED BY <1>1, <1>2

\* The refresh patch and the deletion mark, change or remove one object.
LEMMA WriteKept ==
  ASSUME InventoryInv, Patch \/ Delete
  PROVE  Kept
<1> USE DEF InventoryInv
<1>t. LocalsType /\ live \in [Objects -> LiveObjects] /\ RecordType
  BY DEF TypeOK, GuestType
<1>0. UNCHANGED <<entries, created, uids>>
  BY DEF Patch, Delete, record, guest
<1>i. Item \in Objects
  BY AtObject DEF Patch, Delete
<1>a. /\ loop # "none" /\ (Deleting <=> pc = "delete")
      /\ loop \in {"namespaces", "prune", "objects"} => plan # 0
  BY DEF AtItem, Patch, Delete
<1>1. live' = live => Kept
  BY <1>0, <1>t DEF Kept
<1>2. CASE Patch
  <2> DEFINE obj == [live[Item] EXCEPT !.content = Desired[plan][Item]]
  <2>1. plan # 0
    BY <1>2, <1>a, <1>t DEF Patch, Deleting, LocalsType
  <2>2. Desired[plan][Item] \in Nat
    BY <2>1, <1>i, <1>t, DesiredType DEF RecordType
  <2>3. live[Item] \in LiveObjects
    BY <1>i, <1>t
  <2>4. /\ obj \in LiveObjects /\ obj.uid = live[Item].uid /\ obj.op = live[Item].op
        /\ obj.held = live[Item].held /\ obj.deleting = live[Item].deleting
    BY <2>2, <2>3 DEF LiveObjects
  <2>5. live' = live \/ live' = [live EXCEPT ![Item] = obj]
    BY <1>2, <1>t, <1>i DEF Patch, guest
  <2> HIDE DEF obj
  <2> QED BY <1>1, <2>4, <2>5, <1>0, <1>t, <1>i DEF Kept
<1>3. CASE Delete
  <2>1. live' = live \/ live' = Removed(Item)
    BY <1>3 DEF Delete
  <2>2. live' = Removed(Item) => Kept
    BY <1>0, <1>i, <1>t, RemovedType DEF Kept
  <2> QED BY <2>1, <2>2, <1>1
<1> QED BY <1>2, <1>3

\* The refresh patch and the deletion of an object.
LEMMA WriteStep ==
  ASSUME InventoryInv, Patch \/ Delete
  PROVE  InventoryInv'
<1> USE DEF InventoryInv
<1>t. /\ LocalsType /\ live \in [Objects -> LiveObjects] /\ RecordType /\ at \in Nat
      /\ faults \in 0 .. MaxFaults
  BY DEF TypeOK, GuestType, LocalsType
<1>0. UNCHANGED <<entries, plan, applied, cleanup, cleaned, created, uids, meddling>>
  BY DEF Patch, Delete, record, guest
<1>p. pc \in {"patch", "delete"}
  BY DEF Patch, Delete
<1>i. Item \in Objects
  BY <1>p, AtObject
<1>a. /\ loop # "none" /\ n >= 1
      /\ Deleting => n \in DOMAIN entries
      /\ ~Deleting => n \in DOMAIN Order
      /\ Deleting <=> pc = "delete"
      /\ at \in DOMAIN entries /\ entries[at].id = Item /\ ~entries[at].deleted
      /\ pc = "delete" => at = n
      /\ loop \in {"namespaces", "prune", "objects"} => plan # 0
  BY <1>p DEF AtItem
<1>c. ~cleaned
  BY <1>a DEF Cleaning
<1>1. Kept
  BY WriteKept
<1>2. OneOpen' /\ Uids' /\ Markers' /\ GuestType'
  BY <1>1, KeptGuest
<1>3. RecordType'
  BY <1>0, <1>t DEF RecordType
<1>4. /\ faults' \in 0 .. MaxFaults
      /\ \/ Return
         \/ pc = "patch" /\ Do("patched", at, seen)
         \/ pc = "delete" /\ Do("verify", at, Absent)
  BY <1>t, FaultType DEF Patch, Delete, Outcome
<1>5. LocalsType' /\ AtItem' /\ Seen' /\ Cleaning'
  <2>1. CASE Return
    BY <2>1, <1>0, <1>c, Returned
  <2>2. CASE \/ pc = "patch" /\ Do("patched", at, seen)
             \/ pc = "delete" /\ Do("verify", at, Absent)
    <3>1. LocalsType'
      BY <2>2, <1>t, AbsentType, DoType DEF LocalsType
    <3>2. /\ \/ pc = "patch" /\ pc' = "patched"
             \/ pc = "delete" /\ pc' = "verify"
          /\ UNCHANGED <<at, loop, n, pending>>
      BY <2>2 DEF Do
    <3>3. Item' = Item /\ Deleting' = Deleting
      BY <3>2, <1>0 DEF Item, Deleting
    <3>4. AtItem'
      BY <3>2, <3>3, <1>0, <1>a DEF AtItem
    <3>5. Seen'
      BY <3>2 DEF Seen
    <3>6. Cleaning'
      BY <3>2, <1>0, <1>c DEF Cleaning
    <3> QED BY <3>1, <3>4, <3>5, <3>6
  <2> QED BY <1>4, <2>1, <2>2
<1> QED BY <1>0, <1>2, <1>3, <1>4, <1>5 DEF TypeOK
\* The saves of the revision and of the end of cleanup, the operator's faults,
\* and the calls that start a capture or the cleanup.
LEMMA FlagStep ==
  ASSUME InventoryInv,
         SaveApplied \/ SaveCleaned \/ Interrupted \/ Capture \/ StartCleanup
  PROVE  InventoryInv'
<1> USE DEF InventoryInv
<1>t. LocalsType /\ GuestType /\ RecordType /\ n \in Nat /\ faults \in 0 .. MaxFaults
  BY DEF TypeOK, LocalsType
<1>0. UNCHANGED <<entries, guest, meddling>>
  BY DEF SaveApplied, SaveCleaned, Interrupted, Capture, StartCleanup, record
<1>1. OneOpen' /\ Uids' /\ Markers' /\ GuestType'
  <2>1. GuestType'
    BY <1>0, <1>t DEF GuestType, guest
  <2> QED BY <2>1, <1>0, Unwritten
<1>2. RecordType' /\ faults' \in 0 .. MaxFaults
  <2>1. MaxPlans \in Nat
    BY ConstantsAssumption DEF MaxPlans
  <2>2. CASE SaveApplied
    BY <2>2, <1>t, FaultType DEF SaveApplied, RecordType, Outcome
  <2>3. CASE SaveCleaned
    BY <2>3, <1>t, FaultType DEF SaveCleaned, RecordType, Outcome
  <2>4. CASE Interrupted
    BY <2>4, <1>t, FaultType DEF Interrupted, RecordType, record
  <2>5. CASE Capture
    BY <2>5, <2>1, <1>t DEF Capture, RecordType
  <2>6. CASE StartCleanup
    BY <2>6, <1>t DEF StartCleanup, RecordType
  <2> QED BY <2>2, <2>3, <2>4, <2>5, <2>6
<1>c. SaveCleaned => \A j \in DOMAIN entries : entries[j].deleted
  BY <1>t DEF SaveCleaned, Cleaning, RecordType
<1>3. LocalsType' /\ AtItem' /\ Seen' /\ Cleaning'
  <2>1. CASE SaveApplied \/ SaveCleaned \/ Interrupted
    <3>1. Return
      BY <2>1 DEF SaveApplied, SaveCleaned, Interrupted, Outcome
    <3>2. cleaned' => cleanup' /\ \A j \in DOMAIN entries' : entries'[j].deleted
      <4>1. CASE SaveCleaned
        BY <4>1, <1>c, <1>0 DEF SaveCleaned, Cleaning
      <4>2. CASE SaveApplied \/ Interrupted
        BY <4>2, <1>0 DEF SaveApplied, Interrupted, Cleaning, record
      <4> QED BY <2>1, <4>1, <4>2
    <3> QED BY <3>1, <3>2, Returned
  <2>2. CASE Capture \/ StartCleanup
    <3>1. pc = "idle" /\ ~cleanup /\ UNCHANGED <<pc, locals, cleaned>>
      BY <2>2 DEF Capture, StartCleanup
    <3>2. LocalsType' /\ Seen'
      BY <3>1, <1>t DEF LocalsType, Seen, locals
    <3>3. ~cleaned /\ loop = "none"
      BY <3>1 DEF Cleaning, AtItem
    <3>4. AtItem'
      BY <2>2, <3>1, <1>t, ConstantsAssumption DEF Capture, StartCleanup, AtItem, locals,
         RecordType, MaxPlans
    <3>5. Cleaning'
      BY <2>2, <3>1, <3>3 DEF Capture, StartCleanup, Cleaning, locals
    <3> QED BY <3>2, <3>4, <3>5
  <2> QED BY <2>1, <2>2
<1> QED BY <1>0, <1>1, <1>2, <1>3 DEF TypeOK

\* So do the controllers of the guest, and users who delete or edit.
LEMMA GuestKept ==
  ASSUME InventoryInv, NEW id \in Objects,
         Hold(id) \/ Serve(id) \/ Finalize(id) \/ Sweep(id) \/ UserDelete(id) \/ UserEdit(id)
  PROVE  Kept
<1> USE DEF InventoryInv
<1>t. live \in [Objects -> LiveObjects]
  BY DEF TypeOK, GuestType
<1>z. UNCHANGED <<record, created, uids>>
  BY DEF Hold, Serve, Finalize, Sweep, UserDelete, UserEdit
<1>0. UNCHANGED <<entries, created, uids>>
  BY <1>z DEF record
<1>1. CASE Sweep(id) \/ UserDelete(id)
  <2>1. live' = Removed(id)
    BY <1>1 DEF Sweep, UserDelete
  <2> QED BY <2>1, <1>0, <1>t, RemovedType DEF Kept
<1>2. CASE Finalize(id)
  <2>1. live' = [live EXCEPT ![id] = Absent]
    BY <1>2 DEF Finalize
  <2> QED BY <2>1, <1>0, <1>t, AbsentType DEF Kept
<1>3. CASE UserEdit(id)
  <2> DEFINE obj == [live[id] EXCEPT !.edited = TRUE]
  <2>1. live[id] \in LiveObjects
    BY <1>t
  <2>2. /\ obj \in LiveObjects /\ obj.uid = live[id].uid /\ obj.op = live[id].op
        /\ obj.held = live[id].held /\ obj.deleting = live[id].deleting
    BY <2>1 DEF LiveObjects
  <2>3. live' = [live EXCEPT ![id] = obj]
    BY <1>3 DEF UserEdit
  <2> HIDE DEF obj
  <2> QED BY <2>2, <2>3, <1>0, <1>t DEF Kept
<1>4. CASE Hold(id) \/ Serve(id)
  <2>1. PICK b \in BOOLEAN :
          live' = [live EXCEPT ![id].held = b] /\ (live[id].deleting => b = FALSE)
    <3>1. CASE Hold(id)
      <4>1. live' = [live EXCEPT ![id].held = TRUE] /\ ~live[id].deleting
        BY <3>1 DEF Hold
      <4> QED BY <4>1
    <3>2. CASE Serve(id)
      <4>1. live' = [live EXCEPT ![id].held = FALSE]
        BY <3>2 DEF Serve
      <4> QED BY <4>1
    <3> QED BY <1>4, <3>1, <3>2
  <2> DEFINE obj == [live[id] EXCEPT !.held = b]
  <2>2. /\ obj \in LiveObjects /\ obj.uid = live[id].uid /\ obj.op = live[id].op
        /\ obj.held = b /\ obj.deleting = live[id].deleting
    BY <1>t DEF LiveObjects
  <2>3. live' = [live EXCEPT ![id] = obj]
    BY <2>1
  <2> HIDE DEF obj
  <2> QED BY <2>1, <2>2, <2>3, <1>0, <1>t DEF Kept
<1> QED BY <1>1, <1>2, <1>3, <1>4

\* The controllers of the guest, and users who delete or edit.
LEMMA KeepStep ==
  ASSUME InventoryInv, NEW id \in Objects,
         Hold(id) \/ Serve(id) \/ Finalize(id) \/ Sweep(id) \/ UserDelete(id) \/ UserEdit(id)
  PROVE  InventoryInv'
<1> USE DEF InventoryInv
<1>t. live \in [Objects -> LiveObjects] /\ RecordType
  BY DEF TypeOK, GuestType
<1>0. UNCHANGED <<record, created, uids, pc, locals, faults>>
  BY DEF Hold, Serve, Finalize, Sweep, UserDelete, UserEdit
<1>1. Kept
  BY GuestKept
<1>2. OneOpen' /\ Uids' /\ Markers' /\ GuestType'
  BY <1>1, KeptGuest
<1>3. LocalsType' /\ AtItem' /\ Seen' /\ Cleaning'
  BY <1>0, <1>1, KeptGuest, Elsewhere
<1>4. RecordType' /\ meddling' \in 0 .. MaxMeddling /\ faults' \in 0 .. MaxFaults
  <2>1. RecordType'
    BY <1>0, <1>t DEF RecordType, record
  <2>2. meddling' \in 0 .. MaxMeddling
    BY ConstantsAssumption DEF Hold, Serve, Finalize, Sweep, UserDelete, UserEdit, TypeOK
  <2> QED BY <2>1, <2>2, <1>0 DEF TypeOK
<1> QED BY <1>2, <1>3, <1>4 DEF TypeOK

\* Users who create: their objects have another UID than the engine's.
LEMMA UserCreateStep ==
  ASSUME InventoryInv, NEW id \in Objects, UserCreate(id)
  PROVE  InventoryInv'
<1> USE DEF InventoryInv
<1>t. /\ live \in [Objects -> LiveObjects] /\ RecordType
      /\ uids \in Nat /\ created \subseteq 1 .. uids
  BY DEF TypeOK, GuestType
<1>0. /\ UNCHANGED <<record, created, pc, locals, faults, entries>> /\ uids' = uids + 1
      /\ meddling' = meddling + 1 /\ meddling < MaxMeddling
  BY DEF UserCreate, record
<1>1. PICK op \in {0} \cup {i \in DOMAIN entries : entries[i].id = id /\ entries[i].uid # 0} :
        live' = [live EXCEPT ![id] = NewObject(op, 0)]
  BY DEF UserCreate
<1> DEFINE obj == NewObject(op, 0)
<1>o. op \in Nat /\ (op # 0 => op \in DOMAIN entries /\ entries[op].uid # 0)
  BY <1>t DEF RecordType
<1>2. obj \in LiveObjects /\ obj.uid = uids + 1 /\ obj.op = op
  BY <1>o, <1>t, NewObjectType
<1>3. live' = [live EXCEPT ![id] = obj]
  BY <1>1
<1> HIDE DEF obj
<1>4. live'[id] = obj /\ \A x \in Objects : x # id => live'[x] = live[x]
  BY <1>3, <1>t
<1>5. GuestType'
  <2>1. live' \in [Objects -> LiveObjects]
    BY <1>2, <1>3, <1>t
  <2>2. uids' \in Nat /\ created' \subseteq 1 .. uids'
    BY <1>0, <1>t
  <2> QED BY <2>1, <2>2 DEF GuestType
<1>6. uids + 1 \notin created
  BY <1>t
<1>7. \A x \in Objects : Mine(x)' => Mine(x) /\ live'[x].uid = live[x].uid
  BY <1>0, <1>2, <1>4, <1>6 DEF Mine
<1>8. OneOpen' /\ Uids'
  <2>1. \A x \in Objects : live'[x].uid <= uids'
    BY <1>0, <1>2, <1>4, <1>t DEF Uids, LiveObjects
  <2> QED BY <2>1, <1>0 DEF OneOpen, Uids
<1>9. Markers'
  <2> SUFFICES ASSUME NEW x \in Objects
      PROVE /\ live'[x].uid \in created =>
               /\ live'[x].op \in DOMAIN entries
               /\ entries[live'[x].op].id = x /\ ~entries[live'[x].op].deleted
               /\ entries[live'[x].op].uid \in {0, live'[x].uid}
            /\ live'[x].uid # 0 /\ live'[x].uid \notin created /\ live'[x].op # 0 =>
               live'[x].op \in DOMAIN entries /\ entries[live'[x].op].uid # 0
    BY <1>0 DEF Markers, Mine, Present, Exists
  <2>1. CASE x = id
    BY <2>1, <1>2, <1>4, <1>6, <1>o
  <2>2. CASE x # id
    BY <2>2, <1>4 DEF Markers, Mine, Present, Exists
  <2> QED BY <2>1, <2>2
<1>10. LocalsType' /\ AtItem' /\ Seen' /\ Cleaning'
  BY <1>0, <1>7, Elsewhere
<1>11. RecordType' /\ meddling' \in 0 .. MaxMeddling /\ faults' \in 0 .. MaxFaults
  <2>1. RecordType'
    BY <1>0, <1>t DEF RecordType, record
  <2>2. meddling' \in 0 .. MaxMeddling
    BY <1>0, ConstantsAssumption DEF TypeOK
  <2> QED BY <2>1, <2>2, <1>0 DEF TypeOK
<1> QED BY <1>5, <1>8, <1>9, <1>10, <1>11 DEF TypeOK

\* Stuttering.
LEMMA Stutter == InventoryInv /\ UNCHANGED vars => InventoryInv'
<1> SUFFICES ASSUME InventoryInv, UNCHANGED vars PROVE InventoryInv'
  OBVIOUS
<1>0. UNCHANGED <<record, guest, meddling, faults, pc, locals>>
  BY DEF vars
<1>1. \A id \in Objects : Mine(id)' => Mine(id) /\ live'[id].uid = live[id].uid
  BY <1>0 DEF guest, Mine
<1>2. LocalsType' /\ AtItem' /\ Seen' /\ Cleaning'
  BY <1>0, <1>1, Elsewhere DEF guest
<1> QED BY <1>0, <1>2, Unwritten, UnwrittenType DEF InventoryInv, record

-----------------------------------------------------------------------------
\* The inductive invariant of the inventory.
THEOREM InventoryInvariance == Spec => []InventoryInv
<1>1. InventoryInv /\ [Next]_vars => InventoryInv'
  <2> SUFFICES ASSUME InventoryInv, [Next]_vars PROVE InventoryInv'
    OBVIOUS
  <2>1. CASE Engine
    BY <2>1, LoopStep, ReadStep, SaveStep, IntendStep, CreateStep, WriteStep, FlagStep
       DEF Engine
  <2>2. CASE DependencyWaits
    BY <2>2, ReadStep
  <2>3. CASE Interrupted \/ Capture \/ StartCleanup
    BY <2>3, FlagStep
  <2>4. CASE Controllers
    BY <2>4, KeepStep DEF Controllers
  <2>5. CASE User
    BY <2>5, KeepStep, UserCreateStep DEF User
  <2>6. CASE UNCHANGED vars
    BY <2>6, Stutter
  <2> QED BY <2>1, <2>2, <2>3, <2>4, <2>5, <2>6 DEF Next
<1> QED BY InvInit, <1>1, PTL DEF Spec

\* The variables keep their types (the type invariant of the runs).
THEOREM TypeCorrect == Spec => []TypeOK
<1>1. InventoryInv => TypeOK
  BY DEF InventoryInv
<1> QED BY <1>1, InventoryInvariance, PTL

\* Whatever crashes, failed saves and users do, an object the engine created
\* is found again through its entry: the intent saved before the creation.
THEOREM InventoryCompleteAlways == Spec => []InventoryComplete
<1>1. InventoryInv => InventoryComplete
  BY DEF InventoryInv, Markers, InventoryComplete, Current, Controlled
<1> QED BY <1>1, InventoryInvariance, PTL

\* GuestCleaned is never saved while an object of the engine is left.
THEOREM CleanedMeansGoneAlways == Spec => []CleanedMeansGone
<1>1. InventoryInv => CleanedMeansGone
  BY DEF InventoryInv, Markers, Cleaning, CleanedMeansGone
<1> QED BY <1>1, InventoryInvariance, PTL

\* No engine step changes an object the engine did not create: the marker and
\* UID read, and the precondition of the write, tell it apart.
THEOREM ForeignPreservedAlways == Spec => ForeignPreserved
<1>1. InventoryInv /\ Engine =>
        \A id \in Objects : Present(id) /\ ~Mine(id) => live'[id] = live[id]
  <2> SUFFICES ASSUME InventoryInv, Engine, NEW id \in Objects, Present(id), ~Mine(id)
      PROVE live'[id] = live[id]
    OBVIOUS
  <2>t. live \in [Objects -> LiveObjects]
    BY DEF InventoryInv, TypeOK, GuestType
  <2>1. CASE Create
    <3>1. Item \in Objects
      BY <2>1, AtObject DEF Create
    <3>2. CASE ~Creatable(Item)
      BY <2>1, <3>2 DEF Create, guest
    <3>3. CASE Creatable(Item)
      <4>1. live' = [live EXCEPT ![Item] = NewObject(at, Desired[plan][Item])]
        BY <2>1, <3>3 DEF Create
      <4>2. id # Item
        BY <3>3 DEF Creatable
      <4> QED BY <4>1, <4>2, <2>t
    <3> QED BY <3>2, <3>3
  <2>2. CASE Patch
    <3>1. Item \in Objects /\ seen.uid \in created
      BY <2>2, AtObject DEF Patch, InventoryInv, Seen
    <3>2. CASE live[Item] # seen
      BY <2>2, <3>2 DEF Patch, guest
    <3>3. CASE live[Item] = seen
      <4>1. id # Item
        BY <3>1, <3>3 DEF Mine
      <4>2. live' = [live EXCEPT ![Item].content = Desired[plan][Item]]
        BY <2>2, <3>3 DEF Patch
      <4> QED BY <4>1, <4>2, <2>t
    <3> QED BY <3>2, <3>3
  <2>3. CASE Delete
    <3>1. Item \in Objects /\ seen.uid \in created
      BY <2>3, AtObject DEF Delete, InventoryInv, Seen
    <3>2. \/ live' = live
          \/ live[Item] = seen /\ live' = Removed(Item)
      BY <2>3 DEF Delete
    <3>3. live[Item] = seen => id # Item
      BY <3>1 DEF Mine
    <3> QED BY <3>1, <3>2, <3>3, <2>t, RemovedType
  <2>4. CASE ~Create /\ ~Patch /\ ~Delete
    BY <2>4 DEF Engine, BeginSync, BeginCleanup, NextLoop, Skip, InspectNew,
       InspectKnown, Intend, Record, Redo, Patched, SaveApplied, InspectEntry, Verify,
       Gone, SaveCleaned, NoWrite, Save, guest
  <2> QED BY <2>1, <2>2, <2>3, <2>4
<1> QED BY <1>1, InventoryInvariance, PTL DEF ForeignPreserved, Spec

-----------------------------------------------------------------------------
\* What the loops have done for the plan.

\* An entry is of no concern to a prune: closed, of a namespace, or wanted.
Fit(i) == ~entries[i].deleted /\ entries[i].id \notin Namespaces => Wanted(entries[i].id)

\* The object of a planned identity was created and its UID saved.
Installed(id) == \E i \in Current(id) : entries[i].uid # 0

\* Before cleanup the entry of a namespace is never closed.
NamespacesKept ==
  ~cleanup => \A i \in DOMAIN entries : entries[i].id \in Namespaces => ~entries[i].deleted

\* Why the reconcile is where it is.
Purpose ==
  /\ pc \in {"intend", "create", "record", "redo", "patch", "patched"} =>
       /\ loop \in {"namespaces", "objects"} /\ Wanted(Item)
       /\ loop = "namespaces" <=> Item \in Namespaces
  /\ pc = "redo" => loop = "objects" /\ Refreshing
  /\ pc \in {"patch", "patched"} => entries[at].uid # 0
  /\ loop = "prune" => Refreshing
  /\ pc \in {"delete", "verify", "gone"} /\ loop = "prune" =>
       ~Wanted(Item) /\ Item \notin Namespaces

\* A prune has dealt with the entries above its cursor, and the objects of the
\* new plan are installed only after it.
Pruned ==
  /\ loop = "prune" => \A i \in DOMAIN entries : i > n => Fit(i)
  /\ loop = "objects" => \A i \in DOMAIN entries : Fit(i)

\* The objects below the cursor are installed.  One that is planned twice is not
\* while its second turn makes it again.
Installing ==
  /\ loop = "objects" =>
       \A k \in DOMAIN Order :
         k < n /\ Wanted(Order[k]) /\ Order[k] \notin Namespaces =>
           Installed(Order[k]) \/ (n \in DOMAIN Order /\ Order[k] = Order[n])
  /\ pc = "applied" => n > Len(Order)

\* Cleanup leaves only protected claims behind.
OnlyClaimsWait ==
  loop = "clean" =>
    \A i \in DOMAIN entries : i > n /\ ~entries[i].deleted => entries[i].id \in Volumes

PlanInv ==
  /\ applied <= plan
  /\ NamespacesKept
  /\ AppliedComplete
  /\ Purpose
  /\ Pruned
  /\ Installing
  /\ OnlyClaimsWait

\* Nothing is planned yet.
LEMMA PlanInit == Init => PlanInv
BY DEF Init, PlanInv, NamespacesKept, AppliedComplete, Purpose, Pruned, Installing,
   OnlyClaimsWait

\* What is wanted and installed follows from the record alone.
LEMMA SameRecord ==
  ASSUME UNCHANGED <<entries, plan>>
  PROVE  /\ \A id : Wanted(id)' = Wanted(id)
         /\ \A id : Current(id)' = Current(id)
         /\ \A id : Installed(id)' = Installed(id)
         /\ \A i : Fit(i)' = Fit(i)
<1>1. \A id : Wanted(id)' = Wanted(id)
  BY DEF Wanted
<1>2. \A id : Current(id)' = Current(id)
  BY DEF Current
<1>3. \A id : Installed(id)' = Installed(id)
  BY <1>2 DEF Installed
<1>4. \A i : Fit(i)' = Fit(i)
  BY <1>1 DEF Fit
<1> QED BY <1>1, <1>2, <1>3, <1>4

\* The identities of the entries.
LEMMA EntryId ==
  ASSUME TypeOK, NEW i \in DOMAIN entries
  PROVE  entries[i].id \in Objects
<1>1. entries[i] \in Entries
  BY DEF TypeOK, RecordType
<1> QED BY <1>1 DEF Entries

\* Steps that leave the record alone keep what is said of it.
LEMMA SamePlan ==
  ASSUME PlanInv, UNCHANGED <<entries, plan, applied, cleanup>>
  PROVE  (applied <= plan)' /\ NamespacesKept' /\ AppliedComplete'
<1>1. (applied <= plan)' /\ NamespacesKept'
  BY DEF PlanInv, NamespacesKept
<1>2. AppliedComplete'
  BY SameRecord DEF PlanInv, AppliedComplete
<1> QED BY <1>1, <1>2

\* A reconcile that returns has no purpose left.
LEMMA PlanReturned ==
  ASSUME Return
  PROVE  Purpose' /\ Pruned' /\ Installing' /\ OnlyClaimsWait'
BY DEF Return, Purpose, Pruned, Installing, OnlyClaimsWait

\* The guest, its users and stuttering steps do not touch the plan.
LEMMA PlanElsewhere ==
  ASSUME InventoryInv, PlanInv, UNCHANGED <<record, pc, locals>>
  PROVE  PlanInv'
<1> USE DEF record, locals
<1>0. UNCHANGED <<entries, plan, applied, cleanup, pc, loop, n, at>>
  OBVIOUS
<1>1. (applied <= plan)' /\ NamespacesKept' /\ AppliedComplete'
  BY <1>0, SamePlan
<1>2. /\ \A id : Wanted(id)' = Wanted(id) /\ Installed(id)' = Installed(id)
      /\ \A i : Fit(i)' = Fit(i)
  BY <1>0, SameRecord
<1>5. Item' = Item /\ Refreshing' = Refreshing
  BY <1>0 DEF Item, Deleting, Refreshing
<1>6. Purpose'
  BY <1>0, <1>2, <1>5 DEF PlanInv, Purpose
<1>7. Pruned' /\ OnlyClaimsWait'
  BY <1>0, <1>2 DEF PlanInv, Pruned, OnlyClaimsWait
<1>8. Installing'
  BY <1>0, <1>2 DEF PlanInv, Installing
<1> QED BY <1>1, <1>6, <1>7, <1>8 DEF PlanInv

\* Going on to the next planned object, when this one is installed.
LEMMA Advance ==
  ASSUME InventoryInv, PlanInv, ~Deleting, Continue(FALSE), UNCHANGED plan,
         n \in DOMAIN Order,
         \A id \in Objects : Installed(id) => Installed(id)',
         loop = "objects" =>
           \A id \in Objects : id = Item /\ Wanted(id) /\ id \notin Namespaces => Installed(id)'
  PROVE  Installing'
<1>1. pc' = "next" /\ n' = n + 1 /\ loop' = loop
  BY DEF Continue
<1>2. Item = Order[n]
  BY DEF Item
<1>3. n \in Nat /\ \A k \in DOMAIN Order : k \in Nat /\ Order[k] \in Objects
  BY ConstantsAssumption DEF InventoryInv, TypeOK, LocalsType
<1>4. \A id : Wanted(id)' = Wanted(id)
  BY DEF Wanted
<1> SUFFICES ASSUME loop = "objects", NEW k \in DOMAIN Order, k < n + 1,
                    Wanted(Order[k]), Order[k] \notin Namespaces
             PROVE  Installed(Order[k])'
  BY <1>1, <1>4 DEF Installing
<1>5. CASE Order[k] = Order[n]
  BY <1>5, <1>2, <1>3
<1>6. CASE Order[k] # Order[n]
  <2>1. k < n
    BY <1>6, <1>3
  <2>2. Installed(Order[k])
    BY <2>1, <1>6 DEF PlanInv, Installing
  <2> QED BY <2>2, <1>3
<1> QED BY <1>5, <1>6

\* Entering the loops and skipping what calls for no work.
LEMMA PlanLoop ==
  ASSUME InventoryInv, PlanInv, BeginSync \/ BeginCleanup \/ NextLoop \/ Skip
  PROVE  PlanInv'
<1> USE DEF InventoryInv, PlanInv
<1>0. UNCHANGED <<entries, plan, applied, cleanup>>
  BY DEF BeginSync, BeginCleanup, NextLoop, Skip, NoWrite, record
<1>1. (applied <= plan)' /\ NamespacesKept' /\ AppliedComplete'
  BY <1>0, SamePlan
<1>2. /\ \A id : Wanted(id)' = Wanted(id) /\ Installed(id)' = Installed(id)
      /\ \A i : Fit(i)' = Fit(i)
  BY <1>0, SameRecord
<1>t. /\ Len(entries) \in Nat /\ DOMAIN entries = 1 .. Len(entries) /\ n \in Nat
      /\ DOMAIN Order = 1 .. Len(Order) /\ Len(Order) \in Nat
      /\ loop \in {"none", "namespaces", "prune", "objects", "clean"}
  BY ConstantsAssumption DEF TypeOK, RecordType, LocalsType
<1>3. CASE Return
  BY <1>3, <1>1, PlanReturned
<1>4. CASE Enter("namespaces") \/ Enter("clean")
  BY <1>4, <1>1, <1>0, <1>t DEF Enter, Purpose, Pruned, Installing, OnlyClaimsWait
<1>5. CASE NextLoop /\ loop = "namespaces" /\ Refreshing
  <2>1. Enter("prune")
    BY <1>5 DEF NextLoop
  <2>2. Refreshing'
    BY <1>5, <1>0 DEF Refreshing
  <2> QED BY <2>1, <2>2, <1>0, <1>1, <1>t DEF Enter, Purpose, Pruned, Installing, OnlyClaimsWait
<1>6. CASE NextLoop /\ (loop = "prune" \/ (loop = "namespaces" /\ ~Refreshing))
  <2>1. Enter("objects") /\ ~InRange
    BY <1>6 DEF NextLoop
  <2>2. \A i \in DOMAIN entries : Fit(i)
    <3>1. CASE loop = "prune"
      <4>1. n = 0
        BY <3>1, <2>1, <1>t DEF InRange, Deleting
      <4> QED BY <4>1, <3>1, <1>t DEF Pruned
    <3>2. CASE loop = "namespaces" /\ ~Refreshing
      BY <3>2 DEF Refreshing, AtItem, Cleaning, AppliedComplete, Fit
    <3> QED BY <1>6, <3>1, <3>2
  <2> QED BY <2>1, <2>2, <1>0, <1>1, <1>2, <1>t
         DEF Enter, Purpose, Pruned, Installing, OnlyClaimsWait
<1>7. CASE NextLoop /\ loop = "objects"
  <2>1. /\ Do("applied", 0, Absent) /\ n > Len(Order)
    BY <1>7, <1>t DEF NextLoop, InRange, Deleting
  <2> QED BY <2>1, <1>7, <1>0, <1>1, <1>2, <1>t
         DEF Do, Purpose, Pruned, Installing, OnlyClaimsWait
<1>8. CASE NextLoop /\ loop \notin {"namespaces", "prune", "objects"} /\ ~Return
  <2>1. Do("cleaned", 0, Absent) /\ loop = "clean"
    BY <1>8, <1>t DEF NextLoop, AtItem
  <2> QED BY <2>1, <1>0, <1>1, <1>t DEF Do, Purpose, Pruned, Installing, OnlyClaimsWait
<1>9. CASE Skip
  <2>1. Continue(pending) /\ pc = "next" /\ InRange /\ ~Relevant
    BY <1>9 DEF Skip
  <2>2. CASE ~Deleting
    <3>1. /\ loop \in {"namespaces", "objects"} /\ n \in DOMAIN Order
          /\ pc' = "next" /\ n' = n + 1 /\ loop' = loop
      BY <2>1, <2>2, <1>t, ItemType DEF AtItem, Deleting, Continue
    <3>2. Purpose' /\ Pruned' /\ OnlyClaimsWait'
      BY <3>1, <1>0, <1>2 DEF Purpose, Pruned, OnlyClaimsWait
    <3>3. Installing'
      <4>1. loop = "objects" => Item \in Namespaces \/ ~Wanted(Item)
        BY <2>1 DEF Relevant
      <4>2. Item = Order[n]
        BY <2>2 DEF Item
      <4> QED BY <3>1, <4>1, <4>2, <1>2, <1>t DEF Installing
    <3> QED BY <1>1, <3>2, <3>3
  <2>3. CASE Deleting
    <3>1. /\ loop \in {"prune", "clean"} /\ n \in DOMAIN entries /\ Item = entries[n].id
          /\ pc' = "next" /\ n' = n - 1 /\ loop' = loop
      BY <2>1, <2>3, ItemType DEF Deleting, Continue, Item
    <3>2. loop = "prune" => Fit(n)
      BY <2>1, <3>1 DEF Relevant, Fit
    <3>3. loop = "clean" => entries[n].deleted
      BY <2>1, <3>1 DEF Relevant
    <3>4. \A i \in DOMAIN entries : i > n' => i > n \/ i = n
      BY <3>1, <1>t
    <3>5. Pruned' /\ OnlyClaimsWait'
      BY <3>1, <3>2, <3>3, <3>4, <1>0, <1>2 DEF Pruned, OnlyClaimsWait
    <3>6. Purpose' /\ Installing'
      BY <3>1, <1>0 DEF Purpose, Installing, Refreshing
    <3> QED BY <1>1, <3>5, <3>6
  <2> QED BY <2>2, <2>3
<1>10. BeginSync \/ BeginCleanup => Enter("namespaces") \/ Enter("clean")
  BY DEF BeginSync, BeginCleanup
<1> QED BY <1>3, <1>4, <1>5, <1>6, <1>7, <1>8, <1>9, <1>10

\* Get and the choice of what to write.
LEMMA PlanRead ==
  ASSUME InventoryInv, PlanInv, InspectNew \/ InspectKnown \/ InspectEntry \/ Verify
                                \/ DependencyWaits
  PROVE  PlanInv'
<1> USE DEF InventoryInv, PlanInv
<1>0. UNCHANGED <<entries, plan, applied, cleanup>>
  BY DEF InspectNew, InspectKnown, InspectEntry, Verify, DependencyWaits, NoWrite, record
<1>1. (applied <= plan)' /\ NamespacesKept' /\ AppliedComplete'
  BY <1>0, SamePlan
<1>2. /\ \A id : Wanted(id)' = Wanted(id) /\ Installed(id)' = Installed(id)
      /\ \A i : Fit(i)' = Fit(i)
  BY <1>0, SameRecord
<1>t. /\ Len(entries) \in Nat /\ DOMAIN entries = 1 .. Len(entries) /\ n \in Nat
      /\ DOMAIN Order = 1 .. Len(Order) /\ Len(Order) \in Nat
      /\ loop \in {"none", "namespaces", "prune", "objects", "clean"}
  BY ConstantsAssumption DEF TypeOK, RecordType, LocalsType
<1>3. CASE Return
  BY <1>3, <1>1, PlanReturned
<1>4. CASE (InspectNew \/ InspectKnown) /\ ~Return
  <2>1. /\ pc = "next" /\ ~Deleting /\ InRange /\ Relevant
    BY <1>4 DEF InspectNew, InspectKnown
  <2>2. loop \in {"namespaces", "objects"} /\ n \in DOMAIN Order /\ Item \in Objects
    BY <2>1, <1>t, ItemType DEF AtItem, Deleting
  <2>3. Wanted(Item) /\ (loop = "namespaces" <=> Item \in Namespaces)
    BY <2>1, <2>2 DEF Relevant
  <2>4. \/ loop = "namespaces" /\ Continue(FALSE)
        \/ Continue(FALSE) /\ Installed(Item)
        \/ Do("intend", 0, Absent)
        \/ \E i \in DOMAIN entries : Do("create", i, Absent)
        \/ \E i \in DOMAIN entries : Do("record", i, live[Item])
        \/ \E i \in DOMAIN entries : Do("redo", i, Absent) /\ Refreshing /\ loop = "objects"
        \/ \E i \in DOMAIN entries : Do("patch", i, live[Item]) /\ entries[i].uid # 0
    <3>1. CASE InspectNew
      BY <3>1, <1>4 DEF InspectNew
    <3>2. CASE InspectKnown
      BY <3>2, <1>4 DEF InspectKnown, Current, Installed
    <3> QED BY <1>4, <3>1, <3>2
  <2>5. CASE Continue(FALSE)
    <3>1. pc' = "next" /\ loop' = loop
      BY <2>5 DEF Continue
    <3>2. Purpose' /\ Pruned' /\ OnlyClaimsWait'
      BY <3>1, <2>2, <1>0, <1>2 DEF Purpose, Pruned, OnlyClaimsWait
    <3>3. CASE loop = "namespaces"
      BY <3>1, <3>2, <3>3, <1>1 DEF Installing
    <3>4. CASE Installed(Item)
      BY <3>2, <3>4, <2>1, <2>2, <2>5, <1>0, <1>1, <1>2, Advance
    <3>5. loop = "namespaces" \/ Installed(Item)
      BY <2>4, <3>1 DEF Do
    <3> QED BY <3>3, <3>4, <3>5
  <2>6. CASE ~Continue(FALSE)
    <3>1. /\ UNCHANGED <<loop, n>>
          /\ pc' \in {"intend", "create", "record", "redo", "patch"}
          /\ pc' = "redo" => Refreshing /\ loop = "objects"
          /\ pc' = "patch" => entries[at'].uid # 0
      BY <2>4, <2>6 DEF Do
    <3>2. Item' = Item /\ Refreshing' = Refreshing
      BY <3>1, <1>0 DEF Item, Deleting, Refreshing
    <3>3. Purpose'
      BY <3>1, <3>2, <2>2, <2>3, <1>0, <1>2 DEF Purpose
    <3>4. Pruned' /\ Installing' /\ OnlyClaimsWait'
      BY <3>1, <2>2, <1>0, <1>2 DEF Pruned, Installing, OnlyClaimsWait
    <3> QED BY <3>3, <3>4, <1>1
  <2> QED BY <2>5, <2>6
<1>5. CASE (InspectEntry \/ Verify) /\ ~Return
  <2>1. /\ Deleting /\ n \in DOMAIN entries /\ Item = entries[n].id /\ Item \in Objects
        /\ loop = "prune" => ~Wanted(Item) /\ Item \notin Namespaces
    <3>1. CASE InspectEntry
      BY <3>1, ItemType DEF InspectEntry, Relevant, Item
    <3>2. CASE Verify
      BY <3>2, AtObject DEF Verify, AtItem, Purpose, Item
    <3> QED BY <1>5, <3>1, <3>2
  <2>2. \/ Do("gone", at', Absent)
        \/ Do("delete", n, live[Item])
        \/ loop = "clean" /\ Item \in Volumes /\ Continue(TRUE)
    BY <1>5 DEF InspectEntry, Verify, Wait, Do
  <2>3. CASE Continue(TRUE)
    <3>1. /\ loop = "clean" /\ Item \in Volumes
          /\ pc' = "next" /\ n' = n - 1 /\ loop' = loop
      BY <2>1, <2>2, <2>3 DEF Do, Continue
    <3>2. \A i \in DOMAIN entries : i > n' => i > n \/ i = n
      BY <3>1, <1>t
    <3>3. OnlyClaimsWait'
      BY <3>1, <3>2, <2>1, <1>0 DEF OnlyClaimsWait
    <3> QED BY <3>1, <3>3, <1>1 DEF Purpose, Pruned, Installing
  <2>4. CASE ~Continue(TRUE)
    <3>1. UNCHANGED <<loop, n>> /\ pc' \in {"gone", "delete"}
      BY <2>2, <2>4 DEF Do
    <3>2. Item' = Item /\ Refreshing' = Refreshing /\ loop \in {"prune", "clean"}
      BY <3>1, <2>1, <1>0 DEF Item, Deleting, Refreshing
    <3>3. Purpose' /\ Installing'
      BY <3>1, <3>2, <2>1, <1>2 DEF Purpose, Installing
    <3>4. Pruned' /\ OnlyClaimsWait'
      BY <3>1, <1>0, <1>2 DEF Pruned, OnlyClaimsWait
    <3> QED BY <3>3, <3>4, <1>1
  <2> QED BY <2>3, <2>4
<1> QED BY <1>3, <1>4, <1>5 DEF DependencyWaits

\* Saves of one entry.
LEMMA PlanSave ==
  ASSUME InventoryInv, PlanInv, Record \/ Patched \/ Redo \/ Gone
  PROVE  PlanInv'
<1> USE DEF InventoryInv, PlanInv
<1>t. /\ Len(entries) \in Nat /\ DOMAIN entries = 1 .. Len(entries) /\ n \in Nat
      /\ DOMAIN Order = 1 .. Len(Order) /\ Len(Order) \in Nat /\ 0 \notin created
      /\ loop \in {"none", "namespaces", "prune", "objects", "clean"}
  BY ConstantsAssumption DEF TypeOK, RecordType, LocalsType, GuestType
<1>a. /\ at \in DOMAIN entries /\ entries[at].id = Item /\ ~entries[at].deleted
      /\ InRange /\ pc \in {"record", "patched", "redo", "gone"}
      /\ Deleting <=> pc = "gone"
      /\ Item \in Objects
  BY SaveEffect
<1>1. /\ Changed(entries', at)
      /\ UNCHANGED <<plan, applied, cleanup>>
      /\ pc = "record" => entries'[at].uid = seen.uid
      /\ pc # "record" => entries'[at].uid = entries[at].uid
      /\ entries'[at].deleted <=> pc \in {"redo", "gone"}
  BY SaveEffect
<1>2. \/ Return
      \/ pc = "redo" /\ Do("next", 0, Absent)
      \/ pc # "redo" /\ Continue(IF pc = "gone" THEN pending ELSE FALSE)
  BY SaveEffect
<1>3. \A id : Wanted(id)' = Wanted(id)
  BY <1>1 DEF Wanted
<1>4. /\ DOMAIN entries' = DOMAIN entries
      /\ \A i \in DOMAIN entries : entries'[i].id = entries[i].id /\ (Fit(i) => Fit(i)')
  BY <1>1, <1>3, <1>a DEF Changed, Fit
<1>5. pc = "record" => seen.uid # 0
  BY <1>t DEF Seen
<1>6. pc \in {"record", "patched"} => entries'[at].uid # 0
  BY <1>1, <1>5 DEF Purpose
<1>7. \A id \in Objects : Installed(id) /\ (pc \in {"record", "patched"} \/ id # Item)
        => Installed(id)'
  <2> SUFFICES ASSUME NEW id \in Objects, Installed(id),
                      pc \in {"record", "patched"} \/ id # Item
               PROVE  \E i \in DOMAIN entries' : /\ entries'[i].id = id /\ ~entries'[i].deleted
                                                 /\ entries'[i].uid # 0
    BY DEF Installed, Current
  <2>1. PICK i \in DOMAIN entries : /\ entries[i].id = id /\ ~entries[i].deleted
                                    /\ entries[i].uid # 0
    BY DEF Installed, Current
  <2>2. CASE i = at
    BY <2>1, <2>2, <1>1, <1>4, <1>6, <1>a
  <2>3. CASE i # at
    BY <2>1, <2>3, <1>1, <1>4 DEF Changed
  <2> QED BY <2>2, <2>3
<1>8. pc = "redo" => loop = "objects" /\ Refreshing /\ Item \notin Namespaces
  BY DEF Purpose
<1>9. pc = "gone" => \/ loop = "clean" /\ cleanup
                     \/ loop = "prune" /\ Refreshing /\ Item \notin Namespaces
  BY <1>a DEF Purpose, Cleaning, Deleting
<1>10. (applied <= plan)'
  BY <1>1
<1>11. NamespacesKept'
  <2>1. cleanup \/ pc \in {"record", "patched"} \/ Item \notin Namespaces
    BY <1>8, <1>9, <1>a
  <2>2. \A i \in DOMAIN entries :
          entries'[i].deleted => entries[i].deleted \/ (i = at /\ pc \in {"redo", "gone"})
    BY <1>1 DEF Changed
  <2> QED BY <2>1, <2>2, <1>1, <1>4, <1>a DEF NamespacesKept
<1>12. AppliedComplete'
  <2>1. CASE cleanup \/ Refreshing
    BY <2>1, <1>1 DEF AppliedComplete, Refreshing
  <2>2. CASE pc \in {"record", "patched"}
    <3> SUFFICES ASSUME applied = plan, plan # 0, ~cleanup
        PROVE /\ \A id \in Objects \ Namespaces : Wanted(id) => Installed(id)'
              /\ \A i \in DOMAIN entries : Fit(i)'
      BY <1>1, <1>3, <1>4 DEF AppliedComplete, Installed, Fit
    <3>1. /\ \A id \in Objects \ Namespaces : Wanted(id) => Installed(id)
          /\ \A i \in DOMAIN entries : Fit(i)
      BY DEF AppliedComplete, Installed, Fit
    <3> QED BY <3>1, <2>2, <1>4, <1>7
  <2> QED BY <2>1, <2>2, <1>8, <1>9, <1>a
<1>13. CASE Return
  BY <1>13, <1>10, <1>11, <1>12, PlanReturned
<1>14. CASE pc = "redo" /\ Do("next", 0, Absent)
  <2>1. loop = "objects" /\ pc' = "next" /\ UNCHANGED <<loop, n>>
    BY <1>14, <1>8 DEF Do
  <2>2. Pruned' /\ OnlyClaimsWait' /\ Purpose'
    BY <2>1, <1>4 DEF Pruned, OnlyClaimsWait, Purpose
  <2>3. Installing'
    <3>1. Item = Order[n] /\ n \in DOMAIN Order
      BY <2>1, <1>14, <1>a DEF Item, Deleting, AtItem
    <3>2. \A k \in DOMAIN Order : Order[k] \in Objects
      BY ConstantsAssumption
    <3> QED BY <2>1, <3>1, <3>2, <1>3, <1>7 DEF Installing
  <2> QED BY <2>2, <2>3, <1>10, <1>11, <1>12
<1>15. CASE pc \in {"record", "patched"} /\ Continue(FALSE)
  <2>1. /\ ~Deleting /\ n \in DOMAIN Order /\ loop' = loop /\ pc' = "next"
        /\ loop \in {"namespaces", "objects"}
    BY <1>15, <1>a DEF AtItem, Continue, Purpose
  <2>2. Pruned' /\ OnlyClaimsWait' /\ Purpose'
    BY <2>1, <1>4 DEF Pruned, OnlyClaimsWait, Purpose
  <2>3. \A id \in Objects : id = Item => Installed(id)'
    BY <1>1, <1>4, <1>6, <1>15, <1>a DEF Installed, Current
  <2>4. Installing'
    BY <2>1, <2>3, <1>15, <1>1, <1>7, Advance
  <2> QED BY <2>2, <2>4, <1>10, <1>11, <1>12
<1>16. CASE pc = "gone" /\ Continue(pending)
  <2>1. /\ Deleting /\ at = n /\ loop \in {"prune", "clean"}
        /\ loop' = loop /\ pc' = "next" /\ n' = n - 1
    BY <1>16, <1>a DEF AtItem, Continue, Deleting
  <2>2. entries'[n].deleted
    BY <2>1, <1>1, <1>16
  <2>3. \A i \in DOMAIN entries : i > n' => i > n \/ i = n
    BY <2>1, <1>t
  <2>4. \A i \in DOMAIN entries : i # n => entries'[i] = entries[i]
    BY <2>1, <1>1 DEF Changed
  <2>5. Pruned'
    <3>1. \A i \in DOMAIN entries : i = n => Fit(i)'
      BY <2>1, <1>1, <1>16 DEF Fit
    <3> QED BY <2>1, <2>3, <3>1, <1>4 DEF Pruned
  <2>6. OnlyClaimsWait'
    BY <2>1, <2>2, <2>3, <2>4, <1>4 DEF OnlyClaimsWait
  <2>7. Purpose' /\ Installing'
    <3>1. loop = "prune" => Refreshing'
      BY <1>1 DEF Purpose, Refreshing
    <3> QED BY <2>1, <3>1 DEF Purpose, Installing
  <2> QED BY <2>5, <2>6, <2>7, <1>10, <1>11, <1>12
<1> QED BY <1>2, <1>13, <1>14, <1>15, <1>16, <1>a

\* A saved intent is one more entry of a wanted object.
LEMMA PlanIntend ==
  ASSUME InventoryInv, PlanInv, Intend
  PROVE  PlanInv'
<1> USE DEF InventoryInv, PlanInv
<1>t. /\ Len(entries) \in Nat /\ DOMAIN entries = 1 .. Len(entries) /\ n \in Nat
      /\ entries \in Seq(Entries)
  BY DEF TypeOK, RecordType, LocalsType
<1>a. /\ pc = "intend" /\ Wanted(Item) /\ loop \in {"namespaces", "objects"}
      /\ loop = "namespaces" <=> Item \in Namespaces
  BY DEF Intend, Purpose
<1>i. Item \in Objects
  BY <1>a, AtObject
<1> DEFINE e == [id |-> Item, uid |-> 0, applied |-> 0, deleted |-> FALSE]
<1>e. e \in Entries /\ e.id = Item /\ ~e.deleted
  BY <1>i DEF Entries
<1>1. /\ entries' = Append(entries, e)
      /\ UNCHANGED <<plan, applied, cleanup>>
      /\ Outcome(Do("create", Len(entries) + 1, Absent))
  BY DEF Intend, Save
<1> HIDE DEF e
<1>2. /\ DOMAIN entries' = 1 .. Len(entries) + 1
      /\ \A i \in DOMAIN entries : i \in DOMAIN entries' /\ entries'[i] = entries[i]
      /\ \A i \in DOMAIN entries' : i \in DOMAIN entries \/ entries'[i] = e
  BY <1>1, <1>e, <1>t
<1>3. \A id : Wanted(id)' = Wanted(id)
  BY <1>1 DEF Wanted
<1>4. \A i \in DOMAIN entries' : i \notin DOMAIN entries \/ Fit(i) => Fit(i)'
  BY <1>2, <1>3, <1>a, <1>e DEF Fit
<1>5. \A id : Installed(id) => Installed(id)'
  BY <1>2 DEF Installed, Current
<1>6. (applied <= plan)'
  BY <1>1
<1>7. NamespacesKept'
  BY <1>1, <1>2, <1>e DEF NamespacesKept
<1>8. AppliedComplete'
  <2> SUFFICES ASSUME applied = plan, plan # 0, ~cleanup
      PROVE /\ \A id \in Objects \ Namespaces : Wanted(id) => Installed(id)'
            /\ \A i \in DOMAIN entries' : Fit(i)'
    BY <1>1, <1>3 DEF AppliedComplete, Installed, Fit
  <2>1. /\ \A id \in Objects \ Namespaces : Wanted(id) => Installed(id)
        /\ \A i \in DOMAIN entries : Fit(i)
    BY DEF AppliedComplete, Installed, Fit
  <2> QED BY <2>1, <1>4, <1>5
<1>9. CASE Return
  BY <1>9, <1>6, <1>7, <1>8, PlanReturned
<1>10. CASE Do("create", Len(entries) + 1, Absent)
  <2>1. pc' = "create" /\ UNCHANGED <<loop, n>>
    BY <1>10 DEF Do
  <2>2. Item' = Item
    BY <2>1, <1>a DEF Item, Deleting
  <2>3. Purpose'
    BY <2>1, <2>2, <1>3, <1>a DEF Purpose
  <2>4. Pruned' /\ Installing' /\ OnlyClaimsWait'
    BY <2>1, <1>3, <1>4, <1>5, <1>a DEF Pruned, Installing, OnlyClaimsWait
  <2> QED BY <2>3, <2>4, <1>6, <1>7, <1>8
<1> QED BY <1>1, <1>9, <1>10 DEF Outcome

\* Writes to the guest go on to the save of what they did.
LEMMA PlanWrite ==
  ASSUME InventoryInv, PlanInv, Create \/ Patch \/ Delete
  PROVE  PlanInv'
<1> USE DEF InventoryInv, PlanInv
<1>0. UNCHANGED <<entries, plan, applied, cleanup>>
  BY DEF Create, Patch, Delete, record
<1>1. (applied <= plan)' /\ NamespacesKept' /\ AppliedComplete'
  BY <1>0, SamePlan
<1>2. /\ \A id : Wanted(id)' = Wanted(id) /\ Installed(id)' = Installed(id)
      /\ \A i : Fit(i)' = Fit(i)
  BY <1>0, SameRecord
<1>3. \/ Return
      \/ /\ UNCHANGED <<loop, n, at>>
         /\ \/ pc = "create" /\ pc' = "record"
            \/ pc = "patch" /\ pc' = "patched"
            \/ pc = "delete" /\ pc' = "verify"
  BY DEF Create, Patch, Delete, Outcome, Do
<1>4. CASE Return
  BY <1>4, <1>1, PlanReturned
<1>5. CASE ~Return
  <2>1. Item' = Item /\ Refreshing' = Refreshing
    BY <1>3, <1>5, <1>0 DEF Item, Deleting, Refreshing
  <2>2. Purpose'
    BY <2>1, <1>0, <1>2, <1>3, <1>5 DEF Purpose
  <2>3. Pruned' /\ Installing' /\ OnlyClaimsWait'
    BY <1>0, <1>2, <1>3, <1>5 DEF Pruned, Installing, OnlyClaimsWait
  <2> QED BY <2>2, <2>3, <1>1
<1> QED BY <1>4, <1>5

\* A plan counts as applied when the loops have gone through it.
LEMMA PlanFlag ==
  ASSUME InventoryInv, PlanInv,
         SaveApplied \/ SaveCleaned \/ Interrupted \/ Capture \/ StartCleanup
  PROVE  PlanInv'
<1> USE DEF InventoryInv, PlanInv
<1>t. /\ applied \in Nat /\ plan \in Nat
  BY ConstantsAssumption DEF TypeOK, RecordType, MaxPlans
<1>1. CASE SaveCleaned \/ Interrupted
  <2>1. Return /\ UNCHANGED <<entries, plan, applied, cleanup>>
    BY <1>1 DEF SaveCleaned, Interrupted, Outcome, record
  <2> QED BY <2>1, SamePlan, PlanReturned
<1>2. CASE SaveApplied
  <2>1. /\ Return /\ UNCHANGED <<entries, plan, cleanup>>
        /\ applied' = plan \/ applied' = applied
        /\ pc = "applied"
    BY <1>2 DEF SaveApplied, Outcome
  <2>2. (applied <= plan)' /\ NamespacesKept'
    BY <2>1, <1>t DEF NamespacesKept
  <2>3. loop = "objects" /\ n > Len(Order)
    BY <2>1 DEF AtItem, Installing
  <2>4. \A id \in Objects \ Namespaces : Wanted(id) => Installed(id)
    <3> SUFFICES ASSUME NEW id \in Objects \ Namespaces, Wanted(id)
                 PROVE  Installed(id)
      OBVIOUS
    <3>1. PICK k \in DOMAIN Order : Order[k] = id
      BY ConstantsAssumption
    <3>2. k < n /\ n \notin DOMAIN Order
      BY <2>3, ConstantsAssumption DEF TypeOK, LocalsType
    <3> QED BY <3>1, <3>2, <2>3 DEF Installing
  <2>5. \A i \in DOMAIN entries : Fit(i)
    BY <2>3 DEF Pruned
  <2>6. /\ \A id : Wanted(id)' = Wanted(id) /\ Installed(id)' = Installed(id)
        /\ \A i : Fit(i)' = Fit(i)
    BY <2>1, SameRecord
  <2>7. AppliedComplete'
    <3> SUFFICES /\ \A id \in Objects \ Namespaces : Wanted(id)' => Installed(id)'
                 /\ \A i \in DOMAIN entries : Fit(i)'
      BY <2>1 DEF AppliedComplete, Installed, Fit
    <3> QED BY <2>4, <2>5, <2>6
  <2> QED BY <2>1, <2>2, <2>7, PlanReturned
<1>3. CASE Capture \/ StartCleanup
  <2>1. /\ pc = "idle" /\ UNCHANGED <<entries, applied, pc, loop, n, at>>
        /\ \/ plan' = plan + 1 /\ UNCHANGED cleanup
           \/ cleanup' = TRUE /\ UNCHANGED plan
    BY <1>3 DEF Capture, StartCleanup, locals
  <2>2. loop = "none"
    BY <2>1 DEF AtItem
  <2>3. Purpose' /\ Pruned' /\ Installing' /\ OnlyClaimsWait'
    BY <2>1, <2>2 DEF Purpose, Pruned, Installing, OnlyClaimsWait
  <2>4. (applied <= plan)' /\ NamespacesKept'
    BY <2>1, <1>t DEF NamespacesKept
  <2>5. cleanup' = TRUE \/ applied' # plan'
    BY <2>1, <1>t
  <2>6. AppliedComplete'
    BY <2>5 DEF AppliedComplete
  <2> QED BY <2>3, <2>4, <2>6
<1> QED BY <1>1, <1>2, <1>3

\* The invariant of plans is inductive.
THEOREM PlanInvariance == Spec => []PlanInv
<1>1. InventoryInv /\ PlanInv /\ [Next]_vars => PlanInv'
  <2> SUFFICES ASSUME InventoryInv, PlanInv, [Next]_vars PROVE PlanInv'
    OBVIOUS
  <2>1. CASE Engine
    BY <2>1, PlanLoop, PlanRead, PlanSave, PlanIntend, PlanWrite, PlanFlag DEF Engine
  <2>2. CASE DependencyWaits
    BY <2>2, PlanRead
  <2>3. CASE Interrupted \/ Capture \/ StartCleanup
    BY <2>3, PlanFlag
  <2>4. CASE Controllers \/ User \/ UNCHANGED vars
    <3>1. UNCHANGED <<record, pc, locals>>
      BY <2>4 DEF Controllers, User, Hold, Serve, Finalize, Sweep, UserDelete, UserCreate, UserEdit, vars
    <3> QED BY <3>1, PlanElsewhere
  <2> QED BY <2>1, <2>2, <2>3, <2>4 DEF Next
<1> QED BY PlanInit, <1>1, InventoryInvariance, PTL DEF Spec

\* A plan never counts as applied while an object of it has no recorded UID, or
\* an object it dropped still has an open entry.
THEOREM AppliedCompleteAlways == Spec => []AppliedComplete
<1>1. PlanInv => AppliedComplete
  BY DEF PlanInv
<1> QED BY <1>1, PlanInvariance, PTL

\* Only a creation by the engine adds to its objects.
LEMMA OnlyCreateMakes ==
  ASSUME InventoryInv, [Next]_vars, NEW id \in Objects, ~Mine(id), Mine(id)'
  PROVE  Create /\ id = Item
<1> USE DEF InventoryInv
<1>t. live \in [Objects -> LiveObjects] /\ uids \in Nat /\ created \subseteq 1 .. uids
  BY DEF TypeOK, GuestType
<1>1. CASE Create
  <2>1. Item \in Objects
    BY <1>1, AtObject DEF Create
  <2>2. CASE ~Creatable(Item)
    BY <1>1, <2>2 DEF Create, guest, Mine
  <2>3. CASE Creatable(Item)
    <3>1. /\ live' = [live EXCEPT ![Item] = NewObject(at, Desired[plan][Item])]
          /\ created' = created \cup {uids + 1}
      BY <1>1, <2>3 DEF Create
    <3>2. live[id].uid # uids + 1
      BY <1>t DEF Uids, LiveObjects
    <3> QED BY <1>1, <3>1, <3>2, <1>t DEF Mine
  <2> QED BY <2>2, <2>3
<1>2. CASE Patch \/ Delete
  BY <1>2, WriteKept, KeptGuest
<1>3. ASSUME NEW x \in Objects,
             Hold(x) \/ Serve(x) \/ Finalize(x) \/ Sweep(x) \/ UserDelete(x) \/ UserEdit(x)
      PROVE  FALSE
  BY <1>3, GuestKept, KeptGuest
<1>4. ASSUME NEW x \in Objects, UserCreate(x)
      PROVE  FALSE
  <2>1. PICK op \in {0} \cup {i \in DOMAIN entries : entries[i].id = x /\ entries[i].uid # 0} :
          live' = [live EXCEPT ![x] = NewObject(op, 0)]
    BY <1>4 DEF UserCreate
  <2>2. created' = created /\ NewObject(op, 0).uid = uids + 1 /\ uids + 1 \notin created
    BY <1>4, <1>t DEF UserCreate, NewObject
  <2> QED BY <2>1, <2>2, <1>t DEF Mine
<1>5. CASE UNCHANGED guest
  BY <1>5 DEF guest, Mine
<1>6. CASE Engine
  <2>1. Create \/ Patch \/ Delete \/ UNCHANGED guest
    BY <1>6 DEF Engine, BeginSync, BeginCleanup, NextLoop, Skip, InspectNew,
       InspectKnown, Intend, Record, Redo, Patched, SaveApplied, InspectEntry, Verify,
       Gone, SaveCleaned, NoWrite, Save
  <2> QED BY <2>1, <1>1, <1>2, <1>5
<1>7. CASE Controllers \/ User
  BY <1>7, <1>3, <1>4 DEF Controllers, User
<1>8. CASE DependencyWaits \/ Interrupted \/ Capture \/ StartCleanup \/ UNCHANGED vars
  BY <1>8, <1>5 DEF DependencyWaits, Interrupted, Capture, StartCleanup, NoWrite, vars
<1> QED BY <1>6, <1>7, <1>8 DEF Next

\* An object whose UID was recorded is made again only by a refresh: a plan that
\* counts as applied has all its objects recorded, so none is left to create.
THEOREM NoSilentRecreationAlways == Spec => NoSilentRecreation
<1> DEFINE Again(id) ==
      /\ ~Mine(id) /\ Mine(id)'
      /\ \E i \in DOMAIN entries : entries[i].id = id /\ entries[i].uid # 0
<1>1. InventoryInv /\ PlanInv /\ [Next]_vars =>
        \A id \in Objects : Again(id) => applied # plan /\ id \notin Namespaces
  <2> SUFFICES ASSUME InventoryInv, PlanInv, [Next]_vars, NEW id \in Objects, Again(id)
               PROVE  applied # plan /\ id \notin Namespaces
    OBVIOUS
  <2>1. Create /\ id = Item
    BY OnlyCreateMakes
  <2>2. /\ at \in DOMAIN entries /\ entries[at].id = id /\ ~entries[at].deleted
        /\ entries[at].uid = 0
    BY <2>1 DEF Create, InventoryInv, AtItem
  <2>3. /\ loop \in {"namespaces", "objects"} /\ Wanted(id)
        /\ plan # 0 /\ ~cleanup
    BY <2>1 DEF Create, InventoryInv, PlanInv, Purpose, AtItem, Cleaning
  <2>4. PICK i \in DOMAIN entries : entries[i].id = id /\ entries[i].uid # 0
    OBVIOUS
  <2>5. id \notin Namespaces
    <3>1. id \in Namespaces => ~entries[i].deleted
      BY <2>3, <2>4 DEF PlanInv, NamespacesKept
    <3> QED BY <3>1, <2>2, <2>4 DEF InventoryInv, OneOpen
  <2>6. applied # plan
    <3>1. applied = plan => \E j \in Current(id) : entries[j].uid # 0
      BY <2>3, <2>5 DEF PlanInv, AppliedComplete
    <3>2. \A j \in Current(id) : j = at
      BY <2>2 DEF Current, InventoryInv, OneOpen
    <3> QED BY <3>1, <3>2, <2>2
  <2> QED BY <2>5, <2>6
<1> QED BY <1>1, InventoryInvariance, PlanInvariance, PTL DEF NoSilentRecreation, Spec

-----------------------------------------------------------------------------
\* What cleanup leaves behind its cursor no longer needs a controller.

\* If the engine's own object is still there, it is on its way out, and held by
\* no finalizer but Kubernetes' own.
Leaving(id) == Mine(id) => live[id].deleting
Released(id) == Mine(id) => live[id].deleting /\ ~live[id].held

\* A deletion is verified once it was made, and the claims that cleanup passed
\* have lost the finalizers of their controllers.
ClaimsReleased ==
  /\ pc = "verify" => Leaving(Item)
  /\ loop = "clean" =>
       \A i \in DOMAIN entries : i > n /\ ~entries[i].deleted => Released(entries[i].id)

\* A deletion cannot be taken back, and no finalizer is added after it.
LEMMA Lasting ==
  ASSUME InventoryInv, [Next]_vars, ~Create, NEW id \in Objects
  PROVE  (Leaving(id) => Leaving(id)') /\ (Released(id) => Released(id)')
<1> USE DEF InventoryInv
<1>t. live \in [Objects -> LiveObjects] /\ uids \in Nat /\ created \subseteq 1 .. uids
  BY DEF TypeOK, GuestType
<1>k. ASSUME Kept PROVE (Leaving(id) => Leaving(id)') /\ (Released(id) => Released(id)')
  <2>1. 0 \notin created /\ Absent.uid = 0
    BY <1>t DEF Absent
  <2>2. Mine(id)' => Mine(id) /\ live'[id] # Absent
    BY <1>k, <2>1, KeptGuest DEF Mine, Kept
  <2> QED BY <1>k, <2>2 DEF Leaving, Released, Kept
<1>u. ASSUME UNCHANGED guest
      PROVE  (Leaving(id) => Leaving(id)') /\ (Released(id) => Released(id)')
  BY <1>u DEF guest, Mine, Leaving, Released
<1>1. CASE Engine
  <2>1. Patch \/ Delete \/ UNCHANGED guest
    BY <1>1 DEF Engine, BeginSync, BeginCleanup, NextLoop, Skip, InspectNew,
       InspectKnown, Intend, Record, Redo, Patched, SaveApplied, InspectEntry, Verify,
       Gone, SaveCleaned, NoWrite, Save
  <2> QED BY <2>1, <1>k, <1>u, WriteKept
<1>2. CASE DependencyWaits \/ Interrupted \/ Capture \/ StartCleanup \/ UNCHANGED vars
  BY <1>2, <1>u DEF DependencyWaits, Interrupted, Capture, StartCleanup, NoWrite, vars
<1>3. ASSUME NEW x \in Objects, UserCreate(x)
      PROVE  (Leaving(id) => Leaving(id)') /\ (Released(id) => Released(id)')
  <2>1. PICK op \in {0} \cup {i \in DOMAIN entries : entries[i].id = x /\ entries[i].uid # 0} :
          live' = [live EXCEPT ![x] = NewObject(op, 0)]
    BY <1>3 DEF UserCreate
  <2>2. created' = created /\ NewObject(op, 0).uid = uids + 1 /\ uids + 1 \notin created
    BY <1>3, <1>t DEF UserCreate, NewObject
  <2>3. CASE x = id
    <3>1. ~Mine(id)'
      BY <2>1, <2>2, <2>3, <1>t DEF Mine
    <3> QED BY <3>1 DEF Leaving, Released
  <2>4. CASE x # id
    <3>1. live'[id] = live[id]
      BY <2>1, <2>4, <1>t
    <3> QED BY <2>2, <3>1 DEF Mine, Leaving, Released
  <2> QED BY <2>3, <2>4
<1>4. CASE Controllers \/ User
  BY <1>4, <1>3, <1>k, GuestKept DEF Controllers, User
<1> QED BY <1>1, <1>2, <1>4 DEF Next

\* A deletion that waits lets cleanup go on only past a claim that is released.
LEMMA Passed ==
  ASSUME InventoryInv, (InspectEntry /\ live[Item].deleting) \/ (Verify /\ Leaving(Item)),
         Continue(TRUE)
  PROVE  Released(Item)
<1>1. pc' = "next" /\ n' # n
  BY DEF Continue, InventoryInv, TypeOK, LocalsType
<1>2. ~live[Item].held
  <2>1. Wait
    BY <1>1 DEF InspectEntry, Verify, Do, Return
  <2>2. ~Return
    BY <1>1 DEF Return
  <2> QED BY <2>1, <2>2 DEF Wait
<1> QED BY <1>2 DEF Leaving, Released, InspectEntry

\* The claims stay released.
LEMMA ClaimsStep ==
  ASSUME InventoryInv, PlanInv, ClaimsReleased, [Next]_vars
  PROVE  ClaimsReleased'
<1> USE DEF InventoryInv, PlanInv
<1>t. /\ Len(entries) \in Nat /\ DOMAIN entries = 1 .. Len(entries) /\ n \in Nat
      /\ \A i \in DOMAIN entries : entries[i].id \in Objects
  BY EntryId DEF TypeOK, RecordType, LocalsType
<1>r. ASSUME Return PROVE ClaimsReleased'
  BY <1>r DEF Return, ClaimsReleased
<1>c. CASE Create
  <2>1. loop # "clean"
    BY <1>c DEF Create, AtItem, Deleting
  <2>2. Return \/ (pc' = "record" /\ loop' = loop)
    BY <1>c DEF Create, Outcome, Do
  <2> QED BY <1>r, <2>1, <2>2 DEF ClaimsReleased
<1>l. CASE ~Create
  <2>1. /\ \A id \in Objects : Leaving(id) => Leaving(id)'
        /\ \A id \in Objects : Released(id) => Released(id)'
    BY <1>l, Lasting
  \* The entries are the same, and the cursor has not moved.
  <2>s. ASSUME UNCHANGED <<entries, loop, n>>, pc' # "verify" \/ pc = "verify"
        PROVE  ClaimsReleased'
    <3>1. loop = "clean" =>
            \A i \in DOMAIN entries : i > n /\ ~entries[i].deleted => Released(entries[i].id)'
      BY <2>s, <2>1, <1>t DEF ClaimsReleased
    <3>2. pc' = "verify" => Item \in Objects /\ Item' = Item
      BY <2>s, AtObject DEF Item, Deleting
    <3>3. pc' = "verify" => Leaving(Item)'
      BY <2>s, <2>1, <3>2 DEF ClaimsReleased
    <3>4. /\ DOMAIN entries' = DOMAIN entries /\ loop' = loop /\ n' = n
          /\ entries' = entries
      BY <2>s
    <3> QED BY <3>1, <3>3, <3>4 DEF ClaimsReleased
  \* A loop of another kind, or one that starts.
  <2>o. ASSUME pc' # "verify",
               loop' # "clean" \/ (\A i \in DOMAIN entries' : ~(i > n'))
        PROVE  ClaimsReleased'
    BY <2>o DEF ClaimsReleased
  <2>2. CASE Controllers \/ User \/ UNCHANGED vars \/ Capture \/ StartCleanup
    <3>1. UNCHANGED <<entries, loop, n, pc>>
      BY <2>2 DEF Controllers, User, Hold, Serve, Finalize, Sweep, UserDelete, UserCreate,
         UserEdit, Capture, StartCleanup, vars, record, locals
    <3> QED BY <3>1, <2>s
  <2>3. CASE DependencyWaits \/ Interrupted
    BY <2>3, <1>r DEF DependencyWaits, Interrupted
  <2>4. CASE Engine
    <3>1. CASE BeginSync \/ BeginCleanup \/ NextLoop
      <4>1. pc' # "verify" /\ entries' = entries
        BY <3>1 DEF BeginSync, BeginCleanup, NextLoop, Enter, Return, Do, NoWrite, record
      <4>2. CASE loop' # "clean"
        BY <4>1, <4>2, <2>o
      <4>3. CASE loop' = "clean" /\ n' = Len(entries)
        BY <4>1, <4>3, <1>t, <2>o
      <4>4. CASE UNCHANGED <<loop, n>>
        BY <4>1, <4>4, <2>s
      <4> QED BY <3>1, <4>2, <4>3, <4>4
              DEF BeginSync, BeginCleanup, NextLoop, Enter, Return, Do
    <3>2. CASE loop # "clean" /\ (Skip \/ InspectNew \/ InspectKnown \/ Intend \/ Record \/ Redo
                 \/ Patch \/ Patched \/ SaveApplied \/ Gone \/ SaveCleaned)
      <4>1. pc' # "verify" /\ loop' \in {loop, "none"}
        BY <3>2 DEF Skip, InspectNew, InspectKnown, Intend, Record, Redo, Patch, Patched,
           SaveApplied, Gone, SaveCleaned, Save, Outcome, Do, Return, Continue
      <4> QED BY <3>2, <4>1, <2>o
    <3>3. CASE loop = "clean" /\ (InspectNew \/ InspectKnown \/ Intend \/ Record \/ Redo
                 \/ Patch \/ Patched \/ SaveApplied)
      BY <3>3 DEF InspectNew, InspectKnown, Intend, Record, Redo, Patch, Patched,
         SaveApplied, AtItem, Deleting
    <3>4. CASE loop = "clean" /\ SaveCleaned
      BY <3>4, <1>r DEF SaveCleaned, Outcome
    <3>5. CASE loop = "clean" /\ Skip
      <4>1. /\ pc' = "next" /\ loop' = loop /\ n' = n - 1 /\ entries' = entries
            /\ n >= 1 /\ entries[n].deleted
        BY <3>5 DEF Skip, Continue, Deleting, InRange, Relevant, NoWrite, record
      <4>2. \A i \in DOMAIN entries : i > n' /\ ~entries[i].deleted => i > n
        BY <4>1, <1>t
      <4> QED BY <3>5, <4>1, <4>2, <2>1, <1>t DEF ClaimsReleased
    <3>6. CASE loop = "clean" /\ Gone
      <4>1. /\ entries' = [entries EXCEPT ![n].deleted = TRUE] /\ n \in DOMAIN entries
            /\ Return \/ Continue(pending)
        BY <3>6 DEF Gone, Save, Outcome, AtItem
      <4>2. CASE Continue(pending)
        <5>1. pc' = "next" /\ loop' = loop /\ n' = n - 1
          BY <3>6, <4>2 DEF Continue, Deleting
        <5>2. /\ DOMAIN entries' = DOMAIN entries
              /\ \A i \in DOMAIN entries :
                   /\ entries'[i].id = entries[i].id
                   /\ ~entries'[i].deleted => i # n /\ ~entries[i].deleted
          BY <4>1, CloseEffect, SaveEffect, <3>6 DEF Changed, Gone, AtItem
        <5>3. \A i \in DOMAIN entries : i > n' /\ ~entries'[i].deleted => i > n
          BY <5>1, <5>2, <1>t
        <5> QED BY <3>6, <5>1, <5>2, <5>3, <2>1, <1>t DEF ClaimsReleased
      <4> QED BY <4>1, <4>2, <1>r
    <3>7. CASE InspectEntry
      <4>1. CASE Continue(TRUE)
        <5>1. /\ Deleting /\ n \in DOMAIN entries /\ Item = entries[n].id
              /\ live[Item].deleting /\ entries' = entries
          <6>1. pc = "next" /\ Deleting /\ InRange /\ entries' = entries /\ pc' = "next"
            BY <3>7, <4>1 DEF InspectEntry, Continue, NoWrite, record
          <6>2. live[Item].deleting
            BY <3>7, <6>1 DEF InspectEntry, Do, Return
          <6> QED BY <6>1, <6>2, ItemType DEF Item
        <5>2. Released(entries[n].id)
          BY <3>7, <4>1, <5>1, Passed
        <5>3. pc' = "next" /\ loop' = loop /\ n' = n - 1
          BY <4>1, <5>1 DEF Continue
        <5>4. \A i \in DOMAIN entries : i > n' => i > n \/ i = n
          BY <5>3, <1>t
        <5> QED BY <5>1, <5>2, <5>3, <5>4, <2>1, <1>t DEF ClaimsReleased
      <4>2. Return \/ Continue(TRUE) \/ (pc' # "verify" /\ UNCHANGED <<entries, loop, n>>)
        BY <3>7 DEF InspectEntry, Wait, Do, NoWrite, record
      <4> QED BY <4>1, <4>2, <1>r, <2>s
    <3>8. CASE Verify
      <4>0. Leaving(Item)
        BY <3>8 DEF Verify, ClaimsReleased
      <4>1. CASE Continue(TRUE)
        <5>1. /\ Deleting /\ n \in DOMAIN entries /\ Item = entries[n].id /\ entries' = entries
          BY <3>8 DEF Verify, AtItem, Item, NoWrite, record
        <5>2. Released(entries[n].id)
          BY <3>8, <4>0, <4>1, <5>1, Passed
        <5>3. pc' = "next" /\ loop' = loop /\ n' = n - 1
          BY <4>1, <5>1 DEF Continue
        <5>4. \A i \in DOMAIN entries : i > n' => i > n \/ i = n
          BY <5>3, <1>t
        <5> QED BY <5>1, <5>2, <5>3, <5>4, <2>1, <1>t DEF ClaimsReleased
      <4>2. Return \/ Continue(TRUE) \/ (pc' # "verify" /\ UNCHANGED <<entries, loop, n>>)
        BY <3>8 DEF Verify, Wait, Do, NoWrite, record
      <4> QED BY <4>1, <4>2, <1>r, <2>s
    <3>9. CASE Delete
      <4>1. Return \/ Do("verify", at, Absent)
        BY <3>9 DEF Delete, Outcome
      <4>2. CASE Do("verify", at, Absent)
        <5>1. pc' = "verify" /\ UNCHANGED <<loop, n, entries>> /\ pc = "delete"
          BY <3>9, <4>2 DEF Do, Delete, record
        <5>2. Item \in Objects /\ Item' = Item
          BY <5>1, AtObject DEF Item, Deleting
        <5>3. Leaving(Item)'
          <6>1. \/ live' = Removed(Item)
                \/ live' = live /\ ~Present(Item)
            BY <3>9, <5>1 DEF Delete, Return
          <6>t. live \in [Objects -> LiveObjects] /\ 0 \notin created /\ created' = created
            BY <3>9 DEF TypeOK, GuestType, Delete
          <6>2. CASE live' = Removed(Item)
            BY <6>2, <6>t, <5>2, RemovedType DEF Leaving, Mine, Absent
          <6>3. CASE live' = live /\ ~Present(Item)
            BY <6>3, <6>t, <5>2 DEF Leaving, Mine, Present, Exists
          <6> QED BY <6>1, <6>2, <6>3
        <5>4. loop = "clean" =>
                \A i \in DOMAIN entries : i > n /\ ~entries[i].deleted => Released(entries[i].id)'
          BY <5>1, <2>1, <1>t DEF ClaimsReleased
        <5> QED BY <5>1, <5>3, <5>4 DEF ClaimsReleased
      <4> QED BY <4>1, <4>2, <1>r
    <3> QED BY <2>4, <1>l, <3>1, <3>2, <3>3, <3>4, <3>5, <3>6, <3>7, <3>8, <3>9 DEF Engine
  <2> QED BY <2>2, <2>3, <2>4 DEF Next
<1> QED BY <1>c, <1>l

\* A claim that cleanup went past has none but Kubernetes' own finalizers left.
THEOREM ClaimsReleasedAlways == Spec => []ClaimsReleased
<1>1. Init => ClaimsReleased
  BY DEF Init, ClaimsReleased
<1> QED BY <1>1, ClaimsStep, InventoryInvariance, PlanInvariance, PTL DEF Spec

\* Prune and cleanup reach a controller when its dependents are gone, or are
\* claims that it has released.
LEMMA ControllerLast ==
  ASSUME InventoryInv, PlanInv, ClaimsReleased, Delete, NEW id \in Objects, NEW c \in Objects,
         c = ControllerOf[id], c # NoObject, Mine(id), id \in Volumes => live[id].held,
         Older(c, id), cleanup \/ ~Wanted(id)
  PROVE  c # Item
<1> USE DEF InventoryInv, PlanInv
<1> SUFFICES ASSUME c = Item PROVE FALSE
  OBVIOUS
<1>1. /\ pc = "delete" /\ Deleting /\ n \in DOMAIN entries
      /\ entries[n].id = c /\ ~entries[n].deleted
  BY DEF Delete, AtItem
<1>2. PICK i \in Current(c), j \in Current(id) : i < j
  BY DEF Older
<1>3. i = n
  BY <1>1, <1>2 DEF Current, OneOpen
<1>4. /\ j \in DOMAIN entries /\ j > n /\ entries[j].id = id /\ ~entries[j].deleted
  BY <1>2, <1>3 DEF Current, TypeOK, RecordType
<1>5. id \notin Namespaces
  BY ConstantsAssumption
<1>6. CASE loop = "prune"
  BY <1>4, <1>5, <1>6 DEF Pruned, Fit, Cleaning
<1>7. CASE loop = "clean"
  <2>1. id \in Volumes
    BY <1>4, <1>7 DEF OnlyClaimsWait
  <2>2. Released(id)
    BY <1>4, <1>7 DEF ClaimsReleased
  <2> QED BY <2>1, <2>2 DEF Released
<1> QED BY <1>1, <1>6, <1>7 DEF Deleting

\* The engine never deletes a controller before the custom resources that it
\* also has to delete, nor while a claim of its own still has the controller's
\* finalizer.
THEOREM DependentsFirstAlways == Spec => DependentsFirst
<1> DEFINE Needed(id) ==
      /\ ControllerOf[id] # NoObject /\ Mine(id) /\ Mine(ControllerOf[id])
      /\ id \in Volumes => live[id].held
      /\ Older(ControllerOf[id], id) /\ (cleanup \/ ~Wanted(id))
<1>1. InventoryInv /\ PlanInv /\ ClaimsReleased /\ [Next]_vars =>
        (Engine => \A id \in Objects : Needed(id) =>
           LET c == ControllerOf[id] IN
             Present(c)' /\ (live'[c].deleting => live[c].deleting))
  <2> SUFFICES ASSUME InventoryInv, PlanInv, ClaimsReleased, Engine, NEW id \in Objects,
                      Needed(id),
                      NEW c \in Objects, c = ControllerOf[id]
               PROVE  live'[c].uid # 0 /\ (live'[c].deleting => live[c].deleting)
    BY ConstantsAssumption DEF Present, Exists
  <2>t. /\ live \in [Objects -> LiveObjects] /\ live[c] \in LiveObjects
        /\ live[c].uid # 0 /\ Present(c)
    BY DEF InventoryInv, TypeOK, GuestType, Mine, Present, Exists
  <2>0. live'[c] = live[c] =>
          live'[c].uid # 0 /\ (live'[c].deleting => live[c].deleting)
    BY <2>t
  <2>1. CASE Create
    <3>1. Item \in Objects
      BY <2>1, AtObject DEF Create
    <3>2. CASE ~Creatable(Item)
      BY <2>0, <2>1, <3>2 DEF Create, guest
    <3>3. CASE Creatable(Item)
      <4>1. live' = [live EXCEPT ![Item] = NewObject(at, Desired[plan][Item])]
        BY <2>1, <3>3 DEF Create
      <4>2. c # Item
        BY <2>t, <3>3 DEF Creatable
      <4> QED BY <2>0, <2>t, <4>1, <4>2
    <3> QED BY <3>2, <3>3
  <2>2. CASE Patch
    <3>1. Item \in Objects
      BY <2>2, AtObject DEF Patch
    <3>2. CASE live[Item] # seen
      BY <2>0, <2>2, <3>2 DEF Patch, guest
    <3>3. CASE live[Item] = seen
      <4>1. live' = [live EXCEPT ![Item].content = Desired[plan][Item]]
        BY <2>2, <3>3 DEF Patch
      <4>2. live'[c].uid = live[c].uid /\ live'[c].deleting = live[c].deleting
        BY <4>1, <3>1, <2>t DEF LiveObjects
      <4> QED BY <4>2, <2>t
    <3> QED BY <3>2, <3>3
  <2>3. CASE Delete
    <3>1. Item \in Objects
      BY <2>3, AtObject DEF Delete
    <3>2. live' = live \/ live' = Removed(Item)
      BY <2>3 DEF Delete
    <3>3. c # Item
      BY <2>3, ControllerLast
    <3>4. live'[c] = live[c]
      BY <3>1, <3>2, <3>3, <2>t, RemovedType
    <3> QED BY <3>4, <2>0
  <2>4. CASE ~Create /\ ~Patch /\ ~Delete
    <3>1. UNCHANGED live
      BY <2>4 DEF Engine, BeginSync, BeginCleanup, NextLoop, Skip, InspectNew,
         InspectKnown, Intend, Record, Redo, Patched, SaveApplied, InspectEntry, Verify,
         Gone, SaveCleaned, NoWrite, Save, guest
    <3> QED BY <3>1, <2>0
  <2> QED BY <2>1, <2>2, <2>3, <2>4
<1> QED BY <1>1, InventoryInvariance, PlanInvariance, ClaimsReleasedAlways, PTL
        DEF DependentsFirst, Spec
=============================================================================
