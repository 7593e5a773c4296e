------------------------ MODULE ChatOrganizer_proofs ------------------------
(***************************************************************************)
(* Proofs about ChatOrganizer, for any devices, folders, peers and bounds: *)
(* no device gets ahead of the server, quiet copies are the server's, what *)
(* one device has stored survives the writes of the others, and a write    *)
(* that is confirmed has stored its change.                                *)
(*                                                                         *)
(* The invariant follows a content on its way: the copy of a device and    *)
(* what a write carries lack nothing of the revision they are based on but *)
(* what some device has dropped.  The server takes a write only on top of  *)
(* that very revision, so the blob loses nothing else either.              *)
(***************************************************************************)
EXTENDS ChatOrganizer, TLAPS

(* A folder that is anywhere has had its id drawn, so that a new one has   *)
(* nothing to replace.                                                     *)
Known(S) ==
  \A f \in Folder :
    /\ f \in S => f \in used
    /\ \A p \in Peer : <<f, p>> \in S => f \in used

(* What applying a change loses although nobody has dropped it.            *)
Replaced(i) == IF i.kind = "createFolder" THEN Members(i.folder) ELSE {}

TaskOK(t) ==
  /\ t.kind = "seed" => Known(t.items)
  /\ t.kind \in {"createFolder", "removeFolder"} => t.folder \in used
  /\ t.kind # "seed" => Drops(t) \subseteq dropped

CopyOK(c) ==
  /\ c.rev <= Len(blobs)
  /\ Known(c.items)
  /\ c.rev > 0 => blobs[c.rev] \ c.items \subseteq dropped

WriteOK(w) ==
  /\ TaskOK(w.task) /\ Known(w.items)
  /\ w.rev <= Len(blobs)
  /\ w.at \in {"conflict", "beaten"} => Len(blobs) > 0
  /\ w.at = "conflict" => w.tries # MaxRetries
  /\ w.at = "saved" => w.rev < Len(blobs) /\ w.items = blobs[w.rev + 1]
  /\ w.at = "put" =>
       /\ w.rev > 0 => blobs[w.rev] \ w.items \subseteq dropped \cup Replaced(w.task)
       /\ w.task.kind # "seed" => Applied(w.items, w.task) = w.items

ServerOK ==
  /\ \A k \in 1 .. Len(blobs) : Known(blobs[k])
  /\ \A w \in late : WriteOK(w) /\ w.at = "put"
  /\ Overlay \cap Folder \subseteq used

QueueOK(q) == \A k \in 1 .. Len(q) : TaskOK(q[k])

DeviceOK(d) ==
  /\ CopyOK(local[d])
  /\ write[d] # NoWrite => WriteOK(write[d])
  /\ QueueOK(queue[d])
  /\ \A S \in seeding[d] : Known(S)

(* A change a device shows and has not written yet.  It accounts for what  *)
(* the copy has of its own; a seed does not, it leaves the copy alone      *)
(* until it is saved.                                                      *)
Owed(d) ==
  \/ \E k \in 1 .. Len(queue[d]) : queue[d][k].kind # "seed"
  \/ write[d] # NoWrite /\ write[d].task.kind # "seed"

CopyAgrees(d) ==
  ~Owed(d) /\ local[d].rev > 0 /\ d \notin adrift => local[d].items = blobs[local[d].rev]

IInv ==
  /\ OrganizerTypeOK
  /\ ServerOK
  /\ \A d \in Device : DeviceOK(d) /\ CopyAgrees(d)

-----------------------------------------------------------------------------
(* What a change does to a set of items.                                   *)

LEMMA IntentCases ==
  ASSUME NEW i \in Intent
  PROVE  \/ i.kind = "createFolder" /\ i.folder \in Folder /\ i.members \in SUBSET Peer
         \/ i.kind = "removeFolder" /\ i.folder \in Folder /\ i.members \in SUBSET Peer
         \/ i.kind = "addPeer" /\ i.folder \in Folder /\ i.peer \in Peer
         \/ i.kind = "mute" /\ i.peer \in Peer
         \/ i.kind = "unmute" /\ i.peer \in Peer
  BY DEF Intent

LEMMA SeedKind == ASSUME NEW s \in Seed PROVE s.kind = "seed" /\ s.items \in SUBSET Item
  BY DEF Seed

LEMMA IntentKind == ASSUME NEW i \in Intent PROVE i.kind # "seed"
  BY IntentCases

LEMMA AppliedType ==
  ASSUME NEW items \in SUBSET Item, NEW i \in Intent
  PROVE  /\ Applied(items, i) \in SUBSET Item
         /\ Undone(items, i) \in SUBSET Item
         /\ Drops(i) \in SUBSET Item
         /\ UndoDrops(i) \in SUBSET Item
  BY IntentCases DEF Applied, Undone, Drops, UndoDrops, Item, Without, Entity

LEMMA AppliedTwice ==
  ASSUME NEW items \in SUBSET Item, NEW i \in Intent
  PROVE  Applied(Applied(items, i), i) = Applied(items, i)
  BY IntentCases DEF Applied, Without, Entity

LEMMA AppliedLoses ==
  ASSUME NEW items \in SUBSET Item, NEW i \in Intent
  PROVE  items \ Applied(items, i) \subseteq Drops(i) \cup Replaced(i)
  BY IntentCases DEF Applied, Drops, Replaced, Without, Entity, Members

LEMMA UndoneLoses ==
  ASSUME NEW items \in SUBSET Item, NEW i \in Intent
  PROVE  items \ Undone(items, i) \subseteq UndoDrops(i)
  BY IntentCases DEF Undone, UndoDrops, Without, Entity

LEMMA AppliedKnown ==
  ASSUME NEW items \in SUBSET Item, NEW i \in Intent, Known(items),
         i.kind = "createFolder" => i.folder \in used
  PROVE  Known(Applied(items, i))
  BY IntentCases, ItemAssumption DEF Known, Applied, Without, Entity

LEMMA UndoneKnown ==
  ASSUME NEW items \in SUBSET Item, NEW i \in Intent, Known(items),
         i.kind = "removeFolder" => i.folder \in used
  PROVE  Known(Undone(items, i))
  BY IntentCases, ItemAssumption DEF Known, Undone, Without, Entity

-----------------------------------------------------------------------------
(* What holds of a copy, a task or a write goes on holding while others    *)
(* work: the server appends, and ids and drops are not taken back.         *)

Task == Intent \cup Seed

Grows ==
  /\ blobs' = blobs \/ \E S \in SUBSET Item : blobs' = Append(blobs, S)
  /\ used \subseteq used' /\ dropped \subseteq dropped'

LEMMA Growth ==
  ASSUME blobs \in Seq(SUBSET Item), Grows
  PROVE  /\ Len(blobs) <= Len(blobs') /\ Len(blobs) \in Nat /\ Len(blobs') \in Nat
         /\ blobs' \in Seq(SUBSET Item)
         /\ \A k \in 1 .. Len(blobs) : blobs'[k] = blobs[k]
  BY DEF Grows

LEMMA KnownGrows ==
  ASSUME NEW S, Grows, Known(S)
  PROVE  Known(S)'
  BY DEF Known, Grows

LEMMA TaskGrows ==
  ASSUME NEW t \in Task, Grows, TaskOK(t)
  PROVE  TaskOK(t)'
<1>1. t.kind = "seed" => Known(t.items)'
  BY KnownGrows DEF TaskOK
<1>2. QED
  BY <1>1 DEF TaskOK, Grows

LEMMA CopyGrows ==
  ASSUME blobs \in Seq(SUBSET Item), Grows,
         NEW c \in [ items: SUBSET Item, rev: Nat ], CopyOK(c)
  PROVE  CopyOK(c)'
<1>1. Known(c.items)'
  BY KnownGrows DEF CopyOK
<1>2. c.rev <= Len(blobs) /\ c.rev \in Nat
  BY DEF CopyOK
<1>3. c.rev > 0 => blobs'[c.rev] = blobs[c.rev]
  BY <1>2, Growth
<1>4. c.rev <= Len(blobs')
  BY <1>2, Growth
<1>5. QED
  BY <1>1, <1>3, <1>4 DEF CopyOK, Grows

LEMMA WriteGrows ==
  ASSUME blobs \in Seq(SUBSET Item), Grows, NEW w \in Write, WriteOK(w)
  PROVE  WriteOK(w)'
<1>1. TaskOK(w.task)' /\ Known(w.items)'
  BY TaskGrows, KnownGrows DEF WriteOK, Write, Task
<1>2. w.rev \in Nat /\ w.rev <= Len(blobs)
  BY DEF WriteOK, Write
<1>3. w.rev <= Len(blobs')
  BY <1>2, Growth
<1>4. w.at \in {"conflict", "beaten"} => Len(blobs') > 0
  BY Growth DEF WriteOK
<1>5. w.at = "saved" => w.rev < Len(blobs') /\ w.items = blobs'[w.rev + 1]
  <2>1. HAVE w.at = "saved"
  <2>2. w.rev < Len(blobs) /\ w.items = blobs[w.rev + 1]
    BY <2>1 DEF WriteOK
  <2>3. w.rev + 1 \in 1 .. Len(blobs)
    BY <1>2, <2>2, Growth
  <2>4. QED
    BY <1>2, <2>2, <2>3, Growth
<1>6. w.at = "put" => /\ w.rev > 0 => blobs'[w.rev] \ w.items \subseteq dropped' \cup Replaced(w.task)
                      /\ w.task.kind # "seed" => Applied(w.items, w.task) = w.items
  <2>1. w.rev > 0 => blobs'[w.rev] = blobs[w.rev]
    BY <1>2, Growth
  <2>2. QED
    BY <2>1 DEF WriteOK, Grows
<1>7. QED
  BY <1>1, <1>3, <1>4, <1>5, <1>6 DEF WriteOK

LEMMA QueueGrows ==
  ASSUME NEW q \in Seq(Task), Grows, QueueOK(q)
  PROVE  QueueOK(q)'
<1>1. \A k \in 1 .. Len(q) : q[k] \in Task
  OBVIOUS
<1>2. QED
  BY <1>1, TaskGrows DEF QueueOK

(* The device after a step, part by part: a part the step leaves alone, or *)
(* one that is as it has to be.                                            *)
LEMMA DeviceSteps ==
  ASSUME OrganizerTypeOK, Grows, NEW d \in Device, DeviceOK(d),
         NEW c \in [ items: SUBSET Item, rev: Nat ], local'[d] = c, c = local[d] \/ CopyOK(c)',
         NEW w \in Write \cup {NoWrite}, write'[d] = w,
         w \in {NoWrite, write[d]} \/ WriteOK(w)',
         NEW q \in Seq(Task), queue'[d] = q, q = queue[d] \/ QueueOK(q)',
         NEW s \in SUBSET SUBSET Item, seeding'[d] = s,
         s \subseteq seeding[d] \/ \A S \in s : Known(S)'
  PROVE  DeviceOK(d)'
<1>t. /\ blobs \in Seq(SUBSET Item)
      /\ local[d] \in [ items: SUBSET Item, rev: Nat ]
      /\ queue[d] \in Seq(Task)
      /\ write[d] \in Write \cup {NoWrite}
  BY DEF OrganizerTypeOK, Task
<1>1. CopyOK(c)'
  BY <1>t, CopyGrows DEF DeviceOK
<1>2. w # NoWrite => WriteOK(w)'
  BY <1>t, WriteGrows DEF DeviceOK
<1>3. QueueOK(q)'
  BY <1>t, QueueGrows DEF DeviceOK
<1>4. \A S \in s : Known(S)'
  BY KnownGrows DEF DeviceOK
<1>5. CopyOK(local[d])'
  BY <1>1 DEF CopyOK, Known
<1>6. (write[d] # NoWrite => WriteOK(write[d]))'
  BY <1>2 DEF WriteOK, TaskOK, Known
<1>7. QueueOK(queue[d])'
  BY <1>3 DEF QueueOK, TaskOK, Known
<1>8. (\A S \in seeding[d] : Known(S))'
  BY <1>4 DEF Known
<1>9. QED
  BY <1>5, <1>6, <1>7, <1>8 DEF DeviceOK

-----------------------------------------------------------------------------
(* Types.                                                                  *)

LEMMA BudgetSpent ==
  ASSUME NEW what \in {"changes", "disturbances"},
         budget \in [ DOMAIN Budget -> Nat ], Spends(what)
  PROVE  budget' \in [ DOMAIN Budget -> Nat ]
<1>1. DOMAIN Budget = {"changes", "disturbances"}
  BY BudgetAssumption
<1>2. QED
  BY <1>1 DEF Spends

LEMMA StoresType ==
  ASSUME blobs \in Seq(SUBSET Item), NEW rev \in Nat, NEW items \in SUBSET Item,
         Stores(rev, items)
  PROVE  /\ blobs' \in Seq(SUBSET Item)
         /\ blobs' = blobs \/ (blobs' = Append(blobs, items) /\ Fits(rev))
         /\ Fits(rev) => blobs' = Append(blobs, items)
         /\ Len(blobs) \in Nat /\ Len(blobs') \in Nat /\ Len(blobs) <= Len(blobs')
  BY DEF Stores

LEMMA RebasedType ==
  ASSUME blobs \in Seq(SUBSET Item), NEW w \in Write, Len(blobs) > 0, w.tries < MaxRetries
  PROVE  Rebased(w) \in Write
<1>1. blobs[Len(blobs)] \in SUBSET Item /\ Len(blobs) \in Nat
  OBVIOUS
<1>2. w.task.kind # "seed" => w.task \in Intent
  BY SeedKind DEF Write
<1>3. w.task.kind # "seed" => Applied(blobs[Len(blobs)], w.task) \in SUBSET Item
  BY <1>1, <1>2, AppliedType
<1>4. w.tries + 1 \in 0 .. MaxRetries
  BY RetriesAssumption DEF Write
<1>5. QED
  BY <1>1, <1>3, <1>4 DEF Rebased, Write

LEMMA TypeStep ==
  ASSUME IInv, OrganizerNext
  PROVE  OrganizerTypeOK'
<1> USE DEF IInv
<1>t. /\ blobs \in Seq(SUBSET Item) /\ Len(blobs) \in Nat
      /\ late \subseteq Write
      /\ local \in [ Device -> [ items: SUBSET Item, rev: Nat ] ]
      /\ queue \in [ Device -> Seq(Task) ]
      /\ write \in [ Device -> Write \cup {NoWrite} ]
      /\ refresh \in [ Device -> (0 .. Len(blobs)) \cup {NoRefresh, Asked} ]
      /\ seeding \in [ Device -> SUBSET SUBSET Item ]
      /\ budget \in [ DOMAIN Budget -> Nat ]
      /\ used \subseteq Folder /\ dropped \subseteq Item /\ adrift \subseteq Device
  BY DEF OrganizerTypeOK, Task
<1>g. SUFFICES /\ blobs' \in Seq(SUBSET Item)
               /\ late' \subseteq Write
               /\ local' \in [ Device -> [ items: SUBSET Item, rev: Nat ] ]
               /\ queue' \in [ Device -> Seq(Task) ]
               /\ write' \in [ Device -> Write \cup {NoWrite} ]
               /\ refresh' \in [ Device -> (0 .. Len(blobs')) \cup {NoRefresh, Asked} ]
               /\ seeding' \in [ Device -> SUBSET SUBSET Item ]
               /\ budget' \in [ DOMAIN Budget -> Nat ]
               /\ used' \subseteq Folder /\ dropped' \subseteq Item /\ adrift' \subseteq Device
  BY DEF OrganizerTypeOK, Task
<1>b. ASSUME NEW what \in {"changes", "disturbances"}, Spends(what)
      PROVE  budget' \in [ DOMAIN Budget -> Nat ]
  BY <1>t, <1>b, BudgetSpent
<1> USE DEF serverVars, deviceVars, historyVars
<1>1. ASSUME NEW l \in late, Arrives(l) PROVE <1>g!1
  <2>1. l \in Write /\ l.rev + 1 \in Nat /\ l.items \in SUBSET Item
    BY <1>t DEF Write
  <2>2. blobs' \in Seq(SUBSET Item) /\ Len(blobs') \in Nat /\ Len(blobs) <= Len(blobs')
    BY <1>t, <1>1, <2>1, StoresType DEF Arrives
  <2>3. refresh' \in [ Device -> (0 .. Len(blobs')) \cup {NoRefresh, Asked} ]
    BY <1>t, <1>1, <2>2 DEF Arrives
  <2>4. QED
    BY <1>t, <1>1, <2>2, <2>3 DEF Arrives
<1>2. ASSUME NEW d \in Device, Change(d) PROVE <1>g!1
  <2>1. PICK i \in Offered(local[d].items) : Change(d)!2!(i)
    BY <1>2 DEF Change
  <2>2. i \in Intent /\ local[d].items \in SUBSET Item
    BY <1>t DEF Offered
  <2>3. Applied(local[d].items, i) \in SUBSET Item /\ Drops(i) \in SUBSET Item
    BY <2>2, AppliedType
  <2>4. (IF i.kind = "createFolder" THEN {i.folder} ELSE {}) \subseteq Folder
    BY <2>2, IntentCases
  <2>5. Append(queue[d], i) \in Seq(Task)
    BY <1>t, <2>2 DEF Task
  <2>6. local' \in [ Device -> [ items: SUBSET Item, rev: Nat ] ]
    BY <1>t, <2>1, <2>3 DEF Shows
  <2>7. QED
    BY <1>t, <1>b, <1>2, <2>1, <2>3, <2>4, <2>5, <2>6 DEF Change, Enqueues
<1>3. ASSUME NEW d \in Device, Begin(d) PROVE <1>g!1
  <2> DEFINE task == Head(queue[d])
  <2>1. task \in Task /\ Tail(queue[d]) \in Seq(Task)
    BY <1>t, <1>3 DEF Begin
  <2>2. task.kind = "seed" => task.items \in SUBSET Item
    BY <2>1, SeedKind, IntentKind DEF Task
  <2>3. task.kind # "seed" => Applied(local[d].items, task) \in SUBSET Item
    BY <1>t, <2>1, SeedKind, AppliedType DEF Task
  <2>4. write'[d] \in Write
    BY <1>t, <1>3, <2>1, <2>2, <2>3, RetriesAssumption DEF Begin, Writes, Write, Task
  <2>5. write' \in [ Device -> Write \cup {NoWrite} ]
    BY <1>t, <1>3, <2>4 DEF Begin, Writes
  <2>6. QED
    BY <1>t, <1>3, <2>1, <2>5 DEF Begin
<1>4. ASSUME NEW d \in Device, Put(d) PROVE <1>g!1
  <2>1. write[d] \in Write /\ write[d].rev + 1 \in Nat /\ write[d].items \in SUBSET Item
    BY <1>t, <1>4 DEF Put, Write
  <2>2. blobs' \in Seq(SUBSET Item) /\ Len(blobs') \in Nat /\ Len(blobs) <= Len(blobs')
    BY <1>t, <1>4, <2>1, StoresType DEF Put
  <2>3. refresh' \in [ Device -> (0 .. Len(blobs')) \cup {NoRefresh, Asked} ]
    BY <1>t, <1>4, <2>2 DEF Put
  <2>4. write' \in [ Device -> Write \cup {NoWrite} ]
    BY <1>t, <1>4, <2>1 DEF Put, Writes, Write
  <2>5. QED
    BY <1>t, <1>4, <2>2, <2>3, <2>4 DEF Put
<1>5. ASSUME NEW d \in Device, PutFails(d) \/ RereadFails(d) PROVE <1>g!1
  <2>1. write[d] \in Write
    BY <1>t, <1>5 DEF PutFails, RereadFails
  <2>a. [write[d] EXCEPT !.at = "failed"] \in Write
    BY <2>1 DEF Write
  <2>2. write' \in [ Device -> Write \cup {NoWrite} ]
    BY <1>t, <1>5, <2>a DEF PutFails, RereadFails, Writes
  <2>3. QED
    BY <1>t, <1>b, <1>5, <2>1, <2>2 DEF PutFails, RereadFails
<1>6. ASSUME NEW d \in Device, Reread(d) PROVE <1>g!1
  <2>1. write[d] \in Write /\ WriteOK(write[d]) /\ write[d].at = "conflict"
    BY <1>t, <1>6 DEF Reread, DeviceOK
  <2>2. Len(blobs) > 0 /\ write[d].tries < MaxRetries
    BY <2>1, RetriesAssumption DEF WriteOK, Write
  <2>3. Rebased(write[d]) \in Write
    BY <1>t, <2>1, <2>2, RebasedType
  <2>4. [write[d] EXCEPT !.at = "beaten"] \in Write
    BY <2>1 DEF Write
  <2>5. QED
    BY <1>t, <1>6, <2>3, <2>4 DEF Reread, Writes
<1>7. ASSUME NEW d \in Device, Pull(d) PROVE <1>g!1
  <2>1. write[d] \in Write /\ WriteOK(write[d]) /\ write[d].at = "beaten"
    BY <1>t, <1>7 DEF Pull, DeviceOK
  <2>2. Len(blobs) > 0 /\ Len(blobs) - 1 \in Nat /\ blobs[Len(blobs)] \in SUBSET Item
    BY <1>t, <2>1 DEF WriteOK
  <2>3. write' \in [ Device -> Write \cup {NoWrite} ]
    BY <1>t, <1>7, <2>1, <2>2 DEF Pull, Writes, Write
  <2>4. QED
    BY <1>t, <1>7, <2>3 DEF Pull
<1>8. ASSUME NEW d \in Device, Save(d) PROVE <1>g!1
  <2>1. write[d].items \in SUBSET Item /\ write[d].rev + 1 \in Nat
    BY <1>t, <1>8 DEF Save, Write
  <2>2. local' \in [ Device -> [ items: SUBSET Item, rev: Nat ] ]
    BY <1>t, <1>8, <2>1 DEF Save, Shows
  <2>3. QED
    BY <1>t, <1>8, <2>2 DEF Save, Writes
<1>9. ASSUME NEW d \in Device, Undo(d) PROVE <1>g!1
  <2>1. write[d] \in Write
    BY <1>t, <1>9 DEF Undo
  <2>2. CASE write[d].task.kind = "seed"
    BY <1>t, <1>9, <2>2 DEF Undo, Writes
  <2>3. CASE write[d].task.kind # "seed"
    <3>1. write[d].task \in Intent
      BY <2>1, <2>3, SeedKind DEF Write
    <3>2. /\ Undone(local[d].items, write[d].task) \in SUBSET Item
          /\ UndoDrops(write[d].task) \in SUBSET Item
      BY <1>t, <3>1, AppliedType
    <3>a. local' = [local EXCEPT ![d] = [ items |-> Undone(local[d].items, write[d].task),
                                          rev |-> local[d].rev ]]
      BY <1>9, <2>3 DEF Undo, Shows
    <3>3. local' \in [ Device -> [ items: SUBSET Item, rev: Nat ] ]
      BY <1>t, <3>2, <3>a
    <3>4. QED
      BY <1>t, <1>9, <2>3, <3>2, <3>3 DEF Undo, Writes
  <2>4. QED
    BY <2>2, <2>3
<1>10. ASSUME NEW d \in Device, Refresh(d) \/ GetBlob(d) PROVE <1>g!1
  <2> DEFINE Answer == (0 .. Len(blobs)) \cup {NoRefresh, Asked}
  <2>a. Len(blobs) \in Answer /\ Asked \in Answer /\ refresh \in [ Device -> Answer ]
    BY <1>t
  <2>b. \E r \in Answer : refresh' = [refresh EXCEPT ![d] = r]
    <3> HIDE DEF Answer
    <3>1. QED
      BY <2>a, <1>10 DEF Refresh, GetBlob
  <2>1. refresh' \in [ Device -> (0 .. Len(blobs)) \cup {NoRefresh, Asked} ]
    <3>1. refresh' \in [ Device -> Answer ]
      <4> HIDE DEF Answer
      <4>1. QED
        BY <2>a, <2>b
    <3>2. QED
      BY <3>1
  <2>2. blobs' = blobs /\ budget' \in [ DOMAIN Budget -> Nat ]
    BY <1>t, <1>b, <1>10 DEF Refresh, GetBlob
  <2>3. QED
    BY <1>t, <1>10, <2>1, <2>2 DEF Refresh, GetBlob
<1>11. ASSUME NEW d \in Device, Adopt(d) PROVE <1>g!1
  <2>1. refresh[d] \in 1 .. Len(blobs)
    BY <1>t, <1>11 DEF Adopt, Answered
  <2>2. local' \in [ Device -> [ items: SUBSET Item, rev: Nat ] ]
    <3>1. blobs[refresh[d]] \in SUBSET Item /\ refresh[d] \in Nat
      BY <1>t, <2>1
    <3>2. CASE UNCHANGED <<local, adrift>>
      BY <1>t, <3>2
    <3>3. CASE Shows(d, blobs[refresh[d]], refresh[d])
      BY <1>t, <3>1, <3>3 DEF Shows
    <3>4. QED
      BY <1>11, <3>2, <3>3 DEF Adopt
  <2>3. QED
    BY <1>t, <1>11, <2>2 DEF Adopt
<1>12. ASSUME NEW d \in Device, Migrate(d) PROVE <1>g!1
  <2>1. seeding[d] \cup {local[d].items} \in SUBSET SUBSET Item
    BY <1>t
  <2>2. QED
    BY <1>t, <1>12, <2>1 DEF Migrate
<1>13. ASSUME NEW d \in Device, QueueSeed(d) PROVE <1>g!1
  <2>1. PICK S \in seeding[d] : QueueSeed(d)!1!(S)
    BY <1>13 DEF QueueSeed
  <2>2. S \in SUBSET Item /\ Merged(S) \in SUBSET Item
    BY <1>t, OverlayAssumption DEF Merged
  <2>3. /\ [ kind |-> "seed", items |-> Merged(S) ] \in Task
        /\ [ kind |-> "seed", items |-> S ] \in Task
    BY <2>2 DEF Seed, Task
  <2>a. \A t \in Task : Append(queue[d], t) \in Seq(Task)
    BY <1>t
  <2>b. \E t \in Task : queue' = [queue EXCEPT ![d] = Append(@, t)]
    BY <2>1, <2>3 DEF Enqueues
  <2>4. queue' \in [ Device -> Seq(Task) ]
    BY <1>t, <2>a, <2>b
  <2>5. QED
    BY <1>t, <1>b, <1>13, <2>1, <2>4 DEF QueueSeed
<1>14. ASSUME NEW d \in Device, Restart(d) PROVE <1>g!1
  BY <1>t, <1>b, <1>14 DEF Restart, Writes
<1>15. QED
  BY <1>1, <1>2, <1>3, <1>4, <1>5, <1>6, <1>7, <1>8, <1>9, <1>10, <1>11, <1>12, <1>13, <1>14
  DEF OrganizerNext, DeviceStep

-----------------------------------------------------------------------------
(* The server.                                                             *)

LEMMA ServerSteps ==
  ASSUME OrganizerTypeOK, Grows, ServerOK,
         blobs' = blobs \/ \E S \in SUBSET Item : Known(S) /\ blobs' = Append(blobs, S),
         \A w \in late' : w \in late \/ (w \in Write /\ WriteOK(w) /\ w.at = "put")
  PROVE  ServerOK'
<1>t. blobs \in Seq(SUBSET Item) /\ late \subseteq Write
  BY DEF OrganizerTypeOK
<1>1. \A S \in SUBSET Item : Known(S) => Known(S)'
  BY KnownGrows
<1>2. ASSUME NEW k \in 1 .. Len(blobs') PROVE Known(blobs[k])'
  <2>1. PICK S \in SUBSET Item : S = blobs'[k] /\ Known(S)
    BY <1>t, <1>2 DEF ServerOK
  <2>2. Known(S)'
    BY <1>1, <2>1
  <2>3. QED
    BY <2>1, <2>2 DEF Known
<1>3. \A w \in Write : WriteOK(w) => WriteOK(w)'
  BY <1>t, WriteGrows
<1>4. \A w \in late' : WriteOK(w)' /\ w.at = "put"
  BY <1>t, <1>3 DEF ServerOK
<1>5. Overlay \cap Folder \subseteq used'
  BY DEF ServerOK, Grows
<1>6. (\A k \in 1 .. Len(blobs) : Known(blobs[k]))'
  BY <1>2
<1>7. (\A w \in late : WriteOK(w) /\ w.at = "put")'
  BY <1>4 DEF WriteOK, TaskOK, Known
<1>8. QED
  BY <1>5, <1>6, <1>7 DEF ServerOK

LEMMA GrowsStep ==
  ASSUME IInv, OrganizerNext
  PROVE  Grows
<1> USE DEF IInv, serverVars, deviceVars, historyVars
<1>t. blobs \in Seq(SUBSET Item) /\ late \subseteq Write /\ write \in [ Device -> Write \cup {NoWrite} ]
  BY DEF OrganizerTypeOK
<1>1. ASSUME NEW l \in late, Arrives(l) PROVE Grows
  <2>1. l.rev + 1 \in Nat /\ l.items \in SUBSET Item
    BY <1>t DEF Write
  <2>2. QED
    BY <1>t, <1>1, <2>1, StoresType DEF Arrives, Grows
<1>2. ASSUME NEW d \in Device, Put(d) PROVE Grows
  <2>1. write[d].rev + 1 \in Nat /\ write[d].items \in SUBSET Item
    BY <1>t, <1>2 DEF Put, Write
  <2>2. QED
    BY <1>t, <1>2, <2>1, StoresType DEF Put, Grows
<1>3. ASSUME NEW d \in Device, Undo(d) PROVE Grows
  BY <1>3 DEF Undo, Grows
<1>4. ASSUME NEW d \in Device, Change(d) PROVE Grows
  BY <1>4 DEF Change, Grows
<1>5. ASSUME NEW d \in Device,
             Begin(d) \/ Reread(d) \/ Pull(d) \/ Save(d) \/ PutFails(d) \/ RereadFails(d)
               \/ Refresh(d) \/ GetBlob(d) \/ Adopt(d) \/ Migrate(d) \/ QueueSeed(d) \/ Restart(d)
      PROVE  Grows
  BY <1>5 DEF Begin, Reread, Pull, Save, PutFails, RereadFails, Refresh, GetBlob, Adopt, Migrate,
              QueueSeed, Restart, Grows
<1>6. QED
  BY <1>1, <1>2, <1>3, <1>4, <1>5 DEF OrganizerNext, DeviceStep

LEMMA ServerStep ==
  ASSUME IInv, OrganizerNext
  PROVE  ServerOK'
<1> USE DEF IInv, serverVars, deviceVars, historyVars
<1>t. blobs \in Seq(SUBSET Item) /\ late \subseteq Write /\ write \in [ Device -> Write \cup {NoWrite} ]
  BY DEF OrganizerTypeOK
<1>g. Grows
  BY GrowsStep
<1>s. SUFFICES /\ blobs' = blobs \/ \E S \in SUBSET Item : Known(S) /\ blobs' = Append(blobs, S)
               /\ \A w \in late' : w \in late \/ (w \in Write /\ WriteOK(w) /\ w.at = "put")
  BY <1>g, ServerSteps
<1>1. ASSUME NEW l \in late, Arrives(l) PROVE <1>s!1
  <2>1. l.rev + 1 \in Nat /\ l.items \in SUBSET Item /\ Known(l.items)
    BY <1>t DEF Write, ServerOK, WriteOK
  <2>2. QED
    BY <1>t, <1>1, <2>1, StoresType DEF Arrives
<1>2. ASSUME NEW d \in Device, Put(d) PROVE <1>s!1
  <2>1. write[d].rev + 1 \in Nat /\ write[d].items \in SUBSET Item /\ Known(write[d].items)
    BY <1>t, <1>2 DEF Put, Write, DeviceOK, WriteOK
  <2>2. QED
    BY <1>t, <1>2, <2>1, StoresType DEF Put
<1>3. ASSUME NEW d \in Device, PutFails(d) \/ Restart(d) PROVE <1>s!1
  BY <1>t, <1>3 DEF PutFails, Restart, DeviceOK
<1>4. ASSUME NEW d \in Device,
             Begin(d) \/ Reread(d) \/ Pull(d) \/ Save(d) \/ Undo(d) \/ RereadFails(d) \/ Change(d)
               \/ Refresh(d) \/ GetBlob(d) \/ Adopt(d) \/ Migrate(d) \/ QueueSeed(d)
      PROVE  <1>s!1
  BY <1>4 DEF Begin, Reread, Pull, Save, Undo, RereadFails, Change, Refresh, GetBlob, Adopt, Migrate,
              QueueSeed
<1>5. QED
  BY <1>1, <1>2, <1>3, <1>4 DEF OrganizerNext, DeviceStep

-----------------------------------------------------------------------------
(* The devices.  Each lemma is about the device that takes the step.       *)

Copy == [ items: SUBSET Item, rev: Nat ]

LEMMA DeviceTypes ==
  ASSUME OrganizerTypeOK, NEW d \in Device
  PROVE  /\ blobs \in Seq(SUBSET Item) /\ Len(blobs) \in Nat
         /\ local[d] \in Copy
         /\ write[d] \in Write \cup {NoWrite}
         /\ queue[d] \in Seq(Task)
         /\ seeding[d] \in SUBSET SUBSET Item
         /\ refresh[d] \in (0 .. Len(blobs)) \cup {NoRefresh, Asked}
  BY DEF OrganizerTypeOK, Task, Copy

LEMMA DeviceTypesAfter ==
  ASSUME OrganizerTypeOK', NEW d \in Device
  PROVE  \E c \in Copy, w \in Write \cup {NoWrite}, q \in Seq(Task), s \in SUBSET SUBSET Item :
           local'[d] = c /\ write'[d] = w /\ queue'[d] = q /\ seeding'[d] = s
  BY DEF OrganizerTypeOK, Task, Copy

(* A device whose variables a step leaves alone.                           *)
LEMMA DeviceSame ==
  ASSUME OrganizerTypeOK, OrganizerTypeOK', Grows, NEW d \in Device, DeviceOK(d),
         local'[d] = local[d], write'[d] = write[d], queue'[d] = queue[d],
         seeding'[d] \subseteq seeding[d]
  PROVE  DeviceOK(d)'
<1>1. PICK c \in Copy, w \in Write \cup {NoWrite}, q \in Seq(Task), s \in SUBSET SUBSET Item :
           local'[d] = c /\ write'[d] = w /\ queue'[d] = q /\ seeding'[d] = s
  BY DeviceTypesAfter
<1>2. QED
  BY <1>1, DeviceSteps DEF Copy

LEMMA ChangeKeeps ==
  ASSUME IInv, OrganizerTypeOK', Grows, NEW d \in Device, Change(d)
  PROVE  DeviceOK(d)'
<1> USE DEF IInv, serverVars, deviceVars, historyVars
<1>t. /\ blobs \in Seq(SUBSET Item) /\ local[d] \in Copy /\ queue[d] \in Seq(Task)
  BY DeviceTypes
<1>1. PICK c \in Copy, w \in Write \cup {NoWrite}, q \in Seq(Task), s \in SUBSET SUBSET Item :
           local'[d] = c /\ write'[d] = w /\ queue'[d] = q /\ seeding'[d] = s
  BY DeviceTypesAfter
<1>2. PICK i \in Offered(local[d].items) : Change(d)!2!(i)
  BY DEF Change
<1>3. i \in Intent /\ local[d].items \in SUBSET Item /\ local[d].rev \in Nat
  BY <1>t DEF Offered, Copy
<1>4. c = [ items |-> Applied(local[d].items, i), rev |-> local[d].rev ]
  BY <1>1, <1>2 DEF Shows, OrganizerTypeOK
<1>5. TaskOK(i)'
  <2>1. i.kind # "seed"
    BY <1>3, IntentKind
  <2>2. i.kind \in {"createFolder", "removeFolder"} => i.folder \in used'
    <3>1. i.kind = "createFolder" => i.folder \in used'
      BY <1>2
    <3>2. i.kind = "removeFolder" => i.folder \in used
      BY <1>2, <1>3, IntentCases DEF Offered, DeviceOK, CopyOK, Known
    <3>3. QED
      BY <3>1, <3>2 DEF Grows
  <2>3. QED
    BY <1>2, <2>1, <2>2 DEF TaskOK
<1>6. QueueOK(q)'
  <2>1. q = Append(queue[d], i) /\ i \in Task
    BY <1>1, <1>2, <1>3 DEF Enqueues, OrganizerTypeOK, Task
  <2>2. \A k \in 1 .. Len(queue[d]) : queue[d][k] \in Task /\ TaskOK(queue[d][k])
    BY <1>t DEF DeviceOK, QueueOK
  <2>3. \A k \in 1 .. Len(q) : q[k] = i \/ \E t \in Task : q[k] = t /\ TaskOK(t)
    BY <1>t, <2>1, <2>2
  <2>4. \A t \in Task : TaskOK(t) => TaskOK(t)'
    BY TaskGrows
  <2>5. ASSUME NEW k \in 1 .. Len(q) PROVE TaskOK(q[k])'
    BY <1>5, <2>3, <2>4
  <2>6. QED
    BY <2>5 DEF QueueOK
<1>7. CopyOK(c)'
  <2>1. CopyOK(local[d]) /\ Known(local[d].items)
    BY DEF DeviceOK, CopyOK
  <2>2. Known(c.items)'
    <3>1. c.items = Applied(local[d].items, i)
      BY <1>4
    <3>2. used \subseteq used' /\ (i.kind = "createFolder" => i.folder \in used')
      BY <1>2
    <3>3. QED
      BY <1>3, <2>1, <3>1, <3>2, IntentCases, ItemAssumption DEF Known, Applied, Without, Entity
  <2>3. c.rev > 0 => blobs[c.rev] \ c.items \subseteq dropped'
    <3>1. HAVE c.rev > 0
    <3>2. c.rev \in 1 .. Len(blobs) /\ blobs[c.rev] \ local[d].items \subseteq dropped
      BY <1>t, <1>3, <1>4, <2>1, <3>1 DEF CopyOK
    <3>3. Known(blobs[c.rev]) /\ blobs[c.rev] \in SUBSET Item
      BY <1>t, <3>2 DEF ServerOK
    <3>4. local[d].items \ c.items \subseteq Drops(i) \cup Replaced(i)
      BY <1>3, <1>4, AppliedLoses
    <3>5. blobs[c.rev] \cap Replaced(i) = {}
      BY <1>2, <1>3, <3>3, IntentCases DEF Offered, Known, Replaced, Members
    <3>6. QED
      BY <1>2, <3>2, <3>4, <3>5
  <2>4. blobs' = blobs
    BY DEF Change
  <2>5. QED
    BY <1>3, <1>4, <2>1, <2>2, <2>3, <2>4 DEF CopyOK
<1>8. w = write[d] /\ s \subseteq seeding[d]
  BY <1>1 DEF Change
<1>9. QED
  BY <1>1, <1>6, <1>7, <1>8, DeviceSteps DEF Copy

(* What a write carries after its change has been applied to a copy.       *)
LEMMA CarriedOK ==
  ASSUME OrganizerTypeOK, NEW c \in Copy, CopyOK(c), NEW i \in Intent, TaskOK(i)
  PROVE  /\ Applied(c.items, i) \in SUBSET Item
         /\ Known(Applied(c.items, i))
         /\ c.rev > 0 => blobs[c.rev] \ Applied(c.items, i) \subseteq dropped \cup Replaced(i)
         /\ Applied(Applied(c.items, i), i) = Applied(c.items, i)
<1>1. c.items \in SUBSET Item /\ i.kind # "seed"
  BY IntentKind DEF Copy
<1>2. i.kind = "createFolder" => i.folder \in used
  BY DEF TaskOK
<1>3. Known(Applied(c.items, i))
  BY <1>1, <1>2, AppliedKnown DEF CopyOK
<1>4. c.items \ Applied(c.items, i) \subseteq Drops(i) \cup Replaced(i)
  BY <1>1, AppliedLoses
<1>5. Drops(i) \subseteq dropped
  BY <1>1 DEF TaskOK
<1>6. QED
  BY <1>1, <1>3, <1>4, <1>5, AppliedType, AppliedTwice DEF CopyOK

LEMMA BeginKeeps ==
  ASSUME IInv, OrganizerTypeOK', Grows, NEW d \in Device, Begin(d)
  PROVE  DeviceOK(d)'
<1> USE DEF IInv, serverVars, deviceVars, historyVars
<1>t. /\ blobs \in Seq(SUBSET Item) /\ Len(blobs) \in Nat
      /\ local[d] \in Copy /\ queue[d] \in Seq(Task) /\ CopyOK(local[d])
  BY DeviceTypes DEF DeviceOK
<1>1. PICK c \in Copy, w \in Write \cup {NoWrite}, q \in Seq(Task), s \in SUBSET SUBSET Item :
           local'[d] = c /\ write'[d] = w /\ queue'[d] = q /\ seeding'[d] = s
  BY DeviceTypesAfter
<1>2. PICK t \in Task : t = Head(queue[d]) /\ TaskOK(t)
  BY <1>t DEF Begin, DeviceOK, QueueOK
<1>3. /\ t.kind = "seed" => w = [ task |-> t, items |-> t.items, rev |-> 0, tries |-> 0, at |-> "put" ]
      /\ t.kind # "seed" => w = [ task |-> t, items |-> Applied(local[d].items, t),
                                  rev |-> local[d].rev, tries |-> 0, at |-> "put" ]
  BY <1>1, <1>2 DEF Begin, Writes, OrganizerTypeOK
<1>4. w \in Write
  <2>1. t.kind = "seed" => t.items \in SUBSET Item
    BY <1>2, SeedKind, IntentKind DEF Task
  <2>2. t.kind # "seed" => Applied(local[d].items, t) \in SUBSET Item
    <3>1. local[d].items \in SUBSET Item
      BY <1>t DEF Copy
    <3>2. t.kind # "seed" => t \in Intent
      BY <1>2, SeedKind DEF Task
    <3>3. QED
      BY <3>1, <3>2, AppliedType
  <2>3. t \in Intent \cup Seed /\ local[d].rev \in Nat /\ 0 \in 0 .. MaxRetries
    BY <1>t, <1>2, RetriesAssumption DEF Task, Copy
  <2>4. QED
    BY <1>3, <2>1, <2>2, <2>3 DEF Write
<1>5. WriteOK(w)
  <2>1. CASE t.kind = "seed"
    BY <1>t, <1>2, <1>3, <2>1 DEF WriteOK, TaskOK
  <2>2. CASE t.kind # "seed"
    <3>1. t \in Intent
      BY <1>2, <2>2, SeedKind DEF Task
    <3>2. /\ Known(w.items)
          /\ w.rev > 0 => blobs[w.rev] \ w.items \subseteq dropped \cup Replaced(t)
          /\ Applied(w.items, t) = w.items
      BY <1>t, <1>2, <1>3, <2>2, <3>1, CarriedOK
    <3>3. w.rev <= Len(blobs) /\ w.at = "put" /\ w.task = t
      BY <1>t, <1>3, <2>2 DEF CopyOK
    <3>4. QED
      BY <1>2, <3>2, <3>3 DEF WriteOK
  <2>3. QED
    BY <2>1, <2>2
<1>6. WriteOK(w)'
  BY <1>t, <1>4, <1>5, WriteGrows
<1>7. QueueOK(q)'
  <2>1. q = Tail(queue[d])
    BY <1>1 DEF Begin, OrganizerTypeOK
  <2>2. queue[d] # <<>>
    BY DEF Begin
  <2>3. \A k \in 1 .. Len(q) : \E t2 \in Task : q[k] = t2 /\ TaskOK(t2)
    BY <1>t, <2>1, <2>2 DEF DeviceOK, QueueOK
  <2>4. QueueOK(q)
    BY <2>3 DEF QueueOK
  <2>5. QED
    BY <2>4, QueueGrows
<1>8. c = local[d] /\ s \subseteq seeding[d]
  BY <1>1 DEF Begin
<1>9. QED
  BY <1>1, <1>6, <1>7, <1>8, DeviceSteps DEF Copy

LEMMA PutKeeps ==
  ASSUME IInv, OrganizerTypeOK', Grows, NEW d \in Device, Put(d)
  PROVE  DeviceOK(d)'
<1> USE DEF IInv, serverVars, deviceVars, historyVars
<1>t. blobs \in Seq(SUBSET Item) /\ Len(blobs) \in Nat /\ write \in [ Device -> Write \cup {NoWrite} ]
  BY DeviceTypes DEF OrganizerTypeOK
<1>1. PICK c \in Copy, w \in Write \cup {NoWrite}, q \in Seq(Task), s \in SUBSET SUBSET Item :
           local'[d] = c /\ write'[d] = w /\ queue'[d] = q /\ seeding'[d] = s
  BY DeviceTypesAfter
<1>2. PICK v \in Write : v = write[d] /\ WriteOK(v) /\ v.at = "put"
  BY <1>t DEF Put, DeviceOK
<1>3. PICK answer \in {"saved", "beaten", "conflict"} :
         /\ w = [v EXCEPT !.at = answer]
         /\ answer = "saved" => Fits(v.rev + 1)
         /\ answer # "saved" => ~Fits(v.rev + 1)
         /\ answer = "conflict" => v.tries # MaxRetries
  BY <1>t, <1>1, <1>2 DEF Put, Writes
<1>4. v.rev \in Nat /\ v.items \in SUBSET Item /\ v.rev <= Len(blobs)
  BY <1>2 DEF Write, WriteOK
<1>5. /\ w.task = v.task /\ w.items = v.items /\ w.rev = v.rev /\ w.tries = v.tries /\ w.at = answer
      /\ w \in Write
  BY <1>2, <1>3 DEF Write
<1>6. answer = "saved" => Len(blobs') = v.rev + 1 /\ blobs'[v.rev + 1] = v.items
  <2>1. HAVE answer = "saved"
  <2>2. blobs' = Append(blobs, v.items)
    BY <1>2, <1>3, <2>1 DEF Put, Stores
  <2>3. Len(blobs) = v.rev
    BY <1>3, <1>4, <2>1 DEF Fits
  <2>4. QED
    BY <1>t, <1>4, <2>2, <2>3
<1>7. answer # "saved" => Len(blobs) > 0
  BY <1>t, <1>3, <1>4 DEF Fits
<1>8. TaskOK(w.task)' /\ Known(w.items)'
  <2>1. TaskOK(v.task) /\ Known(v.items) /\ v.task \in Task
    BY <1>2 DEF WriteOK, Write, Task
  <2>2. QED
    BY <1>5, <2>1, TaskGrows, KnownGrows
<1>9. WriteOK(w)'
  BY <1>3, <1>4, <1>5, <1>6, <1>7, <1>8, <1>t, Growth DEF WriteOK
<1>10. c = local[d] /\ q = queue[d] /\ s \subseteq seeding[d]
  BY <1>1 DEF Put
<1>11. QED
  BY <1>1, <1>9, <1>10, DeviceSteps DEF Copy

LEMMA FailKeeps ==
  ASSUME IInv, OrganizerTypeOK', Grows, NEW d \in Device, PutFails(d) \/ RereadFails(d)
  PROVE  DeviceOK(d)'
<1> USE DEF IInv, serverVars, deviceVars, historyVars
<1>t. blobs \in Seq(SUBSET Item) /\ Len(blobs) \in Nat /\ write \in [ Device -> Write \cup {NoWrite} ]
  BY DeviceTypes DEF OrganizerTypeOK
<1>1. PICK c \in Copy, w \in Write \cup {NoWrite}, q \in Seq(Task), s \in SUBSET SUBSET Item :
           local'[d] = c /\ write'[d] = w /\ queue'[d] = q /\ seeding'[d] = s
  BY DeviceTypesAfter
<1>2. PICK v \in Write : v = write[d] /\ WriteOK(v)
  BY <1>t DEF PutFails, RereadFails, DeviceOK
<1>3. w = [v EXCEPT !.at = "failed"]
  BY <1>t, <1>1, <1>2 DEF PutFails, RereadFails, Writes
<1>4. w \in Write /\ WriteOK(w)
  BY <1>2, <1>3 DEF WriteOK, Write
<1>5. WriteOK(w)'
  BY <1>t, <1>4, WriteGrows
<1>6. c = local[d] /\ q = queue[d] /\ s \subseteq seeding[d]
  BY <1>1 DEF PutFails, RereadFails
<1>7. QED
  BY <1>1, <1>5, <1>6, DeviceSteps DEF Copy

LEMMA RereadKeeps ==
  ASSUME IInv, OrganizerTypeOK', Grows, NEW d \in Device, Reread(d)
  PROVE  DeviceOK(d)'
<1> USE DEF IInv, serverVars, deviceVars, historyVars
<1>t. /\ blobs \in Seq(SUBSET Item) /\ Len(blobs) \in Nat
      /\ write \in [ Device -> Write \cup {NoWrite} ]
  BY DeviceTypes DEF OrganizerTypeOK
<1>1. PICK c \in Copy, w \in Write \cup {NoWrite}, q \in Seq(Task), s \in SUBSET SUBSET Item :
           local'[d] = c /\ write'[d] = w /\ queue'[d] = q /\ seeding'[d] = s
  BY DeviceTypesAfter
<1>2. PICK v \in Write : v = write[d] /\ WriteOK(v) /\ v.at = "conflict"
  BY <1>t DEF Reread, DeviceOK
<1>3. Len(blobs) > 0 /\ v.tries < MaxRetries /\ v.rev \in Nat
  BY <1>2, RetriesAssumption DEF WriteOK, Write
<1>4. w \in Write /\ WriteOK(w)
  <2>1. CASE Len(blobs) < v.rev
    <3>1. v.rev <= Len(blobs)
      BY <1>2 DEF WriteOK
    <3>2. QED
      BY <1>t, <1>3, <2>1, <3>1
  <2>2. CASE ~(Len(blobs) < v.rev)
    <3>1. w = Rebased(v) /\ w \in Write
      <4>1. w = Rebased(v)
        BY <1>t, <1>1, <1>2, <2>2 DEF Reread, Writes
      <4>2. QED
        BY <1>t, <1>3, <4>1, RebasedType
    <3>2. PICK r \in Copy : r = [ items |-> blobs[Len(blobs)], rev |-> Len(blobs) ]
      <4>1. [ items |-> blobs[Len(blobs)], rev |-> Len(blobs) ] \in Copy
        BY <1>t, <1>3 DEF Copy
      <4>2. QED
        BY <4>1
    <3>3. CopyOK(r)
      BY <1>t, <1>3, <3>2 DEF CopyOK, ServerOK
    <3>4. /\ w.task = v.task /\ w.rev = Len(blobs) /\ w.at = "put"
          /\ v.task.kind = "seed" => w.items = r.items
          /\ v.task.kind # "seed" => w.items = Applied(r.items, v.task)
      <4>1. r.items = blobs[Len(blobs)]
        BY <3>2
      <4>2. QED
        BY <1>2, <3>1, <4>1 DEF Rebased, Write
    <3>5. CASE v.task.kind = "seed"
      <4>1. TaskOK(w.task) /\ w.task.kind = "seed"
        BY <1>2, <3>4, <3>5 DEF WriteOK
      <4>2. Known(w.items) /\ blobs[w.rev] \ w.items = {}
        BY <3>2, <3>3, <3>4, <3>5 DEF CopyOK
      <4>3. w.rev <= Len(blobs) /\ w.at = "put"
        BY <1>t, <3>4
      <4>4. QED
        BY <3>1, <4>1, <4>2, <4>3 DEF WriteOK
    <3>6. CASE v.task.kind # "seed"
      <4>1. v.task \in Intent /\ TaskOK(v.task)
        BY <1>2, <3>6, SeedKind DEF Write, WriteOK
      <4>a. r.rev > 0 /\ r.rev = w.rev /\ w.items = Applied(r.items, v.task) /\ w.task = v.task
        BY <1>3, <3>2, <3>4, <3>6
      <4>2. /\ Known(w.items)
            /\ blobs[w.rev] \ w.items \subseteq dropped \cup Replaced(w.task)
            /\ Applied(w.items, w.task) = w.items
        BY <3>3, <4>1, <4>a, CarriedOK
      <4>3. QED
        <5>1. TaskOK(w.task) /\ w.rev <= Len(blobs) /\ w.at = "put"
          BY <1>t, <3>4, <4>1
        <5>2. QED
          BY <3>1, <4>2, <5>1 DEF WriteOK
    <3>7. QED
      BY <3>1, <3>5, <3>6
  <2>3. QED
    BY <2>1, <2>2
<1>5. WriteOK(w)'
  BY <1>t, <1>4, WriteGrows
<1>6. c = local[d] /\ q = queue[d] /\ s \subseteq seeding[d]
  BY <1>1 DEF Reread
<1>7. QED
  BY <1>1, <1>5, <1>6, DeviceSteps DEF Copy

LEMMA PullKeeps ==
  ASSUME IInv, OrganizerTypeOK', Grows, NEW d \in Device, Pull(d)
  PROVE  DeviceOK(d)'
<1> USE DEF IInv, serverVars, deviceVars, historyVars
<1>t. /\ blobs \in Seq(SUBSET Item) /\ Len(blobs) \in Nat
      /\ write \in [ Device -> Write \cup {NoWrite} ]
  BY DeviceTypes DEF OrganizerTypeOK
<1>1. PICK c \in Copy, w \in Write \cup {NoWrite}, q \in Seq(Task), s \in SUBSET SUBSET Item :
           local'[d] = c /\ write'[d] = w /\ queue'[d] = q /\ seeding'[d] = s
  BY DeviceTypesAfter
<1>2. PICK v \in Write : v = write[d] /\ WriteOK(v) /\ v.at = "beaten"
  BY <1>t DEF Pull, DeviceOK
<1>3. Len(blobs) > 0 /\ Len(blobs) - 1 \in Nat /\ blobs[Len(blobs)] \in SUBSET Item
      /\ Known(blobs[Len(blobs)])
  BY <1>t, <1>2 DEF WriteOK, ServerOK
<1>4. w = [v EXCEPT !.items = blobs[Len(blobs)], !.rev = Len(blobs) - 1, !.at = "saved"]
  BY <1>t, <1>1, <1>2 DEF Pull, Writes
<1>5. w \in Write /\ w.task = v.task /\ w.items = blobs[Len(blobs)] /\ w.rev = Len(blobs) - 1
      /\ w.at = "saved"
  BY <1>2, <1>3, <1>4 DEF Write
<1>6. WriteOK(w)
  <2>1. w.rev <= Len(blobs) /\ w.rev < Len(blobs) /\ w.rev + 1 = Len(blobs)
    BY <1>t, <1>5
  <2>2. QED
    BY <1>2, <1>3, <1>5, <2>1 DEF WriteOK
<1>7. WriteOK(w)'
  BY <1>t, <1>5, <1>6, WriteGrows
<1>8. c = local[d] /\ q = queue[d] /\ s \subseteq seeding[d]
  BY <1>1 DEF Pull
<1>9. QED
  BY <1>1, <1>7, <1>8, DeviceSteps DEF Copy

LEMMA SaveKeeps ==
  ASSUME IInv, OrganizerTypeOK', Grows, NEW d \in Device, Save(d)
  PROVE  DeviceOK(d)'
<1> USE DEF IInv, serverVars, deviceVars, historyVars
<1>t. /\ blobs \in Seq(SUBSET Item) /\ Len(blobs) \in Nat
      /\ write \in [ Device -> Write \cup {NoWrite} ]
      /\ local \in [ Device -> Copy ]
  BY DeviceTypes DEF OrganizerTypeOK, Copy
<1>1. PICK c \in Copy, w \in Write \cup {NoWrite}, q \in Seq(Task), s \in SUBSET SUBSET Item :
           local'[d] = c /\ write'[d] = w /\ queue'[d] = q /\ seeding'[d] = s
  BY DeviceTypesAfter
<1>2. PICK v \in Write : v = write[d] /\ WriteOK(v) /\ v.at = "saved"
  BY <1>t DEF Save, DeviceOK
<1>3. c = [ items |-> v.items, rev |-> v.rev + 1 ] /\ w = NoWrite
  BY <1>t, <1>1, <1>2 DEF Save, Shows, Writes
<1>4. CopyOK(c)
  BY <1>t, <1>2, <1>3 DEF CopyOK, WriteOK, Write
<1>5. CopyOK(c)'
  BY <1>t, <1>4, CopyGrows DEF Copy
<1>6. q = queue[d] /\ s \subseteq seeding[d]
  BY <1>1 DEF Save
<1>7. QED
  BY <1>1, <1>3, <1>5, <1>6, DeviceSteps DEF Copy

LEMMA UndoKeeps ==
  ASSUME IInv, OrganizerTypeOK', Grows, NEW d \in Device, Undo(d)
  PROVE  DeviceOK(d)'
<1> USE DEF IInv, serverVars, deviceVars, historyVars
<1>t. /\ blobs \in Seq(SUBSET Item) /\ Len(blobs) \in Nat
      /\ write \in [ Device -> Write \cup {NoWrite} ]
      /\ local \in [ Device -> Copy ]
  BY DeviceTypes DEF OrganizerTypeOK, Copy
<1>1. PICK c \in Copy, w \in Write \cup {NoWrite}, q \in Seq(Task), s \in SUBSET SUBSET Item :
           local'[d] = c /\ write'[d] = w /\ queue'[d] = q /\ seeding'[d] = s
  BY DeviceTypesAfter
<1>2. PICK v \in Write : v = write[d] /\ WriteOK(v)
  BY <1>t DEF Undo, DeviceOK
<1>3. w = NoWrite
  BY <1>t, <1>1 DEF Undo, Writes
<1>4. c = local[d] \/ CopyOK(c)'
  <2>1. CASE v.task.kind = "seed"
    BY <1>1, <1>2, <2>1 DEF Undo
  <2>2. CASE v.task.kind # "seed"
    <3>1. v.task \in Intent /\ TaskOK(v.task) /\ local[d].items \in SUBSET Item
          /\ CopyOK(local[d]) /\ local[d].rev \in Nat
      BY <1>t, <1>2, <2>2, SeedKind DEF Write, WriteOK, Copy, DeviceOK
    <3>2. /\ c = [ items |-> Undone(local[d].items, v.task), rev |-> local[d].rev ]
          /\ dropped' = dropped \cup UndoDrops(v.task) /\ blobs' = blobs /\ used' = used
      BY <1>t, <1>1, <1>2, <2>2 DEF Undo, Shows
    <3>3. Known(c.items)
      BY <3>1, <3>2, UndoneKnown DEF TaskOK, CopyOK
    <3>4. local[d].items \ c.items \subseteq UndoDrops(v.task)
      BY <3>1, <3>2, UndoneLoses
    <3>5. Known(c.items)'
      BY <3>3, KnownGrows
    <3>6. QED
      BY <3>1, <3>2, <3>4, <3>5 DEF CopyOK
  <2>3. QED
    BY <2>1, <2>2
<1>5. q = queue[d] /\ s \subseteq seeding[d]
  BY <1>1 DEF Undo
<1>6. QED
  BY <1>1, <1>3, <1>4, <1>5, DeviceSteps DEF Copy

LEMMA AdoptKeeps ==
  ASSUME IInv, OrganizerTypeOK', Grows, NEW d \in Device, Adopt(d)
  PROVE  DeviceOK(d)'
<1> USE DEF IInv, serverVars, deviceVars, historyVars
<1>t. /\ blobs \in Seq(SUBSET Item) /\ Len(blobs) \in Nat
      /\ local \in [ Device -> Copy ]
      /\ refresh[d] \in (0 .. Len(blobs)) \cup {NoRefresh, Asked}
  BY DeviceTypes DEF OrganizerTypeOK, Copy
<1>1. PICK c \in Copy, w \in Write \cup {NoWrite}, q \in Seq(Task), s \in SUBSET SUBSET Item :
           local'[d] = c /\ write'[d] = w /\ queue'[d] = q /\ seeding'[d] = s
  BY DeviceTypesAfter
<1>2. refresh[d] \in 1 .. Len(blobs)
  BY <1>t DEF Adopt, Answered
<1>3. c = local[d] \/ c = [ items |-> blobs[refresh[d]], rev |-> refresh[d] ]
  BY <1>t, <1>1 DEF Adopt, Shows
<1>4. c = local[d] \/ CopyOK(c)
  BY <1>t, <1>2, <1>3 DEF CopyOK, ServerOK
<1>5. c = local[d] \/ CopyOK(c)'
  BY <1>t, <1>4, CopyGrows DEF Copy
<1>6. w = write[d] /\ q = queue[d] /\ s \subseteq seeding[d]
  BY <1>1 DEF Adopt
<1>7. QED
  BY <1>1, <1>5, <1>6, DeviceSteps DEF Copy

LEMMA MigrateKeeps ==
  ASSUME IInv, OrganizerTypeOK', Grows, NEW d \in Device, Migrate(d)
  PROVE  DeviceOK(d)'
<1> USE DEF IInv, serverVars, deviceVars, historyVars
<1>1. PICK c \in Copy, w \in Write \cup {NoWrite}, q \in Seq(Task), s \in SUBSET SUBSET Item :
           local'[d] = c /\ write'[d] = w /\ queue'[d] = q /\ seeding'[d] = s
  BY DeviceTypesAfter
<1>2. s \subseteq seeding[d] \cup {local[d].items}
  BY <1>1 DEF Migrate, OrganizerTypeOK
<1>3. \A S \in s : Known(S)
  BY <1>2 DEF DeviceOK, CopyOK
<1>4. \A S \in s : Known(S)'
  BY <1>3, KnownGrows
<1>5. c = local[d] /\ w = write[d] /\ q = queue[d]
  BY <1>1 DEF Migrate
<1>6. QED
  BY <1>1, <1>4, <1>5, DeviceSteps DEF Copy

LEMMA QueueSeedKeeps ==
  ASSUME IInv, OrganizerTypeOK', Grows, NEW d \in Device, QueueSeed(d)
  PROVE  DeviceOK(d)'
<1> USE DEF IInv, serverVars, deviceVars, historyVars
<1>t. queue \in [ Device -> Seq(Task) ] /\ seeding \in [ Device -> SUBSET SUBSET Item ]
  BY DEF OrganizerTypeOK, Task
<1>1. PICK c \in Copy, w \in Write \cup {NoWrite}, q \in Seq(Task), s \in SUBSET SUBSET Item :
           local'[d] = c /\ write'[d] = w /\ queue'[d] = q /\ seeding'[d] = s
  BY DeviceTypesAfter
<1>2. PICK S \in seeding[d] : QueueSeed(d)!1!(S)
  BY DEF QueueSeed
<1>3. Known(S) /\ Known(Merged(S)) /\ S \in SUBSET Item /\ Merged(S) \in SUBSET Item
  <2>1. Known(S) /\ S \in SUBSET Item
    BY <1>t DEF DeviceOK
  <2>2. Overlay \cap Folder \subseteq used
    BY DEF ServerOK
  <2>3. QED
    BY <2>1, <2>2, OverlayAssumption DEF Known, Merged
<1>4. PICK t \in Task : q = Append(queue[d], t) /\ TaskOK(t)
  <2>1. \A R \in SUBSET Item : [ kind |-> "seed", items |-> R ] \in Task
    BY DEF Task, Seed
  <2>2. \A R \in SUBSET Item : Known(R) => TaskOK([ kind |-> "seed", items |-> R ])
    BY DEF TaskOK
  <2>3. \/ q = Append(queue[d], [ kind |-> "seed", items |-> S ])
        \/ q = Append(queue[d], [ kind |-> "seed", items |-> Merged(S) ])
    BY <1>t, <1>1, <1>2 DEF Enqueues
  <2>4. QED
    BY <1>3, <2>1, <2>2, <2>3
<1>5. QueueOK(q)
  <2>1. queue[d] \in Seq(Task) /\ QueueOK(queue[d])
    BY <1>t DEF DeviceOK
  <2>2. \A k \in 1 .. Len(q) : q[k] = t \/ (k \in 1 .. Len(queue[d]) /\ q[k] = queue[d][k])
    BY <1>4, <2>1
  <2>3. QED
    BY <1>4, <2>1, <2>2 DEF QueueOK
<1>6. QueueOK(q)'
  BY <1>5, QueueGrows
<1>7. c = local[d] /\ w = write[d] /\ s \subseteq seeding[d]
  BY <1>t, <1>1, <1>2 DEF QueueSeed
<1>8. QED
  BY <1>1, <1>6, <1>7, DeviceSteps DEF Copy

LEMMA RestartKeeps ==
  ASSUME IInv, OrganizerTypeOK', Grows, NEW d \in Device, Restart(d)
  PROVE  DeviceOK(d)'
<1> USE DEF IInv, serverVars, deviceVars, historyVars
<1>1. PICK c \in Copy, w \in Write \cup {NoWrite}, q \in Seq(Task), s \in SUBSET SUBSET Item :
           local'[d] = c /\ write'[d] = w /\ queue'[d] = q /\ seeding'[d] = s
  BY DeviceTypesAfter
<1>2. c = local[d] /\ w = NoWrite /\ q = <<>> /\ s = {}
  BY <1>1 DEF Restart, Writes, OrganizerTypeOK
<1>3. QueueOK(q)'
  BY <1>2 DEF QueueOK
<1>4. QED
  BY <1>1, <1>2, <1>3, DeviceSteps DEF Copy

(* Another device of the user is left alone by a step of d.                *)
LEMMA OthersSame ==
  ASSUME OrganizerTypeOK, NEW d \in Device, NEW e \in Device \ {d},
         DeviceStep(d) \/ Change(d) \/ PutFails(d) \/ RereadFails(d) \/ Refresh(d) \/ GetBlob(d)
           \/ Adopt(d) \/ Migrate(d) \/ QueueSeed(d) \/ Restart(d)
  PROVE  /\ local'[e] = local[e] /\ write'[e] = write[e]
         /\ queue'[e] = queue[e] /\ seeding'[e] = seeding[e]
         /\ e \in adrift' <=> e \in adrift
<1> USE DEF OrganizerTypeOK, serverVars, deviceVars, historyVars, Shows, Writes, Enqueues
<1>1. CASE Change(d)
  BY <1>1 DEF Change
<1>2. CASE Begin(d)
  BY <1>2 DEF Begin
<1>3. CASE Put(d) \/ PutFails(d) \/ RereadFails(d) \/ Reread(d) \/ Pull(d)
  BY <1>3 DEF Put, PutFails, RereadFails, Reread, Pull
<1>4. CASE Save(d) \/ Undo(d)
  BY <1>4 DEF Save, Undo
<1>5. CASE Refresh(d) \/ GetBlob(d)
  BY <1>5 DEF Refresh, GetBlob
<1>6. CASE Adopt(d) \/ Migrate(d)
  BY <1>6 DEF Adopt, Migrate
<1>7. CASE QueueSeed(d) \/ Restart(d)
  BY <1>7 DEF QueueSeed, Restart
<1>8. QED
  BY <1>1, <1>2, <1>3, <1>4, <1>5, <1>6, <1>7 DEF DeviceStep

LEMMA DevicesStep ==
  ASSUME IInv, OrganizerNext, NEW e \in Device
  PROVE  DeviceOK(e)'
<1> USE DEF IInv
<1>g. Grows /\ OrganizerTypeOK'
  BY GrowsStep, TypeStep
<1>1. ASSUME NEW l \in late, Arrives(l) PROVE DeviceOK(e)'
  BY <1>g, <1>1, DeviceSame DEF Arrives, deviceVars
<1>2. ASSUME NEW d \in Device \ {e},
             DeviceStep(d) \/ Change(d) \/ PutFails(d) \/ RereadFails(d) \/ Refresh(d) \/ GetBlob(d)
               \/ Adopt(d) \/ Migrate(d) \/ QueueSeed(d) \/ Restart(d)
      PROVE  DeviceOK(e)'
  BY <1>g, <1>2, OthersSame, DeviceSame
<1>3. ASSUME Refresh(e) \/ GetBlob(e) PROVE DeviceOK(e)'
  BY <1>g, <1>3, DeviceSame DEF Refresh, GetBlob
<1>4. ASSUME DeviceStep(e) PROVE DeviceOK(e)'
  BY <1>g, <1>4, BeginKeeps, PutKeeps, RereadKeeps, PullKeeps, SaveKeeps, UndoKeeps DEF DeviceStep
<1>5. ASSUME Change(e) \/ PutFails(e) \/ RereadFails(e) \/ Adopt(e) \/ Migrate(e) \/ QueueSeed(e)
               \/ Restart(e)
      PROVE  DeviceOK(e)'
  BY <1>g, <1>5, ChangeKeeps, FailKeeps, AdoptKeeps, MigrateKeeps, QueueSeedKeeps, RestartKeeps
<1>6. QED
  BY <1>1, <1>2, <1>3, <1>4, <1>5 DEF OrganizerNext

-----------------------------------------------------------------------------
(* The copies of quiet devices.                                            *)

(* A write at work stays at work until it is saved or undone.              *)
LEMMA StaysAtWork ==
  ASSUME IInv, NEW d \in Device,
         Put(d) \/ PutFails(d) \/ RereadFails(d) \/ Reread(d) \/ Pull(d)
  PROVE  /\ write[d] # NoWrite /\ write'[d] # NoWrite /\ write'[d].task = write[d].task
         /\ queue'[d] = queue[d] /\ local'[d] = local[d] /\ adrift' = adrift
<1> USE DEF IInv, serverVars, deviceVars, historyVars
<1>t. /\ blobs \in Seq(SUBSET Item) /\ Len(blobs) \in Nat
      /\ write \in [ Device -> Write \cup {NoWrite} ]
  BY DeviceTypes DEF OrganizerTypeOK
<1>1. write[d] \in Write /\ WriteOK(write[d])
  BY <1>t DEF Put, PutFails, RereadFails, Reread, Pull, DeviceOK
<1>2. queue'[d] = queue[d] /\ local'[d] = local[d] /\ adrift' = adrift
  BY DEF Put, PutFails, RereadFails, Reread, Pull
<1>3. \A a \in {"saved", "beaten", "conflict", "failed"} :
         /\ [write[d] EXCEPT !.at = a] \in Write
         /\ [write[d] EXCEPT !.at = a].task = write[d].task
  BY <1>1 DEF Write
<1>4. CASE Put(d) \/ PutFails(d) \/ RereadFails(d)
  <2>1. \E a \in {"saved", "beaten", "conflict", "failed"} : write'[d] = [write[d] EXCEPT !.at = a]
    BY <1>t, <1>4 DEF Put, PutFails, RereadFails, Writes
  <2>2. QED
    BY <1>1, <1>2, <1>3, <2>1, MarksAssumption
<1>5. CASE Reread(d)
  <2>1. Len(blobs) > 0 /\ write[d].tries < MaxRetries
    BY <1>1, <1>5, RetriesAssumption DEF Reread, WriteOK, Write
  <2>2. Rebased(write[d]) \in Write
    BY <1>t, <1>1, <2>1, RebasedType
  <2>3. Rebased(write[d]).task = write[d].task
    BY <1>1 DEF Rebased, Write
  <2>4. write'[d] = Rebased(write[d]) \/ write'[d] = [write[d] EXCEPT !.at = "beaten"]
    BY <1>t, <1>5 DEF Reread, Writes
  <2>5. QED
    BY <1>1, <1>2, <1>3, <2>2, <2>3, <2>4, MarksAssumption
<1>6. CASE Pull(d)
  <2>1. Len(blobs) - 1 \in Nat /\ blobs[Len(blobs)] \in SUBSET Item
    BY <1>t, <1>1, <1>6 DEF Pull, WriteOK
  <2>2. write'[d] = [write[d] EXCEPT !.items = blobs[Len(blobs)], !.rev = Len(blobs) - 1,
                                     !.at = "saved"]
    BY <1>t, <1>6 DEF Pull, Writes
  <2>3. write'[d] \in Write /\ write'[d].task = write[d].task
    BY <1>1, <2>1, <2>2 DEF Write
  <2>4. QED
    BY <1>1, <1>2, <2>3, MarksAssumption
<1>7. QED
  BY <1>4, <1>5, <1>6

(* As long as a device owes as much as before and shows what it showed.    *)
LEMMA AgreesSame ==
  ASSUME OrganizerTypeOK, Grows, NEW d \in Device, DeviceOK(d), CopyAgrees(d),
         local'[d] = local[d], Owed(d) => Owed(d)', d \in adrift => d \in adrift'
  PROVE  CopyAgrees(d)'
<1>1. local[d].rev > 0 => local[d].rev \in 1 .. Len(blobs)
  BY DeviceTypes DEF DeviceOK, CopyOK, Copy
<1>2. local[d].rev > 0 => blobs'[local[d].rev] = blobs[local[d].rev]
  BY <1>1, DeviceTypes, Growth
<1>3. QED
  BY <1>2 DEF CopyAgrees

LEMMA AgreesStep ==
  ASSUME IInv, OrganizerNext, NEW e \in Device
  PROVE  CopyAgrees(e)'
<1> USE DEF IInv, serverVars, deviceVars, historyVars
<1>g. Grows /\ OrganizerTypeOK /\ OrganizerTypeOK' /\ DeviceOK(e) /\ CopyAgrees(e)
  BY GrowsStep, TypeStep
<1>t. /\ blobs \in Seq(SUBSET Item) /\ Len(blobs) \in Nat /\ local[e] \in Copy
      /\ write[e] \in Write \cup {NoWrite} /\ queue[e] \in Seq(Task)
      /\ refresh[e] \in (0 .. Len(blobs)) \cup {NoRefresh, Asked}
  BY DeviceTypes
<1>s. ASSUME local'[e] = local[e], write'[e] = write[e], queue'[e] = queue[e],
             e \in adrift => e \in adrift'
      PROVE  CopyAgrees(e)'
  <2>1. Owed(e) => Owed(e)'
    BY <1>s DEF Owed
  <2>2. QED
    BY <1>g, <1>s, <2>1, AgreesSame
<1>1. ASSUME NEW l \in late, Arrives(l) PROVE CopyAgrees(e)'
  BY <1>1, <1>s DEF Arrives
<1>2. ASSUME NEW d \in Device \ {e},
             DeviceStep(d) \/ Change(d) \/ PutFails(d) \/ RereadFails(d) \/ Refresh(d) \/ GetBlob(d)
               \/ Adopt(d) \/ Migrate(d) \/ QueueSeed(d) \/ Restart(d)
      PROVE  CopyAgrees(e)'
  BY <1>g, <1>2, <1>s, OthersSame
<1>3. ASSUME Refresh(e) \/ GetBlob(e) \/ Migrate(e) PROVE CopyAgrees(e)'
  BY <1>3, <1>s DEF Refresh, GetBlob, Migrate
<1>4. ASSUME Put(e) \/ PutFails(e) \/ RereadFails(e) \/ Reread(e) \/ Pull(e) PROVE CopyAgrees(e)'
  <2>1. Owed(e) => Owed(e)'
    BY <1>4, StaysAtWork DEF Owed
  <2>2. QED
    BY <1>g, <1>4, <2>1, StaysAtWork, AgreesSame
<1>5. ASSUME Change(e) PROVE CopyAgrees(e)'
  <2>1. PICK i \in Offered(local[e].items) : Change(e)!2!(i)
    BY <1>5 DEF Change
  <2>2. i \in Task /\ i.kind # "seed"
    BY IntentKind DEF Offered, Task
  <2>3. queue'[e] = Append(queue[e], i)
    BY <1>g, <2>1 DEF Enqueues, OrganizerTypeOK
  <2>4. Len(queue'[e]) \in 1 .. Len(queue'[e]) /\ queue'[e][Len(queue'[e])] = i
    BY <1>t, <2>2, <2>3
  <2>5. Owed(e)'
    BY <2>2, <2>4 DEF Owed
  <2>6. QED
    BY <2>5 DEF CopyAgrees
<1>6. ASSUME Begin(e) PROVE CopyAgrees(e)'
  <2> DEFINE t == Head(queue[e])
  <2>1. queue[e] # <<>> /\ queue'[e] = Tail(queue[e]) /\ write[e] = NoWrite
        /\ local'[e] = local[e] /\ adrift' = adrift
    BY <1>g, <1>6 DEF Begin, OrganizerTypeOK
  <2>2. t.kind # "seed" => write'[e] # NoWrite /\ write'[e].task = t
    <3>1. HAVE t.kind # "seed"
    <3>2. write'[e] = [ task |-> t, items |-> Applied(local[e].items, t), rev |-> local[e].rev,
                        tries |-> 0, at |-> "put" ]
      BY <1>g, <1>6, <3>1 DEF Begin, Writes, OrganizerTypeOK
    <3>3. t \in Intent
      BY <1>t, <2>1, <3>1, SeedKind DEF Task
    <3>a. local[e].items \in SUBSET Item /\ local[e].rev \in Nat
      BY <1>t DEF Copy
    <3>b. \A i \in Intent : Applied(local[e].items, i) \in SUBSET Item
      BY <3>a, AppliedType
    <3>4. Applied(local[e].items, t) \in SUBSET Item /\ 0 \in 0 .. MaxRetries
      BY <3>3, <3>b, RetriesAssumption
    <3>5. write'[e] \in Write
      BY <3>2, <3>3, <3>a, <3>4 DEF Write
    <3>6. QED
      BY <3>2, <3>5, MarksAssumption
  <2>3. \A k \in 1 .. Len(queue[e]) : \/ queue[e][k] = t
                                      \/ \E j \in 1 .. Len(queue'[e]) : queue'[e][j] = queue[e][k]
    <3>1. ASSUME NEW k \in 1 .. Len(queue[e]), k # 1
          PROVE  k - 1 \in 1 .. Len(queue'[e]) /\ queue'[e][k - 1] = queue[e][k]
      BY <1>t, <2>1, <3>1
    <3>2. queue[e][1] = t
      BY <1>t, <2>1
    <3>3. QED
      BY <3>1, <3>2
  <2>4. Owed(e) => Owed(e)'
    BY <2>1, <2>2, <2>3 DEF Owed
  <2>5. QED
    BY <1>g, <2>1, <2>4, AgreesSame
<1>7. ASSUME Save(e) PROVE CopyAgrees(e)'
  <2>1. write[e] \in Write /\ WriteOK(write[e]) /\ write[e].at = "saved"
    BY <1>g, <1>t, <1>7 DEF Save, DeviceOK
  <2>2. /\ local'[e].items = write[e].items /\ local'[e].rev = write[e].rev + 1
        /\ blobs' = blobs
    BY <1>g, <1>7 DEF Save, Shows, OrganizerTypeOK
  <2>3. QED
    BY <2>1, <2>2 DEF WriteOK, CopyAgrees
<1>8. ASSUME Undo(e) PROVE CopyAgrees(e)'
  <2>1. CASE write[e].task.kind = "seed"
    <3>1. local' = local /\ adrift' = adrift /\ queue' = queue
      BY <1>8, <2>1 DEF Undo
    <3>2. Owed(e) => Owed(e)'
      BY <2>1, <3>1 DEF Owed
    <3>3. QED
      BY <1>g, <3>1, <3>2, AgreesSame
  <2>2. CASE write[e].task.kind # "seed"
    BY <1>8, <2>2 DEF Undo, CopyAgrees
  <2>3. QED
    BY <2>1, <2>2
<1>9. ASSUME Adopt(e) PROVE CopyAgrees(e)'
  <2>1. CASE local'[e] = local[e] /\ adrift' = adrift
    BY <1>9, <2>1, <1>s DEF Adopt
  <2>2. CASE ~(local'[e] = local[e] /\ adrift' = adrift)
    <3>1. local'[e] = [ items |-> blobs[refresh[e]], rev |-> refresh[e] ] /\ blobs' = blobs
      BY <1>g, <1>9, <2>2 DEF Adopt, Shows, OrganizerTypeOK
    <3>2. QED
      BY <3>1 DEF CopyAgrees
  <2>3. QED
    BY <2>1, <2>2
<1>10. ASSUME QueueSeed(e) PROVE CopyAgrees(e)'
  <2>1. PICK S \in seeding[e] : QueueSeed(e)!1!(S)
    BY <1>10 DEF QueueSeed
  <2>2. \E t \in Task : queue'[e] = Append(queue[e], t)
    <3>1. S \in SUBSET Item /\ Merged(S) \in SUBSET Item
      BY <1>g, OverlayAssumption DEF OrganizerTypeOK, Merged
    <3>2. /\ [ kind |-> "seed", items |-> S ] \in Task
          /\ [ kind |-> "seed", items |-> Merged(S) ] \in Task
      BY <3>1 DEF Task, Seed
    <3>3. QED
      BY <1>g, <2>1, <3>2 DEF Enqueues, OrganizerTypeOK
  <2>3. \A k \in 1 .. Len(queue[e]) : k \in 1 .. Len(queue'[e]) /\ queue'[e][k] = queue[e][k]
    BY <1>t, <2>2
  <2>4. local'[e] = local[e] /\ write'[e] = write[e] /\ adrift' = adrift
    BY <1>10 DEF QueueSeed
  <2>5. Owed(e) => Owed(e)'
    BY <2>3, <2>4 DEF Owed
  <2>6. QED
    BY <1>g, <2>4, <2>5, AgreesSame
<1>11. ASSUME Restart(e) PROVE CopyAgrees(e)'
  BY <1>11 DEF Restart, CopyAgrees
<1>12. QED
  BY <1>1, <1>2, <1>3, <1>4, <1>5, <1>6, <1>7, <1>8, <1>9, <1>10, <1>11 DEF OrganizerNext, DeviceStep

-----------------------------------------------------------------------------
(* The theorems.                                                           *)

LEMMA InitOK == OrganizerInit => IInv
<1> SUFFICES ASSUME OrganizerInit PROVE IInv
  OBVIOUS
<1> USE DEF OrganizerInit
<1>1. OrganizerTypeOK
  BY BudgetAssumption, OverlayAssumption DEF OrganizerTypeOK
<1>2. ServerOK
  BY DEF ServerOK
<1>3. ASSUME NEW d \in Device PROVE DeviceOK(d) /\ CopyAgrees(d)
  <2>1. CopyOK(local[d])
    BY DEF CopyOK, Known
  <2>2. QueueOK(queue[d])
    BY DEF QueueOK
  <2>3. QED
    BY <2>1, <2>2 DEF DeviceOK, CopyAgrees
<1>4. QED
  BY <1>1, <1>2, <1>3 DEF IInv

LEMMA NextOK == IInv /\ [OrganizerNext]_organizerVars => IInv'
<1>1. ASSUME IInv, OrganizerNext PROVE IInv'
  BY <1>1, TypeStep, ServerStep, DevicesStep, AgreesStep DEF IInv
<1>2. ASSUME IInv, UNCHANGED organizerVars PROVE IInv'
  BY <1>2 DEF organizerVars, serverVars, deviceVars, historyVars, IInv, OrganizerTypeOK, ServerOK,
              DeviceOK, CopyAgrees, Owed, QueueOK, CopyOK, WriteOK, TaskOK, Known
<1>3. QED
  BY <1>1, <1>2

(* Everything below rests on this invariant: what is on its way lacks      *)
(* nothing of the revision it is based on but what has been dropped.       *)
THEOREM OrganizerInvariance == OrganizerSpec => []IInv
  BY InitOK, NextOK, PTL DEF OrganizerSpec

(* Every variable keeps its type.                                          *)
THEOREM OrganizerTypeCorrect == OrganizerSpec => []OrganizerTypeOK
<1>1. IInv => OrganizerTypeOK
  BY DEF IInv
<1>2. QED
  BY <1>1, OrganizerInvariance, PTL

(* No device gets ahead of the server, which would make it refuse every    *)
(* refresh as a rollback: a revision becomes a device's own only once the  *)
(* server has given it out (putState, syncFromServer).                     *)
THEOREM NoDeviceGetsAhead == OrganizerSpec => []RevisionsAreServed
<1>1. IInv => RevisionsAreServed
  BY DEF IInv, DeviceOK, CopyOK, RevisionsAreServed
<1>2. QED
  BY <1>1, OrganizerInvariance, PTL

(* A device with nothing left to write shows what the server had under its *)
(* revision, whatever refreshes, conflicts and other devices have done     *)
(* meanwhile (mutateWithIntent's persist of what was sent).                *)
THEOREM QuietCopiesAreTheServers == OrganizerSpec => []QuietCopiesAgree
<1>1. ASSUME IInv PROVE QuietCopiesAgree
  <2>1. SUFFICES ASSUME NEW d \in Device, Quiet(d) PROVE ~Owed(d)
    BY <1>1 DEF IInv, CopyAgrees, QuietCopiesAgree
  <2>2. QED
    BY <2>1 DEF Quiet, Owed
<1>2. QED
  BY <1>1, OrganizerInvariance, PTL

(* The server takes w and loses nothing w was not allowed to lose.         *)
LEMMA StoredKeeps ==
  ASSUME OrganizerTypeOK, NEW w \in Write, WriteOK(w), w.at = "put",
         Stores(w.rev + 1, w.items), Len(blobs) > 0, blobs' # blobs
  PROVE  blobs[Len(blobs)] \ blobs'[Len(blobs')] \subseteq dropped \cup Replaced(w.task)
<1>1. blobs \in Seq(SUBSET Item) /\ w.rev \in Nat /\ w.items \in SUBSET Item /\ Len(blobs) \in Nat
  BY DEF OrganizerTypeOK, Write
<1>2. blobs' = Append(blobs, w.items) /\ Fits(w.rev + 1)
  BY DEF Stores
<1>3. w.rev = Len(blobs)
  BY <1>1, <1>2 DEF Fits
<1>4. blobs'[Len(blobs')] = w.items
  BY <1>1, <1>2
<1>5. QED
  BY <1>3, <1>4 DEF WriteOK

(* What one device has stored goes from the blob only if a device was      *)
(* asked to remove it or has taken it back, or where a folder's creation   *)
(* is applied once more (put_if_next_revision, putState's rebase).         *)
THEOREM StoredItemsSurvive == OrganizerSpec => ItemsSurvive
<1> DEFINE Kept ==
      Len(blobs) > 0 /\ blobs' # blobs =>
        \A x \in blobs[Len(blobs)] \ blobs'[Len(blobs')] :
          \/ x \in dropped
          \/ \E w \in InFlight : w.task.kind = "createFolder" /\ x \in Members(w.task.folder)
<1>1. ASSUME IInv, [OrganizerNext]_organizerVars PROVE [Kept]_organizerVars
  <2> SUFFICES ASSUME OrganizerNext, Len(blobs) > 0, blobs' # blobs,
                      NEW x \in blobs[Len(blobs)] \ blobs'[Len(blobs')]
               PROVE  \/ x \in dropped
                      \/ \E w \in InFlight :
                           w.task.kind = "createFolder" /\ x \in Members(w.task.folder)
    BY <1>1
  <2> USE <1>1 DEF IInv
  <2>t. late \subseteq Write /\ write \in [ Device -> Write \cup {NoWrite} ]
    BY DEF OrganizerTypeOK
  <2>1. \E w \in InFlight : w \in Write /\ WriteOK(w) /\ w.at = "put" /\ Stores(w.rev + 1, w.items)
    <3>1. CASE \E l \in late : Arrives(l)
      BY <2>t, <3>1 DEF Arrives, ServerOK, InFlight
    <3>2. CASE \E d \in Device : Put(d)
      BY <2>t, <3>2 DEF Put, DeviceOK, InFlight
    <3>3. CASE \E d \in Device :
                 \/ Begin(d) \/ Reread(d) \/ Pull(d) \/ Save(d) \/ Undo(d) \/ PutFails(d)
                 \/ RereadFails(d) \/ Change(d) \/ Refresh(d) \/ GetBlob(d) \/ Adopt(d)
                 \/ Migrate(d) \/ QueueSeed(d) \/ Restart(d)
      BY <3>3 DEF Begin, Reread, Pull, Save, Undo, PutFails, RereadFails, Change, Refresh, GetBlob,
                  Adopt, Migrate, QueueSeed, Restart, serverVars
    <3>4. QED
      BY <3>1, <3>2, <3>3 DEF OrganizerNext, DeviceStep
  <2>2. PICK w \in InFlight : w \in Write /\ WriteOK(w) /\ w.at = "put" /\ Stores(w.rev + 1, w.items)
    BY <2>1
  <2>3. x \in dropped \cup Replaced(w.task)
    BY <2>2, StoredKeeps
  <2>4. QED
    BY <2>2, <2>3 DEF Replaced
<1>2. OrganizerSpec => [][Kept]_organizerVars
  BY <1>1, OrganizerInvariance, PTL DEF OrganizerSpec
<1>3. QED
  BY <1>2 DEF ItemsSurvive

(* A write that is confirmed has its change in the blob, however often     *)
(* others have been first (putState's rebase and its caller's persist).    *)
THEOREM ConfirmedMeansStored == OrganizerSpec => SavedMeansStored
<1> DEFINE Confirmed ==
      \A d \in Device :
        write[d] # NoWrite /\ write[d].at = "put" /\ write[d].task.kind # "seed"
          /\ write'[d] # NoWrite /\ write'[d].at = "saved" =>
            LET stored == blobs'[Len(blobs')] IN Applied(stored, write[d].task) = stored
<1>1. ASSUME IInv, [OrganizerNext]_organizerVars PROVE [Confirmed]_organizerVars
  <2> SUFFICES ASSUME OrganizerNext, NEW d \in Device,
                      write[d] # NoWrite, write[d].at = "put", write[d].task.kind # "seed",
                      write'[d] # NoWrite, write'[d].at = "saved"
               PROVE  Applied(blobs'[Len(blobs')], write[d].task) = blobs'[Len(blobs')]
    BY <1>1
  <2> USE <1>1 DEF IInv
  <2>t. /\ blobs \in Seq(SUBSET Item) /\ Len(blobs) \in Nat
        /\ write[d] \in Write /\ WriteOK(write[d]) /\ queue[d] \in Seq(Task)
    BY DeviceTypes DEF DeviceOK
  <2>1. Put(d)
    <3>1. write'[d] # write[d]
      OBVIOUS
    <3>2. CASE \E l \in late : Arrives(l)
      BY <3>1, <3>2 DEF Arrives, deviceVars
    <3>3. CASE \E e \in Device \ {d} :
                 \/ DeviceStep(e) \/ Change(e) \/ PutFails(e) \/ RereadFails(e) \/ Refresh(e)
                 \/ GetBlob(e) \/ Adopt(e) \/ Migrate(e) \/ QueueSeed(e) \/ Restart(e)
      BY <3>1, <3>3, OthersSame
    <3>4. CASE Begin(d) \/ Reread(d) \/ Pull(d) \/ Save(d) \/ Undo(d) \/ RereadFails(d)
      BY <3>4 DEF Begin, Reread, Pull, Save, Undo, RereadFails
    <3>5. CASE PutFails(d)
      BY <2>t, <3>5 DEF PutFails, Writes, OrganizerTypeOK, Write
    <3>6. CASE Change(d) \/ Refresh(d) \/ GetBlob(d) \/ Adopt(d) \/ Migrate(d) \/ QueueSeed(d)
      BY <3>1, <3>6 DEF Change, Refresh, GetBlob, Adopt, Migrate, QueueSeed
    <3>7. CASE Restart(d)
      BY <3>7 DEF Restart, Writes, OrganizerTypeOK
    <3>8. QED
      BY <3>2, <3>3, <3>4, <3>5, <3>6, <3>7 DEF OrganizerNext, DeviceStep
  <2>2. Fits(write[d].rev + 1)
    <3>1. SUFFICES ASSUME ~Fits(write[d].rev + 1) PROVE FALSE
      OBVIOUS
    <3>2. \E a \in {"beaten", "conflict"} : write'[d] = [write[d] EXCEPT !.at = a]
      BY <2>1, <3>1 DEF Put, Writes, OrganizerTypeOK
    <3>3. QED
      BY <2>t, <3>2 DEF Write
  <2>3. blobs' = Append(blobs, write[d].items) /\ write[d].items \in SUBSET Item
    BY <2>t, <2>1, <2>2 DEF Put, Stores, Write
  <2>4. blobs'[Len(blobs')] = write[d].items
    BY <2>t, <2>3
  <2>5. Applied(write[d].items, write[d].task) = write[d].items
    BY <2>t DEF WriteOK
  <2>6. QED
    BY <2>4, <2>5
<1>2. OrganizerSpec => [][Confirmed]_organizerVars
  BY <1>1, OrganizerInvariance, PTL DEF OrganizerSpec
<1>3. QED
  BY <1>2 DEF SavedMeansStored

=============================================================================
