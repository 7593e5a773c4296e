--------------------------- MODULE ChatOrganizer ---------------------------
(***************************************************************************)
(* The folders and mutes of one user's chat list: a blob that the server   *)
(* (flora-chat-organizer) keeps without being able to read it, and the     *)
(* session each of the user's devices runs over it.                        *)
(*                                                                         *)
(* A device applies a change to its own copy at once and queues a write.   *)
(* Its writes run one after another; each applies its change again to the  *)
(* copy as it is then, sends the whole of it under the next revision, and  *)
(* on a conflict starts over from the server's copy.  A write that fails   *)
(* undoes its change in the copy as it is by then.  A refresh reads the    *)
(* blob and replaces the copy; before there is one, it moves the folders   *)
(* of the old server-side overlay into a first blob.                       *)
(*                                                                         *)
(* A copy is a set of items: a folder, a folder with one of its members,   *)
(* a muted peer.  The persisted state and the snapshot of a device are     *)
(* written together and stand as one.  The user is the same and the keys   *)
(* are there throughout, so that what hydrate and setKeys do is to start   *)
(* a refresh.  The server never loses the blob: the branches for that are  *)
(* left out.  So are archives, their mirror in flora-messaging, labels,    *)
(* icons, the order of folders and a conversation muted beside its peer.   *)
(***************************************************************************)
EXTENDS Naturals, Sequences, FiniteSets

CONSTANTS
  Device, Folder, Peer,
  Overlay,       (* items of the plaintext overlay of before               *)
  MaxFolders,    (* CHAT_LIST_MAX_FOLDER_ICONS                             *)
  MaxRetries,    (* MAX_409_RETRIES                                        *)
  NoWrite, NoRefresh, Asked,
  FirstMembers,  (* bound: the sets of members a folder may be made with   *)
  Budget         (* bound: how many changes, and refreshes or faults       *)

Item == Folder \cup (Folder \X Peer) \cup Peer

Intent ==
  [ kind: {"createFolder", "removeFolder"}, folder: Folder, members: SUBSET Peer ]
  \cup [ kind: {"addPeer"}, folder: Folder, peer: Peer ]
  \cup [ kind: {"mute", "unmute"}, peer: Peer ]

Seed == [ kind: {"seed"}, items: SUBSET Item ]

(* A write at work: what it sends and the revision it sends it on top of.  *)
Write ==
  [ task: Intent \cup Seed, items: SUBSET Item, rev: Nat, tries: 0 .. MaxRetries,
    at: {"put", "conflict", "beaten", "saved", "failed"} ]

ASSUME ItemAssumption ==
  Folder \cap Peer = {} /\ (Folder \cup Peer) \cap (Folder \X Peer) = {}
ASSUME OverlayAssumption ==
  /\ Overlay \subseteq Item
  /\ \A f \in Folder, p \in Peer : <<f, p>> \in Overlay => f \in Overlay
ASSUME RetriesAssumption == MaxRetries \in Nat
ASSUME MarksAssumption ==
  /\ NoWrite \notin Write
  /\ NoRefresh \notin Nat /\ Asked \notin Nat /\ NoRefresh # Asked
ASSUME BudgetAssumption ==
  Budget \in [ {"changes", "disturbances"} -> Nat ]

VARIABLES
  blobs,    (* user_chat_organizer_blobs: the contents the row has had in  *)
            (* order; the last is there now and their number its revision  *)
  late,     (* writes their device has given up, that may still arrive     *)
  local,    (* the copy of each device and the revision it has             *)
  queue,    (* writeChain: what waits to be written                        *)
  write,    (* the write at work                                           *)
  refresh,  (* the last refresh: asked for, or answered with a revision    *)
  seeding,  (* caches read to seed a first blob, the overlay still to read *)
  budget,
  used,     (* folder ids drawn                                            *)
  dropped,  (* history: items a device was asked to remove, or has undone  *)
  adrift    (* history: devices whose copy an undo or a restart has        *)
            (* changed since it was last one of the server's               *)

serverVars == <<blobs, late>>
deviceVars == <<local, queue, write, refresh, seeding>>
historyVars == <<used, dropped, adrift>>
organizerVars == <<serverVars, deviceVars, budget, historyVars>>

OrganizerInit ==
  /\ blobs = <<>> /\ late = {}
  /\ local = [ d \in Device |-> [ items |-> {}, rev |-> 0 ] ]
  /\ queue = [ d \in Device |-> <<>> ]
  /\ write = [ d \in Device |-> NoWrite ]
  /\ refresh = [ d \in Device |-> Asked ]
  /\ seeding = [ d \in Device |-> {} ]
  /\ budget = Budget
  /\ used = Overlay \cap Folder /\ dropped = {} /\ adrift = {}

-----------------------------------------------------------------------------
(* What a change does to a copy.                                           *)

Members(f) == {f} \X Peer

Entity(f, members) == {f} \cup ({f} \X members)

Without(items, f) == items \ Entity(f, Peer)

(* applyIntent, where nothing changes if there is nothing to be changed.   *)
(* Creating a folder that is there replaces it.                            *)
Applied(items, i) ==
  CASE i.kind = "createFolder" -> Without(items, i.folder) \cup Entity(i.folder, i.members)
    [] i.kind = "removeFolder" -> Without(items, i.folder)
    [] i.kind = "addPeer" ->
         IF i.folder \in items THEN items \cup {<<i.folder, i.peer>>} ELSE items
    [] i.kind = "mute" -> items \cup {i.peer}
    [] i.kind = "unmute" -> items \ {i.peer}

(* revertIntent *)
Undone(items, i) ==
  CASE i.kind = "createFolder" -> Without(items, i.folder)
    [] i.kind = "removeFolder" ->
         IF i.folder \in items THEN items ELSE items \cup Entity(i.folder, i.members)
    [] i.kind = "addPeer" -> items \ {<<i.folder, i.peer>>}
    [] i.kind = "mute" -> items \ {i.peer}
    [] i.kind = "unmute" -> items \cup {i.peer}

(* mergeOverlayForMigrate: a folder of the cache hides the overlay's.      *)
Merged(items) ==
  items \cup { x \in Overlay : \A f \in items \cap Folder : x \notin Members(f) }

(* The changes a user may ask for, looking at a copy. *)
Offered(items) ==
  { i \in Intent :
      CASE i.kind = "createFolder" ->
             /\ i.folder \notin used /\ i.members \in FirstMembers
             /\ Cardinality(items \cap Folder) < MaxFolders
        [] i.kind = "removeFolder" ->
             i.folder \in items /\ Entity(i.folder, i.members) = items \cap Entity(i.folder, Peer)
        [] OTHER -> Applied(items, i) # items }

(* What a change takes away for good, as far as its device knows. *)
Drops(i) ==
  CASE i.kind = "removeFolder" -> Entity(i.folder, Peer)
    [] i.kind = "unmute" -> {i.peer}
    [] OTHER -> {}

UndoDrops(i) ==
  CASE i.kind = "createFolder" -> Entity(i.folder, Peer)
    [] i.kind = "addPeer" -> {<<i.folder, i.peer>>}
    [] i.kind = "mute" -> {i.peer}
    [] OTHER -> {}

-----------------------------------------------------------------------------
Spends(what) == budget[what] > 0 /\ budget' = [budget EXCEPT ![what] = @ - 1]

Shows(d, items, rev) == local' = [local EXCEPT ![d] = [ items |-> items, rev |-> rev ]]

Writes(d, w) == write' = [write EXCEPT ![d] = w]

Enqueues(d, task) == queue' = [queue EXCEPT ![d] = Append(@, task)]

(* createFolder, addPeerToFolder, removeFolder, setMuted up to the queue:  *)
(* mutateWithIntent shows the change and queues its write.                 *)
Change(d) ==
  /\ Spends("changes")
  /\ \E i \in Offered(local[d].items) :
       /\ Shows(d, Applied(local[d].items, i), local[d].rev)
       /\ Enqueues(d, i)
       /\ used' = used \cup (IF i.kind = "createFolder" THEN {i.folder} ELSE {})
       /\ dropped' = dropped \cup Drops(i)
  /\ UNCHANGED <<serverVars, write, refresh, seeding, adrift>>

(* The next task of the queue: a seed goes out as the first blob, a change *)
(* on top of the copy as it is now.                                        *)
Begin(d) ==
  /\ write[d] = NoWrite /\ queue[d] # <<>>
  /\ LET task == Head(queue[d])
         base == IF task.kind = "seed" THEN [ items |-> task.items, rev |-> 0 ]
                 ELSE [ items |-> Applied(local[d].items, task), rev |-> local[d].rev ]
     IN  Writes(d, [ task |-> task, items |-> base.items, rev |-> base.rev,
                     tries |-> 0, at |-> "put" ])
  /\ queue' = [queue EXCEPT ![d] = Tail(@)]
  /\ UNCHANGED <<serverVars, local, refresh, seeding, budget, historyVars>>

(* put_if_next_revision: the first revision is an INSERT, the others an    *)
(* UPDATE of the row that has the one before.                              *)
Fits(rev) == IF rev = 1 THEN blobs = <<>> ELSE blobs # <<>> /\ Len(blobs) = rev - 1

Stores(rev, items) == blobs' = IF Fits(rev) THEN Append(blobs, items) ELSE blobs

(* Fault: every conflict leads to another attempt. *)
Put_noLimit(d) ==
  /\ write[d] # NoWrite /\ write[d].at = "put"
  /\ LET w == write[d] IN
     /\ Stores(w.rev + 1, w.items)
     /\ Writes(d, [w EXCEPT !.at = IF Fits(w.rev + 1) THEN "saved" ELSE "conflict"])
  /\ UNCHANGED <<late, local, queue, refresh, seeding, budget, historyVars>>

(* putState: one attempt.  A conflict is read up on, the last one is not.  *)
Put(d) ==
  /\ write[d] # NoWrite /\ write[d].at = "put"
  /\ LET w == write[d]
         answer == IF Fits(w.rev + 1) THEN "saved"
                   ELSE IF w.tries = MaxRetries THEN "beaten" ELSE "conflict"
     IN  Stores(w.rev + 1, w.items) /\ Writes(d, [w EXCEPT !.at = answer])
  /\ UNCHANGED <<late, local, queue, refresh, seeding, budget, historyVars>>

(* The request or its answer is lost: the device does not know, and what   *)
(* is on the wire may arrive yet.                                          *)
PutFails(d) ==
  /\ write[d] # NoWrite /\ write[d].at = "put"
  /\ Spends("disturbances")
  /\ late' = late \cup {write[d]}
  /\ Writes(d, [write[d] EXCEPT !.at = "failed"])
  /\ UNCHANGED <<blobs, local, queue, refresh, seeding, historyVars>>

Arrives(l) ==
  /\ l \in late
  /\ late' = late \ {l}
  /\ Stores(l.rev + 1, l.items)
  /\ UNCHANGED <<deviceVars, budget, historyVars>>

(* Fault: the retry sends the device's own copy again. *)
Rebased_ownCopy(w) == [w EXCEPT !.rev = Len(blobs), !.tries = @ + 1, !.at = "put"]

(* Fault: the change is not applied again. *)
Rebased_remoteOnly(w) ==
  [w EXCEPT !.items = blobs[Len(blobs)], !.rev = Len(blobs), !.tries = @ + 1, !.at = "put"]

(* After a conflict: the server's copy, with this change and no other.     *)
Rebased(w) ==
  LET remote == blobs[Len(blobs)] IN
  [w EXCEPT !.items = IF w.task.kind = "seed" THEN remote ELSE Applied(remote, w.task),
            !.rev = Len(blobs), !.tries = @ + 1, !.at = "put"]

Reread(d) ==
  /\ write[d] # NoWrite /\ write[d].at = "conflict"
  /\ Writes(d, IF Len(blobs) < write[d].rev THEN [write[d] EXCEPT !.at = "beaten"]
               ELSE Rebased(write[d]))
  /\ UNCHANGED <<serverVars, local, queue, refresh, seeding, budget, historyVars>>

RereadFails(d) ==
  /\ write[d] # NoWrite
  /\ write[d].at = "conflict" \/ (write[d].at = "beaten" /\ write[d].task.kind = "seed")
  /\ Spends("disturbances")
  /\ Writes(d, [write[d] EXCEPT !.at = "failed"])
  /\ UNCHANGED <<serverVars, local, queue, refresh, seeding, historyVars>>

(* Another device has migrated: the seed gives way to what is there.       *)
Pull(d) ==
  /\ write[d] # NoWrite /\ write[d].at = "beaten" /\ write[d].task.kind = "seed"
  /\ Writes(d, [write[d] EXCEPT !.items = blobs[Len(blobs)], !.rev = Len(blobs) - 1,
                                !.at = "saved"])
  /\ UNCHANGED <<serverVars, local, queue, refresh, seeding, budget, historyVars>>

(* Fault: the copy keeps what it shows and takes the revision over. *)
Save_keepsShown(d) ==
  /\ write[d] # NoWrite /\ write[d].at = "saved"
  /\ Shows(d, local[d].items, write[d].rev + 1)
  /\ Writes(d, NoWrite)
  /\ adrift' = adrift \ {d}
  /\ UNCHANGED <<serverVars, queue, refresh, seeding, budget, used, dropped>>

(* The write is done: what was sent becomes the copy, whatever a refresh   *)
(* or a change has made of it meanwhile.                                   *)
Save(d) ==
  /\ write[d] # NoWrite /\ write[d].at = "saved"
  /\ Shows(d, write[d].items, write[d].rev + 1)
  /\ Writes(d, NoWrite)
  /\ adrift' = adrift \ {d}
  /\ UNCHANGED <<serverVars, queue, refresh, seeding, budget, used, dropped>>

(* Fault: the queue waits for a write that has failed. *)
Undo_stops(d) ==
  /\ write[d] # NoWrite /\ write[d].at = "failed" /\ write[d].task.kind = "seed"
  /\ Writes(d, NoWrite)
  /\ UNCHANGED <<serverVars, local, queue, refresh, seeding, budget, historyVars>>

(* The write has failed: its change is taken back, the queue goes on.      *)
Undo(d) ==
  /\ write[d] # NoWrite
  /\ LET w == write[d] IN
     \/ /\ w.at \in {"failed", "beaten"} /\ w.task.kind # "seed"
        /\ Shows(d, Undone(local[d].items, w.task), local[d].rev)
        /\ adrift' = adrift \cup {d} /\ dropped' = dropped \cup UndoDrops(w.task)
     \/ /\ w.at = "failed" /\ w.task.kind = "seed"
        /\ UNCHANGED <<local, adrift, dropped>>
  /\ Writes(d, NoWrite)
  /\ UNCHANGED <<serverVars, queue, refresh, seeding, budget, used>>

-----------------------------------------------------------------------------
(* syncFromServer.  A refresh that starts makes the answer to an earlier   *)
(* one void (refreshSeq).                                                  *)
Refresh(d) ==
  /\ Spends("disturbances")
  /\ refresh' = [refresh EXCEPT ![d] = Asked]
  /\ UNCHANGED <<serverVars, local, queue, write, seeding, historyVars>>

GetBlob(d) ==
  /\ refresh[d] = Asked
  /\ refresh' = [refresh EXCEPT ![d] = Len(blobs)]
  /\ UNCHANGED <<serverVars, local, queue, write, seeding, budget, historyVars>>

Answered(d) == refresh[d] \notin {NoRefresh, Asked}

(* A revision below the device's own is refused as a rollback.             *)
Adopt(d) ==
  /\ Answered(d) /\ refresh[d] > 0
  /\ IF local[d].rev >= 1 /\ refresh[d] < local[d].rev
     THEN UNCHANGED <<local, adrift>>
     ELSE /\ Shows(d, blobs[refresh[d]], refresh[d])
          /\ adrift' = adrift \ {d}
  /\ refresh' = [refresh EXCEPT ![d] = NoRefresh]
  /\ UNCHANGED <<serverVars, queue, write, seeding, budget, used, dropped>>

(* No blob: a device that has seen one keeps its copy, another one migrates. *)
Migrate(d) ==
  /\ Answered(d) /\ refresh[d] = 0
  /\ seeding' = IF local[d].rev > 0 THEN seeding
                ELSE [seeding EXCEPT ![d] = @ \cup {local[d].items}]
  /\ refresh' = [refresh EXCEPT ![d] = NoRefresh]
  /\ UNCHANGED <<serverVars, local, queue, write, budget, historyVars>>

(* getPlaintextOverlay has answered, or failed, and the seed is queued.    *)
QueueSeed(d) ==
  /\ \E s \in seeding[d] :
       /\ seeding' = [seeding EXCEPT ![d] = @ \ {s}]
       /\ \/ Enqueues(d, [ kind |-> "seed", items |-> Merged(s) ]) /\ UNCHANGED budget
          \/ Enqueues(d, [ kind |-> "seed", items |-> s ]) /\ Spends("disturbances")
  /\ UNCHANGED <<serverVars, local, write, refresh, historyVars>>

(* The app is closed and opened again: the copy has been persisted, what   *)
(* was to be written has not.                                              *)
Restart(d) ==
  /\ Spends("disturbances")
  /\ queue' = [queue EXCEPT ![d] = <<>>]
  /\ Writes(d, NoWrite)
  /\ late' = late \cup { w \in {write[d]} \ {NoWrite} : w.at = "put" }
  /\ refresh' = [refresh EXCEPT ![d] = Asked]
  /\ seeding' = [seeding EXCEPT ![d] = {}]
  /\ adrift' = adrift \cup {d}
  /\ UNCHANGED <<blobs, local, used, dropped>>

DeviceStep(d) ==
  \/ Begin(d) \/ Put(d) \/ Reread(d) \/ Pull(d) \/ Save(d) \/ Undo(d)

OrganizerNext ==
  \/ \E l \in late : Arrives(l)
  \/ \E d \in Device :
       \/ DeviceStep(d)
       \/ Change(d) \/ PutFails(d) \/ RereadFails(d)
       \/ Refresh(d) \/ GetBlob(d) \/ Adopt(d) \/ Migrate(d) \/ QueueSeed(d)
       \/ Restart(d)

OrganizerSpec == OrganizerInit /\ [][OrganizerNext]_organizerVars

(* What has been started goes on: a promise that can be settled is, and a  *)
(* request ends, by its answer or by failing.  Users ask for nothing.      *)
OrganizerFairSpec == OrganizerSpec /\ \A d \in Device : WF_organizerVars(DeviceStep(d))

-----------------------------------------------------------------------------
(* Properties.                                                             *)

Quiet(d) == queue[d] = <<>> /\ write[d] = NoWrite

InFlight == late \cup ({ write[d] : d \in Device } \ {NoWrite})

(* Every variable has its type, and what is refreshed was there.           *)
OrganizerTypeOK ==
  /\ blobs \in Seq(SUBSET Item)
  /\ late \subseteq Write
  /\ local \in [ Device -> [ items: SUBSET Item, rev: Nat ] ]
  /\ queue \in [ Device -> Seq(Intent \cup Seed) ]
  /\ write \in [ Device -> Write \cup {NoWrite} ]
  /\ refresh \in [ Device -> (0 .. Len(blobs)) \cup {NoRefresh, Asked} ]
  /\ seeding \in [ Device -> SUBSET SUBSET Item ]
  /\ budget \in [ DOMAIN Budget -> Nat ]
  /\ used \subseteq Folder /\ dropped \subseteq Item /\ adrift \subseteq Device

(* No device holds a revision the server has not given out: otherwise it   *)
(* would refuse every refresh from then on as a rollback.                  *)
RevisionsAreServed ==
  \A d \in Device : local[d].rev <= Len(blobs)

(* A device with nothing left to write shows the server's content of the   *)
(* revision it holds, unless a failure has made it take something back     *)
(* since: concurrent changes, refreshes and retries do not leave it with a *)
(* copy of its own under a shared number.                                  *)
QuietCopiesAgree ==
  \A d \in Device : Quiet(d) /\ local[d].rev > 0 /\ d \notin adrift =>
                      local[d].items = blobs[local[d].rev]

(* What one device has stored is not lost by the write of another that did *)
(* not know of it: it goes from the blob only if a device was asked to     *)
(* remove it or has undone it - or it is a member of a folder whose own    *)
(* creation is still being written, which replaces the folder.             *)
ItemsSurvive ==
  [][ Len(blobs) > 0 /\ blobs' # blobs =>
        \A x \in blobs[Len(blobs)] \ blobs'[Len(blobs')] :
          \/ x \in dropped
          \/ \E w \in InFlight : w.task.kind = "createFolder" /\ x \in Members(w.task.folder)
    ]_organizerVars

(* A write that is answered "saved" has its change in the blob, however    *)
(* often it has been beaten to it, unless the folder it adds to has gone.  *)
SavedMeansStored ==
  [][ \A d \in Device :
        write[d] # NoWrite /\ write[d].at = "put" /\ write[d].task.kind # "seed"
          /\ write'[d] # NoWrite /\ write'[d].at = "saved" =>
            LET stored == blobs'[Len(blobs')] IN Applied(stored, write[d].task) = stored
    ]_organizerVars

(* Every queued change is settled, stored or taken back: a write that      *)
(* fails does not stop the ones behind it, and conflicts do not keep one   *)
(* going for ever.                                                         *)
WritesSettle == \A d \in Device : []<>Quiet(d)

=============================================================================
