---------------------------- MODULE E2eAccount ----------------------------
(***************************************************************************)
(* The server's side of one user's end-to-end keys (flora-messaging): the  *)
(* state machine of the account, the encrypted key backup, the public      *)
(* identities of key epochs, device bindings and their approval, recovery  *)
(* envelopes between devices, and the table that makes retries safe.       *)
(*                                                                         *)
(* A worker serves one request and runs its awaits in order, as the        *)
(* handlers of AccountAccess do.  What the code does in one transaction    *)
(* under the row lock of the account state (or, for envelopes, under the   *)
(* advisory lock of the target) is one step; everything else is a read or  *)
(* a statement of its own.  A client may send the same request again.      *)
(*                                                                         *)
(* A request names one epoch and the identity key of it; a device belongs  *)
(* to one epoch; signatures are valid.  No code sets freeze, nor the       *)
(* states Frozen and Rotating, and none enters Recovering, which other     *)
(* handlers wait for: the protocol's document gives that transition, and   *)
(* it is the step EnterRecovering here.                                    *)
(***************************************************************************)
EXTENDS Naturals, Sequences

CONSTANTS
  Worker,           (* requests served at one time                         *)
  Epoch, Identity,  (* key epochs and the identity keys offered for them   *)
  Device,           (* device ids the server may hand out                  *)
  UnlockChallenge,  (* challenge ids it may hand out                       *)
  IdemKey,          (* idempotency keys of clients                         *)
  SetHash,          (* hashes of epoch sets                                *)
  NoIdentity, NoBackup, NoEnvelope, NoRequest,
  E2eMix            (* bound: [from, backup, identity, device, sends,      *)
                    (* limit]: the tables to begin with, the requests that *)
                    (* are sent, and how many times in all                 *)

VARIABLES
  e2eState,   (* user_e2e_account_states                                   *)
  backup,     (* user_e2e_key_backups                                      *)
  identity,   (* key_epoch_public_identities                               *)
  device,     (* user_device_keys                                          *)
  unlock,     (* user_e2e_unlock_challenges                                *)
  idem,       (* user_e2e_idempotency_records                              *)
  envelope,   (* user_device_recovery_envelopes                            *)
  proof,      (* a client holds a proof token that is still valid          *)
  worker,     (* the requests being served                                 *)
  sends, left,  (* what the clients send, and how often still              *)
  performed,  (* history: what each idempotency key has brought about      *)
  revived,    (* history: devices active again after a revocation          *)
  exposed     (* history: devices whose envelope was handed out to a       *)
              (* request that came after their revocation                  *)

e2eTables == <<e2eState, backup, identity, device, unlock, idem, envelope, proof>>
e2eClients == <<sends, left>>
e2eHistory == <<performed, revived, exposed>>
e2eVars == <<e2eTables, worker, e2eClients, e2eHistory>>

E2eState == {"Missing", "NotInitialized", "Active", "ActiveNewEpoch", "Locked", "Recovering"}

(* should_set_locked_after_password_reset *)
Open(state) == state \in {"Active", "ActiveNewEpoch"}

(* States in which devices may be added, approved and recovered. *)
Serving(state) == Open(state) \/ state = "Recovering"

(* The awaits of each handler, in order.                                   *)
PutBackupAwaits == <<"init", "put">>
CreateEpochAwaits == <<"idem", "create", "record">>
ChallengeAwaits == <<"state", "issue">>
UnlockAwaits == <<"idem", "proof", "unlock", "record">>
RecoveryKeyAwaits == <<"token">>
AddDeviceAwaits == <<"state", "enroll">>
ApproveAwaits == <<"state", "device", "approver", "activate">>
RevokeAwaits == <<"device", "revoke">>
LockAwaits == <<"state", "lock">>
PostEnvelopeAwaits == <<"state", "target", "source", "store">>
GetEnvelopeAwaits == <<"state", "target", "fetch", "deliver">>

E2eScript ==
  [ putBackup |-> PutBackupAwaits, createEpoch |-> CreateEpochAwaits,
    challenge |-> ChallengeAwaits, unlock |-> UnlockAwaits, recoveryKey |-> RecoveryKeyAwaits,
    addDevice |-> AddDeviceAwaits, approve |-> ApproveAwaits, revoke |-> RevokeAwaits,
    lock |-> LockAwaits, postEnvelope |-> PostEnvelopeAwaits, getEnvelope |-> GetEnvelopeAwaits ]

(* A request: its kind and the fields that kind has.  rev is a backup's    *)
(* revision, or the id of an envelope; code an unlock challenge.           *)
E2eRequest ==
  [ kind: {"putBackup"}, rev: Nat, hash: SetHash, epoch: Epoch, pub: Identity ]
  \cup [ kind: {"createEpoch"}, key: IdemKey, rev: Nat, hash: SetHash, epoch: Epoch,
         pub: Identity ]
  \cup [ kind: {"unlock"}, key: IdemKey, rev: Nat, hash: SetHash, epoch: Epoch, pub: Identity,
         code: UnlockChallenge ]
  \cup [ kind: {"challenge", "recoveryKey", "lock"} ]
  \cup [ kind: {"addDevice"}, epoch: Epoch ]
  \cup [ kind: {"approve"}, device: Device, by: Device ]
  \cup [ kind: {"revoke", "getEnvelope"}, device: Device ]
  \cup [ kind: {"postEnvelope"}, device: Device, by: Device, rev: Nat ]

LockRequest == [ kind |-> "lock" ]

Resting == [ req |-> NoRequest, todo |-> <<>>, gone |-> {}, got |-> NoEnvelope ]

NoDevice == [ status |-> "none", epoch |-> NoIdentity ]

DeviceStatus == {"none", "Pending", "Active", "Revoked"}

DeviceRow == [ status: DeviceStatus, epoch: Epoch \cup {NoIdentity} ]

Backup == [ rev: Nat, hash: SetHash ]

Keyed == {"createEpoch", "unlock"}

(* A device the tables begin with belongs to an epoch they know, and a     *)
(* client makes an idempotency key for one request and no other.           *)
ASSUME E2eMixAssumption ==
  \A m \in E2eMix :
    /\ m.from \in E2eState
    /\ m.backup \in Backup \cup {NoBackup}
    /\ m.identity \in [ Epoch -> Identity \cup {NoIdentity} ]
    /\ m.device \in [ Device -> DeviceRow ]
    /\ \A d \in Device : m.device[d].status # "none" =>
         m.device[d].epoch \in Epoch /\ m.identity[m.device[d].epoch] # NoIdentity
    /\ m.sends \subseteq E2eRequest
    /\ \A r, q \in m.sends : r.kind \in Keyed /\ q.kind \in Keyed /\ r.key = q.key => r = q

(* What stands for the absence of a thing is not such a thing. *)
ASSUME AbsenceAssumption ==
  /\ NoRequest \notin E2eRequest /\ NoBackup \notin Backup
  /\ NoIdentity \notin Identity /\ NoEnvelope \notin [ source: Device, id: Nat ]

Revoked == { d \in Device : device[d].status = "Revoked" }

E2eInit ==
  /\ \E m \in E2eMix : /\ e2eState = m.from /\ sends = m.sends /\ left = m.limit
                       /\ backup = m.backup /\ identity = m.identity /\ device = m.device
  /\ unlock = [ c \in UnlockChallenge |-> "unissued" ]
  /\ idem = {}
  /\ envelope = [ d \in Device |-> NoEnvelope ]
  /\ proof = FALSE
  /\ worker = [ w \in Worker |-> Resting ]
  /\ performed = [ k \in IdemKey |-> 0 ]
  /\ revived = {} /\ exposed = {}

-----------------------------------------------------------------------------
Doing(w, op) == worker[w].todo # <<>> /\ Head(worker[w].todo) = op

Turns(w, m) == worker' = [worker EXCEPT ![w] = m]

Ends(w) == Turns(w, Resting)

Knowing(w, x) == [worker[w] EXCEPT !.got = x]

PastAwait(m) == [m EXCEPT !.todo = Tail(@)]

Proceeds(w, m) == Turns(w, IF Len(m.todo) = 1 THEN Resting ELSE PastAwait(m))

(* gone: the devices that had been revoked when the request came in. *)
Serve(w, r) ==
  /\ worker[w] = Resting
  /\ Turns(w, [ req |-> r, todo |-> E2eScript[r.kind], gone |-> Revoked, got |-> NoEnvelope ])

Send(w) ==
  /\ left > 0 /\ left' = left - 1
  /\ \E r \in sends : Serve(w, r)
  /\ UNCHANGED <<e2eTables, sends, e2eHistory>>

(* What the hook of a password reset asks for, in the name of the user.    *)
AskForLock(w) ==
  /\ Serve(w, LockRequest)
  /\ UNCHANGED <<e2eTables, e2eClients, e2eHistory>>

E2eFail(w) ==
  /\ worker[w] # Resting
  /\ Ends(w)
  /\ UNCHANGED <<e2eTables, e2eClients, e2eHistory>>

-----------------------------------------------------------------------------
(* The key backup.                                                         *)

(* ensure_state_initialized *)
InitState(w) ==
  /\ Doing(w, "init")
  /\ e2eState' = IF e2eState = "Missing" THEN "NotInitialized" ELSE e2eState
  /\ Proceeds(w, worker[w])
  /\ UNCHANGED <<backup, identity, device, unlock, idem, envelope, proof, e2eClients, e2eHistory>>

(* Fault: the stored key is not compared. *)
Agrees_always(r) == TRUE

(* An epoch's identity key is stored once; another one is a conflict.      *)
Agrees(r) == identity[r.epoch] \in {r.pub, NoIdentity}

Stored(r) == [identity EXCEPT ![r.epoch] = r.pub]

(* upsert_key_backup_tx *)
BackupOf(r) == [ rev |-> r.rev, hash |-> r.hash ]

(* Fault: the state is not asked. *)
Writable_always(state) == TRUE

(* put_key_backup's transaction: it overwrites whatever revision is there. *)
Writable(state) == state # "Locked"

Put(w) ==
  /\ Doing(w, "put")
  /\ LET r == worker[w].req IN
     IF Writable(e2eState) /\ Agrees(r)
     THEN /\ backup' = BackupOf(r)
          /\ identity' = Stored(r)
          /\ e2eState' = IF e2eState = "NotInitialized" THEN "Active" ELSE e2eState
     ELSE UNCHANGED <<backup, identity, e2eState>>
  /\ Ends(w)
  /\ UNCHANGED <<device, unlock, idem, envelope, proof, e2eClients, e2eHistory>>

(* The other writers ask for a revision above the stored one.              *)
Advances(rev) == backup = NoBackup \/ rev > backup.rev

-----------------------------------------------------------------------------
(* Retries: the record is read first and written after the commit.  A body *)
(* that differs from the recorded one ends the request as a replay does.   *)

(* check_idempotency *)
CheckIdem(w) ==
  /\ Doing(w, "idem")
  /\ \/ worker[w].req.key \notin idem /\ Proceeds(w, worker[w])
     \/ worker[w].req.key \in idem /\ Ends(w)
  /\ UNCHANGED <<e2eTables, e2eClients, e2eHistory>>

(* record_idempotency: ON CONFLICT DO NOTHING *)
Record(w) ==
  /\ Doing(w, "record")
  /\ idem' = idem \cup {worker[w].req.key}
  /\ Proceeds(w, worker[w])
  /\ UNCHANGED <<e2eState, backup, identity, device, unlock, envelope, proof, e2eClients, e2eHistory>>

(* Fault: the binding is written before the epoch it belongs to. *)
Enrolled_early(epoch, status) ==
  { [device EXCEPT ![d] = [ status |-> status, epoch |-> NoIdentity ]] :
      d \in { x \in Device : device[x].status = "none" } }

(* The new device of an epoch or a recovery, Active from the start.        *)
Enrolled(epoch, status) ==
  { [device EXCEPT ![d] = [ status |-> status, epoch |-> epoch ]] :
      d \in { x \in Device : device[x].status = "none" } }

(* Fault: the new epoch is not looked up. *)
EpochIsNew_assumed(epoch) == TRUE

EpochIsNew(epoch) == identity[epoch] = NoIdentity

(* create_epoch's transaction. *)
CreateEpoch(w) ==
  /\ Doing(w, "create")
  /\ LET r == worker[w].req
         allowed == e2eState = "Locked" /\ EpochIsNew(r.epoch) /\ Advances(r.rev)
     IN  \/ /\ allowed
            /\ backup' = BackupOf(r) /\ identity' = Stored(r)
            /\ device' \in Enrolled(r.epoch, "Active")
            /\ e2eState' = "ActiveNewEpoch"
            /\ performed' = [performed EXCEPT ![r.key] = @ + 1]
            /\ Proceeds(w, worker[w])
         \/ /\ ~allowed /\ Ends(w)
            /\ UNCHANGED <<backup, identity, device, e2eState, performed>>
  /\ UNCHANGED <<unlock, idem, envelope, proof, e2eClients, revived, exposed>>

-----------------------------------------------------------------------------
(* Recovery.                                                               *)

(* The handlers that read the account state on its own: what they ask of it. *)
Admits(kind, state) ==
  CASE kind = "challenge" -> state = "Recovering"
    [] kind = "lock" -> Open(state)
    [] OTHER -> Serving(state)

ReadState(w) ==
  /\ Doing(w, "state")
  /\ \/ Admits(worker[w].req.kind, e2eState) /\ Proceeds(w, worker[w])
     \/ ~Admits(worker[w].req.kind, e2eState) /\ Ends(w)
  /\ UNCHANGED <<e2eTables, e2eClients, e2eHistory>>

(* request_unlock_challenge: the INSERT *)
IssueUnlock(w) ==
  /\ Doing(w, "issue")
  /\ \E c \in UnlockChallenge :
       unlock[c] = "unissued" /\ unlock' = [unlock EXCEPT ![c] = "open"]
  /\ Ends(w)
  /\ UNCHANGED <<e2eState, backup, identity, device, idem, envelope, proof, e2eClients, e2eHistory>>

(* get_recovery_backup: a token only to an account that is recovering.     *)
Token(w) ==
  /\ Doing(w, "token")
  /\ proof' = (proof \/ e2eState = "Recovering")
  /\ Ends(w)
  /\ UNCHANGED <<e2eState, backup, identity, device, unlock, idem, envelope, e2eClients, e2eHistory>>

(* verify_recovery_unlock, verify_device_approval *)
CheckProof(w) ==
  /\ Doing(w, "proof")
  /\ \/ proof /\ Proceeds(w, worker[w])
     \/ ~proof /\ Ends(w)
  /\ UNCHANGED <<e2eTables, e2eClients, e2eHistory>>

(* unlock_complete's transaction. *)
UnlockComplete(w) ==
  /\ Doing(w, "unlock")
  /\ LET r == worker[w].req
         allowed == /\ e2eState = "Recovering" /\ unlock[r.code] = "open"
                    /\ Agrees(r) /\ Advances(r.rev)
                    /\ backup # NoBackup => backup.hash # r.hash
     IN  \/ /\ allowed
            /\ backup' = BackupOf(r) /\ identity' = Stored(r)
            /\ device' \in Enrolled(r.epoch, "Active")
            /\ unlock' = [unlock EXCEPT ![r.code] = "used"]
            /\ e2eState' = "Active"
            /\ performed' = [performed EXCEPT ![r.key] = @ + 1]
            /\ Proceeds(w, worker[w])
         \/ /\ ~allowed /\ Ends(w)
            /\ UNCHANGED <<backup, identity, device, unlock, e2eState, performed>>
  /\ UNCHANGED <<idem, envelope, proof, e2eClients, revived, exposed>>

(* Fault: the UPDATE relies on the state read before. *)
Locks_always(state) == "Locked"

(* Fault: the UPDATE forgets the second open state. *)
Locks_activeOnly(state) == IF state = "Active" THEN "Locked" ELSE state

(* lock_account: an UPDATE that names the states it starts from.           *)
Locks(state) == IF Open(state) THEN "Locked" ELSE state

LockAccount(w) ==
  /\ Doing(w, "lock")
  /\ e2eState' = Locks(e2eState)
  /\ Ends(w)
  /\ UNCHANGED <<backup, identity, device, unlock, idem, envelope, proof, e2eClients, e2eHistory>>

-----------------------------------------------------------------------------
(* Devices.                                                                *)

(* add_pending_device: the epoch, which is never removed, and the INSERT.  *)
Enroll(w) ==
  /\ Doing(w, "enroll")
  /\ LET e == worker[w].req.epoch IN
     \/ identity[e] # NoIdentity /\ device' \in Enrolled(e, "Pending")
     \/ identity[e] = NoIdentity /\ device' = device
  /\ Ends(w)
  /\ UNCHANGED <<e2eState, backup, identity, unlock, idem, envelope, proof, e2eClients, e2eHistory>>

(* Fault: any device there is. *)
Approvable_any(status) == status # "none"

(* What approval and revocation read of the device before they write it.   *)
Approvable(status) == status \in {"Pending", "Active"}

Revocable(status) == status \in {"Pending", "Active"}

ReadDevice(w) ==
  /\ Doing(w, "device")
  /\ LET r == worker[w].req
         status == device[r.device].status
         goes == IF r.kind = "approve" THEN Approvable(status) ELSE Revocable(status)
     IN  \/ goes /\ Proceeds(w, Knowing(w, status))
         \/ ~goes /\ Ends(w)
  /\ UNCHANGED <<e2eTables, e2eClients, e2eHistory>>

(* The approving device and its signature.  A device that was Active when  *)
(* it was read is not written, its client is given the token all the same. *)
ReadApprover(w) ==
  /\ Doing(w, "approver")
  /\ LET m == worker[w]
         able == /\ m.req.by # m.req.device
                 /\ device[m.req.by].status = "Active"
                 /\ device[m.req.by].epoch = device[m.req.device].epoch
     IN  \/ able /\ m.got # "Active" /\ Proceeds(w, m) /\ proof' = proof
         \/ able /\ m.got = "Active" /\ Ends(w) /\ proof' = TRUE
         \/ ~able /\ Ends(w) /\ proof' = proof
  /\ UNCHANGED <<e2eState, backup, identity, device, unlock, idem, envelope, e2eClients, e2eHistory>>

(* The UPDATE of approve_device, by id alone, and the token.               *)
Activate(w) ==
  /\ Doing(w, "activate")
  /\ LET d == worker[w].req.device IN
     /\ device' = [device EXCEPT ![d].status = "Active"]
     /\ revived' = revived \cup ({d} \cap Revoked)
  /\ proof' = TRUE
  /\ Ends(w)
  /\ UNCHANGED <<e2eState, backup, identity, unlock, idem, envelope, e2eClients, performed, exposed>>

RevokeDevice(w) ==
  /\ Doing(w, "revoke")
  /\ device' = [device EXCEPT ![worker[w].req.device].status = "Revoked"]
  /\ Ends(w)
  /\ UNCHANGED <<e2eState, backup, identity, unlock, idem, envelope, proof, e2eClients, e2eHistory>>

-----------------------------------------------------------------------------
(* Recovery envelopes.                                                     *)

(* ensure_recovery_target_binding *)
ReadTarget(w) ==
  /\ Doing(w, "target")
  /\ LET status == device[worker[w].req.device].status IN
     \/ status \in {"Pending", "Active"} /\ Proceeds(w, worker[w])
     \/ status \notin {"Pending", "Active"} /\ Ends(w)
  /\ UNCHANGED <<e2eTables, e2eClients, e2eHistory>>

(* Fault: the source is trusted since it was when the envelope was stored. *)
Trusted_oncePosted(source, target) == device[source].epoch = device[target].epoch

(* ensure_active_recovery_source, for the one epoch of both devices. *)
Trusted(source, target) ==
  device[source].status = "Active" /\ device[source].epoch = device[target].epoch

ReadSource(w) ==
  /\ Doing(w, "source")
  /\ LET r == worker[w].req IN
     \/ Trusted(r.by, r.device) /\ Proceeds(w, worker[w])
     \/ ~Trusted(r.by, r.device) /\ Ends(w)
  /\ UNCHANGED <<e2eTables, e2eClients, e2eHistory>>

(* store_recovery_envelope: the same request id again is a replay or a     *)
(* conflict, a new one replaces what is there.                             *)
StoreEnvelope(w) ==
  /\ Doing(w, "store")
  /\ LET r == worker[w].req
         there == envelope[r.device]
     IN  envelope' = IF there # NoEnvelope /\ there.id = r.rev THEN envelope
                     ELSE [envelope EXCEPT ![r.device] = [ source |-> r.by, id |-> r.rev ]]
  /\ Ends(w)
  /\ UNCHANGED <<e2eState, backup, identity, device, unlock, idem, proof, e2eClients, e2eHistory>>

(* fetch_recovery_envelope *)
FetchEnvelope(w) ==
  /\ Doing(w, "fetch")
  /\ LET found == envelope[worker[w].req.device] IN
     \/ found # NoEnvelope /\ Proceeds(w, Knowing(w, found))
     \/ found = NoEnvelope /\ Ends(w)
  /\ UNCHANGED <<e2eTables, e2eClients, e2eHistory>>

(* The authority of the source is checked again before the envelope goes out. *)
Deliver(w) ==
  /\ Doing(w, "deliver")
  /\ LET m == worker[w]
         pair == {m.got.source, m.req.device}
     IN  exposed' = IF Trusted(m.got.source, m.req.device)
                    THEN exposed \cup ((pair \cap m.gone) \ revived) ELSE exposed
  /\ Ends(w)
  /\ UNCHANGED <<e2eTables, e2eClients, performed, revived>>

-----------------------------------------------------------------------------
(* Time, and what lies outside.                                            *)

ExpireE2e ==
  /\ \/ /\ proof /\ proof' = FALSE
        /\ UNCHANGED <<unlock, envelope>>
     \/ \E c \in UnlockChallenge :
          /\ unlock[c] = "open" /\ unlock' = [unlock EXCEPT ![c] = "expired"]
          /\ UNCHANGED <<proof, envelope>>
     \/ \E d \in Device :
          /\ envelope[d] # NoEnvelope /\ envelope' = [envelope EXCEPT ![d] = NoEnvelope]
          /\ UNCHANGED <<proof, unlock>>
  /\ UNCHANGED <<e2eState, backup, identity, device, idem, worker, e2eClients, e2eHistory>>

(* locked -> recovering, active_new_epoch -> recovering *)
EnterRecovering ==
  /\ \E r \in sends : r.kind = "challenge"
  /\ e2eState \in {"Locked", "ActiveNewEpoch"}
  /\ e2eState' = "Recovering"
  /\ UNCHANGED <<backup, identity, device, unlock, idem, envelope, proof, worker, e2eClients,
                 e2eHistory>>

E2eStep(w) ==
  \/ Send(w)
  \/ InitState(w) \/ Put(w) \/ CheckIdem(w) \/ CreateEpoch(w) \/ Record(w)
  \/ ReadState(w) \/ IssueUnlock(w) \/ Token(w) \/ CheckProof(w) \/ UnlockComplete(w)
  \/ LockAccount(w)
  \/ Enroll(w) \/ ReadDevice(w) \/ ReadApprover(w) \/ Activate(w) \/ RevokeDevice(w)
  \/ ReadTarget(w) \/ ReadSource(w) \/ StoreEnvelope(w) \/ FetchEnvelope(w) \/ Deliver(w)

E2eNext ==
  \/ ExpireE2e \/ EnterRecovering
  \/ \E w \in Worker : E2eStep(w) \/ E2eFail(w)

E2eSpec == E2eInit /\ [][E2eNext]_e2eVars

-----------------------------------------------------------------------------
(* Properties.                                                             *)

(* Every variable has its type: a backup row, a device row, an envelope    *)
(* from a device there is.                                                 *)
E2eTypeOK ==
  /\ e2eState \in E2eState
  /\ backup \in Backup \cup {NoBackup}
  /\ identity \in [ Epoch -> Identity \cup {NoIdentity} ]
  /\ device \in [ Device -> DeviceRow ]
  /\ \A d \in Device : device[d].status # "none" =>
       device[d].epoch \in Epoch /\ identity[device[d].epoch] # NoIdentity
  /\ idem \subseteq IdemKey
  /\ unlock \in [ UnlockChallenge -> {"unissued", "open", "used", "expired"} ]
  /\ \A d \in Device : envelope[d] # NoEnvelope => device[envelope[d].source].status # "none"
  /\ proof \in BOOLEAN
  /\ revived \subseteq Device /\ exposed \subseteq Device
  /\ performed \in [ IdemKey -> Nat ]

(* A retried create-epoch or unlock-complete takes effect once, although   *)
(* its record is read before the transaction and written after the commit, *)
(* so that two copies of it may both run, and a crash in between leaves    *)
(* none.                                                                   *)
RetriesHaveOneEffect == \A k \in IdemKey : performed[k] <= 1

(* While the account is locked its backup changes by one way only: the     *)
(* creation of a new epoch, which unlocks it.  A PUT that came in before   *)
(* the lock does not slip through.                                         *)
FrozenWhileLocked ==
  [][ e2eState = "Locked" /\ backup' # backup => e2eState' = "ActiveNewEpoch" ]_e2eVars

(* The identity key first stored for an epoch is the one it keeps, across  *)
(* the three handlers that store one.                                      *)
IdentityStable ==
  [][ \A e \in Epoch : identity[e] # NoIdentity => identity'[e] = identity[e] ]_e2eVars

(* A lock that has read an open account never interrupts a recovery that   *)
(* has begun since; only its completion ends one.                          *)
LockSparesRecovery ==
  [][ e2eState = "Recovering" => e2eState' \in {"Recovering", "Active"} ]_e2eVars

(* A revoked device becomes active again only by an approval that came in  *)
(* before the revocation.                                                  *)
RevocationOutlivesLaterApprovals ==
  [][ \A d \in Revoked : device'[d].status = "Active" =>
        \E w \in Worker : /\ Doing(w, "activate") /\ worker[w].req.device = d
                          /\ d \notin worker[w].gone ]_e2eVars

(* No envelope from or for a device goes out to a request that came after  *)
(* the device's revocation, unless an approval under way has revived it:   *)
(* the source is checked again between the read of the envelope and the    *)
(* answer.                                                                 *)
NoEnvelopeAfterRevoke == exposed = {}

(* What the document on client retries says of a lost answer to a backup   *)
(* write: the retry, with the same revision, is refused as stale.          *)
PutNeedsFreshRevision ==
  [][ backup # NoBackup /\ backup' # backup => backup'.rev > backup.rev ]_e2eVars

=============================================================================
