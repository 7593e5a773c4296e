----------------------- MODULE AccountRecovery_proofs -----------------------
(***************************************************************************)
(* Proofs about the two sides together: what E2eAccount_proofs shows of    *)
(* the end-to-end keys by themselves still holds next to the accounts and  *)
(* with the hook of a password reset joining in, what holds of the         *)
(* accounts by themselves holds next to the keys, and a reset closes the   *)
(* keys.                                                                   *)
(***************************************************************************)
EXTENDS AccountRecovery, AccountAccess_proofs, E2eAccount_proofs

-----------------------------------------------------------------------------
(* The end-to-end side takes part in a step of the whole by a move of its  *)
(* own, by the hook's request, or not at all.                              *)
LEMMA RecoveryMoves ==
  ASSUME [RecoveryNext]_recoveryVars
  PROVE  [E2eMove]_e2eVars
<1>1. CASE EndToEnd
  BY <1>1 DEF EndToEnd, E2eMove, E2eNext
<1>2. ASSUME NEW h \in Handler, NEW w \in Worker, ResetHook(h, w)
      PROVE  E2eMove
  BY <1>2 DEF ResetHook, E2eMove
<1>3. CASE UNCHANGED e2eVars
  BY <1>3
<1>4. ASSUME NEW h \in Handler, Accounts(h) \/ HookElsewhere(h)
      PROVE  UNCHANGED e2eVars
  BY <1>4 DEF Accounts, HookElsewhere
<1> QED
  BY <1>1, <1>2, <1>3, <1>4 DEF RecoveryNext, recoveryVars

LEMMA E2eInvInWhole == RecoverySpec => []E2eInv
<1>1. RecoveryInit => E2eInv
  BY E2eInitEstablishes DEF RecoveryInit
<1>2. E2eInv /\ [RecoveryNext]_recoveryVars => E2eInv'
  BY RecoveryMoves, E2eMoveKeeps, E2eStutterKeeps
<1> QED
  BY <1>1, <1>2, PTL DEF RecoverySpec

(* Rows of the E2E tables have their types. *)
THEOREM E2eTypesInWhole == RecoverySpec => []E2eTypeOK
<1>1. E2eInv => E2eTypeOK
  BY DEF E2eInv, RowsInv
<1> QED
  BY <1>1, E2eInvInWhole, PTL

(* A retried create-epoch or unlock-complete takes effect once. *)
THEOREM OneEffectOfRetriesInWhole == RecoverySpec => []RetriesHaveOneEffect
<1>1. E2eInv => RetriesHaveOneEffect
  BY DEF E2eInv
<1> QED
  BY <1>1, E2eInvInWhole, PTL

(* No envelope goes out for a device to a request that came after its end. *)
THEOREM EnvelopesStopInWhole == RecoverySpec => []NoEnvelopeAfterRevoke
<1>1. E2eInv => NoEnvelopeAfterRevoke
  BY DEF E2eInv
<1> QED
  BY <1>1, E2eInvInWhole, PTL

(* The hook's lock, too, leaves the backup, the identities, a recovery     *)
(* under way and revoked devices as they are.                              *)
THEOREM E2eStepsInWhole ==
  RecoverySpec => /\ FrozenWhileLocked /\ IdentityStable
                  /\ LockSparesRecovery /\ RevocationOutlivesLaterApprovals
<1>1. E2eInv /\ [RecoveryNext]_recoveryVars =>
        /\ [e2eState = "Locked" /\ backup' # backup => e2eState' = "ActiveNewEpoch"]_e2eVars
        /\ [\A e \in Epoch : identity[e] # NoIdentity => identity'[e] = identity[e]]_e2eVars
        /\ [e2eState = "Recovering" => e2eState' \in {"Recovering", "Active"}]_e2eVars
        /\ [\A d \in Revoked : device'[d].status = "Active" =>
              \E w \in Worker : /\ Doing(w, "activate") /\ worker[w].req.device = d
                                /\ d \notin worker[w].gone]_e2eVars
  BY RecoveryMoves, E2eStepProperties
<1> QED
  BY <1>1, E2eInvInWhole, PTL DEF RecoverySpec, FrozenWhileLocked, IdentityStable,
     LockSparesRecovery, RevocationOutlivesLaterApprovals

-----------------------------------------------------------------------------
(* The accounts take part by a step of their own or not at all: what holds *)
(* of them by themselves holds of them here.                               *)
LEMMA AccountMoves ==
  ASSUME [RecoveryNext]_recoveryVars
  PROVE  [AccountNext]_accountVars
<1>1. CASE EndToEnd \/ UNCHANGED recoveryVars
  BY <1>1 DEF EndToEnd, recoveryVars
<1>2. ASSUME NEW h \in Handler, NEW w \in Worker, ResetHook(h, w)
      PROVE  AccountNext
  BY <1>2 DEF ResetHook, AccountNext
<1>3. ASSUME NEW h \in Handler, Accounts(h) \/ HookElsewhere(h)
      PROVE  AccountNext
  BY <1>3 DEF Accounts, HookElsewhere, AccountNext
<1>4. CASE AccountTime
  BY <1>4 DEF AccountNext
<1> QED
  BY <1>1, <1>2, <1>3, <1>4 DEF RecoveryNext

THEOREM AccountsInWhole == RecoverySpec => AccountSpec
<1>1. RecoveryInit => AccountInit
  BY DEF RecoveryInit
<1>2. [RecoveryNext]_recoveryVars => [AccountNext]_accountVars
  BY AccountMoves
<1> QED
  BY <1>1, <1>2, PTL DEF RecoverySpec, AccountSpec

(* A code brings about one thing at most, with the keys locked under way.  *)
THEOREM OneEffectInWhole == RecoverySpec => []OneEffectPerCode
  BY AccountsInWhole, OneEffect, PTL

(* And that within the attempts allowed. *)
THEOREM WithinAttemptsInWhole == RecoverySpec => []AttemptsRespected
  BY AccountsInWhole, WithinAttempts, PTL

(* Two-factor login is on over a proven secret. *)
THEOREM FactorProvenInWhole == RecoverySpec => []TotpProven
  BY AccountsInWhole, FactorProven, PTL

(* And no secret that was replaced comes back. *)
THEOREM SecretsStayGoneInWhole == RecoverySpec => SecretsNeverReturn
  BY AccountsInWhole, SecretsStayGone, PTL

(* A withdrawn code sets no password, with the E2E side around it. *)
THEOREM RetiredCodesStayDeadInWhole == RecoverySpec => RetiredCodesAreDead
  BY AccountsInWhole, RetiredCodesStayDead, PTL

(* Old sessions end, with the hook into the E2E side after their revocation. *)
THEOREM OldSessionsAreEndedInWhole == RecoverySpec => []OldSessionsEnd
  BY AccountsInWhole, OldSessionsAreEnded, PTL

(* The tables hold rows and the handlers what they have read, whatever the *)
(* E2E side does between two of their awaits.                              *)
THEOREM AccountTypesInWhole == RecoverySpec => []AccountTypeOK
  BY AccountsInWhole, AccountTypes, PTL

(* Logins outrun the lockout by one wrong answer each, and no more.        *)
THEOREM LockoutOutrunBoundedInWhole ==
  ASSUME MaxFailures > 1
  PROVE  RecoverySpec => []LockoutOutrunAtMost
  BY AccountsInWhole, LockoutOutrunBounded, PTL

(* Whatever one handler does, the others keep what marks them. *)
LEMMA OthersStand ==
  ASSUME NEW h \in Handler, HandlerShape, AccountStep(h) \/ Hook(h)
  PROVE  /\ HandlerShape'
         /\ \A g \in Handler \ {h} : \A f \in Marks : handler'[g][f] = handler[g][f]
  BY ShapeKept, OthersKeepMarks

-----------------------------------------------------------------------------
(* The debt.                                                               *)

(* Marks are all that counts. *)
LEMMA OwesByMarks ==
  ASSUME NEW m, NEW n, \A f \in Marks : n[f] = m[f], Owes(m)
  PROVE  Owes(n)
<1>1. n.kind = m.kind /\ n.acct = m.acct /\ n.todo = m.todo
  BY DEF Marks
<1> QED
  BY <1>1 DEF Owes

(* A lock that is under way stays under way while the keys stay open,      *)
(* unless it fails: its SELECT sends away only an account that is closed,  *)
(* its UPDATE leaves none open.                                            *)
LEMMA LockGoesOn ==
  ASSUME E2eInv, NEW x \in Worker, worker[x].req = LockRequest, Open(e2eState'),
         ExpireE2e \/ EnterRecovering \/ \E w \in Worker : E2eStep(w)
  PROVE  worker'[x].req = LockRequest
<1>1. WorkerShape(x) /\ DOMAIN worker = Worker
  BY DEF E2eInv
<1>2. worker[x] # Resting
  BY LockIsRequest, AbsenceAssumption DEF Resting
<1>3. CASE ExpireE2e \/ EnterRecovering
  BY <1>3 DEF ExpireE2e, EnterRecovering
<1>4. ASSUME NEW w \in Worker, E2eStep(w), w # x
      PROVE  worker'[x] = worker[x]
  BY <1>1, <1>4 DEF E2eStep, Send, Serve, InitState, Put, CheckIdem, Record, ReadState, IssueUnlock,
     Token, CheckProof, LockAccount, CreateEpoch, UnlockComplete, Enroll, ReadDevice, ReadApprover,
     Activate, RevokeDevice, ReadTarget, ReadSource, StoreEnvelope, FetchEnvelope, Deliver,
     Proceeds, Ends, Turns
<1>5. ASSUME E2eStep(x)
      PROVE  ReadState(x) \/ LockAccount(x)
  <2>1. ASSUME NEW op, Doing(x, op)
        PROVE  op \notin {"init", "put", "idem", "create", "record", "issue", "token", "proof",
                          "unlock", "enroll", "device", "approver", "activate", "revoke", "target",
                          "source", "store", "fetch", "deliver"}
    BY <1>1, <2>1, DoingTells, LockIsRequest
  <2> QED
    BY <1>2, <1>5, <2>1 DEF E2eStep, Send, Serve, InitState, Put, CheckIdem, Record, IssueUnlock,
       Token, CheckProof, CreateEpoch, UnlockComplete, Enroll, ReadDevice, ReadApprover,
       Activate, RevokeDevice, ReadTarget, ReadSource, StoreEnvelope, FetchEnvelope, Deliver
<1>6. CASE ReadState(x)
  <2>1. e2eState' = e2eState
    BY <1>6 DEF ReadState, e2eTables
  <2>2. Admits("lock", e2eState)
    BY <2>1 DEF Admits
  <2>3. Doing(x, "state") /\ Proceeds(x, worker[x])
    BY <1>6, <2>2, LockIsRequest DEF ReadState
  <2>4. ~IsLast(worker[x].todo)
    BY <1>1, <2>3, DoingTells
  <2>5. worker[x] = [ req |-> worker[x].req, todo |-> worker[x].todo, gone |-> worker[x].gone,
                      got |-> worker[x].got ]
    BY <1>1, <1>2 DEF WorkerShape
  <2>6. sends' = sends
    BY <1>6 DEF ReadState, e2eClients
  <2>8. /\ x \in Worker /\ DOMAIN worker = Worker /\ WorkerShape(x) /\ sends' = sends
        /\ Doing(x, "state") /\ Proceeds(x, worker[x])
    BY <1>1, <2>3, <2>6
  <2>9. worker'[x] = [ req |-> worker[x].req, todo |-> Tail(worker[x].todo),
                       gone |-> worker[x].gone, got |-> worker[x].got ]
    BY <2>4, <2>5, <2>8, Proceeding
  <2> QED
    BY <2>9
<1>7. ~LockAccount(x)
  BY DEF LockAccount, Locks, Open
<1> QED
  BY <1>3, <1>4, <1>5, <1>6, <1>7

RecoveryInv == E2eInv /\ HandlerShape /\ ResetCloses

LEMMA RecoveryInitEstablishes ==
  ASSUME RecoveryInit
  PROVE  RecoveryInv
<1>1. HandlerShape
  BY JourneyBegins DEF RecoveryInit, CodeJourney
<1> QED
  BY <1>1, E2eInitEstablishes DEF RecoveryInv, RecoveryInit, ResetCloses

LEMMA RecoveryStepKeeps ==
  ASSUME RecoveryInv, [RecoveryNext]_recoveryVars
  PROVE  RecoveryInv'
<1> USE DEF RecoveryInv
<1>1. E2eInv'
  BY RecoveryMoves, E2eMoveKeeps, E2eStutterKeeps
<1>2. ASSUME NEW h \in Handler, Accounts(h)
      PROVE  HandlerShape' /\ ResetCloses'
  <2>1. /\ HandlerShape'
        /\ \A g \in Handler \ {h} : \A f \in Marks : handler'[g][f] = handler[g][f]
        /\ worker' = worker
    BY <1>2, OthersStand DEF Accounts, e2eVars
  <2>2. \A g \in Handler \ {h} : Owes(handler[g]) => Owes(handler'[g])
    BY <2>1, OwesByMarks
  <2>3. owed' \subseteq owed \cup {h} /\ (h \in owed' => Owes(handler'[h]))
    BY <1>2 DEF Accounts
  <2> QED
    BY <2>1, <2>2, <2>3 DEF ResetCloses
<1>3. ASSUME NEW h \in Handler, HookElsewhere(h)
      PROVE  HandlerShape' /\ ResetCloses'
  <2>1. /\ HandlerShape'
        /\ \A g \in Handler \ {h} : \A f \in Marks : handler'[g][f] = handler[g][f]
        /\ worker' = worker /\ owed' = owed /\ ~Owes(handler[h])
    BY <1>3, OthersStand DEF HookElsewhere, e2eVars, Owes
  <2>2. \A g \in Handler \ {h} : Owes(handler[g]) => Owes(handler'[g])
    BY <2>1, OwesByMarks
  <2> QED
    BY <2>1, <2>2 DEF ResetCloses
<1>4. ASSUME NEW h \in Handler, NEW w \in Worker, ResetHook(h, w)
      PROVE  HandlerShape' /\ ResetCloses'
  <2>1. /\ HandlerShape'
        /\ \A g \in Handler \ {h} : \A f \in Marks : handler'[g][f] = handler[g][f]
    BY <1>4, OthersStand DEF ResetHook
  <2>2. \A g \in Handler \ {h} : Owes(handler[g]) => Owes(handler'[g])
    BY <2>1, OwesByMarks
  <2>3. /\ worker'[w].req = LockRequest
        /\ \A v \in Worker : v # w => worker'[v] = worker[v]
    BY <1>4 DEF ResetHook, AskForLock, Serve, Turns, E2eInv
  <2>4. \A x \in owed' : x = w \/ (x \in owed /\ x # h)
    BY <1>4 DEF ResetHook
  <2> QED
    BY <2>1, <2>2, <2>3, <2>4 DEF ResetCloses
<1>5. CASE EndToEnd
  <2>1. UNCHANGED <<handler, mix>>
    BY <1>5 DEF EndToEnd, accountVars, clients
  <2>2. CASE \E w \in Worker : E2eFail(w) /\ owed' = owed \ {w}
    BY <1>1, <2>1, <2>2 DEF ResetCloses, E2eFail, Ends, Turns, E2eInv, HandlerShape
  <2>3. CASE /\ ExpireE2e \/ EnterRecovering \/ \E w \in Worker : E2eStep(w)
             /\ owed' = IF Open(e2eState') THEN owed ELSE {}
    BY <1>1, <2>1, <2>3, LockGoesOn DEF ResetCloses, HandlerShape
  <2> QED
    BY <1>5, <2>2, <2>3 DEF EndToEnd
<1>6. CASE UNCHANGED recoveryVars \/ (AccountTime /\ UNCHANGED <<e2eVars, owed>>)
  <2>1. UNCHANGED <<handler, mix, worker, owed>>
    BY <1>6 DEF recoveryVars, accountVars, clients, e2eVars, AccountTime, ExpireCode, ExpireGrant,
       Unlock
  <2> QED
    BY <1>1, <2>1 DEF ResetCloses, HandlerShape
<1> QED
  BY <1>1, <1>2, <1>3, <1>4, <1>5, <1>6 DEF RecoveryNext

(* A password reset whose statements succeed closes the owner's end-to-end *)
(* keys if they were open when it wrote the password, whatever the clients *)
(* of either side do in between.                                           *)
THEOREM ResetClosesKeys == RecoverySpec => []ResetCloses
<1>1. RecoveryInit => RecoveryInv
  BY RecoveryInitEstablishes
<1>2. RecoveryInv /\ [RecoveryNext]_recoveryVars => RecoveryInv'
  BY RecoveryStepKeeps
<1>3. RecoveryInv => ResetCloses
  BY DEF RecoveryInv
<1> QED
  BY <1>1, <1>2, <1>3, PTL DEF RecoverySpec

=============================================================================
