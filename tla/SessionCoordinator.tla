------------------------- MODULE SessionCoordinator -------------------------
(***************************************************************************)
(* The client side of session refresh on mobile: the refresh coordinator   *)
(* of flora-client-core (api/sessionCoordinator.ts) over the store of      *)
(* MobileSessionStore, the network, the server's decision (RefreshMachine) *)
(* and whatever the user, another device or the operating system does in   *)
(* between.                                                                *)
(*                                                                         *)
(* One attempt runs at a time (inFlight).  It awaits a read of the store,  *)
(* a second read, the POST, a third read and the compare-and-swap:         *)
(*                                                                         *)
(*   idle -Start-> begun -Check-> posted -Serve-> answered -Handle->       *)
(*        committing -Apply-> committed -Finish-> idle                     *)
(*                                                                         *)
(* with one retry of a fetch that failed (waiting, retrying).  A read and  *)
(* the code up to the next await are one step.  The epoch of the code is   *)
(* here the flag `superseded` of the attempt: pending and confirmedInvalid *)
(* are reset by every change of the epoch, so they never hold another one. *)
(*                                                                         *)
(* A family is a login, numbered in their order; a token is a family and   *)
(* its place in that family's chain.  The expiry of a family is not told   *)
(* apart from its revocation on another device.                            *)
(***************************************************************************)
EXTENDS RefreshMachine

CONSTANTS
  Family,     (* logins, 1 .. n                                            *)
  NoRecord,   (* no shadow record                                          *)
  Grace,      (* REFRESH_GRACE_SECONDS of the server                       *)
  NoMutation, (* no local commit is pending                                *)
  MaxTime, MaxRevision, MaxFaults, MaxRestarts (* bounds                   *)

INSTANCE MobileSessionStore

ASSUME FamilyAssumption ==
  /\ Family \subseteq Nat /\ Token \subseteq Family \X Nat
  /\ \A f \in Family : <<f, 0>> \in Token
ASSUME NoRecordAssumption == NoRecord \notin Record
ASSUME NoMutationAssumption == NoMutation \notin [ base: Record, next: Token \cup {NoToken} ]
ASSUME BoundAssumption ==
  /\ Grace \in Nat /\ MaxTime \in Nat /\ MaxRevision \in Nat
  /\ MaxFaults \in Nat /\ MaxRestarts \in Nat

VARIABLES
  now,       (* the server's clock                                          *)
  session,   (* its session rows, by family                                 *)
  replay,    (* its replay rows                                             *)
  wire,      (* tokens of POSTs nobody waits for any more                   *)
  disk,      (* SecureStore                                                 *)
  attempt,   (* the refresh in flight                                       *)
  pending,   (* the local mutation whose commit failed                      *)
  confirmedInvalid, (* the server has called the session invalid            *)
  user,      (* the login or logout under way                               *)
  faults,    (* storage failures still to come                              *)
  restarts,  (* process deaths still to come                                *)
  latest,    (* history: the last login that was saved                      *)
  signOut    (* history: how far the logout since the last login has come   *)

server == <<now, session, replay>>
memory == <<attempt, pending, confirmedInvalid>>
history == <<latest, signOut>>
vars == <<server, wire, disk, memory, user, faults, restarts, history>>

-----------------------------------------------------------------------------

Mutation == [ base: Record, next: Token \cup {NoToken} ]

IdleAttempt ==
  [ pc |-> "idle", superseded |-> FALSE, baseline |-> [ revision |-> 0, token |-> NoToken ],
    token |-> NoToken, retried |-> FALSE, answer |-> "none", granted |-> NoToken,
    mutation |-> NoMutation ]

Attempt ==
  [ pc: {"idle", "begun", "posted", "waiting", "retrying", "answered",
         "committing", "committed"},
    superseded: BOOLEAN, baseline: Record, token: Token \cup {NoToken},
    retried: BOOLEAN,
    answer: {"none", "ok", "invalid", "transient", "done", "refused", "threw"},
    granted: Token \cup {NoToken},
    mutation: Mutation \cup {NoMutation} ]

IdleUser == [ pc |-> "idle", family |-> 0 ]

Unborn == [ status |-> "unborn", current |-> NoToken, rotation |-> 0, expires |-> 0 ]

(* The lifetime of a family is longer than a behaviour. *)
Opened(f) ==
  [ status |-> "active", current |-> <<f, 0>>, rotation |-> 0, expires |-> MaxTime + 1 ]

(* A fresh install: the migration of nothing wrote the first tombstone. *)
Init ==
  /\ now = 0
  /\ session = [ f \in Family |-> Unborn ]
  /\ replay = [ f \in Family |-> NoRow ]
  /\ wire = {}
  /\ disk = [ canonical |-> [ revision |-> 1, token |-> NoToken ], shadow |-> NoRecord ]
  /\ attempt = IdleAttempt
  /\ pending = NoMutation
  /\ confirmedInvalid = FALSE
  /\ user = IdleUser
  /\ faults = MaxFaults
  /\ restarts = MaxRestarts
  /\ latest = 0
  /\ signOut = "none"

(* One outcome of a store operation. *)
Happens(o) ==
  /\ o.faults <= faults
  /\ faults' = faults - o.faults
  /\ disk' = o.disk

(* The operations of the store queue up.  The save of a login and the clear *)
(* of a logout are queued when they are called; what is called later waits. *)
(* A compare-and-swap is queued at the end of the read before it, behind    *)
(* whatever was called during that read.                                    *)
QueueFree == user.pc \notin {"saving", "clearing"}

(* A read of the store. *)
Read(r) == QueueFree /\ Happens(r)

(* supersede *)
Supersede ==
  /\ attempt' = IF attempt.pc = "idle" THEN attempt
                ELSE [ attempt EXCEPT !.superseded = TRUE ]
  /\ pending' = NoMutation
  /\ confirmedInvalid' = FALSE

(* mutationWasApplied *)
WasApplied(m, current) ==
  /\ current.revision # m.base.revision
  /\ current.token = m.next

(* The end of an attempt; its outcome is only a word to the caller. *)
End == attempt' = IdleAttempt /\ UNCHANGED <<pending, confirmedInvalid>>

KeepPending == UNCHANGED <<pending, confirmedInvalid>>

(* A pending mutation whose base has changed is dropped; a dropped clear    *)
(* takes the verdict with it.                                               *)
DropPending ==
  /\ pending' = NoMutation
  /\ confirmedInvalid' = (confirmedInvalid /\ pending.next # NoToken)

-----------------------------------------------------------------------------
(* The attempt.                                                             *)

(* Bound: revisions end, but a pending commit may still be settled. *)
CanAdvance == disk.canonical.revision < MaxRevision

(* refresh and the first half of run: the baseline is read. *)
Start ==
  /\ attempt.pc = "idle"
  /\ CanAdvance \/ pending # NoMutation
  /\ \E r \in ReadPersisted(disk) :
       /\ Read(r)
       /\ r.result = "done"
       /\ attempt' = [ IdleAttempt EXCEPT !.pc = "begun", !.baseline = r.record ]
  /\ UNCHANGED <<server, wire, pending, confirmedInvalid, user, restarts, history>>

(* A plausible slip: the volatile R2 is used before it is stored. *)
VolatileCapability(current) ==
  IF pending # NoMutation THEN pending.next ELSE current.token

(* What runExclusive may POST: nothing before the pending commit is settled, *)
(* nothing when the session has changed since the baseline.                  *)
Capability(current) ==
  IF pending = NoMutation /\ current = attempt.baseline THEN current.token ELSE NoToken

(* retryPending *)
RetryPending(current) ==
  \/ /\ WasApplied(pending, current)
     /\ pending' = NoMutation
     /\ attempt' = IdleAttempt
     /\ UNCHANGED confirmedInvalid
  \/ /\ ~WasApplied(pending, current) /\ pending.base # current
     /\ DropPending
     /\ attempt' = IdleAttempt
  \/ /\ pending.base = current
     /\ attempt' = [ attempt EXCEPT !.pc = "committing", !.mutation = pending ]
     /\ KeepPending

(* runExclusive up to its first POST or its local commit. *)
Check ==
  /\ attempt.pc = "begun"
  /\ \E r \in ReadPersisted(disk) :
       /\ Read(r)
       /\ IF r.result = "threw" \/ attempt.superseded THEN End
          ELSE IF Capability(r.record) # NoToken
          THEN /\ attempt' = [ attempt EXCEPT !.pc = "posted", !.token = Capability(r.record) ]
               /\ KeepPending
          ELSE IF pending # NoMutation THEN RetryPending(r.record)
          ELSE End
  /\ UNCHANGED <<server, wire, user, restarts, history>>

(* fetch rejects: the request may still be on its way, its answer is lost.  *)
(* One retry, after LOST_RESPONSE_RETRY_DELAY_MS.                           *)
FetchFails ==
  /\ attempt.pc \in {"posted", "answered"}
  /\ wire' = IF attempt.pc = "posted" THEN wire \cup {attempt.token} ELSE wire
  /\ attempt' = IF attempt.retried THEN IdleAttempt
                ELSE [ attempt EXCEPT !.pc = "waiting", !.answer = "none", !.granted = NoToken ]
  /\ UNCHANGED <<server, disk, pending, confirmedInvalid, user, faults, restarts, history>>

Wake ==
  /\ attempt.pc = "waiting"
  /\ attempt' = IF attempt.superseded THEN IdleAttempt ELSE [ attempt EXCEPT !.pc = "retrying" ]
  /\ UNCHANGED <<server, wire, disk, pending, confirmedInvalid, user, faults, restarts, history>>

(* The epoch is not looked at between this read and the second POST. *)
Resend ==
  /\ attempt.pc = "retrying"
  /\ \E r \in ReadPersisted(disk) :
       /\ Read(r)
       /\ attempt' = IF r.result = "done" /\ r.record = attempt.baseline
                     THEN [ attempt EXCEPT !.pc = "posted", !.retried = TRUE ]
                     ELSE IdleAttempt
  /\ UNCHANGED <<server, wire, pending, confirmedInvalid, user, restarts, history>>

(* A plausible slip: an answer without a pair is taken for a refusal. *)
AnyAnswer(a) == a.answer # "none"

(* Only a new pair or a terminal 401 is acted upon. *)
Actionable(a) == a.answer \in {"ok", "invalid"}

(* The rest of requestRefresh and runExclusive: the answer is read, the     *)
(* store is read again, and only then is the mutation formed.               *)
Handle ==
  /\ attempt.pc = "answered"
  /\ \/ /\ attempt.superseded \/ ~Actionable(attempt)
        /\ End
        /\ UNCHANGED <<disk, faults>>
     \/ /\ ~attempt.superseded /\ Actionable(attempt)
        /\ \E r \in ReadPersisted(disk) :
             /\ Read(r)
             /\ IF r.result = "done" /\ r.record = attempt.baseline
                THEN /\ attempt' = [ attempt EXCEPT !.pc = "committing",
                           !.mutation = [ base |-> attempt.baseline, next |-> attempt.granted ] ]
                     /\ confirmedInvalid' = (confirmedInvalid \/ attempt.answer = "invalid")
                     /\ UNCHANGED pending
                ELSE End
  /\ UNCHANGED <<server, wire, user, restarts, history>>

(* commitMutation: the compare-and-swap in the store ... *)
Apply ==
  /\ attempt.pc = "committing"
  /\ \E o \in CompareAndSwap(disk, attempt.mutation.base.revision, attempt.mutation.next) :
       /\ Happens(o)
       /\ attempt' = [ attempt EXCEPT !.pc = "committed", !.answer = o.result ]
  /\ UNCHANGED <<server, wire, pending, confirmedInvalid, user, restarts, history>>

(* ... and what the coordinator makes of its result. *)
Finish ==
  LET clear == attempt.mutation.next = NoToken
  IN /\ attempt.pc = "committed"
     /\ attempt' = IdleAttempt
     /\ IF attempt.superseded THEN KeepPending
        ELSE IF attempt.answer = "threw"
        THEN pending' = attempt.mutation /\ UNCHANGED confirmedInvalid
        ELSE /\ pending' = NoMutation
             /\ confirmedInvalid' = (confirmedInvalid /\ clear /\ attempt.answer = "done")
     /\ UNCHANGED <<server, wire, disk, user, faults, restarts, history>>

(* A plausible slip: a store that cannot be read forgets the volatile R2. *)
ForgetfulRead(r) ==
  IF pending = NoMutation THEN KeepPending
  ELSE IF r.result = "threw" THEN DropPending
  ELSE KeepPending

(* readEffectiveSession, by any caller: it may settle the pending mutation. *)
EffectiveRead(r) ==
  IF pending = NoMutation \/ r.result = "threw" THEN KeepPending
  ELSE IF WasApplied(pending, r.record)
  THEN pending' = NoMutation /\ UNCHANGED confirmedInvalid
  ELSE IF pending.base # r.record THEN DropPending
  ELSE KeepPending

ReadEffective ==
  /\ \E r \in ReadPersisted(disk) : Read(r) /\ EffectiveRead(r)
  /\ UNCHANGED <<server, wire, attempt, user, restarts, history>>

(* notifyIfSessionRevoked: the verdict reaches the screen, and supersedes,  *)
(* once the store shows nobody and no clear is left to commit.              *)
Notify ==
  /\ confirmedInvalid
  /\ \E r \in ReadPersisted(disk) :
       /\ Read(r)
       /\ r.result = "done" /\ Empty(r.record)
       /\ pending # NoMutation => WasApplied(pending, r.record)
  /\ Supersede
  /\ UNCHANGED <<server, wire, user, restarts, history>>

-----------------------------------------------------------------------------
(* The server: a POST is decided, and its effect committed, in one step     *)
(* (AuthSessions has the steps).  It may answer 5xx before or after.        *)

Successor(n) == <<n[1], n[2] + 1>>

Row(n) == [ status |-> "active", current |-> Successor(n),
            rotation |-> n[2] + 1, expires |-> MaxTime + 1 ]

(* A plausible slip: the grant names the answer of the attempt before. *)
GrantOfLastAnswer(n) ==
  [ spent |-> n, replacement |-> attempt.granted, until |-> now + Grace ]

Grant(n) == [ spent |-> n, replacement |-> Successor(n), until |-> now + Grace ]

Served(n, answer, granted) ==
  LET f == n[1]
      d == Decide(session[f], replay[f], n, TRUE, now)
  IN \/ /\ answer = "transient" /\ granted = NoToken
        /\ UNCHANGED <<session, replay>>
     \/ /\ d = "Rotate" /\ Successor(n) \in Token
        /\ session' = [ session EXCEPT ![f] = Row(n) ]
        /\ replay' = [ replay EXCEPT ![f] = Grant(n) ]
        /\ <<answer, granted>> \in { <<"ok", Successor(n)>>, <<"transient", NoToken>> }
     \/ /\ d = "Replay"
        /\ answer = "ok" /\ granted = replay[f].replacement
        /\ UNCHANGED <<session, replay>>
     \/ /\ d = "ReuseOutsideGrace"
        /\ session' = [ session EXCEPT ![f].status = "revoked" ]
        /\ <<answer, granted>> \in { <<"invalid", NoToken>>, <<"transient", NoToken>> }
        /\ UNCHANGED replay
     \/ /\ d = "Invalid"
        /\ answer = "invalid" /\ granted = NoToken
        /\ UNCHANGED <<session, replay>>

Serve ==
  /\ attempt.pc = "posted"
  /\ \E answer \in {"ok", "invalid", "transient"}, granted \in Token \cup {NoToken} :
       /\ Served(attempt.token, answer, granted)
       /\ attempt' = [ attempt EXCEPT !.pc = "answered", !.answer = answer, !.granted = granted ]
  /\ UNCHANGED <<now, wire, disk, pending, confirmedInvalid, user, faults, restarts, history>>

(* A POST arrives after the client has given it up, or never. *)
ServeLate(n) ==
  /\ n \in wire
  /\ wire' = wire \ {n}
  /\ \E answer \in {"ok", "invalid", "transient"}, granted \in Token \cup {NoToken} :
       Served(n, answer, granted)
  /\ UNCHANGED <<now, disk, memory, user, faults, restarts, history>>

(* Another device revokes the family, or it expires. *)
RevokeElsewhere(f) ==
  /\ session[f].status = "active"
  /\ session' = [ session EXCEPT ![f].status = "revoked" ]
  /\ UNCHANGED <<now, replay, wire, disk, memory, user, faults, restarts, history>>

Tick ==
  /\ now < MaxTime
  /\ now' = now + 1
  /\ UNCHANGED <<session, replay, wire, disk, memory, user, faults, restarts, history>>

-----------------------------------------------------------------------------
(* The user: login and logout, and the one write to the session record that *)
(* is neither.                                                              *)

(* apiLogin answers; beginLogin and saveLoginResponse supersede. *)
Login(f) ==
  /\ user.pc = "idle" /\ CanAdvance
  /\ session[f].status = "unborn"
  /\ \A g \in Family : g < f => session[g].status # "unborn"
  /\ session' = [ session EXCEPT ![f] = Opened(f) ]
  /\ user' = [ pc |-> "saving", family |-> f ]
  /\ signOut' = "none"
  /\ Supersede
  /\ UNCHANGED <<now, replay, wire, disk, faults, restarts, latest>>

SaveLogin ==
  /\ user.pc = "saving" /\ attempt.pc # "committing"
  /\ \E o \in SaveSession(disk, <<user.family, 0>>) :
       /\ Happens(o)
       /\ user' = IF o.result = "done" THEN [ user EXCEPT !.pc = "saved" ] ELSE IdleUser
       /\ latest' = IF o.result = "done" THEN user.family ELSE latest
  /\ UNCHANGED <<server, wire, memory, restarts, signOut>>

(* onLogin supersedes once more. *)
Activate ==
  /\ user.pc = "saved"
  /\ user' = IdleUser
  /\ Supersede
  /\ UNCHANGED <<server, wire, disk, faults, restarts, history>>

(* logout of sessionStore.ts: the screen first, then the server, best       *)
(* effort, then the store.                                                  *)
Logout ==
  /\ user.pc = "idle" /\ CanAdvance
  /\ ~Empty(disk.canonical)
  /\ user' = [ IdleUser EXCEPT !.pc = "leaving" ]
  /\ signOut' = "asked"
  /\ Supersede
  /\ UNCHANGED <<server, wire, disk, faults, restarts, latest>>

LogoutServer ==
  /\ user.pc = "leaving"
  /\ user' = [ user EXCEPT !.pc = "clearing" ]
  /\ \/ UNCHANGED session
     \/ /\ ~Empty(disk.canonical)
        /\ session' = [ session EXCEPT ![disk.canonical.token[1]].status = "revoked" ]
  /\ UNCHANGED <<now, replay, wire, disk, memory, faults, restarts, history>>

ClearStore ==
  /\ user.pc = "clearing"
  /\ user' = IdleUser
  /\ \E o \in ClearSession(disk) :
       /\ Happens(o)
       /\ signOut' = IF o.result = "done" THEN "confirmed" ELSE signOut
  /\ UNCHANGED <<server, wire, memory, restarts, latest>>

(* setPendingProfileSetup, at the end of a first login or of the profile    *)
(* form; it does not supersede.                                             *)
Touch ==
  /\ user.pc \in {"idle", "saved"} /\ CanAdvance
  /\ ~Empty(disk.canonical)
  /\ \E o \in TouchSession(disk) : Happens(o)
  /\ UNCHANGED <<server, wire, memory, user, restarts, history>>

(* The process dies: what is not on the disk is gone, a POST travels on. *)
Restart ==
  /\ restarts > 0
  /\ restarts' = restarts - 1
  /\ wire' = IF attempt.pc = "posted" THEN wire \cup {attempt.token} ELSE wire
  /\ attempt' = IdleAttempt
  /\ pending' = NoMutation
  /\ confirmedInvalid' = FALSE
  /\ user' = IdleUser
  /\ UNCHANGED <<server, disk, faults, history>>

Refresh == Start \/ Check \/ FetchFails \/ Wake \/ Resend \/ Handle \/ Apply \/ Finish

Next ==
  \/ Refresh \/ ReadEffective \/ Notify
  \/ Serve \/ \E n \in wire : ServeLate(n)
  \/ \E f \in Family : RevokeElsewhere(f) \/ Login(f)
  \/ SaveLogin \/ Activate \/ Logout \/ LogoutServer \/ ClearStore \/ Touch
  \/ Restart \/ Tick

Spec == Init /\ [][Next]_vars

-----------------------------------------------------------------------------
(* Properties.                                                              *)

TypeOK ==
  /\ now \in Nat
  /\ session \in [Family -> SessionRow]
  /\ replay \in [Family -> ReplayRow \cup {NoRow}]
  /\ wire \in SUBSET Token
  /\ disk \in Disk
  /\ attempt \in Attempt
  /\ pending \in Mutation \cup {NoMutation}
  /\ confirmedInvalid \in BOOLEAN
  /\ user \in [ pc: {"idle", "saving", "saved", "leaving", "clearing"}, family: Nat ]
  /\ faults \in Nat
  /\ restarts \in Nat
  /\ latest \in Nat
  /\ signOut \in {"none", "asked", "confirmed"}

(* What the store shows when nothing fails, and what readEffectiveSession   *)
(* then answers and authFetch sends.                                        *)
Visible(d) == IF Adoptable(d) THEN d.shadow ELSE d.canonical

Effective(m, d) == IF m = NoMutation THEN Visible(d).token ELSE m.next

(* A later login, or a later token of the same family. *)
NotBefore(n, m) == n[1] > m[1] \/ (n[1] = m[1] /\ n[2] >= m[2])

Dead(f) == session[f].status # "active"

(* The coordinator takes a session away only when the server has ended it:  *)
(* no timeout, 5xx, broken body or storage failure signs a user out.        *)
SignOutIsJustified ==
  [][ LET n == Effective(pending, disk)
      IN ((Refresh \/ ReadEffective) /\ n # NoToken /\ Effective(pending', disk') = NoToken)
           => Dead(n[1]) \/ signOut # "none" ]_vars

(* Neither a late compare-and-swap nor an adopted shadow puts back the      *)
(* session of an earlier login once a newer one is saved.                   *)
NewestLoginWins ==
  ~Empty(Visible(disk)) => Visible(disk).token[1] >= latest

(* Once a logout has read its tombstone back, no session comes back into    *)
(* the store before the next login: not from a compare-and-swap that was on *)
(* its way, nor from a shadow left behind.                                  *)
SignOutSticks == signOut = "confirmed" => Empty(Visible(disk))

(* A profile write has given the spent token a new revision. *)
Overtaken ==
  pending # NoMutation /\ pending.base.revision < Visible(disk).revision

(* A rotated token that callers have seen stays the effective one, stored   *)
(* or volatile: no failed read, failed write, retry or late answer makes    *)
(* the coordinator fall back to the token it spent, unless a profile write  *)
(* has overtaken the pending commit.                                        *)
EffectiveNeverRegresses ==
  [][ LET n == Effective(pending, disk)
          m == Effective(pending', disk')
      IN (Refresh \/ ReadEffective) /\ n # NoToken /\ m # NoToken
           => NotBefore(m, n) \/ Overtaken ]_vars

(* The same without the exception, as the comments of readEffectiveSession  *)
(* and of writeActive have it.                                              *)
RotatedPairStaysEffective ==
  [][ LET n == Effective(pending, disk)
          m == Effective(pending', disk')
      IN (Refresh \/ ReadEffective) /\ n # NoToken /\ m # NoToken
           => NotBefore(m, n) ]_vars

(* The client is never more than one rotation behind the server: what it    *)
(* would present next is the family's current token or the one just spent,  *)
(* which the grace covers.                                                  *)
LagAtMostOne ==
  \A record \in { disk.canonical, Visible(disk) } :
    ~Empty(record) => record.token[2] + 1 >= session[record.token[1]].current[2]

(* While the app is in use, a volatile mutation is settled: every request   *)
(* starts a refresh as long as one is pending (ensureFreshAccessToken), and *)
(* the steps of an attempt and the queued store operations follow.          *)
Fairness ==
  /\ WF_vars(pending # NoMutation /\ Start)
  /\ WF_vars(Check) /\ WF_vars(Wake) /\ WF_vars(Resend) /\ WF_vars(Handle)
  /\ WF_vars(Apply) /\ WF_vars(Finish) /\ WF_vars(Serve \/ FetchFails)
  /\ WF_vars(SaveLogin) /\ WF_vars(ClearStore)

FairSpec == Spec /\ Fairness

VolatileSessionSettles == (pending # NoMutation) ~> (pending = NoMutation)

=============================================================================
