---------------------------- MODULE AuthSessions ----------------------------
(***************************************************************************)
(* The server side of Flora.Social session families: the rows of           *)
(* flora_core.user_sessions and flora_core.auth_refresh_replays, the       *)
(* in-flight refresh handlers of flora-auth in retry-safe mode, and        *)
(* everything that races with them - logout, revoke-others, password       *)
(* reset, account deletion, the drain switch and the replay cleanup job.   *)
(*                                                                         *)
(* A handler is a pipeline, because the code awaits between its steps:     *)
(*                                                                         *)
(*   idle -Present-> presented -Prefetch-> prefetched -Seal-> sealed       *)
(*        -Lock-> locked -Settle-> answered -Respond-> idle                *)
(*                                                                         *)
(* Only Lock..Settle runs under the row lock; what Prefetch read may be    *)
(* stale by then.  PostgreSQL evaluates clock_timestamp() of the locking   *)
(* SELECT before it waits for the lock, and again only when the row has    *)
(* changed meanwhile; both are covered by reading the clock at Lock, since *)
(* time may pass between Lock and Settle.                                  *)
(***************************************************************************)
EXTENDS RefreshMachine, Sequences, FiniteSets

CONSTANTS
  Session,       (* session ids, all of one account                        *)
  Request,       (* refresh handlers in flight                             *)
  NoSession, NoRequest,
  LegacySession, (* sessions that predate HMAC-bound tokens                *)
  RawToken,      (* their raw token: [LegacySession -> Token]              *)
  Grace,         (* REFRESH_GRACE_SECONDS                                  *)
  Lifetime,      (* Jwt refresh_token_days                                 *)
  DrainFlags,    (* values an operator may give the drain switch           *)
  ClockSkew,     (* how far the host's clock may run ahead of the database *)
  MaxTime        (* bound of the clock                                     *)

ASSUME SessionAssumption == NoSession \notin Session /\ NoRequest \notin Request
ASSUME LegacyAssumption ==
  /\ LegacySession \subseteq Session
  /\ RawToken \in [LegacySession -> Token]
  /\ \A s, t \in LegacySession : RawToken[s] = RawToken[t] => s = t
ASSUME DrainAssumption == DrainFlags \subseteq BOOLEAN
ASSUME TimeAssumption ==
  /\ Grace \in Nat \ {0}
  /\ Lifetime \in Nat \ {0}
  /\ ClockSkew \in Nat
  /\ MaxTime \in Nat

VARIABLES
  now,      (* clock_timestamp() of the database                            *)
  session,  (* user_sessions, by session id                                 *)
  replay,   (* auth_refresh_replays, by session id                          *)
  lock,     (* holder of the FOR UPDATE lock of a user_sessions row         *)
  draining, (* ReplayConfig.drain                                           *)
  request,  (* the local state of each refresh handler                      *)
  sweep,    (* session ids the running cleanup statement has selected       *)
  chain,    (* history: the tokens committed to a family, in order          *)
  since,    (* history: lock time of the last rotation of a family          *)
  forfeited (* history: families whose grant was deleted inside its grace   *)

vars == <<now, session, replay, lock, draining, request, sweep,
          chain, since, forfeited>>

rows  == <<session, replay, lock, chain, since, forfeited>>

-----------------------------------------------------------------------------

Bound(n) == \A s \in LegacySession : n # RawToken[s]

Committed(s) == { chain[s][i] : i \in DOMAIN chain[s] }

Issued == UNION { Committed(s) : s \in Session }

(* generate_refresh_token draws 64 random bytes: never a token seen before. *)
Unused == Token \ (Issued \cup { request[r].successor : r \in Request })

IdleRequest ==
  [ pc |-> "idle", sid |-> NoSession, token |-> NoToken, rotation |-> 0,
    successor |-> NoToken, started |-> 0, draining |-> FALSE, at |-> 0,
    answer |-> "none", granted |-> NoToken ]

(* The handler returns; what it did not commit is gone with it. *)
Answered(kind, n) ==
  [ IdleRequest EXCEPT !.pc = "answered", !.answer = kind, !.granted = n ]

Open(n, rotation, expires) ==
  [ status |-> "active", current |-> n, rotation |-> rotation,
    expires |-> expires ]

RequestState ==
  [ pc: {"idle", "presented", "prefetched", "sealed", "locked", "answered"},
    sid: Session \cup {NoSession},
    token: Token \cup {NoToken},
    rotation: Nat,
    successor: Token \cup {NoToken},
    started: Nat,
    draining: BOOLEAN,
    at: Nat,
    answer: {"none", "ok", "unauthorized", "retry"},
    granted: Token \cup {NoToken} ]

Unborn == [ status |-> "unborn", current |-> NoToken, rotation |-> 0,
            expires |-> 0 ]

Init ==
  /\ now = 0
  /\ session = [ s \in Session |->
                   IF s \in LegacySession
                   THEN Open(RawToken[s], 0, Lifetime)
                   ELSE Unborn ]
  /\ replay = [ s \in Session |-> NoRow ]
  /\ lock = [ s \in Session |-> NoRequest ]
  /\ draining = FALSE
  /\ request = [ r \in Request |-> IdleRequest ]
  /\ sweep = {}
  /\ chain = [ s \in Session |->
                 IF s \in LegacySession THEN <<RawToken[s]>> ELSE <<>> ]
  /\ since = [ s \in Session |-> 0 ]
  /\ forfeited = {}

-----------------------------------------------------------------------------
(* The refresh handler: RefreshService::refresh_replay_safe.                *)

(* A client presents a token of family s; the handler takes the time. *)
Present(r, s, n) ==
  /\ request[r].pc = "idle"
  /\ n \in Committed(s)
  /\ request' = [ request EXCEPT ![r] =
                    [ IdleRequest EXCEPT !.pc = "presented", !.sid = s,
                                         !.token = n, !.started = now ] ]
  /\ UNCHANGED <<now, rows, draining, sweep>>

(* A bound token names its session; a raw one is looked up by hash among    *)
(* the usable sessions (find_session_id_by_refresh).  Then the rotation_id  *)
(* is read, without a lock and whatever the status of the session           *)
(* (find_refresh_session_by_id).                                            *)
Resolves(q) ==
  \/ Bound(q.token)
  \/ q.token = session[q.sid].current /\ Usable(session[q.sid], q.started)

Prefetch(r) ==
  /\ request[r].pc = "presented"
  /\ LET q == request[r]
     IN request' = [ request EXCEPT ![r] =
          IF Resolves(q) /\ session[q.sid].status # "deleted"
          THEN [ q EXCEPT !.pc = "prefetched",
                          !.rotation = session[q.sid].rotation ]
          ELSE Answered("unauthorized", NoToken) ]
  /\ UNCHANGED <<now, rows, draining, sweep>>

(* Identity and profile are read, the prospective successor is generated    *)
(* and sealed, and the drain flag is sampled, all before the transaction.   *)
Seal(r) ==
  /\ request[r].pc = "prefetched"
  /\ \E n \in Unused :
       request' = [ request EXCEPT ![r].pc = "sealed",
                                   ![r].successor = n,
                                   ![r].draining = draining ]
  /\ UNCHANGED <<now, rows, draining, sweep>>

(* SELECT ... FOR UPDATE of the session row. *)
Lock(r) ==
  LET s == request[r].sid
  IN /\ request[r].pc = "sealed"
     /\ lock[s] = NoRequest
     /\ IF session[s].status = "deleted"
        THEN /\ request' = [ request EXCEPT ![r] =
                               Answered("unauthorized", NoToken) ]
             /\ lock' = lock
        ELSE /\ request' = [ request EXCEPT ![r].pc = "locked", ![r].at = now ]
             /\ lock' = [ lock EXCEPT ![s] = r ]
     /\ UNCHANGED <<now, session, replay, draining, sweep, chain, since, forfeited>>

(* The rest of rotate_or_replay: the replay row is read, decide is applied, *)
(* and the transaction commits or rolls back; the lock goes with it.        *)
ReleaseUnlessRetry(r, answer) ==
  /\ lock' = [ lock EXCEPT ![request[r].sid] =
                 IF answer.answer = "retry" THEN r ELSE NoRequest ]
  /\ request' = [ request EXCEPT ![r] = answer ]

Release(r, answer) ==
  /\ lock' = [ lock EXCEPT ![request[r].sid] = NoRequest ]
  /\ request' = [ request EXCEPT ![r] = answer ]

(* What is committed stays committed when the handler fails afterwards: the *)
(* commit may report an error for a transaction it has made durable, and    *)
(* the key ring may fail to open a stored grant.  Both answer 5xx.          *)
Commit(r, answer) == Release(r, answer) \/ Release(r, Answered("retry", NoToken))

DecisionOf(q) ==
  Decide(session[q.sid], replay[q.sid], q.token, Bound(q.token), q.at)

(* UPDATE user_sessions: everything about the session but its id moves on.  *)
RotatedKeepingToken(q) == Open(q.token, q.rotation + 1, q.started + Lifetime)

Rotated(q) == Open(q.successor, q.rotation + 1, q.started + Lifetime)

(* A plausible slip: the grant is stored before its replacement is known. *)
GrantBeforeSeal(q) ==
  [ spent |-> q.token, replacement |-> q.granted, until |-> q.at + Grace ]

(* INSERT ... ON CONFLICT (session_id) DO UPDATE: the one grant of a session *)
(* is always the one of its last rotation.                                   *)
GrantOf(q) ==
  [ spent |-> q.token, replacement |-> q.successor, until |-> q.at + Grace ]

InsertedOnce(stored, q) == IF stored = NoRow THEN GrantOf(q) ELSE stored

Upserted(stored, q) == GrantOf(q)

(* The update is conditional on the prefetched rotation_id: when it misses, *)
(* the transaction rolls back and the handler answers 5xx.                  *)
RotateOrMiss(r) ==
  LET q == request[r]
      s == q.sid
  IN IF session[s].rotation = q.rotation /\ session[s].status = "active"
     THEN /\ session' = [ session EXCEPT ![s] = Rotated(q) ]
          /\ replay' = [ replay EXCEPT ![s] = Upserted(@, q) ]
          /\ chain' = [ chain EXCEPT ![s] = Append(@, q.successor) ]
          /\ since' = [ since EXCEPT ![s] = q.at ]
          /\ forfeited' = forfeited \ {s}
          /\ Commit(r, Answered("ok", q.successor))
     ELSE /\ Release(r, Answered("retry", NoToken))
          /\ UNCHANGED <<session, replay, chain, since, forfeited>>

(* Nothing is written; the stored grant is opened after the transaction.    *)
ReplayStored(r) ==
  /\ Commit(r, Answered("ok", replay[request[r].sid].replacement))
  /\ UNCHANGED <<session, replay, chain, since, forfeited>>

RevokeOnReuse(r) ==
  /\ session' = [ session EXCEPT ![request[r].sid].status = "revoked" ]
  /\ Commit(r, Answered("unauthorized", NoToken))
  /\ UNCHANGED <<replay, chain, since, forfeited>>

Reject(r, kind) ==
  /\ Release(r, Answered(kind, NoToken))
  /\ UNCHANGED <<session, replay, chain, since, forfeited>>

Settle(r) ==
  /\ request[r].pc = "locked"
  /\ LET d == DecisionOf(request[r])
     IN IF DrainBlocks(d, request[r].draining)
        THEN Reject(r, "retry")
        ELSE \/ d = "Rotate"            /\ RotateOrMiss(r)
             \/ d = "Replay"            /\ ReplayStored(r)
             \/ d = "ReuseOutsideGrace" /\ RevokeOnReuse(r)
             \/ d = "Invalid"           /\ Reject(r, "unauthorized")
  /\ UNCHANGED <<now, draining, sweep>>

(* An error or a crash between the steps: the transaction rolls back and    *)
(* the handler answers 5xx, if it still answers at all.                     *)
Fail(r) ==
  LET q == request[r]
  IN /\ q.pc \in {"presented", "prefetched", "sealed", "locked"}
     /\ request' = [ request EXCEPT ![r] = Answered("retry", NoToken) ]
     /\ lock' = IF q.pc = "locked" THEN [ lock EXCEPT ![q.sid] = NoRequest ]
                                   ELSE lock
     /\ UNCHANGED <<now, session, replay, draining, sweep, chain, since, forfeited>>

(* The response leaves the server; the network may still lose it. *)
Respond(r) ==
  /\ request[r].pc = "answered"
  /\ request' = [ request EXCEPT ![r] = IdleRequest ]
  /\ UNCHANGED <<now, rows, draining, sweep>>

-----------------------------------------------------------------------------
(* What races with a refresh.                                               *)

(* insert_session, at the end of login or of registration. *)
Login(s) ==
  /\ session[s].status = "unborn"
  /\ \E n \in Unused :
       /\ session' = [ session EXCEPT ![s] = Open(n, 0, now + Lifetime) ]
       /\ chain' = [ chain EXCEPT ![s] = <<n>> ]
  /\ UNCHANGED <<now, replay, lock, draining, request, sweep, since, forfeited>>

(* An update of these rows waits for the refresh that has locked one. *)
Unlocked(S) == \A s \in S : lock[s] = NoRequest

Revoke(S) ==
  /\ Unlocked(S)
  /\ session' = [ s \in Session |->
                    IF s \in S THEN [ session[s] EXCEPT !.status = "revoked" ]
                               ELSE session[s] ]
  /\ UNCHANGED <<now, replay, lock, draining, request, sweep, chain, since, forfeited>>

(* revoke_by_session_id_logout: by id, whatever the status. *)
Logout(s) ==
  /\ session[s].status \in {"active", "revoked"}
  /\ Revoke({s})

(* revoke_other_sessions_except_id; with no session kept,                   *)
(* revoke_all_sessions_for_password of a completed password reset.          *)
RevokeOthers(kept) ==
  LET others == { s \in Session \ kept : Usable(session[s], now) }
  IN others # {} /\ Revoke(others)

(* delete_user_account takes every session row with it; replay rows have no *)
(* foreign key and stay.                                                    *)
DeleteAccount ==
  /\ \E s \in Session : session[s].status # "deleted"
  /\ Unlocked(Session)
  /\ session' = [ s \in Session |-> [ session[s] EXCEPT !.status = "deleted" ] ]
  /\ UNCHANGED <<now, replay, lock, draining, request, sweep, chain, since, forfeited>>

(* ReplayConfig::set_drain. *)
SetDrain(flag) ==
  /\ draining # flag
  /\ draining' = flag
  /\ UNCHANGED <<now, rows, request, sweep>>

(* cleanup_expired_replays is one DELETE ... WHERE session_id IN (SELECT    *)
(* ... WHERE valid_until <= $1), run with the host's clock.  The subquery   *)
(* picks ids from the statement's snapshot; a row that is rewritten before  *)
(* the DELETE reaches it is rechecked under READ COMMITTED against the id   *)
(* alone, and goes.                                                         *)
SweepSelect ==
  /\ sweep = {}
  /\ \E ahead \in 0 .. ClockSkew :
       sweep' = { s \in Session : /\ replay[s] # NoRow
                                  /\ replay[s].until <= now + ahead }
  /\ sweep' # {}
  /\ UNCHANGED <<now, rows, draining, request>>

SweepDelete ==
  /\ sweep # {}
  /\ replay' = [ s \in Session |-> IF s \in sweep THEN NoRow ELSE replay[s] ]
  /\ forfeited' = forfeited \cup { s \in sweep : Fresh(replay[s], now) }
  /\ sweep' = {}
  /\ UNCHANGED <<now, session, lock, draining, request, chain, since>>

Tick ==
  /\ now < MaxTime
  /\ now' = now + 1
  /\ UNCHANGED <<rows, draining, request, sweep>>

Handle(r) ==
  \/ \E s \in Session : \E n \in Committed(s) : Present(r, s, n)
  \/ Prefetch(r) \/ Seal(r) \/ Lock(r) \/ Settle(r) \/ Fail(r) \/ Respond(r)

Next ==
  \/ \E r \in Request : Handle(r)
  \/ \E s \in Session : Login(s) \/ Logout(s) \/ RevokeOthers({s})
  \/ RevokeOthers({}) \/ DeleteAccount
  \/ \E flag \in DrainFlags : SetDrain(flag)
  \/ SweepSelect \/ SweepDelete \/ Tick

Spec == Init /\ [][Next]_vars

-----------------------------------------------------------------------------
(* Properties.                                                              *)

TypeOK ==
  /\ now \in Nat
  /\ session \in [Session -> SessionRow]
  /\ replay \in [Session -> ReplayRow \cup {NoRow}]
  /\ lock \in [Session -> Request \cup {NoRequest}]
  /\ draining \in BOOLEAN
  /\ request \in [Request -> RequestState]
  /\ sweep \in SUBSET Session
  /\ chain \in [Session -> Seq(Token)]
  /\ since \in [Session -> Nat]
  /\ forfeited \in SUBSET Session

(* The token the last rotation of a family spent. *)
Spent(tokens, n) == Len(tokens) > 1 /\ n = tokens[Len(tokens) - 1]

InGrace(s) == now < since[s] + Grace

(* The update of a rotation never misses: under the row lock, a request     *)
(* that presents the current token prefetched the current rotation_id, so   *)
(* the "concurrency anomaly" branch of rotate_or_replay is dead code.       *)
PrefetchStillValid ==
  \A r \in Request :
    LET q == request[r]
    IN (q.pc = "locked" /\ q.token = session[q.sid].current)
         => q.rotation = session[q.sid].rotation

(* A stored grant is always about the last rotation: it hands out the token *)
(* the session row holds, for the token that rotation spent, and a family   *)
(* inside its grace has one unless the cleanup job destroyed it.            *)
GrantMatchesRow ==
  \A s \in Session :
    /\ replay[s] # NoRow =>
         /\ replay[s].replacement = session[s].current
         /\ Spent(chain[s], replay[s].spent)
         /\ replay[s].until = since[s] + Grace
    /\ (Len(chain[s]) > 1 /\ InGrace(s) /\ s \notin forfeited) => replay[s] # NoRow

JustAnswered(r, kind) ==
  /\ request[r].pc # "answered"
  /\ request'[r].pc = "answered"
  /\ request'[r].answer = kind

(* A refresh succeeds only for a live family, and what it hands out is the  *)
(* family's current token: the one presented, or its direct successor.  All *)
(* who present either end of a rotation inside its grace get the same R2.   *)
AnswersAreCurrent ==
  [][ \A r \in Request : JustAnswered(r, "ok") =>
        LET s == request[r].sid
            n == request[r].token
        IN /\ session'[s].status = "active"
           /\ request'[r].granted = session'[s].current
           /\ n = session'[s].current \/ Spent(chain'[s], n) ]_vars

(* The grace contract: while a family is usable, neither its current token  *)
(* nor, within the grace of the last rotation, the token it spent is ever   *)
(* answered 401 - so a lost response retried in time costs nobody their     *)
(* session.  Raw tokens are not covered, nor is a family whose grant the    *)
(* cleanup job destroyed early.                                             *)
Owed(s, n) ==
  /\ Usable(session[s], now)
  /\ n = session[s].current \/ (Spent(chain[s], n) /\ InGrace(s))

GraceHonoured ==
  [][ \A r \in Request : JustAnswered(r, "unauthorized") =>
        LET s == request[r].sid
            n == request[r].token
        IN Owed(s, n) => (~Bound(n) \/ s \in forfeited) ]_vars

(* The same contract without each exception, as the documentation has it.   *)
GraceHonouredForRawTokens ==
  [][ \A r \in Request : JustAnswered(r, "unauthorized") =>
        LET s == request[r].sid
        IN Owed(s, request[r].token) => s \in forfeited ]_vars

GraceSurvivesCleanup ==
  [][ \A r \in Request : JustAnswered(r, "unauthorized") =>
        LET s == request[r].sid
            n == request[r].token
        IN Owed(s, n) => ~Bound(n) ]_vars

(* The server implements TokenFamily: one successor per token, no rotation  *)
(* inside a grace, no step back from a revocation, whatever the handlers,   *)
(* the cleanup job and the other endpoints interleave to.                   *)
Statuses == [ s \in Session |-> session[s].status ]

Abstract == INSTANCE TokenFamily
              WITH Family <- Session, LegacyFamily <- LegacySession,
                   clock <- now, status <- Statuses

ImplementsTokenFamily == Abstract!Spec

(* A row lock is never leaked: every handler that starts is answered.  The  *)
(* steps of a handler are weakly fair, its wait for the row lock strongly   *)
(* (PostgreSQL queues the waiters of a row).                                *)
HandlerFairness ==
  \A r \in Request :
    /\ WF_vars(Prefetch(r)) /\ WF_vars(Seal(r)) /\ WF_vars(Settle(r))
    /\ WF_vars(Respond(r))
    /\ SF_vars(Lock(r))

FairSpec == Spec /\ HandlerFairness

EveryRequestAnswered ==
  \A r \in Request : (request[r].pc = "presented") ~> (request[r].pc = "answered")

=============================================================================
