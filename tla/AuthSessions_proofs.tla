------------------------ MODULE AuthSessions_proofs ------------------------
(***************************************************************************)
(* Proofs about AuthSessions, for every set of sessions, handlers and      *)
(* tokens and every grace, lifetime, drain schedule and clock skew: the    *)
(* x *)
(* a client may rely on.                                                   *)
(***************************************************************************)
EXTENDS AuthSessions, TLAPS

(* The session row, the chain and the clock agree. *)
ChainInv(s) ==
  /\ session[s].status = "unborn" => chain[s] = <<>>
  /\ chain[s] = <<>> => /\ replay[s] = NoRow
                        /\ session[s].status \in {"unborn", "deleted"}
                        /\ session[s].current = NoToken
  /\ chain[s] # <<>> => /\ session[s].current = chain[s][Len(chain[s])]
                        /\ session[s].rotation = Len(chain[s]) - 1
  /\ since[s] <= now

(* No token is committed twice. *)
TokensDistinct ==
  \A s, t \in Session : \A i \in 1 .. Len(chain[s]), j \in 1 .. Len(chain[t]) :
    chain[s][i] = chain[t][j] => s = t /\ i = j

(* The row lock of a session is held exactly by a handler that is between   *)
(* Lock and Settle of that session.                                         *)
LockInv ==
  /\ \A s \in Session : lock[s] # NoRequest =>
       request[lock[s]].pc = "locked" /\ request[lock[s]].sid = s
  /\ \A r \in Request : request[r].pc = "locked" => lock[request[r].sid] = r

(* What a handler remembers: the rotation_id it prefetched is at least the  *)
(* one under which its token was committed, and not ahead of the row.       *)
InFlight == {"presented", "prefetched", "sealed", "locked"}

HandlerInv(r) ==
  LET q == request[r]
  IN /\ q.pc \in InFlight =>
          /\ q.sid \in Session
          /\ \E i \in 1 .. Len(chain[q.sid]) :
               /\ q.token = chain[q.sid][i]
               /\ q.pc # "presented" => i - 1 <= q.rotation
          /\ q.pc # "presented" => q.rotation <= session[q.sid].rotation
     /\ q.pc = "locked" => since[q.sid] <= q.at /\ q.at <= now

(* A sealed successor is a token nobody else has. *)
SuccessorInv ==
  /\ \A r \in Request : request[r].pc \in {"sealed", "locked"} <=>
                          request[r].successor # NoToken
  /\ \A r \in Request : request[r].pc \in {"sealed", "locked"} =>
       \A s \in Session : \A i \in 1 .. Len(chain[s]) :
         chain[s][i] # request[r].successor
  /\ \A r, u \in Request :
       request[r].successor = request[u].successor =>
         r = u \/ request[r].successor = NoToken

IInv ==
  /\ TypeOK
  /\ \A s \in Session : ChainInv(s)
  /\ TokensDistinct
  /\ GrantMatchesRow
  /\ LockInv
  /\ \A r \in Request : HandlerInv(r)
  /\ SuccessorInv

-----------------------------------------------------------------------------

(* Initially every chain is empty, or one raw token. *)
LEMMA InitEstablishes == Init => IInv
<1> SUFFICES ASSUME Init PROVE IInv
  OBVIOUS
<1>1. TypeOK
  <2>1. session \in [Session -> SessionRow]
    <3>1. \A s \in Session : Open(RawToken[s], 0, Lifetime) \in SessionRow
                             \/ s \notin LegacySession
      BY LegacyAssumption, TimeAssumption
         DEF LegacyAssumption, TimeAssumption, Open, SessionRow
    <3>2. Unborn \in SessionRow
      BY DEF Unborn, SessionRow
    <3> QED
      BY <3>1, <3>2 DEF Init
  <2>2. request \in [Request -> RequestState]
    BY DEF Init, IdleRequest, RequestState
  <2>3. chain \in [Session -> Seq(Token)]
    BY LegacyAssumption DEF LegacyAssumption, Init
  <2> QED
    BY <2>1, <2>2, <2>3 DEF Init, TypeOK
<1>2. \A s \in Session : ChainInv(s)
  BY DEF Init, ChainInv, Open, Unborn
<1>3. TokensDistinct
  BY LegacyAssumption DEF LegacyAssumption, Init, TokensDistinct
<1>4. GrantMatchesRow
  BY DEF Init, GrantMatchesRow
<1>5. LockInv /\ (\A r \in Request : HandlerInv(r)) /\ SuccessorInv
  BY DEF Init, LockInv, HandlerInv, SuccessorInv, InFlight, IdleRequest
<1> QED
  BY <1>1, <1>2, <1>3, <1>4, <1>5 DEF IInv

(* What TypeOK says of single values. *)
LEMMA ElementTypes ==
  ASSUME TypeOK
  PROVE  /\ now \in Nat
         /\ \A s \in Session :
              /\ session[s] \in SessionRow
              /\ session[s].status \in {"unborn", "active", "revoked", "deleted"}
              /\ session[s].current \in Token \cup {NoToken}
              /\ session[s].rotation \in Nat
              /\ session[s].expires \in Nat
              /\ chain[s] \in Seq(Token)
              /\ Len(chain[s]) \in Nat
              /\ \A i \in 1 .. Len(chain[s]) : chain[s][i] \in Token
              /\ chain[s] # <<>> => Len(chain[s]) \in 1 .. Len(chain[s])
              /\ DOMAIN chain[s] = 1 .. Len(chain[s])
              /\ since[s] \in Nat
              /\ replay[s] # NoRow => replay[s] \in ReplayRow
              /\ lock[s] # NoRequest => lock[s] \in Request
         /\ \A r \in Request :
              /\ request[r] \in RequestState
              /\ request[r].rotation \in Nat
              /\ request[r].at \in Nat
              /\ request[r].started \in Nat
              /\ request[r].successor \in Token \cup {NoToken}
<1>1. ASSUME NEW s \in Session
      PROVE  /\ session[s] \in SessionRow
             /\ session[s].status \in {"unborn", "active", "revoked", "deleted"}
             /\ session[s].current \in Token \cup {NoToken}
             /\ session[s].rotation \in Nat
             /\ session[s].expires \in Nat
  <2>1. session[s] \in SessionRow
    BY DEF TypeOK
  <2> QED
    BY <2>1 DEF SessionRow
<1>2. ASSUME NEW s \in Session
      PROVE  /\ chain[s] \in Seq(Token)
             /\ Len(chain[s]) \in Nat
             /\ \A i \in 1 .. Len(chain[s]) : chain[s][i] \in Token
             /\ chain[s] # <<>> => Len(chain[s]) \in 1 .. Len(chain[s])
             /\ DOMAIN chain[s] = 1 .. Len(chain[s])
  <2>1. chain[s] \in Seq(Token)
    BY DEF TypeOK
  <2> QED
    BY <2>1
<1>3. ASSUME NEW s \in Session
      PROVE  /\ since[s] \in Nat
             /\ replay[s] # NoRow => replay[s] \in ReplayRow
             /\ lock[s] # NoRequest => lock[s] \in Request
  BY DEF TypeOK
<1>4. ASSUME NEW r \in Request
      PROVE  /\ request[r] \in RequestState
             /\ request[r].rotation \in Nat
             /\ request[r].at \in Nat
             /\ request[r].started \in Nat
             /\ request[r].successor \in Token \cup {NoToken}
  <2>1. request[r] \in RequestState
    BY DEF TypeOK
  <2> QED
    BY <2>1 DEF RequestState
<1> QED
  BY <1>1, <1>2, <1>3, <1>4 DEF TypeOK

(* Steps that commit nothing: the chains, the grants and the clock stay, no *)
(* row changes but by being revoked or deleted, and at most the handlers in *)
(* R move.                                                                  *)
SameRow(s) ==
  /\ session'[s].current = session[s].current
  /\ session'[s].rotation = session[s].rotation
  /\ \/ session'[s].status = session[s].status
     \/ session'[s].status = "deleted"
     \/ session'[s].status = "revoked" /\ chain[s] # <<>>

QuietStep(R) ==
  /\ UNCHANGED <<now, replay, chain, since, forfeited>>
  /\ \A s \in Session : SameRow(s)
  /\ \A u \in Request : u \in R \/ request'[u] = request[u]
  /\ \A u, v \in R : u = v
  /\ \A u \in R :
       /\ HandlerInv(u)'
       /\ request'[u].pc \in {"sealed", "locked"} <=> request'[u].successor # NoToken
       /\ request'[u].successor \in {NoToken, request[u].successor} \cup Unused
  /\ LockInv'

LEMMA QuietPreserves ==
  ASSUME IInv, TypeOK', NEW R \in SUBSET Request, QuietStep(R)
  PROVE  IInv'
<1>1. \A s \in Session : ChainInv(s)'
  BY DEF IInv, ChainInv, QuietStep, SameRow
<1>2. TokensDistinct'
  BY DEF IInv, TokensDistinct, QuietStep
<1>3. GrantMatchesRow'
  BY DEF IInv, GrantMatchesRow, Spent, InGrace, QuietStep, SameRow
<1>4. \A u \in Request : HandlerInv(u)'
  <2> SUFFICES ASSUME NEW u \in Request, request'[u] = request[u]
               PROVE  HandlerInv(u)'
    BY DEF QuietStep
  <2>1. HandlerInv(u)
    BY DEF IInv
  <2> QED
    BY <2>1 DEF HandlerInv, QuietStep, SameRow
<1>5. SuccessorInv'
  <2> USE DEF QuietStep
  <2>1. \A u \in Request : request'[u].pc \in {"sealed", "locked"}
                             <=> request'[u].successor # NoToken
    BY DEF IInv, SuccessorInv
  <2>2. \A u \in Request :
          request'[u].successor \in {NoToken, request[u].successor} \cup Unused
    OBVIOUS
  <2>3. ASSUME NEW n \in Unused
        PROVE  /\ \A s \in Session : \A i \in 1 .. Len(chain[s]) : chain[s][i] # n
               /\ \A v \in Request : request[v].successor # n
    BY ElementTypes DEF Unused, Issued, Committed, IInv
  <2>4. ASSUME NEW u \in Request, request'[u].pc \in {"sealed", "locked"},
               NEW s \in Session, NEW i \in 1 .. Len(chain[s])
        PROVE  chain[s][i] # request'[u].successor
    <3>1. request'[u].successor # NoToken
      BY <2>1, <2>4
    <3>2. CASE request'[u].successor \in Unused
      BY <3>2, <2>3
    <3>3. CASE request'[u].successor = request[u].successor
      BY <3>1, <3>3 DEF IInv, SuccessorInv
    <3> QED
      BY <3>1, <3>2, <3>3, <2>2
  <2>5. ASSUME NEW u \in Request, NEW v \in Request, u # v,
               request'[u].successor = request'[v].successor
        PROVE  request'[u].successor = NoToken
    <3>1. CASE u \notin R /\ v \notin R
      BY <3>1, <2>5 DEF IInv, SuccessorInv
    <3>2. CASE u \in R /\ v \notin R
      BY <3>2, <2>5, <2>2, <2>3 DEF IInv, SuccessorInv
    <3>3. CASE u \notin R /\ v \in R
      BY <3>3, <2>5, <2>2, <2>3 DEF IInv, SuccessorInv
    <3> QED
      BY <3>1, <3>2, <3>3, <2>5
  <2> QED
    BY <2>1, <2>4, <2>5 DEF SuccessorInv
<1> QED
  BY <1>1, <1>2, <1>3, <1>4, <1>5 DEF IInv, QuietStep

LEMMA TickPreserves == IInv /\ Tick => IInv'
<1> SUFFICES ASSUME IInv, Tick PROVE IInv'
  OBVIOUS
<1> USE DEF IInv, Tick, rows
<1>1. TypeOK'
  BY DEF TypeOK
<1>2. \A s \in Session : ChainInv(s)'
  BY DEF ChainInv, TypeOK
<1>3. TokensDistinct'
  BY DEF TokensDistinct
<1>4. GrantMatchesRow'
  <2>1. \A s \in Session : InGrace(s)' => InGrace(s)
    BY ElementTypes, TimeAssumption DEF InGrace, TimeAssumption
  <2> QED
    BY <2>1 DEF GrantMatchesRow, Spent
<1>5. LockInv' /\ SuccessorInv'
  BY DEF LockInv, SuccessorInv
<1>6. \A r \in Request : HandlerInv(r)'
  <2> SUFFICES ASSUME NEW r \in Request PROVE HandlerInv(r)'
    OBVIOUS
  <2>1. HandlerInv(r) /\ request[r].at \in Int /\ now \in Int
    BY ElementTypes
  <2> QED
    BY <2>1 DEF HandlerInv
<1> QED
  BY <1>1, <1>2, <1>3, <1>4, <1>5, <1>6

-----------------------------------------------------------------------------
(* One lemma per action.                                                    *)

(* Handlers are only ever put into states of the right shape. *)
LEMMA AnsweredType ==
  \A kind \in {"ok", "unauthorized", "retry"}, n \in Token \cup {NoToken} :
    /\ Answered(kind, n) \in RequestState
    /\ Answered(kind, n).pc = "answered"
    /\ Answered(kind, n).successor = NoToken
BY DEF Answered, IdleRequest, RequestState

(* A handler step outside the row lock. *)
LEMMA MovePreserves ==
  ASSUME IInv, NEW r \in Request,
         UNCHANGED <<now, rows, draining, sweep>>,
         request' = [ request EXCEPT ![r] = request'[r] ],
         request[r].pc # "locked",
         request'[r].pc # "locked",
         request'[r] \in RequestState,
         HandlerInv(r)',
         request'[r].pc = "sealed" <=> request'[r].successor # NoToken,
         request'[r].successor \in {NoToken, request[r].successor} \cup Unused
  PROVE  IInv'
<1> USE DEF rows
<1>1. TypeOK'
  BY DEF IInv, TypeOK
<1>2. \A u \in Request : u = r \/ request'[u] = request[u]
  BY DEF IInv, TypeOK
<1>3. LockInv'
  <2>1. \A s \in Session : lock[s] # NoRequest =>
          lock[s] \in Request /\ lock[s] # r
    BY ElementTypes DEF IInv, LockInv
  <2> QED
    BY <1>2, <2>1 DEF IInv, LockInv
<1>4. \A s \in Session : SameRow(s)
  BY DEF SameRow
<1>5. QuietStep({r})
  BY <1>2, <1>3, <1>4 DEF QuietStep
<1> QED
  BY <1>1, <1>5, QuietPreserves

LEMMA PresentPreserves ==
  ASSUME IInv, NEW r \in Request, NEW s \in Session, NEW n \in Committed(s),
         Present(r, s, n)
  PROVE  IInv'
<1>1. PICK i \in 1 .. Len(chain[s]) : n = chain[s][i]
  BY ElementTypes DEF IInv, Committed
<1>2. n \in Token /\ now \in Nat
  BY <1>1, ElementTypes DEF IInv
<1>3. request'[r] = [ IdleRequest EXCEPT !.pc = "presented", !.sid = s,
                                         !.token = n, !.started = now ]
  BY DEF Present, IInv, TypeOK
<1>4. /\ request'[r] \in RequestState
      /\ request'[r].pc = "presented" /\ request'[r].sid = s
      /\ request'[r].token = n /\ request'[r].successor = NoToken
  <2>1. request'[r] = [ pc |-> "presented", sid |-> s, token |-> n,
                        rotation |-> 0, successor |-> NoToken, started |-> now,
                        draining |-> FALSE, at |-> 0, answer |-> "none",
                        granted |-> NoToken ]
    BY <1>3 DEF IdleRequest
  <2> QED
    BY <1>2, <2>1 DEF RequestState
<1>5. HandlerInv(r)'
  BY <1>1, <1>4 DEF HandlerInv, InFlight, Present, rows
<1> QED
  BY <1>3, <1>4, <1>5, MovePreserves DEF Present

LEMMA PrefetchPreserves ==
  ASSUME IInv, NEW r \in Request, Prefetch(r)
  PROVE  IInv'
<1>1. HandlerInv(r) /\ request[r].pc = "presented" /\ request[r].successor = NoToken
  BY DEF Prefetch, IInv, SuccessorInv
<1>2. request[r].sid \in Session
  BY <1>1 DEF HandlerInv, InFlight
<1>3. request' = [ request EXCEPT ![r] = request'[r] ]
  BY DEF Prefetch, IInv, TypeOK
<1>4. CASE request'[r] = Answered("unauthorized", NoToken)
  <2>1. /\ request'[r] \in RequestState
        /\ request'[r].pc = "answered"
        /\ request'[r].successor = NoToken
    BY <1>4, AnsweredType
  <2>2. HandlerInv(r)'
    BY <2>1 DEF HandlerInv, InFlight
  <2> QED
    BY <1>1, <1>3, <2>1, <2>2, MovePreserves DEF Prefetch
<1>5. CASE request'[r] = [ request[r] EXCEPT !.pc = "prefetched",
                             !.rotation = session[request[r].sid].rotation ]
  <2> DEFINE s == request[r].sid
  <2>1. request[r] \in RequestState /\ session[s].rotation \in Nat
    BY <1>2, ElementTypes DEF IInv
  <2>2. /\ request'[r].pc = "prefetched"
        /\ request'[r].sid = s
        /\ request'[r].token = request[r].token
        /\ request'[r].successor = NoToken
        /\ request'[r].rotation = session[s].rotation
    BY <1>1, <1>5, <2>1 DEF RequestState
  <2>7. request'[r] \in RequestState
    BY <1>5, <2>1 DEF RequestState
  <2>3. PICK i \in 1 .. Len(chain[s]) : request[r].token = chain[s][i]
    BY <1>1 DEF HandlerInv, InFlight
  <2>4. session[s].rotation = Len(chain[s]) - 1 /\ Len(chain[s]) \in Nat
    <3>1. chain[s] # <<>>
      BY <1>2, <2>3, ElementTypes DEF IInv
    <3> QED
      BY <1>2, <3>1, ElementTypes DEF IInv, ChainInv
  <2>5. i - 1 <= session[s].rotation /\ session[s].rotation <= session[s].rotation
    BY <2>1, <2>3, <2>4
  <2>6. HandlerInv(r)'
    BY <1>2, <2>2, <2>3, <2>5 DEF Prefetch, HandlerInv, rows
  <2> QED
    BY <1>1, <1>3, <2>2, <2>6, <2>7, MovePreserves DEF Prefetch
<1> QED
  BY <1>4, <1>5 DEF Prefetch, IInv, TypeOK

LEMMA SealPreserves ==
  ASSUME IInv, NEW r \in Request, Seal(r)
  PROVE  IInv'
<1>1. PICK n \in Unused : request' = [ request EXCEPT ![r].pc = "sealed",
                                                      ![r].successor = n,
                                                      ![r].draining = draining ]
  BY DEF Seal
<1>2. n \in Token /\ n # NoToken
  BY NoTokenAssumption DEF NoTokenAssumption, Unused
<1>3. request[r] \in RequestState /\ draining \in BOOLEAN
  BY ElementTypes DEF IInv, TypeOK
<1>4. request'[r] = [ request[r] EXCEPT !.pc = "sealed", !.successor = n,
                                        !.draining = draining ]
  BY <1>1 DEF IInv, TypeOK
<1>5. /\ request'[r] \in RequestState
      /\ request'[r].pc = "sealed"
      /\ request'[r].successor = n
      /\ request'[r].sid = request[r].sid
      /\ request'[r].token = request[r].token
      /\ request'[r].rotation = request[r].rotation
  BY <1>2, <1>3, <1>4 DEF RequestState
<1>6. request' = [ request EXCEPT ![r] = request'[r] ]
  BY <1>1 DEF IInv, TypeOK
<1>7. HandlerInv(r)'
  <2>1. HandlerInv(r)
    BY DEF IInv
  <2> QED
    BY <1>5, <2>1 DEF HandlerInv, InFlight, Seal, rows
<1> QED
  BY <1>2, <1>5, <1>6, <1>7, MovePreserves DEF Seal

LEMMA RespondPreserves ==
  ASSUME IInv, NEW r \in Request, Respond(r)
  PROVE  IInv'
<1>1. /\ request'[r] = IdleRequest
      /\ request' = [ request EXCEPT ![r] = request'[r] ]
  BY DEF Respond, IInv, TypeOK
<1>2. /\ request'[r] \in RequestState
      /\ request'[r].pc = "idle"
      /\ request'[r].successor = NoToken
  BY <1>1 DEF IdleRequest, RequestState
<1>3. HandlerInv(r)'
  BY <1>2 DEF HandlerInv, InFlight
<1> QED
  BY <1>1, <1>2, <1>3, MovePreserves DEF Respond

(* A handler step that takes or gives back a row lock, and no more. *)
LEMMA LockPreserves ==
  ASSUME IInv, NEW r \in Request, Lock(r)
  PROVE  IInv'
<1> DEFINE s == request[r].sid
<1>1. HandlerInv(r) /\ request[r].pc = "sealed" /\ request[r] \in RequestState
  BY ElementTypes DEF Lock, IInv
<1>2. s \in Session /\ lock[s] = NoRequest
  BY <1>1 DEF HandlerInv, InFlight, Lock
<1>3. CASE session[s].status = "deleted"
  <2>1. /\ request'[r] = Answered("unauthorized", NoToken)
        /\ request' = [ request EXCEPT ![r] = request'[r] ]
        /\ UNCHANGED <<now, rows, draining, sweep>>
    BY <1>3 DEF Lock, IInv, TypeOK, rows
  <2>2. /\ request'[r] \in RequestState
        /\ request'[r].pc = "answered"
        /\ request'[r].successor = NoToken
    BY <2>1, AnsweredType
  <2>3. HandlerInv(r)'
    BY <2>2 DEF HandlerInv, InFlight
  <2> QED
    BY <1>1, <2>1, <2>2, <2>3, MovePreserves
<1>4. CASE session[s].status # "deleted"
  <2>1. /\ request' = [ request EXCEPT ![r].pc = "locked", ![r].at = now ]
        /\ lock' = [ lock EXCEPT ![s] = r ]
        /\ UNCHANGED <<now, session, replay, draining, sweep, chain, since, forfeited>>
    BY <1>4 DEF Lock
  <2>2. request'[r] = [ request[r] EXCEPT !.pc = "locked", !.at = now ]
    BY <2>1 DEF IInv, TypeOK
  <2>3. now \in Nat /\ r # NoRequest
    BY SessionAssumption DEF SessionAssumption, IInv, TypeOK
  <2>4. /\ request'[r] \in RequestState
        /\ request'[r].pc = "locked"
        /\ request'[r].sid = s
        /\ request'[r].token = request[r].token
        /\ request'[r].rotation = request[r].rotation
        /\ request'[r].successor = request[r].successor
        /\ request'[r].at = now
    BY <1>1, <2>2, <2>3 DEF RequestState
  <2>5. TypeOK'
    BY <1>2, <2>1, <2>4 DEF IInv, TypeOK
  <2>6. \A u \in Request : u = r \/ request'[u] = request[u]
    BY <2>1 DEF IInv, TypeOK
  <2>7. HandlerInv(r)'
    <3>1. since[s] <= now /\ now <= now
      BY <1>2, ElementTypes DEF IInv, ChainInv
    <3> QED
      BY <1>1, <2>1, <2>4, <3>1 DEF HandlerInv, InFlight
  <2>8. LockInv'
    <3>1. \A t \in Session : lock[t] # NoRequest => lock[t] \in Request /\ lock[t] # r
      BY <1>1, ElementTypes DEF IInv, LockInv
    <3>2. \A t \in Session : lock'[t] = IF t = s THEN r ELSE lock[t]
      BY <2>1 DEF IInv, TypeOK
    <3>3. \A u \in Request : u # r /\ request[u].pc = "locked" => request[u].sid # s
      BY <1>2, <2>3, SessionAssumption DEF SessionAssumption, IInv, LockInv
    <3>4. \A u \in Request : request[u].pc = "locked" => request[u].sid \in Session
      BY DEF IInv, HandlerInv, InFlight
    <3> QED
      BY <1>2, <2>4, <2>6, <3>1, <3>2, <3>3, <3>4 DEF IInv, LockInv
  <2>9. \A t \in Session : SameRow(t)
    BY <2>1 DEF SameRow
  <2>10. request'[r].successor # NoToken
    BY <1>1, <2>4 DEF IInv, SuccessorInv
  <2>11. QuietStep({r})
    BY <2>1, <2>4, <2>6, <2>7, <2>8, <2>9, <2>10 DEF QuietStep
  <2> QED
    BY <2>5, <2>11, QuietPreserves
<1> QED
  BY <1>3, <1>4

(* The handler answers and gives its row lock back; its row may have been   *)
(* revoked by the way.                                                      *)
LEMMA ReleasePreserves ==
  ASSUME IInv, NEW r \in Request, request[r].pc = "locked",
         NEW answer \in RequestState,
         answer.pc = "answered", answer.successor = NoToken,
         Release(r, answer),
         UNCHANGED <<now, replay, draining, sweep, chain, since, forfeited>>,
         session' \in [Session -> SessionRow],
         \A s \in Session : SameRow(s)
  PROVE  IInv'
<1> DEFINE s == request[r].sid
<1>1. s \in Session /\ lock[s] = r
  BY DEF IInv, HandlerInv, InFlight, LockInv
<1>2. request'[r] = answer
  BY DEF Release, IInv, TypeOK
<1>3. \A u \in Request : u = r \/ request'[u] = request[u]
  BY DEF Release, IInv, TypeOK
<1>4. \A t \in Session : lock'[t] = IF t = s THEN NoRequest ELSE lock[t]
  BY DEF Release, IInv, TypeOK
<1>5. TypeOK'
  <2>1. /\ request' \in [Request -> RequestState]
        /\ lock' \in [Session -> Request \cup {NoRequest}]
    BY DEF Release, IInv, TypeOK
  <2> QED
    BY <2>1 DEF IInv, TypeOK
<1>6. HandlerInv(r)'
  BY <1>2 DEF HandlerInv, InFlight
<1>7. LockInv'
  <2>1. \A t \in Session : t # s /\ lock[t] # NoRequest => lock[t] \in Request /\ lock[t] # r
    BY <1>1, ElementTypes DEF IInv, LockInv
  <2>2. \A u \in Request : u # r /\ request[u].pc = "locked" =>
          request[u].sid \in Session /\ request[u].sid # s
    BY <1>1 DEF IInv, LockInv, HandlerInv, InFlight
  <2> QED
    BY <1>2, <1>3, <1>4, <2>1, <2>2 DEF IInv, LockInv
<1>8. QuietStep({r})
  BY <1>2, <1>3, <1>6, <1>7 DEF QuietStep
<1> QED
  BY <1>5, <1>8, QuietPreserves

LEMMA FailPreserves ==
  ASSUME IInv, NEW r \in Request, Fail(r)
  PROVE  IInv'
<1>1. CASE request[r].pc = "locked"
  <2>1. Release(r, Answered("retry", NoToken))
    BY <1>1 DEF Fail, Release
  <2>2. session' \in [Session -> SessionRow] /\ \A s \in Session : SameRow(s)
    BY DEF Fail, IInv, TypeOK, SameRow
  <2> QED
    BY <1>1, <2>1, <2>2, AnsweredType, ReleasePreserves DEF Fail
<1>2. CASE request[r].pc # "locked"
  <2>1. /\ request'[r] = Answered("retry", NoToken)
        /\ request' = [ request EXCEPT ![r] = request'[r] ]
        /\ UNCHANGED <<now, rows, draining, sweep>>
    BY <1>2 DEF Fail, IInv, TypeOK, rows
  <2>2. /\ request'[r] \in RequestState
        /\ request'[r].pc = "answered"
        /\ request'[r].successor = NoToken
    BY <2>1, AnsweredType
  <2>3. HandlerInv(r)'
    BY <2>2 DEF HandlerInv, InFlight
  <2> QED
    BY <1>2, <2>1, <2>2, <2>3, MovePreserves
<1> QED
  BY <1>1, <1>2

LEMMA RejectPreserves ==
  ASSUME IInv, NEW r \in Request, request[r].pc = "locked",
         NEW kind \in {"unauthorized", "retry"}, Reject(r, kind),
         UNCHANGED <<now, draining, sweep>>
  PROVE  IInv'
<1>1. session' \in [Session -> SessionRow] /\ \A s \in Session : SameRow(s)
  BY DEF Reject, IInv, TypeOK, SameRow
<1> QED
  BY <1>1, AnsweredType, ReleasePreserves DEF Reject

LEMMA ReplayStoredPreserves ==
  ASSUME IInv, NEW r \in Request, request[r].pc = "locked",
         DecisionOf(request[r]) = "Replay", ReplayStored(r),
         UNCHANGED <<now, draining, sweep>>
  PROVE  IInv'
<1> DEFINE s == request[r].sid
<1>1. s \in Session
  BY DEF IInv, HandlerInv, InFlight
<1>2. replay[s] # NoRow
  BY DEF DecisionOf, Decide, Replayable, Fresh
<1>3. replay[s].replacement \in Token
  BY <1>1, <1>2, ElementTypes DEF IInv, ReplayRow
<1>4. session' \in [Session -> SessionRow] /\ \A t \in Session : SameRow(t)
  BY DEF ReplayStored, IInv, TypeOK, SameRow
<1>5. CASE Release(r, Answered("ok", replay[s].replacement))
  BY <1>3, <1>4, <1>5, AnsweredType, ReleasePreserves DEF ReplayStored
<1>6. CASE Release(r, Answered("retry", NoToken))
  BY <1>4, <1>6, AnsweredType, ReleasePreserves DEF ReplayStored
<1> QED
  BY <1>5, <1>6 DEF ReplayStored, Commit

LEMMA RevokeOnReusePreserves ==
  ASSUME IInv, NEW r \in Request, request[r].pc = "locked",
         RevokeOnReuse(r), UNCHANGED <<now, draining, sweep>>
  PROVE  IInv'
<1> DEFINE s == request[r].sid
<1>1. s \in Session /\ chain[s] # <<>>
  BY ElementTypes DEF IInv, HandlerInv, InFlight
<1>2. session' = [ session EXCEPT ![s].status = "revoked" ]
  BY DEF RevokeOnReuse
<1>3. session' \in [Session -> SessionRow]
  BY <1>1, <1>2 DEF IInv, TypeOK, SessionRow
<1>4. \A t \in Session : SameRow(t)
  <2>1. \A t \in Session : t # s => session'[t] = session[t]
    BY <1>2 DEF IInv, TypeOK
  <2>2. session[s] \in SessionRow
    BY <1>1 DEF IInv, TypeOK
  <2>3. session'[s] = [ session[s] EXCEPT !.status = "revoked" ]
    BY <1>1, <1>2 DEF IInv, TypeOK
  <2>4. /\ session'[s].status = "revoked"
        /\ session'[s].current = session[s].current
        /\ session'[s].rotation = session[s].rotation
    BY <2>2, <2>3 DEF SessionRow
  <2> QED
    BY <1>1, <2>1, <2>4 DEF SameRow
<1>5. CASE Release(r, Answered("unauthorized", NoToken))
  BY <1>3, <1>4, <1>5, AnsweredType, ReleasePreserves DEF RevokeOnReuse
<1>6. CASE Release(r, Answered("retry", NoToken))
  BY <1>3, <1>4, <1>6, AnsweredType, ReleasePreserves DEF RevokeOnReuse
<1> QED
  BY <1>5, <1>6 DEF RevokeOnReuse, Commit

(* What a rotation does to its family. *)
Rotates(r) ==
  /\ request[r].pc = "locked"
  /\ DecisionOf(request[r]) = "Rotate"
  /\ session[request[r].sid].rotation = request[r].rotation
  /\ session[request[r].sid].status = "active"
  /\ RotateOrMiss(r)
  /\ UNCHANGED <<now, draining, sweep>>

LEMMA RotationEffect ==
  ASSUME IInv, NEW r \in Request, Rotates(r)
  PROVE  LET q == request[r]
             s == q.sid
         IN /\ s \in Session /\ lock[s] = r
            /\ q.token = session[s].current /\ q.token \in Token
            /\ q.successor \in Token
            /\ chain[s] # <<>>
            /\ session'[s] = Rotated(q) /\ Rotated(q) \in SessionRow
            /\ replay'[s] = GrantOf(q) /\ GrantOf(q) \in ReplayRow
            /\ GrantOf(q) # NoRow
            /\ chain'[s] = Append(chain[s], q.successor)
            /\ since'[s] = q.at
            /\ forfeited' = forfeited \ {s}
            /\ request'[r] \in { Answered("ok", q.successor), Answered("retry", NoToken) }
            /\ \A t \in Session \ {s} :
                 /\ session'[t] = session[t]
                 /\ replay'[t] = replay[t]
                 /\ chain'[t] = chain[t]
                 /\ since'[t] = since[t]
                 /\ lock'[t] = lock[t]
            /\ lock'[s] = NoRequest
            /\ \A u \in Request \ {r} : request'[u] = request[u]
<1> DEFINE q == request[r]
           s == q.sid
<1>1. /\ s \in Session /\ lock[s] = r
      /\ q \in RequestState
      /\ \E i \in 1 .. Len(chain[s]) : q.token = chain[s][i]
  BY ElementTypes DEF Rotates, IInv, HandlerInv, InFlight, LockInv
<1>2. q.token \in Token /\ chain[s] # <<>>
  BY <1>1, ElementTypes DEF IInv
<1>3. q.token = session[s].current
  BY DEF Rotates, DecisionOf, Decide
<1>4. q.successor \in Token
  BY ElementTypes DEF Rotates, IInv, SuccessorInv
<1>5. /\ session' = [ session EXCEPT ![s] = Rotated(q) ]
      /\ replay' = [ replay EXCEPT ![s] = GrantOf(q) ]
      /\ chain' = [ chain EXCEPT ![s] = Append(@, q.successor) ]
      /\ since' = [ since EXCEPT ![s] = q.at ]
      /\ forfeited' = forfeited \ {s}
      /\ \/ Release(r, Answered("ok", q.successor))
         \/ Release(r, Answered("retry", NoToken))
  BY DEF Rotates, RotateOrMiss, Upserted, Commit
<1>6. q.rotation \in Nat /\ q.started \in Nat /\ q.at \in Nat
  BY ElementTypes DEF IInv
<1>7. Rotated(q) \in SessionRow
  BY <1>4, <1>6, TimeAssumption DEF TimeAssumption, Rotated, Open, SessionRow
<1>8. GrantOf(q) \in ReplayRow
  BY <1>2, <1>4, <1>6, TimeAssumption DEF TimeAssumption, GrantOf, ReplayRow
<1>9. GrantOf(q) # NoRow
  BY <1>8, NoRowAssumption DEF NoRowAssumption
<1>10. /\ session'[s] = Rotated(q) /\ replay'[s] = GrantOf(q)
       /\ chain'[s] = Append(chain[s], q.successor)
       /\ since'[s] = q.at
       /\ \A t \in Session \ {s} :
            /\ session'[t] = session[t]
            /\ replay'[t] = replay[t]
            /\ chain'[t] = chain[t]
            /\ since'[t] = since[t]
  BY <1>1, <1>5 DEF IInv, TypeOK
<1>11. /\ request'[r] \in { Answered("ok", q.successor), Answered("retry", NoToken) }
       /\ lock'[s] = NoRequest
       /\ \A t \in Session \ {s} : lock'[t] = lock[t]
       /\ \A u \in Request \ {r} : request'[u] = request[u]
  BY <1>1, <1>5 DEF Release, IInv, TypeOK
<1> QED
  BY <1>1, <1>2, <1>3, <1>4, <1>5, <1>7, <1>8, <1>9, <1>10, <1>11

LEMMA AppendFacts ==
  ASSUME NEW tokens \in Seq(Token), NEW n \in Token
  PROVE  /\ Append(tokens, n) \in Seq(Token)
         /\ Append(tokens, n) # <<>>
         /\ Len(tokens) \in Nat
         /\ Len(Append(tokens, n)) = Len(tokens) + 1
         /\ Append(tokens, n)[Len(tokens) + 1] = n
         /\ \A i \in 1 .. Len(tokens) : Append(tokens, n)[i] = tokens[i]
OBVIOUS

LEMMA RotatePreserves ==
  ASSUME IInv, NEW r \in Request, Rotates(r)
  PROVE  IInv'
<1> DEFINE q == request[r]
<1> PICK s \in Session : s = q.sid
  BY RotationEffect
<1>1. /\ s \in Session /\ lock[s] = r /\ chain[s] # <<>>
      /\ q.token = session[s].current /\ q.token \in Token /\ q.successor \in Token
      /\ GrantOf(q) \in ReplayRow /\ GrantOf(q) # NoRow
      /\ Rotated(q) \in SessionRow
  BY RotationEffect
<1>2. /\ session'[s] = Rotated(q)
      /\ replay'[s] = GrantOf(q)
      /\ chain'[s] = Append(chain[s], q.successor)
      /\ since'[s] = q.at
      /\ forfeited' = forfeited \ {s}
      /\ request'[r] \in { Answered("ok", q.successor), Answered("retry", NoToken) }
      /\ lock'[s] = NoRequest
  BY RotationEffect
<1>3. /\ now' = now /\ draining' = draining /\ sweep' = sweep
      /\ \A t \in Session \ {s} :
           /\ session'[t] = session[t]
           /\ replay'[t] = replay[t]
           /\ chain'[t] = chain[t]
           /\ since'[t] = since[t]
           /\ lock'[t] = lock[t]
      /\ \A u \in Request \ {r} : request'[u] = request[u]
  BY RotationEffect DEF Rotates
<1>4. /\ chain[s] \in Seq(Token)
      /\ Len(chain[s]) \in Nat \ {0}
      /\ Len(chain'[s]) = Len(chain[s]) + 1
      /\ chain'[s][Len(chain[s]) + 1] = q.successor
      /\ \A i \in 1 .. Len(chain[s]) : chain'[s][i] = chain[s][i]
      /\ chain'[s] \in Seq(Token) /\ chain'[s] # <<>>
  <2>1. chain[s] \in Seq(Token) /\ Len(chain[s]) \in 1 .. Len(chain[s])
    BY <1>1, ElementTypes DEF IInv
  <2> QED
    BY <1>1, <1>2, <2>1, AppendFacts
<1>5. /\ session[s].rotation = Len(chain[s]) - 1
      /\ session[s].current = chain[s][Len(chain[s])]
      /\ q.rotation = session[s].rotation
  BY <1>1 DEF IInv, ChainInv, Rotates
<1>6. /\ session'[s].status = "active"
      /\ session'[s].current = q.successor
      /\ session'[s].rotation = Len(chain[s])
  BY <1>2, <1>4, <1>5 DEF Rotated, Open
<1>7. q.at \in Nat /\ since[s] <= q.at /\ q.at <= now /\ now \in Nat
  BY ElementTypes DEF IInv, HandlerInv, Rotates
<1>8. /\ request'[r].pc = "answered" /\ request'[r].successor = NoToken
      /\ request'[r] \in RequestState
  BY <1>1, <1>2, AnsweredType
<1>9. TypeOK'
  <2>1. /\ session' \in [Session -> SessionRow]
        /\ replay' \in [Session -> ReplayRow \cup {NoRow}]
    BY <1>1, <1>2, <1>3 DEF Rotates, RotateOrMiss, Upserted, IInv, TypeOK
  <2>2. /\ chain' \in [Session -> Seq(Token)]
        /\ since' \in [Session -> Nat]
    BY <1>1, <1>2, <1>4, <1>7 DEF Rotates, RotateOrMiss, IInv, TypeOK
  <2>3. /\ lock' \in [Session -> Request \cup {NoRequest}]
        /\ request' \in [Request -> RequestState]
    BY <1>8 DEF Rotates, RotateOrMiss, Commit, Release, IInv, TypeOK
  <2> QED
    BY <1>2, <1>3, <2>1, <2>2, <2>3 DEF IInv, TypeOK
<1>10. \A t \in Session : ChainInv(t)'
  <2>1. ChainInv(s)'
    BY <1>2, <1>3, <1>4, <1>6, <1>7 DEF ChainInv
  <2>2. ASSUME NEW t \in Session \ {s} PROVE ChainInv(t)'
    BY <1>3 DEF IInv, ChainInv
  <2> QED
    BY <2>1, <2>2
(* The sealed successor was nobody's, so the chains stay distinct. *)
<1>11. \A t \in Session : \A i \in 1 .. Len(chain[t]) : chain[t][i] # q.successor
  BY DEF IInv, SuccessorInv, Rotates
<1>12. \A t \in Session : \A i \in 1 .. Len(chain'[t]) :
         \/ t = s /\ i = Len(chain[s]) + 1 /\ chain'[t][i] = q.successor
         \/ i \in 1 .. Len(chain[t]) /\ chain'[t][i] = chain[t][i]
  <2>1. ASSUME NEW i \in 1 .. Len(chain'[s])
        PROVE  i = Len(chain[s]) + 1 \/ i \in 1 .. Len(chain[s])
    BY <1>4
  <2> QED
    BY <1>3, <1>4, <2>1
<1>13. TokensDistinct'
  <2> SUFFICES ASSUME NEW t \in Session, NEW v \in Session,
                      NEW i \in 1 .. Len(chain'[t]), NEW j \in 1 .. Len(chain'[v]),
                      chain'[t][i] = chain'[v][j]
               PROVE  t = v /\ i = j
    BY DEF TokensDistinct
  <2> QED
    BY <1>11, <1>12 DEF IInv, TokensDistinct
<1>14. GrantMatchesRow'
  <2>1. /\ replay'[s].replacement = session'[s].current
        /\ replay'[s].spent = chain'[s][Len(chain'[s]) - 1]
        /\ replay'[s].until = since'[s] + Grace
        /\ Len(chain'[s]) > 1
        /\ replay'[s] # NoRow
    BY <1>1, <1>2, <1>4, <1>5, <1>6 DEF GrantOf
  <2>2. replay'[s].until = since'[s] + Grace
    BY <1>2 DEF GrantOf
  <2>3. ASSUME NEW t \in Session \ {s}
        PROVE  /\ replay'[t] = replay[t] /\ session'[t] = session[t]
               /\ chain'[t] = chain[t] /\ since'[t] = since[t]
               /\ now' = now /\ (t \in forfeited' <=> t \in forfeited)
    BY <1>2, <1>3
  <2> QED
    BY <2>1, <2>2, <2>3 DEF IInv, GrantMatchesRow, Spent, InGrace
<1>15. LockInv'
  <2>1. \A t \in Session : t # s /\ lock[t] # NoRequest => lock[t] \in Request /\ lock[t] # r
    BY <1>1, ElementTypes DEF IInv, LockInv
  <2>2. \A u \in Request : u # r /\ request[u].pc = "locked" =>
          request[u].sid \in Session /\ request[u].sid # s
    BY <1>1 DEF IInv, LockInv, HandlerInv, InFlight
  <2> QED
    BY <1>2, <1>3, <1>8, <2>1, <2>2 DEF IInv, LockInv
<1>16. \A u \in Request : HandlerInv(u)'
  <2>1. HandlerInv(r)'
    BY <1>8 DEF HandlerInv, InFlight
  <2>2. ASSUME NEW u \in Request \ {r} PROVE HandlerInv(u)'
    <3>1. HandlerInv(u) /\ request'[u] = request[u] /\ request[u].rotation \in Nat
      BY <1>3, ElementTypes DEF IInv
    <3>2. CASE request[u].sid = s
      <4>1. request[u].pc # "locked"
        BY <1>1, <3>2 DEF IInv, LockInv
      <4>2. ASSUME NEW i \in 1 .. Len(chain[s])
            PROVE  i \in 1 .. Len(chain'[s]) /\ chain'[s][i] = chain[s][i]
        BY <1>4
      <4>3. request[u].rotation <= session[s].rotation =>
              request[u].rotation <= session'[s].rotation
        BY <1>4, <1>5, <1>6, <3>1
      <4> QED
        BY <3>1, <3>2, <4>1, <4>2, <4>3 DEF HandlerInv, InFlight
    <3>3. CASE request[u].sid # s
      BY <1>3, <3>1, <3>3 DEF HandlerInv, InFlight
    <3> QED
      BY <3>2, <3>3
  <2> QED
    BY <2>1, <2>2
<1>17. SuccessorInv'
  <2>1. \A u \in Request \ {r} : request[u].successor # q.successor
                                 \/ request[u].successor = NoToken
    BY DEF IInv, SuccessorInv
  <2>2. ASSUME NEW u \in Request, request'[u].pc \in {"sealed", "locked"},
               NEW t \in Session, NEW i \in 1 .. Len(chain'[t])
        PROVE  chain'[t][i] # request'[u].successor
    <3>1. u # r /\ request'[u] = request[u] /\ request[u].successor # NoToken
      BY <1>3, <1>8, <2>2 DEF IInv, SuccessorInv
    <3> QED
      BY <1>12, <2>1, <2>2, <3>1 DEF IInv, SuccessorInv
  <2> QED
    BY <1>3, <1>8, <2>2 DEF IInv, SuccessorInv
<1> QED
  BY <1>9, <1>10, <1>13, <1>14, <1>15, <1>16, <1>17 DEF IInv

LEMMA SettlePreserves ==
  ASSUME IInv, NEW r \in Request, Settle(r)
  PROVE  IInv'
<1>1. request[r].pc = "locked" /\ UNCHANGED <<now, draining, sweep>>
  BY DEF Settle
<1>2. CASE Reject(r, "retry") \/ Reject(r, "unauthorized")
  BY <1>1, <1>2, RejectPreserves
<1>3. CASE DecisionOf(request[r]) = "Replay" /\ ReplayStored(r)
  BY <1>1, <1>3, ReplayStoredPreserves
<1>4. CASE RevokeOnReuse(r)
  BY <1>1, <1>4, RevokeOnReusePreserves
<1>5. CASE DecisionOf(request[r]) = "Rotate" /\ RotateOrMiss(r)
  <2>1. CASE /\ session[request[r].sid].rotation = request[r].rotation
             /\ session[request[r].sid].status = "active"
    BY <1>1, <1>5, <2>1, RotatePreserves DEF Rotates
  <2>2. CASE ~ /\ session[request[r].sid].rotation = request[r].rotation
               /\ session[request[r].sid].status = "active"
    <3>1. Reject(r, "retry")
      BY <1>5, <2>2 DEF RotateOrMiss, Reject
    <3> QED
      BY <1>1, <3>1, RejectPreserves
  <2> QED
    BY <2>1, <2>2
<1> QED
  BY <1>2, <1>3, <1>4, <1>5 DEF Settle

(* The steps of the other endpoints and of the operator. *)
LEMMA RevokePreserves ==
  ASSUME IInv, NEW S \in SUBSET Session,
         \A s \in S : session[s].status \in {"active", "revoked"},
         Revoke(S)
  PROVE  IInv'
<1>1. session' = [ s \in Session |->
                     IF s \in S THEN [ session[s] EXCEPT !.status = "revoked" ]
                                ELSE session[s] ]
  BY DEF Revoke
<1>2. \A s \in Session : session'[s] \in SessionRow /\ SameRow(s)
  <2> SUFFICES ASSUME NEW s \in Session
               PROVE  session'[s] \in SessionRow /\ SameRow(s)
    OBVIOUS
  <2>1. session[s] \in SessionRow
    BY ElementTypes DEF IInv
  <2>2. CASE s \in S
    <3>1. session'[s] = [ session[s] EXCEPT !.status = "revoked" ]
      BY <1>1, <2>2
    <3>2. chain[s] # <<>>
      BY <2>2 DEF IInv, ChainInv
    <3> QED
      BY <2>1, <3>1, <3>2 DEF SessionRow, SameRow
  <2>3. CASE s \notin S
    BY <1>1, <2>1, <2>3 DEF SameRow
  <2> QED
    BY <2>2, <2>3
<1>3. TypeOK'
  <2>1. session' \in [Session -> SessionRow]
    BY <1>1, <1>2
  <2> QED
    BY <2>1 DEF Revoke, IInv, TypeOK
<1>4. QuietStep({})
  BY <1>2 DEF Revoke, QuietStep, IInv, LockInv
<1> QED
  BY <1>3, <1>4, QuietPreserves

LEMMA DeleteAccountPreserves ==
  ASSUME IInv, DeleteAccount
  PROVE  IInv'
<1>1. \A s \in Session : session'[s] \in SessionRow /\ SameRow(s)
  <2> SUFFICES ASSUME NEW s \in Session
               PROVE  session'[s] \in SessionRow /\ SameRow(s)
    OBVIOUS
  <2>1. session[s] \in SessionRow
    BY ElementTypes DEF IInv
  <2>2. session'[s] = [ session[s] EXCEPT !.status = "deleted" ]
    BY DEF DeleteAccount
  <2> QED
    BY <2>1, <2>2 DEF SessionRow, SameRow
<1>2. TypeOK'
  <2>1. session' \in [Session -> SessionRow]
    BY <1>1 DEF DeleteAccount
  <2> QED
    BY <2>1 DEF DeleteAccount, IInv, TypeOK
<1>3. QuietStep({})
  BY <1>1 DEF DeleteAccount, QuietStep, IInv, LockInv
<1> QED
  BY <1>2, <1>3, QuietPreserves

LEMMA SwitchPreserves ==
  ASSUME IInv, (\E flag \in DrainFlags : SetDrain(flag)) \/ SweepSelect
  PROVE  IInv'
<1>1. /\ UNCHANGED <<now, rows, request>>
      /\ draining' \in BOOLEAN /\ sweep' \in SUBSET Session
  BY DrainAssumption DEF DrainAssumption, SetDrain, SweepSelect, IInv, TypeOK
<1>2. TypeOK'
  BY <1>1 DEF rows, IInv, TypeOK
<1>3. QuietStep({})
  BY <1>1 DEF rows, QuietStep, SameRow, IInv, LockInv
<1> QED
  BY <1>2, <1>3, QuietPreserves

(* Whatever the sweep deletes, a grant still inside its grace is recorded   *)
(* as forfeited.                                                            *)
LEMMA SweepDeletePreserves ==
  ASSUME IInv, SweepDelete
  PROVE  IInv'
<1>1. TypeOK'
  BY DEF SweepDelete, IInv, TypeOK
<1>2. \A s \in Session : replay'[s] = IF s \in sweep THEN NoRow ELSE replay[s]
  BY DEF SweepDelete
<1>3. \A s \in Session : ChainInv(s)'
  BY <1>2 DEF SweepDelete, IInv, ChainInv
<1>4. GrantMatchesRow'
  <2>1. \A s \in sweep : replay[s] # NoRow /\ InGrace(s) /\ Len(chain[s]) > 1
                           => s \in forfeited'
    BY DEF SweepDelete, IInv, TypeOK, GrantMatchesRow, InGrace, Fresh
  <2>2. \A s \in Session :
          s \notin forfeited' => s \notin forfeited
    BY DEF SweepDelete
  <2> QED
    BY <1>2, <2>1, <2>2 DEF SweepDelete, IInv, GrantMatchesRow, Spent, InGrace
<1>5. TokensDistinct' /\ LockInv' /\ SuccessorInv'
  BY DEF SweepDelete, IInv, TokensDistinct, LockInv, SuccessorInv
<1>6. \A r \in Request : HandlerInv(r)'
  BY DEF SweepDelete, IInv, HandlerInv
<1> QED
  BY <1>1, <1>3, <1>4, <1>5, <1>6 DEF IInv

LEMMA LoginPreserves ==
  ASSUME IInv, NEW s \in Session, Login(s)
  PROVE  IInv'
<1>1. PICK n \in Unused :
        /\ session' = [ session EXCEPT ![s] = Open(n, 0, now + Lifetime) ]
        /\ chain' = [ chain EXCEPT ![s] = <<n>> ]
  BY DEF Login
<1>2. chain[s] = <<>> /\ replay[s] = NoRow
  BY DEF Login, IInv, ChainInv
<1>3. /\ n \in Token
      /\ \A t \in Session : \A i \in 1 .. Len(chain[t]) : chain[t][i] # n
      /\ \A u \in Request : request[u].successor # n
  BY ElementTypes DEF Unused, Issued, Committed, IInv
<1>4. /\ session'[s] = Open(n, 0, now + Lifetime)
      /\ chain'[s] = <<n>>
      /\ \A t \in Session \ {s} : session'[t] = session[t] /\ chain'[t] = chain[t]
      /\ UNCHANGED <<now, replay, lock, draining, request, sweep, since, forfeited>>
  BY <1>1 DEF Login, IInv, TypeOK
<1>5. /\ session'[s].status = "active" /\ session'[s].current = n
      /\ session'[s].rotation = 0
  BY <1>4 DEF Open
<1>6. Len(chain'[s]) = 1 /\ chain'[s][1] = n /\ chain'[s] # <<>>
  BY <1>4
<1>7. TypeOK'
  <2>1. Open(n, 0, now + Lifetime) \in SessionRow
    BY <1>3, TimeAssumption, ElementTypes DEF TimeAssumption, IInv, Open, SessionRow
  <2>2. session' \in [Session -> SessionRow] /\ chain' \in [Session -> Seq(Token)]
    BY <1>1, <1>3, <2>1 DEF IInv, TypeOK
  <2> QED
    BY <1>4, <2>2 DEF IInv, TypeOK
<1>8. \A t \in Session : ChainInv(t)'
  <2>1. ChainInv(s)'
    BY <1>4, <1>5, <1>6 DEF IInv, ChainInv
  <2>2. ASSUME NEW t \in Session \ {s} PROVE ChainInv(t)'
    BY <1>4 DEF IInv, ChainInv
  <2> QED
    BY <2>1, <2>2
<1>9. \A t \in Session : \A i \in 1 .. Len(chain'[t]) :
        \/ t = s /\ i = 1 /\ chain'[t][i] = n
        \/ t # s /\ i \in 1 .. Len(chain[t]) /\ chain'[t][i] = chain[t][i]
  <2>1. \A i \in 1 .. Len(chain'[s]) : i = 1 /\ chain'[s][i] = n
    BY <1>6
  <2>2. \A t \in Session \ {s} : chain'[t] = chain[t]
    BY <1>4
  <2> QED
    BY <2>1, <2>2
<1>10. TokensDistinct'
  BY <1>3, <1>9 DEF IInv, TokensDistinct
<1>11. GrantMatchesRow'
  <2>1. replay'[s] = NoRow /\ ~(Len(chain'[s]) > 1)
    BY <1>2, <1>4, <1>6
  <2>2. ASSUME NEW t \in Session \ {s}
        PROVE  /\ session'[t] = session[t] /\ chain'[t] = chain[t]
               /\ replay'[t] = replay[t] /\ since'[t] = since[t]
    BY <1>4
  <2>3. now' = now /\ forfeited' = forfeited
    BY <1>4
  <2> QED
    BY <2>1, <2>2, <2>3 DEF IInv, GrantMatchesRow, Spent, InGrace
<1>12. LockInv'
  BY <1>4 DEF IInv, LockInv
<1>13. \A r \in Request : HandlerInv(r)'
  <2> SUFFICES ASSUME NEW r \in Request PROVE HandlerInv(r)'
    OBVIOUS
  <2>1. HandlerInv(r) /\ request'[r] = request[r]
    BY <1>4 DEF IInv
  <2>2. request[r].pc \in InFlight => request[r].sid \in Session \ {s}
    BY <1>2, <2>1 DEF HandlerInv
  <2> QED
    BY <1>4, <2>1, <2>2 DEF HandlerInv
<1>14. SuccessorInv'
  BY <1>3, <1>4, <1>9 DEF IInv, SuccessorInv
<1> QED
  BY <1>7, <1>8, <1>10, <1>11, <1>12, <1>13, <1>14 DEF IInv

-----------------------------------------------------------------------------

LEMMA StepPreserves == IInv /\ [Next]_vars => IInv'
<1> SUFFICES ASSUME IInv, [Next]_vars PROVE IInv'
  OBVIOUS
<1>1. ASSUME NEW r \in Request, Handle(r) PROVE IInv'
  BY <1>1, PresentPreserves, PrefetchPreserves, SealPreserves, LockPreserves,
     SettlePreserves, FailPreserves, RespondPreserves DEF Handle
<1>2. ASSUME NEW s \in Session, Login(s) PROVE IInv'
  BY <1>2, LoginPreserves
<1>3. ASSUME NEW s \in Session, Logout(s) PROVE IInv'
  BY <1>3, RevokePreserves DEF Logout
<1>4. ASSUME NEW kept \in SUBSET Session, RevokeOthers(kept) PROVE IInv'
  BY <1>4, RevokePreserves DEF RevokeOthers, Usable
<1>5. CASE DeleteAccount
  BY <1>5, DeleteAccountPreserves
<1>6. CASE (\E flag \in DrainFlags : SetDrain(flag)) \/ SweepSelect
  BY <1>6, SwitchPreserves
<1>7. CASE SweepDelete
  BY <1>7, SweepDeletePreserves
<1>8. CASE Tick
  BY <1>8, TickPreserves
<1>9. CASE UNCHANGED vars
  <2>1. TypeOK'
    BY <1>9 DEF vars, IInv, TypeOK
  <2>2. QuietStep({})
    BY <1>9 DEF vars, QuietStep, SameRow, IInv, LockInv
  <2> QED
    BY <2>1, <2>2, QuietPreserves
<1>10. \A s \in Session : {s} \in SUBSET Session
  OBVIOUS
<1>11. {} \in SUBSET Session
  OBVIOUS
<1> QED
  BY <1>1, <1>2, <1>3, <1>4, <1>5, <1>6, <1>7, <1>8, <1>9, <1>10, <1>11 DEF Next

(* IInv holds in every reachable state: the facts that rows, grants, locks  *)
(* and handlers stay in step with the history of their family.              *)
THEOREM Invariance == Spec => []IInv
BY InitEstablishes, StepPreserves, PTL DEF Spec

(* The state is always well-typed: no handler, grant or row ever holds a    *)
(* value of another kind, in particular no absent token where a token is due. *)
THEOREM TypeCorrect == Spec => []TypeOK
<1>1. IInv => TypeOK
  BY DEF IInv
<1> QED
  BY <1>1, Invariance, PTL

(* The rotation_id prefetched outside the transaction is never stale when   *)
(* it decides a rotation, so the updated # 1 branch of rotate_or_replay is  *)
(* dead code, for any number of handlers.                                   *)
THEOREM PrefetchStaysValid == Spec => []PrefetchStillValid
<1>1. IInv => PrefetchStillValid
  <2> SUFFICES ASSUME IInv, NEW r \in Request, request[r].pc = "locked",
                      request[r].token = session[request[r].sid].current
               PROVE  request[r].rotation = session[request[r].sid].rotation
    BY DEF PrefetchStillValid
  <2> PICK s \in Session : s = request[r].sid
    BY DEF IInv, HandlerInv, InFlight
  <2>1. PICK i \in 1 .. Len(chain[s]) :
          request[r].token = chain[s][i] /\ i - 1 <= request[r].rotation
    BY DEF IInv, HandlerInv, InFlight
  <2>2. chain[s] # <<>> /\ Len(chain[s]) \in 1 .. Len(chain[s])
    BY <2>1, ElementTypes DEF IInv
  <2>3. /\ chain[s][i] = chain[s][Len(chain[s])]
        /\ session[s].rotation = Len(chain[s]) - 1
    BY <2>1, <2>2 DEF IInv, ChainInv
  <2>4. i = Len(chain[s])
    BY <2>2, <2>3 DEF IInv, TokensDistinct
  <2>5. request[r].rotation <= session[s].rotation
    BY DEF IInv, HandlerInv, InFlight
  <2> QED
    BY <2>1, <2>3, <2>4, <2>5, ElementTypes DEF IInv
<1> QED
  BY <1>1, Invariance, PTL

(* The stored grant is always the one of the last rotation, and is there as *)
(* long as the grace lasts unless the cleanup job destroyed it.             *)
THEOREM GrantAlwaysMatchesRow == Spec => []GrantMatchesRow
<1>1. IInv => GrantMatchesRow
  BY DEF IInv
<1> QED
  BY <1>1, Invariance, PTL

-----------------------------------------------------------------------------
(* What clients of the refresh endpoint may rely on: what an answer         *)
(* contains, and when a 401 is given.                                       *)

(* Only the handler itself answers. *)
LEMMA AnswersComeFromHandle ==
  ASSUME IInv, [Next]_vars, NEW r \in Request,
         request[r].pc # "answered", request'[r].pc = "answered"
  PROVE  Handle(r)
<1>1. request'[r] # request[r]
  OBVIOUS
<1>2. ASSUME NEW u \in Request, Handle(u) PROVE u = r
  <2>1. u = r \/ request'[r] = request[r]
    BY <1>2 DEF Handle, Present, Prefetch, Seal, Lock, Settle, RotateOrMiss,
                ReplayStored, RevokeOnReuse, Reject, Commit, Release, Fail, Respond,
                IInv, TypeOK
  <2> QED
    BY <1>1, <2>1
<1>3. ~ UNCHANGED request
  BY <1>1
<1>4. \E u \in Request : Handle(u)
  BY <1>3 DEF Next, Login, Logout, RevokeOthers, Revoke, DeleteAccount, SetDrain,
              SweepSelect, SweepDelete, Tick, vars
<1> QED
  BY <1>2, <1>4

(* Where a 200 comes from. *)
LEMMA OkAnswers ==
  ASSUME IInv, NEW r \in Request, Handle(r), JustAnswered(r, "ok")
  PROVE  \/ Rotates(r)
         \/ /\ request[r].pc = "locked"
            /\ DecisionOf(request[r]) = "Replay"
            /\ Release(r, Answered("ok", replay[request[r].sid].replacement))
            /\ UNCHANGED <<session, chain>>
<1> USE DEF JustAnswered
<1>1. \A kind, n : /\ Answered(kind, n).pc = "answered"
                   /\ Answered(kind, n).answer = kind
  BY DEF Answered, IdleRequest
<1>2. ASSUME NEW s \in Session, NEW n \in Committed(s), Present(r, s, n) PROVE FALSE
  BY <1>2 DEF Present, IdleRequest, IInv, TypeOK
<1>3. CASE Prefetch(r)
  BY <1>1, <1>3, ElementTypes DEF Prefetch, IInv, TypeOK, RequestState
<1>4. CASE Seal(r)
  <2>1. request'[r].pc = "sealed"
    BY <1>4, ElementTypes DEF Seal, IInv, TypeOK, RequestState
  <2> QED
    BY <2>1
<1>5. CASE Lock(r)
  BY <1>1, <1>5, ElementTypes DEF Lock, IInv, TypeOK, RequestState
<1>6. CASE Fail(r)
  BY <1>1, <1>6 DEF Fail, IInv, TypeOK
<1>7. CASE Respond(r)
  BY <1>7 DEF Respond, IdleRequest, IInv, TypeOK
<1>8. CASE Settle(r)
  <2>1. \A kind, n : Release(r, Answered(kind, n)) => kind = "ok"
    BY <1>1 DEF Release, IInv, TypeOK
  <2>2. ~Reject(r, "retry") /\ ~Reject(r, "unauthorized") /\ ~RevokeOnReuse(r)
    BY <2>1 DEF Reject, RevokeOnReuse, Commit
  <2>3. CASE DecisionOf(request[r]) = "Rotate" /\ RotateOrMiss(r)
    BY <1>8, <2>1, <2>3 DEF RotateOrMiss, Settle, Rotates
  <2>4. CASE DecisionOf(request[r]) = "Replay" /\ ReplayStored(r)
    BY <1>8, <2>1, <2>4 DEF ReplayStored, Commit, Settle
  <2> QED
    BY <1>8, <2>2, <2>3, <2>4 DEF Settle
<1> QED
  BY <1>2, <1>3, <1>4, <1>5, <1>6, <1>7, <1>8 DEF Handle

(* Where a 401 comes from. *)
LEMMA UnauthorizedAnswers ==
  ASSUME IInv, NEW r \in Request, Handle(r), JustAnswered(r, "unauthorized")
  PROVE  LET q == request[r]
         IN \/ /\ q.pc = "presented"
               /\ ~Resolves(q) \/ session[q.sid].status = "deleted"
            \/ q.pc = "sealed" /\ session[q.sid].status = "deleted"
            \/ q.pc = "locked" /\ DecisionOf(q) \in {"ReuseOutsideGrace", "Invalid"}
<1> USE DEF JustAnswered
<1>1. \A kind, n : /\ Answered(kind, n).pc = "answered"
                   /\ Answered(kind, n).answer = kind
  BY DEF Answered, IdleRequest
<1>2. ASSUME NEW s \in Session, NEW n \in Committed(s), Present(r, s, n) PROVE FALSE
  BY <1>2 DEF Present, IdleRequest, IInv, TypeOK
<1>3. CASE Prefetch(r)
  BY <1>3, ElementTypes DEF Prefetch, IInv, TypeOK, RequestState
<1>4. CASE Seal(r)
  <2>1. request'[r].pc = "sealed"
    BY <1>4, ElementTypes DEF Seal, IInv, TypeOK, RequestState
  <2> QED
    BY <2>1
<1>5. CASE Lock(r)
  <2>1. CASE session[request[r].sid].status = "deleted"
    BY <1>5, <2>1 DEF Lock
  <2>2. CASE session[request[r].sid].status # "deleted"
    <3>1. request'[r].pc = "locked"
      BY <1>5, <2>2, ElementTypes DEF Lock, IInv, TypeOK, RequestState
    <3> QED
      BY <3>1
  <2> QED
    BY <2>1, <2>2
<1>6. CASE Fail(r)
  BY <1>1, <1>6 DEF Fail, IInv, TypeOK
<1>7. CASE Respond(r)
  BY <1>7 DEF Respond, IdleRequest, IInv, TypeOK
<1>8. CASE Settle(r)
  <2>1. \A kind, n : Release(r, Answered(kind, n)) => kind = "unauthorized"
    BY <1>1 DEF Release, IInv, TypeOK
  <2>2. ~Reject(r, "retry") /\ ~RotateOrMiss(r) /\ ~ReplayStored(r)
    BY <2>1 DEF Reject, RotateOrMiss, ReplayStored, Commit
  <2> QED
    BY <1>8, <2>2 DEF Settle
<1> QED
  BY <1>2, <1>3, <1>4, <1>5, <1>6, <1>7, <1>8 DEF Handle

-----------------------------------------------------------------------------

(* A refresh succeeds only for a live family and hands out its current      *)
(* token, to whoever presents either end of the last rotation.              *)
THEOREM OnlyCurrentTokensAreGranted == Spec => AnswersAreCurrent
<1> DEFINE Granted(r) ==
      LET s == request[r].sid
          n == request[r].token
      IN /\ session'[s].status = "active"
         /\ request'[r].granted = session'[s].current
         /\ n = session'[s].current \/ Spent(chain'[s], n)
<1>1. ASSUME IInv, [Next]_vars, NEW r \in Request, JustAnswered(r, "ok")
      PROVE  Granted(r)
  <2> PICK s \in Session : s = request[r].sid
    <3>1. Handle(r)
      BY <1>1, AnswersComeFromHandle DEF JustAnswered
    <3>2. request[r].pc = "locked"
      BY <1>1, <3>1, OkAnswers DEF Rotates
    <3> QED
      BY <1>1, <3>2 DEF IInv, HandlerInv, InFlight
  <2> DEFINE n == request[r].token
  <2>1. \A kind, m : Answered(kind, m).granted = m
    BY DEF Answered, IdleRequest
  <2>2. CASE Rotates(r)
    <3>1. /\ session'[s] = Rotated(request[r])
          /\ chain'[s] = Append(chain[s], request[r].successor)
          /\ request'[r] \in { Answered("ok", request[r].successor), Answered("retry", NoToken) }
          /\ n = session[s].current /\ chain[s] # <<>>
          /\ request[r].successor \in Token
      BY <1>1, <2>2, RotationEffect
    <3>2. session'[s].status = "active" /\ session'[s].current = request[r].successor
      BY <3>1 DEF Rotated, Open
    <3>3. chain[s] \in Seq(Token) /\ Len(chain[s]) \in 1 .. Len(chain[s])
      BY <1>1, <3>1, ElementTypes DEF IInv
    <3>4. Len(chain'[s]) = Len(chain[s]) + 1 /\ chain'[s][Len(chain[s])] = chain[s][Len(chain[s])]
      BY <3>1, <3>3, AppendFacts
    <3>5. n = chain[s][Len(chain[s])]
      BY <1>1, <3>1 DEF IInv, ChainInv
    <3>6. Spent(chain'[s], n)
      BY <3>3, <3>4, <3>5 DEF Spent
    <3>7. request'[r] = Answered("ok", request[r].successor)
      BY <1>1, <3>1 DEF JustAnswered, Answered, IdleRequest
    <3> QED
      BY <2>1, <3>1, <3>2, <3>6, <3>7
  <2>3. CASE /\ request[r].pc = "locked"
             /\ DecisionOf(request[r]) = "Replay"
             /\ Release(r, Answered("ok", replay[s].replacement))
             /\ UNCHANGED <<session, chain>>
    <3>1. request'[r].granted = replay[s].replacement
      BY <1>1, <2>1, <2>3 DEF Release, IInv, TypeOK
    <3>2. /\ session[s].status = "active"
          /\ replay[s] # NoRow
          /\ n = session[s].current \/ n = replay[s].spent
      BY <2>3 DEF DecisionOf, Decide, Usable, Replayable, Fresh
    <3>3. replay[s].replacement = session[s].current /\ Spent(chain[s], replay[s].spent)
      BY <1>1, <3>2 DEF IInv, GrantMatchesRow
    <3> QED
      BY <2>3, <3>1, <3>2, <3>3
  <2> QED
    BY <1>1, <2>2, <2>3, AnswersComeFromHandle, OkAnswers DEF JustAnswered
<1>2. IInv /\ [Next]_vars =>
        [ \A r \in Request : JustAnswered(r, "ok") => Granted(r) ]_vars
  BY <1>1
<1> QED
  BY <1>2, Invariance, PTL DEF Spec, AnswersAreCurrent

(* The grace contract: within the lifetime of its family, a bound token     *)
(* that is current, or was spent by a rotation still inside its grace, is   *)
(* never refused with 401 - no matter how handlers, clocks and the cleanup  *)
(* job interleave - except after the cleanup job destroyed the grant.       *)
THEOREM GraceIsHonoured == Spec => GraceHonoured
<1> DEFINE Excused(r) ==
      LET s == request[r].sid
          n == request[r].token
      IN Owed(s, n) => (~Bound(n) \/ s \in forfeited)
<1>1. ASSUME IInv, [Next]_vars, NEW r \in Request, JustAnswered(r, "unauthorized")
      PROVE  Excused(r)
  <2>1. LET q == request[r]
        IN \/ /\ q.pc = "presented"
              /\ ~Resolves(q) \/ session[q.sid].status = "deleted"
           \/ q.pc = "sealed" /\ session[q.sid].status = "deleted"
           \/ q.pc = "locked" /\ DecisionOf(q) \in {"ReuseOutsideGrace", "Invalid"}
    BY <1>1, AnswersComeFromHandle, UnauthorizedAnswers DEF JustAnswered
  <2> PICK s \in Session : s = request[r].sid
    BY <1>1, <2>1 DEF IInv, HandlerInv, InFlight
  <2> DEFINE n == request[r].token
  <2> SUFFICES ASSUME Owed(s, n), Bound(n), s \notin forfeited
               PROVE  FALSE
    OBVIOUS
  <2>2. session[s].status = "active" /\ session[s].expires > now
    BY DEF Owed, Usable
  <2>3. Resolves(request[r])
    BY DEF Resolves
  <2>4. /\ request[r].pc = "locked"
        /\ DecisionOf(request[r]) \in {"ReuseOutsideGrace", "Invalid"}
    BY <2>1, <2>2, <2>3
  <2>5. /\ request[r].at \in Nat /\ request[r].at <= now /\ now \in Nat
        /\ session[s].expires \in Nat
    BY <1>1, <2>4, ElementTypes DEF IInv, HandlerInv
  <2>6. Usable(session[s], request[r].at)
    BY <2>2, <2>5 DEF Usable
  <2>7. /\ n # session[s].current
        /\ ~Replayable(session[s], replay[s], n, request[r].at)
    BY <2>4, <2>6 DEF DecisionOf, Decide
  <2>8. Spent(chain[s], n) /\ InGrace(s)
    BY <2>7 DEF Owed
  <2>9. /\ replay[s] # NoRow
        /\ replay[s].until = since[s] + Grace
        /\ Spent(chain[s], replay[s].spent)
    BY <1>1, <2>8 DEF IInv, GrantMatchesRow, Spent
  <2>10. replay[s].until > request[r].at
    <3>1. since[s] + Grace \in Nat
      BY <1>1, ElementTypes, TimeAssumption DEF TimeAssumption, IInv
    <3> QED
      BY <2>5, <2>8, <2>9, <3>1 DEF InGrace
  <2>11. n = replay[s].spent
    BY <2>8, <2>9 DEF Spent
  <2> QED
    BY <2>7, <2>9, <2>10, <2>11 DEF Replayable, Fresh
<1>2. IInv /\ [Next]_vars =>
        [ \A r \in Request : JustAnswered(r, "unauthorized") => Excused(r) ]_vars
  BY <1>1
<1> QED
  BY <1>2, Invariance, PTL DEF Spec, GraceHonoured

=============================================================================
