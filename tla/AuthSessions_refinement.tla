---------------------- MODULE AuthSessions_refinement ----------------------
(***************************************************************************)
(* AuthSessions implements TokenFamily: the initial states map to initial  *)
(* states, and every step to a step of the abstract specification or to a  *)
(* stutter.                                                                *)
(***************************************************************************)
EXTENDS AuthSessions_proofs

LEMMA InitRefines == Init => Abstract!Init
<1> SUFFICES ASSUME Init PROVE Abstract!Init
  OBVIOUS
<1>1. Statuses = [ s \in Session |->
                     IF s \in LegacySession THEN "active" ELSE "unborn" ]
  BY DEF Statuses, Init, Open, Unborn
<1>2. chain \in [ Session -> { <<>> } \cup { <<n>> : n \in Token } ]
  BY LegacyAssumption DEF LegacyAssumption, Init
<1>3. \A s \in Session : chain[s] = <<>> <=> s \notin LegacySession
  BY DEF Init
<1> QED
  BY <1>1, <1>2, <1>3 DEF Init, Abstract!Init

(* What the abstract specification sees of a step. *)
Invisible == UNCHANGED <<now, session, chain, since, forfeited>>

LEMMA InvisibleStutters == Invisible => UNCHANGED Abstract!vars
BY DEF Invisible, Statuses, Abstract!vars

LEMMA StatusStep ==
  ASSUME NEW S \in SUBSET Session, NEW to,
         \A s \in Session : session'[s].status =
                              IF s \in S THEN to ELSE session[s].status
  PROVE  Statuses' = [ s \in Session |-> IF s \in S THEN to ELSE Statuses[s] ]
BY DEF Statuses

LEMMA RevokeRefines ==
  ASSUME IInv, NEW S \in SUBSET Session,
         \A s \in S : session[s].status \in {"active", "revoked"},
         Revoke(S)
  PROVE  Abstract!Close(S, "revoked")
<1>1. \A s \in Session : session'[s].status =
                           IF s \in S THEN "revoked" ELSE session[s].status
  <2>1. \A s \in Session : session[s] \in SessionRow
    BY ElementTypes DEF IInv
  <2>2. \A s \in Session :
          session'[s] = IF s \in S THEN [ session[s] EXCEPT !.status = "revoked" ]
                                   ELSE session[s]
    BY DEF Revoke
  <2> QED
    BY <2>1, <2>2 DEF SessionRow
<1>2. \A s \in S : Statuses[s] \in {"active", "revoked"}
  BY DEF Statuses
<1> QED
  BY <1>1, <1>2, StatusStep DEF Abstract!Close, Revoke

LEMMA DeleteAccountRefines ==
  ASSUME IInv, DeleteAccount
  PROVE  Abstract!Close(Session, "deleted")
<1>1. \A s \in Session : session'[s].status = "deleted"
  <2>1. \A s \in Session : session[s] \in SessionRow
    BY ElementTypes DEF IInv
  <2>2. \A s \in Session : session'[s] = [ session[s] EXCEPT !.status = "deleted" ]
    BY DEF DeleteAccount
  <2> QED
    BY <2>1, <2>2 DEF SessionRow
<1>2. Statuses' = [ s \in Session |-> IF s \in Session THEN "deleted" ELSE Statuses[s] ]
  BY <1>1 DEF Statuses
<1> QED
  BY <1>2 DEF Abstract!Close, DeleteAccount

LEMMA LoginRefines ==
  ASSUME IInv, NEW s \in Session, Login(s)
  PROVE  Abstract!Begin(s)
<1>1. PICK n \in Unused :
        /\ session' = [ session EXCEPT ![s] = Open(n, 0, now + Lifetime) ]
        /\ chain' = [ chain EXCEPT ![s] = <<n>> ]
  BY DEF Login
<1>2. n \in Token \ Abstract!Issued
  BY DEF Unused, Issued, Committed, Abstract!Issued
<1>3. Statuses' = [ Statuses EXCEPT ![s] = "active" ]
  BY <1>1 DEF Statuses, Open, IInv, TypeOK
<1>4. Statuses[s] = "unborn"
  BY DEF Login, Statuses
<1> QED
  BY <1>1, <1>2, <1>3, <1>4 DEF Login, Abstract!Begin

(* A rotation needs the grant of the previous one to be gone or expired,    *)
(* which is what keeps the barrier.                                         *)
LEMMA RotationRefines ==
  ASSUME IInv, NEW r \in Request, Rotates(r)
  PROVE  \E s \in Session : Abstract!Extend(s)
<1> DEFINE q == request[r]
<1> PICK s \in Session : s = q.sid
  BY RotationEffect
<1>1. /\ chain' = [ chain EXCEPT ![s] = Append(@, q.successor) ]
      /\ since' = [ since EXCEPT ![s] = q.at ]
      /\ session' = [ session EXCEPT ![s] = Rotated(q) ]
      /\ forfeited' = forfeited \ {s}
      /\ now' = now
  BY DEF Rotates, RotateOrMiss
<1>2. q.successor \in Token \ Abstract!Issued
  <2>1. q.successor \in Token
    BY RotationEffect
  <2>2. \A t \in Session : \A i \in DOMAIN chain[t] : chain[t][i] # q.successor
    BY ElementTypes DEF IInv, SuccessorInv, Rotates
  <2> QED
    BY <2>1, <2>2 DEF Abstract!Issued
<1>3. q.at \in since[s] .. now
  BY ElementTypes DEF IInv, HandlerInv, Rotates
<1>4. Statuses[s] = "active" /\ Statuses' = Statuses
  <2>1. session[s].status = "active" /\ Rotated(q).status = "active"
    BY DEF Rotates, Rotated, Open
  <2>2. \A t \in Session : session'[t].status = session[t].status
    BY <1>1, <2>1 DEF IInv, TypeOK
  <2> QED
    BY <2>1, <2>2 DEF Statuses
<1>5. ~Abstract!BarrierUp(s)
  <2> SUFFICES ASSUME Len(chain[s]) > 1, now < since[s] + Grace, s \notin forfeited
               PROVE  FALSE
    BY DEF Abstract!BarrierUp
  <2>1. /\ replay[s] # NoRow
        /\ replay[s].until = since[s] + Grace
        /\ replay[s].replacement = session[s].current
    BY DEF IInv, GrantMatchesRow, InGrace
  <2>2. since[s] + Grace \in Nat /\ now \in Nat
    BY ElementTypes, TimeAssumption DEF TimeAssumption, IInv
  <2>3. Fresh(replay[s], q.at)
    BY <1>3, <2>1, <2>2, ElementTypes DEF Fresh, IInv
  <2>4. q.token = session[s].current
    BY RotationEffect
  <2>5. Replayable(session[s], replay[s], q.token, q.at)
    BY <2>1, <2>3, <2>4 DEF Replayable
  <2> QED
    BY <2>5 DEF Rotates, DecisionOf, Decide
<1> QED
  BY <1>1, <1>2, <1>3, <1>4, <1>5 DEF Abstract!Extend

LEMMA ReuseRefines ==
  ASSUME IInv, NEW r \in Request, request[r].pc = "locked",
         DecisionOf(request[r]) = "ReuseOutsideGrace", RevokeOnReuse(r),
         now' = now
  PROVE  \E S \in SUBSET Session : Abstract!Close(S, "revoked")
<1> PICK s \in Session : s = request[r].sid
  BY DEF IInv, HandlerInv, InFlight
<1>1. session' = [ session EXCEPT ![s].status = "revoked" ]
  BY DEF RevokeOnReuse
<1>2. \A t \in Session : session'[t].status =
                           IF t \in {s} THEN "revoked" ELSE session[t].status
  <2>1. session[s] \in SessionRow
    BY ElementTypes DEF IInv
  <2> QED
    BY <1>1, <2>1 DEF IInv, TypeOK, SessionRow
<1>3. session[s].status = "active"
  BY DEF DecisionOf, Decide, Usable
<1>4. \A t \in {s} : Statuses[t] \in {"active", "revoked"}
  BY <1>3 DEF Statuses
<1>5. {s} \in SUBSET Session
  OBVIOUS
<1>6. Abstract!Close({s}, "revoked")
  BY <1>2, <1>4, <1>5, StatusStep DEF Abstract!Close, RevokeOnReuse
<1> QED
  BY <1>5, <1>6

LEMMA HandleRefines ==
  ASSUME IInv, NEW r \in Request, Handle(r)
  PROVE  Abstract!Next \/ UNCHANGED Abstract!vars
<1>1. CASE \E s \in Session : \E n \in Committed(s) : Present(r, s, n)
  BY <1>1, InvisibleStutters DEF Present, Invisible, rows
<1>2. CASE Prefetch(r) \/ Seal(r) \/ Lock(r) \/ Fail(r) \/ Respond(r)
  BY <1>2, InvisibleStutters
     DEF Prefetch, Seal, Lock, Fail, Respond, Invisible, rows
<1>3. CASE Settle(r)
  <2>1. CASE Reject(r, "retry") \/ Reject(r, "unauthorized") \/ ReplayStored(r)
    BY <1>3, <2>1, InvisibleStutters DEF Settle, Reject, ReplayStored, Invisible
  <2>2. CASE DecisionOf(request[r]) = "Rotate" /\ RotateOrMiss(r)
    <3>1. CASE /\ session[request[r].sid].rotation = request[r].rotation
               /\ session[request[r].sid].status = "active"
      <4>1. Rotates(r)
        BY <1>3, <2>2, <3>1 DEF Rotates, Settle
      <4> QED
        BY <4>1, RotationRefines DEF Abstract!Next
    <3>2. CASE ~ /\ session[request[r].sid].rotation = request[r].rotation
                 /\ session[request[r].sid].status = "active"
      BY <1>3, <2>2, <3>2, InvisibleStutters DEF Settle, RotateOrMiss, Invisible
    <3> QED
      BY <3>1, <3>2
  <2>3. CASE DecisionOf(request[r]) = "ReuseOutsideGrace" /\ RevokeOnReuse(r)
    BY <1>3, <2>3, ReuseRefines DEF Settle, Abstract!Next
  <2> QED
    BY <1>3, <2>1, <2>2, <2>3 DEF Settle
<1> QED
  BY <1>1, <1>2, <1>3 DEF Handle

LEMMA StepRefines ==
  ASSUME IInv, [Next]_vars
  PROVE  [Abstract!Next]_Abstract!vars
<1>1. ASSUME NEW r \in Request, Handle(r)
      PROVE  [Abstract!Next]_Abstract!vars
  BY <1>1, HandleRefines
<1>2. ASSUME NEW s \in Session, Login(s) PROVE Abstract!Next
  BY <1>2, LoginRefines DEF Abstract!Next
<1>3. ASSUME NEW s \in Session, Logout(s) PROVE Abstract!Next
  <2>1. {s} \in SUBSET Session
    OBVIOUS
  <2> QED
    BY <1>3, <2>1, RevokeRefines DEF Logout, Abstract!Next
<1>4. ASSUME NEW kept \in SUBSET Session, RevokeOthers(kept) PROVE Abstract!Next
  <2> DEFINE others == { s \in Session \ kept : Usable(session[s], now) }
  <2>1. others \in SUBSET Session
    OBVIOUS
  <2>2. \A s \in others : session[s].status \in {"active", "revoked"}
    BY DEF Usable
  <2>3. Revoke(others)
    BY <1>4 DEF RevokeOthers
  <2>4. Abstract!Close(others, "revoked")
    BY <2>1, <2>2, <2>3, RevokeRefines
  <2> QED
    BY <2>1, <2>4 DEF Abstract!Next
<1>5. CASE DeleteAccount
  BY <1>5, DeleteAccountRefines DEF Abstract!Next
<1>6. CASE (\E flag \in DrainFlags : SetDrain(flag)) \/ SweepSelect \/ UNCHANGED vars
  BY <1>6, InvisibleStutters DEF SetDrain, SweepSelect, Invisible, rows, vars
<1>7. CASE SweepDelete
  <2> DEFINE early == { s \in sweep : Fresh(replay[s], now) }
  <2>1. early \in SUBSET Session
    BY DEF IInv, TypeOK
  <2>2. Abstract!Forfeit(early)
    BY <1>7 DEF SweepDelete, Abstract!Forfeit, Statuses
  <2> QED
    BY <2>1, <2>2 DEF Abstract!Next
<1>8. CASE Tick
  BY <1>8 DEF Tick, rows, Abstract!Tick, Abstract!Next, Statuses
<1>9. {} \in SUBSET Session /\ \A s \in Session : {s} \in SUBSET Session
  OBVIOUS
<1> QED
  BY <1>1, <1>2, <1>3, <1>4, <1>5, <1>6, <1>7, <1>8, <1>9 DEF Next

(* Refinement: for any number of handlers and any schedule of logouts,      *)
(* password resets, drains and cleanups, a family is a chain with one       *)
(* successor per token and no rotation inside a grace, closed for good once *)
(* closed.                                                                  *)
THEOREM ServerImplementsTokenFamily == Spec => ImplementsTokenFamily
BY InitRefines, StepRefines, Invariance, PTL
   DEF Spec, ImplementsTokenFamily, Abstract!Spec

=============================================================================
