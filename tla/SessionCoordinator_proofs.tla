--------------------- MODULE SessionCoordinator_proofs ---------------------
(***************************************************************************)
(* Proofs about SessionCoordinator, for any number of logins, rotations,   *)
(* process deaths and lost or late POSTs and any bounds: that its          *)
(* variables keep their types whatever SecureStore does, and, while at     *)
(* most two of its calls fail, that the newest login and the logout win,   *)
(* that the client neither falls back behind a stored rotation nor trails  *)
(* the server by more than one, and that only the server signs a user out. *)
(***************************************************************************)
EXTENDS SessionCoordinator, TLAPS

-----------------------------------------------------------------------------
(* The operations of the store.                                            *)

Outcomes ==
  [ disk: Disk, result: {"done", "threw", "refused"}, record: Record, faults: Nat ]

LEMMA OutcomeType ==
  ASSUME NEW d \in Disk, NEW result \in {"done", "threw", "refused"}, NEW record \in Record,
         NEW n \in Nat
  PROVE  Outcome(d, result, record, n) \in Outcomes
  BY DEF Outcome, Outcomes

LEMMA WriteType ==
  ASSUME NEW d \in Disk, NEW record \in Record, NEW o \in WriteVerified(d, record)
  PROVE  o \in Outcomes
<1> DEFINE written == [ d EXCEPT !.canonical = record ]
<1>1. /\ written \in Disk
      /\ [ written EXCEPT !.shadow = NoRecord ] \in Disk
      /\ [ d EXCEPT !.shadow = record ] \in Disk
  BY DEF Disk
<1>2. WriteVerified(d, record) =
        { Outcome([ written EXCEPT !.shadow = NoRecord ], "done", record, 0),
          Outcome(written, "done", record, 1),
          Outcome(d, "threw", record, 1),
          Outcome(written, "threw", record, 1),
          Outcome([ d EXCEPT !.shadow = record ], "threw", record, 1) }
  BY DEF WriteVerified
<1> HIDE DEF written
<1>3. QED BY <1>1, <1>2, OutcomeType

LEMMA ReadType ==
  ASSUME NEW d \in Disk, NEW o \in ReadPersisted(d)
  PROVE  o \in Outcomes
<1>1. d.canonical \in Record /\ [ d EXCEPT !.shadow = NoRecord ] \in Disk
  BY DEF Disk
<1>2. CASE o \in { Outcome(d, "threw", d.canonical, 1), Outcome(d, "done", d.canonical, 1),
                   Outcome(d, "done", d.canonical, 0),
                   Outcome([ d EXCEPT !.shadow = NoRecord ], "done", d.canonical, 0) }
  BY <1>1, <1>2, OutcomeType
<1>3. CASE /\ d.shadow # NoRecord
           /\ \E w \in WriteVerified(d, d.shadow) : o = [ w EXCEPT !.result = "done" ]
  <2>1. d.shadow \in Record
    BY <1>3 DEF Disk
  <2>2. PICK w \in WriteVerified(d, d.shadow) : o = [ w EXCEPT !.result = "done" ]
    BY <1>3
  <2>3. w \in Outcomes
    BY <2>1, WriteType
  <2>4. QED BY <2>2, <2>3 DEF Outcomes
<1>4. QED BY <1>2, <1>3 DEF ReadPersisted

LEMMA RewriteType ==
  ASSUME NEW r \in Outcomes, NEW t \in Token \cup {NoToken}, NEW o \in Rewrite(r, t)
  PROVE  o \in Outcomes
<1> DEFINE record == [ revision |-> r.record.revision + 1, token |-> t ]
<1>1. record \in Record /\ r.disk \in Disk /\ r.faults \in Nat
  BY DEF Outcomes, Record
<1>2. PICK w \in WriteVerified(r.disk, record) : o = [ w EXCEPT !.faults = @ + r.faults ]
  BY DEF Rewrite
<1>3. w \in Outcomes
  BY <1>1, WriteType
<1>4. QED BY <1>1, <1>2, <1>3 DEF Outcomes

LEMMA CasType ==
  ASSUME NEW d \in Disk, NEW n, NEW t \in Token \cup {NoToken},
         NEW o \in CompareAndSwap(d, n, t)
  PROVE  o \in Outcomes
<1>1. PICK r \in ReadPersisted(d) :
        o \in IF r.result = "threw" THEN { r }
              ELSE IF r.record.revision # n THEN { [ r EXCEPT !.result = "refused" ] }
              ELSE Rewrite(r, t)
  BY DEF CompareAndSwap
<1>2. r \in Outcomes
  BY ReadType
<1>3. [ r EXCEPT !.result = "refused" ] \in Outcomes
  BY <1>2 DEF Outcomes
<1>4. QED BY <1>1, <1>2, <1>3, RewriteType

LEMMA SaveType ==
  ASSUME NEW d \in Disk, NEW t \in Token, NEW o \in SaveSession(d, t)
  PROVE  o \in Outcomes
<1>1. PICK r \in ReadPersisted(d) : o \in IF r.result = "threw" THEN { r } ELSE Rewrite(r, t)
  BY DEF SaveSession
<1>2. QED BY <1>1, ReadType, RewriteType

LEMMA ClearType ==
  ASSUME NEW d \in Disk, NEW o \in ClearSession(d)
  PROVE  o \in Outcomes
<1>1. PICK r \in ReadPersisted(d) :
        o \in IF r.result = "threw" \/ Empty(r.record) THEN { r } ELSE Rewrite(r, NoToken)
  BY DEF ClearSession
<1>2. QED BY <1>1, ReadType, RewriteType

LEMMA TouchType ==
  ASSUME NEW d \in Disk, NEW o \in TouchSession(d)
  PROVE  o \in Outcomes
<1>1. PICK r \in ReadPersisted(d) :
        o \in IF r.result = "threw" \/ Empty(r.record) THEN { r } ELSE Rewrite(r, r.record.token)
  BY DEF TouchSession
<1>2. r \in Outcomes /\ r.record.token \in Token \cup {NoToken}
  BY ReadType DEF Outcomes, Record
<1>3. QED BY <1>1, <1>2, RewriteType

LEMMA HappensType ==
  ASSUME TypeOK, NEW o \in Outcomes, Happens(o)
  PROVE  disk' \in Disk /\ faults' \in Nat
  BY DEF TypeOK, Happens, Outcomes

-----------------------------------------------------------------------------
(* Types.                                                                  *)

(* What an attempt and a login hold at the step they stand at.             *)
CoordinatorTypes ==
  /\ TypeOK
  /\ attempt.pc \in {"posted", "waiting", "retrying", "answered"} => attempt.token \in Token
  /\ attempt.pc \in {"committing", "committed"} => attempt.mutation \in Mutation
  /\ user.pc \in {"saving", "saved"} => user.family \in Family

LEMMA InitTypes == Init => CoordinatorTypes
<1> SUFFICES ASSUME Init PROVE CoordinatorTypes
  OBVIOUS
<1>1. session \in [ Family -> SessionRow ] /\ replay \in [ Family -> ReplayRow \cup {NoRow} ]
  BY DEF Init, Unborn, SessionRow
<1>2. disk \in Disk
  BY DEF Init, Disk, Record
<1>3. attempt \in Attempt /\ attempt.pc = "idle"
  BY DEF Init, IdleAttempt, Attempt, Record
<1>4. user \in [ pc: {"idle", "saving", "saved", "leaving", "clearing"}, family: Nat ]
      /\ user.pc = "idle"
  BY DEF Init, IdleUser
<1>5. QED
  BY <1>1, <1>2, <1>3, <1>4, BoundAssumption DEF Init, CoordinatorTypes, TypeOK

(* What a step may do to the memory of the coordinator.                    *)
MemoryTypes ==
  /\ attempt' \in Attempt
  /\ pending' \in Mutation \cup {NoMutation}
  /\ confirmedInvalid' \in BOOLEAN
  /\ attempt'.pc \in {"posted", "waiting", "retrying", "answered"} => attempt'.token \in Token
  /\ attempt'.pc \in {"committing", "committed"} => attempt'.mutation \in Mutation

LEMMA IdleType == IdleAttempt \in Attempt /\ IdleAttempt.pc = "idle"
  BY DEF IdleAttempt, Attempt, Record

LEMMA EndTypes == ASSUME CoordinatorTypes, End PROVE MemoryTypes
  BY IdleType DEF CoordinatorTypes, TypeOK, End, MemoryTypes

LEMMA SupersedeTypes == ASSUME CoordinatorTypes, Supersede PROVE MemoryTypes
<1>1. attempt \in Attempt
  BY DEF CoordinatorTypes, TypeOK
<1>2. attempt' \in Attempt /\ attempt'.pc = attempt.pc /\ attempt'.token = attempt.token
      /\ attempt'.mutation = attempt.mutation
  BY <1>1 DEF Supersede, Attempt
<1>3. QED BY <1>2 DEF CoordinatorTypes, Supersede, MemoryTypes

LEMMA SameMemoryTypes == ASSUME CoordinatorTypes, UNCHANGED memory PROVE MemoryTypes
  BY DEF CoordinatorTypes, TypeOK, memory, MemoryTypes

LEMMA DropTypes ==
  ASSUME CoordinatorTypes, DropPending
  PROVE  pending' \in Mutation \cup {NoMutation} /\ confirmedInvalid' \in BOOLEAN
  BY DEF CoordinatorTypes, TypeOK, DropPending

LEMMA RetryTypes ==
  ASSUME CoordinatorTypes, NEW current \in Record, pending # NoMutation, RetryPending(current)
  PROVE  MemoryTypes
<1> USE DEF CoordinatorTypes, TypeOK
<1>1. CASE pending' = NoMutation /\ attempt' = IdleAttempt /\ UNCHANGED confirmedInvalid
  BY <1>1, IdleType DEF MemoryTypes
<1>2. CASE DropPending /\ attempt' = IdleAttempt
  BY <1>2, IdleType, DropTypes DEF MemoryTypes
<1>3. CASE /\ attempt' = [ attempt EXCEPT !.pc = "committing", !.mutation = pending ]
           /\ KeepPending
  <2>1. attempt' \in Attempt /\ attempt'.pc = "committing" /\ attempt'.mutation = pending
    BY <1>3 DEF Attempt
  <2>2. QED BY <1>3, <2>1 DEF MemoryTypes, KeepPending
<1>4. QED BY <1>1, <1>2, <1>3 DEF RetryPending

(* The steps of an attempt that read the store or write to it.             *)
LEMMA StartTypes == ASSUME CoordinatorTypes, Start PROVE MemoryTypes /\ disk' \in Disk /\ faults' \in Nat
<1> USE DEF CoordinatorTypes, TypeOK
<1>1. PICK r \in ReadPersisted(disk) :
        Read(r) /\ attempt' = [ IdleAttempt EXCEPT !.pc = "begun", !.baseline = r.record ]
  BY DEF Start
<1>2. r \in Outcomes
  BY ReadType
<1>3. attempt' \in Attempt /\ attempt'.pc = "begun"
  BY <1>1, <1>2, IdleType DEF Attempt, Outcomes
<1>4. QED BY <1>1, <1>2, <1>3, HappensType DEF Start, Read, MemoryTypes

LEMMA CheckTypes == ASSUME CoordinatorTypes, Check PROVE MemoryTypes /\ disk' \in Disk /\ faults' \in Nat
<1> USE DEF CoordinatorTypes, TypeOK
<1>1. PICK r \in ReadPersisted(disk) :
       /\ Read(r)
       /\ IF r.result = "threw" \/ attempt.superseded THEN End
          ELSE IF Capability(r.record) # NoToken
          THEN /\ attempt' = [ attempt EXCEPT !.pc = "posted", !.token = Capability(r.record) ]
               /\ KeepPending
          ELSE IF pending # NoMutation THEN RetryPending(r.record)
          ELSE End
  BY DEF Check
<1>2. r \in Outcomes /\ r.record \in Record
  BY ReadType DEF Outcomes
<1>3. disk' \in Disk /\ faults' \in Nat
  BY <1>1, <1>2, HappensType DEF Read
<1>4. CASE End
  BY <1>3, <1>4, EndTypes
<1>5. CASE pending # NoMutation /\ RetryPending(r.record)
  BY <1>2, <1>3, <1>5, RetryTypes
<1>6. CASE /\ Capability(r.record) # NoToken
           /\ attempt' = [ attempt EXCEPT !.pc = "posted", !.token = Capability(r.record) ]
           /\ KeepPending
  <2>1. Capability(r.record) \in Token
    BY <1>2, <1>6 DEF Capability, Record
  <2>2. attempt' \in Attempt /\ attempt'.pc = "posted" /\ attempt'.token \in Token
    BY <1>6, <2>1 DEF Attempt
  <2>3. QED BY <1>3, <1>6, <2>2 DEF KeepPending, MemoryTypes
<1>7. QED BY <1>1, <1>4, <1>5, <1>6

LEMMA ResendTypes == ASSUME CoordinatorTypes, Resend PROVE MemoryTypes /\ disk' \in Disk /\ faults' \in Nat
<1> USE DEF CoordinatorTypes, TypeOK
<1>1. PICK r \in ReadPersisted(disk) :
       /\ Read(r)
       /\ attempt' = IF r.result = "done" /\ r.record = attempt.baseline
                     THEN [ attempt EXCEPT !.pc = "posted", !.retried = TRUE ]
                     ELSE IdleAttempt
  BY DEF Resend
<1>2. disk' \in Disk /\ faults' \in Nat
  BY <1>1, ReadType, HappensType DEF Read
<1>3. \/ attempt' = IdleAttempt
      \/ attempt' \in Attempt /\ attempt'.pc = "posted" /\ attempt'.token \in Token
  BY <1>1 DEF Resend, Attempt
<1>4. QED BY <1>2, <1>3, IdleType DEF Resend, MemoryTypes

LEMMA HandleTypes == ASSUME CoordinatorTypes, Handle PROVE MemoryTypes /\ disk' \in Disk /\ faults' \in Nat
<1> USE DEF CoordinatorTypes, TypeOK
<1>1. CASE End /\ UNCHANGED <<disk, faults>>
  BY <1>1, EndTypes
<1>2. CASE \E r \in ReadPersisted(disk) :
             /\ Read(r)
             /\ IF r.result = "done" /\ r.record = attempt.baseline
                THEN /\ attempt' = [ attempt EXCEPT !.pc = "committing",
                           !.mutation = [ base |-> attempt.baseline, next |-> attempt.granted ] ]
                     /\ confirmedInvalid' = (confirmedInvalid \/ attempt.answer = "invalid")
                     /\ UNCHANGED pending
                ELSE End
  <2>1. PICK r \in ReadPersisted(disk) :
             /\ Read(r)
             /\ IF r.result = "done" /\ r.record = attempt.baseline
                THEN /\ attempt' = [ attempt EXCEPT !.pc = "committing",
                           !.mutation = [ base |-> attempt.baseline, next |-> attempt.granted ] ]
                     /\ confirmedInvalid' = (confirmedInvalid \/ attempt.answer = "invalid")
                     /\ UNCHANGED pending
                ELSE End
    BY <1>2
  <2>2. disk' \in Disk /\ faults' \in Nat
    BY <2>1, ReadType, HappensType DEF Read
  <2>3. CASE /\ attempt' = [ attempt EXCEPT !.pc = "committing",
                     !.mutation = [ base |-> attempt.baseline, next |-> attempt.granted ] ]
             /\ confirmedInvalid' = (confirmedInvalid \/ attempt.answer = "invalid")
             /\ UNCHANGED pending
    <3>1. [ base |-> attempt.baseline, next |-> attempt.granted ] \in Mutation
      BY DEF Attempt, Mutation
    <3>2. attempt' \in Attempt /\ attempt'.pc = "committing" /\ attempt'.mutation \in Mutation
      BY <2>3, <3>1 DEF Attempt
    <3>3. QED BY <2>2, <2>3, <3>2 DEF MemoryTypes
  <2>4. QED BY <2>1, <2>2, <2>3, EndTypes
<1>3. QED BY <1>1, <1>2 DEF Handle

LEMMA ApplyTypes == ASSUME CoordinatorTypes, Apply PROVE MemoryTypes /\ disk' \in Disk /\ faults' \in Nat
<1> USE DEF CoordinatorTypes, TypeOK
<1>1. PICK o \in CompareAndSwap(disk, attempt.mutation.base.revision, attempt.mutation.next) :
       /\ Happens(o)
       /\ attempt' = [ attempt EXCEPT !.pc = "committed", !.answer = o.result ]
  BY DEF Apply
<1>2. attempt.mutation \in Mutation /\ attempt.mutation.next \in Token \cup {NoToken}
  BY DEF Apply, Mutation
<1>3. o \in Outcomes
  BY <1>2, CasType
<1>4. disk' \in Disk /\ faults' \in Nat
  BY <1>1, <1>3, HappensType
<1>5. attempt' \in Attempt /\ attempt'.pc = "committed" /\ attempt'.mutation = attempt.mutation
  BY <1>1, <1>3 DEF Attempt, Outcomes
<1>6. QED BY <1>2, <1>4, <1>5 DEF Apply, MemoryTypes

LEMMA FinishTypes == ASSUME CoordinatorTypes, Finish PROVE MemoryTypes /\ disk' \in Disk /\ faults' \in Nat
  BY IdleType DEF CoordinatorTypes, TypeOK, Finish, KeepPending, MemoryTypes

LEMMA FetchTypes ==
  ASSUME CoordinatorTypes, FetchFails \/ Wake
  PROVE  MemoryTypes /\ wire' \in SUBSET Token
<1> USE DEF CoordinatorTypes, TypeOK
<1>1. CASE FetchFails
  <2>1. \/ attempt' = IdleAttempt
        \/ attempt' \in Attempt /\ attempt'.pc = "waiting" /\ attempt'.token \in Token
    BY <1>1 DEF FetchFails, Attempt
  <2>2. QED BY <1>1, <2>1, IdleType DEF FetchFails, MemoryTypes
<1>2. CASE Wake
  <2>1. \/ attempt' = IdleAttempt
        \/ attempt' \in Attempt /\ attempt'.pc = "retrying" /\ attempt'.token \in Token
    BY <1>2 DEF Wake, Attempt
  <2>2. QED BY <1>2, <2>1, IdleType DEF Wake, MemoryTypes
<1>3. QED BY <1>1, <1>2

(* The server. *)
TablesTyped ==
  session' \in [ Family -> SessionRow ] /\ replay' \in [ Family -> ReplayRow \cup {NoRow} ]

LEMMA TokenShape ==
  ASSUME NEW n \in Token
  PROVE  n[1] \in Family /\ n[1] \in Nat /\ n[2] \in Nat /\ n = <<n[1], n[2]>>
<1>1. n \in Family \X Nat
  BY FamilyAssumption, Zenon
<1>2. Family \subseteq Nat
  BY FamilyAssumption, Zenon
<1>3. n[1] \in Family /\ n[2] \in Nat /\ n = <<n[1], n[2]>>
  BY <1>1
<1>4. QED BY <1>2, <1>3

LEMMA ServedTypes ==
  ASSUME CoordinatorTypes, NEW n \in Token, NEW answer, NEW granted, Served(n, answer, granted)
  PROVE  TablesTyped
<1> USE DEF CoordinatorTypes, TypeOK
<1>0. n[1] \in Family /\ n[2] \in Nat
  BY TokenShape
<1>1. CASE UNCHANGED <<session, replay>>
  BY <1>1 DEF TablesTyped
<1>2. CASE /\ Successor(n) \in Token
           /\ session' = [ session EXCEPT ![n[1]] = Row(n) ]
           /\ replay' = [ replay EXCEPT ![n[1]] = Grant(n) ]
  <2>1. Row(n) \in SessionRow
    BY <1>0, <1>2, BoundAssumption DEF Row, SessionRow
  <2>2. Grant(n) \in ReplayRow
    BY <1>2, BoundAssumption DEF Grant, ReplayRow
  <2>3. QED BY <1>0, <1>2, <2>1, <2>2 DEF TablesTyped
<1>3. CASE /\ session' = [ session EXCEPT ![n[1]].status = "revoked" ]
           /\ UNCHANGED replay
  <2>1. session[n[1]] \in SessionRow
    BY <1>0
  <2>2. [ session[n[1]] EXCEPT !.status = "revoked" ] \in SessionRow
    BY <2>1 DEF SessionRow
  <2>3. QED BY <1>0, <1>3, <2>2 DEF TablesTyped
<1>4. QED BY <1>1, <1>2, <1>3 DEF Served

LEMMA ServeTypes == ASSUME CoordinatorTypes, Serve PROVE TablesTyped /\ MemoryTypes
<1>1. PICK answer \in {"ok", "invalid", "transient"}, granted \in Token \cup {NoToken} :
       /\ Served(attempt.token, answer, granted)
       /\ attempt' = [ attempt EXCEPT !.pc = "answered", !.answer = answer, !.granted = granted ]
  BY DEF Serve
<1>2. attempt.token \in Token
  BY DEF CoordinatorTypes, Serve
<1>3. TablesTyped
  BY <1>1, <1>2, ServedTypes
<1>4. attempt' \in Attempt /\ attempt'.pc = "answered" /\ attempt'.token \in Token
  BY <1>1, <1>2 DEF CoordinatorTypes, TypeOK, Attempt
<1>5. QED BY <1>3, <1>4 DEF CoordinatorTypes, TypeOK, Serve, MemoryTypes

LEMMA RevokeTypes ==
  ASSUME CoordinatorTypes, NEW f \in Family,
         session' = [ session EXCEPT ![f].status = "revoked" ], UNCHANGED replay
  PROVE  TablesTyped
  BY DEF CoordinatorTypes, TypeOK, TablesTyped, SessionRow

LEMMA LoginTypes ==
  ASSUME CoordinatorTypes, NEW f \in Family, Login(f)
  PROVE  TablesTyped /\ MemoryTypes /\ user' \in [ pc: {"saving"}, family: Family ]
<1>1. Opened(f) \in SessionRow
  BY FamilyAssumption, BoundAssumption DEF Opened, SessionRow
<1>2. QED BY <1>1, SupersedeTypes DEF CoordinatorTypes, TypeOK, Login, TablesTyped

(* The steps of the user that write to the store. *)
LEMMA SaveLoginTypes ==
  ASSUME CoordinatorTypes, SaveLogin
  PROVE  /\ disk' \in Disk /\ faults' \in Nat /\ latest' \in Nat
         /\ user' = [ user EXCEPT !.pc = "saved" ] \/ user' = IdleUser
<1>1. PICK o \in SaveSession(disk, <<user.family, 0>>) :
       /\ Happens(o)
       /\ user' = IF o.result = "done" THEN [ user EXCEPT !.pc = "saved" ] ELSE IdleUser
       /\ latest' = IF o.result = "done" THEN user.family ELSE latest
  BY DEF SaveLogin
<1>2. <<user.family, 0>> \in Token /\ user.family \in Nat
  BY FamilyAssumption DEF CoordinatorTypes, SaveLogin
<1>3. o \in Outcomes
  BY <1>2, SaveType DEF CoordinatorTypes, TypeOK
<1>4. QED BY <1>1, <1>2, <1>3, HappensType DEF CoordinatorTypes, TypeOK

LEMMA ClearStoreTypes ==
  ASSUME CoordinatorTypes, ClearStore
  PROVE  disk' \in Disk /\ faults' \in Nat /\ signOut' \in {"none", "asked", "confirmed"}
<1>1. PICK o \in ClearSession(disk) :
       Happens(o) /\ signOut' = IF o.result = "done" THEN "confirmed" ELSE signOut
  BY DEF ClearStore
<1>2. QED BY <1>1, ClearType, HappensType DEF CoordinatorTypes, TypeOK

LEMMA TouchTypes == ASSUME CoordinatorTypes, Touch PROVE disk' \in Disk /\ faults' \in Nat
  BY TouchType, HappensType DEF CoordinatorTypes, TypeOK, Touch

LEMMA ReadEffectiveTypes ==
  ASSUME CoordinatorTypes, ReadEffective
  PROVE  MemoryTypes /\ disk' \in Disk /\ faults' \in Nat
<1> USE DEF CoordinatorTypes, TypeOK
<1>1. PICK r \in ReadPersisted(disk) : Read(r) /\ EffectiveRead(r)
  BY DEF ReadEffective
<1>2. disk' \in Disk /\ faults' \in Nat
  BY <1>1, ReadType, HappensType DEF Read
<1>3. UNCHANGED attempt
  BY DEF ReadEffective
<1>4. CASE KeepPending
  BY <1>2, <1>3, <1>4 DEF KeepPending, MemoryTypes
<1>5. CASE pending' = NoMutation /\ UNCHANGED confirmedInvalid
  BY <1>2, <1>3, <1>5 DEF MemoryTypes
<1>6. CASE DropPending
  BY <1>2, <1>3, <1>6, DropTypes DEF MemoryTypes
<1>7. QED BY <1>1, <1>4, <1>5, <1>6 DEF EffectiveRead

LEMMA NotifyTypes ==
  ASSUME CoordinatorTypes, Notify
  PROVE  MemoryTypes /\ disk' \in Disk /\ faults' \in Nat
<1>1. PICK r \in ReadPersisted(disk) : Read(r)
  BY DEF Notify
<1>2. QED BY <1>1, ReadType, HappensType, SupersedeTypes DEF CoordinatorTypes, TypeOK, Notify, Read

LEMMA StepTypes == CoordinatorTypes /\ [Next]_vars => CoordinatorTypes'
<1> SUFFICES ASSUME CoordinatorTypes, [Next]_vars PROVE CoordinatorTypes'
  OBVIOUS
<1> USE DEF CoordinatorTypes, TypeOK
<1>1. CASE Start
  BY <1>1, StartTypes DEF Start, server, history, MemoryTypes
<1>2. CASE Check
  BY <1>2, CheckTypes DEF Check, server, history, MemoryTypes
<1>3. CASE FetchFails
  BY <1>3, FetchTypes DEF FetchFails, server, history, MemoryTypes
<1>4. CASE Wake
  BY <1>4, FetchTypes DEF Wake, server, history, MemoryTypes
<1>5. CASE Resend
  BY <1>5, ResendTypes DEF Resend, server, history, MemoryTypes
<1>6. CASE Handle
  BY <1>6, HandleTypes DEF Handle, server, history, MemoryTypes
<1>7. CASE Apply
  BY <1>7, ApplyTypes DEF Apply, server, history, MemoryTypes
<1>8. CASE Finish
  BY <1>8, FinishTypes DEF Finish, server, history, MemoryTypes
<1>9. CASE ReadEffective
  BY <1>9, ReadEffectiveTypes DEF ReadEffective, server, history, MemoryTypes
<1>10. CASE Notify
  BY <1>10, NotifyTypes DEF Notify, server, history, MemoryTypes
<1>11. CASE Serve
  BY <1>11, ServeTypes DEF Serve, history, MemoryTypes, TablesTyped
<1>12. CASE \E n \in wire : ServeLate(n)
  <2>1. PICK n \in wire : ServeLate(n)
    BY <1>12
  <2>2. TablesTyped
    BY <2>1, ServedTypes DEF ServeLate
  <2>3. MemoryTypes
    BY <2>1, SameMemoryTypes DEF ServeLate
  <2>4. QED BY <2>1, <2>2, <2>3 DEF ServeLate, history, memory, MemoryTypes, TablesTyped
<1>13. CASE \E f \in Family : RevokeElsewhere(f)
  <2>1. PICK f \in Family : RevokeElsewhere(f)
    BY <1>13
  <2>2. TablesTyped
    BY <2>1, RevokeTypes DEF RevokeElsewhere
  <2>3. QED BY <2>1, <2>2 DEF RevokeElsewhere, history, memory, TablesTyped
<1>14. CASE \E f \in Family : Login(f)
  <2>1. PICK f \in Family : Login(f)
    BY <1>14
  <2>2. TablesTyped /\ MemoryTypes /\ user' \in [ pc: {"saving"}, family: Family ]
    BY <2>1, LoginTypes
  <2>3. user' \in [ pc: {"idle", "saving", "saved", "leaving", "clearing"}, family: Nat ]
        /\ user'.family \in Family
    BY <2>2, FamilyAssumption
  <2>4. QED BY <2>1, <2>2, <2>3 DEF Login, MemoryTypes, TablesTyped
<1>15. CASE SaveLogin
  <2>1. /\ user' \in [ pc: {"idle", "saving", "saved", "leaving", "clearing"}, family: Nat ]
        /\ user'.pc \in {"saving", "saved"} => user'.family \in Family
    BY <1>15, SaveLoginTypes DEF SaveLogin, IdleUser
  <2>2. QED BY <1>15, <2>1, SaveLoginTypes, SameMemoryTypes DEF SaveLogin, server, memory
<1>16. CASE Activate
  BY <1>16, SupersedeTypes DEF Activate, IdleUser, server, history, MemoryTypes
<1>17. CASE Logout
  BY <1>17, SupersedeTypes DEF Logout, IdleUser, server, MemoryTypes
<1>18. CASE LogoutServer
  <2>1. TablesTyped
    <3>1. CASE UNCHANGED session
      BY <1>18, <3>1 DEF LogoutServer, TablesTyped
    <3>2. CASE ~Empty(disk.canonical)
               /\ session' = [ session EXCEPT ![disk.canonical.token[1]].status = "revoked" ]
      <4>1. disk.canonical.token \in Token
        BY <3>2 DEF Empty, Disk, Record
      <4>2. QED BY <1>18, <3>2, <4>1, TokenShape, RevokeTypes DEF LogoutServer
    <3>3. QED BY <1>18, <3>1, <3>2 DEF LogoutServer
  <2>2. /\ user' \in [ pc: {"idle", "saving", "saved", "leaving", "clearing"}, family: Nat ]
        /\ user'.pc = "clearing"
    BY <1>18 DEF LogoutServer
  <2>3. QED BY <1>18, <2>1, <2>2 DEF LogoutServer, memory, history, TablesTyped
<1>19. CASE ClearStore
  BY <1>19, ClearStoreTypes DEF ClearStore, IdleUser, server, memory
<1>20. CASE Touch
  BY <1>20, TouchTypes DEF Touch, server, memory, history
<1>21. CASE Restart
  <2>1. wire' \in SUBSET Token /\ restarts' \in Nat
    BY <1>21 DEF Restart
  <2>2. QED BY <1>21, <2>1, IdleType DEF Restart, IdleUser, server, history
<1>22. CASE Tick
  BY <1>22 DEF Tick, memory, history
<1>23. CASE UNCHANGED vars
  BY <1>23 DEF vars, server, memory, history
<1>24. QED
  BY <1>1, <1>2, <1>3, <1>4, <1>5, <1>6, <1>7, <1>8, <1>9, <1>10, <1>11, <1>12, <1>13, <1>14,
     <1>15, <1>16, <1>17, <1>18, <1>19, <1>20, <1>21, <1>22, <1>23 DEF Next, Refresh

(* Every variable has its type, whatever SecureStore does: what an attempt, *)
(* a pending commit or a login remembers is always fit for the step it is   *)
(* used in.                                                                 *)
THEOREM CoordinatorTypeCorrect == Spec => []TypeOK
<1>1. CoordinatorTypes => TypeOK
  BY DEF CoordinatorTypes
<1>2. QED BY <1>1, InitTypes, StepTypes, PTL DEF Spec

-----------------------------------------------------------------------------
(* The store while at most two of its calls fail.  A shadow costs one of    *)
(* them, so what keeps it alive, hides it or interrupts its adoption is the *)
(* last.                                                                   *)

(* The two records a disk stands for, and those a read may still return:    *)
(* with no failure to come, every read returns the visible one.             *)
Stored(d) == { d.canonical, Visible(d) }

Seen(d, k) == IF k = 0 THEN { Visible(d) } ELSE Stored(d)

(* The shadow is the successor of the canonical record, or a copy of it     *)
(* that could not be deleted.                                               *)
ShadowInv(d, k) ==
  d.shadow # NoRecord =>
    /\ k <= 1
    /\ d.shadow.revision = d.canonical.revision + 1 \/ (k = 0 /\ d.shadow = d.canonical)
    /\ ~Empty(d.canonical) /\ ~Empty(d.shadow) /\ d.shadow.token[1] = d.canonical.token[1]
         => d.canonical.token[2] <= d.shadow.token[2]

StoreShape(d, k) == d \in Disk /\ k \in 0 .. 2 /\ ShadowInv(d, k)

(* An operation that changes nothing to see. *)
Keeps(d, k, e, j) == Visible(e) = Visible(d) /\ e.canonical \in Stored(d) /\ j <= k

(* How a read that was answered has gone: the shadow is adopted and gone or *)
(* did not matter; it did not show; or it was returned but not adopted.     *)
Clean(d, r, j) == Stored(r.disk) = { r.record } /\ r.record = Visible(d)
Hidden(d, k, r, j) == k > 0 /\ j = 0 /\ r.disk = d /\ r.record = d.canonical
Unadopted(d, k, r, j) ==
  /\ k > 0 /\ j = 0 /\ r.record = Visible(d)
  /\ Visible(d).revision = d.canonical.revision + 1

LEMMA VisibleOf ==
  ASSUME NEW d \in Disk
  PROVE  /\ d.canonical \in Record /\ Visible(d) \in Record
         /\ d.shadow = NoRecord => Visible(d) = d.canonical /\ Stored(d) = { d.canonical }
         /\ d.shadow = d.canonical => Visible(d) = d.canonical /\ Stored(d) = { d.canonical }
         /\ \/ Visible(d) = d.canonical
            \/ Adoptable(d) /\ d.shadow \in Record /\ Visible(d) = d.shadow
  BY NoRecordAssumption DEF Visible, Adoptable, Disk, Stored

LEMMA KeepsSeen ==
  ASSUME NEW d, NEW e, NEW k \in Nat, NEW j \in Nat, Keeps(d, k, e, j)
  PROVE  Stored(e) \subseteq Stored(d) /\ Seen(e, j) \subseteq Seen(d, k)
  BY DEF Keeps, Stored, Seen

(* The outcomes of a verified write, with the disk spelt out. *)
LEMMA WriteOutcomes ==
  ASSUME NEW d \in Disk, NEW record \in Record, NEW w \in WriteVerified(d, record)
  PROVE  /\ w \in Outcomes /\ w.faults \in {0, 1} /\ w.record = record
         /\ \/ /\ w.faults = 0 /\ w.result = "done"
               /\ w.disk = [ canonical |-> record, shadow |-> NoRecord ]
            \/ /\ w.faults = 1 /\ w.result \in {"done", "threw"}
               /\ w.disk = [ canonical |-> record, shadow |-> d.shadow ]
            \/ w.faults = 1 /\ w.result = "threw" /\ w.disk = d
            \/ /\ w.faults = 1 /\ w.result = "threw"
               /\ w.disk = [ canonical |-> d.canonical, shadow |-> record ]
<1> DEFINE written == [ d EXCEPT !.canonical = record ]
<1>1. d = [ canonical |-> d.canonical, shadow |-> d.shadow ]
  BY DEF Disk
<1>2. /\ written = [ canonical |-> record, shadow |-> d.shadow ]
      /\ [ written EXCEPT !.shadow = NoRecord ] = [ canonical |-> record, shadow |-> NoRecord ]
      /\ [ d EXCEPT !.shadow = record ] = [ canonical |-> d.canonical, shadow |-> record ]
  <2>1. written = [ canonical |-> record, shadow |-> d.shadow ]
    BY <1>1
  <2>2. [ d EXCEPT !.shadow = record ] = [ canonical |-> d.canonical, shadow |-> record ]
    BY <1>1
  <2> HIDE DEF written
  <2>3. QED BY <2>1, <2>2
<1>3. w \in { Outcome([ written EXCEPT !.shadow = NoRecord ], "done", record, 0),
              Outcome(written, "done", record, 1),
              Outcome(d, "threw", record, 1),
              Outcome(written, "threw", record, 1),
              Outcome([ d EXCEPT !.shadow = record ], "threw", record, 1) }
  BY DEF WriteVerified
<1>4. w \in Outcomes
  BY WriteType
<1> HIDE DEF written
<1>5. QED
  BY <1>2, <1>3, <1>4 DEF Outcome

LEMMA WriteFields ==
  ASSUME NEW d \in Disk, NEW record \in Record, NEW w \in WriteVerified(d, record)
  PROVE  w \in Outcomes /\ w.faults \in {0, 1} /\ w.record = record
  BY WriteOutcomes

LEMMA ReadShows ==
  ASSUME NEW d, NEW k, StoreShape(d, k), NEW r \in ReadPersisted(d), r.faults <= k,
         NEW j, j = k - r.faults
  PROVE  /\ r \in Outcomes /\ StoreShape(r.disk, j) /\ Keeps(d, k, r.disk, j)
         /\ r.result \in {"done", "threw"}
         /\ r.result = "done" => \/ Clean(d, r, j)
                                 \/ Hidden(d, k, r, j)
                                 \/ Unadopted(d, k, r, j)
         /\ r.result = "done" /\ j > 0 =>
              r.disk.shadow = NoRecord /\ r.disk.canonical = r.record
<1>1. d \in Disk /\ k \in 0 .. 2 /\ r \in Outcomes /\ r.faults \in Nat /\ j \in 0 .. 2 /\ j <= k
  BY ReadType DEF StoreShape, Outcomes
<1>2. CASE r = Outcome(d, "threw", d.canonical, 1)
  <2>1. r.disk = d /\ r.result = "threw" /\ r.faults = 1
    BY <1>2 DEF Outcome
  <2>2. ShadowInv(d, j)
    BY <1>1, <2>1 DEF StoreShape, ShadowInv
  <2>3. QED BY <1>1, <2>1, <2>2 DEF StoreShape, Keeps, Stored
<1>3. CASE d.shadow = NoRecord /\ r = Outcome(d, "done", d.canonical, 0)
  <2>1. r.disk = d /\ r.result = "done" /\ r.faults = 0 /\ r.record = d.canonical
    BY <1>3 DEF Outcome
  <2>2. j = k /\ Visible(d) = d.canonical /\ Stored(d) = { d.canonical }
    BY <1>1, <1>3, <2>1, VisibleOf
  <2>3. QED BY <1>1, <1>3, <2>1, <2>2 DEF StoreShape, Keeps, Clean
<1>4. CASE d.shadow # NoRecord /\ r = Outcome(d, "done", d.canonical, 1)
  <2>1. r.disk = d /\ r.result = "done" /\ r.faults = 1 /\ r.record = d.canonical
    BY <1>4 DEF Outcome
  <2>2. k = 1 /\ j = 0
    BY <1>1, <1>4, <2>1 DEF StoreShape, ShadowInv
  <2>3. ShadowInv(d, j)
    BY <2>2 DEF StoreShape, ShadowInv
  <2>4. QED BY <1>1, <2>1, <2>2, <2>3 DEF StoreShape, Keeps, Stored, Hidden
<1>5. CASE /\ d.shadow # NoRecord /\ ~Adoptable(d)
           /\ r = Outcome([ d EXCEPT !.shadow = NoRecord ], "done", d.canonical, 0)
  <2>1. [ d EXCEPT !.shadow = NoRecord ] = [ canonical |-> d.canonical, shadow |-> NoRecord ]
    BY <1>1 DEF Disk
  <2>2. /\ r.disk = [ canonical |-> d.canonical, shadow |-> NoRecord ] /\ r.result = "done"
        /\ r.faults = 0 /\ r.record = d.canonical
    BY <1>5, <2>1 DEF Outcome
  <2>3. r.disk \in Disk /\ r.disk.canonical = d.canonical /\ r.disk.shadow = NoRecord
    BY <1>1, <2>2 DEF Disk
  <2>4. Visible(d) = d.canonical
    BY <1>5 DEF Visible
  <2>5. Visible(r.disk) = d.canonical /\ Stored(r.disk) = { d.canonical }
    BY <2>3, VisibleOf
  <2>6. QED BY <1>1, <2>2, <2>3, <2>4, <2>5 DEF StoreShape, ShadowInv, Keeps, Stored, Clean
<1>6. CASE Adoptable(d) /\ \E w \in WriteVerified(d, d.shadow) : r = [ w EXCEPT !.result = "done" ]
  <2>1. d.shadow # NoRecord /\ d.shadow \in Record /\ Visible(d) = d.shadow /\ k <= 1
    BY <1>1, <1>6 DEF Adoptable, Visible, Disk, StoreShape, ShadowInv
  <2>2. PICK w \in WriteVerified(d, d.shadow) : r = [ w EXCEPT !.result = "done" ]
    BY <1>6
  <2>3. /\ r.disk = w.disk /\ r.result = "done" /\ r.faults = w.faults /\ r.record = d.shadow
        /\ w.faults \in {0, 1} /\ r.disk \in Disk
    <3>1. w \in Outcomes /\ w.faults \in {0, 1} /\ w.record = d.shadow
      BY <1>1, <2>1, WriteFields
    <3>2. r.disk = w.disk /\ r.result = "done" /\ r.faults = w.faults /\ r.record = w.record
      BY <2>2, <3>1 DEF Outcomes
    <3>3. QED BY <1>1, <3>1, <3>2 DEF Outcomes
  <2>4. CASE w.faults = 0 /\ w.disk = [ canonical |-> d.shadow, shadow |-> NoRecord ]
    <3>1. r.disk.canonical = d.shadow /\ r.disk.shadow = NoRecord
      BY <2>3, <2>4
    <3>2. Visible(r.disk) = d.shadow /\ Stored(r.disk) = { d.shadow }
      BY <2>3, <3>1, VisibleOf
    <3>3. QED
      BY <1>1, <2>1, <2>3, <3>1, <3>2 DEF StoreShape, ShadowInv, Keeps, Stored, Clean
  <2>5. CASE w.faults = 1 /\ w.disk = [ canonical |-> d.shadow, shadow |-> d.shadow ]
    <3>1. r.disk.canonical = d.shadow /\ r.disk.shadow = d.shadow /\ k = 1 /\ j = 0
      BY <1>1, <2>1, <2>3, <2>5
    <3>2. Visible(r.disk) = d.shadow /\ Stored(r.disk) = { d.shadow }
      BY <2>3, <3>1, VisibleOf
    <3>3. ~Empty(d.shadow) => d.shadow.token[2] <= d.shadow.token[2]
      BY <2>1, TokenShape DEF Record, Empty
    <3>4. QED
      BY <1>1, <2>1, <2>3, <3>1, <3>2, <3>3 DEF StoreShape, ShadowInv, Keeps, Stored, Clean
  <2>6. CASE w.faults = 1 /\ \/ w.disk = d
                             \/ w.disk = [ canonical |-> d.canonical, shadow |-> d.shadow ]
    <3>1. r.disk = d /\ k = 1 /\ j = 0
      BY <1>1, <2>1, <2>3, <2>6 DEF Disk
    <3>2. ShadowInv(d, j)
      BY <3>1 DEF StoreShape, ShadowInv
    <3>3. d.shadow.revision = d.canonical.revision + 1
      BY <2>1, <3>1 DEF StoreShape, ShadowInv
    <3>4. QED
      BY <1>1, <2>1, <2>3, <3>1, <3>2, <3>3 DEF StoreShape, Keeps, Stored, Unadopted
  <2>7. QED BY <1>1, <2>1, <2>4, <2>5, <2>6, WriteOutcomes
<1>7. QED
  BY <1>2, <1>3, <1>4, <1>5, <1>6 DEF ReadPersisted, Adoptable

(* A write behind a read: the next revision of the record read stands in    *)
(* the place of it, or beside it; or nothing is seen of the write.          *)
Writes(d, k, e, j, x, t) ==
  /\ x \in Seen(d, k) /\ j <= k
  /\ Stored(e) \subseteq { x, [ revision |-> x.revision + 1, token |-> t ] }
  /\ t # NoToken => Visible(e).token = t

LEMMA RewriteShows ==
  ASSUME NEW d, NEW k, StoreShape(d, k), NEW r \in ReadPersisted(d), r.result = "done",
         NEW t \in Token \cup {NoToken}, NEW o \in Rewrite(r, t), o.faults <= k,
         ~Empty(r.record) /\ t # NoToken /\ t[1] = r.record.token[1] => r.record.token[2] <= t[2],
         NEW j, j = k - o.faults
  PROVE  /\ StoreShape(o.disk, j) /\ o.result \in {"done", "threw"}
         /\ \/ o.result = "threw" /\ Keeps(d, k, o.disk, j)
            \/ /\ Writes(d, k, o.disk, j, r.record, t)
               /\ o.result = "done" =>
                    Stored(o.disk) = { [ revision |-> r.record.revision + 1, token |-> t ] }
<1> DEFINE y == [ revision |-> r.record.revision + 1, token |-> t ]
           i == k - r.faults
<1>1. PICK w \in WriteVerified(r.disk, y) : o = [ w EXCEPT !.faults = @ + r.faults ]
  BY DEF Rewrite
<1>2. d \in Disk /\ k \in 0 .. 2 /\ r \in Outcomes /\ r.disk \in Disk /\ r.faults \in Nat
      /\ r.record \in Record
  BY ReadType DEF StoreShape, Outcomes
<1>3. y \in Record /\ y.revision = r.record.revision + 1 /\ y.token = t
      /\ r.record.revision \in Nat
  BY <1>2 DEF Record
<1> HIDE DEF y
<1>4. /\ w \in Outcomes /\ w.faults \in {0, 1} /\ o.disk = w.disk /\ o.result = w.result
      /\ o.faults = w.faults + r.faults /\ w.disk \in Disk
  <2>1. w \in Outcomes /\ w.faults \in {0, 1}
    BY <1>2, <1>3, WriteOutcomes
  <2>2. QED BY <1>1, <2>1 DEF Outcomes
<1>5. r.faults <= k /\ i \in 0 .. 2 /\ j \in 0 .. 2 /\ j = i - w.faults /\ j <= k /\ i <= k
  BY <1>2, <1>4
<1>6. /\ StoreShape(r.disk, i) /\ Keeps(d, k, r.disk, i)
      /\ Clean(d, r, i) \/ Hidden(d, k, r, i) \/ Unadopted(d, k, r, i)
      /\ i > 0 => r.disk.shadow = NoRecord /\ r.disk.canonical = r.record
  BY <1>5, ReadShows
<1>7. r.record \in Seen(d, k)
  BY <1>2, <1>6 DEF Clean, Hidden, Unadopted, Seen, Stored
<1>8. CASE w.disk = [ canonical |-> y, shadow |-> NoRecord ] /\ w.result \in {"done", "threw"}
  <2>1. o.disk \in Disk /\ o.disk.canonical = y /\ o.disk.shadow = NoRecord
    BY <1>4, <1>8
  <2>2. Stored(o.disk) = { y } /\ Visible(o.disk).token = t
    BY <1>3, <2>1, VisibleOf
  <2>3. QED BY <1>4, <1>5, <1>7, <1>8, <2>1, <2>2 DEF StoreShape, ShadowInv, Writes, y
<1>9. CASE w.faults = 1 /\ w.result = "threw" /\ w.disk = r.disk
  <2>1. r.disk.shadow = NoRecord
    BY <1>5, <1>6, <1>9
  <2>2. StoreShape(r.disk, j)
    BY <1>2, <1>5, <2>1 DEF StoreShape, ShadowInv
  <2>3. QED BY <1>2, <1>4, <1>5, <1>6, <1>9, <2>2 DEF Keeps
<1>10. CASE /\ w.faults = 1 /\ w.result = "threw"
            /\ w.disk = [ canonical |-> r.disk.canonical, shadow |-> y ]
  <2>1. o.disk \in Disk /\ o.disk.canonical = r.record /\ o.disk.shadow = y /\ i > 0 /\ j <= 1
    BY <1>4, <1>5, <1>6, <1>10
  <2>2. ShadowInv(o.disk, j)
    BY <1>3, <2>1 DEF ShadowInv, Empty
  <2>3. Stored(o.disk) \subseteq { r.record, y }
    BY <2>1 DEF Stored, Visible
  <2>4. t # NoToken => Visible(o.disk).token = t
    BY <1>3, <2>1, NoRecordAssumption DEF Visible, Adoptable, Empty
  <2>5. QED BY <1>4, <1>5, <1>7, <1>10, <2>1, <2>2, <2>3, <2>4 DEF StoreShape, Writes, y
<1>11. QED
  <2>1. w.faults = 1 => r.disk.shadow = NoRecord
    BY <1>5, <1>6
  <2>2. \/ w.faults = 0 /\ w.result = "done" /\ w.disk = [ canonical |-> y, shadow |-> NoRecord ]
        \/ /\ w.faults = 1 /\ w.result \in {"done", "threw"}
           /\ w.disk = [ canonical |-> y, shadow |-> r.disk.shadow ]
        \/ w.faults = 1 /\ w.result = "threw" /\ w.disk = r.disk
        \/ /\ w.faults = 1 /\ w.result = "threw"
           /\ w.disk = [ canonical |-> r.disk.canonical, shadow |-> y ]
    BY <1>2, <1>3, WriteOutcomes
  <2>3. QED BY <1>8, <1>9, <1>10, <2>1, <2>2

(* What a read that happens shows, and leaves of the store. *)
Shows(r) ==
  \/ Stored(disk') = { r.record } /\ r.record = Visible(disk)
  \/ faults > 0 /\ faults' = 0 /\ UNCHANGED disk /\ r.record = disk.canonical
  \/ /\ faults > 0 /\ faults' = 0 /\ r.record = Visible(disk)
     /\ Visible(disk).revision = disk.canonical.revision + 1

StoreKeeps == StoreShape(disk', faults') /\ Keeps(disk, faults, disk', faults')

LEMMA ReadResult ==
  ASSUME StoreShape(disk, faults), NEW r \in ReadPersisted(disk), r.result # "threw"
  PROVE  r.result = "done"
<1>1. disk \in Disk
  BY DEF StoreShape
<1>2. CASE r \in { Outcome(disk, "threw", disk.canonical, 1),
                   Outcome(disk, "done", disk.canonical, 1),
                   Outcome(disk, "done", disk.canonical, 0),
                   Outcome([ disk EXCEPT !.shadow = NoRecord ], "done", disk.canonical, 0) }
  BY <1>2 DEF Outcome
<1>3. CASE /\ disk.shadow # NoRecord
           /\ \E w \in WriteVerified(disk, disk.shadow) : r = [ w EXCEPT !.result = "done" ]
  BY <1>1, <1>3, WriteFields DEF Outcomes, Disk
<1>4. QED BY <1>2, <1>3 DEF ReadPersisted

LEMMA ReadEffect ==
  ASSUME StoreShape(disk, faults), NEW r \in ReadPersisted(disk), Happens(r)
  PROVE  /\ StoreKeeps /\ r.result \in {"done", "threw"}
         /\ r.result = "done" => Shows(r) /\ r.record \in Seen(disk, faults) /\ r.record \in Record
<1>1. r.faults <= faults /\ faults' = faults - r.faults /\ disk' = r.disk
  BY DEF Happens
<1>2. /\ r \in Outcomes /\ StoreShape(disk', faults') /\ Keeps(disk, faults, disk', faults')
      /\ r.result \in {"done", "threw"}
      /\ r.result = "done" => \/ Clean(disk, r, faults')
                              \/ Hidden(disk, faults, r, faults')
                              \/ Unadopted(disk, faults, r, faults')
  BY <1>1, ReadShows
<1>3. r.result = "done" => Shows(r)
  BY <1>1, <1>2 DEF Clean, Hidden, Unadopted, Shows
<1>4. r.record \in Record
  BY <1>2 DEF Outcomes
<1>5. Shows(r) => r.record \in Seen(disk, faults)
  BY DEF Shows, Seen, Stored
<1>6. QED BY <1>2, <1>3, <1>4, <1>5 DEF StoreKeeps

(* The write that follows a read of x has happened. *)
Wrote(x, t, o) ==
  /\ StoreShape(disk', faults') /\ Writes(disk, faults, disk', faults', x, t) /\ x \in Record
  /\ o.result \in {"done", "threw"}
  /\ o.result = "done" => Stored(disk') = { [ revision |-> x.revision + 1, token |-> t ] }

(* A token may follow what is stored of its family. *)
MayFollow(x, t) ==
  ~Empty(x) /\ t # NoToken /\ t[1] = x.token[1] => x.token[2] <= t[2]

LEMMA RewriteEffect ==
  ASSUME StoreShape(disk, faults), NEW r \in ReadPersisted(disk), r.result = "done",
         NEW t \in Token \cup {NoToken}, NEW o \in Rewrite(r, t), Happens(o),
         MayFollow(r.record, t)
  PROVE  (StoreKeeps /\ o.result = "threw") \/ Wrote(r.record, t, o)
<1>1. o.faults <= faults /\ faults' = faults - o.faults /\ disk' = o.disk
  BY DEF Happens
<1>2. r.record \in Record
  BY ReadType DEF StoreShape, Outcomes
<1>3. /\ StoreShape(disk', faults') /\ o.result \in {"done", "threw"}
      /\ \/ o.result = "threw" /\ Keeps(disk, faults, disk', faults')
         \/ /\ Writes(disk, faults, disk', faults', r.record, t)
            /\ o.result = "done" =>
                 Stored(disk') = { [ revision |-> r.record.revision + 1, token |-> t ] }
  BY <1>1, RewriteShows DEF MayFollow
<1>4. QED BY <1>2, <1>3 DEF StoreKeeps, Wrote

(* What a rewrite shows of the read before it. *)
LEMMA RewriteRead ==
  ASSUME StoreShape(disk, faults), NEW r \in ReadPersisted(disk),
         NEW t \in Token \cup {NoToken}, NEW o \in Rewrite(r, t), Happens(o), r.result = "done"
  PROVE  r.record \in Seen(disk, faults) /\ r.record \in Record
<1>1. disk \in Disk /\ r \in Outcomes /\ faults \in 0 .. 2 /\ o.faults <= faults
  BY ReadType DEF StoreShape, Happens
<1>2. PICK w \in WriteVerified(r.disk, [ revision |-> r.record.revision + 1, token |-> t ]) :
        o = [ w EXCEPT !.faults = @ + r.faults ]
  BY DEF Rewrite
<1>3. [ revision |-> r.record.revision + 1, token |-> t ] \in Record /\ r.disk \in Disk
  BY <1>1 DEF Outcomes, Record
<1>4. w \in Outcomes /\ w.faults \in {0, 1}
  BY <1>3, WriteFields
<1>5. o.faults = w.faults + r.faults /\ r.faults \in Nat
  BY <1>1, <1>2, <1>4 DEF Outcomes
<1>6. r.faults <= faults
  BY <1>1, <1>4, <1>5
<1>7. \/ Clean(disk, r, faults - r.faults) \/ Hidden(disk, faults, r, faults - r.faults)
      \/ Unadopted(disk, faults, r, faults - r.faults)
  BY <1>6, ReadShows
<1>8. QED BY <1>1, <1>7 DEF Clean, Hidden, Unadopted, Seen, Stored, Outcomes

LEMMA CasEffect ==
  ASSUME StoreShape(disk, faults), NEW n \in Nat, NEW t \in Token \cup {NoToken},
         NEW o \in CompareAndSwap(disk, n, t), Happens(o),
         \A x \in Seen(disk, faults) : x.revision = n => MayFollow(x, t)
  PROVE  \/ StoreKeeps /\ o.result = "threw"
         \/ /\ StoreKeeps /\ o.result = "refused"
            /\ \E x \in Seen(disk, faults) :
                 x.revision # n /\ \A y \in Seen(disk', faults') : x.revision <= y.revision
         \/ \E x \in Seen(disk, faults) : x.revision = n /\ Wrote(x, t, o)
<1>1. PICK r \in ReadPersisted(disk) :
        o \in IF r.result = "threw" THEN { r }
              ELSE IF r.record.revision # n THEN { [ r EXCEPT !.result = "refused" ] }
              ELSE Rewrite(r, t)
  BY DEF CompareAndSwap
<1>2. r \in Outcomes /\ disk \in Disk
  BY ReadType DEF StoreShape
<1>3. CASE r.result = "threw"
  BY <1>1, <1>3, ReadEffect
<1>4. CASE r.result # "threw" /\ r.record.revision # n
  <2>1. o.disk = r.disk /\ o.faults = r.faults /\ o.result = "refused"
    BY <1>1, <1>2, <1>4 DEF Outcomes
  <2>2. Happens(r)
    BY <2>1 DEF Happens
  <2>3. StoreKeeps /\ Shows(r) /\ r.record \in Seen(disk, faults)
    BY <1>4, <2>2, ReadEffect
  <2>4. ASSUME NEW y \in Seen(disk', faults') PROVE r.record.revision <= y.revision
    <3>1. /\ disk.canonical.revision \in Nat /\ Visible(disk).revision \in Nat
          /\ disk.canonical.revision <= Visible(disk).revision
      BY <1>2, VisibleOf DEF Record, Adoptable
    <3>2. Visible(disk') = Visible(disk)
      BY <2>3 DEF StoreKeeps, Keeps
    <3>3. y = Visible(disk) \/ y = r.record
      BY <2>3, <2>4, <3>2 DEF Shows, Seen, Stored
    <3>4. QED BY <2>3, <3>1, <3>3 DEF Shows
  <2>5. QED BY <1>4, <2>1, <2>3, <2>4
<1>5. CASE r.result # "threw" /\ r.record.revision = n
  <2>1. o \in Rewrite(r, t) /\ r.result = "done"
    BY <1>1, <1>5, ReadResult
  <2>2. r.record \in Seen(disk, faults)
    BY <2>1, RewriteRead
  <2>3. QED BY <1>5, <2>1, <2>2, RewriteEffect
<1>6. QED BY <1>3, <1>4, <1>5

LEMMA SaveEffect ==
  ASSUME StoreShape(disk, faults), NEW t \in Token, NEW o \in SaveSession(disk, t), Happens(o),
         \A x \in Seen(disk, faults) : ~Empty(x) => x.token[1] # t[1]
  PROVE  \/ StoreKeeps /\ o.result = "threw"
         \/ \E x \in Seen(disk, faults) : Wrote(x, t, o)
<1>1. PICK r \in ReadPersisted(disk) : o \in IF r.result = "threw" THEN { r } ELSE Rewrite(r, t)
  BY DEF SaveSession
<1>2. CASE r.result = "threw"
  BY <1>1, <1>2, ReadEffect
<1>3. CASE r.result # "threw"
  <2>1. o \in Rewrite(r, t) /\ r.result = "done"
    BY <1>1, <1>3, ReadResult
  <2>2. r.record \in Seen(disk, faults)
    BY <2>1, RewriteRead
  <2>3. MayFollow(r.record, t)
    BY <2>2 DEF MayFollow
  <2>4. QED BY <2>1, <2>2, <2>3, RewriteEffect
<1>4. QED BY <1>2, <1>3

LEMMA ClearEffect ==
  ASSUME StoreShape(disk, faults), NEW o \in ClearSession(disk), Happens(o)
  PROVE  \/ StoreKeeps /\ (o.result = "done" => \E x \in Seen(disk, faults) : Empty(x))
         \/ \E x \in Seen(disk, faults) : Wrote(x, NoToken, o)
<1>1. PICK r \in ReadPersisted(disk) :
        o \in IF r.result = "threw" \/ Empty(r.record) THEN { r } ELSE Rewrite(r, NoToken)
  BY DEF ClearSession
<1>2. CASE r.result = "threw" \/ Empty(r.record)
  BY <1>1, <1>2, ReadEffect
<1>3. CASE ~(r.result = "threw" \/ Empty(r.record))
  <2>1. o \in Rewrite(r, NoToken) /\ r.result = "done"
    BY <1>1, <1>3, ReadResult
  <2>2. r.record \in Seen(disk, faults)
    BY <2>1, RewriteRead
  <2>3. QED BY <2>1, <2>2, RewriteEffect DEF MayFollow
<1>4. QED BY <1>2, <1>3

LEMMA TouchEffect ==
  ASSUME StoreShape(disk, faults), NEW o \in TouchSession(disk), Happens(o)
  PROVE  \/ StoreKeeps
         \/ \E x \in Seen(disk, faults) : ~Empty(x) /\ Wrote(x, x.token, o)
<1>1. PICK r \in ReadPersisted(disk) :
        o \in IF r.result = "threw" \/ Empty(r.record) THEN { r } ELSE Rewrite(r, r.record.token)
  BY DEF TouchSession
<1>2. CASE r.result = "threw" \/ Empty(r.record)
  BY <1>1, <1>2, ReadEffect
<1>3. CASE ~(r.result = "threw" \/ Empty(r.record))
  <2>1. r \in Outcomes /\ r.record.token \in Token \cup {NoToken} /\ r.record.token \in Token
    BY <1>3, ReadType DEF StoreShape, Outcomes, Record, Empty
  <2>2. o \in Rewrite(r, r.record.token) /\ r.result = "done"
    BY <1>1, <1>3, ReadResult
  <2>3. r.record \in Seen(disk, faults)
    BY <2>1, <2>2, RewriteRead
  <2>4. MayFollow(r.record, r.record.token)
    BY <2>1, TokenShape DEF MayFollow
  <2>5. QED BY <1>3, <2>1, <2>2, <2>3, <2>4, RewriteEffect
<1>4. QED BY <1>2, <1>3

-----------------------------------------------------------------------------
(* The invariant.                                                          *)

(* A token that may be presented: of a family that was opened, not past its *)
(* current token, nor past what the store has of that family; and not of   *)
(* the login that is about to be saved.                                    *)
Held(n, s, d, u) ==
  /\ s[n[1]].status # "unborn" /\ n[2] <= s[n[1]].current[2]
  /\ \A x \in Stored(d) : ~Empty(x) /\ x.token[1] = n[1] => n[2] <= x.token[2]
  /\ u.pc = "saving" => n[1] # u.family

(* What a POST of n may be answered with: n itself or its successor.       *)
Follows(m, n, s) ==
  /\ m \in Token /\ m[1] = n[1] /\ n[2] <= m[2] /\ m[2] <= n[2] + 1
  /\ m[2] <= s[n[1]].current[2]

Ended(f, s) == s[f].status \notin {"unborn", "active"}

FamilyInv(f, s, rows) ==
  /\ s[f].status = "unborn" => rows[f] = NoRow
  /\ s[f].status # "unborn" =>
       s[f].current \in Token /\ s[f].current[1] = f /\ s[f].expires = MaxTime + 1
  /\ rows[f] # NoRow =>
       /\ rows[f].replacement = s[f].current
       /\ rows[f].spent[2] + 1 = s[f].current[2]

(* Logins are opened in their order, and the last one saved was opened.    *)
OrderInv(s, last) ==
  /\ \A f, g \in Family : g < f /\ s[f].status # "unborn" => s[g].status # "unborn"
  /\ last = 0 \/ (last \in Family /\ s[last].status # "unborn")

(* The store holds tokens of the newest login that was saved or of a later  *)
(* one, short of the family's current token by one at most.                *)
StoreInv(s, d, u, last) ==
  \A x \in Stored(d) : ~Empty(x) =>
    /\ s[x.token[1]].status # "unborn" /\ x.token[2] <= s[x.token[1]].current[2]
    /\ s[x.token[1]].current[2] <= x.token[2] + 1
    /\ x.token[1] >= last
    /\ u.pc = "saving" => x.token[1] # u.family

WireInv(w, s, d, u) == \A n \in w : Held(n, s, d, u)

(* A record that was read; if its revision is there still, so is it.       *)
Earlier(b, d, k) ==
  \A x \in Seen(d, k) : b.revision <= x.revision /\ (b.revision = x.revision => b = x)

(* Nobody but the coordinator has put another session into the store ...   *)
OneSession(tokens, d, k) == \A x \in Seen(d, k) : Empty(x) \/ x.token \in tokens

(* ... or has taken it out, unless by a logout.                            *)
Lasts(f, s, d, k, out) ==
  out = "none" /\ (\E x \in Seen(d, k) : Empty(x)) => Ended(f, s)

MutationInv(m, s, d, k) ==
  /\ m \in Mutation /\ ~Empty(m.base) /\ s[m.base.token[1]].status # "unborn"
  /\ Earlier(m.base, d, k) /\ OneSession({ m.base.token, m.next }, d, k)
  /\ m.next = NoToken => Ended(m.base.token[1], s)
  /\ m.next # NoToken => Follows(m.next, m.base.token, s)

(* What an attempt has in hand.  Once it is superseded it only runs out,    *)
(* but for the compare-and-swap it has queued.                             *)
AttemptInv(a, s, d, k, u, out) ==
  /\ a.pc \notin {"idle", "committing", "committed"} => Earlier(a.baseline, d, k)
  /\ a.pc = "begun" /\ ~a.superseded /\ k > 0 /\ ~Empty(a.baseline) =>
       OneSession({ a.baseline.token }, d, k) /\ Lasts(a.baseline.token[1], s, d, k, out)
  /\ a.pc \in {"posted", "waiting", "retrying", "answered"} =>
       /\ ~Empty(a.baseline) /\ a.token = a.baseline.token /\ Held(a.token, s, d, u)
       /\ ~a.superseded => OneSession({ a.token }, d, k) /\ Lasts(a.token[1], s, d, k, out)
  /\ a.pc = "answered" /\ a.answer = "ok" => Follows(a.granted, a.token, s)
  /\ a.pc = "answered" /\ a.answer = "invalid" => a.granted = NoToken /\ Ended(a.token[1], s)
  /\ a.pc = "committing" =>
       /\ MutationInv(a.mutation, s, d, k)
       /\ ~a.superseded => Lasts(a.mutation.base.token[1], s, d, k, out)
  /\ a.pc = "committed" /\ ~a.superseded =>
       /\ MutationInv(a.mutation, s, d, k)
       /\ Lasts(a.mutation.base.token[1], s, d, k, out)
       /\ a.answer = "done" => OneSession({ a.mutation.next }, d, k)
       /\ a.answer = "refused" => \A x \in Seen(d, k) : a.mutation.base.revision < x.revision
       /\ a.answer \in { "done", "refused", "threw" }

(* A pending mutation belongs to the session there is, and an attempt that  *)
(* commits while there is one commits that one.                            *)
PendingInv(p, a, s, d, k, out) ==
  p # NoMutation =>
    /\ MutationInv(p, s, d, k) /\ Lasts(p.base.token[1], s, d, k, out)
    /\ a.pc \in {"idle", "begun", "committing", "committed"}
    /\ a.pc # "idle" => ~a.superseded
    /\ a.pc \in {"committing", "committed"} => a.mutation = p

UserInv(s, d, u, a, p, last, out) ==
  /\ u.pc = "saving" =>
       /\ s[u.family].status # "unborn" /\ s[u.family].current = <<u.family, 0>>
       /\ out = "none" /\ u.family >= last
       /\ p = NoMutation /\ (a.pc = "idle" \/ a.superseded)
  /\ u.pc \in {"leaving", "clearing"} =>
       out # "none" /\ (Empty(d.canonical) => Empty(Visible(d)))

IInv ==
  /\ CoordinatorTypes /\ now <= MaxTime
  /\ StoreShape(disk, faults)
  /\ \A f \in Family : FamilyInv(f, session, replay)
  /\ OrderInv(session, latest)
  /\ StoreInv(session, disk, user, latest)
  /\ WireInv(wire, session, disk, user)
  /\ AttemptInv(attempt, session, disk, faults, user, signOut)
  /\ PendingInv(pending, attempt, session, disk, faults, signOut)
  /\ UserInv(session, disk, user, attempt, pending, latest, signOut)
  /\ signOut = "confirmed" => Empty(Visible(disk))

LEMMA InitInv == ASSUME MaxFaults <= 2, Init PROVE IInv
<1>1. CoordinatorTypes
  BY InitTypes
<1>2. disk.shadow = NoRecord /\ disk.canonical.token = NoToken /\ disk \in Disk
  BY <1>1 DEF Init, CoordinatorTypes, TypeOK
<1>3. Visible(disk) = disk.canonical /\ Stored(disk) = { disk.canonical }
  BY <1>2, VisibleOf
<1>4. StoreShape(disk, faults)
  BY <1>2, BoundAssumption DEF Init, StoreShape, ShadowInv
<1>5. \A f \in Family : FamilyInv(f, session, replay) /\ session[f].status = "unborn"
  BY DEF Init, Unborn, FamilyInv
<1>6. attempt.pc = "idle" /\ user.pc = "idle"
  BY DEF Init, IdleAttempt, IdleUser
<1>7. StoreInv(session, disk, user, latest)
  BY <1>2, <1>3 DEF StoreInv, Empty
<1>8. QED
  BY <1>1, <1>4, <1>5, <1>6, <1>7, BoundAssumption
     DEF Init, IInv, OrderInv, WireInv, AttemptInv, PendingInv, UserInv

-----------------------------------------------------------------------------
(* What the steps leave standing.                                          *)

(* The tables only grow.                                                   *)
Grows(s, t) ==
  \A f \in Family :
    /\ s[f].status # "unborn" => t[f].status # "unborn" /\ s[f].current[2] <= t[f].current[2]
    /\ Ended(f, s) => Ended(f, t)

Tables(s, t) ==
  /\ s \in [ Family -> SessionRow ] /\ t \in [ Family -> SessionRow ] /\ Grows(s, t)
  /\ \A f \in Family : s[f].status # "unborn" => s[f].current \in Token /\ t[f].current \in Token

(* The store moves on to later revisions, and within a family or on to the  *)
(* login being saved.                                                      *)
MovesOn(d, k, e, j, u) ==
  /\ j <= k
  /\ \A y \in Seen(e, j) : y \in Seen(d, k) \/ \E x \in Seen(d, k) : x.revision < y.revision
  /\ \A y \in Stored(e) : ~Empty(y) =>
       \/ \E x \in Stored(d) :
            ~Empty(x) /\ y.token[1] = x.token[1] /\ x.token[2] <= y.token[2]
       \/ u.pc = "saving" /\ y.token[1] = u.family

(* No token that was not there.                                            *)
SameTokens(d, k, e, j) ==
  \A y \in Seen(e, j) : Empty(y) \/ \E x \in Seen(d, k) : x.token = y.token

(* No session lost but by a logout.                                        *)
NoLoss(d, k, e, j, o, p) ==
  p = "none" =>
    o = "none" /\ \A y \in Seen(e, j) : Empty(y) => \E x \in Seen(d, k) : Empty(x)

(* A login to be saved is a new family. *)
Enters(u, v, s) ==
  v.pc = "saving" => (u.pc = "saving" /\ v.family = u.family) \/ s[v.family].status = "unborn"

LEMMA StoredRecords ==
  ASSUME NEW d \in Disk, NEW k
  PROVE  /\ \A x \in Stored(d) : /\ x \in Record /\ x.revision \in Nat
                                 /\ ~Empty(x) => /\ x.token \in Token /\ x.token[1] \in Family
                                                 /\ x.token[2] \in Nat
         /\ Seen(d, k) \subseteq Stored(d) /\ Visible(d) \in Seen(d, k)
<1>1. \A x \in Stored(d) : x \in Record
  BY VisibleOf DEF Stored
<1>2. \A x \in Record : x.revision \in Nat /\ (~Empty(x) => x.token \in Token)
  BY DEF Record, Empty
<1>3. Seen(d, k) \subseteq Stored(d) /\ Visible(d) \in Seen(d, k)
  BY DEF Seen, Stored
<1>4. QED BY <1>1, <1>2, <1>3, TokenShape

LEMMA HeldKept ==
  ASSUME NEW n \in Token, NEW s, NEW t, Tables(s, t), NEW d \in Disk, NEW e \in Disk,
         NEW k, NEW j, NEW u, NEW v,
         MovesOn(d, k, e, j, u), Enters(u, v, s), Held(n, s, d, u)
  PROVE  Held(n, t, e, v)
<1>1. n[1] \in Family /\ n[2] \in Nat
  BY TokenShape
<1>2. s[n[1]].status # "unborn" /\ n[2] <= s[n[1]].current[2]
  BY DEF Held
<1>3. s[n[1]].current[2] \in Nat /\ t[n[1]].current[2] \in Nat
  BY <1>1, <1>2, TokenShape DEF Tables
<1>4. t[n[1]].status # "unborn" /\ n[2] <= t[n[1]].current[2]
  BY <1>1, <1>2, <1>3 DEF Tables, Grows
<1>5. v.pc = "saving" => n[1] # v.family
  BY <1>2 DEF Enters, Held
<1>6. ASSUME NEW y \in Stored(e), ~Empty(y), y.token[1] = n[1]
      PROVE  n[2] <= y.token[2]
  <2>1. PICK x \in Stored(d) : /\ ~Empty(x) /\ y.token[1] = x.token[1]
                               /\ x.token[2] <= y.token[2]
    BY <1>6 DEF MovesOn, Held
  <2>2. x.token[2] \in Nat /\ y.token[2] \in Nat
    BY <1>6, <2>1, StoredRecords
  <2>3. n[2] <= x.token[2]
    BY <1>6, <2>1 DEF Held
  <2>4. QED BY <1>1, <2>1, <2>2, <2>3
<1>7. QED BY <1>4, <1>5, <1>6 DEF Held

LEMMA FollowsKept ==
  ASSUME NEW m, NEW n \in Token, NEW s, NEW t, Tables(s, t), s[n[1]].status # "unborn",
         Follows(m, n, s)
  PROVE  Follows(m, n, t)
<1>1. n[1] \in Family /\ m \in Token /\ m[2] \in Nat
  BY TokenShape DEF Follows
<1>2. s[n[1]].current[2] \in Nat /\ t[n[1]].current[2] \in Nat
  BY <1>1, TokenShape DEF Tables
<1>3. QED BY <1>1, <1>2 DEF Follows, Grows, Tables

LEMMA EarlierKept ==
  ASSUME NEW b \in Record, NEW d \in Disk, NEW e \in Disk, NEW k, NEW j, NEW u,
         MovesOn(d, k, e, j, u), Earlier(b, d, k)
  PROVE  Earlier(b, e, j)
<1>1. SUFFICES ASSUME NEW y \in Seen(e, j)
               PROVE  b.revision <= y.revision /\ (b.revision = y.revision => b = y)
  BY DEF Earlier
<1>2. CASE y \in Seen(d, k)
  BY <1>2 DEF Earlier
<1>3. CASE \E x \in Seen(d, k) : x.revision < y.revision
  <2>1. PICK x \in Seen(d, k) : x.revision < y.revision
    BY <1>3
  <2>2. b.revision \in Nat /\ x.revision \in Nat /\ y.revision \in Nat
    BY StoredRecords DEF Record
  <2>3. b.revision <= x.revision
    BY DEF Earlier
  <2>4. QED BY <2>1, <2>2, <2>3
<1>4. QED BY <1>2, <1>3 DEF MovesOn

LEMMA OneSessionKept ==
  ASSUME NEW d, NEW e, NEW k, NEW j, SameTokens(d, k, e, j), NEW T, OneSession(T, d, k)
  PROVE  OneSession(T, e, j)
  BY DEF SameTokens, OneSession, Empty

LEMMA LastsKept ==
  ASSUME NEW s, NEW t, Tables(s, t), NEW d, NEW e, NEW k, NEW j, NEW o, NEW p,
         NoLoss(d, k, e, j, o, p), NEW f \in Family, Lasts(f, s, d, k, o)
  PROVE  Lasts(f, t, e, j, p)
  BY DEF NoLoss, Lasts, Tables, Grows

LEMMA MutationKept ==
  ASSUME NEW m, NEW s, NEW t, Tables(s, t), NEW d \in Disk, NEW e \in Disk, NEW k, NEW j,
         NEW u, MovesOn(d, k, e, j, u), SameTokens(d, k, e, j), MutationInv(m, s, d, k)
  PROVE  MutationInv(m, t, e, j) /\ m.base.token[1] \in Family
<1>1. m.base \in Record /\ m.base.token \in Token /\ m.base.token[1] \in Family
  BY TokenShape DEF MutationInv, Mutation, Record, Empty
<1>2. Earlier(m.base, e, j)
  BY <1>1, EarlierKept DEF MutationInv
<1>3. OneSession({ m.base.token, m.next }, e, j)
  BY OneSessionKept DEF MutationInv
<1>4. m.next # NoToken => Follows(m.next, m.base.token, t)
  BY <1>1, FollowsKept DEF MutationInv
<1>5. QED BY <1>1, <1>2, <1>3, <1>4 DEF MutationInv, Tables, Grows

Sent == {"posted", "waiting", "retrying", "answered"}

(* An attempt that a step leaves alone, supersedes, ends or puts back to    *)
(* where it has not been answered.                                         *)
Leaves(a, b) ==
  \/ b.pc = "idle"
  \/ /\ b.baseline = a.baseline /\ b.token = a.token /\ b.mutation = a.mutation
     /\ ~b.superseded => ~a.superseded
     /\ \/ b.pc = a.pc /\ b.answer = a.answer /\ b.granted = a.granted
        \/ a.pc \in Sent /\ b.pc \in Sent \ {"answered"}

LEMMA AttemptKept ==
  ASSUME NEW a \in Attempt, NEW b \in Attempt, Leaves(a, b), NEW s, NEW t, Tables(s, t),
         NEW d \in Disk, NEW e \in Disk, NEW k \in Nat, NEW j \in Nat, NEW u, NEW v, NEW o, NEW p,
         MovesOn(d, k, e, j, u), Enters(u, v, s),
         b.pc = "committing" \/ (b.pc # "idle" /\ ~b.superseded) => SameTokens(d, k, e, j),
         b.pc # "idle" /\ ~b.superseded => NoLoss(d, k, e, j, o, p),
         AttemptInv(a, s, d, k, u, o)
  PROVE  AttemptInv(b, t, e, j, v, p)
<1> SUFFICES ASSUME b.pc # "idle" PROVE AttemptInv(b, t, e, j, v, p)
  BY DEF AttemptInv
<1>1. /\ b.baseline = a.baseline /\ b.token = a.token /\ b.mutation = a.mutation
      /\ ~b.superseded => ~a.superseded
      /\ \/ b.pc = a.pc /\ b.answer = a.answer /\ b.granted = a.granted
         \/ a.pc \in Sent /\ b.pc \in Sent \ {"answered"}
  BY DEF Leaves
<1>2. a.baseline \in Record
  BY DEF Attempt
<1>3. b.pc \notin {"idle", "committing", "committed"} => Earlier(b.baseline, e, j)
  <2>1. SUFFICES ASSUME b.pc \notin {"idle", "committing", "committed"}
                 PROVE  Earlier(a.baseline, e, j)
    BY <1>1
  <2>2. Earlier(a.baseline, d, k)
    BY <1>1, <2>1 DEF AttemptInv, Sent
  <2>3. QED BY <1>2, <2>2, EarlierKept
<1>4. ASSUME b.pc = "begun", ~b.superseded, j > 0, ~Empty(b.baseline)
      PROVE  OneSession({ b.baseline.token }, e, j) /\ Lasts(b.baseline.token[1], t, e, j, p)
  <2>1. a.pc = "begun" /\ ~a.superseded /\ k > 0
    BY <1>1, <1>4 DEF Sent, MovesOn
  <2>2. a.baseline.token[1] \in Family
    BY <1>1, <1>2, <1>4, TokenShape DEF Record, Empty
  <2>3. /\ OneSession({ a.baseline.token }, d, k) /\ Lasts(a.baseline.token[1], s, d, k, o)
        /\ SameTokens(d, k, e, j) /\ NoLoss(d, k, e, j, o, p)
    BY <1>1, <1>4, <2>1 DEF AttemptInv
  <2>4. QED BY <1>1, <2>2, <2>3, OneSessionKept, LastsKept
<1>5. ASSUME b.pc \in Sent
      PROVE  /\ ~Empty(b.baseline) /\ b.token = b.baseline.token /\ Held(b.token, t, e, v)
             /\ ~b.superseded => OneSession({ b.token }, e, j) /\ Lasts(b.token[1], t, e, j, p)
             /\ b.token \in Token /\ s[b.token[1]].status # "unborn"
  <2>1. /\ a.pc \in Sent /\ ~Empty(a.baseline) /\ a.token = a.baseline.token
        /\ Held(a.token, s, d, u)
        /\ ~a.superseded => OneSession({ a.token }, d, k) /\ Lasts(a.token[1], s, d, k, o)
    BY <1>1, <1>5 DEF AttemptInv, Sent
  <2>2. a.token \in Token /\ a.token[1] \in Family
    BY <1>2, <2>1, TokenShape DEF Record, Empty
  <2>3. Held(a.token, t, e, v)
    BY <2>1, <2>2, HeldKept
  <2>4. ~b.superseded => OneSession({ a.token }, e, j) /\ Lasts(a.token[1], t, e, j, p)
    BY <1>1, <2>1, <2>2, OneSessionKept, LastsKept
  <2>5. QED BY <1>1, <2>1, <2>2, <2>3, <2>4 DEF Held
<1>6. ASSUME b.pc = "answered", b.answer = "ok"
      PROVE  Follows(b.granted, b.token, t)
  BY <1>1, <1>5, <1>6, FollowsKept DEF AttemptInv, Sent
<1>7. ASSUME b.pc = "answered", b.answer = "invalid"
      PROVE  b.granted = NoToken /\ Ended(b.token[1], t)
  <2>1. a.granted = NoToken /\ Ended(a.token[1], s) /\ b.granted = a.granted
    BY <1>1, <1>7 DEF AttemptInv, Sent
  <2>2. a.token[1] \in Family
    BY <1>1, <1>5, <1>7, TokenShape DEF Sent
  <2>3. QED BY <1>1, <2>1, <2>2 DEF Tables, Grows
<1>8. ASSUME b.pc = "committing"
      PROVE  /\ MutationInv(b.mutation, t, e, j)
             /\ ~b.superseded => Lasts(b.mutation.base.token[1], t, e, j, p)
  <2>1. /\ MutationInv(a.mutation, s, d, k) /\ b.mutation = a.mutation
        /\ ~a.superseded => Lasts(a.mutation.base.token[1], s, d, k, o)
    BY <1>1, <1>8 DEF AttemptInv, Sent
  <2>2. MutationInv(a.mutation, t, e, j) /\ a.mutation.base.token[1] \in Family
    BY <1>8, <2>1, MutationKept
  <2>3. QED BY <1>1, <1>8, <2>1, <2>2, LastsKept
<1>9. ASSUME b.pc = "committed", ~b.superseded
      PROVE  /\ MutationInv(b.mutation, t, e, j)
             /\ Lasts(b.mutation.base.token[1], t, e, j, p)
             /\ b.answer = "done" => OneSession({ b.mutation.next }, e, j)
             /\ b.answer = "refused" =>
                  \A x \in Seen(e, j) : b.mutation.base.revision < x.revision
             /\ b.answer \in { "done", "refused", "threw" }
  <2>1. /\ MutationInv(a.mutation, s, d, k) /\ b.mutation = a.mutation /\ b.answer = a.answer
        /\ Lasts(a.mutation.base.token[1], s, d, k, o)
        /\ a.answer = "done" => OneSession({ a.mutation.next }, d, k)
        /\ a.answer = "refused" => \A x \in Seen(d, k) : a.mutation.base.revision < x.revision
        /\ a.answer \in { "done", "refused", "threw" }
    BY <1>1, <1>9 DEF AttemptInv, Sent
  <2>2. MutationInv(a.mutation, t, e, j) /\ a.mutation.base.token[1] \in Family
    BY <1>9, <2>1, MutationKept
  <2>3. Lasts(a.mutation.base.token[1], t, e, j, p)
    BY <1>9, <2>1, <2>2, LastsKept
  <2>4. a.answer = "done" => OneSession({ a.mutation.next }, e, j)
    BY <1>9, <2>1, OneSessionKept
  <2>5. ASSUME a.answer = "refused", NEW y \in Seen(e, j)
        PROVE  a.mutation.base.revision < y.revision
    <3>1. a.mutation.base.revision \in Nat
      BY <2>1 DEF MutationInv, Mutation, Record
    <3>2. CASE y \in Seen(d, k)
      BY <2>1, <2>5, <3>2
    <3>3. CASE \E x \in Seen(d, k) : x.revision < y.revision
      <4>1. PICK x \in Seen(d, k) : x.revision < y.revision
        BY <3>3
      <4>2. x.revision \in Nat /\ y.revision \in Nat
        BY StoredRecords
      <4>3. QED BY <2>1, <2>5, <3>1, <4>1, <4>2
    <3>4. QED BY <3>2, <3>3 DEF MovesOn
  <2>6. QED BY <2>1, <2>2, <2>3, <2>4, <2>5
<1>10. QED BY <1>3, <1>4, <1>5, <1>6, <1>7, <1>8, <1>9 DEF AttemptInv, Sent

LEMMA KeepsMoves ==
  ASSUME NEW d \in Disk, NEW e \in Disk, NEW k \in Nat, NEW j \in Nat, Keeps(d, k, e, j)
  PROVE  /\ \A u : MovesOn(d, k, e, j, u)
         /\ SameTokens(d, k, e, j)
         /\ \A o : NoLoss(d, k, e, j, o, o)
         /\ \A o, p : p # "none" => NoLoss(d, k, e, j, o, p)
<1>1. Stored(e) \subseteq Stored(d) /\ Seen(e, j) \subseteq Seen(d, k) /\ j <= k
  BY KeepsSeen DEF Keeps
<1>2. \A y \in Stored(e) : ~Empty(y) => y.token[2] <= y.token[2]
  BY StoredRecords
<1>3. \A u : MovesOn(d, k, e, j, u)
  BY <1>1, <1>2 DEF MovesOn
<1>4. QED BY <1>1, <1>3 DEF SameTokens, NoLoss

LEMMA WritesMoves ==
  ASSUME NEW d \in Disk, NEW e \in Disk, NEW k \in Nat, NEW j \in Nat, NEW x \in Record,
         NEW t \in Token \cup {NoToken}, Writes(d, k, e, j, x, t), NEW u,
         t # NoToken => \/ ~Empty(x) /\ t[1] = x.token[1] /\ x.token[2] <= t[2]
                        \/ u.pc = "saving" /\ t[1] = u.family
  PROVE  /\ MovesOn(d, k, e, j, u)
         /\ t = x.token \/ t = NoToken => SameTokens(d, k, e, j)
         /\ t = x.token => \A o : NoLoss(d, k, e, j, o, o)
         /\ \A o, p : p # "none" => NoLoss(d, k, e, j, o, p)
<1> DEFINE y == [ revision |-> x.revision + 1, token |-> t ]
<1>1. y.revision > x.revision /\ y.token = t /\ x.revision \in Nat
  BY DEF Record
<1>2. x \in Seen(d, k) /\ x \in Stored(d) /\ Stored(e) \subseteq { x, y } /\ j <= k
  BY StoredRecords DEF Writes
<1> HIDE DEF y
<1>3. Seen(e, j) \subseteq { x, y }
  BY <1>2, StoredRecords
<1>4. ~Empty(x) => x.token[2] <= x.token[2]
  BY <1>2, StoredRecords
<1>5. MovesOn(d, k, e, j, u)
  BY <1>1, <1>2, <1>3, <1>4 DEF MovesOn, Empty
<1>6. QED BY <1>1, <1>2, <1>3, <1>5 DEF SameTokens, NoLoss, Empty

(* What the invariant says of the disk. *)
LEMMA StoreFacts ==
  ASSUME IInv
  PROVE  /\ disk \in Disk /\ faults \in Nat /\ faults \in 0 .. 2
         /\ StoreShape(disk, faults) /\ ShadowInv(disk, faults)
         /\ \A x \in Stored(disk) : /\ x \in Record /\ x.revision \in Nat
                                    /\ ~Empty(x) => /\ x.token \in Token /\ x.token[1] \in Family
                                                    /\ x.token[2] \in Nat
         /\ Seen(disk, faults) \subseteq Stored(disk)
  BY StoredRecords DEF IInv, StoreShape

LEMMA TypedTables ==
  ASSUME IInv, CoordinatorTypes', Grows(session, session'),
         \A f \in Family : FamilyInv(f, session', replay')
  PROVE  Tables(session, session')
  BY DEF IInv, CoordinatorTypes, TypeOK, FamilyInv, Grows, Tables

LEMMA SameTables ==
  ASSUME IInv, CoordinatorTypes', UNCHANGED <<session, replay>>
  PROVE  /\ \A f \in Family : FamilyInv(f, session', replay')
         /\ Tables(session, session')
         /\ OrderInv(session', latest)
         /\ \A x \in Stored(disk) : ~Empty(x) =>
              session'[x.token[1]].current[2] <= x.token[2] + 1
<1>1. \A f \in Family : session[f].status # "unborn" => session[f].current[2] \in Nat
  BY TokenShape DEF IInv, FamilyInv
<1>2. Grows(session, session')
  BY <1>1 DEF Grows
<1>3. \A f \in Family : FamilyInv(f, session', replay')
  BY DEF IInv
<1>4. QED BY <1>2, <1>3, TypedTables DEF IInv, StoreInv

Posted == IF attempt.pc = "posted" THEN {attempt.token} ELSE {}

LEMMA HeldToken ==
  ASSUME IInv, attempt.pc \in Sent
  PROVE  attempt.token \in Token /\ Held(attempt.token, session, disk, user)
  BY DEF IInv, CoordinatorTypes, AttemptInv, Sent

LEMMA WireKept ==
  ASSUME IInv, CoordinatorTypes', Tables(session, session'), StoreShape(disk', faults'),
         MovesOn(disk, faults, disk', faults', user), Enters(user, user', session),
         wire' \subseteq wire \cup Posted
  PROVE  WireInv(wire', session', disk', user')
<1>1. SUFFICES ASSUME NEW n \in wire' PROVE Held(n, session', disk', user')
  BY DEF WireInv
<1>2. n \in Token /\ Held(n, session, disk, user)
  BY HeldToken DEF Posted, IInv, WireInv, CoordinatorTypes, TypeOK, Sent
<1>3. QED BY <1>2, HeldKept, StoreFacts DEF StoreShape

(* The store keeps what it shows. *)
LEMMA StoreKept ==
  ASSUME IInv, CoordinatorTypes', StoreKeeps, latest' = latest,
         Tables(session, session'), Enters(user, user', session),
         \A x \in Stored(disk) : ~Empty(x) =>
           session'[x.token[1]].current[2] <= x.token[2] + 1
  PROVE  /\ StoreShape(disk', faults')
         /\ StoreInv(session', disk', user', latest')
         /\ MovesOn(disk, faults, disk', faults', user)
         /\ SameTokens(disk, faults, disk', faults')
         /\ NoLoss(disk, faults, disk', faults', signOut, signOut)
         /\ \A p : p # "none" => NoLoss(disk, faults, disk', faults', signOut, p)
         /\ Visible(disk') = Visible(disk)
         /\ (Empty(disk.canonical) => Empty(Visible(disk)))
              => (Empty(disk'.canonical) => Empty(Visible(disk')))
<1>1. disk \in Disk /\ disk' \in Disk /\ faults \in Nat /\ faults' \in Nat
  BY StoreFacts DEF StoreKeeps, StoreShape
<1>2. StoreShape(disk', faults') /\ Keeps(disk, faults, disk', faults')
  BY DEF StoreKeeps
<1>3. Stored(disk') \subseteq Stored(disk)
  BY <1>1, <1>2, KeepsSeen
<1>4. StoreInv(session', disk', user', latest')
  <2>1. SUFFICES ASSUME NEW x \in Stored(disk), ~Empty(x)
                 PROVE  /\ session'[x.token[1]].status # "unborn"
                        /\ x.token[2] <= session'[x.token[1]].current[2]
                        /\ x.token[1] >= latest'
                        /\ user'.pc = "saving" => x.token[1] # user'.family
    BY <1>3 DEF StoreInv
  <2>2. x.token \in Token /\ x.token[1] \in Family /\ x.token[2] \in Nat
    BY <2>1, StoreFacts
  <2>3. /\ session[x.token[1]].status # "unborn"
        /\ x.token[2] <= session[x.token[1]].current[2]
        /\ x.token[1] >= latest
        /\ user.pc = "saving" => x.token[1] # user.family
    BY <2>1 DEF IInv, StoreInv
  <2>4. session[x.token[1]].current[2] \in Nat /\ session'[x.token[1]].current[2] \in Nat
    BY <2>2, <2>3, TokenShape DEF Tables
  <2>5. QED BY <2>2, <2>3, <2>4 DEF Tables, Grows, Enters
<1>5. /\ MovesOn(disk, faults, disk', faults', user)
      /\ SameTokens(disk, faults, disk', faults')
      /\ NoLoss(disk, faults, disk', faults', signOut, signOut)
      /\ \A p : p # "none" => NoLoss(disk, faults, disk', faults', signOut, p)
  BY <1>1, <1>2, KeepsMoves
<1>6. QED BY <1>2, <1>4, <1>5 DEF Keeps, Stored

LEMMA SameStore ==
  ASSUME IInv, UNCHANGED <<disk, faults>>
  PROVE  StoreKeeps
  BY StoreFacts DEF StoreKeeps, Keeps, Stored

(* A pending mutation that a step leaves alone, with the attempt or its     *)
(* end, or drops.                                                          *)
LEMMA PendingKept ==
  ASSUME IInv, CoordinatorTypes', Tables(session, session'), StoreShape(disk', faults'),
         MovesOn(disk, faults, disk', faults', user),
         \/ pending' = NoMutation
         \/ /\ pending' = pending /\ (attempt' = attempt \/ attempt'.pc = "idle")
            /\ SameTokens(disk, faults, disk', faults')
            /\ NoLoss(disk, faults, disk', faults', signOut, signOut')
  PROVE  PendingInv(pending', attempt', session', disk', faults', signOut')
<1> SUFFICES ASSUME pending' # NoMutation
             PROVE  PendingInv(pending', attempt', session', disk', faults', signOut')
  BY DEF PendingInv
<1>1. /\ MutationInv(pending, session, disk, faults)
      /\ Lasts(pending.base.token[1], session, disk, faults, signOut)
      /\ attempt.pc \in {"idle", "begun", "committing", "committed"}
      /\ attempt.pc # "idle" => ~attempt.superseded
      /\ attempt.pc \in {"committing", "committed"} => attempt.mutation = pending
  BY DEF IInv, PendingInv
<1>2. disk \in Disk /\ disk' \in Disk
  BY StoreFacts DEF StoreShape
<1>3. MutationInv(pending, session', disk', faults') /\ pending.base.token[1] \in Family
  BY <1>1, <1>2, MutationKept
<1>4. Lasts(pending.base.token[1], session', disk', faults', signOut')
  BY <1>1, <1>3, LastsKept
<1>5. QED BY <1>1, <1>3, <1>4 DEF PendingInv

LEMMA Assembled ==
  ASSUME IInv, CoordinatorTypes', now' <= MaxTime, StoreShape(disk', faults'),
         Tables(session, session'), \A f \in Family : FamilyInv(f, session', replay'),
         OrderInv(session', latest'), StoreInv(session', disk', user', latest'),
         MovesOn(disk, faults, disk', faults', user), Enters(user, user', session),
         wire' \subseteq wire \cup Posted,
         AttemptInv(attempt', session', disk', faults', user', signOut'),
         PendingInv(pending', attempt', session', disk', faults', signOut'),
         UserInv(session', disk', user', attempt', pending', latest', signOut'),
         signOut' = "confirmed" => Empty(Visible(disk'))
  PROVE  IInv'
<1>1. WireInv(wire', session', disk', user')
  BY WireKept
<1>2. StoreShape(disk, faults)' /\ (\A f \in Family : FamilyInv(f, session, replay))'
  BY DEF StoreShape, FamilyInv, ShadowInv
<1>3. QED BY <1>1, <1>2 DEF IInv

(* A step on the memory of the coordinator and, at most, a read.           *)
LEMMA MemoryStep ==
  ASSUME IInv, CoordinatorTypes', StoreKeeps, UNCHANGED <<server, user, history>>,
         wire' \subseteq wire \cup Posted,
         AttemptInv(attempt', session', disk', faults', user', signOut'),
         PendingInv(pending', attempt', session', disk', faults', signOut'),
         user.pc = "saving" =>
           pending' = NoMutation /\ (attempt'.pc = "idle" \/ attempt'.superseded)
  PROVE  IInv'
<1>1. UNCHANGED <<now, session, replay, user, latest, signOut>>
  BY DEF server, history
<1>2. /\ \A f \in Family : FamilyInv(f, session', replay')
      /\ Tables(session, session') /\ OrderInv(session', latest)
      /\ \A x \in Stored(disk) : ~Empty(x) =>
           session'[x.token[1]].current[2] <= x.token[2] + 1
  BY <1>1, SameTables
<1>3. Enters(user, user', session)
  BY <1>1 DEF Enters
<1>4. /\ StoreShape(disk', faults') /\ StoreInv(session', disk', user', latest')
      /\ MovesOn(disk, faults, disk', faults', user) /\ Visible(disk') = Visible(disk)
      /\ (Empty(disk.canonical) => Empty(Visible(disk)))
              => (Empty(disk'.canonical) => Empty(Visible(disk')))
  BY <1>1, <1>2, <1>3, StoreKept
<1>5. UserInv(session', disk', user', attempt', pending', latest', signOut')
  BY <1>1, <1>4 DEF IInv, UserInv
<1>6. now' <= MaxTime /\ (signOut' = "confirmed" => Empty(Visible(disk')))
  BY <1>1, <1>4 DEF IInv
<1>7. QED BY <1>1, <1>2, <1>3, <1>4, <1>5, <1>6, Assembled

(* The same, of an attempt that is left alone or given up.                 *)
LEMMA QuietStep ==
  ASSUME IInv, CoordinatorTypes', StoreKeeps, UNCHANGED <<server, user, history>>,
         wire' \subseteq wire \cup Posted, Leaves(attempt, attempt'),
         \/ pending' = NoMutation
         \/ pending' = pending /\ (attempt' = attempt \/ attempt'.pc = "idle"),
         user.pc = "saving" /\ attempt.superseded => attempt'.superseded \/ attempt'.pc = "idle"
  PROVE  IInv'
<1>1. UNCHANGED <<now, session, replay, user, latest, signOut>>
  BY DEF server, history
<1>2. Tables(session, session')
      /\ \A x \in Stored(disk) : ~Empty(x) =>
           session'[x.token[1]].current[2] <= x.token[2] + 1
  BY <1>1, SameTables
<1>3. Enters(user, user', session)
  BY <1>1 DEF Enters
<1>4. /\ StoreShape(disk', faults') /\ MovesOn(disk, faults, disk', faults', user)
      /\ SameTokens(disk, faults, disk', faults')
      /\ NoLoss(disk, faults, disk', faults', signOut, signOut')
  BY <1>1, <1>2, <1>3, StoreKept
<1>5. AttemptInv(attempt', session', disk', faults', user', signOut')
  <2>1. attempt \in Attempt /\ attempt' \in Attempt
    BY DEF IInv, CoordinatorTypes, TypeOK
  <2>2. /\ disk \in Disk /\ disk' \in Disk /\ faults \in Nat /\ faults' \in Nat
        /\ AttemptInv(attempt, session, disk, faults, user, signOut)
    BY <1>4, StoreFacts DEF IInv, StoreShape
  <2>3. QED BY <1>2, <1>3, <1>4, <2>1, <2>2, AttemptKept
<1>6. PendingInv(pending', attempt', session', disk', faults', signOut')
  BY <1>2, <1>4, PendingKept
<1>7. user.pc = "saving" => pending' = NoMutation /\ (attempt'.pc = "idle" \/ attempt'.superseded)
  BY DEF IInv, UserInv, Leaves, Sent
<1>8. QED BY <1>5, <1>6, <1>7, MemoryStep
-----------------------------------------------------------------------------
(* The steps of an attempt.                                                *)

(* What was read is the earliest that can be read from now on, and nothing  *)
(* else is stored unless the last failure has been used up.                *)
LEMMA ShowsEarlier ==
  ASSUME IInv, NEW r, StoreKeeps, Shows(r)
  PROVE  /\ r.record \in Stored(disk)
         /\ Earlier(r.record, disk', faults')
         /\ Stored(disk') = { r.record } \/ (faults > 0 /\ faults' = 0)
<1>1. disk \in Disk /\ disk' \in Disk /\ Visible(disk') = Visible(disk)
  BY StoreFacts DEF StoreKeeps, StoreShape, Keeps
<1>2. r.record \in Stored(disk) /\ r.record.revision \in Nat
  <2>1. r.record \in Stored(disk)
    BY DEF Shows, Stored
  <2>2. QED BY <2>1, StoreFacts
<1>3. CASE Stored(disk') = { r.record }
  BY <1>1, <1>2, <1>3, StoredRecords DEF Earlier
<1>4. CASE faults' = 0 /\ UNCHANGED disk /\ r.record = disk.canonical
  <2>1. Seen(disk', faults') = { Visible(disk) }
    BY <1>1, <1>4 DEF Seen
  <2>2. /\ disk.canonical.revision <= Visible(disk).revision
        /\ disk.canonical.revision = Visible(disk).revision => Visible(disk) = disk.canonical
    BY <1>1, <1>2, <1>4, VisibleOf, StoreFacts DEF Adoptable, Record, ShadowInv
  <2>3. QED BY <1>2, <1>4, <2>1, <2>2 DEF Earlier, Shows
<1>5. CASE faults' = 0 /\ r.record = Visible(disk)
  BY <1>1, <1>2, <1>5 DEF Earlier, Seen, Shows
<1>6. QED BY <1>2, <1>3, <1>4, <1>5 DEF Shows

(* What a read leaves of what was known before it. *)
LEMMA ReadKept ==
  ASSUME IInv, CoordinatorTypes', StoreKeeps, UNCHANGED <<server, user, history>>
  PROVE  /\ Tables(session, session') /\ disk \in Disk /\ disk' \in Disk
         /\ MovesOn(disk, faults, disk', faults', user)
         /\ SameTokens(disk, faults, disk', faults')
         /\ NoLoss(disk, faults, disk', faults', signOut, signOut')
         /\ UNCHANGED <<now, session, replay, user, latest, signOut>>
         /\ Enters(user, user', session)
<1>1. UNCHANGED <<now, session, replay, user, latest, signOut>>
  BY DEF server, history
<1>2. Tables(session, session')
      /\ \A x \in Stored(disk) : ~Empty(x) =>
           session'[x.token[1]].current[2] <= x.token[2] + 1
  BY <1>1, SameTables
<1>3. Enters(user, user', session)
  BY <1>1 DEF Enters
<1>4. /\ StoreShape(disk', faults') /\ MovesOn(disk, faults, disk', faults', user)
      /\ SameTokens(disk, faults, disk', faults')
      /\ NoLoss(disk, faults, disk', faults', signOut, signOut')
  BY <1>1, <1>2, <1>3, StoreKept
<1>5. QED BY <1>1, <1>2, <1>3, <1>4, StoreFacts DEF StoreShape

LEMMA PendingRead ==
  ASSUME IInv, CoordinatorTypes', StoreKeeps, UNCHANGED <<server, user, history>>,
         pending # NoMutation
  PROVE  /\ MutationInv(pending, session', disk', faults')
         /\ Lasts(pending.base.token[1], session', disk', faults', signOut')
<1>1. /\ MutationInv(pending, session, disk, faults)
      /\ Lasts(pending.base.token[1], session, disk, faults, signOut)
  BY DEF IInv, PendingInv
<1>2. MutationInv(pending, session', disk', faults') /\ pending.base.token[1] \in Family
  BY <1>1, ReadKept, MutationKept
<1>3. QED BY <1>1, <1>2, ReadKept, LastsKept

LEMMA StartInv == ASSUME IInv, Start, CoordinatorTypes' PROVE IInv'
<1>1. PICK r \in ReadPersisted(disk) :
        /\ QueueFree /\ Happens(r) /\ r.result = "done"
        /\ attempt' = [ IdleAttempt EXCEPT !.pc = "begun", !.baseline = r.record ]
  BY DEF Start, Read
<1>2. StoreKeeps /\ Shows(r) /\ user.pc # "saving"
  BY <1>1, ReadEffect, StoreFacts DEF QueueFree
<1>3. UNCHANGED <<server, user, history>> /\ wire' = wire /\ pending' = pending
      /\ attempt.pc = "idle"
  BY DEF Start
<1>4. attempt'.pc = "begun" /\ attempt'.baseline = r.record /\ ~attempt'.superseded
  BY <1>1 DEF IdleAttempt
<1>5. /\ r.record \in Stored(disk) /\ Earlier(r.record, disk', faults')
      /\ Stored(disk') = { r.record } \/ faults' = 0
  BY <1>2, ShowsEarlier
<1>6. disk' \in Disk
  BY <1>2 DEF StoreKeeps, StoreShape
<1>7. AttemptInv(attempt', session', disk', faults', user', signOut')
  <2>1. ASSUME faults' > 0, ~Empty(r.record)
        PROVE  /\ OneSession({ r.record.token }, disk', faults')
               /\ Lasts(r.record.token[1], session', disk', faults', signOut')
    <3>1. Seen(disk', faults') \subseteq { r.record }
      BY <1>5, <1>6, <2>1, StoredRecords
    <3>2. QED BY <2>1, <3>1 DEF OneSession, Lasts
  <2>2. QED BY <1>4, <1>5, <2>1 DEF AttemptInv
<1>8. PendingInv(pending', attempt', session', disk', faults', signOut')
  BY <1>2, <1>3, <1>4, PendingRead DEF PendingInv
<1>9. QED BY <1>2, <1>3, <1>7, <1>8, MemoryStep

LEMMA IdleLeaves ==
  ASSUME attempt' = IdleAttempt
  PROVE  attempt'.pc = "idle" /\ Leaves(attempt, attempt')
  BY DEF IdleAttempt, Leaves

(* The end of an attempt, with or behind a read. *)
LEMMA EndStep ==
  ASSUME IInv, CoordinatorTypes', StoreKeeps, UNCHANGED <<server, user, history>>,
         wire' \subseteq wire \cup Posted, attempt' = IdleAttempt,
         pending' = pending \/ pending' = NoMutation
  PROVE  IInv'
  BY IdleLeaves, QuietStep

(* The token that is posted. *)
LEMMA PostedHeld ==
  ASSUME IInv, NEW r, StoreKeeps, Shows(r), attempt.pc = "begun",
         r.record = attempt.baseline, ~Empty(r.record)
  PROVE  Held(r.record.token, session, disk', user)
<1> DEFINE n == r.record.token
<1>1. disk \in Disk /\ disk' \in Disk /\ r.record \in Stored(disk)
  BY ShowsEarlier, StoreFacts DEF StoreKeeps, StoreShape
<1>2. /\ session[n[1]].status # "unborn" /\ n[2] <= session[n[1]].current[2]
      /\ user.pc = "saving" => n[1] # user.family /\ n[2] \in Nat /\ n[2] <= n[2]
  BY <1>1, StoreFacts DEF IInv, StoreInv
<1>3. n[2] \in Nat
  BY <1>1, StoreFacts
<1>4. ASSUME NEW x \in Stored(disk'), ~Empty(x), x.token[1] = n[1] PROVE n[2] <= x.token[2]
  <2>1. CASE x = r.record
    BY <1>3, <2>1
  <2>2. CASE UNCHANGED disk /\ r.record = disk.canonical /\ x # r.record
    <3>1. x = Visible(disk) /\ x = disk.shadow /\ x # NoRecord
      BY <1>1, <1>4, <2>2, VisibleOf, NoRecordAssumption DEF Stored
    <3>2. QED BY <1>4, <2>2, <3>1, StoreFacts DEF ShadowInv
  <2>3. CASE /\ faults > 0 /\ r.record = Visible(disk)
             /\ Visible(disk).revision = disk.canonical.revision + 1
    <3>1. Earlier(attempt.baseline, disk, faults) /\ disk.canonical \in Seen(disk, faults)
      BY <2>3 DEF IInv, AttemptInv, Seen, Stored
    <3>2. disk.canonical.revision \in Nat
      BY <1>1, VisibleOf DEF Record
    <3>3. QED BY <2>3, <3>1, <3>2 DEF Earlier
  <2>4. CASE Stored(disk') = { r.record }
    BY <1>4, <2>1, <2>4
  <2>5. QED BY <2>1, <2>2, <2>3, <2>4 DEF Shows
<1>5. QED BY <1>2, <1>4 DEF Held

LEMMA CheckInv == ASSUME IInv, Check, CoordinatorTypes' PROVE IInv'
<1>1. PICK r \in ReadPersisted(disk) :
       /\ QueueFree /\ Happens(r)
       /\ IF r.result = "threw" \/ attempt.superseded THEN End
          ELSE IF Capability(r.record) # NoToken
          THEN /\ attempt' = [ attempt EXCEPT !.pc = "posted", !.token = Capability(r.record) ]
               /\ KeepPending
          ELSE IF pending # NoMutation THEN RetryPending(r.record)
          ELSE End
  BY DEF Check, Read
<1>2. StoreKeeps /\ (r.result = "threw" \/ Shows(r)) /\ user.pc # "saving"
  BY <1>1, ReadEffect, StoreFacts DEF QueueFree
<1>3. UNCHANGED <<server, user, history>> /\ wire' = wire /\ attempt.pc = "begun"
      /\ attempt \in Attempt
  BY DEF Check, IInv, CoordinatorTypes, TypeOK
<1>4. CASE End
  BY <1>2, <1>3, <1>4, EndStep DEF End
<1>5. CASE /\ r.result # "threw" /\ ~attempt.superseded /\ Capability(r.record) # NoToken
           /\ attempt' = [ attempt EXCEPT !.pc = "posted", !.token = Capability(r.record) ]
           /\ KeepPending
  <2>1. /\ attempt.baseline = r.record /\ Capability(r.record) = r.record.token
        /\ pending = NoMutation /\ pending' = NoMutation /\ ~Empty(r.record) /\ Shows(r)
    BY <1>2, <1>5 DEF Capability, KeepPending, Empty
  <2>2. /\ attempt'.pc = "posted" /\ attempt'.baseline = r.record
        /\ attempt'.token = r.record.token
    BY <1>3, <1>5, <2>1 DEF Attempt
  <2>3. /\ Earlier(r.record, disk', faults')
        /\ Stored(disk') = { r.record } \/ faults > 0
        /\ Held(r.record.token, session, disk', user) /\ disk' \in Disk
        /\ r.record.token[1] \in Family
    BY <1>2, <1>3, <2>1, ShowsEarlier, PostedHeld, StoreFacts DEF StoreKeeps, StoreShape
  <2>4. /\ OneSession({ r.record.token }, disk', faults')
        /\ Lasts(r.record.token[1], session', disk', faults', signOut')
    <3>1. CASE Stored(disk') = { r.record }
      <4>1. Seen(disk', faults') \subseteq { r.record }
        BY <2>3, <3>1, StoredRecords
      <4>2. QED BY <2>1, <4>1 DEF OneSession, Lasts
    <3>2. CASE faults > 0
      <4>1. /\ OneSession({ r.record.token }, disk, faults)
            /\ Lasts(r.record.token[1], session, disk, faults, signOut)
        BY <1>3, <1>5, <2>1, <3>2 DEF IInv, AttemptInv
      <4>2. QED BY <1>2, <1>3, <2>3, <4>1, ReadKept, OneSessionKept, LastsKept
    <3>3. QED BY <2>3, <3>1, <3>2
  <2>5. Held(r.record.token, session', disk', user')
    BY <1>3, <2>3 DEF server
  <2>6. AttemptInv(attempt', session', disk', faults', user', signOut')
    <3>1. ~Empty(attempt'.baseline) /\ attempt'.token = attempt'.baseline.token
      BY <2>1, <2>2
    <3>2. Earlier(attempt'.baseline, disk', faults')
      BY <2>2, <2>3
    <3>3. Held(attempt'.token, session', disk', user')
      BY <2>2, <2>5
    <3>4. /\ OneSession({ attempt'.token }, disk', faults')
          /\ Lasts(attempt'.token[1], session', disk', faults', signOut')
      BY <2>2, <2>4
    <3>5. QED BY <2>2, <3>1, <3>2, <3>3, <3>4 DEF AttemptInv
  <2>7. PendingInv(pending', attempt', session', disk', faults', signOut')
    BY <2>1 DEF PendingInv
  <2>8. QED BY <1>2, <1>3, <2>6, <2>7, MemoryStep
<1>6. CASE ~attempt.superseded /\ pending # NoMutation /\ RetryPending(r.record)
  <2>1. CASE attempt' = IdleAttempt /\ pending' = NoMutation
    BY <1>2, <1>3, <2>1, EndStep
  <2>2. CASE attempt' = [ attempt EXCEPT !.pc = "committing", !.mutation = pending ] /\ KeepPending
    <3>1. /\ attempt'.pc = "committing" /\ attempt'.mutation = pending
          /\ attempt'.superseded = attempt.superseded /\ pending' = pending
      BY <1>3, <2>2 DEF Attempt, KeepPending
    <3>2. /\ MutationInv(pending, session', disk', faults')
          /\ Lasts(pending.base.token[1], session', disk', faults', signOut')
      BY <1>2, <1>3, <1>6, PendingRead
    <3>3. AttemptInv(attempt', session', disk', faults', user', signOut')
      BY <3>1, <3>2 DEF AttemptInv
    <3>4. PendingInv(pending', attempt', session', disk', faults', signOut')
      BY <1>6, <3>1, <3>2 DEF PendingInv
    <3>5. QED BY <1>2, <1>3, <3>3, <3>4, MemoryStep
  <2>3. QED BY <1>6, <2>1, <2>2 DEF RetryPending, DropPending
<1>7. QED BY <1>1, <1>4, <1>5, <1>6

(* The steps between the requests. *)
LEMMA SentStep ==
  ASSUME IInv, CoordinatorTypes', StoreKeeps, UNCHANGED <<server, user, history>>,
         wire' \subseteq wire \cup Posted, pending' = pending, attempt.pc \in Sent,
         \/ attempt' = IdleAttempt
         \/ /\ attempt'.pc \in Sent \ {"answered"} /\ attempt'.baseline = attempt.baseline
            /\ attempt'.token = attempt.token /\ attempt'.mutation = attempt.mutation
            /\ attempt'.superseded = attempt.superseded
  PROVE  IInv'
<1>1. pending' = NoMutation
  BY DEF IInv, PendingInv, Sent
<1>2. Leaves(attempt, attempt')
  BY IdleLeaves DEF Leaves
<1>3. attempt.superseded => attempt'.superseded \/ attempt'.pc = "idle"
  BY IdleLeaves
<1>4. QED BY <1>1, <1>2, <1>3, QuietStep

LEMMA FetchInv == ASSUME IInv, FetchFails, CoordinatorTypes' PROVE IInv'
<1>1. UNCHANGED <<server, user, history, pending>> /\ StoreKeeps
      /\ attempt.pc \in Sent /\ attempt \in Attempt
  BY SameStore DEF FetchFails, IInv, CoordinatorTypes, TypeOK, Sent
<1>2. wire' \subseteq wire \cup Posted
  BY DEF FetchFails, Posted
<1>3. CASE attempt' = [ attempt EXCEPT !.pc = "waiting", !.answer = "none", !.granted = NoToken ]
  <2>1. /\ attempt'.pc = "waiting" /\ attempt'.baseline = attempt.baseline
        /\ attempt'.token = attempt.token /\ attempt'.mutation = attempt.mutation
        /\ attempt'.superseded = attempt.superseded
    BY <1>1, <1>3 DEF Attempt
  <2>2. QED BY <1>1, <1>2, <2>1, SentStep DEF Sent
<1>4. QED BY <1>1, <1>2, <1>3, SentStep DEF FetchFails

LEMMA WakeInv == ASSUME IInv, Wake, CoordinatorTypes' PROVE IInv'
<1>1. UNCHANGED <<server, user, history, pending>> /\ StoreKeeps /\ wire' \subseteq wire \cup Posted
      /\ attempt.pc \in Sent /\ attempt \in Attempt
  BY SameStore DEF Wake, IInv, CoordinatorTypes, TypeOK, Sent
<1>2. CASE attempt' = [ attempt EXCEPT !.pc = "retrying" ]
  <2>1. /\ attempt'.pc = "retrying" /\ attempt'.baseline = attempt.baseline
        /\ attempt'.token = attempt.token /\ attempt'.mutation = attempt.mutation
        /\ attempt'.superseded = attempt.superseded
    BY <1>1, <1>2 DEF Attempt
  <2>2. QED BY <1>1, <2>1, SentStep DEF Sent
<1>3. QED BY <1>1, <1>2, SentStep DEF Wake

LEMMA ResendInv == ASSUME IInv, Resend, CoordinatorTypes' PROVE IInv'
<1>1. PICK r \in ReadPersisted(disk) :
       /\ Happens(r)
       /\ \/ attempt' = [ attempt EXCEPT !.pc = "posted", !.retried = TRUE ]
          \/ attempt' = IdleAttempt
  BY DEF Resend, Read
<1>2. UNCHANGED <<server, user, history, pending>> /\ StoreKeeps /\ wire' \subseteq wire \cup Posted
      /\ attempt.pc \in Sent /\ attempt \in Attempt
  BY <1>1, ReadEffect, StoreFacts DEF Resend, IInv, CoordinatorTypes, TypeOK, Sent
<1>3. CASE attempt' = [ attempt EXCEPT !.pc = "posted", !.retried = TRUE ]
  <2>1. /\ attempt'.pc = "posted" /\ attempt'.baseline = attempt.baseline
        /\ attempt'.token = attempt.token /\ attempt'.mutation = attempt.mutation
        /\ attempt'.superseded = attempt.superseded
    BY <1>2, <1>3 DEF Attempt
  <2>2. QED BY <1>2, <2>1, SentStep DEF Sent
<1>4. QED BY <1>1, <1>2, <1>3, SentStep

LEMMA HandleInv == ASSUME IInv, Handle, CoordinatorTypes' PROVE IInv'
<1>1. UNCHANGED <<server, user, history>> /\ wire' \subseteq wire \cup Posted
      /\ attempt.pc = "answered" /\ attempt \in Attempt
  BY DEF Handle, IInv, CoordinatorTypes, TypeOK
<1>2. CASE End /\ UNCHANGED <<disk, faults>>
  BY <1>1, <1>2, SameStore, EndStep DEF End
<1>3. CASE /\ Actionable(attempt) /\ ~attempt.superseded
           /\ \E r \in ReadPersisted(disk) :
             /\ Read(r)
             /\ IF r.result = "done" /\ r.record = attempt.baseline
                THEN /\ attempt' = [ attempt EXCEPT !.pc = "committing",
                           !.mutation = [ base |-> attempt.baseline, next |-> attempt.granted ] ]
                     /\ confirmedInvalid' = (confirmedInvalid \/ attempt.answer = "invalid")
                     /\ UNCHANGED pending
                ELSE End
  <2>1. PICK r \in ReadPersisted(disk) :
             /\ Happens(r) /\ user.pc # "saving"
             /\ \/ /\ attempt' = [ attempt EXCEPT !.pc = "committing",
                           !.mutation = [ base |-> attempt.baseline, next |-> attempt.granted ] ]
                   /\ UNCHANGED pending /\ r.result = "done" /\ r.record = attempt.baseline
                \/ End
    BY <1>3 DEF Read, QueueFree
  <2>2. StoreKeeps /\ (r.result = "done" => Shows(r))
    BY <2>1, ReadEffect, StoreFacts
  <2>3. CASE End
    BY <1>1, <2>2, <2>3, EndStep DEF End
  <2>4. CASE /\ attempt' = [ attempt EXCEPT !.pc = "committing",
                   !.mutation = [ base |-> attempt.baseline, next |-> attempt.granted ] ]
             /\ UNCHANGED pending /\ r.result = "done" /\ r.record = attempt.baseline
    <3> DEFINE m == [ base |-> attempt.baseline, next |-> attempt.granted ]
    <3>1. /\ attempt'.pc = "committing" /\ attempt'.mutation = m
          /\ attempt'.superseded = attempt.superseded
      BY <1>1, <2>4 DEF Attempt
    <3>2. /\ m \in Mutation /\ m.base = attempt.baseline /\ m.next = attempt.granted
      BY <1>1 DEF Mutation, Attempt
    <3> HIDE DEF m
    <3>3. /\ ~Empty(attempt.baseline) /\ attempt.token = attempt.baseline.token
          /\ Held(attempt.token, session, disk, user)
          /\ OneSession({ attempt.token }, disk, faults)
          /\ Lasts(attempt.token[1], session, disk, faults, signOut)
          /\ attempt.answer = "ok" => Follows(attempt.granted, attempt.token, session)
          /\ attempt.answer = "invalid" =>
               attempt.granted = NoToken /\ Ended(attempt.token[1], session)
      BY <1>1, <1>3 DEF IInv, AttemptInv
    <3>4. session' = session /\ attempt.token \in Token /\ attempt.token[1] \in Family
      BY <1>1, <3>3, TokenShape DEF server, Attempt, Record, Empty
    <3>5. /\ OneSession({ attempt.token }, disk', faults')
          /\ Lasts(attempt.token[1], session', disk', faults', signOut')
      BY <1>1, <2>2, <3>3, <3>4, ReadKept, OneSessionKept, LastsKept
    <3>6. Earlier(attempt.baseline, disk', faults')
      BY <2>2, <2>4, ShowsEarlier
    <3>7. /\ attempt.granted = NoToken => Ended(attempt.token[1], session)
          /\ attempt.granted # NoToken => Follows(attempt.granted, attempt.token, session)
      BY <1>3, <3>3, NoTokenAssumption DEF Actionable, Follows
    <3>8. OneSession({ m.base.token, m.next }, disk', faults')
      BY <3>2, <3>3, <3>5 DEF OneSession
    <3>9. MutationInv(m, session', disk', faults')
      BY <3>2, <3>3, <3>4, <3>6, <3>7, <3>8 DEF MutationInv, Held
    <3>10. AttemptInv(attempt', session', disk', faults', user', signOut')
      BY <3>1, <3>2, <3>3, <3>5, <3>9 DEF AttemptInv
    <3>11. PendingInv(pending', attempt', session', disk', faults', signOut')
      BY <1>1, <2>4 DEF IInv, PendingInv
    <3>12. pending = NoMutation
      BY <1>1 DEF IInv, PendingInv
    <3>13. QED BY <1>1, <2>1, <2>2, <2>4, <3>10, <3>11, MemoryStep
  <2>5. QED BY <2>1, <2>3, <2>4
<1>4. QED BY <1>2, <1>3 DEF Handle

LEMMA FinishInv == ASSUME IInv, Finish, CoordinatorTypes' PROVE IInv'
<1>1. UNCHANGED <<server, user, history, disk, faults>> /\ wire' = wire
      /\ attempt.pc = "committed" /\ attempt' = IdleAttempt
  BY DEF Finish
<1>2. StoreKeeps
  BY <1>1, SameStore
<1>3. CASE pending' = pending \/ pending' = NoMutation
  BY <1>1, <1>2, <1>3, EndStep
<1>4. CASE ~attempt.superseded /\ pending' = attempt.mutation
  <2>1. attempt'.pc = "idle"
    BY <1>1, IdleLeaves
  <2>2. /\ MutationInv(attempt.mutation, session, disk, faults)
        /\ Lasts(attempt.mutation.base.token[1], session, disk, faults, signOut)
        /\ user.pc # "saving"
    BY <1>1, <1>4 DEF IInv, AttemptInv, UserInv
  <2>3. session' = session /\ disk' = disk /\ faults' = faults /\ signOut' = signOut
    BY <1>1 DEF server, history
  <2>4. PendingInv(pending', attempt', session', disk', faults', signOut')
    BY <1>4, <2>1, <2>2, <2>3 DEF PendingInv
  <2>5. AttemptInv(attempt', session', disk', faults', user', signOut')
    BY <2>1 DEF AttemptInv
  <2>6. QED BY <1>1, <1>2, <2>2, <2>4, <2>5, MemoryStep
<1>5. QED BY <1>1, <1>3, <1>4 DEF Finish, KeepPending

LEMMA SupersedeLeaves ==
  ASSUME IInv, Supersede
  PROVE  /\ Leaves(attempt, attempt') /\ pending' = NoMutation
         /\ attempt'.pc = "idle" \/ attempt'.superseded
  BY DEF IInv, CoordinatorTypes, TypeOK, Attempt, Supersede, Leaves

LEMMA ReadEffectiveInv == ASSUME IInv, ReadEffective, CoordinatorTypes' PROVE IInv'
<1>1. PICK r \in ReadPersisted(disk) : Happens(r) /\ EffectiveRead(r)
  BY DEF ReadEffective, Read
<1>2. StoreKeeps /\ pending' \in {pending, NoMutation}
  BY <1>1, ReadEffect, StoreFacts DEF EffectiveRead, KeepPending, DropPending
<1>3. attempt' = attempt /\ UNCHANGED <<server, user, history>> /\ wire' = wire
      /\ Leaves(attempt, attempt')
  BY DEF ReadEffective, Leaves
<1>4. QED BY <1>2, <1>3, QuietStep

LEMMA NotifyInv == ASSUME IInv, Notify, CoordinatorTypes' PROVE IInv'
<1>1. PICK r \in ReadPersisted(disk) : Happens(r)
  BY DEF Notify, Read
<1>2. StoreKeeps /\ UNCHANGED <<server, user, history>> /\ wire' = wire
  BY <1>1, ReadEffect, StoreFacts DEF Notify
<1>3. QED BY <1>2, SupersedeLeaves, QuietStep DEF Notify
-----------------------------------------------------------------------------
(* The steps of the server.                                                *)

LEMMA ServedDecision ==
  ASSUME IInv, NEW n \in Token, Held(n, session, disk, user),
         NEW answer, NEW granted, Served(n, answer, granted)
  PROVE  \/ /\ UNCHANGED <<session, replay>>
            /\ answer = "ok" => Follows(granted, n, session)
            /\ answer = "invalid" => granted = NoToken /\ Ended(n[1], session)
         \/ /\ n = session[n[1]].current /\ Successor(n) \in Token
            /\ session' = [ session EXCEPT ![n[1]] = Row(n) ]
            /\ replay' = [ replay EXCEPT ![n[1]] = Grant(n) ]
            /\ <<answer, granted>> \in { <<"ok", Successor(n)>>, <<"transient", NoToken>> }
            /\ session[n[1]].status = "active"
         \/ /\ session' = [ session EXCEPT ![n[1]].status = "revoked" ]
            /\ UNCHANGED replay
            /\ answer # "ok" /\ granted = NoToken
<1> DEFINE f == n[1]
           d == Decide(session[f], replay[f], n, TRUE, now)
<1>1. f \in Family /\ n[2] \in Nat /\ n = <<n[1], n[2]>>
  BY TokenShape
<1>2. /\ session[f].status # "unborn" /\ n[2] <= session[f].current[2]
      /\ session[f].current \in Token /\ session[f].current[1] = f
      /\ session[f].expires = MaxTime + 1
      /\ replay[f] # NoRow => /\ replay[f].replacement = session[f].current
                              /\ replay[f].spent[2] + 1 = session[f].current[2]
  BY <1>1 DEF IInv, Held, FamilyInv
<1>3. session[f].current[2] \in Nat
  BY <1>2, TokenShape
<1>4. d = "Replay" => Follows(replay[f].replacement, n, session)
  <2>1. SUFFICES ASSUME d = "Replay" PROVE Follows(replay[f].replacement, n, session)
    OBVIOUS
  <2>2. Replayable(session[f], replay[f], n, now)
    BY <2>1 DEF Decide
  <2>3. replay[f] # NoRow /\ replay[f].replacement = session[f].current
    BY <1>2, <2>2 DEF Replayable, Fresh
  <2>4. n = session[f].current \/ n = replay[f].spent
    BY <2>2, <2>3 DEF Replayable
  <2>5. n[2] <= session[f].current[2] /\ session[f].current[2] <= n[2] + 1
    BY <1>1, <1>2, <1>3, <2>3, <2>4
  <2>6. QED BY <1>2, <1>3, <2>3, <2>5 DEF Follows
<1>5. d = "Rotate" => n = session[f].current /\ session[f].status = "active"
  BY DEF Decide, Usable
<1>6. d = "Invalid" => Ended(f, session)
  <2>1. now < MaxTime + 1
    BY BoundAssumption DEF IInv, CoordinatorTypes, TypeOK
  <2>2. d = "Invalid" => ~Usable(session[f], now)
    BY DEF Decide
  <2>3. QED BY <1>1, <1>2, <2>1, <2>2, BoundAssumption
         DEF Usable, Ended, IInv, CoordinatorTypes, TypeOK
<1> HIDE DEF d
<1>7. CASE answer = "transient" /\ granted = NoToken /\ UNCHANGED <<session, replay>>
  BY <1>7
<1>8. CASE /\ d = "Rotate" /\ Successor(n) \in Token
           /\ session' = [ session EXCEPT ![f] = Row(n) ]
           /\ replay' = [ replay EXCEPT ![f] = Grant(n) ]
           /\ <<answer, granted>> \in { <<"ok", Successor(n)>>, <<"transient", NoToken>> }
  BY <1>5, <1>8
<1>9. CASE /\ d = "Replay" /\ answer = "ok" /\ granted = replay[f].replacement
           /\ UNCHANGED <<session, replay>>
  BY <1>4, <1>9
<1>10. CASE /\ session' = [ session EXCEPT ![f].status = "revoked" ]
            /\ <<answer, granted>> \in { <<"invalid", NoToken>>, <<"transient", NoToken>> }
            /\ UNCHANGED replay
  BY <1>10
<1>11. CASE /\ d = "Invalid" /\ answer = "invalid" /\ granted = NoToken
            /\ UNCHANGED <<session, replay>>
  BY <1>6, <1>11
<1>12. QED BY <1>7, <1>8, <1>9, <1>10, <1>11 DEF Served, d

(* The order of the logins does not change with the state of a session.    *)
LEMMA OrderKept ==
  ASSUME IInv, \A f \in Family : session'[f].status = "unborn" <=> session[f].status = "unborn"
  PROVE  OrderInv(session', latest)
  BY DEF IInv, OrderInv

(* A revoked row. *)
LEMMA RevokedInv ==
  ASSUME IInv, NEW f \in Family, session[f].status # "unborn",
         session' = [ session EXCEPT ![f].status = "revoked" ], UNCHANGED replay
  PROVE  /\ \A g \in Family : FamilyInv(g, session', replay')
         /\ Grows(session, session') /\ Ended(f, session') /\ OrderInv(session', latest)
         /\ \A g \in Family : session'[g].current = session[g].current
<1>1. session \in [ Family -> SessionRow ]
  BY DEF IInv, CoordinatorTypes, TypeOK
<1>2. \A g \in Family : /\ session'[g].current = session[g].current
                        /\ session'[g].expires = session[g].expires
                        /\ session'[g].status = IF g = f THEN "revoked" ELSE session[g].status
  BY <1>1 DEF SessionRow
<1>3. \A g \in Family : session[g].status # "unborn" =>
                          session[g].current[2] <= session'[g].current[2]
  BY <1>2, TokenShape DEF IInv, FamilyInv
<1>4. OrderInv(session', latest)
  BY <1>2, OrderKept
<1>5. QED BY <1>2, <1>3, <1>4 DEF IInv, FamilyInv, Grows, Ended

LEMMA ServedInv ==
  ASSUME IInv, CoordinatorTypes', NEW n \in Token, Held(n, session, disk, user),
         NEW answer, NEW granted, Served(n, answer, granted)
  PROVE  /\ \A f \in Family : FamilyInv(f, session', replay')
         /\ Tables(session, session') /\ OrderInv(session', latest)
         /\ \A x \in Stored(disk) : ~Empty(x) =>
              session'[x.token[1]].current[2] <= x.token[2] + 1
         /\ user.pc = "saving" => session'[user.family].current = session[user.family].current
         /\ answer = "ok" => Follows(granted, n, session')
         /\ answer = "invalid" => granted = NoToken /\ Ended(n[1], session')
<1>1. n[1] \in Family /\ n[2] \in Nat /\ n = <<n[1], n[2]>>
  BY TokenShape
<1>2. session \in [ Family -> SessionRow ] /\ replay \in [ Family -> ReplayRow \cup {NoRow} ]
  BY DEF IInv, CoordinatorTypes, TypeOK
<1>3. session[n[1]].status # "unborn" /\ (user.pc = "saving" => n[1] # user.family)
  BY DEF Held
<1>4. \A x \in Stored(disk) : ~Empty(x) =>
        /\ x.token \in Token /\ x.token[1] \in Family /\ x.token[2] \in Nat
        /\ session[x.token[1]].current[2] <= x.token[2] + 1
  BY StoreFacts DEF IInv, StoreInv
<1>5. user.pc = "saving" => user.family \in Family
  BY DEF IInv, CoordinatorTypes
<1>6. CASE UNCHANGED <<session, replay>>
           /\ (answer = "ok" => Follows(granted, n, session))
           /\ (answer = "invalid" => granted = NoToken /\ Ended(n[1], session))
  BY <1>6, SameTables
<1>7. CASE /\ session' = [ session EXCEPT ![n[1]].status = "revoked" ]
           /\ UNCHANGED replay /\ answer # "ok" /\ granted = NoToken
  <2>1. /\ \A g \in Family : FamilyInv(g, session', replay')
        /\ Grows(session, session') /\ Ended(n[1], session') /\ OrderInv(session', latest)
        /\ \A g \in Family : session'[g].current = session[g].current
    BY <1>1, <1>3, <1>7, RevokedInv
  <2>2. QED BY <1>4, <1>5, <1>7, <2>1, TypedTables
<1>8. CASE /\ n = session[n[1]].current /\ Successor(n) \in Token
           /\ session' = [ session EXCEPT ![n[1]] = Row(n) ]
           /\ replay' = [ replay EXCEPT ![n[1]] = Grant(n) ]
           /\ <<answer, granted>> \in { <<"ok", Successor(n)>>, <<"transient", NoToken>> }
           /\ session[n[1]].status = "active"
  <2>1. /\ session'[n[1]] = Row(n) /\ replay'[n[1]] = Grant(n)
        /\ \A f \in Family \ {n[1]} : session'[f] = session[f] /\ replay'[f] = replay[f]
    BY <1>1, <1>2, <1>8
  <2>2. /\ Row(n).status = "active" /\ Row(n).current = Successor(n)
        /\ Row(n).expires = MaxTime + 1
        /\ Grant(n).spent = n /\ Grant(n).replacement = Successor(n)
    BY DEF Row, Grant
  <2>3. Successor(n)[1] = n[1] /\ Successor(n)[2] = n[2] + 1
    BY DEF Successor
  <2>4. \A f \in Family : FamilyInv(f, session', replay')
    <3>1. FamilyInv(n[1], session', replay')
      BY <1>1, <1>8, <2>1, <2>2, <2>3 DEF FamilyInv
    <3>2. \A f \in Family \ {n[1]} : FamilyInv(f, session', replay')
      BY <2>1 DEF IInv, FamilyInv
    <3>3. QED BY <3>1, <3>2
  <2>5. Grows(session, session')
    <3>1. \A f \in Family : session[f].status # "unborn" => session[f].current[2] \in Nat
      BY TokenShape DEF IInv, FamilyInv
    <3>2. n[2] <= n[2] + 1
      BY <1>1
    <3>3. QED BY <1>1, <1>8, <2>1, <2>2, <2>3, <3>1, <3>2 DEF Grows, Ended
  <2>6. ASSUME NEW x \in Stored(disk), ~Empty(x)
        PROVE  session'[x.token[1]].current[2] <= x.token[2] + 1
    <3>1. CASE x.token[1] = n[1]
      <4>1. n[2] <= x.token[2] /\ x.token[2] \in Nat
        BY <1>4, <2>6, <3>1 DEF Held
      <4>2. QED BY <1>1, <2>1, <2>2, <2>3, <3>1, <4>1
    <3>2. CASE x.token[1] # n[1]
      BY <1>4, <2>1, <2>6, <3>2
    <3>3. QED BY <3>1, <3>2
  <2>7. user.pc = "saving" => session'[user.family].current = session[user.family].current
    BY <1>3, <1>5, <2>1
  <2>8. answer = "ok" => Follows(granted, n, session')
    BY <1>1, <1>8, <2>1, <2>2, <2>3 DEF Follows
  <2>9. answer # "invalid"
    BY <1>8
  <2>10. OrderInv(session', latest)
    BY <1>3, <2>1, <2>2, OrderKept
  <2>11. QED BY <2>4, <2>5, <2>6, <2>7, <2>8, <2>9, <2>10, TypedTables
<1>9. QED BY <1>6, <1>7, <1>8, ServedDecision

(* A step on the tables that leaves client and store alone, or supersedes.  *)
LEMMA TableStep ==
  ASSUME IInv, CoordinatorTypes', now' <= MaxTime, UNCHANGED <<disk, faults, latest>>,
         Tables(session, session'), \A f \in Family : FamilyInv(f, session', replay'),
         OrderInv(session', latest), Enters(user, user', session),
         \A x \in Stored(disk) : ~Empty(x) =>
           session'[x.token[1]].current[2] <= x.token[2] + 1,
         wire' \subseteq wire \cup Posted,
         \/ signOut' = signOut
            /\ AttemptInv(attempt', session', disk', faults', user', signOut')
         \/ Leaves(attempt, attempt') /\ (signOut' # "confirmed" \/ signOut' = signOut),
         \/ pending' = NoMutation
         \/ pending' = pending /\ attempt' = attempt /\ signOut' = signOut,
         attempt'.pc # "idle" /\ ~attempt'.superseded => signOut' = signOut \/ signOut' # "none",
         UserInv(session', disk', user', attempt', pending', latest', signOut')
  PROVE  IInv'
<1>1. StoreKeeps
  BY SameStore
<1>2. /\ StoreShape(disk', faults')
      /\ StoreInv(session', disk', user', latest')
      /\ MovesOn(disk, faults, disk', faults', user)
      /\ SameTokens(disk, faults, disk', faults')
      /\ NoLoss(disk, faults, disk', faults', signOut, signOut)
      /\ \A p : p # "none" => NoLoss(disk, faults, disk', faults', signOut, p)
  BY <1>1, StoreKept
<1>3. AttemptInv(attempt', session', disk', faults', user', signOut')
  <2>1. SUFFICES ASSUME Leaves(attempt, attempt')
                 PROVE  AttemptInv(attempt', session', disk', faults', user', signOut')
    OBVIOUS
  <2>2. attempt \in Attempt /\ attempt' \in Attempt /\ disk \in Disk /\ disk' \in Disk
        /\ faults \in Nat /\ faults' \in Nat
    BY StoreFacts DEF IInv, CoordinatorTypes, TypeOK
  <2>3. attempt'.pc # "idle" /\ ~attempt'.superseded =>
          NoLoss(disk, faults, disk', faults', signOut, signOut')
    BY <1>2
  <2>4. AttemptInv(attempt, session, disk, faults, user, signOut)
    BY DEF IInv
  <2>5. QED BY <1>2, <2>1, <2>2, <2>3, <2>4, AttemptKept
<1>4. PendingInv(pending', attempt', session', disk', faults', signOut')
  BY <1>2, PendingKept
<1>5. signOut' = "confirmed" => Empty(Visible(disk'))
  BY DEF IInv
<1>6. OrderInv(session', latest')
  OBVIOUS
<1>7. QED BY <1>2, <1>3, <1>4, <1>5, <1>6, Assembled

LEMMA SameLeaves == ASSUME UNCHANGED attempt PROVE Leaves(attempt, attempt')
  BY DEF Leaves

LEMMA ServeInv == ASSUME IInv, Serve, CoordinatorTypes' PROVE IInv'
<1>1. PICK answer \in {"ok", "invalid", "transient"}, granted \in Token \cup {NoToken} :
       /\ Served(attempt.token, answer, granted)
       /\ attempt' = [ attempt EXCEPT !.pc = "answered", !.answer = answer, !.granted = granted ]
  BY DEF Serve
<1> DEFINE n == attempt.token
<1>2. n \in Token /\ Held(n, session, disk, user) /\ attempt.pc = "posted" /\ attempt \in Attempt
  BY HeldToken DEF Serve, Sent, IInv, CoordinatorTypes, TypeOK
<1>3. /\ \A f \in Family : FamilyInv(f, session', replay')
      /\ Tables(session, session') /\ OrderInv(session', latest)
      /\ \A x \in Stored(disk) : ~Empty(x) =>
           session'[x.token[1]].current[2] <= x.token[2] + 1
      /\ user.pc = "saving" => session'[user.family].current = session[user.family].current
      /\ answer = "ok" => Follows(granted, n, session')
      /\ answer = "invalid" => granted = NoToken /\ Ended(n[1], session')
  BY <1>1, <1>2, ServedInv
<1>4. UNCHANGED <<disk, user, latest, signOut, wire, now, pending, faults>>
  BY DEF Serve, history
<1>5. Enters(user, user', session)
  BY <1>4 DEF Enters
<1>6. /\ StoreShape(disk', faults') /\ MovesOn(disk, faults, disk', faults', user)
      /\ SameTokens(disk, faults, disk', faults')
      /\ NoLoss(disk, faults, disk', faults', signOut, signOut')
  BY <1>3, <1>4, <1>5, SameStore, StoreKept
<1>7. disk \in Disk /\ disk' \in Disk
  BY <1>6, StoreFacts DEF StoreShape
<1>8. /\ attempt'.pc = "answered" /\ attempt'.answer = answer /\ attempt'.granted = granted
      /\ attempt'.baseline = attempt.baseline /\ attempt'.token = n
      /\ attempt'.superseded = attempt.superseded
  BY <1>1, <1>2 DEF Attempt
<1>9. AttemptInv(attempt', session', disk', faults', user', signOut')
  <2>1. Held(n, session', disk', user')
    BY <1>2, <1>3, <1>5, <1>6, <1>7, HeldKept
  <2>2. /\ Earlier(attempt.baseline, disk, faults) /\ ~Empty(attempt.baseline)
        /\ n = attempt.baseline.token
        /\ ~attempt.superseded =>
             OneSession({ n }, disk, faults) /\ Lasts(n[1], session, disk, faults, signOut)
    BY <1>2 DEF IInv, AttemptInv
  <2>3. n[1] \in Family
    BY <1>2, TokenShape
  <2>4. ~attempt.superseded =>
          OneSession({ n }, disk', faults') /\ Lasts(n[1], session', disk', faults', signOut')
    BY <1>3, <1>6, <2>2, <2>3, OneSessionKept, LastsKept
  <2>5. Earlier(attempt.baseline, disk', faults')
    BY <1>4, <2>2
  <2>6. QED BY <1>3, <1>8, <2>1, <2>2, <2>4, <2>5 DEF AttemptInv
<1>10. UserInv(session', disk', user', attempt', pending', latest', signOut')
  <2>1. user.pc = "saving" => user.family \in Family
    BY DEF IInv, CoordinatorTypes
  <2>2. QED BY <1>2, <1>3, <1>4, <1>8, <2>1 DEF IInv, UserInv, Tables, Grows
<1>11. pending' = NoMutation
  BY <1>2, <1>4 DEF IInv, PendingInv
<1>12. now' <= MaxTime /\ wire' \subseteq wire \cup Posted
  BY <1>4 DEF IInv
<1>13. QED
  BY <1>3, <1>4, <1>5, <1>9, <1>10, <1>11, <1>12, TableStep

LEMMA ServeLateInv ==
  ASSUME IInv, NEW n \in wire, ServeLate(n), CoordinatorTypes'
  PROVE  IInv'
<1>1. PICK answer \in {"ok", "invalid", "transient"}, granted \in Token \cup {NoToken} :
        Served(n, answer, granted)
  BY DEF ServeLate
<1>2. n \in Token /\ Held(n, session, disk, user)
  BY DEF IInv, CoordinatorTypes, TypeOK, WireInv
<1>3. /\ \A f \in Family : FamilyInv(f, session', replay')
      /\ Tables(session, session') /\ OrderInv(session', latest)
      /\ \A x \in Stored(disk) : ~Empty(x) =>
           session'[x.token[1]].current[2] <= x.token[2] + 1
      /\ user.pc = "saving" => session'[user.family].current = session[user.family].current
  BY <1>1, <1>2, ServedInv
<1>4. UNCHANGED <<disk, user, latest, signOut, now, pending, faults, attempt>>
      /\ wire' \subseteq wire \cup Posted
  BY DEF ServeLate, history, memory
<1>5. Enters(user, user', session)
  BY <1>4 DEF Enters
<1>6. UserInv(session', disk', user', attempt', pending', latest', signOut')
  <2>1. user.pc = "saving" => user.family \in Family
    BY DEF IInv, CoordinatorTypes
  <2>2. QED BY <1>3, <1>4, <2>1 DEF IInv, UserInv, Tables, Grows
<1>7. now' <= MaxTime
  BY <1>4 DEF IInv
<1>8. QED
  BY <1>3, <1>4, <1>5, <1>6, <1>7, SameLeaves, TableStep

LEMMA RevokeInv ==
  ASSUME IInv, NEW f \in Family, RevokeElsewhere(f), CoordinatorTypes'
  PROVE  IInv'
<1>1. /\ \A g \in Family : FamilyInv(g, session', replay')
      /\ Grows(session, session') /\ OrderInv(session', latest)
      /\ \A g \in Family : session'[g].current = session[g].current
  BY RevokedInv DEF RevokeElsewhere
<1>2. Tables(session, session')
  BY <1>1, TypedTables
<1>3. UNCHANGED <<disk, user, latest, signOut, wire, now, pending, faults, attempt>>
  BY DEF RevokeElsewhere, history, memory
<1>4. Enters(user, user', session)
  BY <1>3 DEF Enters
<1>5. \A x \in Stored(disk) : ~Empty(x) => session'[x.token[1]].current[2] <= x.token[2] + 1
  BY <1>1, StoreFacts DEF IInv, StoreInv
<1>6. UserInv(session', disk', user', attempt', pending', latest', signOut')
  <2>1. user.pc = "saving" => user.family \in Family
    BY DEF IInv, CoordinatorTypes
  <2>2. QED BY <1>1, <1>3, <2>1 DEF IInv, UserInv, Grows
<1>7. now' <= MaxTime
  BY <1>3 DEF IInv
<1>8. QED
  BY <1>1, <1>2, <1>3, <1>4, <1>5, <1>6, <1>7, SameLeaves, TableStep
-----------------------------------------------------------------------------
(* The steps that write to the store, and those of the user.               *)

(* Where nobody is shown, nobody is stored. *)
LEMMA VisibleEmpty ==
  ASSUME NEW d, Empty(Visible(d))
  PROVE  \A x \in Stored(d) : Empty(x)
  BY DEF Visible, Adoptable, Stored

(* What a write leaves of the store.                                       *)
LEMMA WroteKept ==
  ASSUME IInv, CoordinatorTypes', UNCHANGED <<session, replay>>,
         NEW x \in Seen(disk, faults), NEW t \in Token \cup {NoToken}, NEW o, Wrote(x, t, o),
         t # NoToken => \/ ~Empty(x) /\ t[1] = x.token[1] /\ x.token[2] <= t[2]
                        \/ user.pc = "saving" /\ t[1] = user.family
  PROVE  /\ disk \in Disk /\ disk' \in Disk /\ faults' \in Nat /\ StoreShape(disk', faults')
         /\ Stored(disk') \subseteq { x, [ revision |-> x.revision + 1, token |-> t ] }
         /\ x \in Stored(disk) /\ x.revision \in Nat
         /\ MovesOn(disk, faults, disk', faults', user)
         /\ t = x.token \/ t = NoToken => SameTokens(disk, faults, disk', faults')
         /\ t = x.token => NoLoss(disk, faults, disk', faults', signOut, signOut)
         /\ \A p : p # "none" => NoLoss(disk, faults, disk', faults', signOut, p)
         /\ (Empty(x) => t = NoToken) => (Empty(disk'.canonical) => Empty(Visible(disk')))
<1> DEFINE y == [ revision |-> x.revision + 1, token |-> t ]
<1>1. /\ StoreShape(disk', faults') /\ x \in Record
      /\ Writes(disk, faults, disk', faults', x, t)
  BY DEF Wrote
<1>2. disk \in Disk /\ disk' \in Disk /\ faults' \in Nat /\ faults \in Nat
  BY <1>1, StoreFacts DEF StoreShape
<1>3. x \in Stored(disk) /\ x.revision \in Nat
  BY <1>2, StoreFacts
<1>4. /\ MovesOn(disk, faults, disk', faults', user)
      /\ t = x.token \/ t = NoToken => SameTokens(disk, faults, disk', faults')
      /\ t = x.token => NoLoss(disk, faults, disk', faults', signOut, signOut)
      /\ \A p : p # "none" => NoLoss(disk, faults, disk', faults', signOut, p)
  BY <1>1, <1>2, WritesMoves
<1>5. Stored(disk') \subseteq { x, y }
  BY <1>1 DEF Writes
<1>6. y.token = t /\ y.revision = x.revision + 1
  OBVIOUS
<1> HIDE DEF y
<1>7. ASSUME Empty(x) => t = NoToken, Empty(disk'.canonical)
      PROVE  Empty(Visible(disk'))
  <2>1. CASE disk'.canonical = x
    BY <1>5, <1>6, <1>7, <2>1 DEF Stored, Empty
  <2>2. CASE disk'.canonical = y /\ Visible(disk') # y
    <3>1. Visible(disk') = x /\ disk'.canonical.revision <= Visible(disk').revision
      BY <1>2, <1>5, <2>2, VisibleOf DEF Stored, Adoptable
    <3>2. QED BY <1>3, <1>6, <2>2, <3>1
  <2>3. QED BY <1>5, <1>7, <2>1, <2>2 DEF Stored
<1>8. QED BY <1>1, <1>2, <1>3, <1>4, <1>5, <1>7 DEF y

LEMMA ApplyStored ==
  ASSUME IInv, CoordinatorTypes', Apply, NEW base, base = attempt.mutation.base,
         NEW next, next = attempt.mutation.next, NEW o, Wrote(base, next, o),
         base \in Seen(disk, faults)
  PROVE  /\ StoreShape(disk', faults') /\ StoreInv(session', disk', user', latest')
         /\ MovesOn(disk, faults, disk', faults', user)
         /\ UserInv(session, disk', user, attempt, pending, latest, signOut)
         /\ signOut # "confirmed"
         /\ attempt.superseded \/ /\ MutationInv(attempt.mutation, session, disk', faults')
                                  /\ Lasts(base.token[1], session, disk', faults', signOut)
                                  /\ o.result = "done" => OneSession({ next }, disk', faults')
<1> DEFINE y == [ revision |-> base.revision + 1, token |-> next ]
<1>1. UNCHANGED <<session, replay, user, latest, signOut>> /\ attempt.pc = "committing"
      /\ attempt.mutation \in Mutation
  BY DEF Apply, server, history, IInv, CoordinatorTypes
<1>2. /\ MutationInv(attempt.mutation, session, disk, faults)
      /\ ~attempt.superseded => Lasts(base.token[1], session, disk, faults, signOut)
  BY <1>1 DEF IInv, AttemptInv
<1>3. /\ base \in Record /\ next \in Token \cup {NoToken} /\ ~Empty(base)
      /\ base.token \in Token /\ base.token[1] \in Family /\ base.token[2] \in Nat
      /\ next = NoToken => Ended(base.token[1], session)
      /\ next # NoToken => Follows(next, base.token, session)
  BY <1>1, <1>2, TokenShape DEF MutationInv, Mutation, Record, Empty
<1>4. next # NoToken =>
        /\ next[1] = base.token[1] /\ base.token[2] <= next[2] /\ next[2] \in Nat
        /\ next[2] <= session[base.token[1]].current[2]
  BY <1>3, TokenShape DEF Follows
<1>5. /\ disk \in Disk /\ disk' \in Disk /\ StoreShape(disk', faults') /\ faults' \in Nat
      /\ Stored(disk') \subseteq { base, y }
      /\ base \in Stored(disk)
      /\ MovesOn(disk, faults, disk', faults', user)
      /\ Empty(disk'.canonical) => Empty(Visible(disk'))
  BY <1>1, <1>3, <1>4, WroteKept
<1>6. y.token = next
  OBVIOUS
<1>7. o.result = "done" => Stored(disk') = { y }
  BY DEF Wrote
<1> HIDE DEF y
<1>8. /\ session[base.token[1]].status # "unborn"
      /\ base.token[2] <= session[base.token[1]].current[2]
      /\ session[base.token[1]].current[2] <= base.token[2] + 1
      /\ base.token[1] >= latest
      /\ user.pc = "saving" => base.token[1] # user.family
  BY <1>3, <1>5 DEF IInv, StoreInv
<1>9. session[base.token[1]].current[2] \in Nat
  BY <1>3, <1>8, TokenShape DEF IInv, FamilyInv
<1>10. StoreInv(session', disk', user', latest')
  <2>1. SUFFICES ASSUME NEW z \in {base, y}, ~Empty(z)
                 PROVE  /\ session[z.token[1]].status # "unborn"
                        /\ z.token[2] <= session[z.token[1]].current[2]
                        /\ session[z.token[1]].current[2] <= z.token[2] + 1
                        /\ z.token[1] >= latest
                        /\ user.pc = "saving" => z.token[1] # user.family
    BY <1>1, <1>5 DEF StoreInv
  <2>2. CASE z = base
    BY <1>8, <2>2
  <2>3. CASE z = y
    BY <1>3, <1>4, <1>6, <1>8, <1>9, <2>1, <2>3 DEF Empty
  <2>4. QED BY <2>2, <2>3
<1>11. signOut # "confirmed"
  BY <1>3, <1>5, VisibleEmpty DEF IInv
<1>12. UserInv(session, disk', user, attempt, pending, latest, signOut)
  BY <1>5 DEF IInv, UserInv
<1>13. Seen(disk', faults') \subseteq { base, y }
  BY <1>5, StoredRecords
<1>14. ASSUME ~attempt.superseded
       PROVE  /\ MutationInv(attempt.mutation, session, disk', faults')
              /\ Lasts(base.token[1], session, disk', faults', signOut)
              /\ o.result = "done" => OneSession({ next }, disk', faults')
  <2>1. Earlier(base, disk', faults')
    BY <1>2, <1>3, <1>5, EarlierKept DEF MutationInv
  <2>2. OneSession({ base.token, next }, disk', faults')
    BY <1>6, <1>13 DEF OneSession
  <2>3. MutationInv(attempt.mutation, session, disk', faults')
    BY <1>2, <2>1, <2>2 DEF MutationInv
  <2>4. Lasts(base.token[1], session, disk', faults', signOut)
    BY <1>3, <1>6, <1>13 DEF Lasts, Empty
  <2>5. o.result = "done" => OneSession({ next }, disk', faults')
    BY <1>5, <1>6, <1>7, StoredRecords DEF OneSession
  <2>6. QED BY <2>3, <2>4, <2>5
<1>15. QED BY <1>5, <1>10, <1>11, <1>12, <1>14

(* The same where the compare-and-swap has not written. *)
LEMMA ApplyKept ==
  ASSUME IInv, CoordinatorTypes', Apply, StoreKeeps, NEW o,
         \/ o.result = "threw"
         \/ /\ o.result = "refused"
            /\ \E x \in Seen(disk, faults) :
                 /\ x.revision # attempt.mutation.base.revision
                 /\ \A y \in Seen(disk', faults') : x.revision <= y.revision
  PROVE  /\ StoreShape(disk', faults') /\ StoreInv(session', disk', user', latest')
         /\ MovesOn(disk, faults, disk', faults', user)
         /\ UserInv(session, disk', user, attempt, pending, latest, signOut)
         /\ Visible(disk') = Visible(disk)
         /\ attempt.superseded \/
              /\ MutationInv(attempt.mutation, session, disk', faults')
              /\ Lasts(attempt.mutation.base.token[1], session, disk', faults', signOut)
              /\ o.result = "refused" =>
                   \A x \in Seen(disk', faults') : attempt.mutation.base.revision < x.revision
<1> DEFINE base == attempt.mutation.base
<1>1. UNCHANGED <<server, user, history>> /\ attempt.pc = "committing"
      /\ attempt.mutation \in Mutation
  BY DEF Apply, IInv, CoordinatorTypes
<1>2. UNCHANGED <<session, replay, user, latest, signOut>>
  BY <1>1 DEF server, history
<1>3. /\ Tables(session, session') /\ disk \in Disk /\ disk' \in Disk
      /\ MovesOn(disk, faults, disk', faults', user)
      /\ SameTokens(disk, faults, disk', faults')
      /\ NoLoss(disk, faults, disk', faults', signOut, signOut')
      /\ Enters(user, user', session)
  BY <1>1, ReadKept
<1>4. /\ StoreShape(disk', faults') /\ StoreInv(session', disk', user', latest')
      /\ Visible(disk') = Visible(disk)
      /\ (Empty(disk.canonical) => Empty(Visible(disk)))
              => (Empty(disk'.canonical) => Empty(Visible(disk')))
  BY <1>2, <1>3, SameTables, StoreKept
<1>5. UserInv(session, disk', user, attempt, pending, latest, signOut)
  BY <1>4 DEF IInv, UserInv
<1>6. /\ MutationInv(attempt.mutation, session, disk, faults)
      /\ ~attempt.superseded => Lasts(base.token[1], session, disk, faults, signOut)
  BY <1>1 DEF IInv, AttemptInv
<1>7. MutationInv(attempt.mutation, session, disk', faults') /\ base.token[1] \in Family
  BY <1>2, <1>3, <1>6, MutationKept
<1>8. ~attempt.superseded => Lasts(base.token[1], session, disk', faults', signOut)
  BY <1>2, <1>3, <1>6, <1>7, LastsKept
<1>9. ASSUME o.result = "refused", NEW y \in Seen(disk', faults')
      PROVE  base.revision < y.revision
  <2>1. PICK x \in Seen(disk, faults) :
          x.revision # base.revision /\ \A z \in Seen(disk', faults') : x.revision <= z.revision
    BY <1>9
  <2>2. base.revision <= x.revision
    BY <1>6 DEF MutationInv, Earlier
  <2>3. base.revision \in Nat /\ x.revision \in Nat /\ y.revision \in Nat
    BY <1>1, <1>3, StoredRecords DEF Mutation, Record
  <2>4. x.revision <= y.revision
    BY <2>1
  <2>5. QED BY <2>1, <2>2, <2>3, <2>4
<1>10. QED BY <1>3, <1>4, <1>5, <1>7, <1>8, <1>9

LEMMA ApplyInv == ASSUME IInv, Apply, CoordinatorTypes' PROVE IInv'
<1> DEFINE base == attempt.mutation.base
           next == attempt.mutation.next
<1>1. PICK o \in CompareAndSwap(disk, base.revision, next) :
        Happens(o) /\ attempt' = [ attempt EXCEPT !.pc = "committed", !.answer = o.result ]
  BY DEF Apply
<1>2. UNCHANGED <<server, user, history, pending>> /\ wire' = wire
      /\ attempt.pc = "committing" /\ attempt.mutation \in Mutation /\ attempt \in Attempt
  BY DEF Apply, IInv, CoordinatorTypes, TypeOK
<1>3. base \in Record /\ base.revision \in Nat /\ next \in Token \cup {NoToken}
  BY <1>2 DEF Mutation, Record
<1>4. MutationInv(attempt.mutation, session, disk, faults)
  BY <1>2 DEF IInv, AttemptInv
<1>5. \A x \in Seen(disk, faults) : x.revision = base.revision => x = base
  BY <1>4 DEF MutationInv, Earlier
<1>6. MayFollow(base, next)
  BY <1>4 DEF MutationInv, Follows, MayFollow
<1>7. \/ StoreKeeps /\ o.result = "threw"
      \/ /\ StoreKeeps /\ o.result = "refused"
         /\ \E x \in Seen(disk, faults) :
              x.revision # base.revision /\ \A y \in Seen(disk', faults') : x.revision <= y.revision
      \/ base \in Seen(disk, faults) /\ Wrote(base, next, o)
  <2>1. \A x \in Seen(disk, faults) : x.revision = base.revision => MayFollow(x, next)
    BY <1>5, <1>6
  <2>2. StoreShape(disk, faults)
    BY StoreFacts
  <2>3. QED BY <1>1, <1>3, <1>5, <2>1, <2>2, CasEffect
<1>8. /\ StoreShape(disk', faults') /\ StoreInv(session', disk', user', latest')
      /\ MovesOn(disk, faults, disk', faults', user)
      /\ UserInv(session, disk', user, attempt, pending, latest, signOut)
      /\ signOut = "confirmed" => Empty(Visible(disk'))
      /\ attempt.superseded \/
           /\ MutationInv(attempt.mutation, session, disk', faults')
           /\ Lasts(base.token[1], session, disk', faults', signOut)
           /\ o.result = "done" => OneSession({ next }, disk', faults')
           /\ o.result = "refused" => \A x \in Seen(disk', faults') : base.revision < x.revision
           /\ o.result \in { "done", "refused", "threw" }
  <2>1. CASE StoreKeeps /\ \/ o.result = "threw"
                           \/ /\ o.result = "refused"
                              /\ \E x \in Seen(disk, faults) :
                                   /\ x.revision # base.revision
                                   /\ \A y \in Seen(disk', faults') : x.revision <= y.revision
    <3>1. signOut = "confirmed" => Empty(Visible(disk))
      BY DEF IInv
    <3>2. QED BY <2>1, <3>1, ApplyKept
  <2>2. CASE base \in Seen(disk, faults) /\ Wrote(base, next, o)
    <3>1. o.result \in { "done", "threw" }
      BY <2>2 DEF Wrote
    <3>2. QED BY <2>2, <3>1, ApplyStored
  <2>3. QED BY <1>7, <2>1, <2>2
<1>9. UNCHANGED <<now, session, replay, user, latest, signOut>>
  BY <1>2 DEF server, history
<1>10. /\ attempt'.pc = "committed" /\ attempt'.answer = o.result
       /\ attempt'.mutation = attempt.mutation /\ attempt'.superseded = attempt.superseded
  BY <1>1, <1>2 DEF Attempt
<1>11. AttemptInv(attempt', session', disk', faults', user', signOut')
  BY <1>8, <1>9, <1>10 DEF AttemptInv
<1>12. PendingInv(pending', attempt', session', disk', faults', signOut')
  <2>1. pending # NoMutation => attempt.mutation = pending /\ ~attempt.superseded
    BY <1>2 DEF IInv, PendingInv
  <2>2. QED BY <1>2, <1>8, <1>9, <1>10, <2>1 DEF PendingInv
<1>13. UserInv(session', disk', user', attempt', pending', latest', signOut')
  BY <1>2, <1>8, <1>9, <1>10 DEF UserInv
<1>14. /\ \A f \in Family : FamilyInv(f, session', replay')
       /\ Tables(session, session') /\ OrderInv(session', latest')
  BY <1>9, SameTables
<1>15. Enters(user, user', session) /\ now' <= MaxTime
  BY <1>9 DEF Enters, IInv
<1>16. signOut' = "confirmed" => Empty(Visible(disk'))
  BY <1>8, <1>9
<1>17. wire' \subseteq wire \cup Posted
  BY <1>2
<1>18. QED
  BY <1>8, <1>11, <1>12, <1>13, <1>14, <1>15, <1>16, <1>17, Assembled
(* A write that is not the coordinator's own. *)
LEMMA WriteStep ==
  ASSUME IInv, CoordinatorTypes', UNCHANGED <<server, wire, memory>>,
         StoreShape(disk', faults'), MovesOn(disk, faults, disk', faults', user),
         Enters(user, user', session), OrderInv(session', latest'),
         StoreInv(session', disk', user', latest'),
         attempt.pc = "committing" \/ pending # NoMutation
             \/ (attempt.pc # "idle" /\ ~attempt.superseded)
           => SameTokens(disk, faults, disk', faults'),
         pending # NoMutation \/ (attempt.pc # "idle" /\ ~attempt.superseded)
           => NoLoss(disk, faults, disk', faults', signOut, signOut'),
         UserInv(session', disk', user', attempt', pending', latest', signOut'),
         signOut' = "confirmed" => Empty(Visible(disk'))
  PROVE  IInv'
<1>1. UNCHANGED <<now, session, replay, wire, attempt, pending>>
  BY DEF server, memory
<1>2. (\A f \in Family : FamilyInv(f, session', replay')) /\ Tables(session, session')
  BY <1>1, SameTables
<1>3. AttemptInv(attempt', session', disk', faults', user', signOut')
  <2>1. attempt \in Attempt /\ attempt' \in Attempt /\ disk \in Disk /\ disk' \in Disk
        /\ faults \in Nat /\ faults' \in Nat
    BY StoreFacts DEF IInv, CoordinatorTypes, TypeOK
  <2>2. Leaves(attempt, attempt') /\ AttemptInv(attempt, session, disk, faults, user, signOut)
    BY <1>1, SameLeaves DEF IInv
  <2>3. QED BY <1>1, <1>2, <2>1, <2>2, AttemptKept
<1>4. PendingInv(pending', attempt', session', disk', faults', signOut')
  BY <1>1, <1>2, PendingKept
<1>5. now' <= MaxTime /\ wire' \subseteq wire \cup Posted
  BY <1>1 DEF IInv
<1>6. QED BY <1>2, <1>3, <1>4, <1>5, Assembled

LEMMA SaveLoginInv == ASSUME IInv, SaveLogin, CoordinatorTypes' PROVE IInv'
<1> DEFINE f == user.family
           t == <<user.family, 0>>
<1>1. PICK o \in SaveSession(disk, t) :
       /\ Happens(o)
       /\ user' = IF o.result = "done" THEN [ user EXCEPT !.pc = "saved" ] ELSE IdleUser
       /\ latest' = IF o.result = "done" THEN user.family ELSE latest
  BY DEF SaveLogin
<1>2. /\ f \in Family /\ f \in Nat /\ t \in Token /\ t[1] = f /\ t[2] = 0 /\ t # NoToken
      /\ user.pc = "saving"
  BY FamilyAssumption, NoTokenAssumption DEF SaveLogin, IInv, CoordinatorTypes
<1>3. /\ session[f].status # "unborn" /\ session[f].current = t /\ signOut = "none"
      /\ f >= latest /\ pending = NoMutation
      /\ attempt.pc = "idle" \/ (attempt.superseded /\ attempt.pc # "committing")
  BY DEF SaveLogin, IInv, UserInv
<1>4. UNCHANGED <<server, wire, memory, signOut, session, replay>>
  BY DEF SaveLogin, server
<1>5. user'.pc # "saving" /\ user'.pc \notin {"leaving", "clearing"}
  BY <1>1 DEF IInv, CoordinatorTypes, TypeOK, IdleUser
<1>6. \/ StoreKeeps /\ o.result = "threw"
      \/ \E x \in Seen(disk, faults) : Wrote(x, t, o)
  <2>1. \A x \in Seen(disk, faults) : ~Empty(x) => x.token[1] # t[1]
    BY <1>2, StoreFacts DEF IInv, StoreInv
  <2>2. QED BY <1>1, <1>2, <2>1, StoreFacts, SaveEffect
<1>7. Enters(user, user', session)
      /\ UserInv(session', disk', user', attempt', pending', latest', signOut')
  BY <1>5 DEF Enters, UserInv
<1>8. signOut' # "confirmed"
  BY <1>3, <1>4
<1>9. /\ StoreShape(disk', faults') /\ MovesOn(disk, faults, disk', faults', user)
      /\ StoreInv(session', disk', user', latest')
  <2>1. CASE StoreKeeps /\ o.result = "threw"
    <3>1. latest' = latest
      BY <1>1, <2>1
    <3>2. QED BY <1>4, <1>7, <2>1, <3>1, SameTables, StoreKept
  <2>2. CASE \E x \in Seen(disk, faults) : Wrote(x, t, o)
    <3>1. PICK x \in Seen(disk, faults) : Wrote(x, t, o)
      BY <2>2
    <3> DEFINE y == [ revision |-> x.revision + 1, token |-> t ]
    <3>2. /\ StoreShape(disk', faults') /\ MovesOn(disk, faults, disk', faults', user)
          /\ Stored(disk') \subseteq { x, y } /\ x \in Stored(disk)
      BY <1>2, <1>4, <3>1, WroteKept
    <3>3. y.token = t /\ (o.result = "done" => Stored(disk') = { y })
          /\ o.result \in {"done", "threw"}
      BY <3>1 DEF Wrote
    <3> HIDE DEF y
    <3>4. latest' = latest \/ (Stored(disk') = { y } /\ latest' = f)
      BY <1>1, <3>3
    <3>5. /\ session'[y.token[1]].status # "unborn"
          /\ y.token[2] <= session'[y.token[1]].current[2]
          /\ session'[y.token[1]].current[2] <= y.token[2] + 1
          /\ y.token[1] >= latest /\ y.token[1] >= f
      BY <1>2, <1>3, <1>4, <3>3
    <3>6. ASSUME NEW z \in Stored(disk'), ~Empty(z)
          PROVE  /\ session'[z.token[1]].status # "unborn"
                 /\ z.token[2] <= session'[z.token[1]].current[2]
                 /\ session'[z.token[1]].current[2] <= z.token[2] + 1
                 /\ z.token[1] >= latest'
      <4>1. CASE z = y
        BY <3>4, <3>5, <4>1
      <4>2. CASE z # y
        <5>1. z = x /\ latest' = latest
          BY <3>2, <3>4, <3>6, <4>2
        <5>2. QED BY <1>4, <3>2, <3>6, <5>1 DEF IInv, StoreInv
      <4>3. QED BY <4>1, <4>2
    <3>7. QED BY <1>5, <3>2, <3>6 DEF StoreInv
  <2>3. QED BY <1>6, <2>1, <2>2
<1>10. OrderInv(session', latest')
  BY <1>1, <1>2, <1>3, <1>4 DEF IInv, OrderInv
<1>11. QED BY <1>3, <1>4, <1>7, <1>8, <1>9, <1>10, WriteStep

LEMMA ClearStoreInv == ASSUME IInv, ClearStore, CoordinatorTypes' PROVE IInv'
<1>1. PICK o \in ClearSession(disk) :
        Happens(o) /\ signOut' = IF o.result = "done" THEN "confirmed" ELSE signOut
  BY DEF ClearStore
<1>2. UNCHANGED <<server, wire, memory, latest, session, replay>> /\ user'.pc = "idle"
  BY DEF ClearStore, server, IdleUser
<1>3. signOut # "none" /\ (Empty(disk.canonical) => Empty(Visible(disk)))
  BY DEF ClearStore, IInv, UserInv
<1>4. signOut' # "none"
  BY <1>1, <1>3
<1>5. Enters(user, user', session)
      /\ UserInv(session', disk', user', attempt', pending', latest', signOut')
  BY <1>2 DEF Enters, UserInv
<1>6. \/ StoreKeeps /\ (o.result = "done" => \E x \in Seen(disk, faults) : Empty(x))
      \/ \E x \in Seen(disk, faults) : Wrote(x, NoToken, o)
  BY <1>1, StoreFacts, ClearEffect
<1>7. /\ Tables(session, session') /\ OrderInv(session', latest')
      /\ \A x \in Stored(disk) : ~Empty(x) => session'[x.token[1]].current[2] <= x.token[2] + 1
  BY <1>2, SameTables
<1>8. /\ StoreShape(disk', faults') /\ MovesOn(disk, faults, disk', faults', user)
      /\ SameTokens(disk, faults, disk', faults')
      /\ NoLoss(disk, faults, disk', faults', signOut, signOut')
      /\ StoreInv(session', disk', user', latest')
      /\ signOut' = "confirmed" => Empty(Visible(disk'))
  <2>1. CASE StoreKeeps /\ (o.result = "done" => \E x \in Seen(disk, faults) : Empty(x))
    <3>1. /\ StoreShape(disk', faults') /\ MovesOn(disk, faults, disk', faults', user)
          /\ SameTokens(disk, faults, disk', faults')
          /\ \A p : p # "none" => NoLoss(disk, faults, disk', faults', signOut, p)
          /\ StoreInv(session', disk', user', latest')
          /\ Visible(disk') = Visible(disk)
      BY <1>2, <1>5, <1>7, <2>1, StoreKept
    <3>2. signOut' = "confirmed" => Empty(Visible(disk'))
      BY <1>1, <1>3, <2>1, <3>1, StoreFacts DEF IInv, Stored
    <3>3. QED BY <1>4, <3>1, <3>2
  <2>2. CASE \E x \in Seen(disk, faults) : Wrote(x, NoToken, o)
    <3>1. PICK x \in Seen(disk, faults) : Wrote(x, NoToken, o)
      BY <2>2
    <3> DEFINE y == [ revision |-> x.revision + 1, token |-> NoToken ]
    <3>2. /\ StoreShape(disk', faults') /\ MovesOn(disk, faults, disk', faults', user)
          /\ SameTokens(disk, faults, disk', faults')
          /\ \A p : p # "none" => NoLoss(disk, faults, disk', faults', signOut, p)
          /\ Stored(disk') \subseteq { x, y } /\ x \in Stored(disk)
      BY <1>2, <3>1, WroteKept
    <3>3. Empty(y) /\ (o.result = "done" => Stored(disk') = { y }) /\ o.result \in {"done", "threw"}
      BY <3>1 DEF Wrote, Empty
    <3> HIDE DEF y
    <3>4. StoreInv(session', disk', user', latest')
      BY <1>2, <3>2, <3>3 DEF IInv, StoreInv
    <3>5. signOut' = "confirmed" => Empty(Visible(disk'))
      <4>1. CASE o.result = "done"
        BY <3>3, <4>1 DEF Stored
      <4>2. CASE o.result # "done"
        BY <1>1, <3>2, <3>3, <4>2, VisibleEmpty DEF IInv, Stored
      <4>3. QED BY <4>1, <4>2
    <3>6. QED BY <1>4, <3>2, <3>4, <3>5
  <2>3. QED BY <1>6, <2>1, <2>2
<1>9. QED BY <1>2, <1>5, <1>7, <1>8, WriteStep

LEMMA TouchInv == ASSUME IInv, Touch, CoordinatorTypes' PROVE IInv'
<1>1. PICK o \in TouchSession(disk) : Happens(o)
  BY DEF Touch
<1>2. UNCHANGED <<server, wire, memory, latest, signOut, user, attempt, pending, session, replay>>
      /\ user.pc \in {"idle", "saved"}
  BY DEF Touch, server, memory, history
<1>3. Enters(user, user', session)
      /\ UserInv(session', disk', user', attempt', pending', latest', signOut')
  BY <1>2 DEF Enters, UserInv
<1>4. StoreKeeps \/ \E x \in Seen(disk, faults) : ~Empty(x) /\ Wrote(x, x.token, o)
  BY <1>1, StoreFacts, TouchEffect
<1>5. /\ Tables(session, session') /\ OrderInv(session', latest')
      /\ \A x \in Stored(disk) : ~Empty(x) => session'[x.token[1]].current[2] <= x.token[2] + 1
  BY <1>2, SameTables
<1>6. /\ StoreShape(disk', faults') /\ MovesOn(disk, faults, disk', faults', user)
      /\ SameTokens(disk, faults, disk', faults')
      /\ NoLoss(disk, faults, disk', faults', signOut, signOut')
      /\ StoreInv(session', disk', user', latest')
      /\ signOut' = "confirmed" => Empty(Visible(disk'))
  <2>1. CASE StoreKeeps
    <3>1. /\ StoreShape(disk', faults') /\ MovesOn(disk, faults, disk', faults', user)
          /\ SameTokens(disk, faults, disk', faults')
          /\ NoLoss(disk, faults, disk', faults', signOut, signOut)
          /\ StoreInv(session', disk', user', latest')
          /\ Visible(disk') = Visible(disk)
      BY <1>2, <1>3, <1>5, <2>1, StoreKept
    <3>2. QED BY <1>2, <3>1 DEF IInv
  <2>2. CASE \E x \in Seen(disk, faults) : ~Empty(x) /\ Wrote(x, x.token, o)
    <3>1. PICK x \in Seen(disk, faults) : ~Empty(x) /\ Wrote(x, x.token, o)
      BY <2>2
    <3> DEFINE y == [ revision |-> x.revision + 1, token |-> x.token ]
    <3>2. x \in Stored(disk) /\ x.token \in Token /\ x.token[2] <= x.token[2]
      BY <3>1, StoreFacts
    <3>3. /\ StoreShape(disk', faults') /\ MovesOn(disk, faults, disk', faults', user)
          /\ SameTokens(disk, faults, disk', faults')
          /\ NoLoss(disk, faults, disk', faults', signOut, signOut)
          /\ Stored(disk') \subseteq { x, y }
      BY <1>2, <3>1, <3>2, WroteKept
    <3>4. y.token = x.token
      OBVIOUS
    <3> HIDE DEF y
    <3>5. StoreInv(session', disk', user', latest')
      BY <1>2, <3>2, <3>3, <3>4 DEF IInv, StoreInv, Empty
    <3>6. signOut # "confirmed"
      BY <3>1, <3>2, VisibleEmpty DEF IInv
    <3>7. QED BY <1>2, <3>3, <3>5, <3>6
  <2>3. QED BY <1>4, <2>1, <2>2
<1>7. QED BY <1>2, <1>3, <1>5, <1>6, WriteStep

LEMMA LoginInv ==
  ASSUME IInv, NEW f \in Family, Login(f), CoordinatorTypes'
  PROVE  IInv'
<1>1. session \in [ Family -> SessionRow ] /\ f \in Nat
  BY FamilyAssumption DEF IInv, CoordinatorTypes, TypeOK
<1>2. /\ session[f].status = "unborn" /\ session'[f] = Opened(f) /\ UNCHANGED replay
      /\ \A g \in Family \ {f} : session'[g] = session[g]
      /\ \A g \in Family : g < f => session[g].status # "unborn"
  BY <1>1 DEF Login
<1>3. /\ Opened(f).status = "active" /\ Opened(f).current = <<f, 0>>
      /\ Opened(f).expires = MaxTime + 1 /\ <<f, 0>> \in Token
  BY FamilyAssumption DEF Opened
<1>4. \A g \in Family : FamilyInv(g, session', replay')
  BY <1>2, <1>3 DEF IInv, FamilyInv
<1>5. Tables(session, session')
  <2>1. \A g \in Family : session[g].status # "unborn" => session[g].current[2] \in Nat
    BY TokenShape DEF IInv, FamilyInv
  <2>2. Grows(session, session')
    BY <1>2, <2>1 DEF Grows, Ended
  <2>3. QED BY <1>4, <2>2, TypedTables
<1>6. /\ user' = [ pc |-> "saving", family |-> f ] /\ signOut' = "none" /\ pending' = NoMutation
      /\ UNCHANGED <<now, wire, disk, faults, latest>> /\ Leaves(attempt, attempt')
      /\ attempt'.pc = "idle" \/ attempt'.superseded
  BY SupersedeLeaves DEF Login, Supersede
<1>7. Enters(user, user', session)
  BY <1>2, <1>6 DEF Enters
<1>8. ASSUME NEW x \in Stored(disk), ~Empty(x)
      PROVE  session'[x.token[1]].current[2] <= x.token[2] + 1
  <2>1. x.token[1] \in Family \ {f}
    BY <1>2, <1>8, StoreFacts DEF IInv, StoreInv
  <2>2. QED BY <1>2, <1>8, <2>1 DEF IInv, StoreInv
<1>9. OrderInv(session', latest)
  BY <1>2, <1>3 DEF IInv, OrderInv
<1>10. f >= latest
  <2>1. latest = 0 \/ (latest \in Family /\ latest \in Nat /\ session[latest].status # "unborn")
    BY FamilyAssumption DEF IInv, OrderInv
  <2>2. ~(latest \in Family /\ f < latest /\ session[latest].status # "unborn")
    BY <1>2 DEF IInv, OrderInv
  <2>3. QED BY <1>1, <2>1, <2>2
<1>11. UserInv(session', disk', user', attempt', pending', latest', signOut')
  BY <1>2, <1>3, <1>6, <1>10 DEF UserInv
<1>12. now' <= MaxTime /\ wire' \subseteq wire \cup Posted
  BY <1>6 DEF IInv
<1>13. QED
  BY <1>4, <1>5, <1>6, <1>7, <1>8, <1>9, <1>11, <1>12, TableStep

(* A step of the user that touches neither the tables nor the store.       *)
LEMMA UserStep ==
  ASSUME IInv, CoordinatorTypes', UNCHANGED <<now, session, replay, disk, faults, latest>>,
         Enters(user, user', session), wire' \subseteq wire \cup Posted,
         Leaves(attempt, attempt'), attempt'.pc = "idle" \/ attempt'.superseded,
         pending' = NoMutation, signOut' # "confirmed" \/ signOut' = signOut,
         UserInv(session', disk', user', attempt', pending', latest', signOut')
  PROVE  IInv'
<1>1. /\ \A f \in Family : FamilyInv(f, session', replay')
      /\ Tables(session, session') /\ OrderInv(session', latest)
      /\ \A x \in Stored(disk) : ~Empty(x) => session'[x.token[1]].current[2] <= x.token[2] + 1
  BY SameTables
<1>2. now' <= MaxTime
  BY DEF IInv
<1>3. QED BY <1>1, <1>2, TableStep

LEMMA ActivateInv == ASSUME IInv, Activate, CoordinatorTypes' PROVE IInv'
<1>1. /\ user'.pc = "idle" /\ pending' = NoMutation /\ Leaves(attempt, attempt')
      /\ attempt'.pc = "idle" \/ attempt'.superseded
      /\ UNCHANGED <<now, session, replay, wire, disk, faults, latest, signOut>>
  BY SupersedeLeaves DEF Activate, Supersede, IdleUser, server, history
<1>2. Enters(user, user', session)
      /\ UserInv(session', disk', user', attempt', pending', latest', signOut')
  BY <1>1 DEF Enters, UserInv
<1>3. QED BY <1>1, <1>2, UserStep

LEMMA LogoutInv == ASSUME IInv, Logout, CoordinatorTypes' PROVE IInv'
<1>1. /\ user'.pc = "leaving" /\ pending' = NoMutation /\ Leaves(attempt, attempt')
      /\ attempt'.pc = "idle" \/ attempt'.superseded
      /\ signOut' = "asked" /\ ~Empty(disk.canonical)
      /\ UNCHANGED <<now, session, replay, wire, disk, faults, latest>>
  BY SupersedeLeaves DEF Logout, Supersede, IdleUser, server
<1>2. Enters(user, user', session)
      /\ UserInv(session', disk', user', attempt', pending', latest', signOut')
  BY <1>1 DEF Enters, UserInv
<1>3. QED BY <1>1, <1>2, UserStep

LEMMA RestartInv == ASSUME IInv, Restart, CoordinatorTypes' PROVE IInv'
<1>1. /\ user'.pc = "idle" /\ pending' = NoMutation
      /\ attempt'.pc = "idle" /\ Leaves(attempt, attempt')
      /\ wire' \subseteq wire \cup Posted
      /\ UNCHANGED <<now, session, replay, disk, faults, latest, signOut>>
  BY DEF Restart, IdleUser, IdleAttempt, Leaves, Posted, server, history
<1>2. Enters(user, user', session)
      /\ UserInv(session', disk', user', attempt', pending', latest', signOut')
  BY <1>1 DEF Enters, UserInv
<1>3. QED BY <1>1, <1>2, UserStep

LEMMA LogoutServerInv == ASSUME IInv, LogoutServer, CoordinatorTypes' PROVE IInv'
<1>1. /\ user'.pc = "clearing" /\ user.pc = "leaving"
      /\ UNCHANGED <<now, replay, wire, disk, faults, latest, signOut, attempt, pending>>
  BY DEF LogoutServer, memory, history, IInv, CoordinatorTypes, TypeOK
<1>2. Enters(user, user', session)
      /\ UserInv(session', disk', user', attempt', pending', latest', signOut')
  BY <1>1 DEF Enters, IInv, UserInv
<1>3. /\ \A f \in Family : FamilyInv(f, session', replay')
      /\ Tables(session, session') /\ OrderInv(session', latest)
      /\ \A x \in Stored(disk) : ~Empty(x) => session'[x.token[1]].current[2] <= x.token[2] + 1
  <2>1. CASE UNCHANGED session
    BY <1>1, <2>1, SameTables
  <2>2. CASE ~Empty(disk.canonical)
             /\ session' = [ session EXCEPT ![disk.canonical.token[1]].status = "revoked" ]
    <3>1. disk.canonical.token[1] \in Family
          /\ session[disk.canonical.token[1]].status # "unborn"
      BY <2>2, StoreFacts DEF IInv, StoreInv, Stored
    <3>2. /\ \A g \in Family : FamilyInv(g, session', replay')
          /\ Grows(session, session') /\ OrderInv(session', latest)
          /\ \A g \in Family : session'[g].current = session[g].current
      BY <1>1, <2>2, <3>1, RevokedInv
    <3>3. QED BY <3>2, TypedTables, StoreFacts DEF IInv, StoreInv
  <2>3. QED BY <2>1, <2>2 DEF LogoutServer
<1>4. now' <= MaxTime /\ wire' \subseteq wire \cup Posted
  BY <1>1 DEF IInv
<1>5. QED BY <1>1, <1>2, <1>3, <1>4, SameLeaves, TableStep

LEMMA TickInv == ASSUME IInv, Tick, CoordinatorTypes' PROVE IInv'
<1>1. now' <= MaxTime
  BY BoundAssumption DEF Tick, IInv, CoordinatorTypes, TypeOK
<1>2. UNCHANGED <<session, replay, wire, disk, faults, latest, signOut, attempt, pending, user>>
  BY DEF Tick, memory, history
<1>3. /\ \A f \in Family : FamilyInv(f, session', replay')
      /\ Tables(session, session') /\ OrderInv(session', latest)
      /\ \A x \in Stored(disk) : ~Empty(x) => session'[x.token[1]].current[2] <= x.token[2] + 1
  BY <1>2, SameTables
<1>4. Enters(user, user', session)
      /\ UserInv(session', disk', user', attempt', pending', latest', signOut')
  BY <1>2 DEF Enters, IInv
<1>5. wire' \subseteq wire \cup Posted
  BY <1>2
<1>6. QED BY <1>1, <1>2, <1>3, <1>4, <1>5, SameLeaves, TableStep

LEMMA InvStep == IInv /\ [Next]_vars => IInv'
<1> SUFFICES ASSUME IInv, [Next]_vars PROVE IInv'
  OBVIOUS
<1>1. CoordinatorTypes'
  BY StepTypes DEF IInv
<1>2. CASE Refresh
  BY <1>1, <1>2, StartInv, CheckInv, FetchInv, WakeInv, ResendInv, HandleInv, ApplyInv, FinishInv
     DEF Refresh
<1>3. CASE ReadEffective \/ Notify
  BY <1>1, <1>3, ReadEffectiveInv, NotifyInv
<1>4. CASE Serve \/ \E n \in wire : ServeLate(n)
  BY <1>1, <1>4, ServeInv, ServeLateInv
<1>5. CASE \E f \in Family : RevokeElsewhere(f) \/ Login(f)
  BY <1>1, <1>5, RevokeInv, LoginInv
<1>6. CASE SaveLogin \/ Activate \/ Logout \/ LogoutServer \/ ClearStore \/ Touch \/ Restart
  BY <1>1, <1>6, SaveLoginInv, ActivateInv, LogoutInv, LogoutServerInv, ClearStoreInv, TouchInv,
     RestartInv
<1>7. CASE Tick
  BY <1>1, <1>7, TickInv
<1>8. CASE UNCHANGED vars
  <2>1. UNCHANGED <<server, wire, disk, user, faults, history, attempt, pending>>
    BY <1>8 DEF vars, memory
  <2>2. wire' \subseteq wire \cup Posted
    BY <2>1
  <2>3. QED BY <1>1, <2>1, <2>2, SameStore, SameLeaves, QuietStep
<1>9. QED BY <1>2, <1>3, <1>4, <1>5, <1>6, <1>7, <1>8 DEF Next

(* What the invariant says of every state, while at most two of the calls   *)
(* of the store fail.                                                      *)
LEMMA InvAlways == ASSUME MaxFaults <= 2 PROVE Spec => []IInv
<1>1. Init => IInv
  BY InitInv
<1>2. QED BY <1>1, InvStep, PTL DEF Spec
-----------------------------------------------------------------------------
(* The theorems about a store two of whose calls may fail.                 *)

LEMMA EffectiveTyped ==
  ASSUME IInv
  PROVE  /\ Visible(disk) \in Seen(disk, faults) /\ Visible(disk) \in Stored(disk)
         /\ Effective(pending, disk) \in Token \cup {NoToken}
         /\ \A x \in Stored(disk) : x.revision <= Visible(disk).revision
<1>1. Visible(disk) \in Seen(disk, faults) /\ Visible(disk) \in Stored(disk)
  BY StoreFacts, StoredRecords
<1>2. Effective(pending, disk) \in Token \cup {NoToken}
  BY <1>1, StoreFacts DEF Effective, IInv, CoordinatorTypes, TypeOK, Mutation, Record
<1>3. disk.canonical.revision <= Visible(disk).revision /\ Visible(disk).revision \in Nat
  BY StoreFacts, VisibleOf DEF Adoptable, Record
<1>4. QED BY <1>1, <1>2, <1>3 DEF Stored

(* Once a login is saved, no compare-and-swap that was under way, no late   *)
(* answer, no shadow and no other login puts the session of an earlier one  *)
(* back.                                                                   *)
THEOREM NewestLoginStays == MaxFaults <= 2 => (Spec => []NewestLoginWins)
<1> SUFFICES ASSUME MaxFaults <= 2 PROVE Spec => []NewestLoginWins
  OBVIOUS
<1>1. IInv => NewestLoginWins
  BY EffectiveTyped DEF IInv, StoreInv, NewestLoginWins
<1>2. QED BY <1>1, InvAlways, PTL

(* After a logout that has cleared the store, no attempt that was on its    *)
(* way and no shadow brings a session back before the next login.          *)
THEOREM SignOutLasts == MaxFaults <= 2 => (Spec => []SignOutSticks)
<1> SUFFICES ASSUME MaxFaults <= 2 PROVE Spec => []SignOutSticks
  OBVIOUS
<1>1. IInv => SignOutSticks
  BY DEF IInv, SignOutSticks
<1>2. QED BY <1>1, InvAlways, PTL

(* However many POSTs are lost, late or repeated, whichever write fails and *)
(* however often the process dies, a stored token is the family's current   *)
(* one or the one the grace still covers.                                  *)
THEOREM ClientLagsByOne == MaxFaults <= 2 => (Spec => []LagAtMostOne)
<1> SUFFICES ASSUME MaxFaults <= 2 PROVE Spec => []LagAtMostOne
  OBVIOUS
<1>1. ASSUME IInv, NEW x \in Stored(disk), ~Empty(x)
      PROVE  x.token[2] + 1 >= session[x.token[1]].current[2]
  <2>1. x.token \in Token /\ x.token[1] \in Family /\ x.token[2] \in Nat
    BY <1>1, StoreFacts
  <2>2. /\ session[x.token[1]].status # "unborn"
        /\ session[x.token[1]].current[2] <= x.token[2] + 1
    BY <1>1 DEF IInv, StoreInv
  <2>3. session[x.token[1]].current[2] \in Nat
    BY <1>1, <2>1, <2>2, TokenShape DEF IInv, FamilyInv
  <2>4. QED BY <2>1, <2>2, <2>3
<1>2. IInv => LagAtMostOne
  BY <1>1 DEF LagAtMostOne, Stored
<1>3. QED BY <1>2, InvAlways, PTL

(* A read that settles or drops the pending mutation has seen, or passed by, *)
(* a later revision than the one it was formed on.                         *)
LEMMA SettledLate ==
  ASSUME IInv, pending # NoMutation, NEW x \in Seen(disk, faults),
         WasApplied(pending, x) \/ pending.base # x
  PROVE  Overtaken
<1>1. pending \in Mutation /\ Earlier(pending.base, disk, faults)
  BY DEF IInv, PendingInv, MutationInv
<1>2. pending.base.revision <= x.revision /\ pending.base.revision # x.revision
  BY <1>1 DEF Earlier, WasApplied
<1>3. x \in Stored(disk) /\ x.revision <= Visible(disk).revision
  BY EffectiveTyped, StoreFacts
<1>4. pending.base.revision \in Nat /\ x.revision \in Nat /\ Visible(disk).revision \in Nat
  BY <1>1, <1>3, EffectiveTyped, StoreFacts DEF Mutation, Record
<1>5. QED BY <1>2, <1>3, <1>4 DEF Overtaken

(* What may become of the effective token: nothing; a pending mutation is   *)
(* forgotten, which has been overtaken or is what is stored; or the         *)
(* mutation of the attempt takes effect, in the store or in memory.        *)
Forgotten ==
  /\ pending # NoMutation /\ pending' = NoMutation /\ Visible(disk') = Visible(disk)
  /\ Overtaken \/ Visible(disk).token \in { pending.next, NoToken }

TakesEffect ==
  /\ pending = NoMutation /\ MutationInv(attempt.mutation, session, disk, faults)
  /\ \/ Effective(pending', disk') = attempt.mutation.next
     \/ /\ attempt.mutation.next = NoToken
        /\ Effective(pending', disk') \in { attempt.mutation.base.token, NoToken }

LEMMA SameEffective ==
  ASSUME pending' = pending, Visible(disk') = Visible(disk)
  PROVE  Effective(pending', disk') = Effective(pending, disk)
  BY DEF Effective

LEMMA EffectiveMoves ==
  ASSUME IInv, Refresh \/ ReadEffective
  PROVE  Effective(pending', disk') = Effective(pending, disk) \/ Forgotten \/ TakesEffect
<1>1. ASSUME NEW r \in ReadPersisted(disk), Happens(r)
      PROVE  /\ Visible(disk') = Visible(disk)
             /\ r.result # "threw" => r.record \in Seen(disk, faults)
  <2>1. /\ StoreKeeps /\ r.result \in {"done", "threw"}
        /\ r.result = "done" => r.record \in Seen(disk, faults)
    BY <1>1, ReadEffect, StoreFacts
  <2>2. QED BY <2>1 DEF StoreKeeps, Keeps
<1>2. CASE Start \/ Resend \/ Handle
  <2>1. pending' = pending
    BY <1>2 DEF Start, Resend, Handle, End
  <2>2. UNCHANGED disk \/ \E r \in ReadPersisted(disk) : Happens(r)
    BY <1>2 DEF Start, Resend, Handle, Read
  <2>3. QED BY <1>1, <2>1, <2>2, SameEffective
<1>3. CASE FetchFails \/ Wake
  BY <1>3, SameEffective DEF FetchFails, Wake
<1>4. ASSUME NEW r \in ReadPersisted(disk), Happens(r),
             \/ pending' = pending
             \/ /\ pending' = NoMutation /\ pending # NoMutation /\ r.result # "threw"
                /\ WasApplied(pending, r.record) \/ pending.base # r.record
      PROVE  Effective(pending', disk') = Effective(pending, disk) \/ Forgotten
  <2>1. CASE pending' = pending
    BY <1>1, <1>4, <2>1, SameEffective
  <2>2. CASE /\ pending' = NoMutation /\ pending # NoMutation /\ r.result # "threw"
             /\ WasApplied(pending, r.record) \/ pending.base # r.record
    BY <1>1, <1>4, <2>2, SettledLate DEF Forgotten
  <2>3. QED BY <1>4, <2>1, <2>2
<1>5. CASE Check
  <2>1. PICK r \in ReadPersisted(disk) :
       /\ Happens(r)
       /\ IF r.result = "threw" \/ attempt.superseded THEN End
          ELSE IF Capability(r.record) # NoToken
          THEN /\ attempt' = [ attempt EXCEPT !.pc = "posted", !.token = Capability(r.record) ]
               /\ KeepPending
          ELSE IF pending # NoMutation THEN RetryPending(r.record)
          ELSE End
    BY <1>5 DEF Check, Read
  <2>2. \/ pending' = pending
        \/ r.result # "threw" /\ pending # NoMutation /\ RetryPending(r.record)
    BY <2>1 DEF End, KeepPending
  <2>3. \/ pending' = pending
        \/ /\ pending' = NoMutation /\ pending # NoMutation /\ r.result # "threw"
           /\ WasApplied(pending, r.record) \/ pending.base # r.record
    BY <2>2 DEF RetryPending, DropPending, KeepPending
  <2>4. QED BY <1>4, <2>1, <2>3
<1>6. CASE ReadEffective
  <2>1. PICK r \in ReadPersisted(disk) : Happens(r) /\ EffectiveRead(r)
    BY <1>6 DEF ReadEffective, Read
  <2>2. \/ pending' = pending
        \/ /\ pending' = NoMutation /\ pending # NoMutation /\ r.result # "threw"
           /\ WasApplied(pending, r.record) \/ pending.base # r.record
    BY <2>1 DEF EffectiveRead, DropPending, KeepPending
  <2>3. QED BY <1>4, <2>1, <2>2
<1>7. CASE Apply
  <2> DEFINE base == attempt.mutation.base
             next == attempt.mutation.next
  <2>1. PICK o \in CompareAndSwap(disk, base.revision, next) : Happens(o)
    BY <1>7 DEF Apply
  <2>2. pending' = pending /\ attempt.pc = "committing" /\ attempt.mutation \in Mutation
    BY <1>7 DEF Apply, IInv, CoordinatorTypes
  <2>3. base \in Record /\ base.revision \in Nat /\ next \in Token \cup {NoToken}
    BY <2>2 DEF Mutation, Record
  <2>4. MutationInv(attempt.mutation, session, disk, faults)
    BY <2>2 DEF IInv, AttemptInv
  <2>5. \A x \in Seen(disk, faults) : x.revision = base.revision => x = base
    BY <2>4 DEF MutationInv, Earlier
  <2>6. \A x \in Seen(disk, faults) : x.revision = base.revision => MayFollow(x, next)
    BY <2>4, <2>5 DEF MutationInv, Follows, MayFollow
  <2>7. StoreKeeps \/ Wrote(base, next, o)
    BY <2>1, <2>3, <2>5, <2>6, StoreFacts, CasEffect
  <2>8. CASE StoreKeeps
    BY <2>2, <2>8, SameEffective DEF StoreKeeps, Keeps
  <2>9. CASE pending # NoMutation
    BY <2>2, <2>9 DEF Effective
  <2>10. CASE pending = NoMutation /\ Wrote(base, next, o)
    <3>1. Visible(disk').token \in { base.token, next }
          /\ (next # NoToken => Visible(disk').token = next)
      BY <2>10 DEF Wrote, Writes, Stored
    <3>2. QED BY <2>2, <2>4, <2>10, <3>1 DEF TakesEffect, Effective
  <2>11. QED BY <2>7, <2>8, <2>9, <2>10
<1>8. CASE Finish
  <2>1. attempt.pc = "committed" /\ disk' = disk /\ Visible(disk') = Visible(disk)
    BY <1>8 DEF Finish
  <2>2. CASE pending' = pending
    BY <2>1, <2>2, SameEffective
  <2>3. CASE ~attempt.superseded /\ pending' # pending
    <3>1. /\ MutationInv(attempt.mutation, session, disk, faults)
          /\ attempt.answer = "done" => OneSession({ attempt.mutation.next }, disk, faults)
          /\ attempt.answer = "refused" =>
               \A x \in Seen(disk, faults) : attempt.mutation.base.revision < x.revision
          /\ attempt.answer \in { "done", "refused", "threw" }
      BY <2>1, <2>3 DEF IInv, AttemptInv
    <3>2. pending # NoMutation => attempt.mutation = pending
      BY <2>1 DEF IInv, PendingInv
    <3>3. CASE attempt.answer = "threw"
      <4>1. pending' = attempt.mutation /\ pending = NoMutation
        BY <1>8, <2>3, <3>2, <3>3 DEF Finish
      <4>2. Effective(pending', disk') = attempt.mutation.next
        BY <2>3, <4>1 DEF Effective
      <4>3. QED BY <3>1, <4>1, <4>2 DEF TakesEffect
    <3>4. CASE attempt.answer # "threw"
      <4>1. pending' = NoMutation /\ pending # NoMutation /\ attempt.mutation = pending
        BY <1>8, <2>3, <3>2, <3>4 DEF Finish
      <4>2. Overtaken \/ Visible(disk).token \in { pending.next, NoToken }
        BY <3>1, <3>4, <4>1, EffectiveTyped DEF OneSession, Overtaken, Empty
      <4>3. QED BY <2>1, <4>1, <4>2 DEF Forgotten
    <3>5. QED BY <3>3, <3>4
  <2>4. QED BY <1>8, <2>2, <2>3 DEF Finish, KeepPending
<1>9. QED BY <1>2, <1>3, <1>5, <1>6, <1>7, <1>8 DEF Refresh

(* What the effective token is when the mutation of the attempt takes       *)
(* effect: one of the two it is about.                                     *)
LEMMA EffectiveBefore ==
  ASSUME IInv, TakesEffect, Effective(pending, disk) # NoToken
  PROVE  Effective(pending, disk) \in { attempt.mutation.base.token, attempt.mutation.next }
  BY EffectiveTyped DEF TakesEffect, MutationInv, OneSession, Effective, Empty

(* The coordinator clears the session only where the server has ended that  *)
(* family: no 5xx, broken body, lost answer, failed write or restart signs  *)
(* a user out.                                                             *)
THEOREM OnlyServerSignsOut == MaxFaults <= 2 => (Spec => SignOutIsJustified)
<1> SUFFICES ASSUME MaxFaults <= 2 PROVE Spec => SignOutIsJustified
  OBVIOUS
<1> DEFINE Justified ==
      LET n == Effective(pending, disk)
      IN ((Refresh \/ ReadEffective) /\ n # NoToken /\ Effective(pending', disk') = NoToken)
           => Dead(n[1]) \/ signOut # "none"
<1>1. ASSUME IInv, [Next]_vars PROVE [Justified]_vars
  <2> DEFINE n == Effective(pending, disk)
  <2>1. SUFFICES ASSUME Refresh \/ ReadEffective, n # NoToken, signOut = "none",
                        Effective(pending', disk') = NoToken
                 PROVE  Dead(n[1])
    OBVIOUS
  <2>2. CASE Forgotten
    <3>1. /\ MutationInv(pending, session, disk, faults)
          /\ Lasts(pending.base.token[1], session, disk, faults, signOut)
          /\ n = pending.next /\ Empty(Visible(disk))
      BY <1>1, <2>1, <2>2 DEF IInv, PendingInv, Forgotten, Effective, Empty
    <3>2. Ended(pending.base.token[1], session)
      BY <1>1, <2>1, <3>1, EffectiveTyped DEF Lasts
    <3>3. n[1] = pending.base.token[1]
      BY <2>1, <3>1 DEF MutationInv, Follows
    <3>4. QED BY <3>2, <3>3 DEF Ended, Dead
  <2>3. CASE TakesEffect
    <3>1. n \in { attempt.mutation.base.token, attempt.mutation.next }
      BY <1>1, <2>1, <2>3, EffectiveBefore
    <3>2. attempt.mutation.next = NoToken /\ Ended(attempt.mutation.base.token[1], session)
      BY <2>1, <2>3 DEF TakesEffect, MutationInv
    <3>3. QED BY <2>1, <3>1, <3>2 DEF Ended, Dead
  <2>4. QED BY <1>1, <2>1, <2>2, <2>3, EffectiveMoves
<1>2. QED BY <1>1, InvAlways, PTL DEF Spec, SignOutIsJustified

(* A token that was rotated in stays until its own successor takes effect:  *)
(* no retry, replayed answer, failed write, shadow or late compare-and-swap *)
(* brings back one spent, unless a profile write has overtaken the commit.  *)
THEOREM StoredTokenNeverRegresses == MaxFaults <= 2 => (Spec => EffectiveNeverRegresses)
<1> SUFFICES ASSUME MaxFaults <= 2 PROVE Spec => EffectiveNeverRegresses
  OBVIOUS
<1> DEFINE Onward ==
      LET n == Effective(pending, disk)
          m == Effective(pending', disk')
      IN (Refresh \/ ReadEffective) /\ n # NoToken /\ m # NoToken
           => NotBefore(m, n) \/ Overtaken
<1>1. ASSUME IInv, [Next]_vars PROVE [Onward]_vars
  <2> DEFINE n == Effective(pending, disk)
             m == Effective(pending', disk')
  <2>1. SUFFICES ASSUME Refresh \/ ReadEffective, n # NoToken, m # NoToken, ~Overtaken
                 PROVE  NotBefore(m, n)
    OBVIOUS
  <2>2. n \in Token /\ n[2] \in Nat
    BY <1>1, <2>1, EffectiveTyped, TokenShape
  <2>3. CASE m = n
    BY <2>2, <2>3 DEF NotBefore
  <2>4. CASE Forgotten
    BY <2>1, <2>3, <2>4 DEF Forgotten, Effective
  <2>5. CASE TakesEffect
    <3> DEFINE base == attempt.mutation.base
               next == attempt.mutation.next
    <3>1. n \in { base.token, next }
      BY <1>1, <2>1, <2>5, EffectiveBefore
    <3>2. CASE m = next
      <4>1. Follows(next, base.token, session)
        BY <2>1, <2>5, <3>2 DEF TakesEffect, MutationInv
      <4>2. n = next \/ (next[1] = n[1] /\ n[2] <= next[2] /\ next[2] \in Nat)
        BY <3>1, <4>1, TokenShape DEF Follows
      <4>3. QED BY <2>2, <2>3, <3>2, <4>2 DEF NotBefore
    <3>3. CASE next = NoToken /\ m = base.token
      BY <2>1, <2>3, <3>1, <3>3
    <3>4. QED BY <2>1, <2>5, <3>2, <3>3 DEF TakesEffect
  <2>6. QED BY <1>1, <2>1, <2>3, <2>4, <2>5, EffectiveMoves
<1>2. QED BY <1>1, InvAlways, PTL DEF Spec, EffectiveNeverRegresses

=============================================================================
