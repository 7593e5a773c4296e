------------------------ MODULE AccountAccess_proofs ------------------------
(***************************************************************************)
(* Proofs about AccountAccess, for every finite set of handlers and every  *)
(* set of codes, accounts and clients: a one-time code brings about one    *)
(* thing at most, and only within the attempts allowed; two-factor login   *)
(* is on over a secret that was proven; a code that a later reset start    *)
(* has withdrawn sets no password; a session does not outlive the password *)
(* it was opened with; every variable keeps its type, handlers holding     *)
(* nothing they have not read; and parallel logins outrun the lockout by   *)
(* one wrong answer each.                                                  *)
(*                                                                         *)
(* A code passes from hand to hand: it lies in the table, a handler that   *)
(* has consumed it holds it, it is exchanged for a grant, a handler that   *)
(* has redeemed the grant holds it, it has brought something about.  Each  *)
(* place is left when the next one is reached.  Which handlers hold a code *)
(* shows in what they still have to do.                                    *)
(***************************************************************************)
EXTENDS AccountAccess, FiniteSetTheorems, TLAPS

(* All awaits; those that take a code or a grant, and those that spend it. *)
Await ==
  { "account", "cancel", "clear", "consume", "delete", "disable", "discard", "dropGrants",
    "email", "enable", "exists", "failure", "find", "forget", "grant", "hook", "insert", "issue",
    "lockout", "log", "lookup", "miss", "password", "purge", "read", "redeem", "revoke",
    "secret", "select", "session", "swap", "user" }
Takes == {"consume", "redeem"}
Spends == {"account", "grant", "password", "email"}

(* What is still to be done spends a code once, after it has taken it; a   *)
(* handler that is to be given a code spends none.                         *)
Orderly(t) ==
  /\ t \in Seq(Await)
  /\ \A i, j \in 1 .. Len(t) : t[i] \in Spends /\ t[j] \in Spends => i = j
  /\ \A i, j \in 1 .. Len(t) : t[i] \in Takes /\ t[j] \in Spends => i < j
  /\ \A i, j \in 1 .. Len(t) : t[i] = "issue" => t[j] \notin Spends

(* Something is to be spent that has been taken. *)
Holding(t) ==
  /\ \E i \in 1 .. Len(t) : t[i] \in Spends
  /\ \A i \in 1 .. Len(t) : t[i] \notin Takes

-----------------------------------------------------------------------------
(* What is still to be done.                                               *)

LEMMA HeadAndTail ==
  ASSUME NEW S, NEW t \in Seq(S), t # <<>>
  PROVE  /\ Len(t) \in Nat /\ Len(t) > 0 /\ Head(t) = t[1]
         /\ Tail(t) \in Seq(S) /\ Len(Tail(t)) = Len(t) - 1
         /\ \A i \in 1 .. Len(Tail(t)) : Tail(t)[i] = t[i + 1]
  OBVIOUS

LEMMA NothingToDo == Orderly(<<>>) /\ ~Holding(<<>>)
  BY DEF Orderly, Holding

LEMMA TailOrderly ==
  ASSUME NEW t, Orderly(t), t # <<>>
  PROVE  /\ Orderly(Tail(t))
         /\ Holding(Tail(t)) /\ Head(t) \notin Takes => Holding(t)
         /\ Head(t) \in Spends => Holding(t) /\ ~Holding(Tail(t))
         /\ Head(t) = "issue" => ~Holding(Tail(t))
<1>1. /\ t \in Seq(Await) /\ Len(t) \in Nat /\ Len(t) > 0
      /\ Tail(t) \in Seq(Await) /\ Len(Tail(t)) = Len(t) - 1
      /\ Head(t) = t[1]
      /\ \A i \in 1 .. Len(Tail(t)) : Tail(t)[i] = t[i + 1]
  <2>1. t \in Seq(Await) /\ t # <<>>
    BY DEF Orderly
  <2> QED
    BY <2>1, HeadAndTail
<1>2. \A i \in 1 .. Len(Tail(t)) : i + 1 \in 1 .. Len(t) /\ i + 1 # 1
  BY <1>1
<1>3. \A i \in 1 .. Len(t) :
        i # 1 => i - 1 \in 1 .. Len(Tail(t)) /\ Tail(t)[i - 1] = t[i]
  <2> SUFFICES ASSUME NEW i \in 1 .. Len(t), i # 1
               PROVE  i - 1 \in 1 .. Len(Tail(t)) /\ Tail(t)[i - 1] = t[i]
    OBVIOUS
  <2>1. i - 1 \in 1 .. Len(Tail(t)) /\ (i - 1) + 1 = i
    BY <1>1
  <2> QED
    BY <1>1, <2>1
<1>4. Orderly(Tail(t))
  BY <1>1, <1>2 DEF Orderly
<1>5. Holding(Tail(t)) /\ Head(t) \notin Takes => Holding(t)
  BY <1>1, <1>2, <1>3 DEF Holding
<1>6. Head(t) \in Spends => Holding(t) /\ ~Holding(Tail(t))
  <2>1. ASSUME Head(t) \in Spends
        PROVE  Holding(t)
    <3>1. 1 \in 1 .. Len(t) /\ t[1] \in Spends
      BY <1>1, <2>1
    <3>2. \A i \in 1 .. Len(t) : t[i] \in Takes => i < 1
      BY <3>1 DEF Orderly
    <3> QED
      BY <1>1, <3>1, <3>2 DEF Holding
  <2>2. ASSUME Head(t) \in Spends
        PROVE  ~Holding(Tail(t))
    BY <1>1, <1>2, <2>2 DEF Holding, Orderly
  <2> QED
    BY <2>1, <2>2
<1>7. Head(t) = "issue" => ~Holding(Tail(t))
  BY <1>1, <1>2 DEF Holding, Orderly
<1> QED
  BY <1>4, <1>5, <1>6, <1>7

-----------------------------------------------------------------------------
(* Handlers.                                                               *)

(* What these proofs look at in a handler. *)
Marks == {"kind", "acct", "code", "todo"}
Seen == Marks \cup {"old", "doomed"}

HandlerShape ==
  /\ mix.kinds \subseteq Kind
  /\ DOMAIN handler = Handler
  /\ \A h \in Handler : Marks \subseteq DOMAIN handler[h] /\ Orderly(handler[h].todo)

LEMMA IdleMarked ==
  /\ Marks \subseteq DOMAIN Idle /\ Seen \subseteq DOMAIN Idle
  /\ Idle.todo = <<>> /\ Idle.code = NoChallenge /\ Idle.doomed = {} /\ Idle.kind = "none"
  BY DEF Idle, Marks, Seen

(* Where a script may take another turn. *)
Turnings ==
  { <<"miss">>, <<"discard">>, <<"forget", "discard">>, <<"failure">>,
    <<"insert">>, <<"dropGrants", "issue", "insert">> }

LEMMA TurningsHoldNothing ==
  ASSUME NEW t \in Turnings
  PROVE  Orderly(t) /\ ~Holding(t)
<1> USE DEF Orderly, Holding, Spends, Takes, Await
<1>1. \A a \in {"miss", "discard", "failure", "insert"} :
        Orderly(<<a>>) /\ ~Holding(<<a>>)
  OBVIOUS
<1>2. t = <<"forget", "discard">> => Orderly(t) /\ ~Holding(t)
  OBVIOUS
<1>3. t = <<"dropGrants", "issue", "insert">> => Orderly(t) /\ ~Holding(t)
  OBVIOUS
<1> HIDE DEF Orderly, Holding, Spends, Takes, Await
<1> QED
  BY <1>1, <1>2, <1>3 DEF Turnings

(* Every script takes a code before it spends one, but for a change of the *)
(* password by its owner, who has no code.                                 *)
LEMMA ScriptsAreOrderly ==
  ASSUME NEW k \in Kind
  PROVE  Orderly(Script[k]) /\ (k # "changePassword" => ~Holding(Script[k]))
<1> USE DEF Orderly, Holding, Spends, Takes, Await
<1>1. Orderly(RegisterBegin) /\ ~Holding(RegisterBegin)
  BY DEF RegisterBegin
<1>2. Orderly(RegisterVerify) /\ ~Holding(RegisterVerify)
  BY DEF RegisterVerify
<1>3. Orderly(RegisterCancel) /\ ~Holding(RegisterCancel)
  BY DEF RegisterCancel
<1>4. Orderly(ResetStart) /\ ~Holding(ResetStart)
  BY DEF ResetStart
<1>5. Orderly(ResetVerify) /\ ~Holding(ResetVerify)
  BY DEF ResetVerify
<1>6. Orderly(ResetComplete) /\ ~Holding(ResetComplete)
  BY DEF ResetComplete
<1>7. Orderly(Login) /\ ~Holding(Login)
  BY DEF Login
<1>8. Orderly(ChangePassword)
  BY DEF ChangePassword
<1>9. Orderly(DeleteAccount) /\ ~Holding(DeleteAccount)
  BY DEF DeleteAccount
<1>10. Orderly(EmailBegin) /\ ~Holding(EmailBegin)
  BY DEF EmailBegin
<1>11. Orderly(EmailConfirm) /\ ~Holding(EmailConfirm)
  BY DEF EmailConfirm
<1>12. Orderly(TotpSetup) /\ ~Holding(TotpSetup)
  BY DEF TotpSetup
<1>13. Orderly(TotpEnable) /\ ~Holding(TotpEnable)
  BY DEF TotpEnable
<1>14. Orderly(TotpDisable) /\ ~Holding(TotpDisable)
  BY DEF TotpDisable
<1>15. Orderly(ResealCycle) /\ ~Holding(ResealCycle)
  BY DEF ResealCycle
<1> HIDE DEF Orderly, Holding, Spends, Takes, Await
<1> QED
  BY <1>1, <1>2, <1>3, <1>4, <1>5, <1>6, <1>7, <1>8, <1>9, <1>10, <1>11, <1>12, <1>13, <1>14,
     <1>15 DEF Kind, Script

-----------------------------------------------------------------------------
(* Steps of handlers.                                                      *)

(* Where a handler stands after a step of its own: it is done, goes on to  *)
(* its next await, takes another turn, or stays where it is.               *)
Follows(n, m) ==
  /\ Marks \subseteq DOMAIN n
  /\ \/ n = Idle
     \/ /\ n.code = m.code
        /\ \/ n.todo \in Turnings \cup {Tail(m.todo)}
           \/ n.todo = m.todo /\ Head(m.todo) = "cancel"

(* A handler takes its turn, and alone. *)
TakesTurn(h) == \E n : Becomes(h, n) /\ Follows(n, handler[h])

LEMMA DoneTakesTurn ==
  ASSUME NEW h, Done(h)
  PROVE  TakesTurn(h)
  BY IdleMarked DEF Done, TakesTurn, Follows

(* m is the handler with something more that it knows. *)
Learns(m, h) ==
  Marks \subseteq DOMAIN m /\ m.code = handler[h].code /\ m.todo = handler[h].todo

LEMMA OnwardTakesTurn ==
  ASSUME NEW h, NEW m, Learns(m, h), Onward(h, m)
  PROVE  TakesTurn(h)
<1> DEFINE n == [m EXCEPT !.todo = Tail(@)]
<1>1. DOMAIN n = DOMAIN m /\ "todo" \in DOMAIN m /\ "code" \in DOMAIN m
  BY DEF Learns, Marks
<1>2. n.todo = Tail(m.todo) /\ n.code = m.code
  BY <1>1
<1>3. Becomes(h, Idle) \/ Becomes(h, n)
  BY DEF Onward
<1> HIDE DEF n
<1> QED
  BY <1>1, <1>2, <1>3, IdleMarked DEF TakesTurn, Follows, Learns

LEMMA DetoursTakesTurn ==
  ASSUME NEW h, NEW ops \in Turnings, Marks \subseteq DOMAIN handler[h], Detours(h, ops)
  PROVE  TakesTurn(h)
<1> DEFINE n == [handler[h] EXCEPT !.todo = ops]
<1>1. /\ DOMAIN n = DOMAIN handler[h]
      /\ "todo" \in DOMAIN handler[h] /\ "code" \in DOMAIN handler[h]
  BY DEF Marks
<1>2. n.todo = ops /\ n.code = handler[h].code
  BY <1>1
<1>3. Becomes(h, n)
  BY DEF Detours
<1> HIDE DEF n
<1> QED
  BY <1>1, <1>2, <1>3 DEF TakesTurn, Follows

LEMMA RefuseTakesTurn ==
  ASSUME NEW h, Marks \subseteq DOMAIN handler[h], Refuse(h)
  PROVE  TakesTurn(h)
<1>1. <<"forget", "discard">> \in Turnings
  BY DEF Turnings
<1> QED
  BY <1>1, DoneTakesTurn, DetoursTakesTurn DEF Refuse

(* What a handler may learn at an await leaves its code and its script.    *)
LEMMA LearningFields ==
  ASSUME NEW h, Marks \subseteq DOMAIN handler[h]
  PROVE  /\ Learns(handler[h], h)
         /\ \A a : Learns([handler[h] EXCEPT !.acct = a], h)
         /\ \A a, s : Learns([handler[h] EXCEPT !.acct = a, !.saw = s], h)
         /\ \A a, e : Learns([handler[h] EXCEPT !.acct = a, !.email = e], h)
         /\ \A e : Learns([handler[h] EXCEPT !.email = e], h)
         /\ \A s : Learns([handler[h] EXCEPT !.saw = s], h)
         /\ \A d : Learns([handler[h] EXCEPT !.doomed = d], h)
         /\ \A o : Learns([handler[h] EXCEPT !.old = o], h)
         /\ \A o, d : Learns([handler[h] EXCEPT !.old = o, !.doomed = d], h)
         /\ \A l : Learns([handler[h] EXCEPT !.logged = l], h)
  BY DEF Learns, Marks


LEMMA StepTakesTurn ==
  ASSUME NEW h \in Handler, HandlerShape,
         AccountStep(h) \/ Hook(h), ~Arrive(h), ~Issue(h)
  PROVE  TakesTurn(h)
<1>1. Marks \subseteq DOMAIN handler[h]
  BY DEF HandlerShape
<1>2. <<"miss">> \in Turnings /\ <<"discard">> \in Turnings /\ <<"failure">> \in Turnings
      /\ <<"insert">> \in Turnings /\ <<"dropGrants", "issue", "insert">> \in Turnings
  BY DEF Turnings
<1>3. CASE Fail(h)
  BY <1>3, DoneTakesTurn DEF Fail
<1>4. CASE \/ Skip(h) \/ Purge(h) \/ Insert(h) \/ Discard(h) \/ Forget(h) \/ Grant(h)
           \/ Revoke(h) \/ Clear(h) \/ Hook(h) \/ Password(h)
  <2>1. Onward(h, handler[h])
    BY <1>4 DEF Skip, Purge, Insert, Discard, Forget, Grant, Revoke, Clear, Hook, Password
  <2> QED
    BY <1>1, <2>1, LearningFields, OnwardTakesTurn
<1>5. CASE Exists(h)
  BY <1>1, <1>5, LearningFields, OnwardTakesTurn, RefuseTakesTurn DEF Exists
<1>6. CASE User(h)
  <2>1. \/ \E a, s : Onward(h, [handler[h] EXCEPT !.acct = a, !.saw = s])
        \/ Done(h)
    BY <1>6 DEF User
  <2> QED
    BY <1>1, <2>1, LearningFields, OnwardTakesTurn, DoneTakesTurn
<1>7. CASE Select(h)
  <2>1. PICK o, d : LET m == [handler[h] EXCEPT !.old = o, !.doomed = d] IN
          \/ Onward(h, m)
          \/ Becomes(h, [m EXCEPT !.todo = Unopposed(m)])
    BY <1>7 DEF Select
  <2> DEFINE m == [handler[h] EXCEPT !.old = o, !.doomed = d]
             n == [m EXCEPT !.todo = Unopposed(m)]
  <2>2. Learns(m, h)
    BY <1>1, LearningFields
  <2> HIDE DEF m
  <2>3. DOMAIN n = DOMAIN m /\ "todo" \in DOMAIN m /\ "code" \in DOMAIN m
    BY <2>2 DEF Learns, Marks
  <2>4. n.todo \in Turnings /\ n.code = m.code
    BY <1>2, <2>3 DEF Unopposed
  <2>5. Onward(h, m) \/ Becomes(h, n)
    BY <2>1 DEF m
  <2> HIDE DEF n
  <2> QED
    BY <2>2, <2>3, <2>4, <2>5, OnwardTakesTurn DEF TakesTurn, Follows, Learns
<1>8. CASE DropGrants(h)
  BY <1>1, <1>8, LearningFields, OnwardTakesTurn DEF DropGrants
<1>9. CASE Lookup(h)
  <2>1. Done(h) \/ \E a, e : Onward(h, [handler[h] EXCEPT !.acct = a, !.email = e])
    BY <1>9 DEF Lookup
  <2> QED
    BY <1>1, <2>1, LearningFields, OnwardTakesTurn, DoneTakesTurn
<1>10. CASE Find(h)
  BY <1>1, <1>2, <1>10, LearningFields, OnwardTakesTurn, RefuseTakesTurn, DetoursTakesTurn
     DEF Find
<1>11. CASE Miss(h)
  BY <1>1, <1>2, <1>11, DoneTakesTurn, DetoursTakesTurn DEF Miss
<1>12. CASE Cancel(h)
  <2>1. PICK o : LET m == [handler[h] EXCEPT !.old = o] IN Onward(h, m) \/ Becomes(h, m)
    BY <1>12 DEF Cancel
  <2> DEFINE m == [handler[h] EXCEPT !.old = o]
  <2>2. Learns(m, h)
    BY <1>1, LearningFields
  <2>3. Onward(h, m) \/ Becomes(h, m)
    BY <2>1
  <2> HIDE DEF m
  <2>4. Head(handler[h].todo) = "cancel"
    BY <1>12 DEF Cancel, At
  <2> QED
    BY <2>2, <2>3, <2>4, OnwardTakesTurn DEF TakesTurn, Follows, Learns
<1>13. CASE Consume(h)
  <2>1. Done(h) \/ Refuse(h) \/ \E e : Onward(h, [handler[h] EXCEPT !.email = e])
    BY <1>13 DEF Consume
  <2> QED
    BY <1>1, <2>1, LearningFields, OnwardTakesTurn, DoneTakesTurn, RefuseTakesTurn
<1>14. CASE Redeem(h)
  <2>1. Done(h) \/ \E a : Onward(h, [handler[h] EXCEPT !.acct = a])
    BY <1>14 DEF Redeem
  <2> QED
    BY <1>1, <2>1, LearningFields, OnwardTakesTurn, DoneTakesTurn
<1>15. CASE Register(h)
  <2>1. Done(h) \/ \E a, s : Onward(h, [handler[h] EXCEPT !.acct = a, !.saw = s])
    BY <1>15 DEF Register
  <2> QED
    BY <1>1, <2>1, LearningFields, OnwardTakesTurn, DoneTakesTurn
<1>16. CASE Read(h)
  <2>1. Done(h) \/ \E s : Onward(h, [handler[h] EXCEPT !.saw = s])
    BY <1>16 DEF Read
  <2> QED
    BY <1>1, <2>1, LearningFields, OnwardTakesTurn, DoneTakesTurn
<1>17. CASE Log(h)
  BY <1>1, <1>17, LearningFields, OnwardTakesTurn, DoneTakesTurn DEF Log
<1>18. CASE Delete(h) \/ ChangeEmail(h) \/ Failure(h)
  BY <1>18, DoneTakesTurn DEF Delete, ChangeEmail, Failure
<1>19. CASE Lockout(h)
  <2>1. \/ Done(h) \/ Detours(h, <<"failure">>)
        \/ \E l : Onward(h, [handler[h] EXCEPT !.logged = l])
    BY <1>19 DEF Lockout
  <2> QED
    BY <1>1, <1>2, <2>1, LearningFields, OnwardTakesTurn, DoneTakesTurn, DetoursTakesTurn
<1>20. CASE OpenSession(h)
  <2>1. \/ Done(h) \/ Onward(h, handler[h])
        \/ Onward(h, [handler[h] EXCEPT !.todo = <<"session">>])
    BY <1>20 DEF OpenSession
  <2>2. [handler[h] EXCEPT !.todo = <<"session">>].todo = <<"session">>
    BY <1>1 DEF Marks
  <2>3. Onward(h, [handler[h] EXCEPT !.todo = <<"session">>]) => Done(h)
    BY <2>2 DEF Onward, Done
  <2> QED
    BY <1>1, <2>1, <2>3, LearningFields, OnwardTakesTurn, DoneTakesTurn
<1>21. CASE SetupTotp(h) \/ EnableTotp(h) \/ DisableTotp(h) \/ Reseal(h)
  BY <1>21, DoneTakesTurn DEF SetupTotp, EnableTotp, DisableTotp, Reseal, WriteTotp
<1> QED
  BY <1>3, <1>4, <1>5, <1>6, <1>7, <1>8, <1>9, <1>10, <1>11, <1>12, <1>13, <1>14, <1>15, <1>16,
     <1>17, <1>18, <1>19, <1>20, <1>21 DEF AccountStep

(* A handler that issues a code goes on to what spends none. *)
LEMMA IssueTakesTurn ==
  ASSUME NEW h \in Handler, HandlerShape, Issue(h)
  PROVE  \E n : /\ Becomes(h, n) /\ Marks \subseteq DOMAIN n
                /\ n = Idle \/ n.todo = Tail(handler[h].todo)
<1>1. PICK c : Onward(h, [handler[h] EXCEPT !.code = c])
  BY DEF Issue
<1> DEFINE m == [handler[h] EXCEPT !.code = c]
           n == [m EXCEPT !.todo = Tail(@)]
<1>2. DOMAIN m = DOMAIN handler[h] /\ m.todo = handler[h].todo
  BY DEF HandlerShape, Marks
<1>3. Onward(h, m)
  BY <1>1
<1> HIDE DEF m
<1>4. DOMAIN n = DOMAIN m /\ n.todo = Tail(m.todo)
  BY <1>2 DEF HandlerShape, Marks
<1>5. Becomes(h, Idle) \/ Becomes(h, n)
  BY <1>3 DEF Onward
<1> HIDE DEF n
<1> QED
  BY <1>2, <1>4, <1>5, IdleMarked DEF HandlerShape

-----------------------------------------------------------------------------
(* Requests.                                                               *)

(* The requests that show a code. *)
ByCode == {"registerVerify", "registerCancel", "resetVerify", "resetComplete", "emailConfirm"}

(* A request begins with its script, and has outdated no code yet. *)
Begins(m, k) ==
  /\ Marks \subseteq DOMAIN m /\ Seen \subseteq DOMAIN m
  /\ m.kind = k /\ m.todo = Script[k] /\ m.doomed = {}
  /\ k \notin ByCode => m.code = NoChallenge

LEMMA RequestsBegin ==
  ASSUME NEW k
  PROVE  \A m \in Requested(k) : Begins(m, k)
<1> DEFINE known == { c \in Challenge : challenge[c].status # "unused" }
           ask == [Idle EXCEPT !.kind = k, !.todo = Script[k]]
           email(e) == [ask EXCEPT !.email = e]
           login(e, g) == [ask EXCEPT !.email = e, !.good = g]
           guess(c, g) == [ask EXCEPT !.code = c, !.good = g]
           code(c) == [ask EXCEPT !.code = c]
           move(s, e) == [ask EXCEPT !.acct = s.acct, !.email = e]
           confirm(s, c, g) == [ask EXCEPT !.acct = s.acct, !.code = c, !.good = g]
           job(a) == [ask EXCEPT !.acct = a]
           own(s) == [ask EXCEPT !.acct = s.acct, !.current = s.id]
<1>1. /\ Marks \subseteq DOMAIN ask /\ Seen \subseteq DOMAIN ask
      /\ ask.kind = k /\ ask.todo = Script[k] /\ ask.doomed = {} /\ ask.code = NoChallenge
  BY IdleMarked DEF Marks, Seen
<1> HIDE DEF known, ask
<1> DEFINE extends(m) ==
             /\ DOMAIN m = DOMAIN ask /\ m.todo = ask.todo
             /\ m.kind = ask.kind /\ m.doomed = ask.doomed
<1>2. \A a, c, e, g, s :
        /\ extends(email(e)) /\ email(e).code = ask.code
        /\ extends(login(e, g)) /\ login(e, g).code = ask.code
        /\ extends(guess(c, g)) /\ extends(code(c))
        /\ extends(move(s, e)) /\ move(s, e).code = ask.code
        /\ extends(confirm(s, c, g))
        /\ extends(job(a)) /\ job(a).code = ask.code
        /\ extends(own(s)) /\ own(s).code = ask.code
  BY <1>1 DEF Marks, Seen
<1> HIDE DEF email, login, guess, code, move, confirm, job, own
<1>3. CASE k = "registerBegin"
  <2>1. Requested(k) = { email(e) : e \in mix.emails }
    BY <1>3 DEF Requested, known, ask, email
  <2> QED
    BY <1>1, <1>2, <1>3, <2>1 DEF Begins, ByCode
<1>4. CASE k = "resetStart"
  <2>1. Requested(k) = { email(e) : e \in mix.emails }
    BY <1>4 DEF Requested, known, ask, email
  <2> QED
    BY <1>1, <1>2, <1>4, <2>1 DEF Begins, ByCode
<1>5. CASE k = "login"
  <2>1. Requested(k) = { login(e, g) : e \in mix.emails, g \in BOOLEAN }
    BY <1>5 DEF Requested, known, ask, login
  <2> QED
    BY <1>1, <1>2, <1>5, <2>1 DEF Begins, ByCode
<1>6. CASE k = "registerVerify"
  <2>1. Requested(k) = { guess(c, g) : c \in known, g \in BOOLEAN }
    BY <1>6 DEF Requested, known, ask, guess
  <2> QED
    BY <1>1, <1>2, <1>6, <2>1 DEF Begins, ByCode
<1>7. CASE k = "resetVerify"
  <2>1. Requested(k) = { guess(c, g) : c \in known, g \in BOOLEAN }
    BY <1>7 DEF Requested, known, ask, guess
  <2> QED
    BY <1>1, <1>2, <1>7, <2>1 DEF Begins, ByCode
<1>8. CASE k = "registerCancel"
  <2>1. Requested(k) = { code(c) : c \in known }
    BY <1>8 DEF Requested, known, ask, code
  <2> QED
    BY <1>1, <1>2, <1>8, <2>1 DEF Begins, ByCode
<1>9. CASE k = "resetComplete"
  <2>1. Requested(k) = { code(c) : c \in known }
    BY <1>9 DEF Requested, known, ask, code
  <2> QED
    BY <1>1, <1>2, <1>9, <2>1 DEF Begins, ByCode
<1>10. CASE k = "emailBegin"
  <2>1. Requested(k) = { move(s, e) : s \in sessions, e \in mix.emails }
    BY <1>10 DEF Requested, known, ask, move
  <2> QED
    BY <1>1, <1>2, <1>10, <2>1 DEF Begins, ByCode
<1>11. CASE k = "emailConfirm"
  <2>1. Requested(k) = { confirm(s, c, g) : s \in sessions, c \in known, g \in BOOLEAN }
    BY <1>11 DEF Requested, known, ask, confirm
  <2> QED
    BY <1>1, <1>2, <1>11, <2>1 DEF Begins, ByCode
<1>12. CASE k = "reseal"
  <2>1. Requested(k) = { job(a) : a \in Account }
    BY <1>12 DEF Requested, known, ask, job
  <2> QED
    BY <1>1, <1>2, <1>12, <2>1 DEF Begins, ByCode
<1>13. CASE /\ k \notin {"registerBegin", "resetStart"} /\ k # "login"
            /\ k \notin {"registerVerify", "resetVerify"}
            /\ k \notin {"registerCancel", "resetComplete"}
            /\ k # "emailBegin" /\ k # "emailConfirm" /\ k # "reseal"
  <2>1. Requested(k) = { own(s) : s \in sessions }
    BY <1>13 DEF Requested, known, ask, own
  <2> QED
    BY <1>1, <1>2, <1>13, <2>1 DEF Begins, ByCode
<1> QED
  BY <1>3, <1>4, <1>5, <1>6, <1>7, <1>8, <1>9, <1>10, <1>11, <1>12, <1>13


-----------------------------------------------------------------------------
(* Who holds a code.                                                       *)

Holder(h, c) == handler[h].code = c /\ Holding(handler[h].todo)

(* The await a step serves; one that is neither a consume nor a redeem     *)
(* takes no code.                                                          *)
LEMMA StepIsDue ==
  ASSUME NEW h \in Handler, AccountStep(h) \/ Hook(h), ~Arrive(h)
  PROVE  \/ Done(h)
         \/ /\ handler[h].todo # <<>>
            /\ Head(handler[h].todo) \in Takes => Consume(h) \/ Redeem(h)
<1>1. CASE Fail(h) \/ Skip(h)
  BY <1>1 DEF Fail, Skip, Tolerant, Takes
<1>2. CASE \/ User(h) \/ Select(h) \/ Purge(h) \/ Cancel(h) \/ DropGrants(h) \/ Issue(h)
           \/ Insert(h) \/ Exists(h) \/ Lookup(h) \/ Find(h) \/ Miss(h) \/ Discard(h)
  <2>1. \E op \in {"user", "select", "purge", "cancel", "dropGrants", "issue", "insert",
                   "exists", "lookup", "find", "miss", "discard"} : At(h, op)
    BY <1>2 DEF User, Select, Purge, Cancel, DropGrants, Issue, Insert, Exists, Lookup, Find,
       Miss, Discard
  <2> QED
    BY <2>1 DEF At, Takes
<1>3. CASE Consume(h) \/ Redeem(h)
  BY <1>3 DEF Consume, Redeem, At
<1>4. CASE Forget(h) \/ Grant(h) \/ Register(h) \/ Read(h) \/ Password(h) \/ Log(h) \/ Hook(h)
  <2>1. \E op \in {"forget", "grant", "account", "read", "password", "log", "hook"} : At(h, op)
    BY <1>4 DEF Forget, Grant, Register, Read, Password, Log, Hook
  <2> QED
    BY <2>1 DEF At, Takes
<1>5. CASE \/ Revoke(h) \/ Delete(h) \/ ChangeEmail(h) \/ Lockout(h) \/ Failure(h)
           \/ OpenSession(h) \/ Clear(h) \/ SetupTotp(h) \/ EnableTotp(h) \/ DisableTotp(h)
           \/ Reseal(h)
  <2>1. \E op \in {"revoke", "delete", "email", "lockout", "failure", "session", "clear",
                   "secret", "enable", "disable", "swap"} : At(h, op)
    BY <1>5 DEF Revoke, Delete, ChangeEmail, Lockout, Failure, OpenSession, Clear, SetupTotp,
       EnableTotp, DisableTotp, Reseal
  <2> QED
    BY <2>1 DEF At, Takes
<1> QED
  BY <1>1, <1>2, <1>3, <1>4, <1>5 DEF AccountStep

LEMMA MixStays ==
  ASSUME NEW h, AccountStep(h) \/ Hook(h)
  PROVE  mix' = mix
<1>1. CASE \/ Arrive(h) \/ Fail(h) \/ Skip(h) \/ User(h) \/ Select(h) \/ Purge(h) \/ Cancel(h)
           \/ DropGrants(h) \/ Issue(h) \/ Insert(h) \/ Exists(h) \/ Lookup(h) \/ Find(h)
  BY <1>1 DEF Arrive, Fail, Skip, User, Select, Purge, Cancel, DropGrants, Issue, Insert, Exists,
     Lookup, Find, clients
<1>2. CASE \/ Miss(h) \/ Discard(h) \/ Consume(h) \/ Redeem(h) \/ Forget(h) \/ Grant(h)
           \/ Register(h) \/ Read(h) \/ Password(h) \/ Log(h) \/ Hook(h)
  BY <1>2 DEF Miss, Discard, Consume, Redeem, Forget, Grant, Register, Read, Password, Log, Hook,
     clients
<1>3. CASE \/ Revoke(h) \/ Delete(h) \/ ChangeEmail(h) \/ Lockout(h) \/ Failure(h)
           \/ OpenSession(h) \/ Clear(h) \/ SetupTotp(h) \/ EnableTotp(h) \/ DisableTotp(h)
           \/ Reseal(h)
  BY <1>3 DEF Revoke, Delete, ChangeEmail, Lockout, Failure, OpenSession, Clear, SetupTotp,
     EnableTotp, DisableTotp, Reseal, WriteTotp, clients
<1> QED
  BY <1>1, <1>2, <1>3 DEF AccountStep

(* The others keep all that marks them, whatever one handler does.         *)
LEMMA OthersKeepMarks ==
  ASSUME NEW h \in Handler, HandlerShape, AccountStep(h) \/ Hook(h)
  PROVE  \A g \in Handler \ {h} : /\ DOMAIN handler'[g] = DOMAIN handler[g]
                                  /\ \A f \in Marks : handler'[g][f] = handler[g][f]
<1>1. CASE Arrive(h)
  <2>1. PICK k \in mix.kinds : \E m \in Requested(k) :
          handler' = [ g \in Handler |-> IF g = h THEN m
                                         ELSE [handler[g] EXCEPT !.doomed = @ \ {m.code}] ]
    BY <1>1 DEF Arrive
  <2>2. \A g \in Handler \ {h} :
          /\ DOMAIN handler'[g] = DOMAIN handler[g]
          /\ \A f \in DOMAIN handler[g] \ {"doomed"} : handler'[g][f] = handler[g][f]
    BY <2>1
  <2> QED
    BY <2>2 DEF HandlerShape, Marks
<1>2. CASE Issue(h) \/ TakesTurn(h)
  BY <1>2, IssueTakesTurn DEF TakesTurn, Becomes, HandlerShape
<1> QED
  BY <1>1, <1>2, StepTakesTurn

LEMMA OthersStay ==
  ASSUME NEW h \in Handler, HandlerShape, AccountStep(h) \/ Hook(h), NEW g \in Handler, g # h
  PROVE  /\ handler'[g].code = handler[g].code /\ handler'[g].todo = handler[g].todo
         /\ Marks \subseteq DOMAIN handler'[g]
  BY OthersKeepMarks DEF HandlerShape, Marks

LEMMA ShapeKept ==
  ASSUME NEW h \in Handler, HandlerShape, AccountStep(h) \/ Hook(h)
  PROVE  HandlerShape'
<1>1. mix' = mix
  BY MixStays
<1>2. DOMAIN handler' = Handler
  BY StepTakesTurn, IssueTakesTurn DEF Arrive, TakesTurn, Becomes, HandlerShape
<1>3. Marks \subseteq DOMAIN handler'[h] /\ Orderly(handler'[h].todo)
  <2>1. CASE Arrive(h)
    <3>1. PICK k \in mix.kinds : \E m \in Requested(k) : handler'[h] = m
      BY <2>1 DEF Arrive
    <3>2. Begins(handler'[h], k) /\ k \in Kind
      BY <3>1, RequestsBegin DEF HandlerShape
    <3> QED
      BY <3>2, ScriptsAreOrderly DEF Begins
  <2>2. CASE Done(h)
    BY <2>2, IdleMarked, NothingToDo DEF Done, Becomes, HandlerShape
  <2>3. CASE ~Arrive(h) /\ ~Done(h)
    <3>1. Orderly(handler[h].todo) /\ handler[h].todo # <<>>
      BY <2>3, StepIsDue DEF HandlerShape
    <3>2. Orderly(Tail(handler[h].todo))
      BY <3>1, TailOrderly
    <3>3. CASE Issue(h)
      BY <3>2, <3>3, IssueTakesTurn, IdleMarked, NothingToDo DEF Becomes, HandlerShape
    <3>4. CASE ~Issue(h)
      <4>1. PICK n : handler'[h] = n /\ Follows(n, handler[h])
        BY <2>3, <3>4, StepTakesTurn DEF TakesTurn, Becomes, HandlerShape
      <4> QED
        BY <3>1, <3>2, <4>1, TurningsHoldNothing, IdleMarked, NothingToDo DEF Follows
    <3> QED
      BY <3>3, <3>4
  <2> QED
    BY <2>1, <2>2, <2>3
<1> QED
  BY <1>1, <1>2, <1>3, OthersStay DEF HandlerShape

(* A step that takes no code gives nobody a code to spend. *)
LEMMA HoldersShrink ==
  ASSUME NEW h \in Handler, HandlerShape, AccountStep(h) \/ Hook(h),
         ~Consume(h), ~Redeem(h), NEW c \in Challenge, NEW g \in Handler, Holder(g, c)'
  PROVE  Holder(g, c)
<1>1. CASE g # h
  BY <1>1, OthersStay DEF Holder
<1>2. CASE g = h
  <2>1. CASE Arrive(h)
    <3>1. PICK k \in mix.kinds : \E m \in Requested(k) : handler'[h] = m
      BY <2>1 DEF Arrive
    <3>2. Begins(handler'[h], k) /\ k \in Kind
      BY <3>1, RequestsBegin DEF HandlerShape
    <3> QED
      BY <1>2, <3>2, ScriptsAreOrderly, NoCodeAssumption DEF Begins, ByCode, Holder
  <2>2. CASE Done(h)
    BY <1>2, <2>2, IdleMarked, NothingToDo DEF Done, Becomes, HandlerShape, Holder
  <2>3. CASE ~Arrive(h) /\ ~Done(h)
    <3>1. /\ Orderly(handler[h].todo) /\ handler[h].todo # <<>>
          /\ Head(handler[h].todo) \notin Takes
      BY <2>3, StepIsDue DEF HandlerShape
    <3>2. /\ Holding(Tail(handler[h].todo)) => Holding(handler[h].todo)
          /\ Head(handler[h].todo) = "issue" => ~Holding(Tail(handler[h].todo))
      BY <3>1, TailOrderly
    <3>3. CASE Issue(h)
      BY <1>2, <3>2, <3>3, IssueTakesTurn, IdleMarked, NothingToDo
         DEF Becomes, HandlerShape, Holder, Issue, At
    <3>4. CASE ~Issue(h)
      <4>1. PICK n : handler'[h] = n /\ Follows(n, handler[h])
        BY <2>3, <3>4, StepTakesTurn DEF TakesTurn, Becomes, HandlerShape
      <4> QED
        BY <1>2, <3>2, <4>1, TurningsHoldNothing, IdleMarked, NothingToDo DEF Follows, Holder
    <3> QED
      BY <3>3, <3>4
  <2> QED
    BY <2>1, <2>2, <2>3
<1> QED
  BY <1>1, <1>2

(* A step that serves an await which spends ends what its handler held.    *)
LEMMA SpendingEnds ==
  ASSUME NEW h \in Handler, HandlerShape, AccountStep(h) \/ Hook(h), ~Arrive(h),
         handler[h].todo # <<>>, Head(handler[h].todo) \in Spends
  PROVE  Holding(handler[h].todo) /\ ~Holding(handler'[h].todo)
<1>1. Orderly(handler[h].todo)
  BY DEF HandlerShape
<1>2. Holding(handler[h].todo) /\ ~Holding(Tail(handler[h].todo))
  BY <1>1, TailOrderly
<1>3. ~Issue(h) /\ Head(handler[h].todo) # "cancel"
  BY DEF Issue, At, Spends
<1>4. PICK n : handler'[h] = n /\ Follows(n, handler[h])
  BY <1>3, StepTakesTurn DEF TakesTurn, Becomes, HandlerShape
<1> QED
  BY <1>2, <1>3, <1>4, TurningsHoldNothing, IdleMarked, NothingToDo DEF Follows

-----------------------------------------------------------------------------
(* What becomes of a code.                                                 *)

TableShape ==
  \A c \in Challenge : /\ c \in DOMAIN challenge /\ c \in DOMAIN effects
                       /\ {"status", "attempts"} \subseteq DOMAIN challenge[c]

(* It has not been taken yet. *)
Lying(c) == challenge[c].status \in {"unused", "live"}

Held(c) == \E h \in Handler : Holder(h, c)

(* It is in one place, and past the first only with attempts to spare. *)
CodeInv(c) ==
  /\ effects[c] \in {0, 1}
  /\ Lying(c) \/ c \in grants \/ Held(c) => effects[c] = 0
  /\ Lying(c) => c \notin grants /\ ~Held(c)
  /\ c \in grants => ~Held(c)
  /\ \A g, h \in Handler : Holder(g, c) /\ Holder(h, c) => g = h
  /\ c \in grants \/ Held(c) \/ effects[c] = 1 => challenge[c].attempts < MaxAttempts

CodesInv == \A c \in Challenge : CodeInv(c)

(* A step that brings a code no further. *)
Rests(c) ==
  /\ effects'[c] = effects[c]
  /\ c \in grants' => c \in grants
  /\ Lying(c)' => Lying(c)
  /\ challenge'[c].attempts = challenge[c].attempts \/ Lying(c)
  /\ \A h \in Handler : Holder(h, c)' => Holder(h, c)

LEMMA RestingKeeps ==
  ASSUME NEW c \in Challenge, CodeInv(c), Rests(c)
  PROVE  CodeInv(c)'
<1>1. Held(c)' => Held(c)
  BY DEF Rests, Held
<1>2. \A g, h \in Handler : Holder(g, c)' /\ Holder(h, c)' => g = h
  BY DEF Rests, CodeInv
<1> QED
  BY <1>1, <1>2 DEF Rests, CodeInv

(* What the statements on the table do to a row. *)
LEMMA TableStatements ==
  ASSUME NEW c \in Challenge, NEW d, TableShape
  PROVE  /\ \A k, e, a : \/ challenge[d].status # "unused"
                         \/ challenge' # Issued(challenge, d, k, e, a)
                         \/ /\ TableShape' \/ effects' # effects
                            /\ Lying(c)' => Lying(c)
                            /\ challenge'[c].attempts = challenge[c].attempts \/ Lying(c)
         /\ challenge' = Removed(challenge, {d}) =>
              /\ TableShape' \/ effects' # effects
              /\ Lying(c)' => Lying(c)
              /\ challenge'[c].attempts = challenge[c].attempts
              /\ c = d => ~Lying(c)' \/ challenge[c].status = "unused"
         /\ challenge' = Missed(challenge, d) =>
              /\ TableShape' \/ effects' # effects
              /\ Lying(c)' => Lying(c)
              /\ challenge'[c].attempts = challenge[c].attempts \/ Lying(c)
         /\ challenge' = Expired(challenge, d) =>
              /\ TableShape' \/ effects' # effects
              /\ Lying(c)' => Lying(c)
              /\ challenge'[c].attempts = challenge[c].attempts
  BY DEF TableShape, Lying, Issued, Removed, Missed, Expired, Found

(* The steps that leave the table of codes, the grants and the effects.    *)
LEMMA ElsewhereRests ==
  ASSUME NEW h \in Handler, AccountStep(h) \/ Hook(h),
         ~Purge(h), ~Insert(h), ~Forget(h),
         ~Issue(h), ~Cancel(h), ~Miss(h), ~Discard(h), ~Consume(h),
         ~DropGrants(h), ~Grant(h), ~Redeem(h), ~Register(h), ~Password(h), ~ChangeEmail(h)
  PROVE  UNCHANGED <<challenge, grants, effects>>
<1>1. CASE \/ Arrive(h) \/ Fail(h) \/ Skip(h) \/ User(h) \/ Select(h) \/ Exists(h)
           \/ Lookup(h) \/ Find(h) \/ Read(h) \/ Log(h) \/ Hook(h)
  BY <1>1 DEF Arrive, Fail, Skip, User, Select, Exists, Lookup, Find, Read, Log, Hook, codes,
     codeHistory
<1>2. CASE \/ Revoke(h) \/ Delete(h) \/ Lockout(h) \/ Failure(h)
           \/ OpenSession(h) \/ Clear(h)
  BY <1>2 DEF Revoke, Delete, Lockout, Failure, OpenSession, Clear, codes, codeHistory
<1>3. CASE SetupTotp(h) \/ EnableTotp(h) \/ DisableTotp(h) \/ Reseal(h)
  BY <1>3 DEF SetupTotp, EnableTotp, DisableTotp, Reseal, WriteTotp, codes, codeHistory
<1> QED
  BY <1>1, <1>2, <1>3 DEF AccountStep

(* A code rests while others are issued, refused or withdrawn.             *)
LEMMA QuietSteps ==
  ASSUME NEW h \in Handler, HandlerShape, TableShape, AccountStep(h) \/ Hook(h),
         ~Consume(h), ~Grant(h), ~Redeem(h), ~Register(h), ~Password(h), ~ChangeEmail(h),
         NEW c \in Challenge
  PROVE  Rests(c) /\ TableShape'
<1>1. \A g \in Handler : Holder(g, c)' => Holder(g, c)
  BY HoldersShrink
<1>2. CASE Issue(h)
  <2>1. PICK d \in Challenge : /\ challenge[d].status = "unused"
                               /\ challenge' = Issued(challenge, d, CodeOf(handler[h].kind),
                                                      handler[h].email, handler[h].acct)
    BY <1>2 DEF Issue
  <2>2. UNCHANGED <<grants, effects>>
    BY <1>2 DEF Issue, codeHistory
  <2> QED
    BY <1>1, <2>1, <2>2, TableStatements DEF Rests
<1>3. CASE Cancel(h)
  <2>1. PICK d : challenge' = challenge \/ challenge' = Removed(challenge, {d})
    BY <1>3 DEF Cancel
  <2>2. UNCHANGED <<grants, effects>>
    BY <1>3 DEF Cancel, codeHistory
  <2>3. CASE challenge' = challenge
    BY <1>1, <2>2, <2>3 DEF Rests, TableShape, Lying
  <2> QED
    BY <1>1, <2>1, <2>2, <2>3, TableStatements DEF Rests
<1>4. CASE Miss(h)
  <2>1. challenge' = Missed(challenge, handler[h].code) /\ UNCHANGED <<grants, effects>>
    BY <1>4 DEF Miss, codeHistory
  <2> QED
    BY <1>1, <2>1, TableStatements DEF Rests
<1>5. CASE Discard(h)
  <2>1. challenge' = Removed(challenge, {handler[h].code}) /\ UNCHANGED <<grants, effects>>
    BY <1>5 DEF Discard, codeHistory
  <2> QED
    BY <1>1, <2>1, TableStatements DEF Rests
<1>6. CASE DropGrants(h)
  <2>1. UNCHANGED <<challenge, effects>> /\ grants' \subseteq grants
    BY <1>6 DEF DropGrants
  <2> QED
    BY <1>1, <2>1 DEF Rests, TableShape, Lying
<1>7. CASE Purge(h) \/ Insert(h) \/ Forget(h)
  <2>1. UNCHANGED <<challenge, grants, effects>>
    BY <1>7 DEF Purge, Insert, Forget, codeHistory
  <2> QED
    BY <1>1, <2>1 DEF Rests, TableShape, Lying
<1>8. CASE UNCHANGED <<challenge, grants, effects>>
  BY <1>1, <1>8 DEF Rests, TableShape, Lying
<1> QED
  BY <1>2, <1>3, <1>4, <1>5, <1>6, <1>7, <1>8, ElsewhereRests

(* The handler that wins a code is the only one to hold it.                *)
LEMMA ConsumeKeeps ==
  ASSUME NEW h \in Handler, HandlerShape, TableShape, Consume(h),
         NEW c \in Challenge, CodeInv(c)
  PROVE  CodeInv(c)' /\ TableShape'
<1> DEFINE d == handler[h].code
<1>1. UNCHANGED <<grants, effects>>
  BY DEF Consume, codeHistory
<1>2. \A g \in Handler : g # h => (Holder(g, c)' <=> Holder(g, c))
  BY OthersStay DEF Holder, AccountStep
<1>3. CASE Consumable(challenge, d) /\ challenge' = Removed(challenge, {d})
  <2>1. challenge[d].status = "live" /\ challenge[d].attempts < MaxAttempts
    BY <1>3 DEF Consumable, Found
  <2>2. TableShape' /\ (Lying(c)' => Lying(c)) /\ challenge'[c].attempts = challenge[c].attempts
    BY <1>1, <1>3, TableStatements
  <2>3. CASE c = d
    <3>1. Lying(c) /\ ~Lying(c)'
      BY <1>3, <2>1, <2>3, TableStatements DEF Lying
    <3>2. effects[c] = 0 /\ c \notin grants /\ ~Held(c)
      BY <3>1 DEF CodeInv
    <3>3. \A g \in Handler : Holder(g, c)' => g = h
      BY <1>2, <3>2 DEF Held
    <3> QED
      BY <1>1, <2>1, <2>2, <2>3, <3>1, <3>2, <3>3 DEF CodeInv
  <2>4. CASE c # d
    <3>1. ~Holder(h, c)'
      <4>1. AccountStep(h) /\ At(h, "consume")
        BY DEF AccountStep, Consume
      <4>2. ~Arrive(h) /\ ~Issue(h)
        BY <4>1, IdleMarked DEF At, Arrive, Issue
      <4>3. PICK n : handler'[h] = n /\ Follows(n, handler[h])
        BY <4>1, <4>2, StepTakesTurn DEF TakesTurn, Becomes, HandlerShape
      <4> QED
        BY <2>4, <4>3, IdleMarked, NothingToDo DEF Follows, Holder
    <3> QED
      BY <1>1, <1>2, <2>2, <3>1, RestingKeeps DEF Rests
  <2> QED
    BY <2>2, <2>3, <2>4
<1>4. CASE challenge' = challenge /\ Refuse(h)
  <2>1. ~Holder(h, c)'
    <3>1. CASE Done(h)
      BY <3>1, IdleMarked, NothingToDo DEF Done, Becomes, HandlerShape, Holder
    <3>2. CASE Detours(h, <<"forget", "discard">>)
      <4>1. handler'[h].todo = <<"forget", "discard">>
        BY <3>2 DEF Detours, Becomes, HandlerShape, Marks
      <4>2. <<"forget", "discard">> \in Turnings
        BY DEF Turnings
      <4> QED
        BY <4>1, <4>2, TurningsHoldNothing DEF Holder
    <3> QED
      BY <1>4, <3>1, <3>2 DEF Refuse
  <2>2. Rests(c) /\ TableShape'
    BY <1>1, <1>2, <1>4, <2>1 DEF Rests, TableShape, Lying
  <2> QED
    BY <2>2, RestingKeeps
<1> QED
  BY <1>3, <1>4 DEF Consume

(* The handler that takes a grant is the only one to hold its code.        *)
LEMMA RedeemKeeps ==
  ASSUME NEW h \in Handler, HandlerShape, TableShape, Redeem(h),
         NEW c \in Challenge, CodeInv(c)
  PROVE  CodeInv(c)' /\ TableShape'
<1> DEFINE d == handler[h].code
<1>1. UNCHANGED <<challenge, effects>> /\ AccountStep(h) /\ At(h, "redeem")
  BY DEF Redeem, codeHistory, AccountStep
<1>2. TableShape' /\ (Lying(c)' <=> Lying(c)) /\ challenge'[c].attempts = challenge[c].attempts
  BY <1>1 DEF TableShape, Lying
<1>3. \A g \in Handler : g # h => (Holder(g, c)' <=> Holder(g, c))
  BY <1>1, OthersStay DEF Holder
<1>4. CASE c \in grants /\ grants' = grants \ {d} /\ c = d
  <2>1. effects[c] = 0 /\ ~Lying(c) /\ ~Held(c) /\ challenge[c].attempts < MaxAttempts
    BY <1>4 DEF CodeInv
  <2>2. \A g \in Handler : Holder(g, c)' => g = h
    BY <1>3, <2>1 DEF Held
  <2> QED
    BY <1>1, <1>2, <1>4, <2>1, <2>2 DEF CodeInv
<1>5. CASE c # d /\ grants' = grants \ {d}
  <2>1. ~Arrive(h) /\ ~Issue(h)
    BY <1>1, IdleMarked DEF At, Arrive, Issue
  <2>2. PICK n : handler'[h] = n /\ Follows(n, handler[h])
    BY <1>1, <2>1, StepTakesTurn DEF TakesTurn, Becomes, HandlerShape
  <2>3. ~Holder(h, c)'
    BY <1>5, <2>2, IdleMarked, NothingToDo DEF Follows, Holder
  <2> QED
    BY <1>1, <1>2, <1>3, <1>5, <2>3, RestingKeeps DEF Rests
<1>6. CASE d \notin grants /\ grants' = grants /\ Done(h)
  <2>1. ~Holder(h, c)'
    BY <1>6, IdleMarked, NothingToDo DEF Done, Becomes, HandlerShape, Holder
  <2> QED
    BY <1>1, <1>2, <1>3, <1>6, <2>1, RestingKeeps DEF Rests
<1> QED
  BY <1>2, <1>4, <1>5, <1>6 DEF Redeem

(* Whoever spends a code held it, and holds it no longer.                  *)
LEMMA SpendKeeps ==
  ASSUME NEW h \in Handler, HandlerShape, TableShape,
         AccountStep(h) \/ Hook(h), ~Arrive(h), ~Consume(h), ~Redeem(h),
         handler[h].todo # <<>>, Head(handler[h].todo) \in Spends,
         challenge' = challenge,
         \/ effects' = effects /\ grants' \subseteq grants \cup {handler[h].code}
         \/ /\ effects' = [effects EXCEPT ![handler[h].code] = @ + 1]
            /\ grants' = grants,
         NEW c \in Challenge, CodeInv(c)
  PROVE  CodeInv(c)' /\ TableShape'
<1>1. TableShape' /\ (Lying(c)' <=> Lying(c)) /\ challenge'[c].attempts = challenge[c].attempts
  BY DEF TableShape, Lying
<1>2. \A g \in Handler : Holder(g, c)' => Holder(g, c)
  BY HoldersShrink
<1>3. ~Holder(h, c)'
  BY SpendingEnds DEF Holder
<1>4. CASE c # handler[h].code
  <2>1. effects'[c] = effects[c] /\ (c \in grants' => c \in grants)
    BY <1>4 DEF TableShape
  <2> QED
    BY <1>1, <1>2, <2>1, RestingKeeps DEF Rests
<1>5. CASE c = handler[h].code
  <2>1. Holder(h, c)
    BY <1>5, SpendingEnds DEF Holder
  <2>2. /\ effects[c] = 0 /\ ~Lying(c) /\ c \notin grants /\ challenge[c].attempts < MaxAttempts
        /\ \A g \in Handler : Holder(g, c) => g = h
    BY <2>1 DEF CodeInv, Held
  <2>3. ~Held(c)'
    BY <1>2, <1>3, <2>2 DEF Held
  <2>4. \/ effects'[c] = 0
        \/ effects'[c] = 1 /\ c \notin grants'
    BY <1>5, <2>2 DEF TableShape
  <2> QED
    BY <1>1, <2>2, <2>3, <2>4 DEF CodeInv, Held
<1> QED
  BY <1>1, <1>4, <1>5

LEMMA HandlersKeepCodes ==
  ASSUME NEW h \in Handler, HandlerShape, TableShape, CodesInv, AccountStep(h) \/ Hook(h)
  PROVE  \A c \in Challenge : CodeInv(c)' /\ TableShape'
<1> SUFFICES ASSUME NEW c \in Challenge
             PROVE  CodeInv(c)' /\ TableShape'
  OBVIOUS
<1>1. CodeInv(c)
  BY DEF CodesInv
<1>2. CASE Consume(h)
  BY <1>1, <1>2, ConsumeKeeps
<1>3. CASE Redeem(h)
  BY <1>1, <1>3, RedeemKeeps
<1>4. CASE Grant(h) \/ Register(h) \/ Password(h) \/ ChangeEmail(h)
  <2>1. /\ handler[h].todo # <<>> /\ Head(handler[h].todo) \in Spends
        /\ Head(handler[h].todo) \notin Takes
    BY <1>4 DEF Grant, Register, Password, ChangeEmail, At, Spends, Takes
  <2>2. ~Arrive(h) /\ ~Consume(h) /\ ~Redeem(h)
    BY <2>1, IdleMarked DEF Arrive, Consume, Redeem, At, Takes
  <2>3. /\ challenge' = challenge
        /\ \/ effects' = effects /\ grants' \subseteq grants \cup {handler[h].code}
           \/ /\ effects' = [effects EXCEPT ![handler[h].code] = @ + 1]
              /\ grants' = grants
    BY <1>4 DEF Grant, Register, Password, ChangeEmail, codes, codeHistory
  <2> QED
    BY <1>1, <2>1, <2>2, <2>3, SpendKeeps
<1>5. CASE ~(Consume(h) \/ Redeem(h) \/ Grant(h) \/ Register(h) \/ Password(h) \/ ChangeEmail(h))
  BY <1>1, <1>5, QuietSteps, RestingKeeps
<1> QED
  BY <1>2, <1>3, <1>4, <1>5

-----------------------------------------------------------------------------
(* The invariant: where the handlers stand, and where each code is.        *)
CodeJourney == HandlerShape /\ TableShape /\ CodesInv

LEMMA JourneyBegins ==
  ASSUME AccountInit
  PROVE  CodeJourney
<1>1. HandlerShape
  BY IdleMarked, NothingToDo, AccountMixAssumption DEF AccountInit, HandlerShape
<1>2. TableShape
  BY DEF AccountInit, TableShape, Unissued
<1>3. CodesInv
  <2>1. \A c \in Challenge : /\ effects[c] = 0 /\ c \notin grants
                             /\ challenge[c].status = "unused"
    BY DEF AccountInit, Unissued
  <2>2. \A c \in Challenge, h \in Handler : ~Holder(h, c)
    BY IdleMarked, NothingToDo DEF AccountInit, Holder
  <2>3. ASSUME NEW c \in Challenge
        PROVE  CodeInv(c)
    <3>1. ~Held(c)
      BY <2>2 DEF Held
    <3>2. \A g, h \in Handler : ~(Holder(g, c) /\ Holder(h, c))
      BY <2>2
    <3> QED
      BY <2>1, <3>1, <3>2 DEF CodeInv
  <2> QED
    BY <2>3 DEF CodesInv
<1> QED
  BY <1>1, <1>2, <1>3 DEF CodeJourney

(* Time brings no code further. *)
LEMMA TimeKeepsCodes ==
  ASSUME CodeJourney, AccountTime
  PROVE  CodeJourney'
<1>1. UNCHANGED <<handler, mix, effects>>
  BY DEF AccountTime, ExpireCode, ExpireGrant, Unlock, clients, codeHistory
<1>2. HandlerShape'
  BY <1>1 DEF CodeJourney, HandlerShape
<1>3. \A h \in Handler, c \in Challenge : Holder(h, c)' <=> Holder(h, c)
  BY <1>1 DEF Holder
<1>4. /\ grants' \subseteq grants
      /\ challenge' = challenge \/ \E d : challenge' = Expired(challenge, d)
  BY DEF AccountTime, ExpireCode, ExpireGrant, Unlock, codes
<1>5. ASSUME NEW c \in Challenge
      PROVE  CodeInv(c)' /\ TableShape'
  <2>1. TableShape' /\ (Lying(c)' => Lying(c)) /\ challenge'[c].attempts = challenge[c].attempts
    <3>1. CASE challenge' = challenge
      BY <1>1, <3>1 DEF CodeJourney, TableShape, Lying
    <3>2. CASE \E d : challenge' = Expired(challenge, d)
      BY <1>1, <3>2, TableStatements DEF CodeJourney
    <3> QED
      BY <1>4, <3>1, <3>2
  <2> QED
    BY <1>1, <1>3, <1>4, <2>1, RestingKeeps DEF Rests, CodeJourney, CodesInv
<1>6. TableShape'
  BY <1>5 DEF TableShape
<1> QED
  BY <1>2, <1>5, <1>6 DEF CodeJourney, CodesInv

LEMMA HandlersKeepJourney ==
  ASSUME CodeJourney, NEW h \in Handler, AccountStep(h) \/ Hook(h)
  PROVE  CodeJourney'
<1>1. HandlerShape'
  BY ShapeKept DEF CodeJourney
<1>2. \A c \in Challenge : CodeInv(c)' /\ TableShape'
  BY HandlersKeepCodes DEF CodeJourney
<1>3. TableShape'
  BY <1>2 DEF TableShape
<1> QED
  BY <1>1, <1>2, <1>3 DEF CodeJourney, CodesInv

LEMMA JourneyKept ==
  ASSUME CodeJourney, [AccountNext]_accountVars
  PROVE  CodeJourney'
<1>1. CASE AccountNext
  BY <1>1, TimeKeepsCodes, HandlersKeepJourney DEF AccountNext
<1>2. CASE UNCHANGED accountVars
  <2>1. UNCHANGED <<handler, mix, challenge, grants, effects>>
    BY <1>2 DEF accountVars, codes, clients, codeHistory
  <2>2. HandlerShape' /\ TableShape'
    BY <2>1 DEF CodeJourney, HandlerShape, TableShape
  <2>3. \A c \in Challenge : Rests(c)
    BY <2>1 DEF Rests, Lying, Holder
  <2> QED
    BY <2>2, <2>3, RestingKeeps DEF CodeJourney, CodesInv
<1> QED
  BY <1>1, <1>2

LEMMA JourneyInvariance == AccountSpec => []CodeJourney
  BY JourneyBegins, JourneyKept, PTL DEF AccountSpec

(* A code brings about one thing at most, however many requests show it at *)
(* once, for any number of handlers, codes and accounts.                   *)
THEOREM OneEffect == AccountSpec => []OneEffectPerCode
<1>1. ASSUME CodeJourney
      PROVE  OneEffectPerCode
  <2>1. \A c \in Challenge : effects[c] = 0 \/ effects[c] = 1
    BY <1>1 DEF CodeJourney, CodesInv, CodeInv
  <2>2. 0 <= 1 /\ 1 <= 1
    OBVIOUS
  <2>3. \A c \in Challenge : effects[c] <= 1
    BY <2>1, <2>2
  <2> QED
    BY <2>3 DEF OneEffectPerCode
<1> QED
  BY <1>1, JourneyInvariance, PTL

(* What a code brought about, it did within the attempts allowed.          *)
THEOREM WithinAttempts == AccountSpec => []AttemptsRespected
<1>1. ASSUME CodeJourney
      PROVE  AttemptsRespected
  <2>1. \A c \in Challenge : /\ effects[c] = 0 \/ effects[c] = 1
                             /\ effects[c] = 1 => challenge[c].attempts < MaxAttempts
    BY <1>1 DEF CodeJourney, CodesInv, CodeInv
  <2> QED
    BY <2>1 DEF AttemptsRespected
<1> QED
  BY <1>1, JourneyInvariance, PTL

-----------------------------------------------------------------------------
(* The second factor of an account.                                        *)

RowShape ==
  \A a \in Account : /\ a \in DOMAIN account
                     /\ {"status", "password", "secret", "sealed", "enabled"}
                          \subseteq DOMAIN account[a]

(* What a step does to the second factor of an account: nothing, ends it   *)
(* with no secret or a new one, or asks for it with the secret there is.   *)
FactorStays(a) ==
  account'[a].secret = account[a].secret /\ account'[a].enabled = account[a].enabled

FactorEnds(a) ==
  /\ account'[a].secret \in (Secret \ generated) \cup {NoSecret}
  /\ account'[a].enabled = FALSE

FactorStarts(a) ==
  /\ account'[a].secret = account[a].secret
  /\ account[a].secret \in proven' \/ a \in clobbered'

FactorMoves(a) == FactorStays(a) \/ FactorEnds(a) \/ FactorStarts(a)

(* What is shown once stays shown. *)
Remembers == proven \subseteq proven' /\ clobbered \subseteq clobbered'

(* The row of b, if any, has this second factor now. *)
Written(b, secret, enabled) ==
  /\ RowShape'
  /\ \A a \in Account :
       \/ account'[a] = account[a]
       \/ a = b /\ account'[a].secret = secret /\ account'[a].enabled = enabled

LEMMA WriteTotpWrites ==
  ASSUME RowShape, NEW h, NEW secret, NEW sealed, NEW enabled,
         WriteTotp(h, secret, sealed, enabled)
  PROVE  Written(handler[h].acct, secret, enabled)
<1>1. CASE ~Live(handler[h].acct)
  BY <1>1 DEF RowShape, WriteTotp, Written
<1>2. CASE Live(handler[h].acct)
  <2> DEFINE b == handler[h].acct
  <2>1. account' = [account EXCEPT ![b] =
                      [account[b] EXCEPT !.secret = secret, !.sealed = sealed,
                                         !.enabled = enabled]]
    BY <1>2 DEF WriteTotp
  <2>2. b \in Account /\ b \in DOMAIN account
    BY <1>2 DEF Live, RowShape
  <2>3. /\ DOMAIN account' = DOMAIN account
        /\ account'[b] = [account[b] EXCEPT !.secret = secret, !.sealed = sealed,
                                            !.enabled = enabled]
        /\ \A a \in DOMAIN account : a # b => account'[a] = account[a]
    BY <2>1, <2>2
  <2>4. /\ DOMAIN account'[b] = DOMAIN account[b]
        /\ account'[b].secret = secret /\ account'[b].enabled = enabled
    BY <2>2, <2>3 DEF RowShape
  <2> HIDE DEF b
  <2>5. RowShape'
    BY <2>2, <2>3, <2>4 DEF RowShape
  <2> QED
    BY <2>3, <2>4, <2>5 DEF RowShape, Written, b
<1> QED
  BY <1>1, <1>2

LEMMA TotpMoves ==
  ASSUME RowShape, NEW h \in Handler,
         SetupTotp(h) \/ EnableTotp(h) \/ DisableTotp(h) \/ Reseal(h)
  PROVE  RowShape' /\ Remembers /\ \A a \in Account : FactorMoves(a)
<1>1. CASE SetupTotp(h)
  <2>1. PICK secret \in Secret \ generated, sealed \in BOOLEAN : WriteTotp(h, secret, sealed, FALSE)
    BY <1>1 DEF SetupTotp
  <2>2. Remembers
    BY <1>1 DEF SetupTotp, Remembers
  <2>3. Written(handler[h].acct, secret, FALSE)
    BY <2>1, WriteTotpWrites
  <2> QED
    BY <2>2, <2>3 DEF Written, FactorMoves, FactorStays, FactorEnds
<1>2. CASE EnableTotp(h)
  <2> DEFINE m == handler[h]
             b == m.acct
  <2>1. /\ WriteTotp(h, account[b].secret, account[b].sealed, TRUE)
        /\ proven' = proven \cup {m.saw.secret}
        /\ clobbered' = clobbered \cup { a \in {b} : account[b].secret # m.saw.secret }
    BY <1>2 DEF EnableTotp
  <2>2. account[b].secret \in proven' \/ b \in clobbered'
    BY <2>1
  <2>3. Written(handler[h].acct, account[b].secret, TRUE)
    BY <2>1, WriteTotpWrites
  <2> QED
    BY <2>1, <2>2, <2>3 DEF Written, FactorMoves, FactorStays, FactorStarts, Remembers
<1>3. CASE DisableTotp(h)
  <2>1. WriteTotp(h, NoSecret, FALSE, FALSE) /\ Remembers
    BY <1>3 DEF DisableTotp, totpHistory, Remembers
  <2>2. Written(handler[h].acct, NoSecret, FALSE)
    BY <2>1, WriteTotpWrites
  <2> QED
    BY <2>1, <2>2 DEF Written, FactorMoves, FactorStays, FactorEnds
<1>4. CASE Reseal(h)
  <2> DEFINE b == handler[h].acct
  <2>1. Remembers
    BY <1>4 DEF Reseal, totpHistory, Remembers
  <2>2. CASE UNCHANGED account
    BY <2>1, <2>2 DEF RowShape, FactorMoves, FactorStays
  <2>3. CASE /\ account[b].secret = handler[h].saw.secret
             /\ WriteTotp(h, handler[h].saw.secret, TRUE, account[b].enabled)
    <3>1. Written(handler[h].acct, handler[h].saw.secret, account[b].enabled)
      BY <2>3, WriteTotpWrites
    <3> QED
      BY <2>1, <2>3, <3>1 DEF Written, FactorMoves, FactorStays
  <2> QED
    BY <1>4, <2>2, <2>3 DEF Reseal, Untouched, people
<1> QED
  BY <1>1, <1>2, <1>3, <1>4

(* A row for b with the second factor it has. *)
Sound(b, row) ==
  /\ DOMAIN row = DOMAIN account[b]
  /\ row.secret = account[b].secret /\ row.enabled = account[b].enabled

(* The other writes to an account leave its second factor, but for the     *)
(* insert of a new row, which has none.                                    *)
LEMMA OtherWritesMove ==
  ASSUME RowShape, NEW h \in Handler,
         Register(h) \/ Password(h) \/ Delete(h) \/ ChangeEmail(h)
  PROVE  RowShape' /\ Remembers /\ \A a \in Account : FactorMoves(a)
<1>1. Remembers
  BY DEF Register, Password, Delete, ChangeEmail, accountHistory, totpHistory, Remembers
<1>2. CASE UNCHANGED account
  BY <1>1, <1>2 DEF RowShape, FactorMoves, FactorStays
<1>3. CASE Register(h) /\ account' # account
  <2>1. PICK b \in Account : account' = [account EXCEPT ![b] =
                               [Fresh EXCEPT !.status = "live", !.email = handler[h].email]]
    BY <1>3 DEF Register
  <2> DEFINE row == [Fresh EXCEPT !.status = "live", !.email = handler[h].email]
  <2>2. /\ {"status", "password", "secret", "sealed", "enabled"} \subseteq DOMAIN row
        /\ row.secret = NoSecret /\ row.enabled = FALSE
    BY DEF Fresh
  <2>3. account' = [account EXCEPT ![b] = row]
    BY <2>1
  <2> HIDE DEF row
  <2> QED
    BY <1>1, <2>2, <2>3 DEF RowShape, FactorMoves, FactorStays, FactorEnds
<1>4. CASE (Password(h) \/ Delete(h) \/ ChangeEmail(h)) /\ account' # account
  <2> DEFINE b == handler[h].acct
             set == [account[b] EXCEPT !.password = @ + 1]
             gone == [account[b] EXCEPT !.status = "deleted"]
             moved == [account[b] EXCEPT !.email = handler[h].email]
  <2>1. PICK row \in {set, gone, moved} : account' = [account EXCEPT ![b] = row]
    BY <1>4 DEF Password, Delete, ChangeEmail, people
  <2>2. b \in Account
    BY <1>4 DEF Password, Delete, ChangeEmail, people, Live
  <2>3. {"status", "password", "secret", "sealed", "enabled"} \subseteq DOMAIN account[b]
    BY <2>2 DEF RowShape
  <2>4. Sound(b, set)
    BY <2>3 DEF Sound
  <2>5. Sound(b, gone)
    BY <2>3 DEF Sound
  <2>6. Sound(b, moved)
    BY <2>3 DEF Sound
  <2> HIDE DEF b, set, gone, moved
  <2>7. Sound(b, row)
    BY <2>1, <2>4, <2>5, <2>6
  <2> QED
    BY <1>1, <2>1, <2>3, <2>7 DEF Sound, RowShape, FactorMoves, FactorStays
<1> QED
  BY <1>2, <1>3, <1>4

-----------------------------------------------------------------------------
LEMMA AccountStepMovesFactor ==
  ASSUME RowShape, NEW h \in Handler, AccountStep(h) \/ Hook(h)
  PROVE  RowShape' /\ Remembers /\ \A a \in Account : FactorMoves(a)
<1>1. CASE SetupTotp(h) \/ EnableTotp(h) \/ DisableTotp(h) \/ Reseal(h)
  BY <1>1, TotpMoves
<1>2. CASE Register(h) \/ Password(h) \/ Delete(h) \/ ChangeEmail(h)
  BY <1>2, OtherWritesMove
<1>3. CASE UNCHANGED <<account, proven, clobbered>>
  BY <1>3 DEF RowShape, Remembers, FactorMoves, FactorStays
<1>4. CASE \/ Arrive(h) \/ Fail(h) \/ Skip(h) \/ User(h) \/ Select(h) \/ Purge(h) \/ Cancel(h)
           \/ DropGrants(h) \/ Issue(h) \/ Insert(h) \/ Exists(h) \/ Lookup(h) \/ Find(h)
  <2>1. UNCHANGED <<account, proven, clobbered>>
    BY <1>4 DEF Arrive, Fail, Skip, User, Select, Purge, Cancel, DropGrants, Issue, Insert,
       Exists, Lookup, Find, people, accountHistory, totpHistory
  <2> QED
    BY <1>3, <2>1
<1>5. CASE \/ Miss(h) \/ Discard(h) \/ Consume(h) \/ Redeem(h) \/ Forget(h) \/ Grant(h)
           \/ Read(h) \/ Log(h) \/ Hook(h) \/ Revoke(h) \/ Lockout(h) \/ Failure(h)
           \/ OpenSession(h) \/ Clear(h)
  <2>1. UNCHANGED <<account, proven, clobbered>>
    BY <1>5 DEF Miss, Discard, Consume, Redeem, Forget, Grant, Read, Log, Hook, Revoke, Lockout,
       Failure, OpenSession, Clear, people, accountHistory, totpHistory
  <2> QED
    BY <1>3, <2>1
<1> QED
  BY <1>1, <1>2, <1>4, <1>5 DEF AccountStep

LEMMA FactorMovesAlways ==
  ASSUME RowShape, [AccountNext]_accountVars
  PROVE  RowShape' /\ Remembers /\ \A a \in Account : FactorMoves(a)
<1>1. CASE UNCHANGED accountVars \/ AccountTime
  <2>1. UNCHANGED <<account, proven, clobbered>>
    BY <1>1 DEF accountVars, AccountTime, ExpireCode, ExpireGrant, Unlock, people, accountHistory,
       totpHistory
  <2> QED
    BY <2>1 DEF RowShape, Remembers, FactorMoves, FactorStays
<1> QED
  BY <1>1, AccountStepMovesFactor DEF AccountNext

FactorInv == RowShape /\ TotpProven

LEMMA FactorBegins ==
  ASSUME AccountInit
  PROVE  FactorInv
<1> DEFINE opened(a) == [Fresh EXCEPT !.status = "live", !.email = HomeAddress[a]]
<1>1. \A a \in Account :
        /\ {"status", "password", "secret", "sealed", "enabled"} \subseteq DOMAIN opened(a)
        /\ ~opened(a).enabled
  BY DEF Fresh
<1>2. {"status", "password", "secret", "sealed", "enabled"} \subseteq DOMAIN Fresh /\ ~Fresh.enabled
  BY DEF Fresh
<1>3. account = [ a \in Account |-> IF a \in mix.live THEN opened(a) ELSE Fresh ]
  BY DEF AccountInit
<1> HIDE DEF opened
<1> QED
  BY <1>1, <1>2, <1>3 DEF FactorInv, RowShape, TotpProven

LEMMA FactorKept ==
  ASSUME FactorInv, [AccountNext]_accountVars
  PROVE  FactorInv'
<1>1. RowShape' /\ Remembers /\ \A a \in Account : FactorMoves(a)
  BY FactorMovesAlways DEF FactorInv
<1>2. ASSUME NEW a \in Account, account'[a].enabled
      PROVE  account'[a].secret \in proven' \/ a \in clobbered'
  <2>1. CASE FactorStays(a)
    BY <1>1, <1>2, <2>1 DEF FactorStays, FactorInv, TotpProven, Remembers
  <2>2. CASE FactorEnds(a)
    BY <1>2, <2>2 DEF FactorEnds
  <2>3. CASE FactorStarts(a)
    BY <2>3 DEF FactorStarts
  <2> QED
    BY <1>1, <2>1, <2>2, <2>3 DEF FactorMoves
<1> QED
  BY <1>1, <1>2 DEF FactorInv, TotpProven

(* The sealing job, a second setup, a disable and an enable, in any order  *)
(* of their reads and writes, leave two-factor login on only over a secret *)
(* that was proven, or that changed between the check of an enable and its *)
(* write.                                                                  *)
THEOREM FactorProven == AccountSpec => []TotpProven
<1>1. FactorInv => TotpProven
  BY DEF FactorInv
<1> QED
  BY <1>1, FactorBegins, FactorKept, PTL DEF AccountSpec

(* And no step brings back a secret that was replaced or removed.          *)
THEOREM SecretsStayGone == AccountSpec => SecretsNeverReturn
<1>1. FactorInv /\ [AccountNext]_accountVars =>
        [ \A a \in Account : account'[a].secret # account[a].secret =>
                             account'[a].secret \in (Secret \ generated) \cup {NoSecret}
        ]_accountVars
  BY FactorMovesAlways DEF FactorInv, FactorMoves, FactorStays, FactorEnds, FactorStarts
<1> QED
  BY <1>1, FactorBegins, FactorKept, PTL DEF AccountSpec, SecretsNeverReturn

-----------------------------------------------------------------------------
(* Codes that a later start has withdrawn.                                 *)

(* What a reset start has to do, from each of its awaits on. *)
FromPurge == <<"purge", "cancel", "dropGrants", "issue", "insert">>
FromCancel == <<"cancel", "dropGrants", "issue", "insert">>
FromDrop == <<"dropGrants", "issue", "insert">>
FromSelect == <<"select", "purge", "cancel", "dropGrants", "issue", "insert">>
Withdrawing == {FromPurge, FromCancel, FromDrop}
Starting ==
  {ResetStart, FromSelect, <<"issue", "insert">>, <<"insert">>} \cup Withdrawing

StartShape ==
  \A h \in Handler : /\ Seen \subseteq DOMAIN handler[h]
                     /\ handler[h].kind = "resetStart" => handler[h].todo \in Starting

(* A row knows its kind and its owner from its issue on. *)
RowsKnown ==
  \A c \in Challenge : /\ c \in DOMAIN challenge
                       /\ {"status", "kind", "acct"} \subseteq DOMAIN challenge[c]
                       /\ challenge[c].status = "unused" => challenge[c].kind # "reset"

ResetCode(c) ==
  c \in Challenge /\ challenge[c].status # "unused" /\ challenge[c].kind = "reset"

(* What a start is about to withdraw, nobody has in hand; once it has      *)
(* deleted the pending rows, none of them is back.                         *)
Doomed(h, c) ==
  /\ ResetCode(c) /\ challenge[c].acct = handler[h].acct
  /\ handler[h].kind = "resetStart" /\ handler[h].todo \in Withdrawing
  /\ \A g \in Handler : handler[g].code # c
  /\ Head(handler[h].todo) # "purge" => c \notin pending

(* Who shows a withdrawn code is turned away, or does what sets no password. *)
Fruitful == {"select", "issue", "insert", "grant", "password", "account"}

Fruitless(t) ==
  t # <<>> => \/ Head(t) \in {"lookup", "redeem"}
              \/ \A i \in 1 .. Len(t) : t[i] \notin Fruitful

Dead(c) ==
  /\ ResetCode(c) /\ c \notin pending /\ c \notin grants
  /\ \A h \in Handler : handler[h].code = c => Fruitless(handler[h].todo)

DoomInv == \A h \in Handler : \A c \in handler[h].doomed : Doomed(h, c)

DeadInv == \A c \in retired : Dead(c)

RetireInv == StartShape /\ RowsKnown /\ DoomInv /\ DeadInv

-----------------------------------------------------------------------------
(* Where a handler may turn aside, and to what. *)
Aside == {<<"miss">>, <<"discard">>, <<"forget", "discard">>, <<"failure">>}
Turned == {"exists", "find", "miss", "consume", "lockout"}

(* Where it learns of no other account. *)
KeepsOwner == {"select", "purge", "cancel", "dropGrants", "password", "log", "revoke"}

(* Where a handler o stands after a step of its own that is no arrival.    *)
Moves(n, o) ==
  /\ Seen \subseteq DOMAIN n
  /\ \/ n = Idle
     \/ /\ n.kind = o.kind
        /\ Head(o.todo) # "issue" => n.code = o.code
        /\ Head(o.todo) \in KeepsOwner => n.acct = o.acct
        /\ Head(o.todo) # "select" => n.doomed = o.doomed \/ n.doomed = {}
        /\ Head(o.todo) = "dropGrants" => n.doomed = {}
        /\ \/ n.todo = Tail(o.todo) /\ Len(o.todo) # 1
           \/ n.todo = o.todo /\ Head(o.todo) = "cancel"
           \/ n.todo \in Aside /\ Head(o.todo) \in Turned
           \/ n.todo = Unopposed(o) /\ Head(o.todo) = "select"

MovesOn(h) == \E n : Becomes(h, n) /\ Moves(n, handler[h])

LEMMA DoneMovesOn ==
  ASSUME NEW h, Done(h)
  PROVE  MovesOn(h)
  BY IdleMarked DEF Done, MovesOn, Moves

(* m is the handler with what it has learnt at its await. *)
Knows(m, o) ==
  /\ Seen \subseteq DOMAIN m
  /\ m.kind = o.kind /\ m.todo = o.todo
  /\ Head(o.todo) # "issue" => m.code = o.code
  /\ Head(o.todo) \in KeepsOwner => m.acct = o.acct
  /\ Head(o.todo) # "select" => m.doomed = o.doomed \/ m.doomed = {}
  /\ Head(o.todo) = "dropGrants" => m.doomed = {}

LEMMA OnwardMovesOn ==
  ASSUME NEW h, NEW m, Knows(m, handler[h]), Onward(h, m)
  PROVE  MovesOn(h)
<1> DEFINE n == [m EXCEPT !.todo = Tail(@)]
<1>1. /\ DOMAIN n = DOMAIN m /\ n.todo = Tail(m.todo)
      /\ n.kind = m.kind /\ n.code = m.code /\ n.acct = m.acct /\ n.doomed = m.doomed
  BY DEF Knows, Seen, Marks
<1>2. Becomes(h, Idle) \/ (Becomes(h, n) /\ Len(m.todo) # 1)
  BY DEF Onward
<1> HIDE DEF n
<1>3. CASE Becomes(h, Idle)
  BY <1>3, IdleMarked DEF MovesOn, Moves
<1>4. CASE Becomes(h, n) /\ Len(m.todo) # 1
  <2>1. m.todo = handler[h].todo
    BY DEF Knows
  <2>2. n.todo = Tail(handler[h].todo) /\ Len(handler[h].todo) # 1
    BY <1>1, <1>4, <2>1
  <2>3. Moves(n, handler[h])
    BY <1>1, <2>2 DEF Moves, Knows
  <2> QED
    BY <1>4, <2>3 DEF MovesOn
<1> QED
  BY <1>2, <1>3, <1>4

LEMMA DetoursMovesOn ==
  ASSUME NEW h, NEW ops \in Aside, Seen \subseteq DOMAIN handler[h],
         Detours(h, ops), Head(handler[h].todo) \in Turned
  PROVE  MovesOn(h)
<1> DEFINE n == [handler[h] EXCEPT !.todo = ops]
<1>1. /\ DOMAIN n = DOMAIN handler[h] /\ n.todo = ops
      /\ n.kind = handler[h].kind /\ n.code = handler[h].code /\ n.acct = handler[h].acct
      /\ n.doomed = handler[h].doomed
  BY DEF Seen, Marks
<1>2. Becomes(h, n)
  BY DEF Detours
<1> HIDE DEF n
<1> QED
  BY <1>1, <1>2 DEF MovesOn, Moves, Turned

LEMMA RefuseMovesOn ==
  ASSUME NEW h, Seen \subseteq DOMAIN handler[h], Refuse(h), Head(handler[h].todo) \in Turned
  PROVE  MovesOn(h)
<1>1. <<"forget", "discard">> \in Aside
  BY DEF Aside
<1> QED
  BY <1>1, DoneMovesOn, DetoursMovesOn DEF Refuse

LEMMA KnowingFields ==
  ASSUME NEW o, Seen \subseteq DOMAIN o
  PROVE  /\ Head(o.todo) # "dropGrants" =>
              /\ Knows(o, o)
              /\ \A e : Knows([o EXCEPT !.email = e], o)
              /\ \A s : Knows([o EXCEPT !.saw = s], o)
              /\ \A d : Knows([o EXCEPT !.old = d], o)
              /\ \A l : Knows([o EXCEPT !.logged = l], o)
         /\ Head(o.todo) \notin KeepsOwner \cup {"dropGrants"} =>
              /\ \A a : Knows([o EXCEPT !.acct = a], o)
              /\ \A a, s : Knows([o EXCEPT !.acct = a, !.saw = s], o)
              /\ \A a, e : Knows([o EXCEPT !.acct = a, !.email = e], o)
         /\ Knows([o EXCEPT !.doomed = {}], o)
         /\ Head(o.todo) = "select" => \A p, d : Knows([o EXCEPT !.old = p, !.doomed = d], o)
         /\ Head(o.todo) = "issue" => \A c : Knows([o EXCEPT !.code = c], o)
  BY DEF Knows, Seen, Marks

LEMMA StepMovesOn ==
  ASSUME NEW h \in Handler, Seen \subseteq DOMAIN handler[h],
         AccountStep(h) \/ Hook(h), ~Arrive(h)
  PROVE  MovesOn(h)
<1> DEFINE o == handler[h]
<1>1. <<"miss">> \in Aside /\ <<"discard">> \in Aside /\ <<"failure">> \in Aside
  BY DEF Aside
<1>2. CASE Fail(h)
  BY <1>2, DoneMovesOn DEF Fail
<1>3. CASE \/ Skip(h) \/ Purge(h) \/ Insert(h) \/ Discard(h) \/ Forget(h) \/ Grant(h)
           \/ Revoke(h) \/ Clear(h) \/ Hook(h) \/ Password(h)
  <2>1. Onward(h, o)
    BY <1>3 DEF Skip, Purge, Insert, Discard, Forget, Grant, Revoke, Clear, Hook, Password
  <2>2. Head(o.todo) \in {"purge", "insert", "discard", "forget", "grant", "revoke", "clear",
                          "hook", "password"}
    BY <1>3 DEF Skip, Tolerant, Purge, Insert, Discard, Forget, Grant, Revoke, Clear, Hook,
       Password, At
  <2> QED
    BY <2>1, <2>2, KnowingFields, OnwardMovesOn
<1>4. CASE Exists(h)
  <2>1. Head(o.todo) = "exists" /\ (Onward(h, o) \/ Refuse(h))
    BY <1>4 DEF Exists, At
  <2> QED
    BY <2>1, KnowingFields, OnwardMovesOn, RefuseMovesOn DEF Turned
<1>5. CASE User(h)
  <2>1. /\ Head(o.todo) = "user"
        /\ \/ \E a, s : Onward(h, [o EXCEPT !.acct = a, !.saw = s])
           \/ Done(h)
    BY <1>5 DEF User, At
  <2> QED
    BY <2>1, KnowingFields, OnwardMovesOn, DoneMovesOn DEF KeepsOwner
<1>6. CASE Select(h)
  <2>1. /\ Head(o.todo) = "select"
        /\ \E p, d : LET m == [o EXCEPT !.old = p, !.doomed = d] IN
             Onward(h, m) \/ Becomes(h, [m EXCEPT !.todo = Unopposed(m)])
    BY <1>6 DEF Select, At
  <2>2. PICK p, d : LET m == [o EXCEPT !.old = p, !.doomed = d] IN
             Onward(h, m) \/ Becomes(h, [m EXCEPT !.todo = Unopposed(m)])
    BY <2>1
  <2> DEFINE m == [o EXCEPT !.old = p, !.doomed = d]
             n == [m EXCEPT !.todo = Unopposed(m)]
  <2>3. Knows(m, o)
    BY <2>1, KnowingFields
  <2>4. Onward(h, m) \/ Becomes(h, n)
    BY <2>2
  <2> HIDE DEF m
  <2>5. /\ DOMAIN n = DOMAIN m /\ n.todo = Unopposed(m)
        /\ n.kind = m.kind /\ n.code = m.code /\ n.acct = m.acct /\ n.doomed = m.doomed
    BY <2>3 DEF Knows, Seen, Marks
  <2>6. Unopposed(m) = Unopposed(o)
    BY <2>3 DEF Unopposed, Knows
  <2> HIDE DEF n
  <2> QED
    BY <2>1, <2>3, <2>4, <2>5, <2>6, OnwardMovesOn DEF MovesOn, Moves, Knows
<1>7. CASE DropGrants(h)
  BY <1>7, KnowingFields, OnwardMovesOn DEF DropGrants
<1>8. CASE Issue(h)
  <2>1. Head(o.todo) = "issue" /\ \E c : Onward(h, [o EXCEPT !.code = c])
    BY <1>8 DEF Issue, At
  <2> QED
    BY <2>1, KnowingFields, OnwardMovesOn
<1>9. CASE Cancel(h)
  <2>1. /\ Head(o.todo) = "cancel"
        /\ \E p : LET m == [o EXCEPT !.old = p] IN Onward(h, m) \/ Becomes(h, m)
    BY <1>9 DEF Cancel, At
  <2>2. PICK p : Onward(h, [o EXCEPT !.old = p]) \/ Becomes(h, [o EXCEPT !.old = p])
    BY <2>1
  <2> DEFINE m == [o EXCEPT !.old = p]
  <2>3. Knows(m, o)
    BY <2>1, KnowingFields
  <2>4. Onward(h, m) \/ Becomes(h, m)
    BY <2>2
  <2> HIDE DEF m
  <2> QED
    BY <2>1, <2>3, <2>4, OnwardMovesOn DEF MovesOn, Moves, Knows
<1>10. CASE Lookup(h)
  <2>1. /\ Head(o.todo) = "lookup"
        /\ Done(h) \/ \E a, e : Onward(h, [o EXCEPT !.acct = a, !.email = e])
    BY <1>10 DEF Lookup, At
  <2> QED
    BY <2>1, KnowingFields, OnwardMovesOn, DoneMovesOn DEF KeepsOwner
<1>11. CASE Find(h)
  <2>1. Head(o.todo) = "find" /\ (Onward(h, o) \/ Refuse(h) \/ Detours(h, <<"miss">>))
    BY <1>11 DEF Find, At
  <2> QED
    BY <1>1, <2>1, KnowingFields, OnwardMovesOn, RefuseMovesOn, DetoursMovesOn DEF Turned
<1>12. CASE Miss(h)
  <2>1. Head(o.todo) = "miss" /\ (Done(h) \/ Detours(h, <<"discard">>))
    BY <1>12 DEF Miss, At
  <2> QED
    BY <1>1, <2>1, DoneMovesOn, DetoursMovesOn DEF Turned
<1>13. CASE Consume(h)
  <2>1. /\ Head(o.todo) = "consume"
        /\ Done(h) \/ Refuse(h) \/ \E e : Onward(h, [o EXCEPT !.email = e])
    BY <1>13 DEF Consume, At
  <2> QED
    BY <2>1, KnowingFields, OnwardMovesOn, DoneMovesOn, RefuseMovesOn DEF Turned
<1>14. CASE Redeem(h)
  <2>1. /\ Head(o.todo) = "redeem"
        /\ Done(h) \/ \E a : Onward(h, [o EXCEPT !.acct = a])
    BY <1>14 DEF Redeem, At
  <2> QED
    BY <2>1, KnowingFields, OnwardMovesOn, DoneMovesOn DEF KeepsOwner
<1>15. CASE Register(h)
  <2>1. /\ Head(o.todo) = "account"
        /\ Done(h) \/ \E a, s : Onward(h, [o EXCEPT !.acct = a, !.saw = s])
    BY <1>15 DEF Register, At
  <2> QED
    BY <2>1, KnowingFields, OnwardMovesOn, DoneMovesOn DEF KeepsOwner
<1>16. CASE Read(h)
  <2>1. /\ Head(o.todo) = "read"
        /\ Done(h) \/ \E s : Onward(h, [o EXCEPT !.saw = s])
    BY <1>16 DEF Read, At
  <2> QED
    BY <2>1, KnowingFields, OnwardMovesOn, DoneMovesOn
<1>17. CASE Log(h)
  <2>1. Head(o.todo) = "log" /\ (Done(h) \/ Onward(h, o))
    BY <1>17 DEF Log, At
  <2> QED
    BY <2>1, KnowingFields, OnwardMovesOn, DoneMovesOn
<1>18. CASE Delete(h) \/ ChangeEmail(h) \/ Failure(h)
  BY <1>18, DoneMovesOn DEF Delete, ChangeEmail, Failure
<1>19. CASE Lockout(h)
  <2>1. /\ Head(o.todo) = "lockout"
        /\ \/ Done(h) \/ Detours(h, <<"failure">>)
           \/ \E l : Onward(h, [o EXCEPT !.logged = l])
    BY <1>19 DEF Lockout, At
  <2> QED
    BY <1>1, <2>1, KnowingFields, OnwardMovesOn, DoneMovesOn, DetoursMovesOn DEF Turned
<1>20. CASE OpenSession(h)
  <2>1. /\ Head(o.todo) = "session"
        /\ \/ Done(h) \/ Onward(h, o) \/ Onward(h, [o EXCEPT !.todo = <<"session">>])
    BY <1>20 DEF OpenSession, At
  <2>2. [o EXCEPT !.todo = <<"session">>].todo = <<"session">>
    BY DEF Seen, Marks
  <2>3. Onward(h, [o EXCEPT !.todo = <<"session">>]) => Done(h)
    BY <2>2 DEF Onward, Done
  <2> QED
    BY <2>1, <2>3, KnowingFields, OnwardMovesOn, DoneMovesOn
<1>21. CASE SetupTotp(h) \/ EnableTotp(h) \/ DisableTotp(h) \/ Reseal(h)
  BY <1>21, DoneMovesOn DEF SetupTotp, EnableTotp, DisableTotp, Reseal, WriteTotp
<1> QED
  BY <1>2, <1>3, <1>4, <1>5, <1>6, <1>7, <1>8, <1>9, <1>10, <1>11, <1>12, <1>13, <1>14, <1>15,
     <1>16, <1>17, <1>18, <1>19, <1>20, <1>21 DEF AccountStep

(* A handler that waits for one of these is served by it, or fails.        *)
LEMMA DueSteps ==
  ASSUME NEW h \in Handler, AccountStep(h) \/ Hook(h), ~Arrive(h)
  PROVE  \/ Fail(h)
         \/ /\ handler[h].todo # <<>>
            /\ Head(handler[h].todo) = "select" => Select(h)
            /\ Head(handler[h].todo) = "purge" => Purge(h)
            /\ Head(handler[h].todo) = "lookup" => Lookup(h)
            /\ Head(handler[h].todo) = "redeem" => Redeem(h)
            /\ Head(handler[h].todo) = "log" => Log(h)
            /\ Head(handler[h].todo) = "revoke" => Revoke(h) \/ Skip(h)
<1>1. CASE Fail(h) \/ Skip(h)
  BY <1>1 DEF Skip, Tolerant
<1>2. CASE Select(h) \/ Purge(h) \/ Lookup(h) \/ Redeem(h) \/ Log(h) \/ Revoke(h)
  BY <1>2 DEF Select, Purge, Lookup, Redeem, Log, Revoke, At
<1>3. CASE \/ User(h) \/ Cancel(h) \/ DropGrants(h) \/ Issue(h)
           \/ Insert(h) \/ Exists(h) \/ Find(h) \/ Miss(h) \/ Discard(h) \/ Consume(h)
           \/ Forget(h) \/ Grant(h) \/ Register(h) \/ Read(h) \/ Password(h)
  <2>1. \E op \in {"user", "cancel", "dropGrants", "issue", "insert", "exists",
                   "find", "miss", "discard", "consume", "forget", "grant", "account", "read",
                   "password"} : At(h, op)
    BY <1>3 DEF User, Cancel, DropGrants, Issue, Insert, Exists, Find, Miss, Discard, Consume,
       Forget, Grant, Register, Read, Password
  <2> QED
    BY <2>1 DEF At
<1>4. CASE \/ Hook(h) \/ Delete(h) \/ ChangeEmail(h) \/ Lockout(h)
           \/ Failure(h) \/ OpenSession(h) \/ Clear(h) \/ SetupTotp(h) \/ EnableTotp(h)
           \/ DisableTotp(h) \/ Reseal(h)
  <2>1. \E op \in {"hook", "delete", "email", "lockout", "failure", "session",
                   "clear", "secret", "enable", "disable", "swap"} : At(h, op)
    BY <1>4 DEF Hook, Delete, ChangeEmail, Lockout, Failure, OpenSession, Clear,
       SetupTotp, EnableTotp, DisableTotp, Reseal
  <2> QED
    BY <2>1 DEF At
<1> QED
  BY <1>1, <1>2, <1>3, <1>4 DEF AccountStep

(* Who shows a code that is not there is turned away. *)
LEMMA DeadEnds ==
  ASSUME NEW h \in Handler, AccountStep(h) \/ Hook(h), ~Arrive(h),
         \/ Head(handler[h].todo) = "lookup" /\ handler[h].code \notin pending
         \/ Head(handler[h].todo) = "redeem" /\ handler[h].code \notin grants
  PROVE  Done(h)
  BY DueSteps DEF Fail, Lookup, Redeem

-----------------------------------------------------------------------------
(* What a step does to the tables of codes.                                *)

RowsMove ==
  /\ RowsKnown'
  /\ \A c : ResetCode(c) => ResetCode(c)' /\ challenge'[c].acct = challenge[c].acct

LEMMA StatementsMoveRows ==
  ASSUME RowsKnown,
         \/ challenge' = challenge
         \/ \E d \in Challenge : \E k, e, a : /\ challenge[d].status = "unused"
                                              /\ challenge' = Issued(challenge, d, k, e, a)
         \/ \E D : challenge' = Removed(challenge, D)
         \/ \E d : challenge' = Missed(challenge, d)
         \/ \E d : challenge[d].status # "unused" /\ challenge' = Expired(challenge, d)
  PROVE  RowsMove
<1>1. CASE challenge' = challenge
  BY <1>1 DEF RowsMove, RowsKnown, ResetCode
<1>2. ASSUME NEW d \in Challenge, NEW k, NEW e, NEW a, challenge[d].status = "unused",
             challenge' = Issued(challenge, d, k, e, a)
      PROVE  RowsMove
  <2> DEFINE row == [ status |-> "live", kind |-> k, email |-> e, acct |-> a, attempts |-> 0 ]
  <2>1. challenge' = [challenge EXCEPT ![d] = row]
    BY <1>2 DEF Issued
  <2>2. {"status", "kind", "acct"} \subseteq DOMAIN row /\ row.status = "live"
    OBVIOUS
  <2> HIDE DEF row
  <2>3. /\ DOMAIN challenge' = DOMAIN challenge
        /\ \A c \in Challenge : challenge'[c] = IF c = d THEN row ELSE challenge[c]
    BY <2>1 DEF RowsKnown
  <2> QED
    BY <1>2, <2>2, <2>3 DEF RowsMove, RowsKnown, ResetCode
<1>3. ASSUME NEW D, challenge' = Removed(challenge, D)
      PROVE  RowsMove
  BY <1>3 DEF Removed, Found, RowsMove, RowsKnown, ResetCode
<1>4. ASSUME NEW d, challenge' = Missed(challenge, d)
      PROVE  RowsMove
  BY <1>1, <1>4 DEF Missed, Found, RowsMove, RowsKnown, ResetCode
<1>5. ASSUME NEW d, challenge[d].status # "unused", challenge' = Expired(challenge, d)
      PROVE  RowsMove
  BY <1>5 DEF Expired, RowsMove, RowsKnown, ResetCode
<1> QED
  BY <1>1, <1>2, <1>3, <1>4, <1>5

LEMMA StepMovesRows ==
  ASSUME RowsKnown, NEW h \in Handler, AccountStep(h) \/ Hook(h)
  PROVE  RowsMove
<1>1. CASE Issue(h)
  <2>1. \E d \in Challenge : /\ challenge[d].status = "unused"
                             /\ challenge' = Issued(challenge, d, CodeOf(handler[h].kind),
                                                    handler[h].email, handler[h].acct)
    BY <1>1 DEF Issue
  <2> QED
    BY <2>1, StatementsMoveRows
<1>2. CASE Cancel(h)
  <2>1. \E d : challenge' = challenge \/ challenge' = Removed(challenge, {d})
    BY <1>2 DEF Cancel
  <2> QED
    BY <2>1, StatementsMoveRows
<1>3. CASE Miss(h)
  <2>1. challenge' = Missed(challenge, handler[h].code)
    BY <1>3 DEF Miss
  <2> QED
    BY <2>1, StatementsMoveRows
<1>4. CASE Discard(h) \/ Consume(h)
  <2>1. challenge' = challenge \/ challenge' = Removed(challenge, {handler[h].code})
    BY <1>4 DEF Discard, Consume
  <2> QED
    BY <2>1, StatementsMoveRows
<1>5. CASE ~(Issue(h) \/ Cancel(h) \/ Miss(h) \/ Discard(h) \/ Consume(h))
  <2>1. CASE \/ DropGrants(h) \/ Grant(h) \/ Redeem(h) \/ Register(h) \/ Password(h)
             \/ ChangeEmail(h) \/ Purge(h) \/ Insert(h) \/ Forget(h)
    BY <2>1, StatementsMoveRows DEF DropGrants, Grant, Redeem, Register, Password, ChangeEmail,
       Purge, Insert, Forget, codes
  <2> QED
    BY <1>5, <2>1, ElsewhereRests, StatementsMoveRows
<1> QED
  BY <1>1, <1>2, <1>3, <1>4, <1>5

(* Only its own code does a handler enter, where its script says so, and   *)
(* only those it has outdated does it retire.                              *)
Enters(h) ==
  /\ \A c : c \in pending' /\ c \notin pending => At(h, "insert") /\ c = handler[h].code
  /\ \A c : c \in grants' /\ c \notin grants => At(h, "grant") /\ c = handler[h].code
  /\ retired' = retired \/ DropGrants(h)

LEMMA StepEnters ==
  ASSUME NEW h \in Handler, AccountStep(h) \/ Hook(h)
  PROVE  Enters(h)
<1>1. CASE \/ Arrive(h) \/ Fail(h) \/ Skip(h) \/ User(h) \/ Select(h) \/ Cancel(h) \/ Issue(h)
           \/ Exists(h) \/ Lookup(h) \/ Find(h) \/ Miss(h) \/ Discard(h) \/ Consume(h)
  BY <1>1 DEF Arrive, Fail, Skip, User, Select, Cancel, Issue, Exists, Lookup, Find, Miss,
     Discard, Consume, codes, codeHistory, Enters
<1>2. CASE Purge(h) \/ DropGrants(h) \/ Insert(h) \/ Forget(h) \/ Grant(h) \/ Redeem(h)
  BY <1>2 DEF Purge, DropGrants, Insert, Forget, Grant, Redeem, codeHistory, Enters
<1>3. CASE \/ Register(h) \/ Read(h) \/ Password(h) \/ Log(h) \/ Revoke(h) \/ Delete(h)
           \/ ChangeEmail(h) \/ Lockout(h) \/ Failure(h) \/ OpenSession(h) \/ Clear(h) \/ Hook(h)
  BY <1>3 DEF Register, Read, Password, Log, Revoke, Delete, ChangeEmail, Lockout, Failure,
     OpenSession, Clear, Hook, codes, codeHistory, Enters
<1>4. CASE SetupTotp(h) \/ EnableTotp(h) \/ DisableTotp(h) \/ Reseal(h)
  BY <1>4 DEF SetupTotp, EnableTotp, DisableTotp, Reseal, WriteTotp, codes, codeHistory, Enters
<1> QED
  BY <1>1, <1>2, <1>3, <1>4 DEF AccountStep

(* What a code brings about, its handler does at its await, or it is a     *)
(* change of address.                                                      *)
LEMMA StepTakesEffect ==
  ASSUME NEW h \in Handler, AccountStep(h) \/ Hook(h), NEW c \in DOMAIN effects,
         effects'[c] # effects[c]
  PROVE  \/ ChangeEmail(h)
         \/ c = handler[h].code /\ (At(h, "account") \/ At(h, "password"))
<1>1. CASE Register(h) \/ Password(h)
  <2>1. At(h, "account") \/ At(h, "password")
    BY <1>1 DEF Register, Password
  <2>2. effects' = effects \/ effects' = [effects EXCEPT ![handler[h].code] = @ + 1]
    BY <1>1 DEF Register, Password
  <2>3. CASE effects' = [effects EXCEPT ![handler[h].code] = @ + 1]
    BY <2>1, <2>3
  <2> QED
    BY <2>1, <2>2, <2>3
<1>2. CASE \/ Issue(h) \/ Cancel(h) \/ Miss(h) \/ Discard(h) \/ Consume(h) \/ DropGrants(h)
           \/ Grant(h) \/ Redeem(h) \/ Purge(h) \/ Insert(h) \/ Forget(h)
  BY <1>2 DEF Issue, Cancel, Miss, Discard, Consume, DropGrants, Grant, Redeem, Purge, Insert,
     Forget, codeHistory
<1> QED
  BY <1>1, <1>2, ElsewhereRests

CredentialsStay ==
  \A a \in Account : /\ account'[a].password = account[a].password
                     /\ account'[a].status = account[a].status

LEMMA AddressKeepsCredentials ==
  ASSUME RowShape, NEW h \in Handler, ChangeEmail(h)
  PROVE  CredentialsStay
<1> DEFINE b == handler[h].acct
           row == [account[b] EXCEPT !.email = handler[h].email]
<1>1. CASE account' = account
  BY <1>1 DEF CredentialsStay
<1>2. CASE Live(b) /\ account' = [account EXCEPT ![b] = row]
  <2>1. b \in Account
    BY <1>2 DEF Live
  <2>2. row.password = account[b].password /\ row.status = account[b].status
    BY <2>1 DEF RowShape
  <2> HIDE DEF row
  <2> QED
    BY <1>2, <2>2 DEF RowShape, CredentialsStay
<1> QED
  BY <1>1, <1>2 DEF ChangeEmail

-----------------------------------------------------------------------------
(* The invariant is kept.                                                  *)

LEMMA StartsGoOn ==
  ASSUME NEW t \in Starting
  PROVE  /\ t # <<>> /\ Head(t) \notin Turned
         /\ Len(t) # 1 => Tail(t) \in Starting
         /\ Head(t) = "select" => Tail(t) = FromPurge
         /\ t \in Withdrawing =>
              /\ Head(t) \in {"purge", "cancel", "dropGrants"}
              /\ Head(t) # "dropGrants" => Tail(t) \in Withdrawing
<1> DEFINE goal ==
             /\ t # <<>> /\ Head(t) \notin Turned
             /\ Len(t) # 1 => Tail(t) \in Starting
             /\ Head(t) = "select" => Tail(t) = FromPurge
             /\ t \in Withdrawing =>
                  /\ Head(t) \in {"purge", "cancel", "dropGrants"}
                  /\ Head(t) # "dropGrants" => Tail(t) \in Withdrawing
<1>1. t \in {ResetStart, FromSelect, <<"issue", "insert">>, <<"insert">>, FromPurge, FromCancel,
            FromDrop}
  BY DEF Starting, Withdrawing
<1> USE DEF Starting, Withdrawing, FromSelect, FromPurge, FromCancel, FromDrop, Turned
<1>2. t = ResetStart => goal
  BY DEF ResetStart
<1>3. t = FromSelect => goal
  OBVIOUS
<1>4. t = <<"issue", "insert">> => goal
  OBVIOUS
<1>5. t = <<"insert">> => goal
  OBVIOUS
<1>6. t = FromPurge => goal
  OBVIOUS
<1>7. t = FromCancel => goal
  OBVIOUS
<1>8. t = FromDrop => goal
  OBVIOUS
<1> HIDE DEF Starting, Withdrawing, FromSelect, FromPurge, FromCancel, FromDrop, Turned
<1>9. goal
  <2> HIDE DEF goal
  <2> QED
    BY <1>1, <1>2, <1>3, <1>4, <1>5, <1>6, <1>7, <1>8
<1> QED
  BY <1>9

LEMMA WithdrawingStarts == Withdrawing \subseteq Starting /\ ResetStart \in Starting
  BY DEF Starting

LEMMA FruitlessGoOn ==
  ASSUME NEW t, Orderly(t), t # <<>>, Fruitless(t)
  PROVE  /\ Head(t) \notin Fruitful
         /\ Head(t) \notin {"lookup", "redeem"} => Fruitless(Tail(t))
<1>1. t \in Seq(Await)
  BY DEF Orderly
<1>2. /\ Len(t) \in Nat /\ Len(t) > 0 /\ Head(t) = t[1]
      /\ Len(Tail(t)) = Len(t) - 1
      /\ \A i \in 1 .. Len(Tail(t)) : Tail(t)[i] = t[i + 1]
  BY <1>1, HeadAndTail
<1>3. CASE Head(t) \in {"lookup", "redeem"}
  BY <1>3 DEF Fruitful
<1>4. CASE \A i \in 1 .. Len(t) : t[i] \notin Fruitful
  <2>1. 1 \in 1 .. Len(t)
    BY <1>2
  <2>2. \A i \in 1 .. Len(Tail(t)) : i + 1 \in 1 .. Len(t)
    BY <1>2
  <2>3. \A i \in 1 .. Len(Tail(t)) : Tail(t)[i] \notin Fruitful
    BY <1>2, <1>4, <2>2
  <2> QED
    BY <1>2, <1>4, <2>1, <2>3 DEF Fruitless
<1> QED
  BY <1>3, <1>4 DEF Fruitless

LEMMA FruitlessAside ==
  ASSUME NEW t \in Aside \cup {<<>>}
  PROVE  Fruitless(t)
<1> USE DEF Fruitless, Fruitful
<1>1. \A a \in {"miss", "discard", "failure"} : Fruitless(<<a>>)
  OBVIOUS
<1>2. Fruitless(<<"forget", "discard">>) /\ Fruitless(<<>>)
  OBVIOUS
<1> HIDE DEF Fruitless, Fruitful
<1> QED
  BY <1>1, <1>2 DEF Aside

LEMMA FruitlessScripts ==
  ASSUME NEW k \in ByCode
  PROVE  Fruitless(Script[k])
<1> USE DEF Fruitless, Fruitful
<1>1. Fruitless(RegisterVerify) /\ Fruitless(ResetVerify) /\ Fruitless(ResetComplete)
  BY DEF RegisterVerify, ResetVerify, ResetComplete
<1>2. Fruitless(RegisterCancel)
  BY DEF RegisterCancel
<1>3. Fruitless(EmailConfirm)
  BY DEF EmailConfirm
<1> HIDE DEF Fruitless, Fruitful
<1> QED
  BY <1>1, <1>2, <1>3 DEF ByCode, Script

(* No handler is given a code that was issued before, but at its arrival.  *)
LEMMA NobodyGets ==
  ASSUME NEW h \in Handler, HandlerShape, StartShape, AccountStep(h) \/ Hook(h), ~Arrive(h),
         NEW c, ResetCode(c), NEW g \in Handler, handler'[g].code = c
  PROVE  handler[g].code = c
<1>1. CASE g # h
  BY <1>1, OthersStay
<1>2. CASE Issue(h) /\ g = h
  <2>1. PICK d \in Challenge : /\ challenge[d].status = "unused"
                               /\ Onward(h, [handler[h] EXCEPT !.code = d])
    BY <1>2 DEF Issue
  <2>2. handler'[h].code \in {d, NoChallenge}
    BY <2>1, IdleMarked DEF Onward, Becomes, HandlerShape, Marks
  <2> QED
    BY <1>2, <2>1, <2>2, NoCodeAssumption DEF ResetCode
<1>3. CASE ~Issue(h) /\ g = h
  <2>1. PICK n : handler'[h] = n /\ Follows(n, handler[h])
    BY <1>3, StepTakesTurn DEF TakesTurn, Becomes, HandlerShape
  <2> QED
    BY <1>3, <2>1, IdleMarked, NoCodeAssumption DEF Follows, ResetCode
<1> QED
  BY <1>1, <1>2, <1>3

(* How the handlers look after an arrival, and after any other step.       *)
LEMMA HandlersAfter ==
  ASSUME NEW h \in Handler, HandlerShape, StartShape, AccountStep(h) \/ Hook(h)
  PROVE  /\ \A g \in Handler \ {h} : /\ Seen \subseteq DOMAIN handler'[g]
                                     /\ \A f \in Marks : handler'[g][f] = handler[g][f]
         /\ ~Arrive(h) =>
              /\ Moves(handler'[h], handler[h])
              /\ \A g \in Handler \ {h} : handler'[g] = handler[g]
         /\ Arrive(h) =>
              /\ \E k \in Kind : Begins(handler'[h], k)
              /\ \A g \in Handler \ {h} :
                   handler'[g].doomed = handler[g].doomed \ {handler'[h].code}
<1>1. \A g \in Handler : Seen \subseteq DOMAIN handler[g]
  BY DEF StartShape
<1>2. \A g \in Handler \ {h} : /\ Seen \subseteq DOMAIN handler'[g]
                               /\ \A f \in Marks : handler'[g][f] = handler[g][f]
  BY <1>1, OthersKeepMarks
<1>3. CASE ~Arrive(h)
  <2>1. MovesOn(h)
    BY <1>1, <1>3, StepMovesOn
  <2> QED
    BY <1>2, <1>3, <2>1 DEF MovesOn, Becomes, HandlerShape
<1>4. CASE Arrive(h)
  <2>1. PICK k \in mix.kinds : \E m \in Requested(k) :
          handler' = [ g \in Handler |-> IF g = h THEN m
                                         ELSE [handler[g] EXCEPT !.doomed = @ \ {m.code}] ]
    BY <1>4 DEF Arrive
  <2>2. PICK m \in Requested(k) :
          handler' = [ g \in Handler |-> IF g = h THEN m
                                         ELSE [handler[g] EXCEPT !.doomed = @ \ {m.code}] ]
    BY <2>1
  <2>3. handler'[h] = m /\ k \in Kind /\ Begins(m, k)
    BY <2>2, RequestsBegin DEF HandlerShape
  <2>4. \A g \in Handler \ {h} : handler'[g].doomed = handler[g].doomed \ {m.code}
    BY <1>1, <2>2 DEF Seen
  <2> QED
    BY <1>2, <1>4, <2>3, <2>4
<1> QED
  BY <1>3, <1>4

LEMMA StartShapeKept ==
  ASSUME NEW h \in Handler, HandlerShape, StartShape, AccountStep(h) \/ Hook(h)
  PROVE  StartShape'
<1>1. ASSUME NEW g \in Handler \ {h}
      PROVE  /\ Seen \subseteq DOMAIN handler'[g]
             /\ handler'[g].kind = "resetStart" => handler'[g].todo \in Starting
  BY <1>1, HandlersAfter DEF StartShape, Marks
<1>2. /\ Seen \subseteq DOMAIN handler'[h]
      /\ handler'[h].kind = "resetStart" => handler'[h].todo \in Starting
  <2>1. CASE Arrive(h)
    <3>1. PICK k \in Kind : Begins(handler'[h], k)
      BY <2>1, HandlersAfter
    <3>2. Script["resetStart"] = ResetStart
      BY DEF Script
    <3> QED
      BY <3>1, <3>2, WithdrawingStarts DEF Begins
  <2>2. CASE ~Arrive(h)
    <3> DEFINE n == handler'[h]
               o == handler[h]
    <3>1. Moves(n, o)
      BY <2>2, HandlersAfter
    <3>2. n # Idle /\ n.kind = "resetStart" => o.kind = "resetStart" /\ o.todo \in Starting
      BY <3>1 DEF Moves, StartShape
    <3>3. <<"dropGrants", "issue", "insert">> \in Starting
      BY DEF Starting, Withdrawing, FromDrop
    <3>4. o.kind = "resetStart" => Unopposed(o) \in Starting
      BY <3>3 DEF Unopposed
    <3> HIDE DEF n, o
    <3>5. Seen \subseteq DOMAIN n /\ (n.kind = "resetStart" => n.todo \in Starting)
      BY <3>1, <3>2, <3>4, StartsGoOn, IdleMarked DEF Moves
    <3> QED
      BY <3>5 DEF n
  <2> QED
    BY <2>1, <2>2
<1> QED
  BY <1>1, <1>2 DEF StartShape

(* A code that is to be withdrawn stays out of every hand, whoever moves.  *)
LEMMA DoomedKept ==
  ASSUME NEW h \in Handler, HandlerShape, StartShape, RowsKnown, DoomInv,
         AccountStep(h) \/ Hook(h), ~Arrive(h), ~Select(h),
         NEW g \in Handler, NEW c \in handler'[g].doomed
  PROVE  Doomed(g, c)'
<1> DEFINE n == handler'[g]
           o == handler[g]
<1>1. Moves(handler'[h], handler[h]) /\ \A x \in Handler \ {h} : handler'[x] = handler[x]
  BY HandlersAfter
<1>2. Head(handler[h].todo) = "select" => handler'[h] = Idle
  BY DueSteps DEF Fail, Done, Becomes, HandlerShape
<1>3. c \in o.doomed
  BY <1>1, <1>2, IdleMarked DEF Moves
<1>4. Doomed(g, c)
  BY <1>3 DEF DoomInv
<1>5. ResetCode(c)' /\ challenge'[c].acct = challenge[c].acct
  BY <1>4, StepMovesRows DEF RowsMove, Doomed
<1>6. \A x \in Handler : handler'[x].code # c
  BY <1>4, NobodyGets DEF Doomed
<1>7. c \notin pending => c \notin pending'
  BY <1>4, StepEnters DEF Enters, Doomed
<1>8. CASE g # h
  BY <1>1, <1>4, <1>5, <1>6, <1>7, <1>8 DEF Doomed
<1>9. CASE g = h
  <2>1. n # Idle /\ Head(o.todo) # "dropGrants" /\ Head(o.todo) # "select"
    BY <1>1, <1>2, <1>9, IdleMarked DEF Moves
  <2>2. /\ o.todo \in Withdrawing /\ Head(o.todo) \in {"purge", "cancel"}
        /\ Head(o.todo) \notin Turned /\ Tail(o.todo) \in Withdrawing
    BY <1>4, <2>1, StartsGoOn, WithdrawingStarts DEF Doomed
  <2>3. n.kind = "resetStart" /\ n.acct = o.acct /\ n.todo \in Withdrawing
    BY <1>1, <1>4, <1>9, <2>1, <2>2 DEF Moves, KeepsOwner, Doomed
  <2>4. c \notin pending'
    <3>1. CASE Head(o.todo) = "cancel"
      BY <1>4, <1>7, <3>1 DEF Doomed
    <3>2. CASE Head(o.todo) = "purge"
      <4>1. Purge(h)
        BY <1>9, <2>1, <3>2, DueSteps DEF Fail, Done, Becomes, HandlerShape
      <4>2. pending' = pending \ RowsOf(handler[h])
        BY <4>1 DEF Purge
      <4>3. c \in pending => c \in RowsOf(handler[h])
        BY <1>4, <1>9 DEF RowsOf, Registers, Doomed, ResetCode
      <4> QED
        BY <4>2, <4>3
    <3> QED
      BY <2>2, <3>1, <3>2
  <2> QED
    BY <1>4, <1>5, <1>6, <2>3, <2>4 DEF Doomed
<1> QED
  BY <1>8, <1>9

(* What a start selects is not in any hand; and without a pending row it   *)
(* skips the deletes.                                                      *)
LEMMA SelectDooms ==
  ASSUME NEW h \in Handler, HandlerShape, StartShape, RowsKnown, DoomInv, Select(h),
         NEW g \in Handler, NEW c \in handler'[g].doomed
  PROVE  Doomed(g, c)'
<1> DEFINE o == handler[h]
           m == [o EXCEPT !.old = RowsOf(o), !.doomed = Superseded(o)]
           n == [m EXCEPT !.todo = Tail(@)]
           u == [m EXCEPT !.todo = Unopposed(m)]
<1>1. UNCHANGED <<challenge, pending, grants>> /\ Head(o.todo) = "select" /\ o.todo # <<>>
  BY DEF Select, codes, At
<1>2. AccountStep(h) /\ ~Arrive(h)
  BY <1>1, IdleMarked DEF AccountStep, Arrive
<1>3. \A x \in Handler \ {h} : handler'[x] = handler[x]
  BY <1>2, HandlersAfter
<1>4. \A x \in Handler : \A d : handler[x].code # d /\ ResetCode(d) => handler'[x].code # d
  BY <1>2, NobodyGets
<1>5. CASE g # h
  <2>1. Doomed(g, c)
    BY <1>3, <1>5 DEF DoomInv
  <2> QED
    BY <1>1, <1>3, <1>4, <1>5, <2>1 DEF Doomed, ResetCode
<1>6. CASE g = h
  <2>1. /\ m.doomed = Superseded(o) /\ m.kind = o.kind /\ m.acct = o.acct
        /\ m.todo = o.todo /\ DOMAIN m = DOMAIN o
        /\ m.old = RowsOf(o)
    BY DEF StartShape, Seen, Marks
  <2>2. \/ Becomes(h, Idle) \/ Becomes(h, n)
        \/ m.old = {} /\ Becomes(h, u)
    BY DEF Select, Onward
  <2>3. /\ n.doomed = m.doomed /\ n.kind = m.kind /\ n.acct = m.acct /\ n.todo = Tail(m.todo)
        /\ u.doomed = m.doomed /\ u.kind = m.kind /\ u.acct = m.acct /\ u.todo = Unopposed(m)
    BY <2>1 DEF StartShape, Seen, Marks
  <2> HIDE DEF m, n, u
  <2>4. handler'[h] \in {Idle, n, u}
    BY <2>2 DEF Becomes, HandlerShape
  <2>5. c \in Superseded(o)
    BY <1>6, <2>1, <2>3, <2>4, IdleMarked
  <2>6. /\ o.kind = "resetStart" /\ c \in Challenge
        /\ challenge[c].kind = "reset" /\ challenge[c].acct = o.acct
        /\ \A x \in Handler : handler[x].code # c
    BY <2>5 DEF Superseded
  <2>7. ResetCode(c)
    BY <2>6 DEF RowsKnown, ResetCode
  <2>8. Tail(o.todo) = FromPurge
    BY <1>1, <2>6, StartsGoOn DEF StartShape
  <2>9. n.todo \in Withdrawing /\ Head(n.todo) = "purge"
    <3>1. n.todo = FromPurge
      BY <2>1, <2>3, <2>8
    <3>2. FromPurge \in Withdrawing
      BY DEF Withdrawing
    <3>3. Head(FromPurge) = "purge"
      BY DEF FromPurge
    <3> QED
      BY <3>1, <3>2, <3>3
  <2>10. u.todo \in Withdrawing
    BY <2>1, <2>3, <2>6 DEF Unopposed, Withdrawing, FromDrop
  <2>11. m.old = {} => c \notin pending
    BY <2>1, <2>6 DEF RowsOf, Registers
  <2>12. CASE handler'[h] = n
    BY <1>1, <1>4, <1>6, <2>1, <2>3, <2>6, <2>7, <2>9, <2>12 DEF Doomed, ResetCode
  <2>13. CASE m.old = {} /\ handler'[h] = u
    BY <1>1, <1>4, <1>6, <2>1, <2>3, <2>6, <2>7, <2>10, <2>11, <2>13 DEF Doomed, ResetCode
  <2>14. handler'[h] # Idle
    BY <1>6, IdleMarked
  <2> QED
    BY <2>2, <2>12, <2>13, <2>14 DEF Becomes, HandlerShape
<1> QED
  BY <1>5, <1>6

(* An arriving request saves the code it shows from being outdated.        *)
LEMMA ArrivalKeepsDoomed ==
  ASSUME NEW h \in Handler, HandlerShape, StartShape, DoomInv, Arrive(h),
         NEW g \in Handler, NEW c \in handler'[g].doomed
  PROVE  Doomed(g, c)'
<1>1. UNCHANGED <<challenge, pending>> /\ AccountStep(h)
  BY DEF Arrive, codes, AccountStep
<1>2. g # h /\ c \in handler[g].doomed /\ c # handler'[h].code
  BY <1>1, HandlersAfter DEF Begins
<1>3. Doomed(g, c)
  BY <1>2 DEF DoomInv
<1>4. \A x \in Handler \ {h} : \A f \in Marks : handler'[x][f] = handler[x][f]
  BY <1>1, HandlersAfter
<1>5. \A x \in Handler : handler'[x].code # c
  BY <1>2, <1>3, <1>4 DEF Doomed, Marks
<1> QED
  BY <1>1, <1>2, <1>3, <1>4, <1>5 DEF Doomed, ResetCode, Marks

LEMMA DoomInvKept ==
  ASSUME NEW h \in Handler, HandlerShape, StartShape, RowsKnown, DoomInv,
         AccountStep(h) \/ Hook(h)
  PROVE  DoomInv'
  BY DoomedKept, SelectDooms, ArrivalKeepsDoomed DEF DoomInv

(* A withdrawn code stays withdrawn: nobody enters it again, and whoever   *)
(* shows it still has nothing fruitful to do.                              *)
LEMMA DeadKept ==
  ASSUME NEW h \in Handler, HandlerShape, StartShape, RowsKnown, AccountStep(h) \/ Hook(h),
         NEW c, Dead(c)
  PROVE  Dead(c)'
<1> DEFINE o == handler[h]
<1>1. ResetCode(c)' /\ c \in Challenge
  BY StepMovesRows DEF RowsMove, Dead, ResetCode
<1>2. ASSUME o.code = c, o.todo # <<>>
      PROVE  /\ Head(o.todo) \notin Fruitful
             /\ Head(o.todo) \notin {"lookup", "redeem"} => Fruitless(Tail(o.todo))
  BY <1>2, FruitlessGoOn DEF Dead, HandlerShape
<1>3. c \notin pending' /\ c \notin grants'
  BY <1>2, StepEnters DEF Enters, At, Fruitful, Dead
<1>4. ASSUME NEW g \in Handler, handler'[g].code = c
      PROVE  Fruitless(handler'[g].todo)
  <2>1. CASE g # h
    BY <1>4, <2>1, OthersStay DEF Dead
  <2>2. CASE g = h /\ Arrive(h)
    <3>1. PICK k \in Kind : Begins(handler'[h], k)
      BY <2>2, HandlersAfter
    <3> QED
      BY <1>1, <1>4, <2>2, <3>1, FruitlessScripts, NoCodeAssumption DEF Begins
  <2>3. CASE g = h /\ ~Arrive(h)
    <3>1. o.code = c
      BY <1>4, <2>3, NobodyGets DEF Dead
    <3>2. CASE Done(h)
      BY <2>3, <3>2, IdleMarked, FruitlessAside DEF Done, Becomes, HandlerShape
    <3>3. CASE ~Done(h)
      <4>1. o.todo # <<>> /\ Head(o.todo) \notin {"lookup", "redeem"}
        BY <2>3, <3>1, <3>3, DueSteps, DeadEnds DEF Fail, Dead
      <4>2. Fruitless(o.todo) /\ Fruitless(Tail(o.todo)) /\ Head(o.todo) # "select"
        BY <1>2, <3>1, <4>1 DEF Dead, Fruitful
      <4>3. Moves(handler'[h], o)
        BY <2>3, HandlersAfter
      <4>4. handler'[h].todo \in {Idle.todo, Tail(o.todo), o.todo} \cup Aside
        BY <4>2, <4>3 DEF Moves
      <4> QED
        BY <2>3, <4>2, <4>4, IdleMarked, FruitlessAside
    <3> QED
      BY <3>2, <3>3
  <2> QED
    BY <2>1, <2>2, <2>3
<1> QED
  BY <1>1, <1>3, <1>4 DEF Dead

(* The codes a start retires have no pending row and no grant left, and no *)
(* request shows them.                                                     *)
LEMMA DroppedAreDead ==
  ASSUME NEW h \in Handler, HandlerShape, StartShape, RowsKnown, DoomInv, DropGrants(h),
         NEW c \in handler[h].doomed
  PROVE  Dead(c)'
<1>1. /\ UNCHANGED <<challenge, pending>> /\ Head(handler[h].todo) = "dropGrants"
      /\ handler[h].todo # <<>>
      /\ grants' = { d \in grants : challenge[d].acct # handler[h].acct }
  BY DEF DropGrants, At
<1>2. Doomed(h, c)
  BY DEF DoomInv
<1>3. ResetCode(c)' /\ c \notin pending' /\ c \notin grants'
  BY <1>1, <1>2 DEF Doomed, ResetCode
<1>4. AccountStep(h) /\ ~Arrive(h)
  BY <1>1, IdleMarked DEF AccountStep, Arrive
<1>5. \A g \in Handler : handler'[g].code # c
  BY <1>2, <1>4, NobodyGets DEF Doomed
<1> QED
  BY <1>3, <1>5 DEF Dead

LEMMA RetirementKept ==
  ASSUME HandlerShape, RetireInv, NEW h \in Handler, AccountStep(h) \/ Hook(h)
  PROVE  RetireInv'
<1>1. StartShape' /\ RowsKnown' /\ DoomInv'
  BY StartShapeKept, StepMovesRows, DoomInvKept DEF RetireInv, RowsMove
<1>2. ASSUME NEW c \in retired'
      PROVE  Dead(c)'
  <2>1. CASE c \in retired
    BY <2>1, DeadKept DEF RetireInv, DeadInv
  <2>2. CASE c \notin retired
    <3>1. DropGrants(h) /\ c \in handler[h].doomed
      BY <1>2, <2>2, StepEnters DEF Enters, DropGrants
    <3> QED
      BY <3>1, DroppedAreDead DEF RetireInv
  <2> QED
    BY <2>1, <2>2
<1> QED
  BY <1>1, <1>2 DEF RetireInv, DeadInv

(* Time only takes codes away. *)
LEMMA TimeKeepsRetirement ==
  ASSUME RetireInv, AccountTime \/ UNCHANGED accountVars
  PROVE  RetireInv'
<1>1. /\ UNCHANGED <<handler, retired>>
      /\ pending' \subseteq pending /\ grants' \subseteq grants
  BY DEF AccountTime, ExpireCode, ExpireGrant, Unlock, accountVars, codes, codeHistory
<1>2. \/ challenge' = challenge
      \/ \E d : challenge[d].status # "unused" /\ challenge' = Expired(challenge, d)
  BY DEF AccountTime, ExpireCode, ExpireGrant, Unlock, accountVars, codes
<1>3. RowsMove
  BY <1>2, StatementsMoveRows DEF RetireInv
<1>4. StartShape'
  BY <1>1 DEF RetireInv, StartShape
<1>5. DoomInv'
  BY <1>1, <1>3 DEF RetireInv, DoomInv, Doomed, RowsMove
<1>6. DeadInv'
  BY <1>1, <1>3 DEF RetireInv, DeadInv, Dead, RowsMove
<1> QED
  BY <1>3, <1>4, <1>5, <1>6 DEF RetireInv, RowsMove

LEMMA RetirementBegins ==
  ASSUME AccountInit
  PROVE  RetireInv
<1>1. StartShape /\ DoomInv
  BY IdleMarked DEF AccountInit, StartShape, DoomInv
<1>2. RowsKnown
  BY DEF AccountInit, RowsKnown, Unissued
<1>3. DeadInv
  BY DEF AccountInit, DeadInv
<1> QED
  BY <1>1, <1>2, <1>3 DEF RetireInv

Withdrawal == CodeJourney /\ RowShape /\ RetireInv

LEMMA WithdrawalKept ==
  ASSUME Withdrawal, [AccountNext]_accountVars
  PROVE  Withdrawal'
<1>1. CodeJourney' /\ RowShape'
  BY JourneyKept, FactorMovesAlways DEF Withdrawal
<1>2. RetireInv'
  BY RetirementKept, TimeKeepsRetirement DEF Withdrawal, CodeJourney, AccountNext
<1> QED
  BY <1>1, <1>2 DEF Withdrawal

LEMMA WithdrawalInvariance == AccountSpec => []Withdrawal
<1>1. AccountInit => Withdrawal
  BY JourneyBegins, FactorBegins, RetirementBegins DEF FactorInv, Withdrawal
<1> QED
  BY <1>1, WithdrawalKept, PTL DEF AccountSpec

(* A step that lets a withdrawn code take effect sets no password. *)
LEMMA WithdrawnSetNothing ==
  ASSUME Withdrawal, AccountNext, NEW c \in retired, NEW a \in Account,
         effects'[c] # effects[c]
  PROVE  account'[a].password = account[a].password
<1>1. Dead(c) /\ c \in DOMAIN effects
  BY DEF Withdrawal, RetireInv, DeadInv, Dead, ResetCode, CodeJourney, TableShape
<1>2. ~AccountTime
  BY DEF AccountTime, ExpireCode, ExpireGrant, Unlock, codeHistory
<1>3. PICK h \in Handler : AccountStep(h) \/ Hook(h)
  BY <1>2 DEF AccountNext
<1>4. ASSUME c = handler[h].code, At(h, "account") \/ At(h, "password")
      PROVE  FALSE
  <2>1. /\ handler[h].todo # <<>> /\ Head(handler[h].todo) \in Fruitful
        /\ Orderly(handler[h].todo)
    BY <1>4 DEF At, Fruitful, Withdrawal, CodeJourney, HandlerShape
  <2> QED
    BY <1>1, <1>4, <2>1, FruitlessGoOn DEF Dead
<1>5. ChangeEmail(h)
  BY <1>1, <1>3, <1>4, StepTakesEffect
<1> QED
  BY <1>5, AddressKeepsCredentials DEF Withdrawal, CredentialsStay

(* A reset code that a later start has withdrawn sets no password any more, *)
(* even where its cancel failed, whatever requests show it and however      *)
(* their awaits interleave with the start's.                                *)
THEOREM RetiredCodesStayDead == AccountSpec => RetiredCodesAreDead
<1>1. Withdrawal /\ [AccountNext]_accountVars =>
        [ \A c \in retired, a \in Account :
            effects'[c] # effects[c] => account'[a].password = account[a].password ]_accountVars
  BY WithdrawnSetNothing
<1> QED
  BY <1>1, WithdrawalInvariance, PTL DEF AccountSpec, RetiredCodesAreDead

-----------------------------------------------------------------------------
(* Sessions opened with a password that has been replaced.                 *)

(* What the two that set a password have to do, from each of their awaits  *)
(* on; nobody else sets one or revokes.                                    *)
Setting ==
  { ResetComplete, <<"password", "log", "revoke", "hook">>, <<"log", "revoke", "hook">>,
    <<"revoke", "hook">>, <<"hook">>,
    ChangePassword, <<"password", "log", "revoke">>, <<"log", "revoke">>, <<"revoke">> }

Harmless(t) == \A i \in 1 .. Len(t) : t[i] \notin {"password", "revoke"}

SetterShape ==
  \A h \in Handler :
    IF handler[h].kind \in {"resetComplete", "changePassword"}
    THEN handler[h].todo \in Setting ELSE Harmless(handler[h].todo)

(* A session has an account, and holds what was read of it. *)
SessionShape ==
  \A s \in sessions : /\ {"acct", "password", "stale", "kept"} \subseteq DOMAIN s
                      /\ s.acct \in Account /\ account[s.acct].status # "free"

-----------------------------------------------------------------------------
LEMMA SettersGoOn ==
  ASSUME NEW t \in Setting
  PROVE  /\ t # <<>> /\ Head(t) \notin Turned \cup {"select", "cancel"}
         /\ Len(t) # 1 => Tail(t) \in Setting
<1> DEFINE goal == /\ t # <<>> /\ Head(t) \notin Turned \cup {"select", "cancel"}
                   /\ Len(t) # 1 => Tail(t) \in Setting
<1> USE DEF Setting, ResetComplete, ChangePassword, Turned
<1>1. t = ResetComplete => goal
  OBVIOUS
<1>2. t = <<"password", "log", "revoke", "hook">> => goal
  OBVIOUS
<1>3. t = <<"log", "revoke", "hook">> => goal
  OBVIOUS
<1>4. t = <<"revoke", "hook">> => goal
  OBVIOUS
<1>5. t = <<"hook">> => goal
  OBVIOUS
<1>6. t = ChangePassword => goal
  OBVIOUS
<1>7. t = <<"password", "log", "revoke">> => goal
  OBVIOUS
<1>8. t = <<"log", "revoke">> => goal
  OBVIOUS
<1>9. t = <<"revoke">> => goal
  OBVIOUS
<1> HIDE DEF ResetComplete, ChangePassword, Turned
<1>10. goal
  <2> HIDE DEF goal
  <2> QED
    BY <1>1, <1>2, <1>3, <1>4, <1>5, <1>6, <1>7, <1>8, <1>9
<1> QED
  BY <1>10

(* Who is to revoke, and where he stands. *)
RevokesIn(t) ==
  /\ \E i \in DOMAIN t : t[i] = "revoke"
  /\ \A i \in DOMAIN t : t[i] \notin {"read", "redeem", "password"}

LEMMA SettersRevoke ==
  ASSUME NEW t \in Setting
  PROVE  /\ RevokesIn(t) => Head(t) \in {"log", "revoke"}
         /\ RevokesIn(t) /\ Head(t) = "log" => RevokesIn(Tail(t)) /\ Len(t) # 1
         /\ Head(t) = "password" => RevokesIn(Tail(t)) /\ Len(t) # 1
<1> DEFINE goal == /\ RevokesIn(t) => Head(t) \in {"log", "revoke"}
                   /\ RevokesIn(t) /\ Head(t) = "log" => RevokesIn(Tail(t)) /\ Len(t) # 1
                   /\ Head(t) = "password" => RevokesIn(Tail(t)) /\ Len(t) # 1
<1> USE DEF RevokesIn, ResetComplete, ChangePassword
<1>1. t = ResetComplete => goal
  OBVIOUS
<1>2. t = <<"password", "log", "revoke", "hook">> => goal
  <2>1. RevokesIn(<<"log", "revoke", "hook">>)
    OBVIOUS
  <2> QED
    BY <2>1
<1>3. t = <<"log", "revoke", "hook">> => goal
  <2>1. RevokesIn(<<"revoke", "hook">>)
    OBVIOUS
  <2> QED
    BY <2>1
<1>4. t = <<"revoke", "hook">> => goal
  OBVIOUS
<1>5. t = <<"hook">> => goal
  OBVIOUS
<1>6. t = ChangePassword => goal
  OBVIOUS
<1>7. t = <<"password", "log", "revoke">> => goal
  <2>1. RevokesIn(<<"log", "revoke">>)
    OBVIOUS
  <2> QED
    BY <2>1
<1>8. t = <<"log", "revoke">> => goal
  <2>1. RevokesIn(<<"revoke">>)
    OBVIOUS
  <2> QED
    BY <2>1
<1>9. t = <<"revoke">> => goal
  OBVIOUS
<1> HIDE DEF RevokesIn, ResetComplete, ChangePassword
<1>10. goal
  <2> HIDE DEF goal
  <2> QED
    BY <1>1, <1>2, <1>3, <1>4, <1>5, <1>6, <1>7, <1>8, <1>9 DEF Setting
<1> QED
  BY <1>10

LEMMA HarmlessGoOn ==
  ASSUME NEW t, Orderly(t), Harmless(t)
  PROVE  /\ ~RevokesIn(t)
         /\ t # <<>> => Harmless(Tail(t)) /\ Head(t) \notin {"password", "revoke"}
<1>1. t \in Seq(Await)
  BY DEF Orderly
<1>2. ~RevokesIn(t)
  BY <1>1 DEF Harmless, RevokesIn
<1>3. ASSUME t # <<>>
      PROVE  Harmless(Tail(t)) /\ Head(t) \notin {"password", "revoke"}
  <2>1. /\ Len(t) \in Nat /\ Len(t) > 0 /\ Head(t) = t[1]
        /\ Len(Tail(t)) = Len(t) - 1
        /\ \A i \in 1 .. Len(Tail(t)) : Tail(t)[i] = t[i + 1]
    BY <1>1, <1>3, HeadAndTail
  <2>2. 1 \in 1 .. Len(t) /\ \A i \in 1 .. Len(Tail(t)) : i + 1 \in 1 .. Len(t)
    BY <2>1
  <2> QED
    BY <2>1, <2>2 DEF Harmless
<1> QED
  BY <1>2, <1>3

LEMMA HarmlessAside ==
  ASSUME NEW t \in Aside \cup {<<>>, <<"insert">>, <<"dropGrants", "issue", "insert">>}
  PROVE  Harmless(t)
<1> USE DEF Harmless
<1>1. \A a \in {"miss", "discard", "failure", "insert"} : Harmless(<<a>>)
  OBVIOUS
<1>2. Harmless(<<"forget", "discard">>) /\ Harmless(<<>>)
  OBVIOUS
<1>3. Harmless(<<"dropGrants", "issue", "insert">>)
  OBVIOUS
<1> HIDE DEF Harmless
<1> QED
  BY <1>1, <1>2, <1>3 DEF Aside

LEMMA HarmlessScripts ==
  ASSUME NEW k \in Kind, k \notin {"resetComplete", "changePassword"}
  PROVE  Harmless(Script[k])
<1> USE DEF Harmless
<1>1. Harmless(RegisterBegin) /\ Harmless(RegisterVerify) /\ Harmless(RegisterCancel)
  BY DEF RegisterBegin, RegisterVerify, RegisterCancel
<1>2. Harmless(ResetStart) /\ Harmless(ResetVerify) /\ Harmless(Login)
  BY DEF ResetStart, ResetVerify, Login
<1>3. Harmless(DeleteAccount) /\ Harmless(EmailBegin) /\ Harmless(EmailConfirm)
  BY DEF DeleteAccount, EmailBegin, EmailConfirm
<1>4. Harmless(TotpSetup) /\ Harmless(TotpEnable) /\ Harmless(TotpDisable) /\ Harmless(ResealCycle)
  BY DEF TotpSetup, TotpEnable, TotpDisable, ResealCycle
<1> HIDE DEF Harmless
<1> QED
  BY <1>1, <1>2, <1>3, <1>4 DEF Kind, Script

LEMMA SetterShapeKept ==
  ASSUME NEW h \in Handler, HandlerShape, StartShape, SetterShape, AccountStep(h) \/ Hook(h)
  PROVE  SetterShape'
<1> DEFINE fits(m) == IF m.kind \in {"resetComplete", "changePassword"}
                      THEN m.todo \in Setting ELSE Harmless(m.todo)
<1>1. ASSUME NEW g \in Handler \ {h}
      PROVE  fits(handler'[g])
  BY <1>1, HandlersAfter DEF SetterShape, Marks
<1>2. CASE Arrive(h)
  <2>1. PICK k \in Kind : Begins(handler'[h], k)
    BY <1>2, HandlersAfter
  <2>2. Script["resetComplete"] \in Setting /\ Script["changePassword"] \in Setting
    BY DEF Script, Setting
  <2>3. fits(handler'[h])
    BY <2>1, <2>2, HarmlessScripts DEF Begins
  <2> QED
    BY <1>1, <2>3 DEF SetterShape
<1>3. CASE ~Arrive(h)
  <2> DEFINE n == handler'[h]
             o == handler[h]
  <2>1. Moves(n, o) /\ Orderly(o.todo)
    BY <1>3, HandlersAfter DEF HandlerShape
  <2>2. n = Idle \/ o.todo # <<>>
    BY <1>3, DueSteps DEF Fail, Done, Becomes, HandlerShape
  <2>3. CASE n = Idle
    BY <1>1, <2>3, IdleMarked, HarmlessAside DEF SetterShape
  <2>4. CASE n # Idle /\ o.kind \in {"resetComplete", "changePassword"}
    <3>1. o.todo \in Setting /\ Head(o.todo) \notin Turned \cup {"select", "cancel"}
      BY <2>4, SettersGoOn DEF SetterShape
    <3>2. n.kind = o.kind /\ n.todo = Tail(o.todo) /\ Len(o.todo) # 1
      BY <2>1, <2>4, <3>1 DEF Moves
    <3>3. n.todo \in Setting
      BY <3>1, <3>2, SettersGoOn
    <3> QED
      BY <1>1, <2>4, <3>2, <3>3 DEF SetterShape
  <2>5. CASE n # Idle /\ o.kind \notin {"resetComplete", "changePassword"}
    <3>1. Harmless(o.todo) /\ Harmless(Tail(o.todo))
      BY <2>1, <2>2, <2>5, HarmlessGoOn DEF SetterShape
    <3>2. /\ n.kind = o.kind
          /\ n.todo \in {Tail(o.todo), o.todo, Unopposed(o)} \cup Aside
      BY <2>1, <2>5 DEF Moves
    <3>3. Harmless(n.todo)
      BY <3>1, <3>2, HarmlessAside DEF Unopposed
    <3> QED
      BY <1>1, <2>5, <3>2, <3>3 DEF SetterShape
  <2> QED
    BY <2>3, <2>4, <2>5
<1> QED
  BY <1>2, <1>3

(* Who is to revoke stands before its log or its revocation. *)
LEMMA RevokersStand ==
  ASSUME HandlerShape, SetterShape, NEW h \in Handler, Revoking(handler[h])
  PROVE  /\ handler[h].todo \in Setting /\ RevokesIn(handler[h].todo)
         /\ Head(handler[h].todo) \in {"log", "revoke"}
<1>1. RevokesIn(handler[h].todo)
  BY DEF Revoking, RevokesIn
<1>2. handler[h].todo \in Setting
  BY <1>1, HarmlessGoOn DEF SetterShape, HandlerShape
<1> QED
  BY <1>1, <1>2, SettersRevoke

(* The others are to revoke what they were to revoke.                      *)
LEMMA OthersRevoke ==
  ASSUME NEW h \in Handler, HandlerShape, StartShape, AccountStep(h) \/ Hook(h),
         NEW g \in Handler, g # h
  PROVE  /\ Revoking(handler'[g]) <=> Revoking(handler[g])
         /\ handler'[g].acct = handler[g].acct
<1>1. handler'[g].todo = handler[g].todo /\ handler'[g].acct = handler[g].acct
  BY HandlersAfter DEF Marks
<1> QED
  BY <1>1 DEF Revoking

(* A debt of revocation is owed on, or written down as failed. *)
DebtsStand ==
  /\ unrevoked \subseteq unrevoked'
  /\ \A g \in Handler : Revoking(handler[g]) =>
       \/ Revoking(handler'[g]) /\ handler'[g].acct = handler[g].acct
       \/ handler[g].acct \in unrevoked'

(* One that is not before its log or its revocation owes nothing. *)
LEMMA BystandersOweNothing ==
  ASSUME NEW h \in Handler, HandlerShape, StartShape, SetterShape, AccountStep(h) \/ Hook(h),
         unrevoked \subseteq unrevoked', ~Fail(h), ~Skip(h), ~Log(h), ~Revoke(h)
  PROVE  DebtsStand
<1>1. ~Revoking(handler[h])
  <2>1. CASE Arrive(h)
    BY <2>1, IdleMarked DEF Arrive, Revoking
  <2>2. CASE ~Arrive(h)
    BY <2>2, DueSteps, RevokersStand
  <2> QED
    BY <2>1, <2>2
<1> QED
  BY <1>1, OthersRevoke DEF DebtsStand

(* A failure is written down; a log that goes through brings the           *)
(* revocation next.                                                        *)
LEMMA FailuresAreKnown ==
  ASSUME NEW h \in Handler, HandlerShape, StartShape, SetterShape, Fail(h) \/ Skip(h) \/ Log(h)
  PROVE  DebtsStand
<1> DEFINE o == handler[h]
<1>1. AccountStep(h)
  BY DEF AccountStep
<1>2. unrevoked \subseteq unrevoked'
  BY DEF Fail, Skip, Log
<1>3. ASSUME Revoking(o)
      PROVE  \/ Revoking(handler'[h]) /\ handler'[h].acct = o.acct
             \/ o.acct \in unrevoked'
  <2>1. /\ o.todo \in Setting /\ RevokesIn(o.todo)
        /\ Head(o.todo) \in {"log", "revoke"}
    BY <1>3, RevokersStand
  <2>2. CASE Fail(h)
    BY <1>3, <2>2 DEF Fail
  <2>3. CASE Skip(h)
    <3>1. At(h, "revoke")
      BY <2>1, <2>3 DEF Skip, Tolerant, At
    <3> QED
      BY <2>3, <3>1 DEF Skip
  <2>4. CASE Log(h)
    <3>1. CASE o.acct \in unrevoked'
      BY <3>1
    <3>2. CASE o.acct \notin unrevoked'
      <4>1. Onward(h, o) /\ Head(o.todo) = "log"
        BY <1>3, <2>4, <3>2 DEF Log, At
      <4>2. RevokesIn(Tail(o.todo)) /\ Len(o.todo) # 1
        BY <2>1, <4>1, SettersRevoke
      <4>3. handler'[h] = [o EXCEPT !.todo = Tail(@)]
        BY <4>1, <4>2 DEF Onward, Becomes, HandlerShape
      <4>4. handler'[h].todo = Tail(o.todo) /\ handler'[h].acct = o.acct
        BY <4>3 DEF HandlerShape, Marks
      <4> QED
        BY <4>2, <4>4 DEF Revoking, RevokesIn
    <3> QED
      BY <3>1, <3>2
  <2> QED
    BY <2>2, <2>3, <2>4
<1> QED
  BY <1>1, <1>2, <1>3, OthersRevoke DEF DebtsStand

LEMMA DebtsAreKnown ==
  ASSUME NEW h \in Handler, HandlerShape, StartShape, SetterShape, AccountStep(h) \/ Hook(h),
         unrevoked \subseteq unrevoked', ~Revoke(h)
  PROVE  DebtsStand
  BY BystandersOweNothing, FailuresAreKnown

(* Where the debts stand, a session lives on as it did.                    *)
LEMMA OldSessionsStay ==
  ASSUME OldSessionsEnd, DebtsStand, NEW s \in sessions,
         account'[s.acct].password = account[s.acct].password,
         s.password # account'[s.acct].password
  PROVE  \/ s.stale \/ s.kept \/ s.acct \in unrevoked'
         \/ \E h \in Handler : handler'[h].acct = s.acct /\ Revoking(handler'[h])
<1>1. \/ s.stale \/ s.kept \/ s.acct \in unrevoked
      \/ \E h \in Handler : handler[h].acct = s.acct /\ Revoking(handler[h])
  BY DEF OldSessionsEnd
<1>2. CASE \E h \in Handler : handler[h].acct = s.acct /\ Revoking(handler[h])
  BY <1>2 DEF DebtsStand
<1> QED
  BY <1>1, <1>2 DEF DebtsStand

-----------------------------------------------------------------------------
(* What a step does to accounts and sessions.                              *)

LEMMA TotpKeepsCredentials ==
  ASSUME RowShape, NEW h, NEW secret, NEW sealed, NEW enabled,
         WriteTotp(h, secret, sealed, enabled)
  PROVE  CredentialsStay
<1> DEFINE b == handler[h].acct
           row == [account[b] EXCEPT !.secret = secret, !.sealed = sealed, !.enabled = enabled]
<1>1. CASE account' = account
  BY <1>1 DEF CredentialsStay
<1>2. CASE Live(b) /\ account' = [account EXCEPT ![b] = row]
  <2>1. b \in Account
    BY <1>2 DEF Live
  <2>2. row.password = account[b].password /\ row.status = account[b].status
    BY <2>1 DEF RowShape
  <2> HIDE DEF row
  <2> QED
    BY <1>2, <2>2 DEF RowShape, CredentialsStay
<1>3. account' = account \/ (Live(b) /\ account' = [account EXCEPT ![b] = row])
  BY DEF WriteTotp
<1> QED
  BY <1>1, <1>2, <1>3

(* Only these set a password, or give or take an account or a session.     *)
LEMMA ElsewhereKeepsSessions ==
  ASSUME RowShape, NEW h \in Handler, AccountStep(h) \/ Hook(h),
         ~Register(h), ~Password(h), ~Revoke(h), ~Delete(h), ~OpenSession(h)
  PROVE  /\ CredentialsStay /\ sessions' = sessions
         /\ Fail(h) \/ Skip(h) \/ Log(h) \/ unrevoked' = unrevoked
<1>1. CASE \/ Arrive(h) \/ Fail(h) \/ Skip(h) \/ User(h) \/ Select(h) \/ Purge(h) \/ Cancel(h)
           \/ DropGrants(h) \/ Issue(h) \/ Insert(h) \/ Exists(h) \/ Lookup(h) \/ Find(h)
  <2>1. UNCHANGED <<account, sessions>> /\ (Fail(h) \/ Skip(h) \/ unrevoked' = unrevoked)
    BY <1>1 DEF Arrive, Fail, Skip, User, Select, Purge, Cancel, DropGrants, Issue, Insert,
       Exists, Lookup, Find, people, accountHistory
  <2> QED
    BY <2>1 DEF CredentialsStay
<1>2. CASE \/ Miss(h) \/ Discard(h) \/ Consume(h) \/ Redeem(h) \/ Forget(h) \/ Grant(h)
           \/ Read(h) \/ Log(h) \/ Hook(h) \/ Lockout(h) \/ Failure(h) \/ Clear(h)
  <2>1. UNCHANGED <<account, sessions>> /\ (Log(h) \/ unrevoked' = unrevoked)
    BY <1>2 DEF Miss, Discard, Consume, Redeem, Forget, Grant, Read, Log, Hook, Lockout, Failure,
       Clear, people, accountHistory
  <2> QED
    BY <2>1 DEF CredentialsStay
<1>3. CASE SetupTotp(h) \/ EnableTotp(h) \/ DisableTotp(h) \/ Reseal(h)
  <2>1. /\ account' = account \/ \E x, y, z : WriteTotp(h, x, y, z)
        /\ UNCHANGED <<sessions, unrevoked>>
    BY <1>3 DEF SetupTotp, EnableTotp, DisableTotp, Reseal, WriteTotp, people
  <2> QED
    BY <2>1, TotpKeepsCredentials DEF CredentialsStay
<1>4. CASE ChangeEmail(h)
  BY <1>4, AddressKeepsCredentials DEF ChangeEmail, accountHistory
<1> QED
  BY <1>1, <1>2, <1>3, <1>4 DEF AccountStep

SessionInv == SessionShape /\ OldSessionsEnd

LEMMA RegisterKeepsSessions ==
  ASSUME RowShape, HandlerShape, StartShape, SetterShape, SessionInv,
         NEW h \in Handler, Register(h)
  PROVE  SessionInv'
<1>1. UNCHANGED <<sessions, unrevoked>> /\ At(h, "account")
  BY DEF Register, accountHistory
<1>2. \/ account' = account
      \/ \E a \in Account : \E row : /\ account[a].status = "free" /\ row.status = "live"
                                     /\ account' = [account EXCEPT ![a] = row]
  <2>1. \A e : [Fresh EXCEPT !.status = "live", !.email = e].status = "live"
    BY DEF Fresh
  <2> QED
    BY <2>1 DEF Register
<1>3. \A s \in sessions : account'[s.acct] = account[s.acct]
  BY <1>2 DEF SessionInv, SessionShape, RowShape
<1>4. DebtsStand
  BY <1>1, DebtsAreKnown DEF AccountStep, Revoke, At
<1> QED
  BY <1>1, <1>3, <1>4, OldSessionsStay DEF SessionInv, SessionShape, OldSessionsEnd

(* The new password makes all sessions old, and a debtor of its setter.    *)
LEMMA PasswordKeepsSessions ==
  ASSUME RowShape, HandlerShape, StartShape, SetterShape, SessionInv,
         NEW h \in Handler, Password(h)
  PROVE  SessionInv'
<1> DEFINE o == handler[h]
           b == o.acct
           row == [account[b] EXCEPT !.password = @ + 1]
<1>1. UNCHANGED <<sessions, unrevoked>> /\ At(h, "password") /\ AccountStep(h) /\ Onward(h, o)
  BY DEF Password, accountHistory, AccountStep
<1>2. DebtsStand
  BY <1>1, DebtsAreKnown DEF Revoke, At
<1>3. CASE account' = account
  BY <1>1, <1>2, <1>3, OldSessionsStay DEF SessionInv, SessionShape, OldSessionsEnd
<1>4. CASE b \in Account /\ account' = [account EXCEPT ![b] = row]
  <2>1. row.status = account[b].status
    BY <1>4 DEF RowShape
  <2> HIDE DEF row
  <2>2. /\ \A a \in Account : account'[a].status = account[a].status
        /\ \A a \in Account : a # b => account'[a].password = account[a].password
    BY <1>4, <2>1 DEF RowShape
  <2>3. Revoking(handler'[h]) /\ handler'[h].acct = b
    <3>1. o.todo # <<>> /\ Head(o.todo) = "password" /\ Orderly(o.todo)
      BY <1>1 DEF At, HandlerShape
    <3>2. o.todo \in Setting
      BY <3>1, HarmlessGoOn DEF SetterShape
    <3>3. RevokesIn(Tail(o.todo)) /\ Len(o.todo) # 1
      BY <3>1, <3>2, SettersRevoke
    <3>4. handler'[h] = [o EXCEPT !.todo = Tail(@)]
      BY <1>1, <3>3 DEF Onward, Becomes, HandlerShape
    <3>5. handler'[h].todo = Tail(o.todo) /\ handler'[h].acct = o.acct
      BY <3>4 DEF HandlerShape, Marks
    <3> QED
      BY <3>3, <3>5 DEF Revoking, RevokesIn
  <2>4. SessionShape'
    BY <1>1, <2>2 DEF SessionInv, SessionShape
  <2>5. OldSessionsEnd'
    BY <1>1, <1>2, <2>2, <2>3, OldSessionsStay DEF SessionInv, SessionShape, OldSessionsEnd
  <2> QED
    BY <2>4, <2>5 DEF SessionInv
<1> QED
  BY <1>3, <1>4 DEF Password, Live

(* A revocation leaves of the account's sessions those it keeps. *)
LEMMA RevokeKeepsSessions ==
  ASSUME RowShape, HandlerShape, StartShape, SetterShape, SessionInv,
         NEW h \in Handler, Revoke(h)
  PROVE  SessionInv'
<1> DEFINE b == handler[h].acct
           mine == { t \in sessions : t.acct = b /\ t.id = handler[h].current }
           keep(s) == [s EXCEPT !.kept = TRUE]
<1>1. /\ sessions' = { s \in sessions : s.acct # b } \cup { keep(s) : s \in mine }
      /\ unrevoked' = unrevoked \ {b} /\ account' = account /\ AccountStep(h)
  BY DEF Revoke, AccountStep
<1>2. \A s \in mine : /\ DOMAIN keep(s) = DOMAIN s /\ keep(s).acct = s.acct
                     /\ keep(s).kept = TRUE
  BY DEF SessionInv, SessionShape
<1> HIDE DEF keep
<1>3. \A r \in sessions' : \/ r \in sessions /\ r.acct # b
                          \/ /\ r.kept = TRUE
                             /\ \E s \in sessions : DOMAIN r = DOMAIN s /\ r.acct = s.acct
  <2> SUFFICES ASSUME NEW r \in sessions'
               PROVE  \/ r \in sessions /\ r.acct # b
                      \/ /\ r.kept = TRUE
                         /\ \E s \in sessions : DOMAIN r = DOMAIN s /\ r.acct = s.acct
    OBVIOUS
  <2>1. CASE \E s \in mine : r = keep(s)
    <3>1. PICK s \in mine : r = keep(s)
      BY <2>1
    <3>2. s \in sessions
      OBVIOUS
    <3> QED
      BY <1>2, <3>1, <3>2
  <2> QED
    BY <1>1, <2>1
<1>4. SessionShape'
  BY <1>1, <1>3 DEF SessionInv, SessionShape
<1>5. ASSUME NEW s \in sessions, s.acct # b, s.password # account[s.acct].password
      PROVE  \/ s.stale \/ s.kept \/ s.acct \in unrevoked'
             \/ \E g \in Handler : handler'[g].acct = s.acct /\ Revoking(handler'[g])
  <2>1. \/ s.stale \/ s.kept \/ s.acct \in unrevoked
        \/ \E g \in Handler : handler[g].acct = s.acct /\ Revoking(handler[g])
    BY <1>5 DEF SessionInv, OldSessionsEnd
  <2>2. CASE \E g \in Handler : handler[g].acct = s.acct /\ Revoking(handler[g])
    <3>1. PICK g \in Handler : handler[g].acct = s.acct /\ Revoking(handler[g])
      BY <2>2
    <3>2. g # h
      BY <1>5, <3>1
    <3> QED
      BY <1>1, <3>1, <3>2, OthersRevoke
  <2> QED
    BY <1>1, <1>5, <2>1, <2>2
<1>6. OldSessionsEnd'
  BY <1>1, <1>3, <1>5 DEF OldSessionsEnd
<1> QED
  BY <1>4, <1>6 DEF SessionInv

LEMMA DeleteKeepsSessions ==
  ASSUME RowShape, HandlerShape, StartShape, SetterShape, SessionInv,
         NEW h \in Handler, Delete(h)
  PROVE  SessionInv'
<1> DEFINE b == handler[h].acct
           row == [account[b] EXCEPT !.status = "deleted"]
<1>1. unrevoked' = unrevoked /\ At(h, "delete") /\ AccountStep(h)
  BY DEF Delete, accountHistory, AccountStep
<1>2. DebtsStand
  BY <1>1, DebtsAreKnown DEF Revoke, At
<1>3. CASE UNCHANGED <<account, sessions>>
  BY <1>1, <1>2, <1>3, OldSessionsStay DEF SessionInv, SessionShape, OldSessionsEnd
<1>4. CASE account' = [account EXCEPT ![b] = row] /\ sessions' = { s \in sessions : s.acct # b }
  <2> HIDE DEF row
  <2>1. \A s \in sessions' : s \in sessions /\ account'[s.acct] = account[s.acct]
    BY <1>4 DEF SessionInv, SessionShape, RowShape
  <2> QED
    BY <1>1, <1>2, <2>1, OldSessionsStay DEF SessionInv, SessionShape, OldSessionsEnd
<1> QED
  BY <1>3, <1>4 DEF Delete, people

(* A session is opened with what its handler has read, and marked where    *)
(* that is no longer so.                                                   *)
LEMMA OpeningKeepsSessions ==
  ASSUME RowShape, HandlerShape, StartShape, SetterShape, SessionInv,
         NEW h \in Handler, OpenSession(h)
  PROVE  SessionInv'
<1> DEFINE m == handler[h]
           row == [ id |-> FreshId, acct |-> m.acct, password |-> m.saw.password,
                    stale |-> m.saw.password # account[m.acct].password, kept |-> FALSE ]
<1>1. UNCHANGED <<account, unrevoked>> /\ At(h, "session") /\ AccountStep(h)
  BY DEF OpenSession, accountHistory, AccountStep
<1>2. DebtsStand
  BY <1>1, DebtsAreKnown DEF Revoke, At
<1>3. sessions' = sessions \/ (Live(m.acct) /\ sessions' = sessions \cup {row})
  BY DEF OpenSession
<1>4. /\ {"acct", "password", "stale", "kept"} \subseteq DOMAIN row
      /\ row.acct = m.acct /\ row.password = m.saw.password
      /\ row.stale <=> m.saw.password # account[m.acct].password
  OBVIOUS
<1> HIDE DEF row
<1>5. SessionShape'
  BY <1>1, <1>3, <1>4 DEF SessionInv, SessionShape, Live
<1>6. \A s \in sessions' : s \in sessions \/ (s.password # account[s.acct].password => s.stale)
  BY <1>3, <1>4
<1>7. OldSessionsEnd'
  BY <1>1, <1>2, <1>6, OldSessionsStay DEF SessionInv, OldSessionsEnd
<1> QED
  BY <1>5, <1>7 DEF SessionInv

LEMMA SessionsKept ==
  ASSUME RowShape, HandlerShape, StartShape, SetterShape, SessionInv,
         NEW h \in Handler, AccountStep(h) \/ Hook(h)
  PROVE  SessionInv'
<1>1. CASE Register(h) \/ Password(h) \/ Revoke(h) \/ Delete(h) \/ OpenSession(h)
  BY <1>1, RegisterKeepsSessions, PasswordKeepsSessions, RevokeKeepsSessions,
     DeleteKeepsSessions, OpeningKeepsSessions
<1>2. CASE ~(Register(h) \/ Password(h) \/ Revoke(h) \/ Delete(h) \/ OpenSession(h))
  <2>1. /\ CredentialsStay /\ sessions' = sessions
        /\ Fail(h) \/ Skip(h) \/ Log(h) \/ unrevoked' = unrevoked
    BY <1>2, ElsewhereKeepsSessions
  <2>2. DebtsStand
    BY <1>2, <2>1, DebtsAreKnown, FailuresAreKnown
  <2> QED
    BY <2>1, <2>2, OldSessionsStay DEF SessionInv, SessionShape, OldSessionsEnd, CredentialsStay
<1> QED
  BY <1>1, <1>2

(* The invariant: where the handlers stand, and what their sessions owe.   *)
SettingInv == Withdrawal /\ SetterShape /\ SessionInv

LEMMA SettingBegins ==
  ASSUME AccountInit
  PROVE  SettingInv
<1>1. Withdrawal
  BY JourneyBegins, FactorBegins, RetirementBegins DEF FactorInv, Withdrawal
<1>2. SetterShape
  BY IdleMarked, HarmlessAside DEF AccountInit, SetterShape
<1>3. mix.live \subseteq Account
  BY AccountMixAssumption DEF AccountInit
<1>4. \A a \in mix.live : account[a].status = "live" /\ account[a].password = 0
  <2>1. \A e : LET row == [Fresh EXCEPT !.status = "live", !.email = e]
               IN  row.status = "live" /\ row.password = 0
    BY DEF Fresh
  <2>2. \A a \in mix.live : account[a] = [Fresh EXCEPT !.status = "live", !.email = HomeAddress[a]]
    BY <1>3 DEF AccountInit
  <2> QED
    BY <2>1, <2>2
<1>5. \A s \in sessions : /\ {"acct", "password", "stale", "kept"} \subseteq DOMAIN s
                          /\ s.acct \in mix.live /\ s.password = 0
  BY DEF AccountInit
<1>6. SessionInv
  BY <1>3, <1>4, <1>5 DEF SessionInv, SessionShape, OldSessionsEnd
<1> QED
  BY <1>1, <1>2, <1>6 DEF SettingInv

LEMMA SettingKept ==
  ASSUME SettingInv, [AccountNext]_accountVars
  PROVE  SettingInv'
<1>1. Withdrawal'
  BY WithdrawalKept DEF SettingInv
<1>2. ASSUME NEW h \in Handler, AccountStep(h) \/ Hook(h)
      PROVE  SetterShape' /\ SessionInv'
  BY <1>2, SetterShapeKept, SessionsKept DEF SettingInv, Withdrawal, CodeJourney, RetireInv
<1>3. CASE AccountTime \/ UNCHANGED accountVars
  <2>1. UNCHANGED <<handler, account, sessions, unrevoked>>
    BY <1>3 DEF AccountTime, ExpireCode, ExpireGrant, Unlock, accountVars, people, accountHistory
  <2> QED
    BY <1>1, <2>1 DEF SettingInv, SetterShape, SessionInv, SessionShape, OldSessionsEnd
<1> QED
  BY <1>1, <1>2, <1>3 DEF SettingInv, AccountNext

(* A session opened with a password that has been replaced lives on only   *)
(* as the one the change was made from, as that of a login overtaken by    *)
(* the change, or where the revocation failed or is still to come.         *)
THEOREM OldSessionsAreEnded == AccountSpec => []OldSessionsEnd
<1>1. SettingInv => OldSessionsEnd
  BY DEF SettingInv, SessionInv
<1> QED
  BY <1>1, SettingBegins, SettingKept, PTL DEF AccountSpec

-----------------------------------------------------------------------------
(* What a handler has behind it, and what it therefore knows.              *)

(* An await still to come, and two in this order. *)
Has(t, x) == \E i \in 1 .. Len(t) : t[i] = x

Precedes(t, x, y) == \A i, j \in 1 .. Len(t) : t[i] = x /\ t[j] = y => i < j

LEMMA HeadOrTail ==
  ASSUME NEW t \in Seq(Await), t # <<>>, NEW x
  PROVE  Has(t, x) <=> Head(t) = x \/ Has(Tail(t), x)
<1>1. /\ Len(t) \in Nat /\ Len(t) > 0 /\ Head(t) = t[1]
      /\ Len(Tail(t)) = Len(t) - 1
      /\ \A i \in 1 .. Len(Tail(t)) : Tail(t)[i] = t[i + 1]
  BY HeadAndTail
<1>2. \A i \in 1 .. Len(Tail(t)) : i + 1 \in 1 .. Len(t)
  BY <1>1
<1>3. 1 \in 1 .. Len(t)
  BY <1>1
<1>4. ASSUME NEW i \in 1 .. Len(t), t[i] = x
      PROVE  Head(t) = x \/ Has(Tail(t), x)
  <2>1. CASE i = 1
    BY <1>1, <1>4, <2>1
  <2>2. CASE i # 1
    <3>1. i - 1 \in 1 .. Len(Tail(t)) /\ (i - 1) + 1 = i
      BY <1>1, <2>2
    <3>2. Tail(t)[i - 1] = x
      BY <1>1, <1>4, <3>1
    <3> QED
      BY <3>1, <3>2 DEF Has
  <2> QED
    BY <2>1, <2>2
<1> QED
  BY <1>1, <1>2, <1>3, <1>4 DEF Has

LEMMA PrecedingStays ==
  ASSUME NEW t \in Seq(Await), t # <<>>, NEW x, NEW y, Precedes(t, x, y)
  PROVE  Precedes(Tail(t), x, y) /\ (Head(t) = y => ~Has(t, x))
<1>1. /\ Len(t) \in Nat /\ Len(t) > 0 /\ Head(t) = t[1]
      /\ Len(Tail(t)) = Len(t) - 1
      /\ \A i \in 1 .. Len(Tail(t)) : Tail(t)[i] = t[i + 1]
  BY HeadAndTail
<1>2. \A i \in 1 .. Len(Tail(t)) : i \in Int /\ i + 1 \in 1 .. Len(t)
  BY <1>1
<1>3. \A i, j \in 1 .. Len(Tail(t)) : i + 1 < j + 1 => i < j
  BY <1>2
<1>4. Precedes(Tail(t), x, y)
  BY <1>1, <1>2, <1>3 DEF Precedes
<1>5. 1 \in 1 .. Len(t) /\ \A i \in 1 .. Len(t) : ~(i < 1)
  BY <1>1
<1> QED
  BY <1>1, <1>4, <1>5 DEF Precedes, Has

(* Requests made with a session, or by the sealing job. *)
ByOwner ==
  { "changePassword", "deleteAccount", "emailBegin", "emailConfirm", "setupTotp", "enableTotp",
    "disableTotp", "reseal" }

(* Whose scripts have these awaits. *)
Served ==
  [ user |-> {"login", "resetStart"}, lookup |-> {"registerVerify", "resetVerify"},
    redeem |-> {"resetComplete"}, account |-> {"registerVerify"},
    consume |-> {"registerVerify", "resetVerify", "emailConfirm"},
    grant |-> {"resetVerify"}, select |-> {"registerBegin", "resetStart"},
    issue |-> {"registerBegin", "resetStart", "emailBegin"},
    insert |-> {"registerBegin", "resetStart"}, read |-> ByOwner,
    session |-> {"login", "registerVerify"}, lockout |-> {"login"}, enable |-> {"enableTotp"} ]

LEMMA ServedAwaits ==
  /\ DOMAIN Served = { "user", "lookup", "redeem", "account", "consume", "grant", "select",
                       "issue", "insert", "read", "session", "lockout", "enable" }
  /\ Served["user"] = {"login", "resetStart"}
  /\ Served["lookup"] = {"registerVerify", "resetVerify"}
  /\ Served["redeem"] = {"resetComplete"} /\ Served["account"] = {"registerVerify"}
  /\ Served["consume"] = {"registerVerify", "resetVerify", "emailConfirm"}
  /\ Served["grant"] = {"resetVerify"} /\ Served["select"] = {"registerBegin", "resetStart"}
  /\ Served["issue"] = {"registerBegin", "resetStart", "emailBegin"}
  /\ Served["insert"] = {"registerBegin", "resetStart"} /\ Served["read"] = ByOwner
  /\ Served["session"] = {"login", "registerVerify"} /\ Served["lockout"] = {"login"}
  /\ Served["enable"] = {"enableTotp"}
  BY DEF Served

(* A handler of kind k follows its script: a code is issued before the row *)
(* for it is inserted, an account is opened before its first session.      *)
CourseOf(k, t) ==
  /\ \A x \in DOMAIN Served : Has(t, x) => k \in Served[x]
  /\ Precedes(t, "issue", "insert") /\ Precedes(t, "account", "session")
  /\ k = "registerBegin" => Precedes(t, "issue", "select")

Courses == \A h \in Handler : CourseOf(handler[h].kind, handler[h].todo)

LEMMA ScriptsAreCourses ==
  ASSUME NEW k \in Kind
  PROVE  CourseOf(k, Script[k])
<1> USE ServedAwaits DEF CourseOf, Has, Precedes, ByOwner
<1>1. CourseOf("registerBegin", RegisterBegin) /\ CourseOf("registerCancel", RegisterCancel)
  BY DEF RegisterBegin, RegisterCancel
<1>2. CourseOf("registerVerify", RegisterVerify)
  BY DEF RegisterVerify
<1>3. CourseOf("resetStart", ResetStart)
  BY DEF ResetStart
<1>4. CourseOf("resetVerify", ResetVerify) /\ CourseOf("resetComplete", ResetComplete)
  BY DEF ResetVerify, ResetComplete
<1>5. CourseOf("login", Login) /\ CourseOf("changePassword", ChangePassword)
  BY DEF Login, ChangePassword
<1>6. CourseOf("deleteAccount", DeleteAccount) /\ CourseOf("emailBegin", EmailBegin)
  BY DEF DeleteAccount, EmailBegin
<1>7. CourseOf("emailConfirm", EmailConfirm) /\ CourseOf("setupTotp", TotpSetup)
  BY DEF EmailConfirm, TotpSetup
<1>8. CourseOf("enableTotp", TotpEnable) /\ CourseOf("disableTotp", TotpDisable)
  BY DEF TotpEnable, TotpDisable
<1>9. CourseOf("reseal", ResealCycle)
  BY DEF ResealCycle
<1> HIDE DEF CourseOf
<1> QED
  BY <1>1, <1>2, <1>3, <1>4, <1>5, <1>6, <1>7, <1>8, <1>9 DEF Kind, Script

LEMMA TurningsAreCourses ==
  /\ \A k : \A t \in Aside \cup {<<>>} : CourseOf(k, t)
  /\ \A k \in {"registerBegin", "resetStart"} : CourseOf(k, <<"insert">>)
  /\ CourseOf("resetStart", <<"dropGrants", "issue", "insert">>)
<1> USE ServedAwaits DEF CourseOf, Has, Precedes
<1>1. \A k, x : x \in {"miss", "discard", "failure"} => CourseOf(k, <<x>>)
  OBVIOUS
<1>2. \A k : CourseOf(k, <<"forget", "discard">>)
  OBVIOUS
<1>3. \A k : CourseOf(k, <<>>)
  OBVIOUS
<1>4. \A k \in {"registerBegin", "resetStart"} : CourseOf(k, <<"insert">>)
  OBVIOUS
<1>5. CourseOf("resetStart", <<"dropGrants", "issue", "insert">>)
  OBVIOUS
<1> HIDE DEF CourseOf
<1> QED
  BY <1>1, <1>2, <1>3, <1>4, <1>5 DEF Aside

LEMMA TailsAreCourses ==
  ASSUME NEW k, NEW t \in Seq(Await), t # <<>>, CourseOf(k, t)
  PROVE  CourseOf(k, Tail(t))
  BY HeadOrTail, PrecedingStays DEF CourseOf

LEMMA CoursesKept ==
  ASSUME NEW h \in Handler, HandlerShape, StartShape, Courses, AccountStep(h) \/ Hook(h)
  PROVE  Courses'
<1>1. ASSUME NEW g \in Handler \ {h}
      PROVE  CourseOf(handler'[g].kind, handler'[g].todo)
  BY <1>1, HandlersAfter DEF Courses, Marks
<1>2. CourseOf(handler'[h].kind, handler'[h].todo)
  <2>1. CASE Arrive(h)
    BY <2>1, HandlersAfter, ScriptsAreCourses DEF Begins
  <2>2. CASE ~Arrive(h)
    <3> DEFINE n == handler'[h]
               o == handler[h]
    <3>1. Moves(n, o) /\ o.todo \in Seq(Await) /\ CourseOf(o.kind, o.todo)
      BY <2>2, HandlersAfter DEF HandlerShape, Orderly, Courses
    <3>2. n = Idle \/ o.todo # <<>>
      BY <2>2, DueSteps DEF Fail, Done, Becomes, HandlerShape
    <3> HIDE DEF n, o
    <3>3. CASE n = Idle
      BY <3>3, IdleMarked, TurningsAreCourses DEF n
    <3>4. CASE n # Idle /\ n.todo \in {o.todo, Tail(o.todo)} \cup Aside
      <4>1. n.kind = o.kind
        BY <3>1, <3>4 DEF Moves
      <4> QED
        BY <3>1, <3>2, <3>4, <4>1, TailsAreCourses, TurningsAreCourses DEF n
    <3>5. CASE n # Idle /\ n.todo = Unopposed(o) /\ Head(o.todo) = "select"
      <4>1. n.kind = o.kind /\ Has(o.todo, "select")
        BY <3>1, <3>2, <3>5, HeadOrTail DEF Moves
      <4>2. o.kind \in {"registerBegin", "resetStart"}
        BY <3>1, <4>1, ServedAwaits DEF CourseOf
      <4> QED
        BY <3>5, <4>1, <4>2, TurningsAreCourses DEF Unopposed, n
    <3> QED
      BY <3>1, <3>3, <3>4, <3>5 DEF Moves
  <2> QED
    BY <2>1, <2>2
<1> QED
  BY <1>1, <1>2 DEF Courses

-----------------------------------------------------------------------------
(* The types of what is stored, and of what a handler holds.               *)

HandlerRow ==
  [ kind: Kind \cup {"none"}, todo: Seq(Await), acct: Account \cup {NoAccount},
    email: Email \cup {NoEmail}, code: Challenge \cup {NoChallenge}, good: BOOLEAN,
    old: SUBSET Challenge, doomed: SUBSET Challenge, saw: AccountRow \cup {NoRow},
    logged: BOOLEAN, current: Nat \cup {NoSession} ]

HandlersTyped == handler \in [ Handler -> HandlerRow ]

CodesTyped ==
  /\ challenge \in [ Challenge -> ChallengeRow ]
  /\ pending \subseteq Challenge /\ grants \subseteq Challenge /\ retired \subseteq Challenge
  /\ effects \in [ Challenge -> Nat ]

(* The number of sessions is what FreshId counts to. *)
PeopleTyped ==
  /\ account \in [ Account -> AccountRow ]
  /\ log \in [ Account -> LogRow \cup {NoLog} ]
  /\ sessions \subseteq SessionRow /\ IsFiniteSet(sessions)
  /\ wrong \in [ Account -> Nat ]
  /\ unrevoked \subseteq Account /\ clobbered \subseteq Account
  /\ generated \subseteq Secret /\ proven \subseteq Secret

ClientsTyped == requests \in Nat /\ mix \in AccountMix

(* A code that resets a password is one of an account, and only such a     *)
(* code is exchanged for a grant.                                          *)
CodesOwned ==
  /\ \A c \in Challenge : ResetCode(c) => challenge[c].acct \in Account
  /\ \A c \in grants : ResetCode(c)

(* An account that has been read. *)
Known(a) == a \in Account /\ account[a].status # "free"

(* What a handler knows by what it has behind it. *)
Informed(m) ==
  /\ m.kind \in ByCode => m.code \in Challenge
  /\ m.kind \in ByOwner => m.acct \in Account
  /\ m.kind \in {"registerBegin", "resetStart"} /\ (Has(m.todo, "select") \/ Has(m.todo, "insert"))
       => Has(m.todo, "issue") \/ m.code \in Challenge
  /\ m.kind = "registerVerify" /\ Has(m.todo, "session")
       => Has(m.todo, "account") \/ m.saw \in AccountRow
  /\ m.todo # <<>> =>
       /\ m.kind = "login" /\ Head(m.todo) # "user" => Known(m.acct) /\ m.saw \in AccountRow
       /\ m.kind = "resetStart" /\ Head(m.todo) # "user" => m.acct \in Account
       /\ m.kind = "resetVerify" /\ Head(m.todo) # "lookup" => ResetCode(m.code)
       /\ m.kind = "resetComplete" /\ Head(m.todo) # "redeem" => m.acct \in Account
       /\ m.kind = "enableTotp" /\ Head(m.todo) # "read" =>
            m.saw \in AccountRow /\ m.saw.secret \in Secret

HandlersInformed == \A h \in Handler : Informed(handler[h])

AllTyped == HandlersTyped /\ CodesTyped /\ PeopleTyped /\ ClientsTyped

-----------------------------------------------------------------------------
(* What a handler learns at an await.                                      *)

LearnsOwner == {"user", "lookup", "redeem", "account"}
LearnsRow == {"user", "account", "read"}

(* o has become m, by what it has been told where it stands. *)
Gathers(m, o) ==
  /\ m \in HandlerRow
  /\ m.kind = o.kind
  /\ Head(o.todo) = "user" => Known(m.acct) /\ (m.kind = "login" => m.saw \in AccountRow)
  /\ Head(o.todo) = "lookup" /\ m.kind = "resetVerify" => ResetCode(m.code)
  /\ Head(o.todo) = "redeem" => m.acct \in Account
  /\ Head(o.todo) = "account" => m.acct \in Account /\ m.saw \in AccountRow
  /\ Head(o.todo) = "read" => /\ m.saw \in AccountRow
                              /\ m.kind = "enableTotp" => m.saw.secret \in Secret
  /\ Head(o.todo) = "issue" => m.code \in Challenge
  /\ Head(o.todo) \notin LearnsRow => m.saw = o.saw
  /\ Head(o.todo) \notin LearnsOwner => m.acct = o.acct

GathersOn(h) == \E n : Becomes(h, n) /\ (n = Idle \/ Gathers(n, handler[h]))

LEMMA DoneGathers ==
  ASSUME NEW h, Done(h)
  PROVE  GathersOn(h)
  BY DEF Done, GathersOn

LEMMA IdleTyped == Idle \in HandlerRow
  BY NobodyAssumption DEF Idle, HandlerRow

LEMMA TurningsTyped ==
  Aside \cup {<<"insert">>, <<"dropGrants", "issue", "insert">>} \subseteq Seq(Await)
<1> USE DEF Await
<1>1. \A x \in Await : <<x>> \in Seq(Await)
  OBVIOUS
<1>2. <<"forget", "discard">> \in Seq(Await)
  OBVIOUS
<1>3. <<"dropGrants", "issue", "insert">> \in Seq(Await)
  OBVIOUS
<1>4. {"miss", "discard", "failure", "insert"} \subseteq Await
  OBVIOUS
<1> HIDE DEF Await
<1> QED
  BY <1>1, <1>2, <1>3, <1>4 DEF Aside

(* m is o but for the field f. *)
Shown == {"kind", "todo", "acct", "saw", "code"}
ButFor(m, o, f) == m \in HandlerRow /\ \A g \in Shown \ {f} : m[g] = o[g]

(* m is o with an account and its row. *)
TakesUp(m, o, a, s) ==
  /\ m \in HandlerRow /\ m.kind = o.kind /\ m.todo = o.todo /\ m.code = o.code
  /\ m.acct = a /\ m.saw = s

(* A handler that has learnt something is one. *)
LEMMA FieldsTyped ==
  ASSUME NEW o \in HandlerRow
  PROVE  /\ ButFor(o, o, "none")
         /\ \A t \in Seq(Await) : LET m == [o EXCEPT !.todo = t]
                                 IN  ButFor(m, o, "todo") /\ m.todo = t
         /\ \A a \in Account \cup {NoAccount} : LET m == [o EXCEPT !.acct = a]
                                                IN  ButFor(m, o, "acct") /\ m.acct = a
         /\ \A c \in Challenge \cup {NoChallenge} : LET m == [o EXCEPT !.code = c]
                                                    IN  ButFor(m, o, "code") /\ m.code = c
         /\ \A s \in AccountRow \cup {NoRow} : LET m == [o EXCEPT !.saw = s]
                                               IN  ButFor(m, o, "saw") /\ m.saw = s
         /\ \A e \in Email \cup {NoEmail} : ButFor([o EXCEPT !.email = e], o, "email")
         /\ \A d \in SUBSET Challenge : /\ ButFor([o EXCEPT !.old = d], o, "old")
                                        /\ ButFor([o EXCEPT !.doomed = d], o, "doomed")
         /\ \A b \in BOOLEAN : ButFor([o EXCEPT !.logged = b], o, "logged")
         /\ \A d, e \in SUBSET Challenge : ButFor([o EXCEPT !.old = d, !.doomed = e], o, "old")
         /\ \A a \in Account \cup {NoAccount} : \A e \in Email \cup {NoEmail} :
              LET m == [o EXCEPT !.acct = a, !.email = e]
              IN  ButFor(m, o, "acct") /\ m.acct = a
         /\ \A a \in Account : \A s \in AccountRow \cup {NoRow} :
              TakesUp([o EXCEPT !.acct = a, !.saw = s], o, a, s)
<1> USE DEF HandlerRow, ButFor, TakesUp, Shown
<1>1. ButFor(o, o, "none")
  OBVIOUS
<1>2. \A t \in Seq(Await) : LET m == [o EXCEPT !.todo = t]
                            IN  ButFor(m, o, "todo") /\ m.todo = t
  OBVIOUS
<1>3. \A a \in Account \cup {NoAccount} : LET m == [o EXCEPT !.acct = a]
                                         IN  ButFor(m, o, "acct") /\ m.acct = a
  OBVIOUS
<1>4. \A c \in Challenge \cup {NoChallenge} : LET m == [o EXCEPT !.code = c]
                                             IN  ButFor(m, o, "code") /\ m.code = c
  OBVIOUS
<1>5. \A s \in AccountRow \cup {NoRow} : LET m == [o EXCEPT !.saw = s]
                                        IN  ButFor(m, o, "saw") /\ m.saw = s
  OBVIOUS
<1>6. \A e \in Email \cup {NoEmail} : ButFor([o EXCEPT !.email = e], o, "email")
  OBVIOUS
<1>7. \A d \in SUBSET Challenge : ButFor([o EXCEPT !.old = d], o, "old")
  OBVIOUS
<1>8. \A d \in SUBSET Challenge : ButFor([o EXCEPT !.doomed = d], o, "doomed")
  OBVIOUS
<1>9. \A b \in BOOLEAN : ButFor([o EXCEPT !.logged = b], o, "logged")
  OBVIOUS
<1>10. \A d, e \in SUBSET Challenge : ButFor([o EXCEPT !.old = d, !.doomed = e], o, "old")
  OBVIOUS
<1>11. \A a \in Account \cup {NoAccount} : \A e \in Email \cup {NoEmail} :
         LET m == [o EXCEPT !.acct = a, !.email = e]
         IN  ButFor(m, o, "acct") /\ m.acct = a
  OBVIOUS
<1>12. \A a \in Account : \A s \in AccountRow \cup {NoRow} :
         TakesUp([o EXCEPT !.acct = a, !.saw = s], o, a, s)
  OBVIOUS
<1> HIDE DEF HandlerRow, ButFor, TakesUp, Shown
<1> QED
  BY <1>1, <1>2, <1>3, <1>4, <1>5, <1>6, <1>7, <1>8, <1>9, <1>10, <1>11, <1>12

LEMMA GathersNothing ==
  ASSUME NEW o \in HandlerRow, NEW m \in HandlerRow,
         Head(o.todo) \notin LearnsOwner \cup LearnsRow \cup {"issue"},
         m.kind = o.kind, m.acct = o.acct, m.saw = o.saw
  PROVE  Gathers(m, o)
  BY DEF Gathers, LearnsOwner, LearnsRow

LEMMA OnwardGathers ==
  ASSUME NEW h, NEW m, handler[h] \in HandlerRow, handler[h].todo # <<>>,
         Gathers(m, handler[h]), m.todo = handler[h].todo, Onward(h, m)
  PROVE  GathersOn(h)
<1> DEFINE n == [m EXCEPT !.todo = Tail(m.todo)]
<1>1. m \in HandlerRow /\ m.todo \in Seq(Await) /\ m.todo # <<>>
  BY DEF Gathers, HandlerRow
<1>2. Tail(m.todo) \in Seq(Await)
  BY <1>1, HeadAndTail
<1>3. ButFor(n, m, "todo")
  BY <1>1, <1>2, FieldsTyped
<1>4. Becomes(h, Idle) \/ Becomes(h, n)
  BY DEF Onward
<1> HIDE DEF n
<1>5. Gathers(n, handler[h])
  BY <1>3 DEF ButFor, Shown, Gathers
<1> QED
  BY <1>4, <1>5 DEF GathersOn

LEMMA DetoursGathers ==
  ASSUME NEW h, NEW ops \in Aside, handler[h] \in HandlerRow,
         Detours(h, ops), Head(handler[h].todo) \in Turned
  PROVE  GathersOn(h)
<1> DEFINE n == [handler[h] EXCEPT !.todo = ops]
<1>1. ButFor(n, handler[h], "todo")
  BY FieldsTyped, TurningsTyped
<1>2. Becomes(h, n)
  BY DEF Detours
<1> HIDE DEF n
<1> QED
  BY <1>1, <1>2, GathersNothing
     DEF ButFor, Shown, GathersOn, Turned, LearnsOwner, LearnsRow

LEMMA RefuseGathers ==
  ASSUME NEW h, handler[h] \in HandlerRow, Refuse(h), Head(handler[h].todo) \in Turned
  PROVE  GathersOn(h)
<1>1. <<"forget", "discard">> \in Aside
  BY DEF Aside
<1> QED
  BY <1>1, DoneGathers, DetoursGathers DEF Refuse

LEMMA OnwardKnowing ==
  ASSUME NEW h, NEW m, NEW f \in {"none", "email", "old", "doomed", "logged"},
         handler[h] \in HandlerRow, handler[h].todo # <<>>,
         Head(handler[h].todo) \notin LearnsOwner \cup LearnsRow \cup {"issue"},
         ButFor(m, handler[h], f), Onward(h, m)
  PROVE  GathersOn(h)
<1>1. m \in HandlerRow /\ \A g \in Shown : m[g] = handler[h][g]
  BY DEF ButFor, Shown
<1> QED
  BY <1>1, GathersNothing, OnwardGathers DEF Shown

LEMMA StepGathers ==
  ASSUME AllTyped, CodesOwned, RowsKnown, Courses, HandlersInformed,
         NEW h \in Handler, AccountStep(h) \/ Hook(h), ~Arrive(h)
  PROVE  GathersOn(h)
<1> DEFINE o == handler[h]
           op == Head(o.todo)
           free == op \notin LearnsOwner \cup LearnsRow \cup {"issue"}
<1>1. /\ <<"miss">> \in Aside /\ <<"discard">> \in Aside /\ <<"failure">> \in Aside
      /\ o \in HandlerRow
  BY DEF Aside, AllTyped, HandlersTyped
<1>2. CASE Fail(h)
  BY <1>2, DoneGathers DEF Fail
<1>3. CASE \/ Skip(h) \/ Purge(h) \/ Insert(h) \/ Discard(h) \/ Forget(h) \/ Grant(h)
           \/ Revoke(h) \/ Clear(h) \/ Hook(h) \/ Password(h)
  <2>1. Onward(h, o) /\ o.todo # <<>>
    BY <1>3 DEF Skip, Purge, Insert, Discard, Forget, Grant, Revoke, Clear, Hook, Password, At
  <2>2. free
    BY <1>3 DEF Skip, Tolerant, Purge, Insert, Discard, Forget, Grant, Revoke, Clear, Hook,
       Password, At, LearnsOwner, LearnsRow
  <2> QED
    BY <1>1, <2>1, <2>2, FieldsTyped, OnwardKnowing
<1>4. CASE Exists(h)
  <2>1. op = "exists" /\ o.todo # <<>> /\ (Onward(h, o) \/ Refuse(h))
    BY <1>4 DEF Exists, At
  <2> QED
    BY <1>1, <2>1, FieldsTyped, OnwardKnowing, RefuseGathers DEF Turned, LearnsOwner, LearnsRow
<1>5. CASE User(h) /\ ~Done(h)
  <2>1. PICK a \in Account :
          /\ Live(a)
          /\ Onward(h, [o EXCEPT !.acct = a,
                           !.saw = IF o.kind = "login" THEN account[a] ELSE NoRow])
    BY <1>5 DEF User
  <2> DEFINE s == IF o.kind = "login" THEN account[a] ELSE NoRow
             m == [o EXCEPT !.acct = a, !.saw = s]
  <2>2. op = "user" /\ o.todo # <<>> /\ Known(a)
    BY <1>5, <2>1 DEF User, At, Live, Known
  <2>3. s \in AccountRow \cup {NoRow} /\ (o.kind = "login" => s \in AccountRow)
    BY DEF AllTyped, PeopleTyped
  <2>4. Onward(h, m)
    BY <2>1
  <2> HIDE DEF s
  <2>5. TakesUp(m, o, a, s)
    BY <1>1, <2>1, <2>3, FieldsTyped
  <2> HIDE DEF m
  <2>6. Gathers(m, o)
    BY <2>2, <2>3, <2>5 DEF TakesUp, Gathers, LearnsOwner, LearnsRow
  <2> QED
    BY <1>1, <2>2, <2>4, <2>5, <2>6, OnwardGathers DEF TakesUp
<1>6. CASE Select(h)
  <2> DEFINE m == [o EXCEPT !.old = RowsOf(o), !.doomed = Superseded(o)]
             u == [m EXCEPT !.todo = Unopposed(m)]
  <2>1. op = "select" /\ o.todo # <<>> /\ (Onward(h, m) \/ Becomes(h, u))
    BY <1>6 DEF Select, At
  <2>2. RowsOf(o) \in SUBSET Challenge /\ Superseded(o) \in SUBSET Challenge
    BY DEF AllTyped, CodesTyped, RowsOf, Superseded
  <2>3. ButFor(m, o, "old")
    BY <1>1, <2>2, FieldsTyped
  <2> HIDE DEF m
  <2>4. Unopposed(m) \in Seq(Await)
    BY TurningsTyped DEF Unopposed
  <2>5. m \in HandlerRow
    BY <2>3 DEF ButFor
  <2>6. ButFor(u, m, "todo")
    BY <2>4, <2>5, FieldsTyped
  <2> HIDE DEF u
  <2>7. Gathers(u, o)
    BY <1>1, <2>1, <2>3, <2>6, GathersNothing DEF ButFor, Shown, LearnsOwner, LearnsRow
  <2>8. CASE Onward(h, m)
    BY <1>1, <2>1, <2>3, <2>8, OnwardKnowing DEF LearnsOwner, LearnsRow
  <2> QED
    BY <2>1, <2>7, <2>8 DEF GathersOn
<1>7. CASE Cancel(h)
  <2>1. PICK c \in o.old : LET m == [o EXCEPT !.old = @ \ {c}] IN
                           IF m.old = {} THEN Onward(h, m) ELSE Becomes(h, m)
    BY <1>7 DEF Cancel
  <2> DEFINE d == o.old \ {c}
             m == [o EXCEPT !.old = d]
  <2>2. op = "cancel" /\ o.todo # <<>> /\ (Onward(h, m) \/ Becomes(h, m))
    BY <1>7, <2>1 DEF Cancel, At
  <2>3. d \in SUBSET Challenge
    BY <1>1 DEF HandlerRow
  <2> HIDE DEF d
  <2>4. ButFor(m, o, "old")
    BY <1>1, <2>3, FieldsTyped
  <2> HIDE DEF m
  <2>5. CASE Onward(h, m)
    BY <1>1, <2>2, <2>4, <2>5, OnwardKnowing DEF LearnsOwner, LearnsRow
  <2>6. Gathers(m, o)
    BY <1>1, <2>2, <2>4, GathersNothing DEF ButFor, Shown, LearnsOwner, LearnsRow
  <2> QED
    BY <2>2, <2>5, <2>6 DEF GathersOn
<1>8. CASE DropGrants(h)
  <2>1. op = "dropGrants" /\ o.todo # <<>> /\ Onward(h, [o EXCEPT !.doomed = {}])
    BY <1>8 DEF DropGrants, At
  <2>2. ButFor([o EXCEPT !.doomed = {}], o, "doomed")
    BY <1>1, FieldsTyped
  <2> QED
    BY <1>1, <2>1, <2>2, OnwardKnowing DEF LearnsOwner, LearnsRow
<1>9. CASE Issue(h)
  <2>1. PICK c \in Challenge : Onward(h, [o EXCEPT !.code = c])
    BY <1>9 DEF Issue
  <2> DEFINE m == [o EXCEPT !.code = c]
  <2>2. op = "issue" /\ o.todo # <<>> /\ Onward(h, m)
    BY <1>9, <2>1 DEF Issue, At
  <2>3. ButFor(m, o, "code") /\ m.code = c
    BY <1>1, FieldsTyped
  <2> HIDE DEF m
  <2>4. Gathers(m, o) /\ m.todo = o.todo
    BY <2>2, <2>3 DEF ButFor, Shown, Gathers, LearnsOwner, LearnsRow
  <2> QED
    BY <1>1, <2>2, <2>4, OnwardGathers
<1>10. CASE Lookup(h) /\ ~Done(h)
  <2> DEFINE row == challenge[o.code]
             m == [o EXCEPT !.acct = row.acct, !.email = row.email]
  <2>1. /\ op = "lookup" /\ o.todo # <<>> /\ o.code \in pending
        /\ row.kind = CodeOf(o.kind) /\ Onward(h, m)
    BY <1>10 DEF Lookup, At
  <2>2. o.code \in Challenge /\ row \in ChallengeRow
    BY <2>1 DEF AllTyped, CodesTyped
  <2>3. row.acct \in Account \cup {NoAccount} /\ row.email \in Email \cup {NoEmail}
    BY <2>2 DEF ChallengeRow
  <2>4. o.kind = "resetVerify" => ResetCode(o.code)
    BY <2>1, <2>2 DEF CodeOf, Registers, ResetCode, RowsKnown
  <2> HIDE DEF row
  <2>5. ButFor(m, o, "acct")
    BY <1>1, <2>3, FieldsTyped
  <2> HIDE DEF m
  <2>6. Gathers(m, o) /\ m.todo = o.todo
    BY <2>1, <2>4, <2>5 DEF ButFor, Shown, Gathers, LearnsOwner, LearnsRow
  <2> QED
    BY <1>1, <2>1, <2>6, OnwardGathers
<1>11. CASE Find(h)
  <2>1. op = "find" /\ o.todo # <<>> /\ (Onward(h, o) \/ Refuse(h) \/ Detours(h, <<"miss">>))
    BY <1>11 DEF Find, At
  <2> QED
    BY <1>1, <2>1, FieldsTyped, OnwardKnowing, RefuseGathers, DetoursGathers
       DEF Turned, LearnsOwner, LearnsRow
<1>12. CASE Miss(h)
  <2>1. op = "miss" /\ (Done(h) \/ Detours(h, <<"discard">>))
    BY <1>12 DEF Miss, At
  <2> QED
    BY <1>1, <2>1, DoneGathers, DetoursGathers DEF Turned
<1>13. CASE Consume(h)
  <2> DEFINE e == challenge[o.code].email
             m == [o EXCEPT !.email = e]
  <2>1. op = "consume" /\ o.todo # <<>> /\ (Onward(h, m) \/ Done(h) \/ Refuse(h))
    BY <1>13 DEF Consume, At
  <2>2. o.todo \in Seq(Await)
    BY <1>1 DEF HandlerRow
  <2>3. Has(o.todo, "consume")
    BY <2>1, <2>2, HeadOrTail
  <2>4. o.kind \in ByCode
    BY <2>3, ServedAwaits DEF Courses, CourseOf, ByCode
  <2>5. o.code \in Challenge
    BY <2>4 DEF HandlersInformed, Informed
  <2>6. e \in Email \cup {NoEmail}
    BY <2>5 DEF AllTyped, CodesTyped, ChallengeRow
  <2> HIDE DEF e
  <2>7. ButFor(m, o, "email")
    BY <1>1, <2>6, FieldsTyped
  <2> HIDE DEF m
  <2> QED
    BY <1>1, <2>1, <2>7, OnwardKnowing, RefuseGathers, DoneGathers
       DEF Turned, LearnsOwner, LearnsRow
<1>14. CASE Redeem(h) /\ ~Done(h)
  <2> DEFINE a == challenge[o.code].acct
             m == [o EXCEPT !.acct = a]
  <2>1. op = "redeem" /\ o.todo # <<>> /\ o.code \in grants /\ Onward(h, m)
    BY <1>14 DEF Redeem, At
  <2>2. a \in Account
    BY <2>1 DEF CodesOwned, AllTyped, CodesTyped
  <2> HIDE DEF a
  <2>3. ButFor(m, o, "acct") /\ m.acct = a
    BY <1>1, <2>2, FieldsTyped
  <2> HIDE DEF m
  <2>4. Gathers(m, o) /\ m.todo = o.todo
    BY <2>1, <2>2, <2>3 DEF ButFor, Shown, Gathers, LearnsOwner, LearnsRow
  <2> QED
    BY <1>1, <2>1, <2>4, OnwardGathers
<1>15. CASE Register(h) /\ ~Done(h)
  <2> DEFINE row == [Fresh EXCEPT !.status = "live", !.email = o.email]
  <2>1. PICK a \in Account : Onward(h, [o EXCEPT !.acct = a, !.saw = row])
    BY <1>15 DEF Register
  <2> DEFINE m == [o EXCEPT !.acct = a, !.saw = row]
  <2>2. op = "account" /\ o.todo # <<>> /\ Onward(h, m)
    BY <1>15, <2>1 DEF Register, At
  <2>3. row \in AccountRow
    BY <1>1 DEF HandlerRow, AccountRow, Fresh
  <2> HIDE DEF row
  <2>4. TakesUp(m, o, a, row)
    BY <1>1, <2>1, <2>3, FieldsTyped
  <2> HIDE DEF m
  <2>5. Gathers(m, o)
    BY <2>1, <2>2, <2>3, <2>4 DEF TakesUp, Gathers, LearnsOwner, LearnsRow
  <2> QED
    BY <1>1, <2>2, <2>4, <2>5, OnwardGathers DEF TakesUp
<1>16. CASE Read(h) /\ ~Done(h)
  <2> DEFINE row == account[o.acct]
             m == [o EXCEPT !.saw = row]
  <2>1. /\ op = "read" /\ o.todo # <<>> /\ o.acct \in Account
        /\ Accepts(o, row) /\ Onward(h, m)
    BY <1>16 DEF Read, At, Live
  <2>2. row \in AccountRow
    BY <2>1 DEF AllTyped, PeopleTyped
  <2>3. o.kind = "enableTotp" => row.secret \in Secret
    BY <2>1, <2>2 DEF Accepts, AccountRow
  <2> HIDE DEF row
  <2>4. ButFor(m, o, "saw") /\ m.saw = row
    BY <1>1, <2>2, FieldsTyped
  <2> HIDE DEF m
  <2>5. Gathers(m, o) /\ m.todo = o.todo
    BY <2>1, <2>2, <2>3, <2>4 DEF ButFor, Shown, Gathers, LearnsOwner, LearnsRow
  <2> QED
    BY <1>1, <2>1, <2>5, OnwardGathers
<1>17. CASE Log(h)
  <2>1. op = "log" /\ o.todo # <<>> /\ (Onward(h, o) \/ Done(h))
    BY <1>17 DEF Log, At
  <2> QED
    BY <1>1, <2>1, FieldsTyped, OnwardKnowing, DoneGathers DEF LearnsOwner, LearnsRow
<1>18. CASE Delete(h) \/ ChangeEmail(h) \/ Failure(h)
  BY <1>18, DoneGathers DEF Delete, ChangeEmail, Failure
<1>19. CASE Lockout(h)
  <2>1. PICK b \in BOOLEAN : /\ op = "lockout" /\ o.todo # <<>>
                             /\ \/ Done(h) \/ Detours(h, <<"failure">>)
                                \/ Onward(h, [o EXCEPT !.logged = b])
    BY <1>19 DEF Lockout, At
  <2>2. ButFor([o EXCEPT !.logged = b], o, "logged")
    BY <1>1, FieldsTyped
  <2> QED
    BY <1>1, <2>1, <2>2, OnwardKnowing, DoneGathers, DetoursGathers
       DEF Turned, LearnsOwner, LearnsRow
<1>20. CASE OpenSession(h)
  <2>1. /\ op = "session" /\ o.todo # <<>>
        /\ \/ Done(h) \/ Onward(h, o) \/ Onward(h, [o EXCEPT !.todo = <<"session">>])
    BY <1>20 DEF OpenSession, At
  <2>2. [o EXCEPT !.todo = <<"session">>].todo = <<"session">>
    BY <1>1 DEF HandlerRow
  <2>3. Onward(h, [o EXCEPT !.todo = <<"session">>]) => Done(h)
    BY <2>2 DEF Onward, Done
  <2> QED
    BY <1>1, <2>1, <2>3, FieldsTyped, OnwardKnowing, DoneGathers DEF LearnsOwner, LearnsRow
<1>21. CASE SetupTotp(h) \/ EnableTotp(h) \/ DisableTotp(h) \/ Reseal(h)
  BY <1>21, DoneGathers DEF SetupTotp, EnableTotp, DisableTotp, Reseal, WriteTotp
<1> QED
  BY <1>2, <1>3, <1>4, <1>5, <1>6, <1>7, <1>8, <1>9, <1>10, <1>11, <1>12, <1>13, <1>14, <1>15,
     <1>16, <1>17, <1>18, <1>19, <1>20, <1>21, DoneGathers DEF AccountStep

-----------------------------------------------------------------------------
(* What handlers know, they go on knowing.                                 *)

(* A request holds what its client may name. *)
LEMMA RequestsTyped ==
  ASSUME AllTyped, NEW k \in Kind
  PROVE  \A m \in Requested(k) : /\ m \in HandlerRow
                                 /\ k \in ByCode => m.code \in Challenge
                                 /\ k \in ByOwner => m.acct \in Account
<1> DEFINE known == { c \in Challenge : challenge[c].status # "unused" }
           ask == [Idle EXCEPT !.kind = k, !.todo = Script[k]]
           email(e) == [ask EXCEPT !.email = e]
           login(e, g) == [ask EXCEPT !.email = e, !.good = g]
           guess(c, g) == [ask EXCEPT !.code = c, !.good = g]
           code(c) == [ask EXCEPT !.code = c]
           move(s, e) == [ask EXCEPT !.acct = s.acct, !.email = e]
           confirm(s, c, g) == [ask EXCEPT !.acct = s.acct, !.code = c, !.good = g]
           job(a) == [ask EXCEPT !.acct = a]
           own(s) == [ask EXCEPT !.acct = s.acct, !.current = s.id]
<1>1. Script[k] \in Seq(Await)
  BY ScriptsAreOrderly DEF Orderly
<1>2. ask \in HandlerRow
  BY <1>1, IdleTyped DEF HandlerRow
<1>3. mix.emails \subseteq Email /\ known \subseteq Challenge
  BY AccountMixAssumption DEF AllTyped, ClientsTyped
<1>4. \A s \in sessions : s.acct \in Account /\ s.id \in Nat
  BY DEF AllTyped, PeopleTyped, SessionRow
<1> HIDE DEF ask, known
<1>5. \A e \in Email : \A g \in BOOLEAN : email(e) \in HandlerRow /\ login(e, g) \in HandlerRow
  BY <1>2 DEF HandlerRow
<1>6. \A c \in Challenge : \A g \in BOOLEAN :
        /\ guess(c, g) \in HandlerRow /\ guess(c, g).code = c
        /\ code(c) \in HandlerRow /\ code(c).code = c
  BY <1>2 DEF HandlerRow
<1>7. \A s \in sessions : \A e \in Email :
        move(s, e) \in HandlerRow /\ move(s, e).acct = s.acct
  BY <1>2, <1>4 DEF HandlerRow
<1>8. \A s \in sessions : \A c \in Challenge : \A g \in BOOLEAN :
        /\ confirm(s, c, g) \in HandlerRow
        /\ confirm(s, c, g).acct = s.acct /\ confirm(s, c, g).code = c
  BY <1>2, <1>4 DEF HandlerRow
<1>9. \A a \in Account : job(a) \in HandlerRow /\ job(a).acct = a
  BY <1>2 DEF HandlerRow
<1>10. \A s \in sessions : own(s) \in HandlerRow /\ own(s).acct = s.acct
  BY <1>2, <1>4 DEF HandlerRow
<1> HIDE DEF email, login, guess, code, move, confirm, job, own
<1>11. CASE k = "registerBegin"
  <2>1. Requested(k) = { email(e) : e \in mix.emails }
    BY <1>11 DEF Requested, known, ask, email
  <2> QED
    BY <1>3, <1>5, <1>11, <2>1 DEF ByCode, ByOwner
<1>12. CASE k = "resetStart"
  <2>1. Requested(k) = { email(e) : e \in mix.emails }
    BY <1>12 DEF Requested, known, ask, email
  <2> QED
    BY <1>3, <1>5, <1>12, <2>1 DEF ByCode, ByOwner
<1>13. CASE k = "login"
  <2>1. Requested(k) = { login(e, g) : e \in mix.emails, g \in BOOLEAN }
    BY <1>13 DEF Requested, known, ask, login
  <2> QED
    BY <1>3, <1>5, <1>13, <2>1 DEF ByCode, ByOwner
<1>14. CASE k = "registerVerify"
  <2>1. Requested(k) = { guess(c, g) : c \in known, g \in BOOLEAN }
    BY <1>14 DEF Requested, known, ask, guess
  <2> QED
    BY <1>3, <1>6, <1>14, <2>1 DEF ByCode, ByOwner
<1>15. CASE k = "resetVerify"
  <2>1. Requested(k) = { guess(c, g) : c \in known, g \in BOOLEAN }
    BY <1>15 DEF Requested, known, ask, guess
  <2> QED
    BY <1>3, <1>6, <1>15, <2>1 DEF ByCode, ByOwner
<1>16. CASE k = "registerCancel"
  <2>1. Requested(k) = { code(c) : c \in known }
    BY <1>16 DEF Requested, known, ask, code
  <2> QED
    BY <1>3, <1>6, <1>16, <2>1 DEF ByCode, ByOwner
<1>17. CASE k = "resetComplete"
  <2>1. Requested(k) = { code(c) : c \in known }
    BY <1>17 DEF Requested, known, ask, code
  <2> QED
    BY <1>3, <1>6, <1>17, <2>1 DEF ByCode, ByOwner
<1>18. CASE k = "emailBegin"
  <2>1. Requested(k) = { move(s, e) : s \in sessions, e \in mix.emails }
    BY <1>18 DEF Requested, known, ask, move
  <2> QED
    BY <1>3, <1>4, <1>7, <1>18, <2>1 DEF ByCode, ByOwner
<1>19. CASE k = "emailConfirm"
  <2>1. Requested(k) = { confirm(s, c, g) : s \in sessions, c \in known, g \in BOOLEAN }
    BY <1>19 DEF Requested, known, ask, confirm
  <2> QED
    BY <1>3, <1>4, <1>8, <1>19, <2>1 DEF ByCode, ByOwner
<1>20. CASE k = "reseal"
  <2>1. Requested(k) = { job(a) : a \in Account }
    BY <1>20 DEF Requested, known, ask, job
  <2> QED
    BY <1>3, <1>9, <1>20, <2>1 DEF ByCode, ByOwner
<1>21. CASE /\ k \notin {"registerBegin", "resetStart"} /\ k # "login"
            /\ k \notin {"registerVerify", "resetVerify"}
            /\ k \notin {"registerCancel", "resetComplete"}
            /\ k # "emailBegin" /\ k # "emailConfirm" /\ k # "reseal"
  <2>1. Requested(k) = { own(s) : s \in sessions }
    BY <1>21 DEF Requested, known, ask, own
  <2> QED
    BY <1>3, <1>4, <1>10, <1>21, <2>1 DEF ByCode, ByOwner
<1> QED
  BY <1>11, <1>12, <1>13, <1>14, <1>15, <1>16, <1>17, <1>18, <1>19, <1>20, <1>21

LEMMA HandlersTypedKept ==
  ASSUME AllTyped, CodesOwned, RowsKnown, Courses, HandlersInformed,
         NEW h \in Handler, AccountStep(h) \/ Hook(h)
  PROVE  HandlersTyped'
<1>1. CASE Arrive(h)
  <2>1. mix.kinds \subseteq Kind
    BY AccountMixAssumption DEF AllTyped, ClientsTyped
  <2>2. PICK k \in mix.kinds : \E m \in Requested(k) :
          handler' = [ g \in Handler |-> IF g = h THEN m
                                         ELSE [handler[g] EXCEPT !.doomed = @ \ {m.code}] ]
    BY <1>1 DEF Arrive
  <2>3. PICK m \in Requested(k) :
          handler' = [ g \in Handler |-> IF g = h THEN m
                                         ELSE [handler[g] EXCEPT !.doomed = @ \ {m.code}] ]
    BY <2>2
  <2>4. m \in HandlerRow
    BY <2>1, <2>2, <2>3, RequestsTyped
  <2>5. \A g \in Handler : [handler[g] EXCEPT !.doomed = @ \ {m.code}] \in HandlerRow
    <3> SUFFICES ASSUME NEW g \in Handler
                 PROVE  [handler[g] EXCEPT !.doomed = handler[g].doomed \ {m.code}] \in HandlerRow
      OBVIOUS
    <3>1. handler[g] \in HandlerRow
      BY DEF AllTyped, HandlersTyped
    <3>2. ASSUME NEW r \in HandlerRow
          PROVE  [r EXCEPT !.doomed = r.doomed \ {m.code}] \in HandlerRow
      BY DEF HandlerRow
    <3> QED
      BY <3>1, <3>2
  <2> QED
    BY <2>3, <2>4, <2>5 DEF HandlersTyped
<1>2. CASE ~Arrive(h)
  BY <1>2, StepGathers, IdleTyped DEF GathersOn, Gathers, Becomes, AllTyped, HandlersTyped
<1> QED
  BY <1>1, <1>2

(* An account that has been there stays, if only as one that is deleted. *)
LEMMA KnownStays ==
  ASSUME RowShape, NEW h \in Handler, AccountStep(h) \/ Hook(h), NEW a, Known(a)
  PROVE  Known(a)'
<1>1. CASE Register(h)
  <2>1. \/ account' = account
        \/ \E b \in Account : \E row : account[b].status = "free"
                                       /\ account' = [account EXCEPT ![b] = row]
    BY <1>1 DEF Register
  <2> QED
    BY <2>1 DEF RowShape, Known
<1>2. CASE Password(h)
  BY <1>2 DEF Password, RowShape, Known
<1>3. CASE Delete(h)
  BY <1>3 DEF Delete, RowShape, Known, people
<1>4. CASE Revoke(h) \/ OpenSession(h)
  BY <1>4 DEF Revoke, OpenSession, Known
<1> QED
  BY <1>1, <1>2, <1>3, <1>4, ElsewhereKeepsSessions DEF CredentialsStay, Known

LEMMA TurningsHaveLittle ==
  /\ \A t \in Aside \cup {<<>>} : \A x \in DOMAIN Served : ~Has(t, x)
  /\ Has(<<"dropGrants", "issue", "insert">>, "issue")
<1>1. \A x \in DOMAIN Served : "none" \notin Served[x]
  BY ServedAwaits DEF ByOwner
<1>2. Has(<<"dropGrants", "issue", "insert">>, "issue")
  BY DEF Has
<1> QED
  BY <1>1, <1>2, TurningsAreCourses DEF CourseOf

LEMMA MoverInformed ==
  ASSUME AllTyped, CodesOwned, RowShape, HandlerShape, StartShape, RowsKnown, Courses,
         HandlersInformed, NEW h \in Handler, AccountStep(h) \/ Hook(h), ~Arrive(h)
  PROVE  Informed(handler[h])'
<1> DEFINE n == handler'[h]
           o == handler[h]
           op == Head(o.todo)
<1>1. Moves(n, o) /\ (n = Idle \/ Gathers(n, o))
  BY HandlersAfter, StepGathers DEF GathersOn, Becomes, AllTyped, HandlersTyped
<1>2. CourseOf(o.kind, o.todo) /\ Informed(o) /\ o.todo \in Seq(Await)
  BY DEF Courses, HandlersInformed, HandlerShape, Orderly
<1>3. n = Idle \/ o.todo # <<>>
  BY DueSteps DEF Fail, Done, Becomes, HandlerShape
<1>4. \A a : Known(a) => Known(a)'
  BY KnownStays
<1>5. \A c : ResetCode(c) => ResetCode(c)'
  BY StepMovesRows DEF RowsMove
<1>6. o.todo # <<>> /\ op \in DOMAIN Served => o.kind \in Served[op]
  BY <1>2, HeadOrTail DEF CourseOf
<1> HIDE DEF n, o
<1>7. CASE n = Idle
  BY <1>7, IdleMarked DEF Informed, n, ByCode, ByOwner
<1>8. CASE n # Idle
  <2>1. n.kind = o.kind /\ o.todo # <<>>
    BY <1>1, <1>3, <1>8 DEF Moves
  <2>2. n.kind \in ByCode => n.code \in Challenge
    BY <1>1, <1>2, <1>8, <2>1 DEF Moves, Gathers, Informed
  <2>3. n.kind \in ByOwner => n.acct \in Account
    <3>1. op = "lookup" => o.kind \notin ByOwner
      BY <1>6, <2>1, ServedAwaits DEF ByOwner
    <3> QED
      BY <1>1, <1>2, <1>8, <2>1, <3>1 DEF Gathers, Informed, LearnsOwner, Known
  <2>4. \/ n.todo = Tail(o.todo)
        \/ n.todo = o.todo /\ op = "cancel"
        \/ n.todo \in Aside
        \/ n.todo = Unopposed(o) /\ op = "select"
    BY <1>1, <1>8 DEF Moves
  <2>5. n.kind \in {"registerBegin", "resetStart"}
        /\ (Has(n.todo, "select") \/ Has(n.todo, "insert"))
          => Has(n.todo, "issue") \/ n.code \in Challenge
    <3>1. op # "issue" => n.code = o.code
      BY <1>1, <1>8 DEF Moves
    <3>2. op = "issue" => n.code \in Challenge
      BY <1>1, <1>8 DEF Gathers
    <3>3. CASE n.todo = Tail(o.todo)
      BY <1>2, <2>1, <3>1, <3>2, <3>3, HeadOrTail DEF Informed
    <3>4. CASE n.todo = o.todo
      BY <1>2, <2>1, <3>1, <3>2, <3>4 DEF Informed
    <3>5. CASE n.todo \in Aside
      BY <3>5, TurningsHaveLittle, ServedAwaits
    <3>6. CASE n.todo = Unopposed(o) /\ op = "select"
      <4>1. CASE o.kind = "resetStart"
        BY <3>6, <4>1, TurningsHaveLittle DEF Unopposed
      <4>2. CASE o.kind = "registerBegin"
        <5>1. ~Has(o.todo, "issue") /\ Has(o.todo, "select")
          BY <1>2, <2>1, <3>6, <4>2, PrecedingStays, HeadOrTail DEF CourseOf
        <5> QED
          BY <1>2, <3>1, <3>6, <4>2, <5>1 DEF Informed
      <4> QED
        BY <2>1, <4>1, <4>2
    <3> QED
      BY <2>4, <3>3, <3>4, <3>5, <3>6
  <2>6. n.kind = "registerVerify" /\ Has(n.todo, "session")
          => Has(n.todo, "account") \/ n.saw \in AccountRow
    <3> SUFFICES ASSUME n.kind = "registerVerify", Has(n.todo, "session")
                 PROVE  Has(n.todo, "account") \/ n.saw \in AccountRow
      OBVIOUS
    <3>1. op # "user" /\ op # "select"
      BY <1>6, <2>1, ServedAwaits
    <3>2. op \notin {"account", "read"} => n.saw = o.saw
      BY <1>1, <1>8, <3>1 DEF Gathers, LearnsRow
    <3>3. op \in {"account", "read"} => n.saw \in AccountRow
      BY <1>1, <1>8 DEF Gathers
    <3>4. n.todo \notin Aside
      BY TurningsHaveLittle, ServedAwaits
    <3>5. CASE n.todo = Tail(o.todo)
      BY <1>2, <2>1, <3>2, <3>3, <3>5, HeadOrTail DEF Informed
    <3>6. CASE n.todo = o.todo
      BY <1>2, <2>1, <3>2, <3>3, <3>6 DEF Informed
    <3> QED
      BY <2>4, <3>1, <3>4, <3>5, <3>6
  <2>7. n.kind = "login" => Known(n.acct) /\ n.saw \in AccountRow
    <3> SUFFICES ASSUME n.kind = "login"
                 PROVE  Known(n.acct) /\ n.saw \in AccountRow
      OBVIOUS
    <3>1. op \notin {"lookup", "redeem", "account", "read"}
      BY <1>6, <2>1, ServedAwaits DEF ByOwner
    <3>2. CASE op = "user"
      BY <1>1, <1>8, <3>2 DEF Gathers
    <3>3. CASE op # "user"
      BY <1>1, <1>2, <1>8, <2>1, <3>1, <3>3 DEF Gathers, LearnsRow, LearnsOwner, Informed
    <3> QED
      BY <3>2, <3>3
  <2>8. n.kind = "resetStart" => n.acct \in Account
    <3> SUFFICES ASSUME n.kind = "resetStart"
                 PROVE  n.acct \in Account
      OBVIOUS
    <3>1. op # "lookup"
      BY <1>6, <2>1, ServedAwaits
    <3> QED
      BY <1>1, <1>2, <1>8, <2>1, <3>1 DEF Gathers, LearnsOwner, Informed, Known
  <2>9. n.kind = "resetVerify" => ResetCode(n.code)
    <3> SUFFICES ASSUME n.kind = "resetVerify"
                 PROVE  ResetCode(n.code)
      OBVIOUS
    <3>1. op # "issue"
      BY <1>6, <2>1, ServedAwaits
    <3> QED
      BY <1>1, <1>2, <1>8, <2>1, <3>1 DEF Gathers, Moves, Informed
  <2>10. n.kind = "resetComplete" => n.acct \in Account
    <3> SUFFICES ASSUME n.kind = "resetComplete"
                 PROVE  n.acct \in Account
      OBVIOUS
    <3>1. op # "lookup"
      BY <1>6, <2>1, ServedAwaits
    <3> QED
      BY <1>1, <1>2, <1>8, <2>1, <3>1 DEF Gathers, LearnsOwner, Informed, Known
  <2>11. n.kind = "enableTotp" => n.saw \in AccountRow /\ n.saw.secret \in Secret
    <3> SUFFICES ASSUME n.kind = "enableTotp"
                 PROVE  n.saw \in AccountRow /\ n.saw.secret \in Secret
      OBVIOUS
    <3>1. op \notin {"user", "account"}
      BY <1>6, <2>1, ServedAwaits
    <3> QED
      BY <1>1, <1>2, <1>8, <2>1, <3>1 DEF Gathers, LearnsRow, Informed
  <2> QED
    BY <1>4, <1>5, <2>2, <2>3, <2>5, <2>6, <2>7, <2>8, <2>9, <2>10, <2>11 DEF Informed, n
<1> QED
  BY <1>7, <1>8

LEMMA HandlersInformedKept ==
  ASSUME AllTyped, CodesOwned, RowShape, HandlerShape, StartShape, RowsKnown, Courses,
         HandlersInformed, NEW h \in Handler, AccountStep(h) \/ Hook(h)
  PROVE  HandlersInformed'
<1>1. \A a : Known(a) => Known(a)'
  BY KnownStays
<1>2. \A c : ResetCode(c) => ResetCode(c)'
  BY StepMovesRows DEF RowsMove
<1>3. ASSUME NEW g \in Handler, g # h
      PROVE  Informed(handler[g])'
  <2>1. \A f \in Marks : handler'[g][f] = handler[g][f]
    BY <1>3, HandlersAfter
  <2>2. handler'[g].saw = handler[g].saw
    <3>1. CASE Arrive(h)
      <4>1. PICK x : handler'[g] = [handler[g] EXCEPT !.doomed = x]
        BY <1>3, <3>1 DEF Arrive
      <4>2. handler[g] \in HandlerRow
        BY DEF AllTyped, HandlersTyped
      <4> QED
        BY <4>1, <4>2 DEF HandlerRow
    <3> QED
      BY <1>3, <3>1, HandlersAfter
  <2>3. Informed(handler[g])
    BY DEF HandlersInformed
  <2>4. /\ handler'[g].kind = handler[g].kind /\ handler'[g].todo = handler[g].todo
        /\ handler'[g].acct = handler[g].acct /\ handler'[g].code = handler[g].code
    BY <2>1 DEF Marks
  <2> QED
    BY <1>1, <1>2, <2>2, <2>3, <2>4 DEF Informed
<1>4. CASE Arrive(h)
  <2>1. PICK k \in mix.kinds : \E m \in Requested(k) : handler'[h] = m
    BY <1>4 DEF Arrive
  <2>2. k \in Kind /\ handler'[h] \in Requested(k)
    BY <2>1 DEF HandlerShape
  <2>3. /\ k \in ByCode => handler'[h].code \in Challenge
        /\ k \in ByOwner => handler'[h].acct \in Account
        /\ handler'[h].kind = k /\ handler'[h].todo = Script[k]
    BY <2>2, RequestsTyped, RequestsBegin DEF Begins
  <2>4. /\ k \in {"registerBegin", "resetStart"} => Has(Script[k], "issue")
        /\ k = "registerVerify" => Has(Script[k], "account")
        /\ k \in {"login", "resetStart"} => Head(Script[k]) = "user"
        /\ k = "resetVerify" => Head(Script[k]) = "lookup"
        /\ k = "resetComplete" => Head(Script[k]) = "redeem"
        /\ k = "enableTotp" => Head(Script[k]) = "read"
    <3>1. Has(RegisterBegin, "issue") /\ Has(ResetStart, "issue")
      BY DEF Has, RegisterBegin, ResetStart
    <3>2. Has(RegisterVerify, "account")
      BY DEF Has, RegisterVerify
    <3>3. /\ Head(Login) = "user" /\ Head(ResetStart) = "user" /\ Head(ResetVerify) = "lookup"
          /\ Head(ResetComplete) = "redeem" /\ Head(TotpEnable) = "read"
      BY DEF Login, ResetStart, ResetVerify, ResetComplete, TotpEnable
    <3> QED
      BY <3>1, <3>2, <3>3 DEF Script
  <2>5. Informed(handler[h])'
    BY <2>3, <2>4 DEF Informed
  <2> QED
    BY <1>3, <2>5 DEF HandlersInformed
<1>5. CASE ~Arrive(h)
  BY <1>3, <1>5, MoverInformed DEF HandlersInformed
<1> QED
  BY <1>4, <1>5

-----------------------------------------------------------------------------
(* The tables of codes keep their types.                                   *)

(* What the statements leave of the table: rows, and no new code of a      *)
(* reset but one that is issued.                                           *)
TableKept ==
  /\ challenge' \in [ Challenge -> ChallengeRow ]
  /\ \A c \in Challenge : ResetCode(c)' => ResetCode(c) \/ challenge'[c].acct \in Account

LEMMA StatementsTyped ==
  ASSUME challenge \in [ Challenge -> ChallengeRow ],
         \/ challenge' = challenge
         \/ \E d \in Challenge : \E k \in CodeKind : \E e \in Email \cup {NoEmail} :
              \E a \in Account \cup {NoAccount} :
                /\ challenge' = Issued(challenge, d, k, e, a)
                /\ k = "reset" => a \in Account
         \/ \E D : challenge' = Removed(challenge, D)
         \/ \E d : challenge' = Missed(challenge, d)
         \/ \E d \in Challenge : /\ challenge[d].status # "unused"
                                 /\ challenge' = Expired(challenge, d)
  PROVE  TableKept
<1>1. CASE challenge' = challenge
  BY <1>1 DEF TableKept, ResetCode
<1>2. ASSUME NEW d \in Challenge, NEW k \in CodeKind, NEW e \in Email \cup {NoEmail},
             NEW a \in Account \cup {NoAccount}, challenge' = Issued(challenge, d, k, e, a),
             k = "reset" => a \in Account
      PROVE  TableKept
  <2> DEFINE row == [ status |-> "live", kind |-> k, email |-> e, acct |-> a, attempts |-> 0 ]
  <2>1. challenge' = [challenge EXCEPT ![d] = row]
    BY <1>2 DEF Issued
  <2>2. row \in ChallengeRow /\ row.kind = k /\ row.acct = a
    BY DEF ChallengeRow
  <2> HIDE DEF row
  <2> QED
    BY <1>2, <2>1, <2>2 DEF TableKept, ResetCode
<1>3. ASSUME NEW D, challenge' = Removed(challenge, D)
      PROVE  TableKept
  <2> DEFINE off(r) == [r EXCEPT !.status = "gone"]
  <2>1. \A r \in ChallengeRow : off(r) \in ChallengeRow /\ off(r).kind = r.kind
    BY DEF ChallengeRow
  <2>2. challenge' = [ c \in Challenge |-> IF c \in D /\ challenge[c].status = "live"
                                           THEN off(challenge[c]) ELSE challenge[c] ]
    BY <1>3 DEF Removed, Found
  <2> HIDE DEF off
  <2>3. \A c \in Challenge : /\ challenge'[c] \in ChallengeRow
                             /\ ResetCode(c)' => ResetCode(c)
    BY <2>1, <2>2 DEF ResetCode
  <2> QED
    BY <2>2, <2>3 DEF TableKept
<1>4. ASSUME NEW d, challenge' = Missed(challenge, d)
      PROVE  TableKept
  <2> DEFINE row == [challenge[d] EXCEPT !.attempts = @ + 1]
  <2>1. CASE challenge' = challenge
    BY <1>1, <2>1
  <2>2. CASE d \in Challenge /\ challenge' = [challenge EXCEPT ![d] = row]
    <3>1. /\ row \in ChallengeRow /\ row.kind = challenge[d].kind
          /\ row.status = challenge[d].status
      BY <2>2 DEF ChallengeRow
    <3> HIDE DEF row
    <3> QED
      BY <2>2, <3>1 DEF TableKept, ResetCode
  <2>3. CASE d \notin Challenge
    <3>1. challenge' = challenge
      BY <1>4, <2>3 DEF Missed
    <3> QED
      BY <1>1, <3>1
  <2> QED
    BY <1>4, <2>1, <2>2, <2>3 DEF Missed
<1>5. ASSUME NEW d \in Challenge, challenge[d].status # "unused",
             challenge' = Expired(challenge, d)
      PROVE  TableKept
  <2> DEFINE row == [challenge[d] EXCEPT !.status = "expired"]
  <2>1. row \in ChallengeRow /\ row.kind = challenge[d].kind
    BY DEF ChallengeRow
  <2>2. challenge' = [challenge EXCEPT ![d] = row]
    BY <1>5 DEF Expired
  <2> HIDE DEF row
  <2> QED
    BY <1>5, <2>1, <2>2 DEF TableKept, ResetCode
<1> QED
  BY <1>1, <1>2, <1>3, <1>4, <1>5

LEMMA StepKeepsTable ==
  ASSUME AllTyped, Courses, HandlersInformed, HandlerShape,
         NEW h \in Handler, AccountStep(h) \/ Hook(h)
  PROVE  TableKept
<1>1. challenge \in [ Challenge -> ChallengeRow ] /\ handler[h] \in HandlerRow
  BY DEF AllTyped, CodesTyped, HandlersTyped
<1>2. CASE Issue(h)
  <2> DEFINE m == handler[h]
  <2>1. m.email \in Email \cup {NoEmail} /\ m.acct \in Account \cup {NoAccount}
    BY <1>1 DEF HandlerRow
  <2>2. CodeOf(m.kind) \in CodeKind
    BY DEF CodeOf, CodeKind
  <2>3. CodeOf(m.kind) = "reset" => m.acct \in Account
    <3>1. m.todo # <<>> /\ Head(m.todo) = "issue" /\ m.todo \in Seq(Await)
      BY <1>1, <1>2 DEF Issue, At, HandlerRow
    <3>2. m.kind \in {"registerBegin", "resetStart", "emailBegin"}
      BY <3>1, HeadOrTail, ServedAwaits DEF Courses, CourseOf
    <3> QED
      BY <3>1, <3>2 DEF CodeOf, Registers, HandlersInformed, Informed
  <2>4. \E d \in Challenge : challenge' = Issued(challenge, d, CodeOf(m.kind), m.email, m.acct)
    BY <1>2 DEF Issue
  <2> HIDE DEF m
  <2> QED
    BY <1>1, <2>1, <2>2, <2>3, <2>4, StatementsTyped
<1>3. CASE Cancel(h)
  <2>1. \E d : challenge' = challenge \/ challenge' = Removed(challenge, {d})
    BY <1>3 DEF Cancel
  <2> QED
    BY <1>1, <2>1, StatementsTyped
<1>4. CASE Miss(h)
  <2>1. challenge' = Missed(challenge, handler[h].code)
    BY <1>4 DEF Miss
  <2> QED
    BY <1>1, <2>1, StatementsTyped
<1>5. CASE Discard(h) \/ Consume(h)
  <2>1. challenge' = challenge \/ challenge' = Removed(challenge, {handler[h].code})
    BY <1>5 DEF Discard, Consume
  <2> QED
    BY <1>1, <2>1, StatementsTyped
<1>6. CASE ~(Issue(h) \/ Cancel(h) \/ Miss(h) \/ Discard(h) \/ Consume(h))
  <2>1. CASE \/ DropGrants(h) \/ Grant(h) \/ Redeem(h) \/ Register(h) \/ Password(h)
             \/ ChangeEmail(h) \/ Purge(h) \/ Insert(h) \/ Forget(h)
    BY <1>1, <2>1, StatementsTyped DEF DropGrants, Grant, Redeem, Register, Password,
       ChangeEmail, Purge, Insert, Forget, codes
  <2> QED
    BY <1>1, <1>6, <2>1, ElsewhereRests, StatementsTyped
<1> QED
  BY <1>2, <1>3, <1>4, <1>5, <1>6

(* Effects are counted.                                                    *)
LEMMA EffectsTyped ==
  ASSUME effects \in [ Challenge -> Nat ], NEW h \in Handler, AccountStep(h) \/ Hook(h)
  PROVE  effects' \in [ Challenge -> Nat ]
<1>1. CASE Register(h) \/ Password(h) \/ ChangeEmail(h)
  <2>1. effects' = effects \/ effects' = [effects EXCEPT ![handler[h].code] = @ + 1]
    BY <1>1 DEF Register, Password, ChangeEmail
  <2> QED
    BY <2>1
<1>2. CASE \/ Issue(h) \/ Cancel(h) \/ Miss(h) \/ Discard(h) \/ Consume(h) \/ DropGrants(h)
           \/ Grant(h) \/ Redeem(h) \/ Purge(h) \/ Insert(h) \/ Forget(h)
  BY <1>2 DEF Issue, Cancel, Miss, Discard, Consume, DropGrants, Grant, Redeem, Purge, Insert,
     Forget, codeHistory
<1> QED
  BY <1>1, <1>2, ElsewhereRests

(* Who enters a code has one: its own, issued before, or that of a reset   *)
(* it has verified.                                                        *)
LEMMA EnteredCodes ==
  ASSUME AllTyped, Courses, HandlersInformed, NEW h \in Handler
  PROVE  /\ At(h, "insert") => handler[h].code \in Challenge
         /\ At(h, "grant") => ResetCode(handler[h].code)
<1> DEFINE m == handler[h]
<1>1. m.todo \in Seq(Await) /\ CourseOf(m.kind, m.todo) /\ Informed(m)
  BY DEF AllTyped, HandlersTyped, HandlerRow, Courses, HandlersInformed
<1>2. ASSUME At(h, "insert")
      PROVE  m.code \in Challenge
  <2>1. m.todo # <<>> /\ Head(m.todo) = "insert"
    BY <1>2 DEF At
  <2>2. Has(m.todo, "insert") /\ ~Has(m.todo, "issue")
    BY <1>1, <2>1, HeadOrTail, PrecedingStays DEF CourseOf
  <2>3. m.kind \in {"registerBegin", "resetStart"}
    BY <1>1, <2>2, ServedAwaits DEF CourseOf
  <2> QED
    BY <1>1, <2>2, <2>3 DEF Informed
<1>3. ASSUME At(h, "grant")
      PROVE  ResetCode(m.code)
  <2>1. m.todo # <<>> /\ Head(m.todo) = "grant"
    BY <1>3 DEF At
  <2>2. m.kind = "resetVerify"
    BY <1>1, <2>1, HeadOrTail, ServedAwaits DEF CourseOf
  <2> QED
    BY <1>1, <2>1, <2>2 DEF Informed
<1> QED
  BY <1>2, <1>3

LEMMA CodesKept ==
  ASSUME AllTyped, CodesOwned, RowsKnown, Courses, HandlersInformed, HandlerShape,
         NEW h \in Handler, AccountStep(h) \/ Hook(h)
  PROVE  CodesTyped' /\ CodesOwned'
<1>1. TableKept /\ RowsMove /\ Enters(h)
  BY StepKeepsTable, StepMovesRows, StepEnters
<1>2. effects' \in [ Challenge -> Nat ]
  BY EffectsTyped DEF AllTyped, CodesTyped
<1>3. pending' \subseteq Challenge /\ grants' \subseteq Challenge
  BY <1>1, EnteredCodes DEF Enters, AllTyped, CodesTyped, ResetCode
<1>4. retired' \subseteq Challenge
  <2>1. handler[h].doomed \subseteq Challenge
    BY DEF AllTyped, HandlersTyped, HandlerRow
  <2> QED
    BY <1>1, <2>1 DEF Enters, DropGrants, AllTyped, CodesTyped
<1>5. CodesTyped'
  BY <1>1, <1>2, <1>3, <1>4 DEF CodesTyped, TableKept
<1>6. \A c \in grants' : ResetCode(c)'
  <2>1. \A c \in grants' : ResetCode(c)
    BY <1>1, EnteredCodes DEF Enters, CodesOwned
  <2> QED
    BY <1>1, <2>1 DEF RowsMove
<1>7. \A c \in Challenge : ResetCode(c)' => challenge'[c].acct \in Account
  BY <1>1 DEF TableKept, RowsMove, CodesOwned
<1> QED
  BY <1>5, <1>6, <1>7 DEF CodesOwned

-----------------------------------------------------------------------------
(* The tables of people keep their types.                                  *)

(* A write that changes nothing, or a row into one. *)
AccountsTyped == account' \in [ Account -> AccountRow ]

LEMMA TotpTyped ==
  ASSUME account \in [ Account -> AccountRow ], NEW h, NEW secret, NEW sealed, NEW enabled,
         WriteTotp(h, secret, sealed, enabled),
         Live(handler[h].acct) =>
           secret \in Secret \cup {NoSecret} /\ sealed \in BOOLEAN /\ enabled \in BOOLEAN
  PROVE  AccountsTyped
<1> DEFINE b == handler[h].acct
           row == [account[b] EXCEPT !.secret = secret, !.sealed = sealed, !.enabled = enabled]
<1>1. CASE account' = account
  BY <1>1 DEF AccountsTyped
<1>2. CASE Live(b) /\ account' = [account EXCEPT ![b] = row]
  <2>1. b \in Account /\ account[b] \in AccountRow
    BY <1>2 DEF Live
  <2>2. row \in AccountRow
    BY <1>2, <2>1 DEF AccountRow
  <2> HIDE DEF row
  <2> QED
    BY <1>2, <2>1, <2>2 DEF AccountsTyped
<1>3. account' = account \/ (Live(b) /\ account' = [account EXCEPT ![b] = row])
  BY DEF WriteTotp
<1> QED
  BY <1>1, <1>2, <1>3

LEMMA FactorStepsTyped ==
  ASSUME AllTyped, NEW h \in Handler, SetupTotp(h) \/ EnableTotp(h) \/ DisableTotp(h) \/ Reseal(h)
  PROVE  AccountsTyped
<1> DEFINE b == handler[h].acct
           row == account[b]
<1>1. account \in [ Account -> AccountRow ]
  BY DEF AllTyped, PeopleTyped
<1>2. Live(b) => /\ row.secret \in Secret \cup {NoSecret}
                 /\ row.sealed \in BOOLEAN /\ row.enabled \in BOOLEAN
  BY <1>1 DEF Live, AccountRow
<1>3. CASE SetupTotp(h)
  <2>1. PICK secret \in Secret \ generated : \E sealed \in BOOLEAN :
          WriteTotp(h, secret, sealed, FALSE)
    BY <1>3 DEF SetupTotp
  <2> QED
    BY <1>1, <2>1, TotpTyped
<1>4. CASE EnableTotp(h)
  <2>1. WriteTotp(h, row.secret, row.sealed, TRUE)
    BY <1>4 DEF EnableTotp
  <2> HIDE DEF row
  <2> QED
    BY <1>1, <1>2, <2>1, TotpTyped
<1>5. CASE DisableTotp(h)
  <2>1. WriteTotp(h, NoSecret, FALSE, FALSE)
    BY <1>5 DEF DisableTotp
  <2> QED
    BY <1>1, <2>1, TotpTyped
<1>6. CASE Reseal(h)
  <2>1. \/ /\ row.secret = handler[h].saw.secret
           /\ WriteTotp(h, handler[h].saw.secret, TRUE, row.enabled)
        \/ account' = account
    BY <1>6 DEF Reseal, Untouched, people
  <2> HIDE DEF row
  <2> QED
    BY <1>1, <1>2, <2>1, TotpTyped DEF AccountsTyped
<1> QED
  BY <1>3, <1>4, <1>5, <1>6

LEMMA StepKeepsAccounts ==
  ASSUME AllTyped, NEW h \in Handler, AccountStep(h) \/ Hook(h)
  PROVE  AccountsTyped
<1> DEFINE m == handler[h]
           b == m.acct
<1>1. account \in [ Account -> AccountRow ] /\ m \in HandlerRow
  BY DEF AllTyped, PeopleTyped, HandlersTyped
<1>2. m.email \in Email \cup {NoEmail}
  BY <1>1 DEF HandlerRow
<1>3. CASE Register(h)
  <2>1. [Fresh EXCEPT !.status = "live", !.email = m.email] \in AccountRow
    BY <1>2 DEF Fresh, AccountRow
  <2>2. \/ account' = account
        \/ \E a \in Account :
             account' = [account EXCEPT ![a] = [Fresh EXCEPT !.status = "live", !.email = m.email]]
    BY <1>3 DEF Register
  <2> HIDE DEF m
  <2> QED
    BY <1>1, <2>1, <2>2 DEF AccountsTyped
<1>4. CASE Password(h)
  <2> DEFINE row == [account[b] EXCEPT !.password = @ + 1]
  <2>1. account' = account \/ (Live(b) /\ account' = [account EXCEPT ![b] = row])
    BY <1>4 DEF Password
  <2>2. Live(b) => row \in AccountRow
    BY <1>1 DEF Live, AccountRow
  <2> HIDE DEF row
  <2> QED
    BY <1>1, <2>1, <2>2 DEF AccountsTyped
<1>5. CASE Delete(h)
  <2> DEFINE row == [account[b] EXCEPT !.status = "deleted"]
  <2>1. account' = account \/ (Live(b) /\ account' = [account EXCEPT ![b] = row])
    BY <1>5 DEF Delete, people
  <2>2. Live(b) => row \in AccountRow
    BY <1>1 DEF Live, AccountRow
  <2> HIDE DEF row
  <2> QED
    BY <1>1, <2>1, <2>2 DEF AccountsTyped
<1>6. CASE ChangeEmail(h)
  <2> DEFINE row == [account[b] EXCEPT !.email = m.email]
  <2>1. account' = account \/ (Live(b) /\ account' = [account EXCEPT ![b] = row])
    BY <1>6 DEF ChangeEmail
  <2>2. Live(b) => row \in AccountRow
    BY <1>1, <1>2 DEF Live, AccountRow
  <2> HIDE DEF row
  <2> QED
    BY <1>1, <2>1, <2>2 DEF AccountsTyped
<1>7. CASE SetupTotp(h) \/ EnableTotp(h) \/ DisableTotp(h) \/ Reseal(h)
  BY <1>7, FactorStepsTyped
<1>8. CASE \/ Arrive(h) \/ Fail(h) \/ Skip(h) \/ User(h) \/ Select(h) \/ Purge(h) \/ Cancel(h)
           \/ DropGrants(h) \/ Issue(h) \/ Insert(h) \/ Exists(h) \/ Lookup(h) \/ Find(h)
  BY <1>1, <1>8 DEF Arrive, Fail, Skip, User, Select, Purge, Cancel, DropGrants, Issue, Insert,
     Exists, Lookup, Find, people, AccountsTyped
<1>9. CASE \/ Miss(h) \/ Discard(h) \/ Consume(h) \/ Redeem(h) \/ Forget(h) \/ Grant(h)
           \/ Read(h) \/ Log(h) \/ Hook(h) \/ Lockout(h) \/ Failure(h) \/ Clear(h)
           \/ Revoke(h) \/ OpenSession(h)
  BY <1>1, <1>9 DEF Miss, Discard, Consume, Redeem, Forget, Grant, Read, Log, Hook, Lockout,
     Failure, Clear, Revoke, OpenSession, people, AccountsTyped
<1> QED
  BY <1>3, <1>4, <1>5, <1>6, <1>7, <1>8, <1>9 DEF AccountStep

(* The security rows, and the wrong answers counted beside them.           *)
LogsTyped == log' \in [ Account -> LogRow \cup {NoLog} ] /\ wrong' \in [ Account -> Nat ]

LEMMA FailedTyped ==
  Clean \in LogRow /\ \A row \in LogRow \cup {NoLog} : Failed(row) \in LogRow
<1>1. Clean \in LogRow /\ [Clean EXCEPT !.failures = 1] \in LogRow
  BY DEF Clean, LogRow
<1>2. ASSUME NEW row \in LogRow
      PROVE  /\ [ failures |-> 0, locked |-> TRUE ] \in LogRow
             /\ [ failures |-> row.failures + 1, locked |-> FALSE ] \in LogRow
  BY <1>2 DEF LogRow
<1> QED
  BY <1>1, <1>2 DEF Failed

LEMMA ElsewhereKeepsLogs ==
  ASSUME NEW h, AccountStep(h) \/ Hook(h),
         ~Log(h), ~Delete(h), ~Failure(h), ~Clear(h), ~Lockout(h), ~Fail(h)
  PROVE  UNCHANGED <<log, wrong>>
<1>1. CASE \/ Arrive(h) \/ Skip(h) \/ User(h) \/ Select(h) \/ Purge(h) \/ Cancel(h)
           \/ DropGrants(h) \/ Issue(h) \/ Insert(h) \/ Exists(h) \/ Lookup(h) \/ Find(h)
           \/ Miss(h) \/ Discard(h) \/ Consume(h) \/ Redeem(h) \/ Forget(h) \/ Grant(h)
  BY <1>1 DEF Arrive, Skip, User, Select, Purge, Cancel, DropGrants, Issue, Insert,
     Exists, Lookup, Find, Miss, Discard, Consume, Redeem, Forget, Grant, people, accountHistory
<1>2. CASE \/ Register(h) \/ Read(h) \/ Password(h) \/ Revoke(h) \/ ChangeEmail(h)
           \/ OpenSession(h) \/ Hook(h)
           \/ SetupTotp(h) \/ EnableTotp(h) \/ DisableTotp(h) \/ Reseal(h)
  BY <1>2 DEF Register, Read, Password, Revoke, ChangeEmail, OpenSession, Hook, SetupTotp,
     EnableTotp, DisableTotp, Reseal, WriteTotp, people, accountHistory
<1> QED
  BY <1>1, <1>2 DEF AccountStep

LEMMA StepKeepsLogs ==
  ASSUME AllTyped, NEW h \in Handler, AccountStep(h) \/ Hook(h)
  PROVE  LogsTyped
<1> DEFINE b == handler[h].acct
<1>1. log \in [ Account -> LogRow \cup {NoLog} ] /\ wrong \in [ Account -> Nat ]
  BY DEF AllTyped, PeopleTyped
<1>2. CASE Log(h) \/ Delete(h) \/ Failure(h)
  <2>1. wrong' = wrong
    BY <1>2 DEF Log, Delete, Failure, accountHistory
  <2>2. \/ log' = log
        \/ \E row \in {Clean, NoLog, log[b], Failed(log[b])} : log' = [log EXCEPT ![b] = row]
    BY <1>2 DEF Log, Delete, Failure, people
  <2>3. b \in Account => Failed(log[b]) \in LogRow /\ log[b] \in LogRow \cup {NoLog}
    BY <1>1, FailedTyped
  <2> HIDE DEF b
  <2> QED
    BY <1>1, <2>1, <2>2, <2>3, FailedTyped DEF LogsTyped
<1>3. CASE Clear(h)
  <2>1. /\ log' = log \/ log' = [log EXCEPT ![b] = Clean]
        /\ wrong' = [wrong EXCEPT ![b] = 0]
    BY <1>3 DEF Clear
  <2> HIDE DEF b
  <2> QED
    BY <1>1, <2>1, FailedTyped DEF LogsTyped
<1>4. CASE Lockout(h)
  <2>1. log' = log /\ (wrong' = wrong \/ wrong' = [wrong EXCEPT ![b] = @ + 1])
    BY <1>4 DEF Lockout, people
  <2> HIDE DEF b
  <2> QED
    BY <1>1, <2>1 DEF LogsTyped
<1>5. CASE Fail(h)
  <2>1. /\ log' = log
        /\ \/ wrong' = wrong
           \/ wrong[b] > 0 /\ wrong' = [wrong EXCEPT ![b] = @ - 1]
    BY <1>5 DEF Fail, people
  <2> HIDE DEF b
  <2> QED
    BY <1>1, <2>1 DEF LogsTyped
<1> QED
  BY <1>1, <1>2, <1>3, <1>4, <1>5, ElsewhereKeepsLogs DEF LogsTyped

(* Who is to revoke has an account. *)
LEMMA RevokerKnown ==
  ASSUME HandlerShape, SetterShape, HandlersInformed, HandlersTyped, NEW h \in Handler,
         Revoking(handler[h]) \/ At(h, "revoke")
  PROVE  handler[h].acct \in Account
<1> DEFINE m == handler[h]
<1>1. /\ m.todo \in Seq(Await) /\ Informed(m)
      /\ m.kind \in {"resetComplete", "changePassword"} \/ Harmless(m.todo)
  BY DEF HandlersTyped, HandlerRow, HandlersInformed, SetterShape
<1>2. m.todo # <<>> /\ Head(m.todo) \in {"log", "revoke"}
  <2>1. CASE Revoking(m)
    BY <1>1, <2>1, RevokersStand, SettersGoOn
  <2>2. CASE At(h, "revoke")
    BY <2>2 DEF At
  <2> QED
    BY <2>1, <2>2
<1>3. ~Harmless(m.todo)
  <2>1. CASE Revoking(m)
    BY <1>1, <2>1 DEF Revoking, Harmless
  <2>2. CASE At(h, "revoke")
    BY <1>1, <2>2, HeadAndTail DEF At, Harmless
  <2> QED
    BY <2>1, <2>2
<1> QED
  BY <1>1, <1>2, <1>3 DEF Informed, ByOwner

(* Whose enable it is, and what it has been shown. *)
LEMMA EnablerInformed ==
  ASSUME AllTyped, Courses, HandlersInformed, NEW h \in Handler, At(h, "enable")
  PROVE  handler[h].acct \in Account /\ handler[h].saw.secret \in Secret
<1> DEFINE m == handler[h]
<1>1. m.todo \in Seq(Await) /\ CourseOf(m.kind, m.todo) /\ Informed(m)
  BY DEF AllTyped, HandlersTyped, HandlerRow, Courses, HandlersInformed
<1>2. m.todo # <<>> /\ Head(m.todo) = "enable"
  BY DEF At
<1>3. m.kind = "enableTotp"
  BY <1>1, <1>2, HeadOrTail, ServedAwaits DEF CourseOf
<1> QED
  BY <1>1, <1>2, <1>3 DEF Informed, ByOwner

(* Who opens a session has read its account. *)
LEMMA OpenerInformed ==
  ASSUME AllTyped, Courses, HandlersInformed, NEW h \in Handler, At(h, "session")
  PROVE  handler[h].saw \in AccountRow
<1> DEFINE m == handler[h]
<1>1. m.todo \in Seq(Await) /\ CourseOf(m.kind, m.todo) /\ Informed(m)
  BY DEF AllTyped, HandlersTyped, HandlerRow, Courses, HandlersInformed
<1>2. m.todo # <<>> /\ Head(m.todo) = "session"
  BY DEF At
<1>3. Has(m.todo, "session") /\ ~Has(m.todo, "account")
  BY <1>1, <1>2, HeadOrTail, PrecedingStays DEF CourseOf
<1>4. m.kind \in {"login", "registerVerify"}
  BY <1>1, <1>3, ServedAwaits DEF CourseOf
<1> QED
  BY <1>1, <1>2, <1>3, <1>4 DEF Informed

HistoriesTyped ==
  /\ unrevoked' \subseteq Account /\ clobbered' \subseteq Account
  /\ generated' \subseteq Secret /\ proven' \subseteq Secret

LEMMA StepKeepsHistories ==
  ASSUME AllTyped, Courses, HandlersInformed, HandlerShape, SetterShape,
         NEW h \in Handler, AccountStep(h) \/ Hook(h)
  PROVE  HistoriesTyped
<1>1. /\ unrevoked \subseteq Account /\ clobbered \subseteq Account
      /\ generated \subseteq Secret /\ proven \subseteq Secret /\ HandlersTyped
  BY DEF AllTyped, PeopleTyped
<1>2. CASE Fail(h) \/ Skip(h) \/ Log(h)
  <2>1. UNCHANGED totpHistory
    BY <1>2 DEF Fail, Skip, Log
  <2>2. \/ unrevoked' = unrevoked
        \/ unrevoked' = unrevoked \cup { a \in {handler[h].acct} : Revoking(handler[h]) }
        \/ unrevoked' = unrevoked \cup { a \in {handler[h].acct} : At(h, "revoke") }
    BY <1>2 DEF Fail, Skip, Log
  <2>3. unrevoked' \subseteq Account
    BY <1>1, <2>2, RevokerKnown
  <2> QED
    BY <1>1, <2>1, <2>3 DEF totpHistory, HistoriesTyped
<1>3. CASE EnableTotp(h)
  <2>1. /\ At(h, "enable") /\ unrevoked' = unrevoked /\ generated' = generated
        /\ proven' = proven \cup {handler[h].saw.secret}
        /\ clobbered' \subseteq clobbered \cup {handler[h].acct}
    BY <1>3 DEF EnableTotp, WriteTotp
  <2> QED
    BY <1>1, <2>1, EnablerInformed DEF HistoriesTyped
<1>4. CASE SetupTotp(h) \/ DisableTotp(h) \/ Reseal(h)
  BY <1>1, <1>4 DEF SetupTotp, DisableTotp, Reseal, WriteTotp, totpHistory, HistoriesTyped
<1>5. CASE Revoke(h) \/ Clear(h) \/ Lockout(h)
  BY <1>1, <1>5 DEF Revoke, Clear, Lockout, totpHistory, HistoriesTyped
<1>6. CASE \/ Arrive(h) \/ User(h) \/ Select(h) \/ Purge(h) \/ Cancel(h)
           \/ DropGrants(h) \/ Issue(h) \/ Insert(h) \/ Exists(h) \/ Lookup(h) \/ Find(h)
           \/ Miss(h) \/ Discard(h) \/ Consume(h) \/ Redeem(h) \/ Forget(h) \/ Grant(h)
  BY <1>1, <1>6 DEF Arrive, User, Select, Purge, Cancel, DropGrants, Issue, Insert, Exists,
     Lookup, Find, Miss, Discard, Consume, Redeem, Forget, Grant, accountHistory, totpHistory,
     HistoriesTyped
<1>7. CASE \/ Register(h) \/ Read(h) \/ Password(h) \/ Delete(h) \/ ChangeEmail(h) \/ Failure(h)
           \/ OpenSession(h) \/ Hook(h)
  BY <1>1, <1>7 DEF Register, Read, Password, Delete, ChangeEmail, Failure, OpenSession, Hook,
     accountHistory, totpHistory, HistoriesTyped
<1> QED
  BY <1>2, <1>3, <1>4, <1>5, <1>6, <1>7 DEF AccountStep

(* An id is left: those in use are no more than sessions and handlers.     *)
LEMMA FreshIdIsNat ==
  ASSUME AllTyped
  PROVE  FreshId \in Nat
<1> DEFINE K == Cardinality(sessions) + Cardinality(Handler)
           ids == { s.id : s \in sessions }
           held == { handler[g].current : g \in Handler }
           idOf == [ s \in sessions |-> s.id ]
           heldBy == [ g \in Handler |-> handler[g].current ]
<1>1. IsFiniteSet(sessions) /\ IsFiniteSet(Handler)
  BY FiniteAssumption DEF AllTyped, PeopleTyped
<1>2. Cardinality(sessions) \in Nat /\ Cardinality(Handler) \in Nat /\ K \in Nat
  BY <1>1, FS_CardinalityType
<1>3. IsFiniteSet(ids) /\ Cardinality(ids) <= Cardinality(sessions)
  <2>1. idOf \in Surjection(sessions, ids)
    BY DEF Surjection
  <2> HIDE DEF ids, idOf
  <2> QED
    BY <1>1, <2>1, FS_Surjection
<1>4. IsFiniteSet(held) /\ Cardinality(held) <= Cardinality(Handler)
  <2>1. heldBy \in Surjection(Handler, held)
    BY DEF Surjection
  <2> HIDE DEF held, heldBy
  <2> QED
    BY <1>1, <2>1, FS_Surjection
<1>5. \A n \in ids : \E s \in sessions : n = s.id
  OBVIOUS
<1>6. \A n \in held : \E g \in Handler : n = handler[g].current
  OBVIOUS
<1>7. (\A s \in sessions : s.id \in ids) /\ \A g \in Handler : handler[g].current \in held
  OBVIOUS
<1> HIDE DEF ids, held
<1>8. IsFiniteSet(ids \cup held) /\ Cardinality(ids \cup held) <= K
  <2>1. IsFiniteSet(ids \cap held) /\ ids \cap held \in SUBSET ids
    BY <1>3, FS_Subset
  <2>2. /\ Cardinality(ids \cap held) \in Nat /\ Cardinality(ids) \in Nat
        /\ Cardinality(held) \in Nat
    BY <1>3, <1>4, <2>1, FS_CardinalityType
  <2>3. /\ IsFiniteSet(ids \cup held)
        /\ Cardinality(ids \cup held)
             = Cardinality(ids) + Cardinality(held) - Cardinality(ids \cap held)
    BY <1>3, <1>4, FS_Union
  <2> QED
    BY <1>2, <1>3, <1>4, <2>2, <2>3
<1>9. IsFiniteSet(0 .. K) /\ Cardinality(0 .. K) = K + 1
  BY <1>2, FS_Interval
<1>10. \E n \in 0 .. K : n \notin ids \cup held
  <2> SUFFICES ASSUME 0 .. K \subseteq ids \cup held
               PROVE  FALSE
    OBVIOUS
  <2>1. Cardinality(0 .. K) <= Cardinality(ids \cup held)
    BY <1>8, FS_Subset
  <2>2. Cardinality(ids \cup held) \in Nat
    BY <1>8, FS_CardinalityType
  <2> HIDE DEF K
  <2> QED
    BY <1>2, <1>8, <1>9, <2>1, <2>2
<1>11. \E n \in 0 .. K : /\ \A s \in sessions : s.id # n
                        /\ \A g \in Handler : handler[g].current # n
  BY <1>7, <1>10
<1>12. FreshId \in 0 .. K
  BY <1>11 DEF FreshId
<1> QED
  BY <1>2, <1>12

SessionsTyped == sessions' \subseteq SessionRow /\ IsFiniteSet(sessions')

LEMMA StepKeepsSessionRows ==
  ASSUME AllTyped, Courses, HandlersInformed, RowShape,
         NEW h \in Handler, AccountStep(h) \/ Hook(h)
  PROVE  SessionsTyped
<1> DEFINE m == handler[h]
           b == m.acct
<1>1. sessions \subseteq SessionRow /\ IsFiniteSet(sessions)
  BY DEF AllTyped, PeopleTyped
<1>2. CASE Revoke(h)
  <2> DEFINE keep(s) == [s EXCEPT !.kept = TRUE]
             mine == { t \in sessions : t.acct = b /\ t.id = m.current }
             others == { s \in sessions : s.acct # b }
             kept == { keep(s) : s \in mine }
             keepAll == [ s \in mine |-> keep(s) ]
  <2>1. sessions' = others \cup kept
    BY <1>2 DEF Revoke
  <2>2. \A s \in SessionRow : keep(s) \in SessionRow
    BY DEF SessionRow
  <2> HIDE DEF keep
  <2>3. kept \subseteq SessionRow
    BY <1>1, <2>2
  <2>4. keepAll \in Surjection(mine, kept)
    BY DEF Surjection
  <2>5. mine \in SUBSET sessions /\ others \in SUBSET sessions
    OBVIOUS
  <2> HIDE DEF mine, others, kept, keepAll
  <2>6. IsFiniteSet(mine) /\ IsFiniteSet(others)
    BY <1>1, <2>5, FS_Subset
  <2>7. IsFiniteSet(kept)
    BY <2>4, <2>6, FS_Surjection
  <2>8. IsFiniteSet(others \cup kept)
    BY <2>6, <2>7, FS_Union
  <2> QED
    BY <1>1, <2>1, <2>3, <2>5, <2>8 DEF SessionsTyped
<1>3. CASE Delete(h)
  <2>1. sessions' \in SUBSET sessions
    BY <1>3 DEF Delete, people
  <2>2. IsFiniteSet(sessions')
    BY <1>1, <2>1, FS_Subset
  <2> QED
    BY <1>1, <2>1, <2>2 DEF SessionsTyped
<1>4. CASE OpenSession(h)
  <2> DEFINE row == [ id |-> FreshId, acct |-> m.acct, password |-> m.saw.password,
                      stale |-> m.saw.password # account[m.acct].password, kept |-> FALSE ]
  <2>1. sessions' = sessions \/ (Live(b) /\ sessions' = sessions \cup {row})
    BY <1>4 DEF OpenSession
  <2>2. m.saw.password \in Nat
    BY <1>4, OpenerInformed DEF OpenSession, AccountRow
  <2>3. Live(b) => row \in SessionRow
    <3>1. FreshId \in Nat
      BY FreshIdIsNat
    <3> HIDE DEF m
    <3> QED
      BY <2>2, <3>1 DEF SessionRow, Live
  <2> HIDE DEF row
  <2>4. IsFiniteSet(sessions \cup {row})
    BY <1>1, FS_AddElement
  <2> QED
    BY <1>1, <2>1, <2>3, <2>4 DEF SessionsTyped
<1>5. CASE Register(h) \/ Password(h)
  BY <1>1, <1>5 DEF Register, Password, SessionsTyped
<1> QED
  BY <1>1, <1>2, <1>3, <1>4, <1>5, ElsewhereKeepsSessions DEF SessionsTyped

LEMMA PeopleKept ==
  ASSUME AllTyped, Courses, HandlersInformed, HandlerShape, SetterShape, RowShape,
         NEW h \in Handler, AccountStep(h) \/ Hook(h)
  PROVE  PeopleTyped'
<1>1. AccountsTyped /\ LogsTyped /\ HistoriesTyped /\ SessionsTyped
  BY StepKeepsAccounts, StepKeepsLogs, StepKeepsHistories, StepKeepsSessionRows
<1> QED
  BY <1>1 DEF AccountsTyped, LogsTyped, HistoriesTyped, SessionsTyped, PeopleTyped

LEMMA RequestsStay ==
  ASSUME NEW h, AccountStep(h) \/ Hook(h), ~Arrive(h)
  PROVE  requests' = requests
<1>1. CASE \/ Fail(h) \/ Skip(h) \/ User(h) \/ Select(h) \/ Purge(h) \/ Cancel(h)
           \/ DropGrants(h) \/ Issue(h) \/ Insert(h) \/ Exists(h) \/ Lookup(h) \/ Find(h)
  BY <1>1 DEF Fail, Skip, User, Select, Purge, Cancel, DropGrants, Issue, Insert, Exists,
     Lookup, Find, clients
<1>2. CASE \/ Miss(h) \/ Discard(h) \/ Consume(h) \/ Redeem(h) \/ Forget(h) \/ Grant(h)
           \/ Register(h) \/ Read(h) \/ Password(h) \/ Log(h) \/ Hook(h)
  BY <1>2 DEF Miss, Discard, Consume, Redeem, Forget, Grant, Register, Read, Password, Log, Hook,
     clients
<1>3. CASE \/ Revoke(h) \/ Delete(h) \/ ChangeEmail(h) \/ Lockout(h) \/ Failure(h)
           \/ OpenSession(h) \/ Clear(h) \/ SetupTotp(h) \/ EnableTotp(h) \/ DisableTotp(h)
           \/ Reseal(h)
  BY <1>3 DEF Revoke, Delete, ChangeEmail, Lockout, Failure, OpenSession, Clear, SetupTotp,
     EnableTotp, DisableTotp, Reseal, WriteTotp, clients
<1> QED
  BY <1>1, <1>2, <1>3, ~Arrive(h) DEF AccountStep

LEMMA ClientsKept ==
  ASSUME ClientsTyped, NEW h, AccountStep(h) \/ Hook(h)
  PROVE  ClientsTyped'
<1>1. CASE Arrive(h)
  BY <1>1, MixStays DEF Arrive, ClientsTyped
<1>2. CASE ~Arrive(h)
  BY <1>2, MixStays, RequestsStay DEF ClientsTyped
<1> QED
  BY <1>1, <1>2

(* Time passes over rows that are there. *)
LEMMA TimeKeepsTypes ==
  ASSUME AllTyped, CodesOwned, RowsKnown, Courses, HandlersInformed, AccountTime
  PROVE  AllTyped' /\ CodesOwned' /\ Courses' /\ HandlersInformed'
<1>1. handler' = handler /\ UNCHANGED clients
  BY DEF AccountTime, ExpireCode, ExpireGrant, Unlock
<1>2. HandlersTyped' /\ ClientsTyped' /\ Courses'
  BY <1>1 DEF AllTyped, HandlersTyped, ClientsTyped, Courses, clients
<1>3. ASSUME NEW c \in Challenge, ExpireCode(c)
      PROVE  CodesTyped' /\ TableKept /\ RowsMove /\ grants' = grants /\ UNCHANGED people
  <2>1. /\ challenge[c].status # "unused" /\ challenge' = Expired(challenge, c)
        /\ pending' \subseteq pending /\ UNCHANGED <<grants, people, effects, retired>>
    BY <1>3 DEF ExpireCode, codeHistory
  <2>2. TableKept /\ RowsMove
    BY <2>1, StatementsTyped, StatementsMoveRows DEF AllTyped, CodesTyped
  <2> QED
    BY <2>1, <2>2 DEF CodesTyped, AllTyped, TableKept
<1>4. ASSUME NEW c \in Challenge, ExpireGrant(c)
      PROVE  CodesTyped' /\ TableKept /\ RowsMove /\ grants' \subseteq grants /\ UNCHANGED people
  <2>1. challenge' = challenge /\ grants' \subseteq grants
        /\ UNCHANGED <<pending, people, effects, retired>>
    BY <1>4 DEF ExpireGrant, codeHistory
  <2>2. TableKept /\ RowsMove
    BY <2>1, StatementsTyped, StatementsMoveRows DEF AllTyped, CodesTyped
  <2> QED
    BY <2>1, <2>2 DEF CodesTyped, AllTyped, TableKept
<1>5. ASSUME NEW a \in Account, Unlock(a)
      PROVE  CodesTyped' /\ TableKept /\ RowsMove /\ grants' \subseteq grants
  <2>1. UNCHANGED <<codes, codeHistory>>
    BY <1>5 DEF Unlock
  <2>2. TableKept /\ RowsMove
    BY <2>1, StatementsTyped, StatementsMoveRows DEF AllTyped, CodesTyped, codes
  <2> QED
    BY <2>1, <2>2 DEF CodesTyped, AllTyped, codes, codeHistory
<1>6. CodesTyped' /\ TableKept /\ RowsMove /\ grants' \subseteq grants
  BY <1>3, <1>4, <1>5 DEF AccountTime
<1>7. CodesOwned'
  BY <1>6 DEF CodesOwned, TableKept, RowsMove
<1>8. account' = account
  BY DEF AccountTime, ExpireCode, ExpireGrant, Unlock, people
<1>9. PeopleTyped'
  <2>1. CASE UNCHANGED <<people, accountHistory>>
    BY <2>1 DEF AllTyped, PeopleTyped, people, accountHistory, totpHistory
  <2>2. ASSUME NEW a \in Account, Unlock(a)
        PROVE  PeopleTyped'
    <3>1. /\ log' = [log EXCEPT ![a] = Clean] /\ wrong' = [wrong EXCEPT ![a] = 0]
          /\ UNCHANGED <<account, sessions, unrevoked, totpHistory>>
      BY <2>2 DEF Unlock
    <3> QED
      BY <3>1, FailedTyped DEF AllTyped, PeopleTyped, totpHistory
  <2> QED
    BY <2>1, <2>2 DEF AccountTime, ExpireCode, ExpireGrant
<1>10. HandlersInformed'
  BY <1>1, <1>6, <1>8 DEF HandlersInformed, Informed, RowsMove, Known
<1> QED
  BY <1>2, <1>6, <1>7, <1>9, <1>10 DEF AllTyped

LEMMA TypesBegin ==
  ASSUME AccountInit
  PROVE  AllTyped /\ CodesOwned /\ Courses /\ HandlersInformed
<1>1. mix \in AccountMix /\ mix.live \subseteq Account /\ mix.requests \in Nat
      /\ IsFiniteSet(mix.live)
  BY AccountMixAssumption, FiniteAssumption DEF AccountInit
<1>2. HandlersTyped
  BY IdleTyped DEF AccountInit, HandlersTyped
<1>3. CodesTyped
  <2>1. Unissued \in ChallengeRow
    BY DEF Unissued, ChallengeRow
  <2> QED
    BY <2>1 DEF AccountInit, CodesTyped
<1>4. PeopleTyped
  <2>1. Fresh \in AccountRow
    BY DEF Fresh, AccountRow
  <2>2. \A e \in Email : [Fresh EXCEPT !.status = "live", !.email = e] \in AccountRow
    BY <2>1 DEF AccountRow
  <2>3. \A a \in Account : HomeAddress[a] \in Email
    BY AccountBoundAssumption
  <2>4. account \in [ Account -> AccountRow ]
    BY <2>1, <2>2, <2>3 DEF AccountInit
  <2>5. log \in [ Account -> LogRow \cup {NoLog} ]
    BY FailedTyped DEF AccountInit
  <2>6. sessions = [ id: {0}, acct: mix.live, password: {0}, stale: {FALSE}, kept: {FALSE} ]
    BY DEF AccountInit
  <2> DEFINE row(a) == [ id |-> 0, acct |-> a, password |-> 0, stale |-> FALSE, kept |-> FALSE ]
             opened == [ a \in mix.live |-> row(a) ]
  <2>7. ASSUME NEW s \in sessions
        PROVE  s.acct \in mix.live /\ s = row(s.acct)
    <3>1. s = [ id |-> s.id, acct |-> s.acct, password |-> s.password, stale |-> s.stale,
                kept |-> s.kept ]
      BY <2>6
    <3>2. s.id = 0 /\ s.password = 0 /\ s.stale = FALSE /\ s.kept = FALSE
      BY <2>6
    <3>3. s.acct \in mix.live
      BY <2>6
    <3> QED
      BY <3>1, <3>2, <3>3
  <2>8. \A a \in mix.live : row(a) \in sessions
    BY <2>6
  <2>9. \A a \in Account : row(a) \in SessionRow
    BY DEF SessionRow
  <2> HIDE DEF row
  <2>10. opened \in Surjection(mix.live, sessions)
    BY <2>7, <2>8 DEF Surjection
  <2> HIDE DEF opened
  <2>11. sessions \subseteq SessionRow /\ IsFiniteSet(sessions)
    BY <1>1, <2>7, <2>9, <2>10, FS_Surjection
  <2> QED
    BY <2>4, <2>5, <2>11 DEF AccountInit, PeopleTyped
<1>5. ClientsTyped
  BY <1>1 DEF AccountInit, ClientsTyped
<1>6. CodesOwned
  BY DEF AccountInit, CodesOwned, ResetCode, Unissued
<1>7. Courses
  BY IdleMarked, TurningsAreCourses DEF AccountInit, Courses
<1>8. HandlersInformed
  BY IdleMarked DEF AccountInit, HandlersInformed, Informed, ByCode, ByOwner
<1> QED
  BY <1>2, <1>3, <1>4, <1>5, <1>6, <1>7, <1>8 DEF AllTyped

(* The invariant: what is typed is kept so by where the handlers stand and *)
(* what they know there.                                                   *)
TypeInv == SettingInv /\ AllTyped /\ CodesOwned /\ Courses /\ HandlersInformed

LEMMA TypesKept ==
  ASSUME TypeInv, [AccountNext]_accountVars
  PROVE  TypeInv'
<1>1. SettingInv'
  BY SettingKept DEF TypeInv
<1>2. ASSUME NEW h \in Handler, AccountStep(h) \/ Hook(h)
      PROVE  AllTyped' /\ CodesOwned' /\ Courses' /\ HandlersInformed'
  <2>1. /\ HandlerShape /\ SetterShape /\ RowShape /\ StartShape /\ RowsKnown
        /\ AllTyped /\ CodesOwned /\ Courses /\ HandlersInformed
    BY DEF TypeInv, SettingInv, Withdrawal, CodeJourney, RetireInv
  <2>2. CodesTyped' /\ CodesOwned'
    BY <1>2, <2>1, CodesKept
  <2>3. PeopleTyped'
    BY <1>2, <2>1, PeopleKept
  <2>4. HandlersTyped' /\ ClientsTyped'
    BY <1>2, <2>1, HandlersTypedKept, ClientsKept DEF AllTyped
  <2>5. Courses' /\ HandlersInformed'
    BY <1>2, <2>1, CoursesKept, HandlersInformedKept
  <2> QED
    BY <2>2, <2>3, <2>4, <2>5 DEF AllTyped
<1>3. CASE AccountTime
  BY <1>1, <1>3, TimeKeepsTypes DEF TypeInv, SettingInv, Withdrawal, RetireInv
<1>4. CASE UNCHANGED accountVars
  <2>1. /\ UNCHANGED <<challenge, pending, grants, account, log, sessions, handler>>
        /\ UNCHANGED <<requests, mix, effects, retired, unrevoked, wrong>>
        /\ UNCHANGED <<generated, proven, clobbered>>
    BY <1>4 DEF accountVars, codes, people, clients, codeHistory, accountHistory, totpHistory
  <2>2. AllTyped'
    BY <2>1 DEF TypeInv, AllTyped, HandlersTyped, CodesTyped, PeopleTyped, ClientsTyped
  <2>3. CodesOwned' /\ Courses'
    BY <2>1 DEF TypeInv, CodesOwned, ResetCode, Courses
  <2>4. HandlersInformed'
    BY <2>1 DEF TypeInv, HandlersInformed, Informed, ResetCode, Known
  <2> QED
    BY <1>1, <2>2, <2>3, <2>4 DEF TypeInv
<1> QED
  BY <1>1, <1>2, <1>3, <1>4 DEF AccountNext, TypeInv

LEMMA TypeInvariance == AccountSpec => []TypeInv
<1>1. AccountInit => TypeInv
  BY SettingBegins, TypesBegin DEF TypeInv
<1> QED
  BY <1>1, TypesKept, PTL DEF AccountSpec

(* The awaits are those of the scripts and the turnings. *)
LEMMA AwaitsAreOps == Await \subseteq Op
<1>1. \A k \in Kind : \A i \in 1 .. Len(Script[k]) : Script[k][i] \in Op
  <2>1. \A k \in Kind : DOMAIN Script[k] = 1 .. Len(Script[k])
    BY ScriptsAreOrderly DEF Orderly
  <2> QED
    BY <2>1 DEF Op
<1>2. \A i \in 1 .. Len(RegisterBegin) : RegisterBegin[i] \in Op
  BY <1>1 DEF Kind, Script
<1>3. \A i \in 1 .. Len(RegisterVerify) : RegisterVerify[i] \in Op
  BY <1>1 DEF Kind, Script
<1>4. \A i \in 1 .. Len(ResetStart) : ResetStart[i] \in Op
  BY <1>1 DEF Kind, Script
<1>5. \A i \in 1 .. Len(ResetVerify) : ResetVerify[i] \in Op
  BY <1>1 DEF Kind, Script
<1>6. \A i \in 1 .. Len(ResetComplete) : ResetComplete[i] \in Op
  BY <1>1 DEF Kind, Script
<1>7. \A i \in 1 .. Len(Login) : Login[i] \in Op
  BY <1>1 DEF Kind, Script
<1>8. \A i \in 1 .. Len(DeleteAccount) : DeleteAccount[i] \in Op
  BY <1>1 DEF Kind, Script
<1>9. \A i \in 1 .. Len(EmailConfirm) : EmailConfirm[i] \in Op
  BY <1>1 DEF Kind, Script
<1>10. /\ \A i \in 1 .. Len(TotpSetup) : TotpSetup[i] \in Op
       /\ \A i \in 1 .. Len(TotpEnable) : TotpEnable[i] \in Op
       /\ \A i \in 1 .. Len(TotpDisable) : TotpDisable[i] \in Op
       /\ \A i \in 1 .. Len(ResealCycle) : ResealCycle[i] \in Op
  BY <1>1 DEF Kind, Script
<1>11. Detour \subseteq Op
  BY DEF Op
<1> HIDE DEF Op
<1>12. {"exists", "issue", "select", "purge", "insert", "cancel"} \subseteq Op
  BY <1>2 DEF RegisterBegin
<1>13. {"lookup", "find", "consume", "account", "log", "session"} \subseteq Op
  BY <1>3 DEF RegisterVerify
<1>14. {"user", "dropGrants"} \subseteq Op
  BY <1>4 DEF ResetStart
<1>15. "grant" \in Op
  BY <1>5 DEF ResetVerify
<1>16. {"redeem", "password", "revoke", "hook"} \subseteq Op
  BY <1>6 DEF ResetComplete
<1>17. {"lockout", "clear"} \subseteq Op
  BY <1>7 DEF Login
<1>18. {"read", "delete"} \subseteq Op
  BY <1>8 DEF DeleteAccount
<1>19. "email" \in Op
  BY <1>9 DEF EmailConfirm
<1>20. {"secret", "enable", "disable", "swap"} \subseteq Op
  BY <1>10 DEF TotpSetup, TotpEnable, TotpDisable, ResealCycle
<1>21. {"miss", "discard", "failure", "forget"} \subseteq Op
  BY <1>11 DEF Detour
<1> QED
  BY <1>12, <1>13, <1>14, <1>15, <1>16, <1>17, <1>18, <1>19, <1>20, <1>21 DEF Await

(* Whatever the handlers do, in whatever order and wherever they fail, the *)
(* tables hold rows, a session belongs to an account and is opened with a  *)
(* password that was read, and a handler holds nothing but what it was     *)
(* given or has read.                                                      *)
THEOREM AccountTypes == AccountSpec => []AccountTypeOK
<1>1. Await \subseteq Op
  BY AwaitsAreOps
<1>2. TypeInv => AccountTypeOK
  <2> SUFFICES ASSUME TypeInv
               PROVE  AccountTypeOK
    OBVIOUS
  <2>1. HandlersTyped /\ CodesTyped /\ PeopleTyped /\ ClientsTyped
    BY DEF TypeInv, AllTyped
  <2>2. ASSUME NEW h \in Handler
        PROVE  /\ \A f \in DOMAIN handler[h] \ {"todo"} : handler[h][f] \in HandlerField[f]
               /\ handler[h].todo \in Seq(Op)
    <3>1. handler[h] \in HandlerRow
      BY <2>1 DEF HandlersTyped
    <3>2. DOMAIN handler[h] = { "kind", "todo", "acct", "email", "code", "good", "old", "doomed",
                                "saw", "logged", "current" }
      BY <3>1 DEF HandlerRow
    <3>3. handler[h].todo \in Seq(Op)
      <4>1. handler[h].todo \in Seq(Await)
        BY <3>1 DEF HandlerRow
      <4> HIDE DEF Await, Op
      <4> QED
        BY <1>1, <4>1
    <3>4. \A f \in DOMAIN handler[h] \ {"todo"} : handler[h][f] \in HandlerField[f]
      BY <3>1, <3>2 DEF HandlerRow, HandlerField
    <3> QED
      BY <3>3, <3>4
  <2> QED
    BY <2>1, <2>2 DEF CodesTyped, PeopleTyped, ClientsTyped, AccountTypeOK
<1> QED
  BY <1>2, TypeInvariance, PTL

-----------------------------------------------------------------------------
(* The lockout.                                                            *)

(* Wrong answers that are evaluated and not yet written down. *)
Failing(a) == { h \in Handler : At(h, "failure") /\ handler[h].acct = a }

Failures(a) == IF log[a] = NoLog THEN 0 ELSE log[a].failures

Locked(a) == log[a] # NoLog /\ log[a].locked

(* Until the lock, each wrong answer is in the row or at its handler, and  *)
(* the row is short of the limit.                                          *)
Counted(a) ==
  /\ account[a].status = "free" => wrong[a] = 0 /\ log[a] = NoLog
  /\ Live(a) =>
       IF Locked(a) THEN wrong[a] <= MaxFailures + Cardinality(Handler) - 1
       ELSE Failures(a) < MaxFailures /\ wrong[a] <= Failures(a) + Cardinality(Failing(a))

LockoutInv == \A a \in Account : Counted(a)

LEMMA FailingCount ==
  \A a : /\ IsFiniteSet(Failing(a)) /\ Cardinality(Failing(a)) \in Nat
         /\ Cardinality(Failing(a)) <= Cardinality(Handler) /\ Cardinality(Handler) \in Nat
<1> SUFFICES ASSUME NEW a
             PROVE  /\ IsFiniteSet(Failing(a)) /\ Cardinality(Failing(a)) \in Nat
                    /\ Cardinality(Failing(a)) <= Cardinality(Handler)
                    /\ Cardinality(Handler) \in Nat
  OBVIOUS
<1>1. Failing(a) \in SUBSET Handler
  BY DEF Failing
<1> QED
  BY <1>1, FiniteAssumption, FS_Subset, FS_CardinalityType

(* Sets that differ in one element. *)
LEMMA OneMoreOrLess ==
  ASSUME NEW S, NEW T, NEW x, IsFiniteSet(S), IsFiniteSet(T)
  PROVE  /\ S \subseteq T => Cardinality(S) <= Cardinality(T)
         /\ S \ {x} \subseteq T => Cardinality(S) <= Cardinality(T) + 1
         /\ x \notin S /\ S \cup {x} \subseteq T => Cardinality(S) + 1 <= Cardinality(T)
<1>1. Cardinality(S) \in Nat /\ Cardinality(T) \in Nat
  BY FS_CardinalityType
<1>2. S \subseteq T => Cardinality(S) <= Cardinality(T)
  BY FS_Subset
<1>3. ASSUME S \ {x} \subseteq T
      PROVE  Cardinality(S) <= Cardinality(T) + 1
  <2>1. Cardinality(S \ {x}) <= Cardinality(T)
    BY <1>3, FS_Subset
  <2>2. Cardinality(S \ {x}) = IF x \in S THEN Cardinality(S) - 1 ELSE Cardinality(S)
    BY FS_RemoveElement
  <2> QED
    BY <1>1, <2>1, <2>2
<1>4. ASSUME x \notin S, S \cup {x} \subseteq T
      PROVE  Cardinality(S) + 1 <= Cardinality(T)
  <2>1. Cardinality(S \cup {x}) <= Cardinality(T)
    BY <1>4, FS_Subset
  <2>2. Cardinality(S \cup {x}) = Cardinality(S) + 1
    BY <1>4, FS_AddElement
  <2> QED
    BY <2>1, <2>2
<1> QED
  BY <1>2, <1>3, <1>4

(* A wrong answer leaves its handler when it is written down, or that fails. *)
LEMMA FailureDue ==
  ASSUME HandlerShape, NEW h \in Handler, AccountStep(h) \/ Hook(h), At(h, "failure")
  PROVE  Failure(h) \/ Fail(h)
<1>1. ~Arrive(h)
  BY IdleMarked DEF Arrive, At
<1>2. CASE Skip(h)
  BY <1>2 DEF Skip, Tolerant, At
<1>3. CASE \/ User(h) \/ Cancel(h) \/ DropGrants(h) \/ Issue(h)
           \/ Insert(h) \/ Exists(h) \/ Find(h) \/ Miss(h) \/ Discard(h) \/ Consume(h)
           \/ Forget(h) \/ Grant(h) \/ Register(h) \/ Read(h) \/ Password(h)
  <2>1. \E op \in {"user", "cancel", "dropGrants", "issue", "insert", "exists",
                   "find", "miss", "discard", "consume", "forget", "grant", "account", "read",
                   "password"} : At(h, op)
    BY <1>3 DEF User, Cancel, DropGrants, Issue, Insert, Exists, Find, Miss, Discard, Consume,
       Forget, Grant, Register, Read, Password
  <2> QED
    BY <2>1 DEF At
<1>4. CASE \/ Hook(h) \/ Delete(h) \/ ChangeEmail(h) \/ Lockout(h)
           \/ OpenSession(h) \/ Clear(h) \/ SetupTotp(h) \/ EnableTotp(h)
           \/ DisableTotp(h) \/ Reseal(h) \/ Select(h) \/ Purge(h) \/ Lookup(h) \/ Redeem(h)
           \/ Log(h) \/ Revoke(h)
  <2>1. \E op \in {"hook", "delete", "email", "lockout", "session",
                   "clear", "secret", "enable", "disable", "swap", "select", "purge", "lookup",
                   "redeem", "log", "revoke"} : At(h, op)
    BY <1>4 DEF Hook, Delete, ChangeEmail, Lockout, OpenSession, Clear,
       SetupTotp, EnableTotp, DisableTotp, Reseal, Select, Purge, Lookup, Redeem, Log, Revoke
  <2> QED
    BY <2>1 DEF At
<1> QED
  BY <1>1, <1>2, <1>3, <1>4 DEF AccountStep

LEMMA FailingAfter ==
  ASSUME HandlerShape, StartShape, NEW h \in Handler, AccountStep(h) \/ Hook(h)
  PROVE  \A a : /\ Failing(a) \ {h} \subseteq Failing(a)'
                /\ h \in Failing(a) => a = handler[h].acct /\ (Failure(h) \/ Fail(h))
<1>1. \A g \in Handler \ {h} : handler'[g].todo = handler[g].todo
                              /\ handler'[g].acct = handler[g].acct
  BY HandlersAfter DEF Marks
<1>2. \A a : Failing(a) \ {h} \subseteq Failing(a)'
  BY <1>1 DEF Failing, At
<1>3. \A a : h \in Failing(a) => a = handler[h].acct /\ (Failure(h) \/ Fail(h))
  BY FailureDue DEF Failing
<1> QED
  BY <1>2, <1>3

-----------------------------------------------------------------------------
(* How the bound is kept: a by its status, its row, the wrong answers and  *)
(* the handlers that have one.                                             *)
LEMMA CountKept ==
  ASSUME MaxFailures > 1, PeopleTyped, NEW a \in Account, Counted(a),
         account'[a].status = account[a].status,
         \/ /\ log'[a] = log[a] /\ wrong'[a] = wrong[a]
            /\ Cardinality(Failing(a)) <= Cardinality(Failing(a)')
         \/ /\ log'[a] = log[a] /\ wrong'[a] = wrong[a] + 1
            /\ account[a].status # "free" /\ ~Locked(a)
            /\ Cardinality(Failing(a)) + 1 <= Cardinality(Failing(a)')
         \/ /\ log'[a] = log[a] /\ wrong'[a] = IF wrong[a] > 0 THEN wrong[a] - 1 ELSE wrong[a]
            /\ Cardinality(Failing(a)) <= Cardinality(Failing(a)') + 1
         \/ /\ account[a].status = "live" => log'[a] = Failed(log[a])
            /\ account[a].status # "live" => log'[a] = log[a]
            /\ wrong'[a] = wrong[a]
            /\ Cardinality(Failing(a)) <= Cardinality(Failing(a)') + 1
         \/ /\ wrong'[a] = 0 /\ log'[a] = IF log[a] = NoLog THEN NoLog ELSE Clean
         \/ /\ wrong'[a] = wrong[a] /\ account[a].status # "free"
            /\ log[a] = NoLog /\ log'[a] = Clean
            /\ Cardinality(Failing(a)) <= Cardinality(Failing(a)')
  PROVE  Counted(a)'
<1> DEFINE n == Cardinality(Failing(a))
           m == Cardinality(Failing(a)')
           H == Cardinality(Handler)
<1>1. n \in Nat /\ n <= H /\ H \in Nat
  BY FailingCount
<1>2. m \in Nat /\ m <= H
  <2>1. Failing(a)' \in SUBSET Handler
    BY DEF Failing
  <2> QED
    BY <2>1, FiniteAssumption, FS_Subset, FS_CardinalityType
<1>3. wrong[a] \in Nat /\ log[a] \in LogRow \cup {NoLog} /\ MaxFailures \in Nat
  BY FailuresAssumption DEF PeopleTyped
<1>4. Clean \in LogRow /\ Clean.failures = 0 /\ ~Clean.locked
  BY DEF Clean, LogRow
<1>5. NoLog \notin LogRow
  BY NoLogAssumption
<1>6. log[a] # NoLog => log[a].failures \in Nat
  BY <1>3 DEF LogRow
<1>7. LET r == Failed(log[a])
      IN  /\ r # NoLog
          /\ log[a] = NoLog => ~r.locked /\ r.failures = 1
          /\ log[a] # NoLog /\ log[a].locked => r = log[a]
          /\ log[a] # NoLog /\ ~log[a].locked =>
               IF log[a].failures + 1 >= MaxFailures THEN r.locked
               ELSE ~r.locked /\ r.failures = log[a].failures + 1
  <2>1. Failed(log[a]) \in LogRow
    BY <1>3, FailedTyped
  <2> QED
    BY <1>5, <2>1 DEF Failed, Clean
<1>8. Live(a) <=> account[a].status = "live"
  BY DEF Live
<1>9. Live(a)' <=> account'[a].status = "live"
  BY DEF Live
<1> HIDE DEF n, m, H
<1>10. CASE log'[a] = log[a]
  BY <1>1, <1>2, <1>3, <1>4, <1>5, <1>6, <1>7, <1>8, <1>9, <1>10
  DEF Counted, Locked, Failures, n, m, H
<1>11. CASE account[a].status = "live" /\ log'[a] = Failed(log[a]) /\ wrong'[a] = wrong[a]
            /\ n <= m + 1
  BY <1>1, <1>2, <1>3, <1>6, <1>8, <1>9, <1>11, <1>7 DEF Counted, Locked, Failures, n, m, H
<1>12. CASE wrong'[a] = 0 /\ log'[a] = IF log[a] = NoLog THEN NoLog ELSE Clean
  BY <1>1, <1>2, <1>3, <1>4, <1>5, <1>8, <1>9, <1>12 DEF Counted, Locked, Failures, n, m, H
<1>13. CASE /\ wrong'[a] = wrong[a] /\ account[a].status # "free"
            /\ log[a] = NoLog /\ log'[a] = Clean /\ n <= m
  BY <1>1, <1>2, <1>3, <1>4, <1>5, <1>8, <1>9, <1>13 DEF Counted, Locked, Failures, n, m, H
<1> QED
  BY <1>10, <1>11, <1>12, <1>13 DEF n, m, H

LEMMA FailingCounts ==
  ASSUME HandlerShape, StartShape, NEW h \in Handler, AccountStep(h) \/ Hook(h)
  PROVE  \A a : /\ Cardinality(Failing(a)) <= Cardinality(Failing(a)') + 1
                /\ a # handler[h].acct \/ ~At(h, "failure") =>
                     Cardinality(Failing(a)) <= Cardinality(Failing(a)')
                /\ h \notin Failing(a) /\ h \in Failing(a)' =>
                     Cardinality(Failing(a)) + 1 <= Cardinality(Failing(a)')
<1> SUFFICES ASSUME NEW a
             PROVE  /\ Cardinality(Failing(a)) <= Cardinality(Failing(a)') + 1
                    /\ a # handler[h].acct \/ ~At(h, "failure") =>
                         Cardinality(Failing(a)) <= Cardinality(Failing(a)')
                    /\ h \notin Failing(a) /\ h \in Failing(a)' =>
                         Cardinality(Failing(a)) + 1 <= Cardinality(Failing(a)')
  OBVIOUS
<1>1. IsFiniteSet(Failing(a)) /\ IsFiniteSet(Failing(a)')
  <2>1. Failing(a)' \in SUBSET Handler
    BY DEF Failing
  <2> QED
    BY <2>1, FailingCount, FiniteAssumption, FS_Subset
<1>2. Failing(a) \ {h} \subseteq Failing(a)'
  BY FailingAfter
<1>3. a # handler[h].acct \/ ~At(h, "failure") => h \notin Failing(a)
  BY DEF Failing
<1> QED
  BY <1>1, <1>2, <1>3, OneMoreOrLess

LEMMA LockoutKeepsCount ==
  ASSUME MaxFailures > 1, AllTyped, Courses, HandlersInformed, HandlerShape, StartShape, LockoutInv,
         NEW h \in Handler, Lockout(h)
  PROVE  LockoutInv'
<1> DEFINE m == handler[h]
           b == m.acct
<1>1. /\ At(h, "lockout") /\ UNCHANGED <<account, log>> /\ AccountStep(h)
      /\ PeopleTyped /\ HandlersTyped
  BY DEF Lockout, people, AccountStep, AllTyped
<1>2. Known(b)
  <2>1. m.todo \in Seq(Await) /\ CourseOf(m.kind, m.todo) /\ Informed(m)
    BY DEF AllTyped, HandlersTyped, HandlerRow, Courses, HandlersInformed
  <2>2. m.todo # <<>> /\ Head(m.todo) = "lockout"
    BY <1>1 DEF At
  <2>3. m.kind = "login"
    BY <2>1, <2>2, HeadOrTail, ServedAwaits DEF CourseOf
  <2> QED
    BY <2>1, <2>2, <2>3 DEF Informed
<1>3. \A a : h \notin Failing(a)
  BY <1>1 DEF Failing, At
<1>4. \A a : Cardinality(Failing(a)) <= Cardinality(Failing(a)')
  BY <1>1, FailingCounts DEF At
<1>5. CASE wrong' = wrong
  BY <1>1, <1>4, <1>5, CountKept DEF LockoutInv
<1>6. CASE /\ ~Locked(b) /\ wrong' = [wrong EXCEPT ![b] = @ + 1]
           /\ Detours(h, <<"failure">>)
  <2>1. \A a : a = b => h \in Failing(a)'
    <3>1. handler'[h] = [m EXCEPT !.todo = <<"failure">>]
      BY <1>1, <1>6 DEF Detours, Becomes, HandlersTyped
    <3>2. handler'[h].todo = <<"failure">> /\ handler'[h].acct = b
      BY <1>1, <3>1 DEF HandlersTyped, HandlerRow
    <3>3. <<"failure">> # <<>> /\ Head(<<"failure">>) = "failure"
      OBVIOUS
    <3>4. At(h, "failure")'
      BY <3>2, <3>3 DEF At
    <3> QED
      BY <3>2, <3>4 DEF Failing
  <2>2. ASSUME NEW a \in Account
        PROVE  Counted(a)'
    <3>1. CASE a = b
      <4>1. Cardinality(Failing(a)) + 1 <= Cardinality(Failing(a)')
        BY <1>1, <1>3, <2>1, <3>1, FailingCounts
      <4> QED
        BY <1>1, <1>2, <1>6, <3>1, <4>1, CountKept DEF LockoutInv, Known, PeopleTyped
    <3>2. CASE a # b
      BY <1>1, <1>4, <1>6, <3>2, CountKept DEF LockoutInv, PeopleTyped
    <3> QED
      BY <3>1, <3>2
  <2> QED
    BY <2>2 DEF LockoutInv
<1> QED
  BY <1>5, <1>6 DEF Lockout, Locked

LEMMA StepKeepsCount ==
  ASSUME MaxFailures > 1, AllTyped, Courses, HandlersInformed, HandlerShape, StartShape, RowShape,
         LockoutInv, NEW h \in Handler, AccountStep(h) \/ Hook(h)
  PROVE  LockoutInv'
<1> DEFINE b == handler[h].acct
<1>1. PeopleTyped
  BY DEF AllTyped
<1>2. \A a : /\ Cardinality(Failing(a)) <= Cardinality(Failing(a)') + 1
             /\ a # b \/ ~At(h, "failure") =>
                  Cardinality(Failing(a)) <= Cardinality(Failing(a)')
  BY FailingCounts
<1>3. CASE Register(h)
  <2>1. UNCHANGED <<log, wrong>>
    BY <1>3 DEF Register, accountHistory
  <2>2. \A a : Cardinality(Failing(a)) <= Cardinality(Failing(a)')
    BY <1>2, <1>3 DEF Register, At
  <2>3. CASE account' = account
    BY <1>1, <2>1, <2>2, <2>3, CountKept DEF LockoutInv
  <2>4. ASSUME NEW c \in Account, NEW row, account[c].status = "free", row.status = "live",
               account' = [account EXCEPT ![c] = row]
        PROVE  LockoutInv'
    <3>1. ASSUME NEW a \in Account, a = c
          PROVE  Counted(a)'
      <4>1. wrong[a] = 0 /\ log[a] = NoLog /\ account'[a].status = "live"
        BY <1>1, <2>4, <3>1 DEF LockoutInv, Counted, PeopleTyped
      <4>2. Cardinality(Failing(a)') \in Nat
        <5>1. Failing(a)' \in SUBSET Handler
          BY DEF Failing
        <5> QED
          BY <5>1, FiniteAssumption, FS_Subset, FS_CardinalityType
      <4> QED
        BY <2>1, <4>1, <4>2, FailuresAssumption DEF Counted, Locked, Failures
    <3>2. ASSUME NEW a \in Account, a # c
          PROVE  Counted(a)'
      <4>1. account'[a].status = account[a].status
        BY <1>1, <2>4, <3>2 DEF PeopleTyped
      <4> QED
        BY <1>1, <2>1, <2>2, <4>1, CountKept DEF LockoutInv
    <3> QED
      BY <3>1, <3>2 DEF LockoutInv
  <2>5. \A e : [Fresh EXCEPT !.status = "live", !.email = e].status = "live"
    BY DEF Fresh
  <2> QED
    BY <1>3, <2>3, <2>4, <2>5 DEF Register
<1>4. CASE Delete(h)
  <2>1. wrong' = wrong /\ At(h, "delete")
    BY <1>4 DEF Delete, accountHistory
  <2>2. \A a : Cardinality(Failing(a)) <= Cardinality(Failing(a)')
    BY <1>2, <2>1 DEF At
  <2>3. CASE UNCHANGED <<account, log>>
    BY <1>1, <2>1, <2>2, <2>3, CountKept DEF LockoutInv
  <2>4. CASE /\ Live(b) /\ account' = [account EXCEPT ![b].status = "deleted"]
             /\ log' = [log EXCEPT ![b] = NoLog]
    <3>1. ASSUME NEW a \in Account, a = b
          PROVE  Counted(a)'
      <4>1. account'[a].status = "deleted"
        BY <1>1, <2>4, <3>1 DEF PeopleTyped, AccountRow
      <4> QED
        BY <4>1 DEF Counted, Live
    <3>2. ASSUME NEW a \in Account, a # b
          PROVE  Counted(a)'
      <4>1. account'[a] = account[a] /\ log'[a] = log[a]
        BY <1>1, <2>4, <3>2 DEF PeopleTyped
      <4> QED
        BY <1>1, <2>1, <2>2, <4>1, CountKept DEF LockoutInv
    <3> QED
      BY <3>1, <3>2 DEF LockoutInv
  <2> QED
    BY <1>4, <2>3, <2>4 DEF Delete, people
<1>5. CASE Failure(h)
  <2>1. /\ UNCHANGED <<account, wrong>>
        /\ log' = IF Live(b) THEN [log EXCEPT ![b] = Failed(@)] ELSE log
    BY <1>5 DEF Failure, accountHistory
  <2>2. ASSUME NEW a \in Account
        PROVE  Counted(a)'
    <3>1. CASE a = b
      BY <1>1, <1>2, <2>1, <3>1, CountKept DEF LockoutInv, Live, PeopleTyped
    <3>2. CASE a # b
      BY <1>1, <1>2, <2>1, <3>2, CountKept DEF LockoutInv, PeopleTyped
    <3> QED
      BY <3>1, <3>2
  <2> QED
    BY <2>2 DEF LockoutInv
<1>6. CASE Fail(h)
  <2>1. UNCHANGED <<account, log>>
    BY <1>6 DEF Fail, people
  <2>2. CASE At(h, "failure")
    <3>1. wrong' = IF wrong[b] > 0 THEN [wrong EXCEPT ![b] = @ - 1] ELSE wrong
      BY <1>6, <2>2 DEF Fail
    <3>2. ASSUME NEW a \in Account
          PROVE  Counted(a)'
      <4>1. CASE a = b
        BY <1>1, <1>2, <2>1, <3>1, <4>1, CountKept DEF LockoutInv, PeopleTyped
      <4>2. CASE a # b
        BY <1>1, <1>2, <2>1, <3>1, <4>2, CountKept DEF LockoutInv, PeopleTyped
      <4> QED
        BY <4>1, <4>2
    <3> QED
      BY <3>2 DEF LockoutInv
  <2>3. CASE ~At(h, "failure")
    <3>1. \A a : Cardinality(Failing(a)) <= Cardinality(Failing(a)')
      BY <1>2, <2>3
    <3>2. wrong' = wrong
      BY <1>6, <2>3 DEF Fail
    <3> QED
      BY <1>1, <2>1, <3>1, <3>2, CountKept DEF LockoutInv
  <2> QED
    BY <2>2, <2>3
<1>7. CASE Clear(h)
  <2>1. /\ UNCHANGED account /\ At(h, "clear")
        /\ log' = IF log[b] = NoLog THEN log ELSE [log EXCEPT ![b] = Clean]
        /\ wrong' = [wrong EXCEPT ![b] = 0]
    BY <1>7 DEF Clear
  <2>2. \A a : Cardinality(Failing(a)) <= Cardinality(Failing(a)')
    BY <1>2, <2>1 DEF At
  <2>3. ASSUME NEW a \in Account
        PROVE  Counted(a)'
    <3>1. CASE a = b
      BY <1>1, <2>1, <3>1, CountKept DEF LockoutInv, PeopleTyped
    <3>2. CASE a # b
      BY <1>1, <2>1, <2>2, <3>2, CountKept DEF LockoutInv, PeopleTyped
    <3> QED
      BY <3>1, <3>2
  <2> QED
    BY <2>3 DEF LockoutInv
<1>8. CASE Lockout(h)
  BY <1>8, LockoutKeepsCount
<1>9. CASE Log(h)
  <2>1. UNCHANGED <<account, wrong>> /\ At(h, "log")
    BY <1>9 DEF Log
  <2>2. \A a : Cardinality(Failing(a)) <= Cardinality(Failing(a)')
    BY <1>2, <2>1 DEF At
  <2>3. \/ log' = log
        \/ Live(b) /\ log[b] = NoLog /\ log' = [log EXCEPT ![b] = Clean]
    BY <1>1, <1>9 DEF Log, PeopleTyped
  <2>4. ASSUME NEW a \in Account
        PROVE  Counted(a)'
    <3>1. CASE log'[a] = log[a]
      BY <1>1, <2>1, <2>2, <3>1, CountKept DEF LockoutInv
    <3>2. CASE log'[a] # log[a]
      <4>1. a = b /\ Live(b) /\ log[a] = NoLog /\ log'[a] = Clean
        BY <1>1, <2>3, <3>2 DEF PeopleTyped
      <4> QED
        BY <1>1, <2>1, <2>2, <4>1, CountKept DEF LockoutInv, Live
    <3> QED
      BY <3>1, <3>2
  <2> QED
    BY <2>4 DEF LockoutInv
<1>10. CASE ~(\/ Register(h) \/ Delete(h) \/ Failure(h) \/ Fail(h) \/ Clear(h) \/ Lockout(h)
              \/ Log(h))
  <2>1. UNCHANGED <<log, wrong>>
    BY <1>10, ElsewhereKeepsLogs
  <2>2. \A a \in Account : account'[a].status = account[a].status
    <3>1. CASE Password(h)
      <4>1. \/ account' = account
            \/ Live(b) /\ account' = [account EXCEPT ![b].password = @ + 1]
        BY <3>1 DEF Password
      <4> QED
        BY <1>1, <4>1 DEF PeopleTyped, AccountRow
    <3>2. CASE Revoke(h) \/ OpenSession(h)
      BY <3>2 DEF Revoke, OpenSession
    <3> QED
      BY <1>10, <3>1, <3>2, ElsewhereKeepsSessions DEF CredentialsStay
  <2>3. \A a : Cardinality(Failing(a)) <= Cardinality(Failing(a)')
    BY <1>2, <1>10, FailureDue
  <2> QED
    BY <1>1, <2>1, <2>2, <2>3, CountKept DEF LockoutInv
<1> QED
  BY <1>3, <1>4, <1>5, <1>6, <1>7, <1>8, <1>9, <1>10

LEMMA TimeKeepsCount ==
  ASSUME MaxFailures > 1, AllTyped, LockoutInv, AccountTime
  PROVE  LockoutInv'
<1>1. PeopleTyped /\ UNCHANGED <<account, handler>>
  BY DEF AllTyped, AccountTime, ExpireCode, ExpireGrant, Unlock, people
<1>2. \A a : Failing(a)' = Failing(a)
  BY <1>1 DEF Failing, At
<1>3. \A a : Cardinality(Failing(a)) <= Cardinality(Failing(a)')
  BY <1>2, FailingCount
<1>4. CASE UNCHANGED <<log, wrong>>
  BY <1>1, <1>3, <1>4, CountKept DEF LockoutInv
<1>5. ASSUME NEW b \in Account, Unlock(b)
      PROVE  LockoutInv'
  <2>1. /\ log[b] # NoLog
        /\ log' = [log EXCEPT ![b] = Clean] /\ wrong' = [wrong EXCEPT ![b] = 0]
    BY <1>5 DEF Unlock
  <2>2. ASSUME NEW a \in Account
        PROVE  Counted(a)'
    <3>1. CASE a = b
      BY <1>1, <2>1, <3>1, CountKept DEF LockoutInv, PeopleTyped
    <3>2. CASE a # b
      BY <1>1, <1>3, <2>1, <3>2, CountKept DEF LockoutInv, PeopleTyped
    <3> QED
      BY <3>1, <3>2
  <2> QED
    BY <2>2 DEF LockoutInv
<1> QED
  BY <1>4, <1>5 DEF AccountTime, ExpireCode, ExpireGrant, people, accountHistory

LEMMA CountBegins ==
  ASSUME AccountInit
  PROVE  LockoutInv
<1>1. PeopleTyped
  BY TypesBegin DEF AllTyped
<1>2. \A a \in Account : wrong[a] = 0 /\ log[a] \in {Clean, NoLog}
  BY DEF AccountInit
<1>3. \A a \in Account : account[a].status = "free" => log[a] = NoLog
  <2>1. \A e : [Fresh EXCEPT !.status = "live", !.email = e].status = "live"
    BY DEF Fresh
  <2> QED
    BY <2>1 DEF AccountInit
<1>4. Clean.failures = 0 /\ ~Clean.locked
  BY DEF Clean
<1> QED
  BY <1>2, <1>3, <1>4, FailingCount, FailuresAssumption
  DEF LockoutInv, Counted, Locked, Failures

(* The invariant: the wrong answers, counted beside what is typed. *)
LEMMA CountInvariance ==
  ASSUME MaxFailures > 1
  PROVE  AccountSpec => [](TypeInv /\ LockoutInv)
<1>1. AccountInit => TypeInv /\ LockoutInv
  BY SettingBegins, TypesBegin, CountBegins DEF TypeInv
<1>2. TypeInv /\ LockoutInv /\ [AccountNext]_accountVars => (TypeInv /\ LockoutInv)'
  <2> SUFFICES ASSUME TypeInv, LockoutInv, [AccountNext]_accountVars
               PROVE  TypeInv' /\ LockoutInv'
    OBVIOUS
  <2>1. /\ HandlerShape /\ RowShape /\ StartShape
        /\ AllTyped /\ Courses /\ HandlersInformed
    BY DEF TypeInv, SettingInv, Withdrawal, CodeJourney, RetireInv
  <2>2. CASE AccountTime
    BY <2>1, <2>2, TimeKeepsCount, TypesKept
  <2>3. ASSUME NEW h \in Handler, AccountStep(h) \/ Hook(h)
        PROVE  LockoutInv'
    BY <2>1, <2>3, StepKeepsCount
  <2>4. ASSUME UNCHANGED accountVars
        PROVE  LockoutInv'
    BY <2>4 DEF accountVars, people, accountHistory, LockoutInv, Counted, Locked, Failures,
       Failing, At, Live
  <2> QED
    BY <2>2, <2>3, <2>4, TypesKept DEF AccountNext
<1> QED
  BY <1>1, <1>2, PTL DEF AccountSpec

(* However many logins run at once, the wrong answers evaluated between    *)
(* two locks outrun the limit by one for each other login under way, and   *)
(* no more: each is in the security row or still at its handler.  A limit  *)
(* of one is left out: the first failure of an account without a row       *)
(* inserts it, and never locks.                                            *)
THEOREM LockoutOutrunBounded ==
  ASSUME MaxFailures > 1
  PROVE  AccountSpec => []LockoutOutrunAtMost
<1>1. TypeInv /\ LockoutInv => LockoutOutrunAtMost
  <2> SUFFICES ASSUME TypeInv, LockoutInv, NEW a \in Account, Live(a)
               PROVE  wrong[a] <= MaxFailures + Cardinality(Handler) - 1
    BY DEF LockoutOutrunAtMost
  <2>1. Counted(a) /\ wrong[a] \in Nat /\ log[a] \in LogRow \cup {NoLog}
    BY DEF TypeInv, AllTyped, PeopleTyped, LockoutInv
  <2>2. Failures(a) \in Nat
    BY <2>1 DEF Failures, LogRow
  <2> QED
    BY <2>1, <2>2, FailingCount, FailuresAssumption DEF Counted
<1> QED
  BY <1>1, CountInvariance, PTL

=============================================================================
