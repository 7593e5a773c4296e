--------------------------- MODULE AccountAccess ---------------------------
(***************************************************************************)
(* The account side of flora-auth: registration, login with its lockout,   *)
(* password change and reset, e-mail change, two-factor setup, the job     *)
(* that seals stored TOTP secrets, and the one-time codes they wait for.   *)
(*                                                                         *)
(* A handler is one request being served.  It runs a script, the list of   *)
(* its awaits in the order of the code; each entry is one statement on the *)
(* database together with the code up to the next await, and handlers run  *)
(* theirs in any interleaving.  No statement is in a transaction with      *)
(* another.  Any of them may fail, which ends the handler where it stands; *)
(* where the code discards the error the handler goes on instead.          *)
(*                                                                         *)
(* Passwords are numbered in the order they were set, and a client knows   *)
(* one or not (`good`), at the moment the handler reads it.  A completion  *)
(* token is named by the code it was granted for.  The row of a pending    *)
(* registration or reset holds what its code's row holds, and expires with *)
(* it, so `pending` is a set of codes.                                     *)
(*                                                                         *)
(* Left out: requests that fail validation before any read, the limiter    *)
(* in front of reset starts, phones, the profile provisioner and the       *)
(* decoy answer to a reset of an unknown address.  The first two touch     *)
(* none of this state; the others none that is told apart here.            *)
(***************************************************************************)
EXTENDS VerificationChallenges, Sequences, FiniteSets

CONSTANTS
  Handler,      (* requests served at one time                             *)
  Secret,       (* TOTP secrets ever generated                             *)
  HomeAddress,  (* address of the accounts there are to begin with         *)
  NoChallenge, NoSecret, NoRow, NoLog, NoSession,
  MaxFailures,  (* MAX_LOGIN_FAILURES                                      *)
  MaxPassword,  (* bound: passwords set                                    *)
  AccountMix    (* bound: what the clients of one behaviour do             *)

ASSUME FailuresAssumption == MaxFailures \in Nat \ {0}
ASSUME NoCodeAssumption == NoChallenge \notin Challenge
ASSUME AccountBoundAssumption == MaxPassword \in Nat /\ HomeAddress \in [ Account -> Email ]

VARIABLES
  challenge,  (* verification_challenges                                   *)
  pending,    (* pending_registrations and pending_password_resets         *)
  grants,     (* password_reset_grants                                     *)
  account,    (* user_accounts                                             *)
  log,        (* user_security_logs                                        *)
  sessions,   (* the active rows of user_sessions                          *)
  handler,    (* the requests being served                                 *)
  requests,   (* requests still to come                                    *)
  mix,        (* what the clients do                                       *)
  effects,    (* history: what each code has brought about                 *)
  retired,    (* history: reset codes a later start has superseded         *)
  unrevoked,  (* history: accounts whose last revocation failed            *)
  wrong,      (* history: wrong credentials evaluated since the last lock  *)
  generated,  (* history: secrets generated                                *)
  proven,     (* history: secrets a client has shown a code of             *)
  clobbered   (* history: accounts whose secret changed under an enable    *)

codes == <<challenge, pending, grants>>
people == <<account, log, sessions>>
codeHistory == <<effects, retired>>
totpHistory == <<generated, proven, clobbered>>
accountHistory == <<unrevoked, wrong, totpHistory>>
clients == <<requests, mix>>
accountVars == <<codes, people, handler, clients, codeHistory, accountHistory>>

-----------------------------------------------------------------------------
(* The awaits of each handler, in order.                                   *)
RegisterBegin == <<"exists", "issue", "select", "purge", "insert", "cancel">>
RegisterVerify ==
  <<"lookup", "find", "consume", "exists", "account", "log", "session", "forget">>
RegisterCancel == <<"forget", "discard">>
ResetStart == <<"user", "select", "purge", "cancel", "dropGrants", "issue", "insert">>
ResetVerify == <<"lookup", "find", "consume", "forget", "grant">>
ResetComplete == <<"redeem", "password", "log", "revoke", "hook">>
Login == <<"user", "lockout", "session", "clear">>
ChangePassword == <<"read", "password", "log", "revoke">>
DeleteAccount == <<"read", "delete">>
EmailBegin == <<"read", "exists", "issue">>
EmailConfirm == <<"find", "consume", "read", "exists", "email">>
TotpSetup == <<"read", "secret">>
TotpEnable == <<"read", "enable">>
TotpDisable == <<"read", "disable">>
ResealCycle == <<"read", "swap">>

Script ==
  [ registerBegin |-> RegisterBegin, registerVerify |-> RegisterVerify,
    registerCancel |-> RegisterCancel,
    resetStart |-> ResetStart, resetVerify |-> ResetVerify, resetComplete |-> ResetComplete,
    login |-> Login, changePassword |-> ChangePassword, deleteAccount |-> DeleteAccount,
    emailBegin |-> EmailBegin, emailConfirm |-> EmailConfirm,
    setupTotp |-> TotpSetup, enableTotp |-> TotpEnable, disableTotp |-> TotpDisable,
    reseal |-> ResealCycle ]

Kind == DOMAIN Script

ASSUME AccountMixAssumption ==
  \A m \in AccountMix :
    /\ m.live \subseteq Account /\ m.emails \subseteq Email
    /\ m.requests \in Nat /\ m.kinds \subseteq Kind

(* A server serves finitely many requests, and starts with finitely many   *)
(* accounts.                                                               *)
ASSUME FiniteAssumption ==
  IsFiniteSet(Handler) /\ \A m \in AccountMix : IsFiniteSet(m.live)

(* What the handler does after the script has taken another turn. *)
Detour == {"miss", "discard", "failure", "forget"}

Op == Detour \cup UNION { { Script[k][i] : i \in DOMAIN Script[k] } : k \in Kind }

AccountRow ==
  [ status: {"free", "live", "deleted"}, email: Email \cup {NoEmail}, password: Nat,
    secret: Secret \cup {NoSecret}, sealed: BOOLEAN, enabled: BOOLEAN ]

LogRow == [ failures: Nat, locked: BOOLEAN ]

ASSUME NoLogAssumption == NoLog \notin LogRow

(* password: the one it was opened with.  stale: that one had already been *)
(* replaced.  kept: it was the current session of a password change.       *)
SessionRow == [ id: Nat, acct: Account, password: Nat, stale: BOOLEAN, kept: BOOLEAN ]

Idle ==
  [ kind |-> "none", todo |-> <<>>, acct |-> NoAccount, email |-> NoEmail,
    code |-> NoChallenge, good |-> FALSE, old |-> {}, doomed |-> {}, saw |-> NoRow,
    logged |-> FALSE, current |-> NoSession ]

HandlerField ==
  [ kind |-> Kind \cup {"none"}, acct |-> Account \cup {NoAccount},
    email |-> Email \cup {NoEmail}, code |-> Challenge \cup {NoChallenge}, good |-> BOOLEAN,
    old |-> SUBSET Challenge,        (* pending rows a start has selected   *)
    doomed |-> SUBSET Challenge,     (* history: codes a start supersedes   *)
    saw |-> AccountRow \cup {NoRow}, (* the account as this handler read it *)
    logged |-> BOOLEAN,              (* a security row was there at login   *)
    current |-> Nat \cup {NoSession} ]

Fresh == [ status |-> "free", email |-> NoEmail, password |-> 0, secret |-> NoSecret,
           sealed |-> FALSE, enabled |-> FALSE ]

Clean == [ failures |-> 0, locked |-> FALSE ]

AccountInit ==
  /\ mix \in AccountMix
  /\ requests = mix.requests
  /\ challenge = [ c \in Challenge |-> Unissued ]
  /\ pending = {} /\ grants = {}
  /\ account = [ a \in Account |->
       IF a \in mix.live THEN [Fresh EXCEPT !.status = "live", !.email = HomeAddress[a]]
                         ELSE Fresh ]
  /\ log = [ a \in Account |-> IF a \in mix.live THEN Clean ELSE NoLog ]
  /\ sessions = [ id: {0}, acct: mix.live, password: {0}, stale: {FALSE}, kept: {FALSE} ]
  /\ handler = [ h \in Handler |-> Idle ]
  /\ effects = [ c \in Challenge |-> 0 ]
  /\ retired = {} /\ unrevoked = {} /\ generated = {} /\ proven = {} /\ clobbered = {}
  /\ wrong = [ a \in Account |-> 0 ]

-----------------------------------------------------------------------------
At(h, op) == handler[h].todo # <<>> /\ Head(handler[h].todo) = op

Becomes(h, m) == handler' = [handler EXCEPT ![h] = m]

Done(h) == Becomes(h, Idle)

(* On to the next await, with what the handler now knows. *)
Onward(h, m) == Becomes(h, IF Len(m.todo) = 1 THEN Idle ELSE [m EXCEPT !.todo = Tail(@)])

Detours(h, ops) == Becomes(h, [handler[h] EXCEPT !.todo = ops])

Live(a) == a \in Account /\ account[a].status = "live"

(* email_exists, email_taken_by_other *)
Taken(e, a) == \E b \in Account \ {a} : Live(b) /\ account[b].email = e

Registers(k) == k \in {"registerBegin", "registerVerify", "registerCancel"}

(* delete_pending_by_email, delete_pending_password_resets_by_user *)
RowsOf(m) ==
  { c \in pending : IF Registers(m.kind)
                    THEN challenge[c].kind = "registration" /\ challenge[c].email = m.email
                    ELSE challenge[c].kind = "reset" /\ challenge[c].acct = m.acct }

CodeOf(k) ==
  IF Registers(k) THEN "registration" ELSE IF k = "emailBegin" THEN "emailChange" ELSE "reset"

(* A code that is refused: registration drops its pending row and its code. *)
Refuse(h) ==
  IF handler[h].kind = "registerVerify" THEN Detours(h, <<"forget", "discard">>) ELSE Done(h)

(* History: the codes this start outdates, which no request has in hand.   *)
Superseded(m) ==
  { c \in Challenge : /\ m.kind = "resetStart"
                      /\ challenge[c].kind = "reset" /\ challenge[c].acct = m.acct
                      /\ \A g \in Handler : handler[g].code # c }

(* The password is written, the sessions it ends are not yet revoked.      *)
Revoking(m) ==
  /\ \E i \in DOMAIN m.todo : m.todo[i] = "revoke"
  /\ \A i \in DOMAIN m.todo : m.todo[i] \notin {"read", "redeem", "password"}

-----------------------------------------------------------------------------
(* A request comes in.  Anybody may name an address or a code that has been *)
(* issued; the rest needs a session.                                       *)
Requested(k) ==
  LET ask == [Idle EXCEPT !.kind = k, !.todo = Script[k]]
      known == { c \in Challenge : challenge[c].status # "unused" }
  IN  CASE k \in {"registerBegin", "resetStart"} ->
             { [ask EXCEPT !.email = e] : e \in mix.emails }
        [] k = "login" ->
             { [ask EXCEPT !.email = e, !.good = g] : e \in mix.emails, g \in BOOLEAN }
        [] k \in {"registerVerify", "resetVerify"} ->
             { [ask EXCEPT !.code = c, !.good = g] : c \in known, g \in BOOLEAN }
        [] k \in {"registerCancel", "resetComplete"} ->
             { [ask EXCEPT !.code = c] : c \in known }
        [] k = "emailBegin" ->
             { [ask EXCEPT !.acct = s.acct, !.email = e] : s \in sessions, e \in mix.emails }
        [] k = "emailConfirm" ->
             { [ask EXCEPT !.acct = s.acct, !.code = c, !.good = g] :
                 s \in sessions, c \in known, g \in BOOLEAN }
        [] k = "reseal" -> { [ask EXCEPT !.acct = a] : a \in Account }
        [] OTHER -> { [ask EXCEPT !.acct = s.acct, !.current = s.id] : s \in sessions }

Arrive(h) ==
  /\ handler[h] = Idle /\ requests > 0
  /\ \E k \in mix.kinds : \E m \in Requested(k) :
       handler' = [ g \in Handler |-> IF g = h THEN m
                                      ELSE [handler[g] EXCEPT !.doomed = @ \ {m.code}] ]
  /\ requests' = requests - 1
  /\ UNCHANGED <<codes, people, mix, codeHistory, accountHistory>>

(* A statement fails, or the process dies: the request ends where it is.   *)
Fail(h) ==
  LET m == handler[h] IN
  /\ m # Idle
  /\ Done(h)
  /\ unrevoked' = unrevoked \cup { a \in {m.acct} : Revoking(m) }
  /\ wrong' = IF At(h, "failure") /\ wrong[m.acct] > 0
              THEN [wrong EXCEPT ![m.acct] = @ - 1] ELSE wrong
  /\ UNCHANGED <<codes, people, clients, codeHistory, totpHistory>>

(* `let _ =` and `if let Err`: the error is dropped and the handler goes on. *)
Tolerant(m) ==
  \/ Head(m.todo) = "forget" /\ (m.kind = "registerCancel" \/ Tail(m.todo) = <<"discard">>)
  \/ Head(m.todo) = "revoke" /\ m.kind = "resetComplete"

Skip(h) ==
  /\ handler[h].todo # <<>> /\ Tolerant(handler[h])
  /\ Onward(h, handler[h])
  /\ unrevoked' = unrevoked \cup { a \in {handler[h].acct} : At(h, "revoke") }
  /\ UNCHANGED <<codes, people, clients, codeHistory, wrong, totpHistory>>

-----------------------------------------------------------------------------
(* Starting: a code is issued and mailed, earlier ones are withdrawn.      *)

(* VerificationService::begin.  When the mail is refused the row stays.    *)
Issue(h) ==
  /\ At(h, "issue")
  /\ \E c \in Challenge :
       /\ challenge[c].status = "unused"
       /\ challenge' = Issued(challenge, c, CodeOf(handler[h].kind), handler[h].email,
                              handler[h].acct)
       /\ Onward(h, [handler[h] EXCEPT !.code = c])
  /\ UNCHANGED <<pending, grants, people, clients, codeHistory, accountHistory>>

(* find_user_uuid_by_email, find_active_account_by_identifier *)
User(h) ==
  /\ At(h, "user")
  /\ \/ \E a \in Account :
          /\ Live(a) /\ account[a].email = handler[h].email
          /\ Onward(h, [handler[h] EXCEPT !.acct = a,
                           !.saw = IF handler[h].kind = "login" THEN account[a] ELSE NoRow])
     \/ ~Taken(handler[h].email, NoAccount) /\ Done(h)
  /\ UNCHANGED <<codes, people, clients, codeHistory, accountHistory>>

(* How a start goes on that has nothing to withdraw. *)
Unopposed(m) ==
  IF m.kind = "resetStart" THEN <<"dropGrants", "issue", "insert">> ELSE <<"insert">>

(* The SELECT of the two deletes by owner; nothing found, nothing to delete. *)
Select(h) ==
  /\ At(h, "select")
  /\ LET m == [handler[h] EXCEPT !.old = RowsOf(handler[h]), !.doomed = Superseded(handler[h])]
     IN  \/ m.old # {} /\ Onward(h, m)
         \/ m.old = {} /\ Becomes(h, [m EXCEPT !.todo = Unopposed(m)])
  /\ UNCHANGED <<codes, people, clients, codeHistory, accountHistory>>

(* Their DELETE, by owner again: it takes the rows there are now.          *)
Purge(h) ==
  /\ At(h, "purge")
  /\ pending' = pending \ RowsOf(handler[h])
  /\ Onward(h, handler[h])
  /\ UNCHANGED <<challenge, grants, people, clients, codeHistory, accountHistory>>

(* cancel, for each selected row; an error leaves that code in place.      *)
Cancel(h) ==
  /\ At(h, "cancel")
  /\ \E c \in handler[h].old :
       LET m == [handler[h] EXCEPT !.old = @ \ {c}] IN
       /\ challenge' \in {challenge, Removed(challenge, {c})}
       /\ IF m.old = {} THEN Onward(h, m) ELSE Becomes(h, m)
  /\ UNCHANGED <<pending, grants, people, clients, codeHistory, accountHistory>>

(* Fault: a start leaves the grants of earlier ones. *)
DropGrants_forgotten(h) ==
  /\ At(h, "dropGrants")
  /\ retired' = retired \cup handler[h].doomed
  /\ Onward(h, [handler[h] EXCEPT !.doomed = {}])
  /\ UNCHANGED <<codes, people, clients, effects, accountHistory>>

(* delete_password_reset_grants_by_user *)
DropGrants(h) ==
  /\ At(h, "dropGrants")
  /\ grants' = { c \in grants : challenge[c].acct # handler[h].acct }
  /\ retired' = retired \cup handler[h].doomed
  /\ Onward(h, [handler[h] EXCEPT !.doomed = {}])
  /\ UNCHANGED <<challenge, pending, people, clients, effects, accountHistory>>

(* insert_pending, insert_pending_password_reset; the row expires with the code. *)
Insert(h) ==
  /\ At(h, "insert")
  /\ pending' = pending \cup { c \in {handler[h].code} : challenge[c].status # "expired" }
  /\ Onward(h, handler[h])
  /\ UNCHANGED <<challenge, grants, people, clients, codeHistory, accountHistory>>

(* email_exists, email_taken_by_other *)
Exists(h) ==
  /\ At(h, "exists")
  /\ LET m == handler[h]
         taken == Taken(m.email, m.acct)
     IN  \/ ~taken /\ Onward(h, m)
         \/ taken /\ Refuse(h)
  /\ UNCHANGED <<codes, people, clients, codeHistory, accountHistory>>

-----------------------------------------------------------------------------
(* Verifying a code.                                                       *)

(* get_pending, get_pending_password_reset *)
Lookup(h) ==
  /\ At(h, "lookup")
  /\ LET m == handler[h]
         row == challenge[m.code]
         there == m.code \in pending /\ row.kind = CodeOf(m.kind)
     IN  \/ there /\ Onward(h, [m EXCEPT !.acct = row.acct, !.email = row.email])
         \/ ~there /\ Done(h)
  /\ UNCHANGED <<codes, people, clients, codeHistory, accountHistory>>

(* VerificationService::validate, up to the comparison of the code. *)
Find(h) ==
  /\ At(h, "find")
  /\ LET m == handler[h]
         there == Found(challenge, m.code)
     IN  \/ ~there /\ Refuse(h)
         \/ there /\ m.good /\ Onward(h, m)
         \/ there /\ ~m.good /\ Detours(h, <<"miss">>)
  /\ UNCHANGED <<codes, people, clients, codeHistory, accountHistory>>

Miss(h) ==
  /\ At(h, "miss")
  /\ challenge' = Missed(challenge, handler[h].code)
  /\ \/ Exhausted(challenge, handler[h].code) /\ Detours(h, <<"discard">>)
     \/ ~Exhausted(challenge, handler[h].code) /\ Done(h)
  /\ UNCHANGED <<pending, grants, people, clients, codeHistory, accountHistory>>

(* remove, of a code that is spent, or cancelled with its pending row *)
Discard(h) ==
  /\ At(h, "discard")
  /\ challenge' = Removed(challenge, {handler[h].code})
  /\ Onward(h, handler[h])
  /\ UNCHANGED <<pending, grants, people, clients, codeHistory, accountHistory>>

(* consume_if_matches.  Confirming an e-mail change checks only afterwards *)
(* whom the code was issued to: one of another kind or user is spent too.  *)
Consume(h) ==
  /\ At(h, "consume")
  /\ LET m == handler[h]
         row == challenge[m.code]
         won == Consumable(challenge, m.code)
         mine == m.kind = "emailConfirm" => row.acct = m.acct
     IN  \/ won /\ challenge' = Removed(challenge, {m.code})
                /\ \/ mine /\ Onward(h, [m EXCEPT !.email = row.email])
                   \/ ~mine /\ Done(h)
         \/ ~won /\ challenge' = challenge /\ Refuse(h)
  /\ UNCHANGED <<pending, grants, people, clients, codeHistory, accountHistory>>

(* delete_pending, delete_pending_password_reset; each from its own table. *)
Forget(h) ==
  /\ At(h, "forget")
  /\ pending' = { c \in pending : \/ c # handler[h].code
                                  \/ challenge[c].kind # CodeOf(handler[h].kind) }
  /\ Onward(h, handler[h])
  /\ UNCHANGED <<challenge, grants, people, clients, codeHistory, accountHistory>>

(* insert_password_reset_grant *)
Grant(h) ==
  /\ At(h, "grant")
  /\ grants' = grants \cup {handler[h].code}
  /\ Onward(h, handler[h])
  /\ UNCHANGED <<challenge, pending, people, clients, codeHistory, accountHistory>>

(* Fault: the grant is read where it should be taken. *)
Redeem_keepsGrant(h) ==
  /\ At(h, "redeem")
  /\ LET c == handler[h].code IN
     \/ /\ c \in grants
        /\ Onward(h, [handler[h] EXCEPT !.acct = challenge[c].acct])
     \/ c \notin grants /\ Done(h)
  /\ UNCHANGED <<codes, people, clients, codeHistory, accountHistory>>

(* consume_password_reset_grant *)
Redeem(h) ==
  /\ At(h, "redeem")
  /\ LET c == handler[h].code IN
     \/ /\ c \in grants
        /\ grants' = grants \ {c}
        /\ Onward(h, [handler[h] EXCEPT !.acct = challenge[c].acct])
     \/ /\ c \notin grants /\ grants' = grants /\ Done(h)
  /\ UNCHANGED <<challenge, pending, people, clients, codeHistory, accountHistory>>

-----------------------------------------------------------------------------
(* Accounts and passwords.                                                 *)

(* The INSERT into user_accounts; the table's index on e-mails is the last *)
(* word on who has the address.                                            *)
Register(h) ==
  /\ At(h, "account")
  /\ LET m == handler[h] IN
     \/ /\ Taken(m.email, NoAccount)
        /\ Done(h)
        /\ UNCHANGED <<account, effects>>
     \/ \E a \in Account :
          LET row == [Fresh EXCEPT !.status = "live", !.email = m.email] IN
          /\ ~Taken(m.email, NoAccount) /\ account[a].status = "free"
          /\ account' = [account EXCEPT ![a] = row]
          /\ effects' = [effects EXCEPT ![m.code] = @ + 1]
          /\ Onward(h, [m EXCEPT !.acct = a, !.saw = row])
  /\ UNCHANGED <<codes, log, sessions, clients, retired, accountHistory>>

(* get_security_account, get_password_hash, the page of the sealing job.   *)
(* A wrong password or two-factor code ends the request and is Fail.       *)
Accepts(m, row) ==
  CASE m.kind = "setupTotp" -> ~row.enabled
    [] m.kind = "enableTotp" -> row.secret # NoSecret /\ ~row.enabled
    [] m.kind = "disableTotp" -> row.secret # NoSecret /\ row.enabled
    [] m.kind = "reseal" -> row.secret # NoSecret /\ ~row.sealed
    [] m.kind = "emailBegin" -> row.email # m.email
    [] OTHER -> TRUE

Read(h) ==
  /\ At(h, "read")
  /\ LET m == handler[h]
         goes == Live(m.acct) /\ Accepts(m, account[m.acct])
     IN  \/ goes /\ Onward(h, [m EXCEPT !.saw = account[m.acct]])
         \/ ~goes /\ Done(h)
  /\ UNCHANGED <<codes, people, clients, codeHistory, accountHistory>>

(* The UPDATE of update_password_hash; an account that is gone has no row. *)
Password(h) ==
  /\ At(h, "password")
  /\ LET m == handler[h] IN
     /\ \/ /\ Live(m.acct) /\ account[m.acct].password < MaxPassword
           /\ account' = [account EXCEPT ![m.acct].password = @ + 1]
           /\ effects' = IF m.code = NoChallenge THEN effects
                         ELSE [effects EXCEPT ![m.code] = @ + 1]
        \/ ~Live(m.acct) /\ UNCHANGED <<account, effects>>
     /\ Onward(h, m)
  /\ UNCHANGED <<codes, log, sessions, clients, retired, accountHistory>>

(* The security row: registration inserts it, a password write updates it  *)
(* or inserts the one that is missing.                                     *)
Log(h) ==
  /\ At(h, "log")
  /\ LET m == handler[h]
         able == Live(m.acct) /\ (Registers(m.kind) => log[m.acct] = NoLog)
     IN  \/ /\ able
            /\ log' = [log EXCEPT ![m.acct] = IF @ = NoLog THEN Clean ELSE @]
            /\ Onward(h, m)
            /\ UNCHANGED unrevoked
         \/ /\ ~able /\ log' = log
            /\ Done(h)
            /\ unrevoked' = unrevoked \cup { a \in {m.acct} : Revoking(m) }
  /\ UNCHANGED <<codes, account, sessions, clients, codeHistory, wrong, totpHistory>>

(* Fault: the current session is taken for any session of the account. *)
Revoke_sparesAll(h) ==
  /\ At(h, "revoke")
  /\ unrevoked' = unrevoked \ {handler[h].acct}
  /\ Onward(h, handler[h])
  /\ UNCHANGED <<codes, people, clients, codeHistory, wrong, totpHistory>>

(* revoke_other_sessions_for_password_except_id                            *)
Revoke(h) ==
  /\ At(h, "revoke")
  /\ LET m == handler[h] IN
     /\ sessions' = { s \in sessions : s.acct # m.acct }
                      \cup { [s EXCEPT !.kept = TRUE] :
                               s \in { t \in sessions : t.acct = m.acct /\ t.id = m.current } }
     /\ unrevoked' = unrevoked \ {m.acct}
     /\ Onward(h, m)
  /\ UNCHANGED <<codes, account, log, clients, codeHistory, wrong, totpHistory>>

(* delete_user_account; what refers to the row goes with it.               *)
Delete(h) ==
  /\ At(h, "delete")
  /\ LET a == handler[h].acct IN
     IF Live(a)
     THEN /\ account' = [account EXCEPT ![a].status = "deleted"]
          /\ sessions' = { s \in sessions : s.acct # a }
          /\ log' = [log EXCEPT ![a] = NoLog]
     ELSE UNCHANGED people
  /\ Done(h)
  /\ UNCHANGED <<codes, clients, codeHistory, accountHistory>>

(* update_account_email *)
ChangeEmail(h) ==
  /\ At(h, "email")
  /\ LET m == handler[h]
         able == Live(m.acct) /\ ~Taken(m.email, m.acct)
     IN  \/ /\ able
            /\ account' = [account EXCEPT ![m.acct].email = m.email]
            /\ effects' = [effects EXCEPT ![m.code] = @ + 1]
         \/ ~able /\ UNCHANGED <<account, effects>>
  /\ Done(h)
  /\ UNCHANGED <<codes, log, sessions, clients, retired, accountHistory>>

-----------------------------------------------------------------------------
(* Login and its lockout.                                                  *)

(* get_security_log, then the password and the two-factor code against the *)
(* account as it was read before.  An enabled account without a secret     *)
(* refuses every code.                                                     *)
Lockout(h) ==
  /\ At(h, "lockout")
  /\ LET m == handler[h]
         row == log[m.acct]
         locked == row # NoLog /\ row.locked
         right == m.good /\ (m.saw.enabled => m.saw.secret # NoSecret)
     IN  \/ locked /\ Done(h) /\ wrong' = wrong
         \/ /\ ~locked /\ right
            /\ Onward(h, [m EXCEPT !.logged = (row # NoLog)])
            /\ wrong' = wrong
         \/ /\ ~locked /\ ~right
            /\ Detours(h, <<"failure">>)
            /\ wrong' = [wrong EXCEPT ![m.acct] = @ + 1]
  /\ UNCHANGED <<codes, people, clients, codeHistory, unrevoked, totpHistory>>

(* Fault: one failure more than allowed. *)
Failed_offByOne(row) ==
  IF row = NoLog THEN [Clean EXCEPT !.failures = 1]
  ELSE IF row.locked THEN row
  ELSE IF row.failures + 1 > MaxFailures THEN [failures |-> 0, locked |-> TRUE]
  ELSE [failures |-> row.failures + 1, locked |-> FALSE]

(* The row record_login_failure leaves: one statement reads and writes it. *)
Failed(row) ==
  IF row = NoLog THEN [Clean EXCEPT !.failures = 1]
  ELSE IF row.locked THEN row
  ELSE IF row.failures + 1 >= MaxFailures THEN [failures |-> 0, locked |-> TRUE]
  ELSE [failures |-> row.failures + 1, locked |-> FALSE]

Failure(h) ==
  /\ At(h, "failure")
  /\ LET a == handler[h].acct
     IN  log' = IF Live(a) THEN [log EXCEPT ![a] = Failed(@)] ELSE log
  /\ Done(h)
  /\ UNCHANGED <<codes, account, sessions, clients, codeHistory, accountHistory>>

FreshId ==
  CHOOSE n \in 0 .. Cardinality(sessions) + Cardinality(Handler) :
    /\ \A s \in sessions : s.id # n
    /\ \A g \in Handler : handler[g].current # n

(* insert_session, by the account as the handler knows it.                 *)
OpenSession(h) ==
  /\ At(h, "session")
  /\ LET m == handler[h]
         row == [ id |-> FreshId, acct |-> m.acct, password |-> m.saw.password,
                  stale |-> m.saw.password # account[m.acct].password, kept |-> FALSE ]
     IN  IF Live(m.acct)
         THEN sessions' = sessions \cup {row}
              /\ Onward(h, IF m.kind = "login" /\ ~m.logged
                           THEN [m EXCEPT !.todo = <<"session">>] ELSE m)
         ELSE sessions' = sessions /\ Done(h)
  /\ UNCHANGED <<codes, account, log, clients, codeHistory, accountHistory>>

(* clear_login_failures_on_success; it lifts a lock set since the read, too. *)
Clear(h) ==
  /\ At(h, "clear")
  /\ LET a == handler[h].acct
     IN  /\ log' = IF log[a] = NoLog THEN log ELSE [log EXCEPT ![a] = Clean]
         /\ wrong' = [wrong EXCEPT ![a] = 0]
  /\ Onward(h, handler[h])
  /\ UNCHANGED <<codes, account, sessions, clients, codeHistory, unrevoked, totpHistory>>

(* login_locked_until has passed. *)
Unlock(a) ==
  /\ log[a] # NoLog /\ log[a].locked
  /\ log' = [log EXCEPT ![a] = Clean]
  /\ wrong' = [wrong EXCEPT ![a] = 0]
  /\ UNCHANGED <<codes, account, sessions, handler, clients, codeHistory, unrevoked, totpHistory>>

-----------------------------------------------------------------------------
(* Fault: a setup leaves the flag of an earlier one. *)
WriteTotp_keepsFlag(h, secret, sealed, enabled) ==
  /\ account' = IF Live(handler[h].acct)
                THEN [account EXCEPT ![handler[h].acct].secret = secret,
                                     ![handler[h].acct].sealed = sealed,
                                     ![handler[h].acct].enabled = enabled \/ @]
                ELSE account
  /\ Done(h)
  /\ UNCHANGED <<codes, log, sessions, clients, codeHistory, unrevoked, wrong>>

(* The second factor.  Each write is one UPDATE by user; only the job's    *)
(* compares what it replaces.                                              *)
WriteTotp(h, secret, sealed, enabled) ==
  /\ account' = IF Live(handler[h].acct)
                THEN [account EXCEPT ![handler[h].acct].secret = secret,
                                     ![handler[h].acct].sealed = sealed,
                                     ![handler[h].acct].enabled = enabled]
                ELSE account
  /\ Done(h)
  /\ UNCHANGED <<codes, log, sessions, clients, codeHistory, unrevoked, wrong>>

(* set_two_factor_secret; sealed by the active key or not, as configured.  *)
SetupTotp(h) ==
  /\ At(h, "secret")
  /\ \E secret \in Secret \ generated, sealed \in BOOLEAN :
       /\ WriteTotp(h, secret, sealed, FALSE)
       /\ generated' = generated \cup {secret}
  /\ UNCHANGED <<proven, clobbered>>

(* enable_two_factor: whatever secret is there now.                        *)
EnableTotp(h) ==
  /\ At(h, "enable")
  /\ LET m == handler[h]
         row == account[m.acct]
     IN  /\ WriteTotp(h, row.secret, row.sealed, TRUE)
         /\ proven' = proven \cup {m.saw.secret}
         /\ clobbered' = clobbered \cup { a \in {m.acct} : row.secret # m.saw.secret }
  /\ UNCHANGED generated

(* disable_two_factor *)
DisableTotp(h) ==
  /\ At(h, "disable")
  /\ WriteTotp(h, NoSecret, FALSE, FALSE)
  /\ UNCHANGED totpHistory

(* Fault: the swap writes without comparing. *)
Untouched_unchecked(m, row) == TRUE

(* compare_and_swap_two_factor_secret, under the active key.               *)
Untouched(m, row) == row.secret = m.saw.secret /\ ~row.sealed

Reseal(h) ==
  /\ At(h, "swap")
  /\ LET m == handler[h]
         row == account[m.acct]
     IN  IF Untouched(m, row)
         THEN WriteTotp(h, m.saw.secret, TRUE, row.enabled)
         ELSE Done(h) /\ UNCHANGED <<codes, people, clients, codeHistory, unrevoked, wrong>>
  /\ UNCHANGED totpHistory

-----------------------------------------------------------------------------
(* Time. *)
ExpireCode(c) ==
  /\ challenge[c].status \in {"live", "gone"}
  /\ challenge[c].status = "live" \/ c \in pending
  /\ challenge' = Expired(challenge, c)
  /\ pending' = pending \ {c}
  /\ UNCHANGED <<grants, people, handler, clients, codeHistory, accountHistory>>

ExpireGrant(c) ==
  /\ c \in grants
  /\ grants' = grants \ {c}
  /\ UNCHANGED <<challenge, pending, people, handler, clients, codeHistory, accountHistory>>

(* The last await of a reset: PasswordResetHook, into the E2E module.  Its *)
(* error is dropped and nothing follows it.                                *)
Hook(h) ==
  /\ At(h, "hook")
  /\ Onward(h, handler[h])
  /\ UNCHANGED <<codes, people, clients, codeHistory, accountHistory>>

AccountStep(h) ==
  \/ Arrive(h) \/ Fail(h) \/ Skip(h)
  \/ User(h) \/ Select(h) \/ Purge(h) \/ Cancel(h) \/ DropGrants(h) \/ Issue(h) \/ Insert(h)
  \/ Exists(h) \/ Lookup(h) \/ Find(h) \/ Miss(h) \/ Discard(h) \/ Consume(h) \/ Forget(h)
  \/ Grant(h) \/ Redeem(h)
  \/ Register(h) \/ Read(h) \/ Password(h) \/ Log(h) \/ Revoke(h) \/ Delete(h) \/ ChangeEmail(h)
  \/ Lockout(h) \/ Failure(h) \/ OpenSession(h) \/ Clear(h)
  \/ SetupTotp(h) \/ EnableTotp(h) \/ DisableTotp(h) \/ Reseal(h)

AccountTime ==
  \/ \E c \in Challenge : ExpireCode(c) \/ ExpireGrant(c)
  \/ \E a \in Account : Unlock(a)

AccountNext == AccountTime \/ \E h \in Handler : AccountStep(h) \/ Hook(h)

AccountSpec == AccountInit /\ [][AccountNext]_accountVars

-----------------------------------------------------------------------------
(* Properties.                                                             *)

(* Every variable has its type: the rows of the tables are rows, the       *)
(* handlers hold nothing they cannot have read.                            *)
AccountTypeOK ==
  /\ challenge \in [ Challenge -> ChallengeRow ]
  /\ pending \subseteq Challenge /\ grants \subseteq Challenge
  /\ account \in [ Account -> AccountRow ]
  /\ log \in [ Account -> LogRow \cup {NoLog} ]
  /\ sessions \subseteq SessionRow
  /\ \A h \in Handler : /\ \A f \in DOMAIN handler[h] \ {"todo"} :
                             handler[h][f] \in HandlerField[f]
                        /\ handler[h].todo \in Seq(Op)
  /\ requests \in Nat /\ mix \in AccountMix
  /\ effects \in [ Challenge -> Nat ] /\ wrong \in [ Account -> Nat ]
  /\ retired \subseteq Challenge /\ unrevoked \subseteq Account /\ clobbered \subseteq Account
  /\ generated \subseteq Secret /\ proven \subseteq Secret

(* A code brings about one thing at most - one account, one new password,  *)
(* one new address - however many requests show it at once: consuming the  *)
(* code, and redeeming the grant it is exchanged for, has one winner.      *)
OneEffectPerCode == \A c \in Challenge : effects[c] <= 1

(* A code that brought something about was accepted within the attempts    *)
(* allowed, although the count is read, raised and acted on in separate    *)
(* statements and right and wrong guesses run in parallel.                 *)
AttemptsRespected == \A c \in Challenge : effects[c] > 0 => challenge[c].attempts < MaxAttempts

(* Once a new reset start has withdrawn the grants, a code or a grant of    *)
(* before it sets no password, unless a request already had it in hand     *)
(* when the start looked.  (Its code may still confirm an e-mail change:   *)
(* confirm_email_change does not ask what kind of code it was shown.)      *)
RetiredCodesAreDead ==
  [][ \A c \in retired, a \in Account :
        effects'[c] # effects[c] => account'[a].password = account[a].password ]_accountVars

(* A session opened with a password that has been replaced does not live   *)
(* on, but for the one the change was made from, one whose login had       *)
(* checked the old password before it was replaced and inserted its row    *)
(* after, and those of a write whose revocation failed or is to come.      *)
OldSessionsEnd ==
  \A s \in sessions :
    s.password # account[s.acct].password =>
      \/ s.stale \/ s.kept \/ s.acct \in unrevoked
      \/ \E h \in Handler : handler[h].acct = s.acct /\ Revoking(handler[h])

(* Parallel logins read the lock before any of them records its failure:   *)
(* between two locks, they outrun the limit by one wrong answer for each   *)
(* other login under way, and no more.                                     *)
LockoutOutrunAtMost ==
  \A a \in Account : Live(a) => wrong[a] <= MaxFailures + Cardinality(Handler) - 1

(* A secret that was replaced or removed never comes back: the sealing job *)
(* and a second setup write only over what they have read, or a secret of  *)
(* their own.                                                              *)
SecretsNeverReturn ==
  [][ \A a \in Account : account'[a].secret # account[a].secret =>
                           account'[a].secret \in (Secret \ generated) \cup {NoSecret} ]_accountVars

(* Two-factor login is on only over a secret the client has shown a code   *)
(* of, or where the secret was changed between the check and the write of  *)
(* an enable, which names no secret.                                       *)
TotpProven ==
  \A a \in Account : account[a].enabled => account[a].secret \in proven \/ a \in clobbered

=============================================================================
