-------------------------- MODULE AccountRecovery --------------------------
(***************************************************************************)
(* The accounts of flora-auth and the end-to-end keys of flora-messaging,  *)
(* as one server runs them.  They share no table and meet in one call: the *)
(* last thing a password reset does is to run PasswordResetHook, which     *)
(* locks the E2E account of the user.  Each side goes on serving its own   *)
(* clients while it does.                                                  *)
(***************************************************************************)
EXTENDS AccountAccess, E2eAccount

CONSTANTS
  Owner,   (* the account whose end-to-end keys are modelled               *)
  Pairing  (* bound: which clients of the two sides meet in one behaviour  *)

ASSUME OwnerAssumption == Owner \in Account

VARIABLE
  owed  (* history: the requests that still owe the owner a lock: handlers *)
        (* that have written the new password while the keys were open,    *)
        (* then the workers their hooks run in; closed keys clear the debt *)

recoveryVars == <<accountVars, e2eVars, owed>>

RecoveryInit == AccountInit /\ E2eInit /\ <<mix, sends>> \in Pairing /\ owed = {}

(* A reset that has written the password and has its hook still to run.    *)
Owes(m) ==
  /\ m.kind = "resetComplete" /\ m.acct = Owner
  /\ \E i \in DOMAIN m.todo : m.todo[i] = "hook"
  /\ \A i \in DOMAIN m.todo : m.todo[i] # "password"

Accounts(h) ==
  /\ AccountStep(h)
  /\ owed' = IF ~Owes(handler'[h]) THEN owed \ {h}
             ELSE IF At(h, "password") /\ Open(e2eState) THEN owed \cup {h} ELSE owed
  /\ UNCHANGED e2eVars

(* after_password_reset.  The reset answers "ok" whatever comes of it.     *)
ResetHook(h, w) ==
  /\ Hook(h)
  /\ handler[h].acct = Owner
  /\ AskForLock(w)
  /\ owed' = { IF x = h THEN w ELSE x : x \in owed }

HookElsewhere(h) == Hook(h) /\ handler[h].acct # Owner /\ UNCHANGED <<e2eVars, owed>>

EndToEnd ==
  /\ \/ /\ ExpireE2e \/ EnterRecovering \/ \E w \in Worker : E2eStep(w)
        /\ owed' = IF Open(e2eState') THEN owed ELSE {}
     \/ \E w \in Worker : E2eFail(w) /\ owed' = owed \ {w}
  /\ UNCHANGED accountVars

RecoveryNext ==
  \/ AccountTime /\ UNCHANGED <<e2eVars, owed>>
  \/ \E h \in Handler :
       \/ Accounts(h) \/ HookElsewhere(h)
       \/ \E w \in Worker : ResetHook(h, w)
  \/ EndToEnd

RecoverySpec == RecoveryInit /\ [][RecoveryNext]_recoveryVars

(* A reset whose statements all succeed closes the keys that were open     *)
(* when it wrote the new password, at some moment before it is over: the   *)
(* lock's UPDATE finds every open state the clients can have brought the   *)
(* account into since its SELECT.                                          *)
ResetCloses ==
  \A x \in owed : \/ x \in Handler /\ Owes(handler[x])
                  \/ x \in Worker /\ worker[x].req = LockRequest

=============================================================================
