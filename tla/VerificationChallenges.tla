---------------------- MODULE VerificationChallenges ----------------------
(***************************************************************************)
(* The table of one-time codes of flora-verification and the statements    *)
(* its repository runs on it.  Each statement is atomic; the service calls *)
(* them one at a time and awaits in between, so a handler holds nothing    *)
(* but the row it has read.                                                *)
(*                                                                         *)
(* A row that has expired is invisible to every statement that could use   *)
(* it, and nothing but a sweep still sees it: expiry is the step that      *)
(* removes the row, and the sweeps (remove_expired, the cleanups of the    *)
(* pending tables) are no steps of their own.  A token that was used or    *)
(* cancelled still expires, and the pending row that goes by it as well.   *)
(***************************************************************************)
EXTENDS Naturals

CONSTANTS
  Challenge,   (* tokens; each names one row, ever                         *)
  Email,       (* targets of a code                                        *)
  Account,     (* subjects of a code                                       *)
  NoEmail, NoAccount,
  MaxAttempts  (* MAX_ATTEMPTS                                             *)

ASSUME AttemptsAssumption == MaxAttempts \in Nat \ {0}
ASSUME NobodyAssumption == NoAccount \notin Account /\ NoEmail \notin Email

(* KIND_EMAIL_REGISTRATION, KIND_EMAIL_PASSWORD_RESET, KIND_EMAIL_CHANGE *)
CodeKind == {"registration", "reset", "emailChange"}

ChallengeRow ==
  [ status: {"unused", "live", "gone", "expired"}, kind: CodeKind \cup {"none"},
    email: Email \cup {NoEmail}, acct: Account \cup {NoAccount}, attempts: Nat ]

Unissued ==
  [ status |-> "unused", kind |-> "none", email |-> NoEmail, acct |-> NoAccount, attempts |-> 0 ]

(* add *)
Issued(table, c, kind, email, acct) ==
  [ table EXCEPT ![c] =
      [ status |-> "live", kind |-> kind, email |-> email, acct |-> acct, attempts |-> 0 ] ]

(* find_by_token *)
Found(table, c) == table[c].status = "live"

(* remove; a row that is not there is no error *)
Removed(table, gone) ==
  [ c \in Challenge |-> IF c \in gone /\ Found(table, c)
                        THEN [table[c] EXCEPT !.status = "gone"] ELSE table[c] ]

(* Fault: attempts are counted down. *)
Missed_countsDown(table, c) ==
  IF Found(table, c) THEN [table EXCEPT ![c].attempts = @ - 1] ELSE table

(* increment_attempts *)
Missed(table, c) ==
  IF Found(table, c) THEN [table EXCEPT ![c].attempts = @ + 1] ELSE table

Expired(table, c) == [table EXCEPT ![c].status = "expired"]

(* What the caller of increment_attempts learns: the limit is reached. *)
Exhausted(table, c) == Found(table, c) /\ table[c].attempts + 1 >= MaxAttempts

(* Fault: the limit is left to the caller, who removes the row. *)
Consumable_noLimit(table, c) == Found(table, c)

(* consume_if_matches finds a row: the limit is part of the statement, so a *)
(* code whose last attempt is being removed is refused already.             *)
Consumable(table, c) == Found(table, c) /\ table[c].attempts < MaxAttempts

=============================================================================
