--------------------------- MODULE RefreshMachine ---------------------------
(***************************************************************************)
(* The pure decision of the retry-safe refresh protocol, translated from   *)
(* flora-auth/src/domain/refresh_machine.rs.  A refresh request presents a *)
(* token; the decision depends on the locked session row, on the one       *)
(* replay row the session may have, on whether the token is                *)
(* cryptographically bound to the session (HMAC family), and on the        *)
(* database clock.                                                         *)
(***************************************************************************)
EXTENDS Integers

CONSTANTS
  Token,   (* refresh tokens; a token stands for its hash as well          *)
  NoToken, (* the absent token                                             *)
  NoRow    (* the absent replay row                                        *)

ASSUME NoTokenAssumption == NoToken \notin Token

(* SessionState: the part of user_sessions the decision reads. *)
SessionRow == [ status  : {"unborn", "active", "revoked", "deleted"},
                current : Token \cup {NoToken},
                rotation: Nat,
                expires : Nat ]

(* ReplayRecord: what the last rotation spent and what it handed out. *)
ReplayRow == [ spent: Token, replacement: Token, until: Nat ]

ASSUME NoRowAssumption == NoRow \notin ReplayRow

Decision == {"Rotate", "Replay", "ReuseOutsideGrace", "Invalid"}

-----------------------------------------------------------------------------

(* Strict: at the exact boundary the grant has already expired. *)
Fresh(row, at) == row # NoRow /\ row.until > at

UsableUntilExpiry(row, at) == row.status # "unborn" /\ row.expires > at

Usable(row, at) == row.status = "active" /\ row.expires > at

ReplayableSpentOnly(session, replay, presented, at) ==
  /\ Fresh(replay, at)
  /\ presented = replay.spent

ReplayableCurrentOnly(session, replay, presented, at) ==
  /\ Fresh(replay, at)
  /\ presented = replay.replacement

(* Inside the grace window both ends of the last rotation are answered with *)
(* the stored replacement: the spent token, and the replacement itself.     *)
Replayable(session, replay, presented, at) ==
  /\ Fresh(replay, at)
  /\ presented = IF presented = session.current
                 THEN replay.replacement
                 ELSE replay.spent

(* decide *)
Decide(session, replay, presented, bound, at) ==
  IF ~Usable(session, at)                                THEN "Invalid"
  ELSE IF Replayable(session, replay, presented, at)     THEN "Replay"
  ELSE IF presented = session.current                    THEN "Rotate"
  ELSE IF bound                                          THEN "ReuseOutsideGrace"
  ELSE                                                        "Invalid"

(* drain_blocks: a draining instance refuses the decisions that write. *)
DrainBlocks(decision, draining) ==
  draining /\ decision \in {"Rotate", "ReuseOutsideGrace"}

=============================================================================
