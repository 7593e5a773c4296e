------------------------- MODULE MobileSessionStore -------------------------
(***************************************************************************)
(* The session store of the mobile app (apps/Mobile/lib/session.ts): one   *)
(* canonical record in SecureStore and, after a write that did not read    *)
(* back, a second copy under the "pending" key, here the shadow.           *)
(*                                                                         *)
(* The operations of the store are serialized, so each one is the set of   *)
(* its possible outcomes on the disk; the native calls inside it may fail, *)
(* and each failure costs one fault.  A record is its revision and its     *)
(* refresh token; an empty record (the tombstone of a logout) holds none.  *)
(* The pendingProfileSetup flag shows only in the revision it advances.    *)
(* Not modelled: the migration of legacy keys, corrupt JSON, and the       *)
(* overlay behind getAccessToken, which the coordinator never reads.       *)
(***************************************************************************)
EXTENDS Integers

CONSTANTS Token, NoToken, NoRecord

Record == [ revision: Nat, token: Token \cup {NoToken} ]

Disk == [ canonical: Record, shadow: Record \cup {NoRecord} ]

Empty(record) == record.token = NoToken

Outcome(disk, result, record, faults) ==
  [ disk |-> disk, result |-> result, record |-> record, faults |-> faults ]

(* A plausible slip: the shadow outlives the write that supersedes it. *)
WriteKeepingShadow(d, record) ==
  LET written == [ d EXCEPT !.canonical = record ]
  IN { Outcome(written, "done", record, 0),
       Outcome(d, "threw", record, 1),
       Outcome(written, "threw", record, 1),
       Outcome([ d EXCEPT !.shadow = record ], "threw", record, 1) }

(* writeVerified: write, read back, drop the shadow.  In order: all well;   *)
(* the shadow stays; the write is refused; the read-back throws; the        *)
(* read-back differs, and the record goes to the shadow instead.            *)
WriteVerified(d, record) ==
  LET written == [ d EXCEPT !.canonical = record ]
  IN { Outcome([ written EXCEPT !.shadow = NoRecord ], "done", record, 0),
       Outcome(written, "done", record, 1),
       Outcome(d, "threw", record, 1),
       Outcome(written, "threw", record, 1),
       Outcome([ d EXCEPT !.shadow = record ], "threw", record, 1) }

(* A shadow is adopted unless it is a tombstone or older than the canonical *)
(* record; as old as it is not older.                                       *)
Adoptable(d) ==
  /\ d.shadow # NoRecord
  /\ ~Empty(d.shadow)
  /\ d.shadow.revision >= d.canonical.revision

(* readPersisted: the read may throw; the shadow may fail to show, or to be  *)
(* deleted; it is adopted, and then returned whether or not the write that  *)
(* adopts it succeeds; or there is nothing in it to keep.                   *)
ReadPersisted(d) ==
  LET hidden == { Outcome(d, "threw", d.canonical, 1), Outcome(d, "done", d.canonical, 1) }
  IN IF d.shadow = NoRecord
     THEN { Outcome(d, "threw", d.canonical, 1), Outcome(d, "done", d.canonical, 0) }
     ELSE IF Adoptable(d)
     THEN hidden \cup
          { [ w EXCEPT !.result = "done" ] : w \in WriteVerified(d, d.shadow) }
     ELSE hidden \cup
          { Outcome([ d EXCEPT !.shadow = NoRecord ], "done", d.canonical, 0) }

(* After a read, the next revision with this token. *)
Rewrite(r, token) ==
  { [ w EXCEPT !.faults = @ + r.faults ] :
      w \in WriteVerified(r.disk, [ revision |-> r.record.revision + 1, token |-> token ]) }

(* compareAndSetSession, and compareAndClearSession when the token is none. *)
CompareAndSwap(d, revision, token) ==
  UNION { IF r.result = "threw" THEN { r }
          ELSE IF r.record.revision # revision THEN { [ r EXCEPT !.result = "refused" ] }
          ELSE Rewrite(r, token) : r \in ReadPersisted(d) }

SaveSession(d, token) ==
  UNION { IF r.result = "threw" THEN { r } ELSE Rewrite(r, token) : r \in ReadPersisted(d) }

ClearSession(d) ==
  UNION { IF r.result = "threw" \/ Empty(r.record) THEN { r } ELSE Rewrite(r, NoToken)
            : r \in ReadPersisted(d) }

(* setPendingProfileSetup: the same session under the next revision. *)
TouchSession(d) ==
  UNION { IF r.result = "threw" \/ Empty(r.record) THEN { r } ELSE Rewrite(r, r.record.token)
            : r \in ReadPersisted(d) }

=============================================================================
