--------------------------- MODULE FrankingReport ---------------------------
(***************************************************************************)
(* One report of an abusive message (flora-messaging): a reporter submits  *)
(* it with key wraps for reviewers, one reviewer claims it exclusively,    *)
(* may forward it to others, and releases or closes it.  A wrap is what    *)
(* makes its owner a viewer of the reported content.                       *)
(*                                                                         *)
(* A request is served by a handler.  Its first step is the read of the    *)
(* report that the application layer judges by, and what it found may be   *)
(* old when the transaction of the repository runs.  A transaction that    *)
(* begins with SELECT ... FOR UPDATE, or with an UPDATE of the report row, *)
(* is one step, except for claim_open: its UPDATE also asks whether the    *)
(* claimer has a wrap, and under READ COMMITTED that question is answered  *)
(* from the snapshot of the statement's start, while its WHERE clause is   *)
(* judged again on the row it has waited for.                              *)
(*                                                                         *)
(* A person stands for all devices of an account; the roster of reviewers  *)
(* does not change; the reported message is not deleted.  Blocks are the   *)
(* fact that the accused was blocked: nothing in the code lifts a block.   *)
(***************************************************************************)
EXTENDS Naturals, FiniteSets

CONSTANTS
  Person, reporter, accused,
  Reviewer,     (* active rows of franking_reviewers; a party may be one   *)
  Handler,      (* requests served at one time                             *)
  MaxViewers,   (* MAX_VIEWER_ACCOUNTS, 5 in the code                      *)
  Nobody        (* claimed_by IS NULL                                      *)

ASSUME FrankingAssumption ==
  /\ IsFiniteSet(Person) /\ Nobody \notin Person
  /\ reporter \in Person /\ accused \in Person /\ reporter # accused
  /\ Reviewer \subseteq Person
  /\ MaxViewers \in Nat \ {0}

VARIABLES
  status, claimedBy, sanctioned,  (* franking_reports; the last one: the   *)
                                  (* verdict came with an accountBlock     *)
  wraps,      (* franking_disclosure_wraps: who has one                    *)
  lastEvent,  (* franking_report_audit: a person's last wrap event         *)
  blocked,    (* user_account_blocks has a row for the accused             *)
  request,    (* what each handler works on                                *)
  invited,    (* history: whom the claimer forwarded the report to         *)
  readers,    (* history: whom fetch_disclosure served under this claim    *)
  outdated    (* history: claimed on a wrap that was gone by then          *)

row == <<status, claimedBy, sanctioned>>
history == <<invited, readers, outdated>>
vars == <<row, wraps, lastEvent, blocked, request, history>>

-----------------------------------------------------------------------------
Party == {reporter, accused}
Live == {"claimed", "claimed_awaiting_disclosure"}
Closed == {"resolved", "rejected"}
Status == {"absent", "open"} \cup Live \cup Closed

(* The accounts whose wraps count for the cap: viewerAccountCount.          *)
Viewers(W) == W \ {reporter}

Idle == [op |-> "idle"]

(* WrapLock: what insert_wraps holds the locked row against.                *)
Unlocked == [kind |-> "unlocked"]
WrapLock ==
  {Unlocked}
    \cup [kind : {"claimer"}, claimer : Person, promote : BOOLEAN]
    \cup [kind : {"forward"}, claimer : Person]

Request ==
  {Idle}
    \cup [op : {"claim", "release", "disclosure"}, who : Person]
    \cup [op : {"claiming"}, who : Person, wrapped : BOOLEAN]
    \cup [op : {"wraps"}, to : SUBSET Person, lock : WrapLock]
    \cup [op : {"resolve"}, who : Person, decision : Closed,
          block : BOOLEAN, applied : BOOLEAN]

(* require_report_known_to: the reporter, the claimer, the viewers, and     *)
(* reviewers other than the accused.                                        *)
KnownTo(p) ==
  /\ status # "absent"
  /\ \/ p = reporter \/ p = claimedBy
     \/ p \in wraps \ Party
     \/ p \in Reviewer \ {accused}

Begin(h, r) ==
  /\ request[h] = Idle
  /\ request' = [request EXCEPT ![h] = r]
  /\ UNCHANGED <<row, wraps, lastEvent, blocked, history>>

Done(h) == request' = [request EXCEPT ![h] = Idle]

(* A wrap event for everybody in "who".                                     *)
Audit(who, event) ==
  lastEvent' = [p \in Person |-> IF p \in who THEN event ELSE lastEvent[p]]

(* Fault: the destroyed wraps leave no audit row. *)
KeepWraps_silent(kept) == wraps' = wraps \cap kept /\ UNCHANGED lastEvent

(* DELETE of all wraps but those of "kept", and an audit row for each.      *)
KeepWraps(kept) ==
  /\ wraps' = wraps \cap kept
  /\ Audit(wraps \ kept, "wrap_destroyed")

Init ==
  /\ status = "absent" /\ claimedBy = Nobody /\ sanctioned = FALSE
  /\ wraps = {} /\ lastEvent = [p \in Person |-> "none"]
  /\ blocked = FALSE
  /\ request = [h \in Handler |-> Idle]
  /\ invited = {} /\ readers = {} /\ outdated = FALSE

(* create_report: one transaction, which depends on nothing read before.    *)
Submit(W) ==
  /\ status = "absent"
  /\ accused \notin W
  /\ Viewers(W) \subseteq Reviewer
  /\ Cardinality(Viewers(W)) <= MaxViewers
  /\ status' = "open"
  /\ wraps' = W
  /\ Audit(W, "wrap_created")
  /\ UNCHANGED <<claimedBy, sanctioned, blocked, request, history>>

-----------------------------------------------------------------------------
(* claim                                                                    *)

ReadClaim(h, p) ==
  /\ KnownTo(p) /\ p \in Reviewer \ Party
  /\ status = "open"
  /\ Begin(h, [op |-> "claim", who |-> p])

(* The UPDATE of claim_open begins and takes its snapshot.                  *)
StartClaim(h) ==
  /\ request[h].op = "claim"
  /\ status = "open"
  /\ request' = [request EXCEPT ![h] = [op |-> "claiming", who |-> @.who,
                                        wrapped |-> @.who \in wraps]]
  /\ UNCHANGED <<row, wraps, lastEvent, blocked, history>>

(* It has the row; the rest of the transaction follows under its lock.      *)
Claim(h) ==
  /\ request[h].op = "claiming"
  /\ status = "open"
  /\ LET p == request[h].who
     IN /\ status' = IF request[h].wrapped THEN "claimed"
                                           ELSE "claimed_awaiting_disclosure"
        /\ claimedBy' = p
        /\ KeepWraps({reporter, p})
        /\ outdated' = (request[h].wrapped /\ p \notin wraps)
  /\ invited' = {} /\ readers' = {}
  /\ Done(h)
  /\ UNCHANGED <<sanctioned, blocked>>

-----------------------------------------------------------------------------
(* release                                                                  *)

ReadRelease(h, p) ==
  /\ KnownTo(p) /\ claimedBy = p
  /\ Begin(h, [op |-> "release", who |-> p])

(* Fault: claimed_by is not reset. *)
Release_keepsClaimer(h) ==
  /\ request[h].op = "release"
  /\ claimedBy = request[h].who /\ status \in Live
  /\ status' = "open"
  /\ KeepWraps({reporter})
  /\ invited' = {} /\ readers' = {} /\ outdated' = FALSE
  /\ Done(h)
  /\ UNCHANGED <<claimedBy, sanctioned, blocked>>

Release(h) ==
  /\ request[h].op = "release"
  /\ claimedBy = request[h].who /\ status \in Live
  /\ status' = "open" /\ claimedBy' = Nobody
  /\ KeepWraps({reporter})
  /\ invited' = {} /\ readers' = {} /\ outdated' = FALSE
  /\ Done(h)
  /\ UNCHANGED <<sanctioned, blocked>>

-----------------------------------------------------------------------------
(* wraps after the submit: add_wraps of the reporter, forward of the        *)
(* claimer, and insert_wraps, which both call                               *)

(* wrap_lock_for_late: wraps for the claimer hold the row to what was read. *)
LateLock(W) ==
  IF status \in Live /\ claimedBy \in W
  THEN [kind |-> "claimer", claimer |-> claimedBy,
        promote |-> status = "claimed_awaiting_disclosure"]
  ELSE Unlocked

ReadWraps(h, W) ==
  /\ status \notin Closed \cup {"absent"}
  /\ W # {}
  /\ W \subseteq {reporter} \cup (IF status \in Live THEN {claimedBy} ELSE {})
  /\ Begin(h, [op |-> "wraps", to |-> W, lock |-> LateLock(W)])

ReadForward(h, p, W) ==
  /\ KnownTo(p) /\ claimedBy = p /\ status = "claimed"
  /\ W # {} /\ W \subseteq Reviewer \ (Party \cup {p})
  /\ Begin(h, [op |-> "wraps", to |-> W,
               lock |-> [kind |-> "forward", claimer |-> p]])

(* Fault: the row is not held against the claimer of the request. *)
MayInsert_anyClaimer(W, lock) ==
  /\ status \notin Closed /\ accused \notin W
  /\ \/ lock.kind = "unlocked" /\ W \subseteq {reporter}
     \/ /\ lock.kind = "claimer"
        /\ status = IF lock.promote THEN "claimed_awaiting_disclosure"
                                    ELSE "claimed"
     \/ /\ lock.kind = "forward" /\ status = "claimed"
        /\ Cardinality(Viewers(wraps)) + Cardinality(Viewers(W) \ wraps)
             <= MaxViewers

(* Fault: each forward is held to the cap by itself. *)
MayInsert_capPerForward(W, lock) ==
  /\ status \notin Closed /\ accused \notin W
  /\ \/ lock.kind = "unlocked" /\ W \subseteq {reporter}
     \/ /\ lock.kind = "claimer" /\ claimedBy = lock.claimer
        /\ status = IF lock.promote THEN "claimed_awaiting_disclosure"
                                    ELSE "claimed"
     \/ /\ lock.kind = "forward"
        /\ status = "claimed" /\ claimedBy = lock.claimer
        /\ Cardinality(Viewers(W)) <= MaxViewers

(* The checks of insert_wraps under the row lock.                           *)
MayInsert(W, lock) ==
  /\ status \notin Closed
  /\ accused \notin W
  /\ \/ lock.kind = "unlocked" /\ W \subseteq {reporter}
     \/ /\ lock.kind = "claimer"
        /\ claimedBy = lock.claimer
        /\ status = IF lock.promote THEN "claimed_awaiting_disclosure"
                                    ELSE "claimed"
        /\ W \subseteq {reporter, lock.claimer}
     \/ /\ lock.kind = "forward"
        /\ status = "claimed" /\ claimedBy = lock.claimer
        /\ Cardinality(Viewers(wraps)) + Cardinality(Viewers(W) \ wraps)
             <= MaxViewers

InsertWraps(h) ==
  /\ request[h].op = "wraps"
  /\ LET W == request[h].to
         lock == request[h].lock
     IN /\ MayInsert(W, lock)
        /\ wraps' = wraps \cup W
        /\ Audit(W, IF lock.kind = "forward" THEN "forwarded" ELSE "wrap_created")
        /\ status' = IF lock.kind = "claimer" THEN "claimed" ELSE status
        /\ invited' = IF lock.kind = "forward" /\ lock.claimer = claimedBy
                      THEN invited \cup W ELSE invited
  /\ Done(h)
  /\ UNCHANGED <<claimedBy, sanctioned, blocked, readers, outdated>>

-----------------------------------------------------------------------------
(* disclosure                                                               *)

ReadDisclosure(h, p) ==
  /\ KnownTo(p) /\ p \notin Party
  /\ Begin(h, [op |-> "disclosure", who |-> p])

(* Fault: whoever has a wrap is served, whatever became of the report. *)
Fetch_evenClosed(h) ==
  /\ request[h].op = "disclosure"
  /\ request[h].who \in wraps
  /\ readers' = readers \cup {request[h].who}
  /\ Done(h)
  /\ UNCHANGED <<row, wraps, lastEvent, blocked, invited, outdated>>

Fetch(h) ==
  /\ request[h].op = "disclosure"
  /\ status \in Live
  /\ request[h].who \in wraps
  /\ readers' = readers \cup {request[h].who}
  /\ Done(h)
  /\ UNCHANGED <<row, wraps, lastEvent, blocked, invited, outdated>>

-----------------------------------------------------------------------------
(* resolve: the block of the accused, then the row, in two transactions     *)

ReadResolve(h, p, decision, block) ==
  /\ KnownTo(p) /\ claimedBy = p /\ status \in Live
  /\ block => decision = "resolved"
  /\ Begin(h, [op |-> "resolve", who |-> p, decision |-> decision,
               block |-> block, applied |-> FALSE])

(* apply_account_block *)
Block(h) ==
  /\ request[h].op = "resolve"
  /\ request[h].block /\ ~request[h].applied
  /\ blocked' = TRUE
  /\ request' = [request EXCEPT ![h].applied = TRUE]
  /\ UNCHANGED <<row, wraps, lastEvent, history>>

Resolve(h) ==
  /\ request[h].op = "resolve"
  /\ request[h].block => request[h].applied
  /\ claimedBy = request[h].who /\ status \in Live
  /\ status' = request[h].decision
  /\ sanctioned' = request[h].block
  /\ Done(h)
  /\ UNCHANGED <<claimedBy, wraps, lastEvent, blocked, history>>

-----------------------------------------------------------------------------
(* A request ends early: it was refused under the lock, a statement failed  *)
(* and its transaction was rolled back, or the process died.                *)
Fail(h) ==
  /\ request[h] # Idle
  /\ Done(h)
  /\ UNCHANGED <<row, wraps, lastEvent, blocked, history>>

Next ==
  \/ \E W \in SUBSET Person : Submit(W)
  \/ \E h \in Handler, p \in Person :
       \/ ReadClaim(h, p) \/ ReadRelease(h, p) \/ ReadDisclosure(h, p)
       \/ \E W \in SUBSET Person : ReadForward(h, p, W)
       \/ \E decision \in Closed, block \in BOOLEAN :
            ReadResolve(h, p, decision, block)
  \/ \E h \in Handler :
       \/ \E W \in SUBSET Person : ReadWraps(h, W)
       \/ StartClaim(h) \/ Claim(h) \/ Release(h) \/ InsertWraps(h)
       \/ Fetch(h) \/ Block(h) \/ Resolve(h) \/ Fail(h)

FrankingSpec == Init /\ [][Next]_vars

-----------------------------------------------------------------------------
(* Properties.                                                              *)

FrankingTypeOK ==
  /\ status \in Status
  /\ claimedBy \in (Reviewer \ Party) \cup {Nobody}
  /\ claimedBy # Nobody <=> status \in Live \cup Closed
  /\ sanctioned \in BOOLEAN /\ blocked \in BOOLEAN /\ outdated \in BOOLEAN
  /\ wraps \subseteq (Reviewer \cup {reporter}) \ {accused}
  /\ lastEvent \in [Person -> {"none", "wrap_created", "forwarded", "wrap_destroyed"}]
  /\ request \in [Handler -> Request]
  /\ invited \subseteq Person /\ readers \subseteq Person

(* Exclusive claim: once a reviewer has the report, only that reviewer and  *)
(* whom he forwarded it to in this very claim have a wrap, and only they    *)
(* were served the content in it - whatever requests of earlier claims are  *)
(* still under way (claim_open, insert_wraps, fetch_disclosure).            *)
ExclusiveViewers ==
  claimedBy # Nobody =>
    /\ Viewers(wraps) \subseteq {claimedBy} \cup invited
    /\ readers \subseteq {claimedBy} \cup invited

(* The cap on viewers, and with it: a claimed report has its claimer's wrap *)
(* (status "claimed" is what forward relies on).  The exception is a claim  *)
(* whose UPDATE saw a wrap that a claim and a release destroyed while it    *)
(* waited for the row: one viewer too many may follow.                      *)
ViewersBounded ==
  /\ Cardinality(Viewers(wraps)) <= MaxViewers + (IF outdated THEN 1 ELSE 0)
  /\ (status = "claimed" /\ ~outdated) => claimedBy \in wraps

(* The audit tells who the viewers are: the last wrap event of a person, in *)
(* commit order, is a creation or a forward exactly if the wrap is there.   *)
AuditTellsViewers ==
  \A p \in Person : p \in wraps <=> lastEvent[p] \in {"wrap_created", "forwarded"}

(* Nothing happens to a closed report: no wrap for a forward or a late      *)
(* wrap still under way, no content, no second verdict.                     *)
record == <<row, wraps, lastEvent, readers>>

ClosedIsFinal == [][(status \in Closed) => UNCHANGED record]_vars

(* "The order is frozen: first the block, then the closing": a report that  *)
(* says its accused was blocked never stands without the block.             *)
SanctionStands == sanctioned => blocked

=============================================================================
