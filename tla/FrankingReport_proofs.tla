----------------------- MODULE FrankingReport_proofs -----------------------
(***************************************************************************)
(* Proofs about FrankingReport, for every roster, number of handlers and   *)
(* cap on viewers: the inductive invariant and what follows from it.       *)
(***************************************************************************)
EXTENDS FrankingReport, FiniteSetTheorems, TLAPS

(* What the reads of a request have established, as far as the transaction *)
(* does not ask again.  A claim that saw no wrap still finds none when it   *)
(* gets an open report: only a claimer's forward creates wraps for others,  *)
(* and the release takes them away.                                         *)
RequestOK(r) ==
  /\ r.op \in {"claim", "claiming"} => r.who \in Reviewer \ Party
  /\ r.op = "disclosure" => r.who # reporter
  /\ r.op = "claiming" => (status = "open" /\ ~r.wrapped => r.who \notin wraps)
  /\ r.op = "wraps" =>
       /\ r.lock.kind = "claimer" => r.lock.claimer \in r.to
       /\ r.lock.kind = "forward" => r.to \subseteq Reviewer \ Party
  /\ r.op = "resolve" => (r.applied => blocked)

(* The status says what wraps there are. *)
StatusTellsWraps ==
  /\ status = "absent" => wraps = {} /\ \A h \in Handler : request[h] = Idle
  /\ status = "claimed_awaiting_disclosure" => Viewers(wraps) = {}
  /\ (status = "claimed" /\ ~outdated) => claimedBy \in wraps
  /\ outdated => status \in {"claimed"} \cup Closed

(* The claimer of a report claimed on an outdated wrap may come on top of   *)
(* the cap.                                                                 *)
CapOK ==
  IF outdated THEN Cardinality(Viewers(wraps) \ {claimedBy}) <= MaxViewers
              ELSE Cardinality(Viewers(wraps)) <= MaxViewers

IInv ==
  /\ FrankingTypeOK /\ ExclusiveViewers /\ AuditTellsViewers /\ SanctionStands
  /\ StatusTellsWraps /\ CapOK
  /\ \A h \in Handler : RequestOK(request[h])

-----------------------------------------------------------------------------
(* Finite sets.                                                             *)

LEMMA SizeOfPart ==
  ASSUME NEW A, A \subseteq Person, NEW B, B \subseteq A
  PROVE  /\ IsFiniteSet(A) /\ IsFiniteSet(B)
         /\ Cardinality(A) \in Nat /\ Cardinality(B) \in Nat
         /\ Cardinality(B) <= Cardinality(A)
<1>1. IsFiniteSet(A)
  BY FS_Subset, FrankingAssumption
<1> QED
  BY <1>1, FS_Subset, FS_CardinalityType

LEMMA SizeOfUnion ==
  ASSUME NEW A, A \subseteq Person, NEW B, B \subseteq Person
  PROVE  Cardinality(A \cup B) <= Cardinality(A) + Cardinality(B \ A)
<1>1. PICK C : C = B \ A
  OBVIOUS
<1>2. /\ IsFiniteSet(A) /\ IsFiniteSet(C)
      /\ Cardinality(A) \in Nat /\ Cardinality(C) \in Nat
  BY <1>1, SizeOfPart
<1>3. A \cap C = {} /\ A \cup C = A \cup B
  BY <1>1
<1>4. Cardinality(A \cup C) = Cardinality(A) + Cardinality(C) - Cardinality(A \cap C)
  BY <1>2, FS_Union, Zenon
<1>5. Cardinality(A \cup B) = Cardinality(A) + Cardinality(C) - Cardinality({})
  BY <1>3, <1>4, Zenon
<1>6. Cardinality({}) = 0
  BY FS_EmptySet, Zenon
<1>7. Cardinality(A \cup B) <= Cardinality(A) + Cardinality(C)
  BY <1>2, <1>5, <1>6
<1> QED
  BY <1>1, <1>7, Zenon

(* One more person adds at most one. *)
LEMMA SizeWithOne ==
  ASSUME NEW A, A \subseteq Person, NEW p
  PROVE  Cardinality(A) <= Cardinality(A \ {p}) + 1
<1>1. PICK D : D = A \ {p}
  OBVIOUS
<1>2. IsFiniteSet(A) /\ Cardinality(A) \in Nat /\ Cardinality(D) \in Nat
  BY <1>1, SizeOfPart
<1>3. Cardinality(A \ {p}) = IF p \in A THEN Cardinality(A) - 1 ELSE Cardinality(A)
  BY <1>2, FS_RemoveElement, Zenon
<1>4. Cardinality(D) = IF p \in A THEN Cardinality(A) - 1 ELSE Cardinality(A)
  BY <1>1, <1>3, Zenon
<1>5. Cardinality(A) <= Cardinality(D) + 1
  BY <1>2, <1>4
<1> QED
  BY <1>1, <1>5, Zenon

LEMMA SizeOfOne ==
  ASSUME NEW A, NEW p, A \subseteq {p}, A \subseteq Person
  PROVE  Cardinality(A) <= MaxViewers
<1>1. A \ {p} = {}
  OBVIOUS
<1>2. Cardinality(A) <= Cardinality(A \ {p}) + 1
  BY SizeWithOne
<1>3. Cardinality(A \ {p}) = 0
  BY <1>1, FS_EmptySet
<1> QED
  BY <1>2, <1>3, SizeOfPart, FrankingAssumption

-----------------------------------------------------------------------------
(* Steps that only concern requests.                                        *)

LEMMA InitEstablishesIt == Init => IInv
<1> SUFFICES ASSUME Init PROVE IInv
  OBVIOUS
<1> USE FrankingAssumption DEF Init
<1>1. FrankingTypeOK
  BY DEF FrankingTypeOK, Status, Live, Closed, Request
<1>2. Viewers(wraps) = {}
  BY DEF Viewers
<1>3. CapOK
  BY <1>2, FS_EmptySet DEF CapOK
<1>4. ExclusiveViewers /\ AuditTellsViewers /\ SanctionStands
  BY DEF ExclusiveViewers, AuditTellsViewers, SanctionStands
<1>5. StatusTellsWraps
  BY DEF StatusTellsWraps
<1>6. \A h \in Handler : RequestOK(request[h])
  BY DEF RequestOK, Idle
<1> QED
  BY <1>1, <1>3, <1>4, <1>5, <1>6 DEF IInv

(* A request that is put in place of another is judged by itself alone.     *)
LEMMA RequestStep ==
  ASSUME IInv, NEW h \in Handler, NEW r \in Request, RequestOK(r),
         request' = [request EXCEPT ![h] = r],
         status = "absent" => r = Idle,
         UNCHANGED <<row, wraps, lastEvent, blocked, history>>
  PROVE  IInv'
<1> USE DEF row, history
<1>1. FrankingTypeOK'
  BY DEF IInv, FrankingTypeOK
<1>2. CapOK'
  BY DEF IInv, CapOK, Viewers
<1>3. ExclusiveViewers' /\ AuditTellsViewers' /\ SanctionStands'
  BY DEF IInv, ExclusiveViewers, AuditTellsViewers, SanctionStands, Viewers
<1>4. \A g \in Handler : request'[g] = IF g = h THEN r ELSE request[g]
  BY DEF IInv, FrankingTypeOK
<1>5. StatusTellsWraps'
  BY <1>4 DEF IInv, StatusTellsWraps, Viewers
<1>6. \A g \in Handler : RequestOK(request'[g])
  BY <1>4 DEF IInv
<1>7. ASSUME NEW q, RequestOK(q) PROVE RequestOK(q)'
  BY <1>7 DEF RequestOK
<1>8. (\A g \in Handler : RequestOK(request[g]))'
  BY <1>6 DEF RequestOK
<1> QED
  BY <1>1, <1>2, <1>3, <1>5, <1>8 DEF IInv

LEMMA IdleIsFine == Idle \in Request /\ RequestOK(Idle)
  BY DEF Idle, Request, RequestOK

(* The reads with which a request begins, and its early end.                *)
LEMMA ReadsKeepIt ==
  ASSUME IInv, NEW h \in Handler,
         \/ Fail(h) \/ StartClaim(h) \/ \E W \in SUBSET Person : ReadWraps(h, W)
         \/ \E p \in Person :
              \/ ReadClaim(h, p) \/ ReadRelease(h, p) \/ ReadDisclosure(h, p)
              \/ \E W \in SUBSET Person : ReadForward(h, p, W)
              \/ \E decision \in Closed, block \in BOOLEAN :
                   ReadResolve(h, p, decision, block)
  PROVE  IInv'
<1>1. CASE Fail(h)
  BY <1>1, IdleIsFine, RequestStep DEF Fail, Done
<1>2. CASE StartClaim(h)
  <2> DEFINE r == [op |-> "claiming", who |-> request[h].who,
                   wrapped |-> request[h].who \in wraps]
  <2>1. request[h] \in Request /\ request[h].op = "claim" /\ RequestOK(request[h])
    BY <1>2 DEF StartClaim, IInv, FrankingTypeOK
  <2>2. r \in Request
    BY <2>1 DEF Request, Idle
  <2>3. RequestOK(r)
    BY <2>1 DEF RequestOK
  <2>4. request' = [request EXCEPT ![h] = r] /\ status # "absent"
    BY <1>2 DEF StartClaim
  <2> QED
    BY <1>2, <2>2, <2>3, <2>4, RequestStep DEF StartClaim
<1>3. ASSUME NEW W \in SUBSET Person, ReadWraps(h, W) PROVE IInv'
  <2> DEFINE r == [op |-> "wraps", to |-> W, lock |-> LateLock(W)]
  <2>1. LateLock(W) \in WrapLock
    BY <1>3, FrankingAssumption
    DEF LateLock, WrapLock, Unlocked, IInv, FrankingTypeOK, ReadWraps, Live, Closed
  <2>2. r \in Request
    BY <1>3, <2>1 DEF Request, ReadWraps
  <2>3. RequestOK(r)
    BY DEF RequestOK, LateLock, Unlocked
  <2> QED
    BY <1>3, <2>2, <2>3, RequestStep DEF ReadWraps, Begin
<1>4. ASSUME NEW p \in Person,
             ReadClaim(h, p) \/ ReadRelease(h, p) \/ ReadDisclosure(h, p)
      PROVE  IInv'
  <2>1. PICK r : Begin(h, r) /\ \/ /\ r = [op |-> "claim", who |-> p]
                                   /\ p \in Reviewer \ Party
                                \/ r = [op |-> "release", who |-> p]
                                \/ /\ r = [op |-> "disclosure", who |-> p]
                                   /\ p \notin Party
    BY <1>4 DEF ReadClaim, ReadRelease, ReadDisclosure
  <2>2. r \in Request
    BY <2>1 DEF Request
  <2>3. RequestOK(r)
    BY <2>1 DEF RequestOK, Party
  <2>4. status # "absent"
    BY <1>4 DEF ReadClaim, ReadRelease, ReadDisclosure, KnownTo
  <2> QED
    BY <2>1, <2>2, <2>3, <2>4, RequestStep DEF Begin
<1>5. ASSUME NEW p \in Person, NEW W \in SUBSET Person, ReadForward(h, p, W)
      PROVE  IInv'
  <2> DEFINE r == [op |-> "wraps", to |-> W,
                   lock |-> [kind |-> "forward", claimer |-> p]]
  <2>1. r \in Request
    BY <1>5 DEF Request, WrapLock, ReadForward
  <2>2. RequestOK(r)
    BY <1>5 DEF RequestOK, ReadForward
  <2> QED
    BY <1>5, <2>1, <2>2, RequestStep DEF ReadForward, Begin
<1>6. ASSUME NEW p \in Person, NEW decision \in Closed, NEW block \in BOOLEAN,
             ReadResolve(h, p, decision, block)
      PROVE  IInv'
  <2> DEFINE r == [op |-> "resolve", who |-> p, decision |-> decision,
                   block |-> block, applied |-> FALSE]
  <2>1. r \in Request
    BY DEF Request
  <2>2. RequestOK(r)
    BY DEF RequestOK
  <2> QED
    BY <1>6, <2>1, <2>2, RequestStep DEF ReadResolve, KnownTo, Begin
<1> QED
  BY <1>1, <1>2, <1>3, <1>4, <1>5, <1>6

-----------------------------------------------------------------------------
(* The transactions.                                                        *)

(* What follows from the types, for any of them. *)
LEMMA RequestTypes ==
  ASSUME IInv, NEW h \in Handler
  PROVE  /\ request[h] \in Request /\ RequestOK(request[h])
         /\ request[h].op = "wraps" =>
              /\ request[h].to \subseteq Person /\ request[h].lock \in WrapLock
         /\ request[h].op = "resolve" =>
              /\ request[h].decision \in Closed
              /\ request[h].block \in BOOLEAN /\ request[h].applied \in BOOLEAN
         /\ request[h].op = "claiming" => request[h].wrapped \in BOOLEAN
<1>1. request[h] \in Request /\ RequestOK(request[h])
  BY DEF IInv, FrankingTypeOK
<1> QED
  BY <1>1 DEF Request, Idle

(* A handler that is done leaves the requests of the others. *)
LEMMA DoneTypes ==
  ASSUME IInv, NEW h \in Handler, Done(h)
  PROVE  /\ request' \in [Handler -> Request]
         /\ \A g \in Handler : request'[g] = Idle \/ request'[g] = request[g]
  BY IdleIsFine DEF IInv, FrankingTypeOK, Done

LEMMA SubmitKeepsIt ==
  ASSUME IInv, NEW W \in SUBSET Person, Submit(W)
  PROVE  IInv'
<1> USE DEF Submit, row, history
<1>1. FrankingTypeOK'
  BY DEF IInv, FrankingTypeOK, Status, Live, Closed, Viewers, Audit, Party
<1>2. ExclusiveViewers' /\ SanctionStands'
  BY FrankingAssumption
  DEF IInv, ExclusiveViewers, SanctionStands, FrankingTypeOK, Live, Closed
<1>3. AuditTellsViewers'
  BY DEF IInv, AuditTellsViewers, StatusTellsWraps, Audit
<1>4. ~outdated
  BY DEF IInv, StatusTellsWraps, Closed
<1>5. StatusTellsWraps' /\ CapOK'
  BY <1>4 DEF StatusTellsWraps, CapOK, Viewers
<1>6. (\A g \in Handler : RequestOK(request[g]))'
  BY DEF IInv, StatusTellsWraps, RequestOK, Idle
<1> QED
  BY <1>1, <1>2, <1>3, <1>5, <1>6 DEF IInv

LEMMA ClaimKeepsIt ==
  ASSUME IInv, NEW h \in Handler, Claim(h)
  PROVE  IInv'
<1> DEFINE p == request[h].who
<1> USE DEF Claim, KeepWraps
<1>1. p \in Reviewer \ Party /\ request[h].wrapped \in BOOLEAN
  BY RequestTypes DEF RequestOK
<1>2. p # Nobody /\ status' \in {"claimed", "claimed_awaiting_disclosure"}
  BY <1>1, FrankingAssumption
<1>3. FrankingTypeOK'
  BY <1>1, <1>2, DoneTypes, FrankingAssumption
  DEF IInv, FrankingTypeOK, Status, Live, Closed, Audit, Party
<1>4. Viewers(wraps') = wraps \cap {p}
  BY <1>1 DEF Viewers, Party
<1>5. ExclusiveViewers'
  BY <1>4 DEF ExclusiveViewers, Viewers
<1>6. AuditTellsViewers' /\ SanctionStands'
  BY DEF IInv, AuditTellsViewers, SanctionStands, Audit
<1>7. StatusTellsWraps'
  <2>1. ~request[h].wrapped => p \notin wraps
    BY RequestTypes DEF RequestOK
  <2>2. (request[h].wrapped /\ p \in wraps) => p \in wraps'
    OBVIOUS
  <2>3. ~request[h].wrapped => Viewers(wraps') = {}
    BY <1>4, <2>1
  <2> QED
    BY <1>1, <1>2, <2>2, <2>3 DEF StatusTellsWraps, Viewers
<1>8. CapOK'
  <2>1. Cardinality(wraps \cap {p}) <= MaxViewers
    <3>1. PICK A : A = wraps \cap {p}
      OBVIOUS
    <3>2. A \subseteq {p} /\ A \subseteq Person
      BY <3>1, FrankingAssumption DEF IInv, FrankingTypeOK
    <3> QED
      BY <3>1, <3>2, SizeOfOne, Zenon
  <2>2. (wraps \cap {p}) \ {p} = {}
    OBVIOUS
  <2>3. Cardinality((wraps \cap {p}) \ {p}) <= MaxViewers
    BY <2>2, FS_EmptySet, FrankingAssumption
  <2>4. Cardinality(Viewers(wraps')) <= MaxViewers
    BY <1>4, <2>1, Zenon
  <2>5. Cardinality(Viewers(wraps') \ {claimedBy'}) <= MaxViewers
    BY <1>4, <2>3, Zenon
  <2>6. Viewers(wraps)' = Viewers(wraps')
    BY DEF Viewers
  <2> QED
    BY <2>4, <2>5, <2>6, Zenon DEF CapOK
<1>9. (\A g \in Handler : RequestOK(request[g]))'
  BY <1>2, DoneTypes DEF IInv, RequestOK, Idle
<1> QED
  BY <1>3, <1>5, <1>6, <1>7, <1>8, <1>9 DEF IInv

LEMMA ReleaseKeepsIt ==
  ASSUME IInv, NEW h \in Handler, Release(h)
  PROVE  IInv'
<1> USE DEF Release, KeepWraps
<1>1. FrankingTypeOK'
  BY DoneTypes, FrankingAssumption
  DEF IInv, FrankingTypeOK, Status, Live, Closed, Audit, Party
<1>2. Viewers(wraps)' = {}
  BY DEF Viewers
<1>3. ExclusiveViewers'
  BY DEF ExclusiveViewers
<1>4. AuditTellsViewers' /\ SanctionStands'
  BY DEF IInv, AuditTellsViewers, SanctionStands, Audit
<1>5. StatusTellsWraps'
  BY DEF StatusTellsWraps
<1>6. CapOK'
  BY <1>2, FS_EmptySet, FrankingAssumption DEF CapOK
<1>7. ASSUME NEW g \in Handler PROVE RequestOK(request[g])'
  <2>1. CASE request'[g] = Idle
    BY <2>1 DEF RequestOK, Idle
  <2>2. CASE request'[g] = request[g]
    BY <2>2 DEF IInv, RequestOK, Party
  <2> QED
    BY <2>1, <2>2, DoneTypes
<1> QED
  BY <1>1, <1>3, <1>4, <1>5, <1>6, <1>7 DEF IInv

(* insert_wraps: a wrap of the reporter, of the claimer, or of the accounts *)
(* the claimer forwards the report to.                                      *)
LEMMA InsertWrapsKeepsIt ==
  ASSUME IInv, NEW h \in Handler, InsertWraps(h)
  PROVE  IInv'
<1> DEFINE W == request[h].to
           lock == request[h].lock
<1>1. /\ MayInsert(W, lock) /\ W \subseteq Person /\ lock \in WrapLock
      /\ lock.kind = "claimer" => lock.claimer \in W
      /\ lock.kind = "forward" => W \subseteq Reviewer \ Party
  BY RequestTypes DEF InsertWraps, RequestOK
<1>2. /\ wraps' = wraps \cup W
      /\ Audit(W, IF lock.kind = "forward" THEN "forwarded" ELSE "wrap_created")
      /\ status' = IF lock.kind = "claimer" THEN "claimed" ELSE status
      /\ invited' = IF lock.kind = "forward" /\ lock.claimer = claimedBy
                    THEN invited \cup W ELSE invited
      /\ Done(h)
      /\ UNCHANGED <<claimedBy, sanctioned, blocked, readers, outdated>>
  BY DEF InsertWraps
<1>3. /\ request' \in [Handler -> Request]
      /\ \A g \in Handler : request'[g] = Idle \/ request'[g] = request[g]
  BY <1>2, DoneTypes
<1>4. wraps \subseteq Person /\ claimedBy \in (Reviewer \ Party) \cup {Nobody}
  BY FrankingAssumption DEF IInv, FrankingTypeOK
<1>5. status # "absent"
  BY DEF InsertWraps, IInv, StatusTellsWraps, Idle
<1> HIDE DEF W, lock
<1>6. CASE lock.kind = "unlocked"
  <2>1. W \subseteq {reporter} /\ status' = status /\ invited' = invited
    BY <1>1, <1>2, <1>6 DEF MayInsert
  <2>2. Viewers(wraps)' = Viewers(wraps)
    BY <1>2, <2>1 DEF Viewers
  <2>3. FrankingTypeOK'
    BY <1>1, <1>2, <1>3, <2>1, FrankingAssumption
    DEF IInv, FrankingTypeOK, Audit, Party
  <2>4. ExclusiveViewers' /\ SanctionStands'
    BY <1>2, <2>1, <2>2 DEF IInv, ExclusiveViewers, SanctionStands
  <2>5. StatusTellsWraps'
    BY <1>2, <1>5, <2>1, <2>2 DEF IInv, StatusTellsWraps
  <2>6. CapOK'
    BY <1>2, <2>2 DEF IInv, CapOK
  <2>7. (\A g \in Handler : RequestOK(request[g]))'
    BY <1>2, <1>3, <2>1 DEF IInv, RequestOK, Idle, Party
  <2>8. AuditTellsViewers'
    BY <1>2, <1>6 DEF IInv, AuditTellsViewers, Audit
  <2> QED
    BY <2>3, <2>4, <2>5, <2>6, <2>7, <2>8 DEF IInv
<1>7. CASE lock.kind = "claimer"
  <2>1. /\ claimedBy = lock.claimer /\ W \subseteq {reporter, claimedBy}
        /\ claimedBy \in W /\ status \in Live
        /\ status' = "claimed" /\ invited' = invited
    BY <1>1, <1>2, <1>7 DEF MayInsert, Live
  <2>2. claimedBy \in Reviewer \ Party
    BY <1>4, <2>1 DEF IInv, FrankingTypeOK
  <2>3. Viewers(wraps)' = Viewers(wraps) \cup {claimedBy}
    BY <1>2, <2>1, <2>2 DEF Viewers, Party
  <2>4. FrankingTypeOK'
    BY <1>1, <1>2, <1>3, <2>1, <2>2, FrankingAssumption
    DEF IInv, FrankingTypeOK, Audit, Party, Live, Status, Closed
  <2>5. ExclusiveViewers' /\ SanctionStands'
    BY <1>2, <2>1, <2>2, <2>3, FrankingAssumption
    DEF IInv, ExclusiveViewers, SanctionStands
  <2>6. StatusTellsWraps'
    BY <1>2, <2>1 DEF IInv, StatusTellsWraps
  <2>7. CapOK'
    <3>1. PICK V : V = Viewers(wraps)
      OBVIOUS
    <3>2. V \subseteq Person /\ (V \cup {claimedBy}) \subseteq Person
      BY <1>4, <2>2, <3>1, FrankingAssumption DEF Viewers
    <3>3. CASE outdated
      <4>1. (V \cup {claimedBy}) \ {claimedBy} = V \ {claimedBy}
        OBVIOUS
      <4>2. Cardinality(V \ {claimedBy}) <= MaxViewers
        BY <3>1, <3>3 DEF IInv, CapOK
      <4>3. Cardinality((V \cup {claimedBy}) \ {claimedBy}) <= MaxViewers
        BY <4>1, <4>2, Zenon
      <4> QED
        BY <1>2, <2>3, <3>1, <3>3, <4>3, Zenon DEF CapOK
    <3>4. CASE ~outdated /\ status = "claimed"
      <4>1. claimedBy \in V
        BY <2>2, <3>1, <3>4 DEF IInv, StatusTellsWraps, Viewers, Party
      <4>2. V \cup {claimedBy} = V
        BY <4>1
      <4>3. Cardinality(V) <= MaxViewers
        BY <3>1, <3>4 DEF IInv, CapOK
      <4> QED
        BY <1>2, <2>3, <3>1, <3>4, <4>2, <4>3, Zenon DEF CapOK
    <3>5. CASE ~outdated /\ status = "claimed_awaiting_disclosure"
      <4>1. (V \cup {claimedBy}) \subseteq {claimedBy}
        BY <3>1, <3>5 DEF IInv, StatusTellsWraps
      <4>2. Cardinality(V \cup {claimedBy}) <= MaxViewers
        BY <3>2, <4>1, SizeOfOne, Zenon
      <4> QED
        BY <1>2, <2>3, <3>1, <3>5, <4>2, Zenon DEF CapOK
    <3> QED
      BY <2>1, <3>3, <3>4, <3>5 DEF Live
  <2>8. (\A g \in Handler : RequestOK(request[g]))'
    BY <1>2, <1>3, <2>1 DEF IInv, RequestOK, Idle
  <2>9. AuditTellsViewers'
    BY <1>2, <1>7 DEF IInv, AuditTellsViewers, Audit
  <2> QED
    BY <2>4, <2>5, <2>6, <2>7, <2>8, <2>9 DEF IInv
<1>8. CASE lock.kind = "forward"
  <2>1. /\ status = "claimed" /\ status' = "claimed" /\ invited' = invited \cup W
        /\ Cardinality(Viewers(wraps)) + Cardinality(Viewers(W) \ wraps)
             <= MaxViewers
        /\ W \subseteq Reviewer \ Party
    BY <1>1, <1>2, <1>8 DEF MayInsert
  <2>2. Viewers(wraps)' = Viewers(wraps) \cup W
    BY <1>2, <2>1 DEF Viewers, Party
  <2>3. FrankingTypeOK'
    BY <1>1, <1>2, <1>3, <2>1, FrankingAssumption
    DEF IInv, FrankingTypeOK, Audit, Party
  <2>4. ExclusiveViewers' /\ SanctionStands'
    BY <1>2, <2>1, <2>2 DEF IInv, ExclusiveViewers, SanctionStands
  <2>5. StatusTellsWraps'
    BY <1>2, <2>1 DEF IInv, StatusTellsWraps
  <2>6. CapOK'
    <3>1. PICK V : V = Viewers(wraps)
      OBVIOUS
    <3>2. V \subseteq Person /\ (V \cup W) \subseteq Person
      BY <1>1, <1>4, <3>1 DEF Viewers
    <3>3. Viewers(W) \ wraps = W \ V
      BY <2>1, <3>1 DEF Viewers, Party
    <3>4. Cardinality(V) + Cardinality(W \ V) <= MaxViewers
      BY <2>1, <3>1, <3>3, Zenon
    <3>5. Cardinality(V \cup W) <= Cardinality(V) + Cardinality(W \ V)
      BY <1>1, <3>2, SizeOfUnion, Zenon
    <3>6. PICK U : U = V \cup W
      OBVIOUS
    <3>7. Cardinality(U) <= Cardinality(V) + Cardinality(W \ V)
      BY <3>5, <3>6, Zenon
    <3>8. U \subseteq Person /\ W \ V \subseteq Person
      BY <1>1, <3>2, <3>6
    <3>9. /\ Cardinality(U) \in Nat /\ Cardinality(V) \in Nat
          /\ Cardinality(W \ V) \in Nat /\ Cardinality(U \ {claimedBy}) \in Nat
          /\ Cardinality(U \ {claimedBy}) <= Cardinality(U)
      BY <3>2, <3>8, SizeOfPart
    <3>10. Cardinality(U) <= MaxViewers /\ Cardinality(U \ {claimedBy}) <= MaxViewers
      BY <3>4, <3>7, <3>9, FrankingAssumption
    <3> QED
      BY <1>2, <2>2, <3>1, <3>6, <3>10, Zenon DEF CapOK
  <2>7. (\A g \in Handler : RequestOK(request[g]))'
    BY <1>2, <1>3, <2>1 DEF IInv, RequestOK, Idle
  <2>8. AuditTellsViewers'
    BY <1>2, <1>8 DEF IInv, AuditTellsViewers, Audit
  <2> QED
    BY <2>3, <2>4, <2>5, <2>6, <2>7, <2>8 DEF IInv
<1> QED
  BY <1>1, <1>6, <1>7, <1>8 DEF MayInsert

LEMMA FetchKeepsIt ==
  ASSUME IInv, NEW h \in Handler, Fetch(h)
  PROVE  IInv'
<1> DEFINE p == request[h].who
<1> USE DEF Fetch, row
<1>1. p \in wraps /\ status \in Live /\ p \in Reviewer \cup {reporter}
  BY DEF IInv, FrankingTypeOK
<1>2. FrankingTypeOK'
  BY <1>1, DoneTypes, FrankingAssumption DEF IInv, FrankingTypeOK
<1>3. p # reporter
  BY RequestTypes DEF RequestOK
<1>4. p \in {claimedBy} \cup invited
  BY <1>1, <1>3 DEF IInv, ExclusiveViewers, Viewers, FrankingTypeOK, Live
<1>5. ExclusiveViewers'
  BY <1>4 DEF IInv, ExclusiveViewers, Viewers
<1>6. AuditTellsViewers' /\ SanctionStands'
  BY DEF IInv, AuditTellsViewers, SanctionStands
<1>7. StatusTellsWraps' /\ CapOK'
  BY <1>1 DEF IInv, StatusTellsWraps, CapOK, Viewers, Live
<1>8. (\A g \in Handler : RequestOK(request[g]))'
  BY DoneTypes DEF IInv, RequestOK, Idle
<1> QED
  BY <1>2, <1>5, <1>6, <1>7, <1>8 DEF IInv

LEMMA BlockKeepsIt ==
  ASSUME IInv, NEW h \in Handler, Block(h)
  PROVE  IInv'
<1> DEFINE r == [request[h] EXCEPT !.applied = TRUE]
<1> USE DEF Block, row, history
<1>1. request[h] \in Request /\ request[h].op = "resolve" /\ RequestOK(request[h])
  BY RequestTypes
<1>2. request' = [request EXCEPT ![h] = r]
  OBVIOUS
<1>3. r \in Request
  BY <1>1 DEF Request, Idle
<1>4. r.op = "resolve"
  BY <1>1 DEF Request, Idle
<1>5. \A g \in Handler : request'[g] = IF g = h THEN r ELSE request[g]
  BY <1>2 DEF IInv, FrankingTypeOK
<1>6. FrankingTypeOK'
  BY <1>2, <1>3 DEF IInv, FrankingTypeOK
<1>7. ExclusiveViewers' /\ AuditTellsViewers' /\ SanctionStands'
  BY DEF IInv, ExclusiveViewers, AuditTellsViewers, SanctionStands, Viewers
<1>8. StatusTellsWraps' /\ CapOK'
  BY <1>1, <1>5 DEF IInv, StatusTellsWraps, CapOK, Viewers, Idle
<1>9. (\A g \in Handler : RequestOK(request[g]))'
  BY <1>4, <1>5 DEF IInv, RequestOK
<1> QED
  BY <1>6, <1>7, <1>8, <1>9 DEF IInv

LEMMA ResolveKeepsIt ==
  ASSUME IInv, NEW h \in Handler, Resolve(h)
  PROVE  IInv'
<1> USE DEF Resolve, history
<1>1. /\ request[h].decision \in Closed /\ request[h].block \in BOOLEAN
      /\ request[h].applied => blocked
  BY RequestTypes DEF RequestOK
<1>2. FrankingTypeOK'
  BY <1>1, DoneTypes DEF IInv, FrankingTypeOK, Status
<1>3. ExclusiveViewers' /\ AuditTellsViewers' /\ SanctionStands'
  BY <1>1 DEF IInv, ExclusiveViewers, AuditTellsViewers, SanctionStands, Viewers
<1>4. StatusTellsWraps' /\ CapOK'
  BY <1>1 DEF IInv, StatusTellsWraps, CapOK, Viewers, Closed
<1>5. (\A g \in Handler : RequestOK(request[g]))'
  BY <1>1, DoneTypes DEF IInv, RequestOK, Idle, Closed
<1> QED
  BY <1>2, <1>3, <1>4, <1>5 DEF IInv

LEMMA StutterKeepsIt == IInv /\ UNCHANGED vars => IInv'
  BY DEF IInv, vars, row, history, FrankingTypeOK, ExclusiveViewers,
         AuditTellsViewers, SanctionStands, StatusTellsWraps, CapOK, Viewers,
         RequestOK

THEOREM FrankingInvariance == FrankingSpec => []IInv
<1>1. IInv /\ [Next]_vars => IInv'
  <2> SUFFICES ASSUME IInv, [Next]_vars PROVE IInv'
    OBVIOUS
  <2>1. CASE UNCHANGED vars
    BY <2>1, StutterKeepsIt
  <2>2. ASSUME NEW W \in SUBSET Person, Submit(W) PROVE IInv'
    BY <2>2, SubmitKeepsIt
  <2>3. ASSUME NEW h \in Handler, NEW p \in Person,
               \/ ReadClaim(h, p) \/ ReadRelease(h, p) \/ ReadDisclosure(h, p)
               \/ \E W \in SUBSET Person : ReadForward(h, p, W)
               \/ \E decision \in Closed, block \in BOOLEAN :
                    ReadResolve(h, p, decision, block)
        PROVE  IInv'
    BY <2>3, ReadsKeepIt
  <2>4. ASSUME NEW h \in Handler,
               Fail(h) \/ StartClaim(h) \/ \E W \in SUBSET Person : ReadWraps(h, W)
        PROVE  IInv'
    BY <2>4, ReadsKeepIt
  <2>5. ASSUME NEW h \in Handler, Claim(h) PROVE IInv'
    BY <2>5, ClaimKeepsIt
  <2>6. ASSUME NEW h \in Handler, Release(h) PROVE IInv'
    BY <2>6, ReleaseKeepsIt
  <2>7. ASSUME NEW h \in Handler, InsertWraps(h) PROVE IInv'
    BY <2>7, InsertWrapsKeepsIt
  <2>8. ASSUME NEW h \in Handler, Fetch(h) PROVE IInv'
    BY <2>8, FetchKeepsIt
  <2>9. ASSUME NEW h \in Handler, Block(h) \/ Resolve(h) PROVE IInv'
    BY <2>9, BlockKeepsIt, ResolveKeepsIt
  <2> QED
    BY <2>1, <2>2, <2>3, <2>4, <2>5, <2>6, <2>7, <2>8, <2>9 DEF Next
<1> QED
  BY <1>1, InitEstablishesIt, PTL DEF FrankingSpec

-----------------------------------------------------------------------------
(* What follows.                                                            *)

(* The row, the wraps, the audit and the requests have their types, and a   *)
(* report has a claimer exactly while it is claimed or closed by him.       *)
THEOREM ReportTypeCorrect == FrankingSpec => []FrankingTypeOK
<1>1. IInv => FrankingTypeOK
  BY DEF IInv
<1> QED
  BY <1>1, FrankingInvariance, PTL

(* A claim is exclusive: nobody but the claimer and those he forwarded the  *)
(* report to in this claim has a wrap or was served the content.            *)
THEOREM ClaimIsExclusive == FrankingSpec => []ExclusiveViewers
<1>1. IInv => ExclusiveViewers
  BY DEF IInv
<1> QED
  BY <1>1, FrankingInvariance, PTL

(* The cap on viewers holds under every race of forwards, late wraps,       *)
(* claims and releases, up to one viewer after a claim on an outdated wrap. *)
THEOREM CapIsKept == FrankingSpec => []ViewersBounded
<1>1. ASSUME IInv PROVE ViewersBounded
  <2>1. PICK V : V = Viewers(wraps)
    OBVIOUS
  <2>2. V \subseteq Person
    BY <1>1, <2>1, FrankingAssumption DEF IInv, FrankingTypeOK, Viewers
  <2>3. /\ Cardinality(V) \in Nat /\ Cardinality(V \ {claimedBy}) \in Nat
        /\ Cardinality(V) <= Cardinality(V \ {claimedBy}) + 1
    BY <2>2, SizeOfPart, SizeWithOne
  <2>4. IF outdated THEN Cardinality(V \ {claimedBy}) <= MaxViewers
                    ELSE Cardinality(V) <= MaxViewers
    BY <1>1, <2>1 DEF IInv, CapOK
  <2>5. Cardinality(V) <= MaxViewers + (IF outdated THEN 1 ELSE 0)
    BY <2>3, <2>4, FrankingAssumption
  <2>6. (status = "claimed" /\ ~outdated) => claimedBy \in wraps
    BY <1>1 DEF IInv, StatusTellsWraps
  <2> QED
    BY <2>1, <2>5, <2>6, Zenon DEF ViewersBounded
<1> QED
  BY <1>1, FrankingInvariance, PTL

(* The last wrap event of every account says whether it is a viewer.        *)
THEOREM AuditIsTrue == FrankingSpec => []AuditTellsViewers
<1>1. IInv => AuditTellsViewers
  BY DEF IInv
<1> QED
  BY <1>1, FrankingInvariance, PTL

(* A report closed with an account block has its accused blocked, wherever  *)
(* the request failed or the process died before.                           *)
THEOREM BlockBeforeClosing == FrankingSpec => []SanctionStands
<1>1. IInv => SanctionStands
  BY DEF IInv
<1> QED
  BY <1>1, FrankingInvariance, PTL

(* Nothing under way when a report is closed changes it afterwards.         *)
THEOREM VerdictsAreFinal == FrankingSpec => ClosedIsFinal
<1>1. ASSUME IInv, [Next]_vars, status \in Closed PROVE UNCHANGED record
  <2>1. status \notin {"absent", "open"} \cup Live
    BY <1>1 DEF Closed, Live
  <2> USE <1>1, <2>1 DEF record, row, vars, Live
  <2>2. ASSUME NEW h \in Handler, InsertWraps(h) PROVE UNCHANGED record
    BY <2>2 DEF InsertWraps, MayInsert
  <2>3. ASSUME NEW h \in Handler,
               \/ StartClaim(h) \/ Claim(h) \/ Release(h) \/ Fetch(h)
               \/ Block(h) \/ Resolve(h) \/ Fail(h)
        PROVE  UNCHANGED record
    BY <2>3 DEF StartClaim, Claim, Release, Fetch, Block, Resolve, Fail, history
  <2>4. ASSUME NEW h \in Handler, NEW r, Begin(h, r) PROVE UNCHANGED record
    BY <2>4 DEF Begin, history
  <2>5. CASE UNCHANGED vars
    BY <2>5 DEF history
  <2> QED
    BY <2>2, <2>3, <2>4, <2>5
    DEF Next, Submit, ReadClaim, ReadRelease, ReadDisclosure, ReadForward,
        ReadResolve, ReadWraps
<1> QED
  BY <1>1, FrankingInvariance, PTL DEF FrankingSpec, ClosedIsFinal

=============================================================================
