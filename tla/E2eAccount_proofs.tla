------------------------- MODULE E2eAccount_proofs -------------------------
(***************************************************************************)
(* Proofs about E2eAccount, for every set of workers, epochs, devices,     *)
(* challenges, keys and requests.  The steps are those of the module, and  *)
(* AskForLock, by which a password reset joins in; AccountRecovery_proofs  *)
(* uses them for both sides together.                                      *)
(***************************************************************************)
EXTENDS E2eAccount, TLAPS

(* What a worker may still have to do, by the kind of its request. *)
One(a) == { <<a>> }
Two(a, b) == { <<a, b>>, <<b>> }
Three(a, b, c) == { <<a, b, c>>, <<b, c>>, <<c>> }
Four(a, b, c, d) == { <<a, b, c, d>>, <<b, c, d>>, <<c, d>>, <<d>> }

Ahead ==
  [ putBackup    |-> Two("init", "put"),
    createEpoch  |-> Three("idem", "create", "record"),
    challenge    |-> Two("state", "issue"),
    unlock       |-> Four("idem", "proof", "unlock", "record"),
    recoveryKey  |-> One("token"),
    addDevice    |-> Two("state", "enroll"),
    approve      |-> Four("state", "device", "approver", "activate"),
    revoke       |-> Two("device", "revoke"),
    lock         |-> Two("state", "lock"),
    postEnvelope |-> Four("state", "target", "source", "store"),
    getEnvelope  |-> Four("state", "target", "fetch", "deliver") ]

(* A worker rests, or serves a request from some point of its script on. *)
WorkerShape(w) ==
  LET m == worker[w] IN
  \/ m = Resting
  \/ /\ m = [ req |-> m.req, todo |-> m.todo, gone |-> m.gone, got |-> m.got ]
     /\ m.req \in E2eRequest
     /\ m.req \in sends \cup {LockRequest}
     /\ m.todo \in Ahead[m.req.kind]
     /\ m.gone \subseteq Device

(* The rows.  A source of an envelope is a device, and devices stay. *)
RowsInv ==
  /\ E2eTypeOK
  /\ envelope \in [ Device -> [ source: Device, id: Nat ] \cup {NoEnvelope} ]
  /\ sends \subseteq E2eRequest
  /\ \A r, q \in sends : r.kind \in Keyed /\ q.kind \in Keyed /\ r.key = q.key => r = q

(* A device that was revoked when a request came in still is, or has been  *)
(* revived since.                                                          *)
GoneInv(w) ==
  \A d \in worker[w].gone :
    \/ device[d].status = "Revoked"
    \/ device[d].status = "Active" /\ d \in revived

(* What a worker has made sure of by the await it stands at.               *)
StageInv(w) ==
  LET m == worker[w] IN
  /\ Doing(w, "approver") \/ Doing(w, "activate") =>
       /\ m.got \in {"Pending", "Active"}
       /\ device[m.req.device].status # "none"
       /\ m.req.device \in m.gone => m.got = "Active"
  /\ Doing(w, "activate") => m.got # "Active"
  /\ Doing(w, "revoke") => device[m.req.device].status # "none"
  /\ Doing(w, "store") => device[m.req.by].status # "none"
  /\ (Doing(w, "fetch") \/ Doing(w, "deliver")) /\ m.req.device \in m.gone =>
       m.req.device \in revived

(* A key that has brought something about leaves a trace that keeps a      *)
(* second copy of its request from doing so again.                         *)
EffectInv ==
  \A r \in sends :
    r.kind \in Keyed /\ performed[r.key] # 0 =>
      /\ r.kind = "createEpoch" => identity[r.epoch] # NoIdentity
      /\ r.kind = "unlock" => unlock[r.code] = "used"

E2eInv ==
  /\ RowsInv
  /\ \A w \in Worker : WorkerShape(w) /\ GoneInv(w) /\ StageInv(w)
  /\ DOMAIN worker = Worker
  /\ EffectInv
  /\ RetriesHaveOneEffect
  /\ NoEnvelopeAfterRevoke

-----------------------------------------------------------------------------
(* Requests and scripts.                                                   *)

(* The fields a request has by its kind. *)
LEMMA RequestFields ==
  ASSUME NEW r \in E2eRequest
  PROVE  /\ r.kind \in DOMAIN E2eScript
         /\ r.kind \in {"putBackup", "createEpoch", "unlock"} =>
              r.rev \in Nat /\ r.hash \in SetHash /\ r.epoch \in Epoch /\ r.pub \in Identity
         /\ r.kind \in Keyed => r.key \in IdemKey
         /\ r.kind = "unlock" => r.code \in UnlockChallenge
         /\ r.kind = "addDevice" => r.epoch \in Epoch
         /\ r.kind \in {"approve", "revoke", "getEnvelope", "postEnvelope"} =>
              r.device \in Device
         /\ r.kind \in {"approve", "postEnvelope"} => r.by \in Device
         /\ r.kind = "postEnvelope" => r.rev \in Nat
  BY DEF E2eRequest, E2eScript, Keyed

LEMMA LockIsRequest == LockRequest \in E2eRequest /\ LockRequest.kind = "lock"
  BY DEF LockRequest, E2eRequest

(* Every script begins where a new request stands. *)
LEMMA ScriptBegins ==
  ASSUME NEW k \in DOMAIN E2eScript
  PROVE  E2eScript[k] \in Ahead[k]
  BY DEF E2eScript, Ahead, PutBackupAwaits, CreateEpochAwaits, ChallengeAwaits, UnlockAwaits,
         RecoveryKeyAwaits, AddDeviceAwaits, ApproveAwaits, RevokeAwaits, LockAwaits,
         PostEnvelopeAwaits, GetEnvelopeAwaits, One, Two, Three, Four

(* After an await comes the rest of the script, or nothing. *)
LEMMA SuffixesGoOn ==
  ASSUME NEW a, NEW b, NEW c, NEW d, NEW t, Len(t) # 1
  PROVE  /\ t \notin One(a)
         /\ t \in Two(a, b) => Tail(t) \in Two(a, b)
         /\ t \in Three(a, b, c) => Tail(t) \in Three(a, b, c)
         /\ t \in Four(a, b, c, d) => Tail(t) \in Four(a, b, c, d)
<1>1. Tail(<<a, b, c, d>>) = <<b, c, d>> /\ Tail(<<b, c, d>>) = <<c, d>>
      /\ Tail(<<c, d>>) = <<d>> /\ Len(<<d>>) = 1
  OBVIOUS
<1>2. Tail(<<a, b, c>>) = <<b, c>> /\ Tail(<<b, c>>) = <<c>> /\ Len(<<c>>) = 1
  OBVIOUS
<1>3. Tail(<<a, b>>) = <<b>> /\ Len(<<b>>) = 1 /\ Len(<<a>>) = 1
  OBVIOUS
<1> QED
  BY <1>1, <1>2, <1>3 DEF One, Two, Three, Four

LEMMA ScriptGoesOn ==
  ASSUME NEW k \in DOMAIN E2eScript, NEW t \in Ahead[k], Len(t) # 1
  PROVE  Tail(t) \in Ahead[k]
<1>1. k \in {"putBackup", "challenge", "addDevice", "revoke", "lock", "recoveryKey"}
      => Tail(t) \in Ahead[k]
  BY SuffixesGoOn DEF Ahead
<1>2. k \in {"createEpoch", "unlock", "approve", "postEnvelope", "getEnvelope"}
      => Tail(t) \in Ahead[k]
  BY SuffixesGoOn DEF Ahead
<1> QED
  BY <1>1, <1>2 DEF E2eScript

(* The first await of a script names the kind of the request it serves, and *)
(* what comes after it.  The provers see these three facts of a script.    *)
First(t) == Head(t)
Second(t) == Head(Tail(t))
IsLast(t) == Len(t) = 1

LEMMA OneHead ==
  ASSUME NEW a, NEW t \in One(a)
  PROVE  First(t) = a /\ IsLast(t) /\ t # <<>>
  BY DEF One, First, IsLast

LEMMA TwoHeads ==
  ASSUME NEW a, NEW b, NEW t \in Two(a, b)
  PROVE  /\ t # <<>>
         /\ \/ First(t) = a /\ ~IsLast(t) /\ Second(t) = b
            \/ First(t) = b /\ IsLast(t)
<1>1. /\ First(<<a, b>>) = a /\ ~IsLast(<<a, b>>) /\ Second(<<a, b>>) = b
      /\ <<a, b>> # <<>>
  BY DEF First, Second, IsLast
<1>2. First(<<b>>) = b /\ IsLast(<<b>>) /\ <<b>> # <<>>
  BY DEF First, IsLast
<1> QED
  BY <1>1, <1>2 DEF Two

LEMMA ThreeHeads ==
  ASSUME NEW a, NEW b, NEW c, NEW t \in Three(a, b, c)
  PROVE  /\ t # <<>>
         /\ \/ First(t) = a /\ ~IsLast(t) /\ Second(t) = b
            \/ First(t) = b /\ ~IsLast(t) /\ Second(t) = c
            \/ First(t) = c /\ IsLast(t)
<1>1. /\ First(<<a, b, c>>) = a /\ ~IsLast(<<a, b, c>>) /\ Second(<<a, b, c>>) = b
      /\ <<a, b, c>> # <<>>
  BY DEF First, Second, IsLast
<1>2. t = <<a, b, c>> \/ t \in Two(b, c)
  BY DEF Two, Three
<1> QED
  BY <1>1, <1>2, TwoHeads

LEMMA FourHeads ==
  ASSUME NEW a, NEW b, NEW c, NEW d, NEW t \in Four(a, b, c, d)
  PROVE  /\ t # <<>>
         /\ \/ First(t) = a /\ ~IsLast(t) /\ Second(t) = b
            \/ First(t) = b /\ ~IsLast(t) /\ Second(t) = c
            \/ First(t) = c /\ ~IsLast(t) /\ Second(t) = d
            \/ First(t) = d /\ IsLast(t)
<1>1. /\ First(<<a, b, c, d>>) = a /\ ~IsLast(<<a, b, c, d>>)
      /\ Second(<<a, b, c, d>>) = b /\ <<a, b, c, d>> # <<>>
  BY DEF First, Second, IsLast
<1>2. t = <<a, b, c, d>> \/ t \in Three(b, c, d)
  BY DEF Three, Four
<1> QED
  BY <1>1, <1>2, ThreeHeads

LEMMA AwaitTells ==
  ASSUME NEW k \in DOMAIN E2eScript, NEW t \in Ahead[k]
  PROVE  /\ t # <<>>
         /\ First(t) = "init" => k = "putBackup" /\ ~IsLast(t) /\ Second(t) = "put"
         /\ First(t) = "put" => k = "putBackup" /\ IsLast(t)
         /\ First(t) = "idem" =>
              /\ k \in {"createEpoch", "unlock"} /\ ~IsLast(t)
              /\ k = "createEpoch" => Second(t) = "create"
              /\ k = "unlock" => Second(t) = "proof"
         /\ First(t) = "create" => k = "createEpoch" /\ ~IsLast(t) /\ Second(t) = "record"
         /\ First(t) = "record" => k \in {"createEpoch", "unlock"} /\ IsLast(t)
         /\ First(t) = "state" =>
              /\ k \in {"challenge", "addDevice", "approve", "lock", "postEnvelope", "getEnvelope"} /\ ~IsLast(t)
              /\ k = "challenge" => Second(t) = "issue"
              /\ k = "addDevice" => Second(t) = "enroll"
              /\ k = "approve" => Second(t) = "device"
              /\ k = "lock" => Second(t) = "lock"
              /\ k \in {"postEnvelope", "getEnvelope"} => Second(t) = "target"
         /\ First(t) = "issue" => k = "challenge" /\ IsLast(t)
         /\ First(t) = "proof" => k = "unlock" /\ ~IsLast(t) /\ Second(t) = "unlock"
         /\ First(t) = "unlock" => k = "unlock" /\ ~IsLast(t) /\ Second(t) = "record"
         /\ First(t) = "token" => k = "recoveryKey" /\ IsLast(t)
         /\ First(t) = "enroll" => k = "addDevice" /\ IsLast(t)
         /\ First(t) = "device" =>
              /\ k \in {"approve", "revoke"} /\ ~IsLast(t)
              /\ k = "approve" => Second(t) = "approver"
              /\ k = "revoke" => Second(t) = "revoke"
         /\ First(t) = "approver" => k = "approve" /\ ~IsLast(t) /\ Second(t) = "activate"
         /\ First(t) = "activate" => k = "approve" /\ IsLast(t)
         /\ First(t) = "revoke" => k = "revoke" /\ IsLast(t)
         /\ First(t) = "lock" => k = "lock" /\ IsLast(t)
         /\ First(t) = "target" =>
              /\ k \in {"postEnvelope", "getEnvelope"} /\ ~IsLast(t)
              /\ k = "postEnvelope" => Second(t) = "source"
              /\ k = "getEnvelope" => Second(t) = "fetch"
         /\ First(t) = "source" => k = "postEnvelope" /\ ~IsLast(t) /\ Second(t) = "store"
         /\ First(t) = "store" => k = "postEnvelope" /\ IsLast(t)
         /\ First(t) = "fetch" => k = "getEnvelope" /\ ~IsLast(t) /\ Second(t) = "deliver"
         /\ First(t) = "deliver" => k = "getEnvelope" /\ IsLast(t)
<1>1. CASE k = "putBackup"
  <2>1. t \in Two("init", "put")
    BY <1>1 DEF Ahead
  <2> QED
    BY <1>1, <2>1, TwoHeads
<1>2. CASE k = "createEpoch"
  <2>1. t \in Three("idem", "create", "record")
    BY <1>2 DEF Ahead
  <2> QED
    BY <1>2, <2>1, ThreeHeads
<1>3. CASE k = "challenge"
  <2>1. t \in Two("state", "issue")
    BY <1>3 DEF Ahead
  <2> QED
    BY <1>3, <2>1, TwoHeads
<1>4. CASE k = "unlock"
  <2>1. t \in Four("idem", "proof", "unlock", "record")
    BY <1>4 DEF Ahead
  <2> QED
    BY <1>4, <2>1, FourHeads
<1>5. CASE k = "recoveryKey"
  <2>1. t \in One("token")
    BY <1>5 DEF Ahead
  <2> QED
    BY <1>5, <2>1, OneHead
<1>6. CASE k = "addDevice"
  <2>1. t \in Two("state", "enroll")
    BY <1>6 DEF Ahead
  <2> QED
    BY <1>6, <2>1, TwoHeads
<1>7. CASE k = "approve"
  <2>1. t \in Four("state", "device", "approver", "activate")
    BY <1>7 DEF Ahead
  <2> QED
    BY <1>7, <2>1, FourHeads
<1>8. CASE k = "revoke"
  <2>1. t \in Two("device", "revoke")
    BY <1>8 DEF Ahead
  <2> QED
    BY <1>8, <2>1, TwoHeads
<1>9. CASE k = "lock"
  <2>1. t \in Two("state", "lock")
    BY <1>9 DEF Ahead
  <2> QED
    BY <1>9, <2>1, TwoHeads
<1>10. CASE k = "postEnvelope"
  <2>1. t \in Four("state", "target", "source", "store")
    BY <1>10 DEF Ahead
  <2> QED
    BY <1>10, <2>1, FourHeads
<1>11. CASE k = "getEnvelope"
  <2>1. t \in Four("state", "target", "fetch", "deliver")
    BY <1>11 DEF Ahead
  <2> QED
    BY <1>11, <2>1, FourHeads
<1> QED
  BY <1>1, <1>2, <1>3, <1>4, <1>5, <1>6, <1>7, <1>8, <1>9, <1>10, <1>11 DEF E2eScript

-----------------------------------------------------------------------------
(* Workers.                                                                *)

LEMMA DoingIsFirst ==
  ASSUME NEW w, NEW op
  PROVE  Doing(w, op) <=> worker[w].todo # <<>> /\ First(worker[w].todo) = op
  BY DEF Doing, First

(* What a worker in the middle of a script has. *)
LEMMA Standing ==
  ASSUME NEW w, WorkerShape(w), NEW op, Doing(w, op)
  PROVE  /\ worker[w] = [ req |-> worker[w].req, todo |-> worker[w].todo,
                          gone |-> worker[w].gone, got |-> worker[w].got ]
         /\ worker[w].req \in E2eRequest
         /\ worker[w].req \in sends \cup {LockRequest}
         /\ worker[w].req.kind \in DOMAIN E2eScript
         /\ worker[w].todo \in Ahead[worker[w].req.kind]
         /\ First(worker[w].todo) = op
         /\ worker[w].gone \subseteq Device
<1>1. worker[w] # Resting
  BY DoingIsFirst DEF Resting
<1> QED
  BY <1>1, RequestFields, DoingIsFirst DEF WorkerShape

(* A turn of one worker is no turn of another. *)
LEMMA Turning ==
  ASSUME NEW w \in Worker, DOMAIN worker = Worker, NEW m, Turns(w, m)
  PROVE  /\ DOMAIN worker' = Worker /\ worker'[w] = m
         /\ \A v \in Worker : v # w => worker'[v] = worker[v]
  BY DEF Turns

LEMMA Ending ==
  ASSUME NEW w \in Worker, DOMAIN worker = Worker, Ends(w)
  PROVE  /\ DOMAIN worker' = Worker /\ worker'[w] = Resting
         /\ \A v \in Worker : v # w => worker'[v] = worker[v]
  BY Turning DEF Ends

(* A worker that rests satisfies whatever is asked of workers. *)
LEMMA RestingIsFine ==
  ASSUME NEW w, worker'[w] = Resting
  PROVE  WorkerShape(w)' /\ GoneInv(w)' /\ StageInv(w)'
<1>1. \A op : ~(Doing(w, op)')
  BY DEF Doing, Resting
<1> QED
  BY <1>1 DEF WorkerShape, GoneInv, StageInv, Resting

LEMMA TailOfTodo ==
  ASSUME NEW n, NEW r, NEW t, NEW g, NEW x, n = [ req |-> r, todo |-> t, gone |-> g, got |-> x ]
  PROVE  PastAwait(n) = [ req |-> r, todo |-> Tail(t), gone |-> g, got |-> x ]
<1>1. n \in [ req: {r}, todo: {t}, gone: {g}, got: {x} ]
  OBVIOUS
<1>2. PastAwait(n) \in [ req: {r}, todo: {Tail(t)}, gone: {g}, got: {x} ]
  BY <1>1 DEF PastAwait
<1>3. \A z \in [ req: {r}, todo: {Tail(t)}, gone: {g}, got: {x} ] :
        z = [ req |-> r, todo |-> Tail(t), gone |-> g, got |-> x ]
  OBVIOUS
<1> QED
  BY <1>2, <1>3

(* Going on: the request stays, the next await is due, or it was the last. *)
LEMMA Proceeding ==
  ASSUME NEW w \in Worker, DOMAIN worker = Worker, WorkerShape(w), sends' = sends,
         NEW op, Doing(w, op), NEW n,
         n = [ req |-> worker[w].req, todo |-> worker[w].todo, gone |-> worker[w].gone,
               got |-> n.got ],
         Proceeds(w, n)
  PROVE  /\ DOMAIN worker' = Worker
         /\ \A v \in Worker : v # w => worker'[v] = worker[v]
         /\ IsLast(worker[w].todo) => worker'[w] = Resting
         /\ ~IsLast(worker[w].todo) =>
              /\ worker'[w] = [ req |-> worker[w].req, todo |-> Tail(worker[w].todo),
                                gone |-> worker[w].gone, got |-> n.got ]
              /\ \A x : Doing(w, x)' <=> x = Second(worker[w].todo)
         /\ WorkerShape(w)'
<1> DEFINE m == worker[w]
<1>1. /\ m = [ req |-> m.req, todo |-> m.todo, gone |-> m.gone, got |-> m.got ]
      /\ m.req \in E2eRequest /\ m.req \in sends \cup {LockRequest} /\ m.gone \subseteq Device
      /\ m.req.kind \in DOMAIN E2eScript /\ m.todo \in Ahead[m.req.kind]
  BY Standing
<1>2. n = [ req |-> m.req, todo |-> m.todo, gone |-> m.gone, got |-> n.got ]
  OBVIOUS
<1>3. PastAwait(n) =
        [ req |-> m.req, todo |-> Tail(m.todo), gone |-> m.gone, got |-> n.got ]
  BY TailOfTodo
<1>4. Turns(w, IF IsLast(m.todo) THEN Resting ELSE PastAwait(n))
  BY <1>2 DEF Proceeds, IsLast
<1>5. /\ DOMAIN worker' = Worker
      /\ \A v \in Worker : v # w => worker'[v] = worker[v]
      /\ worker'[w] = IF IsLast(m.todo) THEN Resting ELSE PastAwait(n)
  BY <1>4, Turning
<1>6. CASE IsLast(m.todo)
  BY <1>5, <1>6, RestingIsFine
<1>7. CASE ~IsLast(m.todo)
  <2>1. worker'[w] = [ req |-> m.req, todo |-> Tail(m.todo), gone |-> m.gone, got |-> n.got ]
    BY <1>3, <1>5, <1>7
  <2>2. Tail(m.todo) \in Ahead[m.req.kind]
    BY <1>1, <1>7, ScriptGoesOn DEF IsLast
  <2>3. Tail(m.todo) # <<>>
    BY <1>1, <2>2, AwaitTells
  <2>4. \A x : Doing(w, x)' <=> x = Second(m.todo)
    BY <2>1, <2>3 DEF Doing, Second
  <2>5. WorkerShape(w)'
    BY <1>1, <2>1, <2>2 DEF WorkerShape
  <2> QED
    BY <1>5, <1>7, <2>1, <2>4, <2>5
<1> QED
  BY <1>6, <1>7

(* The same of a worker. *)
LEMMA DoingTells ==
  ASSUME NEW w, WorkerShape(w), NEW op, Doing(w, op),
         NEW k, k = worker[w].req.kind, NEW t, t = worker[w].todo
  PROVE  /\ worker[w].req \in E2eRequest
         /\ op = "init" => k = "putBackup" /\ ~IsLast(t) /\ Second(t) = "put"
         /\ op = "put" => k = "putBackup" /\ IsLast(t)
         /\ op = "idem" =>
              /\ k \in {"createEpoch", "unlock"} /\ ~IsLast(t)
              /\ k = "createEpoch" => Second(t) = "create"
              /\ k = "unlock" => Second(t) = "proof"
         /\ op = "create" => k = "createEpoch" /\ ~IsLast(t) /\ Second(t) = "record"
         /\ op = "record" => k \in {"createEpoch", "unlock"} /\ IsLast(t)
         /\ op = "state" =>
              /\ k \in {"challenge", "addDevice", "approve", "lock", "postEnvelope", "getEnvelope"} /\ ~IsLast(t)
              /\ k = "challenge" => Second(t) = "issue"
              /\ k = "addDevice" => Second(t) = "enroll"
              /\ k = "approve" => Second(t) = "device"
              /\ k = "lock" => Second(t) = "lock"
              /\ k \in {"postEnvelope", "getEnvelope"} => Second(t) = "target"
         /\ op = "issue" => k = "challenge" /\ IsLast(t)
         /\ op = "proof" => k = "unlock" /\ ~IsLast(t) /\ Second(t) = "unlock"
         /\ op = "unlock" => k = "unlock" /\ ~IsLast(t) /\ Second(t) = "record"
         /\ op = "token" => k = "recoveryKey" /\ IsLast(t)
         /\ op = "enroll" => k = "addDevice" /\ IsLast(t)
         /\ op = "device" =>
              /\ k \in {"approve", "revoke"} /\ ~IsLast(t)
              /\ k = "approve" => Second(t) = "approver"
              /\ k = "revoke" => Second(t) = "revoke"
         /\ op = "approver" => k = "approve" /\ ~IsLast(t) /\ Second(t) = "activate"
         /\ op = "activate" => k = "approve" /\ IsLast(t)
         /\ op = "revoke" => k = "revoke" /\ IsLast(t)
         /\ op = "lock" => k = "lock" /\ IsLast(t)
         /\ op = "target" =>
              /\ k \in {"postEnvelope", "getEnvelope"} /\ ~IsLast(t)
              /\ k = "postEnvelope" => Second(t) = "source"
              /\ k = "getEnvelope" => Second(t) = "fetch"
         /\ op = "source" => k = "postEnvelope" /\ ~IsLast(t) /\ Second(t) = "store"
         /\ op = "store" => k = "postEnvelope" /\ IsLast(t)
         /\ op = "fetch" => k = "getEnvelope" /\ ~IsLast(t) /\ Second(t) = "deliver"
         /\ op = "deliver" => k = "getEnvelope" /\ IsLast(t)
<1>1. k \in DOMAIN E2eScript /\ t \in Ahead[k] /\ First(t) = op /\ worker[w].req \in E2eRequest
  BY Standing
<1>2. First(t) = op
  BY <1>1
<1> QED
  BY <1>1, <1>2, AwaitTells

-----------------------------------------------------------------------------
(* What a step may do to the devices: none disappears, and one that was    *)
(* revoked stays so or is marked as revived.                               *)
DevicesGoOn ==
  /\ revived \subseteq revived'
  /\ \A d \in Device :
       /\ device[d].status # "none" => device'[d].status # "none"
       /\ device[d].status = "Revoked" \/ (device[d].status = "Active" /\ d \in revived) =>
            \/ device'[d].status = "Revoked"
            \/ device'[d].status = "Active" /\ d \in revived'

(* The device and the sender a worker's request names at these awaits.     *)
LEMMA NamedDevices ==
  ASSUME NEW w, WorkerShape(w)
  PROVE  /\ \A op \in {"device", "approver", "activate", "revoke", "target", "source", "store",
                       "fetch", "deliver"} :
              Doing(w, op) => worker[w].req.device \in Device
         /\ \A op \in {"approver", "activate", "source", "store"} :
              Doing(w, op) => worker[w].req.by \in Device
<1>1. ASSUME NEW op, Doing(w, op),
             op \in {"device", "approver", "activate", "revoke", "target", "source", "store",
                     "fetch", "deliver"}
      PROVE  worker[w].req.kind \in {"approve", "revoke", "getEnvelope", "postEnvelope"}
  <2> DEFINE k == worker[w].req.kind
             t == worker[w].todo
  <2>1. k \in DOMAIN E2eScript /\ t \in Ahead[k] /\ First(t) = op
    BY <1>1, Standing
  <2> HIDE DEF k, t
  <2>2. k \in {"approve", "revoke", "getEnvelope", "postEnvelope"}
    BY <1>1, <2>1, AwaitTells
  <2> QED
    BY <2>2 DEF k
<1>2. ASSUME NEW op, Doing(w, op), op \in {"approver", "activate", "source", "store"}
      PROVE  worker[w].req.kind \in {"approve", "postEnvelope"}
  <2> DEFINE k == worker[w].req.kind
             t == worker[w].todo
  <2>1. k \in DOMAIN E2eScript /\ t \in Ahead[k] /\ First(t) = op
    BY <1>2, Standing
  <2> HIDE DEF k, t
  <2>2. k \in {"approve", "postEnvelope"}
    BY <1>2, <2>1, AwaitTells
  <2> QED
    BY <2>2 DEF k
<1>3. ASSUME NEW op, Doing(w, op) PROVE worker[w].req \in E2eRequest
  BY <1>3, Standing
<1> QED
  BY <1>1, <1>2, <1>3, RequestFields

(* A worker that has no turn keeps what it has.                            *)
LEMMA OthersKeep ==
  ASSUME NEW v, WorkerShape(v), GoneInv(v), StageInv(v),
         worker'[v] = worker[v], sends' = sends, DevicesGoOn
  PROVE  WorkerShape(v)' /\ GoneInv(v)' /\ StageInv(v)'
<1>1. WorkerShape(v)'
  BY DEF WorkerShape
<1>2. worker[v].gone \subseteq Device
  BY DEF WorkerShape, Resting
<1>3. GoneInv(v)'
  BY <1>2 DEF GoneInv, DevicesGoOn
<1>4. \A op : Doing(v, op)' <=> Doing(v, op)
  BY DEF Doing
<1>5. StageInv(v)'
  BY <1>4, NamedDevices DEF StageInv, DevicesGoOn
<1> QED
  BY <1>1, <1>3, <1>5

(* A step that writes no table keeps them right. *)
LEMMA QuietTables ==
  ASSUME UNCHANGED <<e2eState, backup, identity, device, unlock, idem, envelope, proof>>,
         UNCHANGED <<sends, performed, revived, exposed>>,
         RowsInv, EffectInv, RetriesHaveOneEffect, NoEnvelopeAfterRevoke
  PROVE  RowsInv' /\ EffectInv' /\ RetriesHaveOneEffect' /\ NoEnvelopeAfterRevoke' /\ DevicesGoOn
<1>1. RowsInv'
  BY DEF RowsInv, E2eTypeOK
<1> QED
  BY <1>1 DEF EffectInv, RetriesHaveOneEffect, NoEnvelopeAfterRevoke, DevicesGoOn

-----------------------------------------------------------------------------
(* What a step has to show: the tables are right after it, and the worker  *)
(* whose turn it is.                                                       *)
TablesKept ==
  /\ RowsInv' /\ EffectInv' /\ RetriesHaveOneEffect' /\ NoEnvelopeAfterRevoke'
  /\ DevicesGoOn /\ sends' = sends

WorkerKept(w) ==
  /\ WorkerShape(w)' /\ GoneInv(w)' /\ StageInv(w)'
  /\ DOMAIN worker' = Worker
  /\ \A v \in Worker : v # w => worker'[v] = worker[v]

LEMMA EndKept ==
  ASSUME NEW w \in Worker, DOMAIN worker = Worker, Ends(w)
  PROVE  WorkerKept(w)
  BY Ending, RestingIsFine DEF WorkerKept

(* A worker that goes on to an await nothing is assumed of.                *)
Delicate == {"approver", "activate", "revoke", "store", "fetch", "deliver"}

LEMMA GoneKept ==
  ASSUME NEW w, WorkerShape(w), GoneInv(w), DevicesGoOn,
         worker'[w] = Resting \/ worker'[w].gone = worker[w].gone
  PROVE  GoneInv(w)'
<1>1. worker[w].gone \subseteq Device
  BY DEF WorkerShape, Resting
<1>2. CASE worker'[w] = Resting
  BY <1>2, RestingIsFine
<1>3. CASE worker'[w].gone = worker[w].gone
  BY <1>1, <1>3 DEF GoneInv, DevicesGoOn
<1> QED
  BY <1>2, <1>3

LEMMA ProceedKept ==
  ASSUME NEW w \in Worker, DOMAIN worker = Worker, WorkerShape(w), GoneInv(w), sends' = sends,
         NEW op, Doing(w, op), Proceeds(w, worker[w]), DevicesGoOn,
         ~IsLast(worker[w].todo) => Second(worker[w].todo) \notin Delicate
  PROVE  WorkerKept(w)
<1>1. worker[w] = [ req |-> worker[w].req, todo |-> worker[w].todo,
                    gone |-> worker[w].gone, got |-> worker[w].got ]
  BY Standing
<1>2. /\ DOMAIN worker' = Worker
      /\ \A v \in Worker : v # w => worker'[v] = worker[v]
      /\ IsLast(worker[w].todo) => worker'[w] = Resting
      /\ ~IsLast(worker[w].todo) =>
           /\ worker'[w] = [ req |-> worker[w].req, todo |-> Tail(worker[w].todo),
                             gone |-> worker[w].gone, got |-> worker[w].got ]
           /\ \A x : Doing(w, x)' <=> x = Second(worker[w].todo)
      /\ WorkerShape(w)'
  BY <1>1, Proceeding
<1>3. GoneInv(w)'
  BY <1>2, GoneKept
<1>4. StageInv(w)'
  <2>1. CASE IsLast(worker[w].todo)
    BY <1>2, <2>1, RestingIsFine
  <2>2. CASE ~IsLast(worker[w].todo)
    BY <1>2, <2>2 DEF StageInv, Delicate
  <2> QED
    BY <2>1, <2>2
<1> QED
  BY <1>2, <1>3, <1>4 DEF WorkerKept

-----------------------------------------------------------------------------
(* The steps that write no table.                                          *)

LEMMA ServeKept ==
  ASSUME NEW w \in Worker, DOMAIN worker = Worker, RowsInv,
         NEW r \in sends \cup {LockRequest}, Serve(w, r),
         UNCHANGED <<e2eTables, sends, e2eHistory>>
  PROVE  WorkerKept(w)
<1> DEFINE m == [ req |-> r, todo |-> E2eScript[r.kind], gone |-> Revoked, got |-> NoEnvelope ]
<1>1. /\ DOMAIN worker' = Worker /\ worker'[w] = m
      /\ \A v \in Worker : v # w => worker'[v] = worker[v]
  BY Turning DEF Serve
<1>2. r \in E2eRequest
  BY LockIsRequest DEF RowsInv
<1>3. r.kind \in DOMAIN E2eScript /\ E2eScript[r.kind] \in Ahead[r.kind]
  BY <1>2, RequestFields, ScriptBegins
<1>4. WorkerShape(w)'
  BY <1>1, <1>2, <1>3 DEF WorkerShape, Revoked
<1>5. GoneInv(w)'
  BY <1>1 DEF GoneInv, Revoked, e2eTables, e2eHistory
<1>6. \A x \in Delicate : ~(Doing(w, x)')
  <2>1. First(E2eScript[r.kind]) \notin Delicate
    BY <1>3, SMTT(30) DEF E2eScript, First, Delicate, PutBackupAwaits, CreateEpochAwaits,
       ChallengeAwaits, UnlockAwaits, RecoveryKeyAwaits, AddDeviceAwaits, ApproveAwaits,
       RevokeAwaits, LockAwaits, PostEnvelopeAwaits, GetEnvelopeAwaits
  <2> QED
    BY <1>1, <2>1 DEF Doing, First
<1>7. StageInv(w)'
  BY <1>6 DEF StageInv, Delicate
<1> QED
  BY <1>1, <1>4, <1>5, <1>7 DEF WorkerKept

(* The invariant, for the worker that moves. *)
LEMMA Unfolded ==
  ASSUME E2eInv, NEW w \in Worker
  PROVE  /\ RowsInv /\ EffectInv /\ RetriesHaveOneEffect /\ NoEnvelopeAfterRevoke
         /\ DOMAIN worker = Worker /\ WorkerShape(w) /\ GoneInv(w) /\ StageInv(w)
  BY DEF E2eInv

LEMMA QuietKept ==
  ASSUME E2eInv, UNCHANGED <<e2eTables, sends, e2eHistory>>
  PROVE  TablesKept
  BY QuietTables DEF E2eInv, TablesKept, e2eTables, e2eHistory

(* Awaits that decide between going on and ending. *)
LEMMA CheckKept ==
  ASSUME NEW w \in Worker, E2eInv,
         ReadState(w) \/ CheckIdem(w) \/ CheckProof(w)
  PROVE  TablesKept /\ WorkerKept(w)
<1>1. UNCHANGED <<e2eTables, sends, e2eHistory>>
  BY DEF ReadState, CheckIdem, CheckProof, e2eClients
<1>2. TablesKept
  BY <1>1, QuietKept
<1>3. PICK op \in {"state", "idem", "proof"} :
        Doing(w, op) /\ (Proceeds(w, worker[w]) \/ Ends(w))
  BY DEF ReadState, CheckIdem, CheckProof
<1>4. CASE Ends(w)
  BY <1>2, <1>4, Unfolded, EndKept
<1>5. CASE Proceeds(w, worker[w])
  <2>1. Second(worker[w].todo) \notin Delicate
    BY <1>3, Unfolded, DoingTells DEF Delicate
  <2> QED
    BY <1>2, <1>3, <1>5, <2>1, Unfolded, ProceedKept DEF TablesKept
<1> QED
  BY <1>3, <1>4, <1>5

(* Going on with something the await has found. *)
LEMMA NotingKept ==
  ASSUME NEW w \in Worker, DOMAIN worker = Worker, WorkerShape(w), GoneInv(w), sends' = sends,
         NEW op, Doing(w, op), NEW x, Proceeds(w, Knowing(w, x)), DevicesGoOn,
         ~IsLast(worker[w].todo)
  PROVE  /\ DOMAIN worker' = Worker
         /\ \A v \in Worker : v # w => worker'[v] = worker[v]
         /\ worker'[w].req = worker[w].req /\ worker'[w].gone = worker[w].gone
         /\ worker'[w].got = x
         /\ \A y : Doing(w, y)' <=> y = Second(worker[w].todo)
         /\ WorkerShape(w)' /\ GoneInv(w)'
<1>1. worker[w] = [ req |-> worker[w].req, todo |-> worker[w].todo,
                    gone |-> worker[w].gone, got |-> worker[w].got ]
  BY Standing
<1>2. Knowing(w, x) = [ req |-> worker[w].req, todo |-> worker[w].todo,
                        gone |-> worker[w].gone, got |-> x ]
  BY <1>1 DEF Knowing
<1>3. Knowing(w, x).got = x
  BY <1>2
<1>4. /\ DOMAIN worker' = Worker
      /\ \A v \in Worker : v # w => worker'[v] = worker[v]
      /\ worker'[w] = [ req |-> worker[w].req, todo |-> Tail(worker[w].todo),
                        gone |-> worker[w].gone, got |-> x ]
      /\ \A y : Doing(w, y)' <=> y = Second(worker[w].todo)
      /\ WorkerShape(w)'
  BY <1>2, <1>3, Proceeding
<1>5. worker'[w].req = worker[w].req /\ worker'[w].gone = worker[w].gone /\ worker'[w].got = x
  BY <1>4
<1>6. GoneInv(w)'
  BY <1>5, GoneKept
<1> QED
  BY <1>4, <1>5, <1>6

(* The device a request names is there, and not revoked, when it is read.  *)
LEMMA ReadDeviceKept ==
  ASSUME NEW w \in Worker, E2eInv, ReadDevice(w)
  PROVE  TablesKept /\ WorkerKept(w)
<1> DEFINE status == device[worker[w].req.device].status
<1>1. UNCHANGED <<e2eTables, sends, e2eHistory>> /\ Doing(w, "device")
  BY DEF ReadDevice, e2eClients
<1>2. TablesKept
  BY <1>1, QuietKept
<1>3. CASE Ends(w)
  BY <1>2, <1>3, Unfolded, EndKept
<1>4. CASE Proceeds(w, Knowing(w, status)) /\ status \in {"Pending", "Active"}
  <2>1. ~IsLast(worker[w].todo) /\ Second(worker[w].todo) \in {"approver", "revoke"}
    BY <1>1, Unfolded, DoingTells
  <2>2. /\ DOMAIN worker' = Worker
        /\ \A v \in Worker : v # w => worker'[v] = worker[v]
        /\ worker'[w].req = worker[w].req /\ worker'[w].gone = worker[w].gone
        /\ worker'[w].got = status
        /\ \A y : Doing(w, y)' <=> y = Second(worker[w].todo)
        /\ WorkerShape(w)' /\ GoneInv(w)'
    BY <1>1, <1>2, <1>4, <2>1, Unfolded, NotingKept DEF TablesKept
  <2>3. StageInv(w)'
    <3>1. device' = device
      BY <1>1 DEF e2eTables
    <3>2. worker[w].req.device \in worker[w].gone => status = "Active"
      BY <1>4, Unfolded DEF GoneInv
    <3> QED
      BY <1>4, <2>1, <2>2, <3>1, <3>2 DEF StageInv
  <2> QED
    BY <1>2, <2>2, <2>3 DEF WorkerKept
<1> QED
  BY <1>3, <1>4 DEF ReadDevice, Approvable, Revocable

(* A target was not revoked when it was read, or has been revived; a       *)
(* trusted source is a device.                                             *)
LEMMA ReadTargetKept ==
  ASSUME NEW w \in Worker, E2eInv, ReadTarget(w)
  PROVE  TablesKept /\ WorkerKept(w)
<1>1. UNCHANGED <<e2eTables, sends, e2eHistory>> /\ Doing(w, "target")
  BY DEF ReadTarget, e2eClients
<1>2. TablesKept
  BY <1>1, QuietKept
<1>3. CASE Ends(w)
  BY <1>2, <1>3, Unfolded, EndKept
<1>4. CASE /\ Proceeds(w, worker[w])
           /\ device[worker[w].req.device].status \in {"Pending", "Active"}
  <2>1. worker[w] = [ req |-> worker[w].req, todo |-> worker[w].todo,
                      gone |-> worker[w].gone, got |-> worker[w].got ]
    BY <1>1, Unfolded, Standing
  <2>2. Knowing(w, worker[w].got) = worker[w]
    BY <2>1 DEF Knowing
  <2>3. ~IsLast(worker[w].todo) /\ Second(worker[w].todo) \in {"source", "fetch"}
    BY <1>1, Unfolded, DoingTells
  <2>4. /\ DOMAIN worker' = Worker
        /\ \A v \in Worker : v # w => worker'[v] = worker[v]
        /\ worker'[w].req = worker[w].req /\ worker'[w].gone = worker[w].gone
        /\ \A y : Doing(w, y)' <=> y = Second(worker[w].todo)
        /\ WorkerShape(w)' /\ GoneInv(w)'
    BY <1>1, <1>2, <1>4, <2>2, <2>3, Unfolded, NotingKept DEF TablesKept
  <2>5. worker[w].req.device \in worker[w].gone => worker[w].req.device \in revived
    BY <1>4, Unfolded DEF GoneInv
  <2>6. revived' = revived
    BY <1>1 DEF e2eHistory
  <2>7. StageInv(w)'
    BY <2>3, <2>4, <2>5, <2>6 DEF StageInv
  <2> QED
    BY <1>2, <2>4, <2>7 DEF WorkerKept
<1> QED
  BY <1>3, <1>4 DEF ReadTarget

LEMMA ReadSourceKept ==
  ASSUME NEW w \in Worker, E2eInv, ReadSource(w)
  PROVE  TablesKept /\ WorkerKept(w)
<1>1. UNCHANGED <<e2eTables, sends, e2eHistory>> /\ Doing(w, "source")
  BY DEF ReadSource, e2eClients
<1>2. TablesKept
  BY <1>1, QuietKept
<1>3. CASE Ends(w)
  BY <1>2, <1>3, Unfolded, EndKept
<1>4. CASE Proceeds(w, worker[w]) /\ device[worker[w].req.by].status = "Active"
  <2>1. worker[w] = [ req |-> worker[w].req, todo |-> worker[w].todo,
                      gone |-> worker[w].gone, got |-> worker[w].got ]
    BY <1>1, Unfolded, Standing
  <2>2. Knowing(w, worker[w].got) = worker[w]
    BY <2>1 DEF Knowing
  <2>3. ~IsLast(worker[w].todo) /\ Second(worker[w].todo) = "store"
    BY <1>1, Unfolded, DoingTells
  <2>4. /\ DOMAIN worker' = Worker
        /\ \A v \in Worker : v # w => worker'[v] = worker[v]
        /\ worker'[w].req = worker[w].req
        /\ \A y : Doing(w, y)' <=> y = Second(worker[w].todo)
        /\ WorkerShape(w)' /\ GoneInv(w)'
    BY <1>1, <1>2, <1>4, <2>2, <2>3, Unfolded, NotingKept DEF TablesKept
  <2>5. device' = device
    BY <1>1 DEF e2eTables
  <2>6. StageInv(w)'
    BY <1>4, <2>3, <2>4, <2>5 DEF StageInv
  <2> QED
    BY <1>2, <2>4, <2>6 DEF WorkerKept
<1> QED
  BY <1>3, <1>4 DEF ReadSource, Trusted

LEMMA FetchEnvelopeKept ==
  ASSUME NEW w \in Worker, E2eInv, FetchEnvelope(w)
  PROVE  TablesKept /\ WorkerKept(w)
<1>1. UNCHANGED <<e2eTables, sends, e2eHistory>> /\ Doing(w, "fetch")
  BY DEF FetchEnvelope, e2eClients
<1>2. TablesKept
  BY <1>1, QuietKept
<1>3. CASE Ends(w)
  BY <1>2, <1>3, Unfolded, EndKept
<1>4. CASE Proceeds(w, Knowing(w, envelope[worker[w].req.device]))
  <2>1. ~IsLast(worker[w].todo) /\ Second(worker[w].todo) = "deliver"
    BY <1>1, Unfolded, DoingTells
  <2>2. /\ DOMAIN worker' = Worker
        /\ \A v \in Worker : v # w => worker'[v] = worker[v]
        /\ worker'[w].req = worker[w].req /\ worker'[w].gone = worker[w].gone
        /\ \A y : Doing(w, y)' <=> y = Second(worker[w].todo)
        /\ WorkerShape(w)' /\ GoneInv(w)'
    BY <1>1, <1>2, <1>4, <2>1, Unfolded, NotingKept DEF TablesKept
  <2>3. worker[w].req.device \in worker[w].gone => worker[w].req.device \in revived
    BY <1>1, Unfolded DEF StageInv
  <2>4. revived' = revived
    BY <1>1 DEF e2eHistory
  <2>5. StageInv(w)'
    BY <2>1, <2>2, <2>3, <2>4 DEF StageInv
  <2> QED
    BY <1>2, <2>2, <2>5 DEF WorkerKept
<1> QED
  BY <1>3, <1>4 DEF FetchEnvelope

-----------------------------------------------------------------------------
(* What the writers write.                                                 *)

(* Storing an epoch's identity key removes none. *)
LEMMA StoredKept ==
  ASSUME RowsInv, NEW r \in E2eRequest, r.kind \in {"putBackup", "createEpoch", "unlock"}
  PROVE  /\ Stored(r) \in [ Epoch -> Identity \cup {NoIdentity} ]
         /\ \A e \in Epoch : identity[e] # NoIdentity => Stored(r)[e] # NoIdentity
         /\ r.epoch \in Epoch /\ Stored(r)[r.epoch] # NoIdentity
         /\ BackupOf(r) \in Backup
<1>1. r.rev \in Nat /\ r.hash \in SetHash /\ r.epoch \in Epoch /\ r.pub \in Identity
  BY RequestFields
<1>2. identity \in [ Epoch -> Identity \cup {NoIdentity} ]
  BY DEF RowsInv, E2eTypeOK
<1> QED
  BY <1>1, <1>2, AbsenceAssumption DEF Stored, BackupOf, Backup, AbsenceAssumption

(* Enrolling changes one device, which was none before. *)
LEMMA EnrolledKept ==
  ASSUME RowsInv, NEW epoch \in Epoch, NEW status \in {"Pending", "Active"},
         NEW new \in Enrolled(epoch, status)
  PROVE  /\ new \in [ Device -> DeviceRow ]
         /\ \A d \in Device : device[d].status # "none" => new[d] = device[d]
         /\ \A d \in Device : new[d] = device[d] \/ new[d].epoch = epoch
<1>1. device \in [ Device -> DeviceRow ]
  BY DEF RowsInv, E2eTypeOK
<1>2. PICK x \in Device : /\ device[x].status = "none"
                          /\ new = [device EXCEPT ![x] = [ status |-> status, epoch |-> epoch ]]
  BY DEF Enrolled
<1>3. [ status |-> status, epoch |-> epoch ] \in DeviceRow
  BY DEF DeviceRow, DeviceStatus
<1>4. [ status |-> status, epoch |-> epoch ].epoch = epoch
  OBVIOUS
<1> HIDE DEF DeviceRow
<1> QED
  BY <1>1, <1>2, <1>3, <1>4

(* A step that leaves the devices and their envelopes alone, and no epoch  *)
(* without its key.                                                        *)
LEMMA RowsKept ==
  ASSUME RowsInv, UNCHANGED <<device, envelope, sends, revived, exposed>>,
         e2eState' \in E2eState, backup' \in Backup \cup {NoBackup},
         identity' \in [ Epoch -> Identity \cup {NoIdentity} ],
         \A e \in Epoch : identity[e] # NoIdentity => identity'[e] # NoIdentity,
         idem' \subseteq IdemKey, proof' \in BOOLEAN,
         unlock' \in [ UnlockChallenge -> {"unissued", "open", "used", "expired"} ],
         performed' \in [ IdemKey -> Nat ]
  PROVE  RowsInv' /\ DevicesGoOn
<1>1. E2eTypeOK'
  BY DEF RowsInv, E2eTypeOK
<1> QED
  BY <1>1 DEF RowsInv, DevicesGoOn

(* Nothing is brought about, and no trace of what was is lost. *)
LEMMA EffectKept ==
  ASSUME RowsInv, EffectInv, RetriesHaveOneEffect, UNCHANGED <<sends, performed>>,
         \A e \in Epoch : identity[e] # NoIdentity => identity'[e] # NoIdentity,
         \A c \in UnlockChallenge : unlock[c] = "used" => unlock'[c] = "used"
  PROVE  EffectInv' /\ RetriesHaveOneEffect'
<1>1. \A r \in sends : /\ r.kind = "createEpoch" => r.epoch \in Epoch
                       /\ r.kind = "unlock" => r.code \in UnlockChallenge
  BY RequestFields DEF RowsInv
<1> QED
  BY <1>1 DEF EffectInv, RetriesHaveOneEffect

(* A request with a key takes effect, for the first time. *)
LEMMA EffectOnce ==
  ASSUME RowsInv, EffectInv, RetriesHaveOneEffect, sends' = sends,
         NEW r \in sends, r.kind \in Keyed,
         performed[r.key] = 0, performed' = [performed EXCEPT ![r.key] = @ + 1],
         r.kind = "createEpoch" => identity'[r.epoch] # NoIdentity,
         r.kind = "unlock" => unlock'[r.code] = "used",
         \A e \in Epoch : identity[e] # NoIdentity => identity'[e] # NoIdentity,
         \A c \in UnlockChallenge : unlock[c] = "used" => unlock'[c] = "used"
  PROVE  /\ EffectInv' /\ RetriesHaveOneEffect' /\ performed' \in [ IdemKey -> Nat ]
<1>1. performed \in [ IdemKey -> Nat ] /\ r.key \in IdemKey
  BY RequestFields DEF RowsInv, E2eTypeOK
<1>2. performed' \in [ IdemKey -> Nat ] /\ RetriesHaveOneEffect'
  BY <1>1 DEF RetriesHaveOneEffect
<1>3. ASSUME NEW q \in sends, q.kind \in Keyed, performed'[q.key] # 0
      PROVE  /\ q.kind = "createEpoch" => identity'[q.epoch] # NoIdentity
             /\ q.kind = "unlock" => unlock'[q.code] = "used"
  <2>1. CASE q.key = r.key
    BY <1>3, <2>1 DEF RowsInv
  <2>2. CASE q.key # r.key
    <3>1. q.key \in IdemKey /\ performed[q.key] # 0
      BY <1>1, <1>3, <2>2, RequestFields DEF RowsInv
    <3>2. /\ q.kind = "createEpoch" => q.epoch \in Epoch
          /\ q.kind = "unlock" => q.code \in UnlockChallenge
      BY RequestFields DEF RowsInv
    <3> QED
      BY <1>3, <3>1, <3>2 DEF EffectInv
  <2> QED
    BY <2>1, <2>2
<1>4. EffectInv'
  BY <1>3 DEF EffectInv
<1> QED
  BY <1>2, <1>4

-----------------------------------------------------------------------------
(* The writers, one by one.                                                *)

LEMMA RowTypes ==
  ASSUME RowsInv
  PROVE  /\ e2eState \in E2eState /\ backup \in Backup \cup {NoBackup}
         /\ identity \in [ Epoch -> Identity \cup {NoIdentity} ]
         /\ device \in [ Device -> DeviceRow ]
         /\ idem \subseteq IdemKey /\ proof \in BOOLEAN
         /\ unlock \in [ UnlockChallenge -> {"unissued", "open", "used", "expired"} ]
         /\ performed \in [ IdemKey -> Nat ]
  BY DEF RowsInv, E2eTypeOK

(* The state of the account alone is written. *)
LEMMA StateKept ==
  ASSUME E2eInv, e2eState' \in E2eState,
         UNCHANGED <<backup, identity, device, unlock, idem, envelope, proof, sends, performed,
                     revived, exposed>>
  PROVE  TablesKept
<1>1. RowsInv /\ EffectInv /\ RetriesHaveOneEffect /\ NoEnvelopeAfterRevoke
  BY DEF E2eInv
<1>2. RowsInv' /\ DevicesGoOn
  BY <1>1, RowTypes, RowsKept
<1>3. EffectInv' /\ RetriesHaveOneEffect'
  BY <1>1, EffectKept
<1> QED
  BY <1>1, <1>2, <1>3 DEF TablesKept, NoEnvelopeAfterRevoke

LEMMA InitStateKept ==
  ASSUME NEW w \in Worker, E2eInv, InitState(w)
  PROVE  TablesKept /\ WorkerKept(w)
<1>1. /\ Doing(w, "init") /\ Proceeds(w, worker[w]) /\ e2eState' \in E2eState
      /\ UNCHANGED <<backup, identity, device, unlock, idem, envelope, proof, sends, performed,
                     revived, exposed>>
  BY Unfolded, RowTypes DEF InitState, E2eState, e2eClients, e2eHistory
<1>2. TablesKept
  BY <1>1, StateKept
<1>3. Second(worker[w].todo) \notin Delicate
  BY <1>1, Unfolded, DoingTells DEF Delicate
<1> QED
  BY <1>1, <1>2, <1>3, Unfolded, ProceedKept DEF TablesKept

LEMMA LockAccountKept ==
  ASSUME NEW w \in Worker, E2eInv, LockAccount(w)
  PROVE  TablesKept /\ WorkerKept(w)
<1>1. /\ Ends(w) /\ e2eState' \in E2eState
      /\ UNCHANGED <<backup, identity, device, unlock, idem, envelope, proof, sends, performed,
                     revived, exposed>>
  BY Unfolded, RowTypes DEF LockAccount, Locks, E2eState, e2eClients, e2eHistory
<1> QED
  BY <1>1, Unfolded, StateKept, EndKept

LEMMA PutKept ==
  ASSUME NEW w \in Worker, E2eInv, Put(w)
  PROVE  TablesKept /\ WorkerKept(w)
<1> DEFINE r == worker[w].req
<1>1. r \in E2eRequest /\ r.kind = "putBackup"
  BY Unfolded, DoingTells DEF Put
<1>2. RowsInv /\ EffectInv /\ RetriesHaveOneEffect /\ NoEnvelopeAfterRevoke
  BY DEF E2eInv
<1>3. /\ UNCHANGED <<device, unlock, idem, envelope, proof, sends, performed, revived, exposed>>
      /\ Ends(w)
      /\ \/ UNCHANGED <<backup, identity, e2eState>>
         \/ /\ backup' = BackupOf(r) /\ identity' = Stored(r)
            /\ e2eState' \in {"Active", e2eState}
  BY DEF Put, e2eClients, e2eHistory
<1>4. /\ e2eState' \in E2eState /\ backup' \in Backup \cup {NoBackup}
      /\ identity' \in [ Epoch -> Identity \cup {NoIdentity} ]
      /\ \A e \in Epoch : identity[e] # NoIdentity => identity'[e] # NoIdentity
  BY <1>1, <1>2, <1>3, RowTypes, StoredKept DEF E2eState
<1>5. RowsInv' /\ DevicesGoOn
  BY <1>2, <1>3, <1>4, RowTypes, RowsKept
<1>6. EffectInv' /\ RetriesHaveOneEffect'
  BY <1>2, <1>3, <1>4, EffectKept
<1> QED
  BY <1>2, <1>3, <1>5, <1>6, Unfolded, EndKept DEF TablesKept, NoEnvelopeAfterRevoke

LEMMA RecordKept ==
  ASSUME NEW w \in Worker, E2eInv, Record(w)
  PROVE  TablesKept /\ WorkerKept(w)
<1>1. /\ UNCHANGED <<e2eState, backup, identity, device, unlock, envelope, proof, sends,
                     performed, revived, exposed>>
      /\ Doing(w, "record") /\ Proceeds(w, worker[w])
      /\ idem' = idem \cup {worker[w].req.key}
  BY DEF Record, e2eClients, e2eHistory
<1>2. worker[w].req \in E2eRequest /\ worker[w].req.kind \in Keyed /\ IsLast(worker[w].todo)
  BY <1>1, Unfolded, DoingTells DEF Keyed
<1>3. RowsInv /\ EffectInv /\ RetriesHaveOneEffect /\ NoEnvelopeAfterRevoke
  BY DEF E2eInv
<1>4. idem' \subseteq IdemKey
  BY <1>1, <1>2, <1>3, RowTypes, RequestFields
<1>5. RowsInv' /\ DevicesGoOn
  BY <1>1, <1>3, <1>4, RowTypes, RowsKept
<1>6. EffectInv' /\ RetriesHaveOneEffect'
  BY <1>1, <1>3, EffectKept
<1>7. TablesKept
  BY <1>1, <1>3, <1>5, <1>6 DEF TablesKept, NoEnvelopeAfterRevoke
<1> QED
  BY <1>1, <1>2, <1>7, Unfolded, ProceedKept DEF TablesKept

(* A challenge is issued, or it or a token or an envelope expires. *)
LEMMA IssueUnlockKept ==
  ASSUME NEW w \in Worker, E2eInv, IssueUnlock(w)
  PROVE  TablesKept /\ WorkerKept(w)
<1>1. /\ UNCHANGED <<e2eState, backup, identity, device, idem, envelope, proof, sends,
                     performed, revived, exposed>>
      /\ Ends(w)
      /\ \E c \in UnlockChallenge :
           unlock[c] = "unissued" /\ unlock' = [unlock EXCEPT ![c] = "open"]
  BY DEF IssueUnlock, e2eClients, e2eHistory
<1>2. RowsInv /\ EffectInv /\ RetriesHaveOneEffect /\ NoEnvelopeAfterRevoke
  BY DEF E2eInv
<1>3. /\ unlock' \in [ UnlockChallenge -> {"unissued", "open", "used", "expired"} ]
      /\ \A c \in UnlockChallenge : unlock[c] = "used" => unlock'[c] = "used"
  BY <1>1, <1>2, RowTypes
<1>4. RowsInv' /\ DevicesGoOn
  BY <1>1, <1>2, <1>3, RowTypes, RowsKept
<1>5. EffectInv' /\ RetriesHaveOneEffect'
  BY <1>1, <1>2, <1>3, EffectKept
<1> QED
  BY <1>1, <1>2, <1>4, <1>5, Unfolded, EndKept DEF TablesKept, NoEnvelopeAfterRevoke

LEMMA TokenKept ==
  ASSUME NEW w \in Worker, E2eInv, Token(w)
  PROVE  TablesKept /\ WorkerKept(w)
<1>1. /\ UNCHANGED <<e2eState, backup, identity, device, unlock, idem, envelope, sends,
                     performed, revived, exposed>>
      /\ Ends(w) /\ proof' = (proof \/ e2eState = "Recovering")
  BY DEF Token, e2eClients, e2eHistory
<1>2. RowsInv /\ EffectInv /\ RetriesHaveOneEffect /\ NoEnvelopeAfterRevoke
  BY DEF E2eInv
<1>3. proof' \in BOOLEAN
  BY <1>1
<1>4. RowsInv' /\ DevicesGoOn
  BY <1>1, <1>2, <1>3, RowTypes, RowsKept
<1>5. EffectInv' /\ RetriesHaveOneEffect'
  BY <1>1, <1>2, EffectKept
<1> QED
  BY <1>1, <1>2, <1>4, <1>5, Unfolded, EndKept DEF TablesKept, NoEnvelopeAfterRevoke

(* A new device comes with the epoch's key.                                *)
LEMMA RowsWithDevice ==
  ASSUME RowsInv, UNCHANGED <<envelope, sends, revived, exposed, idem, proof>>,
         NEW epoch \in Epoch, NEW status \in {"Pending", "Active"},
         device' \in Enrolled(epoch, status), identity'[epoch] # NoIdentity,
         e2eState' \in E2eState, backup' \in Backup \cup {NoBackup},
         identity' \in [ Epoch -> Identity \cup {NoIdentity} ],
         \A e \in Epoch : identity[e] # NoIdentity => identity'[e] # NoIdentity,
         unlock' \in [ UnlockChallenge -> {"unissued", "open", "used", "expired"} ],
         performed' \in [ IdemKey -> Nat ]
  PROVE  RowsInv' /\ DevicesGoOn
<1>1. /\ device' \in [ Device -> DeviceRow ]
      /\ \A d \in Device : device[d].status # "none" => device'[d] = device[d]
      /\ \A d \in Device : device'[d] = device[d] \/ device'[d].epoch = epoch
  BY EnrolledKept
<1>2. \A d \in Device : envelope[d] # NoEnvelope => envelope[d].source \in Device
  BY DEF RowsInv
<1>3. \A d \in Device : device'[d].status # "none" =>
        device'[d].epoch \in Epoch /\ identity'[device'[d].epoch] # NoIdentity
  <2>1. TAKE d \in Device
  <2>2. CASE device'[d].epoch = epoch
    BY <2>2
  <2>3. CASE device'[d] = device[d]
    BY <2>3 DEF RowsInv, E2eTypeOK
  <2> QED
    BY <1>1, <2>2, <2>3
<1>4. \A d \in Device : envelope[d] # NoEnvelope => device'[envelope[d].source].status # "none"
  BY <1>1, <1>2 DEF RowsInv, E2eTypeOK
<1>5. E2eTypeOK'
  BY <1>1, <1>3, <1>4 DEF RowsInv, E2eTypeOK
<1>6. DevicesGoOn
  BY <1>1 DEF DevicesGoOn
<1> QED
  BY <1>5, <1>6 DEF RowsInv

(* The key of a request that is about to take effect has had none yet: its *)
(* epoch would have a key, or its challenge be used.                       *)
LEMMA CreateEpochKept ==
  ASSUME NEW w \in Worker, E2eInv, CreateEpoch(w)
  PROVE  TablesKept /\ WorkerKept(w)
<1> DEFINE r == worker[w].req
<1>1. Doing(w, "create")
  BY DEF CreateEpoch
<1>2. /\ r \in E2eRequest /\ r.kind = "createEpoch" /\ ~IsLast(worker[w].todo)
      /\ Second(worker[w].todo) = "record"
  BY <1>1, Unfolded, DoingTells
<1>3. r \in sends
  BY <1>1, <1>2, Unfolded, Standing, LockIsRequest
<1>4. RowsInv /\ EffectInv /\ RetriesHaveOneEffect /\ NoEnvelopeAfterRevoke
  BY DEF E2eInv
<1>5. CASE Ends(w) /\ UNCHANGED <<backup, identity, device, e2eState, performed>>
  <2>1. UNCHANGED <<e2eTables, sends, e2eHistory>>
    BY <1>5 DEF CreateEpoch, e2eTables, e2eClients, e2eHistory
  <2> QED
    BY <1>5, <2>1, Unfolded, EndKept, QuietKept
<1>6. CASE /\ EpochIsNew(r.epoch) /\ backup' = BackupOf(r) /\ identity' = Stored(r)
           /\ device' \in Enrolled(r.epoch, "Active") /\ e2eState' = "ActiveNewEpoch"
           /\ performed' = [performed EXCEPT ![r.key] = @ + 1]
           /\ Proceeds(w, worker[w])
  <2>1. UNCHANGED <<unlock, idem, envelope, proof, sends, revived, exposed>>
    BY DEF CreateEpoch, e2eClients
  <2>2. /\ identity' \in [ Epoch -> Identity \cup {NoIdentity} ]
        /\ \A e \in Epoch : identity[e] # NoIdentity => identity'[e] # NoIdentity
        /\ r.epoch \in Epoch /\ identity'[r.epoch] # NoIdentity
        /\ backup' \in Backup
    BY <1>2, <1>4, <1>6, StoredKept
  <2>3. performed[r.key] = 0
    BY <1>2, <1>3, <1>4, <1>6 DEF EffectInv, EpochIsNew, Keyed
  <2>4. EffectInv' /\ RetriesHaveOneEffect' /\ performed' \in [ IdemKey -> Nat ]
    BY <1>2, <1>3, <1>4, <1>6, <2>1, <2>2, <2>3, EffectOnce DEF Keyed
  <2>5. RowsInv' /\ DevicesGoOn
    BY <1>4, <1>6, <2>1, <2>2, <2>4, RowTypes, RowsWithDevice DEF E2eState
  <2>6. TablesKept
    BY <1>4, <2>1, <2>4, <2>5 DEF TablesKept, NoEnvelopeAfterRevoke
  <2> QED
    BY <1>1, <1>2, <1>6, <2>6, Unfolded, ProceedKept DEF TablesKept, Delicate
<1> QED
  BY <1>5, <1>6 DEF CreateEpoch

LEMMA UnlockCompleteKept ==
  ASSUME NEW w \in Worker, E2eInv, UnlockComplete(w)
  PROVE  TablesKept /\ WorkerKept(w)
<1> DEFINE r == worker[w].req
<1>1. Doing(w, "unlock")
  BY DEF UnlockComplete
<1>2. /\ r \in E2eRequest /\ r.kind = "unlock" /\ ~IsLast(worker[w].todo)
      /\ Second(worker[w].todo) = "record"
  BY <1>1, Unfolded, DoingTells
<1>3. r \in sends
  BY <1>1, <1>2, Unfolded, Standing, LockIsRequest
<1>4. RowsInv /\ EffectInv /\ RetriesHaveOneEffect /\ NoEnvelopeAfterRevoke
  BY DEF E2eInv
<1>5. CASE Ends(w) /\ UNCHANGED <<backup, identity, device, unlock, e2eState, performed>>
  <2>1. UNCHANGED <<e2eTables, sends, e2eHistory>>
    BY <1>5 DEF UnlockComplete, e2eTables, e2eClients, e2eHistory
  <2> QED
    BY <1>5, <2>1, Unfolded, EndKept, QuietKept
<1>6. CASE /\ unlock[r.code] = "open" /\ backup' = BackupOf(r) /\ identity' = Stored(r)
           /\ device' \in Enrolled(r.epoch, "Active") /\ e2eState' = "Active"
           /\ unlock' = [unlock EXCEPT ![r.code] = "used"]
           /\ performed' = [performed EXCEPT ![r.key] = @ + 1]
           /\ Proceeds(w, worker[w])
  <2>1. UNCHANGED <<idem, envelope, proof, sends, revived, exposed>>
    BY DEF UnlockComplete, e2eClients
  <2>2. /\ identity' \in [ Epoch -> Identity \cup {NoIdentity} ]
        /\ \A e \in Epoch : identity[e] # NoIdentity => identity'[e] # NoIdentity
        /\ r.epoch \in Epoch /\ identity'[r.epoch] # NoIdentity
        /\ backup' \in Backup
    BY <1>2, <1>4, <1>6, StoredKept
  <2>3. performed[r.key] = 0
    BY <1>2, <1>3, <1>4, <1>6 DEF EffectInv, Keyed
  <2>4. /\ unlock' \in [ UnlockChallenge -> {"unissued", "open", "used", "expired"} ]
        /\ \A c \in UnlockChallenge : unlock[c] = "used" => unlock'[c] = "used"
        /\ unlock'[r.code] = "used"
    BY <1>2, <1>4, <1>6, RowTypes, RequestFields
  <2>5. EffectInv' /\ RetriesHaveOneEffect' /\ performed' \in [ IdemKey -> Nat ]
    BY <1>2, <1>3, <1>4, <1>6, <2>1, <2>2, <2>3, <2>4, EffectOnce DEF Keyed
  <2>6. RowsInv' /\ DevicesGoOn
    BY <1>4, <1>6, <2>1, <2>2, <2>4, <2>5, RowTypes, RowsWithDevice DEF E2eState
  <2>7. TablesKept
    BY <1>4, <2>1, <2>5, <2>6 DEF TablesKept, NoEnvelopeAfterRevoke
  <2> QED
    BY <1>1, <1>2, <1>6, <2>7, Unfolded, ProceedKept DEF TablesKept, Delicate
<1> QED
  BY <1>5, <1>6 DEF UnlockComplete

LEMMA EnrollKept ==
  ASSUME NEW w \in Worker, E2eInv, Enroll(w)
  PROVE  TablesKept /\ WorkerKept(w)
<1> DEFINE e == worker[w].req.epoch
<1>1. /\ Ends(w)
      /\ UNCHANGED <<e2eState, backup, identity, unlock, idem, envelope, proof, sends,
                     performed, revived, exposed>>
  BY DEF Enroll, e2eClients, e2eHistory
<1>2. RowsInv /\ EffectInv /\ RetriesHaveOneEffect /\ NoEnvelopeAfterRevoke
  BY DEF E2eInv
<1>3. e \in Epoch
  BY Unfolded, DoingTells, RequestFields DEF Enroll
<1>4. RowsInv' /\ DevicesGoOn
  <2>1. CASE identity[e] # NoIdentity /\ device' \in Enrolled(e, "Pending")
    BY <1>1, <1>2, <1>3, <2>1, RowTypes, RowsWithDevice
  <2>2. CASE device' = device
    BY <1>1, <1>2, <2>2, RowTypes, RowsKept
  <2> QED
    BY <2>1, <2>2 DEF Enroll
<1>5. EffectInv' /\ RetriesHaveOneEffect'
  BY <1>1, <1>2, EffectKept
<1> QED
  BY <1>1, <1>2, <1>4, <1>5, Unfolded, EndKept DEF TablesKept, NoEnvelopeAfterRevoke

(* Only the proof tokens change.                                           *)
LEMMA ProofKept ==
  ASSUME E2eInv, proof' \in BOOLEAN,
         UNCHANGED <<e2eState, backup, identity, device, unlock, idem, envelope, sends, performed,
                     revived, exposed>>
  PROVE  TablesKept
<1>1. RowsInv /\ EffectInv /\ RetriesHaveOneEffect /\ NoEnvelopeAfterRevoke
  BY DEF E2eInv
<1>2. RowsInv' /\ DevicesGoOn
  BY <1>1, RowTypes, RowsKept
<1>3. EffectInv' /\ RetriesHaveOneEffect'
  BY <1>1, EffectKept
<1> QED
  BY <1>1, <1>2, <1>3 DEF TablesKept, NoEnvelopeAfterRevoke

(* A device that was Active when it was read is not activated.             *)
LEMMA ReadApproverKept ==
  ASSUME NEW w \in Worker, E2eInv, ReadApprover(w)
  PROVE  TablesKept /\ WorkerKept(w)
<1>1. /\ Doing(w, "approver") /\ proof' \in BOOLEAN
      /\ UNCHANGED <<e2eState, backup, identity, device, unlock, idem, envelope, sends, performed,
                     revived, exposed>>
  BY Unfolded, RowTypes DEF ReadApprover, e2eClients, e2eHistory
<1>2. TablesKept
  BY <1>1, ProofKept
<1>3. CASE Ends(w)
  BY <1>2, <1>3, Unfolded, EndKept
<1>4. CASE Proceeds(w, worker[w]) /\ worker[w].got # "Active"
  <2>1. worker[w] = [ req |-> worker[w].req, todo |-> worker[w].todo,
                      gone |-> worker[w].gone, got |-> worker[w].got ]
    BY <1>1, Unfolded, Standing
  <2>2. Knowing(w, worker[w].got) = worker[w]
    BY <2>1 DEF Knowing
  <2>3. ~IsLast(worker[w].todo) /\ Second(worker[w].todo) = "activate"
    BY <1>1, Unfolded, DoingTells
  <2>4. /\ DOMAIN worker' = Worker
        /\ \A v \in Worker : v # w => worker'[v] = worker[v]
        /\ worker'[w].req = worker[w].req /\ worker'[w].gone = worker[w].gone
        /\ worker'[w].got = worker[w].got
        /\ \A y : Doing(w, y)' <=> y = Second(worker[w].todo)
        /\ WorkerShape(w)' /\ GoneInv(w)'
    BY <1>1, <1>2, <1>4, <2>2, <2>3, Unfolded, NotingKept DEF TablesKept
  <2>5. StageInv(w)'
    BY <1>1, <1>4, <2>3, <2>4, Unfolded DEF StageInv
  <2> QED
    BY <1>2, <2>4, <2>5 DEF WorkerKept
<1> QED
  BY <1>3, <1>4 DEF ReadApprover

(* The status of one device is written, to one that a device has.          *)
LEMMA StatusKept ==
  ASSUME E2eInv, UNCHANGED <<e2eState, backup, identity, unlock, idem, envelope, sends, performed,
                             exposed>>,
         proof' \in BOOLEAN, NEW d \in Device, device[d].status # "none",
         NEW status \in {"Active", "Revoked"}, device' = [device EXCEPT ![d].status = status],
         revived' = IF status = "Active" THEN revived \cup ({d} \cap Revoked) ELSE revived
  PROVE  TablesKept
<1>1. RowsInv /\ EffectInv /\ RetriesHaveOneEffect /\ NoEnvelopeAfterRevoke
  BY DEF E2eInv
<1>2. device \in [ Device -> DeviceRow ]
  BY <1>1, RowTypes
<1>3. /\ device' \in [ Device -> DeviceRow ]
      /\ \A x \in Device : x # d => device'[x] = device[x]
      /\ device'[d].status = status /\ device'[d].epoch = device[d].epoch
  BY <1>2 DEF DeviceRow, DeviceStatus
<1>4. revived' \subseteq Device
  BY <1>1 DEF RowsInv, E2eTypeOK
<1>5. \A x \in Device : device'[x].status # "none" =>
        device'[x].epoch \in Epoch /\ identity'[device'[x].epoch] # NoIdentity
  BY <1>1, <1>3 DEF RowsInv, E2eTypeOK
<1>6. \A x \in Device : envelope[x] # NoEnvelope => device'[envelope[x].source].status # "none"
  <2>1. \A x \in Device : device[x].status # "none" => device'[x].status # "none"
    BY <1>3
  <2>2. \A x \in Device : envelope[x] # NoEnvelope =>
          envelope[x].source \in Device /\ device[envelope[x].source].status # "none"
    BY <1>1 DEF RowsInv, E2eTypeOK
  <2> QED
    BY <2>1, <2>2
<1>7. E2eTypeOK'
  BY <1>1, <1>3, <1>4, <1>5, <1>6 DEF RowsInv, E2eTypeOK
<1>8. RowsInv'
  BY <1>1, <1>7 DEF RowsInv
<1>9. DevicesGoOn
  BY <1>3 DEF DevicesGoOn, Revoked
<1>10. EffectInv' /\ RetriesHaveOneEffect'
  BY <1>1, EffectKept
<1> QED
  BY <1>1, <1>8, <1>9, <1>10 DEF TablesKept, NoEnvelopeAfterRevoke

LEMMA ActivateKept ==
  ASSUME NEW w \in Worker, E2eInv, Activate(w)
  PROVE  TablesKept /\ WorkerKept(w)
<1> DEFINE d == worker[w].req.device
<1>1. /\ UNCHANGED <<e2eState, backup, identity, unlock, idem, envelope, sends, performed,
                     exposed>>
      /\ Doing(w, "activate") /\ Ends(w) /\ proof' = TRUE
      /\ device' = [device EXCEPT ![d].status = "Active"]
      /\ revived' = revived \cup ({d} \cap Revoked)
  BY DEF Activate, e2eClients
<1>2. d \in Device /\ device[d].status # "none"
  BY <1>1, Unfolded, NamedDevices DEF StageInv
<1>3. TablesKept
  BY <1>1, <1>2, StatusKept
<1> QED
  BY <1>1, <1>3, Unfolded, EndKept

LEMMA RevokeDeviceKept ==
  ASSUME NEW w \in Worker, E2eInv, RevokeDevice(w)
  PROVE  TablesKept /\ WorkerKept(w)
<1> DEFINE d == worker[w].req.device
<1>1. /\ UNCHANGED <<e2eState, backup, identity, unlock, idem, envelope, proof, sends, performed,
                     revived, exposed>>
      /\ Doing(w, "revoke") /\ Ends(w)
      /\ device' = [device EXCEPT ![d].status = "Revoked"]
  BY DEF RevokeDevice, e2eClients, e2eHistory
<1>2. d \in Device /\ device[d].status # "none"
  BY <1>1, Unfolded, NamedDevices DEF StageInv
<1>3. proof' \in BOOLEAN
  BY <1>1, Unfolded, RowTypes
<1>4. TablesKept
  BY <1>1, <1>2, <1>3, StatusKept
<1> QED
  BY <1>1, <1>4, Unfolded, EndKept

(* Envelopes come and go; those that are there come from devices. *)
LEMMA EnvelopesKept ==
  ASSUME E2eInv, UNCHANGED <<e2eState, backup, identity, device, unlock, idem, proof, sends,
                             performed, revived, exposed>>,
         NEW d \in Device,
         NEW e \in [ source: Device, id: Nat ] \cup {NoEnvelope},
         e # NoEnvelope => device[e.source].status # "none",
         envelope' = [envelope EXCEPT ![d] = e]
  PROVE  TablesKept
<1>1. RowsInv /\ EffectInv /\ RetriesHaveOneEffect /\ NoEnvelopeAfterRevoke
  BY DEF E2eInv
<1>2. envelope \in [ Device -> [ source: Device, id: Nat ] \cup {NoEnvelope} ]
  BY <1>1 DEF RowsInv
<1>3. /\ envelope' \in [ Device -> [ source: Device, id: Nat ] \cup {NoEnvelope} ]
      /\ \A x \in Device : envelope'[x] # NoEnvelope =>
           device[envelope'[x].source].status # "none"
  BY <1>1, <1>2 DEF RowsInv, E2eTypeOK
<1>4. RowsInv' /\ DevicesGoOn
  BY <1>1, <1>3 DEF RowsInv, E2eTypeOK, DevicesGoOn
<1>5. EffectInv' /\ RetriesHaveOneEffect'
  BY <1>1, EffectKept
<1> QED
  BY <1>1, <1>4, <1>5 DEF TablesKept, NoEnvelopeAfterRevoke

LEMMA StoreEnvelopeKept ==
  ASSUME NEW w \in Worker, E2eInv, StoreEnvelope(w)
  PROVE  TablesKept /\ WorkerKept(w)
<1> DEFINE r == worker[w].req
           new == [ source |-> r.by, id |-> r.rev ]
<1>1. /\ UNCHANGED <<e2eState, backup, identity, device, unlock, idem, proof, sends, performed,
                     revived, exposed>>
      /\ Doing(w, "store") /\ Ends(w)
      /\ envelope' = envelope \/ envelope' = [envelope EXCEPT ![r.device] = new]
  BY DEF StoreEnvelope, e2eClients, e2eHistory
<1>2. /\ r \in E2eRequest /\ r.kind = "postEnvelope"
      /\ device[r.by].status # "none"
  BY <1>1, Unfolded, DoingTells DEF StageInv
<1>3. r.device \in Device /\ r.by \in Device /\ new \in [ source: Device, id: Nat ]
      /\ new.source = r.by
  BY <1>2, RequestFields
<1>4. TablesKept
  <2>1. CASE envelope' = envelope
    <3>1. UNCHANGED <<e2eTables, sends, e2eHistory>>
      BY <1>1, <2>1 DEF e2eTables, e2eHistory
    <3> QED
      BY <3>1, QuietKept
  <2>2. CASE envelope' = [envelope EXCEPT ![r.device] = new]
    <3> HIDE DEF new, r
    <3> QED
      BY <1>1, <1>2, <1>3, <2>2, EnvelopesKept
  <2> QED
    BY <1>1, <2>1, <2>2
<1> QED
  BY <1>1, <1>4, Unfolded, EndKept

(* Whom an envelope is handed out for: its source is Active, so it has not *)
(* been revoked since the request came in, or has been revived.            *)
LEMMA DeliverKept ==
  ASSUME NEW w \in Worker, E2eInv, Deliver(w)
  PROVE  TablesKept /\ WorkerKept(w)
<1> DEFINE m == worker[w]
           pair == {m.got.source, m.req.device}
<1>1. /\ UNCHANGED <<e2eTables, sends, performed, revived>>
      /\ Doing(w, "deliver") /\ Ends(w)
      /\ exposed' = IF Trusted(m.got.source, m.req.device)
                    THEN exposed \cup ((pair \cap m.gone) \ revived) ELSE exposed
  BY DEF Deliver, e2eClients
<1>2. RowsInv /\ EffectInv /\ RetriesHaveOneEffect /\ exposed = {}
  BY DEF E2eInv, NoEnvelopeAfterRevoke
<1>3. m.req.device \in m.gone => m.req.device \in revived
  BY <1>1, Unfolded DEF StageInv
<1>4. Trusted(m.got.source, m.req.device) /\ m.got.source \in m.gone => m.got.source \in revived
  BY Unfolded DEF GoneInv, Trusted
<1>5. exposed' = exposed
  BY <1>1, <1>2, <1>3, <1>4
<1>6. UNCHANGED <<e2eTables, sends, e2eHistory>>
  BY <1>1, <1>5 DEF e2eHistory
<1> QED
  BY <1>1, <1>6, QuietKept, Unfolded, EndKept

LEMMA SendKept ==
  ASSUME NEW w \in Worker, E2eInv, Send(w) \/ AskForLock(w)
  PROVE  TablesKept /\ WorkerKept(w)
<1>1. UNCHANGED <<e2eTables, sends, e2eHistory>>
  BY DEF Send, AskForLock, e2eClients
<1>2. PICK r \in sends \cup {LockRequest} : Serve(w, r)
  BY DEF Send, AskForLock
<1> QED
  BY <1>1, <1>2, Unfolded, ServeKept, QuietKept

LEMMA FailKept ==
  ASSUME NEW w \in Worker, E2eInv, E2eFail(w)
  PROVE  TablesKept /\ WorkerKept(w)
<1>1. UNCHANGED <<e2eTables, sends, e2eHistory>> /\ Ends(w)
  BY DEF E2eFail, e2eClients
<1> QED
  BY <1>1, Unfolded, QuietKept, EndKept

(* A used challenge does not expire. *)
LEMMA ExpireKept ==
  ASSUME E2eInv, ExpireE2e
  PROVE  TablesKept /\ worker' = worker
<1>1. /\ UNCHANGED <<e2eState, backup, identity, device, idem, sends, performed, revived,
                     exposed>>
      /\ worker' = worker
  BY DEF ExpireE2e, e2eClients, e2eHistory
<1>2. RowsInv /\ EffectInv /\ RetriesHaveOneEffect /\ NoEnvelopeAfterRevoke
  BY DEF E2eInv
<1>3. CASE proof' = FALSE /\ UNCHANGED <<unlock, envelope>>
  BY <1>1, <1>3, ProofKept
<1>4. CASE /\ UNCHANGED <<proof, envelope>>
           /\ \E c \in UnlockChallenge :
                unlock[c] = "open" /\ unlock' = [unlock EXCEPT ![c] = "expired"]
  <2>1. /\ unlock' \in [ UnlockChallenge -> {"unissued", "open", "used", "expired"} ]
        /\ \A c \in UnlockChallenge : unlock[c] = "used" => unlock'[c] = "used"
    BY <1>2, <1>4, RowTypes
  <2>2. RowsInv' /\ DevicesGoOn
    BY <1>1, <1>2, <1>4, <2>1, RowTypes, RowsKept
  <2>3. EffectInv' /\ RetriesHaveOneEffect'
    BY <1>1, <1>2, <2>1, EffectKept
  <2> QED
    BY <1>1, <1>2, <2>2, <2>3 DEF TablesKept, NoEnvelopeAfterRevoke
<1>5. CASE /\ UNCHANGED <<proof, unlock>>
           /\ \E d \in Device : envelope' = [envelope EXCEPT ![d] = NoEnvelope]
  BY <1>1, <1>5, EnvelopesKept
<1> QED
  BY <1>1, <1>3, <1>4, <1>5 DEF ExpireE2e

LEMMA EnterRecoveringKept ==
  ASSUME E2eInv, EnterRecovering
  PROVE  TablesKept /\ worker' = worker
<1>1. /\ e2eState' \in E2eState /\ worker' = worker
      /\ UNCHANGED <<backup, identity, device, unlock, idem, envelope, proof, sends, performed,
                     revived, exposed>>
  BY DEF EnterRecovering, E2eState, e2eClients, e2eHistory
<1> QED
  BY <1>1, StateKept

-----------------------------------------------------------------------------
(* The invariant.                                                          *)

LEMMA E2eInitEstablishes ==
  ASSUME E2eInit
  PROVE  E2eInv
<1>1. PICK m \in E2eMix : /\ e2eState = m.from /\ sends = m.sends
                          /\ backup = m.backup /\ identity = m.identity /\ device = m.device
  BY DEF E2eInit
<1>2. /\ unlock = [ c \in UnlockChallenge |-> "unissued" ] /\ idem = {}
      /\ envelope = [ d \in Device |-> NoEnvelope ] /\ proof = FALSE
      /\ worker = [ w \in Worker |-> Resting ]
      /\ performed = [ k \in IdemKey |-> 0 ] /\ revived = {} /\ exposed = {}
  BY DEF E2eInit
<1>3. E2eTypeOK
  BY <1>1, <1>2, E2eMixAssumption DEF E2eTypeOK, E2eMixAssumption
<1>4. RowsInv
  BY <1>1, <1>2, <1>3, E2eMixAssumption DEF RowsInv, E2eMixAssumption
<1>5. EffectInv /\ RetriesHaveOneEffect /\ NoEnvelopeAfterRevoke
  BY <1>2, <1>4, RequestFields DEF EffectInv, RetriesHaveOneEffect, NoEnvelopeAfterRevoke, RowsInv
<1>6. ASSUME NEW w \in Worker PROVE WorkerShape(w) /\ GoneInv(w) /\ StageInv(w)
  <2>1. worker[w] = Resting
    BY <1>2
  <2>2. \A op : ~Doing(w, op)
    BY <2>1 DEF Doing, Resting
  <2> QED
    BY <2>1, <2>2 DEF WorkerShape, GoneInv, StageInv, Resting
<1> QED
  BY <1>2, <1>4, <1>5, <1>6 DEF E2eInv

(* A step of the module, or the call that comes from a password reset.     *)
E2eMove == E2eNext \/ \E w \in Worker : AskForLock(w)

LEMMA E2eMoveKeeps ==
  ASSUME E2eInv, E2eMove
  PROVE  E2eInv'
<1>1. TablesKept /\ (worker' = worker \/ \E w \in Worker : WorkerKept(w))
  <2>1. ASSUME NEW w \in Worker, E2eStep(w) \/ E2eFail(w) \/ AskForLock(w)
        PROVE  TablesKept /\ WorkerKept(w)
    <3>1. CASE Send(w) \/ AskForLock(w)
      BY <3>1, SendKept
    <3>2. CASE E2eFail(w)
      BY <3>2, FailKept
    <3>3. CASE InitState(w)
      BY <3>3, InitStateKept
    <3>4. CASE Put(w)
      BY <3>4, PutKept
    <3>5. CASE CheckIdem(w) \/ ReadState(w) \/ CheckProof(w)
      BY <3>5, CheckKept
    <3>6. CASE CreateEpoch(w)
      BY <3>6, CreateEpochKept
    <3>7. CASE Record(w)
      BY <3>7, RecordKept
    <3>8. CASE IssueUnlock(w)
      BY <3>8, IssueUnlockKept
    <3>9. CASE Token(w)
      BY <3>9, TokenKept
    <3>10. CASE UnlockComplete(w)
      BY <3>10, UnlockCompleteKept
    <3>11. CASE LockAccount(w)
      BY <3>11, LockAccountKept
    <3>12. CASE Enroll(w)
      BY <3>12, EnrollKept
    <3>13. CASE ReadDevice(w)
      BY <3>13, ReadDeviceKept
    <3>14. CASE ReadApprover(w)
      BY <3>14, ReadApproverKept
    <3>15. CASE Activate(w)
      BY <3>15, ActivateKept
    <3>16. CASE RevokeDevice(w)
      BY <3>16, RevokeDeviceKept
    <3>17. CASE ReadTarget(w)
      BY <3>17, ReadTargetKept
    <3>18. CASE ReadSource(w)
      BY <3>18, ReadSourceKept
    <3>19. CASE StoreEnvelope(w)
      BY <3>19, StoreEnvelopeKept
    <3>20. CASE FetchEnvelope(w)
      BY <3>20, FetchEnvelopeKept
    <3>21. CASE Deliver(w)
      BY <3>21, DeliverKept
    <3> QED
      BY <2>1, <3>1, <3>2, <3>3, <3>4, <3>5, <3>6, <3>7, <3>8, <3>9, <3>10, <3>11, <3>12,
         <3>13, <3>14, <3>15, <3>16, <3>17, <3>18, <3>19, <3>20, <3>21 DEF E2eStep
  <2> QED
    BY <2>1, ExpireKept, EnterRecoveringKept DEF E2eMove, E2eNext
<1>2. DOMAIN worker' = Worker
  BY <1>1 DEF WorkerKept, E2eInv
<1>3. ASSUME NEW v \in Worker
      PROVE  WorkerShape(v)' /\ GoneInv(v)' /\ StageInv(v)'
  <2>1. CASE worker'[v] = worker[v]
    BY <1>1, <2>1, OthersKeep, Unfolded DEF TablesKept
  <2>2. CASE WorkerKept(v)
    BY <2>2 DEF WorkerKept
  <2> QED
    BY <1>1, <2>1, <2>2 DEF WorkerKept
<1> QED
  BY <1>1, <1>2, <1>3 DEF E2eInv, TablesKept

LEMMA E2eStutterKeeps ==
  ASSUME E2eInv, UNCHANGED e2eVars
  PROVE  E2eInv'
<1>1. UNCHANGED <<e2eTables, sends, e2eHistory>> /\ worker' = worker
  BY DEF e2eVars, e2eClients
<1>2. TablesKept
  BY <1>1, QuietKept
<1>3. ASSUME NEW v \in Worker
      PROVE  WorkerShape(v)' /\ GoneInv(v)' /\ StageInv(v)'
  BY <1>1, <1>2, OthersKeep, Unfolded DEF TablesKept
<1> QED
  BY <1>1, <1>2, <1>3 DEF E2eInv, TablesKept

-----------------------------------------------------------------------------
(* What no step does.                                                      *)

(* Only Activate makes a revoked device active, and a worker that gets     *)
(* there with the device revoked when it came in would have read it as     *)
(* Active, and ended.                                                      *)
LEMMA RevocationStep ==
  ASSUME E2eInv, E2eMove, NEW d \in Revoked, device'[d].status = "Active"
  PROVE  \E w \in Worker : /\ Doing(w, "activate") /\ worker[w].req.device = d
                           /\ d \notin worker[w].gone
<1>1. d \in Device /\ device[d].status = "Revoked" /\ device'[d] # device[d]
  BY DEF Revoked
<1>2. ASSUME NEW w \in Worker, Activate(w)
      PROVE  Doing(w, "activate") /\ worker[w].req.device = d /\ d \notin worker[w].gone
  <2>1. Doing(w, "activate")
    BY <1>2 DEF Activate
  <2>2. worker[w].req.device = d
    <3>1. device \in [ Device -> DeviceRow ]
      BY Unfolded, RowTypes
    <3> QED
      BY <1>1, <1>2, <3>1 DEF Activate
  <2> QED
    BY <2>1, <2>2, Unfolded DEF StageInv
<1>3. ASSUME NEW w \in Worker, RevokeDevice(w)
      PROVE  FALSE
  <2>1. device \in [ Device -> DeviceRow ]
    BY <1>3, Unfolded, RowTypes
  <2>2. device' = [device EXCEPT ![worker[w].req.device].status = "Revoked"]
    BY <1>3 DEF RevokeDevice
  <2> QED
    BY <1>1, <2>1, <2>2 DEF DeviceRow
<1>4. ASSUME NEW w \in Worker, NEW epoch \in Epoch, NEW status \in {"Pending", "Active"},
             device' \in Enrolled(epoch, status)
      PROVE  FALSE
  BY <1>1, <1>4, Unfolded, EnrolledKept
<1>5. ASSUME NEW w \in Worker, CreateEpoch(w) \/ UnlockComplete(w) \/ Enroll(w)
      PROVE  FALSE
  <2>1. worker[w].req.epoch \in Epoch
    BY <1>5, Unfolded, DoingTells, RequestFields DEF CreateEpoch, UnlockComplete, Enroll
  <2> QED
    BY <1>1, <1>4, <1>5, <2>1 DEF CreateEpoch, UnlockComplete, Enroll
<1>6. ASSUME device' # device
      PROVE  \E w \in Worker : \/ Activate(w) \/ RevokeDevice(w)
                               \/ CreateEpoch(w) \/ UnlockComplete(w) \/ Enroll(w)
  BY <1>6 DEF E2eMove, E2eNext, E2eStep, ExpireE2e, EnterRecovering, E2eFail, AskForLock, Send,
     InitState, Put, CheckIdem, Record, ReadState, IssueUnlock, Token, CheckProof, LockAccount,
     ReadDevice, ReadApprover, ReadTarget, ReadSource, StoreEnvelope, FetchEnvelope, Deliver,
     e2eTables
<1> QED
  BY <1>1, <1>2, <1>3, <1>5, <1>6

(* The writers of identities store a key where there is none, or the same. *)
LEMMA IdentityStep ==
  ASSUME E2eInv, E2eMove, NEW e \in Epoch, identity[e] # NoIdentity
  PROVE  identity'[e] = identity[e]
<1>1. ASSUME NEW w \in Worker, Put(w) \/ CreateEpoch(w) \/ UnlockComplete(w)
      PROVE  identity'[e] = identity[e]
  <2>1. identity \in [ Epoch -> Identity \cup {NoIdentity} ]
    BY <1>1, Unfolded, RowTypes
  <2> QED
    BY <1>1, <2>1 DEF Put, CreateEpoch, UnlockComplete, Agrees, EpochIsNew, Stored
<1>2. ASSUME identity' # identity
      PROVE  \E w \in Worker : Put(w) \/ CreateEpoch(w) \/ UnlockComplete(w)
  BY <1>2 DEF E2eMove, E2eNext, E2eStep, ExpireE2e, EnterRecovering, E2eFail, AskForLock, Send,
     InitState, CheckIdem, Record, ReadState, IssueUnlock, Token, CheckProof, LockAccount,
     Enroll, ReadDevice, ReadApprover, Activate, RevokeDevice, ReadTarget, ReadSource,
     StoreEnvelope, FetchEnvelope, Deliver, e2eTables
<1> QED
  BY <1>1, <1>2

(* The writers of the backup ask for another state than Locked, or leave it. *)
LEMMA FrozenStep ==
  ASSUME E2eMove, e2eState = "Locked", backup' # backup
  PROVE  e2eState' = "ActiveNewEpoch"
<1>1. \E w \in Worker : Put(w) \/ CreateEpoch(w) \/ UnlockComplete(w)
  BY DEF E2eMove, E2eNext, E2eStep, ExpireE2e, EnterRecovering, E2eFail, AskForLock, Send,
     InitState, CheckIdem, Record, ReadState, IssueUnlock, Token, CheckProof, LockAccount,
     Enroll, ReadDevice, ReadApprover, Activate, RevokeDevice, ReadTarget, ReadSource,
     StoreEnvelope, FetchEnvelope, Deliver, e2eTables
<1> QED
  BY <1>1 DEF Put, CreateEpoch, UnlockComplete, Writable

(* Of the writers of the state only the end of a recovery applies to one.  *)
LEMMA SparesStep ==
  ASSUME E2eMove, e2eState = "Recovering"
  PROVE  e2eState' \in {"Recovering", "Active"}
<1>1. \/ e2eState' = e2eState
      \/ EnterRecovering
      \/ \E w \in Worker : InitState(w) \/ Put(w) \/ CreateEpoch(w) \/ UnlockComplete(w)
                             \/ LockAccount(w)
  BY DEF E2eMove, E2eNext, E2eStep, ExpireE2e, E2eFail, AskForLock, Send,
     CheckIdem, Record, ReadState, IssueUnlock, Token, CheckProof,
     Enroll, ReadDevice, ReadApprover, Activate, RevokeDevice, ReadTarget, ReadSource,
     StoreEnvelope, FetchEnvelope, Deliver, e2eTables
<1> QED
  BY <1>1 DEF EnterRecovering, InitState, Put, CreateEpoch, UnlockComplete, LockAccount, Locks,
     Open

-----------------------------------------------------------------------------
(* The end-to-end side by itself.                                          *)

(* The invariant holds in every state. *)
THEOREM E2eInvariance == E2eSpec => []E2eInv
<1>1. E2eInit => E2eInv
  BY E2eInitEstablishes
<1>2. E2eInv /\ [E2eNext]_e2eVars => E2eInv'
  BY E2eMoveKeeps, E2eStutterKeeps DEF E2eMove
<1> QED
  BY <1>1, <1>2, PTL DEF E2eSpec

(* What the steps alone show of one another. *)
LEMMA E2eStepProperties ==
  ASSUME E2eInv, [E2eMove]_e2eVars
  PROVE  /\ e2eState = "Locked" /\ backup' # backup => e2eState' = "ActiveNewEpoch"
         /\ \A e \in Epoch : identity[e] # NoIdentity => identity'[e] = identity[e]
         /\ e2eState = "Recovering" => e2eState' \in {"Recovering", "Active"}
         /\ \A d \in Revoked : device'[d].status = "Active" =>
              \E w \in Worker : /\ Doing(w, "activate") /\ worker[w].req.device = d
                                /\ d \notin worker[w].gone
<1>1. CASE E2eMove
  <2>1. \A d \in Revoked : d \in Device
    BY DEF Revoked
  <2> QED
    BY <1>1, <2>1, FrozenStep, IdentityStep, SparesStep, RevocationStep
<1>2. CASE UNCHANGED e2eVars
  BY <1>2 DEF e2eVars, e2eTables, Revoked
<1> QED
  BY <1>1, <1>2

LEMMA MoveOfNext ==
  ASSUME [E2eNext]_e2eVars
  PROVE  [E2eMove]_e2eVars
  BY DEF E2eMove

(* Rows have their types in every state of the server's E2E side.          *)
THEOREM E2eTypeCorrect == E2eSpec => []E2eTypeOK
<1>1. E2eInv => E2eTypeOK
  BY DEF E2eInv, RowsInv
<1> QED
  BY <1>1, E2eInvariance, PTL

(* However often a client repeats a create-epoch or an unlock-complete, and *)
(* wherever a copy of it stops, one of them at most takes effect.          *)
THEOREM OneEffectOfRetries == E2eSpec => []RetriesHaveOneEffect
<1>1. E2eInv => RetriesHaveOneEffect
  BY DEF E2eInv
<1> QED
  BY <1>1, E2eInvariance, PTL

(* A revoked device takes no part in an envelope that a later request is   *)
(* given, unless an approval under way has revived it.                     *)
THEOREM EnvelopesStop == E2eSpec => []NoEnvelopeAfterRevoke
<1>1. E2eInv => NoEnvelopeAfterRevoke
  BY DEF E2eInv
<1> QED
  BY <1>1, E2eInvariance, PTL

(* What no step of the handlers does: write the backup of a locked account *)
(* and leave it locked, replace the identity key of an epoch, break off a  *)
(* recovery, or revive a device for an approval that came after its end.   *)
THEOREM E2eStepsKeepTheirPromises ==
  E2eSpec => /\ FrozenWhileLocked /\ IdentityStable
             /\ LockSparesRecovery /\ RevocationOutlivesLaterApprovals
<1>1. E2eInv /\ [E2eNext]_e2eVars =>
        /\ [e2eState = "Locked" /\ backup' # backup => e2eState' = "ActiveNewEpoch"]_e2eVars
        /\ [\A e \in Epoch : identity[e] # NoIdentity => identity'[e] = identity[e]]_e2eVars
        /\ [e2eState = "Recovering" => e2eState' \in {"Recovering", "Active"}]_e2eVars
        /\ [\A d \in Revoked : device'[d].status = "Active" =>
              \E w \in Worker : /\ Doing(w, "activate") /\ worker[w].req.device = d
                                /\ d \notin worker[w].gone]_e2eVars
  BY MoveOfNext, E2eStepProperties
<1> QED
  BY <1>1, E2eInvariance, PTL DEF E2eSpec, FrozenWhileLocked, IdentityStable, LockSparesRecovery,
     RevocationOutlivesLaterApprovals

=============================================================================
