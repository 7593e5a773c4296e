------------------------- MODULE MCAccountRecovery -------------------------
(* The mixes of clients: each behaviour runs one, so that the state spaces *)
(* add up instead of multiplying.                                          *)
EXTENDS AccountRecovery, TLC

CONSTANTS c1, c2, h1, h2, a1, a2, e1, e2, s1, s2,   \* accounts
          w1, w2, ka, kb, p, q, d1, d2, u1, u2, i1, ha, hb, hc   \* keys

MCHomeAddress == (a1 :> e1) @@ (a2 :> e2)

Clients(kinds, emails, live, n) ==
  [ kinds |-> kinds, emails |-> emails, live |-> live, requests |-> n ]

Registering == Clients({"registerBegin", "registerVerify", "registerCancel"}, {e1}, {}, 5)
Resetting == Clients({"resetStart", "resetVerify", "resetComplete", "login"}, {e1}, {a1}, 6)
Changing == Clients({"login", "changePassword", "deleteAccount"}, {e1}, {a1}, 5)
TwoFactor == Clients({"setupTotp", "enableTotp", "disableTotp", "reseal", "login"}, {e1}, {a1}, 5)
Moving == Clients({"emailBegin", "emailConfirm", "registerBegin", "registerVerify"}, {e2}, {a1}, 5)
Mistaking ==
  Clients({"resetStart", "resetVerify", "resetComplete", "emailConfirm"}, {e1}, {a1}, 5)
OneReset == Clients({"resetStart", "resetVerify", "resetComplete"}, {e1}, {a1}, 3)
OtherReset == Clients({"resetStart", "resetVerify", "resetComplete"}, {e2}, {a2}, 3)
Nobody == Clients({"login"}, {e1}, {a1}, 0)

PutOf(rev, hash, e, pub) ==
  [ kind |-> "putBackup", rev |-> rev, hash |-> hash, epoch |-> e, pub |-> pub ]
EpochOf(rev, hash, e, pub) ==
  [ kind |-> "createEpoch", key |-> i1, rev |-> rev, hash |-> hash, epoch |-> e, pub |-> pub ]
UnlockOf(rev, hash, e, pub, c) ==
  [ kind |-> "unlock", key |-> i1, rev |-> rev, hash |-> hash, epoch |-> e, pub |-> pub,
    code |-> c ]
Of(kind) == [ kind |-> kind ]
AddOf(e) == [ kind |-> "addDevice", epoch |-> e ]
ApproveOf(d, by) == [ kind |-> "approve", device |-> d, by |-> by ]
RevokeOf(d) == [ kind |-> "revoke", device |-> d ]
PostOf(d, by, n) == [ kind |-> "postEnvelope", device |-> d, by |-> by, rev |-> n ]
GetOf(d) == [ kind |-> "getEnvelope", device |-> d ]

Nothing == [ from |-> "Missing", backup |-> NoBackup, sends |-> {}, limit |-> 0,
             identity |-> [ e \in Epoch |-> NoIdentity ], device |-> [ d \in Device |-> NoDevice ] ]
Begun == [ Nothing EXCEPT !.from = "Active", !.backup = [ rev |-> 1, hash |-> ha ],
             !.identity[ka] = p, !.device[d1] = [ status |-> "Active", epoch |-> ka ] ]

Writing == [ Nothing EXCEPT !.limit = 5, !.sends =
  { PutOf(1, ha, ka, p), PutOf(2, hb, ka, q), LockRequest, EpochOf(3, hc, kb, q) } ]
Retrying == [ Begun EXCEPT !.device[d1] = NoDevice, !.limit = 5, !.sends =
  { PutOf(1, ha, ka, p), LockRequest, EpochOf(2, hb, kb, q) } ]
Recovering == [ Begun EXCEPT !.limit = 6, !.sends =
  { LockRequest, Of("challenge"), Of("recoveryKey"), UnlockOf(2, hb, ka, p, u1) } ]
Pairs == [ Begun EXCEPT !.limit = 5, !.sends =
  { AddOf(ka), AddOf(kb), ApproveOf(d2, d1), RevokeOf(d2), RevokeOf(d1), PostOf(d2, d1, 1), GetOf(d2) } ]
Around == [ Begun EXCEPT !.limit = 2, !.sends = { PutOf(2, hb, ka, p), EpochOf(3, hc, kb, q) } ]
Closed == [ Around EXCEPT !.from = "Locked" ]

MCAccountMix == {Registering, Resetting, Changing, TwoFactor, Moving, Mistaking, OneReset,
                  OtherReset, Nobody}
MCE2eMix == {Nothing, Writing, Retrying, Recovering, Pairs, Around, Closed}
MCPairing ==
  { <<m, {}>> : m \in MCAccountMix }
  \cup { <<Nobody, m.sends>> : m \in {Writing, Retrying, Recovering, Pairs} }
  \cup { <<OneReset, Around.sends>> }

Interchangeable ==
  Permutations({c1, c2}) \cup Permutations({h1, h2}) \cup Permutations({s1, s2})
    \cup Permutations({w1, w2})

=============================================================================
