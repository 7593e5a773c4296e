# Flora Ecosystem: verification project

TLA+ models of the parts of Flora whose correctness depends on the order of things, model-checked
with TLC and proved with TLAPS: both sides of session refresh, accounts, end-to-end keys, the chat
organizer and franking reports. Paths below are relative to the repository; `flora-auth` is short for
`src/products/Flora.Social/crates/modules/flora-auth`, and the other Rust modules likewise.

## What Flora is, and what can go wrong in it

Flora.Social is a modular monolith in Rust (axum, PostgreSQL) with Web, Mobile and Desktop clients
in TypeScript that share `src/packages/flora-client-core`. Beside it stand libraries (FSCP message
cryptography, FEP economy, FRC/FIRA/FSA codecs and others) that are mostly pure functions.

| Component | State it keeps | Operations | Talks to | What is hard | What makes it correct |
|---|---|---|---|---|---|
| Retry-safe refresh (`flora-auth`: `domain/refresh_machine.rs`, `application/refresh.rs`, `application/replay_cleanup.rs`) | drain flag; its rows live in the repository | refresh, set_drain, cleanup cycle | clients, repository, key ring | handlers await between reading a session and locking it; answers get lost after the commit; the cleanup job races rotations on another clock | one successor per token; a spent token presented inside the grace gets the same successor; 401 only for what is really dead |
| Session rows (`flora-auth/src/infrastructure/repo.rs`) | `user_sessions`, `auth_refresh_replays` | insert, rotate_or_replay, revocations, account deletion, cleanup | everything in `flora-auth` | row locks, READ COMMITTED rechecks | the row, its grant and its chain agree |
| Session endpoints, access tokens (`sessions.rs`, `session_validator.rs`, `jwt.rs`) | none | list, revoke, validate a request | repository | little: single statements | a revoked session authorises nothing |
| Login, lockout, 2FA (`login.rs`, `security.rs`) | failure counters, TOTP rows | login, enable and disable 2FA | repository, hasher | the lockout is read before the slow hash and written after it | parallel guesses do not outrun the lockout; no login with the old password survives a reset |
| Registration and reset (`register.rs`, `password_reset.rs`) | pending rows, grants | begin, verify, complete, cancel | verification, repository, users | several rows, no transaction: each step can fail alone | one account per address; a code or a grant is used once; a failed step leaves a way forward |
| TOTP secrets at rest (`totp_reseal.rs`) | reseal cursor | backfill, rotate | key ring, repository | compare-and-swap against users who change their secret | no secret lost or reverted; the old key can be retired |
| Verification challenges (`flora-verification`) | challenge rows | begin, validate, cancel, expire | registration, reset | parallel guesses race the attempt limit | a challenge is consumed at most once, within its attempts |
| Mobile refresh coordinator (`flora-client-core/src/api/sessionCoordinator.ts`, `apps/Mobile/lib/session.ts`) | in-memory attempt, epoch, pending commit; SecureStore record and its pending copy | refresh, supersede, effective read, save, clear, profile flag | server, SecureStore, screens | every await; storage that fails half-way; process death; late POSTs | never signs out without the server's word; never falls back from a rotated token; the newest login and the logout win |
| Web session (`apps/Web/lib/auth.ts`, `floraApiProxy.ts`) | cookie jar, tab storage, Web Lock | the same through a proxy that holds the token | proxy, other tabs | several tabs, one cookie | one refresh at a time; a late tab does not undo a logout |
| E2E accounts (`flora-messaging/src/infrastructure/e2e*.rs`) | epochs, devices, backups, idempotency records | create epoch, unlock, add, approve, revoke device | clients | idempotency outside the transaction; a stale account snapshot | one active epoch; a revoked device never regains keys; a retry has one effect |
| Conversations, groups, chat list | membership and message rows | CRUD | users, notifications | mostly SQL constraints | roles and membership |
| Franking reports (`flora-messaging/src/application/franking.rs`, `infrastructure/franking.rs`) | reports, key wraps that make a reviewer a viewer, audit | submit, claim, release, late wraps, forward, disclosure, resolve | reviewers, account blocks | each request judges by a read that may be old when its transaction runs; a block and a close in two transactions | a claim is exclusive; few viewers, and the audit knows them; a closed report is final |
| Notifications, signals | inbox, device and socket registries | dispatch, subscribe, acknowledge | all modules | fan-out to connections that come and go | nothing delivered to a revoked device |
| Presence | leases in memory | heartbeat, expire | sockets | last socket closing against a heartbeat | online iff a live lease |
| Chat organizer (`flora-chat-organizer`, `flora-client-core/src/messaging/chatOrganizerSession.ts`) | one revisioned blob per user; on each device a copy, a write queue, a refresh | read, compare-and-swap; change, retry, undo, refresh, migrate | the user's other devices, the old overlay | two devices edit at once; a refresh lands inside a write; answers get lost | no stored item is lost to a write that did not know of it; a device at rest shows what the server has |
| FEP economy (`flora-economy-crypto`) | ledger, credit lines, epochs | issue, transfer, settle, witness | none (library) | arithmetic bounds, replays of operations | value conserved; an operation applies once |
| Profiles, social graph, content, music | single rows, media | CRUD, ranking, transcoding | storage | little that a model tells apart | - |
| FSCP cryptography, codecs, search, geometry | none | pure functions | - | byte-level algorithms | outside these models |
| API host, migrations, user interfaces | configuration | routing, rendering | all | I/O | outside these models |

`PROJECT.json` lists the same components with their sources and state, and every hazard at its
line. The session family was modelled first, then the account flows and the keys behind them, then
the chat organizer and the franking reports. The
sessions come first because it is where a wrong interleaving costs every
user: a refresh token is used about once per access-token lifetime by every installed app, over
networks that lose answers, and the protocol (rotate, remember the last rotation for a grace of
60 seconds, revoke the family on reuse after that) punishes a mistake on either side with a logout.

## Modules

| Module | Models |
|---|---|
| `RefreshMachine` | the pure decision `decide` and `drain_blocks` of `refresh_machine.rs` |
| `AuthSessions` | the rows, the refresh handlers step by step, and logout, revoke-others, password reset, account deletion, the drain switch and the cleanup job that race with them |
| `TokenFamily` | abstract: what the protocol promises about a family, without handlers, rows or locks |
| `MobileSessionStore` | the store over SecureStore: each operation as the set of its outcomes on the disk, failures included |
| `SessionCoordinator` | the client: one refresh attempt await by await, pending commit, effective read, user, network, process death, against the server's decision |
| `VerificationChallenges` | the table of one-time codes and the statements `flora-verification` runs on it |
| `AccountAccess` | registration, login and lockout, password change and reset, e-mail change, two-factor setup, the sealing job, account deletion: one action per kind of await |
| `E2eAccount` | one user's key backup, epochs, devices, unlock challenges, recovery envelopes, idempotency records |
| `AccountRecovery` | the two above as one server runs them: a password reset ends by locking the keys |
| `ChatOrganizer` | one user's chat organizer: the server's blob and the session each device runs over it |
| `FrankingReport` | one report of a message: its claim, its key wraps, its audit and its verdict |
| `MCAuthSessions`, `MCSessionCoordinator`, `MCAccountRecovery`, `MCE2eAccount`, `MCChatOrganizer`, `MCFrankingReport` | instances for TLC |
| `AuthSessions_proofs` | the inductive invariant, the state invariants and the two action properties of the answers (the contract) |
| `AuthSessions_refinement` | `AuthSessions` implements `TokenFamily` |
| `AccountAccess_proofs` | one effect per code, attempts, two-factor secrets, withdrawn codes, old sessions |
| `E2eAccount_proofs` | the invariant of the keys and its action properties |
| `AccountRecovery_proofs` | the composition implements each part; a reset closes the keys |
| `SessionCoordinator_proofs` | types of the client; its five safety properties while at most two calls of its store fail |
| `ChatOrganizer_proofs` | the invariant of the organizer, its state invariants and its two action properties |
| `FrankingReport_proofs` | the invariant of a report and all its properties |

`AuthSessions` and `SessionCoordinator` share `RefreshMachine`. The first looks at many handlers of
one server; the second takes the server's effect as one step (that the steps in between add
nothing a client can tell is what the refinement and the contract of the first show) and looks at
everything around one client. `AccountRecovery` EXTENDS `AccountAccess` (which EXTENDS
`VerificationChallenges`) and `E2eAccount` and adds the call between them.

### AuthSessions: state and actions

`session` and `replay` are the two tables by session id; `lock` is the `FOR UPDATE` lock of a
session row; `request` is the local state of each handler; `sweep` is the set of ids the running
cleanup statement has picked. `chain`, `since` and `forfeited` are history: the tokens committed to
a family, the time of its last rotation, and whether the cleanup job destroyed a grant that was
still owed. A handler goes `Present`, `Prefetch`, `Seal`, `Lock`, `Settle`, `Respond`, one action
per stretch between two awaits, and may `Fail` anywhere. Choices worth knowing:

- a token stands for its hash; 64 random bytes are never drawn twice (`Unused`);
- `Commit` may answer 5xx after the transaction is durable, which covers a commit whose
  acknowledgement is lost and a stored grant the key ring cannot open;
- the cleanup statement selects ids from its snapshot and deletes by id, because PostgreSQL under
  READ COMMITTED rechecks only the outer condition of a row that changed meanwhile; its clock is the
  host's and may run ahead by `ClockSkew`; its batch limit is left out (any subset of a batch is
  reached by other runs of the job);
- the host clock that stamps a new expiry is taken equal to the database's;
- expiry of a session is a comparison with the clock and nothing else, as in the code.

### SessionCoordinator: state and actions

`attempt` is the refresh in flight (`inFlight`), `pending` the mutation whose commit failed,
`confirmedInvalid` the server's verdict, `disk` the canonical record and its pending copy (the
*shadow*), `user` the login or logout under way, `wire` the POSTs nobody waits for any more. The
epoch of the code is the flag `superseded` of the attempt: `supersede()` resets everything else
that carries an epoch. A read of the store and the code up to the next await are one step; the
queue in which the store serializes its operations is kept as far as it matters (`QueueFree`, and
the save of a login waits for a queued compare-and-swap). A token is a family (a login, numbered in
order) and a place in its chain; `AuthSessions` proves tokens distinct, so nothing is lost. The
expiry of a family is not told apart from `RevokeElsewhere`. Profile writes
(`setPendingProfileSetup`) show only in the revision they advance. A SecureStore call may fail to
read, refuse a write, throw after a write, read back something else, or fail to delete; each
failure costs one of `MaxFaults`. Access tokens are left out: every answer carries a new one and no
property depends on it.

### VerificationChallenges and AccountAccess: state and actions

The tables are functions or sets: `challenge`, `pending` (pending registrations and resets; such a
row holds what its code's row holds and expires with it, so a set of codes will do), `grants`,
`account`, `log` (the security rows), `sessions`. A `handler` is one request being served. It runs
a script, the list of its awaits in the order of the code; each entry is one action, shared by the
handlers that make that call, and holds the statement together with the code up to the next await.
Handlers interleave between any two entries. No statement of this side is in a transaction with
another. `Fail` ends a handler anywhere; `Skip` is the error the code discards (`let _ =`), after
which the handler goes on. `Detours` are the branches after a wrong code or password.

Passwords are numbered in the order they were set: a session row remembers the number it was opened
with, and `stale` whether that number was already replaced when the row was inserted. Whether the
client knows the password or the code is an input (`good`). A two-factor secret is a value of
`Secret` and is generated once. `effects`, `retired`, `unrevoked`, `wrong`, `generated`, `proven`,
`clobbered` are history and no guard reads them, but for `generated`, which keeps a secret from
being drawn twice.

Two facts are taken from outside the Rust sources because their DDL is not in the repository: the
unique index on the e-mail of `user_accounts` (the insert maps its violation to a conflict), and
the cascade of `delete_user_account` to sessions and the security row.

### E2eAccount: state and actions

The variables are the tables of one user: `e2eState`, `backup` (revision and hash of the epoch
set), `identity` per epoch, `device`, `unlock`, `idem`, `envelope`, and `proof` for a recovery proof
token. A `worker` serves one request, by a script of awaits as above. What the code does in one
transaction under the row lock of the account state, or under the advisory lock of an envelope's
target, is one step; reads before that transaction and the idempotency record, which is read first
and written after the commit, are steps of their own. `gone` of a worker is the set of devices that
had been revoked when its request came in; `revived`, `exposed` and `performed` are history.
`EnterRecovering` is external: other handlers wait for the state `Recovering`, but no code sets it,
nor `Rotating` or `Frozen`; the protocol's document gives the transition. Clients use an idempotency
key for one request only (`E2eMixAssumption`), as `flora-client-core` does.

### AccountRecovery: the call between them

`ResetHook` is the last await of a reset of the modelled `Owner`: it puts the lock request of
`after_password_reset` before a worker. `owed` is history: the resets that wrote the password while
the keys were open and whose lock has not been seen to take effect yet.

### ChatOrganizer: state and actions

`blobs` is the row of `user_chat_organizer_blobs` with its past: the contents it has had, so that
their number is its revision and a refresh can answer with an old one. `local` is a device's copy
and revision (the persisted state and the snapshot, which `persist` writes together), `queue` and
`write` its `writeChain` and the task at work in it, `refresh` the last `syncFromServer`, `seeding`
the caches read for a first blob. `late` holds the PUTs whose device has given up on them. A copy is
a set of items: a folder, a folder with a member, a muted peer.

`Change` is `mutateWithIntent` up to its queue; `Begin`, `Put`, `Reread`, `Save` and `Undo` are the
queued task from one await to the next, `putState`'s loop included; `Pull` is the branch of a seed
that another device has beaten to the first blob. `Refresh`, `GetBlob`, `Adopt` and `Migrate`,
`QueueSeed` are `syncFromServer`, in which a new refresh makes the answer to an earlier one void but
not the seed an earlier one has begun. `Put` is the server's whole handler, since it is one
statement, with its answer. Any request may be lost with or without its effect, and a PUT may take
effect later; a device may be closed and opened. `dropped` and `adrift` are history; `used` keeps
folder ids from being drawn twice. Building and reading the wire are left out: a wire holds a state
and a revision, and only the user's devices can make one.

### FrankingReport: state and actions

`status`, `claimedBy` and `sanctioned` are the row of `franking_reports`, `wraps` the accounts with a
row in `franking_disclosure_wraps`, `lastEvent` each person's last wrap event in
`franking_report_audit`, `blocked` the accused's row in `user_account_blocks`. A `request` is served by a
handler in two steps or three: the `Read...` actions are the application layer, which reads the
report and refuses by what it finds; `Claim`, `Release`, `InsertWraps`, `Fetch` and `Resolve` are the
transactions of the repository, one step each because they begin by locking the row, with the
conditions they judge again under the lock and no others. `Block` is the sanction before the close.
`Fail` ends a request between two of them. `claim_open` has one step more, `StartClaim`: PostgreSQL
answers the `EXISTS` of its UPDATE from the snapshot of the statement's start, while its WHERE is
judged again on the row it waited for. A person stands for all devices of an account. `invited`,
`readers` and `outdated` are history: whom the claimer forwarded the report to, who was served the
content in this claim, and whether the claim was decided on a wrap that was gone.

## Runs

All passing runs are exhaustive for their bounds. `CHECK_DEADLOCK FALSE` everywhere, because the
bounds on time, tokens and revisions end behaviours that the system would go on with.

| Run | Instance | Shows |
|---|---|---|
| `auth_grace` | 1 family, 2 handlers, 3 tokens, grace 2 of lifetime 3, clock to 4, skew 1 | `TypeOK`, `PrefetchStillValid`, `GrantMatchesRow`, `AnswersAreCurrent`, `GraceHonoured`, `ImplementsTokenFamily` with every overlap of two handlers and the cleanup job |
| `auth_liveness` | 1 family that starts on a raw token, 2 handlers, drain switch | `EveryRequestAnswered` |
| `auth_raw_token` | violation | the grace does not reach raw tokens |
| `auth_cleanup_race` | violation | the cleanup job can delete a live grant |
| `coordinator_storage` | 1 login, 2 rotations, clock to 2, 2 faults, 1 process death, revisions to 4 | `TypeOK`, `SignOutSticks`, `LagAtMostOne`, `SignOutIsJustified`, `EffectiveNeverRegresses` |
| `coordinator_logins` | 2 logins, 1 rotation each, 2 faults | `NewestLoginWins`, and under fairness `VolatileSessionSettles` |
| `account_recovery` | 2 handlers, 2 workers, 2 codes, addresses, accounts, secrets, epochs and devices; limits of 2 attempts and 2 failures; 2 passwords | 1,021,511 states: the ten invariants and six action properties of the three modules |
| `e2e_put_retry` | violation | a repeated backup write is not refused |
| `organizer` | 2 devices, 2 folders (one in the old overlay, with its member), 1 peer, limits of 2 folders and 1 retry, 2 changes, 1 refresh or fault | 1,964,310 states: `OrganizerTypeOK`, `QuietCopiesAgree`, `ItemsSurvive`, `SavedMeansStored`, and under fairness `WritesSettle` |
| `franking` | 1 report, both parties and 3 more in the roster, cap of 2 viewers, 2 requests at a time | 117,469 states: `FrankingTypeOK`, `ExclusiveViewers`, `ViewersBounded`, `AuditTellsViewers`, `ClosedIsFinal` |
| `coordinator_profile_write` | violation | a profile write makes the coordinator drop R2 |
| `coordinator_stale_shadow` | violation | three storage failures bring a signed-out session back |

*Why the bounds are enough to be interesting.* Two handlers are what every race on one row needs
(the third would wait for the same lock). Three tokens give two rotations, so a spent token, a twice
spent one and a grant being overwritten all occur. The grace ends before the lifetime and both end
before the clock does. On the client two rotations let it trail the server by two if it could; two
storage failures are a write that went wrong and a second call that hides it; the third makes the
difference the last run shows. Two logins give an old and a new family.

`account_recovery` lets each behaviour draw one mix of clients: registering, resetting, changing
passwords, two-factor, moving an address, showing a reset's code to the confirmation of an address,
or one of the four key mixes (writing, retrying, recovering, pairing devices), with the number of requests each (3 to 6) that lets every handler of
the mix be overtaken by a whole other flow; and one reset together with a backup write, for the call
between the two sides. The requests of a mix are those that touch the same rows. All mixes at once
would multiply state spaces that have no table in common; one mix per behaviour adds them. Two codes
give a superseded and a superseding one; two attempts are a miss and an exhaustion in parallel; two
passwords make an old and a new one and room for a second change. Codes, handlers, workers and
secrets are interchangeable and no liveness is checked, so the symmetry is sound.

`organizer` starts with both devices refreshing and no blob, so both migrate and their seeds race.
Two changes are two devices writing at once, or one device with a queue, over that race; one retry
instead of three lets a write be beaten for good by the two writes there can be, which three could
not; the one disturbance is a refresh inside a write, a lost PUT that may arrive later, a failed
read, a missing overlay or a restart. More of them at once is left to the proofs, which hold for any
number.

`franking` needs one request that is late and one that overtakes it, any number of times: a handler
is free again when its request ends, so a single late forward can be overtaken by a release, a claim
and a close. With a cap of two and three reviewers the cap can be passed by one and by two. Both
parties are in the roster, so that they are refused for being parties. Reviewers and handlers are
interchangeable and there is no liveness in this run.

*Fairness.* The steps of a handler are weakly fair: a task that can run is polled, and its database
calls return. `Lock` is strongly fair because PostgreSQL queues the waiters of a row. Nothing is
assumed of clients, the operator, the cleanup job or the clock. On the client, the steps of an
attempt and queued store operations are weakly fair, a fetch ends (the platform's own timeout), and
`Start` is weakly fair only while a commit is pending, since `ensureFreshAccessToken` starts a
refresh in exactly that case before each request. `VolatileSessionSettles` therefore says: while
the app is in use and once storage failures cease. The account, key and report modules state no fairness:
a request there may die at any await, and what they promise is safety. In the organizer a device's
write goes on as long as it is open: promises that can be settled are, and a request ends, by its
answer or by failing. Users, refreshes and late arrivals owe nothing.

*What the properties excuse.* `OldSessionsEnd` excuses the session a password change is made from,
a login that checked the old password before it was replaced and inserted its row after, and a
write whose revocation failed. `LockoutOutrunAtMost` allows one wrong answer more for each other
login under way. `TotpProven` excuses an enable under which the secret was swapped, since the
UPDATE of `enable_two_factor` names no secret. `RetiredCodesAreDead` excuses a code a request already
had in hand when the new reset start looked, and speaks of passwords only: `confirm_email_change`
does not ask what a code was made for (`security.rs:133`), so a withdrawn code whose cancel failed can
still move the account to the address it was mailed to. `RevocationOutlivesLaterApprovals` and
`NoEnvelopeAfterRevoke` excuse an approval that was under way when the device was revoked:
`activate_device` revives it. `ItemsSurvive` excuses the members of a folder whose `createFolder` is on
its way, since applying that again replaces the folder, and what a device has undone.
`QuietCopiesAgree` excuses a device that has undone a change or was restarted until it next takes the
server's copy: `revertIntent` changes the copy under the revision it has. `ViewersBounded` excuses a report claimed on an outdated
wrap (`StartClaim`): it can be `claimed` without its claimer's wrap, and his late wrap, which is not
counted, may then be one viewer above the cap, where `documents/fscp/franking.md:162` and `:168` promise five
and a claimer with a wrap. Each excuse is a behaviour the runs reach; without it the property
fails.

Each property of a passing run has a mutant in `PROJECT.json`: a plausible slip in a modelled
definition under which the same run finds the property violated.

## Findings

1. **The cleanup job can delete a grant inside its grace** (`auth_cleanup_race`,
   `repo.rs:602`). The statement picks expired ids and deletes by id; a rotation between the two
   replaces the expired grant by a fresh one, which goes. A client that lost that rotation's answer
   is refused. `GraceHonoured` is proved for every family this has not happened to.
2. **The grace does not cover raw tokens** (`auth_raw_token`, `refresh.rs:278`). A token from before
   HMAC binding is found by the hash of the *current* token only, so its retry finds no session,
   although a replay row for it exists.
3. **A profile write makes the client drop R2** (`coordinator_profile_write`,
   `sessionCoordinator.ts:278`). The revision it advances looks like another session to the pending
   commit. After the grace the spent R1 revokes the family.
4. **A pending copy can outlive a logout** (`coordinator_stale_shadow`, `session.ts:387`). Equal
   revisions count as newer. It takes three SecureStore failures, with two `SignOutSticks` holds.
5. **A repeated backup write is accepted** (`e2e_put_retry`, `flora-messaging` `e2e.rs:109`).
   `documents/fscp/e2e-security.md:531` says the retry of a lost PUT gets 409 for its stale revision;
   `put_key_backup` compares no revisions, so the later of two writers with the same revision wins.

## What is proved

Every theorem holds for all values of the constants, from the named assumptions of the modules
and nothing else.

**Session refresh**: any number of sessions, handlers and tokens, any grace and lifetime. Assumed:
absent values are no values; raw tokens differ from each other; grace and lifetime are positive.

- `Invariance`: `IInv` is inductive. The state invariants are not inductive by themselves, since
  what a handler carries across an await has to be related to rows that others change. `IInv` adds:
  `ChainInv` (the row holds the last token of the chain, `rotation` is its length minus one, an
  unborn family has no grant), `TokensDistinct` (a token occurs once in all chains),
  `LockInv` (a row lock and a handler in `locked` name each other), `HandlerInv` (a presented token
  is committed; a prefetched `rotation` is at least the one the token was committed under and not
  ahead of the row's, so it equals the row's if the token is still current), `SuccessorInv` (a sealed successor is in no chain and in no other handler).
  The proof has one step per action and one under it per conjunct the action can disturb.
- `TypeCorrect`, `PrefetchStaysValid`, `GrantAlwaysMatchesRow`: `TypeOK`, `PrefetchStillValid` and
  `GrantMatchesRow` follow from `IInv`. The second shows that the "concurrency anomaly" branch of
  `rotate_or_replay` is dead code.
- `OnlyCurrentTokensAreGranted`, `GraceIsHonoured`: the action properties `AnswersAreCurrent` and
  `GraceHonoured`. Only `Settle`, `Lock`, `Prefetch` and `Fail` answer; the argument is a case
  analysis of the decision under `IInv`.
- `ServerImplementsTokenFamily`: initial states map to initial states and every step to a step of
  `TokenFamily` or a stutter; only `Rotate` needs the invariant, for the barrier (a rotation inside
  the grace of the last one would find a fresh grant and replay it).

**The client coordinator**: any number of logins, rotations, process deaths and lost, late or repeated
POSTs, any grace and bounds. Assumed: absent values are no values, and `FamilyAssumption` (a token is
a family and a place in its chain, and every family has its first).

- `CoordinatorTypeCorrect`: `TypeOK`, whatever SecureStore does. What it adds to the types is what an
  attempt or a login must hold by the step it stands at (a token once it has posted one, a mutation
  while it commits, a family while it saves).
- `NewestLoginStays`, `SignOutLasts`, `ClientLagsByOne`, `OnlyServerSignsOut`,
  `StoredTokenNeverRegresses`: `NewestLoginWins`, `SignOutSticks`, `LagAtMostOne`,
  `SignOutIsJustified` and `EffectiveNeverRegresses` if `MaxFaults <= 2`: whichever two calls of
  SecureStore fail, in any step, across any number of process deaths. The invariant `IInv`
  says how the copies of a session scattered over store, pending commit, attempt, network and server
  stand to each other.
  - *Store* (`StoreShape`): a shadow costs a failure, so one at most is left to hide or keep it; it is
    the canonical record's successor, or, once both are spent, a copy of it that could not be deleted.
    The argument is a budget: every leaf about a read or a write counts what it has left. `Stored` are
    the two records a disk stands for, `Seen` those a read may still return.
  - *Tokens*: one in hand is of an opened family, not past the server's nor past the store's of that
    family (`Held`), and not of the login about to be saved; either stored record is one behind the server
    at most and of the newest saved login or a later one (`StoreInv`); a grant's replacement is the family's
    current token (`FamilyInv`); an answer carries the presented token or its successor (`Follows`),
    and a refusal means the family has ended.
  - *What makes the compare-and-swap right*: if a record that may still be read has the revision the
    attempt or the pending commit started from, it is that record (`Earlier`); until the attempt is
    superseded nobody else has put a session in (`OneSession`) or, but for a logout, taken it out
    (`Lasts`). A pending commit carries the same three (`PendingInv`), which is what lets a read that
    settles it by comparison forget it, and a login finds none pending.
  - The two action properties follow from `EffectiveMoves`: an attempt or a read leaves the effective
    token alone, forgets a commit that was applied or passed by, or makes its own take effect.
- The bound is tight: with three storage failures TLC finds `SignOutSticks` (finding 4),
  `NewestLoginWins` and `LagAtMostOne` violated; the two action properties it does not refute on the
  same instances, and nothing is proved of them there. `Overtaken`, the exception in
  `EffectiveNeverRegresses`, needs a failure and is what finding 3 is about.

**Accounts**: any number of handlers, codes, accounts and secrets, any limits and any mix of clients.
Assumed: `NobodyAssumption`, `NoCodeAssumption` and `NoLogAssumption` (what stands for nothing is no
address, account, code or row), `AccountMixAssumption` (the clients ask for what there is) and, for
the last two theorems, `FiniteAssumption` (a server serves finitely many requests at a time and
starts with finitely many accounts).

- `OneEffect`: `OneEffectPerCode`. By itself it is not inductive: that nobody else will use a code
  again follows from where the code is. The lemma `JourneyInvariance` adds `HandlerShape` (what a
  handler has still to do is orderly: it spends a code once and takes it before that) and `CodeInv`:
  a code not yet taken has no grant, no holder and no effect; a grant has no holder; there is one
  holder at most; and a code past the first place was taken with attempts to spare.
- `WithinAttempts`: `AttemptsRespected`, from the last part of `CodeInv`; nothing counts up a row that is
  gone.
- `SecretsStayGone`, `FactorProven`: `SecretsNeverReturn` and `TotpProven`. Every step leaves an
  account's secret and flag alone, or ends them with no secret or a new one, or turns the flag on
  over the secret there is, which is then proven or marked as changed under the enable.
- `RetiredCodesStayDead`: `RetiredCodesAreDead`. `RetireInv` follows a code from the select of the start
  that outdates it: while it is doomed no request has it in hand and, past the delete of the pending
  rows, it has none (`DoomInv`); once the grants are dropped it has no pending row and no grant, and
  who shows it either asks for one of the two first or has nothing ahead that sets a password or
  enters the code again (`DeadInv`).
- `OldSessionsAreEnded`: `OldSessionsEnd`. The revocation is a debt: the handler that writes the password
  has it until its revocation, and a step that ends that handler earlier writes the account down as
  unrevoked (`DebtsStand`). That needs to know which scripts revoke and that their owner stays the same
  from the password on (`SetterShape`), and that a session is never of an account still to be made
  (`SessionShape`).

- `AccountTypes`: `AccountTypeOK`. That a row is written with what a row may hold depends on what the
  handler that writes it has read, so the types are inductive only together with where the handlers
  stand. `Courses` says that each follows its script (an await occurs only in the scripts that have
  it; a code is issued before its pending row is inserted, an account opened before its first
  session), `HandlersInformed` what it knows by then: a login past its first await has an account
  that was there and the row it read, a reset that verifies past its lookup a code of a reset, an
  enable past its read a secret. `CodesOwned` adds that a code which resets a password has an owner
  and only such a code becomes a grant. That a fresh session id exists is counted: sessions and
  handlers are finitely many and each uses one.
- `LockoutOutrunBounded`: `LockoutOutrunAtMost`, if `MaxFailures > 1`. `LockoutInv` counts where the
  wrong answers are: until the lock each is in the security row, which is short of the limit, or at
  a handler about to write it down (`Failing`), of which there are no more than handlers. With a
  limit of one the bound is off by one, since the first failure of an account that has no row inserts
  it and locks nothing (`repo.rs:697`); the code's limit is five (`login.rs:18`).

**End-to-end keys**: any number of workers, epochs, devices and keys and any tables to begin with.
Assumed: `E2eMixAssumption` and `AbsenceAssumption`.

- `E2eInvariance`: `E2eInv` is inductive. Beside the types it has `RowsInv` (a device row has an epoch
  whose identity is stored, an envelope a source), `WorkerShape` (a worker stands in its script),
  `GoneInv` (a device that was revoked when a worker's request came in still is, or has been revived),
  `StageInv` (what a worker has made sure of by the await it stands at) and `EffectInv`: an idempotency
  key that had its effect has left a trace - the new epoch's identity, or the challenge used - that
  refuses the second copy.
- `E2eTypeCorrect`, `OneEffectOfRetries`, `EnvelopesStop`: the three invariants.
- `E2eStepsKeepTheirPromises`: `FrozenWhileLocked`, `IdentityStable`, `LockSparesRecovery` and
  `RevocationOutlivesLaterApprovals`.

**The composition**

- `AccountsInWhole`: `RecoverySpec => AccountSpec`, so every theorem about accounts holds of the whole;
  `OneEffectInWhole` is the one listed of them. The key side has a step the part alone has not (the lock in
  the name of the user), so `E2eStepsInWhole` and its siblings redo the induction with that one step.
- `ResetClosesKeys`: `ResetCloses`. The argument is that a debt moves from the handler to the worker
  of its hook and that worker cannot pass its last await without the state having been closed.

**The organizer**: any number of devices, folders, peers, retries, changes and faults. Assumed:
`ItemAssumption`, `OverlayAssumption`, `RetriesAssumption`, `MarksAssumption` and `BudgetAssumption`.

- `OrganizerInvariance`: `IInv` is inductive. That a write loses nothing is a fact about what is on its
  way: `IInv` adds that whatever may still be stored - a write at work, a late PUT - lacks nothing
  of the content of the revision it is based on but what was dropped or its own `createFolder`
  replaces, and that it has its own change; that a folder id found anywhere was drawn, so that a new
  folder replaces nothing; and that a device which owes no change, and has taken none back, holds
  the server's content of its revision.
- `OrganizerTypeCorrect`, `QuietCopiesAreTheServers`: the two invariants; `NoDeviceGetsAhead`: a device's
  revision is one the server has given out (`RevisionsAreServed`, which is proved only).
- `StoredItemsSurvive`, `ConfirmedMeansStored`: `ItemsSurvive` and `SavedMeansStored`. Only `Put` and `Arrives`
  store anything, and only on top of the revision they are based on.

**The franking report**: any roster, number of handlers and cap. Assumed: `FrankingAssumption` (the
persons are finitely many, `Nobody` is none of them, the parties are two of them, the cap is positive).

- `FrankingInvariance`: `IInv` is inductive. `RequestOK` says what the read of a request has
  established and its transaction does not ask again (a claim that saw no wrap finds none in an open
  report; a request that has applied its block has blocked); `StatusTellsWraps` what the status says
  about the claimer's wrap; `CapOK` counts the viewers, without the claimer where his claim was
  decided on an outdated wrap.
- `ReportTypeCorrect`, `ClaimIsExclusive`, `CapIsKept`, `AuditIsTrue`: the four invariants.
  `BlockBeforeClosing`: `SanctionStands`, that no report closed with a sanction lacks the block,
  which is proved only. `VerdictsAreFinal`: `ClosedIsFinal`; every transaction but `Fetch` and
  `InsertWraps`, which refuse a closed report, asks for a live or an open one.

Only model-checked: the three liveness properties (and `ENABLED` behind them) and the account side
under a limit of one failure. Of `SessionCoordinator` with three storage failures and more only
`TypeOK` is claimed, and finding 4 against the rest.

## Not modelled

Of the modelled components: the legacy refresh mode (no replay key ring) and the rollout between the
two; the migration of legacy mobile keys and corrupt records; the overlay behind the store's
`getAccessToken`; retries of resource requests in `authFetch`; phone numbers, the profile provisioner,
the decoy answer to a reset of an unknown address and the limiter in front of it (they touch no
state told apart here); the cursor and paging of the sealing job; the data of the recovery backup,
legacy public keys, requests that carry several epochs, and the states `Rotating` and `Frozen`, which
no code sets. Of the organizer: archives, their mirror in flora-messaging and the pruning of groups (a
second protocol over the same blob), labels, icons and order, a change of user or of keys, and the
branches for a blob that has disappeared, which no server code deletes. Four of its behaviours the
model shows and no property forbids, because nothing in the repository promises otherwise: a write
that persists after a refresh puts a device back to the older revision until the next refresh; a
refresh answered before a write is saved is refused as a rollback and shows an error; undoing a
change whose PUT did arrive, and writing after that, also undoes the same change by another device;
and what only the loser of a migration race had in its cache, the overlay included, is not moved.

Of the franking reports: changes of the roster (operator scripts), the 503 while it is not loaded,
the daily quota, the queue's paging and shape, deletion of the message and its cascade, receipts and
their signatures. The audit listing sorts by a time taken before the lock, so it may show another
order than the commits that `AuditTellsViewers` speaks of; and a block applied by a request that then fails
stands, although the report is open and may be rejected later.

Whole components are left out with the reason in `PROJECT.json`. Most of the repository is user
interface, SQL queries, content and codecs: the modelled part is small against it because the
ordering of steps decides little elsewhere.

## Plan

In order of what a mistake would cost:

1. `WebSession`: cookie, tabs, lock and proxy around the same coordinator; then the legacy mode and
   the rollout, with `TokenFamily` weakened accordingly.
2. `MutualCredit` and `Ledger` of FEP: conservation and replay protection, proved.
3. The organizer's archives with their mirror, presence and the signals stream.

Each gets instances of two actors and two objects, with the bounds on time and attempts just past
the limits the code compares with.
