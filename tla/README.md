# Verixa: TLA+ models, checks and proofs

Verixa is an identity platform in TypeScript: a Fastify API (`apps/api`) over a set of
packages that each follow the same layers (domain entities, application use cases,
infrastructure adapters), PostgreSQL through Prisma, Redis for counters, caches and the
token deny-list, and an optional anchor on the Stellar ledger. The difficulty of the code is
not in any one function. It is in what happens between two `await`s: almost every use case
reads a row, checks the copy, and saves the whole row back, on several processes at once.
This project models that: one atomic step per statement that reaches a store, and every
process free to be anywhere between two of them.

## 1. The system

### Components

| Component | State it keeps | Operations that change it | Hard behaviour | What makes it correct |
|---|---|---|---|---|
| **audit log** (`packages/audit`) | the `audit_log` table: a hash chain, one row per sequence number; in each process the queue, timer and in-flight flag of `BatchedAuditWriter` | `RecordAuditEvent.execute`, `executeBatch`, `BatchedAuditWriter.record`, its interval, `drain`, `settle`, `stop` | appenders race for the head; commits that fail, or succeed and are not acknowledged; retries; shutdown | one unbroken, unforked, append-only chain; an answer "recorded" is true; accepted commands are written or reported; shutdown ends |
| **audit: anchoring, verification, reads** | `anchor_records`; the ledger's transactions; the cursor of a read | `AnchorAuditLog`, `VerifyAuditChain` and its command, `QueryAuditEvents`, `ExportAuditEvents`, `ApplyAuditRetentionPolicy` | an answer or an insert lost after the ledger accepted; a log that grows, or was edited, under a walk in batches | no receipt without its transaction; a verdict means what it says; pages are exact, and recorded before they are handed out |
| **stellar-anchor** | the funding account; the monitor's last alert and its note of a rejection | `check`, `beforeAnchor`, `reportUnderfundedRejection` | alerts deduplicated over several checks under way at once | a refusal, and an account that runs down, are heard of |
| **sessions** (`packages/sessions`) | tables of sessions and refresh tokens, the Redis deny-list | `IssueSession` (with eviction), `RefreshAccessToken` (rotation, reuse detection), `Logout`, `LogoutEverywhere` | rows written back from old copies; two redemptions of one token; a failure between a row and its deny-list entry | a logout is final; a refresh token has one successor; at most N sessions; revoked means no access |
| **credentials** (`packages/credentials`) | tables of password credentials (with history and lockout), reset links, verification links | registration, login (with lockout and hash upgrade), password change, request and confirm of both links, the deletion handler | stale whole-row saves, READ COMMITTED transactions, mails and revocations that fail after the commit | the last password set is the one that works; links are single use; history and lockout hold; a deleted user keeps nothing |
| **brute-force policy** (`packages/shared-kernel`) | attempt counters per key, in memory | `check`, `recordFailure`, `recordSuccess` | awaits between read and write | guesses per unit of time are bounded |
| **mfa** (`packages/mfa`) | factors with their lockout and last TOTP step, backup codes, WebAuthn credentials, login and ceremony challenges, step-up assertions | enrol, confirm, verify, consume, step up, register, assert, recover | one proof presented twice at once; a store that hands out its objects or copies; recovery beside a verification | every proof is good once; a recovery is final; a cloned authenticator is noticed |
| **authorization** (`packages/authorization`) | permissions, roles, assignments, policy versions; the Redis policy cache | the role and assignment use cases, the admin routes, publication, `AuthorizeAction`, the dry run | a role written back from a copy; a cached value stored after the change that outdates it; reads of assignments and roles apart | a check answers what the tables say; no decision from a stale entry; system roles stand; a green dry run checked something |
| **identity: users** (`packages/identity`) | the `users` table | register, activate, suspend, reactivate, edit profile | whole-row saves of one row by several use cases | status changes only along the status machine |
| **identity: organizations, invitations, API keys** | their tables | `CreateOrganization`, `InviteUserToOrganization`, an API key's life | two creations with one slug; a process that ends between two inserts | an organization has its owner as a member and its slug alone |
| **verification** (`packages/verification`) | verification requests with the reviewer's expiring claim and the decision | submit, automated checks, claim, approve, reject, request more information | claims that expire under a reviewer, `SKIP LOCKED` claiming, provider calls between read and save | one decision per request, by the reviewer who holds it |
| **API server** (`apps/api`) | idempotency records, rate-limit counters in Redis or in memory | the request hooks around a handler | two requests with one key at once; a counter without an expiry; answers and processes lost | one answer per key; a bounded rate that lets retries through; only live keys get in |
| notifications, config, database, shared-kernel values, composition root, stateless routes | none of their own, or external | - | - | - |

### How they interact

The use cases call each other only through ports. Credentials calls the `SessionRevoker`
port after a reset, the mailer after a link is issued, and the brute-force policy before and
after every guess; it loads and saves users through identity's repository. A login ends in
`IssueSession`, through `ConsumeMfaChallenge` when a factor is enrolled. Every request passes the
hooks of the API server before a handler runs a use case; guarded handlers ask the permission
checker or `AuthorizeAction`. Domain events become audit commands
in the audit subscribers, which call `RecordAuditEvent`. The anchor use case reads the head
of the audit log and writes to the ledger, guarded by the balance monitor. Processes share
PostgreSQL and Redis and nothing else: the batch queue, the brute-force counters, the in-memory
MFA store, the fallback rate counters and the balance monitor live in one process.

### What decides the behaviours

Three facts of the code shape every module.

* **A use case is not a transaction unless it opens one.** A `save` is an upsert of every
  column of an entity that was read some awaits earlier. The models keep the copy in the
  call's record and write it back as a whole.
* **A transaction is READ COMMITTED.** Every read in it sees what is committed by then; its
  writes become visible together when it commits; an UPDATE waits for a transaction that
  has updated the row. No code asks for a stronger isolation level.
* **What fails after a commit stays done.** Mails, revocations, deny-list entries, receipts and
  acknowledgements are separate steps that can each fail.

Most properties are therefore about what *remains* true. Where the read-check-write pattern gives way under
overlap, the property says so in its statement (`alone`, `raced`, `excused`, `overlaps = 0`), and
the observations in section 3 say what happens otherwise.

## 2. Modules

### Audit log

| Module | Models | Code |
|---|---|---|
| `AuditChain` | hashing, linking, `validateBatch`, the verifier's pass, as operators | `domain/entities/audit-log-entry.ts`, `application/use-cases/verify-audit-chain.ts` |
| `AuditLog` | the table, `findLatest`, the head comparison of an append, the unique index | `infrastructure/persistence/prisma-audit-repositories.ts` |
| `RecordAuditEvent` | direct recorders: `execute` with its retries, `executeBatch` without | `application/use-cases/record-audit-event.ts` |
| `BatchedAuditWriter` | queue, interval, flush, drain, retries, `settle`, `stop` | `infrastructure/persistence/batched-audit-writer.ts` |
| `AuditSystem` | the composition and the properties | |
| `AuditTrail` | the abstract specification: a log that only grows at its end | |
| `AuditSystem_proof` | the theorems | |

A hash is the sequence of everything digested into it, so two hashes are equal exactly when
what they cover is: the model assumes SHA-256 has no collisions. The comparison of the head
takes no lock, so it is a step apart from the insert; the unique index on the sequence
number decides the race. `faults` counts errors of the database; one of them is a commit that
succeeds without an acknowledgement. A crash is a process that takes no more steps. `stop()`
is called at most once per writer, as `dispose` does.

### Audit evidence and the funding account

| Module | Models | Code |
|---|---|---|
| `BalanceMonitor` | classification of a reading, deduplicated alerts, rejections | `stellar-anchor/infrastructure/balance-monitor.ts` |
| `AuditEvidence` | anchoring, verification, paged reads, over a log that grows | `audit/application/use-cases/{anchor-audit-log,verify-audit-chain,query-audit-events,export-audit-events,apply-audit-retention-policy}.ts`, `stellar-anchor/infrastructure/stellar/*`, the verify-chain command |
| `MCAuditEvidence` | the values of its constants for TLC | |
| `AuditEvidence_proof` | the theorems | |

How an entry gets into the log is `AuditSystem`'s subject; here an append is one step, and `Rewrite` is
somebody with access to the table, who may digest the rest of the chain anew. A transaction of the
ledger is its memo, and a reference its position. A submission can be refused, lost before or after
it was accepted, and its receipt can fail to be inserted; `Crash` may come anywhere. A check of the monitor
is the reading and then everything up to the call of the alerter, which is one step of JavaScript; the
interval's check, the guard's and the report of a rejection interleave. The composition root passes no guard
to the adapter today, so anchoring is modelled both ways (`guarded`). `Workloads` says what goes on in one behaviour:
anchoring and the monitor, anchoring and verification and edits, or reads. The three share the log but not each
other's state, and one behaviour with all of them would only multiply their interleavings.

### Sessions

| Module | Models | Code |
|---|---|---|
| `SessionStore` | the two tables, the deny-list with its expiry, `isActiveAt`, `isUsableAt` | `domain/entities/*`, `infrastructure/persistence/*`, `infrastructure/redis-revocation-list.ts` |
| `Sessions` | the four use cases, each process in one call at a time | `application/use-cases/*` |
| `Sessions_proof` | the theorems | |

Each action is one await: `ListForEviction`, `Evict`, `DenyEvicted`, `SaveSession`,
`SaveFirstToken`, `SignAndReturn` are `IssueSession`; `FindToken` to `SaveTouched` (or
`RevokeReused`, `DenyReused`) are `RefreshAccessToken`; and so on. `Fails(p)` lets the
statement a call is at fail, which ends the call and leaves what it did before. A refresh
token's secret is abstract: a client can present a token only if it was handed to it.
`isRevoked` failing closed when Redis is down is not modelled.
A logout may be given the time until which its session is to be denied (`revokeUntil`), which the command's comment says is
normally the end of the access token the caller holds: here, of any access token returned for the session that still lives
(`bearers`); without one the entry lasts `RevocationWindow`.
`Idle.alone` is history: it says that no other call of the same user overlapped this one so
far. `final` collects the sessions ended by calls that were alone throughout, `superseded` those a logout of which was given
the end of an access token that was not the last one signed, and `earned` counts how many more sessions a login in its
eviction loop has reason to evict.

### Credentials, users, brute-force policy

| Module | Models | Code |
|---|---|---|
| `LockoutPolicy` | the backoff shared by the lockouts of passwords, factors and addresses | `credentials/domain/value-objects/lockout-policy.ts` |
| `BruteForcePolicy` | the attempt store and the lock it computes | `shared-kernel/application/services/brute-force-policy.ts`, `shared-kernel/infrastructure/in-memory-brute-force-attempt-store.ts` |
| `CredentialStore` | users, credentials, links; the entities' transitions | `credentials/domain/entities/*`, `identity/domain/entities/user.ts`, the Prisma repositories |
| `Credentials` | the use cases | `credentials/application/use-cases/*`, `identity/application/use-cases/*` |
| `MCCredentials` | the replicas and the symmetry set for TLC | |
| `Credentials_proof` | the theorems | |

A stored hash is the password it was made from and whether it was made with the current
parameters (`strong`). `Replicas` are the processes of the server and `Home` says which of them serves a request (`Procs`); `Upgraded` are the
replicas deployed with raised parameters, so a rolling deployment is part of the model. Every replica has an attempt store in its own memory
(`in-memory-brute-force-attempt-store.ts:9-11`, `composition-root.ts:352-354`), so that an address without an account has a round of guesses
on each of them, as `brute-force-protection.md:121-122` says; rows count for all. A replica that restarts forgets its counts and is a replica of its own here. `RowFree` is the row lock of an UPDATE on a link.
A link is what a mail carries: it can be redeemed once it was mailed, whether or not the
request that issued it has returned. An unknown raw token behaves like a used one and adds
nothing. The sessions of a user are reduced to `signedIn`, the passwords that opened the
live ones; `SessionRevoker` is modelled as what its port promises, although the composition
root wires `NoSessionsRevoker` today. The composition root also wires a rate limiter that allows
everything, which is therefore left out. Nothing in the repository deletes users yet: deletion itself
is external, `HandleUserDeleted` is what follows it. The decision whether a login needs a
second factor shapes only the answer.
The history variables are `chosen` (the password of the last change that ran alone), `erased`
(users whose deletion was handled by a call that ran alone), `guesses` and `tried` (failed attempts since the
last success: of a user, on the credential row; of a key, in the store of a replica), and `overlaps`, which also bounds the run.

### Second factors

| Module | Models | Code |
|---|---|---|
| `MfaStore` | `MfaMethod` and its transitions, WebAuthn credentials, challenges, the two kinds of repository, the enforcement policy | `mfa/domain/*`, `mfa/infrastructure/*` |
| `Mfa` | the use cases on several processes | `mfa/application/use-cases/*` |
| `MCMfa` | the symmetry set for TLC | |
| `Mfa_proof` | the theorem | |

The kind of store is a variable fixed from the start, because it decides the outcome of every race. The
in-memory repository, which the composition root wires, hands out the stored object itself: a change is
visible to every holder at once, even after a delete (`Current`). The Prisma one hands out copies, and its
table has no columns for lockout and replay state, so `ToDomain` starts them afresh on every load. Time is counted
in TOTP steps; a code is named by its step, a backup code by its set and place. Attestations, signatures and
the arithmetic of TOTP are yes or no. `spent` are the proofs whose use has to be their last, `twice` those that were
accepted again, `cleared` the methods a recovery that overlapped nothing removed.

### Authorization

| Module | Models | Code |
|---|---|---|
| `Rbac` | roles, the permission catalog, assignments; the three matchers of wildcards | `authorization/domain/entities/*`, `authorization/infrastructure/persistence/*`, `authorization/infrastructure/prisma-authorization-repository.ts` |
| `PolicyEngine` | conditions, rules, combining algorithms, the composition with the role layer | `authorization/domain/services/*`, `authorization/domain/value-objects/*` |
| `PolicyLinter` | the linter of policy sets | `authorization/application/services/policy-linter.ts` |
| `PolicyCache` | the append-only versions, the generation-keyed cache | `authorization/infrastructure/cache/redis-policy-cache.ts`, the policy repository |
| `Authorization` | use cases, admin routes, checker and guards, publication, `AuthorizeAction`, the dry run | `authorization/application/*`, `authorization/interface/*`, `authorization/infrastructure/{cli,seed}/*` |
| `Authorization_proof` | the theorems | |
| `MCAuthorization` | keys, rules, contexts, fixture files; the linter against its meaning | |

A permission is a pair `<<resource, action>>`, an attribute's value `<<type, content>>`. The checker reads the
assignments and then each role, so a call remembers what the user held in between (`held`, `always`, `writes`); those
fields are history. A cache entry carries the generations in its key; `late` marks one that was filed after a
change to what it was computed from. No decision point that uses the cache is wired yet: `AuthorizeAction` with its providers is modelled,
and the decision point between it and the cache is external. `Conditions` is the set of condition
trees, closed under parts; `EvaluateCondition` is a recursive function on it. Only the linter, which is checked by evaluation, has a recursive
operator, hence its own module.

### Verification

| Module | Models | Code |
|---|---|---|
| `VerificationRequest` | the aggregate as operators: the status machine, the claim, the permitted moves, what `reconstitute` insists on | `domain/entities/verification-request.ts`, `domain/entities/review-assignment.ts`, `domain/value-objects/verification-status.ts` |
| `Verification` | the use cases on several processes, the table, the claim's transaction | `application/use-cases/*`, `infrastructure/persistence/prisma-verification-request-repository.ts` |
| `Verification_proof` | the theorems | |

A decision, an automated check or a step of the evidence flow is `FindAndMove` (the read and the
aggregate's answer, at the time of the call) or `Refuse`, then `Save` of the whole row from the copy.
Whatever the provider says, an automated check only ever asks for `in_review`, so the answers are left
out and only the time they take is kept: it lies between the two steps. `ClaimHolds`, `ClaimSelect`
and `ClaimCommit` are the three statements of `claimNextInReview`; between the last two the row is
locked, other claims skip it and a save of it waits (`RowFree`). The update's values are reckoned from
the time the claim was called. The use cases that are to call `submit()` and `reopenForEvidence()` do not
exist yet; they are taken to find and save like the others. `ListReviewQueue` only reads.
Two history variables record what the claim cannot guard against: `raced` holds the requests for
which two calls of the same reviewer, or two calls no reviewer made, overlapped, and those on which a decision
landed after its claim had lapsed; `stacked` holds the reviewers who were in two claims at once.

### API server and organizations

| Module | Models | Code |
|---|---|---|
| `RequestGuards` | rate counters in Redis and in memory, API keys, idempotency records | `apps/api/src/plugins/{rate-limit,api-key-auth,idempotency}.ts`, `identity/domain/entities/api-key.ts` |
| `Organizations` | organizations, memberships, invitations, the transaction of a creation | `identity/application/use-cases/{create-organization,invite-user-to-organization}.ts` and the repositories |
| `ApiServer` | a request on its way through the hooks; the composition | `apps/api/src/plugins/*`, `apps/api/src/routes/auth.ts`, `apps/api/src/http/error-response.ts` |
| `MCApiServer` | requests and workloads for TLC | |
| `ApiServer_proof` | the theorem | |

A request names its route, caller, idempotency key and body; its handler creates a subject or finds it there. A
window or a record ends when its time is up, which is a step of its own, and a count beyond the limit is
kept as one beyond the limit. The transaction of `INCR` and `PTTL` is one step and `PEXPIRE` another: the process may end in
between. `buildApp` registers none of the three hooks today; they are modelled as the hooks their plugins add,
with the rate limit before the API key. A request whose caller is `Anonymous` has no key header and goes on as nobody's where `workload.optional`
says that `apiKeyAuth` is registered with `optional`, and is a 401 elsewhere. A caller without a row when the request arrives presents a key that was never
issued (`presented`), which no key created later can be, since keys are random.

## 3. What the runs check

Every run bounds its calls, so that a behaviour ends when the bound is used up: the
configurations therefore say `CHECK_DEADLOCK FALSE`. The system itself never stops, and what
must eventually happen is stated as a temporal property where it is asked. The type invariants are
not checked in runs of their own; `TypeCorrect` and the shape invariants of the proofs state them.

### Runs that pass

**`audit_log`** (`AuditSystem.cfg`). One recorder and one batched writer, two calls and three
accepted commands, a queue and batches of two, two attempts of each kind, one fault.
That is enough for the writer to lose the head to the recorder and the reverse, to
use up its retries, to refuse at the ceiling, to be stopped with a batch in flight, and to
repeat a commit whose answer was lost.
 * `ChainIntact`: every stored entry has a valid hash and follows a stored
   predecessor or genesis, though the head comparison takes no lock.
 * `NothingLostSilently`, `AnswersAreTrue`, `NoDuplicates`, `QueueOrderKept`: an accepted command
   is waiting, stored or reported; what callers are told is true; only a commit without an
   answer can be repeated; a writer's order survives batches, retries and competitors.
 * `RefinesTrail`: the table refines `AuditTrail`, with the trail as the contents in order of
   sequence number: every step appends a whole burst at the end or changes nothing.
 * `QueueDrains`: while the interval runs every accepted command leaves the queue. `StopReturns`: `settle`
   ends though batches fail. The fairness is weak fairness of each writer's interval and of its statements, which
   resolve or reject. What follows a flush's last statement (the splice, the `finally` that clears `flushing`, `settle` going on) is
   microtasks and so one step with its answer; a flush of an empty queue changes nothing. Recorders and faults get no fairness,
   and nobody is obliged to call `record` or `stop`.

**`evidence`** (`AuditEvidence.cfg`). Two processes, two calls, a log of three entries, three transactions,
one failure, one top-up, one edit, an account that starts at the alert threshold and can pay one fee. So two anchor calls can
race, the second finds the account short, a receipt can be lost and made again, and a walk in batches of one or two
passes a log that grows or was edited, with its digests derived again or not.
 * `NoFalseProof`: whatever is lost, every receipt names a transaction that carries its hash, and no two name the same one.
 * `VerificationIsSound`: no break is reported in a log nobody changed, and a receipt that matches vouches
   for every entry walked up to it. Excused is a window that begins beyond the end of the log.
 * `ReadsAreExact`: pages hand out the matching entries in order and once, the ones the reading itself records
   included, and never a page that no earlier entry records.
 * `RefusalIsLoud`: a guard that declines leaves the operator with a problem as the last news. Excused is a monitor whose
   alert was lost in delivery, or whose account recovered while a rejection was being reported (`muted`).
 * `DrainIsHeard`: an account that runs down and stays down is heard of, under weak fairness of the interval of the
   monitor, `setInterval` in a process that lives: it reads, and judges what it read. Nothing obliges anyone to anchor.

**`sessions`** (`Sessions.cfg`). Two users, calls one after another (one process), five calls,
a statement that may fail anywhere, time enough for every lifetime to pass.
`AtMostMaxConcurrent`, `RotationIsAChain`, `RevokedIsDenied` and `RevokedAtIsKept` are what the
comments promise of each use case; here they hold across sequences of calls, expiries and
partial failures. `RevokedIsDenied` leaves out behaviours with a failure, since a failing
deny-list write after a revoked row leaves an accepted token until it expires (hazards).

**`sessions_concurrent`** (`Sessions_concurrent.cfg`). Two processes, one user, four calls.
`RevocationIsFinal` is what remains true under overlap: a logout that overlapped nothing
stays in force whatever overlaps after it: the row stays revoked, and no access token of the session is accepted, but for
`superseded` sessions. `EvictionsAreEarned` is about the eviction loop: a login evicts no more sessions
than its user had when it arrived and were opened, or brought back by a refresh, since then. That the loop ends is not claimed,
and not true of the code: a refresh that reads the session before it is evicted and touches it after brings it back, and a
client that repeats this in step with the loop keeps it going as long as it does so.

**`credentials`** (`Credentials.cfg`). One user, three passwords, two replicas with a request slot each, the second
with raised hashing parameters, three calls of which two may overlap, one
failure of a statement, a mail or a revocation. Passwords are interchangeable, and symmetry is used.
The user may be registered from the start, with or without a password, so three calls suffice for:
request, redeem, redeem again; two changes and a return to the first password; failures up
to the threshold, the lock, its elapse; a deletion with a login or a redemption beside or after it.
 * `ChangeIsFinal`, `ResetSignsOut`, `DeletionIsFinal`: a call that ran alone holds against everything
   that begins later, overlapping or not.
 * `LinksAreSingle`: a redemption that begins after its link was used or retired never reaches the credential,
   and as long as no two calls of a user overlap only the latest link of a purpose is good.
 * `NoReuse`, `GuessesAreRationed`: hold as long as no two calls of a user
   overlap, which is part of each statement. Under overlap each of them fails by the
   read-check-write pattern; see the hazards. `GuessesAreRationed` is over all replicas for a user whose row
   counts the failures, and per replica for the addresses and links the policy counts.

Two requests are enough for each of the stale writes, since every one of them is between two
calls; the third is the one that notices, and comes to one replica while the other still counts apart. Time stops at 2 because the lifetime of a link
and the shortest lock are one tick.

**`mfa`** (`Mfa.cfg`). Two users, two processes, three calls, one failure, one device, two backup codes to a set, a
user with all three kinds of factor from the start or none, either kind of store; a challenge lives one tick. Three calls are a use, a
second use beside or after it, and the recovery or generation of a new set between them.
 * `ProofsAreSingleUse`: TOTP steps (while the store keeps the last step) and ceremony challenges are good once however calls
   overlap; a backup code or a login challenge is, once used by a call that overlapped no other of its user.
 * `RecoveryIsFinal`: a recovery that overlapped nothing removes every factor, pending ones included, no later call saves one
   back, and a policy that requires a factor then blocks the login.
 * `CounterNeverFalls`: the signature counter of a device that keeps its owner falls only in an overlap of two calls of one user, so that a clone is noticed.

**`authorization`** (`Authorization.cfg`). An administrator and a user in one organization, three role names, four permissions with
wildcards, one policy with two rule lists, two processes in at most two calls of any kind, one failure, one expiry. Every hazard here is between a
read and one write, so two calls show it; processes are interchangeable.
 * `CheckIsExact`: a guard allows only what the user held at some moment of the check, and always what the user held throughout,
   although assignments and roles are read apart.
 * `DecisionIsCurrent`: a decision during which nothing changed is the one the tables give now, by role and by policy, through
   an entry some other process filed; a check that could not be made answers DENY. Excused are entries filed `late` and
   invalidations that did not reach Redis.
 * `SystemRolesStand`: no step deletes a system role, makes it ordinary or takes a permission from it, except a write that
   decided on a version of the role changed since.
 * `GreenMeansGreen`: a dry run exits 0 only if it checked something and every fixture names the effect of a version current during the run.

 `MCAuthorization` also assumes `LinterIsSound`, which TLC evaluates over every list of two rules of a small language: without a
 conflict the three combining algorithms agree on every context, and a shadowed rule never decides under first-applicable.

**`verification`** (`Verification.cfg`). Two reviewers, two requests, two processes, four calls, one failing
statement, and a lease of one tick that lapses inside the run. Requests may be anywhere up to `in_review` at
the start, so four calls suffice for a claim, its decision, a second reviewer's claim after the lapse and
a late save of any kind.
 * `DecisionStands`, `DecidedByHolder`, `LeaseIsKept`: a decision is a read and a save with nothing between
   them, and yet the claim is enough: different reviewers, the automated check and the evidence flow
   cannot undo each other's work. The exceptions are exactly `raced`.
 * `OneCaseAtATime`: a reviewer whose claims did not overlap never holds two live cases.
 * `RowsAgree`: no overlap, raced or not, stores a row that `reconstitute` throws on.

**`api`** (`ApiServer.cfg`). Two requests served at a time, with Redis or without, a limit of one per window, one failure or crash; or two
clerks creating up to three organizations with two slugs. There is no bound on the number of requests: windows, records and counters come
back to where they were, so the state space is finite without one. `Workloads` keeps the questions apart: two
different bodies under one idempotency key; API keys that are created, revoked or lapse; a caller without a key, with the plugin optional or
not; a window; organizations.
 * `AnswersAreEarned`: whatever gets past the API key and is answered below 500 gets the key's first such answer, and what reaches the records or
   a handler with a principal presented a key of that principal that existed and was live when it arrived, and what reaches them without one
   goes to an excluded path or came without a key where `apiKeyAuth` is registered as optional. Excused from the first part are keys
   used by two requests at once, used for another request, past their time, or whose answer was lost before it was kept.
 * `OrganizationsAreWhole`: what can be read has its owner as a member, its slug alone, and invitations only to what exists.
 * `RetriesGetThrough`: a client that keeps asking is let through again and again: no crash between counting a request and
   arming the counter leaves a window that never ends. The fairness is weak fairness of each request's own service (the event loop
   and the stores answer, if only with an error) and of the passing of each window; clients, failures and crashes get none.

### Runs that find a disagreement between the code and its own words

* **`audit_stop`**: `stop()` is said to write whatever is still pending. `settle()` gives up when a
  pass leaves the queue as long as it was, taking that for a failed batch; but a failed
  batch is removed too, and what really keeps the queue as long is that commands arrived
  during the pass. In the trace one command is being written and a second waits when `stop()` reads the queue's length and joins that
  flush; a third is recorded before the database answers, the pass leaves two as before, and the second stays in memory with no timer.
* **`sessions_single_use`**: two redemptions of a refresh token read it unused before either marks it;
  both receive successors and no reuse is detected, against "single-use per rotation".
* **`credentials_upgrade`**: the hash upgrade after a login saves the row of the old password over a change
  committed meanwhile, against "needs no transactional relationship to the read that preceded it".

### Observations without a run of their own

They follow from the models, and are recorded here for the maintainers.

* Sessions: a logout given the end of the access token its caller holds (`revokeUntil`, "normally the access token's own remaining lifetime",
  `logout.ts:10-11`; `threat-model-sessions.md:151-155`) denies the session until then. An access token signed by a later refresh of the session lives longer and is
  accepted when the entry lapses, against "one revocation entry closes every access token that session ever issued" (`logout.ts:35-36`).
  `superseded` are the sessions this may happen to. Two logins of one user that overlap each find room before the other saves its session, and the user
  has one more than the limit, against "holds after every step" (`issue-session.ts:58-60`).
  A refresh saves the session as it read it, and a logout in between is undone
  (`refresh-access-token.ts`, against "keeps the original `revokedAt`" in `session.ts`); an eviction's
  deny-list entry is reckoned from the beginning of the login and may lapse before a token signed in between;
  the bulk update of `LogoutEverywhere` revokes sessions its list did not contain, whose access tokens
  are not denied. No app constructs these use cases yet, and `isRevoked` is not consulted on requests.
* Audit log: a batch that used up its retries is dropped and only reported, and since it took no sequence
  number the chain shows no gap. With `AUDIT_BATCHED_WRITES=1` a writer is built, but nothing records through it.
* Verification of the log: the command's comment says a receipt that disagrees with either side is a failure, but the exit code looks at the
  database side only; a ledger mismatch exits 0. A log restored shorter than its receipts leaves them "unchecked" and exits 0. A
  window that begins two or more beyond the end, on a log that grows before the first page, reports a break that is none.
* Reads: following the cursor of a query with pages of one never ends, since each page adds an entry that matches. A malformed cursor
  starts again at the first page. The in-memory anchor repository's latest is by insertion, the Prisma one's by sequence.
* Funding: `beforeAnchor` declines from the alert threshold down, where the account can still pay, and says it cannot; the
  kind of an alert is noted before the alerter is called, so one that fails to arrive is not repeated; a rejection is noted after the
  alerter's `await`, so a recovery in between leaves a later drain silent. Nothing schedules `AnchorAuditLog` yet.
* Credentials: the row saved by a failed login, or by the clearing of an old lock, can undo a
  password change as the upgrade does. Two overlapping redemptions of one link both succeed;
  two overlapping requests leave two links. A redemption refused because of the password history has
  used up its link, since returning from the transaction commits it. Changing a password retires no
  outstanding reset link and does not count wrong current passwords. A user without a
  password who is deleted keeps unused verification links.
* Users: stale whole-row saves can bring back a suspended or deleted user.
* Second factors: over the Prisma store neither replay protection nor lockout outlives a request, since the mapper starts them afresh,
  against "strictly rejects code reuse" in `verify-totp-challenge.ts`. A confirming code is good once more at login. Two overlapping
  consumptions of one login challenge both issue a session, against "This ordering is the enforcement; there is no separate
  lock". Overlapping uses of backup codes lose one of the updates; overlapping generations leave two active sets; overlapping
  assertions can lower a counter; a verification under way saves back a factor that a recovery deleted. Recovery leaves WebAuthn
  credential rows, challenges and step-up assertions. A login challenge is expired at its time, a WebAuthn one after it.
* Authorization: the table's unique key leaves out the expiry, so an expired assignment can neither be renewed nor found by the revocation
  that names user, role and organization. A role is written back as a whole: overlapping grants lose one, a deleted role comes back,
  and a role just seeded can become ordinary. The route renames system roles although `Role.rename` refuses. The
  route assigns with an expiry that is past. Two publishers count on from one version and one is dropped without an error.
  `set` files a value under the generation of the moment, not under that of its loading. The dry run loads a stored policy again for each
  fixture and labels the report by the first. Three matchers read wildcards in three ways. The checker, the guards, the cache and `AuthorizeAction` are
  not wired yet.
* Verification requests: a reviewer who approves and rejects at once (two tabs) is told that both succeeded, and the
  last save stays. Two automated checks of one request at once: the later save returns
  a request to `in_review` without a claim, whatever was claimed or decided after the earlier one. A decision
  that is checked in time and saved after its lease lapsed overwrites the next reviewer's claim or decision;
  the comment in `approve-verification.ts` that the second of two racing decisions "fails on the claim check" holds
  only when it reads after the first has saved. Two overlapping claims of one reviewer see no claim, lock two rows and
  get two cases, against "must never end up holding two cases" in `verification-request-repository.ts`.
* API server: the 409 for a key used with another payload passes `onSend` and replaces the record, so that a retry of the original request is
  refused from then on, against the "original response" of `docs/guides/api-design.md`. Overlapping requests with one key both reach the handler. A key
  is not scoped to its caller. A failing Redis command falls back to a separate count in memory. None of the hooks is registered by `buildApp`.
* Organizations: the race for a slug surfaces as a thrown `ConflictError`, not as the use case's `Result`.

## 4. What is proved

The theorems hold for every value of the constants that satisfies the named assumptions: any
number of processes, users, calls, faults, any sizes and lifetimes.

**`AuditSystem_proof`.** `TypeCorrect`, `BatchIsLinked`, `ChainStaysIntact`, `LogNeverForks`:
the last two come from the inductive invariant
`IInv == TypeOK /\ BasesStored /\ ChainIntact /\ NoFork`. `BasesStored` is the strengthening:
the head a recorder or writer linked its entries to is a stored row (or genesis), and remains so
since no row is ever removed. `ChainIntact` and `NoFork` alone do not say where a
batch in flight hangs. The insert is then the only step to look at: the batch is linked
(`BatchIsLinked`, a lemma about `BuildChain`), its first entry follows its base, and the
unique index admits no sequence number that is taken.

What becomes of an accepted command is a second invariant, `Accounted`, from which `CallersAreToldTheTruth`, `NothingIsLost`,
`RequestsAreLoggedOnce` and `QueuesKeepTheirOrder` follow (they state `AnswersAreTrue`, `NothingLostSilently`, `NoDuplicates` and
`QueueOrderKept`). Commands are numbered per process, and a process holds an interval of its numbers: the call of a recorder its last ones
(`CallAccounted`), a queue the last ones its writer accepted and a flush the first of those (`QueueNumbered`). Below the interval every command is stored or
reported, from it on none is reported, and one is stored only together with its whole batch by a commit whose answer was lost (`QueueAccounted`). Every
statement that changes the log does so with such an interval, at the end of a log whose sequence numbers have no gap (`Contiguous`), so order and
uniqueness carry over (`InsertKeepsOrder`). This needs recorders and writers to be named apart (`ApartAssumption`), since a command is
named by its process and number.

`LogRefinesTrail` states the refinement `RefinesTrail` as `Spec => RefinesTrail`. The mapped trail orders the rows by how many
sequence numbers are not above theirs. `Contiguous` says that the rows have exactly the numbers 1 to n, so the i-th row of the trail is the one with number i
(`CountUpTo`, `TrailByNumber`) and an insert appends its entries in their order (`TrailGrows`). What is appended is one run of
commands of one process that follow one another, no longer than the abstract bound (`BurstsFit`); every other step leaves the trail as it is (`TrailStep`).

**`AuditEvidence_proof`.** `ReceiptsAreProof` states `NoFalseProof`. The invariant adds what a call about to save a receipt holds: its reference is in the ledger with
its hash (`HeldIsTrue`), and neither a stored receipt nor another call has the same one (`HeldOnce`). The ledger only grows, so this stays true
through every loss. `RefusalsAreLoud` states `RefusalIsLoud`, an action property, from the invariant `Voiced`: unless
`muted`, the kind the next alert is compared with stands for what the operator last heard. A guard that declines has just raised, or had nothing to add to, a problem.

`ReadsStayExact` (`ReadsAreExact`) and `VerdictsAreSound` (`VerificationIsSound`) share the invariant `EInv`. `LogOK` says what holds of the rows whoever edits
them, that sequence numbers count from one and every stored link is the stored hash before it, and that until the first edit all digests are valid. `ReadOK`,
`WalkOK` and `ReceiptsOK` say what a call knows of the rows it has passed; they survive an append because the log only grows (`CallStays`), and an edit because a read
goes by fields that an edit keeps, while a verification is no longer quiet (`CallSurvivesEdit`). A page is the rows at some positions of
the log, and the k-th of them is the one that k of them do not exceed: `NthIs`, `NthOnly` and `NthRises` are facts about cardinalities, from which a page hands out each match once
and in order (`ReadsOn`). A disclosure counts its own entry before the page (`RecordKeeps`). `FirstBreak` and `BatchIs` say what one batch reports and
notes; that a digest vouches for all the entries behind it is an induction along the chain, carried out as an appeal to the least entry that
refutes it (`Least`, `HashHoldsPrefix`).

**`Sessions_proof`.** `TypeCorrect`, with the references between tables and copies, and
`LogoutIsFinal`, which states `RevocationIsFinal`. The invariant is
`IInv == TypeOK /\ (\A p : CallOK(op[p])) /\ AloneIsAlone /\ FinalIsClosed`. A revoked session stays
revoked only if no call in flight holds an older copy of it. `CallOK` says that a call works on the
sessions of its own user, that a call about to write an active row, sign or evict names no session of
`final`, that one about to revoke a session of `final` holds it as revoked already and denies it long
enough or was asked for less (`Covers`), and what a logout that is still alone has achieved so far. `AloneIsAlone` says that a call still
marked alone shares its user with no other; `FinalIsClosed` that the deny-list entry outlasts every token
signed for the session unless it is `superseded` (`Shut`). The argument goes by footprint: every step works on the sessions of one user, so
it leaves the calls and sessions of the others as they were, and each action then has only its own
session to account for.

The serial properties need more: `LimitIsKept` (`AtMostMaxConcurrent`), `RotationsAreChains` (`RotationIsAChain`), `RevocationsDeny` (`RevokedIsDenied`) and
`RevocationTimeIsKept` (`RevokedAtIsKept`) are theorems of the form `Spec /\ []OneCallPerUser => ...`. `OneCallPerUser` says that the calls of one user do not
overlap; calls of different users may, in any number. The hypothesis is not an artifact: two overlapping logins of one user exceed the limit, and two overlapping
refreshes redeem one token twice, which the run `sessions_single_use` shows. Under it the invariant `SInv` says what each call knows of
the stored rows: the copies it holds are the rows and a login about to open a session has room for it (`Current`); a logout of everything lists every active
session, none of which was signed for since (`Latest`); a rotation about to save its token has left the session without an unused one (`Rotating`).
`ReplacedIsUsed` and `RevokedIsClosed` (a revoked session is denied long enough, or a call about to do so is under way) are what the tables add, and the
properties follow. `Field` is the footprint lemma: what a step leaves alone of the calls and sessions of other users.

`LoopsHaveCause` states `EvictionsAreEarned` and needs no such hypothesis. `Caused` says what the loop may still evict: as many sessions as its user has active, one
fewer between the look and the revocation. A session another call saves is counted when it becomes active (`EarningIsCaused`), and a revocation takes one off
(`RevokingIsCaused`), for which the time it revokes with must be one.

**`Credentials_proof`.** `LinksStaySingle` states `LinksAreSingle`. A link that is used or retired never becomes unused (`LinksShrink`), so a call that
began after that stays before the check that refuses it (`LateIsOutside`). As long as nothing overlaps, a call about to issue a link holds every unused link of
its user and purpose in the list it retires (`AllRetired`), which no other call can add to; hence at most one is unused (`OneUnused`). `Procs` is
assumed finite because calls under way are counted.

`PasswordsStay` (`ChangeIsFinal`), `SessionsEndWithReset` (`ResetSignsOut`), `DeletedStaysDeleted` (`DeletionIsFinal`) and `PasswordsAreNotReused` (`NoReuse`) are about
saves of whole rows from copies. What they protect is the choice of a call nothing overlapped: the password it set, or the deletion. `CInv` says that every call
under way stays outside what could undo it (`CallOK`): it will replace no password and what it would save has the chosen one (`Keeps`), or it has yet to look at the
user it would find deleted. A lone call meanwhile finds what it committed. `UserOK` says that the choice is in force: password, sessions since a
reset, links and status after a deletion. `NoReuse` rests on the other half of both, which holds as long as nothing overlapped: a copy
is the stored row, and the current password of no row is in its history.

`AttemptsAreRationed` (`GuessesAreRationed`) needs a third invariant, `RInv`, and one hypothesis: `BaseDuration <= MaxDuration`. The defaults satisfy it (60 000 and
3 600 000 ms); nothing in the code checks it, and below it a lock would be shorter than the round of guesses it is to buy. `LocksAreLong` says that a lock is then never
shorter than its base, which rests on powers of the backoff factor being at least 1: no induction theorem can be instantiated, so `PowersExist` and `PowerIsPositive` take the
least number that fails (`Least`) and show that its predecessor fails too. `RationFacts` is the arithmetic of the bound: it grows by a round per `BaseDuration`.
For a user whose row counts the failures, `ByRow`: below the threshold the row has all the guesses, from it on a lock of full length began at an instant the bound allowed for.
For every other key, `ByKey`, of each replica: its store has what was guessed beyond the last round, and a lock lasts until the next one. `JustMatched` is the moment between a
match that has cleared the row and the answer that clears the policy's count. A link is guessed at only once it is used, expired or its user deleted (`Dead`), so no success clears its
count. `Knows` is what a call holds between its reads and its writes: the time a login looks at locks with, the count `recordFailure` has read, the status a save writes back. A statement
spares what it does not own (`Spares`, `SparedUser`, `SparedCall`), so each of them accounts for its own call, user and link (`SparingIsEnough`), and time only makes room (`TickRations`).
`KeysAssumption` says that an address is no digest: the scopes `login:` and `password-reset:` are part of the key.

**`Verification_proof`.** `TypeCorrect` and all five properties of the run: `RowsAlwaysAgree`, `OneCasePerReviewer`
as invariants, `DecisionsStand`, `HolderDecides`, `LeasesAreKept` as action properties. The key of the
inductive invariant `IInv` is `Fresh`: the copy a call is about to save is still the stored row, unless the
request is in `raced` or the copy is a reviewer's whose lease has lapsed. It is kept because two calls that
may both leave the same row are of one actor (a copy `in_review` under a live claim can be moved only by its
holder, any other copy only by calls no reviewer makes), and such overlaps are marked (`ClashesAreMarked`); a
claim touches only rows without a live claim. `CallOK` adds that the copy permits its move and that a
selected row stays as it was selected; `LocksDiffer` that no two claims selected the same row;
`HandsFree` and `StacksAreMarked` carry the answer of a claim's first statement to its last. The action properties
then follow from one lemma, `WhatChangesARow`: a stored row that is not raced for changes by a save that the
stored row itself permits, by a claim of a claimable row, or by being opened.

**`Mfa_proof`.** `ProofsStaySingleUse` states `ProofsAreSingleUse`, for both kinds of store, from `IInv == CInv /\ MInv /\ twice = {}`.
`CInv` is about challenges: one that was redeemed is used, and no call that may still redeem it is under way (`RedeemedIsClosed`). For a
WebAuthn challenge that is because the repository's consume checks and marks in one step, so one call wins it (`WonOnce`); for a login challenge
because it was redeemed by a call that overlapped no other of its user, and a challenge is presented only in calls of its user. `MInv` is about
factors: an accepted step is not above the shared object's last one, which no save lowers (`StepsAreBehind`); an accepted code is in neither the stored set
nor any copy (`CodesAreGone`), since whoever holds a copy is a call of the method's user (`Owns`). One frame lemma per half
(`ClosedStays`, `MethodsFrame`) leaves each step only its own call to account for.

`RecoveriesAreFinal` (`RecoveryIsFinal`) and `CountersNeverFall` (`CounterNeverFalls`) come from the invariant `Whole == IInv /\ AInv`. A call that works on a factor
works on none that a recovery removed (`OffCleared`), since a recovery that overlapped nothing has every factor of its user on its list (`Lists`), and no call of
the user was under way to hold a copy. The counter that a call compares with is the stored one while no other call of the user is beside it (`Fresh`), and
a registration gives a device a counter only when it is not its user's yet.

**`ApiServer_proof`.** `OrganizationsStayWhole` states `OrganizationsAreWhole`. A transaction that has inserted its organization holds its slug against every
other transaction and every committed row, because an insert waits for the others and then looks; and one that is about to commit has written the
membership as well. Commit is then the only step that shows anything, and shows both at once; a crash rolls back.

`OneAnswerIsGiven` states `AnswersAreEarned`, idempotency and API keys together, from the invariant `Answered`. A key that is dead when a request begins is dead
when the guard reads it, and one that was not there has no row that matches (`RequestOK`). The answers given under an idempotency key that nothing excuses (an overlap, a lost or expired record) are at most
the one its record holds; before there is a record there is none, and a request handled meanwhile is the only one with the key (`KeyOK`).

**`Authorization_proof`.** All four properties of the run, for any users, roles, rows, policies, condition trees and processes. There are four invariants,
each adding to the one before.
 * `RInv`, for `RolesStand` (`SystemRolesStand`): a role is linked to permissions of the catalog only, and a call about to write a role takes nothing from a system
   role as stored, unless another call has changed the role since (`Harmless`). The upserts of the seed stay harmless because its permissions are in the catalog.
 * `EInv`, for `ChecksAreExact` (`CheckIsExact`): `CheckOK` says what a check knows between its queries. As long as nothing was written, every active role was
   read or is about to be; after one write, what it read or will read was held at some moment, and what was held throughout it has read or will read. That
   rests on `OneChange`: a step changes one role and no assignment, or assignments and no role, or deletes a role with its assignments.
 * `DInv`, for `DecisionsAreCurrent` (`DecisionIsCurrent`): generations only rise, so what an entry or a call has read of them is behind (`Behind`), and an entry under the
   current generations holds the latest versions unless it is `late` or a publication is between its two writes or has lost the second (`EntriesOK`). `Steady` is
   what every step keeps: it lowers no generation, and while the generations and the promise stay, so do the latest versions. `OverridesIs` and
   `ComposeIs` compute the answer of the two layers from the set of effects.
 * `SInv`, for `GreenIsEarned` (`GreenMeansGreen`): each result of a dry run is earned by a version that was current during it, and since versions are only appended
   (`Grown`) it stays so, whoever publishes before the report. That all passed when as many passed as there are is a fact about cardinality (`AllPassed`).

The condition tree is opaque in these proofs: they hold whatever `EvaluateCondition` computes. `AuthorizationAssumption` asks for the few users, names
and permissions that the seed and `Init` use, for rules that are sequences of effects with conditions, and that the permission an action or a guard asks for has
no wildcard.

**Only model-checked.** Liveness (`QueueDrains`, `StopReturns`, `DrainIsHeard`, `RetriesGetThrough`): TLAPS does not
reason about fairness and ENABLED here.
Every safety property of a passing run is stated by a theorem.

## 5. Not modelled

`PROJECT.json` lists every component with its status and reason. In short: parsing, formatting, validation,
cryptography, HTTP translation and construction keep no state that interleaves;
PostgreSQL, Redis, the mailer, argon2, SHA-256 and Stellar are external and modelled only by what the code relies on.
 * Audit metadata and redaction, and the subscribers that turn domain events into audit commands: functions of one value.
 * GraphQL (its resolvers only read), the verification routes (they answer with fixed values), request context, versioning, CORS,
   security headers and OpenAPI: stateless.
 * Accepting and revoking invitations, revoking memberships: methods of the entities that no use case calls. Row-level security: `withTenantContext` has no caller.
 * Notifications: templates and their lookup. Configuration and signing keys: read once at start.
 * The scripts under `infra/ci`: they inspect the repository, not a running system.

## 6. Plan

What is left, in order of importance.

1. **Larger instances**: a third process for `Mfa` and `Authorization`, once their calls are split into workloads as those of `AuditEvidence` are.
2. Organizations: invitations have an acceptance to model as soon as a use case calls it.

Runs stay one per question, with a further one only where the code and its words disagree.
