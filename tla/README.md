# A verification of the MockTest authentication service

The service (FastAPI, PostgreSQL, Redis; `src/app`) registers and logs in users,
issues and rotates tokens, keeps sessions and exams on sessions, locks accounts,
and lets administrators invite others. Four uvicorn workers serve requests; the
only state they share is the database and Redis. This project models what
happens when requests overlap.

## 1. Inventory

| component | code | state | operations | hard behaviour |
|---|---|---|---|---|
| session tokens | `services/token_service.py`, `services/session_service.py`, `api/deps.py` | `sessions`: `is_active`, `token_version`, `refresh_token_hash` | open (login, registration, acceptance), bearer check, refresh, logout, terminate, logout-all, change-password | refresh from a stale row; a bulk UPDATE between them; two bulk UPDATEs |
| exam sessions | `services/session_service.py`, `api/v1/session.py`, `core/redis.py` | `sessions`: `is_exam_active`, `exam_id`, `exam_started_at`, `expires_at`; the event channel | start, end | check and write apart; unchanged columns are not written; event before commit |
| account status | `services/auth_service.py`, `services/admin_service.py` | `users`: `status`, `failed_login_attempts`, `locked_until` | failed login, login, lock, unlock, disable, enable | read-modify-write of counter and status around a slow password hash |
| registration, invitations | the same two services | `users`, `admin_invites` | register, create-admin, invite, accept, revoke | unique number; acceptance against revocation |
| rate limiter | `core/redis.py` | one Redis counter with an expiry for each number | login attempt | expiry set again by each attempt; Redis down or restarted |
| credentials | `services/auth_service.py`, `core/security.py` | `users.hashed_password`, the open sessions | login with its rehash, change | a login that verified the former password, on either side of the change |
| audit log | `services/audit_service.py` | `audit_logs` (insert only) | log, query | a flush error that is swallowed; pages by offset while rows are committed |
| unit of work | `db/session.py`, `exceptions.py` | one transaction and one connection per request | connect, flush, commit, rollback, answer | a pool that is exhausted; failures and deaths between flush, commit and answer |
| shell | `main.py`, `exceptions.py`, `api/v1/health.py`, `schemas/`, `core/config.py`, `cli.py` | none of its own | routing, validation, errors, metrics | — |

How they interact. Every request opens a transaction (`get_db`), passes the
bearer check (`get_current_user_and_session`) if its route has one, calls one
service, and commits after the handler returns; an exception rolls it back.
Nothing locks a row for reading. The isolation level is READ COMMITTED: a
statement sees what was committed before it started, and an UPDATE waits for a
row that another transaction has changed. The unit of work reads a row into an
object and writes back, by primary key, the columns whose value changed. So a
decision taken on an object may be stale when its columns are written, and an
UPDATE may leave out a column that somebody else has changed since. That is the
source of nearly every hazard in `PROJECT.json`.

What makes each component correct:

* tokens: one good refresh token for an open session, none for a closed one;
  closed stays closed; a bulk revocation misses nothing; only the owner closes.
* exams: one at a time; the session outlives the exam; the table is not ahead of the
  attempt to announce the exam.
* account: locked after so many failures, not before, and until the deadline;
  what an administrator decides holds.
* invitations: one account for a number, one acceptance for an invitation, and
  an acceptance and a revocation exclude each other.
* limiter: never more than the limit in a window, wherever it begins, but for what
  failed calls and restarts of Redis let through.
* credentials: after a change neither the former password nor a session opened
  with it is any good.
* unit of work: all of a request or nothing, and success is answered only for
  what is durable; every request ends.
* audit log: a row for every change; whoever reads all pages has read all rows.

## 2. Modules

| module | models | proofs |
|---|---|---|
| `SessionLifecycle` | the promise: sessions are absent, open or closed, with one current token | |
| `SessionTokens` | the code that keeps it; implements `SessionLifecycle` | `SessionTokensProofs` |
| `ExamSessions` | exams on sessions, the clock, the events | `ExamSessionsProofs` |
| `AccountStatus` | status, counter and deadline of one account | `AccountStatusProofs` |
| `Invitations` | the account of one number and its invitation | `InvitationsProofs` |
| `RateLimiter` | the counter of one number in Redis | `RateLimiterProofs` |
| `Credentials` | the password of one account and the sessions opened with it | `CredentialsProofs` |
| `AtomicRequests` | the promise to a client: all or nothing, and then the answer | |
| `UnitOfWork` | the transaction of any request, taken apart; implements `AtomicRequests` | `UnitOfWorkProofs` |
| `AuditPages` | extends `UnitOfWork` with a reader of the audit log | `AuditPagesProofs` |

`MC…` modules add the symmetry sets and functions that the configurations use. Definitions
called `X_Y` are mutants of `X`: what a plausible slip in that code would make
of it. None is used by a specification; replacing `X` by one of them makes TLC
report the property that `PROJECT.json` names with it.

### State and actions

A request in flight is a record: `pc` (or `op`) says what it does next, the
other fields what it has read. `Begin…`, `…Read`, `…Find` and `…Load` are its
SELECTs, `Commit…` the flush and the commit, `Abort` an exception, a lost
connection or a dead worker. A refusal that writes nothing is either no step at
all or the return of the request to idle. The flush of a single row and the
commit after it are one step: until the commit nobody sees the row, and whoever
writes it waits. Where a request does more between its flush and its commit the
two are apart: the bulk UPDATE, which holds several rows (`BulkLock`), and the
exam requests, which publish an event while they hold the row (`Flush`,
`Publish`, `Commit`). `Written` in `AccountStatus` and `ExamSessions` is the
UPDATE that names the changed columns only; in `SessionTokens` and
`Invitations` each action names them itself.

* `SessionTokens`. `sessions` is the table, `issued` the token pairs handed out,
  `lastJti` the number of tokens minted; a refresh token is its `jti`, and so is
  its hash. Left out: the expiry of tokens and sessions and the status of the
  account, which only refuse more requests, and `last_active_at`. `seen` and
  `issued` are read by properties, and `issued` stands for the clients, too.
* `ExamSessions`. One step opens or closes a session. `published` and `lost` are the
  starts of exams whose event reached Redis, and those whose publish failed and was
  swallowed; the request goes on to its commit either way. The clock that a start reads
  lies strictly after its bearer check: two readings of a microsecond clock with a query
  between them never tie, and a model in which they did would have executions the
  program has not.
* `AccountStatus`. `failures` and `streak` are history: failed logins ever, and those
  since anything but a failed login changed the account. A status of
  `pending_verification` belongs to `Invitations`.
* `Invitations`. `created` and `accepts` count the answers that said so. The
  writers of the status that `AccountStatus` takes apart are one step each.
* `RateLimiter`. A time is a second. `allowed` is the history of every attempt that was
  allowed, counted or not, and it survives the restarts of Redis that the key does not:
  the key comes back empty, or as an older snapshot had it. `excused` counts what such
  outages may let through beyond the limit: one for each failed call, `Limit` for each
  restart. Each entry of `allowed` has the time and the value of `excused` before and
  after it, so that a property can say how many outages lie between two of them.
* `Credentials`. `account` says of which password the hash is, and whether with
  Argon2 parameters of former times (`outdated`), which is what `needs_rehash`
  asks. A login takes the row of the account at its flush, before it opens the
  session; a change takes the rows of the sessions first (`ChangeStart` sees them,
  `ChangeClose` has them all), then the account's (`ChangeFlush`). `chosen` and the
  fields `overlapped` and `rehashed` are history. Every client knows the present
  password; wrong ones are in `AccountStatus`.
* `UnitOfWork`. A request is of one of seven kinds, by the order in which its
  route flushes, adds the audit row, publishes and commits. A failed audit flush
  leaves the transaction `failed` and the handler running (`LogFails`): the next
  statement raises, but a flush with nothing left to write does not, so an admin
  request goes on up to its commit. `CommitUnheard` is a commit whose reply is lost;
  `Crash` takes all requests of a worker. `rows`, `audits` and `answers` are the
  sets of requests that wrote, that logged, and what clients were told. `RowOf` is
  the row of a user or a session that a request writes: requests with the same one
  wait for each other, the others do not. (A login writes a row of each; several locks
  held at once are in `SessionTokens` and `Credentials`.)
* `AuditPages`. Stamps are in the order of flushes, rows appear in the order of commits,
  which is another one for requests that write different rows. `before` is history: the
  rows there were when the reader began.

## 3. Runs

Bounds are named constants; each is large enough for the cases the run is about.

| run | asks | bounds |
|---|---|---|
| `SessionTokensSafety` | every safety property and the refinement | 2 users, 2 sessions, 3 requests, 4 tokens: two requests for every pair of overlapping reads and commits, the third for a bulk update between them |
| `SessionTokensLiveness` | `EveryRequestEnds` | two bulk updates on two rows, the smallest deadlock |
| `SessionTokensRevoked` | violated: a revoked access token comes back | one session, two overlapping refreshes and one between, 4 tokens |
| `ExamSessionsConcurrent` | the session fits its exam, the attempt to announce it precedes it, closed stays closed, a user has no more exams than overlapping requests | 2 sessions of one user, 2 requests, 2 exams; an exam of 1, a lifetime of 2 and a clock up to 2, so that an exam starts on both sides of the time from which it outlasts the session |
| `AccountStatusConcurrent` | the counter is never ahead of the failures, the lock comes within the budget and by the argument of its proof, a stale login leaves the status alone, who ends a lock early or takes its deadline | 2 requests, a lock after 2 failures; the budget is 3, and 3 failures are within the bound |
| `AccountStatusDisabled` | violated: a disabled account becomes active | one request: no overlap is needed |
| `InvitationsConcurrent` | one account, a pending one keeps its invitation row, expired or not, no more acceptances than overlapping requests | 3 requests: an acceptance, another one and a revocation |
| `InvitationsRevokedAccepted` | violated: a revocation that deletes an accepted account | 2 requests |
| `RateLimiter` | never more than the limit in a window, plus one for each failed call and the limit for each restart in it; what the key still counts | 2 attempts in 3 seconds, 6 seconds, so that windows overlap; 4 excuses: two restarts, or one and two failed calls, in one window or apart |
| `UnitOfWork` | atomicity of a request and its answer (a refinement), trust in success, every request ends, the reader misses nothing | an exam and an admin request that share a pool of one connection, a failed login on another worker, pages of one row. The exam is on a session, the other two are about one user: enough for one to hold the connection and wait for the row of another, for a death at any point, and for an audit row to appear between two pages among rows with later stamps and with earlier ones |
| `CredentialsConcurrent` | what survives a change of the password, and what brings a former one back | 3 requests, 3 sessions, 2 passwords: two changes and a login, and a login before them for the session that a change is made from |
| `CredentialsRehash` | violated: the former password is good again | 2 requests, one login and one change |

Some promises do not hold because nothing orders what overlaps. A user can have
two exams (two starts find none running, although `tests/test_level_4_sessions.py`,
line 99, says only one can be active); an invitation can be accepted twice, the
later password winning (`exceptions.py`, line 166: "Invitation has already been
accepted"); and with parallel guesses the lock comes later than the failure that
makes `MAX_FAILED_ATTEMPTS`. For these a passing run asks what is left, with the
number of requests that overlap as the measure; at one request each is the
promise itself:

* `ExamsPerOverlap`: a user's exams, with the starts past the check, are at most
  as many as the requests.
* `AcceptedOncePerOverlap`: so are the acceptances of an invitation.
* `LockWithinBudget`: fewer than `GuessBudget[<<M, R>>]` failed logins go by without a
  lock, M being `MAX_FAILED_ATTEMPTS` and R the requests that overlap. A request
  that read the counter first may write its small value after the others have
  nearly locked the account; then one fewer can do it again. That gives
  `B(M, R) = B(M - 1, R) + B(M, R - 1)`, which is the binomial coefficient
  C(M + R - 1, R). TLC reaches the bound with two requests and three attempts and
  with three requests and two attempts, so it is tight there: with 5 attempts and
  4 requests in flight it would be 70. `StreakFollowsProfile` is the invariant behind
  it (section 4). Both are about limits above one (`core/constants.py`, line 37, has
  5): with a limit of one, a lock that an administrator lifts between the SELECT and
  the UPDATE of a failed login leaves that login uncounted.

Four promises have a run that shows them violated. `RevokedStaysRevoked` falls to
refreshes that overlap, `RevokeSparesAccepted` to a revocation that read before an
acceptance, `ChangedPasswordHolds` to a rehash that read before a change, and
`DisabledUntilEnabled` to a sequence of single requests. Each quotes a message or a
test of the repository; `findings` in `PROJECT.json` has the trace in words.
`CredentialsConcurrent` says what is left of the third: `OnlyRehashRevives`, and for
the sessions `OnlyOverlappingLoginsSurvive`.

Section 4 has the other half: theorems that say which overlap each of these takes, and
so what a lock or a check in the UPDATE would have to exclude.

Further observations follow from the actions, and no run is kept for them:

* A start whose row was read while the exam before was still running does not
  write `is_exam_active`, for which nothing seems to change. If that exam ends
  between the read and the check, the start is answered and published, and the
  table has no exam running (`Column`, `Written` in `ExamSessions`).
* Every login attempt, a refused one too, sets the expiry of the counter again
  (`Incr` in `RateLimiter`), so a client that keeps trying is refused although
  fewer than the limit were allowed in the last minute.
* A login or an unlock that found an active account with a left-over deadline
  (`disable_user` and `enable_user` leave it) clears the deadline and not the status.
  If a lock was committed meanwhile, it has no deadline then, and the next right
  password passes (`LocksKeepDeadlines` in `AccountStatus`). Likewise a lock of an
  account that it found locked writes no status: after an unlock in between the
  administrator is told `locked`, and the account is active.
* A login that found a lock over, and commits after a newer lock, ends that one
  (`LockHoldsUntilDeadline`).
* An acceptance makes the account active whatever its status, a disabled one
  included (`CommitAccept` in `Invitations`).
* Redis may miss the event of an exam that is in the table: a failed publish is logged and
  the request commits (`Publish` in `ExamSessions`).
* After a restart of Redis a number has its whole budget again: up to twice the limit in
  one window (`RedisRestart` in `RateLimiter`).
* A login that overlaps a change of the password may leave a session that was
  opened with the former one, although `tests/test_level_6_security.py`, line 67,
  says "Test old tokens are invalidated after password change" (`overlapped` in
  `Credentials`).
* The audit row of a login with a number that nobody has is rolled back by its own
  401 (`Effects` in `UnitOfWork`): such attempts leave no trace.
* A reader of the audit log who stops when he has `total` rows, and not at the
  first short page, may miss some: rows that appear between two pages push others
  on, and he reads these twice.

`CHECK_DEADLOCK FALSE` stands in the configurations whose behaviours may end:
clients may stop, and ids, tokens, failures and clocks are bounded. Requests that
cannot go on are what `EveryRequestEnds` asks about, in `SessionTokensLiveness` and
in `UnitOfWork`, and it asks for more than the absence of deadlock.

### Fairness

`FairSpec` of `SessionTokens` and `PagesSpec` of `AuditPages` (with the `Fairness`
of `UnitOfWork`) are the specifications with fairness. Steps that compute or
commit are weakly fair: the event loop of a worker runs them. Steps that need a
row lock or a connection are strongly fair: PostgreSQL queues those who wait for a
row, SQLAlchemy's pool those who wait for a connection. A bulk update in a cycle
of waits is aborted (weakly fair), which is what `deadlock_timeout` does. Nothing
makes a client send a request or read a page, nor a pool timeout, a failure, a
crash or an `Abort` happen otherwise: in `UnitOfWork` requests end without the
timeout's help.

## 4. Proofs

The proofs hold for every value of the constants that satisfies the named
assumptions (`No…` values lie outside the sets, bounds are naturals, a limit is
positive, requests and sessions are finitely many). Each proof module has the same shape:
`Init => IInv`, one lemma or step for every action under `NextPreserves…`, and
temporal steps at the end.

* `SessionTokensProofs`. `IndInv` adds to the types: tokens are unique;
  an open session's current token is among those issued; a request's rows belong
  to the user it authenticated as; a row lock has one holder and its row stays
  open; a bulk update holds or will pick whatever it saw that is still open. The
  last is what `BulkIsComplete` needs: without it a bulk update could commit and
  have missed a row. `Refinement` maps each action to a step of
  `SessionLifecycle` or a stutter; a refresh of a session that was closed
  meanwhile is `MintDead`.
* `AccountStatusProofs`. The counter that a request has read is no larger than
  the failures so far, so no write of a stale counter is either. The two theorems
  about locks rest on `ChangesAreDecided`, which says of each writer what status and
  deadline it may write, and of `Written` what becomes of them.
* `InvitationsProofs`. `PendingHasInvite` alone is not inductive: a request that
  is about to revoke might have read a status that is no longer `pending`.
  `PendingWasRead` excludes it: no account becomes pending again.
  `AcceptancesAreBounded` counts the acceptances together with the requests that
  may still accept (`AcceptancesFit`): a commit takes one from these, and nobody
  joins them once the invitation was accepted.
* `ExamSessionsProofs`. `ExamFitsSession` needs `FarExpiryIsLeast`: a start leaves
  the expiry alone if the one it has read is far enough, and the row could hold a
  nearer one by then. It does not, since an expiry further ahead than an exam
  lasts was set by the login, and no start writes a smaller one over it
  (`StartFits`). That the start
  time is always in the UPDATE rests on a start reading the clock after the row.
  `ExamsAreBounded` is a count as for acceptances: an exam that a commit adds was
  an admitted start before.
* `RateLimiterProofs`. `CountCoversWindow` says how the single counter bounds the
  attempts allowed in a sliding window: whatever it no longer counts is a window old, or
  excused by a failed call or a restart since then. With the order of `allowed`
  (`TypeOK`) and `NeverMoreThanLimit` itself it is inductive: an attempt that is
  counted and allowed finds the counter below the limit, which bounds every window that
  ends with it.
* `UnitOfWorkProofs`. `Progress` says for each point of a request what is durable and
  what its transaction has flushed; with it every step is a step of
  `AtomicRequests` or a stutter. It holds for all seven kinds, of which the run has
  three, and for any rows. The count of connections in `TypeOK` needs finitely many requests.
* `AuditPagesProofs`. What the reader has missed lies behind the pages he has read
  (`ReaderMissesNothing`), since a commit only pushes rows on. That a short page is
  the last is a matter of counting: ranks in a finite set of rows with different
  stamps leave no gap (`NoRankIsMissing`), so a row behind a page makes it full.
* `CredentialsProofs`. A change spares only sessions of logins that overlap it
  (`ClosingIsComplete`), and hashes of former parameters are all of one password
  (`OneOutdatedPassword`): no change writes one, so a second cannot come about.

### What overlaps, and what follows

A promise that a run shows violated, or that holds only up to the number of
requests, is proved under the hypothesis that the overlap in question does not occur.
The hypothesis is a state predicate that holds throughout (`Spec /\ []H => ...`),
and everything it does not name may overlap.

| theorem | what then holds | as long as these do not overlap |
|---|---|---|
| `TokenRevivalNeedsOverlap` | a refused access token stays refused (`RevokedStaysRevoked`) | two refreshes of the same session |
| `RevocationNeedsOverlap` | a revocation deletes no account that accepted (`RevokeSparesAccepted`) | a revocation and an acceptance |
| `SecondAcceptanceNeedsOverlap` | one acceptance | two acceptances |
| `PasswordRevivalNeedsOverlap` | the changed password is the one to log in with (`ChangedPasswordHolds`) | a login that will rehash, and a change between its flush and its commit |
| `OldSessionNeedsOverlap` | open sessions were opened with the present password | a login, and a change from its SELECT of the sessions on |
| `SecondExamNeedsOverlap` | one exam for each user | two starts of one user between check and commit |
| `LateLockNeedsOverlap` | the lock comes with failure number `MAX_FAILED_ATTEMPTS` | two failed logins |

Each needs an invariant of its own, which says that what a request in flight has read
is still true of what it is going to overwrite: for instance `VersionsGrow`, that a refresh
in flight has read the version which the row still has, and that no token of the
session was issued with a larger one. `DisabledUntilEnabled` is not in the
table: no overlap is needed to violate it. `RotationIsFinal` needs no hypothesis:
what the version does not protect, the `jti` does, so a refresh token that was
rotated never comes back.

### How the budget is proved

`Profile` says, for each counter value below the limit, how many requests can still
count on from less than that: all of them if the row is there, otherwise those that
have read it there. It never decreases with the value. A failed login that does not
lock makes it lexicographically smaller: the request has given up the value it
counted from, and the row it leaves is one above. Nothing else makes it greater but
what sets the counter, and that resets the streak. So the streak is at most the
number of profiles above the present one (`StreakFollowsProfile`), and there are
`GuessBudget[<<M, R>>]` profiles (`ProfilesSplit`, `BudgetCountsProfiles`). The last
is a recursion; instead of an induction the proof takes a least pair of numbers for
which it fails and finds a smaller one. The assumption `MaxAttempts > 1` is in the
theorems and not in the module, which is checked without it.

### What remains model-checked

Liveness under fairness: TLAPS has neither here. The part of `EveryRequestEnds` that is
a matter of states is proved. `NoDeadlock` (`UnitOfWork`): whoever holds a row can go
on; whoever waits for it waits for one who can; whoever waits for a connection waits for
one of its worker's transactions, or for the holder of the row those wait for. The
provers do not know ENABLED, so `CanGoOn` lists the guards; TLC agrees that it is
enabledness of the steps that `Fairness` names, on the instance of the run.
`RequestsAreFinitelyLong`: `StepsLeft` falls with every step for some request and rises
for none, so n requests take at most 7 n steps, crashes included. `WaitsEndOrDeadlock`
(`SessionTokens`): a bulk update that holds rows is in a circle of waits, one of which
`Fairness` lets PostgreSQL abort, or some holder can go on. What fairness adds is that a
step that stays possible is taken.

## 5. Not modelled

* `cleanup_expired_exam_sessions` (no caller), `users.token_version` (no reader),
  the reset token (no store): there is no second step.
* Signatures and Argon2: a token or a password is good or not. `SECRET_KEY` is one
  key; unset, it would be one for each worker (`core/config.py`, line 40).
* The account half of the bearer check (deleted, disabled, locked): one read which
  can only refuse. That a refresh does not make it is an absence, not a behaviour.
* `list_users` has no order, so any page is a page; the other lists, profile, health,
  metrics, schemas and configuration have no shared state that another operation
  depends on.
* In `Credentials`: acceptance of an invitation, which sets the first password
  (`Invitations`), and logout-all (`SessionTokens`).
* Ties of two audit stamps, which have microseconds: their order would be
  PostgreSQL's choice anew for each page.
* `services/__init__.py` is a copy of `admin_service.py`.
* The SQLite default of `core/config.py`: it serialises writers and would show
  fewer interleavings; the deployed database is the PostgreSQL of
  `Docker-compose.yml`.

## 6. Plan

1. Done: the modules above, `SessionTokens` first because everything else opens
   or closes its sessions; then `Credentials`, `UnitOfWork` and `AuditPages`.
2. Done: a theorem for every property of a passing run that is not about liveness,
   the overlaps that the violated promises take, and the safety part of the two
   liveness properties.
3. Next: a measure like `StepsLeft` for the bulk updates of `SessionTokens`, whose
   requests are sent again and again; the observations of section 3 that no theorem
   states yet, such as a lost `is_exam_active`, under the overlap each takes.
4. If the service gets them: a store for the reset token, a caller for
   `cleanup_expired_exam_sessions`, a look at the account in the refresh. Each
   would be an action of `Credentials`, `ExamSessions` and a module that composes
   `AccountStatus` with `SessionTokens`.
