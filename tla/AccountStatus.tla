--------------------------- MODULE AccountStatus ----------------------------
(***************************************************************************)
(* The status columns of one row of the users table: what logins           *)
(* (auth_service.py) and administrators (admin_service.py) make of them.   *)
(* The rows of different users never meet, so one is enough.               *)
(*                                                                         *)
(* A request reads the row into an object, decides on it, and writes back  *)
(* the columns whose value it changed, over whatever the row has become.   *)
(* READ COMMITTED makes it wait for another writer of the row, not read    *)
(* the row again.  Flush and commit are one step, the read is another.     *)
(***************************************************************************)
EXTENDS Naturals, FiniteSets

CONSTANTS
  Requests,      \* requests that can be in flight for this account
  MaxAttempts,   \* MAX_FAILED_ATTEMPTS
  LockDuration,  \* ACCOUNT_LOCK_DURATION_MINUTES
  MaxTime,       \* bound: the clock stops there
  MaxFailures    \* bound: failed logins that are ever committed

ASSUME MaxAttemptsIsPositive == MaxAttempts \in Nat \ {0}
ASSUME LockDurationIsPositive == LockDuration \in Nat \ {0}
ASSUME RequestsAreFinite == IsFiniteSet(Requests)
ASSUME BoundsAreNat == MaxTime \in Nat /\ MaxFailures \in Nat

VARIABLES
  account,    \* the committed row
  requests,   \* what each request in flight has read, and when
  now,        \* the clock
  failures,   \* failed logins committed so far; no code reads it
  streak      \* of these, since anything else changed the account; no code reads it

vars == <<account, requests, now, failures, streak>>

NoDeadline == 0   \* locked_until is NULL

Statuses == {"active", "locked", "disabled"}
AdminOps == {"lock", "unlock", "disable", "enable"}
Ops == AdminOps \cup {"none", "wrong_password", "login"}

Rows == [status : Statuses, failed_login_attempts : Nat, locked_until : Nat]

RequestStates == [op : Ops, row : Rows, readAt : Nat]

NewRow == [status |-> "active", failed_login_attempts |-> 0, locked_until |-> NoDeadline]

NoRequest == [op |-> "none", row |-> NewRow, readAt |-> 0]

-----------------------------------------------------------------------------
(***************************************************************************)
(* The decisions, on the row that was read and the clock at that moment.   *)
(***************************************************************************)
\* Mutant of Failed: the comparison with the limit is strict.
Failed_OneMore(row, t) ==
  LET n == row.failed_login_attempts + 1
  IN IF n > MaxAttempts
     THEN [status |-> "locked", failed_login_attempts |-> n, locked_until |-> t + LockDuration]
     ELSE [row EXCEPT !.failed_login_attempts = n]

\* Mutant of Failed: the attempt is counted by the caller too.
Failed_Twice(row, t) ==
  LET n == row.failed_login_attempts + 2
  IN IF n >= MaxAttempts
     THEN [status |-> "locked", failed_login_attempts |-> n, locked_until |-> t + LockDuration]
     ELSE [row EXCEPT !.failed_login_attempts = n]

\* _handle_failed_attempt, whatever the status is.
Failed(row, t) ==
  LET n == row.failed_login_attempts + 1
  IN IF n >= MaxAttempts
     THEN [status |-> "locked", failed_login_attempts |-> n, locked_until |-> t + LockDuration]
     ELSE [row EXCEPT !.failed_login_attempts = n]

\* Mutant of LockHasExpired: the lock is over a tick before its deadline.
LockHasExpired_Early(row, t) == row.locked_until = NoDeadline \/ row.locked_until <= t + 1

LockHasExpired(row, t) == row.locked_until = NoDeadline \/ row.locked_until <= t

\* With the right password: login admits an active account, or a lock that is over.
Admitted(row, t) ==
  \/ row.status = "active"
  \/ row.status = "locked" /\ LockHasExpired(row, t)

LoggedIn == NewRow

\* Mutant of Locked: a lock that is set again is added to the one before.
Locked_Extends(row, t) ==
  [row EXCEPT !.status = "locked",
              !.locked_until = IF @ = NoDeadline THEN t + LockDuration ELSE @ + LockDuration]

\* Mutant of Locked: the deadline is left to failed logins.
Locked_NoDeadline(row, t) == [row EXCEPT !.status = "locked"]

Locked(row, t) == [row EXCEPT !.status = "locked", !.locked_until = t + LockDuration]

Unlocked == NewRow

Disabled(row) == [row EXCEPT !.status = "disabled"]

Enabled(row) == [row EXCEPT !.status = "active"]

\* Mutant of Written: every column is in the UPDATE, changed or not.
Written_AllColumns(old, read, new) == new

(***************************************************************************)
(* The UPDATE of the unit of work names a column only if its new value     *)
(* differs from the one that was read.                                     *)
(***************************************************************************)
Written(old, read, new) ==
  [status |-> IF new.status # read.status THEN new.status ELSE old.status,
   failed_login_attempts |->
     IF new.failed_login_attempts # read.failed_login_attempts
     THEN new.failed_login_attempts ELSE old.failed_login_attempts,
   locked_until |->
     IF new.locked_until # read.locked_until THEN new.locked_until ELSE old.locked_until]

-----------------------------------------------------------------------------
Init ==
  /\ account = NewRow
  /\ requests = [r \in Requests |-> NoRequest]
  /\ now = 0
  /\ failures = 0
  /\ streak = 0

Respond(r) == requests' = [requests EXCEPT ![r] = NoRequest]

\* The SELECT that starts login, or an administrator's request (get_user).
Read(r, op) ==
  /\ requests[r].op = "none"
  /\ requests' = [requests EXCEPT ![r] = [op |-> op, row |-> account, readAt |-> now]]
  /\ UNCHANGED <<account, now, failures, streak>>

LoginRead(r) == \E op \in {"wrong_password", "login"} : Read(r, op)

AdminRead(r) == \E op \in AdminOps : Read(r, op)

Write(r, new) ==
  /\ account' = Written(account, requests[r].row, new)
  /\ Respond(r)

\* The clock is read somewhere between the SELECT and the UPDATE.
ClockReadings(r) == requests[r].readAt..now

\* _handle_failed_attempt commits itself, before login raises.
CommitFailed(r) ==
  /\ requests[r].op = "wrong_password"
  /\ failures < MaxFailures
  /\ \E t \in ClockReadings(r) : Write(r, Failed(requests[r].row, t))
  /\ failures' = failures + 1
  /\ streak' = IF account'.status = "locked" THEN 0 ELSE streak + 1
  /\ UNCHANGED now

CommitLogin(r) ==
  /\ requests[r].op = "login"
  /\ \E t \in ClockReadings(r) : Admitted(requests[r].row, t)
  /\ Write(r, LoggedIn)
  /\ streak' = 0
  /\ UNCHANGED <<now, failures>>

CommitLock(r) ==
  /\ requests[r].op = "lock"
  /\ \E t \in ClockReadings(r) : Write(r, Locked(requests[r].row, t))
  /\ streak' = 0
  /\ UNCHANGED <<now, failures>>

CommitUnlock(r) ==
  /\ requests[r].op = "unlock"
  /\ Write(r, Unlocked)
  /\ streak' = 0
  /\ UNCHANGED <<now, failures>>

CommitDisable(r) ==
  /\ requests[r].op = "disable"
  /\ Write(r, Disabled(requests[r].row))
  /\ streak' = 0
  /\ UNCHANGED <<now, failures>>

CommitEnable(r) ==
  /\ requests[r].op = "enable"
  /\ Write(r, Enabled(requests[r].row))
  /\ streak' = 0
  /\ UNCHANGED <<now, failures>>

\* A login that is refused, and a request that fails: nothing is committed.
Abort(r) ==
  /\ requests[r].op # "none"
  /\ Respond(r)
  /\ UNCHANGED <<account, now, failures, streak>>

Tick ==
  /\ now < MaxTime
  /\ now' = now + 1
  /\ UNCHANGED <<account, requests, failures, streak>>

Next ==
  \/ \E r \in Requests :
       \/ LoginRead(r)
       \/ AdminRead(r)
       \/ CommitFailed(r)
       \/ CommitLogin(r)
       \/ CommitLock(r)
       \/ CommitUnlock(r)
       \/ CommitDisable(r)
       \/ CommitEnable(r)
       \/ Abort(r)
  \/ Tick

Spec == Init /\ [][Next]_vars

-----------------------------------------------------------------------------
\* The row and the requests keep their shape, and no deadline is further away than a
\* lock lasts (models/user.py).
TypeOK ==
  /\ account \in Rows
  /\ requests \in [Requests -> RequestStates]
  /\ now \in 0..MaxTime
  /\ failures \in 0..MaxFailures
  /\ streak \in 0..failures
  /\ account.locked_until <= now + LockDuration

\* The counter never runs ahead of the failed logins: nobody is locked out for
\* attempts that were not made, however stale the counters that logins, unlocks and
\* failures write over each other (auth_service.py, line 165).
CountedFailuresHappened ==
  account.failed_login_attempts <= failures

\* What a request has read is old, never ahead of the present.
SnapshotsAreOld ==
  \A r \in Requests :
    /\ requests[r].row.failed_login_attempts <= failures
    /\ requests[r].row.locked_until <= now + LockDuration
    /\ requests[r].readAt <= now

\* No step, taken from any state with this shape, breaks it.
IndInv == TypeOK /\ CountedFailuresHappened /\ SnapshotsAreOld

\* A successful login that found the account active does not undo the lock or the
\* disabling that was committed after it read the row: status is not among the
\* columns it changed (auth_service.py, lines 118-134).
StaleLoginKeepsStatus ==
  [][\A r \in Requests :
       CommitLogin(r) /\ requests[r].row.status = "active" =>
         account'.status = account.status]_vars

\* A lock ends before its deadline by an administrator, or by a login that had found an
\* older lock, and that one over: its UPDATE ends whatever lock there is by then
\* (auth_service.py, lines 118-123).
LockHoldsUntilDeadline ==
  [][account.status = "locked" /\ now < account.locked_until /\ account'.status = "active" =>
       \E r \in Requests :
         /\ requests'[r].op = "none"
         /\ \/ requests[r].op \in {"unlock", "enable"}
            \/ /\ requests[r].op = "login"
               /\ requests[r].row.status = "locked"
               /\ requests[r].row.locked_until <= now]_vars

\* A lock without a deadline is no lock, login takes it for one that is over
\* (auth_service.py, line 119).  It comes about only where a request has found a deadline
\* on an account that was not locked, as disable_user and enable_user leave it, and has
\* cleared it, or not renewed it, under a lock that came between (lines 131-134).
LocksKeepDeadlines ==
  [][account'.status = "locked" /\ account'.locked_until = NoDeadline =>
       \/ account.status = "locked" /\ account.locked_until = NoDeadline
       \/ \E r \in Requests :
            /\ requests'[r].op = "none"
            /\ requests[r].row.status # "locked"
            /\ requests[r].row.locked_until # NoDeadline]_vars

(***************************************************************************)
(* How many failed logins can precede the lock.  One request at a time     *)
(* needs m of them to bring a counter to m.  Of n that overlap, the one    *)
(* that read first may keep its value until the others have almost locked  *)
(* the account, write it over theirs, and leave m - 1 to go.               *)
(***************************************************************************)
GuessBudget[p \in Nat \X Nat] ==
  LET m == p[1]
      n == p[2]
  IN IF m <= 1 THEN 1
     ELSE IF n <= 1 THEN m
     ELSE GuessBudget[<<m - 1, n>>] + GuessBudget[<<m, n - 1>>]

\* However failed logins write their counters over each other, the account is locked
\* when they are as many as overlapping requests can get past it: MaxAttempts, if they
\* come one at a time (auth_service.py, lines 165-170).
LockWithinBudget == streak < GuessBudget[<<MaxAttempts, Cardinality(Requests)>>]

\* A failed login of r can count on from less than k: the counter is there, or r has read
\* it there.  A lock that r has read lets it count once more without a lock, whatever
\* the counter was, if it was lifted since.
CanCountFrom(r, k) ==
  \/ account.failed_login_attempts < k
  \/ /\ requests[r].op = "wrong_password"
     /\ \/ requests[r].row.failed_login_attempts < k
        \/ requests[r].row.status = "locked" /\ k = MaxAttempts - 1

Below(k) == {r \in Requests : CanCountFrom(r, k)}

Profile == [k \in 1..(MaxAttempts - 1) |-> Cardinality(Below(k))]

\* The profiles that n requests can have, with m attempts.
Profiles(m, n) ==
  {f \in [1..(m - 1) -> 0..n] : \A i, j \in 1..(m - 1) : i <= j => f[i] <= f[j]}

\* At the first place where they differ, f is smaller.
Smaller(f, g) ==
  \E k \in DOMAIN f :
    /\ f[k] < g[k]
    /\ \A j \in DOMAIN f : j < k => f[j] = g[j]

Greater(f, m, n) == {g \in Profiles(m, n) : Smaller(f, g)}

\* A failed login that does not lock makes the profile smaller, and only what resets the
\* streak makes it greater: so the streak is as long as the way down from the greatest, at
\* most (auth_service.py, lines 165-170).
StreakFollowsProfile ==
  /\ account.status = "locked" => streak = 0
  /\ streak <= Cardinality(Greater(Profile, MaxAttempts, Cardinality(Requests)))

\* What exceptions.py, line 55 tells the user of a disabled account: "Account is
\* disabled. Please contact an administrator."  It ends by an administrator's request.
DisabledUntilEnabled ==
  [][account.status = "disabled" /\ account'.status # "disabled" =>
       \E r \in Requests : requests[r].op \in AdminOps]_vars

=============================================================================
