------------------------- MODULE AccountStatusProofs -------------------------
(***************************************************************************)
(* Theorems about AccountStatus, for any number of concurrent requests and *)
(* any limits and durations.                                               *)
(***************************************************************************)
EXTENDS AccountStatus, FiniteSetTheorems, WellFoundedInduction, TLAPS

\* A new account was never locked, and nothing has been read of it.
LEMMA InitEstablishesIndInv == Init => IndInv
<1> SUFFICES ASSUME Init PROVE IndInv
  OBVIOUS
<1> USE DEF Init, NewRow, NoRequest, NoDeadline
<1>1. account \in Rows
  BY DEF Rows, Statuses
<1>2. NoRequest \in RequestStates
  BY <1>1 DEF RequestStates, Ops
<1>3. TypeOK
  BY <1>1, <1>2, BoundsAreNat, LockDurationIsPositive DEF TypeOK
<1>4. CountedFailuresHappened /\ SnapshotsAreOld
  BY LockDurationIsPositive DEF CountedFailuresHappened, SnapshotsAreOld
<1> QED
  BY <1>3, <1>4 DEF IndInv

\* Columns of the new row and of the row in the table are all an UPDATE can leave.
LEMMA WrittenMixesColumns ==
  ASSUME NEW old \in Rows, NEW read \in Rows, NEW new \in Rows
  PROVE  /\ Written(old, read, new) \in Rows
         /\ Written(old, read, new).failed_login_attempts
              \in {old.failed_login_attempts, new.failed_login_attempts}
         /\ Written(old, read, new).locked_until \in {old.locked_until, new.locked_until}
BY DEF Written, Rows

\* One more failed login is one more on the counter that was read, at most.
LEMMA FailedCountsOne ==
  ASSUME NEW row \in Rows, NEW t \in Nat
  PROVE  /\ Failed(row, t) \in Rows
         /\ Failed(row, t).failed_login_attempts = row.failed_login_attempts + 1
         /\ Failed(row, t).locked_until \in {row.locked_until, t + LockDuration}
<1>1. row.failed_login_attempts + 1 \in Nat /\ t + LockDuration \in Nat
  BY LockDurationIsPositive DEF Rows
<1> QED
  BY <1>1 DEF Failed, Rows, Statuses

\* Every action preserves the inductive invariant.
LEMMA NextPreservesIndInv ==
  ASSUME IndInv, [Next]_vars
  PROVE  IndInv'
<1> USE DEF IndInv, TypeOK
<1>1. NewRow \in Rows /\ NoRequest \in RequestStates
  BY DEF NewRow, NoRequest, Rows, Statuses, RequestStates, Ops, NoDeadline
<1>0. /\ NoRequest.row.failed_login_attempts = 0
      /\ NoRequest.row.locked_until = 0
      /\ NoRequest.readAt = 0
      /\ now + LockDuration \in Nat
  BY LockDurationIsPositive DEF NoRequest, NewRow, NoDeadline
<1>2. ASSUME NEW r \in Requests, NEW q \in RequestStates,
             requests' = [requests EXCEPT ![r] = q],
             q.row.failed_login_attempts <= failures',
             q.row.locked_until <= now + LockDuration,
             q.readAt <= now,
             failures <= failures', failures' \in Nat,
             now' = now
      PROVE  requests' \in [Requests -> RequestStates] /\ SnapshotsAreOld'
  <2>1. /\ requests'[r] = q
        /\ \A p \in Requests \ {r} : requests'[p] = requests[p]
    BY <1>2
  <2>2. \A p \in Requests : requests[p].row.failed_login_attempts \in Nat
    BY DEF RequestStates, Rows
  <2> QED
    BY <1>2, <2>1, <2>2 DEF SnapshotsAreOld
<1>3. ASSUME NEW r \in Requests, NEW new \in Rows, Write(r, new),
             failures' \in 0..MaxFailures, failures <= failures', streak' \in 0..failures',
             now' = now,
             new.failed_login_attempts <= failures',
             new.locked_until <= now + LockDuration
      PROVE  IndInv'
  <2>1. requests[r].row \in Rows
    BY DEF RequestStates
  <2>2. /\ account' \in Rows
        /\ account'.failed_login_attempts
             \in {account.failed_login_attempts, new.failed_login_attempts}
        /\ account'.locked_until \in {account.locked_until, new.locked_until}
    BY <1>3, <2>1, WrittenMixesColumns DEF Write
  <2>3. account.failed_login_attempts \in Nat /\ new.failed_login_attempts \in Nat
    BY DEF Rows
  <2>4. CountedFailuresHappened'
    BY <1>3, <2>2, <2>3 DEF CountedFailuresHappened
  <2>5. requests' \in [Requests -> RequestStates] /\ SnapshotsAreOld'
    <3>1. requests' = [requests EXCEPT ![r] = NoRequest]
      BY <1>3 DEF Write, Respond
    <3>2. failures' \in Nat /\ 0 <= failures' /\ 0 <= now /\ 0 <= now + LockDuration
      BY <1>3, <1>0
    <3> QED
      BY <1>1, <1>0, <1>2, <1>3, <3>1, <3>2
  <2> QED
    BY <1>3, <2>2, <2>4, <2>5
<1>4. ASSUME NEW r \in Requests
      PROVE  /\ requests[r].row \in Rows
             /\ requests[r].row.failed_login_attempts <= failures
             /\ requests[r].row.locked_until <= now + LockDuration
             /\ \A t \in ClockReadings(r) : t \in Nat /\ t + LockDuration <= now + LockDuration
  BY LockDurationIsPositive DEF RequestStates, SnapshotsAreOld, ClockReadings
<1>5. ASSUME NEW r \in Requests, CommitFailed(r)
      PROVE  IndInv'
  <2>1. PICK t \in ClockReadings(r) : Write(r, Failed(requests[r].row, t))
    BY <1>5 DEF CommitFailed
  <2> DEFINE new == Failed(requests[r].row, t)
  <2>2. /\ new \in Rows
        /\ new.failed_login_attempts = requests[r].row.failed_login_attempts + 1
        /\ new.locked_until \in {requests[r].row.locked_until, t + LockDuration}
    BY <1>4, FailedCountsOne
  <2>3. /\ failures' \in 0..MaxFailures /\ failures <= failures' /\ streak' \in 0..failures'
        /\ now' = now
        /\ failures' = failures + 1
    BY <1>5, BoundsAreNat DEF CommitFailed
  <2>4. new.failed_login_attempts <= failures' /\ new.locked_until <= now + LockDuration
    BY <1>4, <2>2, <2>3 DEF Rows
  <2> HIDE DEF new
  <2> QED
    BY <1>3, <2>1, <2>2, <2>3, <2>4 DEF new
<1>6. ASSUME NEW r \in Requests, CommitLogin(r) \/ CommitUnlock(r)
      PROVE  IndInv'
  BY <1>1, <1>3, <1>6, LockDurationIsPositive
  DEF CommitLogin, CommitUnlock, LoggedIn, Unlocked, NewRow, NoDeadline
<1>7. ASSUME NEW r \in Requests, CommitLock(r)
      PROVE  IndInv'
  <2>1. PICK t \in ClockReadings(r) : Write(r, Locked(requests[r].row, t))
    BY <1>7 DEF CommitLock
  <2> DEFINE new == Locked(requests[r].row, t)
  <2>2. t \in Nat /\ t + LockDuration \in Nat
    BY <1>4, LockDurationIsPositive
  <2>3. /\ new \in Rows
        /\ new.failed_login_attempts = requests[r].row.failed_login_attempts
        /\ new.locked_until = t + LockDuration
    BY <1>4, <2>2 DEF Locked, Rows, Statuses
  <2> HIDE DEF new
  <2> QED
    BY <1>3, <1>4, <1>7, <2>1, <2>3 DEF new, CommitLock
<1>8. ASSUME NEW r \in Requests, CommitDisable(r) \/ CommitEnable(r)
      PROVE  IndInv'
  <2>1. PICK new \in {Disabled(requests[r].row), Enabled(requests[r].row)} : Write(r, new)
    BY <1>8 DEF CommitDisable, CommitEnable
  <2>2. /\ new \in Rows
        /\ new.failed_login_attempts = requests[r].row.failed_login_attempts
        /\ new.locked_until = requests[r].row.locked_until
    BY <1>4 DEF Disabled, Enabled, Rows, Statuses
  <2>3. UNCHANGED <<now, failures>> /\ streak' = 0
    BY <1>8 DEF CommitDisable, CommitEnable
  <2> QED
    BY <1>3, <1>4, <2>1, <2>2, <2>3
<1>9. ASSUME NEW r \in Requests, LoginRead(r) \/ AdminRead(r)
      PROVE  IndInv'
  <2>1. PICK op \in Ops : Read(r, op)
    BY <1>9 DEF LoginRead, AdminRead, Ops, AdminOps
  <2> DEFINE q == [op |-> op, row |-> account, readAt |-> now]
  <2>2. q \in RequestStates
    BY DEF RequestStates
  <2>3. requests' \in [Requests -> RequestStates] /\ SnapshotsAreOld'
    <3>1. /\ requests' = [requests EXCEPT ![r] = q]
          /\ UNCHANGED <<account, now, failures, streak>>
      BY <2>1 DEF Read
    <3>2. /\ q.row.failed_login_attempts <= failures'
          /\ q.row.locked_until <= now + LockDuration
          /\ q.readAt <= now
      BY <3>1 DEF CountedFailuresHappened
    <3>3. failures' \in Nat /\ failures <= failures' /\ now' = now
      BY <3>1
    <3> HIDE DEF q
    <3> QED
      BY <1>2, <2>2, <3>1, <3>2, <3>3
  <2> QED
    BY <2>1, <2>3 DEF Read, CountedFailuresHappened
<1>10. ASSUME NEW r \in Requests, Abort(r)
       PROVE  IndInv'
  <2>1. requests' \in [Requests -> RequestStates] /\ SnapshotsAreOld'
    <3>1. requests' = [requests EXCEPT ![r] = NoRequest] /\ failures' = failures /\ now' = now
      BY <1>10 DEF Abort, Respond
    <3>2. /\ failures' \in Nat /\ 0 <= failures' /\ failures <= failures'
          /\ 0 <= now /\ 0 <= now + LockDuration
      BY <3>1, <1>0
    <3> QED
      BY <1>1, <1>0, <1>2, <3>1, <3>2
  <2> QED
    BY <1>10, <2>1 DEF Abort, CountedFailuresHappened
<1>11. CASE Tick
  <2>1. \A r \in Requests : requests[r].row.locked_until \in Nat /\ requests[r].readAt \in Nat
    BY DEF RequestStates, Rows
  <2>2. account.locked_until \in Nat
    BY DEF Rows
  <2> QED
    BY <1>11, <2>1, <2>2, BoundsAreNat, LockDurationIsPositive
    DEF Tick, CountedFailuresHappened, SnapshotsAreOld
<1>12. CASE UNCHANGED vars
  BY <1>12 DEF vars, CountedFailuresHappened, SnapshotsAreOld
<1> QED
  BY <1>5, <1>6, <1>7, <1>8, <1>9, <1>10, <1>11, <1>12 DEF Next

\* The invariant holds however logins and administrators overtake each other.
THEOREM Invariance == Spec => []IndInv
<1>1. Init => IndInv
  BY InitEstablishesIndInv
<1>2. IndInv /\ [Next]_vars => IndInv'
  BY NextPreservesIndInv
<1> QED
  BY <1>1, <1>2, PTL DEF Spec

\* Type correctness; no lock lasts longer than LockDuration from now.
THEOREM TypeCorrectness == Spec => []TypeOK
<1>1. IndInv => TypeOK
  BY DEF IndInv
<1> QED
  BY <1>1, Invariance, PTL

\* Nobody is locked out for failed logins that did not happen.
THEOREM NoPhantomFailures == Spec => []CountedFailuresHappened
<1>1. IndInv => CountedFailuresHappened
  BY DEF IndInv
<1> QED
  BY <1>1, Invariance, PTL

\* A login does not undo a lock or a disabling it has not seen.
THEOREM StaleLoginIsHarmless == Spec => StaleLoginKeepsStatus
<1>1. ASSUME NEW r \in Requests, CommitLogin(r), requests[r].row.status = "active"
      PROVE  account'.status = account.status
  BY <1>1 DEF CommitLogin, Write, Written, LoggedIn, NewRow
<1>2. [\A r \in Requests :
         CommitLogin(r) /\ requests[r].row.status = "active" =>
           account'.status = account.status]_vars
  BY <1>1
<1> QED
  BY <1>2, PTL DEF StaleLoginKeepsStatus

\* What the status and the deadline of the row that a request writes may be.
Decided(r, new) ==
  LET read == requests[r].row
  IN \/ /\ new.status = "active" /\ new.locked_until = NoDeadline
        /\ \/ requests[r].op = "unlock"
           \/ requests[r].op = "login" /\ \E t \in ClockReadings(r) : Admitted(read, t)
     \/ new.status = "locked" /\ new.locked_until # NoDeadline
     \/ /\ new.locked_until = read.locked_until
        /\ \/ new.status \in {read.status, "disabled"}
           \/ requests[r].op = "enable" /\ new.status = "active"

\* Whatever changes the row was decided by one request, which is answered then.
LEMMA ChangesAreDecided ==
  ASSUME TypeOK, [Next]_vars, account' # account
  PROVE  \E r \in Requests, new \in Rows :
           /\ account' = Written(account, requests[r].row, new)
           /\ requests'[r].op = "none"
           /\ Decided(r, new)
<1> DEFINE Goal(r, new) ==
      account' = Written(account, requests[r].row, new) /\ requests'[r].op = "none" /\ Decided(r, new)
<1>1. PICK r \in Requests :
        \/ CommitFailed(r) \/ CommitLogin(r) \/ CommitLock(r)
        \/ CommitUnlock(r) \/ CommitDisable(r) \/ CommitEnable(r)
  BY DEF Next, vars, LoginRead, AdminRead, Read, Abort, Tick
<1>2. requests[r].row \in Rows /\ \A t \in ClockReadings(r) : t \in Nat
  BY DEF TypeOK, RequestStates, ClockReadings
<1>3. ASSUME NEW new \in Rows, Write(r, new), Decided(r, new)
      PROVE  Goal(r, new)
  BY <1>3 DEF Write, Respond, NoRequest, TypeOK
<1>4. NewRow \in Rows /\ NewRow.status = "active" /\ NewRow.locked_until = NoDeadline
  BY DEF NewRow, Rows, Statuses, NoDeadline
<1> HIDE DEF Goal
<1>5. CASE CommitFailed(r)
  <2>1. PICK t \in ClockReadings(r) : Write(r, Failed(requests[r].row, t))
    BY <1>5 DEF CommitFailed
  <2>2. t \in Nat /\ t + LockDuration \in Nat /\ t + LockDuration # NoDeadline
    BY <1>2, LockDurationIsPositive DEF NoDeadline
  <2>3. Failed(requests[r].row, t) \in Rows
    BY <1>2, <2>2, FailedCountsOne
  <2>4. Decided(r, Failed(requests[r].row, t))
    BY <1>2, <2>2 DEF Decided, Failed, Rows
  <2> QED
    BY <1>3, <2>1, <2>3, <2>4 DEF Goal
<1>6. CASE CommitLogin(r) \/ CommitUnlock(r)
  <2>1. Write(r, NewRow) /\ Decided(r, NewRow)
    BY <1>4, <1>6 DEF CommitLogin, CommitUnlock, LoggedIn, Unlocked, Decided
  <2> QED
    BY <1>3, <1>4, <2>1 DEF Goal
<1>7. CASE CommitLock(r)
  <2>1. PICK t \in ClockReadings(r) : Write(r, Locked(requests[r].row, t))
    BY <1>7 DEF CommitLock
  <2>2. t \in Nat /\ t + LockDuration \in Nat /\ t + LockDuration # NoDeadline
    BY <1>2, LockDurationIsPositive DEF NoDeadline
  <2>3. Locked(requests[r].row, t) \in Rows /\ Decided(r, Locked(requests[r].row, t))
    BY <1>2, <2>2 DEF Locked, Rows, Statuses, Decided
  <2> QED
    BY <1>3, <2>1, <2>3 DEF Goal
<1>8. CASE CommitDisable(r) \/ CommitEnable(r)
  <2>1. PICK new \in {Disabled(requests[r].row), Enabled(requests[r].row)} :
          /\ Write(r, new)
          /\ new = Disabled(requests[r].row) \/ requests[r].op = "enable"
    BY <1>8 DEF CommitDisable, CommitEnable
  <2>2. new \in Rows /\ Decided(r, new)
    BY <1>2, <2>1 DEF Disabled, Enabled, Rows, Statuses, Decided
  <2> QED
    BY <1>3, <2>1, <2>2 DEF Goal
<1> QED
  BY <1>1, <1>5, <1>6, <1>7, <1>8 DEF Goal

\* A lock ends before its deadline only by an administrator, or by a login that found an
\* older lock over.
THEOREM LocksHold == Spec => LockHoldsUntilDeadline
<1> DEFINE Ends(r) ==
      /\ requests'[r].op = "none"
      /\ \/ requests[r].op \in {"unlock", "enable"}
         \/ /\ requests[r].op = "login"
            /\ requests[r].row.status = "locked"
            /\ requests[r].row.locked_until <= now
<1>1. ASSUME TypeOK, [Next]_vars,
             account.status = "locked", now < account.locked_until, account'.status = "active"
      PROVE  \E r \in Requests : Ends(r)
  <2>1. PICK r \in Requests, new \in Rows :
          /\ account' = Written(account, requests[r].row, new)
          /\ requests'[r].op = "none"
          /\ Decided(r, new)
    BY <1>1, ChangesAreDecided
  <2>2. new.status = "active" /\ requests[r].row.status # "active"
    BY <1>1, <2>1 DEF Written
  <2>3. CASE requests[r].op \in {"unlock", "enable"}
    BY <2>1, <2>3
  <2>4. CASE requests[r].op \notin {"unlock", "enable"}
    <3>1. PICK t \in ClockReadings(r) : Admitted(requests[r].row, t)
      BY <2>1, <2>2, <2>4 DEF Decided
    <3>2. requests[r].op = "login"
      BY <2>1, <2>2, <2>4 DEF Decided
    <3>3. requests[r].row.status = "locked" /\ LockHasExpired(requests[r].row, t)
      BY <2>2, <3>1 DEF Admitted
    <3>4. /\ requests[r].row.locked_until \in Nat /\ now \in Nat
          /\ t \in Nat /\ t <= now
      BY <1>1, <3>1 DEF TypeOK, RequestStates, Rows, ClockReadings
    <3>5. requests[r].row.locked_until <= now
      BY <3>3, <3>4 DEF LockHasExpired, NoDeadline
    <3> QED
      BY <2>1, <3>2, <3>3, <3>5
  <2> QED
    BY <2>3, <2>4
<1>2. TypeOK /\ [Next]_vars =>
        [account.status = "locked" /\ now < account.locked_until /\ account'.status = "active" =>
           \E r \in Requests : Ends(r)]_vars
  BY <1>1
<1> QED
  BY <1>2, TypeCorrectness, PTL DEF Spec, LockHoldsUntilDeadline

\* A lock is without a deadline only where a request met a left-over deadline on an
\* account that was not locked.
THEOREM LocksHaveDeadlines == Spec => LocksKeepDeadlines
<1> DEFINE Met(r) ==
      /\ requests'[r].op = "none"
      /\ requests[r].row.status # "locked"
      /\ requests[r].row.locked_until # NoDeadline
<1> DEFINE Void == account.status = "locked" /\ account.locked_until = NoDeadline
<1>1. ASSUME TypeOK, [Next]_vars,
             account'.status = "locked", account'.locked_until = NoDeadline, ~Void
      PROVE  \E r \in Requests : Met(r)
  <2>1. PICK r \in Requests, new \in Rows :
          /\ account' = Written(account, requests[r].row, new)
          /\ requests'[r].op = "none"
          /\ Decided(r, new)
    BY <1>1, ChangesAreDecided
  <2>2. CASE account.locked_until # NoDeadline
    <3>1. new.locked_until = NoDeadline /\ requests[r].row.locked_until # NoDeadline
      BY <1>1, <2>1, <2>2 DEF Written
    <3>2. new.status = "active"
      BY <2>1, <3>1 DEF Decided
    <3>3. requests[r].row.status # "locked"
      BY <1>1, <2>1, <3>2 DEF Written
    <3> QED
      BY <2>1, <3>1, <3>3
  <2>3. CASE account.status # "locked"
    <3>1. new.status = "locked" /\ requests[r].row.status # "locked"
      BY <1>1, <2>1, <2>3 DEF Written
    <3>2. new.locked_until # NoDeadline
      BY <2>1, <3>1 DEF Decided
    <3> QED
      BY <1>1, <2>1, <3>1, <3>2 DEF Written
  <2> QED
    BY <1>1, <2>2, <2>3
<1>2. TypeOK /\ [Next]_vars =>
        [account'.status = "locked" /\ account'.locked_until = NoDeadline =>
           Void \/ \E r \in Requests : Met(r)]_vars
  BY <1>1
<1> QED
  BY <1>2, TypeCorrectness, PTL DEF Spec, LocksKeepDeadlines

-----------------------------------------------------------------------------
(***************************************************************************)
(* GuessBudget is the number of profiles.  It is defined by recursion; the *)
(* proofs take the least pair of numbers for which it is not, and find a   *)
(* smaller one.                                                            *)
(***************************************************************************)
\* A set of natural numbers that is not empty has a least element.
LEMMA LeastElement ==
  ASSUME NEW S \in SUBSET Nat, S # {}
  PROVE  \E k \in S : \A j \in S : k <= j
<1> DEFINE R == OpToRel(<, Nat)
<1>1. IsWellFoundedOn(R, Nat)
  BY NatLessThanWellFounded
<1>2. \A j, k \in Nat : j < k => <<j, k>> \in R
  BY Zenon DEF OpToRel
<1> HIDE DEF R
<1>3. PICK k \in S : \A j \in S : <<j, k>> \notin R
  BY <1>1, WFMin
<1>4. \A j \in S : ~(j < k)
  BY <1>2, <1>3, Zenon
<1> QED
  BY <1>4

\* Functions between finite sets are finitely many, so profiles are.
LEMMA ProfilesAreFinite ==
  ASSUME NEW m \in Nat, NEW n \in Nat
  PROVE  IsFiniteSet(Profiles(m, n)) /\ Cardinality(Profiles(m, n)) \in Nat
<1> DEFINE D == 1..(m - 1)
           C == 0..n
           Graph == [f \in Profiles(m, n) |-> {p \in D \X C : f[p[1]] = p[2]}]
<1>1. IsFiniteSet(D) /\ IsFiniteSet(C)
  BY FS_Interval
<1>2. \A f \in Profiles(m, n) : f \in [D -> C]
  BY DEF Profiles
<1> HIDE DEF D, C
<1>3. ASSUME NEW f \in Profiles(m, n), NEW g \in Profiles(m, n), Graph[f] = Graph[g]
      PROVE  f = g
  <2>1. ASSUME NEW i \in D
        PROVE  f[i] = g[i]
    <3>1. <<i, f[i]>> \in Graph[f]
      BY <1>2
    <3> QED
      BY <1>3, <3>1
  <2> QED
    BY <1>2, <2>1
<1>4. Graph \in [Profiles(m, n) -> SUBSET (D \X C)]
  OBVIOUS
<1> HIDE DEF Graph
<1>5. Graph \in Injection(Profiles(m, n), SUBSET (D \X C))
  BY <1>3, <1>4 DEF Injection, IsInjective
<1>6. IsFiniteSet(SUBSET (D \X C))
  BY <1>1, FS_Product, FS_SUBSET
<1>7. IsFiniteSet(Profiles(m, n))
  BY <1>5, <1>6, FS_Injection
<1> QED
  BY <1>7, FS_CardinalityType

\* With one attempt there is nothing to count from, without requests nobody who counts.
LEMMA OneProfile ==
  ASSUME NEW m \in Nat \ {0}, NEW n \in Nat, m = 1 \/ n = 0
  PROVE  Cardinality(Profiles(m, n)) = 1
<1> DEFINE f == [i \in 1..(m - 1) |-> 0]
<1>1. f \in Profiles(m, n)
  BY DEF Profiles
<1>2. ASSUME NEW g \in Profiles(m, n)
      PROVE  g = f
  BY DEF Profiles
<1> HIDE DEF f
<1>3. Profiles(m, n) = {f}
  BY <1>1, <1>2
<1> QED
  BY <1>3, FS_Singleton

\* A profile either ends in n, and the rest is one of an attempt less, or it is one of a
\* request less.
LEMMA ProfilesSplit ==
  ASSUME NEW m \in Nat, NEW n \in Nat, 1 < m, 0 < n
  PROVE  Cardinality(Profiles(m, n))
           = Cardinality(Profiles(m - 1, n)) + Cardinality(Profiles(m, n - 1))
<1> DEFINE Top == {f \in Profiles(m, n) : f[m - 1] = n}
           Extend == [g \in Profiles(m - 1, n) |->
                        [i \in 1..(m - 1) |-> IF i = m - 1 THEN n ELSE g[i]]]
<1>1. Profiles(m, n) = Profiles(m, n - 1) \cup Top
  <2>1. ASSUME NEW f \in Profiles(m, n - 1)
        PROVE  f \in Profiles(m, n)
    BY DEF Profiles
  <2>2. ASSUME NEW f \in Profiles(m, n), f[m - 1] # n
        PROVE  f \in Profiles(m, n - 1)
    <3>1. /\ f \in [1..(m - 1) -> 0..n]
          /\ \A i, j \in 1..(m - 1) : i <= j => f[i] <= f[j]
      BY DEF Profiles
    <3>2. f[m - 1] \in 0..(n - 1)
      BY <2>2, <3>1
    <3>3. \A i \in 1..(m - 1) : f[i] \in 0..(n - 1)
      BY <3>1, <3>2
    <3> QED
      BY <3>1, <3>3 DEF Profiles
  <2> QED
    BY <2>1, <2>2
<1>2. Profiles(m, n - 1) \cap Top = {}
  <2>1. \A f \in Profiles(m, n - 1) : f[m - 1] \in 0..(n - 1)
    BY DEF Profiles
  <2> QED
    BY <2>1
<1>3. Extend \in Bijection(Profiles(m - 1, n), Top)
  <2>1. ASSUME NEW g \in Profiles(m - 1, n)
        PROVE  Extend[g] \in Top
    <3> DEFINE f == [i \in 1..(m - 1) |-> IF i = m - 1 THEN n ELSE g[i]]
    <3>1. /\ g \in [1..(m - 2) -> 0..n]
          /\ \A i, j \in 1..(m - 2) : i <= j => g[i] <= g[j]
      BY DEF Profiles
    <3>2. f \in [1..(m - 1) -> 0..n] /\ f[m - 1] = n
      BY <3>1
    <3>3. \A i, j \in 1..(m - 1) : i <= j => f[i] <= f[j]
      BY <3>1
    <3> HIDE DEF f
    <3>4. f \in Top
      BY <3>2, <3>3 DEF Profiles
    <3> QED
      BY <3>4 DEF f
  <2>2. ASSUME NEW g \in Profiles(m - 1, n), NEW h \in Profiles(m - 1, n), Extend[g] = Extend[h]
        PROVE  g = h
    <3>1. g \in [1..(m - 2) -> 0..n] /\ h \in [1..(m - 2) -> 0..n]
      BY DEF Profiles
    <3>2. ASSUME NEW i \in 1..(m - 2)
          PROVE  g[i] = h[i]
      <4>1. i \in 1..(m - 1) /\ i # m - 1
        OBVIOUS
      <4>2. Extend[g][i] = g[i] /\ Extend[h][i] = h[i]
        BY <4>1
      <4> QED
        BY <2>2, <4>2
    <3> QED
      BY <3>1, <3>2
  <2>3. ASSUME NEW f \in Top
        PROVE  \E g \in Profiles(m - 1, n) : Extend[g] = f
    <3> DEFINE g == [i \in 1..(m - 2) |-> f[i]]
    <3>1. /\ f \in [1..(m - 1) -> 0..n]
          /\ \A i, j \in 1..(m - 1) : i <= j => f[i] <= f[j]
          /\ f[m - 1] = n
      BY DEF Profiles
    <3>2. g \in [1..(m - 2) -> 0..n] /\ \A i, j \in 1..(m - 2) : i <= j => g[i] <= g[j]
      BY <3>1
    <3>3. g \in Profiles(m - 1, n)
      BY <3>2 DEF Profiles
    <3>4. [i \in 1..(m - 1) |-> IF i = m - 1 THEN n ELSE g[i]] = f
      BY <3>1
    <3> HIDE DEF g
    <3>5. Extend[g] = f
      BY <3>3, <3>4
    <3> QED
      BY <3>3, <3>5
  <2> HIDE DEF Top, Extend
  <2>4. Extend \in [Profiles(m - 1, n) -> Top]
    BY <2>1 DEF Extend
  <2>5. Extend \in Injection(Profiles(m - 1, n), Top)
    BY <2>2, <2>4 DEF Injection, IsInjective
  <2>6. Extend \in Surjection(Profiles(m - 1, n), Top)
    BY <2>3, <2>4 DEF Surjection
  <2> QED
    BY <2>5, <2>6 DEF Bijection
<1> HIDE DEF Top, Extend
<1>4. /\ IsFiniteSet(Profiles(m - 1, n)) /\ Cardinality(Profiles(m - 1, n)) \in Nat
      /\ IsFiniteSet(Profiles(m, n - 1)) /\ Cardinality(Profiles(m, n - 1)) \in Nat
  <2>1. m - 1 \in Nat /\ n - 1 \in Nat
    OBVIOUS
  <2> QED
    BY <2>1, ProfilesAreFinite
<1>5. IsFiniteSet(Top) /\ Cardinality(Top) = Cardinality(Profiles(m - 1, n))
  BY <1>3, <1>4, FS_Bijection DEF ExistsBijection
<1>6. Cardinality(Profiles(m, n))
        = Cardinality(Profiles(m, n - 1)) + Cardinality(Top)
            - Cardinality(Profiles(m, n - 1) \cap Top)
  BY <1>1, <1>4, <1>5, FS_Union
<1>7. Cardinality(Profiles(m, n - 1) \cap Top) = 0
  BY <1>2, FS_EmptySet
<1> QED
  BY <1>4, <1>5, <1>6, <1>7

\* With one request there are as many profiles as attempts.
LEMMA ProfilesOfOne ==
  \A m \in Nat \ {0} : Cardinality(Profiles(m, 1)) = m
<1> DEFINE Bad == {m \in Nat \ {0} : Cardinality(Profiles(m, 1)) # m}
<1> SUFFICES ASSUME Bad # {} PROVE FALSE
  OBVIOUS
<1>1. PICK m \in Bad : \A j \in Bad : m <= j
  <2>1. Bad \in SUBSET Nat
    OBVIOUS
  <2> HIDE DEF Bad
  <2> QED
    BY <2>1, LeastElement
<1>2. m # 1
  BY OneProfile
<1>3. m - 1 \in Nat \ {0} /\ m - 1 \notin Bad
  BY <1>1, <1>2
<1>4. Cardinality(Profiles(m, 1)) = Cardinality(Profiles(m - 1, 1)) + Cardinality(Profiles(m, 0))
  <2>1. m \in Nat /\ 1 \in Nat /\ 1 < m /\ 0 < 1 /\ 1 - 1 = 0
    BY <1>2
  <2> QED
    BY <2>1, ProfilesSplit
<1>5. Cardinality(Profiles(m, 0)) = 1
  BY OneProfile
<1>6. Cardinality(Profiles(m - 1, 1)) = m - 1
  BY <1>3
<1> QED
  BY <1>4, <1>5, <1>6

\* The right-hand side of the definition of GuessBudget.
Budget(g, m, n) ==
  IF m <= 1 THEN 1 ELSE IF n <= 1 THEN m ELSE g[<<m - 1, n>>] + g[<<m, n - 1>>]

\* There is a function that the definition of GuessBudget describes: the number of profiles.
LEMMA BudgetIsDefined ==
  ASSUME NEW m \in Nat, NEW n \in Nat
  PROVE  GuessBudget[<<m, n>>] = Budget(GuessBudget, m, n)
<1> DEFINE Solves(g) == g = [p \in Nat \X Nat |-> Budget(g, p[1], p[2])]
           Count == [p \in Nat \X Nat |->
                       IF p[1] <= 1 THEN 1
                       ELSE IF p[2] <= 1 THEN p[1]
                       ELSE Cardinality(Profiles(p[1], p[2]))]
<1>1. ASSUME NEW i \in Nat, NEW j \in Nat, 1 < i, 1 < j
      PROVE  Cardinality(Profiles(i, j)) = Count[<<i - 1, j>>] + Count[<<i, j - 1>>]
  <2>1. i - 1 \in Nat \ {0} /\ j - 1 \in Nat \ {0}
    BY <1>1
  <2>2. Count[<<i - 1, j>>] = Cardinality(Profiles(i - 1, j))
    <3>1. CASE i - 1 = 1
      BY <1>1, <2>1, <3>1, OneProfile
    <3>2. CASE i - 1 # 1
      BY <1>1, <2>1, <3>2
    <3> QED
      BY <3>1, <3>2
  <2>3. Count[<<i, j - 1>>] = Cardinality(Profiles(i, j - 1))
    <3>1. CASE j - 1 = 1
      <4>1. Cardinality(Profiles(i, 1)) = i
        BY <1>1, ProfilesOfOne
      <4> QED
        BY <1>1, <2>1, <3>1, <4>1
    <3>2. CASE j - 1 # 1
      BY <1>1, <2>1, <3>2
    <3> QED
      BY <3>1, <3>2
  <2> HIDE DEF Count
  <2> QED
    BY <1>1, <2>2, <2>3, ProfilesSplit
<1>2. ASSUME NEW i \in Nat, NEW j \in Nat
      PROVE  Count[<<i, j>>] = Budget(Count, i, j)
  <2>1. Count[<<i, j>>] = IF i <= 1 THEN 1 ELSE IF j <= 1 THEN i ELSE Cardinality(Profiles(i, j))
    OBVIOUS
  <2> HIDE DEF Count
  <2> QED
    BY <1>1, <2>1 DEF Budget
<1>3. Solves(Count)
  <2>1. Count = [p \in Nat \X Nat |-> Count[<<p[1], p[2]>>]]
    OBVIOUS
  <2> HIDE DEF Count
  <2> QED
    BY <1>2, <2>1
<1> HIDE DEF Count
<1>4. GuessBudget = CHOOSE g : Solves(g)
  BY DEF GuessBudget, Budget
<1> HIDE DEF Solves
<1>5. Solves(GuessBudget)
  BY <1>3, <1>4
<1> QED
  BY <1>5 DEF Solves

\* As soon as a request can fail, there are as many profiles as GuessBudget says.
LEMMA BudgetCountsProfiles ==
  \A m, n \in Nat \ {0} : Cardinality(Profiles(m, n)) = GuessBudget[<<m, n>>]
<1> DEFINE Wrong(m, n) == Cardinality(Profiles(m, n)) # GuessBudget[<<m, n>>]
           Bad == {s \in Nat : \E m, n \in Nat \ {0} : s = m + n /\ Wrong(m, n)}
<1> SUFFICES ASSUME NEW m0 \in Nat \ {0}, NEW n0 \in Nat \ {0}, Wrong(m0, n0) PROVE FALSE
  OBVIOUS
<1>1. PICK s \in Bad : \A j \in Bad : s <= j
  <2>1. Bad \in SUBSET Nat /\ m0 + n0 \in Bad
    OBVIOUS
  <2> HIDE DEF Bad
  <2> QED
    BY <2>1, LeastElement
<1>2. PICK m \in Nat \ {0}, n \in Nat \ {0} : s = m + n /\ Wrong(m, n)
  OBVIOUS
<1>3. ASSUME NEW i \in Nat \ {0}, NEW j \in Nat \ {0}, i + j < m + n
      PROVE  Cardinality(Profiles(i, j)) = GuessBudget[<<i, j>>]
  <2>1. SUFFICES ASSUME Wrong(i, j) PROVE FALSE
    OBVIOUS
  <2> HIDE DEF Wrong
  <2>2. i + j \in Bad
    BY <2>1, i + j \in Nat
  <2> HIDE DEF Bad
  <2>3. s <= i + j
    BY <1>1, <2>2
  <2> QED
    BY <1>2, <1>3, <2>3
<1>4. Cardinality(Profiles(m, n)) # GuessBudget[<<m, n>>]
  BY <1>2
<1> HIDE DEF Wrong, Bad
<1>5. GuessBudget[<<m, n>>] = Budget(GuessBudget, m, n)
  BY BudgetIsDefined
<1>6. m # 1
  BY <1>4, <1>5, OneProfile DEF Budget
<1>7. n # 1
  BY <1>4, <1>5, <1>6, ProfilesOfOne DEF Budget
<1>8. m - 1 \in Nat \ {0} /\ n - 1 \in Nat \ {0} /\ 1 < m /\ 0 < n
  BY <1>6, <1>7
<1>9. GuessBudget[<<m, n>>] = GuessBudget[<<m - 1, n>>] + GuessBudget[<<m, n - 1>>]
  BY <1>5, <1>6, <1>7 DEF Budget
<1>10. /\ Cardinality(Profiles(m - 1, n)) = GuessBudget[<<m - 1, n>>]
       /\ Cardinality(Profiles(m, n - 1)) = GuessBudget[<<m, n - 1>>]
  BY <1>3, <1>8
<1>11. Cardinality(Profiles(m, n))
         = Cardinality(Profiles(m - 1, n)) + Cardinality(Profiles(m, n - 1))
  BY <1>8, ProfilesSplit
<1> QED
  BY <1>4, <1>9, <1>10, <1>11

-----------------------------------------------------------------------------
(***************************************************************************)
(* The lock comes within the budget.                                       *)
(***************************************************************************)
\* A profile is one of Profiles: the further a request may count from, the more may.
LEMMA ProfileIsProfile ==
  TypeOK => Profile \in Profiles(MaxAttempts, Cardinality(Requests))
<1> SUFFICES ASSUME TypeOK
             PROVE  Profile \in Profiles(MaxAttempts, Cardinality(Requests))
  OBVIOUS
<1> DEFINE D == 1..(MaxAttempts - 1)
<1>1. \A k \in D : Below(k) \in SUBSET Requests
  BY DEF Below
<1>2. \A k \in D : IsFiniteSet(Below(k)) /\ Cardinality(Below(k)) \in 0..Cardinality(Requests)
  BY <1>1, RequestsAreFinite, FS_Subset, FS_CardinalityType
<1>3. ASSUME NEW i \in D, NEW j \in D, i <= j
      PROVE  Below(i) \subseteq Below(j)
  <2>1. account.failed_login_attempts \in Nat
    BY DEF TypeOK, Rows
  <2>2. \A r \in Requests : requests[r].row.failed_login_attempts \in Nat
    BY DEF TypeOK, Rows, RequestStates
  <2>3. i = MaxAttempts - 1 => j = MaxAttempts - 1
    BY <1>3, MaxAttemptsIsPositive
  <2>4. ASSUME NEW r \in Requests, CanCountFrom(r, i)
        PROVE  CanCountFrom(r, j)
    BY <1>3, <2>1, <2>2, <2>3, <2>4 DEF CanCountFrom
  <2> QED
    BY <2>4 DEF Below
<1>4. \A i, j \in D : i <= j => Cardinality(Below(i)) <= Cardinality(Below(j))
  BY <1>2, <1>3, FS_Subset
<1>5. Profile \in [D -> 0..Cardinality(Requests)]
  BY <1>2 DEF Profile
<1>6. \A i \in D : Profile[i] = Cardinality(Below(i))
  BY DEF Profile
<1> QED
  BY <1>4, <1>5, <1>6 DEF Profiles

\* Greater(f, m, n) is finite, and f is not in it.
LEMMA GreaterIsPart ==
  ASSUME NEW m \in Nat, NEW n \in Nat, NEW f \in Profiles(m, n)
  PROVE  /\ IsFiniteSet(Greater(f, m, n)) /\ Cardinality(Greater(f, m, n)) \in Nat
         /\ Cardinality(Greater(f, m, n)) < Cardinality(Profiles(m, n))
         /\ f \notin Greater(f, m, n)
<1>1. f \notin Greater(f, m, n)
  BY DEF Greater, Smaller, Profiles
<1>2. Greater(f, m, n) \in SUBSET Profiles(m, n)
  BY DEF Greater
<1>3. IsFiniteSet(Profiles(m, n)) /\ Cardinality(Profiles(m, n)) \in Nat
  BY ProfilesAreFinite
<1>4. IsFiniteSet(Greater(f, m, n)) /\ Cardinality(Greater(f, m, n)) \in Nat
  BY <1>2, <1>3, FS_Subset, FS_CardinalityType
<1>5. /\ Cardinality(Greater(f, m, n)) <= Cardinality(Profiles(m, n))
      /\ Cardinality(Greater(f, m, n)) # Cardinality(Profiles(m, n))
  BY <1>1, <1>2, <1>3, FS_Subset
<1> QED
  BY <1>1, <1>3, <1>4, <1>5

\* What is greater than g, and g itself, is greater than whatever is smaller than g.
LEMMA SmallerHasMoreAbove ==
  ASSUME NEW m \in Nat, NEW n \in Nat, NEW f \in Profiles(m, n), NEW g \in Profiles(m, n),
         Smaller(f, g)
  PROVE  Cardinality(Greater(g, m, n)) + 1 <= Cardinality(Greater(f, m, n))
<1> DEFINE D == 1..(m - 1)
<1>1. f \in [D -> 0..n] /\ g \in [D -> 0..n]
  BY DEF Profiles
<1>2. ASSUME NEW h \in Profiles(m, n), Smaller(g, h)
      PROVE  Smaller(f, h)
  <2>1. h \in [D -> 0..n]
    BY DEF Profiles
  <2>2. PICK k \in D : f[k] < g[k] /\ \A i \in D : i < k => f[i] = g[i]
    BY <1>1 DEF Smaller
  <2>3. PICK l \in D : g[l] < h[l] /\ \A i \in D : i < l => g[i] = h[i]
    BY <1>1, <1>2 DEF Smaller
  <2>4. CASE k <= l
    <3>1. f[k] < h[k]
      <4>1. g[k] <= h[k]
        <5>1. CASE k = l
          BY <1>1, <2>1, <2>3, <5>1
        <5>2. CASE k # l
          BY <1>1, <2>1, <2>3, <2>4, <5>2
        <5> QED
          BY <5>1, <5>2
      <4> QED
        BY <1>1, <2>1, <2>2, <4>1
    <3>2. \A i \in D : i < k => f[i] = h[i]
      BY <2>2, <2>3, <2>4
    <3> QED
      BY <1>1, <3>1, <3>2 DEF Smaller
  <2>5. CASE l < k
    <3>1. f[l] < h[l]
      BY <1>1, <2>1, <2>2, <2>3, <2>5
    <3>2. \A i \in D : i < l => f[i] = h[i]
      BY <2>2, <2>3, <2>5
    <3> QED
      BY <1>1, <3>1, <3>2 DEF Smaller
  <2> QED
    BY <2>4, <2>5
<1>3. Greater(g, m, n) \cup {g} \in SUBSET Greater(f, m, n)
  BY <1>2 DEF Greater
<1>4. /\ IsFiniteSet(Greater(g, m, n)) /\ g \notin Greater(g, m, n)
      /\ IsFiniteSet(Greater(f, m, n))
  BY GreaterIsPart
<1>5. Cardinality(Greater(g, m, n) \cup {g}) = Cardinality(Greater(g, m, n)) + 1
  BY <1>4, FS_AddElement
<1> QED
  BY <1>3, <1>4, <1>5, FS_Subset

\* The first set that changes decides, if it loses requests only.
LEMMA ProfileFalls ==
  ASSUME TypeOK, TypeOK', NEW d \in 1..(MaxAttempts - 1),
         \A k \in 1..(MaxAttempts - 1) : k < d => Below(k)' = Below(k),
         Below(d)' \subseteq Below(d), Below(d)' # Below(d)
  PROVE  Smaller(Profile', Profile)
<1>1. Below(d) \in SUBSET Requests
  BY DEF Below
<1>2. IsFiniteSet(Below(d))
  BY <1>1, RequestsAreFinite, FS_Subset
<1>3. Cardinality(Below(d)') < Cardinality(Below(d))
  <2>1. Below(d)' \in SUBSET Below(d)
    OBVIOUS
  <2>2. /\ IsFiniteSet(Below(d)')
        /\ Cardinality(Below(d)') <= Cardinality(Below(d))
        /\ Cardinality(Below(d)') # Cardinality(Below(d))
    BY <1>2, <2>1, FS_Subset
  <2> QED
    BY <1>2, <2>2, FS_CardinalityType
<1>4. \A k \in 1..(MaxAttempts - 1) :
        Profile[k] = Cardinality(Below(k)) /\ Profile'[k] = Cardinality(Below(k)')
  BY DEF Profile
<1>5. DOMAIN Profile' = 1..(MaxAttempts - 1)
  BY DEF Profile
<1> QED
  BY <1>3, <1>4, <1>5 DEF Smaller

\* A failed login that does not lock makes the profile smaller.
LEMMA FailureLowersProfile ==
  ASSUME MaxAttempts > 1, TypeOK, TypeOK', NEW r \in Requests, CommitFailed(r),
         account'.status # "locked"
  PROVE  Smaller(Profile', Profile)
<1> DEFINE s == requests[r].row.failed_login_attempts
           c == account.failed_login_attempts
<1>1. s \in Nat /\ c \in Nat /\ MaxAttempts \in Nat
  BY MaxAttemptsIsPositive DEF TypeOK, Rows, RequestStates
<1>2. PICK t \in ClockReadings(r) : Write(r, Failed(requests[r].row, t))
  BY DEF CommitFailed
<1>3. account'.failed_login_attempts = s + 1
  BY <1>1, <1>2 DEF Write, Written, Failed
<1>4. s + 1 < MaxAttempts \/ requests[r].row.status = "locked"
  BY <1>1, <1>2 DEF Write, Written, Failed
<1>5. requests'[r].op = "none" /\ \A p \in Requests \ {r} : requests'[p] = requests[p]
  BY <1>2 DEF Write, Respond, NoRequest, TypeOK
<1>6. requests[r].op = "wrong_password"
  BY DEF CommitFailed
<1> DEFINE w == IF s + 1 < MaxAttempts THEN s ELSE MaxAttempts - 2
<1>7. PICK d \in 1..(MaxAttempts - 1) :
        /\ d <= s + 1
        /\ d = c + 1 \/ d = w + 1
        /\ \A k \in Nat : k < d => k <= c /\ k <= w
        /\ w <= s /\ w + 1 <= MaxAttempts - 1 /\ w \in Nat
  <2>1. w \in Nat /\ w <= s /\ w + 1 <= MaxAttempts - 1
    BY <1>1
  <2>2. PICK d : d = IF c < w THEN c + 1 ELSE w + 1
    OBVIOUS
  <2> HIDE DEF w
  <2>3. /\ d \in 1..(MaxAttempts - 1) /\ d <= s + 1
        /\ d = c + 1 \/ d = w + 1
        /\ \A k \in Nat : k < d => k <= c /\ k <= w
    BY <1>1, <2>1, <2>2
  <2> QED
    BY <2>1, <2>3
<1>8. ASSUME NEW k \in 1..(MaxAttempts - 1), k < d, NEW p \in Requests
      PROVE  CanCountFrom(p, k)' <=> CanCountFrom(p, k)
  <2>1. ~(c < k) /\ ~(s + 1 < k) /\ ~(s < k) /\ k # MaxAttempts - 1
    <3> HIDE DEF s, c, w
    <3> QED
      BY <1>1, <1>7, <1>8
  <2> HIDE DEF w
  <2> QED
    BY <1>3, <1>5, <2>1 DEF CanCountFrom
<1>9. CanCountFrom(r, d)
  <2>1. CASE d = c + 1
    <3>1. c < d
      BY <1>1, <2>1
    <3> QED
      BY <3>1 DEF CanCountFrom
  <2>2. CASE d = w + 1
    <3>1. \/ s < d
          \/ requests[r].row.status = "locked" /\ d = MaxAttempts - 1
      BY <1>1, <1>4, <2>2
    <3> QED
      BY <1>6, <3>1 DEF CanCountFrom
  <2> QED
    BY <1>7, <2>1, <2>2
<1> HIDE DEF w
<1>10. ~(s + 1 < d)
  BY <1>1, <1>7
<1>11. ~CanCountFrom(r, d)'
  BY <1>3, <1>5, <1>10 DEF CanCountFrom
<1>12. \A p \in Requests : CanCountFrom(p, d)' => CanCountFrom(p, d)
  BY <1>3, <1>5, <1>9, <1>10 DEF CanCountFrom
<1>13. \A k \in 1..(MaxAttempts - 1) : k < d => Below(k)' = Below(k)
  BY <1>8 DEF Below
<1>14. Below(d)' \subseteq Below(d) /\ Below(d)' # Below(d)
  BY <1>9, <1>11, <1>12 DEF Below
<1> QED
  BY <1>7, <1>13, <1>14, ProfileFalls

\* A request that ends without a write leaves the profile alone or makes it smaller.
LEMMA AbortKeepsOrLowersProfile ==
  ASSUME TypeOK, TypeOK', NEW r \in Requests, Abort(r)
  PROVE  Profile' = Profile \/ Smaller(Profile', Profile)
<1> DEFINE D == 1..(MaxAttempts - 1)
           Changed == {k \in D : Below(k)' # Below(k)}
<1>1. /\ account' = account
      /\ requests'[r].op = "none"
      /\ \A p \in Requests \ {r} : requests'[p] = requests[p]
  BY DEF Abort, Respond, NoRequest, TypeOK
<1>2. \A k \in D, p \in Requests : CanCountFrom(p, k)' => CanCountFrom(p, k)
  BY <1>1 DEF CanCountFrom
<1>3. \A k \in D : Below(k)' \subseteq Below(k)
  BY <1>2 DEF Below
<1>4. CASE Changed = {}
  BY <1>4 DEF Profile
<1>5. CASE Changed # {}
  <2>1. PICK d \in Changed : \A k \in Changed : d <= k
    <3>1. Changed \in SUBSET Nat
      OBVIOUS
    <3> HIDE DEF Changed
    <3> QED
      BY <1>5, <3>1, LeastElement
  <2>2. d \in D /\ Below(d)' \subseteq Below(d) /\ Below(d)' # Below(d)
    BY <1>3
  <2>3. \A k \in D : k < d => Below(k)' = Below(k)
    BY <2>1
  <2> QED
    BY <2>2, <2>3, ProfileFalls
<1> QED
  BY <1>4, <1>5

\* Reading a row that is not locked leaves the profile alone.
LEMMA ReadKeepsProfile ==
  ASSUME TypeOK, NEW r \in Requests, NEW op \in Ops, Read(r, op), account.status # "locked"
  PROVE  Profile' = Profile
<1>1. /\ account' = account
      /\ requests[r].op = "none"
      /\ requests'[r].row = account
      /\ \A p \in Requests \ {r} : requests'[p] = requests[p]
  <2>1. PICK q : q = [op |-> op, row |-> account, readAt |-> now]
    OBVIOUS
  <2> QED
    BY <2>1 DEF Read, TypeOK
<1>2. \A k \in 1..(MaxAttempts - 1), p \in Requests : CanCountFrom(p, k)' <=> CanCountFrom(p, k)
  BY <1>1 DEF CanCountFrom
<1>3. \A k \in 1..(MaxAttempts - 1) : Below(k)' = Below(k)
  BY <1>2 DEF Below
<1> QED
  BY <1>3 DEF Profile

\* Every action preserves the bound: a failure takes one from what is above the profile,
\* whatever else makes the profile greater ends the streak.
LEMMA NextPreservesStreakFollowsProfile ==
  ASSUME MaxAttempts > 1, TypeOK, TypeOK', StreakFollowsProfile, [Next]_vars
  PROVE  StreakFollowsProfile'
<1> DEFINE n == Cardinality(Requests)
           Left == Cardinality(Greater(Profile, MaxAttempts, n))
<1>1. MaxAttempts \in Nat /\ n \in Nat
  BY MaxAttemptsIsPositive, RequestsAreFinite, FS_CardinalityType
<1>2. Profile \in Profiles(MaxAttempts, n) /\ Profile' \in Profiles(MaxAttempts, n)
  <2>1. Profile \in Profiles(MaxAttempts, n) /\ (Profile \in Profiles(MaxAttempts, n))'
    BY ProfileIsProfile, PTL
  <2> QED
    BY <2>1
<1> HIDE DEF n
<1>3. Left \in Nat /\ Left' \in Nat
  BY <1>1, <1>2, GreaterIsPart
<1>4. Smaller(Profile', Profile) => Left + 1 <= Left'
  BY <1>1, <1>2, SmallerHasMoreAbove
<1>5. streak \in Nat /\ (account.status = "locked" => streak = 0) /\ streak <= Left
  BY DEF StreakFollowsProfile, TypeOK, n
<1> SUFFICES (account'.status = "locked" => streak' = 0) /\ streak' <= Left'
  BY DEF StreakFollowsProfile, n
<1>6. Profile' = Profile => Left' = Left
  OBVIOUS
<1> HIDE DEF Left
<1>7. CASE streak' = 0
  BY <1>3, <1>7
<1>8. ASSUME NEW r \in Requests, CommitFailed(r), account'.status # "locked"
      PROVE  streak' <= Left'
  <2>1. streak' = streak + 1
    BY <1>8 DEF CommitFailed
  <2> QED
    BY <1>3, <1>4, <1>5, <1>8, <2>1, FailureLowersProfile
<1>9. ASSUME NEW r \in Requests, NEW op \in Ops, Read(r, op), account.status # "locked"
      PROVE  streak' <= Left'
  BY <1>5, <1>6, <1>9, ReadKeepsProfile DEF Read
<1>10. ASSUME NEW r \in Requests, Abort(r)
       PROVE  streak' <= Left'
  BY <1>3, <1>4, <1>5, <1>6, <1>10, AbortKeepsOrLowersProfile DEF Abort
<1>11. ASSUME UNCHANGED <<account, requests>>
       PROVE  Profile' = Profile
  BY <1>11 DEF Profile, Below, CanCountFrom
<1>12. CASE UNCHANGED vars
  BY <1>5, <1>6, <1>11, <1>12 DEF vars
<1>13. CASE Tick
  BY <1>5, <1>6, <1>11, <1>13 DEF Tick
<1>14. ASSUME NEW r \in Requests, LoginRead(r) \/ AdminRead(r)
       PROVE  \E op \in Ops : Read(r, op)
  BY <1>14 DEF LoginRead, AdminRead, Ops, AdminOps
<1>15. ASSUME NEW r \in Requests,
              \/ CommitLogin(r) \/ CommitLock(r) \/ CommitUnlock(r)
              \/ CommitDisable(r) \/ CommitEnable(r)
       PROVE  streak' = 0
  BY <1>15 DEF CommitLogin, CommitLock, CommitUnlock, CommitDisable, CommitEnable
<1>16. ASSUME NEW r \in Requests, NEW op \in Ops, Read(r, op)
       PROVE  (account'.status = "locked" => streak' = 0) /\ streak' <= Left'
  <2>1. account' = account /\ streak' = streak
    BY <1>16 DEF Read
  <2> QED
    BY <1>5, <1>7, <1>9, <1>16, <2>1
<1>17. ASSUME NEW r \in Requests, CommitFailed(r)
       PROVE  (account'.status = "locked" => streak' = 0) /\ streak' <= Left'
  <2>1. account'.status = "locked" => streak' = 0
    BY <1>17 DEF CommitFailed
  <2> QED
    BY <1>7, <1>8, <1>17, <2>1
<1>18. ASSUME NEW r \in Requests, Abort(r)
       PROVE  (account'.status = "locked" => streak' = 0) /\ streak' <= Left'
  BY <1>5, <1>10, <1>18 DEF Abort
<1> QED
  BY <1>7, <1>12, <1>13, <1>14, <1>15, <1>16, <1>17, <1>18 DEF Next

\* No more failed logins go by without a lock than the profile has steps to fall.
THEOREM StreakIsBounded ==
  ASSUME MaxAttempts > 1
  PROVE  Spec => []StreakFollowsProfile
<1>1. Init => StreakFollowsProfile
  <2> SUFFICES ASSUME Init PROVE StreakFollowsProfile
    OBVIOUS
  <2>1. Profile \in Profiles(MaxAttempts, Cardinality(Requests))
    BY InitEstablishesIndInv, ProfileIsProfile DEF IndInv
  <2>2. MaxAttempts \in Nat /\ Cardinality(Requests) \in Nat
    BY MaxAttemptsIsPositive, RequestsAreFinite, FS_CardinalityType
  <2>3. Cardinality(Greater(Profile, MaxAttempts, Cardinality(Requests))) \in Nat
    BY <2>1, <2>2, GreaterIsPart
  <2>4. streak = 0
    BY DEF Init
  <2> QED
    BY <2>3, <2>4 DEF StreakFollowsProfile
<1>2. TypeOK /\ TypeOK' /\ StreakFollowsProfile /\ [Next]_vars => StreakFollowsProfile'
  BY NextPreservesStreakFollowsProfile
<1> QED
  BY <1>1, <1>2, TypeCorrectness, PTL DEF Spec

\* However failed logins overlap, with each other and with whatever else writes the
\* account, fewer than GuessBudget go by before the lock.  With a limit of one failure it
\* does not hold: a lock that was lifted between the SELECT and the UPDATE lets one pass.
THEOREM LockComesWithinBudget ==
  ASSUME MaxAttempts > 1
  PROVE  Spec => []LockWithinBudget
<1>1. TypeOK /\ StreakFollowsProfile => LockWithinBudget
  <2> SUFFICES ASSUME TypeOK, StreakFollowsProfile PROVE LockWithinBudget
    OBVIOUS
  <2> DEFINE m == MaxAttempts
             n == Cardinality(Requests)
  <2>1. m \in Nat \ {0} /\ n \in Nat
    BY MaxAttemptsIsPositive, RequestsAreFinite, FS_CardinalityType
  <2>2. streak \in Nat /\ streak <= Cardinality(Greater(Profile, m, n))
    BY DEF TypeOK, StreakFollowsProfile
  <2>3. Profile \in Profiles(m, n)
    BY ProfileIsProfile
  <2> HIDE DEF m, n
  <2>4. /\ Cardinality(Greater(Profile, m, n)) \in Nat
        /\ Cardinality(Profiles(m, n)) \in Nat
        /\ Cardinality(Greater(Profile, m, n)) < Cardinality(Profiles(m, n))
    BY <2>1, <2>3, GreaterIsPart, ProfilesAreFinite
  <2>5. streak < Cardinality(Profiles(m, n))
    BY <2>2, <2>4
  <2>6. CASE n = 0
    <3>1. streak < 1
      BY <2>1, <2>5, <2>6, OneProfile
    <3>2. GuessBudget[<<m, n>>] \in Nat \ {0}
      <4>1. GuessBudget[<<m, n>>] = Budget(GuessBudget, m, n)
        BY <2>1, BudgetIsDefined
      <4> QED
        BY <2>1, <2>6, <4>1 DEF Budget
    <3> QED
      BY <2>2, <3>1, <3>2 DEF LockWithinBudget, m, n
  <2>7. CASE n # 0
    <3>1. Cardinality(Profiles(m, n)) = GuessBudget[<<m, n>>]
      BY <2>1, <2>7, BudgetCountsProfiles
    <3> QED
      BY <2>5, <3>1 DEF LockWithinBudget, m, n
  <2> QED
    BY <2>6, <2>7
<1> QED
  BY <1>1, TypeCorrectness, StreakIsBounded, PTL

-----------------------------------------------------------------------------
(***************************************************************************)
(* What makes the lock late: failed logins that overlap.  If they do not,  *)
(* the counter is never behind the streak, whatever logins and requests of *)
(* administrators are under way, and the limit is the limit.               *)
(***************************************************************************)
FailuresAreApart ==
  \A p, q \in Requests :
    requests[p].op = "wrong_password" /\ requests[q].op = "wrong_password" => p = q

CounterCovers(row) ==
  /\ streak <= row.failed_login_attempts
  /\ row.status = "locked" => streak = 0

CounterCoversStreak ==
  /\ streak < MaxAttempts
  /\ CounterCovers(account)
  /\ \A r \in Requests : requests[r].op = "wrong_password" => CounterCovers(requests[r].row)

\* A failed login counts on from what it has read.
LEMMA FailureKeepsCounter ==
  ASSUME MaxAttempts > 1, TypeOK, TypeOK', FailuresAreApart, CounterCoversStreak,
         NEW r \in Requests, CommitFailed(r)
  PROVE  CounterCoversStreak'
<1> USE DEF TypeOK, RequestStates, Rows, CounterCoversStreak, CounterCovers
<1> DEFINE row == requests[r].row
<1>1. /\ row \in Rows /\ row.failed_login_attempts \in Nat
      /\ streak <= row.failed_login_attempts
      /\ row.status = "locked" => streak = 0
  BY DEF CommitFailed
<1>2. /\ account'.failed_login_attempts = row.failed_login_attempts + 1
      /\ \/ account'.status = "locked"
         \/ row.failed_login_attempts + 1 < MaxAttempts
         \/ row.status = "locked"
  <2>1. PICK t \in ClockReadings(r) : account' = Written(account, row, Failed(row, t))
    BY DEF CommitFailed, Write
  <2>2. Failed(row, t).failed_login_attempts = row.failed_login_attempts + 1
    BY <1>1 DEF Failed
  <2>3. Failed(row, t).failed_login_attempts # row.failed_login_attempts
    BY <1>1, <2>2
  <2>4. row.failed_login_attempts + 1 >= MaxAttempts => Failed(row, t).status = "locked"
    BY DEF Failed
  <2>5. row.failed_login_attempts + 1 >= MaxAttempts \/ row.failed_login_attempts + 1 < MaxAttempts
    BY <1>1, MaxAttemptsIsPositive
  <2> HIDE DEF row
  <2> QED
    BY <2>1, <2>2, <2>3, <2>4, <2>5 DEF Written
<1>3. /\ streak' = IF account'.status = "locked" THEN 0 ELSE streak + 1
      /\ streak \in Nat
  BY DEF CommitFailed
<1>4. CounterCovers(account)' /\ streak' < MaxAttempts
  BY <1>1, <1>2, <1>3, MaxAttemptsIsPositive
<1>5. \A q \in Requests : requests'[q].op # "wrong_password"
  BY DEF CommitFailed, Write, Respond, NoRequest, FailuresAreApart
<1> QED
  BY <1>4, <1>5

\* Nothing else lets the counter fall behind.
LEMMA NextKeepsCounter ==
  ASSUME MaxAttempts > 1, TypeOK, TypeOK', FailuresAreApart, CounterCoversStreak, [Next]_vars
  PROVE  CounterCoversStreak'
<1> USE DEF TypeOK, CounterCoversStreak, CounterCovers
<1>1. ASSUME streak' = 0
      PROVE  CounterCoversStreak'
  BY <1>1, MaxAttemptsIsPositive DEF RequestStates, Rows
<1>2. ASSUME NEW r \in Requests,
             \/ CommitLogin(r) \/ CommitLock(r) \/ CommitUnlock(r)
             \/ CommitDisable(r) \/ CommitEnable(r)
      PROVE  CounterCoversStreak'
  BY <1>1, <1>2 DEF CommitLogin, CommitLock, CommitUnlock, CommitDisable, CommitEnable
<1>3. ASSUME NEW r \in Requests, LoginRead(r) \/ AdminRead(r)
      PROVE  CounterCoversStreak'
  <2>1. PICK op \in Ops : Read(r, op)
    BY <1>3 DEF LoginRead, AdminRead, Ops
  <2>2. requests'[r].row = account /\ \A q \in Requests \ {r} : requests'[q] = requests[q]
    BY <2>1 DEF Read
  <2> QED
    BY <2>1, <2>2 DEF Read
<1>4. ASSUME NEW r \in Requests, Abort(r)
      PROVE  CounterCoversStreak'
  BY <1>4 DEF Abort, Respond, NoRequest
<1>5. CASE Tick \/ UNCHANGED vars
  BY <1>5 DEF Tick, vars
<1> QED
  BY <1>2, <1>3, <1>4, <1>5, FailureKeepsCounter DEF Next

\* core/constants.py, line 37, MAX_FAILED_ATTEMPTS: so many failed logins never go by
\* without a lock, unless they overlap (auth_service.py, lines 165-170).
THEOREM LateLockNeedsOverlap ==
  ASSUME MaxAttempts > 1
  PROVE  Spec /\ []FailuresAreApart => [](streak < MaxAttempts)
<1>1. Init => CounterCoversStreak
  BY MaxAttemptsIsPositive
  DEF Init, NewRow, NoRequest, CounterCoversStreak, CounterCovers
<1>2. TypeOK /\ TypeOK' /\ FailuresAreApart /\ CounterCoversStreak /\ [Next]_vars
        => CounterCoversStreak'
  BY NextKeepsCounter
<1>3. CounterCoversStreak => streak < MaxAttempts
  BY DEF CounterCoversStreak
<1> QED
  BY <1>1, <1>2, <1>3, TypeCorrectness, PTL DEF Spec

=============================================================================
