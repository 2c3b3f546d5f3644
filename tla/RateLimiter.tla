---------------------------- MODULE RateLimiter -----------------------------
(***************************************************************************)
(* The login rate limit of core/redis.py, as api/v1/auth.py uses it: one   *)
(* Redis counter per mobile number.  This module follows one key.          *)
(*                                                                         *)
(* The INCR and the EXPIRE of an attempt go to Redis in one MULTI/EXEC     *)
(* pipeline, so the attempts of all workers reach the key one at a time.   *)
(* Redis itself is external; its outages and restarts are modelled because *)
(* the code answers them: an attempt it cannot count is allowed.           *)
(***************************************************************************)
EXTENDS Integers, Sequences

CONSTANTS
  Limit,      \* limit=5 in api/v1/auth.py
  Window,     \* window_seconds=60
  MaxTime,    \* bound: the clock stops there
  MaxCount,   \* bound: attempts counted while the key lives
  MaxExcused  \* bound: failed calls, plus Limit for each restart

ASSUME LimitIsPositive == Limit \in Nat \ {0}
ASSUME WindowIsPositive == Window \in Nat \ {0}
ASSUME BoundsAreNat == {MaxTime, MaxCount, MaxExcused} \subseteq Nat

VARIABLES
  now,        \* the clock
  count,      \* the value of the key
  deadline,   \* when the key expires; a key that never was has expired
  allowed,    \* history: every attempt that was allowed, oldest first
  excused     \* history: attempts that outages may have let through beyond Limit

vars == <<now, count, deadline, allowed, excused>>

\* An attempt allowed at `at`, with `excused` as it was before and after it.
AllowedAttempt == [at : 0..MaxTime, before : 0..MaxExcused, after : 0..MaxExcused]

Alive == now < deadline

\* What INCR returns.
NextCount == (IF Alive THEN count ELSE 0) + 1

Init ==
  /\ now = 0
  /\ count = 0
  /\ deadline = 0
  /\ allowed = <<>>
  /\ excused = 0

\* Mutant of Incr: the value survives the expiry of the key.
Incr_KeepsValue ==
  /\ count' = count + 1
  /\ deadline' = now + Window

\* Mutant of Incr: the window is counted from the second before.
Incr_ShortWindow ==
  /\ count' = NextCount
  /\ deadline' = now + Window - 1

\* MULTI; INCR key; EXPIRE key window; EXEC.  The expiry is set again every time.
Incr ==
  /\ count' = NextCount
  /\ deadline' = now + Window

Allow(excuses) ==
  /\ excused' = excused + excuses
  /\ allowed' = Append(allowed, [at |-> now, before |-> excused, after |-> excused + excuses])

\* Mutant of Attempt: one too many passes the comparison with limit.
Attempt_OffByOne ==
  /\ NextCount <= MaxCount
  /\ Incr
  /\ IF NextCount <= Limit + 1 THEN Allow(0) ELSE UNCHANGED <<allowed, excused>>
  /\ UNCHANGED now

Attempt ==
  /\ NextCount <= MaxCount
  /\ Incr
  /\ IF NextCount <= Limit THEN Allow(0) ELSE UNCHANGED <<allowed, excused>>
  /\ UNCHANGED now

\* The pipeline raises: check_rate_limit answers True.  Redis may have executed the
\* transaction, if only its reply was lost.
AttemptFailsOpen ==
  /\ excused < MaxExcused
  /\ \/ UNCHANGED <<count, deadline>>
     \/ NextCount <= MaxCount /\ Incr
  /\ Allow(1)
  /\ UNCHANGED now

\* Redis comes back without the key, or with the key as an earlier snapshot had it.
\* What was allowed stays allowed: the key has forgotten up to Limit of it.
RedisRestart ==
  /\ excused + Limit <= MaxExcused
  /\ excused' = excused + Limit
  /\ \/ count' = 0 /\ deadline' = now
     \/ /\ Alive
        /\ count' \in 1..count
        /\ deadline' \in (now + 1)..deadline
  /\ UNCHANGED <<now, allowed>>

Tick ==
  /\ now < MaxTime
  /\ now' = now + 1
  /\ UNCHANGED <<count, deadline, allowed, excused>>

Next == Attempt \/ AttemptFailsOpen \/ RedisRestart \/ Tick

Spec == Init /\ [][Next]_vars

-----------------------------------------------------------------------------
\* Counters and times stay within their bounds, and the attempts allowed are recorded in
\* order of time, with no more excuses than there have been (check_rate_limit).
TypeOK ==
  /\ now \in 0..MaxTime
  /\ count \in 0..MaxCount
  /\ deadline \in 0..(MaxTime + Window)
  /\ excused \in 0..MaxExcused
  /\ allowed \in Seq(AllowedAttempt)
  /\ \A i, j \in DOMAIN allowed : i <= j =>
       /\ allowed[i].at <= allowed[j].at
       /\ allowed[i].before <= allowed[j].after
       /\ allowed[j].after <= excused

\* Of all the attempts allowed, counted or not, those from the i-th to the j-th are at
\* most Limit when they lie within Window seconds, plus one for each call among them that
\* failed open and Limit for each restart between them: the counter slides although it is
\* a single number, and a restart in the window costs one more budget (redis.py, 46-57).
NeverMoreThanLimit ==
  \A i, j \in DOMAIN allowed :
    /\ i <= j
    /\ allowed[j].at < allowed[i].at + Window
    => j - i + 1 <= Limit + allowed[j].after - allowed[i].before

\* The attempts allowed since the i-th, if that is less than Window seconds ago, are all
\* in the value of the key, and if its window ends after the key none of them is, but for
\* those that a failed call or a restart since then excuses (redis.py, 49-57).
CountCoversWindow ==
  \A i \in DOMAIN allowed :
    LET uncounted == excused - allowed[i].before IN
    /\ allowed[i].at <= now
    /\ now < allowed[i].at + Window =>
         Len(allowed) - i + 1 <= (IF Alive THEN count ELSE 0) + uncounted
    /\ deadline < allowed[i].at + Window => Len(allowed) - i + 1 <= uncounted

=============================================================================
