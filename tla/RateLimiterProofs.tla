-------------------------- MODULE RateLimiterProofs --------------------------
(***************************************************************************)
(* NeverMoreThanLimit for any Limit and Window, by the inductive invariant *)
(* TypeOK /\ CountCoversWindow /\ NeverMoreThanLimit.                      *)
(***************************************************************************)
EXTENDS RateLimiter, TLAPS

IndInv == TypeOK /\ CountCoversWindow /\ NeverMoreThanLimit

\* The attempts allowed from the i-th on.
Since(i) == Len(allowed) - i + 1

\* The excuses since the i-th attempt.
Uncounted(i) == excused - allowed[i].before

LEMMA InitEstablishesIndInv == Init => IndInv
BY BoundsAreNat, WindowIsPositive
   DEF Init, IndInv, TypeOK, CountCoversWindow, NeverMoreThanLimit, Alive

\* What IndInv says of one attempt.  The last conjunct is NeverMoreThanLimit from the
\* i-th attempt to the last one.
LEMMA OneAttempt ==
  ASSUME IndInv, NEW i \in DOMAIN allowed
  PROVE  /\ now \in Nat /\ count \in Nat /\ deadline \in Nat /\ excused \in Nat
         /\ i \in Nat /\ i >= 1 /\ Len(allowed) \in Nat /\ i <= Len(allowed)
         /\ allowed[i].at \in Nat /\ allowed[i].before \in Nat /\ allowed[i].after \in Nat
         /\ allowed[i].at <= now
         /\ allowed[i].before <= excused /\ allowed[i].after <= excused
         /\ now < allowed[i].at + Window =>
              Since(i) <= (IF Alive THEN count ELSE 0) + Uncounted(i)
         /\ deadline < allowed[i].at + Window => Since(i) <= Uncounted(i)
         /\ now < allowed[i].at + Window => Since(i) <= Limit + Uncounted(i)
<1> USE LimitIsPositive, WindowIsPositive, BoundsAreNat
<1>1. /\ now \in Nat /\ count \in Nat /\ deadline \in Nat /\ excused \in Nat
      /\ i \in Nat /\ i >= 1 /\ Len(allowed) \in Nat /\ i <= Len(allowed)
  BY DEF IndInv, TypeOK
<1>2. ASSUME NEW k \in DOMAIN allowed
      PROVE  /\ allowed[k].at \in Nat /\ allowed[k].before \in Nat /\ allowed[k].after \in Nat
             /\ allowed[k].at <= now
             /\ allowed[k].before <= allowed[k].after /\ allowed[k].after <= excused
  <2>1. allowed[k] \in AllowedAttempt /\ k \in Nat
    BY DEF IndInv, TypeOK
  <2>2. allowed[k].before <= allowed[k].after /\ allowed[k].after <= excused
    BY <2>1 DEF IndInv, TypeOK
  <2> QED
    BY <2>1, <2>2 DEF IndInv, CountCoversWindow, AllowedAttempt
<1>3. /\ now < allowed[i].at + Window =>
           Since(i) <= (IF Alive THEN count ELSE 0) + Uncounted(i)
      /\ deadline < allowed[i].at + Window => Since(i) <= Uncounted(i)
  BY DEF IndInv, CountCoversWindow, Since, Uncounted
<1>4. ASSUME now < allowed[i].at + Window
      PROVE  Since(i) <= Limit + Uncounted(i)
  <2> DEFINE n == Len(allowed)
  <2>1. n \in DOMAIN allowed /\ i <= n
    BY <1>1 DEF IndInv, TypeOK
  <2>2. allowed[n].at < allowed[i].at + Window /\ allowed[n].after <= excused
    BY <1>1, <1>2, <1>4, <2>1
  <2>3. n - i + 1 <= Limit + allowed[n].after - allowed[i].before
    BY <2>1, <2>2 DEF IndInv, NeverMoreThanLimit
  <2> HIDE DEF n
  <2>4. /\ allowed[n].after \in Nat /\ allowed[i].before \in Nat /\ excused \in Nat
        /\ i \in Nat /\ n \in Nat
    BY <1>1, <1>2, <2>1 DEF n
  <2>5. n - i + 1 <= Limit + (excused - allowed[i].before)
    BY <2>2, <2>3, <2>4
  <2> QED
    BY <2>5 DEF Since, Uncounted, n
<1> QED
  BY <1>1, <1>2, <1>3, <1>4

\* The same with the abbreviations expanded.
LEMMA OneAttemptExpanded ==
  ASSUME IndInv, NEW i \in DOMAIN allowed
  PROVE   /\ now \in Nat /\ count \in Nat /\ deadline \in Nat /\ excused \in Nat
          /\ i \in Nat /\ Len(allowed) \in Nat
          /\ allowed[i].at \in Nat /\ allowed[i].before \in Nat /\ allowed[i].at <= now
          /\ now < allowed[i].at + Window =>
               /\ Len(allowed) - i + 1 <= (IF Alive THEN count ELSE 0) + (excused - allowed[i].before)
               /\ Len(allowed) - i + 1 <= Limit + (excused - allowed[i].before)
          /\ deadline < allowed[i].at + Window =>
               Len(allowed) - i + 1 <= excused - allowed[i].before
          /\ allowed[i].before <= excused
BY OneAttempt DEF Since, Uncounted

\* Arithmetic of the bound: b attempts excused before the i-th, x until now, n the place
\* of one more attempt.
LEMMA ExcusedOnce ==
  ASSUME NEW n \in Nat, NEW i \in Nat, NEW x \in Nat, NEW b \in Nat,
         n - i <= Limit + x - b
  PROVE  n - i + 1 <= Limit + (x + 1) - b
BY LimitIsPositive

LEMMA CountedOnce ==
  ASSUME NEW n \in Nat, NEW i \in Nat, NEW x \in Nat, NEW b \in Nat, NEW held \in Nat,
         n - i <= held + x - b, held + 1 <= Limit
  PROVE  n - i + 1 <= Limit + (x + 0) - b
BY LimitIsPositive

LEMMA HeldGrows ==
  ASSUME NEW n \in Nat, NEW i \in Nat, NEW x \in Nat, NEW b \in Nat,
         NEW held \in Nat, NEW held2 \in Nat, held2 >= held,
         n - i + 1 <= held + (x - b)
  PROVE  n - i + 1 <= held2 + (x - b)
OBVIOUS

\* What one more attempt does to the history.
LEMMA AllowAppends ==
  ASSUME IndInv, NEW e \in {0, 1}, excused + e <= MaxExcused, Allow(e), UNCHANGED now
  PROVE  LET n == Len(allowed) + 1 IN
         /\ Len(allowed') = n
         /\ DOMAIN allowed' = DOMAIN allowed \cup {n}
         /\ \A i \in DOMAIN allowed : allowed'[i] = allowed[i]
         /\ allowed'[n].at = now /\ allowed'[n].before = excused
         /\ allowed'[n].after = excused + e
         /\ allowed' \in Seq(AllowedAttempt)
         /\ excused' = excused + e /\ excused' \in 0..MaxExcused
<1> USE BoundsAreNat
<1> DEFINE r == [at |-> now, before |-> excused, after |-> excused + e]
<1>1. r \in AllowedAttempt /\ allowed \in Seq(AllowedAttempt) /\ excused' = excused + e
  BY DEF IndInv, TypeOK, AllowedAttempt, Allow
<1>2. allowed' = Append(allowed, r)
  BY DEF Allow
<1> HIDE DEF r
<1>3. /\ Len(allowed') = Len(allowed) + 1
      /\ DOMAIN allowed' = DOMAIN allowed \cup {Len(allowed) + 1}
      /\ \A i \in DOMAIN allowed : allowed'[i] = allowed[i]
      /\ allowed'[Len(allowed) + 1] = r
      /\ allowed' \in Seq(AllowedAttempt)
  BY <1>1, <1>2
<1>4. excused' \in 0..MaxExcused
  BY <1>1 DEF IndInv, TypeOK
<1> QED
  BY <1>1, <1>3, <1>4 DEF r

\* An attempt that is allowed, when its count is within Limit or the call failed: every
\* attempt whose window is open is still covered with this one added.
LEMMA AllowPreserves ==
  ASSUME IndInv, NEW e \in {0, 1}, excused + e <= MaxExcused, Allow(e), UNCHANGED now,
         \/ NextCount <= MaxCount /\ Incr /\ (e = 1 \/ NextCount <= Limit)
         \/ UNCHANGED <<count, deadline>> /\ e = 1
  PROVE  IndInv'
<1> USE LimitIsPositive, WindowIsPositive, BoundsAreNat
<1> DEFINE n == Len(allowed) + 1
           held == IF Alive THEN count ELSE 0
<1>1. /\ now \in 0..MaxTime /\ count \in 0..MaxCount /\ deadline \in 0..(MaxTime + Window)
      /\ excused \in 0..MaxExcused /\ n \in Nat /\ held \in Nat
  BY DEF IndInv, TypeOK
<1>2. /\ Len(allowed') = n
      /\ DOMAIN allowed' = DOMAIN allowed \cup {n}
      /\ \A i \in DOMAIN allowed : allowed'[i] = allowed[i]
      /\ allowed'[n].at = now /\ allowed'[n].before = excused
      /\ allowed'[n].after = excused + e
      /\ allowed' \in Seq(AllowedAttempt)
      /\ excused' = excused + e /\ excused' \in 0..MaxExcused
  BY AllowAppends
<1>3. /\ count' \in 0..MaxCount /\ deadline' \in 0..(MaxTime + Window)
      /\ IF deadline' = now + Window THEN TRUE ELSE deadline' = deadline
      /\ (IF Alive' THEN count' ELSE 0) + e >= held + 1
      /\ deadline' < now + Window => e = 1 /\ deadline' = deadline
  BY <1>1 DEF Incr, NextCount, Alive
<1>4. Alive' => count' >= held
  BY <1>1 DEF Incr, NextCount, Alive
<1>5. ASSUME NEW i \in DOMAIN allowed
      PROVE  /\ i \in Nat /\ i < n
             /\ allowed[i].at \in Nat /\ allowed[i].before \in Nat /\ allowed[i].after \in Nat
             /\ allowed[i].at <= now
             /\ allowed[i].before <= excused /\ allowed[i].after <= excused
             /\ now < allowed[i].at + Window =>
                  /\ n - i <= held + excused - allowed[i].before
                  /\ n - i <= Limit + excused - allowed[i].before
             /\ deadline < allowed[i].at + Window => n - i <= excused - allowed[i].before
  BY <1>1, OneAttempt DEF Since, Uncounted
<1> HIDE DEF n, held
<1>6. TypeOK'
  <2>1. ASSUME NEW i \in DOMAIN allowed', NEW j \in DOMAIN allowed', i <= j
        PROVE  /\ allowed'[i].at <= allowed'[j].at
               /\ allowed'[i].before <= allowed'[j].after
               /\ allowed'[j].after <= excused'
    <3>1. CASE j \in DOMAIN allowed
      <4>1. i \in DOMAIN allowed
        BY <1>1, <1>2, <1>5, <2>1, <3>1
      <4>2. /\ allowed[i].at <= allowed[j].at
            /\ allowed[i].before <= allowed[j].after
            /\ allowed[j].after <= excused
        BY <2>1, <3>1, <4>1 DEF IndInv, TypeOK
      <4>3. allowed'[i] = allowed[i] /\ allowed'[j] = allowed[j]
        BY <1>2, <3>1, <4>1
      <4>4. allowed[j].after \in Nat /\ excused \in Nat /\ excused' = excused + e
        BY <1>1, <1>2, <1>5, <3>1
      <4>5. allowed[j].after <= excused'
        BY <4>2, <4>4
      <4> QED
        BY <4>2, <4>3, <4>5
    <3>2. CASE j = n
      BY <1>1, <1>2, <1>5, <2>1, <3>2
    <3> QED
      BY <1>2, <3>1, <3>2
  <2> QED
    BY <1>1, <1>2, <1>3, <2>1 DEF TypeOK
<1>7. CountCoversWindow'
  <2> SUFFICES ASSUME NEW i \in DOMAIN allowed'
               PROVE  /\ allowed'[i].at <= now'
                      /\ now' < allowed'[i].at + Window =>
                           n - i + 1 <= (IF Alive' THEN count' ELSE 0) + (excused' - allowed'[i].before)
                      /\ deadline' < allowed'[i].at + Window =>
                           n - i + 1 <= excused' - allowed'[i].before
    BY <1>2 DEF CountCoversWindow
  <2> DEFINE held2 == IF Alive' THEN count' ELSE 0
  <2>0. held2 \in Nat /\ held2 + e >= held + 1 /\ e \in Nat
    BY <1>3
  <2> HIDE DEF held2
  <2>1. CASE i \in DOMAIN allowed
    <3>1. /\ allowed'[i] = allowed[i] /\ now' = now /\ excused' = excused + e
      BY <1>2, <2>1
    <3>2. ASSUME now < allowed[i].at + Window
          PROVE  n - i + 1 <= held2 + (excused' - allowed[i].before)
      BY <1>1, <1>5, <2>0, <2>1, <3>1, <3>2
    <3>3. ASSUME deadline' < allowed[i].at + Window
          PROVE  n - i + 1 <= excused' - allowed[i].before
      <4>1. e = 1 /\ deadline' = deadline
        BY <1>1, <1>3, <1>5, <2>1, <3>3
      <4> QED
        BY <1>1, <1>5, <2>1, <3>1, <3>3, <4>1
    <3> QED
      BY <1>5, <2>1, <3>1, <3>2, <3>3 DEF held2
  <2>2. CASE i = n
    <3>1. held2 + e >= 1
      BY <1>1, <2>0
    <3>2. deadline' < now + Window => e = 1
      BY <1>3
    <3> QED
      BY <1>1, <1>2, <2>0, <2>2, <3>1, <3>2 DEF held2
  <2> QED
    BY <1>2, <2>1, <2>2
<1>8. NeverMoreThanLimit'
  <2> SUFFICES ASSUME NEW i \in DOMAIN allowed', NEW j \in DOMAIN allowed',
                      i <= j, allowed'[j].at < allowed'[i].at + Window
               PROVE  j - i + 1 <= Limit + allowed'[j].after - allowed'[i].before
    BY DEF NeverMoreThanLimit
  <2>1. CASE j \in DOMAIN allowed
    <3>1. i \in DOMAIN allowed
      BY <1>1, <1>2, <1>5, <2>1
    <3>2. allowed'[i] = allowed[i] /\ allowed'[j] = allowed[j]
      BY <1>2, <2>1, <3>1
    <3>3. allowed[j].at < allowed[i].at + Window
      BY <3>2
    <3>4. j - i + 1 <= Limit + allowed[j].after - allowed[i].before
      BY <2>1, <3>1, <3>3 DEF IndInv, NeverMoreThanLimit
    <3> QED
      BY <3>2, <3>4
  <2>2. CASE j = n /\ i \in DOMAIN allowed
    <3>1. allowed'[i] = allowed[i] /\ now < allowed[i].at + Window
      BY <1>2, <2>2
    <3>2. CASE e = 1
      <4>1. /\ n - i <= Limit + excused - allowed[i].before
            /\ i \in Nat /\ allowed[i].before \in Nat
        BY <1>5, <2>2, <3>1
      <4>2. n - i + 1 <= Limit + (excused + e) - allowed[i].before
        <5> DEFINE b == allowed[i].before
        <5>1. /\ n \in Nat /\ i \in Nat /\ excused \in Nat /\ b \in Nat
              /\ n - i <= Limit + excused - b
          BY <1>1, <4>1
        <5> HIDE DEF b, n
        <5>2. n - i + 1 <= Limit + (excused + 1) - b
          BY ZenonT(30), ExcusedOnce, <5>1
        <5>3. n - i + 1 <= Limit + (excused + e) - b
          BY <3>2, <5>2
        <5> QED
          BY <5>3 DEF b
      <4>3. /\ allowed'[j].after = excused + e
            /\ allowed'[i].before = allowed[i].before
        BY <1>2, <2>2, <3>1
      <4> QED
        BY <2>2, <4>2, <4>3
    <3>3. CASE e = 0
      <4>1. held + 1 <= Limit
        BY <1>1, <3>3 DEF NextCount, held
      <4>2. /\ n - i <= held + excused - allowed[i].before
            /\ i \in Nat /\ allowed[i].before \in Nat
        BY <1>5, <2>2, <3>1
      <4>3. n - i + 1 <= Limit + (excused + e) - allowed[i].before
        <5> DEFINE b == allowed[i].before
        <5>1. /\ n \in Nat /\ i \in Nat /\ excused \in Nat /\ b \in Nat /\ held \in Nat
              /\ n - i <= held + excused - b /\ held + 1 <= Limit
          BY <1>1, <4>1, <4>2
        <5> HIDE DEF b, n, held
        <5>2. n - i + 1 <= Limit + (excused + 0) - b
          BY ZenonT(30), CountedOnce, <5>1
        <5>3. n - i + 1 <= Limit + (excused + e) - b
          BY <3>3, <5>2
        <5> QED
          BY <5>3 DEF b
      <4>4. /\ allowed'[j].after = excused + e
            /\ allowed'[i].before = allowed[i].before
        BY <1>2, <2>2, <3>1
      <4> QED
        BY <2>2, <4>3, <4>4
    <3> QED
      BY <3>2, <3>3
  <2>3. CASE j = n /\ i = n
    BY <1>1, <1>2, <2>3
  <2> QED
    BY <1>1, <1>2, <1>5, <2>1, <2>2, <2>3
<1> QED
  BY <1>6, <1>7, <1>8 DEF IndInv

LEMMA NextPreservesIndInv ==
  ASSUME IndInv, [Next]_vars
  PROVE  IndInv'
<1> USE LimitIsPositive, WindowIsPositive, BoundsAreNat
<1>1. ASSUME NextCount <= MaxCount, Incr, UNCHANGED <<now, allowed, excused>>
      PROVE  IndInv'
  <2>1. TypeOK'
    BY <1>1 DEF IndInv, TypeOK, Incr, NextCount, Alive
  <2>2. ASSUME NEW i \in DOMAIN allowed
        PROVE  /\ allowed[i].at <= now
               /\ now < allowed[i].at + Window =>
                    Len(allowed) - i + 1 <= (IF Alive' THEN count' ELSE 0) + (excused - allowed[i].before)
               /\ ~(deadline' < allowed[i].at + Window)
    <3>1. /\ (IF Alive' THEN count' ELSE 0) >= (IF Alive THEN count ELSE 0)
          /\ (IF Alive' THEN count' ELSE 0) \in Nat /\ (IF Alive THEN count ELSE 0) \in Nat
          /\ deadline' = now + Window
      BY <1>1, OneAttemptExpanded DEF Incr, NextCount, Alive
    <3> DEFINE held == IF Alive THEN count ELSE 0
               held2 == IF Alive' THEN count' ELSE 0
    <3>2. held2 >= held /\ held2 \in Nat /\ held \in Nat
      BY <3>1
    <3>3. /\ now \in Nat /\ i \in Nat /\ Len(allowed) \in Nat /\ excused \in Nat
          /\ allowed[i].at \in Nat /\ allowed[i].before \in Nat /\ allowed[i].at <= now
          /\ now < allowed[i].at + Window =>
               Len(allowed) - i + 1 <= held + (excused - allowed[i].before)
      BY OneAttemptExpanded
    <3> HIDE DEF held, held2
    <3>4. now < allowed[i].at + Window =>
            Len(allowed) - i + 1 <= held2 + (excused - allowed[i].before)
      BY HeldGrows, <3>2, <3>3
    <3>5. allowed[i].at <= now /\ ~(deadline' < allowed[i].at + Window)
      BY <3>1, <3>3
    <3> QED
      BY <3>4, <3>5 DEF held2
  <2>3. CountCoversWindow'
    BY <1>1, <2>2 DEF CountCoversWindow
  <2>4. NeverMoreThanLimit'
    BY <1>1 DEF IndInv, NeverMoreThanLimit
  <2> QED
    BY <2>1, <2>3, <2>4 DEF IndInv
<1>2. CASE Attempt
  <2>1. CASE NextCount <= Limit
    <3>1. excused + 0 <= MaxExcused /\ Allow(0)
      BY <1>2, <2>1 DEF Attempt, IndInv, TypeOK
    <3> QED
      BY <1>2, <2>1, <3>1, AllowPreserves DEF Attempt
  <2>2. CASE ~(NextCount <= Limit)
    BY <1>1, <1>2, <2>2 DEF Attempt
  <2> QED
    BY <2>1, <2>2
<1>3. CASE AttemptFailsOpen
  <2>1. excused + 1 <= MaxExcused
    BY <1>3 DEF AttemptFailsOpen, IndInv, TypeOK
  <2> QED
    BY <1>3, <2>1, AllowPreserves DEF AttemptFailsOpen
<1>4. CASE RedisRestart
  <2>1. /\ excused' = excused + Limit /\ excused' \in 0..MaxExcused
        /\ count' \in 0..MaxCount /\ deadline' \in 0..(MaxTime + Window)
        /\ now <= deadline' /\ now' = now /\ allowed' = allowed
    BY <1>4 DEF RedisRestart, IndInv, TypeOK, Alive
  <2>2. TypeOK'
    <3>1. ASSUME NEW i \in DOMAIN allowed, NEW j \in DOMAIN allowed, i <= j
          PROVE  /\ allowed[i].at <= allowed[j].at
                 /\ allowed[i].before <= allowed[j].after
                 /\ allowed[j].after <= excused'
      <4>1. /\ allowed[i].at <= allowed[j].at
            /\ allowed[i].before <= allowed[j].after
            /\ allowed[j].after <= excused
        BY <3>1 DEF IndInv, TypeOK
      <4>2. allowed[j].after \in Nat /\ excused \in Nat
        BY OneAttempt
      <4>3. allowed[j].after <= excused'
        BY <2>1, <4>1, <4>2
      <4> QED
        BY <4>1, <4>3
    <3>2. now \in 0..MaxTime /\ allowed \in Seq(AllowedAttempt)
      BY DEF IndInv, TypeOK
    <3> QED
      BY <2>1, <3>1, <3>2 DEF TypeOK
  <2>3. ASSUME NEW i \in DOMAIN allowed, now < allowed[i].at + Window
        PROVE  Len(allowed) - i + 1 <= excused' - allowed[i].before
    <3>1. /\ Len(allowed) - i + 1 <= Limit + (excused - allowed[i].before)
          /\ i \in Nat /\ Len(allowed) \in Nat /\ excused \in Nat /\ allowed[i].before \in Nat
      BY <2>3, OneAttemptExpanded
    <3> QED
      BY <2>1, <3>1
  <2>4. ASSUME NEW i \in DOMAIN allowed
        PROVE  /\ allowed[i].at <= now
               /\ now < allowed[i].at + Window =>
                    Len(allowed) - i + 1 <= (IF Alive' THEN count' ELSE 0) + (excused' - allowed[i].before)
               /\ deadline' < allowed[i].at + Window =>
                    Len(allowed) - i + 1 <= excused' - allowed[i].before
    <3>1. (IF Alive' THEN count' ELSE 0) \in Nat /\ deadline' \in Nat /\ excused' \in Nat
      BY <2>1
    <3>2. /\ now \in Nat /\ i \in Nat /\ Len(allowed) \in Nat
          /\ allowed[i].at \in Nat /\ allowed[i].before \in Nat /\ allowed[i].at <= now
      BY OneAttemptExpanded
    <3>3. deadline' < allowed[i].at + Window => now < allowed[i].at + Window
      BY <2>1, <3>1, <3>2
    <3> DEFINE held2 == IF Alive' THEN count' ELSE 0
    <3>4. held2 \in Nat
      BY <3>1
    <3> HIDE DEF held2
    <3>5. now < allowed[i].at + Window =>
            Len(allowed) - i + 1 <= held2 + (excused' - allowed[i].before)
      BY <2>3, <3>1, <3>2, <3>4
    <3> QED
      BY <2>3, <3>2, <3>3, <3>5 DEF held2
  <2>5. CountCoversWindow'
    BY <2>1, <2>4 DEF CountCoversWindow
  <2>6. NeverMoreThanLimit'
    BY <2>1 DEF IndInv, NeverMoreThanLimit
  <2> QED
    BY <2>2, <2>5, <2>6 DEF IndInv
<1>5. CASE Tick
  <2>1. TypeOK'
    BY <1>5 DEF Tick, IndInv, TypeOK
  <2>2. ASSUME NEW i \in DOMAIN allowed
        PROVE  /\ allowed[i].at <= now + 1
               /\ now + 1 < allowed[i].at + Window =>
                    Len(allowed) - i + 1 <=
                      (IF now + 1 < deadline THEN count ELSE 0) + (excused - allowed[i].before)
    <3>1. CASE now + 1 < deadline
      <4>1. /\ now \in Nat /\ deadline \in Nat
            /\ allowed[i].at \in Nat /\ allowed[i].at <= now
            /\ now < allowed[i].at + Window =>
                 Len(allowed) - i + 1 <=
                   (IF now < deadline THEN count ELSE 0) + (excused - allowed[i].before)
        BY OneAttemptExpanded DEF Alive
      <4>2. now < deadline /\ allowed[i].at <= now + 1
        BY <3>1, <4>1
      <4>3. now + 1 < allowed[i].at + Window => now < allowed[i].at + Window
        BY <4>1
      <4> QED
        BY <3>1, <4>1, <4>2, <4>3
    <3>2. CASE ~(now + 1 < deadline)
      <4>1. /\ now \in Nat /\ deadline \in Nat /\ i \in Nat /\ Len(allowed) \in Nat
            /\ excused \in Nat
            /\ allowed[i].at \in Nat /\ allowed[i].before \in Nat /\ allowed[i].at <= now
            /\ deadline < allowed[i].at + Window =>
                 Len(allowed) - i + 1 <= excused - allowed[i].before
        BY OneAttemptExpanded
      <4>2. now + 1 < allowed[i].at + Window => deadline < allowed[i].at + Window
        BY <3>2, <4>1
      <4>3. allowed[i].at <= now + 1
        BY <4>1
      <4>4. now + 1 < allowed[i].at + Window =>
              Len(allowed) - i + 1 <= 0 + (excused - allowed[i].before)
        BY <4>1, <4>2
      <4> QED
        BY <3>2, <4>3, <4>4
    <3> QED
      BY <3>1, <3>2
  <2>3. CountCoversWindow'
    BY <1>5, <2>2 DEF Tick, IndInv, CountCoversWindow, Alive
  <2>4. NeverMoreThanLimit'
    BY <1>5 DEF Tick, IndInv, NeverMoreThanLimit
  <2> QED
    BY <2>1, <2>3, <2>4 DEF IndInv
<1>6. CASE UNCHANGED vars
  BY <1>6 DEF vars, IndInv, TypeOK, CountCoversWindow, NeverMoreThanLimit, Alive
<1> QED
  BY <1>2, <1>3, <1>4, <1>5, <1>6 DEF Next

\* The counter, its deadline and the attempts allowed keep to their invariant.
THEOREM Invariance == Spec => []IndInv
<1>1. Init => IndInv
  BY InitEstablishesIndInv
<1>2. IndInv /\ [Next]_vars => IndInv'
  BY NextPreservesIndInv
<1> QED
  BY <1>1, <1>2, PTL DEF Spec

\* The counter, its deadline and the clock stay within their bounds, and the history of
\* attempts is in order of time.
THEOREM TypeCorrectness == Spec => []TypeOK
<1>1. IndInv => TypeOK
  BY DEF IndInv
<1> QED
  BY <1>1, Invariance, PTL

\* The one counter of fixed windows counts every attempt whose window is open, but for
\* those that failed calls and restarts since then excuse.
THEOREM CounterCoversAllowed == Spec => []CountCoversWindow
<1>1. IndInv => CountCoversWindow
  BY DEF IndInv
<1> QED
  BY <1>1, Invariance, PTL

\* In any Window seconds, restarts included, no more than Limit attempts are allowed plus
\* one for each failed call and Limit for each restart within them (core/redis.py,
\* check_rate_limit), for any Limit and Window.
THEOREM AtMostLimitPerWindow == Spec => []NeverMoreThanLimit
<1>1. IndInv => NeverMoreThanLimit
  BY DEF IndInv
<1> QED
  BY <1>1, Invariance, PTL

=============================================================================
