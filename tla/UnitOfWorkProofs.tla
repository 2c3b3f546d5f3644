--------------------------- MODULE UnitOfWorkProofs ---------------------------
(***************************************************************************)
(* UnitOfWork for any requests, kinds, workers and pool: its inductive     *)
(* invariant, and that it implements AtomicRequests.  Every action but a   *)
(* crash moves one request, so there is one lemma about a move (OneMoves)  *)
(* and a list of what each action moves (StepMovesOne).                    *)
(***************************************************************************)
EXTENDS UnitOfWork, FiniteSetTheorems, TLAPS

\* What Progress says of one request: its record, what it applied, what it answered.
Consistent(r, q, done, answer) ==
  /\ done \in {{}, Intent[r]}
  /\ q.pc \in {"new", "wait", "flush", "log", "publish", "commit"} => done = {}
  /\ q.pc = "answer" => done = Intent[r]
  /\ q.pc \in {"new", "wait", "answer", "done"} => q.tx = "none"
  /\ q.pc \in {"flush", "log", "publish", "commit"} => q.tx # "none"
  /\ q.tx # "open" => q.flushed = {}
  /\ q.pc \in {"publish", "commit"} /\ q.tx = "open" => q.flushed = Intent[r]
  /\ q.pc = "flush" =>
       IF KindOf[r] = "admin"
       THEN q.tx = "open" => q.flushed = Intent[r]
       ELSE q.tx = "open" /\ q.flushed = {} /\ KindOf[r] \in {"write", "exam", "silent"}
  /\ q.pc = "log" =>
       /\ q.tx = "open"
       /\ q.flushed = IF KindOf[r] \in {"write", "exam"} THEN {"row"} ELSE {}
       /\ KindOf[r] \notin {"silent", "read"}
  /\ answer = "none" <=> q.pc # "done"
  /\ answer = "ok" => done = Intent[r]

\* Request r now stands at q, has newly done `done', and was answered `answer'.
Moves(r, q, done, answer) ==
  /\ q \in RequestStates
  /\ requests' = [requests EXCEPT ![r] = q]
  /\ done \in SUBSET {"row", "audit"}
  /\ rows' = IF "row" \in done THEN rows \cup {r} ELSE rows
  /\ audits' = IF "audit" \in done THEN audits \cup {r} ELSE audits
  /\ answer \in {"none", "ok", "error", "lost"}
  /\ answers' = [answers EXCEPT ![r] = answer]
  /\ created_at' \in [Requests -> Nat]

\* ... as it may: with a connection that was free and a row that nobody held.
MovesWell(r, q, done, answer) ==
  /\ Moves(r, q, done, answer)
  /\ q.tx = "none" \/ requests[r].tx # "none" \/ Cardinality(Holding(WorkerOf[r])) < PoolSize
  /\ "row" \in q.flushed => "row" \in requests[r].flushed \/ RowIsFree(r)
  /\ Consistent(r, q, Applied[r] \cup done, answer)

LEMMA ProgressIsConsistent ==
  Progress <=> \A r \in Requests : Consistent(r, requests[r], Applied[r], answers[r])
BY DEF Progress, Consistent

LEMMA AppliedIs ==
  ASSUME NEW r \in Requests
  PROVE  /\ Applied[r] \in SUBSET {"row", "audit"}
         /\ "row" \in Applied[r] <=> r \in rows
         /\ "audit" \in Applied[r] <=> r \in audits
BY DEF Applied

LEMMA HoldingIsFinite ==
  ASSUME NEW w
  PROVE  IsFiniteSet(Holding(w)) /\ Cardinality(Holding(w)) \in Nat
<1>1. Holding(w) \in SUBSET Requests
  BY DEF Holding
<1> QED
  BY <1>1, RequestsAreFinite, FS_Subset, FS_CardinalityType

LEMMA AppliedAfterMove ==
  ASSUME NEW r \in Requests, NEW q, NEW done, NEW answer, Moves(r, q, done, answer)
  PROVE  /\ Applied'[r] = Applied[r] \cup done
         /\ \A p \in Requests \ {r} : Applied'[p] = Applied[p]
BY DEF Moves, Applied

\* A connection is taken from a pool that has one, or none is taken.
LEMMA PoolAfterMove ==
  ASSUME IndInv, NEW r \in Requests, NEW q, NEW done, NEW answer,
         MovesWell(r, q, done, answer), NEW w \in Workers
  PROVE  Cardinality(Holding(w)') <= PoolSize
<1> USE PoolSizeIsPositive
<1>1. requests' = [requests EXCEPT ![r] = q] /\ requests \in [Requests -> RequestStates]
  BY DEF MovesWell, Moves, IndInv, TypeOK
<1>2. Cardinality(Holding(w)) <= PoolSize
  BY DEF IndInv, TypeOK
<1>3. IsFiniteSet(Holding(w)) /\ Cardinality(Holding(w)) \in Nat
  BY HoldingIsFinite
<1>4. CASE q.tx = "none" \/ requests[r].tx # "none" \/ WorkerOf[r] # w
  <2>1. Holding(w)' \in SUBSET Holding(w)
    BY <1>1, <1>4 DEF Holding
  <2>2. IsFiniteSet(Holding(w)') /\ Cardinality(Holding(w)') <= Cardinality(Holding(w))
    BY <2>1, <1>3, FS_Subset
  <2>3. Cardinality(Holding(w)') \in Nat
    BY <2>2, FS_CardinalityType
  <2> QED
    BY <2>2, <2>3, <1>2, <1>3
<1>5. CASE ~(q.tx = "none" \/ requests[r].tx # "none" \/ WorkerOf[r] # w)
  <2>1. Holding(w)' = Holding(w) \cup {r}
    BY <1>1, <1>5 DEF Holding
  <2>2. Cardinality(Holding(w)) < PoolSize
    BY <1>5 DEF MovesWell
  <2>3. r \notin Holding(w)
    BY <1>5 DEF Holding
  <2>4. Cardinality(Holding(w) \cup {r}) = Cardinality(Holding(w)) + 1
    BY <2>3, <1>3, FS_AddElement
  <2> QED
    BY <2>1, <2>2, <2>4, <1>3, <1>5
<1> QED
  BY <1>4, <1>5

LEMMA OneMoves ==
  ASSUME IndInv, NEW r \in Requests, NEW q, NEW done, NEW answer,
         MovesWell(r, q, done, answer)
  PROVE  IndInv'
<1>1. Moves(r, q, done, answer)
  BY DEF MovesWell
<1>2. \A w \in Workers' : Cardinality(Holding(w)') <= PoolSize
  BY PoolAfterMove DEF Workers
<1>3. TypeOK'
  <2>1. /\ requests' \in [Requests -> RequestStates]
        /\ rows' \in SUBSET Requests
        /\ audits' \in SUBSET Requests
        /\ created_at' \in [Requests -> Nat]
        /\ answers' \in [Requests -> {"none", "ok", "error", "lost"}]
    BY <1>1 DEF Moves, IndInv, TypeOK
  <2>2. ASSUME NEW p1 \in Requests, NEW p2 \in Requests, RowOf[p1] = RowOf[p2],
               "row" \in requests'[p1].flushed, "row" \in requests'[p2].flushed
        PROVE  p1 = p2
    <3>1. requests \in [Requests -> RequestStates] /\ requests' = [requests EXCEPT ![r] = q]
      BY <1>1 DEF Moves, IndInv, TypeOK
    <3>2. "row" \in q.flushed => "row" \in requests[r].flushed \/ RowIsFree(r)
      BY DEF MovesWell
    <3>3. \A p, p_2 \in Requests :
            RowOf[p] = RowOf[p_2] /\ "row" \in requests[p].flushed /\ "row" \in requests[p_2].flushed
            => p = p_2
      BY DEF IndInv, TypeOK
    <3> QED
      BY <2>2, <3>1, <3>2, <3>3 DEF RowIsFree
  <2> QED
    BY <1>2, <2>1, <2>2 DEF TypeOK
<1>4. Progress'
  <2>1. ASSUME NEW p \in Requests
        PROVE  Consistent(p, requests'[p], Applied'[p], answers'[p])
    <3>1. CASE p = r
      <4>1. requests'[p] = q /\ answers'[p] = answer
        BY <1>1, <3>1 DEF Moves, IndInv, TypeOK
      <4>2. Applied'[p] = Applied[r] \cup done
        BY <1>1, <3>1, AppliedAfterMove
      <4> QED
        BY <3>1, <4>1, <4>2 DEF MovesWell
    <3>2. CASE p # r
      <4>1. requests'[p] = requests[p] /\ answers'[p] = answers[p]
        BY <1>1, <3>2 DEF Moves, IndInv, TypeOK
      <4>2. Applied'[p] = Applied[p]
        BY <1>1, <3>2, AppliedAfterMove
      <4>3. Consistent(p, requests[p], Applied[p], answers[p])
        BY ProgressIsConsistent DEF IndInv
      <4> QED
        BY <4>1, <4>2, <4>3
    <3> QED
      BY <3>1, <3>2
  <2> QED
    BY <2>1 DEF Progress, Consistent, Intent
<1> QED
  BY <1>3, <1>4 DEF IndInv

LEMMA InitEstablishesIndInv == Init => IndInv
<1> SUFFICES ASSUME Init
             PROVE  IndInv
  OBVIOUS
<1>1. \A w \in Workers : Cardinality(Holding(w)) <= PoolSize
  <2>1. \A w \in Workers : Holding(w) = {}
    BY DEF Init, Holding, NewRequest
  <2> QED
    BY <2>1, FS_EmptySet, PoolSizeIsPositive
<1>2. TypeOK
  BY <1>1 DEF Init, TypeOK, NewRequest, RequestStates
<1>3. Progress
  BY DEF Init, Progress, Applied, NewRequest
<1> QED
  BY <1>2, <1>3 DEF IndInv

\* A move whose writes are all of the request's or none, before its one answer, and that
\* answers success only if they are done.
Explains(r, q, done, answer) ==
  /\ MovesWell(r, q, done, answer)
  /\ done \in {{}, Intent[r]}
  /\ answer \in {"none", "ok", "error"}
  /\ answer = "ok" => Applied[r] = Intent[r]
  /\ answer # "none" => done = {}
  /\ answers[r] = "none"

RequestStep(r) ==
  \/ Arrive(r) \/ Queued(r) \/ Unhindered(r) \/ PoolTimeout(r)
  \/ FlushFails(r) \/ LogFails(r) \/ CommitUnheard(r) \/ CommitFails(r)

\* What is known of a request in the state before its step.
LEMMA KnownOf ==
  ASSUME IndInv, NEW r \in Requests
  PROVE  /\ Consistent(r, requests[r], Applied[r], answers[r])
         /\ requests \in [Requests -> RequestStates]
         /\ requests[r] \in RequestStates
         /\ answers \in [Requests -> {"none", "ok", "error", "lost"}]
         /\ created_at \in [Requests -> Nat]
         /\ KindOf[r] \in Kinds
         /\ Intent[r] = Effects(KindOf[r])
         /\ Applied[r] \in SUBSET {"row", "audit"}
BY ProgressIsConsistent, KindsAreKnown, AppliedIs DEF IndInv, TypeOK, Intent

LEMMA StampIsNat == Stamp \in Nat
<1>1. {r \in Requests : created_at[r] # 0} \in SUBSET Requests
  OBVIOUS
<1> QED
  BY <1>1, RequestsAreFinite, FS_Subset, FS_CardinalityType DEF Stamp

\* Any failure of a request that is under way is a move of nothing.
LEMMA FailExplains ==
  ASSUME IndInv, NEW r \in Requests, Fail(r), requests[r].pc # "done"
  PROVE  \E q, done, answer : Explains(r, q, done, answer)
<1>1. PICK q : q = [requests[r] EXCEPT !.pc = "done", !.tx = "none", !.flushed = {}]
  OBVIOUS
<1>2. q \in RequestStates /\ q.pc = "done" /\ q.tx = "none" /\ q.flushed = {}
  BY KnownOf, <1>1 DEF RequestStates
<1>3. Moves(r, q, {}, "error")
  BY KnownOf, <1>1, <1>2 DEF Fail, Moves
<1>4. Consistent(r, q, Applied[r], "error")
  BY KnownOf, <1>2 DEF Consistent
<1>5. Explains(r, q, {}, "error")
  BY KnownOf, <1>2, <1>3, <1>4 DEF Explains, MovesWell, Consistent
<1> QED
  BY <1>5

\* ... and so is what a commit makes durable a move of all the request is to do.
LEMMA CommitExplains ==
  ASSUME IndInv, NEW r \in Requests, NEW pc \in {"raise", "answer"},
         requests[r].pc = "commit", requests[r].tx = "open", Durable(r), Closed(r, pc),
         UNCHANGED <<created_at, answers>>
  PROVE  \E q, done, answer : Explains(r, q, done, answer)
<1>1. PICK q : q = [requests[r] EXCEPT !.pc = pc, !.tx = "none", !.flushed = {}]
  OBVIOUS
<1>2. requests[r].flushed = Intent[r] /\ Intent[r] \in SUBSET {"row", "audit"}
  BY KnownOf DEF Consistent, Effects
<1>3. Moves(r, q, Intent[r], "none")
  BY KnownOf, <1>1, <1>2 DEF Durable, Closed, Moves, RequestStates, Consistent
<1>4. Consistent(r, q, Applied[r] \cup Intent[r], "none")
  BY KnownOf, <1>1, <1>2 DEF Consistent, RequestStates
<1>5. Explains(r, q, Intent[r], "none")
  BY KnownOf, <1>1, <1>3, <1>4 DEF Explains, MovesWell, Consistent, RequestStates
<1> QED
  BY <1>5

\* What each action of one request moves.
LEMMA StepIsExplained ==
  ASSUME IndInv, NEW r \in Requests, RequestStep(r)
  PROVE  \E q, done, answer : Explains(r, q, done, answer)
<1> DEFINE Goal == \E q, done, answer : Explains(r, q, done, answer)
<1> USE DEF Explains, MovesWell, Moves, Consistent, RequestStates
<1>1. ASSUME Arrive(r)
      PROVE  Goal
  <2>1. PICK q : q = [requests[r] EXCEPT !.pc = "wait"]
    OBVIOUS
  <2>2. Explains(r, q, {}, "none")
    BY KnownOf, <1>1, <2>1 DEF Arrive
  <2> QED
    BY <2>2
<1>2. ASSUME Connect(r)
      PROVE  Goal
  <2>1. PICK q : q = [requests[r] EXCEPT !.pc = FirstStep(KindOf[r]), !.tx = "open"]
    OBVIOUS
  <2>2. Explains(r, q, {}, "none")
    BY KnownOf, <1>2, <2>1
    DEF Connect, FirstStep, Kinds, AuthKinds, SessionKinds, AdminKinds, Effects, Writes
  <2> QED
    BY <2>2
<1>3. ASSUME Flush(r)
      PROVE  Goal
  <2>1. PICK q : q = [requests[r] EXCEPT !.pc = AfterFlush(KindOf[r]),
                                         !.flushed = requests[r].flushed \cup {"row"}]
    OBVIOUS
  <2>2. Explains(r, q, {}, "none")
    BY KnownOf, <1>3, <2>1
    DEF Flush, GoOn, AfterFlush, Kinds, AuthKinds, SessionKinds, AdminKinds, Effects, Writes
  <2> QED
    BY <2>2
<1>4. ASSUME FlushNothing(r)
      PROVE  Goal
  <2>1. PICK q : q = [requests[r] EXCEPT !.pc = AfterFlush(KindOf[r]),
                                         !.flushed = requests[r].flushed]
    OBVIOUS
  <2>2. /\ KindOf[r] = "admin"
        /\ requests[r].tx = "failed" \/ requests[r].flushed = Intent[r]
    BY KnownOf, <1>4 DEF FlushNothing
  <2>3. /\ q \in RequestStates /\ q.pc = "commit"
        /\ q.tx = requests[r].tx /\ q.flushed = requests[r].flushed
    <3>1. requests[r] \in RequestStates
      BY KnownOf
    <3> QED
      BY <2>1, <2>2, <3>1 DEF AfterFlush
  <2>4. requests' = [requests EXCEPT ![r] = q]
    BY ZenonT(30), KnownOf, <1>4, <2>1 DEF FlushNothing, GoOn
  <2>5. Explains(r, q, {}, "none")
    BY KnownOf, <1>4, <2>2, <2>3, <2>4 DEF FlushNothing
  <2> QED
    BY <2>5
<1>5. ASSUME Log(r)
      PROVE  Goal
  <2>1. PICK q : q = [requests[r] EXCEPT !.pc = AfterLog(KindOf[r]),
                                         !.flushed = Effects(KindOf[r]) \cup {"audit"}]
    OBVIOUS
  <2>2. created_at' \in [Requests -> Nat]
    BY KnownOf, StampIsNat, <1>5 DEF Log
  <2>3. /\ requests[r].pc = "log" /\ requests[r].tx = "open" /\ answers[r] = "none"
        /\ KindOf[r] \in {"write", "exam", "admin", "failed_login", "unknown"}
        /\ requests' = [requests EXCEPT ![r] = q]
        /\ Writes(KindOf[r]) => RowIsFree(r)
        /\ UNCHANGED <<rows, audits, answers>>
    BY ZenonT(30), KnownOf, <1>5, <2>1
    DEF Log, GoOn, Kinds, AuthKinds, SessionKinds, AdminKinds
  <2>4. /\ KindOf[r] # "unknown" => Intent[r] \cup {"audit"} = Intent[r]
        /\ "row" \in Intent[r] \cup {"audit"} => Writes(KindOf[r])
        /\ Intent[r] \cup {"audit"} \in SUBSET {"row", "audit"}
    BY KnownOf, <2>3 DEF Effects, Writes
  <2>5. /\ q.pc = AfterLog(KindOf[r]) /\ q.tx = "open" /\ q.flushed = Intent[r] \cup {"audit"}
        /\ q \in RequestStates
    <3>1. requests[r] \in RequestStates
      BY KnownOf
    <3>2. AfterLog(KindOf[r]) \in {"publish", "flush", "raise", "commit"}
      BY DEF AfterLog
    <3>3. Effects(KindOf[r]) = Intent[r]
      BY KnownOf
    <3> QED
      BY <2>1, <2>3, <2>4, <3>1, <3>2, <3>3
  <2>6. Explains(r, q, {}, "none")
    BY KnownOf, <2>2, <2>3, <2>4, <2>5 DEF AfterLog
  <2> QED
    BY <2>6
<1>6. ASSUME LogFails(r)
      PROVE  Goal
  <2>1. PICK q : q = [requests[r] EXCEPT !.pc = AfterLog(KindOf[r]),
                                         !.tx = "failed", !.flushed = {}]
    OBVIOUS
  <2>2. Explains(r, q, {}, "none")
    BY KnownOf, <1>6, <2>1
    DEF LogFails, AfterLog, Kinds, AuthKinds, SessionKinds, AdminKinds
  <2> QED
    BY <2>2
<1>7. ASSUME Publish(r)
      PROVE  Goal
  <2>1. PICK q : q = [requests[r] EXCEPT !.pc = "commit", !.flushed = requests[r].flushed]
    OBVIOUS
  <2>2. q \in RequestStates /\ q.pc = "commit" /\ q.tx = "open" /\ q.flushed = Intent[r]
    <3>1. requests[r] \in RequestStates
      BY KnownOf
    <3>2. requests[r].tx = "open" /\ requests[r].flushed = Intent[r]
      BY KnownOf, <1>7 DEF Publish
    <3> QED
      BY <2>1, <3>1, <3>2
  <2>3. requests' = [requests EXCEPT ![r] = q]
    BY KnownOf, <1>7, <2>1 DEF Publish, GoOn
  <2>4. Explains(r, q, {}, "none")
    BY KnownOf, <1>7, <2>2, <2>3 DEF Publish
  <2> QED
    BY <2>4
<1>8. ASSUME Respond(r)
      PROVE  Goal
  <2>1. PICK q : q = [requests[r] EXCEPT !.pc = "done"]
    OBVIOUS
  <2>2. Explains(r, q, {}, "ok")
    BY KnownOf, <1>8, <2>1 DEF Respond
  <2> QED
    BY <2>2
<1>9. ASSUME PoolTimeout(r) \/ FlushFails(r) \/ PendingRollback(r) \/ CommitFails(r) \/ Raise(r)
      PROVE  Goal
  BY ZenonT(30), FailExplains, <1>9 DEF PoolTimeout, FlushFails, PendingRollback, CommitFails, Raise
<1>10. ASSUME Commit(r) \/ CommitUnheard(r)
       PROVE  Goal
  BY CommitExplains, <1>10 DEF Commit, CommitUnheard, AfterCommit
<1> QED
  BY <1>1, <1>2, <1>3, <1>4, <1>5, <1>6, <1>7, <1>8, <1>9, <1>10
     DEF RequestStep, Queued, Unhindered

LEMMA CrashPreservesIndInv ==
  ASSUME IndInv, NEW w \in Workers, Crash(w)
  PROVE  IndInv'
<1> DEFINE lost == {r \in Requests : InFlight(r) /\ WorkerOf[r] = w}
<1>1. /\ requests' = [r \in Requests |->
           IF r \in lost
           THEN [requests[r] EXCEPT !.pc = "done", !.tx = "none", !.flushed = {}]
           ELSE requests[r]]
      /\ answers' = [r \in Requests |-> IF r \in lost THEN "lost" ELSE answers[r]]
      /\ UNCHANGED <<rows, audits, created_at>>
  BY DEF Crash
<1>2. \A r \in Requests \ lost : requests'[r] = requests[r] /\ answers'[r] = answers[r]
  BY <1>1
<1>3. \A r \in lost :
        /\ requests'[r].pc = "done" /\ requests'[r].tx = "none" /\ requests'[r].flushed = {}
        /\ requests'[r] \in RequestStates /\ answers'[r] = "lost"
  BY <1>1 DEF IndInv, TypeOK, RequestStates
<1>4. \A r \in Requests : Applied'[r] = Applied[r]
  BY <1>1 DEF Applied
<1> HIDE DEF lost
<1>5. ASSUME NEW v \in Workers
      PROVE  Cardinality(Holding(v)') <= PoolSize
  <2>1. Holding(v)' \in SUBSET Holding(v)
    BY <1>2, <1>3 DEF Holding
  <2>2. IsFiniteSet(Holding(v)') /\ Cardinality(Holding(v)') <= Cardinality(Holding(v))
    BY <2>1, HoldingIsFinite, FS_Subset
  <2>3. Cardinality(Holding(v)') \in Nat /\ Cardinality(Holding(v)) \in Nat
    BY <2>2, HoldingIsFinite, FS_CardinalityType
  <2> QED
    BY <2>2, <2>3, PoolSizeIsPositive DEF IndInv, TypeOK
<1>6. TypeOK'
  <2>1. requests' \in [Requests -> RequestStates]
    <3>1. \A r \in Requests : requests'[r] \in RequestStates
      BY <1>2, <1>3 DEF IndInv, TypeOK
    <3> QED
      BY <1>1, <3>1
  <2>2. answers' \in [Requests -> {"none", "ok", "error", "lost"}]
    BY <1>1 DEF IndInv, TypeOK
  <2>3. \A r, q \in Requests :
          RowOf[r] = RowOf[q] /\ "row" \in requests'[r].flushed /\ "row" \in requests'[q].flushed
          => r = q
    BY <1>2, <1>3 DEF IndInv, TypeOK
  <2> QED
    BY <1>1, <1>5, <2>1, <2>2, <2>3 DEF IndInv, TypeOK, Workers
<1>7. \A r \in Requests : Consistent(r, requests'[r], Applied'[r], answers'[r])
  <2>1. ASSUME NEW r \in Requests
        PROVE  Consistent(r, requests'[r], Applied'[r], answers'[r])
    <3>1. Consistent(r, requests[r], Applied[r], answers[r])
      BY KnownOf
    <3>2. CASE r \in lost
      BY <1>3, <1>4, <3>1, <3>2 DEF Consistent
    <3>3. CASE r \notin lost
      BY <1>2, <1>4, <3>1, <3>3
    <3> QED
      BY <3>2, <3>3
  <2> QED
    BY <2>1
<1> QED
  BY <1>6, <1>7 DEF IndInv, Progress, Consistent, Intent

LEMMA NextPreservesIndInv ==
  ASSUME IndInv, [Next]_vars
  PROVE  IndInv'
<1>1. ASSUME NEW r \in Requests, RequestStep(r)
      PROVE  IndInv'
  <2>1. PICK q, done, answer : Explains(r, q, done, answer)
    BY <1>1, StepIsExplained
  <2>2. MovesWell(r, q, done, answer)
    BY <2>1 DEF Explains
  <2> QED
    BY <2>2, OneMoves
<1>2. CASE UNCHANGED vars
  <2>1. \A w : Holding(w)' = Holding(w)
    BY <1>2 DEF vars, Holding
  <2>2. TypeOK'
    BY <1>2, <2>1 DEF vars, IndInv, TypeOK, Workers
  <2>3. Applied' = Applied
    BY <1>2 DEF vars, Applied
  <2>4. Progress'
    BY <1>2, <2>3 DEF vars, IndInv, Progress, Intent
  <2> QED
    BY <2>2, <2>4 DEF IndInv
<1> QED
  BY <1>1, <1>2, CrashPreservesIndInv DEF Next, RequestStep

\* get_db and its handlers, one action of any kind of request after the other, a
\* swallowed error and a crash included, keep to the shape that IndInv describes.
THEOREM Invariance == Spec => []IndInv
<1>1. Init => IndInv
  BY InitEstablishesIndInv
<1>2. IndInv /\ [Next]_vars => IndInv'
  BY NextPreservesIndInv
<1> QED
  BY <1>1, <1>2, PTL DEF Spec

\* No pool is overdrawn and no two open transactions have written the same row.
THEOREM TypeCorrectness == Spec => []TypeOK
<1>1. IndInv => TypeOK
  BY DEF IndInv
<1> QED
  BY <1>1, Invariance, PTL

\* An answer of success is as good as the rows, whatever error was swallowed before.
THEOREM SuccessCanBeTrusted == Spec => []SuccessIsDurable
<1>1. IndInv => SuccessIsDurable
  <2> SUFFICES ASSUME IndInv, NEW r \in Requests, answers[r] = "ok"
               PROVE  /\ Writes(KindOf[r]) => r \in rows
                      /\ "audit" \in Effects(KindOf[r]) => r \in audits
    BY DEF SuccessIsDurable
  <2>1. Applied[r] = Effects(KindOf[r])
    BY KnownOf DEF Consistent
  <2>2. Writes(KindOf[r]) => "row" \in Effects(KindOf[r])
    BY DEF Effects
  <2> QED
    BY <2>1, <2>2, AppliedIs
<1> QED
  BY <1>1, Invariance, PTL

\* All or nothing, and before the answer: every step is one of AtomicRequests.
THEOREM Refinement == Spec => ImplementsAtomicRequests
<1>1. Init => Atomic!AtomicInit
  BY DEF Init, Atomic!AtomicInit, Applied
<1>2. ASSUME IndInv, [Next]_vars
      PROVE  [Atomic!AtomicNext]_(Atomic!atomicVars)
  <2>1. ASSUME NEW r \in Requests, RequestStep(r)
        PROVE  [Atomic!AtomicNext]_(Atomic!atomicVars)
    <3>1. PICK q, done, answer : Explains(r, q, done, answer)
      BY <1>2, <2>1, StepIsExplained
    <3>2. /\ Applied'[r] = Applied[r] \cup done
          /\ \A p \in Requests \ {r} : Applied'[p] = Applied[p]
      BY <3>1, AppliedAfterMove DEF Explains, MovesWell
    <3>3. /\ Applied = [p \in Requests |-> Applied[p]]
          /\ Applied' = [p \in Requests |-> Applied'[p]]
      BY DEF Applied
    <3>4. answers' = [answers EXCEPT ![r] = answer] /\ answers[r] = "none"
      BY <3>1 DEF Explains, MovesWell, Moves
    <3>5. Applied[r] \in {{}, Intent[r]}
      BY <1>2, KnownOf DEF Consistent
    <3>6. answers \in [Requests -> {"none", "ok", "error", "lost"}]
      BY <1>2, KnownOf
    <3>7. CASE answer = "none"
      <4>1. answers' = answers
        BY <3>4, <3>6, <3>7
      <4>2. CASE done = {} \/ Applied[r] = Intent[r]
        <5>1. \A p \in Requests : Applied'[p] = Applied[p]
          BY <3>1, <3>2, <4>2 DEF Explains
        <5>2. Applied' = Applied
          BY <5>1, <3>3
        <5> QED
          BY <4>1, <5>2 DEF Atomic!atomicVars
      <4>3. CASE done = Intent[r] /\ Applied[r] = {}
        <5>1. Applied'[r] = Intent[r]
          BY <3>2, <4>3
        <5>2. Applied' = [Applied EXCEPT ![r] = Intent[r]]
          BY <5>1, <3>2, <3>3
        <5>3. Atomic!Apply(r)
          BY <3>4, <4>1, <4>3, <5>2 DEF Atomic!Apply
        <5> QED
          BY <5>3 DEF Atomic!AtomicNext
      <4> QED
        BY <3>1, <3>5, <4>2, <4>3 DEF Explains
    <3>8. CASE answer # "none"
      <4>1. done = {} /\ answer \in {"ok", "error"}
        BY <3>1, <3>8 DEF Explains
      <4>2. \A p \in Requests : Applied'[p] = Applied[p]
        BY <3>2, <4>1
      <4>3. Applied' = Applied
        BY <4>2, <3>3
      <4>4. answer = "ok" => Applied[r] = Intent[r]
        BY <3>1 DEF Explains
      <4>5. Atomic!Answer(r)
        BY <3>4, <4>1, <4>3, <4>4 DEF Atomic!Answer
      <4> QED
        BY <4>5 DEF Atomic!AtomicNext
    <3> QED
      BY <3>7, <3>8
  <2>2. ASSUME NEW w \in Workers, Crash(w)
        PROVE  [Atomic!AtomicNext]_(Atomic!atomicVars)
    <3> DEFINE lost == {r \in Requests : InFlight(r) /\ WorkerOf[r] = w}
    <3>1. answers' = [r \in Requests |-> IF r \in lost THEN "lost" ELSE answers[r]]
      BY <2>2 DEF Crash
    <3>2. Applied' = Applied
      BY <2>2 DEF Crash, Applied
    <3>3. \A r \in lost : answers[r] = "none"
      BY KnownOf, <1>2 DEF Consistent, InFlight
    <3>4. Atomic!Lose(lost) /\ lost \in SUBSET Requests
      BY <3>1, <3>2, <3>3 DEF Atomic!Lose
    <3> QED
      BY <3>4 DEF Atomic!AtomicNext
  <2>3. CASE UNCHANGED vars
    BY <2>3 DEF vars, Applied, Atomic!atomicVars
  <2> QED
    BY <1>2, <2>1, <2>2, <2>3 DEF Next, RequestStep
<1> QED
  BY <1>1, <1>2, Invariance, PTL DEF Spec, ImplementsAtomicRequests, Atomic!AtomicSpec

-------------------------------------------------------------------------------
(***************************************************************************)
(* Nobody waits for ever in a circle: the guards of Queued and Unhindered, *)
(* as a predicate, and whom a request waits for.  ENABLED is beyond the    *)
(* provers; this is what EveryRequestEnds needs of each single state.      *)
(***************************************************************************)
CanGoOn(r) ==
  \/ requests[r].pc = "wait" /\ Cardinality(Holding(WorkerOf[r])) < PoolSize
  \/ /\ requests[r].pc = "flush"
     /\ requests[r].tx = "failed" \/ "row" \in requests[r].flushed \/ RowIsFree(r)
  \/ requests[r].pc = "log" /\ (Writes(KindOf[r]) => RowIsFree(r))
  \/ requests[r].pc \in {"publish", "commit", "raise", "answer"}

HoldsRow(r) == "row" \in requests[r].flushed

\* Whoever has written a row waits for nothing, whoever has a connection waits at most for
\* one who has written the same row, and whoever has none for one that has.
NobodyIsStuck ==
  /\ \A r \in Requests : HoldsRow(r) => CanGoOn(r)
  /\ \A r \in Requests : requests[r].tx # "none" =>
       CanGoOn(r) \/ \E q \in Requests : RowOf[q] = RowOf[r] /\ HoldsRow(q) /\ CanGoOn(q)
  /\ \A r \in Requests : InFlight(r) =>
       \/ CanGoOn(r)
       \/ \E q \in Requests : CanGoOn(q) /\ (HoldsRow(q) \/ q \in Holding(WorkerOf[r]))

\* In no state are all requests in flight waiting: no order of connections, row locks and
\* swallowed errors makes them wait for each other (db/session.py, lines 11-36).
THEOREM NoDeadlock == Spec => []NobodyIsStuck
<1>1. IndInv => NobodyIsStuck
  <2> SUFFICES ASSUME IndInv PROVE NobodyIsStuck
    OBVIOUS
  <2>1. ASSUME NEW r \in Requests, HoldsRow(r)
        PROVE  CanGoOn(r)
    <3>1. RowIsFree(r)
      BY <2>1 DEF IndInv, TypeOK, RowIsFree, HoldsRow
    <3>2. requests[r].tx = "open" /\ requests[r] \in RequestStates
      BY <2>1 DEF IndInv, TypeOK, Progress, HoldsRow, RequestStates
    <3>3. requests[r].pc \in {"flush", "log", "publish", "commit", "raise"}
      BY <3>2 DEF IndInv, Progress, RequestStates
    <3> QED
      BY <2>1, <3>1, <3>3 DEF CanGoOn, HoldsRow
  <2>2. ASSUME NEW r \in Requests, requests[r].tx # "none"
        PROVE  \/ CanGoOn(r)
               \/ \E q \in Requests : RowOf[q] = RowOf[r] /\ HoldsRow(q) /\ CanGoOn(q)
    <3>1. requests[r].pc \in {"flush", "log", "publish", "commit", "raise"}
      BY <2>2 DEF IndInv, TypeOK, Progress, RequestStates
    <3>2. CASE RowIsFree(r)
      BY <3>1, <3>2 DEF CanGoOn
    <3>3. CASE ~RowIsFree(r)
      BY <2>1, <3>3 DEF RowIsFree, HoldsRow
    <3> QED
      BY <3>2, <3>3
  <2>3. ASSUME NEW r \in Requests, InFlight(r)
        PROVE  \/ CanGoOn(r)
               \/ \E q \in Requests : CanGoOn(q) /\ (HoldsRow(q) \/ q \in Holding(WorkerOf[r]))
    <3>1. requests[r].pc \in {"wait", "flush", "log", "publish", "commit", "raise", "answer"}
      BY <2>3 DEF InFlight, IndInv, TypeOK, RequestStates
    <3>2. CASE requests[r].pc = "wait"
      <4>1. CASE Cardinality(Holding(WorkerOf[r])) < PoolSize
        BY <3>2, <4>1 DEF CanGoOn
      <4>2. CASE ~(Cardinality(Holding(WorkerOf[r])) < PoolSize)
        <5>1. Holding(WorkerOf[r]) # {}
          BY <4>2, FS_EmptySet, PoolSizeIsPositive
        <5>2. PICK q \in Requests : q \in Holding(WorkerOf[r]) /\ requests[q].tx # "none"
          BY <5>1 DEF Holding
        <5> QED
          BY <2>2, <5>2
      <4> QED
        BY <4>1, <4>2
    <3>3. CASE requests[r].pc \in {"flush", "log"}
      BY <2>2, <3>3 DEF IndInv, Progress
    <3> QED
      BY <3>1, <3>2, <3>3 DEF CanGoOn
  <2> QED
    BY <2>1, <2>2, <2>3 DEF NobodyIsStuck
<1> QED
  BY <1>1, Invariance, PTL

-----------------------------------------------------------------------------
(***************************************************************************)
(* A request never goes back: each step takes one request, or all of a     *)
(* worker that dies, nearer to its end, and none further away.  So n       *)
(* requests take 7 * n steps at most.                                      *)
(***************************************************************************)
StepsLeft(r) ==
  LET admin == KindOf[r] = "admin"
  IN CASE requests[r].pc = "new" -> 7
       [] requests[r].pc = "wait" -> 6
       [] requests[r].pc = "flush" -> IF admin THEN 4 ELSE 5
       [] requests[r].pc = "log" -> IF admin THEN 5 ELSE 4
       [] requests[r].pc = "publish" -> 3
       [] requests[r].pc = "commit" -> 2
       [] requests[r].pc \in {"raise", "answer"} -> 1
       [] OTHER -> 0

EveryStepCounts ==
  [][/\ \A r \in Requests : StepsLeft(r)' <= StepsLeft(r)
     /\ \E r \in Requests : StepsLeft(r)' < StepsLeft(r)]_vars

LEMMA StepsLeftIsNatural ==
  ASSUME NEW r \in Requests
  PROVE  StepsLeft(r) \in 0..7 /\ StepsLeft(r)' \in 0..7
BY DEF StepsLeft

\* A step of one request brings it nearer to its end.
LEMMA RequestsAdvance ==
  ASSUME IndInv, NEW r \in Requests,
         \/ Arrive(r) \/ Queued(r) \/ Unhindered(r) \/ PoolTimeout(r) \/ FlushFails(r)
         \/ LogFails(r) \/ CommitUnheard(r) \/ CommitFails(r)
  PROVE  /\ StepsLeft(r)' < StepsLeft(r)
         /\ \A q \in Requests \ {r} : StepsLeft(q)' = StepsLeft(q)
<1> USE DEF IndInv, TypeOK, RequestStates
<1>1. KindOf[r] \in Kinds
  BY KindsAreKnown
<1>2. /\ requests[r].pc = "flush" => KindOf[r] \in {"write", "exam", "silent", "admin"}
      /\ requests[r].pc = "log" => KindOf[r] \notin {"silent", "read"}
  BY DEF Progress
<1>3. /\ requests'[r].pc \in {"done", "wait"} \cup {FirstStep(KindOf[r]), AfterFlush(KindOf[r]),
           AfterLog(KindOf[r]), "commit", AfterCommit(KindOf[r]), "raise"}
      /\ \A q \in Requests \ {r} : requests'[q] = requests[q]
  BY DEF Arrive, Queued, Unhindered, PoolTimeout, FlushFails, LogFails, CommitUnheard,
     CommitFails, Connect, Flush, Log, FlushNothing, Publish, PendingRollback, Commit, Raise,
     Respond, Fail, GoOn, Closed
<1>4. \A q \in Requests \ {r} : StepsLeft(q)' = StepsLeft(q)
  BY <1>3 DEF StepsLeft
<1>5. CASE Arrive(r) \/ Connect(r)
  BY <1>1, <1>4, <1>5
  DEF Arrive, Connect, FirstStep, Kinds, AuthKinds, SessionKinds, AdminKinds, StepsLeft
<1>6. CASE Flush(r) \/ FlushNothing(r)
  BY <1>2, <1>4, <1>6 DEF Flush, FlushNothing, GoOn, AfterFlush, StepsLeft
<1>7. CASE Log(r) \/ LogFails(r)
  BY <1>1, <1>2, <1>4, <1>7
  DEF Log, LogFails, GoOn, AfterLog, Kinds, AuthKinds, SessionKinds, AdminKinds, StepsLeft
<1>8. CASE Publish(r) \/ Commit(r) \/ CommitUnheard(r)
  BY <1>1, <1>4, <1>8 DEF Publish, Commit, CommitUnheard, GoOn, Closed, AfterCommit, StepsLeft
<1>9. CASE \/ PendingRollback(r) \/ Raise(r) \/ Respond(r) \/ PoolTimeout(r)
           \/ FlushFails(r) \/ CommitFails(r)
  BY <1>4, <1>9 DEF PendingRollback, Raise, Respond, PoolTimeout, FlushFails, CommitFails,
     Fail, StepsLeft
<1> QED
  BY <1>5, <1>6, <1>7, <1>8, <1>9 DEF Queued, Unhindered

\* A crash ends what is in flight with the worker; if nothing is, it changes nothing.
LEMMA CrashEndsRequests ==
  ASSUME IndInv, NEW w \in Workers, Crash(w), ~(UNCHANGED vars)
  PROVE  /\ \A r \in Requests : StepsLeft(r)' <= StepsLeft(r)
         /\ \E r \in Requests : StepsLeft(r)' < StepsLeft(r)
<1> DEFINE lost == {r \in Requests : InFlight(r) /\ WorkerOf[r] = w}
<1>1. \A r \in Requests :
        /\ r \in lost => requests'[r].pc = "done"
        /\ r \notin lost => requests'[r] = requests[r] /\ answers'[r] = answers[r]
  BY DEF Crash, IndInv, TypeOK, RequestStates
<1>2. \A r \in Requests : r \notin lost => StepsLeft(r)' = StepsLeft(r)
  BY <1>1 DEF StepsLeft
<1>3. \A r \in Requests : r \in lost => StepsLeft(r)' < StepsLeft(r)
  BY <1>1 DEF IndInv, TypeOK, RequestStates, InFlight, StepsLeft
<1>4. lost # {}
  <2> SUFFICES ASSUME lost = {} PROVE FALSE
    OBVIOUS
  <2>1. requests' = [r \in Requests |-> requests'[r]] /\ answers' = [r \in Requests |-> answers'[r]]
    BY DEF Crash
  <2>2. requests' = requests /\ answers' = answers
    BY <1>1, <2>1 DEF IndInv, TypeOK
  <2> QED
    BY <2>2 DEF Crash, vars
<1> QED
  BY <1>2, <1>3, <1>4, StepsLeftIsNatural

\* Every step of the service brings some request nearer to its answer and none further
\* away: no request is served in circles (db/session.py, lines 24-36).
THEOREM RequestsAreFinitelyLong == Spec => EveryStepCounts
<1>1. ASSUME IndInv, [Next]_vars, ~(UNCHANGED vars)
      PROVE  /\ \A r \in Requests : StepsLeft(r)' <= StepsLeft(r)
             /\ \E r \in Requests : StepsLeft(r)' < StepsLeft(r)
  <2>1. ASSUME NEW r \in Requests,
               \/ Arrive(r) \/ Queued(r) \/ Unhindered(r) \/ PoolTimeout(r) \/ FlushFails(r)
               \/ LogFails(r) \/ CommitUnheard(r) \/ CommitFails(r)
        PROVE  /\ \A q \in Requests : StepsLeft(q)' <= StepsLeft(q)
               /\ \E q \in Requests : StepsLeft(q)' < StepsLeft(q)
    BY <1>1, <2>1, RequestsAdvance, StepsLeftIsNatural
  <2>2. ASSUME NEW w \in Workers, Crash(w)
        PROVE  /\ \A q \in Requests : StepsLeft(q)' <= StepsLeft(q)
               /\ \E q \in Requests : StepsLeft(q)' < StepsLeft(q)
    BY <1>1, <2>2, CrashEndsRequests
  <2> QED
    BY <1>1, <2>1, <2>2 DEF Next
<1>2. IndInv /\ [Next]_vars =>
        [/\ \A r \in Requests : StepsLeft(r)' <= StepsLeft(r)
         /\ \E r \in Requests : StepsLeft(r)' < StepsLeft(r)]_vars
  BY <1>1
<1> QED
  BY <1>2, Invariance, PTL DEF Spec, EveryStepCounts

===============================================================================
