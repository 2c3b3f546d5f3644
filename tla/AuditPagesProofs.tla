--------------------------- MODULE AuditPagesProofs ---------------------------
(***************************************************************************)
(* ReaderMissesNothing for any requests, page size and interleaving.  The  *)
(* step that needs an argument is the last page: why nothing is left when  *)
(* a page is short (FullPage).                                             *)
(***************************************************************************)
EXTENDS AuditPages, UnitOfWorkProofs, FunctionTheorems

Stamped == {r \in Requests : created_at[r] # 0}

\* A request stamps its audit row once, when it flushes it, and later than all before.
StampsInOrder ==
  /\ \A r \in Requests : created_at[r] <= Cardinality(Stamped)
  /\ \A r, q \in Stamped : created_at[r] = created_at[q] => r = q
  /\ \A r \in Requests :
       /\ requests[r].pc \in {"new", "wait", "log"} => created_at[r] = 0
       /\ requests[r].pc = "flush" /\ KindOf[r] # "admin" => created_at[r] = 0
       /\ "audit" \in requests[r].flushed \/ r \in audits => created_at[r] # 0

PagesInv ==
  /\ IndInv
  /\ StampsInOrder
  /\ page \in Nat
  /\ before \in SUBSET audits
  /\ ReaderMissesNothing

\* Rows never go away, and keep their stamp.
RowsStay ==
  /\ audits \subseteq audits'
  /\ \A r \in audits : created_at'[r] = created_at[r]

LEMMA StampedIsFinite == IsFiniteSet(Stamped) /\ Cardinality(Stamped) \in Nat
<1>1. Stamped \in SUBSET Requests
  BY DEF Stamped
<1> QED
  BY <1>1, RequestsAreFinite, FS_Subset, FS_CardinalityType

LEMMA NewerIsFinite ==
  ASSUME IndInv, NEW r
  PROVE  IsFiniteSet(Newer(r)) /\ Cardinality(Newer(r)) \in Nat
<1>1. Newer(r) \in SUBSET Requests
  BY DEF Newer, IndInv, TypeOK
<1> QED
  BY <1>1, RequestsAreFinite, FS_Subset, FS_CardinalityType

-------------------------------------------------------------------------------
\* A request that is not stamped flushes its audit row.
LEMMA LogStampsLast ==
  ASSUME IndInv, StampsInOrder, NEW r \in Requests, Log(r)
  PROVE  StampsInOrder' /\ RowsStay
<1> USE DEF StampsInOrder
<1>1. /\ requests[r].pc = "log" /\ created_at[r] = 0 /\ r \notin audits
      /\ created_at \in [Requests -> Nat] /\ requests \in [Requests -> RequestStates]
      /\ audits \in SUBSET Requests
  BY DEF Log, IndInv, TypeOK
<1>2. /\ created_at' = [created_at EXCEPT ![r] = Cardinality(Stamped) + 1]
      /\ audits' = audits
      /\ requests'[r].pc = AfterLog(KindOf[r])
      /\ requests'[r].flushed = Effects(KindOf[r]) \cup {"audit"}
      /\ \A q \in Requests \ {r} : requests'[q] = requests[q]
  BY <1>1 DEF Log, GoOn, Stamp, Stamped, RequestStates
<1>3. Stamped' = Stamped \cup {r} /\ r \notin Stamped
  BY <1>1, <1>2, StampedIsFinite DEF Stamped
<1>4. Cardinality(Stamped') = Cardinality(Stamped) + 1
  BY <1>3, StampedIsFinite, FS_AddElement
<1>5. /\ created_at'[r] = Cardinality(Stamped) + 1
      /\ \A q \in Requests \ {r} : created_at'[q] = created_at[q]
  BY <1>1, <1>2
<1>6. \A q \in Requests : created_at'[q] <= Cardinality(Stamped')
  BY <1>1, <1>4, <1>5, StampedIsFinite
<1>7. \A p, q \in Stamped' : created_at'[p] = created_at'[q] => p = q
  BY <1>1, <1>3, <1>5, StampedIsFinite DEF Stamped
<1>8. requests'[r].pc \notin {"new", "wait", "log"} /\ (requests'[r].pc = "flush" => KindOf[r] = "admin")
  BY <1>2 DEF AfterLog
<1>9. \A q \in Requests :
        /\ requests'[q].pc \in {"new", "wait", "log"} => created_at'[q] = 0
        /\ requests'[q].pc = "flush" /\ KindOf[q] # "admin" => created_at'[q] = 0
        /\ "audit" \in requests'[q].flushed \/ q \in audits' => created_at'[q] # 0
  BY <1>2, <1>5, <1>8, StampedIsFinite
<1>10. RowsStay
  BY <1>1, <1>2, <1>5 DEF RowsStay
<1> QED
  BY <1>6, <1>7, <1>9, <1>10

\* Whatever else a request does leaves the stamps alone.
LEMMA OthersKeepStamps ==
  ASSUME IndInv, StampsInOrder, NEW r \in Requests, RequestStep(r), ~Log(r)
  PROVE  StampsInOrder' /\ RowsStay
<1>1. /\ requests \in [Requests -> RequestStates]
      /\ Consistent(r, requests[r], Applied[r], answers[r])
      /\ KindOf[r] \in Kinds
  BY KnownOf
<1>2. created_at' = created_at
  BY DEF RequestStep, Queued, Unhindered, Arrive, Connect, Flush, FlushNothing, Publish,
         PendingRollback, Commit, CommitUnheard, CommitFails, Raise, Respond, PoolTimeout,
         FlushFails, LogFails, Fail
<1>3. \A q \in Requests \ {r} : requests'[q] = requests[q]
  BY <1>1 DEF RequestStep, Queued, Unhindered, Arrive, Connect, Flush, FlushNothing, Publish,
         PendingRollback, Commit, CommitUnheard, CommitFails, Raise, Respond, PoolTimeout,
         FlushFails, LogFails, Fail, GoOn, Closed
<1>4. audits' = audits \/ (audits' = audits \cup {r} /\ "audit" \in requests[r].flushed)
  BY DEF RequestStep, Queued, Unhindered, Arrive, Connect, Flush, FlushNothing, Publish,
         PendingRollback, Commit, CommitUnheard, CommitFails, Raise, Respond, PoolTimeout,
         FlushFails, LogFails, Fail, Durable
<1>5. "audit" \in requests'[r].flushed => "audit" \in requests[r].flushed
  BY <1>1 DEF RequestStep, Queued, Unhindered, Arrive, Connect, Flush, FlushNothing, Publish,
         PendingRollback, Commit, CommitUnheard, CommitFails, Raise, Respond, PoolTimeout,
         FlushFails, LogFails, Fail, GoOn, Closed, RequestStates
<1>6. requests'[r].pc \in {"new", "wait", "log"} \/ (requests'[r].pc = "flush" /\ KindOf[r] # "admin")
      => \/ requests[r].pc \in {"new", "wait", "log"}
         \/ requests[r].pc = "flush" /\ KindOf[r] # "admin"
  BY <1>1 DEF RequestStep, Queued, Unhindered, Arrive, Connect, Flush, FlushNothing, Publish,
         PendingRollback, Commit, CommitUnheard, CommitFails, Raise, Respond, PoolTimeout,
         FlushFails, LogFails, Fail, GoOn, Closed, RequestStates, AfterFlush, AfterLog,
         AfterCommit, Consistent
<1>7. Stamped' = Stamped
  BY <1>2 DEF Stamped
<1>8. \A q \in Requests :
        /\ requests'[q].pc \in {"new", "wait", "log"} => created_at'[q] = 0
        /\ requests'[q].pc = "flush" /\ KindOf[q] # "admin" => created_at'[q] = 0
        /\ "audit" \in requests'[q].flushed \/ q \in audits' => created_at'[q] # 0
  BY <1>2, <1>3, <1>4, <1>5, <1>6 DEF StampsInOrder
<1> QED
  BY <1>2, <1>4, <1>7, <1>8 DEF StampsInOrder, RowsStay

LEMMA CrashKeepsStamps ==
  ASSUME IndInv, StampsInOrder, NEW w \in Workers, Crash(w)
  PROVE  StampsInOrder' /\ RowsStay
<1>1. /\ created_at' = created_at /\ audits' = audits
      /\ \A r \in Requests :
           \/ requests'[r] = requests[r]
           \/ requests'[r].pc = "done" /\ requests'[r].flushed = {}
  BY DEF Crash, IndInv, TypeOK, RequestStates
<1> QED
  BY <1>1 DEF StampsInOrder, Stamped, RowsStay

LEMMA NextKeepsStamps ==
  ASSUME IndInv, StampsInOrder, [Next]_vars
  PROVE  StampsInOrder' /\ RowsStay
<1>1. CASE UNCHANGED vars
  BY <1>1 DEF vars, StampsInOrder, Stamped, RowsStay
<1> QED
  BY <1>1, LogStampsLast, OthersKeepStamps, CrashKeepsStamps DEF Next, RequestStep

-------------------------------------------------------------------------------
\* The rank of a row, the number of newer ones, is its own: the newer of two rows has
\* the smaller one.
LEMMA RanksDiffer ==
  ASSUME IndInv, StampsInOrder, NEW q \in audits, NEW p \in audits,
         created_at[q] > created_at[p]
  PROVE  Newer(q) \subseteq Newer(p) /\ Cardinality(Newer(q)) # Cardinality(Newer(p))
<1>1. created_at \in [Requests -> Nat] /\ audits \in SUBSET Requests
  BY DEF IndInv, TypeOK
<1>2. Newer(q) \in SUBSET Newer(p) /\ q \in Newer(p) /\ q \notin Newer(q)
  BY <1>1 DEF Newer
<1> QED
  BY <1>2, NewerIsFinite, FS_Subset

\* Rows r and newer have all the ranks from 0 to that of r.
LEMMA NoRankIsMissing ==
  ASSUME IndInv, StampsInOrder, NEW r \in audits, NEW k \in 0..Cardinality(Newer(r))
  PROVE  \E q \in audits : Cardinality(Newer(q)) = k
<1> DEFINE S == Newer(r) \cup {r}
           N == Cardinality(Newer(r))
           rank == [q \in S |-> Cardinality(Newer(q))]
<1>1. created_at \in [Requests -> Nat] /\ audits \in SUBSET Requests
  BY DEF IndInv, TypeOK
<1>2. IsFiniteSet(Newer(r)) /\ N \in Nat /\ r \notin Newer(r)
  BY <1>1, NewerIsFinite DEF Newer
<1>3. IsFiniteSet(S) /\ Cardinality(S) = N + 1
  BY <1>2, FS_AddElement
<1>4. IsFiniteSet(0..N) /\ Cardinality(0..N) = N + 1
  BY <1>2, FS_Interval
<1>5. \A q \in S : q \in audits /\ rank[q] \in 0..N
  <2>1. ASSUME NEW q \in S
        PROVE  q \in audits /\ Cardinality(Newer(q)) \in 0..N
    <3>1. q \in audits /\ Newer(q) \in SUBSET Newer(r)
      BY <1>1 DEF Newer
    <3>2. Cardinality(Newer(q)) <= N /\ Cardinality(Newer(q)) \in Nat
      BY <3>1, NewerIsFinite, FS_Subset
    <3> QED
      BY <1>2, <3>1, <3>2
  <2> QED
    BY <2>1
<1>6. \A q, p \in S : rank[q] = rank[p] => q = p
  <2>1. ASSUME NEW q \in S, NEW p \in S, q # p
        PROVE  Cardinality(Newer(q)) # Cardinality(Newer(p))
    <3>1. q \in audits /\ p \in audits /\ created_at[q] # created_at[p]
      BY <1>1, <1>5, <2>1 DEF StampsInOrder, Stamped
    <3>2. created_at[q] > created_at[p] \/ created_at[p] > created_at[q]
      BY <1>1, <3>1
    <3> QED
      BY <3>1, <3>2, RanksDiffer
  <2> QED
    BY <2>1
<1>7. rank \in Injection(S, 0..N)
  BY <1>5, <1>6 DEF Injection, IsInjective
<1>8. rank \in Surjection(S, 0..N)
  BY <1>3, <1>4, <1>7, FS_Injection
<1>9. PICK q \in S : rank[q] = k
  BY <1>8 DEF Surjection
<1> QED
  BY <1>5, <1>9

\* If a row is still to come after a page, the page is full.
LEMMA FullPage ==
  ASSUME IndInv, StampsInOrder, NEW r \in audits, NEW n \in Nat \ {0},
         Cardinality(Newer(r)) >= n * PageSize
  PROVE  Cardinality(OnPage(n)) >= PageSize
<1> DEFINE P == ((n - 1) * PageSize)..(n * PageSize - 1)
           row == [k \in P |-> CHOOSE q \in audits : Cardinality(Newer(q)) = k]
<1>1. PageSize \in Nat /\ PageSize > 0
  BY PageSizeIsPositive
<1>2. (n - 1) * PageSize \in Nat /\ n * PageSize = (n - 1) * PageSize + PageSize
  BY <1>1
<1>3. IsFiniteSet(P) /\ Cardinality(P) = PageSize
  BY <1>1, <1>2, FS_Interval
<1>4. P \subseteq 0..Cardinality(Newer(r))
  BY <1>1, <1>2, NewerIsFinite
<1>5. \A k \in P : row[k] \in audits /\ Cardinality(Newer(row[k])) = k
  BY <1>4, NoRankIsMissing
<1>6. row \in Injection(P, OnPage(n))
  BY <1>5 DEF OnPage, Injection, IsInjective
<1>7. OnPage(n) \in SUBSET Requests
  BY DEF OnPage, IndInv, TypeOK
<1>8. IsFiniteSet(OnPage(n)) /\ Cardinality(OnPage(n)) \in Nat
  BY <1>7, RequestsAreFinite, FS_Subset, FS_CardinalityType
<1> QED
  BY <1>3, <1>6, <1>8, FS_Injection

-------------------------------------------------------------------------------
LEMMA InitEstablishesPagesInv == PagesInit => PagesInv
<1> SUFFICES ASSUME PagesInit
             PROVE  PagesInv
  OBVIOUS
<1>1. Init
  BY DEF PagesInit
<1>2. StampsInOrder
  <2>1. Stamped = {}
    BY <1>1 DEF Init, Stamped
  <2>2. Cardinality(Stamped) = 0
    BY <2>1, FS_EmptySet
  <2> QED
    BY <1>1, <2>1, <2>2 DEF Init, StampsInOrder, NewRequest
<1> QED
  BY <1>1, <1>2, InitEstablishesIndInv DEF PagesInit, PagesInv, ReaderMissesNothing, Init

\* New rows only push the rows that are left further down.
LEMMA WritersShiftDown ==
  ASSUME PagesInv, [Next]_vars, UNCHANGED pageVars
  PROVE  PagesInv'
<1>1. IndInv' /\ StampsInOrder' /\ RowsStay
  BY NextPreservesIndInv, NextKeepsStamps DEF PagesInv
<1>2. page' = page /\ seen' = seen /\ before' = before
  BY DEF pageVars
<1>3. ASSUME NEW r \in before \ seen
      PROVE  page # 0 /\ Cardinality(Newer(r)') >= (page - 1) * PageSize
  <2>1. page \in Nat /\ page # 0 /\ Cardinality(Newer(r)) >= (page - 1) * PageSize
    BY <1>3 DEF PagesInv, ReaderMissesNothing
  <2>2. r \in audits
    BY <1>3 DEF PagesInv
  <2>3. Newer(r) \in SUBSET (Newer(r)')
    BY <1>1, <2>2 DEF Newer, RowsStay
  <2>4. Newer(r)' \in SUBSET Requests
    BY <1>1 DEF Newer, IndInv, TypeOK
  <2>5. IsFiniteSet(Newer(r)') /\ Cardinality(Newer(r)') \in Nat
    BY <2>4, RequestsAreFinite, FS_Subset, FS_CardinalityType
  <2>6. Cardinality(Newer(r)) <= Cardinality(Newer(r)') /\ Cardinality(Newer(r)) \in Nat
    BY <2>3, <2>5, FS_Subset, FS_CardinalityType
  <2>7. (page - 1) * PageSize \in Int
    BY <2>1, PageSizeIsPositive
  <2> QED
    BY <2>1, <2>5, <2>6, <2>7
<1>4. ReaderMissesNothing'
  BY <1>2, <1>3 DEF ReaderMissesNothing
<1> QED
  BY <1>1, <1>2, <1>4 DEF PagesInv, RowsStay

LEMMA PageIsComplete ==
  ASSUME PagesInv, ReadPage, UNCHANGED vars
  PROVE  PagesInv'
<1>1. IndInv' /\ StampsInOrder' /\ audits' = audits /\ created_at' = created_at
  BY NextPreservesIndInv, NextKeepsStamps DEF PagesInv, vars
<1>2. page \in Nat \ {0} /\ before' = before /\ page' \in Nat
  BY DEF ReadPage, PagesInv
<1>3. ASSUME NEW r \in before, r \notin seen'
      PROVE  page' = page + 1 /\ Cardinality(Newer(r)) >= page * PageSize
  <2>1. r \in audits /\ r \notin OnPage(page) /\ r \notin seen
    BY <1>3 DEF PagesInv, ReadPage
  <2>2. Cardinality(Newer(r)) >= (page - 1) * PageSize
    BY <1>3, <2>1 DEF PagesInv, ReaderMissesNothing
  <2>3. IndInv /\ StampsInOrder
    BY DEF PagesInv
  <2>4. Cardinality(Newer(r)) \in Nat
    BY <2>3, NewerIsFinite
  <2>5. page * PageSize \in Int /\ (page - 1) * PageSize \in Int
    BY <1>2, PageSizeIsPositive
  <2>6. Cardinality(Newer(r)) >= page * PageSize
    BY <2>1, <2>2, <2>4, <2>5 DEF OnPage
  <2>7. Cardinality(OnPage(page)) >= PageSize
    BY <1>2, <2>1, <2>3, <2>6, FullPage
  <2>8. OnPage(page) \in SUBSET Requests
    BY <2>3 DEF OnPage, IndInv, TypeOK
  <2>9. Cardinality(OnPage(page)) \in Nat
    BY <2>8, RequestsAreFinite, FS_Subset, FS_CardinalityType
  <2> QED
    BY <2>6, <2>7, <2>9, PageSizeIsPositive DEF ReadPage
<1>4. \A r : Newer(r)' = Newer(r)
  BY <1>1 DEF Newer
<1>5. ReaderMissesNothing'
  BY <1>2, <1>3, <1>4 DEF ReaderMissesNothing
<1> QED
  BY <1>1, <1>2, <1>5 DEF PagesInv

LEMMA StartSeesAll ==
  ASSUME PagesInv, StartReading, UNCHANGED vars
  PROVE  PagesInv'
<1>1. IndInv' /\ StampsInOrder' /\ audits' = audits /\ created_at' = created_at
  BY NextPreservesIndInv, NextKeepsStamps DEF PagesInv, vars
<1>2. \A r : Newer(r)' = Newer(r)
  BY <1>1 DEF Newer
<1>3. \A r : Cardinality(Newer(r)) \in Nat
  BY NewerIsFinite DEF PagesInv
<1>4. page' = 1 /\ before' = audits
  BY DEF StartReading
<1>5. (page' - 1) * PageSize = 0
  BY <1>4, PageSizeIsPositive
<1>6. ReaderMissesNothing'
  BY <1>2, <1>3, <1>4, <1>5 DEF ReaderMissesNothing
<1> QED
  BY <1>1, <1>4, <1>6 DEF PagesInv

\* GET /admin/audit-logs, read page by page while requests commit audit rows, shows every
\* row there was when the reader began.
THEOREM ReaderSeesEveryRow == PagesSpec => []ReaderMissesNothing
<1>1. PagesInit => PagesInv
  BY InitEstablishesPagesInv
<1>2. PagesInv /\ [PagesNext]_<<vars, pageVars>> => PagesInv'
  BY WritersShiftDown, PageIsComplete, StartSeesAll DEF PagesNext, Read, vars, pageVars
<1>3. PagesInv => ReaderMissesNothing
  BY DEF PagesInv
<1> QED
  BY <1>1, <1>2, <1>3, PTL DEF PagesSpec

===============================================================================
