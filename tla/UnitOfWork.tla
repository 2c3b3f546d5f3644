----------------------------- MODULE UnitOfWork -----------------------------
(***************************************************************************)
(* One request and its transaction, whatever the request is about: get_db  *)
(* (db/session.py) with its connection pool, the flush of the handler, the *)
(* audit row that a request adds (audit_service.py), the event, the commit *)
(* and the answer (exceptions.py).  The modules of the components take     *)
(* flush, audit row and commit for one step, or two; this one takes them   *)
(* apart, and shows that what they rely on is what the client sees.        *)
(*                                                                         *)
(* An audit row that cannot be inserted is logged and swallowed.  It takes *)
(* the transaction with it: PostgreSQL has rolled it back, the Session     *)
(* refuses every statement until get_db rolls it back, too, and a flush    *)
(* with nothing left to write passes.                                      *)
(*                                                                         *)
(* Besides its audit row a request writes one row, of a user or a session. *)
(* Those that write the same row wait for each other, the others do not.   *)
(***************************************************************************)
EXTENDS Naturals, FiniteSets

CONSTANTS
  Requests,   \* requests that are ever sent
  KindOf,     \* what each of them is about: one of Kinds
  RowOf,      \* the row that each writes, if it writes one
  WorkerOf,   \* which uvicorn worker accepts it; each has a pool of its own
  PoolSize    \* pool_size + max_overflow

VARIABLES
  requests,   \* where each request and its transaction stand
  rows,       \* requests whose write to their row is durable
  audits,     \* requests whose audit row is durable
  created_at, \* when each request stamped its audit row; 0 if it did not
  answers     \* what each client was told

vars == <<requests, rows, audits, created_at, answers>>

(***************************************************************************)
(* What the routes do, in this order:                                      *)
(*   write         flush, audit row, commit: register, login, accept,      *)
(*                 invite, change-password, logout, terminate              *)
(*   exam          flush, audit row, event, commit: start and end an exam  *)
(*   admin         audit row and row in one flush, another flush, commit:  *)
(*                 lock, unlock, disable, enable                           *)
(*   silent        flush, commit: refresh, revoke an invitation, profile   *)
(*   failed_login  audit row and counter in one flush, commit, 401         *)
(*   unknown       audit row, 401: a login of a number nobody has          *)
(*   read          commit                                                  *)
(***************************************************************************)
AuthKinds == {"write", "silent", "failed_login", "unknown"}

SessionKinds == {"read", "write", "exam"}

AdminKinds == {"write", "read", "silent", "admin"}

Kinds == AuthKinds \cup SessionKinds \cup AdminKinds

ASSUME KindsAreKnown == KindOf \in [Requests -> Kinds]
ASSUME PoolSizeIsPositive == PoolSize \in Nat \ {0}
ASSUME RequestsAreFinite == IsFiniteSet(Requests)

Writes(kind) == kind \in {"write", "exam", "admin", "silent", "failed_login"}

\* The audit row of an unknown number is flushed, and rolled back with the 401.
Effects(kind) ==
  {e \in {"row", "audit"} :
     IF e = "row" THEN Writes(kind) ELSE kind \in {"write", "exam", "admin", "failed_login"}}

FirstStep(kind) ==
  IF kind \in {"write", "exam", "silent"} THEN "flush" ELSE IF kind = "read" THEN "commit" ELSE "log"

AfterFlush(kind) == IF kind \in {"write", "exam"} THEN "log" ELSE "commit"

AfterLog(kind) ==
  CASE kind = "exam" -> "publish"
    [] kind = "admin" -> "flush"
    [] kind = "unknown" -> "raise"
    [] OTHER -> "commit"

AfterCommit(kind) == IF kind = "failed_login" THEN "raise" ELSE "answer"

(***************************************************************************)
(* tx: open from the first statement, failed once a flush failed.  Either  *)
(* way the request holds a connection.  flushed: what its transaction has  *)
(* written and nobody else sees.                                           *)
(***************************************************************************)
RequestStates ==
  [pc : {"new", "wait", "flush", "log", "publish", "commit", "raise", "answer", "done"},
   tx : {"none", "open", "failed"}, flushed : SUBSET {"row", "audit"}]

NewRequest == [pc |-> "new", tx |-> "none", flushed |-> {}]

Workers == {WorkerOf[r] : r \in Requests}

Holding(w) == {r \in Requests : WorkerOf[r] = w /\ requests[r].tx # "none"}

InFlight(r) == requests[r].pc \notin {"new", "done"}

\* The row lock goes with the transaction that wrote the row.
RowIsFree(r) ==
  \A q \in Requests \ {r} : RowOf[q] = RowOf[r] => "row" \notin requests[q].flushed

Stamp == Cardinality({r \in Requests : created_at[r] # 0}) + 1

GoOn(r, pc, flushed) ==
  requests' = [requests EXCEPT ![r].pc = pc, ![r].flushed = flushed]

-----------------------------------------------------------------------------
Init ==
  /\ requests = [r \in Requests |-> NewRequest]
  /\ rows = {}
  /\ audits = {}
  /\ created_at = [r \in Requests |-> 0]
  /\ answers = [r \in Requests |-> "none"]

Arrive(r) ==
  /\ requests[r].pc = "new"
  /\ requests' = [requests EXCEPT ![r].pc = "wait"]
  /\ UNCHANGED <<rows, audits, created_at, answers>>

\* Mutant of Connect: a max_overflow of -1.
Connect_NoLimit(r) ==
  /\ requests[r].pc = "wait"
  /\ requests' = [requests EXCEPT ![r].pc = FirstStep(KindOf[r]), ![r].tx = "open"]
  /\ UNCHANGED <<rows, audits, created_at, answers>>

\* The first SELECT takes a connection of the worker's pool, if there is one.
Connect(r) ==
  /\ requests[r].pc = "wait"
  /\ Cardinality(Holding(WorkerOf[r])) < PoolSize
  /\ requests' = [requests EXCEPT ![r].pc = FirstStep(KindOf[r]), ![r].tx = "open"]
  /\ UNCHANGED <<rows, audits, created_at, answers>>

\* Mutant of Fail: get_db without "finally: await session.close()".
Fail_KeepsConnection(r) ==
  /\ requests' = [requests EXCEPT ![r].pc = "done", ![r].flushed = {}]
  /\ answers' = [answers EXCEPT ![r] = "error"]
  /\ UNCHANGED <<rows, audits, created_at>>

\* An exception in the handler or in the commit: get_db rolls back, closes and raises
\* it again, and an exception handler answers with the error.
Fail(r) ==
  /\ requests' = [requests EXCEPT ![r].pc = "done", ![r].tx = "none", ![r].flushed = {}]
  /\ answers' = [answers EXCEPT ![r] = "error"]
  /\ UNCHANGED <<rows, audits, created_at>>

PoolTimeout(r) == requests[r].pc = "wait" /\ Fail(r)

\* Mutant of Flush: the service commits its rows itself.
Flush_Commits(r) ==
  /\ requests[r].pc = "flush"
  /\ requests[r].tx = "open"
  /\ "row" \notin requests[r].flushed
  /\ RowIsFree(r)
  /\ GoOn(r, AfterFlush(KindOf[r]), {})
  /\ rows' = rows \cup {r}
  /\ UNCHANGED <<audits, created_at, answers>>

\* The UPDATE waits for the row.
Flush(r) ==
  /\ requests[r].pc = "flush"
  /\ requests[r].tx = "open"
  /\ "row" \notin requests[r].flushed
  /\ RowIsFree(r)
  /\ GoOn(r, AfterFlush(KindOf[r]), requests[r].flushed \cup {"row"})
  /\ UNCHANGED <<rows, audits, created_at, answers>>

\* Nothing is left to write: the audit row took the row along, or down.
FlushNothing(r) ==
  /\ requests[r].pc = "flush"
  /\ requests[r].tx = "failed" \/ "row" \in requests[r].flushed
  /\ GoOn(r, AfterFlush(KindOf[r]), requests[r].flushed)
  /\ UNCHANGED <<rows, audits, created_at, answers>>

FlushFails(r) ==
  /\ requests[r].pc = "flush"
  /\ requests[r].tx = "open"
  /\ "row" \notin requests[r].flushed
  /\ Fail(r)

\* Mutant of Log: audit rows have a session of their own, and need a connection for it.
Log_OwnConnection(r) ==
  /\ requests[r].pc = "log"
  /\ Cardinality(Holding(WorkerOf[r])) < PoolSize
  /\ Writes(KindOf[r]) => RowIsFree(r)
  /\ GoOn(r, AfterLog(KindOf[r]), Effects(KindOf[r]) \cup {"audit"})
  /\ created_at' = [created_at EXCEPT ![r] = Stamp]
  /\ UNCHANGED <<rows, audits, answers>>

\* log: the flush inserts the audit row and whatever the handler has left unwritten.
Log(r) ==
  /\ requests[r].pc = "log"
  /\ Writes(KindOf[r]) => RowIsFree(r)
  /\ GoOn(r, AfterLog(KindOf[r]), Effects(KindOf[r]) \cup {"audit"})
  /\ created_at' = [created_at EXCEPT ![r] = Stamp]
  /\ UNCHANGED <<rows, audits, answers>>

\* Mutant of LogFails: the audit row has a savepoint, and the handler goes on without it.
LogFails_Savepoint(r) ==
  /\ requests[r].pc = "log"
  /\ GoOn(r, AfterLog(KindOf[r]), Effects(KindOf[r]) \cap {"row"})
  /\ UNCHANGED <<rows, audits, created_at, answers>>

\* The error is swallowed; the transaction is gone, its row lock with it.
LogFails(r) ==
  /\ requests[r].pc = "log"
  /\ requests' = [requests EXCEPT ![r].pc = AfterLog(KindOf[r]),
                                  ![r].tx = "failed", ![r].flushed = {}]
  /\ UNCHANGED <<rows, audits, created_at, answers>>

\* The event is handed to Redis, or not: publish_event swallows its errors, too.
\* (What the event says is in ExamSessions.)
Publish(r) ==
  /\ requests[r].pc = "publish"
  /\ requests[r].tx = "open"
  /\ GoOn(r, "commit", requests[r].flushed)
  /\ UNCHANGED <<rows, audits, created_at, answers>>

\* The next statement, attribute of a row or commit of a failed transaction raises.
PendingRollback(r) ==
  /\ requests[r].pc \in {"publish", "commit"}
  /\ requests[r].tx = "failed"
  /\ Fail(r)

Durable(r) ==
  /\ rows' = IF "row" \in requests[r].flushed THEN rows \cup {r} ELSE rows
  /\ audits' = IF "audit" \in requests[r].flushed THEN audits \cup {r} ELSE audits

Closed(r, pc) ==
  requests' = [requests EXCEPT ![r].pc = pc, ![r].tx = "none", ![r].flushed = {}]

\* The commit that get_db sends after the handler; a failed login sends its own.
Commit(r) ==
  /\ requests[r].pc = "commit"
  /\ requests[r].tx = "open"
  /\ Durable(r)
  /\ Closed(r, AfterCommit(KindOf[r]))
  /\ UNCHANGED <<created_at, answers>>

\* PostgreSQL commits, but the connection breaks before it says so.
CommitUnheard(r) ==
  /\ requests[r].pc = "commit"
  /\ requests[r].tx = "open"
  /\ Durable(r)
  /\ Closed(r, "raise")
  /\ UNCHANGED <<created_at, answers>>

CommitFails(r) ==
  /\ requests[r].pc = "commit"
  /\ requests[r].tx = "open"
  /\ Fail(r)

Raise(r) == requests[r].pc = "raise" /\ Fail(r)

Respond(r) ==
  /\ requests[r].pc = "answer"
  /\ requests' = [requests EXCEPT ![r].pc = "done"]
  /\ answers' = [answers EXCEPT ![r] = "ok"]
  /\ UNCHANGED <<rows, audits, created_at>>

\* A worker dies, and all its requests with it; another one takes its place.
Crash(w) ==
  LET lost == {r \in Requests : InFlight(r) /\ WorkerOf[r] = w}
  IN /\ requests' = [r \in Requests |->
          IF r \in lost
          THEN [requests[r] EXCEPT !.pc = "done", !.tx = "none", !.flushed = {}]
          ELSE requests[r]]
     /\ answers' = [r \in Requests |-> IF r \in lost THEN "lost" ELSE answers[r]]
     /\ UNCHANGED <<rows, audits, created_at>>

\* Steps that need a connection or the row, and steps that need nothing.
Queued(r) == Connect(r) \/ Flush(r) \/ Log(r)

Unhindered(r) ==
  \/ FlushNothing(r) \/ Publish(r) \/ PendingRollback(r)
  \/ Commit(r) \/ Raise(r) \/ Respond(r)

Next ==
  \/ \E r \in Requests :
       \/ Arrive(r)
       \/ Queued(r)
       \/ Unhindered(r)
       \/ PoolTimeout(r)
       \/ FlushFails(r)
       \/ LogFails(r)
       \/ CommitUnheard(r)
       \/ CommitFails(r)
  \/ \E w \in Workers : Crash(w)

Spec == Init /\ [][Next]_vars

(***************************************************************************)
(* The pool and PostgreSQL's lock queue serve those who wait in turn       *)
(* (strong); what waits for nothing is done sooner or later (weak).        *)
(* Nothing makes a timeout fire, a statement fail or a worker die.         *)
(***************************************************************************)
Fairness == \A r \in Requests : SF_vars(Queued(r)) /\ WF_vars(Unhindered(r))

FairSpec == Spec /\ Fairness

-----------------------------------------------------------------------------
\* Requests keep their shape, a pool is never overdrawn, and one transaction at a time has
\* written a given row (db/session.py, lines 11-36).
TypeOK ==
  /\ requests \in [Requests -> RequestStates]
  /\ rows \in SUBSET Requests
  /\ audits \in SUBSET Requests
  /\ created_at \in [Requests -> Nat]
  /\ answers \in [Requests -> {"none", "ok", "error", "lost"}]
  /\ \A w \in Workers : Cardinality(Holding(w)) <= PoolSize
  /\ \A r, q \in Requests :
       /\ RowOf[r] = RowOf[q]
       /\ "row" \in requests[r].flushed
       /\ "row" \in requests[q].flushed
       => r = q

Applied == [r \in Requests |->
  {e \in {"row", "audit"} : r \in IF e = "row" THEN rows ELSE audits}]

Intent == [r \in Requests |-> Effects(KindOf[r])]

\* What is durable, and what an open transaction has flushed, at each point of a request.
Progress ==
  \A r \in Requests :
    /\ Applied[r] \in {{}, Intent[r]}
    /\ requests[r].pc \in {"new", "wait", "flush", "log", "publish", "commit"} => Applied[r] = {}
    /\ requests[r].pc = "answer" => Applied[r] = Intent[r]
    /\ requests[r].pc \in {"new", "wait", "answer", "done"} => requests[r].tx = "none"
    /\ requests[r].pc \in {"flush", "log", "publish", "commit"} => requests[r].tx # "none"
    /\ requests[r].tx # "open" => requests[r].flushed = {}
    /\ requests[r].pc \in {"publish", "commit"} /\ requests[r].tx = "open" =>
         requests[r].flushed = Intent[r]
    /\ requests[r].pc = "flush" =>
         IF KindOf[r] = "admin"
         THEN requests[r].tx = "open" => requests[r].flushed = Intent[r]
         ELSE /\ requests[r].tx = "open" /\ requests[r].flushed = {}
              /\ KindOf[r] \in {"write", "exam", "silent"}
    /\ requests[r].pc = "log" =>
         /\ requests[r].tx = "open"
         /\ requests[r].flushed = IF KindOf[r] \in {"write", "exam"} THEN {"row"} ELSE {}
         /\ KindOf[r] \notin {"silent", "read"}
    /\ answers[r] = "none" <=> requests[r].pc # "done"
    /\ answers[r] = "ok" => Applied[r] = Intent[r]

\* No step, taken from any state with this shape, breaks it.
IndInv == TypeOK /\ Progress

\* A client that is told of success can rely on the tables, the audit row included,
\* although nobody is told of the error that kept it from being inserted
\* (audit_service.py, lines 34-37).
SuccessIsDurable ==
  \A r \in Requests : answers[r] = "ok" =>
    /\ Writes(KindOf[r]) => r \in rows
    /\ "audit" \in Effects(KindOf[r]) => r \in audits

\* Whatever fails, swallowed or not, and whoever dies, row and audit row of a request
\* come together or not at all, and before its answer: the promise of AtomicRequests.
Atomic == INSTANCE AtomicRequests
  WITH applied <- Applied

ImplementsAtomicRequests == Atomic!AtomicSpec

\* Every request that arrives ends, although requests wait for connections of a pool
\* and, holding one, for a row: nobody waits for a second connection, and no error
\* path keeps one (db/session.py, lines 27-36).
EveryRequestEnds == \A r \in Requests : InFlight(r) ~> ~InFlight(r)

=============================================================================
