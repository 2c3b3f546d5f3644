---------------------------- MODULE ExamSessions ----------------------------
(***************************************************************************)
(* Exams on sessions: the exam columns of the sessions table, and the two  *)
(* requests that write them, POST /sessions/exam/start and /exam/end       *)
(* (api/v1/session.py, session_service.py).                                *)
(*                                                                         *)
(* The bearer check reads the session row; the handler decides on that     *)
(* object; the flush writes the columns it changed and holds the row until *)
(* the commit; the event goes to Redis between the two.  Opening a session *)
(* and closing it (SessionTokens) are one step each here.                  *)
(***************************************************************************)
EXTENDS Naturals, FiniteSets

CONSTANTS
  Users, Sessions, Requests, Exams,
  NoUser,       \* the row has not been inserted
  NoSession,    \* the request names none
  NoExam,       \* exam_id is NULL
  MaxDuration,  \* MAX_EXAM_DURATION_HOURS
  Lifetime,     \* REFRESH_TOKEN_EXPIRE_DAYS, of a new session
  MaxTime       \* bound: the clock stops there

ASSUME NoneIsAValue == NoUser \notin Users /\ NoSession \notin Sessions /\ NoExam \notin Exams
ASSUME RowsAndRequestsAreFinite == IsFiniteSet(Sessions) /\ IsFiniteSet(Requests)
ASSUME TimesAreNat == MaxDuration \in Nat /\ Lifetime \in Nat /\ MaxTime \in Nat

VARIABLES
  sessions,   \* the exam columns of the sessions table, as committed
  requests,   \* the exam requests in flight
  published,  \* the starts of exams, on a session, whose event reached Redis
  lost,       \* and those whose publish failed, with a warning in the log
  now         \* the clock

vars == <<sessions, requests, published, lost, now>>

Rows ==
  [user : Users \cup {NoUser}, is_active : BOOLEAN, is_exam_active : BOOLEAN,
   exam_id : Exams \cup {NoExam}, exam_started_at : Nat, expires_at : Nat]

NoRow ==
  [user |-> NoUser, is_active |-> FALSE, is_exam_active |-> FALSE,
   exam_id |-> NoExam, exam_started_at |-> 0, expires_at |-> 0]

(***************************************************************************)
(* pc: what the request does next.  read: the row as the bearer check saw  *)
(* it, at readAt.  new: the object once the handler has changed it.        *)
(***************************************************************************)
RequestStates ==
  [pc : {"idle", "check", "start", "end", "publish", "commit"},
   session : Sessions \cup {NoSession}, exam : Exams \cup {NoExam},
   read : Rows, new : Rows, readAt : Nat]

NoRequest ==
  [pc |-> "idle", session |-> NoSession, exam |-> NoExam,
   read |-> NoRow, new |-> NoRow, readAt |-> 0]

Respond(r) == requests' = [requests EXCEPT ![r] = NoRequest]

\* The open sessions with an exam, as the SELECT of start_exam_session finds them.
ExamsOf(u) ==
  {s \in Sessions : sessions[s].user = u /\ sessions[s].is_exam_active /\ sessions[s].is_active}

\* The request has flushed an UPDATE of the row and not committed it; an object that
\* did not change is not flushed.
Holds(r, s) ==
  /\ requests[r].pc \in {"publish", "commit"}
  /\ requests[r].session = s
  /\ requests[r].new # requests[r].read

\* The starts for which publish_event has returned, whatever became of the event.
Announced == published \cup lost

Held(s) == \E q \in Requests : Holds(q, s)

-----------------------------------------------------------------------------
\* Mutant of Started: the expiry stays where login put it.
Started_KeepsExpiry(row, exam, t) ==
  [row EXCEPT !.is_exam_active = TRUE, !.exam_id = exam, !.exam_started_at = t]

\* Mutant of Started: the end of the exam is stored as its start.
Started_AtItsEnd(row, exam, t) ==
  [row EXCEPT !.is_exam_active = TRUE,
              !.exam_id = exam,
              !.exam_started_at = t + MaxDuration,
              !.expires_at = IF @ < t + MaxDuration THEN t + MaxDuration ELSE @]

\* start_exam_session, past its check: a session never expires before its exam.
Started(row, exam, t) ==
  [row EXCEPT !.is_exam_active = TRUE,
              !.exam_id = exam,
              !.exam_started_at = t,
              !.expires_at = IF @ < t + MaxDuration THEN t + MaxDuration ELSE @]

\* end_exam_session
Ended(row) == [row EXCEPT !.is_exam_active = FALSE, !.exam_id = NoExam]

\* Mutant of Written: every column is in the UPDATE, changed or not.
Written_AllColumns(old, read, new) == new

\* The UPDATE names a column only if its value differs from the one that was read.
Column(old, read, new) == IF new # read THEN new ELSE old

Written(old, read, new) ==
  [user |-> old.user,
   is_active |-> Column(old.is_active, read.is_active, new.is_active),
   is_exam_active |-> Column(old.is_exam_active, read.is_exam_active, new.is_exam_active),
   exam_id |-> Column(old.exam_id, read.exam_id, new.exam_id),
   exam_started_at |-> Column(old.exam_started_at, read.exam_started_at, new.exam_started_at),
   expires_at |-> Column(old.expires_at, read.expires_at, new.expires_at)]

-----------------------------------------------------------------------------
Init ==
  /\ sessions = [s \in Sessions |-> NoRow]
  /\ requests = [r \in Requests |-> NoRequest]
  /\ published = {}
  /\ lost = {}
  /\ now = 0

\* create_session, for a login or a registration.
OpenSession(u, s) ==
  /\ sessions[s] = NoRow
  /\ sessions' = [sessions EXCEPT ![s] =
       [NoRow EXCEPT !.user = u, !.is_active = TRUE, !.expires_at = now + Lifetime]]
  /\ UNCHANGED <<requests, published, lost, now>>

\* Logout, DELETE /sessions/{id}, logout-all or change-password closes the session.
CloseSession(s) ==
  /\ sessions[s].is_active
  /\ ~Held(s)
  /\ sessions' = [sessions EXCEPT ![s].is_active = FALSE]
  /\ UNCHANGED <<requests, published, lost, now>>

\* The bearer check of either request.
Begin(r, s, pc, exam) ==
  /\ requests[r].pc = "idle"
  /\ sessions[s].is_active
  /\ requests' = [requests EXCEPT ![r] =
       [NoRequest EXCEPT !.pc = pc, !.session = s, !.exam = exam,
                         !.read = sessions[s], !.new = sessions[s], !.readAt = now]]
  /\ UNCHANGED <<sessions, published, lost, now>>

BeginStart(r, s, exam) == Begin(r, s, "check", exam)

BeginEnd(r, s) == Begin(r, s, "end", NoExam)

\* Mutant of CheckNoExam: the query asks about this session, not about the user.
CheckNoExam_OwnSession(r) ==
  /\ requests[r].pc = "check"
  /\ \/ /\ requests[r].session \notin ExamsOf(requests[r].read.user)
        /\ requests' = [requests EXCEPT ![r].pc = "start"]
     \/ /\ requests[r].session \in ExamsOf(requests[r].read.user)
        /\ Respond(r)
  /\ UNCHANGED <<sessions, published, lost, now>>

\* One exam is a 409; several make scalar_one_or_none raise, which is a 500.
CheckNoExam(r) ==
  /\ requests[r].pc = "check"
  /\ \/ /\ ExamsOf(requests[r].read.user) = {}
        /\ requests' = [requests EXCEPT ![r].pc = "start"]
     \/ /\ ExamsOf(requests[r].read.user) # {}
        /\ Respond(r)
  /\ UNCHANGED <<sessions, published, lost, now>>

\* The object changes and is flushed, which waits for another holder of the row.
Flush(r, new) ==
  /\ new = requests[r].read \/ ~Held(requests[r].session)
  /\ requests' = [requests EXCEPT ![r].pc = "publish", ![r].new = new]
  /\ UNCHANGED <<sessions, published, lost, now>>

\* The clock is read after the row, and its resolution is finer than a query takes.
FlushStart(r) ==
  /\ requests[r].pc = "start"
  /\ \E t \in (requests[r].readAt + 1)..now :
       Flush(r, Started(requests[r].read, requests[r].exam, t))

FlushEnd(r) ==
  /\ requests[r].pc = "end"
  /\ Flush(r, Ended(requests[r].read))

\* Mutant of Publish: the handler goes on, and the event is sent after the response.
Publish_Later(r) ==
  /\ requests[r].pc = "publish"
  /\ requests' = [requests EXCEPT ![r].pc = "commit"]
  /\ UNCHANGED <<sessions, published, lost, now>>

\* publish_event, before the commit.  Redis gets the event, or the call raises and the
\* error is logged and swallowed: the handler goes on to the commit either way.  Events
\* of an exam's end are not recorded: the table then shows no exam to compare them with.
Publish(r) ==
  LET start == {<<requests[r].session, requests[r].exam>>} \cap (Sessions \X Exams)
  IN /\ requests[r].pc = "publish"
     /\ requests' = [requests EXCEPT ![r].pc = "commit"]
     /\ \/ published' = published \cup start /\ UNCHANGED lost
        \/ lost' = lost \cup start /\ UNCHANGED published
     /\ UNCHANGED <<sessions, now>>

Commit(r) ==
  LET s == requests[r].session
  IN /\ requests[r].pc = "commit"
     /\ sessions' = [sessions EXCEPT ![s] = Written(@, requests[r].read, requests[r].new)]
     /\ Respond(r)
     /\ UNCHANGED <<published, lost, now>>

\* The request fails and get_db rolls back; an event that was sent stays sent.
Abort(r) ==
  /\ requests[r].pc # "idle"
  /\ Respond(r)
  /\ UNCHANGED <<sessions, published, lost, now>>

Tick ==
  /\ now < MaxTime
  /\ now' = now + 1
  /\ UNCHANGED <<sessions, requests, published, lost>>

Next ==
  \/ \E u \in Users, s \in Sessions : OpenSession(u, s)
  \/ \E s \in Sessions : CloseSession(s)
  \/ \E r \in Requests, s \in Sessions :
       \/ BeginEnd(r, s)
       \/ \E exam \in Exams : BeginStart(r, s, exam)
  \/ \E r \in Requests :
       \/ CheckNoExam(r)
       \/ FlushStart(r)
       \/ FlushEnd(r)
       \/ Publish(r)
       \/ Commit(r)
       \/ Abort(r)
  \/ Tick

Spec == Init /\ [][Next]_vars

-----------------------------------------------------------------------------
\* Rows and requests keep their shape, a row is held by one request at most, and no exam
\* in a row starts in the future (models/session.py; session_service.py, lines 91-95).
TypeOK ==
  /\ sessions \in [Sessions -> Rows]
  /\ requests \in [Requests -> RequestStates]
  /\ Announced \subseteq Sessions \X Exams
  /\ now \in 0..MaxTime
  /\ \A s \in Sessions, r, q \in Requests : Holds(r, s) /\ Holds(q, s) => r = q
  /\ \A s \in Sessions : sessions[s].exam_started_at <= now

\* However starts and ends of the same session overtake each other, the session does
\* not expire before its exam can be over (session_service.py, lines 91-97).
ExamFitsSession ==
  \A s \in Sessions :
    sessions[s].is_exam_active => sessions[s].expires_at >= sessions[s].exam_started_at + MaxDuration

\* A row with an exam in it, running or over, has the time it started, and fits it; an
\* open one has a user.
RowsFit ==
  \A s \in Sessions :
    /\ sessions[s].is_active => sessions[s].user # NoUser
    /\ sessions[s].is_exam_active => sessions[s].exam_started_at # 0
    /\ sessions[s].exam_started_at # 0 =>
         sessions[s].expires_at >= sessions[s].exam_started_at + MaxDuration

\* What a request has read is old, and what it has flushed is an exam's start or end.
RequestsAreExamRequests ==
  \A r \in Requests : requests[r].pc # "idle" =>
    LET q == requests[r]
    IN /\ q.session \in Sessions
       /\ q.read.user # NoUser
       /\ q.read.user = sessions[q.session].user
       /\ q.readAt <= now
       /\ q.read.exam_started_at <= q.readAt
       /\ q.pc \in {"check", "start"} => q.exam \in Exams
       /\ q.pc = "end" => q.exam = NoExam
       /\ q.pc \in {"publish", "commit"} =>
            \/ q.exam \in Exams /\ \E t \in (q.readAt + 1)..now : q.new = Started(q.read, q.exam, t)
            \/ q.exam = NoExam /\ q.new = Ended(q.read)
       /\ q.pc = "commit" /\ q.exam # NoExam => <<q.session, q.exam>> \in Announced

\* An expiry that lies further ahead than an exam lasts is the one of the login, and
\* nobody has ever seen a smaller one.
FarExpiryIsLeast ==
  \A s \in Sessions, r \in Requests :
    requests[r].pc # "idle" /\ requests[r].session = s =>
      /\ sessions[s].expires_at > now + MaxDuration =>
           requests[r].read.expires_at >= sessions[s].expires_at
      /\ requests[r].read.expires_at > requests[r].readAt + MaxDuration =>
           /\ sessions[s].expires_at >= requests[r].read.expires_at
           /\ \A q \in Requests : requests[q].pc # "idle" /\ requests[q].session = s =>
                requests[q].read.expires_at >= requests[r].read.expires_at

\* An exam request that read an open session does not reopen it when it was closed
\* meanwhile (api/v1/session.py, lines 90-92; is_active is not in its UPDATE).
ClosedStaysClosed ==
  [][\A s \in Sessions : sessions[s].user # NoUser /\ ~sessions[s].is_active =>
       ~sessions'[s].is_active]_vars

\* The table is never ahead of publish_event: nobody can see an exam on a session before
\* the attempt to announce it there has ended, and when Redis did not get the event the
\* failure is in the log (api/v1/session.py, line 101, before the commit of get_db;
\* redis.py, lines 42-43).  That Redis got it is not promised.
NoExamBeforeItsEvent ==
  \A s \in Sessions :
    sessions[s].exam_id # NoExam => <<s, sessions[s].exam_id>> \in Announced

\* No step, taken from any state with this shape, breaks it.
IndInv ==
  /\ TypeOK
  /\ RowsFit
  /\ RequestsAreExamRequests
  /\ FarExpiryIsLeast
  /\ NoExamBeforeItsEvent

\* The starts of the user's exams that have found none running.
Admitted(u) ==
  {r \in Requests : requests[r].read.user = u /\ requests[r].exam # NoExam
                      /\ requests[r].pc \in {"start", "publish", "commit"}}

\* A user's exams, running or past the check for one, are never more than the requests
\* that overlap: one, if they come one at a time (session_service.py, lines 80-89).
ExamsPerOverlap ==
  \A u \in Users : Cardinality(ExamsOf(u)) + Cardinality(Admitted(u)) <= Cardinality(Requests)

=============================================================================
